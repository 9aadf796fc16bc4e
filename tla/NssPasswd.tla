----------------------------- MODULE NssPasswd -----------------------------
(***************************************************************************)
(* The lookups of libnss-remoteuser (passwd.c) as pure functions of the    *)
(* /etc/passwd file, the caller's buffer length and whether fopen worked.  *)
(*                                                                         *)
(* A line of the file is abstracted to what p_search tests: a comment or   *)
(* blank line (skipped), a line with no colon at all (the name's TOCOLON   *)
(* fails), a well-formed entry, or an entry whose later fields are         *)
(* malformed (a non-numeric uid or gid, a missing colon, a colon in the    *)
(* shell); its length in bytes including the newline; and whether it ends  *)
(* with a newline (only the last line of a file can lack one).             *)
(***************************************************************************)
EXTENDS Naturals, Sequences

CONSTANTS
  LOCALUSER,     \* s_config.h: the template account ("admin")
  REMOTEUSER,    \* s_config.h: the name getpwuid reports ("remoteuser")
  REMOTEUID,     \* s_config.h: the uid shared by remote users (10000)
  FileNames,     \* names that occur in the file
  LineLens,      \* byte lengths of a line, newline included
  LineUids,      \* uid fields of the file's entries
  Newlines,      \* whether a line may end without a newline: {TRUE} or BOOLEAN
  MaxFileLines   \* bound: lines in the file

Lines ==
  [kind : {"entry", "badfield"}, name : FileNames, uid : LineUids,
   len : LineLens, nl : Newlines]
  \cup [kind : {"skip", "nocolon"}, name : {"-"}, uid : {0}, len : LineLens, nl : Newlines]

\* fgets only returns a line without its newline at the end of the file.
Files ==
  UNION {{f \in [1..n -> Lines] : \A i \in 1..(n - 1) : f[i].nl} : n \in 0..MaxFileLines}

\* strlen of a name: names are strings, sequences of characters.
NameLen(n) == Len(n)

ASSUME NssPasswdAssumption ==
  /\ LOCALUSER \in FileNames
  /\ REMOTEUID \in Nat \ {0}
  /\ NameLen(REMOTEUSER) \in Nat
  /\ LineLens \subseteq Nat \ {0}
  /\ LineUids \subseteq Nat
  /\ TRUE \in Newlines /\ Newlines \subseteq BOOLEAN
  /\ MaxFileLines \in Nat

Status == {"SUCCESS", "NOTFOUND", "UNAVAIL", "TRYAGAIN"}

\* A result: the nss_status, *errnop, and for SUCCESS pw_uid and the index
\* of the line the other fields were copied from.
Res(s, e) == [status |-> s, errno |-> e, uid |-> 0, at |-> 0]

TryAgain == Res("TRYAGAIN", "ERANGE")

\* One turn of p_search's loop returns on line l (rather than continuing):
\* fgets overwrote the sentinel at buffer[B-1], or the line has no newline,
\* or TOCOLON finds no colon in the name, or the name is the target's.
\* Comments and blank lines (kind "skip") and other names continue.
Returns(l, target, B) ==
  \/ l.len + 1 >= B
  \/ ~l.nl
  \/ l.kind = "nocolon"
  \/ l.kind \in {"entry", "badfield"} /\ l.name = target

\* What that turn returns, the line being line i of the file.
LineResult(l, i, B) ==
  IF l.len + 1 >= B \/ ~l.nl THEN TryAgain
  ELSE IF l.kind \in {"nocolon", "badfield"} THEN Res("UNAVAIL", "0")
  ELSE [status |-> "SUCCESS", errno |-> "0", uid |-> l.uid, at |-> i]

(***************************************************************************)
(* p_search(NULL, target, 0, ...) with a buffer of B bytes: the loop's     *)
(* answer is the one of the first line on which it returns, NOTFOUND at    *)
(* the end of the file.  Every call in passwd.c passes uid 0, so the uid   *)
(* filter never skips a line.  fopen may fail (opened = FALSE).  B = 0 is  *)
(* the buffer getpwnam_r leaves when the name fills the caller's buffer    *)
(* exactly: the sentinel store goes to buffer[-1] and fgets(buffer, 0, ...)*)
(* returns NULL without EOF.  With B = 1 fgets stores only the terminator, *)
(* over the sentinel.                                                      *)
(***************************************************************************)
PSearch(f, target, B, opened) ==
  LET S     == {i \in DOMAIN f : Returns(f[i], target, B)}
      first == CHOOSE i \in S : \A j \in S : i <= j
  IN  IF ~opened THEN Res("UNAVAIL", "EIO")
      ELSE IF B = 0 THEN Res("UNAVAIL", "stale")
      ELSE IF B = 1 THEN TryAgain
      ELSE IF S = {} THEN Res("NOTFOUND", "ENOENT")
      ELSE LineResult(f[first], first, B)

\* getpwnam_r's switch on the first search, with a "default: break" that
\* lets a failed search through to the template lookup.
GetPwNamIgnoreSearchError(f, n, B, o1, o2) ==
  IF NameLen(n) >= B THEN TryAgain
  ELSE LET B1   == B - (NameLen(n) + 1)
           own  == PSearch(f, n, B1, o1)
           tmpl == PSearch(f, LOCALUSER, B1, o2)
       IN  IF own.status = "SUCCESS" THEN Res("NOTFOUND", "0")
           ELSE IF tmpl.status # "SUCCESS" THEN tmpl
           ELSE [status |-> "SUCCESS", errno |-> "0", uid |-> REMOTEUID, at |-> tmpl.at]

(***************************************************************************)
(* _nss_remoteuser_getpwnam_r: copy the name into the caller's buffer      *)
(* (TRYAGAIN if it does not fit), search the rest of the buffer for a      *)
(* local entry of that name (found: NOTFOUND, so the local one is used),   *)
(* then for LOCALUSER, whose gid, dir and shell the remote entry copies.   *)
(***************************************************************************)
GetPwNam(f, n, B, o1, o2) ==
  IF NameLen(n) >= B THEN TryAgain
  ELSE LET B1   == B - (NameLen(n) + 1)
           own  == PSearch(f, n, B1, o1)
           tmpl == PSearch(f, LOCALUSER, B1, o2)
       IN  IF own.status = "SUCCESS" THEN Res("NOTFOUND", "0")
           ELSE IF own.status # "NOTFOUND" THEN own
           ELSE IF tmpl.status # "SUCCESS" THEN tmpl
           ELSE [status |-> "SUCCESS", errno |-> "0", uid |-> REMOTEUID, at |-> tmpl.at]

\* _nss_remoteuser_getpwuid_r: only REMOTEUID is known, as REMOTEUSER with
\* LOCALUSER's fields, pw_uid included (result->pw_uid = localuser.pw_uid).
GetPwUid(f, u, B, o) ==
  IF NameLen(REMOTEUSER) >= B THEN TryAgain
  ELSE LET B1   == B - (NameLen(REMOTEUSER) + 1)
           tmpl == PSearch(f, LOCALUSER, B1, o)
       IN  IF u # REMOTEUID THEN Res("NOTFOUND", "0")
           ELSE IF tmpl.status # "SUCCESS" THEN tmpl
           ELSE [status |-> "SUCCESS", errno |-> "0", uid |-> tmpl.uid, at |-> tmpl.at]

\* setpwent and endpwent succeed and getpwent_r finds nothing: remote
\* users cannot be enumerated.
Enumerate == Res("NOTFOUND", "0")

\* A caller's request and the entry point that serves it.
Lookup(f, q, B, o1, o2) ==
  IF q.fn = "getpwnam" THEN GetPwNam(f, q.name, B, o1, o2)
  ELSE IF q.fn = "getpwuid" THEN GetPwUid(f, q.uid, B, o1)
  ELSE Enumerate

=============================================================================
