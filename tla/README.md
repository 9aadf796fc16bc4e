# TLA+ models of pam_rest (libpam-rest) and libnss-remoteuser

This directory models the PAM module `pam_rest` and the NSS passwd backend `libnss-remoteuser` that gives remotely authenticated users an identity. The module authenticates a user against a REST service with libcurl. It then exports the session token the service returns. The sources are:

| file | role |
|---|---|
| `src/appliance/binary-deps/libpam-rest/src/pam_rest.c` | the PAM entry points `pam_sm_authenticate` and `pam_sm_acct_mgmt`, plus no-op `setcred` and `open/close_session` |
| `src/appliance/libpam-rest/libpam-rest/src/pamUtils.c`, `pamUtils.h` | module data, password retrieval, the request builders, the curl callbacks and the response parsers |
| `src/appliance/binary-deps/libpam-rest/src/bufUtils.c`, `bufUtils.h` | the growable byte buffer `pam_buf_t` |
| `src/appliance/binary-deps/libnss-remoteuser/passwd.c`, `s_config.h` | the NSS entry points `_nss_remoteuser_getpwnam_r`, `getpwuid_r`, `setpwent`/`endpwent`/`getpwent_r` and their `/etc/passwd` scanner `p_search` |

## How the parts interact

PAM calls the entry points on one handle, possibly several times: a retry after a failure, then account management.

`getModuleData` creates a `pam_rest_t` on first use and keeps it with `pam_set_data` for the life of the handle. It holds:
- the flags `allowNullAuthtok` and `failureWarned`;
- the session pointer;
- the list of parsed headers and the header state machine;
- two `pam_buf_t`: `head` and `body`.

`pam_sm_authenticate` runs in this order:
1. It reads flags and options, the user, the password (`getPassword`), the port and the host.
2. It builds the request with one of `getSession`, `postSessionForm` or `postSessionJson`.
3. Each builder ends in `performSession`. That call rewinds both buffers and runs the blocking `curl_easy_perform`.
4. During the transfer, curl calls `onCurlHeader` once per header line and `onCurlWrite` once per body chunk. Both append to a buffer with `bufAppendSubstring`. `onCurlHeader` also advances the header state machine. It pushes a key/value entry, whose pointers point into `head`, onto the front of `data->headers`.
5. After the transfer:
   - `parseResponse` checks the HTTP status;
   - `parseHeaders` takes the first matching `Set-Cookie` of the list as `data->session`;
   - `parseJson` checks the JSON body and may adopt a session from it;
   - the session is published with `setenv`.

`pam_sm_acct_mgmt` succeeds exactly when `data->session` is set.

`libnss-remoteuser` shares no state with `pam_rest`; it is the other half of a remote login. glibc's `getpwnam`/`getpwuid` (not in this repository) call its `_r` functions with a buffer and double the buffer while they answer TRYAGAIN with errno ERANGE, until `realloc` fails. `getpwnam_r` copies the name into the buffer, searches the rest of the buffer's room for a local entry of that name (found: NOTFOUND, so the local account wins), then for the template account `LOCALUSER` ("admin"), and answers with the name, uid `REMOTEUID` and the template's gid, home and shell. `getpwuid_r` knows only `REMOTEUID`, answered as `REMOTEUSER`. Every search opens `/etc/passwd` afresh and reads it line by line with `fgets` into the caller's buffer, guarded by a sentinel byte at its end.

## Modules

| module | models | state |
|---|---|---|
| `BufUtils` | `pam_buf_t`, `bufInit`, `bufAppendSubstring` (and so `bufAppend`), the rewind in `performSession` | operators only; a buffer is a record (see below) |
| `GrowBuf` | one buffer driven by arbitrary appends and rewinds | `buf` |
| `PamRest` | `pam_sm_authenticate`, the callbacks, the parsers and `pam_sm_acct_mgmt` on one handle | the `pam_rest_t` fields, the host's view, and the current exchange |
| `MCPamRest` | the TLC instance: two token model values, symmetric | — |
| `NssPasswd` | `p_search`, `getpwnam_r`, `getpwuid_r` and the enumeration stubs as functions of the file, the buffer length and fopen's outcome | operators only |
| `NssRemoteUser` | glibc's grow-and-retry caller around the entry points | `file`, `phase`, `req`, `buflen`, `opens`, `ret`, `outcome` |
| `NssLookup` | the abstract lookup: a request is pending until it is answered with an allowed answer | `file`, `pending`, `answer` |
| `MCNss` | the TLC instance with the `s_config.h` names | — |
| `BufUtilsProofs`, `GrowBufProofs`, `PamRestProofs`, `PamRestTokenProofs`, `NssProofs` | the TLAPS proofs | — |

### The buffer abstraction (BufUtils)

A `pam_buf_t` is modelled as a record `[alloc, used, real, ep]`:

| field | meaning |
|---|---|
| `alloc` | `buf->alloc`, the size the code believes it has |
| `used` | `end - start` |
| `real` | the size of the heap block that actually exists (0 while `start == NULL`) |
| `ep` | an epoch that increases whenever `realloc` moves the block |

`BufAppendSubstring(b, sz, mOk, rRes)` translates `bufUtils.c:32-67` line for line:
- the first `malloc` has a size of at least `BUF_MIN` (1024 in the code, a small constant in the runs) and may fail (`mOk`);
- there is a single doubling when `used + sz + 1 > alloc`, with `alloc` doubled before the call;
- `realloc` fails, grows in place, or moves (`rRes`);
- the result is the byte count returned, `sz` or 0.

The bytes themselves are not modelled. `BufNoOverflow` says that the copy and its terminator stay inside `real`.

### Pointers into the head buffer (PamRest)

A header entry and a cookie session remember the exchange `ex` and the epoch `ep` they were taken in.
- **Live** means taken in the current exchange with no move since.
- **Stale** entries arise in two ways:
  - after a rewind, the bytes have been overwritten by the next exchange;
  - after a move, the block has been freed.
- Reading a stale entry yields any of: the original match, no match, or `Garbage`. Reading a stale session yields the original token or `Garbage`.

That choice is the nondeterminism of the undefined behaviour.

### Actions and the code

| action | code |
|---|---|
| `Authenticate` | `pam_rest.c:11-141`. The flags (22-25) and `getPassword` (`GetPassword`). Host-side failures (options, `pam_get_user`, `pam_set_item`, port, host) become UNAVAIL without a warning. The builders' setup codes (`GetSessionCode`, `PostSessionCode`) come from the NULL-uri and setopt checks. The warning (`WarnOnce`, 134-138) fires on an UNAVAIL from the builder. Otherwise `PerformSession`. |
| `HeaderLine` / `OnCurlHeader` | `pamUtils.c:433-510`: the append, the abort on a short save, the state machine (`HeaderStep`), and entry creation for a line with a colon (`Parsable`, `HeaderInsert`). When the append moved the block, the line is read through the freed block: `start == end` cannot hold, and an entry may or may not be made. |
| `BodyChunk` / `OnCurlWrite` | `pamUtils.c:412-428` |
| `PerformDone` | `curl_easy_perform` returns. `performSession`'s mapping (`PerformCode`) and the warning check follow, then `Interpret`. |
| `Interpret` | In this order: `parseResponse` (401 → AUTH_ERR, not 200 → UNAVAIL), `parseHeaders` (`FirstMatch`/`ParseHeaders`, newest first), `parseJson` (`ParseJson`, `JsonInvalid`), the NULL-session check and `setenv` (`PublishReads`). |
| `AcctMgmt` | `pam_rest.c:221-255` |

The environment (server and network) chooses:
- the header lines: status, blank, cookie with a token, another key, or junk;
- their lengths and the body chunk sizes;
- the JSON reply, abstracted to the facts `parseJson` tests;
- every allocation outcome;
- the curl result. It is compatible with how far the transfer got: `CURLE_OK` only after the headers are complete; a callback abort only after a short save.

### libnss-remoteuser (NssPasswd, NssRemoteUser, NssLookup)

A line of `/etc/passwd` is abstracted to what `p_search` tests (`Lines`): a comment or blank line (`skip`), a line with no colon (`nocolon`: `TOCOLON` on the name fails), a well-formed `entry`, or an entry whose later fields are malformed (`badfield`); its name, uid, length in bytes and whether it ends in a newline (only the last line of a file can lack one, `Files`). The text and the other fields are not modelled: they are copied, never tested.

`p_search`'s loop (`passwd.c:83-180`) continues on skipped lines and other names and returns on the first line where `Returns` holds: the line filled the buffer (the sentinel at `buffer[B-1]` was overwritten), it has no newline, its name has no colon, or its name is the target. `LineResult` is what that turn returns: TRYAGAIN/ERANGE, UNAVAIL, or SUCCESS with the line's index and uid. `PSearch` is the answer of the first such line, NOTFOUND at the end of the file, UNAVAIL when fopen fails, and the two degenerate buffers: with 0 bytes (left by `getpwnam_r` when the name fills the caller's buffer exactly) the sentinel goes to `buffer[-1]` and `fgets` fails without EOF, giving UNAVAIL; with 1 byte `fgets` only writes the terminator over the sentinel, giving TRYAGAIN. `GetPwNam` and `GetPwUid` translate the two entry points (`passwd.c:223-283`, `183-221`), including the name copy and what is left of the buffer after it (`NameLen`, the `strlen`), and `Enumerate` the stubs (`285-305`).

In `NssRemoteUser`, `Request` is an application asking, with a buffer from `InitBufs`; `Call` runs the entry point to completion (one step: the module keeps no state between calls, and each fopen may fail); `Retry` doubles the buffer after TRYAGAIN/ERANGE (`NeedsRoom`); `GiveUp` is glibc's realloc failing once the buffer would exceed `MaxBuf`, and `Deliver` hands any other answer to the application. The file does not change during a run.

`NssLookup` is what the backend promises: each request is answered, and the answer is the one the file gives with room enough (`Ref`, the lookup with a buffer of `BIG` bytes and a file that opens), or UNAVAIL, which any NSS backend may return. `NssRemoteUser` maps to it by `Abs == INSTANCE NssLookup WITH ...`: a request is pending from `Request` until `Deliver` or `GiveUp` (a NULL result, which the caller sees like UNAVAIL); `Call` and `Retry` are stutters. The run and the theorem check the safety part of `NssLookup` only (`NssRefinesLookup == Abs!Safety`); its `WF_vars(Answer)` is not checked, because glibc's `GiveUp` ends every request with an allowed answer at `MaxBuf`, whatever the backend does.

**Fairness.** `NssRemoteUser` assumes weak fairness of `Call`, `Retry`, `GiveUp` and `Deliver`: glibc's loop runs each of these steps without waiting for anything once it is enabled. Applications need not ask, so `Request` has none.

## Runs

TLC checks these runs with `tlc -workers 2 -config <cfg> <module>`:

| run | cfg | expect | shows |
|---|---|---|---|
| growbuf_small | `GrowBuf_small.cfg` | pass | chunks ≤ initial size with no allocation failure never overflow (`NoOverflow`) |
| growbuf_bigchunk | `GrowBuf_bigchunk.cfg` | violation | a chunk larger than the doubled size overflows (single doubling) |
| growbuf_allocfail | `GrowBuf_allocfail.cfg` | violation | a failed realloc leaves `alloc` doubled, and the next append overflows |
| pamrest_core | `MCPamRest_core.cfg` | pass | two attempts with moving reallocs: `SuccessRequiresApproval` |
| pamrest_first | `MCPamRest_first.cfg` | pass | first attempt, large buffer, allocations may fail: `PublishedTokenAsSpecified` |
| pamrest_retry | `MCPamRest_retry.cfg` | violation | a retry on the same handle publishes a stale or garbage token |
| pamrest_realloc | `MCPamRest_realloc.cfg` | violation | a moving realloc of `head` makes entries dangle (use after free) |
| pamrest_acct | `MCPamRest_acct.cfg` | violation | `pam_sm_acct_mgmt` succeeds after a failed authentication |
| pamrest_warn | `MCPamRest_warn.cfg` | violation | HTTP 500 gives AUTHINFO_UNAVAIL without the warning |
| nss_lookup | `MCNss_lookup.cfg` | pass | `NssRefinesLookup` (the backend with its caller implements the safety part `Init ∧ [][Next]_vars` of `NssLookup`: every step is an abstract step or a stutter, so a SUCCESS or NOTFOUND is the large-buffer answer) and `NoLocalShadowing` (a name with an entry in the file never gets the remote identity) |
| nss_exact_fit | `MCNss_exact_fit.cfg` | violation | `AnswerIndependentOfBuffer`: a buffer exactly as long as the name and its terminator gives UNAVAIL instead of TRYAGAIN |
| nss_no_newline | `MCNss_no_newline.cfg` | violation | `LookupAnswered`: a last line without a newline makes every lookup answer TRYAGAIN at every buffer size, until memory runs out |

Bounds, and why they are enough:
- **Attempts.** Two attempts are enough for every cross-attempt effect: data reused by the second attempt.
- **Header lines.** Three or four lines cover the status line, one or two cookies or other headers, and the blank line.
- **Buffer sizes.** `BUF_MIN = 4` with lines of 3 bytes forces a realloc on the second line, so moves happen. `BUF_MIN = 16` keeps the first attempt free of reallocs, to separate the retry defect from the realloc defect.
- **NSS files and buffers.** Files of up to two lines of 12 or 40 bytes, with the names `admin` (the template) and `bob`, and requests for `admin`, `bob`, `carol` (remote only), uid 10000 and 1000, and an enumeration. Initial buffers of 6 bytes (exactly `"carol"` or `"admin"` and its terminator), 11 (exactly `"remoteuser"`) and 64; doubling reaches 12, 22, 24, 44, 48 and 88. A 40-byte line fits only after two or three doublings, and with `MaxBuf = 64` a getpwuid call starting at 6 bytes gives up at 48, so `GiveUp` happens in the passing run. The violation runs use `MaxBuf = 128`, enough for every line with a newline, so the no-newline counterexample is not a small-memory artefact.
- **Tokens.** Two token model values suffice to tell an old token from a new one. They are symmetric, because the code only copies and compares them.

The passing runs fire every action and every branch of the callbacks:
- `pamrest_core` covers moving reallocs;
- `pamrest_first`, with `AllocCanFail = TRUE`, covers the abort on a short save.

Each property of a passing run has a mutant that TLC catches:

| mutant | replaces | property violated |
|---|---|---|
| `BufAppendNoTerm` | `BufAppendSubstring`; it forgets the terminator byte in the growth test | `NoOverflow` |
| `JsonInvalidNoFalse` | `JsonInvalid`; it accepts `"success": false` | `SuccessRequiresApproval` |
| `HeaderAppendLast` | `HeaderInsert`; it appends at the tail | `PublishedTokenAsSpecified` |
| `GetPwNamIgnoreSearchError` | `GetPwNam`; a failed local-existence search falls through to the template search | `NoLocalShadowing`, `NssRefinesLookup` |

For `PamRest` no fairness is assumed and only safety is checked. The module is driven by PAM and by curl's blocking transfer. It has no internal progress obligation beyond the transfer terminating, which is curl's business. The NSS model's fairness is described above. It matters only to `LookupAnswered`, which run nss_no_newline finds violated. `NssRefinesLookup` is the abstract safety part alone. The abstract `WF_vars(Answer)` is left out on purpose: with glibc's `GiveUp` answering nomem (mapped to UNAVAIL) at `MaxBuf`, it would hold whatever the backend did.

## Findings

These are recorded in `PROJECT.json` with source lines:
1. Single doubling overflow in `bufAppendSubstring`. It is reachable from the long escaped user names and passwords that `getSession`/`postSessionForm` append.
2. `alloc` doubled before a `realloc` that fails.
3. Header list, session and header state survive across attempts on one handle.
4. `onCurlHeader` uses `start` after a `realloc` that moved the block: a use after free.
5. `pam_sm_acct_mgmt` succeeds on a session left by a failed authentication.
6. No warning for availability errors found after the request step.
7. `getpwnam_r`/`getpwuid_r` with a buffer exactly as long as the name and its terminator: `p_search` gets 0 bytes, writes `buffer[-1]`, and answers UNAVAIL instead of TRYAGAIN (`passwd.c:249`, `202`).
8. A last line of `/etc/passwd` without a newline: every remote-user lookup answers TRYAGAIN/ERANGE at every size and glibc grows its buffer until `realloc` fails (`passwd.c:104`).

Also observed but not given a run: `getpwuid_r(REMOTEUID)` copies `pw_uid` from the template entry (`passwd.c:211`), so the identity it returns carries the template's uid, not `REMOTEUID` as `getpwnam_r`'s does. The model keeps this (`GetPwUid` answers with the template line's uid).

## Proofs (TLAPS)

Proofs are checked with `tlapm <Module>.tla`; all five proof modules are fully checked.
- **`BufUtilsProofs`** states lemmas about `BufAppendSubstring`:
  - `BufAppendType`: types are kept, and well-formedness (`real = 0 ⇒ used = 0`, `real ≠ 0 ⇒ alloc ≠ 0`) is kept for every malloc/realloc outcome;
  - `AppendKeepsIInv`: with a chunk no larger than `BUF_MIN` and no failure, the result keeps `real = alloc ≥ BUF_MIN` and `used + 1 ≤ alloc`.
- **`GrowBufProofs`, `SmallChunksNoOverflow`**: if every size is at most `BUF_MIN` and allocation cannot fail, then `Spec ⇒ []NoOverflow`, for all values of the constants.
  - `NoOverflow` alone is not inductive: the one doubling would not keep it if `alloc` could differ from `real`.
  - The inductive invariant `IInv` adds that an allocated buffer has `real = alloc ≥ BUF_MIN` and `used + 1 ≤ alloc`, and that an unallocated one is empty.
- **`PamRestProofs`, `TypeCorrect`**: `Spec ⇒ []TypeOK`. It is proved through `TInv = TypeOK ∧ BufWF(head) ∧ BufWF(body)`, with one lemma per action.
  - Well-formedness is needed because a zero `alloc` would make the type of the doubled size depend on the history.
- **`PamRestProofs`, `ApprovalRequired`**: `Spec ⇒ []SuccessRequiresApproval`, for any number of attempts, lines, chunks and any buffer size.
  - The strengthening `SInv` adds that during a transfer the result is `"none"`.
  - It also relies on `ParseJsonApproval`: `parseJson` returns success only for an approving reply, and an empty body yields an AUTH_ERR only because `BufWF(body)` rules out a `NULL` start with bytes.
- **`PamRestTokenProofs`, `FirstTokenAsSpecified`**: `Spec ⇒ []PublishedTokenAsSpecified` under `FirstAuthNoGrowth(L)`.
  - `FirstAuthNoGrowth(L)` allows at most one attempt. It also requires that every header line, the blank one included, is at most `L` bytes, with `MaxLines · L + 1 ≤ BUF_MIN`. Run pamrest_first satisfies it with `L = 3`. Allocation may fail.
  - The runs pamrest_retry and pamrest_realloc show that neither condition can be dropped.
  - The inductive invariant `TokInv(L)` says the following. Before the attempt, the list and the session are empty. While curl runs:
    - the bytes in the head buffer are at most `nlines · L`, so no append grows it and no pointer dangles (`AppendNoGrow`, `LineRoom`);
    - every header entry belongs to this exchange and epoch;
    - the header state follows the wire;
    - `CookiesMatch`: the list holds a cookie entry exactly when a Set-Cookie arrived, and its first cookie entry carries the last token received. Inserting at the head keeps this (`CookiesMatchCons`).
  - `PublishTok` is the final step. Since every entry is live, `parseHeaders` reads exactly that first cookie entry. The session it sets then makes `parseJson` reject any other JSON token, and `setenv` reads the token back unchanged. Without a cookie, only the JSON session field can set the session.
  - The proof needs tokens to be distinct from the strings that mark an absent, null or mistyped JSON field (`PamRestAssumption`).

- **`NssProofs`**, for every file, request, buffer size and value of the constants:
  - `NoShadowing`: `Spec ⇒ []NoLocalShadowing`. `GetPwNamNoShadow` shows that a SUCCESS of `getpwnam_r` needs its first search to reach the end of the file (`PSearchNotFound`), so no entry has the name. The inductive invariant `IInv` adds that after a call `ret` is what the entry point computed for the file, request, buffer and fopen outcomes, and that no outcome is recorded while a call is in progress.
  - `RefinesLookupSafety`: `Spec ⇒ NssRefinesLookup`, i.e. `Spec ⇒ Abs!Safety`, the property run nss_lookup checks: the initial state maps to the abstract one and every step to an abstract step or a stutter (`RefineStep`). Its core is `PSearchMono`: when `p_search` finds the entry or reaches the end of the file with B bytes, a larger buffer gives the same answer, because a line on which the loop returns with more room also makes it return with less (`ReturnsMono`) and the first such line is the same; the least element comes from `WFMin` of the library. `LookupMono` lifts this to the entry points, and `LookupShape` shows that TRYAGAIN always carries ERANGE, so what the caller receives is never a TRYAGAIN.
  - The assumptions used: `NoRequest ∉ Requests`, `InitBufs ⊆ 1..MaxBuf`, `MaxBuf ≤ BIG`, names have a natural length, and line lengths are naturals.
  - That every request is answered (`LookupAnswered`) is only model-checked.

Every invariant that a passing run checks is now stated by a theorem. `PublishedTokenAsSpecified` is proved under the conditions of its run, and the violation runs show that these conditions are needed. TLAPS cannot handle liveness or `ENABLED`, nor recursive definitions: the liveness property `LookupAnswered` stays with TLC, and `p_search`'s loop is written as "the first line on which it returns" rather than recursively so that it can be reasoned about.

## Not modelled

- The request text, meaning the query string, form and JSON that the builders assemble. Its only effect on the model's properties is the buffer overflow, which `GrowBuf` shows for any chunk size.
- `parseOpts` string parsing and logging. They are reduced to the constants `METHOD` and `URI_SET`.
- `cleanupModuleData` and `bufDestroy`, which only free memory, and memory leaks in general.
- `pam_sm_setcred`, `pam_sm_open_session` and `pam_sm_close_session`, which are no-ops.
- The `send_error` conversation I/O.
- `pam_rest_conf.c` and `test_pam_rest.c`, which are test programs.
- In `libnss-remoteuser`: the text of a line (its fields are copied, never tested, except as the line kinds above); `/etc/passwd` changing between the two `fopen`s of one `getpwnam_r`, since the model keeps the file fixed; and the `flockfile` locking, which only matters for a stream shared between threads, while every search opens its own.

## Plan for later sittings

- Model curl delivering several responses in one transfer (1xx interim responses, redirects). This is where the header state machine stops at the first blank line.
- Add a property for the per-call `PAM_DISALLOW_NULL_AUTHTOK` semantics, and for the unchecked `malloc` of header list elements.
- State an abstract specification of an authentication attempt: one request, a verdict, and a published token. Show the per-attempt behaviour of `PamRest` as a refinement of it, under the fix of findings 3 and 4.
- A refinement theorem for the abstract attempt specification above.
- A property for a malformed line anywhere before the match disabling every remote lookup with UNAVAIL (allowed by the NSS contract, so not a refinement violation).
