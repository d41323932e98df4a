# TLA+ models of chrony-nts

These are models of the NTS (Network Time Security) code in this repository:
* `src/nts_ke.c` holds the NTS-KE key-establishment client and server.
* `src/unnamed/part_000` holds NTS for NTP: the client instance and the server-side request/response authentication.

Each module is translated from the C source. `PROJECT.json` maps every definition to the lines it models. It also lists the runs, the mutants that show each property can fail, the findings and the hazards.

## The system and how its parts interact

| Part | Code | Module | Status |
|------|------|--------|--------|
| Record codec, request/response logic | `add_record`, `get_record`, `check_message_format`, `prepare_request/response`, `process_request/response` | `NtsKeRecord` | modelled |
| KE connection state machine | `NKE_CreateInstance`, `NKE_OpenClientConnection`, `accept_server_connection`, `read_write_socket`, `update_state`, `session_timeout`, `close_connection` | `NtsKeConn` | modelled |
| NTS client instance | `NTS_CreateClientInstance`, `needs_nke`, `get_nke_data`, `NTS_PrepareForAuth`, `NTS_GenerateRequestAuth`, `NTS_DestroyClientInstance` | `NtsClient` | modelled |
| Server key ring, cookie seal/open | `generate_server_key`, `server_key_timeout`, `NKE_GenerateCookie`, `NKE_DecodeCookie` | `NtsServerKeys` | modelled |
| Server accept loop and pool | `accept_connection`, `server_instances[]`, `NKE_Initialise`, `NKE_Finalise`, `NKE_DestroyInstance`, what `create_session` allocates | `NtsKeServer` (abstract: `NtsKeLifecycle`) | modelled |
| NTS-NTP server auth | `NTS_CheckRequestAuth`, `parse_auth_and_eef`, `get_padded_length`, `NTS_GenerateResponseAuth`, `add_response_cookie` | `NtsNtpServer` | modelled |
| TLS, sockets, AES-SIV, randomness | gnutls, nettle, `prepare_socket`, `check_alpn` | environment | not modelled |

Everything runs in one thread on chrony's event loop (spec section 5). Each of these runs to completion:
* a socket readiness callback (`read_write_socket`, then `update_state`);
* a timer (`session_timeout`, `server_key_timeout`);
* a call from the NTP layer (`NTS_PrepareForAuth`, `NTS_GenerateRequestAuth`).

Each such callback is one atomic TLA+ action. The hazards lie in the order in which callbacks happen, not inside them.

**Client.** The NTP client calls `NTS_PrepareForAuth` before each request.
* With no cookies left, `get_nke_data` creates an NTS-KE client instance and opens a TLS connection.
* Later calls read the cookies the instance has received (`NKE_GetCookies`) and the exporter keys (`NKE_GetKeys`), then destroy the instance.
* `NTS_GenerateRequestAuth` spends one cookie per NTP request.

**Server.**
* `accept_connection` takes the first NULL or closed instance of a pool of 10 and runs the same connection state machine in server mode.
* `process_request` answers with cookies that `NKE_GenerateCookie` seals under the current key of a 4-slot key ring.
* `server_key_timeout` rotates that ring every hour. `NKE_DecodeCookie` later opens a cookie by the key id it carries.

## Modules

* **`NtsKeRecord`** holds pure operators.
  * A record is `[crit, type, blen, data]`.
  * A message buffer is the first `length` bytes of the encoding of a record sequence. That covers every byte string the buffer can hold: complete records, then at most one truncated one.
  * `CompleteRecords` (RECURSIVE) is the `get_record` loop, and `CheckMessageFormat` is `check_message_format`.
  * `ProcessRequest` and `ProcessResponse` fold one step per loop iteration of their C functions.
* **`NtsKeConn`** models the connections.
  * `conn[id]` is `NULL` or the fields of `NKE_Instance_Record`: mode, state, whether the socket is open, whether the output event is enabled, whether the timeout is armed, the TLS session, the message, and the records the peer writes.
  * There is one action per state of `read_write_socket` and per outcome of the TLS call made there (done, non-fatal again, fatal). Each action includes what `update_state` then does.
* **`NtsClient`** models one `NTS_ClientInstance` and its KE instance `inst->nke`.
  * Random values are fresh integers.
  * A cookie is `[sess, n]`, naming the KE session (and so the exporter keys) it carries.
  * `deinits` counts the `gnutls_deinit` calls of each KE session's TLS session. `OpenKeSessionLeaked` is `NKE_OpenClientConnection` failing in `create_session` after `gnutls_init`: the session is numbered, recorded in `leaked`, and never released (finding 5). `OpenKeFailed` covers the failures before `gnutls_init`. `DestroyNke` is `NKE_DestroyInstance(inst->nke)` in `get_nke_data`. `DestroyClientInstance` is `NTS_DestroyClientInstance`, after which only stuttering follows.
  * `MCNtsClient` gives the server's possible answers per session: the response `prepare_response` builds, one with a Warning after its first cookie, and one longer than the buffer.
* **`NtsServerKeys`** models the key ring.
  * `serverKeys[0..3]`, `currentKey` and the rotation count, starting from the zeroed static array.
  * A key is the number of the rotation that drew it (0 is the zero key). The random high bits of a key id are that number, so ids are fresh.
  * A cookie is `[keyId, key, sess]`. `NKE_DecodeCookie` succeeds when the slot selected by `keyId % 4` holds that id and that key; this stands in for AES-SIV.
  * `issued` is a history variable: the cookies sealed so far, with the rotation count at sealing.
* **`NtsKeServer`** composes the pool (`conn` over `Ids`), `NtsKeConn` in server mode and `NtsServerKeys`.
  * Each outcome of `accept_connection` is one action: accept/access failure, no usable slot, `fcntl` failure, `create_session` failure, success.
  * After a `create_session` failure, `freed` records the slot whose pointer refers to the freed instance.
  * `ConnStep(i)` is a socket event or timeout of slot `i`. When it moves the connection from KE_RECEIVE to KE_SEND, it records the cookies sealed in `issued`.
  * `NkeInitialise` is `NKE_Initialise`. Its environment choices are: certificate and key configured or not, `UTI_StringToIP("::")` parsing or not (it fails in a build without IPv6), and each listening socket opened or not. `listening` records that a socket has `accept_connection` registered. `keyTimer` records that `server_key_timeout` is armed, which happens only if the function does not return early.
  * Accepts need `listening`. `KeyRotation` is `server_key_timeout` and needs `keyTimer`.
  * `allocated` and `deinits` follow every `gnutls_init` and `gnutls_deinit` of a TLS session.
    * `CreateSessionFailed` covers `create_session` failing before or after `gnutls_init`.
    * `accept_server_connection` deinitialises the session a reused instance kept.
    * `DestroyedSession` (in `NtsKeConn`) is the mode check of `NKE_DestroyInstance`.
  * `NkeFinalise` is `NKE_Finalise`: it destroys every non-NULL slot. Only stuttering (`Terminated`) follows.
* **`NtsKeLifecycle`** is the abstract promise of a server slot.
  * A slot is closed, open or replying.
  * An open slot replies once, with one response that does not change until the slot closes. Any state may close.
  * `Shutdown` closes every slot at once and ends the server; `NKE_Finalise` maps to it.
  * `NtsKeServer` maps KE_SEND/KE_SHUTDOWN to replying, any other live state to open, and NULL or KE_CLOSED to closed. The response is the message buffer's records.
* **`NtsNtpServer`** holds pure operators for NTS on the NTP server, which keeps no state.
  * A packet's extension fields are a sequence of `[type, body, len]`.
  * `CheckStep` and `ResponseStep` are one iteration of the `NEF_ParseField` loops of `NTS_CheckRequestAuth` and `NTS_GenerateResponseAuth`, folded with `FoldLeft`. An early `return 0` is a flag that later steps keep.
  * The Unique-Identifier case of `ResponseStep` falls through to the cookie case, as the C switch does.
  * `ClientRequest` builds the fields `NTS_GenerateRequestAuth` adds: Unique Identifier, cookie, placeholders, AEAD-and-EEF.
  * `NEF_ParseField` and `NEF_AddField` (ntp_ext.c) are not in this repository. The loop visits the fields in order and stops after the last one. `AddField` appends 4 header bytes plus the padded body, and fails when more than `PacketRoom` bytes of fields would result.
* **`MCNtsNtpServer`** enumerates, as initial states, every request of up to three fields and every request and response mode. The alphabet has two Unique Identifiers, a cookie, a placeholder, AEAD-and-EEF fields that fit, fit only without their header, are too short or overflow, and an unknown field. It also includes the request the client builds for each of 1..8 cookies left.
* **`MCNtsKeRecord`** enumerates, as initial states, every message of up to three records over a small alphabet, with every length and EOF flag and both port settings.

## Runs

| Run | Expect | Shows |
|-----|--------|-------|
| `client_safety` (`MCNtsClient.cfg`) | pass | No cookie is sent twice (`NoCookieReuse`). Every request's cookie belongs to the session whose C2S key authenticates it (`RequestCookieMatchesKey`). Every TLS session a KE instance held is deinitialised exactly once by the time the instance is destroyed (`SessionsReleased`). |
| `client_partial_response` | violation | `CookiesFromCompleteResponse`: cookies are taken from a response that `check_message_format` never accepted. |
| `client_unique_id` | violation | `FreshUniqueId`: successive requests of one KE session carry the same Unique Identifier and nonce. |
| `client_ke_retry` | violation | `KeRetried`: after a failed KE, no new KE connection is ever opened. |
| `server` (`MCNtsKeServer.cfg`) | pass | See the list below this table. |
| `server_response` | violation | `ServerResponseUsable`: the server sends a response without End-of-Message. |
| `server_dangling_slot` | violation | `FailedAcceptReleased`: a failed accept leaves a freed instance in `server_instances[]` and may leak a TLS session. |
| `server_forged_cookie` | violation | `OnlyIssuedCookiesOpen`: while the server listens, a cookie sealed with the all-zero key under key id 0 opens. In a build without IPv6 this is true from the start; otherwise it is true after the first rotation. |
| `record_roundtrip` (`MCNtsKeRecord.cfg`) | pass | `KeRoundTrip`: for every request, the client takes the server's cookies and port exactly when both sides agreed on NTPv4 and AES-SIV-CMAC-256. |
| `record_trailing_eom` | violation | `CheckMessageFormatMatchesValidate`: `check_message_format` accepts records after End-of-Message. |
| `ntp_server` (`MCNtsNtpServer.cfg`) | pass | See the list below this table. |
| `ntp_response` | violation | `NtpServerPerSpec` (`RequestPerSpec` and `ResponsePerSpec`): the server accepts requests without a cookie or with an AEAD field that overruns its body. Its response has an extra cookie per Unique Identifier and no AEAD-and-EEF field. |

The `server` run checks these properties:
* `ResourcesWhileOpen`: a pooled instance holds its socket and timeout exactly while it is open.
* `CookieLifetime`: every sealed cookie opens exactly until four rotations later.
* `ConnectionsClose`: every accepted connection closes.
* `LifecycleRefined`: the pool implements `NtsKeLifecycle`.
* `SessionsDeinitOnce`: no TLS session is deinitialised twice, or while its connection is open.
* `FinaliseReleasesSessions`: after `NKE_Finalise`, every session a slot holds has been deinitialised.

The `ntp_server` run checks these properties:
* `DuplicateCookieRejected`: a request with two cookies is never accepted, wherever they are (scenario S6).
* `UniqueIdEchoed`: a completed response echoes the Unique Identifiers in order.
* `ClientRequestAnswered`: for every number of cookies left, the client's request fits the packet, is accepted, and is answered within the packet.

Every property of a passing run has a mutant in `PROJECT.json`: a plausible bug in the code it is about, for which TLC reports the property violated.

### Findings

1. **`NKE_GetCookies` reads unfinished responses** (`nts_ke.c:1127`).
   * It guards with `mode != KE_CLIENT && state != KE_CLOSED`, so for a client it always parses the buffer.
   * `get_nke_data` calls it on an instance that is still receiving, or that closed after an error.
   * TLC shows the trace: the client reads Next-Protocol, AEAD and one Cookie, the connection closes, and that cookie is used.
2. **The unique id is drawn per KE, not per request.** `NTS_PrepareForAuth` draws the unique id and nonce only after a KE (`part_000:295`). Spec section 2 says they are drawn per request.
3. **One failed KE disables NTS for good.** `get_nke_data` never destroys a closed instance that yielded no cookies (`part_000:252`).
4. **`prepare_response`'s failure is ignored** (`nts_ke.c:610`).
   * `process_request` ignores the result, so when `NKE_GetKeys` fails the server sends Next-Protocol and AEAD without End-of-Message.
   * A request that offers no supported protocol gets NEXT_PROTOCOL_NONE/AEAD_NONE and no error.
5. **A failed accept leaves a dangling pointer and may leak a TLS session** (`nts_ke.c:362`, `:247`).
   * `accept_connection` frees the instance when `accept_server_connection` fails, but leaves the pointer in the pool.
   * Later accepts read it, and `NKE_Finalise` frees it again.
   * `create_session` returns NULL without `gnutls_deinit` when a call after `gnutls_init` fails. The session then belongs to no instance, though spec section 3 says each instance owns its own.
   * TLC shows the trace: a failed accept into a NULL slot, with `gnutls_init` done, leaves session 1 allocated and never deinitialised, and the freed instance in slot 1. The client leaks the same way when `NKE_OpenClientConnection` fails there (`OpenKeSessionLeaked`); `SessionsReleased` covers only the sessions an instance held, so no run checks the client's leaked sessions.
6. **Slot 0 of the key ring accepts forged cookies** (`nts_ke.c:1238`).
   * `NKE_Initialise`'s first rotation fills slot 1, so slot 0 keeps id 0 and an all-zero key for three hours.
   * `NKE_DecodeCookie` accepts a cookie with key id 0 sealed with that zero key.
   * TLC prints the shorter trace of finding 10. Restricted to a completed `NKE_Initialise` (`keyTimer` set), the invariant fails right after the first rotation.
7. **Records after End-of-Message are accepted** (`nts_ke.c:483`). `check_message_format` looks only at the last record, so End-of-Message, End-of-Message is MSG_OK. Spec section 4.A says it is an error.

8. **The NTP response breaks spec section 4.J** (`part_000:194`, `:196`).
   * `NTS_GenerateResponseAuth` has no `break` after the Unique-Identifier case, so each Unique Identifier also adds a cookie.
   * It never appends an AEAD-and-EEF field.
   * TLC prints the trace of finding 9 for this run. Checked alone, `ResponsePerSpec` fails on the client's request with a full ring (180 bytes): in server mode the answer has two cookies for one and no authenticator (244 bytes, larger than the request).

9. **The NTP server accepts requests spec section 4.J rejects** (`part_000:158`, `:99`).
   * `NTS_CheckRequestAuth` accepts a request with no cookie and no AEAD-and-EEF field; TLC's example is a lone Unique Identifier. It also never opens the cookie or verifies the tag.
   * `parse_auth_and_eef` accepts a 32-byte body holding a 16-byte nonce and a 16-byte ciphertext. It leaves the 4-byte header out of the bound, so the ciphertext would end 4 bytes past the field.

10. **Without IPv6 the server never generates a key** (`nts_ke.c:1013`).
    * `NKE_Initialise` registers `accept_connection` for the IPv4 socket and then returns when `UTI_StringToIP("::")` fails. That return skips `current_server_key = 0` and `server_key_timeout`.
    * The server then accepts KE connections and seals every cookie with the zero key under id 0. It never rotates that key, so anyone can forge a cookie it accepts.
    * TLC shows the trace: `NkeInitialise` with the IPv6 parse failing, and then the forged cookie opens.

### Bounds

**Client.**
* One KE instance.
* 3 KE sessions, so refills happen twice.
* 5 NTP requests with `MaxCookies = 2`, so the cookie ring wraps more than once and the cookies of a second KE are spent across a wrap.
* `MaxMessageLength = 40`: the honest response (36 bytes) fits and the long one does not.
* Cookie and message sizes are scaled down. Only their size relative to the buffer matters to the code.
* The run has 210,674 distinct states and takes about 50 s.

**Server.**
* A pool of one slot, which is enough to reach these cases:
  * the pool full (`AcceptNoSlot`);
  * a closed instance reused;
  * a freed instance left in its slot.

  Slots only interact through the first-usable-slot loop. A 2-slot pool took about 4 minutes for safety alone.
* 3 accepts and 5 rotations. The fifth rotation overwrites the key of the first, so cookies expire within the run, and accepts interleave with rotations.
* The two requests: the one `prepare_request` builds, and one offering only a foreign Next-Protocol.
* `NKE_Initialise` with every outcome of its environment choices.
* The run has 278,151 distinct states and takes about 1 minute.

**NTP server.**
* Requests of up to three fields, with 7,443 distinct inputs.
* `PacketRoom = 1024` bytes of extension fields. The client's largest request (1 cookie left: 908 bytes) and the server's largest answer (972 bytes) fit; cookies of 113 bytes or more would not (36 + 8 x 120 + 40 > 1024).
* Cookies are the 100-byte `ServerCookie` of `nts_ke.c`.

**Record.** Every sequence of up to three records over NTPv4/other Next-Protocol, AES/other AEAD, a critical unknown record and End-of-Message.

### Fairness

**`KeRetried`** is checked under weak fairness of the client's steps and of the KE connection's events. This is justified because:
* the NTP layer polls again and again;
* the event loop fires the 2 s session timeout.

So a connection step that stays enabled happens.

**`ConnectionsClose`** assumes only weak fairness of each slot's session timeout (`ConnTimeout`), because `SCH_AddTimeoutByDelay` timers always fire. Clients, TLS outcomes and accepts get no fairness, since a client may stall forever.

## Not modelled

* **Environment.** TLS, sockets and AES-SIV are treated as environment: every TLS call may return any of its outcomes.
* **`NTS_CheckResponseAuth`** is a stub that returns 0.
* **`NEF_AddField` and `NEF_ParseField`** (ntp_ext.c) are not in this repository.
* **Cookie opening and tag verification in `NTS_CheckRequestAuth`.** The code does neither, so there is nothing to model beyond finding 9.
* **`gnutls_deinit(NULL)` is assumed to do nothing**, as in GnuTLS. `NKE_DestroyInstance` calls it after a failed accept into a reused slot.
* **`NKE_GetNtpAddress`** has no caller in this repository, so no behaviour of the system reaches its guard. The same guard in `NKE_GetCookies` is checked by `CookiesFromCompleteResponse`, so no hazard is listed for it.
* **Credentials and global GnuTLS state.** `NKE_Initialise` sets them up and `NKE_Finalise` releases them; each is created once and released once, and a failure is LOG_FATAL. The listening sockets are modelled only as `listening`: whether one socket or both listen makes no difference to `accept_connection`.
* **The cookie length a client accepts and the packet room** are defined in headers that are not in this repository. For other servers' longer cookies, the client's request may stop fitting; this is a hazard.

## Plan

1. A pool of two slots for the server, to check that the first-usable-slot loop skips a live slot. This needs a cheaper server model; a 2-slot pool took about 4 minutes for safety alone.
