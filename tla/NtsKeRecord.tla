---------------------------- MODULE NtsKeRecord ----------------------------
(***************************************************************************)
(* The NTS-KE record codec and the request/response logic of nts_ke.c, as *)
(* pure operators over sequences of records.                               *)
(*                                                                         *)
(* A record is [crit, type, blen, data]: blen is the body length in bytes  *)
(* as written in the header, data the body as the sequence of 16-bit words *)
(* the code reads from it (ntohs(data[i])), or, for a Cookie record, the    *)
(* one-element sequence holding the opaque cookie.  A message buffer       *)
(* holds the first `length' bytes of the encoding of a record sequence:    *)
(* every byte string is such a prefix (complete records, then at most one *)
(* truncated record), so nothing is lost by this view.                     *)
(***************************************************************************)
EXTENDS Integers, Sequences

CONSTANTS
    MaxMessageLength,   \* MAX_MESSAGE_LENGTH, sizeof (message->data)
    MaxCookieLength     \* NKE_MAX_COOKIE_LENGTH (nts_ke.h)

ASSUME MaxMessageLength \in Nat \ {0}
ASSUME MaxCookieLength \in Nat \ {0}

\* sizeof (struct RecordHeader)
HeaderLength == 4

RECORD_END_OF_MESSAGE == 0
RECORD_NEXT_PROTOCOL == 1
RECORD_ERROR == 2
RECORD_WARNING == 3
RECORD_AEAD_ALGORITHM == 4
RECORD_COOKIE == 5
RECORD_NTPV4_SERVER_NEGOTIATION == 6
RECORD_NTPV4_PORT_NEGOTIATION == 7

ERROR_BAD_RESPONSE == -2
ERROR_NONE == -1
ERROR_UNRECOGNIZED_CRITICAL_RECORD == 0
ERROR_BAD_REQUEST == 1

NEXT_PROTOCOL_NONE == -1
NEXT_PROTOCOL_NTPV4 == 0
AEAD_NONE == -1
AEAD_AES_SIV_CMAC_256 == 15

\* The default NTP port prepare_response() compares CNF_GetNTPPort() with.
NTP_PORT == 123

\* A record whose body is the given 16-bit words.
WordsRecord(crit, type, words) ==
    [crit |-> crit, type |-> type, blen |-> 2 * Len(words), data |-> words]

\* A Cookie record carrying the opaque cookie c of cookieLength bytes.
CookieRecord(crit, c, cookieLength) ==
    [crit |-> crit, type |-> RECORD_COOKIE, blen |-> cookieLength, data |-> <<c>>]

EndOfMessage == WordsRecord(TRUE, RECORD_END_OF_MESSAGE, <<>>)

RecordSize(r) == HeaderLength + r.blen

RECURSIVE EncodedLength(_)
EncodedLength(recs) ==
    IF recs = <<>> THEN 0 ELSE RecordSize(Head(recs)) + EncodedLength(Tail(recs))

(***************************************************************************)
(* get_record() called until it fails, from parsed = 0: the records       *)
(* entirely inside the first len bytes.  Their encoded length is the      *)
(* final value of message->parsed.                                         *)
(***************************************************************************)
RECURSIVE CompleteRecords(_, _)
CompleteRecords(recs, len) ==
    IF recs = <<>> \/ RecordSize(Head(recs)) > len
    THEN <<>>
    ELSE <<Head(recs)>> \o CompleteRecords(Tail(recs), len - RecordSize(Head(recs)))

\* check_message_format()
CheckMessageFormat(recs, length, eof) ==
    LET parsed == CompleteRecords(recs, length)
        last   == parsed[Len(parsed)]
    IN  IF length = 0 \/ EncodedLength(parsed) < length
        THEN IF eof THEN "MSG_ERROR" ELSE "MSG_INCOMPLETE"
        ELSE IF ~last.crit \/ last.type # RECORD_END_OF_MESSAGE \/ last.blen # 0
             THEN "MSG_ERROR"
             ELSE "MSG_OK"

(***************************************************************************)
(* A sequence of add_record() calls from an empty message, stopping at    *)
(* the first that fails: the message keeps the records that fit, and ok   *)
(* tells whether all did (body_length never exceeds 0xffff here).          *)
(***************************************************************************)
AddRecords(recs) ==
    [recs |-> CompleteRecords(recs, MaxMessageLength),
     ok   |-> EncodedLength(recs) <= MaxMessageLength]

\* prepare_request()
PrepareRequest ==
    AddRecords(<<WordsRecord(TRUE, RECORD_NEXT_PROTOCOL, <<NEXT_PROTOCOL_NTPV4>>),
                 WordsRecord(TRUE, RECORD_AEAD_ALGORITHM, <<AEAD_AES_SIV_CMAC_256>>),
                 EndOfMessage>>)

(***************************************************************************)
(* prepare_response().  cookies is the sequence of cookies the server     *)
(* seals (MAX_COOKIES calls of NKE_GenerateCookie), keysOk the result of   *)
(* NKE_GetKeys(); when it fails the function returns 0 with the message   *)
(* holding the records added so far and no End-of-Message.                 *)
(***************************************************************************)
PrepareResponse(error, nextProtocol, aead, ntpPort, defaultPort, keysOk, cookies, cookieLength) ==
    LET head == IF error # ERROR_NONE
                THEN <<WordsRecord(TRUE, RECORD_ERROR, <<error>>)>>
                ELSE <<WordsRecord(TRUE, RECORD_NEXT_PROTOCOL, <<nextProtocol>>),
                       WordsRecord(TRUE, RECORD_AEAD_ALGORITHM, <<aead>>)>>
                     \o (IF ntpPort # defaultPort
                         THEN <<WordsRecord(TRUE, RECORD_NTPV4_PORT_NEGOTIATION, <<ntpPort>>)>>
                         ELSE <<>>)
        body == [i \in 1..Len(cookies) |-> CookieRecord(FALSE, cookies[i], cookieLength)]
    IN  IF error = ERROR_NONE /\ ~keysOk
        THEN [AddRecords(head) EXCEPT !.ok = FALSE]
        ELSE AddRecords(head \o (IF error = ERROR_NONE THEN body ELSE <<>>) \o <<EndOfMessage>>)

\* A body of 16-bit words is valid when it has at least one and an even length.
WordsOk(r) == r.blen >= 2 /\ r.blen % 2 = 0

Offers(r, v) == \E i \in 1..Len(r.data) : r.data[i] = v

(***************************************************************************)
(* One iteration of the loop of process_request(), on the accumulator     *)
(* [error, next, aead, hasNext]; the loop stops at the first error.        *)
(***************************************************************************)
RequestStep(acc, r) ==
    IF acc.error # ERROR_NONE THEN acc
    ELSE CASE r.type = RECORD_NEXT_PROTOCOL ->
                IF ~r.crit \/ ~WordsOk(r) THEN [acc EXCEPT !.error = ERROR_BAD_REQUEST]
                ELSE [acc EXCEPT !.next = IF Offers(r, NEXT_PROTOCOL_NTPV4)
                                          THEN NEXT_PROTOCOL_NTPV4 ELSE @,
                                 !.hasNext = TRUE]
           [] r.type = RECORD_AEAD_ALGORITHM ->
                IF ~WordsOk(r) THEN [acc EXCEPT !.error = ERROR_BAD_REQUEST]
                ELSE [acc EXCEPT !.aead = IF Offers(r, AEAD_AES_SIV_CMAC_256)
                                          THEN AEAD_AES_SIV_CMAC_256 ELSE @]
           [] r.type \in {RECORD_ERROR, RECORD_WARNING, RECORD_COOKIE} ->
                [acc EXCEPT !.error = ERROR_BAD_REQUEST]
           [] r.type = RECORD_END_OF_MESSAGE -> acc
           [] OTHER -> IF r.crit THEN [acc EXCEPT !.error = ERROR_UNRECOGNIZED_CRITICAL_RECORD]
                       ELSE acc

RECURSIVE FoldRequest(_, _)
FoldRequest(acc, recs) ==
    IF recs = <<>> THEN acc ELSE FoldRequest(RequestStep(acc, Head(recs)), Tail(recs))

\* process_request() up to the call of prepare_response(): [error, next, aead].
ProcessRequest(recs) ==
    LET acc == FoldRequest(
                   [error |-> ERROR_NONE, next |-> NEXT_PROTOCOL_NONE,
                    aead |-> AEAD_NONE, hasNext |-> FALSE], recs)
    IN  [error |-> IF acc.hasNext THEN acc.error ELSE ERROR_BAD_REQUEST,
         next |-> acc.next, aead |-> acc.aead]

(***************************************************************************)
(* One iteration of the loop of process_response(), on the accumulator    *)
(* [error, next, aead, cookies, addr, port] with at most maxCookies       *)
(* cookies kept.  The body of an NTPv4-Server record is "IP" when         *)
(* UTI_StringToIP() accepts it.                                            *)
\* Variant of ResponseStep that takes any AEAD-Algorithm record.
ResponseStepNoAeadCheck(maxCookies, acc, r) ==
    IF acc.error # ERROR_NONE THEN acc
    ELSE CASE r.type = RECORD_NEXT_PROTOCOL ->
                IF ~r.crit \/ r.blen # 2 \/ r.data[1] # NEXT_PROTOCOL_NTPV4
                THEN [acc EXCEPT !.error = ERROR_BAD_RESPONSE]
                ELSE [acc EXCEPT !.next = NEXT_PROTOCOL_NTPV4]
           [] r.type = RECORD_AEAD_ALGORITHM ->
                [acc EXCEPT !.aead = AEAD_AES_SIV_CMAC_256]
           [] r.type \in {RECORD_ERROR, RECORD_WARNING} ->
                [acc EXCEPT !.error = ERROR_BAD_RESPONSE]
           [] r.type = RECORD_COOKIE ->
                IF r.blen <= MaxCookieLength /\ Len(acc.cookies) < maxCookies
                THEN [acc EXCEPT !.cookies = Append(@, r.data[1])]
                ELSE acc
           [] r.type = RECORD_END_OF_MESSAGE -> acc
           [] r.type = RECORD_NTPV4_SERVER_NEGOTIATION ->
                IF r.blen < 2 \/ r.data # <<"IP">>
                THEN [acc EXCEPT !.error = ERROR_BAD_RESPONSE]
                ELSE [acc EXCEPT !.addr = "IP"]
           [] r.type = RECORD_NTPV4_PORT_NEGOTIATION ->
                IF r.blen # 2 THEN [acc EXCEPT !.error = ERROR_BAD_RESPONSE]
                ELSE [acc EXCEPT !.port = r.data[1]]
           [] OTHER -> IF r.crit THEN [acc EXCEPT !.error = 1] ELSE acc

(***************************************************************************)
ResponseStep(maxCookies, acc, r) ==
    IF acc.error # ERROR_NONE THEN acc
    ELSE CASE r.type = RECORD_NEXT_PROTOCOL ->
                IF ~r.crit \/ r.blen # 2 \/ r.data[1] # NEXT_PROTOCOL_NTPV4
                THEN [acc EXCEPT !.error = ERROR_BAD_RESPONSE]
                ELSE [acc EXCEPT !.next = NEXT_PROTOCOL_NTPV4]
           [] r.type = RECORD_AEAD_ALGORITHM ->
                [acc EXCEPT !.error = IF r.blen # 2 \/ r.data[1] # AEAD_AES_SIV_CMAC_256
                                      THEN ERROR_BAD_RESPONSE ELSE @,
                            !.aead = AEAD_AES_SIV_CMAC_256]
           [] r.type \in {RECORD_ERROR, RECORD_WARNING} ->
                [acc EXCEPT !.error = ERROR_BAD_RESPONSE]
           [] r.type = RECORD_COOKIE ->
                IF r.blen <= MaxCookieLength /\ Len(acc.cookies) < maxCookies
                THEN [acc EXCEPT !.cookies = Append(@, r.data[1])]
                ELSE acc
           [] r.type = RECORD_END_OF_MESSAGE -> acc
           [] r.type = RECORD_NTPV4_SERVER_NEGOTIATION ->
                IF r.blen < 2 \/ r.data # <<"IP">>
                THEN [acc EXCEPT !.error = ERROR_BAD_RESPONSE]
                ELSE [acc EXCEPT !.addr = "IP"]
           [] r.type = RECORD_NTPV4_PORT_NEGOTIATION ->
                IF r.blen # 2 THEN [acc EXCEPT !.error = ERROR_BAD_RESPONSE]
                ELSE [acc EXCEPT !.port = r.data[1]]
           [] OTHER -> IF r.crit THEN [acc EXCEPT !.error = 1] ELSE acc

RECURSIVE FoldResponse(_, _, _)
FoldResponse(maxCookies, acc, recs) ==
    IF recs = <<>> THEN acc
    ELSE FoldResponse(maxCookies, ResponseStep(maxCookies, acc, Head(recs)), Tail(recs))

(***************************************************************************)
(* process_response(): the cookies it copies out and its return value     *)
(* (0, or the number of cookies).  The copy into the caller's array       *)
(* happens whatever the return value; callers only use num entries.       *)
(***************************************************************************)
ProcessResponse(recs, maxCookies) ==
    LET acc == FoldResponse(maxCookies,
                   [error |-> ERROR_NONE, next |-> NEXT_PROTOCOL_NONE, aead |-> AEAD_NONE,
                    cookies |-> <<>>, addr |-> "UNSPEC", port |-> 0], recs)
        ok  == acc.next = NEXT_PROTOCOL_NTPV4 /\ acc.aead = AEAD_AES_SIV_CMAC_256
               /\ acc.error = ERROR_NONE
    IN  [num |-> IF ok THEN Len(acc.cookies) ELSE 0, cookies |-> acc.cookies,
         addr |-> acc.addr, port |-> acc.port]
=============================================================================
