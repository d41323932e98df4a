--------------------------- MODULE MCNtsKeRecord ---------------------------
(***************************************************************************)
(* The record codec and the request/response logic over every request of *)
(* up to three records from a small alphabet, every prefix length of it,  *)
(* both values of the eof flag and two configured NTP ports.  The state   *)
(* is the input; the checks are invariants over it.                        *)
(***************************************************************************)
EXTENDS NtsKeRecord

CONSTANTS MaxCookies, CookieLength

\* Records a client may put in a request.
Alphabet ==
    {WordsRecord(TRUE, RECORD_NEXT_PROTOCOL, <<NEXT_PROTOCOL_NTPV4>>),
     WordsRecord(TRUE, RECORD_NEXT_PROTOCOL, <<1>>),
     WordsRecord(TRUE, RECORD_AEAD_ALGORITHM, <<AEAD_AES_SIV_CMAC_256>>),
     WordsRecord(TRUE, RECORD_AEAD_ALGORITHM, <<1>>),
     WordsRecord(TRUE, 9, <<0>>),
     EndOfMessage}

Messages == UNION {[1..n -> Alphabet] : n \in 0..3}

VARIABLES recs, length, eof, ntpPort

vars == <<recs, length, eof, ntpPort>>

Init ==
    /\ recs \in Messages
    /\ length \in 0..EncodedLength(recs)
    /\ eof \in BOOLEAN
    /\ ntpPort \in {NTP_PORT, 4460}

Next == UNCHANGED vars

Spec == Init /\ [][Next]_vars

\* The cookies the server seals: opaque values.
Sealed == [k \in 1..MaxCookies |-> k]

(***************************************************************************)
(* A full KE exchange of the records of the request: process_request() on *)
(* the server, prepare_response() (keys available), process_response()    *)
(* on the client.  The client gets cookies exactly when the server agreed *)
(* on NTPv4 and AES-SIV-CMAC-256; then it gets the cookies the server     *)
(* sealed, in order, and the port the server advertised.                   *)
(***************************************************************************)
KeRoundTrip ==
    LET req  == ProcessRequest(CompleteRecords(recs, EncodedLength(recs)))
        resp == PrepareResponse(req.error, req.next, req.aead, ntpPort, NTP_PORT,
                                TRUE, Sealed, CookieLength)
        got  == ProcessResponse(resp.recs, MaxCookies)
    IN  /\ resp.ok
        /\ CheckMessageFormat(resp.recs, EncodedLength(resp.recs), FALSE) = "MSG_OK"
        /\ (got.num > 0) <=> (req.error = ERROR_NONE /\ req.next = NEXT_PROTOCOL_NTPV4
                              /\ req.aead = AEAD_AES_SIV_CMAC_256)
        /\ got.num > 0 => /\ got.cookies = Sealed
                          /\ got.port = IF ntpPort # NTP_PORT THEN ntpPort ELSE 0

\* validate() of spec section 4.A, the reference for check_message_format().
Validate ==
    LET parsed == CompleteRecords(recs, length)
        isEoM(r) == r.crit /\ r.type = RECORD_END_OF_MESSAGE /\ r.blen = 0
    IN  IF EncodedLength(parsed) < length \/ length = 0
        THEN IF eof THEN "MSG_ERROR" ELSE "MSG_INCOMPLETE"
        ELSE IF ~isEoM(parsed[Len(parsed)])
                \/ \E k \in 1..(Len(parsed) - 1) : parsed[k].type = RECORD_END_OF_MESSAGE
             THEN "MSG_ERROR"
             ELSE "MSG_OK"

(***************************************************************************)
(* check_message_format() agrees with validate(): a buffer is Ok only     *)
(* when it is complete, non-empty, ends with a critical empty             *)
(* End-of-Message and holds no record after the first End-of-Message     *)
(* (spec section 4.A and property 2 of section 8).  The empty buffer      *)
(* without eof is left out: update_state() never checks it.                *)
(***************************************************************************)
CheckMessageFormatMatchesValidate ==
    (length > 0 \/ eof) => CheckMessageFormat(recs, length, eof) = Validate
====
