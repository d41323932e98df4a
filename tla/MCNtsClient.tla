---------------------------- MODULE MCNtsClient ----------------------------
(***************************************************************************)
(* Model of the NTS client against an NTS-KE server that may answer a KE   *)
(* session with the response prepare_response() builds, with one that    *)
(* carries a Warning record after its first cookie, or with one longer   *)
(* than the KE message buffer.                                             *)
(***************************************************************************)
EXTENDS NtsClient

\* The length of a sealed cookie (sizeof (ServerCookie), 100 in the code).
MCCookieLength == 4

MCCookie(s, i) == [sess |-> s, n |-> i]

\* The server's response for session s, as prepare_response() builds it.
HonestResponse(s) ==
    PrepareResponse(ERROR_NONE, NEXT_PROTOCOL_NTPV4, AEAD_AES_SIV_CMAC_256, NTP_PORT, NTP_PORT,
                    TRUE, [i \in 1..MaxCookies |-> MCCookie(s, i)], MCCookieLength).recs

\* A response with a Warning record after its first cookie.
WarningResponse(s) ==
    <<WordsRecord(TRUE, RECORD_NEXT_PROTOCOL, <<NEXT_PROTOCOL_NTPV4>>),
      WordsRecord(TRUE, RECORD_AEAD_ALGORITHM, <<AEAD_AES_SIV_CMAC_256>>),
      CookieRecord(FALSE, MCCookie(s, 1), MCCookieLength),
      WordsRecord(TRUE, RECORD_WARNING, <<0>>),
      EndOfMessage>>

\* A response with more cookies than fit in the message buffer.
LongResponse(s) ==
    <<WordsRecord(TRUE, RECORD_NEXT_PROTOCOL, <<NEXT_PROTOCOL_NTPV4>>),
      WordsRecord(TRUE, RECORD_AEAD_ALGORITHM, <<AEAD_AES_SIV_CMAC_256>>)>>
    \o [i \in 1..(2 * MaxCookies) |-> CookieRecord(FALSE, MCCookie(s, i), MCCookieLength)]
    \o <<EndOfMessage>>

MCResponsesFor(s) == {HonestResponse(s), WarningResponse(s), LongResponse(s)}

ASSUME EncodedLength(HonestResponse(1)) <= MaxMessageLength
ASSUME EncodedLength(LongResponse(1)) > MaxMessageLength
=============================================================================
