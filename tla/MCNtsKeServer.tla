--------------------------- MODULE MCNtsKeServer ---------------------------
(***************************************************************************)
(* The KE server with a pool of one instance against clients that send    *)
(* the request prepare_request() builds or one offering another next      *)
(* protocol only.                                                          *)
(***************************************************************************)
EXTENDS NtsKeServer

\* The request of prepare_request().
ClientRequest == PrepareRequest.recs

\* A request offering Next-Protocol 1 only, with the AEAD algorithm.
ForeignProtocolRequest ==
    <<WordsRecord(TRUE, RECORD_NEXT_PROTOCOL, <<1>>),
      WordsRecord(TRUE, RECORD_AEAD_ALGORITHM, <<AEAD_AES_SIV_CMAC_256>>),
      EndOfMessage>>

MCRequests == {ClientRequest, ForeignProtocolRequest}

MCSessions == 1..MaxAccepts

ASSUME PrepareResponse(ERROR_NONE, NEXT_PROTOCOL_NTPV4, AEAD_AES_SIV_CMAC_256, NtpPort,
                       NTP_PORT, TRUE, [k \in 1..MaxCookies |-> ZeroKey], CookieLength).ok
====
