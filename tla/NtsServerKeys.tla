--------------------------- MODULE NtsServerKeys ---------------------------
(***************************************************************************)
(* The NTS-KE server key ring of nts_ke.c (server_keys[], current_server_  *)
(* key), its rotation (generate_server_key, server_key_timeout, started by *)
(* NKE_Initialise) and the cookies sealed and opened with it               *)
(* (NKE_GenerateCookie, NKE_DecodeCookie).                                 *)
(*                                                                         *)
(* AES-SIV is abstract: the key material of slot i is an integer, 0 for    *)
(* the zeroed static array, r for the key drawn by the r-th rotation; a    *)
(* cookie [keyId, key, sess] records the key id written in it, the key it  *)
(* was sealed with and the KE session whose exporter keys it carries.      *)
(* SIV decryption succeeds exactly when it uses the sealing key.  The      *)
(* random high bits of a key id are the rotation number, so ids are fresh. *)
(***************************************************************************)
EXTENDS Integers, FiniteSets

CONSTANTS
    Sessions,       \* the KE sessions whose keys the server seals
    MaxRotations    \* bound on server_key_timeout() calls

KEY_ID_INDEX_BITS == 2
MAX_SERVER_KEYS == 2^KEY_ID_INDEX_BITS

KeySlots == 0..(MAX_SERVER_KEYS - 1)

VARIABLES
    serverKeys,     \* server_keys[]: [id, key] per slot
    currentKey,     \* current_server_key
    rotations,      \* generate_server_key() calls so far
    issued          \* the cookies NKE_GenerateCookie() has sealed, with the
                    \* rotation count when each was sealed

keyVars == <<serverKeys, currentKey, rotations, issued>>

\* A static ServerKey: id 0 and a zeroed SIV context.
ZeroKey == [id |-> 0, key |-> 0]

\* The id generate_server_key() gives slot index: random high bits, low bits index.
KeyId(random, index) == random * MAX_SERVER_KEYS + index

KeyInit ==
    /\ serverKeys = [i \in KeySlots |-> ZeroKey]
    /\ currentKey = 0
    /\ rotations = 0
    /\ issued = {}

\* Variants of GenerateServerKey: the index not wrapped; the slot written before the index advances.
GenerateServerKeyNoWrap ==
    LET next == currentKey + 1
    IN  /\ currentKey' = next
        /\ serverKeys' = [serverKeys EXCEPT ![next] =
                             [id |-> KeyId(rotations + 1, next), key |-> rotations + 1]]
        /\ rotations' = rotations + 1

GenerateServerKeyWriteThenAdvance ==
    /\ currentKey' = (currentKey + 1) % MAX_SERVER_KEYS
    /\ serverKeys' = [serverKeys EXCEPT ![currentKey] =
                         [id |-> KeyId(rotations + 1, currentKey), key |-> rotations + 1]]
    /\ rotations' = rotations + 1

\* generate_server_key(): advance the index, then draw the key and its id.
GenerateServerKey ==
    LET next == (currentKey + 1) % MAX_SERVER_KEYS
    IN  /\ currentKey' = next
        /\ serverKeys' = [serverKeys EXCEPT ![next] =
                             [id |-> KeyId(rotations + 1, next), key |-> rotations + 1]]
        /\ rotations' = rotations + 1

\* server_key_timeout(): rotate and re-arm (NKE_Initialise makes the first call).
ServerKeyTimeout ==
    /\ rotations < MaxRotations
    /\ GenerateServerKey
    /\ UNCHANGED issued

\* The cookie NKE_GenerateCookie() seals for session sess with the current key.
SealCookie(sess) ==
    [keyId |-> serverKeys[currentKey].id, key |-> serverKeys[currentKey].key, sess |-> sess]

\* Records the cookies NKE_GenerateCookie() has just sealed (a history variable).
IssueCookies(cs) == issued' = issued \cup {[cookie |-> c, rot |-> rotations] : c \in cs}

(***************************************************************************)
(* NKE_DecodeCookie() succeeds: the slot the key id selects holds that id *)
(* and SIV decryption with its key succeeds.                               *)
(***************************************************************************)
DecodeCookie(c) ==
    LET slot == serverKeys[c.keyId % MAX_SERVER_KEYS]
    IN  slot.id = c.keyId /\ slot.key = c.key

----------------------------------------------------------------------------
Cookie == [keyId : Nat, key : Nat, sess : Sessions]

KeyTypeOK ==
    /\ serverKeys \in [KeySlots -> [id : Nat, key : Nat]]
    /\ currentKey \in KeySlots
    /\ rotations \in 0..MaxRotations
    /\ issued \subseteq [cookie : Cookie, rot : 0..MaxRotations]

(***************************************************************************)
(* Spec section 8, properties 3 and 4: a cookie NKE_GenerateCookie()      *)
(* sealed opens with NKE_DecodeCookie() exactly while fewer than          *)
(* MAX_SERVER_KEYS rotations have happened since; generate_server_key()   *)
(* must advance current_server_key before writing the slot, and the id    *)
(* must carry the slot index NKE_DecodeCookie() looks it up by.            *)
(***************************************************************************)
CookieLifetime ==
    \A x \in issued : DecodeCookie(x.cookie) <=> rotations - x.rot < MAX_SERVER_KEYS

\* Cookies a client can seal itself: any slot's id, the zeroed SIV context.
Forged == {[keyId |-> k, key |-> 0, sess |-> s] : k \in KeySlots, s \in Sessions}

====
