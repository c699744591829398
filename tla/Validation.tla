----------------------------- MODULE Validation -----------------------------
(* The request bodies the server accepts (validators.py).  A string is a   *)
(* record of what the validators look at:                                  *)
(*   a name      core, the text between its blanks; length of the core;    *)
(*               padded, with blanks around; word, only [A-Za-z0-9_-];     *)
(*               threats, the patterns it matches                          *)
(*   a password  text and length                                           *)
(*   base64      chars, its length; alphabet, "std" or "url" or none of    *)
(*               the two; bytes, the length of what it decodes to          *)
(*   a hash      value, what it says in hexadecimal; digits; prefix, 0x;      *)
(*               upper, capital letters                                    *)
EXTENDS Integers

Strip(name) == [name EXCEPT !.padded = FALSE]

Threats == {"XSS", "SQL injection", "path traversal", "command injection"}

RejectThreats(v) == v.threats = {}

RegisterUsername(v) ==
    /\ v.length \in 1..64
    /\ v.word
    /\ RejectThreats(v)

RegisterPassword(v) == v.length \in 8..128

\* _BASE64: either alphabet.
Base64(v, max) == v.chars \in 1..max /\ v.alphabet \in {"std", "url"}

\* b64decode takes the standard alphabet only.
RegisterPublicKey(v) == Base64(v, 256) /\ v.alphabet = "std" /\ v.bytes = 32

\* public_key and encrypted_private_key as strings.
RegisterRequest(username, password, publicKey, envelope) ==
    /\ RegisterUsername(Strip(username))
    /\ RegisterPassword(password)
    /\ RegisterPublicKey(publicKey)
    /\ Base64(envelope, 4096)

\* Mutant: the limits of registration are not those of the login.
LoginRequestShorter(username, password) ==
    /\ Strip(username).length \in 1..64
    /\ RejectThreats(Strip(username))
    /\ password.length \in 1..127

LoginRequest(username, password) ==
    /\ Strip(username).length \in 1..64
    /\ RejectThreats(Strip(username))
    /\ password.length \in 1..128

\* content_hash, optional: 64 hex digits, from here on with 0x and in lower
\* case.
ContentHash(v, none) == v # none => v.digits = 64
NormalHash(v, none) == IF v = none THEN none ELSE [v EXCEPT !.prefix = TRUE, !.upper = FALSE]

\* Mutant: the limit of the ciphertext is half of what the text may need.
SendMessageRequestHalf(ciphertext, ephPub, contentHash, none) ==
    /\ Base64(ciphertext, 32768)
    /\ Base64(ephPub, 256)
    /\ ContentHash(contentHash, none)

\* recipient_id is a positive number: it comes from the lookup.
SendMessageRequest(ciphertext, ephPub, contentHash, none) ==
    /\ Base64(ciphertext, 65536)
    /\ Base64(ephPub, 256)
    /\ ContentHash(contentHash, none)

\* bytesToB64 of so many bytes.
ToBase64(bytes) == [chars |-> 4 * ((bytes + 2) \div 3), alphabet |-> "std", bytes |-> bytes]
=============================================================================
