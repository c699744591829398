------------------------------ MODULE Sealing ------------------------------
(* The encryption of messages and of private keys, written twice in the    *)
(* repository: in the browser (app.js, camelCase) and as an executable     *)
(* specification in Python (crypto.py, snake_case).                        *)
(*                                                                         *)
(* Symbolic: a public key names its private key, the secret that X25519    *)
(* yields is the set of the two private keys, and HKDF, Argon2id, AES-GCM  *)
(* and keccak256 are functions that no other arguments give the same value.*)
(* The associated data of messages is always empty.                        *)
CONSTANT NoText     \* what a failed decryption leaves: null

public_key(sk) == [of |-> sk]

exchange(sk, pk) == {sk, pk.of}

\* _hkdf; hkdfDerive in app.js.
hkdf(ikm, info) == [ikm |-> ikm, info |-> info]

\* AES-GCM with the key and the nonce derived from ikm and context.
KeyAndNonce(ikm, context) ==
    [key   |-> hkdf(ikm, <<"SecureMsg-v1-key", context>>),
     nonce |-> hkdf(ikm, <<"SecureMsg-v1-nonce", context>>)]

Encrypt(keys, text) == [under |-> keys, text |-> text]
Decrypt(keys, ct) == IF ct.under = keys THEN ct.text ELSE NoText

-----------------------------------------------------------------------------

\* Mutant: the sender's static key is left out of the derivation.
DeriveUnauthenticated(dh1, dh2, context) ==
    KeyAndNonce(<<dh1>>, <<context[1], context[3]>>)

\* Both secrets, and the three public keys.
DeriveBoth(dh1, dh2, context) == KeyAndNonce(<<dh1, dh2>>, context)

\* Mutant: sender and recipient change places in the context.
hpkeSealSwapped(eph, senderSk, senderPk, recipientPk, text) ==
    LET dh1 == exchange(eph, recipientPk)
        dh2 == exchange(senderSk, recipientPk)
        kemContext == <<public_key(eph), recipientPk, senderPk>>
    IN  [ephPub |-> public_key(eph),
         ciphertext |-> Encrypt(DeriveBoth(dh1, dh2, kemContext), text)]

hpkeSeal(eph, senderSk, senderPk, recipientPk, text) ==
    LET dh1 == exchange(eph, recipientPk)
        dh2 == exchange(senderSk, recipientPk)
        kemContext == <<public_key(eph), senderPk, recipientPk>>
    IN  [ephPub |-> public_key(eph),
         ciphertext |-> Encrypt(DeriveBoth(dh1, dh2, kemContext), text)]

hpkeOpen(recipientSk, recipientPk, senderPk, box) ==
    LET dh1 == exchange(recipientSk, box.ephPub)
        dh2 == exchange(recipientSk, senderPk)
        kemContext == <<box.ephPub, senderPk, recipientPk>>
    IN  Decrypt(DeriveBoth(dh1, dh2, kemContext), box.ciphertext)

\* The Python mirror; hpke_open computes the recipient's public key itself.
hpke_seal(eph_sk, sender_sk, sender_pk, recipient_pk, plaintext) ==
    LET ikm == <<exchange(eph_sk, recipient_pk), exchange(sender_sk, recipient_pk)>>
        kem_context == <<public_key(eph_sk), sender_pk, recipient_pk>>
    IN  [ephPub |-> public_key(eph_sk),
         ciphertext |-> Encrypt(KeyAndNonce(ikm, kem_context), plaintext)]

hpke_open(recipient_sk, sender_pk, box) ==
    LET ikm == <<exchange(recipient_sk, box.ephPub), exchange(recipient_sk, sender_pk)>>
        kem_context == <<box.ephPub, sender_pk, public_key(recipient_sk)>>
    IN  Decrypt(KeyAndNonce(ikm, kem_context), box.ciphertext)

-----------------------------------------------------------------------------

\* Argon2id of the password with a random salt, then HKDF.
Wrapping(password, salt) == hkdf(<<password, salt>>, "SecureMsg-v1-key-protection")

encryptPrivateKey(sk, password, salt) ==
    [salt |-> salt, ct |-> Encrypt(Wrapping(password, salt), sk)]

\* NoText: "Incorrect password".
decryptPrivateKey(envelope, password) ==
    Decrypt(Wrapping(password, envelope.salt), envelope.ct)

encrypt_private_key(private_key_bytes, password, salt) ==
    LET prk == <<password, salt>>
    IN  [salt |-> salt,
         ct |-> Encrypt(hkdf(prk, "SecureMsg-v1-key-protection"), private_key_bytes)]

decrypt_private_key(envelope, password) ==
    LET prk == <<password, envelope.salt>>
    IN  Decrypt(hkdf(prk, "SecureMsg-v1-key-protection"), envelope.ct)

keccak256(text) == [keccak |-> text]
=============================================================================
