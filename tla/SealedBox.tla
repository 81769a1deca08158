----------------------------- MODULE SealedBox ------------------------------
(***************************************************************************)
(* The sealed boxes of packages/crypto, symbolically: what opens with what. *)
(* A public key stands for itself, and the secret of k is known as such     *)
(* only to k's device.  X25519 gives both ends of an exchange the same      *)
(* shared secret; a ciphertext opens with the key it was made with and with *)
(* no other (XChaCha20-Poly1305 authenticates).                            *)
(***************************************************************************)

\* generateIdentity, by the public key it comes to have.
GenerateIdentity(k) == [publicKey |-> k, secretKey |-> [of |-> k]]

\* x25519.getSharedSecret
SharedSecret(secret, public) == {secret.of, public}

\* deriveKey: HKDF over the shared secret, salted with both public keys.
DeriveKey(shared, epk, recipientPub) == <<shared, epk, recipientPub>>

\* seal, with a throwaway key pair.
Seal(recipientPub, plaintext, ephemeral) ==
    LET epk == ephemeral.publicKey
        shared == SharedSecret(ephemeral.secretKey, recipientPub)
    IN  [key |-> DeriveKey(shared, epk, recipientPub), plaintext |-> plaintext, epk |-> epk]

\* open, which throws where this is false.
Opens(identity, box) ==
    box.key = DeriveKey(SharedSecret(identity.secretKey, box.epk), box.epk,
                        identity.publicKey)
=============================================================================
