------------------------------- MODULE Hello -------------------------------
(***************************************************************************)
(* The cryptographic data of the handshake, as far as its checks can tell  *)
(* it apart: a key is whatever it was derived from, and a decoding or a    *)
(* verification succeeds exactly on what the matching operation made.      *)
(* An Option is a set with no or one element.                              *)
(***************************************************************************)

\* PeerId::from_public_key: a digest, so distinct keys have distinct ids.
PeerIdOf(publicKey) == [digest |-> publicKey]

\* DeviceIdentity::sign, by the secret key that belongs to publicKey.
Sign(publicKey, text) == [signer |-> publicKey, text |-> text]

\* Mutant: the two halves are hashed in the order each side sees them.
DeriveOneSidedKey(mine, theirs) == {mine}

\* X25519 and SHA-256: both sides compute the same key from the two halves.
DeriveSessionKey(mine, theirs) == {mine, theirs}

CreateHello(identity, exchange) ==
    [ kind                |-> "hello",
      peer_id             |-> PeerIdOf(identity),
      identity_public_key |-> identity,
      exchange_public_key |-> exchange,
      signature           |-> Sign(identity, exchange) ]

\* The joiner expects the identity its invite names; the host expects nobody.
VerifyHello(hello, expected) ==
    /\ expected \subseteq {hello.identity_public_key}
    /\ hello.peer_id = PeerIdOf(hello.identity_public_key)
    /\ hello.signature = Sign(hello.identity_public_key, hello.exchange_public_key)

\* SessionKey::encrypt into a ChatFrame, and whether decrypt accepts it.
Encrypt(key, body) == [kind |-> "chat", key |-> key, body |-> body]

Decrypts(key, frame) == frame.kind = "chat" /\ frame.key = key
=============================================================================
