--------------------------------- MODULE Sealing ---------------------------------
(***************************************************************************)
(* The authenticated cipher of BRCrypto.c and the encrypted message of     *)
(* BRPaymentProtocol.c that two keys agree on.  Keys are those of Keys.tla;*)
(* the stream cipher and the generator are functions of their inputs       *)
(* (stand-ins), and a tag or a signature is what it was made of.           *)
(***************************************************************************)
EXTENDS Keys

\* BRChacha20 (a stand-in): byte i of the stream added to the data, from a block of the counter on
Chacha20(key, nonce, counter, data) ==
    [i \in DOMAIN data |-> (16 + Sha256(<<key, nonce, counter + ((i - 1) \div 64), (i - 1) % 64>>) - data[i]) % 16]

\* What _BRPoly1305Compress is given: the header and the data, each up to a whole block of 16, and their lengths
To16(s)             == s \o [i \in 1 .. (16 - (Len(s) % 16)) % 16 |-> 0]
\* wrong on purpose: without the lengths
TagTextWithoutLengths(ad, sealed) == To16(ad) \o To16(sealed)
TagText(ad, sealed) == To16(ad) \o To16(sealed) \o <<Len(ad), Len(sealed)>>
Poly1305(key, text) == [key |-> key, text |-> text]

\* BRChacha20Poly1305AEADEncrypt: the first block of the stream is the tag's key, the data begins with the second
AEADEncrypt(key, nonce, data, ad) ==
    LET sealed == Chacha20(key, nonce, 1, data)
        macKey == Chacha20(key, nonce, 0, <<0, 0>>)
    IN [sealed |-> sealed, tag |-> Poly1305(macKey, TagText(ad, sealed))]

\* BRChacha20Poly1305AEADDecrypt
Refused == <<-1>>
AEADDecrypt(key, nonce, box, ad) ==
    LET macKey == Chacha20(key, nonce, 0, <<0, 0>>)
    IN IF box.tag # Poly1305(macKey, TagText(ad, box.sealed)) THEN Refused ELSE Chacha20(key, nonce, 1, box.sealed)

-----------------------------------------------------------------------------
\* Two keys of a message; of one of them the secret is known
PublicOf(key) == [secret |-> key.secret, compressed |-> key.compressed, private |-> FALSE]
Private(key)  == [secret |-> key.secret, compressed |-> key.compressed, private |-> TRUE]

\* _BRPaymentProtocolEncryptedMessageCEK: the other key is the receiver's unless this one's bytes are the receiver's.
\* The generator (HMACDRBG of Hashing.tla, external here) is called twice.
CEK(msg, privKey) ==
    LET pubKey == IF KeyPubKey(privKey) # KeyPubKey(msg.receiverPubKey) THEN msg.receiverPubKey ELSE msg.senderPubKey
        secret == ECDH(privKey, pubKey)
    IN [cek |-> Sha256(<<secret, msg.nonce, 1>>), iv |-> Sha256(<<secret, msg.nonce, 2>>)]

\* The status code in decimal and the text behind it; a code that is not in the message is left out
Header(msg) == msg.statusCode \o msg.statusMsg

\* BRPaymentProtocolEncryptedMessageSerialize, with an empty signature while it is signed
Unsigned75(msg) == [msg EXCEPT !.signature = <<>>]
Sign(key, md)   == <<[by |-> key.secret, md |-> md]>>

\* BRPaymentProtocolEncryptedMessageNew
EncryptedMessageNew(message, receiver, sender, nonce, statusCode, statusMsg) ==
    LET privKey == IF receiver.private THEN receiver ELSE sender
        plain   == [receiverPubKey |-> PublicOf(receiver), senderPubKey |-> PublicOf(sender), nonce |-> nonce,
                    statusCode |-> statusCode, statusMsg |-> statusMsg, message |-> <<>>, signature |-> <<>>]
        k       == CEK(plain, privKey)
        sealed  == [plain EXCEPT !.message = AEADEncrypt(k.cek, k.iv, message, Header(plain))]
    IN [sealed EXCEPT !.signature = Sign(privKey, Unsigned75(sealed))]

\* BRPaymentProtocolEncryptedMessageDecrypt and ...Verify
EncryptedMessageDecrypt(msg, privKey) ==
    LET k == CEK(msg, privKey) IN AEADDecrypt(k.cek, k.iv, msg.message, Header(msg))
EncryptedMessageVerify(msg, pubKey) == msg.signature = Sign(pubKey, Unsigned75(msg))

-----------------------------------------------------------------------------
\* What was sealed is opened again, and nothing else is: not under another header, nor shortened, prolonged or changed.
AeadRoundTrip(key, nonce, data, ad) ==
    LET box       == AEADEncrypt(key, nonce, data, ad)
        with(s)   == AEADDecrypt(key, nonce, [box EXCEPT !.sealed = s], ad)
        headers   == {ad \o <<0>>, ad \o box.sealed} \union IF ad = <<>> THEN {} ELSE {Tail(ad), Front(ad)}
    IN /\ AEADDecrypt(key, nonce, box, ad) = data
       /\ with(box.sealed \o <<0>>) = Refused
       /\ data # <<>> => with(Front(box.sealed)) = Refused /\ with([box.sealed EXCEPT ![1] = (@ + 1) % 16]) = Refused
       /\ \A h \in headers \ {ad} : AEADDecrypt(key, nonce, box, h) = Refused

\* Either of the two keys opens a message whichever of them sealed it, and its signature is of the one that did.
MessageIsForBoth(a, b, compressed, nonce, message, code) ==
    LET receiver == [secret |-> a, compressed |-> compressed]
        sender   == [secret |-> b, compressed |-> compressed]
        sent     == EncryptedMessageNew(message, PublicOf(receiver), Private(sender), nonce, code, <<>>)
        answered == EncryptedMessageNew(message, Private(receiver), PublicOf(sender), nonce, code, <<>>)
    IN \A msg \in {sent, answered} :
           /\ EncryptedMessageDecrypt(msg, receiver) = message
           /\ EncryptedMessageDecrypt(msg, sender) = message
           /\ EncryptedMessageVerify(msg, IF msg = sent THEN sender ELSE receiver)
================================================================================
