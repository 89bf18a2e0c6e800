------------------------------ MODULE AesProofs -------------------------------
EXTENDS AesBuffers, TLAPS

\* The buffer of aesEncrypt (encryption.cpp:27-28) holds what Update and Final
\* write, for a text of any length, the empty one included.
THEOREM EncryptFits ==
    ASSUME NEW n \in Nat
    PROVE  /\ EncryptUpdate(n) <= EncryptRoom(n)
           /\ CipherLen(n) <= EncryptRoom(n)
BY SMT DEF EncryptUpdate, EncryptRoom, CipherLen, Block

\* The buffer of aesDecrypt (encryption.cpp:64-65) holds what Update and Final
\* write, whatever number of bytes was received and whatever the padding says.
THEOREM DecryptFits ==
    ASSUME NEW c \in Nat \ {0}, NEW pad \in 1 .. Block
    PROVE  /\ DecryptUpdate(c) \in 0 .. DecryptRoom(c)
           /\ PlainLen(c, pad) <= DecryptRoom(c)
BY SMT DEF DecryptUpdate, DecryptRoom, PlainLen, Block

\* What aesEncrypt returns is whole blocks, never empty, and aesDecrypt gets
\* the length of the text back from it.
THEOREM LengthRoundTrip ==
    ASSUME NEW n \in Nat
    PROVE  /\ Decrypts(CipherLen(n))
           /\ Pad(n) \in 1 .. Block
           /\ PlainLen(CipherLen(n), Pad(n)) = n
BY SMT DEF Decrypts, CipherLen, Pad, PlainLen, DecryptUpdate, EncryptUpdate, Block

\* A message of up to 1023 bytes, and none longer, can be taken by one recv()
\* of the client (main.cpp:80,199): from 1024 bytes on it is cut.
THEOREM RecvBoundary ==
    ASSUME NEW n \in Nat
    PROVE  FitsRecv(n) <=> n <= 1023
BY SMT DEF FitsRecv, CipherLen, EncryptUpdate, RecvRoom, Block
==============================================================================
