------------------------------ MODULE AesBuffers ------------------------------
(***************************************************************************)
(* The sizes in aesEncrypt and aesDecrypt, in bytes: AES-128 in CBC mode   *)
(* with padding, through OpenSSL's EVP calls.  The contents are OpenSSL's; *)
(* what the code decides is how much room each call gets, and which texts  *)
(* the two ends can exchange through a recv() of RecvRoom bytes.           *)
(***************************************************************************)
EXTENDS Naturals

Block == 16         \* AES_BLOCK_SIZE

RecvRoom == 1024    \* char buffer[1024] of every recv() in the client

\* aesEncrypt of n bytes: new unsigned char[ciphertext_len].
EncryptRoom(n) == n + Block

\* EVP_EncryptUpdate writes the whole blocks, EVP_EncryptFinal_ex the last one,
\* filled up with Pad(n) bytes of padding: a whole block of it if n is even.
EncryptUpdate(n) == (n \div Block) * Block

Pad(n) == Block - (n % Block)

\* Mutant: two blocks for every started one.
CipherLenPlus(n) == EncryptUpdate(n) + 2 * Block

CipherLen(n) == EncryptUpdate(n) + Block

\* aesDecrypt of c bytes: new unsigned char[decrypted_len].
DecryptRoom(c) == c + Block

\* EVP_DecryptUpdate keeps the last whole block back, for the padding;
\* EVP_DecryptFinal_ex writes what is not padding of it, or fails when c is not
\* a number of whole blocks (or the padding is wrong): the result is then "".
DecryptUpdate(c) == IF c % Block = 0 THEN c - Block ELSE (c \div Block) * Block

Decrypts(c) == c > 0 /\ c % Block = 0

PlainLen(c, pad) == DecryptUpdate(c) + (Block - pad)

\* One recv() takes the whole of an encrypted text of n bytes.
FitsRecv(n) == CipherLen(n) <= RecvRoom
==============================================================================
