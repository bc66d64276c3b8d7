----------------------------- MODULE Streaming -----------------------------
(* Streaming encryption (crates/crypto/src/streaming.rs): a file in chunks, *)
(* each sealed under a nonce of its own and bound to the file, its place   *)
(* and whether it is the last.  A stored stream may be cut anywhere, parts *)
(* of it may be lost, doubled, moved or taken from another stream, and the *)
(* header, which nothing protects, may be another's.                       *)
EXTENDS Integers, Sequences, FiniteSets

CONSTANTS
    Streams,    \* pairs of a file and a base nonce, the bits set in it
    ChunkSize,  \* the encryptor's chunk size, in bytes
    SizesRead,  \* chunk sizes a header can hold; legal ones from MinChunkSize
    MinChunkSize,
    Tag,        \* bytes of an authentication tag
    Lengths,    \* bound: lengths of a file, in bytes
    MaxDamage   \* bound: damages to a stored stream

ASSUME StreamAssumption ==
    /\ \A s \in Streams : s = <<s[1], s[2]>>
    /\ ChunkSize \in Nat \ {0} /\ Tag \in Nat \ {0} /\ MinChunkSize \in Nat \ {0}
    /\ ChunkSize \in SizesRead /\ SizesRead \subseteq Nat /\ Lengths \subseteq Nat

Files == {s[1] : s \in Streams}

VARIABLES
    length,     \* length[s]: the bytes that stream s was made from
    work,       \* the stream an encryptor or decryptor works on, and its step
    stored,     \* the stored stream: its header and its bytes
    output,     \* the plaintext the decryptor has written out
    damages

streamvars == <<length, work, stored, output, damages>>

\* derive_chunk_nonce: the index is XORed into the last 64 bits of the base.
BitsOf(index) == {b \in 0 .. 63 : b <= index /\ (index \div 2 ^ b) % 2 = 1}
DeriveChunkNonce(base, index) == (base \ BitsOf(index)) \cup (BitsOf(index) \ base)

BuildChunkAad_NoFinal(file, index, final) == <<file, index, FALSE>>

\* build_chunk_aad
BuildChunkAad(file, index, final) == <<file, index, final>>

\* encrypt_chunk: a sealed chunk is n bytes of plaintext and the tag.  A byte
\* of it is good only in its place under the nonce and data it was sealed with.
EncryptChunk(s, index, final, n) ==
    [pos \in 1 .. n + Tag |->
        [nonce |-> DeriveChunkNonce(s[2], index),
         aad |-> BuildChunkAad(s[1], index, final),
         size |-> n + Tag, pos |-> pos,
         plain |-> <<s, index * ChunkSize + pos>>]]

\* decrypt_chunk: the bytes of one sealed chunk, all of them, in order.
Authentic(piece, file, base, index, final) ==
    /\ Len(piece) = piece[1].size
    /\ \A pos \in 1 .. Len(piece) :
         /\ piece[pos].pos = pos
         /\ piece[pos].size = piece[1].size
         /\ piece[pos].nonce = DeriveChunkNonce(base, index)
         /\ piece[pos].aad = BuildChunkAad(file, index, final)

PlainOf(piece) == [pos \in 1 .. Len(piece) - Tag |-> piece[pos].plain]

Chunks_Floor(n) == n \div ChunkSize + 1
Chunks(n) == IF n = 0 THEN 1 ELSE (n + ChunkSize - 1) \div ChunkSize

\* calculate_encrypted_size, without the header's fixed size
CalculateEncryptedSize(n) == n + Chunks(n) * Tag

\* calculate_max_plaintext_size; size itself stands for None.
CalculateMaxPlaintextSize(size) ==
    LET sealed == ChunkSize + Tag
        full == size \div sealed
        rest == size % sealed
    IN IF size < Tag \/ (rest > 0 /\ rest < Tag) THEN size
       ELSE full * ChunkSize + IF rest >= Tag THEN rest - Tag ELSE 0

ChunkOf(n, index) == IF n - index * ChunkSize < ChunkSize THEN n - index * ChunkSize ELSE ChunkSize

\* encrypt_bytes: the whole of an input at once
Body(s) ==
    [k \in 1 .. length[s] + Chunks(length[s]) * Tag |->
        LET index == (k - 1) \div (ChunkSize + Tag)
            n == ChunkOf(length[s], index)
        IN  EncryptChunk(s, index, index * ChunkSize + n = length[s], n)
                [k - index * (ChunkSize + Tag)]]

\* decrypt_bytes: piece i ends where the next one begins, or with the bytes.
PieceEnd(body, i) ==
    LET next == (i + 1) * (stored.chunk + Tag) IN
    IF next < Len(body) THEN next ELSE Len(body)
Piece(body, i) == SubSeq(body, i * (stored.chunk + Tag) + 1, PieceEnd(body, i))
PieceOpens(body, s, i) ==
    /\ Len(Piece(body, i)) >= Tag
    /\ Authentic(Piece(body, i), s[1], s[2], i, PieceEnd(body, i) = Len(body))

\* A piece that does not open is an error, and no plaintext is returned with it.
DecryptBytes(body, s) ==
    LET pieces == {i \in 0 .. Len(body) : i * (stored.chunk + Tag) < Len(body)}
    IN  [ok |-> pieces # {} /\ \A i \in pieces : PieceOpens(body, s, i),
         plain |-> [k \in 1 .. Len(body) - Cardinality(pieces) * Tag |->
                       body[k + ((k - 1) \div stored.chunk) * Tag].plain]]

At(step, s, index, off) == [at |-> step, of |-> s, index |-> index, off |-> off]

StreamInit ==
    /\ length \in [Streams -> Lengths]
    /\ \E s \in Streams : work = At("encrypt", s, 0, 0)
    /\ stored = [nonce |-> work.of[2], chunk |-> ChunkSize, body |-> <<>>]
    /\ output = <<>>
    /\ damages = 0

\* encrypt_stream, one round of its loop: the chunk is the last when no byte
\* can be read behind it.
EncryptNext ==
    /\ work.at = "encrypt"
    /\ LET n == ChunkOf(length[work.of], work.index)
           done == work.index * ChunkSize + n
           final == done = length[work.of]
       IN /\ stored' = [stored EXCEPT !.body = @ \o EncryptChunk(work.of, work.index, final, n)]
          /\ work' = IF final THEN At("stored", work.of, 0, 0)
                              ELSE [work EXCEPT !.index = @ + 1]
    /\ UNCHANGED <<length, output, damages>>

\* The reader fails, an interrupted read of the byte behind a chunk included:
\* what has been written stays.
EncryptFails ==
    /\ work.at = "encrypt"
    /\ work' = At("stored", work.of, 0, 0)
    /\ UNCHANGED <<length, stored, output, damages>>

Damage ==
    /\ work.at = "stored" /\ damages < MaxDamage
    /\ damages' = damages + 1
    /\ \/ \E s \in Streams : stored' = [stored EXCEPT !.nonce = s[2]]
       \/ \E size \in SizesRead : stored' = [stored EXCEPT !.chunk = size]
       \/ \E s \in Streams, i \in 0 .. Len(stored.body) :
            \E j \in 1 .. Len(Body(s)) + 1 :
              stored' = [stored EXCEPT !.body =
                            SubSeq(@, 1, i) \o SubSeq(Body(s), j, Len(Body(s)))]
    /\ UNCHANGED <<length, work, output>>

\* decrypt_stream reads the header, ...
DecryptStream(file) ==
    /\ work.at = "stored"
    /\ work' = [At(IF stored.chunk \in SizesRead /\ stored.chunk >= MinChunkSize
                   THEN "decrypt" ELSE "failed", work.of, 0, 0)
                EXCEPT !.of = <<file, stored.nonce>>]
    /\ UNCHANGED <<length, stored, output, damages>>

\* ... and opens chunk after chunk, writing each out before it reads on.
DecryptNext ==
    /\ work.at = "decrypt"
    /\ LET total == Len(stored.body)
           end == IF work.off + stored.chunk + Tag < total
                  THEN work.off + stored.chunk + Tag ELSE total
           piece == SubSeq(stored.body, work.off + 1, end)
       IN IF /\ Len(piece) >= Tag
             /\ Authentic(piece, work.of[1], work.of[2], work.index, end = total)
          THEN /\ output' = output \o PlainOf(piece)
               /\ work' = IF end = total THEN [work EXCEPT !.at = "ok"]
                          ELSE [work EXCEPT !.index = @ + 1, !.off = end]
          ELSE work' = [work EXCEPT !.at = "failed"] /\ output' = output
    /\ UNCHANGED <<length, stored, damages>>

StreamNext ==
    \/ EncryptNext \/ EncryptFails \/ Damage
    \/ \E file \in Files : DecryptStream(file)
    \/ DecryptNext

StreamSpec == StreamInit /\ [][StreamNext]_streamvars
---------------------------------------------------------------------------
(* Whatever happened to the stored bytes, what the decryptor has written   *)
(* out is a beginning of one file's content as it was encrypted, and when  *)
(* it says Ok it is all of it (streaming.rs:8-13, 433-566).                *)
DecryptsWhatWasEncrypted ==
    LET s == work.of IN
    work.at \in {"decrypt", "ok", "failed"} =>
        /\ \A k \in 1 .. Len(output) : output[k] = <<s, k>>
        /\ work.at = "ok" => Len(output) = length[s]

(* Streams and byte slices are the same format: encrypt_bytes makes of a   *)
(* file what encrypt_stream made of it, of the size computed in advance,   *)
(* and decrypt_bytes accepts what decrypt_stream accepts, with the same    *)
(* plaintext, whatever happened to the bytes (streaming.rs:388-763).       *)
BytesAndStreamsAgree ==
    /\ work.at = "stored" /\ damages = 0 /\ Len(stored.body) > 0
         /\ stored.body[Len(stored.body)].aad[3] =>
           /\ stored.body = Body(work.of)
           /\ Len(stored.body) = CalculateEncryptedSize(length[work.of])
           /\ CalculateMaxPlaintextSize(Len(stored.body)) = length[work.of]
    /\ work.at \in {"ok", "failed"} /\ stored.chunk >= MinChunkSize =>
         LET bytes == DecryptBytes(stored.body, work.of) IN
           /\ bytes.ok <=> work.at = "ok"
           /\ bytes.ok => bytes.plain = output
===========================================================================
