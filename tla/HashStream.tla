----------------------------- MODULE HashStream -----------------------------
(***************************************************************************)
(* The streaming part of md5.c, sha1.c, sha256.c and sha512.c: how a       *)
(* message that arrives in chunks is cut into blocks, counted and padded.  *)
(* The compression of a block is abstract: a context keeps the blocks it   *)
(* has compressed. A byte of the message is its position in the message;   *)
(* block and counter widths are constants.                                 *)
(***************************************************************************)
EXTENDS Integers, Sequences

CONSTANTS
  Block,       \* bytes in a block of MD5, SHA-1, SHA-256 (64)
  Word,        \* the values of a 32-bit counter: 2^32
  LongBlock,   \* words in a block of SHA-512 (16)
  LongWord,    \* bytes in such a word (8)
  Chunks,      \* sizes of the chunks an application passes
  MaxMessage   \* bound: longest message

ASSUME HashAssumption ==
  /\ {Block, LongBlock, LongWord, MaxMessage} \subseteq Nat /\ Word \in Nat \ {0}
  /\ Block > 2 /\ Word % (8 * Block) = 0
  /\ LongBlock > 2 /\ LongWord > 0
  /\ Chunks \subseteq Nat \ {0}

VARIABLES algo, ctx, fed   \* the algorithm, its context, bytes fed so far
hvars == <<algo, ctx, fed>>

One == -1              \* the padding byte 0x80
Count(w) == -2 - w     \* a counter word, written into one byte of the model

Zeros(n) == [i \in 1 .. n |-> 0]
Chunk(from, n) == [i \in 1 .. n |-> from + i]
\* memcpy(buffer + at, data, Len(data)).
Put(buffer, at, data) ==
  [i \in DOMAIN buffer |->
     IF i > at /\ i <= at + Len(data) THEN data[i - at] ELSE buffer[i]]
Drop(s, n) == SubSeq(s, n + 1, Len(s))
\* s cut into blocks of n, the incomplete one left out.
Cut(s, n) == [k \in 1 .. Len(s) \div n |-> SubSeq(s, (k - 1) * n + 1, k * n)]
Rest(s, n) == Drop(s, (Len(s) \div n) * n)

-----------------------------------------------------------------------------
MD5Init == [bits |-> <<0, 0>>, in |-> Zeros(Block), digest |-> <<>>]

\* bits is a counter of bits in two words, with a carry by hand; what is compressed
\* passes through in.
MD5Update(c, data) ==
  LET len == Len(data)
      t == c.bits[1]
      low == (t + 8 * len) % Word
      bits == <<low, (c.bits[2] + (IF low < t THEN 1 ELSE 0) + (8 * len) \div Word) % Word>>
      had == (t \div 8) % Block
      room == Block - had
      part == SubSeq(data, 1, room)
      rest == IF had > 0 THEN Drop(data, room) ELSE data
      all == Cut(rest, Block)
      first == IF had > 0 THEN <<Put(c.in, had, part)>> ELSE <<>>
      last == IF all # <<>> THEN all[Len(all)]
              ELSE IF had > 0 THEN first[1] ELSE c.in
  IN IF had > 0 /\ len < room
       THEN [c EXCEPT !.bits = bits, !.in = Put(@, had, data)]
       ELSE [bits |-> bits, in |-> Put(last, 0, Rest(rest, Block)),
             digest |-> c.digest \o first \o all]

\* All blocks of the padded message.
MD5Final(c) ==
  LET count == (c.bits[1] \div 8) % Block
      marked == Put(c.in, count, <<One>>)
      left == Block - 1 - count
      ending == <<Count(c.bits[1]), Count(c.bits[2])>>
  IN IF left < 2
       THEN c.digest \o <<Put(marked, count + 1, Zeros(left)), Zeros(Block - 2) \o ending>>
       ELSE Append(c.digest,
                   Put(Put(marked, count + 1, Zeros(left - 2)), Block - 2, ending))

MD5(data) == MD5Final(MD5Update(MD5Init, data))
-----------------------------------------------------------------------------
sha1_starts == [total |-> <<0, 0>>, buffer |-> Zeros(Block), digest |-> <<>>]

\* total counts bytes; whole blocks of the input do not pass through buffer.
sha1_update(c, data) ==
  LET ilen == Len(data)
      left == c.total[1] % Block
      fill == Block - left
      low == (c.total[1] + ilen) % Word
      total == <<low, IF low < ilen THEN (c.total[2] + 1) % Word ELSE c.total[2]>>
      full == left > 0 /\ ilen >= fill
      buffer == IF full THEN Put(c.buffer, left, SubSeq(data, 1, fill)) ELSE c.buffer
      rest == IF full THEN Drop(data, fill) ELSE data
      at == IF full THEN 0 ELSE left
      whole == IF at = 0 THEN Cut(rest, Block) ELSE <<>>
      tail == IF at = 0 THEN Rest(rest, Block) ELSE rest
  IN IF ilen = 0 THEN c
     ELSE [total |-> total, buffer |-> Put(buffer, at, tail),
           digest |-> c.digest \o (IF full THEN <<buffer>> ELSE <<>>) \o whole]

sha1_padding == <<One>> \o Zeros(Block - 1)

sha1_finish_Late(c) ==
  LET last == c.total[1] % Block
      padn == IF last <= Block - 2 THEN Block - 2 - last ELSE 2 * Block - 2 - last
      padded == sha1_update(c, SubSeq(sha1_padding, 1, padn))
  IN sha1_update(padded, <<Count(c.total[2]), Count(c.total[1] * 8)>>).digest
sha1_finish(c) ==
  LET high == (c.total[1] \div (Word \div 8) + c.total[2] * 8) % Word
      low == (c.total[1] * 8) % Word
      last == c.total[1] % Block
      padn == IF last < Block - 2 THEN Block - 2 - last ELSE 2 * Block - 2 - last
      padded == sha1_update(c, SubSeq(sha1_padding, 1, padn))
  IN sha1_update(padded, <<Count(high), Count(low)>>).digest

toSHA1(data) == sha1_finish(sha1_update(sha1_starts, data))

\* sha256.c keeps the same context and the same steps.
sha256_starts == sha1_starts
sha256_update(c, data) == sha1_update(c, data)
sha256_finish(c) == sha1_finish(c)
toSHA256(data) == sha256_finish(sha256_update(sha256_starts, data))

\* A byte of the key mixed with the inner or outer pad, the digest between them.
Inner(k) == -1000 - k
Outer(k) == -2000 - k
tmpbuf == <<-3001, -3002>>

\* The blocks of the inner and of the outer hash. A key longer than a block is cut.
sha1_hmac(key, input) ==
  LET k == [i \in 1 .. Block |-> IF i <= Len(key) THEN key[i] ELSE 0]
      Keyed(pad) == sha1_update(sha1_starts, pad)
  IN << sha1_finish(sha1_update(Keyed([i \in 1 .. Block |-> Inner(k[i])]), input)),
        sha1_finish(sha1_update(Keyed([i \in 1 .. Block |-> Outer(k[i])]), tmpbuf)) >>
-----------------------------------------------------------------------------
LongSize == LongBlock * LongWord
rhash_sha512_init == [length |-> 0, message |-> Zeros(LongSize), digest |-> <<>>]

\* Every block passes through message or is read where it lies, as it is aligned:
\* the leftovers overwrite the front of message in both cases.
rhash_sha512_update(c, msg, aligned) ==
  LET index == c.length % LongSize
      left == LongSize - index
      first == IF index > 0 THEN <<Put(c.message, index, SubSeq(msg, 1, left))>> ELSE <<>>
      rest == IF index > 0 THEN Drop(msg, left) ELSE msg
      all == Cut(rest, LongSize)
      under == IF all # <<>> /\ ~aligned THEN all[Len(all)]
               ELSE IF index > 0 THEN first[1] ELSE c.message
  IN IF index > 0 /\ Len(msg) < left
       THEN [c EXCEPT !.length = @ + Len(msg), !.message = Put(@, index, msg)]
       ELSE [length |-> c.length + Len(msg),
             message |-> Put(under, 0, Rest(rest, LongSize)),
             digest |-> c.digest \o first \o all]

\* 0x80 goes into the word the message ends in, whose later bytes are cleared; the
\* length needs the last word, the one before it is zero.
rhash_sha512_final(c) ==
  LET used == c.length % LongSize
      index == used \div LongWord + 1
      marked == Put(c.message, used, <<One>> \o Zeros(index * LongWord - used - 1))
      From(m, i) == Put(m, i * LongWord, Zeros((LongBlock - 1 - i) * LongWord))
      ending == Zeros(LongWord - 1) \o <<Count(c.length * 8)>>
      Last(m) == Put(m, (LongBlock - 1) * LongWord, ending)
  IN IF index >= LongBlock - 1
       THEN LET full == IF index = LongBlock - 1
                          THEN Put(marked, index * LongWord, Zeros(LongWord)) ELSE marked
            IN c.digest \o <<full, Last(From(full, 0))>>
       ELSE Append(c.digest, Last(From(marked, index)))

toSHA512(data, aligned) ==
  rhash_sha512_final(rhash_sha512_update(rhash_sha512_init, data, aligned))
-----------------------------------------------------------------------------
HashInit ==
  /\ algo \in {"md5", "sha1", "sha256", "sha512"}
  /\ ctx = (CASE algo = "md5" -> MD5Init [] algo = "sha1" -> sha1_starts
              [] algo = "sha256" -> sha256_starts [] OTHER -> rhash_sha512_init)
  /\ fed = 0

Update(n) ==
  LET data == Chunk(fed, n)
  IN /\ fed + n <= MaxMessage
     /\ \/ algo = "md5" /\ ctx' = MD5Update(ctx, data)
        \/ algo = "sha1" /\ ctx' = sha1_update(ctx, data)
        \/ algo = "sha256" /\ ctx' = sha256_update(ctx, data)
        \/ algo = "sha512" /\ \E aligned \in BOOLEAN :
                                ctx' = rhash_sha512_update(ctx, data, aligned)
     /\ fed' = fed + n
     /\ UNCHANGED algo

HashNext == \E n \in Chunks : Update(n)
HashSpec == HashInit /\ [][HashNext]_hvars

-----------------------------------------------------------------------------
\* The padding rule of the standards, stated for the whole message: 0x80, the fewest
\* zeros, the count of bits at the end of a block.
Padded(message, size, ending) ==
  LET short == (Len(message) + 1 + Len(ending)) % size
  IN Cut(message \o <<One>> \o Zeros(IF short = 0 THEN 0 ELSE size - short) \o ending, size)
BitCount(n) == << Count((8 * n) % Word), Count(((8 * n) \div Word) % Word) >>
BigEndian(w) == << w[2], w[1] >>

\* However a message is cut into calls of the update function, every algorithm
\* compresses exactly the blocks of the padded message, in order and nothing stale,
\* with the right length, the carry between the two words of the counter included.
StreamFed ==
  LET message == Chunk(0, fed)
      sha == Padded(message, Block, BigEndian(BitCount(fed)))
  IN CASE algo = "md5" -> MD5Final(ctx) = Padded(message, Block, BitCount(fed))
       [] algo = "sha1" -> sha1_finish(ctx) = sha
       [] algo = "sha256" -> sha256_finish(ctx) = sha
       [] OTHER -> rhash_sha512_final(ctx)
                     = Padded(message, LongSize, Zeros(2 * LongWord - 1) \o <<Count(fed * 8)>>)

\* The one-call functions see the same blocks; HMAC those of the two keyed messages.
OneCallFed ==
  LET message == Chunk(0, fed)
      sha == Padded(message, Block, BigEndian(BitCount(fed)))
      Keyed(key, Mix(_)) ==
        [i \in 1 .. Block |-> Mix(IF i <= Len(key) THEN key[i] ELSE 0)]
      Tagged(n) == BigEndian(BitCount(Block + n))
  IN CASE algo = "md5" -> MD5(message) = Padded(message, Block, BitCount(fed))
       [] algo = "sha1" ->
            /\ toSHA1(message) = sha
            /\ \A n \in {0, 1, Block} : LET key == Chunk(0, n) IN
                 sha1_hmac(key, message) =
                   << Padded(Keyed(key, Inner) \o message, Block, Tagged(fed)),
                      Padded(Keyed(key, Outer) \o tmpbuf, Block, Tagged(Len(tmpbuf))) >>
       [] algo = "sha256" -> toSHA256(message) = sha
       [] OTHER ->
            \A a \in BOOLEAN :
              toSHA512(message, a)
                = Padded(message, LongSize, Zeros(2 * LongWord - 1) \o <<Count(fed * 8)>>)

\* A hash depends on the message alone: not on the cuts between the calls that fed it,
\* nor on the function that was used.
HashFeedsMessage == StreamFed /\ OneCallFed
=============================================================================
