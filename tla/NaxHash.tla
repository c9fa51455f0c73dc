------------------------------ MODULE NaxHash ------------------------------
(***************************************************************************)
(* Digests, checksums and codes of the framework (naxfw/src/hash.c):       *)
(* base64, CRC-32, DES, and the buffering and padding of MD5 and SHA-256.  *)
(* A machine word of crc32 and a register of DES is the set of its bits    *)
(* that are one; the block functions of MD5 and SHA-256 are not modelled:  *)
(* a digest is the sequence of the blocks it has absorbed.                 *)
(***************************************************************************)
EXTENDS Integers, Sequences, FiniteSets, SequencesExt, FiniteSetsExt

CONSTANTS
  WordBits,     \* width of a counter of md5ctx (32 in the code)
  Chunks,       \* lengths given to one md5_update
  MaxUpdates,   \* number of md5_update calls
  Longest,      \* bound: every length up to it is given whole to MD5 and SHA-256
  Inputs,       \* byte strings given to base64 and, in two parts, to crc32
  MaxCrc,       \* bound: bytes given to crc32
  DesJobs       \* <<key, text>> given to des_encrypt

VARIABLES
  md5ctx,       \* the MD5 context: counters, buffer, absorbed blocks
  fed,          \* the bytes of the running message
  updates,      \* md5_update calls so far
  digest,       \* what the last md5_final computed, and of which message
  coded         \* the last call of a pure function

hashvars == <<md5ctx, fed, updates, digest, coded>>

Zeros(n) == [i \in 1..n |-> 0]

Xor(a, b) == (a \ b) \cup (b \ a)

\* What a call gives that refuses its input: -1, NULL or an error, which is no
\* byte and no character.
Refused == <<-2>>

(***************************************************************************)
(* base64.  A character is its index in base64char; '=' is -1, which is    *)
(* also what a character outside the alphabet leaves in temp.              *)
(***************************************************************************)
Equals == -1

base64_encode_len(n) ==
  4 * ((n + (IF n % 3 # 0 THEN 3 - (n % 3) ELSE 0)) \div 3)

\* The four characters of the group that begins at byte i.
EncodeGroup(bin, i) ==
  LET current(k) == (bin[i + k] * 2 ^ (4 - 2 * k)) % 64
      low(k) == bin[i + k] \div 2 ^ (2 + 2 * k)
  IN  <<low(0)>> \o
      CASE i + 1 > Len(bin) -> <<current(0), Equals, Equals>>
        [] i + 2 > Len(bin) -> <<current(0) + low(1), current(1), Equals>>
        [] OTHER -> <<current(0) + low(1), current(1) + low(2), bin[i + 2] % 64>>

base64_encode(bin) ==
  IF bin = <<>> THEN Refused
  ELSE FlattenSeq([g \in 1..((Len(bin) + 2) \div 3) |-> EncodeGroup(bin, 3 * g - 2)])

base64_decode_len(text) ==
  IF text = <<>> THEN -1
  ELSE 3 * (Len(text) \div 4)
       - Cardinality({k \in {Len(text), Len(text) - 1} : text[k] = Equals})

\* The bytes of the group that begins at character i.
DecodeGroup(text, i) ==
  LET temp(k) == text[i + k] % 256
      byte(k, up) == ((temp(k) * up) % 256) + ((temp(k + 1) \div (64 \div up)) % up)
  IN  CASE text[i + 2] = Equals -> <<byte(0, 4)>>
        [] text[i + 3] = Equals -> <<byte(0, 4), byte(1, 16)>>
        [] OTHER -> <<byte(0, 4), byte(1, 16), byte(2, 64)>>

\* The loop ends with the group that holds a '='.
base64_decode(text) ==
  LET groups == [g \in 1..(Len(text) \div 4) |-> DecodeGroup(text, 4 * g - 3)]
      short == {g \in DOMAIN groups : Len(groups[g]) < 3}
  IN  IF text = <<>> THEN Refused
      ELSE FlattenSeq(IF short = {} THEN groups ELSE SubSeq(groups, 1, Min(short)))

(***************************************************************************)
(* CRC-32.                                                                 *)
(***************************************************************************)
Bits32 == 0..31

\* 0xEDB88320
CRC32_POLY ==
  {31, 30, 29, 27, 26, 24, 23, 21, 20, 19, 15, 9, 8, 5}

BitsOf(byte) == {b \in 0..7 : (byte \div 2 ^ b) % 2 = 1}

ShiftRight(word, n) == {b - n : b \in {c \in word : c >= n}}

DivideBit(word, bit) ==
  IF 0 \in word THEN Xor(ShiftRight(word, 1), CRC32_POLY) ELSE ShiftRight(word, 1)

crc32_table == [word \in SUBSET (0..7) |-> FoldLeft(DivideBit, word, [k \in 1..8 |-> k])]

CrcByte(crc, byte) ==
  Xor(ShiftRight(crc, 8), crc32_table[Xor({b \in crc : b < 8}, BitsOf(byte))])

\* The checksum of no bytes is 0, whatever it was to continue.
crc32(crc, string) ==
  IF string = <<>> THEN {}
  ELSE Xor(FoldLeft(CrcByte, Xor(crc, Bits32), string), Bits32)

(***************************************************************************)
(* MD5: counters of WordBits bits, the buffer of 64 bytes, the padding.    *)
(***************************************************************************)
Word == 2 ^ WordBits

\* md5_init leaves the buffer as it was: -1 is a byte never written.
md5_init(buffer) == [count |-> <<0, 0>>, buffer |-> buffer, state |-> <<>>]

\* _md5_encode: a word in four bytes, the lowest first.
_md5_encode(words) ==
  FlattenSeq([i \in 1..Len(words) |->
                [b \in 1..4 |-> (words[i] \div 2 ^ (8 * (b - 1))) % 256]])

Overwrite(buffer, at, bytes) ==
  [i \in 1..64 |-> IF i \in (at + 1)..(at + Len(bytes)) THEN bytes[i - at] ELSE buffer[i]]

Counted(count, len) ==
  LET bits == (len * 8) % Word
      low == (count[1] + bits) % Word
  IN  <<low, (count[2] + (IF low < bits THEN 1 ELSE 0) + (len \div 2 ^ (WordBits - 3))) % Word>>

\* The whole blocks of the input after its first partLen bytes.
Whole(input, partLen) == (Len(input) - partLen) \div 64

Absorb(ctx, input, index, partLen) ==
  IF Len(input) < partLen
    THEN [ctx EXCEPT !.buffer = Overwrite(@, index, input)]
  ELSE LET first == Overwrite(ctx.buffer, index, SubSeq(input, 1, partLen))
           rest == SubSeq(input, partLen + 1 + 64 * Whole(input, partLen), Len(input))
       IN  [ctx EXCEPT !.state = @ \o <<first>> \o
                          [b \in 1..Whole(input, partLen) |->
                             SubSeq(input, partLen + 64 * b - 63, partLen + 64 * b)],
                       !.buffer = Overwrite(first, 0, rest)]

Index(ctx) == (ctx.count[1] \div 8) % 64

md5_update(ctx, input) ==
  Absorb([ctx EXCEPT !.count = Counted(@, Len(input))], input, Index(ctx), 64 - Index(ctx))

padLen(index) == IF index < 56 THEN 56 - index ELSE 120 - index

md5_final(ctx) ==
  md5_update(md5_update(ctx, <<128>> \o Zeros(padLen(Index(ctx)) - 1)),
             _md5_encode(ctx.count)).state

(***************************************************************************)
(* SHA-256: the message laid out in words of the machine, lowest byte      *)
(* first, and read back a word at a time.                                  *)
(***************************************************************************)
\* Mutant: 56 bytes are taken to leave room for the mark.
actlenLate(len) == len + (IF len % 64 > 56 THEN 128 - (len % 64) ELSE 64 - (len % 64))

actlen(len) == len + (IF len % 64 >= 56 THEN 128 - (len % 64) ELSE 64 - (len % 64))

Swapped(i) == i + 3 - 2 * (i % 4)

\* The byte of the message, of the mark or of the zeros that goes to place p.
Laid(str, p) ==
  LET i == CHOOSE j \in {p - 3, p - 1, p + 1, p + 3} : Swapped(j) = p
  IN  IF i < Len(str) THEN str[i + 1] ELSE IF i = Len(str) THEN 128 ELSE 0

\* The two words of the length, as the machine stores them.
LengthWords(len) == _md5_encode(<<len \div 2 ^ 29, len * 8>>)

sha256_cursor(str) ==
  LET end == actlen(Len(str))
  IN  [q \in 1..end |-> IF q > end - 8 THEN LengthWords(Len(str))[q - (end - 8)]
                                       ELSE Laid(str, q - 1)]

\* What the rounds read: each word with its highest byte first.  room tells
\* whether memory for it can be had.
sha256_words(str, room) ==
  LET cursor == sha256_cursor(str)
  IN  IF str = <<>> \/ ~room THEN Refused
      ELSE [i \in 1..Len(cursor) |-> cursor[Swapped(i - 1) + 1]]

(***************************************************************************)
(* DES.  A register is the set of the places, from 1, whose bit is one.    *)
(***************************************************************************)
DES_IP_Table ==
 <<58, 50, 42, 34, 26, 18, 10, 2, 60, 52, 44, 36, 28, 20, 12, 4,
   62, 54, 46, 38, 30, 22, 14, 6, 64, 56, 48, 40, 32, 24, 16, 8,
   57, 49, 41, 33, 25, 17, 9, 1, 59, 51, 43, 35, 27, 19, 11, 3,
   61, 53, 45, 37, 29, 21, 13, 5, 63, 55, 47, 39, 31, 23, 15, 7>>

DES_IP_1_Table ==
 <<40, 8, 48, 16, 56, 24, 64, 32, 39, 7, 47, 15, 55, 23, 63, 31,
   38, 6, 46, 14, 54, 22, 62, 30, 37, 5, 45, 13, 53, 21, 61, 29,
   36, 4, 44, 12, 52, 20, 60, 28, 35, 3, 43, 11, 51, 19, 59, 27,
   34, 2, 42, 10, 50, 18, 58, 26, 33, 1, 41, 9, 49, 17, 57, 25>>

DES_E_Table ==
 <<32, 1, 2, 3, 4, 5, 4, 5, 6, 7, 8, 9, 8, 9, 10, 11, 12, 13, 12, 13, 14, 15, 16, 17,
   16, 17, 18, 19, 20, 21, 20, 21, 22, 23, 24, 25, 24, 25, 26, 27, 28, 29, 28, 29, 30, 31, 32, 1>>

DES_P_Table ==
 <<16, 7, 20, 21, 29, 12, 28, 17, 1, 15, 23, 26, 5, 18, 31, 10,
   2, 8, 24, 14, 32, 27, 3, 9, 19, 13, 30, 6, 22, 11, 4, 25>>

DES_S ==
 <<<<<<14, 4, 13, 1, 2, 15, 11, 8, 3, 10, 6, 12, 5, 9, 0, 7>>,
     <<0, 15, 7, 4, 14, 2, 13, 1, 10, 6, 12, 11, 9, 5, 3, 8>>,
     <<4, 1, 14, 8, 13, 6, 2, 11, 15, 12, 9, 7, 3, 10, 5, 0>>,
     <<15, 12, 8, 2, 4, 9, 1, 7, 5, 11, 3, 14, 10, 0, 6, 13>>>>,
   <<<<15, 1, 8, 14, 6, 11, 3, 4, 9, 7, 2, 13, 12, 0, 5, 10>>,
     <<3, 13, 4, 7, 15, 2, 8, 14, 12, 0, 1, 10, 6, 9, 11, 5>>,
     <<0, 14, 7, 11, 10, 4, 13, 1, 5, 8, 12, 6, 9, 3, 2, 15>>,
     <<13, 8, 10, 1, 3, 15, 4, 2, 11, 6, 7, 12, 0, 5, 14, 9>>>>,
   <<<<10, 0, 9, 14, 6, 3, 15, 5, 1, 13, 12, 7, 11, 4, 2, 8>>,
     <<13, 7, 0, 9, 3, 4, 6, 10, 2, 8, 5, 14, 12, 11, 15, 1>>,
     <<13, 6, 4, 9, 8, 15, 3, 0, 11, 1, 2, 12, 5, 10, 14, 7>>,
     <<1, 10, 13, 0, 6, 9, 8, 7, 4, 15, 14, 3, 11, 5, 2, 12>>>>,
   <<<<7, 13, 14, 3, 0, 6, 9, 10, 1, 2, 8, 5, 11, 12, 4, 15>>,
     <<13, 8, 11, 5, 6, 15, 0, 3, 4, 7, 2, 12, 1, 10, 14, 9>>,
     <<10, 6, 9, 0, 12, 11, 7, 13, 15, 1, 3, 14, 5, 2, 8, 4>>,
     <<3, 15, 0, 6, 10, 1, 13, 8, 9, 4, 5, 11, 12, 7, 2, 14>>>>,
   <<<<2, 12, 4, 1, 7, 10, 11, 6, 8, 5, 3, 15, 13, 0, 14, 9>>,
     <<14, 11, 2, 12, 4, 7, 13, 1, 5, 0, 15, 10, 3, 9, 8, 6>>,
     <<4, 2, 1, 11, 10, 13, 7, 8, 15, 9, 12, 5, 6, 3, 0, 14>>,
     <<11, 8, 12, 7, 1, 14, 2, 13, 6, 15, 0, 9, 10, 4, 5, 3>>>>,
   <<<<12, 1, 10, 15, 9, 2, 6, 8, 0, 13, 3, 4, 14, 7, 5, 11>>,
     <<10, 15, 4, 2, 7, 12, 9, 5, 6, 1, 13, 14, 0, 11, 3, 8>>,
     <<9, 14, 15, 5, 2, 8, 12, 3, 7, 0, 4, 10, 1, 13, 11, 6>>,
     <<4, 3, 2, 12, 9, 5, 15, 10, 11, 14, 1, 7, 6, 0, 8, 13>>>>,
   <<<<4, 11, 2, 14, 15, 0, 8, 13, 3, 12, 9, 7, 5, 10, 6, 1>>,
     <<13, 0, 11, 7, 4, 9, 1, 10, 14, 3, 5, 12, 2, 15, 8, 6>>,
     <<1, 4, 11, 13, 12, 3, 7, 14, 10, 15, 6, 8, 0, 5, 9, 2>>,
     <<6, 11, 13, 8, 1, 4, 10, 7, 9, 5, 0, 15, 14, 2, 3, 12>>>>,
   <<<<13, 2, 8, 4, 6, 15, 11, 1, 10, 9, 3, 14, 5, 0, 12, 7>>,
     <<1, 15, 13, 8, 10, 3, 7, 4, 12, 5, 6, 11, 0, 14, 9, 2>>,
     <<7, 11, 4, 1, 9, 12, 14, 2, 0, 6, 10, 13, 15, 3, 5, 8>>,
     <<2, 1, 14, 7, 4, 10, 8, 13, 15, 12, 9, 0, 3, 5, 6, 11>>>>>>

DES_PC_1 ==
 <<57, 49, 41, 33, 25, 17, 9, 1, 58, 50, 42, 34, 26, 18, 10, 2, 59, 51, 43, 35, 27, 19, 11, 3, 60, 52, 44, 36,
   63, 55, 47, 39, 31, 23, 15, 7, 62, 54, 46, 38, 30, 22, 14, 6, 61, 53, 45, 37, 29, 21, 13, 5, 28, 20, 12, 4>>

DES_PC_2 ==
 <<14, 17, 11, 24, 1, 5, 3, 28, 15, 6, 21, 10, 23, 19, 12, 4, 26, 8, 16, 7, 27, 20, 13, 2,
   41, 52, 31, 37, 47, 55, 30, 40, 51, 45, 33, 48, 44, 49, 39, 56, 34, 53, 46, 42, 50, 36, 29, 32>>

DES_MOVE_TIMES == <<1, 1, 2, 2, 2, 2, 2, 2, 1, 2, 2, 2, 2, 2, 2, 1>>

\* One bit for each place of the table, from the place the table names.
Permuted(bits, table) == {i \in 1..Len(table) : table[i] \in bits}

\* ByteToBit, Char8ToBit64: the lowest bit of a byte comes first.
Char8ToBit64(ch) == {8 * (i - 1) + b + 1 : <<i, b>> \in {x \in (1..8) \X (0..7) : x[2] \in BitsOf(ch[x[1]])}}

Bit64ToChar8(bits) ==
  [i \in 1..8 |-> SumSet({2 ^ b : b \in {c \in 0..7 : 8 * (i - 1) + c + 1 \in bits}})]

\* Both halves of 28 bits turn by themselves.
DES_ROL(data, time) ==
  {IF i <= 28 THEN ((i - 1 - time) % 28) + 1 ELSE ((i - 29 - time) % 28) + 29 : i \in data}

DES_MakeSubKeys(key) ==
  LET turns(n) == FoldLeft(+, 0, SubSeq(DES_MOVE_TIMES, 1, n))
  IN  [n \in 1..16 |-> Permuted(DES_ROL(Permuted(key, DES_PC_1), turns(n)), DES_PC_2)]

Bit(data, place) == IF place \in data THEN 1 ELSE 0

\* Box c, from 0, takes six bits to four.
DES_SBOX(data) ==
  UNION {LET cur1 == 6 * c
             line == 2 * Bit(data, cur1 + 1) + Bit(data, cur1 + 6)
             row == 8 * Bit(data, cur1 + 2) + 4 * Bit(data, cur1 + 3)
                    + 2 * Bit(data, cur1 + 4) + Bit(data, cur1 + 5)
         IN  {4 * c + 4 - b : b \in BitsOf(DES_S[c + 1][line + 1][row + 1])} : c \in 0..7}

Feistel(right, subKey) ==
  Permuted(DES_SBOX(Xor(Permuted(right, DES_E_Table), subKey)), DES_P_Table)

\* A round, and the swap the last one leaves out.
Round(half, subKey) ==
  [left |-> half.right, right |-> Xor(half.left, Feistel(half.right, subKey))]

LastRound(half, subKey) ==
  [left |-> Xor(half.left, Feistel(half.right, subKey)), right |-> half.right]

Rounds(half, subKeys) ==
  LastRound(FoldLeft(Round, half, SubSeq(subKeys, 1, 15)), subKeys[16])

Halves(bits) ==
  [left |-> {i \in bits : i <= 32}, right |-> {i - 32 : i \in {j \in bits : j > 32}}]

Joined(half) == half.left \cup {i + 32 : i \in half.right}

Block(ch, subKeys) ==
  Bit64ToChar8(Permuted(Joined(Rounds(Halves(Permuted(Char8ToBit64(ch), DES_IP_Table)), subKeys)),
                        DES_IP_1_Table))

__des_encryptBlock(ch, subKeys) == Block(ch, subKeys)

\* The subkeys in the other order.
__des_decryptBlock(ch, subKeys) == Block(ch, Reverse(subKeys))

\* The blocks of eight.
EachBlock(input) ==
  [k \in 1..(Len(input) \div 8) |-> SubSeq(input, 8 * k - 7, 8 * k)]

NotBlocks(input) == Len(input) = 0 \/ Len(input) % 8 # 0

des_encrypt(input, key) ==
  LET subKeys == DES_MakeSubKeys(Char8ToBit64(key))
      blocks == EachBlock(input)
  IN  IF NotBlocks(input) THEN Refused
      ELSE FlattenSeq([k \in DOMAIN blocks |-> __des_encryptBlock(blocks[k], subKeys)])

des_decrypt(input, key) ==
  LET subKeys == DES_MakeSubKeys(Char8ToBit64(key))
      blocks == EachBlock(input)
  IN  IF NotBlocks(input) THEN Refused
      ELSE FlattenSeq([k \in DOMAIN blocks |-> __des_decryptBlock(blocks[k], subKeys)])

(***************************************************************************)
(* Behaviours: a context is fed and closed, the pure functions are called. *)
(***************************************************************************)
HashInit ==
  /\ md5ctx = md5_init([i \in 1..64 |-> -1])
  /\ fed = <<>> /\ updates = 0
  /\ digest = [message |-> <<>>, state |-> <<>>]
  /\ coded = [op |-> "none"]

\* The bytes of a message are told apart by their places.
Message(from, len) == [i \in 1..len |-> (from + i) % 251]

\* A message begins with a part of any length up to Longest; the lengths of what
\* follows, and what is continued, come from Chunks.
Update ==
  \E len \in Chunks \cup (IF updates = 0 THEN 0..Longest ELSE {}) : \E input \in {Message(Len(fed), len)} :
    /\ coded.op = "none"
    /\ updates < MaxUpdates /\ updates' = updates + 1
    /\ updates = 1 => Len(fed) \in Chunks
    /\ md5ctx' = md5_update(md5ctx, input)
    /\ fed' = fed \o input
    /\ UNCHANGED <<digest, coded>>

\* The context is cleared and begun again.
Final ==
  /\ updates > 0
  /\ digest' = [message |-> fed, state |-> md5_final(md5ctx)]
  /\ md5ctx' = md5_init(Zeros(64))
  /\ fed' = <<>>
  /\ UNCHANGED <<updates, coded>>

Pure(result) ==
  /\ updates = 0 /\ coded.op = "none"
  /\ coded' = result
  /\ UNCHANGED <<md5ctx, fed, updates, digest>>

Base64 ==
  \E bin \in Inputs : Pure([op |-> "base64", bin |-> bin, text |-> base64_encode(bin)])

Crc32 ==
  \E a, b \in Inputs :
    /\ Len(a \o b) <= MaxCrc
    /\ Pure([op |-> "crc32", string |-> a \o b, last |-> b, whole |-> crc32({}, a \o b),
             chained |-> crc32(crc32({}, a), b)])

Sha256 ==
  \E len \in Chunks \cup 0..Longest, room \in BOOLEAN :
    Pure([op |-> "sha256", string |-> Message(0, len), room |-> room,
          words |-> sha256_words(Message(0, len), room)])

Des ==
  \E job \in DesJobs :
    Pure([op |-> "des", key |-> job[1], text |-> job[2], cipher |-> des_encrypt(job[2], job[1])])

HashNext == Update \/ Final \/ Base64 \/ Crc32 \/ Sha256 \/ Des

(***************************************************************************)
(* Properties.                                                             *)
(***************************************************************************)
\* The bytes of a group as one number of 24 bits.
GroupValue(bin, g) ==
  LET byte(k) == IF 3 * g + k <= Len(bin) THEN bin[3 * g + k] ELSE 0
  IN  65536 * byte(1) + 256 * byte(2) + byte(3)

\* The characters are the digits, to base 64, of each group of three bytes,
\* with '=' for what no byte reaches; both length functions tell the room
\* needed; and decoding gives the bytes back.  No bytes have no code, and the
\* code of nothing is refused (hash.c:127-243).
Base64Exact ==
  coded.op = "base64" =>
    LET bin == coded.bin
        text == coded.text
    IN  IF bin = <<>> THEN text = Refused /\ base64_decode(<<>>) = Refused
        ELSE
        /\ Len(text) = base64_encode_len(Len(bin))
        /\ \A j \in 0..(Len(text) - 1) :
             text[j + 1] = IF 3 * (j \div 4) + (IF j % 4 = 0 THEN 1 ELSE j % 4) <= Len(bin)
                           THEN (GroupValue(bin, j \div 4) \div 64 ^ (3 - (j % 4))) % 64
                           ELSE Equals
        /\ base64_decode_len(text) = Len(bin)
        /\ base64_decode(text) = bin

SerialBit(crc, bit) ==
  IF (0 \in crc) # (bit = 1) THEN Xor(ShiftRight(crc, 1), CRC32_POLY) ELSE ShiftRight(crc, 1)

Remainder(string) ==
  LET rem[n \in 0..(8 * Len(string))] ==
        IF n = 0 THEN Bits32
        ELSE SerialBit(rem[n - 1], (string[(n + 7) \div 8] \div 2 ^ ((n - 1) % 8)) % 2)
  IN  rem[8 * Len(string)]

\* The table gives what the division of the message, bit after bit, gives;
\* and a checksum can be continued with the next part, unless there is nothing
\* in it: then what came before is lost and the answer is 0 (hash.c:87-122).
CrcExact ==
  coded.op = "crc32" =>
    /\ coded.whole = Xor(Remainder(coded.string), Bits32)
    /\ coded.chained = IF coded.last = <<>> THEN {} ELSE coded.whole

\* blocks is the message, a one bit, as few zeros as make whole blocks, and
\* the last eight bytes.
IsPadded(bytes, message, last) ==
  LET zeros == Len(bytes) - Len(message) - 9
  IN  /\ Len(bytes) % 64 = 0 /\ zeros \in 0..63
      /\ bytes = message \o <<128>> \o Zeros(zeros) \o last

\* However a message is cut into updates, and also when the counter of its
\* bits carries, MD5 absorbs the message with its padding and its length, the
\* empty message too; SHA-256 does with its own order of bytes, and has no digest
\* for the empty message or without memory (hash.c:436-540, 974-1010).
DigestPadded ==
  /\ digest.state # <<>> =>
       LET bits == 8 * Len(digest.message)
       IN  IsPadded(FlattenSeq(digest.state), digest.message,
                    _md5_encode(<<bits % Word, bits \div Word>>))
  /\ coded.op = "sha256" =>
       IF coded.string = <<>> \/ ~coded.room THEN coded.words = Refused
       ELSE IsPadded(coded.words, coded.string,
                     Reverse(_md5_encode(<<8 * Len(coded.string), 0>>)))

Mirrored(bytes) ==
  [i \in DOMAIN bytes |-> SumSet({2 ^ (7 - b) : b \in BitsOf(bytes[i])})]

\* Published vectors of DES: key, text, cipher.
DesVectors ==
  {<<<<19, 52, 87, 121, 155, 188, 223, 241>>, <<1, 35, 69, 103, 137, 171, 205, 239>>,
     <<133, 232, 19, 84, 15, 10, 180, 5>>>>,
   <<Zeros(8), Zeros(8), <<140, 166, 77, 233, 193, 177, 35, 167>>>>}

\* Decrypting gives every text back, and up to the order of the bits in a
\* byte the cipher is DES (hash.c:545-951).
DesExact ==
  coded.op = "des" =>
    /\ IF Len(coded.text) \in {8 * n : n \in 1..Len(coded.text)}
         THEN des_decrypt(coded.cipher, coded.key) = coded.text
       ELSE coded.cipher = Refused
    /\ \A v \in DesVectors :
         coded.key = Mirrored(v[1]) /\ coded.text = Mirrored(v[2]) => coded.cipher = Mirrored(v[3])

\* On the inputs of the bounds, which hold every short length with none and every
\* length of a message up to Longest, the codes of hash.c are the published ones
\* and do not depend on how the message was cut, but for what is refused: nothing
\* to encode, decode, encrypt or digest by SHA-256, a text that is no whole number
\* of DES blocks, a checksum continued with an empty part.
HashExact == Base64Exact /\ CrcExact /\ DigestPadded /\ DesExact
=============================================================================
