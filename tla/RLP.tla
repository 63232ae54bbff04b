-------------------------------- MODULE RLP --------------------------------
(***************************************************************************)
(* The encoding of transactions as bytes, package rlp.  Bytes are numbers  *)
(* below 256; an item is a sequence of them or a list of items, and a list *)
(* is encoded from the encodings of its items.                             *)
(***************************************************************************)
EXTENDS Naturals, SequencesExt

Byte == 0..255

\* Big-endian and without leading zeros: nothing for 0.
ToBinary(n) ==
    LET digits[k \in 0..n] == IF k = 0 THEN <<>> ELSE Append(digits[k \div 256], k % 256)
    IN digits[n]

ToInt(bytes) ==
    LET value[k \in 0..Len(bytes)] == IF k = 0 THEN 0 ELSE 256 * value[k - 1] + bytes[k]
    IN value[Len(bytes)]

-----------------------------------------------------------------------------
\* Mutant: 56 bytes are given a short header.
EncodeLengthOffByOne(length, offset) ==
    IF length < 57 THEN <<length + offset>>
    ELSE <<Len(ToBinary(length)) + offset + 55>> \o ToBinary(length)

EncodeLength(length, offset) ==
    IF length < 56 THEN <<length + offset>>
    ELSE <<Len(ToBinary(length)) + offset + 55>> \o ToBinary(length)

EncodeBytes(bytes) ==
    IF Len(bytes) = 1 /\ bytes[1] < 128 THEN bytes ELSE EncodeLength(Len(bytes), 128) \o bytes

\* A number, and the nil pointer of a number that is 0.
EncodeBigInt(n) == EncodeBytes(ToBinary(n))

EncodeList(items) ==
    LET payload == FlattenSeq(items) IN EncodeLength(Len(payload), 192) \o payload

-----------------------------------------------------------------------------
Header(kind, offset, length) == [kind |-> kind, offset |-> offset, length |-> length]
TooShort == Header("error", 0, 0)

\* What the first byte says of the item that input begins with.
DecodeLength(input) ==
    LET prefix == input[1]
        Long(kind, size) ==
          IF Len(input) <= 1 + size THEN TooShort
          ELSE Header(kind, 1 + size, ToInt(SubSeq(input, 2, 1 + size)))
    IN CASE prefix <= 127 -> Header("string", 0, 1)
         [] prefix \in 128..183 -> Header("string", 1, prefix - 128)
         [] prefix \in 184..191 -> Long("string", prefix - 183)
         [] prefix \in 192..247 -> Header("list", 1, prefix - 192)
         [] prefix > 247 -> Long("list", prefix - 247)

Item(header, input, i) ==
    [kind |-> header.kind, content |-> SubSeq(input, i + header.offset, i + header.offset + header.length - 1)]

\* The items of a list, from its payload.  A list among them is given by its
\* payload in turn.
DecodeList(input) ==
    LET items[i \in 1..(Len(input) + 1)] ==
          IF i > Len(input) THEN <<>>
          ELSE LET h == DecodeLength(SubSeq(input, i, Len(input)))
                   next == i + h.offset + h.length
               IN IF h.kind = "error" \/ next > Len(input) + 1 THEN << [kind |-> "error", content |-> <<>>] >>
                  ELSE <<Item(h, input, i)>> \o items[next]
    IN items[1]

Decode(input) == Item(DecodeLength(input), input, 1)
=============================================================================
