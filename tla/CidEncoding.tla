---------------------------- MODULE CidEncoding ----------------------------
(***************************************************************************)
(* api/src/common/utils/cid.util.ts: how a content identifier becomes the  *)
(* digest that the contracts store, and the digest an identifier again.    *)
(*                                                                         *)
(* Bytes and characters are digits in the bases ByteBase and TextBase (256 *)
(* and 58 in the code), so that every digest can be tried.                 *)
(***************************************************************************)
EXTENDS Integers, Sequences, SequencesExt

CONSTANTS
  ByteBase, TextBase,
  DigestLength,   \* DIGEST_LENGTH
  CIDV0_PREFIX,   \* the two bytes before a digest in a CIDv0
  CidV1           \* first byte of a CIDv1

Byte == 0..(ByteBase - 1)
Digest == [1..DigestLength -> Byte]

ASSUME CidAssumption ==
  /\ {ByteBase, TextBase} \subseteq Nat \ {0, 1} /\ DigestLength \in Nat \ {0}
  /\ CIDV0_PREFIX \in Byte \X (Byte \ {0}) /\ CIDV0_PREFIX[1] \notin {0, CidV1} /\ CidV1 \in Byte
-----------------------------------------------------------------------------

\* The digits of a carry, least significant first.
Expand(carry, base) ==
  LET f[c \in 0..carry] == IF c = 0 THEN <<>> ELSE <<c % base>> \o f[c \div base] IN f[carry]

\* One round of the conversion loops: every digit is multiplied by the old
\* base and the next digit added, in the new base.
Shift(digits, next, from, to) ==
  LET carry[i \in 0..Len(digits)] == IF i = 0 THEN next ELSE (carry[i - 1] + digits[i] * from) \div to
  IN [i \in 1..Len(digits) |-> (carry[i - 1] + digits[i] * from) % to] \o Expand(carry[Len(digits)], to)

Convert(s, from, to) ==
  LET digits[i \in 0..Len(s)] == IF i = 0 THEN <<0>> ELSE Shift(digits[i - 1], s[i], from, to)
  IN digits[Len(s)]

\* The leading zeros of a sequence, which the conversion does not keep.
Zeros(s) == SelectInSeq(Append(s, 1), LAMBDA d : d # 0) - 1

base58Encode(bytes) == [i \in 1..Zeros(bytes) |-> 0] \o Reverse(Convert(bytes, ByteBase, TextBase))

base58Decode(text) ==
  Reverse(Convert(text, TextBase, ByteBase) \o [i \in 1..Zeros(text) |-> 0])
-----------------------------------------------------------------------------
(* An evidence reference is a CIDv0 (its base58 text), a digest in hex (its *)
(* bytes), or anything else.                                                *)

NoDigest == <<>>
NotText == [form |-> "other", text |-> <<>>]
Cid(text) == [form |-> "cidv0", text |-> text]
Hex(bytes) == [form |-> "hex", text |-> bytes]

\* The CIDv0 of content with this digest, as the pinning service answers.
CidOf(digest) == Cid(base58Encode(CIDV0_PREFIX \o digest))

tryExtractDigest(ref) ==
  IF ref.form = "hex" /\ Len(ref.text) = DigestLength THEN ref.text
  ELSE LET decoded == IF ref.form = "cidv0" THEN base58Decode(ref.text) ELSE <<>> IN
       IF Len(decoded) = DigestLength + 2 /\ SubSeq(decoded, 1, 2) = CIDV0_PREFIX
       THEN SubSeq(decoded, 3, Len(decoded)) ELSE NoDigest

\* encodeCid throws where isValidCid is false.
isValidCid(ref) == tryExtractDigest(ref) # NoDigest
encodeCid(ref) == tryExtractDigest(ref)

\* The base32 text of a CIDv1, never one of the references above.
Base32 == NotText

decodeCid(bytes) ==
  CASE bytes = <<>> -> NotText
    [] Len(bytes) = DigestLength + 2 /\ SubSeq(bytes, 1, 2) = CIDV0_PREFIX -> Cid(base58Encode(bytes))
    [] Len(bytes) > 2 /\ bytes[1] = CidV1 -> Base32
    [] Len(bytes) = DigestLength -> Cid(base58Encode(CIDV0_PREFIX \o bytes))
    [] OTHER -> Base32
=============================================================================
