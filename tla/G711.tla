------------------------------- MODULE G711 --------------------------------
(***************************************************************************)
(* The G.711 encoders (src/internal/media/g711.go), sample by sample, and  *)
(* the decoders of the ITU recommendation, which the far end of a call     *)
(* applies to what they send.                                              *)
(***************************************************************************)
EXTENDS Integers, FiniteSetsExt

Octets == 0..255

Bit(v, n) == (v \div 2^n) % 2 = 1

(* Of octets; written as a sum, which is not recursive. *)
Xor(a, b) == MapThenSumSet(LAMBDA n : IF Bit(a, n) # Bit(b, n) THEN 2^n ELSE 0, 0..7)

(* The low byte of a segment: its number and four bits below the leading   *)
(* one.                                                                    *)
Packed(v, exponent) == exponent * 16 + ((v \div 2^(exponent + 3)) % 16)

(* Mutant of Limit: the clip is forgotten. *)
Unlimited(v, top) == v
Limit(v, top) == IF v > top THEN top ELSE v

(* The first mask, from 0x4000 down, that finds a bit set; 0 if none does. *)
ExponentPCMU(v) == Max({0} \cup {e \in 1..7 : Bit(v, e + 7)})

EncodePCMU(sample) ==
  LET sign  == IF sample < 0 THEN 128 ELSE 0
      value == Limit(IF sample < 0 THEN -sample ELSE sample, 32635) + 132
  IN 255 - (sign + Packed(value, ExponentPCMU(value)))

(* How often the threshold, 512 at first, is doubled. *)
ExponentPCMA(v) == 1 + Cardinality({e \in 1..6 : v >= 256 * 2^e})

EncodePCMA(sample) ==
  LET mask  == IF sample < 0 THEN 85 ELSE 213   \* 0x55, 0xd5
      value == Limit(IF sample < 0 THEN -sample - 1 ELSE sample, 32767)
  IN Xor(mask, IF value < 256 THEN value \div 16 ELSE Packed(value, ExponentPCMA(value)))

-----------------------------------------------------------------------------
(* The far end's decoders: a byte stands for the middle of an interval     *)
(* that reaches `half' to both sides.                                      *)
Exponent(code) == (code \div 16) % 8

DecodedPCMU ==
  [octet \in Octets |->
    LET code      == 255 - octet
        magnitude == (8 * (code % 16) + 132) * 2^Exponent(code) - 132
    IN [value |-> IF code >= 128 THEN -magnitude ELSE magnitude,
        half  |-> 4 * 2^Exponent(code)]]

DecodedPCMA ==
  [octet \in Octets |->
    LET code      == Xor(octet, 85)
        magnitude == IF Exponent(code) = 0 THEN 16 * (code % 16) + 8
                     ELSE (16 * (code % 16) + 264) * 2^(Exponent(code) - 1)
    IN [value |-> IF code >= 128 THEN magnitude ELSE -magnitude,
        half  |-> 4 * 2^Max({1, Exponent(code)})]]

Distance(a, b) == IF a > b THEN a - b ELSE b - a

(* The sample is in the interval of the byte, or beyond the loudest one,   *)
(* and then the byte is the loudest of its sign.                           *)
Quantised(decoded, octet, sample) ==
  \/ Distance(decoded[octet].value, sample) <= decoded[octet].half
  \/ LET loudest == Max({d.value : d \in Range(decoded)})
     IN \/ sample > loudest /\ decoded[octet].value = loudest
        \/ sample < -loudest /\ decoded[octet].value = -loudest
=============================================================================
