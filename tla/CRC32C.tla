-------------------------------- MODULE CRC32C --------------------------------
(***************************************************************************)
(* The masked representation of a CRC in indexlib                         *)
(* (src/aios/storage/indexlib/util/CRC32C.h).  A CRC stored in a file is   *)
(* first masked -- rotated right by 15 bits and offset by kMaskDelta --    *)
(* and unmasked when read back.  Both run in uint32_t: the addition of     *)
(* kMaskDelta wraps for large rotations, the subtraction of Unmask wraps   *)
(* for small masked values, and the shifts drop the bits moved out.        *)
(*                                                                         *)
(* A uint32_t is a function from bit positions 0..31 to {0, 1}, so the     *)
(* model keeps the full width: the shifts move bits, | is bitwise, and +   *)
(* and - are ripple-carry additions whose carry out of bit 31 is lost.    *)
(*                                                                         *)
(* One behaviour computes a CRC, stores its masked form and loads it back. *)
(* Extend, the CRC itself, is declared in the header but defined outside  *)
(* it; the CRC values are taken from a set of words around every wrap      *)
(* point.                                                                  *)
(***************************************************************************)
EXTENDS Integers

Bits == 0 .. 31
Half == 2^16

(* The uint32_t whose high and low 16 bits are the numbers h and l.        *)
FromHalves(h, l) ==
  [i \in Bits |-> IF i < 16 THEN (l \div 2^i) % 2 ELSE (h \div 2^(i - 16)) % 2]

NoValue == FromHalves(0, 0)

(* kMaskDelta = 0xa282ead8.                                                *)
kMaskDelta == FromHalves(41602, 60120)

(* x >> k and x << k in uint32_t: the bits moved past either end are       *)
(* dropped and zeros come in.                                              *)
ShiftR(x, k) == [i \in Bits |-> IF i + k <= 31 THEN x[i + k] ELSE 0]
ShiftL(x, k) == [i \in Bits |-> IF i >= k THEN x[i - k] ELSE 0]

(* x | y.                                                                  *)
BitOr(x, y) == [i \in Bits |-> IF x[i] = 1 \/ y[i] = 1 THEN 1 ELSE 0]

(* x + y in uint32_t: the carry into bit i, and none out of bit 31.        *)
RECURSIVE CarryInto(_, _, _)
CarryInto(x, y, i) ==
  IF i = 0 THEN 0
  ELSE IF x[i - 1] + y[i - 1] + CarryInto(x, y, i - 1) >= 2 THEN 1 ELSE 0

AddU32(x, y) == [i \in Bits |-> (x[i] + y[i] + CarryInto(x, y, i)) % 2]

(* x - y in uint32_t: x plus the two's complement of y.                    *)
SubU32(x, y) ==
  AddU32(x, AddU32([i \in Bits |-> 1 - y[i]], FromHalves(0, 1)))

(* Rotation right by k, used to place CRC words at the wrap points.      *)
RotR(x, k) == [i \in Bits |-> x[(i + k) % 32]]

(***************************************************************************)
(* The CRC values a behaviour starts from: words whose halves are each     *)
(* near 0 or near 2^16, the words whose rotation lands around 2^32 -       *)
(* kMaskDelta (from where Mask's addition wraps), and the words around     *)
(* kMaskDelta.                                                             *)
(***************************************************************************)
EdgeHalves == (0 .. 5) \cup (Half - 6 .. Half - 1)
WrapPoint == SubU32(NoValue, kMaskDelta)
Inputs ==
  {FromHalves(h, l) : h, l \in EdgeHalves}
  \cup {RotR(AddU32(WrapPoint, FromHalves(0, i)), 17) : i \in 0 .. 12}
  \cup {RotR(SubU32(WrapPoint, FromHalves(0, i)), 17) : i \in 1 .. 12}
  \cup {AddU32(kMaskDelta, FromHalves(0, i)) : i \in 0 .. 12}

VARIABLES
  crc,     \* the CRC computed by the writer
  stored,  \* the word written to the file: Mask(crc)
  loaded,  \* the CRC the reader recovers: Unmask(stored)
  phase    \* "computed", "stored", "loaded"

vars == <<crc, stored, loaded, phase>>

(* Mask(crc): ((crc >> 15) | (crc << 17)) + kMaskDelta.                     *)
Mask(c) == AddU32(BitOr(ShiftR(c, 15), ShiftL(c, 17)), kMaskDelta)

(* A mutation: Unmask rotating by 15 instead of back by 17.              *)
UnmaskSwappedShifts(m) ==
  LET rot == SubU32(m, kMaskDelta) IN BitOr(ShiftR(rot, 15), ShiftL(rot, 17))

(* Unmask(masked_crc): rot = masked_crc - kMaskDelta, then                 *)
(* (rot >> 17) | (rot << 15).                                              *)
Unmask(m) ==
  LET rot == SubU32(m, kMaskDelta) IN BitOr(ShiftR(rot, 17), ShiftL(rot, 15))

(* The writer stores the masked CRC.                                       *)
StoreMasked ==
  /\ phase = "computed"
  /\ stored' = Mask(crc)
  /\ phase' = "stored"
  /\ UNCHANGED <<crc, loaded>>

(* The reader unmasks the stored word.                                     *)
LoadUnmasked ==
  /\ phase = "stored"
  /\ loaded' = Unmask(stored)
  /\ phase' = "loaded"
  /\ UNCHANGED <<crc, stored>>

Init ==
  /\ crc \in Inputs
  /\ stored = NoValue
  /\ loaded = NoValue
  /\ phase = "computed"

Next == StoreMasked \/ LoadUnmasked

Spec == Init /\ [][Next]_vars

-----------------------------------------------------------------------------
(* Types: every word the masking arithmetic produces is 32 bits of 0 or 1. *)
TypeOK ==
  /\ {crc, stored, loaded} \subseteq [Bits -> {0, 1}]
  /\ phase \in {"computed", "stored", "loaded"}

(* Reading back a stored CRC yields the CRC that was written, across the   *)
(* wraparound of Mask's addition and of Unmask's subtraction.              *)
UnmaskInvertsMask ==
  phase = "loaded" => loaded = crc
=============================================================================
