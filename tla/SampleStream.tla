---------------------------- MODULE SampleStream ----------------------------
(***************************************************************************)
(* The sample stream of a V3C file: PCCBitstreamWriter::write puts every   *)
(* V3C unit behind its size, in as many bytes as the largest unit needs,   *)
(* and PCCBitstreamReader::read takes the units apart again by their       *)
(* sizes.  (The stream of NAL units in atlas data is not of this kind:     *)
(* its reader stores the sizes and goes on by parsing the units.)          *)
(*                                                                         *)
(* A byte has ByteBits bits, 8 in the code; fewer here make the sizes at   *)
(* which a size needs one byte more small.  A payload byte is represented  *)
(* by Payload.                                                             *)
(***************************************************************************)
EXTENDS Integers, Sequences, SequencesExt, FiniteSetsExt, Binary

CONSTANTS
  ByteBits,  \* the bits of a byte
  MaxSize,   \* bound: the size of a unit
  MaxUnits,  \* bound: the units of a stream
  Forced     \* the values of forcedSsvhUnitSizePrecisionBytes

ASSUME SampleStreamAssumption ==
  /\ ByteBits \in 1..8
  /\ MaxSize \in Nat \ {0}
  /\ MaxUnits \in Nat
  /\ Forced \subseteq 0..4

\* A size is a uint32_t, and the eight bytes a size may take hold it.
ASSUME SizeAssumption ==
  \E k \in 0..31 : MaxSize < Pow2[k + 1] /\ k < 8 * ByteBits

Payload == -1

VARIABLES
  sizes,      \* the sizes of the units to write
  forced,     \* forcedSsvhUnitSizePrecisionBytes
  precision,  \* the bytes of a size, as in the header of the stream
  bitstream,  \* the bytes behind the header
  next,       \* the unit to write next
  position,   \* the place of the reader in bitstream
  unitsRead,  \* the sizes of the units the reader has found
  pc          \* "header", "write", "read", "done" or "crash"

vars == <<sizes, forced, precision, bitstream, next, position, unitsRead, pc>>

-----------------------------------------------------------------------------
floorLog2(x) ==
  IF x = 0 THEN -1 ELSE CHOOSE k \in 0..31 : Pow2[k] <= x /\ x < Pow2[k + 1]
ceilLog2(x) == IF x = 0 THEN -1 ELSE floorLog2(x - 1) + 1

\* The ceiling of n / ByteBits, at least 1 and at most 8.
bytesFor(n) ==
  Min({Max({IF n <= 0 THEN 0 ELSE (n + ByteBits - 1) \div ByteBits, 1}), 8})

maxUnitSize == Max({0} \cup Range(sizes))

\* Mutant of unitSizePrecision: the forced precision replaces the computed one.
unitSizePrecision_Forced ==
  IF forced > 0 THEN forced ELSE bytesFor(ceilLog2(maxUnitSize))

unitSizePrecision == Max({bytesFor(ceilLog2(maxUnitSize)), forced})

\* bitstream.write(n, 8 * precision) and read(8 * precision): the low bits.
SizeBytes(n) == Digits(n, precision, ByteBits)
SizeOf(bytes) == Number(bytes, ByteBits)

Init ==
  /\ sizes \in BoundedSeq(1..MaxSize, MaxUnits)
  /\ forced \in Forced
  /\ precision = 0
  /\ bitstream = <<>>
  /\ next = 1
  /\ position = 0
  /\ unitsRead = <<>>
  /\ pc = "header"

\* The sizes are gone through, the header is written.
writeHeader ==
  /\ pc = "header"
  /\ precision' = unitSizePrecision
  /\ pc' = "write"
  /\ UNCHANGED <<sizes, forced, bitstream, next, position, unitsRead>>

\* sampleStreamV3CUnit of the writer.
writeUnit ==
  /\ pc = "write"
  /\ next <= Len(sizes)
  /\ bitstream' = bitstream \o SizeBytes(sizes[next]) \o [i \in 1..sizes[next] |-> Payload]
  /\ next' = next + 1
  /\ UNCHANGED <<sizes, forced, precision, position, unitsRead, pc>>

\* All units are written; the stream goes to a reader.
writeEnd ==
  /\ pc = "write"
  /\ next > Len(sizes)
  /\ pc' = "read"
  /\ UNCHANGED <<sizes, forced, precision, bitstream, next, position, unitsRead>>

\* Mutant of readUnit: the bytes of the size count as part of the unit.
readUnit_SizeIncluded ==
  /\ pc = "read"
  /\ position < Len(bitstream)
  /\ LET size == SizeOf(SubSeq(bitstream, position + 1, position + precision)) IN
       IF size = 0
         THEN pc' = "crash" /\ UNCHANGED <<position, unitsRead>>
         ELSE /\ unitsRead' = Append(unitsRead, size)
              /\ position' = position + Max({size, precision})
              /\ UNCHANGED pc
  /\ UNCHANGED <<sizes, forced, precision, bitstream, next>>

\* sampleStreamV3CUnit of the reader: the size, then that many bytes.  The type
\* is in the first of them; of an empty unit it is read behind the end of an
\* empty vector.
readUnit ==
  /\ pc = "read"
  /\ position < Len(bitstream)
  /\ LET size == SizeOf(SubSeq(bitstream, position + 1, position + precision)) IN
       IF size = 0
         THEN pc' = "crash" /\ UNCHANGED <<position, unitsRead>>
         ELSE /\ unitsRead' = Append(unitsRead, size)
              /\ position' = position + precision + size
              /\ UNCHANGED pc
  /\ UNCHANGED <<sizes, forced, precision, bitstream, next>>

\* moreData() is false.
readEnd ==
  /\ pc = "read"
  /\ position >= Len(bitstream)
  /\ pc' = "done"
  /\ UNCHANGED <<sizes, forced, precision, bitstream, next, position, unitsRead>>

Next == writeHeader \/ writeUnit \/ writeEnd \/ readUnit \/ readEnd

Spec == Init /\ [][Next]_vars

-----------------------------------------------------------------------------
(* Properties. *)

\* The bytes of the first k units, with their sizes.
unitsEnd(k) ==
  LET upTo[j \in 0..Len(sizes)] ==
        IF j = 0 THEN 0 ELSE upTo[j - 1] + precision + sizes[j]
  IN upTo[k]

\* The numbers a size of precision bytes can have.
sizeRange == Pow2[ByteBits * precision]

\* The reader is always at the start of a unit the writer wrote, and finds the
\* unit there: size bytes and payload are never taken for one another.
ReadsInStep ==
  /\ IsPrefix(unitsRead, sizes)
  /\ position = unitsEnd(Len(unitsRead))
  /\ pc = "done" => unitsRead = sizes

\* A stream is read back unless its largest unit has exactly as many bytes as
\* the smallest number that needs one byte more.
CrashOnlyAtPowerOfBase == pc = "crash" => maxUnitSize = sizeRange

\* "Calculating the precision of the unit size": the size of every unit fits in
\* precision bytes.
PrecisionSuffices ==
  pc # "header" => \A k \in DOMAIN sizes : sizes[k] < sizeRange
=============================================================================
