------------------------------- MODULE Idpack -------------------------------
(***************************************************************************)
(* The codec that packs the withdrawal ids of a sweep into its OP_RETURN   *)
(* output (sbtc/src/idpack, sbtc/src/leb128.rs): ids are cut into segments,*)
(* a segment is an offset, a length and a bitmap, and the first two are    *)
(* LEB128 numbers.  A byte holds GroupBits value bits and a continuation   *)
(* bit, so 7 and 64 are the values of the code; a pair of the same shape,  *)
(* such as 2 and 5, keeps the one bit that the last group carries.         *)
(* Additions that the code leaves unchecked panic on overflow: the build   *)
(* sets overflow-checks (Cargo.toml).                                      *)
(***************************************************************************)
EXTENDS SequenceFolds

CONSTANTS GroupBits, Width, AllocBytesLimit

Base == 2 ^ GroupBits
ByteBits == GroupBits + 1
U64Max == 2 ^ Width - 1
MaxBytes == (Width + GroupBits - 1) \div GroupBits
LastGroupMax == 2 ^ (Width - GroupBits * (MaxBytes - 1)) - 1

Ok(v) == [ok |-> TRUE, val |-> v]
Err(e) == [ok |-> FALSE, err |-> e]
Panic == Err("panic")
\* The ? operator: an error ends the function that meets it.
AndThen(result, Use(_)) == IF result.ok THEN Use(result.val) ELSE result
DivCeil(a, b) == (a + b - 1) \div b
SaturatingSub(a, b) == IF a < b THEN 0 ELSE a - b

-----------------------------------------------------------------------------
(* leb128.rs *)

EncodeInto[value \in 0..U64Max] ==
    IF value < Base THEN <<value>>
    ELSE <<(value % Base) + Base>> \o EncodeInto[value \div Base]

CalculateSize[value \in 0..U64Max] ==
    IF value < Base THEN 1 ELSE 1 + CalculateSize[value \div Base]

Continues(byte) == byte >= Base

\* The bytes read are those up to the first without a continuation bit; the
\* last byte a u64 can need has only LastGroupMax left of it.
TryDecode(bytes) ==
    LET Group(i) == bytes[i] % Base
        Decoded(n) ==
            IF n >= MaxBytes /\ Group(MaxBytes) > LastGroupMax THEN Err("ValueOutOfBounds")
            ELSE IF n >= MaxBytes /\ Continues(bytes[MaxBytes]) THEN Err("InvalidContinuation")
            ELSE IF Continues(bytes[n]) THEN Err("IncompleteSequence")
            ELSE Ok([value |-> MapThenSumSet(LAMBDA i : Group(i) * Base ^ (i - 1), 1..n),
                     read |-> n])
    IN  IF bytes = << >> THEN Err("EmptyInput")
        ELSE Decoded(Min({i \in DOMAIN bytes : ~Continues(bytes[i])} \cup {Len(bytes)}))

\* The cursor stands before byte pos + 1.
ReadLeb128(bytes, pos) ==
    IF pos >= Len(bytes) THEN Err("IndexOutOfBounds")
    ELSE TryDecode(SubSeq(bytes, pos + 1, Len(bytes)))

-----------------------------------------------------------------------------
(* segment.rs and segments.rs: a segment is the sequence of its values. *)

Offset(segment) == segment[1]
MaxValue(segment) == segment[Len(segment)]
RangeOf(segment) == MaxValue(segment) - Offset(segment)

TryInsert(segment, value) ==
    IF value < MaxValue(segment) THEN Err("UnsortedValue")
    ELSE IF value = MaxValue(segment) THEN Err("DuplicateValue")
    ELSE Ok(Append(segment, value))

TryPush(segments, segment) ==
    IF segments # << >> /\ Offset(segment) <= MaxValue(Last(segments))
    THEN Err("OverlappingSegments")
    ELSE Ok(Append(segments, segment))

Values(segments) == FlattenSeq(segments)

-----------------------------------------------------------------------------
(* segmenters/bitmap.rs *)

BitmapCosts(offset, prev, next) ==
    LET current == DivCeil(prev - offset, ByteBits)
        combined == DivCeil(next - offset, ByteBits)
    IN  [if_split |-> CalculateSize[current] + current
                        + CalculateSize[SaturatingSub(next, prev)] + 1,
         if_combined |-> CalculateSize[combined] + combined]

ShouldSplit(costs) == costs.if_split < costs.if_combined

\* The indices at which a segment starts, and the end of the values.
FindSegmentBoundaries(values) ==
    LET Step(acc, i) ==
            IF ShouldSplit(BitmapCosts(acc.offset, values[i - 1], values[i]))
            THEN [at |-> Append(acc.at, i), offset |-> values[i]]
            ELSE acc
        found == FoldLeft(Step, [at |-> <<1>>, offset |-> values[1]],
                          [i \in 1..(Len(values) - 1) |-> i + 1])
    IN  Append(found.at, Len(values) + 1)

CreateSegmentsFromBoundaries(values, boundaries) ==
    LET Insert(seg, v) == AndThen(seg, LAMBDA segment : TryInsert(segment, v))
        Segment(i) ==
            LET slice == SubSeq(values, boundaries[i], boundaries[i + 1] - 1)
            IN  IF slice = << >> THEN Err("InvalidBoundaries")
                ELSE FoldLeft(Insert, Ok(<<Head(slice)>>), Tail(slice))
        Push(acc, i) ==
            AndThen(acc, LAMBDA segments :
                AndThen(Segment(i), LAMBDA segment : TryPush(segments, segment)))
    IN  FoldLeft(Push, Ok(<< >>), [i \in 1..(Len(boundaries) - 1) |-> i])

IsUniqueSorted(values) == \A i \in 1..(Len(values) - 1) : values[i] < values[i + 1]

Package(values) ==
    IF values = << >> THEN Ok(<< >>)
    ELSE IF ~IsUniqueSorted(values) THEN Err("InvalidSequence")
    ELSE CreateSegmentsFromBoundaries(values, FindSegmentBoundaries(values))

SizeOfSegments(segments) ==
    FoldLeft(LAMBDA acc, i :
                LET prev == IF i = 1 THEN 0 ELSE MaxValue(segments[i - 1])
                    needed == DivCeil(RangeOf(segments[i]), ByteBits)
                IN  acc + CalculateSize[SaturatingSub(Offset(segments[i]), prev)]
                        + CalculateSize[needed] + needed,
             0, [i \in DOMAIN segments |-> i])

EstimateSize(values) ==
    AndThen(Package(values), LAMBDA segments : Ok(SizeOfSegments(segments)))

-----------------------------------------------------------------------------
(* codec/encoder.rs and codec/decoder.rs: a bitmap is a sequence of bytes. *)

\* mutant: the bit of the offset itself is kept
EncodeBitmapWithOffset(segment) ==
    LET positions == {segment[i] - Offset(segment) : i \in 2..Len(segment)}
        Byte(j) == MapThenSumSet(LAMBDA p : 2 ^ (p % ByteBits),
                                 {p \in positions : p \div ByteBits = j - 1})
    IN  [j \in 1..DivCeil(RangeOf(segment), ByteBits) |-> Byte(j)]

EncodeBitmap(segment) ==
    LET positions == {segment[i] - Offset(segment) - 1 : i \in 2..Len(segment)}
        Byte(j) == MapThenSumSet(LAMBDA p : 2 ^ (p % ByteBits),
                                 {p \in positions : p \div ByteBits = j - 1})
    IN  [j \in 1..DivCeil(RangeOf(segment), ByteBits) |-> Byte(j)]

Encode(segments) ==
    LET Bytes(i) ==
            LET prev == IF i = 1 THEN 0 ELSE MaxValue(segments[i - 1])
                payload == EncodeBitmap(segments[i])
            IN  EncodeInto[SaturatingSub(Offset(segments[i]), prev)]
                    \o EncodeInto[Len(payload)] \o payload
    IN  FlattenSeq([i \in DOMAIN segments |-> Bytes(i)])

\* The set bits in ascending order: bit b of byte j stands for the value
\* offset + (j - 1) * ByteBits + b + 1, an addition that is not checked.
DecodeBitmap(offset, bitmap) ==
    LET Bit(n) == LET byte == bitmap[n \div ByteBits + 1]
                  IN  (byte \div 2 ^ (n % ByteBits)) % 2 = 1
        set == SelectSeq([n \in 1..(Len(bitmap) * ByteBits) |-> n - 1], Bit)
        Insert(acc, n) ==
            AndThen(acc, LAMBDA segment :
                IF offset + n + 1 > U64Max THEN Panic ELSE TryInsert(segment, offset + n + 1))
    IN  FoldLeft(Insert, Ok(<<offset>>), set)

ReadSegmentInto(bytes, pos, prev_max) ==
    LET Bitmap(offset, start, length) ==
            IF length > AllocBytesLimit THEN Err("ByteAllocationLimit")
            ELSE IF start + length > Len(bytes) THEN Err("IO")
            ELSE AndThen(DecodeBitmap(offset, SubSeq(bytes, start + 1, start + length)),
                         LAMBDA segment : Ok([segment |-> segment, pos |-> start + length]))
        Rest(offset, after) ==
            IF offset > U64Max THEN Err("ArithmeticOverflow")
            ELSE AndThen(ReadLeb128(bytes, after), LAMBDA length :
                     Bitmap(offset, after + length.read, length.value))
    IN  AndThen(ReadLeb128(bytes, pos), LAMBDA delta :
            Rest(delta.value + prev_max, pos + delta.read))

\* Segments are read until the bytes are used up.  A segment takes at least
\* two bytes, so Len(bytes) rounds are enough.
Decode(bytes) ==
    LET PrevMax(segments) == IF segments = << >> THEN 0 ELSE MaxValue(Last(segments))
        Read(done) ==
            IF done.pos >= Len(bytes) THEN Ok(done)
            ELSE AndThen(ReadSegmentInto(bytes, done.pos, PrevMax(done.segments)), LAMBDA read :
                     AndThen(TryPush(done.segments, read.segment), LAMBDA pushed :
                         Ok([segments |-> pushed, pos |-> read.pos])))
        Round(acc, byte) == AndThen(acc, Read)
    IN  AndThen(FoldLeft(Round, Ok([segments |-> << >>, pos |-> 0]), bytes),
                LAMBDA done : Ok(done.segments))

-----------------------------------------------------------------------------
(* What the codec promises, for one list of ids and one string of bytes. *)

\* The size that packaging.rs budgets with is the size that is written.
SizeIsExact(ids, bytes) == EstimateSize(ids).val = Len(bytes)

\* A signer reads from the OP_RETURN output the ids that were put there.
RoundTrips(ids, bytes) ==
    AndThen(Decode(bytes), LAMBDA segments : Ok(Values(segments))) = Ok(ids)

\* Every way to cut ids into segments.
Cuttings(ids) ==
    {CreateSegmentsFromBoundaries(ids, SetToSortSeq(at \cup {1, Len(ids) + 1}, <)).val :
        at \in SUBSET (2..Len(ids))}

\* No other way to cut the ids takes fewer bytes.
IsShortest(ids, bytes) ==
    \A other \in Cuttings(ids) : Len(bytes) <= SizeOfSegments(other)

\* Bytes that decode hold ids in ascending order, each once, and what they
\* hold is never packed into more bytes than they took.
DecodesToIds(bytes, decoded) ==
    decoded.ok =>
        /\ IsUniqueSorted(Values(decoded.val))
        /\ EstimateSize(Values(decoded.val)).val <= Len(bytes)
=============================================================================
