---------------------------- MODULE ExactSamples ---------------------------
(***************************************************************************)
(* sample_data inside TouchDesigner: exact values of a TOP, CHOP or SOP    *)
(* (sample_data.py).  The image of a TOP is a sequence of rows of pixels,  *)
(* a pixel a sequence of channel values; a CHOP is a sequence of channels; *)
(* a SOP is a sequence of points, a point a triple or None where it cannot *)
(* be read.  A value is a number, NaN or Inf.                              *)
(*                                                                         *)
(* now is what the operator holds, next what a cook would make of it.      *)
(* layout is how numpyArray() of the build lays out a CHOP; the code knows *)
(* channels first.  What the texture format means for the values, labels   *)
(* and explanations are left out.                                          *)
(***************************************************************************)
EXTENDS Absent, Integers, Sequences, FiniteSets, SequencesExt

CONSTANTS
    NaN, Inf,
    MaxPointSamples,   \* SAMPLE_MAX_POINT_SAMPLES
    MaxRegionValues,   \* SAMPLE_MAX_REGION_PIXELS
    MaxChannels,       \* SAMPLE_DATA_MAX_CHANNELS
    MaxScalars,        \* SAMPLE_DATA_MAX_SCALARS
    SomeReads          \* by family, pairs of an operator and a request

ASSUME SampleAssumption ==
    {MaxPointSamples, MaxRegionValues, MaxChannels, MaxScalars} \subseteq Nat \ {0}

VARIABLES
    sampleNode,     \* the operator
    reading,
    sampled      \* the answer, or None

sampleVars == <<sampleNode, reading, sampled>>

SampleInit ==
    /\ \E family \in DOMAIN SomeReads : \E read \in SomeReads[family] :
         sampleNode = read[1] /\ reading = read[2]
    /\ sampled = None

Finite(v) == v \notin {NaN, Inf}
Count(values, v) == Cardinality({i \in DOMAIN values : values[i] = v})
Least(a, b) == IF a < b THEN a ELSE b

NotSampled(code) == [ok |-> FALSE, code |-> code]

\* JSON has no NaN and no Infinity: null, and a count of each.
Encode(values) == [i \in DOMAIN values |-> IF Finite(values[i]) THEN values[i] ELSE None]
NonFinite(values) == [nan |-> Count(values, NaN), inf |-> Count(values, Inf)]

----------------------------------------------------------------------------
\* TOP.

RowsOf(image) == Len(image)
ColsOf(image) == IF image = <<>> THEN 0 ELSE Len(image[1])

\* The bug of taking the array to be addressed as callers address pixels.
ResolveTransposed(spec, rows, cols) ==
    IF spec[1] \in 0 .. rows - 1 /\ spec[2] \in 0 .. cols - 1
      THEN <<spec[1], spec[2]>> ELSE None

\* [x, y] of a caller is row y and column x of the array.
ResolvePixel(spec, rows, cols) ==
    IF spec[1] \in 0 .. cols - 1 /\ spec[2] \in 0 .. rows - 1
      THEN <<spec[2], spec[1]>> ELSE None

TopPoints(image, spots) ==
    LET where(spec) == ResolvePixel(spec, RowsOf(image), ColsOf(image))
        hits == SelectSeq(spots, LAMBDA spec : where(spec) # None)
        pixel(spec) == [x |-> where(spec)[2], y |-> where(spec)[1],
                        values |-> image[where(spec)[1] + 1][where(spec)[2] + 1]]
    IN  IF Len(spots) > MaxPointSamples THEN NotSampled("too_many_pixels")
        ELSE [ok |-> TRUE, mode |-> "exact_pixels", requested |-> Len(spots),
              outOfRange |-> Len(spots) - Len(hits),
              pixels |-> [i \in DOMAIN hits |->
                 [pixel(hits[i]) EXCEPT !.values = Encode(@)]],
              nonFinite |-> NonFinite(FlattenSeq([i \in DOMAIN hits |->
                 pixel(hits[i]).values]))]

\* A rectangle, half open, row by row.
TopRegion(image, r) ==
    LET wide == r.x1 - r.x
        span == wide * (r.y1 - r.y)
        pixel(k) == image[r.y + (k - 1) \div wide + 1][r.x + ((k - 1) % wide) + 1]
        values == FlattenSeq([k \in 1 .. span |-> pixel(k)])
        perPixel == Len(image[1][1])
    IN  IF ~(0 <= r.x /\ r.x < r.x1 /\ r.x1 <= ColsOf(image)
               /\ 0 <= r.y /\ r.y < r.y1 /\ r.y1 <= RowsOf(image))
          THEN NotSampled("bad_region")
        ELSE IF span * perPixel > MaxRegionValues THEN NotSampled("region_too_large")
        ELSE [ok |-> TRUE, mode |-> "exact_region", values |-> Encode(values),
              valuesPerPixel |-> perPixel, nonFinite |-> NonFinite(values)]

\* One pass over all values: their number, the non-finite ones, sum, least and greatest.
Counted(acc, v) ==
    IF v = NaN THEN [acc EXCEPT !.count = @ + 1, !.nan = @ + 1]
    ELSE IF v = Inf THEN [acc EXCEPT !.count = @ + 1, !.inf = @ + 1]
    ELSE [acc EXCEPT !.count = @ + 1, !.total = @ + v,
            !.min = IF acc.min = None \/ (acc.min # None /\ v < acc.min) THEN v ELSE @,
            !.max = IF acc.max = None \/ (acc.max # None /\ v > acc.max) THEN v ELSE @]
Statistics(values) ==
    FoldLeft(Counted, [count |-> 0, nan |-> 0, inf |-> 0, total |-> 0,
                       min |-> None, max |-> None], values)

\* The mean is the total over what is finite, and none where nothing is.
TopSummary(image) ==
    LET s == Statistics(FlattenSeq([y \in DOMAIN image |-> FlattenSeq(image[y])]))
    IN  [ok |-> TRUE, mode |-> "summary", valueCount |-> s.count,
         nonFinite |-> [nan |-> s.nan, inf |-> s.inf],
         finiteCount |-> s.count - s.nan - s.inf,
         min |-> s.min, max |-> s.max,
         total |-> IF s.count > s.nan + s.inf THEN s.total ELSE None]

\* Only the resolution before the cook is looked at: an image a cook has emptied is read
\* like any other.
SampleTop(before, image) ==
    IF before = <<>> THEN NotSampled("empty")
    ELSE CASE reading.kind = "region" -> TopRegion(image, reading.region)
           [] reading.kind = "pixels" -> TopPoints(image, reading.spots)
           [] OTHER -> TopSummary(image)

----------------------------------------------------------------------------
\* CHOP.

\* The bug of capping channels and samples each for itself.
SampleLimitAlone(chans, samples) == Least(samples, MaxScalars)

\* Both caps together bound the answer.
SampleLimit(chans, samples) ==
    LET share == MaxScalars \div chans
    IN  Least(samples, IF share < 1 THEN 1 ELSE share)

Chans(chop) == Len(chop)
Samples(chop) == IF chop = <<>> THEN 0 ELSE Len(chop[1])

\* The counts are those before the cook; the limits, truncated and the check of the shape
\* all go by them, the values come from what the cook left.
SampleChop(before, chop, layout) ==
    LET chans == Chans(before)
        samples == Samples(before)
        chanLimit == Least(chans, MaxChannels)
        sampleLimit == SampleLimit(chanLimit, samples)
        byChannel == reading.kind # "numpy" \/ layout = "channels"
        shape == IF byChannel THEN <<Chans(chop), Samples(chop)>>
                              ELSE <<Samples(chop), Chans(chop)>>
        read(c, j) == IF byChannel THEN chop[c][j] ELSE chop[j][c]
        chan(c) == [j \in 1 .. sampleLimit |-> read(c, j)]
    IN  IF chans = 0 \/ samples = 0 THEN NotSampled("empty")
        ELSE IF reading.kind = "numpy" /\ shape # <<chans, samples>>
          THEN NotSampled("unsupported")
        ELSE IF shape[1] < chanLimit \/ shape[2] < sampleLimit
          THEN NotSampled("read_failed")
        ELSE [ok |-> TRUE, mode |-> "exact_samples",
              numChans |-> chans, numSamples |-> samples,
              truncated |-> chanLimit < chans \/ sampleLimit < samples,
              channels |-> [c \in 1 .. chanLimit |-> Encode(chan(c))],
              nonFinite |-> [c \in 1 .. chanLimit |-> NonFinite(chan(c))]]

----------------------------------------------------------------------------
\* SOP.  An index that is no whole number is None.

InRoster(points, index) == index # None /\ index >= 0 /\ index < Len(points)

SopPoint(points, index) ==
    IF ~InRoster(points, index) THEN NotSampled("bad_point")
    ELSE IF points[index + 1] = None THEN NotSampled("read_failed")
    ELSE [ok |-> TRUE, mode |-> "exact_point", index |-> index, point |-> points[index + 1]]

\* The counts of non-finite values are zero whatever was read.
SopSelected(points, spots) ==
    LET inside == SelectSeq(spots, LAMBDA index : InRoster(points, index))
        read == SelectSeq(inside, LAMBDA index : points[index + 1] # None)
    IN  IF Len(spots) > MaxPointSamples THEN NotSampled("too_many_points")
        ELSE [ok |-> TRUE, mode |-> "exact_points", requested |-> Len(spots),
              outOfRange |-> Len(spots) - Len(inside), unreadable |-> Len(inside) - Len(read),
              points |-> [i \in DOMAIN read |->
                            [index |-> read[i], spots |-> points[read[i] + 1]]],
              nonFinite |-> [nan |-> 0, inf |-> 0]]

SopSummary(points) ==
    LET readable == SelectSeq(points, LAMBDA p : p # None)
        axis(a) == Statistics([i \in DOMAIN readable |-> readable[i][a]])
    IN  [ok |-> TRUE, mode |-> "bounds", readPoints |-> Len(readable),
         unreadable |-> Len(points) - Len(readable),
         bounds |-> [a \in 1 .. 3 |-> [min |-> axis(a).min, max |-> axis(a).max]],
         nonFinite |-> NonFinite(FlattenSeq(readable))]

SampleSop(points) ==
    CASE reading.kind \in {"pixels", "region"} -> NotSampled("wrong_coordinates")
      [] reading.kind = "point" -> SopPoint(points, reading.index)
      [] reading.kind = "points" -> SopSelected(points, reading.spots)
      [] OTHER -> SopSummary(points)

----------------------------------------------------------------------------

\* A cook is asked for and done before the read; a SOP refuses first what it cannot serve.
Cooks ==
    /\ reading.force
    /\ ~(sampleNode.family = "SOP" /\ reading.kind \in {"pixels", "region"})
    /\ sampleNode.now # <<>> \/ sampleNode.family = "SOP"

\* handle_sample_data, with a cook that works or fails.
Read(contents) ==
    CASE sampleNode.family = "TOP" -> SampleTop(sampleNode.now, contents)
      [] sampleNode.family = "CHOP" -> SampleChop(sampleNode.now, contents, sampleNode.layout)
      [] sampleNode.family = "SOP" -> SampleSop(contents)
      [] OTHER -> NotSampled("unsupported_family")

ReadSample ==
    /\ sampled = None
    /\ sampled' = Read(IF Cooks THEN sampleNode.next ELSE sampleNode.now)
    /\ sampleNode' = IF Cooks THEN [sampleNode EXCEPT !.now = sampleNode.next] ELSE sampleNode
    /\ UNCHANGED reading

CookFails ==
    /\ sampled = None /\ Cooks
    /\ sampled' = NotSampled("cook_failed")
    /\ UNCHANGED <<sampleNode, reading>>

SampleNext == ReadSample \/ CookFails

SampleSpec == SampleInit /\ [][SampleNext]_sampleVars

----------------------------------------------------------------------------
\* Properties.

SampledAs(mode) == sampled # None /\ sampled.ok /\ sampled.mode = mode
Pixel(x, y) == sampleNode.now[y + 1][x + 1]
InImage(spec) == spec[1] \in 0 .. ColsOf(sampleNode.now) - 1 /\ spec[2] \in 0 .. RowsOf(sampleNode.now) - 1
Nulls(values) == Count(values, None)

\* Every pixel asked for is told once, in order, or counted as out of range, with the
\* values at that column and row; a null is a counted value (sample_data.py 14-18, 262-277).
PixelsAreExact ==
    SampledAs("exact_pixels") =>
        LET inside == SelectSeq(reading.spots, InImage)
            values == FlattenSeq([i \in DOMAIN sampled.pixels |-> sampled.pixels[i].values])
        IN  /\ Len(sampled.pixels) = Len(inside)
            /\ sampled.outOfRange = sampled.requested - Len(inside)
            /\ \A i \in DOMAIN inside :
                 /\ <<sampled.pixels[i].x, sampled.pixels[i].y>> = inside[i]
                 /\ sampled.pixels[i].values = Encode(Pixel(inside[i][1], inside[i][2]))
            /\ Nulls(values) = sampled.nonFinite.nan + sampled.nonFinite.inf

\* The value of column x, row y and channel c stands where the caller who knows the
\* rectangle looks for it (362-374).
RegionIsExact ==
    SampledAs("exact_region") =>
        \A x \in reading.region.x .. reading.region.x1 - 1,
           y \in reading.region.y .. reading.region.y1 - 1 :
            LET wide == reading.region.x1 - reading.region.x
                place == ((y - reading.region.y) * wide + (x - reading.region.x))
                           * sampled.valuesPerPixel
            IN  \A c \in 1 .. sampled.valuesPerPixel :
                    sampled.values[place + c] = Encode(Pixel(x, y))[c]

\* The summary is that of all the values (445-466).
SummaryIsExact ==
    SampledAs("summary") =>
        LET perPixel == IF sampleNode.now = <<>> THEN 0 ELSE Len(Pixel(0, 0))
            values == {Pixel(x, y)[c] : x \in 0 .. ColsOf(sampleNode.now) - 1,
                         y \in 0 .. RowsOf(sampleNode.now) - 1, c \in 1 .. perPixel}
            finite == {v \in values : Finite(v)}
        IN  /\ sampled.valueCount = RowsOf(sampleNode.now) * ColsOf(sampleNode.now) * perPixel
            /\ sampled.finiteCount = 0 <=> finite = {}
            /\ finite # {} => /\ sampled.min \in finite /\ sampled.max \in finite
                              /\ \A v \in finite : sampled.min <= v /\ v <= sampled.max

\* Samples stand in their channel and are those after the cook, the answer is never larger
\* than its bound, and is marked as cut exactly when it holds less than the counts it tells.
\* These are the counts of what was read unless a cook came between; where the array is
\* asked for and is laid out as the code believes, they are so even then (490-507, 534-546).
SamplesAreExact ==
    SampledAs("exact_samples") =>
        LET inOrder == reading.kind = "numpy" => sampleNode.layout = "channels"
            returned == Len(FlattenSeq(sampled.channels))
        IN  /\ inOrder => \A c \in DOMAIN sampled.channels : \A j \in DOMAIN sampled.channels[c] :
                 sampled.channels[c][j] = Encode(sampleNode.now[c])[j]
            /\ returned <= MaxScalars
            /\ sampled.truncated <=> returned < sampled.numChans * sampled.numSamples
            /\ ~reading.force \/ (reading.kind = "numpy" /\ inOrder) =>
                 /\ sampled.numChans = Chans(sampleNode.now)
                 /\ sampled.numSamples = Samples(sampleNode.now)

\* Every point asked for is told, out of range or unreadable.
PointsAreExact ==
    /\ SampledAs("exact_point") => sampled.point = sampleNode.now[sampled.index + 1]
    /\ SampledAs("exact_points") =>
         /\ Len(sampled.points) + sampled.outOfRange + sampled.unreadable = sampled.requested
         /\ \A i \in DOMAIN sampled.points :
              sampled.points[i].spots = sampleNode.now[sampled.points[i].index + 1]

\* What is told is exact, and current where a cook was asked for (204-219).
SamplesAreTrue ==
    /\ PixelsAreExact /\ RegionIsExact /\ SummaryIsExact /\ SamplesAreExact
    /\ PointsAreExact
    /\ sampled # None /\ sampled.ok /\ reading.force => sampleNode.now = sampleNode.next

\* Not so: positions of points are told as they are, although a bare NaN "is not JSON"
\* (72-79) and makes the whole answer unreadable.
EveryAnswerIsJson ==
    /\ SampledAs("exact_point") => \A a \in 1 .. 3 : Finite(sampled.point[a])
    /\ SampledAs("exact_points") =>
         \A i \in DOMAIN sampled.points : \A a \in 1 .. 3 : Finite(sampled.points[i].spots[a])

\* Not so: after a forced cook that made a CHOP longer, the samples beyond its old counts
\* are missing and truncated is told false; "A read must not silently return a stale frame"
\* (205, of a TOP), but the counts a CHOP is cut by are read before the cook (483-503).
CutIsTold ==
    SampledAs("exact_samples") =>
        (sampled.truncated <=>
            Len(FlattenSeq(sampled.channels)) < Len(FlattenSeq(sampleNode.now)))

\* Not so: a CHOP with as many channels as samples looks alike both ways, and
\* axisOrderVerified is told all the same (557-559).
AxisOrderIsVerified ==
    SampledAs("exact_samples") =>
        \A c \in DOMAIN sampled.channels : \A j \in DOMAIN sampled.channels[c] :
            /\ c \in DOMAIN sampleNode.now /\ j \in DOMAIN sampleNode.now[c]
            /\ sampled.channels[c][j] = Encode(sampleNode.now[c])[j]
=============================================================================
