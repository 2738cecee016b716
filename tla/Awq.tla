-------------------------------- MODULE Awq --------------------------------
(***************************************************************************)
(* inference/awq.rs: activation-aware quantisation.  A calibrator collects *)
(* statistics of the inputs of a tensor, quantize_awq scales the columns   *)
(* by them, clips each group of columns and packs codes of 2, 3, 4 or 8    *)
(* bits, and dequantize and matvec read them back.                         *)
(*                                                                         *)
(* Weights are integers.  A scaled weight is counted in units of           *)
(* 1 / (4 * ClipSteps), in which the ends of every clipping range are      *)
(* whole, and before the scales are normalised: their mean is one factor   *)
(* of all columns and changes no code.  alpha is 0 or 1.                   *)
(***************************************************************************)
EXTENDS Integers, Sequences, FiniteSets, FiniteSetsExt

CONSTANTS
    DOut, DIn,     \* the tensor's rows and columns
    WeightRows,    \* the rows a tensor may have
    Batches,       \* activations of one forward pass, rows one after the other
    MaxBatches,    \* bound: passes recorded
    Configs,       \* records: bits, group_size, alpha, clip
    ClipSteps      \* clip_steps

Channels == 0..DIn - 1

VARIABLES
    maxAbs, sumAbs, samples,  \* ActivationStats of the tensor
    recorded,                 \* the rows recorded since it was registered (history)
    weight                    \* what quantize_awq has returned for the tensor, if it has
awqVars == <<maxAbs, sumAbs, samples, recorded, weight>>

Abs(x) == IF x < 0 THEN -x ELSE x

-----------------------------------------------------------------------------
\* A batch holds as many rows as fit; what is left over is dropped.
RowsIn(batch) ==
    [t \in 1..Len(batch) \div DIn |-> [j \in Channels |-> batch[(t - 1) * DIn + j + 1]]]

Collected(taken, j) == {Abs(taken[t][j]) : t \in DOMAIN taken}
Total(taken, j) == MapThenSumSet(LAMBDA t : Abs(taken[t][j]), DOMAIN taken)

Register ==
    /\ maxAbs' = [j \in Channels |-> 0]
    /\ sumAbs' = [j \in Channels |-> 0]
    /\ samples' = 0
    /\ recorded' = <<>>
    /\ UNCHANGED weight

\* Mutant: the maximum of the last batch alone.
UpdateMax(old, taken, j) == Max({0} \cup Collected(taken, j))
MaxOf(old, taken, j) == Max({old} \cup Collected(taken, j))

Record(batch) ==
    LET taken == RowsIn(batch)
    IN
    /\ Len(recorded) < MaxBatches
    /\ maxAbs' = [j \in Channels |-> MaxOf(maxAbs[j], taken, j)]
    /\ sumAbs' = [j \in Channels |-> sumAbs[j] + Total(taken, j)]
    /\ samples' = samples + Len(taken)
    /\ recorded' = Append(recorded, taken)
    /\ UNCHANGED weight

\* compute_scales, or all ones without a sample: a channel that never fired
\* counts as one.
ColumnScale(j, alpha) ==
    IF samples > 0 /\ alpha = 1 /\ maxAbs[j] > 0 THEN maxAbs[j] ELSE 1

-----------------------------------------------------------------------------
(* The codes of a group lie between min_val and max_val.                     *)
MinVal(bits) == -(2 ^ (bits - 1))
MaxVal(bits) == 2 ^ (bits - 1) - 1
CodeSpan(bits) == MaxVal(bits) - MinVal(bits)

Clamp(x, low, high) == IF x < low THEN low ELSE IF x > high THEN high ELSE x
\* f32::round: halves go away from zero.
RoundDiv(n, d) == IF n >= 0 THEN (2 * n + d) \div (2 * d) ELSE -((d - 2 * n) \div (2 * d))

\* A range is clipped around its centre to between half of it and all of it.
Clipped(low, high, step) ==
    LET half == ((high - low) * (ClipSteps + step)) \div (4 * ClipSteps)
    IN  [low |-> (low + high) \div 2 - half, high |-> (low + high) \div 2 + half]

\* The squared error of a group under a range, in units of delta / range.
SquaredError(ws, span, bits) ==
    LET err(w) == LET q == Clamp(RoundDiv((Clamp(w, span.low, span.high) - span.low) * CodeSpan(bits), span.high - span.low),
                                 0, CodeSpan(bits))
                  IN  (w - span.low) * CodeSpan(bits) - q * (span.high - span.low)
    IN  MapThenSumSet(LAMBDA c : err(ws[c]) * err(ws[c]), DOMAIN ws)

\* find_optimal_clip: the first of the ranges with the least error.
OptimalClip(ws, bits) ==
    LET low == Min({ws[c] : c \in DOMAIN ws})
        high == Max({ws[c] : c \in DOMAIN ws})
        error == [s \in 0..ClipSteps |-> SquaredError(ws, Clipped(low, high, s), bits)]
        best == {s \in 0..ClipSteps : \A o \in 0..ClipSteps : error[s] <= error[o]}
    IN  IF low = high THEN [low |-> low, high |-> high] ELSE Clipped(low, high, Min(best))

Groups(gs) == (DIn + gs - 1) \div gs
GroupOf(r, col, gs) == r * Groups(gs) + col \div gs
GroupColumns(g, gs) == {c \in Channels : c \div gs = g % Groups(gs)}

\* The ends of a group's range; its delta and zero are made from them.
GroupRange(ws, cfg) ==
    IF cfg.clip THEN OptimalClip(ws, cfg.bits)
    ELSE [low |-> Min({ws[c] : c \in DOMAIN ws}), high |-> Max({ws[c] : c \in DOMAIN ws})]

\* Mutant: the code is cut instead of rounded.
CodeCut(w, span, bits) ==
    IF span.high = span.low THEN 0
    ELSE Clamp(((w - span.low) * CodeSpan(bits)) \div (span.high - span.low) + MinVal(bits),
               MinVal(bits), MaxVal(bits))

\* round((w - zero) / delta), zero being low - min_val * delta.
Code(w, span, bits) ==
    IF span.high = span.low THEN 0
    ELSE Clamp(RoundDiv((w - span.low) * CodeSpan(bits) + MinVal(bits) * (span.high - span.low), span.high - span.low),
               MinVal(bits), MaxVal(bits))

-----------------------------------------------------------------------------
\* A byte of the packed data.  Codes are stored without their sign, an 8-bit
\* one as it is; three-bit ones go over byte boundaries, eight in three bytes.
\* The fields are disjoint, so that their sum is what the code's |= makes.
PackedByte(codes, bits, b) ==
    LET unsigned(i) == codes[i] - MinVal(bits)
        per == 8 \div bits
        octet == {i \in DOMAIN codes : i \div 8 = b \div 3}
    IN  CASE bits = 8 -> codes[b] % 256
          [] bits = 3 -> MapThenSumSet(LAMBDA i : ((unsigned(i) * 2 ^ ((i % 8) * 3)) \div 256 ^ (b % 3)) % 256,
                                       octet)
          [] OTHER -> MapThenSumSet(LAMBDA i : unsigned(i) * 2 ^ ((i % per) * bits),
                                    {i \in DOMAIN codes : i \div per = b})

\* Mutant: the last byte is not allocated when it is not full.
ByteCountFull(n, bits) == IF bits = 3 THEN (n \div 8) * 3 ELSE (n * bits) \div 8
ByteCount(n, bits) == IF bits = 3 THEN ((n + 7) \div 8) * 3 ELSE (n * bits + 7) \div 8

\* quantize_awq.
Quantize(tensor, cfg) ==
    LET scaled == [r \in 0..DOut - 1 |-> [c \in Channels |->
                     tensor[r][c] * ColumnScale(c, cfg.alpha) * 4 * ClipSteps]]
        gs == cfg.group_size
        ranges == [g \in 0..DOut * Groups(gs) - 1 |->
                     GroupRange([c \in GroupColumns(g, gs) |-> scaled[g \div Groups(gs)][c]], cfg)]
        codes == [i \in 0..DOut * DIn - 1 |->
                    Code(scaled[i \div DIn][i % DIn], ranges[GroupOf(i \div DIn, i % DIn, gs)], cfg.bits)]
    IN
    /\ weight = <<>>
    /\ weight' = <<[cfg |-> cfg, scaled |-> scaled, ranges |-> ranges,
                   data |-> [b \in 0..ByteCount(DOut * DIn, cfg.bits) - 1 |-> PackedByte(codes, cfg.bits, b)]]>>
    /\ UNCHANGED <<maxAbs, sumAbs, samples, recorded>>

\* read_quantized: a code by its place; past the end of the data it is zero.
ReadQuantized(w, r, c) ==
    LET i == r * DIn + c
        bits == w.cfg.bits
        per == 8 \div bits
        base == (i \div 8) * 3
    IN  CASE bits = 8 -> IF i \notin DOMAIN w.data THEN 0
                         ELSE IF w.data[i] > 127 THEN w.data[i] - 256 ELSE w.data[i]
          [] bits = 3 -> IF base + 2 \notin DOMAIN w.data THEN 0
                         ELSE (((w.data[base] + 256 * w.data[base + 1] + 65536 * w.data[base + 2])
                                 \div 2 ^ ((i % 8) * 3)) % 8) - 4
          [] OTHER -> IF i \div per \notin DOMAIN w.data THEN 0
                      ELSE ((w.data[i \div per] \div 2 ^ ((i % per) * bits)) % 2 ^ bits) + MinVal(bits)

\* dequantize and matvec: code * delta + zero, here times the code range; the
\* division by the column's scale undoes the scaling.
Dequantized(w, r, c) ==
    LET span == w.ranges[GroupOf(r, c, w.cfg.group_size)]
    IN  (ReadQuantized(w, r, c) - MinVal(w.cfg.bits)) * (span.high - span.low) + span.low * CodeSpan(w.cfg.bits)

-----------------------------------------------------------------------------
AwqInit ==
    /\ maxAbs = [j \in Channels |-> 0]
    /\ sumAbs = [j \in Channels |-> 0]
    /\ samples = 0
    /\ recorded = <<>>
    /\ weight = <<>>

AwqNext ==
    \/ Register
    \/ \E batch \in Batches : Record(batch)
    \/ \E tensor \in [0..DOut - 1 -> WeightRows], cfg \in Configs : Quantize(tensor, cfg)

AwqSpec == AwqInit /\ [][AwqNext]_awqVars

-----------------------------------------------------------------------------
\* The statistics are those of the rows recorded, however they came in batches
\* (ActivationStats::update).
StatsExact ==
    \A j \in Channels :
        /\ maxAbs[j] = Max({0} \cup UNION {Collected(recorded[b], j) : b \in DOMAIN recorded})
        /\ sumAbs[j] = MapThenSumSet(LAMBDA b : Total(recorded[b], j), DOMAIN recorded)
        /\ samples = MapThenSumSet(LAMBDA b : Len(recorded[b]), DOMAIN recorded)

\* Whatever its width, its group and its place in the bytes, a weight that is
\* read back lies within half a step of the one that was packed; one that was
\* clipped comes back as the end of its group's range (quantize_awq and
\* read_quantized, two loops that must agree on the layout).
ReadsWithinHalfStep ==
    \A k \in DOMAIN weight, r \in 0..DOut - 1, c \in Channels :
        LET w == weight[k]
            span == w.ranges[GroupOf(r, c, w.cfg.group_size)]
            kept == Clamp(w.scaled[r][c], span.low, span.high)
        IN  2 * Abs(kept * CodeSpan(w.cfg.bits) - Dequantized(w, r, c)) <= span.high - span.low

\* Clipping never makes the squared error of a group larger than its whole
\* range would (find_optimal_clip measures with its own rounding).
ClippingHelps ==
    \A k \in {n \in DOMAIN weight : weight[n].cfg.clip} :
        \A g \in DOMAIN weight[k].ranges :
            LET w == weight[k]
                r == g \div Groups(w.cfg.group_size)
                ws == [c \in GroupColumns(g, w.cfg.group_size) |-> w.scaled[r][c]]
                whole == GroupRange(ws, [w.cfg EXCEPT !.clip = FALSE])
                err(c) == ws[c] * CodeSpan(w.cfg.bits) - Dequantized(w, r, c)
            IN  whole.high > whole.low =>
                  MapThenSumSet(LAMBDA c : err(c) * err(c), DOMAIN ws)
                    <= SquaredError(ws, whole, w.cfg.bits)

\* What holds of the statistics and of the tensor quantised with them.
AwqInv == StatsExact /\ ReadsWithinHalfStep /\ ClippingHelps

=============================================================================
