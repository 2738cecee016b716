------------------------------ MODULE QuantBlocks ------------------------------
(*****************************************************************************)
(* The quantised weight blocks of a GGUF tensor, as the program's readers    *)
(* unpack them: the matrix-vector products of metal/compute.rs ("cpu"), the  *)
(* loader of ssd/streamer.rs ("loader"), the CUDA kernels of cuda/mod.rs     *)
(* ("cuda" for the products, "row" for the embedding row) and the Metal      *)
(* shaders ("metal").                                                        *)
(*                                                                           *)
(* A reading says which stored BITS a weight is made from, never what they   *)
(* hold: bit b of byte n is 8n + b, a field is its bits from the lowest up,  *)
(* so two readers get the same weight from every block exactly when their    *)
(* readings are equal.  The walk visits the weights of a small tensor in the *)
(* order of the loops: row by row, block by block.                           *)
(*****************************************************************************)
EXTENDS Integers, Sequences, FiniteSets

CONSTANTS
    Readings,     \* pairs <<format, reader>>: who reads what
    Halves,       \* the kinds of f16 scale a block holds
    Rows, Blocks  \* rows of the tensor, blocks in a row

VARIABLES format, half, row, col
qvars == <<format, half, row, col>>

Formats == {p[1] : p \in Readings}
ReadersOf(f) == {p[2] : p \in {q \in Readings : q[1] = f}}

-----------------------------------------------------------------------------
(* gguf.rs: the elements of a block and the bytes it takes in the file.      *)
BlockSize(f) ==
    IF f \in {"F16", "BF16"} THEN 1
    ELSE IF f \in {"Q4_0", "Q8_0", "IQ4_NL"} THEN 32 ELSE 256

TypeSize(f) ==
    CASE f \in {"F16", "BF16"} -> 2
      [] f \in {"Q4_0", "IQ4_NL"} -> 18
      [] f = "Q8_0" -> 34
      [] f = "Q2_K" -> 2 + 2 + 16 + 64
      [] f = "Q3_K" -> (256 \div 8) * 3 + 256 \div 4 + 12 + 2
      [] f = "Q4_K" -> 2 + 2 + 12 + 256 \div 2
      [] f = "Q5_K" -> 2 + 2 + 12 + 256 \div 8 + 256 \div 2
      [] f = "Q6_K" -> 256 \div 2 + 256 \div 4 + 256 \div 16 + 2
      [] f = "Q8_K" -> 4 + 256 + 16 * 2
      [] f = "IQ4_XS" -> 2 + 2 + 128 + 16
      [] f = "IQ3_XXS" -> 2 + 3 * (256 \div 8)
      [] f = "IQ3_S" -> 2 + 64 + 8 + 32 + 4
      [] f = "IQ2_XXS" -> 2 + (256 \div 8) * 2
      [] f = "IQ2_XS" -> 2 + (256 \div 8) * 2 + 256 \div 32

\* block_bytes of the readers: the literal each of them steps by.
BlockBytes(f) == IF f = "Q3_K" THEN 110 ELSE TypeSize(f)

-----------------------------------------------------------------------------
(* A weight: its code, the number subtracted from it, the bits that hold     *)
(* its sign, its sub-block's scale and minimum, and the block's d and dmin.  *)
F(byte, shift, width) == [i \in 1..width |-> 8 * byte + shift + i - 1]
None == <<>>
Weight(d, code, zero, scale) ==
    [d |-> d, code |-> code, zero |-> zero, at |-> 0, sign |-> None,
     scale |-> scale, dmin |-> None, min |-> None]
LessMin(w, dmin, min) == [w EXCEPT !.dmin = dmin, !.min = min]
\* A code that names an entry of a grid, of which the weight is one byte.
OfGrid(w, at, sign) == [w EXCEPT !.at = at, !.sign = sign]

\* Neighbouring weights in the two halves of one byte.
Nibble(base, e) == F(base + e \div 2, 4 * (e % 2), 4)

CpuHalf(e) == Weight(None, F(0, 0, 16), 0, None)
CpuQ4_0(e) == Weight(F(0, 0, 16), Nibble(2, e), 8, None)
CpuQ8_0(e) == Weight(F(0, 0, 16), F(2 + e, 0, 8), 0, None)
CpuQ8K(e) == Weight(F(0, 0, 32), F(4 + e, 0, 8), 0, None)
CpuIQ4NL(e) == Weight(F(0, 0, 16), Nibble(2, e), 0, None)

CpuQ2K(e) ==
    LET sb == e \div 16
    IN  LessMin(Weight(F(0, 0, 16), F(20 + e \div 4, 2 * (e % 4), 2), 0, F(4 + sb, 0, 4)),
                F(2, 0, 16), F(4 + sb, 4, 4))

CpuQ3K(e) ==
    LET sb == e \div 16
    IN  Weight(F(108, 0, 16),
               F(32 + e \div 4, 2 * (e % 4), 2) \o F(e \div 8, (e % 8), 1), 4,
               F(96 + sb \div 2, 4 * (sb % 2), 4) \o F(104 + sb \div 4, 2 * (sb % 4), 2))

\* Twelve bytes hold eight 6-bit scales and minima.  In Q5_K the two spare bits
\* of an earlier byte come first.
SpareBitsFirst(sb) ==
    [scale |-> IF sb < 4 THEN F(4 + sb, 0, 6) ELSE F(4 + sb - 4, 6, 2) \o F(4 + sb + 4, 0, 4),
     min |-> IF sb < 4 THEN F(4 + sb + 4, 0, 6) ELSE F(4 + sb, 6, 2) \o F(4 + sb + 4, 4, 4)]

CpuQ4KSpareFirst(e) ==
    LET sb == e \div 32
    IN  LessMin(Weight(F(0, 0, 16), F(16 + (sb \div 2) * 32 + (e % 32), 4 * (sb % 2), 4), 0,
                       SpareBitsFirst(sb).scale),
                F(2, 0, 16), SpareBitsFirst(sb).min)

\* In Q4_K they come last.
CpuQ4K(e) ==
    LET sb == e \div 32
        scale == IF sb < 4 THEN F(4 + sb, 0, 6) ELSE F(4 + sb + 4, 0, 4) \o F(4 + sb - 4, 6, 2)
        min == IF sb < 4 THEN F(4 + sb + 4, 0, 6) ELSE F(4 + sb + 4, 4, 4) \o F(4 + sb, 6, 2)
    IN  LessMin(Weight(F(0, 0, 16), F(16 + (sb \div 2) * 32 + (e % 32), 4 * (sb % 2), 4), 0, scale),
                F(2, 0, 16), min)

CpuQ5K(e) ==
    LET sb == e \div 32
    IN  LessMin(Weight(F(0, 0, 16), Nibble(48 + sb * 16, e % 32) \o F(16 + e \div 8, (e % 8), 1), 0,
                       SpareBitsFirst(sb).scale),
                F(2, 0, 16), SpareBitsFirst(sb).min)

\* The same with the high bits of the first half read again for the second.
CpuQ6KStays(e) ==
    LET h == e \div 128
        q == (e % 128) \div 32
        l == e % 32
    IN  Weight(F(208, 0, 16),
               F(h * 64 + l + 32 * (q % 2), 4 * (q \div 2), 4) \o F(128 + l, 2 * q, 2), 32,
               F(192 + h * 8 + l \div 16 + 2 * q, 0, 8))

\* Q6_K: two halves of 128; in each, four runs of 32 share 64 low bytes, 32
\* high bytes and eight scales.
CpuQ6K(e) ==
    LET h == e \div 128
        q == (e % 128) \div 32
        l == (e % 32)
    IN  Weight(F(208, 0, 16),
               F(h * 64 + l + 32 * (q % 2), 4 * (q \div 2), 4) \o F(128 + h * 32 + l, 2 * q, 2), 32,
               F(192 + h * 8 + l \div 16 + 2 * q, 0, 8))

CpuIQ4XS(e) ==
    LET sb == e \div 32
    IN  Weight(F(0, 0, 16), Nibble(20 + sb * 16, e % 32), 0,
               F(4 + (sb \div 2) * 2, 4 * (sb % 2), 4) \o F(2, 2 * sb, 2))

CpuIQ3XXS(e) ==
    LET ib == e \div 32
        l == (e % 32) \div 8
        j == (e % 8)
        word == 66 + ib * 4
    IN  OfGrid(Weight(F(0, 0, 16), F(2 + ib * 8 + 2 * l + j \div 4, 0, 8), 0, F(word, 28, 4)),
               j, F(word, 7 * l, 7))

\* One high bit for the two grid entries of a run of eight.
CpuIQ3SPerRun(e) ==
    LET ib == e \div 32
        l == (e % 32) \div 8
        j == (e % 8)
        n == 2 * l + j \div 4
    IN  OfGrid(Weight(F(0, 0, 16), F(2 + ib * 8 + n, 0, 8) \o F(66 + ib, l, 1), 0,
                      F(106 + ib \div 2, 4 * (ib % 2), 4)),
               (j % 4), F(74 + ib * 4 + l, j, 1))

CpuIQ3S(e) ==
    LET ib == e \div 32
        l == (e % 32) \div 8
        j == (e % 8)
        n == 2 * l + j \div 4
    IN  OfGrid(Weight(F(0, 0, 16), F(2 + ib * 8 + n, 0, 8) \o F(66 + ib, n, 1), 0,
                      F(106 + ib \div 2, 4 * (ib % 2), 4)),
               (j % 4), F(74 + ib * 4 + l, j, 1))

CpuIQ2XXS(e) ==
    LET group == 2 + (e \div 32) * 8
        l == (e % 32) \div 8
    IN  OfGrid(Weight(F(0, 0, 16), F(group + l, 0, 8), 0, F(group + 4, 28, 4)),
               (e % 8), F(group + 4, 7 * l, 7))

CpuIQ2XS(e) ==
    LET ib == e \div 32
        entry == 2 + (e \div 8) * 2
    IN  OfGrid(Weight(F(0, 0, 16), F(entry, 0, 9), 0, F(66 + ib \div 2, 4 * (ib % 2), 4)),
               (e % 8), F(entry, 9, 7))

Cpu(f, e) ==
    CASE f \in {"F16", "BF16"} -> CpuHalf(e)
      [] f = "Q4_0" -> CpuQ4_0(e)     [] f = "Q8_0" -> CpuQ8_0(e)
      [] f = "Q2_K" -> CpuQ2K(e)      [] f = "Q3_K" -> CpuQ3K(e)
      [] f = "Q4_K" -> CpuQ4K(e)      [] f = "Q5_K" -> CpuQ5K(e)
      [] f = "Q6_K" -> CpuQ6K(e)      [] f = "Q8_K" -> CpuQ8K(e)
      [] f = "IQ4_NL" -> CpuIQ4NL(e)  [] f = "IQ4_XS" -> CpuIQ4XS(e)
      [] f = "IQ3_XXS" -> CpuIQ3XXS(e) [] f = "IQ3_S" -> CpuIQ3S(e)
      [] f = "IQ2_XXS" -> CpuIQ2XXS(e) [] f = "IQ2_XS" -> CpuIQ2XS(e)

-----------------------------------------------------------------------------
(* The loader's copies: each pushes its values in the order of the tensor,   *)
(* or stores them at the offset it computes.                                 *)
LoaderQ4_0(e) ==
    LET byte == 2 + e \div 2
    IN  Weight(F(0, 0, 16), IF (e % 2) = 0 THEN F(byte, 0, 4) ELSE F(byte, 4, 4), 8, None)

LoaderQ8_0(e) == Weight(F(0, 0, 16), F(2 + (e % 32), 0, 8), 0, None)

LoaderQ4K(e) ==
    LET sb == e \div 32
        sc(n) == 4 + n
        chunk == 16 + (sb \div 2) * 32
        low == sb < 4
    IN  LessMin(Weight(F(0, 0, 16), F(chunk + (e % 32), IF (sb % 2) = 1 THEN 4 ELSE 0, 4), 0,
                       IF low THEN F(sc(sb), 0, 6) ELSE F(sc(sb + 4), 0, 4) \o F(sc(sb - 4), 6, 2)),
                F(2, 0, 16),
                IF low THEN F(sc(sb + 4), 0, 6) ELSE F(sc(sb + 4), 4, 4) \o F(sc(sb), 6, 2))

\* The four stores of one turn of the loop, q1 to q4, at 0, 32, 64 and 96.
LoaderQ6K(e) ==
    LET turn == e \div 128
        ql == turn * 64
        qh == 128 + turn * 32
        sc == 192 + turn * 8
        l == (e % 32)
        store == CASE (e % 128) < 32 -> <<F(ql + l, 0, 4), F(qh + l, 0, 2), sc + l \div 16>>
                   [] (e % 128) \in 32..63 -> <<F(ql + l + 32, 0, 4), F(qh + l, 2, 2), sc + l \div 16 + 2>>
                   [] (e % 128) \in 64..95 -> <<F(ql + l, 4, 4), F(qh + l, 4, 2), sc + l \div 16 + 4>>
                   [] OTHER -> <<F(ql + l + 32, 4, 4), F(qh + l, 6, 2), sc + l \div 16 + 6>>
    IN  Weight(F(208, 0, 16), store[1] \o store[2], 32, F(store[3], 0, 8))

\* Every other type: a warning, and zeros.
Zeros == Weight(None, None, 0, None)

Loader(f, e) ==
    CASE f \in {"F16", "BF16"} -> CpuHalf(e)
      [] f = "Q4_0" -> LoaderQ4_0(e) [] f = "Q8_0" -> LoaderQ8_0(e)
      [] f = "Q4_K" -> LoaderQ4K(e)  [] f = "Q6_K" -> LoaderQ6K(e)
      [] OTHER -> Zeros

-----------------------------------------------------------------------------
(* CUDA: lane and turn j of the warp that owns the row meet at lane + 32 j.  *)
CudaQ4K(e) ==
    LET lane == (e % 32)
        j == e \div 32
        spare == IF j < 4 THEN None ELSE F(4 + j - 4, 6, 2)
        spareMin == IF j < 4 THEN None ELSE F(4 + j, 6, 2)
        width == IF j < 4 THEN 6 ELSE 4
    IN  LessMin(Weight(F(0, 0, 16), F(16 + (j \div 2) * 32 + lane, 4 * (j % 2), 4), 0,
                       F(4 + (IF j < 4 THEN j ELSE j + 4), 0, width) \o spare),
                F(2, 0, 16), F(4 + j + 4, IF j < 4 THEN 0 ELSE 4, width) \o spareMin)

\* The embedding row: one warp per block, the row at token_id * bpr * 144.
RowQ4K(e) == CudaQ4K(e)

CudaQ6K(e) ==
    LET lane == (e % 32)
        j == e \div 32
        lo == (j \div 4) * 64 + (j % 2) * 32 + lane
        hi == 128 + (j \div 4) * 32 + lane
        sc == 192 + (j \div 4) * 8 + (j % 4) * 2 + lane \div 16
    IN  Weight(F(208, 0, 16),
               F(lo, IF (j % 4) >= 2 THEN 4 ELSE 0, 4) \o F(hi, (j % 4) * 2, 2), 32, F(sc, 0, 8))

-----------------------------------------------------------------------------
(* The Metal shaders of the four formats whose packing is not plain.         *)
MetalQ4K(e) ==
    LET sb == e \div 32
    IN  LessMin(Weight(F(0, 0, 16), Nibble(16 + sb * 16, e % 32), 0, SpareBitsFirst(sb).scale),
                F(2, 0, 16), SpareBitsFirst(sb).min)

MetalQ5K(e) ==
    LET sb == e \div 32
        high == F(16 + e \div 8, (e % 8), 1)
    IN  LessMin(Weight(F(0, 0, 16), Nibble(48 + 16 * sb, e % 32) \o high, 0, SpareBitsFirst(sb).scale),
                F(2, 0, 16), SpareBitsFirst(sb).min)

MetalQ6K(e) ==
    Weight(F(208, 0, 16), Nibble(0, e) \o F(128 + e \div 4, 2 * (e % 4), 2), 32, F(192 + e \div 16, 0, 8))

\* The scales of the upper eight sub-blocks start over at the first byte.
MetalQ3K(e) ==
    LET sb == e \div 16
        si == (sb % 8)
    IN  Weight(F(108, 0, 16),
               F(32 + e \div 4, 2 * (e % 4), 2) \o F(e \div 8, (e % 8), 1), 4,
               F(96 + si \div 2, 4 * (si % 2), 4) \o F(104 + sb \div 4, 2 * (sb % 4), 2))

-----------------------------------------------------------------------------
Read(reader, f, e) ==
    CASE reader = "cpu" -> Cpu(f, e)
      [] reader = "loader" -> Loader(f, e)
      [] reader = "cuda" -> IF f = "Q4_K" THEN CudaQ4K(e) ELSE CudaQ6K(e)
      [] reader = "row" -> RowQ4K(e)
      [] reader = "metal" -> CASE f = "Q4_K" -> MetalQ4K(e) [] f = "Q5_K" -> MetalQ5K(e)
                               [] f = "Q6_K" -> MetalQ6K(e) [] f = "Q3_K" -> MetalQ3K(e)

\* What a reader makes of the block's f16 scale: the kernels' own conversion
\* (exp = 0 gives a signed zero) loses the numbers below 2^-14.
HalfRead(reader, h) == IF reader \in {"cuda", "row"} /\ h = "subnormal" THEN "zero" ELSE h

\* Where the reader looks for the block of a column: in the file every block
\* takes TypeSize bytes, the products step by their own literal, and the loader
\* slices the row by TypeSize before it steps by its literal inside it.
BlockAt(reader, f, r, c) ==
    LET inRow == (c \div BlockSize(f)) * BlockBytes(f)
    IN  r * Blocks * (IF reader = "loader" THEN TypeSize(f) ELSE BlockBytes(f)) + inRow
InFile(f, r, c) == (r * Blocks + c \div BlockSize(f)) * TypeSize(f)

-----------------------------------------------------------------------------
QuantInit ==
    /\ format \in Formats
    /\ half \in Halves
    /\ row = 0
    /\ col = 0

Columns == Blocks * BlockSize(format)

NextWeight ==
    /\ col + 1 < Columns
    /\ col' = col + 1
    /\ UNCHANGED <<format, half, row>>

NextRow ==
    /\ col + 1 = Columns
    /\ row + 1 < Rows
    /\ row' = row + 1
    /\ col' = 0
    /\ UNCHANGED <<format, half>>

QuantNext == NextWeight \/ NextRow
QuantSpec == QuantInit /\ [][QuantNext]_qvars

-----------------------------------------------------------------------------
Element == col % BlockSize(format)
Reading(reader) ==
    <<BlockAt(reader, format, row, col), HalfRead(reader, half), Read(reader, format, Element)>>

\* Whoever reads a weight - the product on the CPU, the loader that unpacks a
\* tensor or an embedding row, the CUDA kernels - makes it from the same bits
\* of the same block (metal/compute.rs, ssd/streamer.rs, cuda/mod.rs: a layer
\* may run on either side of the device boundary).
ReadersAgree ==
    \A r1, r2 \in ReadersOf(format) : Reading(r1) = Reading(r2)

SetOf(bits) == {bits[i] : i \in DOMAIN bits}
ScaleBits(w) == SetOf(w.d) \union SetOf(w.dmin) \union SetOf(w.scale) \union SetOf(w.min)
CodeBits(w) == SetOf(w.code)

\* Bytes of another product: the sums that Q8_K carries.
Spare(f) == IF f = "Q8_K" THEN 8 * 260 .. 8 * 292 - 1 ELSE {}

\* What one block holds: its weights, and the bits they are made from.
WeightsOf == [f \in Formats |-> {Cpu(f, e) : e \in 0..(BlockSize(f) - 1)}]
UsedBits ==
    [f \in Formats |-> UNION {ScaleBits(v) \union CodeBits(v) \union SetOf(v.sign) : v \in WeightsOf[f]}]

\* Of the scales that their layouts give them, these formats' readers read a
\* part: the low bytes of the first four words of IQ4_XS's eight, and four bytes
\* of IQ2_XS's eight.
PartlyRead == {"IQ4_XS", "IQ2_XS"}

\* No stored bit is part of two weights' codes (a grid entry is shared by its
\* own weights only), none is both code and scale or sign, none lies past the
\* block, whose next one starts where the file has it, and but for the formats
\* of PartlyRead every one is used (the layouts of model/gguf.rs and of the
\* kernels' comments).
BlocksTile ==
    LET w == Cpu(format, Element)
        stored == 0..(8 * TypeSize(format) - 1)
        used == UsedBits[format] \union Spare(format)
    IN  (row = 0 /\ col < BlockSize(format)) =>
        /\ BlockAt("cpu", format, 1, 0) = InFile(format, 1, 0)
        /\ CodeBits(w) \cap (ScaleBits(w) \union SetOf(w.sign)) = {}
        /\ \A v \in WeightsOf[format] : v.code = w.code \/ CodeBits(v) \cap CodeBits(w) = {}
        /\ Cardinality(WeightsOf[format]) = BlockSize(format)
        /\ used \subseteq stored
        /\ format \notin PartlyRead => used = stored

\* What the layouts in compute.rs say of these two formats ("8xu16 scales_l (16B)",
\* :1227, and "uint8_t scales[8] (8B)", :2381) and TLC refutes: that the scales are
\* all used.
BlocksUsedUp ==
    UsedBits[format] \union Spare(format) = 0..(8 * TypeSize(format) - 1)
=============================================================================
