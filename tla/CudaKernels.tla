------------------------------ MODULE CudaKernels ------------------------------
(*****************************************************************************)
(* The two CUDA kernels of cuda/mod.rs whose threads share memory: the fused *)
(* attention kernel (normalise and rotate Q, the same for K, append the row, *)
(* score, weigh V) and the matrix-vector product that normalises its input   *)
(* first.                                                                    *)
(*                                                                           *)
(* A block is scheduled warp by warp: the lanes of a warp take a step of the *)
(* program together, warps and blocks in any order, and __syncthreads holds  *)
(* a warp until every warp of its block has arrived.  A value in memory says *)
(* what went into it - which elements, and which squares the factor that     *)
(* normalised it was the sum of - so a value read too early is not the one   *)
(* that was meant.                                                           *)
(*****************************************************************************)
EXTENDS Integers, Sequences, FiniteSets

CONSTANTS
    Kernels,      \* {"attn"}, {"norm"} or both
    Dim, Warp,    \* threads of a block (a power of two), lanes of a warp
    Heads, Group, \* attention: query heads, heads that share a KV head
    InDim, OutDim \* product: columns and rows of the matrix

VARIABLES
    kernel,
    pc,      \* pc[b][w]: the step warp w of block b takes next
    xs,      \* xs[b]: the block's shared scratch
    reg,     \* reg[b][t]: the register of thread t that outlives a step
    qStore,  \* qStore[b]: the rotated query
    scores,  \* scores[b]: what thread 0 read when it scored
    kRow, vRow, \* by KV head: the new row of the layer's KV cache
    out      \* out[b][t], and y[row] of the product

kvars == <<kernel, pc, xs, reg, qStore, scores, kRow, vRow, out>>

Threads == 0..(Dim - 1)
Warps == 0..(Dim \div Warp - 1)
Lanes(w) == (w * Warp)..(w * Warp + Warp - 1)
Half == Dim \div 2

Value(stage, of, norm) == [stage |-> stage, of |-> of, norm |-> norm]
Stale == Value("stale", {}, {})

-----------------------------------------------------------------------------
(* The programs.  "sync" is the __syncthreads that follows the step.         *)
Step(op, on, s, sync) == [op |-> op, on |-> on, s |-> s, sync |-> sync]

\* The steps of the tree reduction: half of the threads, then half of those.
Halvings == {s \in 1..Half : \E k \in 0..10 : s = 2 ^ k}
Reduction(on) ==
    [i \in 1..Cardinality(Halvings) |-> Step("halve", on, Dim \div (2 ^ i), TRUE)]

NormStepsUnsynced(on) ==
    <<Step("square", on, 0, TRUE)>> \o Reduction(on) \o
    <<Step("normalise", on, 0, FALSE), Step("stage", on, 0, TRUE)>>

\* Squares, their sum, the factor from scratch[0]; the scratch is written
\* again only after everyone has the factor.
NormSteps(on) ==
    <<Step("square", on, 0, TRUE)>> \o Reduction(on) \o
    <<Step("normalise", on, 0, TRUE), Step("stage", on, 0, TRUE)>>

AttnProgram ==
    NormSteps("q") \o <<Step("rope", "q", 0, TRUE), Step("take", "q", 0, TRUE)>> \o
    NormSteps("k") \o <<Step("rope", "k", 0, TRUE), Step("append", "k", 0, FALSE),
                        Step("score", "", 0, TRUE), Step("weigh", "", 0, FALSE)>>

NormProgram == NormSteps("x") \o <<Step("product", "x", 0, FALSE)>>

Program == IF kernel = "attn" THEN AttnProgram ELSE NormProgram

\* The grid: a block per head, or per full group of rows.
RowsPerBlock == Cardinality(Warps)
BlocksOf(k) == IF k = "attn" THEN 0..(Heads - 1) ELSE 0..(OutDim \div RowsPerBlock - 1)
KvHead(b) == b \div Group
KvHeads == {KvHead(b) : b \in 0..(Heads - 1)}
\* The columns a thread of the product goes through: its own, and on by Dim.
InColumns(t) == {i \in 0..(InDim - 1) : i % Dim = t}
Scratch == IF kernel = "attn" THEN Threads ELSE 0..(InDim - 1)

KernelInit ==
    /\ kernel \in Kernels
    /\ pc = [b \in BlocksOf(kernel) |-> [w \in Warps |-> 1]]
    /\ xs = [b \in BlocksOf(kernel) |-> [i \in Scratch |-> Stale]]
    /\ reg = [b \in BlocksOf(kernel) |-> [t \in Threads |-> Stale]]
    /\ qStore = [b \in BlocksOf(kernel) |-> [t \in Threads |-> Stale]]
    /\ scores = [b \in BlocksOf(kernel) |-> [done |-> FALSE, q |-> {}, k |-> {}]]
    /\ kRow = [h \in KvHeads |-> [t \in Threads |-> Stale]]
    /\ vRow = [h \in KvHeads |-> [t \in Threads |-> Stale]]
    /\ out = IF kernel = "attn" THEN [b \in BlocksOf(kernel) |-> [t \in Threads |-> Stale]]
             ELSE [r \in 0..(OutDim - 1) |-> Stale]

\* A warp passes a barrier when all warps of the block have reached it.
MayStep(b, w) ==
    LET i == pc[b][w]
    IN  /\ i <= Len(Program)
        /\ (i > 1 /\ Program[i - 1].sync) => \A v \in Warps : pc[b][v] >= i
Advance(b, w) == pc' = [pc EXCEPT ![b][w] = @ + 1]
Reached(b, w, op) == MayStep(b, w) /\ Program[pc[b][w]].op = op
On(b, w) == Program[pc[b][w]].on

-----------------------------------------------------------------------------
(* One step of a warp.                                                       *)
Source(t) == IF kernel = "attn" THEN {t} ELSE InColumns(t)

Square(b, w) ==
    /\ Reached(b, w, "square")
    /\ xs' = [xs EXCEPT ![b] = [i \in Scratch |->
                  IF i \in Lanes(w) THEN Value("sum", Source(i), {}) ELSE @[i]]]
    /\ Advance(b, w)
    /\ UNCHANGED <<kernel, reg, qStore, scores, kRow, vRow, out>>

\* scratch[d] += scratch[d + s]
Sum(a, c) ==
    IF a.stage = "sum" /\ c.stage = "sum" /\ a.of \cap c.of = {}
    THEN Value("sum", a.of \union c.of, {}) ELSE Value("spoiled", {}, {})

Halve(b, w) ==
    LET s == Program[pc[b][w]].s
    IN  /\ Reached(b, w, "halve")
        /\ xs' = [xs EXCEPT ![b] = [i \in Scratch |->
                      IF i \in Lanes(w) /\ i < s THEN Sum(@[i], @[i + s]) ELSE @[i]]]
        /\ Advance(b, w)
        /\ UNCHANGED <<kernel, reg, qStore, scores, kRow, vRow, out>>

\* The factor is taken from scratch[0]; attention scales its register with it.
Normalise(b, w) ==
    /\ Reached(b, w, "normalise")
    /\ reg' = [reg EXCEPT ![b] = [t \in Threads |->
                   IF t \in Lanes(w)
                   THEN Value(On(b, w), Source(t), IF xs[b][0].stage = "sum" THEN xs[b][0].of ELSE {})
                   ELSE @[t]]]
    /\ Advance(b, w)
    /\ UNCHANGED <<kernel, xs, qStore, scores, kRow, vRow, out>>

\* scratch[d] = qv; the product writes every column of the thread.
Stage(b, w) ==
    /\ Reached(b, w, "stage")
    /\ xs' = [xs EXCEPT ![b] = [i \in Scratch |->
                  IF (i % Dim) \in Lanes(w)
                  THEN Value(On(b, w), {i}, reg[b][i % Dim].norm) ELSE @[i]]]
    /\ Advance(b, w)
    /\ UNCHANGED <<kernel, reg, qStore, scores, kRow, vRow, out>>

\* Thread d of the lower half turns the pair (d, d + half).
Turned(a, c, on) ==
    IF a.stage = on /\ c.stage = on
    THEN Value("rope", a.of \union c.of, a.norm \cap c.norm) ELSE Value("spoiled", {}, {})

Rope(b, w) ==
    LET pair(i) == Turned(xs[b][i % Half], xs[b][(i % Half) + Half], On(b, w))
    IN  /\ Reached(b, w, "rope")
        /\ xs' = [xs EXCEPT ![b] = [i \in Scratch |->
                      IF (i % Half) \in Lanes(w) THEN pair(i) ELSE @[i]]]
        /\ Advance(b, w)
        /\ UNCHANGED <<kernel, reg, qStore, scores, kRow, vRow, out>>

Take(b, w) ==
    /\ Reached(b, w, "take")
    /\ qStore' = [qStore EXCEPT ![b] = [t \in Threads |-> IF t \in Lanes(w) THEN xs[b][t] ELSE @[t]]]
    /\ Advance(b, w)
    /\ UNCHANGED <<kernel, xs, reg, scores, kRow, vRow, out>>

\* Heads of a group write the same row; no __syncthreads follows.
AppendRow(b, w) ==
    LET h == KvHead(b)
    IN  /\ Reached(b, w, "append")
        /\ kRow' = [kRow EXCEPT ![h] = [t \in Threads |-> IF t \in Lanes(w) THEN xs[b][t] ELSE @[t]]]
        /\ vRow' = [vRow EXCEPT ![h] = [t \in Threads |->
                        IF t \in Lanes(w) THEN Value("v", {t}, {}) ELSE @[t]]]
        /\ Advance(b, w)
        /\ UNCHANGED <<kernel, xs, reg, qStore, scores, out>>

Whole(t) == Value("rope", {t % Half, (t % Half) + Half}, Threads)

\* Thread 0 alone walks the rows, the new one included.
Score(b, w) ==
    /\ Reached(b, w, "score")
    /\ scores' = IF 0 \in Lanes(w)
                 THEN [scores EXCEPT ![b] =
                          [done |-> TRUE,
                           q |-> {t \in Threads : qStore[b][t] = Whole(t)},
                           k |-> {t \in Threads : kRow[KvHead(b)][t] = Whole(t)}]]
                 ELSE scores
    /\ Advance(b, w)
    /\ UNCHANGED <<kernel, xs, reg, qStore, kRow, vRow, out>>

Weigh(b, w) ==
    /\ Reached(b, w, "weigh")
    /\ out' = [out EXCEPT ![b] = [t \in Threads |->
                   IF t \in Lanes(w)
                   THEN IF scores[b].done THEN vRow[KvHead(b)][t] ELSE Value("unscored", {}, {})
                   ELSE @[t]]]
    /\ Advance(b, w)
    /\ UNCHANGED <<kernel, xs, reg, qStore, scores, kRow, vRow>>

\* A warp owns the row blockIdx * 32 + warp, its lanes the columns.
Product(b, w) ==
    LET whole == {i \in Scratch : xs[b][i].stage = "x" /\ xs[b][i].norm = 0..(InDim - 1)}
    IN  /\ Reached(b, w, "product")
        /\ out' = [out EXCEPT ![b * RowsPerBlock + w] = Value("row", whole, 0..(InDim - 1))]
        /\ Advance(b, w)
        /\ UNCHANGED <<kernel, xs, reg, qStore, scores, kRow, vRow>>

KernelNext ==
    \E b \in DOMAIN pc, w \in Warps :
        \/ Square(b, w) \/ Halve(b, w) \/ Normalise(b, w) \/ Stage(b, w)
        \/ Rope(b, w) \/ Take(b, w) \/ AppendRow(b, w) \/ Score(b, w) \/ Weigh(b, w)
        \/ Product(b, w)

KernelSpec == KernelInit /\ [][KernelNext]_kvars

-----------------------------------------------------------------------------
\* However the warps are scheduled: a factor is the sum over the whole vector,
\* no pair is turned or summed out of order, the query that is scored is the
\* whole rotated query, a thread weighs finished scores with its own lane of
\* V, and each row the product writes is over the whole normalised vector
\* (the barriers of cuda/mod.rs, and "safe after sync").
BarriersSuffice ==
    /\ \A b \in DOMAIN reg, t \in Threads :
           reg[b][t] # Stale => reg[b][t].norm = IF kernel = "attn" THEN Threads ELSE 0..(InDim - 1)
    /\ \A b \in DOMAIN xs, i \in Scratch : xs[b][i].stage # "spoiled"
    /\ \A b \in DOMAIN scores : scores[b].done => scores[b].q = Threads
    /\ kernel = "attn" =>
           \A b \in DOMAIN out, t \in Threads : out[b][t] \in {Stale, Value("v", {t}, {})}
    /\ kernel = "norm" =>
           \A r \in DOMAIN out : out[r] \in {Stale, Value("row", 0..(InDim - 1), 0..(InDim - 1))}

\* Thread 0 scores the new position with the whole key ("GQA idempotent writes
\* are safe", cuda/mod.rs:522): refuted as soon as a head has two warps, since
\* only __threadfence stands between the append and the scores.
KeysWhole == \A b \in DOMAIN scores : scores[b].done => scores[b].k = Threads

\* When the grid has run, every output row is there: refuted when the rows are
\* no multiple of the warps of a block (grid = out_dim / 32, rounded down).
EveryRowComputed ==
    (kernel = "norm" /\ \A b \in DOMAIN pc, w \in Warps : pc[b][w] > Len(Program))
        => \A r \in DOMAIN out : out[r] # Stale
=============================================================================
