------------------------------ MODULE Attention ------------------------------
(*****************************************************************************)
(* One layer's attention on the host (inference/attention.rs,                *)
(* flash_attention.rs, gqa.rs): a step projects a token, rotates its query   *)
(* and key, appends the row to the layer's cache and lets each query head    *)
(* attend to the rows of its KV head.  A number is followed only as far as   *)
(* it matters: a lane of a query or key by the angle it was turned by, a     *)
(* weight by its position, a score s as a weight 2^s in place of exp(s).     *)
(*****************************************************************************)
EXTENDS Collections

CONSTANTS
    ModelShapes, \* records [embd, heads, kv, q, kvDim]: n_embd, n_head, n_head_kv, q_dim, kv_dim
    CacheUsers,  \* sets of paths that share one layer's cache
    ModelBase,   \* the model's rope theta_base
    MaxRows,     \* tokens attended to, at most
    MaxScore,    \* scores are 0 .. MaxScore
    AttnWindow, AttnSinks \* the last and the first positions that a windowed path keeps

TwoPass == {"cached", "gpu", "fused_rope", "quantized", "from_qkv", "gqa", "gqa_sliding"}
Online  == {"flash", "flash_windowed", "flash_gpu"}

ASSUME AttentionAssumption ==
    /\ ModelShapes \subseteq [embd : Nat \ {0}, heads : Nat \ {0}, kv : Nat \ {0}, q : Nat \ {0}, kvDim : Nat \ {0}]
    /\ CacheUsers \subseteq SUBSET (TwoPass \union Online)
    /\ ModelBase \in Nat /\ MaxRows \in Nat /\ MaxScore \in Nat
    /\ AttnWindow \in Nat \ {0} /\ AttnSinks \in Nat

VARIABLES dims, users, path, stage, rows, query, head, levels, top, sum, acc

attnVars == <<dims, users, path, stage, rows, query, head, levels, top, sum, acc>>

-----------------------------------------------------------------------------
(* Rotation.  Every helper turns the pairs of n blocks of dim lanes.         *)
RopeBase(p) == IF p \in {"fused_rope", "quantized", "from_qkv"} THEN ModelBase ELSE 10000

\* rope_f32_multi_head and attention.rs: lanes i and i + dim/2 of a block.
HalfSplit(lane, dim) == [freq |-> (lane % dim) % (dim \div 2), second |-> lane % dim >= dim \div 2]
\* flash_attention.rs and gqa.rs: lanes 2i and 2i + 1.
Interleaved(lane, dim) == [freq |-> (lane % dim) \div 2, second |-> lane % 2 = 1]

\* The paths that turn neighbours.
Neighbours == Online \union {"gqa", "gqa_sliding"}
Pairing(p, lane, dim) ==
    IF p \in Neighbours THEN Interleaved(lane, dim) ELSE HalfSplit(lane, dim)

\* Lanes past the last block keep their value: no angle.
Rotated(p, len, dim, n, position) ==
    [lane \in 0 .. len - 1 |->
        IF lane < n * dim
        THEN [base |-> RopeBase(p), pair |-> Pairing(p, lane, dim), dim |-> dim, at |-> position]
        ELSE [base |-> 0, pair |-> HalfSplit(0, dim), dim |-> dim, at |-> 0]]

-----------------------------------------------------------------------------
(* The dimensions a path works with.                                         *)
CacheDim(s) == s.embd \div s.heads                         \* KvCache::new(.., n_embd / n_head, ..)
HeadDim(p, s) == IF p = "quantized" THEN s.q \div s.heads ELSE CacheDim(s)
KvHeadDim(s) == s.kvDim \div s.kv
RopeDim(p, s) ==
    IF p \in {"quantized", "from_qkv"} THEN Min({HeadDim(p, s), KvHeadDim(s)}) ELSE HeadDim(p, s)
HeadsInRow(p, s) == IF p \in {"quantized", "from_qkv"} THEN s.kvDim \div HeadDim(p, s) ELSE s.kv
GroupSize(p, s) == Max({1, s.heads \div HeadsInRow(p, s)})

KvHeadOf(p, s, h) == h \div GroupSize(p, s)

\* The positions a query sees, as 0-based positions of the cache.
Visible(p, len) ==
    CASE p = "flash_windowed" -> Max({0, len - AttnWindow}) .. len - 1
      [] p = "gqa_sliding" /\ len > AttnWindow + AttnSinks ->
            (0 .. Min({AttnSinks, len - AttnWindow}) - 1) \union (len - AttnWindow .. len - 1)
      [] OTHER -> 0 .. len - 1

-----------------------------------------------------------------------------
NoLevels == [at \in {} |-> 0]

AttnInit ==
    /\ dims \in ModelShapes
    /\ users \in CacheUsers
    /\ path = "none" /\ stage = "idle"
    /\ rows = <<>> /\ query = <<>>
    /\ head = 0 /\ levels = NoLevels /\ top = -1 /\ sum = 0 /\ acc = NoLevels

\* Project, rotate and append; the quantized path then asserts that a key of the
\* cache is as long as one of its own heads.
Project(p) ==
    /\ stage = "idle" /\ p \in users /\ Len(rows) < MaxRows
    /\ path' = p
    /\ LET at == Len(rows)
           d == RopeDim(p, dims)
       IN /\ query' = Rotated(p, dims.q, d, dims.heads, at)
          /\ rows' = Append(rows, Rotated(p, dims.kvDim, d, dims.kv, at))
    /\ stage' = IF p = "quantized" /\ HeadDim(p, dims) # CacheDim(dims) THEN "panicked" ELSE "scoring"
    /\ head' = 0 /\ levels' = NoLevels /\ top' = -1 /\ sum' = 0 /\ acc' = NoLevels
    /\ UNCHANGED <<dims, users>>

\* exp(a - b), scaled so that it stays whole for scores up to MaxScore.
Scaled(a, b) == 2 ^ (MaxScore + a - b)

\* softmax_f32_fast over all scores, then the weighted sum of the values.
SoftmaxHead ==
    /\ stage = "scoring" /\ path \in TwoPass
    /\ \E s \in [Visible(path, Len(rows)) -> 0 .. MaxScore] :
        /\ levels' = s
        /\ top' = Max(Range(s))
        /\ acc' = [at \in DOMAIN s |-> Scaled(s[at], top')]
        /\ sum' = SumOver(acc', DOMAIN acc')
    /\ stage' = "attended"
    /\ UNCHANGED <<dims, users, path, rows, query, head>>

\* As below, with the sum left as it was when the maximum moves.
RescaledAccOnly(a, s, old, new) ==
    [acc |-> [at \in DOMAIN a |-> a[at] \div 2 ^ (new - old)], sum |-> s]

\* The accumulators once the maximum moves from old to new; at first both are zero.
Rescaled(a, s, old, new) ==
    [acc |-> [at \in DOMAIN a |-> a[at] \div 2 ^ (new - old)], sum |-> s \div 2 ^ (new - old)]

\* One position of the online softmax, in order.
OnlineStep ==
    /\ stage = "scoring" /\ path \in Online
    /\ LET left == Visible(path, Len(rows)) \ DOMAIN levels
           at == Min(left)
       IN /\ \E score \in 0 .. MaxScore :
               LET new == Max({top, score})
                   r == IF score > top THEN Rescaled(acc, sum, top, new) ELSE [acc |-> acc, sum |-> sum]
               IN /\ levels' = [x \in DOMAIN levels \union {at} |-> IF x = at THEN score ELSE levels[x]]
                  /\ top' = new
                  /\ sum' = r.sum + Scaled(score, new)
                  /\ acc' = [x \in DOMAIN levels' |-> IF x = at THEN Scaled(score, new) ELSE r.acc[x]]
          /\ stage' = IF left = {at} THEN "attended" ELSE "scoring"
    /\ UNCHANGED <<dims, users, path, rows, query, head>>

\* The next query head, or the output projection.
NextHead ==
    /\ stage = "attended"
    /\ IF head + 1 < dims.heads
       THEN /\ head' = head + 1 /\ stage' = "scoring"
            /\ levels' = NoLevels /\ top' = -1 /\ sum' = 0 /\ acc' = NoLevels
       ELSE stage' = "idle" /\ UNCHANGED <<head, levels, top, sum, acc>>
    /\ UNCHANGED <<dims, users, path, rows, query>>

AttnNext == (\E p \in TwoPass \union Online : Project(p)) \/ SoftmaxHead \/ OnlineStep \/ NextHead

AttnSpec == AttnInit /\ [][AttnNext]_attnVars

-----------------------------------------------------------------------------
\* The online softmax ends where the two passes end (flash_attention.rs): every
\* visible value has the weight its score gives it under the final maximum, and
\* the denominator is the sum of the weights - wherever the maximum was met.
OnlineIsTwoPass ==
    stage = "attended" =>
        /\ DOMAIN acc = Visible(path, Len(rows))
        /\ top = Max(Range(levels))
        /\ \A at \in DOMAIN acc : acc[at] = Scaled(levels[at], top)
        /\ sum = SumOver(acc, DOMAIN acc)
        /\ Len(rows) - 1 \in DOMAIN acc

\* The query heads share the KV heads in equal runs, each within the cached row,
\* and a score compares lanes turned alike: with one base, one pairing and one
\* block size, and by their own position.  (attention.rs, flash_attention.rs and
\* gqa.rs have a rotation of their own each.)
HeadsMatchRows ==
    stage = "attended" =>
        LET g == KvHeadOf(path, dims, head)
            d == HeadDim(path, dims)
            Turn(x) == <<x.base, x.pair, x.dim>>
        IN /\ g * dims.heads <= head * dims.kv /\ head * dims.kv < (g + 1) * dims.heads
           /\ \A at \in Visible(path, Len(rows)) : \A i \in 0 .. d - 1 :
                LET key == rows[at + 1][g * CacheDim(dims) + i]
                    own == query[head * d + i]
                IN Turn(key) = Turn(own) /\ key.at = at /\ own.at = Len(rows) - 1

\* What attention promises, by whichever path: the two together.
AttentionInv == OnlineIsTwoPass /\ HeadsMatchRows

\* What a comment of attention.rs says of the quantized path - its dimensions
\* come from the tensors' shapes - with a cache that takes n_embd / n_head: it
\* never stops on its own assertion.
NeverPanics == stage # "panicked"
=============================================================================
