------------------------------ MODULE MCKernels -----------------------------
(* Small instances of the numeric code: each behaviour runs one part, and    *)
(* the others keep one of their initial states.                              *)
EXTENDS QuantBlocks, Awq, CudaKernels, CudaBuffers, Attention, FeedForward, Perplexity, TLC

Plain == {"F16", "BF16", "Q4_0", "Q8_0"}
MCReadings ==
  ((Plain \union {"Q2_K", "Q4_K", "Q5_K", "Q6_K", "Q8_K", "IQ4_NL", "IQ4_XS", "IQ3_XXS", "IQ3_S", "IQ2_XXS", "IQ2_XS"})
     \X {"cpu"})
  \union ((Plain \union {"Q4_K", "Q6_K"}) \X {"loader"})
  \union ({"Q4_K", "Q6_K"} \X {"cuda"})
  \union {<<"Q4_K", "row">>, <<"Q5_K", "metal">>}

Dims(e, q, kv, ff, v) == [embd |-> e, q |-> q, kv |-> kv, ff |-> ff, vocab |-> v]
MCShapes == {Dims(4, 4, 2, 8, 9), Dims(4, 8, 4, 8, 9), Dims(4, 4, 2, 4, 4)}
\* n_head = n_head_kv: K and V are as wide as Q.
MHAShapes == {Dims(4, 4, 4, 8, 9)}

MCModelShapes == {[embd |-> 16, heads |-> 4, kv |-> 2, q |-> 16, kvDim |-> 8],
                  [embd |-> 8, heads |-> 2, kv |-> 2, q |-> 8, kvDim |-> 8]}
WideModelShapes == {[embd |-> 8, heads |-> 2, kv |-> 2, q |-> 16, kvDim |-> 16]}
MCUsers == {{"quantized", "from_qkv"}, {"cached", "gpu"}, {"fused_rope"},
            {"flash", "flash_windowed", "flash_gpu"}, {"gqa", "gqa_sliding"}}
\* A batch: prefilled by one path, continued by the other.
BatchUsers == {{"quantized", "cached"}}

MCStrides == {p \in (1 .. 6) \X (0 .. 6) : p[2] < p[1] \/ p[1] = 1}
WholeStrides == {<<c, c>> : c \in 2 .. 6}

RowOf(s) == [c \in 0 .. Len(s) - 1 |-> s[c + 1]]
MCWeightRows == {RowOf(<<0, 0, 0, 0, 0>>), RowOf(<<-2, 1, 0, 2, 1>>), RowOf(<<3, 3, -1, 0, -3>>),
                 RowOf(<<1, 2, 3, -3, 0>>)}
\* One row, two, and one with a remainder.
MCBatches == {<<1, 0, 2, 0, 1>>, <<0, -3, 1, 0, 2, 1, 0, 2, 0, 1>>, <<0, -3, 1, 0, 2, 4, 4>>}
MCConfigs == [bits : {2, 3, 4, 8}, group_size : {2, 3}, alpha : {0, 1}, clip : BOOLEAN]

VARIABLE part
kernelVars == <<qvars, awqVars, kvars, bvars, attnVars, ffnVars, pplVars, part>>
One(S) == CHOOSE x \in S : TRUE

MCInit ==
  /\ part \in {"blocks", "awq", "device", "buffers", "attention", "ffn", "perplexity"}
  /\ QuantInit  /\ (part # "blocks" => format = "F16" /\ half = "normal")
  /\ AwqInit
  /\ KernelInit /\ (part # "device" => kernel = One(Kernels))
  /\ BufInit    /\ (part # "buffers" => shape = One(Shapes))
  /\ AttnInit   /\ (part # "attention" => dims = One(ModelShapes) /\ users = One(CacheUsers))
  /\ FfnInit    /\ (part # "ffn" => job = "product" /\ split = [rows |-> One(OutDims), shards |-> One(ShardCounts)])
  /\ PplInit    /\ (part # "perplexity" => total = One(Totals) /\ ctx = 1 /\ stride = 0)

Keep(vars) == UNCHANGED vars /\ UNCHANGED part
BlocksPart     == part = "blocks" /\ QuantNext /\ Keep(<<awqVars, kvars, bvars, attnVars, ffnVars, pplVars>>)
AwqPart        == part = "awq" /\ AwqNext /\ Keep(<<qvars, kvars, bvars, attnVars, ffnVars, pplVars>>)
DevicePart     == part = "device" /\ KernelNext /\ Keep(<<qvars, awqVars, bvars, attnVars, ffnVars, pplVars>>)
BuffersPart    == part = "buffers" /\ BufNext /\ Keep(<<qvars, awqVars, kvars, attnVars, ffnVars, pplVars>>)
AttentionPart  == part = "attention" /\ AttnNext /\ Keep(<<qvars, awqVars, kvars, bvars, ffnVars, pplVars>>)
FfnPart        == part = "ffn" /\ FfnNext /\ Keep(<<qvars, awqVars, kvars, bvars, attnVars, pplVars>>)
PerplexityPart == part = "perplexity" /\ PplNext /\ Keep(<<qvars, awqVars, kvars, bvars, attnVars, ffnVars>>)

MCSpec ==
  MCInit /\ [][BlocksPart \/ AwqPart \/ DevicePart \/ BuffersPart \/ AttentionPart \/ FfnPart \/ PerplexityPart]_kernelVars

\* The readers of the packed formats agree on every weight and read whole
\* blocks, and what the program packs itself reads back.
QuantInv == ReadersAgree /\ BlocksTile /\ AwqInv

\* On the device, no thread reads what another has still to write, and no
\* launch reads what another has overwritten.
DeviceInv == BarriersSuffice /\ LaunchesReadTheirOwn

=============================================================================
