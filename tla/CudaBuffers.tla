------------------------------ MODULE CudaBuffers ------------------------------
(*****************************************************************************)
(* The device buffers of cuda/mod.rs: they are kept by kind and dimension    *)
(* and shared by every layer, so an operation - a chain of launches on one   *)
(* stream - must not overwrite what a later launch of the same chain reads.  *)
(* An allocation may fail, which ends an operation before its first launch,  *)
(* and so may any launch, which leaves the buffers as they are and sends the *)
(* caller to the host.                                                       *)
(*****************************************************************************)
EXTENDS Integers, Sequences, FiniteSets

CONSTANTS
    Shapes,  \* records [embd, q, kv, ff, vocab]: the dimensions of a model
    Turns    \* operations performed, one after the other

VARIABLES shape, op, link, round, held, buf

bvars == <<shape, op, link, round, held, buf>>

X(n) == <<"x", n>>
Y(n) == <<"y", n>>
Host(n) == <<"host", n>>
UpBuf(n) == <<"up", n>>
KBuf(n) == <<"k", n>>
Hidden == <<"hidden", 0>>

\* A launch reads buffers, each for a value it was given by this operation, and
\* writes one.  Values carry the round: what an earlier one left is stale.
Launch(reads, to, value) == [reads |-> reads, to |-> to, value |-> value]
Reads(b, value) == <<b, value>>

-----------------------------------------------------------------------------
(* The chains of launches.                                                   *)
Upload(s) == Launch({}, X(s.embd), "input")
RmsNormOnHidden(s) == Launch({Reads(Hidden, "hidden")}, X(s.embd), "input")
AddHiddenFromY(s, what) == Launch({Reads(Hidden, "hidden"), Reads(Y(s.embd), what)}, Hidden, "hidden")
Download(n, what) == Launch({Reads(Y(n), what)}, Host(n), what)

\* Projections of the input, from x or - normalised inline - from the hidden state.
From(s, inline) == IF inline THEN Reads(Hidden, "hidden") ELSE Reads(X(s.embd), "input")
Qkv(s, inline) ==
    <<Launch({From(s, inline)}, Y(s.q), "Q"),
      Launch({From(s, inline)}, KBuf(s.kv), "K"),
      Launch({From(s, inline)}, Y(s.kv), "V")>>

\* The fused kernel leaves the context in x; Wo takes it from there.
AttnKernel(s) ==
    Launch({Reads(Y(s.q), "Q"), Reads(KBuf(s.kv), "K"), Reads(Y(s.kv), "V")}, X(s.q), "context")
Wo(s) == Launch({Reads(X(s.q), "context")}, Y(s.embd), "attention")

\* As below, with one buffer for both projections.
GateUpInOne(s, inline) ==
    <<Launch({From(s, inline)}, Y(s.ff), "gate"), Launch({From(s, inline)}, Y(s.ff), "up")>>

GateUp(s, inline) ==
    <<Launch({From(s, inline)}, Y(s.ff), "gate"), Launch({From(s, inline)}, UpBuf(s.ff), "up")>>

SiluHad(s) == Launch({Reads(Y(s.ff), "gate"), Reads(UpBuf(s.ff), "up")}, X(s.ff), "activation")
Down(s) == Launch({Reads(X(s.ff), "activation")}, Y(s.embd), "ffn")

\* Without the fused kernel each projection is downloaded before the next.
SgemvQkv(s) ==
    <<Upload(s),
      Launch({Reads(X(s.embd), "input")}, Y(s.q), "Q"), Download(s.q, "Q"),
      Launch({Reads(X(s.embd), "input")}, Y(s.kv), "K"), Download(s.kv, "K"),
      Launch({Reads(X(s.embd), "input")}, Y(s.kv), "V"), Download(s.kv, "V")>>
SgemvGateUp(s) ==
    <<Upload(s),
      Launch({Reads(X(s.embd), "input")}, Y(s.ff), "gate"), Download(s.ff, "gate"),
      Launch({Reads(X(s.embd), "input")}, Y(s.ff), "up"), Download(s.ff, "up")>>
Sgemv(s) == <<Upload(s), Launch({Reads(X(s.embd), "input")}, Y(s.vocab), "logits"), Download(s.vocab, "logits")>>

Chain(o, s) ==
    CASE o = "attn_fused" -> <<Upload(s)>> \o Qkv(s, FALSE) \o <<AttnKernel(s), Wo(s), Download(s.embd, "attention")>>
      [] o = "attn_resident" ->
            <<RmsNormOnHidden(s)>> \o Qkv(s, FALSE) \o <<AttnKernel(s), Wo(s), AddHiddenFromY(s, "attention")>>
      [] o = "attn_layer" -> Qkv(s, TRUE) \o <<AttnKernel(s), Wo(s), AddHiddenFromY(s, "attention")>>
      [] o = "ffn_fused" -> <<Upload(s)>> \o GateUp(s, FALSE) \o <<SiluHad(s), Down(s), Download(s.embd, "ffn")>>
      [] o = "ffn_resident" ->
            <<RmsNormOnHidden(s)>> \o GateUp(s, FALSE) \o <<SiluHad(s), Down(s), AddHiddenFromY(s, "ffn")>>
      [] o = "ffn_layer" -> GateUp(s, TRUE) \o <<SiluHad(s), Down(s), AddHiddenFromY(s, "ffn")>>
      [] o = "qkv" -> SgemvQkv(s)
      [] o = "gate_up" -> SgemvGateUp(s)
      [] o = "sgemv" -> Sgemv(s)
      [] o = "logits" ->
            <<RmsNormOnHidden(s), Launch({Reads(X(s.embd), "input")}, Y(s.vocab), "logits"),
              Download(s.vocab, "logits")>>

Ops == {"attn_fused", "attn_resident", "attn_layer", "ffn_fused", "ffn_resident", "ffn_layer",
        "qkv", "gate_up", "sgemv", "logits"}

\* What the operation makes sure of first, in this order.
EnsureBufs(in, outDim) == <<X(in), Y(outDim), Host(outDim)>>
Ensured(o, s) ==
    CASE o \in {"attn_fused", "attn_resident", "attn_layer"} ->
            (IF o = "attn_resident" THEN EnsureBufs(s.embd, s.embd) ELSE <<>>) \o
            EnsureBufs(s.embd, s.q) \o <<KBuf(s.kv)>> \o EnsureBufs(s.embd, s.kv) \o EnsureBufs(s.q, s.embd)
      [] o \in {"ffn_fused", "ffn_resident", "ffn_layer"} ->
            (IF o = "ffn_resident" THEN EnsureBufs(s.embd, s.embd) ELSE <<>>) \o
            EnsureBufs(s.embd, s.ff) \o <<UpBuf(s.ff)>> \o EnsureBufs(s.ff, s.embd)
      [] o = "qkv" -> EnsureBufs(s.embd, s.q) \o EnsureBufs(s.embd, s.kv)
      [] o = "gate_up" -> EnsureBufs(s.embd, s.ff)
      [] o = "sgemv" -> EnsureBufs(s.embd, s.vocab)
      [] o = "logits" -> EnsureBufs(s.embd, s.embd) \o EnsureBufs(s.embd, s.vocab)

-----------------------------------------------------------------------------
BufInit ==
    /\ shape \in Shapes
    /\ op = "none"
    /\ link = 0
    /\ round = 0
    /\ held = {Hidden}
    /\ buf = [b \in {Hidden} |-> <<"hidden", 0>>]

\* An operation begins with its buffers; a failed allocation keeps the earlier ones.
Begin ==
    /\ op = "none"
    /\ round < Turns
    /\ \E o \in Ops :
           \E n \in 0..Len(Ensured(o, shape)) :
               /\ n < Len(Ensured(o, shape)) => Ensured(o, shape)[n + 1] \notin held
               /\ held' = held \union {Ensured(o, shape)[i] : i \in 1..n}
               /\ op' = IF n = Len(Ensured(o, shape)) THEN o ELSE "none"
    /\ buf' = [b \in held' |-> IF b \in DOMAIN buf THEN buf[b] ELSE <<"zero", 0>>]
    /\ link' = 1
    /\ round' = round + 1
    /\ UNCHANGED shape

Current == Chain(op, shape)[link]

Perform ==
    /\ op # "none"
    /\ buf' = [buf EXCEPT ![Current.to] = <<Current.value, IF Current.to = Hidden THEN 0 ELSE round>>]
    /\ IF link = Len(Chain(op, shape)) THEN op' = "none" /\ link' = 0 ELSE op' = op /\ link' = link + 1
    /\ UNCHANGED <<shape, round, held>>

LaunchFails ==
    /\ op # "none"
    /\ op' = "none"
    /\ link' = 0
    /\ UNCHANGED <<shape, round, held, buf>>

BufNext == Begin \/ Perform \/ LaunchFails
BufSpec == BufInit /\ [][BufNext]_bvars

-----------------------------------------------------------------------------
\* Every launch finds in its buffers the values of its own operation - not what
\* an earlier launch, layer or token left there, nor what its own chain has
\* written over them since - and every buffer it names has been allocated
\* (cuda/mod.rs: "x_bufs and y_bufs are separate RefCells", one per dimension).
LaunchesReadTheirOwn ==
    op # "none" =>
        /\ Current.to \in held
        /\ \A r \in Current.reads :
               r[1] \in held /\ buf[r[1]] = <<r[2], IF r[1] = Hidden THEN 0 ELSE round>>

\* The fused attention kernel is launched on the query, the key and the value
\* of the layer ("Fully fused attention: QKV SGEMV + single fused kernel",
\* cuda/mod.rs:1574): refuted when n_head = n_head_kv, for then the query and
\* the value are of one length and share a buffer.
KernelSeesQKV ==
    op # "none" /\ Current.value = "context" =>
        \A r \in Current.reads : buf[r[1]] = <<r[2], round>>

=============================================================================
