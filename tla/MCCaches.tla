------------------------------ MODULE MCCaches ------------------------------
(* Small instances of the layer cache, the pinner that chooses what it pins,  *)
(* and the prompt cache: each behaviour runs one of them.  Layers have two    *)
(* sizes and the budget holds two; prompts have every size up to one larger   *)
(* than their cache, and two of them the same hash.                           *)
EXTENDS LayerCache, LayerPinner, PromptCache

MCSizeOf == [l \in 0..2 |-> IF l = 0 THEN 2 ELSE 3]

MCPrompts == {<<1>>, <<2>>, <<1, 2>>, <<1, 2, 3>>, <<2, 3>>}
MCHash    == [t \in Queries |-> IF t = <<2>> THEN <<1>> ELSE t]
MCPromptBytes == [t \in MCPrompts |-> CASE t = <<1>> -> 1 [] t = <<2>> -> 2
                                        [] t = <<1, 2>> -> 2 [] t = <<2, 3>> -> 3
                                        [] OTHER -> 6]

VARIABLE part
MCInit == part \in {"layers", "pins", "prompts"} /\ Init /\ PinsInit /\ PromptInit
LayersPart  == part = "layers" /\ Next /\ UNCHANGED <<pinnerVars, promptVars, part>>
PinsPart    == part = "pins" /\ PinsNext /\ UNCHANGED <<vars, promptVars, part>>
PromptsPart == part = "prompts" /\ PromptNext /\ UNCHANGED <<vars, pinnerVars, part>>
MCSpec == /\ MCInit /\ [][LayersPart \/ PinsPart \/ PromptsPart]_<<vars, pinnerVars, promptVars, part>>
          /\ WF_pinnerVars(part = "pins" /\ \E l \in Layers : RecordAccess(l))
          /\ SF_pinnerVars(part = "pins" /\ \E R \in SUBSET Layers : ApplyToCache(R))

=============================================================================
