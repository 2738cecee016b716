---------------------------- MODULE LoraManager -----------------------------
(* inference/lora.rs: the adapters that are loaded, those of them that are   *)
(* active, and what they add to a weight.  A file holds tensors in pairs     *)
(* *.lora_a and *.lora_b with their ranks.  A delta is known by its file and *)
(* its scale; a weight is the sequence of the deltas that it took.           *)
EXTENDS Collections

CONSTANTS Names, Tensors, Scales,
          Files,        \* function: a file's tensors, [a, b |-> [Tensors -> rank, 0 when there is none]]; "absent" is no file
          MaxChanges    \* bound: operations

VARIABLES adapters,     \* sequence of [name, file, scale]
          active,       \* set of names
          generation, steps,
          result        \* of the last operation: "ok" or "error"

loraVars == <<adapters, active, generation, steps, result>>

(* LoraAdapter::load: the pairs whose ranks agree; none is an error.         *)
PairsOf(file) == {t \in Tensors : Files[file].a[t] > 0 /\ Files[file].b[t] = Files[file].a[t]}
Loads(file) == file \in DOMAIN Files /\ PairsOf(file) # {}

LoadedNames == {adapters[i].name : i \in DOMAIN adapters}
Without(name) == PartAt(adapters, {i \in DOMAIN adapters : adapters[i].name # name})

LoraInit == adapters = <<>> /\ active = {} /\ generation = 0 /\ steps = 0 /\ result = "ok"

Step == steps < MaxChanges /\ steps' = steps + 1
Counted == generation' = generation + 1
Fails == result' = "error" /\ UNCHANGED <<adapters, active, generation>>

(* add_named_adapter: the adapter that had the name leaves before the file   *)
(* is opened.                                                                *)
AddNamedAdapter(name, file, scale) ==
  /\ Step
  /\ IF Loads(file)
     THEN /\ adapters' = Append(Without(name), [name |-> name, file |-> file, scale |-> scale])
          /\ active' = active \union {name} /\ Counted /\ result' = "ok"
     ELSE /\ adapters' = Without(name) /\ active' = active \ {name}
          /\ result' = "error" /\ UNCHANGED generation

Activate(name) ==
  /\ Step
  /\ IF name \notin LoadedNames THEN Fails
     ELSE /\ active' = active \union {name} /\ result' = "ok" /\ UNCHANGED adapters
          /\ IF name \in active THEN UNCHANGED generation ELSE Counted

Deactivate(name) ==
  /\ Step
  /\ IF name \notin LoadedNames THEN Fails
     ELSE /\ active' = active \ {name} /\ result' = "ok" /\ UNCHANGED adapters
          /\ IF name \in active THEN Counted ELSE UNCHANGED generation

RemoveAdapterOnly(name) ==
  /\ Step
  /\ IF name \notin LoadedNames THEN Fails
     ELSE adapters' = Without(name) /\ Counted /\ result' = "ok" /\ UNCHANGED active

RemoveAdapter(name) ==
  /\ Step
  /\ active' = active \ {name}
  /\ IF name \notin LoadedNames THEN result' = "error" /\ UNCHANGED <<adapters, generation>>
     ELSE adapters' = Without(name) /\ Counted /\ result' = "ok"

SetScale(name, scale) ==
  /\ Step
  /\ IF name \notin LoadedNames THEN Fails
     ELSE /\ adapters' = [i \in DOMAIN adapters |-> IF adapters[i].name = name THEN [adapters[i] EXCEPT !.scale = scale]
                                                                               ELSE adapters[i]]
          /\ Counted /\ result' = "ok" /\ UNCHANGED active

LoraNext == \/ \E n \in Names, f \in DOMAIN Files \union {"absent"}, s \in Scales : AddNamedAdapter(n, f, s)
            \/ \E n \in Names : Activate(n) \/ Deactivate(n) \/ RemoveAdapter(n)
            \/ \E n \in Names, s \in Scales : SetScale(n, s)

LoraSpec == LoraInit /\ [][LoraNext]_loraVars

(* apply_to_weight: every active adapter that has the tensor adds its delta, *)
(* in the order of the list.                                                 *)
Deltas == [i \in DOMAIN adapters |-> <<adapters[i].file, adapters[i].scale>>]
ApplyToWeight(tensor) ==
  PartAt(Deltas, {i \in DOMAIN adapters : adapters[i].name \in active /\ tensor \in PairsOf(adapters[i].file)})
HasWeight(tensor) == \E i \in DOMAIN adapters : adapters[i].name \in active /\ tensor \in PairsOf(adapters[i].file)

-----------------------------------------------------------------------------
(* Every active name is loaded, once, with something to apply; so a name     *)
(* that is loaded again is not active by what it was before.                 *)
ActiveAreLoaded == /\ active \subseteq LoadedNames
                   /\ Cardinality(LoadedNames) = Len(adapters)
                   /\ \A i \in DOMAIN adapters : Loads(adapters[i].file)

(* A weight takes one delta of every active adapter that has its tensor.     *)
WeightsTakeActive == \A t \in Tensors : Len(ApplyToWeight(t)) =
                       Cardinality({n \in active : \E i \in DOMAIN adapters : adapters[i].name = n /\ t \in PairsOf(adapters[i].file)})

LoraInv == ActiveAreLoaded /\ WeightsTakeActive

-----------------------------------------------------------------------------
(* "Generation counter - incremented on any adapter change, invalidates      *)
(* cache": TLC refutes it, as loading a file that fails takes away the       *)
(* adapter of that name without counting.                                    *)
ChangesAreCounted == [][(\E t \in Tensors : ApplyToWeight(t)' # ApplyToWeight(t)) => generation' > generation]_loraVars

=============================================================================
