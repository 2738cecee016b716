------------------------------ MODULE MCFront -------------------------------
(* Small instances of what stands between texts and logits: each behaviour   *)
(* runs one of them, and the others keep one of their initial states.        *)
EXTENDS JsonMode, GrammarMode, Agent, Sampler, Tokenizer, LoraManager, TLC

L(c) == Literal(<<c>>)
MCGrammars ==
  {"root" :> << <<L("a"), RuleRef("item"), L("b")>>, <<Literal(<<"b", "c">>)>> >> @@
   "item" :> << <<L("b"), RuleRef("item")>>, <<Literal(<<"a", "c">>), RuleRef("list")>>, <<CharClass({"c"})>> >> @@
   "list" :> << <<CharClass({"a", "b"}), RuleRef("item")>> >>,
   "root" :> << <<L("a"), Optional(L("b")), RepeatOne(CharClass({"a", "c"}))>> >>,
   "root" :> << <<L("a"), L("wide"), CharClass({"b", "c"})>>, <<CharClass({"b", "wide"}), Optional(L("c"))>> >>}
\* Two alternatives that begin alike, a repetition before what it may eat, and
\* a rule at the end that may end or go on.
ForkedGrammars == {"root" :> << <<L("a"), L("b")>>, <<L("a"), L("c")>> >>,
                   "root" :> << <<Repeat(L("a")), L("a"), L("b")>> >>,
                   "root" :> << <<L("a"), RuleRef("tail")>> >> @@ "tail" :> << <<L("b"), Optional(L("c"))>> >>}

MCUtf8 == [c \in Chars |-> IF c = "wide" THEN 2 ELSE 1]
MCTokenTexts == {<<>>, <<"a">>, <<"b">>, <<"c">>, <<"wide">>, <<"a", "b">>, <<"a", "wide">>, <<"c", "a", "c">>}

MCSpelling == "grep" :> <<"gr", "ep">> @@ "read" :> <<"re">>
MCTrigger == <<"a", "b">>

Plain == [temperature |-> 1, topK |-> 2, minP |-> 0, tfsZ |-> 0, topP |-> 3,
          repetition |-> 1, frequency |-> 0, presence |-> 0, mirostat |-> "Disabled"]
MCLevels == {-1, 2}
MCSettings == {Plain, [Plain EXCEPT !.temperature = 0, !.repetition = 2, !.presence = 1],
               [Plain EXCEPT !.topP = 4, !.topK = 3, !.minP = 1], [Plain EXCEPT !.tfsZ = 2, !.topK = 3, !.frequency = 1],
               [Plain EXCEPT !.mirostat = "V1"], [Plain EXCEPT !.mirostat = "V2"]}

A == <<"a">>
B == <<"b">>
U == <<"_">>
BA == <<"b", "a">>
MCBytesOf == "a" :> A @@ "b" :> B @@ " " :> <<" ">> @@ "e" :> <<"e1", "e2">>
\* The second and the fourth have no keys for bos and eos.
MCModels ==
  {[type |-> "gpt2", addBos |-> FALSE, scores |-> <<>>, bos |-> 11, eos |-> 11,
    vocab |-> <<A, B, U, <<"e1">>, <<"e2">>, <<"a", "b">>, <<"_", "a">>, <<"e1", "e2">>, <<"_", "a", "b">>, <<"a", "e1">>, <<"end">> >>,
    merges |-> << <<A, B>>, <<U, A>>, <<U, <<"a", "b">> >>, <<A, <<"e1">> >>, << <<"e1">>, <<"e2">> >> >>],
   [type |-> "merges", addBos |-> TRUE, scores |-> <<>>, bos |-> 2, eos |-> 3,
    vocab |-> <<A, <<" ">>, <<"_", "b">>, <<"a", "b">>, <<"byte", "e">>, BA, <<"a", "a">>, BA \o BA>>,
    merges |-> << <<B, A>>, <<A, B>>, <<A, A>>, <<BA, BA>> >>],
   [type |-> "scores", addBos |-> TRUE, merges |-> <<>>, scores |-> <<0, 0, 0, 1, 1, 1, 5, 4, 6>>, bos |-> 2, eos |-> 3,
    vocab |-> << <<"unk">>, <<"start">>, <<"end">>, A, B, U, <<"_", "a">>, <<"a", "b">>, <<"_", "a", "b">> >>],
   [type |-> "greedy", addBos |-> FALSE, merges |-> <<>>, scores |-> <<>>, bos |-> 2, eos |-> 3,
    vocab |-> <<A, <<"_", "b">>, <<"a", "b">>, U>>]}

Ranks8(t) == IF t = "q" THEN 8 ELSE 4
MCFiles == "f" :> [a |-> [t \in Tensors |-> 8], b |-> [t \in Tensors |-> Ranks8(t)]] @@
           "g" :> [a |-> [t \in Tensors |-> 4], b |-> [t \in Tensors |-> 4]] @@
           "h" :> [a |-> [t \in Tensors |-> 4], b |-> [t \in Tensors |-> 0]]

VARIABLE part
frontVars == <<jsonVars, grammarVars, agentVars, samplerVars, tokenizerVars, loraVars, part>>
One(S) == CHOOSE x \in S : TRUE

MCInit ==
  /\ part \in {"json", "grammar", "agent", "sampler", "tokenizer", "lora"}
  /\ JsonInit /\ GrammarInit /\ AgentInit /\ SamplerInit /\ TokenizerInit /\ LoraInit
  /\ part # "grammar" => grammar = One(Grammars)
  /\ part # "agent" => addBos = One(AddsBos)
  /\ part # "sampler" => setting = One(Settings)
  /\ part # "tokenizer" => model = One(Models)

Others(vars) == UNCHANGED vars /\ UNCHANGED part
JsonPart      == part = "json" /\ JsonNext /\ Others(<<grammarVars, agentVars, samplerVars, tokenizerVars, loraVars>>)
GrammarPart   == part = "grammar" /\ GrammarNext /\ Others(<<jsonVars, agentVars, samplerVars, tokenizerVars, loraVars>>)
AgentPart     == part = "agent" /\ AgentNext /\ Others(<<jsonVars, grammarVars, samplerVars, tokenizerVars, loraVars>>)
SamplerPart   == part = "sampler" /\ SamplerNext /\ Others(<<jsonVars, grammarVars, agentVars, tokenizerVars, loraVars>>)
TokenizerPart == part = "tokenizer" /\ TokenizerNext /\ Others(<<jsonVars, grammarVars, agentVars, samplerVars, loraVars>>)
LoraPart      == part = "lora" /\ LoraNext /\ Others(<<jsonVars, grammarVars, agentVars, samplerVars, tokenizerVars>>)

MCSpec == MCInit /\ [][JsonPart \/ GrammarPart \/ AgentPart \/ SamplerPart \/ TokenizerPart \/ LoraPart]_frontVars

\* Output is held to JSON and to a grammar.
ConstraintInv == /\ part = "json" => JsonInv
                 /\ part = "grammar" => AcceptsLanguage /\ MaskIsExact

=============================================================================
