------------------------------- MODULE Agent --------------------------------
(* inference/agent.rs: the turns of the tool-calling loop, with the          *)
(* SentinelDetector and the PrefixConstraint of inference/sampler.rs and the *)
(* tokenizer's marker at the start of whatever it encodes.                   *)
(*                                                                           *)
(* Texts are sequences of tokens.  In a tool's arguments "{" and "}" are the *)
(* braces and "q" a quote.                                                   *)
EXTENDS Integers, Sequences, SequencesExt, FiniteSets

CONSTANTS Spelling,      \* function: the tokens of a tool's name, for every registered tool
          Trigger,       \* tokens of the sentinel
          AddsBos,       \* subset of BOOLEAN: tokenizer.ggml.add_bos_token
          Words,         \* tokens that the model may sample in free text
          ArgPieces,     \* tokens that it may sample in a tool's arguments
          Results,       \* what a tool may answer
          MaxTurns,      \* AgentConfig.max_turns
          PhaseTokens,   \* AgentConfig.max_tokens_per_phase
          AnswerTokens   \* InferenceConfig.max_tokens

(* No tool of the registry has an empty name.                                *)
ASSUME AgentAssumption ==
  /\ AddsBos \subseteq BOOLEAN /\ {MaxTurns, PhaseTokens, AnswerTokens} \subseteq Nat
  /\ \A t \in DOMAIN Spelling : Spelling[t] \in Seq(Range(Spelling[t])) \ {<<>>}

VARIABLES
  addBos,          \* of this model
  stage,           \* "free", "name", "args", "execute", "answer", "done" or "refused"
  turn,
  current_prompt,  \* records of kind "text", "call" and "result"
  free,            \* text of this turn's free generation
  emitted,         \* tokens of the generator of this stage
  tool,            \* the name of this turn
  accumulated,     \* accumulated_text
  invocations

agentVars == <<addBos, stage, turn, current_prompt, free, emitted, tool, accumulated, invocations>>

Tools == DOMAIN Spelling
Encoded(tokens) == IF addBos THEN <<"bos">> \o tokens ELSE tokens
Said(tokens) == [kind |-> "text", text |-> tokens]
Call(t, args) == [kind |-> "call", tool |-> t, args |-> args]
Answered(result) == [kind |-> "result", result |-> result]

(* SentinelDetector: its window holds the last tokens, as many as the        *)
(* sentinel has.                                                             *)
Fires(tokens) == Encoded(Trigger) # <<>> /\ IsSuffix(Encoded(Trigger), tokens)

(* PrefixConstraint over the encoded names.                                  *)
ValidNextTokens(tokens) ==
  {Encoded(Spelling[t])[Len(tokens) + 1] :
     t \in {u \in Tools : IsStrictPrefix(tokens, Encoded(Spelling[u]))}}
IsComplete(tokens) == \E t \in Tools : Encoded(Spelling[t]) = tokens

-----------------------------------------------------------------------------
(* generate_json_value counts braces wherever they stand.  What the text     *)
(* says is read by serde_json (external), as any value: here an object with  *)
(* texts in quotes, or a text alone.  An array is left out: one that comes   *)
(* to be read has all its braces in texts, as a text has.                    *)
Depth(tokens) == Cardinality({i \in DOMAIN tokens : tokens[i] = "{"}) - Cardinality({i \in DOMAIN tokens : tokens[i] = "}"})
BracesClosed(tokens) == Contains(tokens, "{") /\ Depth(tokens) <= 0

Unquoted(tokens) ==
  FoldLeft(LAMBDA s, c : IF c = "q" THEN [s EXCEPT !.in = ~@] ELSE IF s.in THEN s ELSE [s EXCEPT !.out = Append(@, c)],
           [in |-> FALSE, out |-> <<>>], tokens)
IsObject(tokens) ==
  LET u == Unquoted(tokens)
  IN  /\ tokens # <<>> /\ Head(tokens) = "{" /\ ~u.in /\ Depth(u.out) = 0
      /\ \A n \in 1..(Len(u.out) - 1) : Depth(SubSeq(u.out, 1, n)) > 0
      /\ \A i \in DOMAIN u.out : u.out[i] \in {"{", "}"}
IsText(tokens) == Len(tokens) > 1 /\ {i \in DOMAIN tokens : tokens[i] = "q"} = {1, Len(tokens)}
Parses(tokens) == IsObject(tokens) \/ IsText(tokens)
Args(tokens) == IF Contains(tokens, "{") /\ Parses(tokens) THEN tokens ELSE <<"{", "}">>

-----------------------------------------------------------------------------
AgentInit ==
  /\ addBos \in AddsBos
  /\ stage = IF Encoded(Trigger) = <<>> \/ Tools = {} THEN "refused" ELSE IF MaxTurns = 0 THEN "answer" ELSE "free"
  /\ turn = 0 /\ tool = "" /\ invocations = <<>>
  /\ current_prompt = <<>> /\ free = <<>> /\ emitted = <<>> /\ accumulated = <<>>

Budget == IF stage = "answer" THEN AnswerTokens ELSE PhaseTokens

(* A turn is over: the next one, or the answer after all of them.            *)
EndTurn == /\ turn' = turn + 1
           /\ stage' = IF turn + 1 = MaxTurns THEN "answer" ELSE "free"
           /\ emitted' = <<>> /\ free' = <<>> /\ tool' = ""

(* free_generate_until_sentinel takes a token.  The sentinel ends the text;  *)
(* in the answer it does so without a call.                                  *)
FreeToken(word) ==
  /\ stage \in {"free", "answer"} /\ Len(emitted) < Budget
  /\ LET text == Append(emitted, word)
     IN  IF ~Fires(text)
         THEN emitted' = text /\ UNCHANGED <<stage, free, accumulated>>
         ELSE /\ accumulated' = accumulated \o text
              /\ stage' = IF stage = "free" THEN "name" ELSE "done"
              /\ free' = IF stage = "free" THEN text ELSE free
              /\ emitted' = <<>>
  /\ UNCHANGED <<addBos, turn, current_prompt, tool, invocations>>

(* An end token, the budget or a full cache: no call, and the answer is      *)
(* generated from the prompt of this turn.                                   *)
FreeEnds ==
  /\ stage \in {"free", "answer"}
  /\ accumulated' = accumulated \o emitted /\ emitted' = <<>>
  /\ stage' = IF stage = "free" THEN "answer" ELSE "done"
  /\ UNCHANGED <<addBos, turn, current_prompt, free, tool, invocations>>

(* constrained_tool_name: only tokens that continue some tool's name.  The   *)
(* first name that is complete is taken.                                     *)
NameToken(token) ==
  /\ stage = "name" /\ Len(emitted) < PhaseTokens /\ token \in ValidNextTokens(emitted)
  /\ LET name == Append(emitted, token)
     IN  IF IsComplete(name)
         THEN /\ tool' = CHOOSE t \in Tools : Encoded(Spelling[t]) = name
              /\ stage' = "args" /\ emitted' = <<>>
         ELSE emitted' = name /\ UNCHANGED <<stage, tool>>
  /\ UNCHANGED <<addBos, turn, current_prompt, free, accumulated, invocations>>

NameFailsForgetting ==
  /\ stage = "name"
  /\ EndTurn
  /\ UNCHANGED <<addBos, current_prompt, accumulated, invocations>>

(* The budget or the cache ended before a name was complete: what was said   *)
(* is plain text.                                                            *)
NameFails ==
  /\ stage = "name"
  /\ current_prompt' = Append(current_prompt, Said(free))
  /\ EndTurn
  /\ UNCHANGED <<addBos, accumulated, invocations>>

(* generate_json_value: until the braces are closed, or nothing comes.       *)
ArgsToken(piece) ==
  /\ stage = "args" /\ Len(emitted) < PhaseTokens
  /\ emitted' = Append(emitted, piece)
  /\ stage' = IF BracesClosed(emitted') THEN "execute" ELSE "args"
  /\ UNCHANGED <<addBos, turn, current_prompt, free, tool, accumulated, invocations>>

ArgsEnd == /\ stage = "args"
           /\ stage' = "execute"
           /\ UNCHANGED <<addBos, turn, current_prompt, free, emitted, tool, accumulated, invocations>>

(* The registry runs the tool; an error is a result.  The call and what it   *)
(* gave go into the next prompt.                                             *)
Execute(result) ==
  /\ stage = "execute"
  /\ LET args == Args(emitted)
     IN  /\ invocations' = Append(invocations, [tool |-> tool, args |-> args, result |-> result])
         /\ current_prompt' = current_prompt \o <<Said(free), Call(tool, args), Answered(result)>>
  /\ EndTurn
  /\ UNCHANGED <<addBos, accumulated>>

AgentNext == \/ \E w \in Words : FreeToken(w)
             \/ FreeEnds
             \/ \E t \in UNION {Range(Encoded(Spelling[u])) : u \in Tools} : NameToken(t)
             \/ NameFails
             \/ \E p \in ArgPieces : ArgsToken(p)
             \/ ArgsEnd
             \/ \E r \in Results \union {"error"} : Execute(r)

AgentSpec == AgentInit /\ [][AgentNext]_agentVars

-----------------------------------------------------------------------------
(* In the slot of the name the constraint always leaves a token, until a     *)
(* registered name is complete.                                              *)
SlotStaysOpen == /\ stage = "name" => ValidNextTokens(emitted) # {}
                 /\ stage \in {"args", "execute"} => tool \in Tools

(* What the model reads next is everything it said before its calls, and     *)
(* every call with its result, in order: the prompt tells the invocations,   *)
(* and its texts are what was accumulated.                                   *)
TextIn(e) == IF e.kind = "text" THEN e.text ELSE <<>>
ToldIn(e) == IF e.kind = "text" THEN <<>> ELSE <<e>>
Texts == FlattenSeq([i \in DOMAIN current_prompt |-> TextIn(current_prompt[i])])
Told == FlattenSeq([i \in DOMAIN current_prompt |-> ToldIn(current_prompt[i])])
PromptTellsCalls ==
  /\ Told = FlattenSeq([i \in DOMAIN invocations |->
               <<Call(invocations[i].tool, invocations[i].args), Answered(invocations[i].result)>>])
  /\ IsPrefix(Texts, accumulated)
  /\ stage \in {"name", "args", "execute"} => accumulated = Texts \o free
  /\ stage = "free" => accumulated = Texts

(* Calls are made within the turns, with names that are registered and       *)
(* arguments that are one whole value, the empty object in place of anything *)
(* that is none.                                                             *)
CallsAreSound == /\ Len(invocations) <= turn /\ turn <= MaxTurns
                 /\ \A i \in DOMAIN invocations : invocations[i].tool \in Tools /\ Parses(invocations[i].args)

AgentInv == SlotStaysOpen /\ PromptTellsCalls /\ CallsAreSound

-----------------------------------------------------------------------------
(* What the documentation says and TLC refutes.  "Free generation until      *)
(* <<tool_call>> sentinel fires": with a marker at the start of what is      *)
(* encoded it never does.  "Generate free tokens until the outermost object  *)
(* is complete": a brace in a text ends it.  "Each tool takes a              *)
(* serde_json::Value args object" (tools.rs:3): a text that has a brace in   *)
(* it is passed on as it is.  "Accumulated model text (tool calls not        *)
(* included)": the sentinel is.  "Final free generation produces the         *)
(* answer": a turn without a call has produced one already.                  *)
SentinelFires == stage = "free" => ~IsSuffix(Trigger, emitted)
ArgsAreWhole == stage = "execute" /\ BracesClosed(emitted) => IsObject(emitted) \/ Head(emitted) # "{"
ArgsAreObjects == \A i \in DOMAIN invocations : IsObject(invocations[i].args)
TextWithoutCalls == \A i \in DOMAIN accumulated : ~IsSuffix(Trigger, SubSeq(accumulated, 1, i))
AnswersOnce == stage = "answer" => accumulated = Texts

=============================================================================
