----------------------------- MODULE Tokenizer ------------------------------
(* inference/tokenizer.rs: SimpleTokenizer splits a text that is typed       *)
(* character by character, and puts its tokens together again, one by one as *)
(* the generators do.                                                        *)
(*                                                                           *)
(* A token of the vocabulary is a sequence of symbols; its place is its id.  *)
(* Symbols are characters, or bytes in the gpt2 models, where "_" is a space *)
(* of the text and of the token alike.  In the others "_" is the mark that   *)
(* stands for a space.  <<"byte", c>> is the token <0xNN>, and a vocabulary  *)
(* has it for all bytes of a character or for none.  bos and eos are the ids *)
(* that the file gives, or by default the second and third of the            *)
(* vocabulary, whatever these are.                                           *)
EXTENDS Integers, Sequences, SequencesExt, FiniteSetsExt

CONSTANTS Models,    \* records [type, vocab, merges, scores, addBos, bos, eos]
          Letters,     \* characters that occur, " " among them
          BytesOf,   \* function: the bytes of a character
          MaxText    \* bound: length of the text

ASSUME TokenizerAssumption ==
  /\ MaxText \in Nat /\ Letters \subseteq DOMAIN BytesOf
  /\ \A m \in Models : m.type \in {"gpt2", "merges", "scores", "greedy"} /\ {m.bos, m.eos} \subseteq Nat

VARIABLES model, typed
tokenizerVars == <<model, typed>>

Ids == DOMAIN model.vocab
Known(symbols) == \E i \in Ids : model.vocab[i] = symbols
IdOf(symbols) == CHOOSE i \in Ids : model.vocab[i] = symbols   \* token_to_id

-----------------------------------------------------------------------------
(* The merges of encode_gpt2_bpe and encode_bpe are ranked by a list, those  *)
(* of encode_sentencepiece by the score of what they give.  The first pair   *)
(* of the best rank is merged, until there is none.                          *)
Rank(left, right) ==
  IF model.type = "scores"
  THEN IF Known(left \o right) THEN {-model.scores[IdOf(left \o right)]} ELSE {}
  ELSE {r \in DOMAIN model.merges : model.merges[r] = <<left, right>>}

Ranks(symbols) == [i \in 1..(Len(symbols) - 1) |-> Rank(symbols[i], symbols[i + 1])]

JoinedOverNext(symbols, i) == SubSeq(symbols, 1, i - 1) \o <<symbols[i] \o symbols[i]>> \o SubSeq(symbols, i + 2, Len(symbols))
Joined(symbols, i) == SubSeq(symbols, 1, i - 1) \o <<symbols[i] \o symbols[i + 1]>> \o SubSeq(symbols, i + 2, Len(symbols))

Best(symbols) ==
  LET ranks == Ranks(symbols)
      mergeable == {i \in DOMAIN ranks : ranks[i] # {}}
  IN  {i \in mergeable : \A j \in mergeable : Min(ranks[i]) <= Min(ranks[j])}

RECURSIVE Merge(_)
MergeLast(symbols) == IF Best(symbols) = {} THEN symbols ELSE Merge(Joined(symbols, Max(Best(symbols))))
Merge(symbols)     == IF Best(symbols) = {} THEN symbols ELSE Merge(Joined(symbols, Min(Best(symbols))))

(* encode_bytes, of characters: the bytes that the vocabulary lacks are lost.*)
EncodeBytes(symbols) == FlattenSeq([i \in DOMAIN symbols |->
  IF Known(<<"byte", symbols[i]>>) THEN <<IdOf(<<"byte", symbols[i]>>)>> ELSE <<>>])

Marked(symbols) == [i \in DOMAIN symbols |-> IF symbols[i] = " " THEN "_" ELSE symbols[i]]
Singles(symbols) == [i \in DOMAIN symbols |-> <<symbols[i]>>]

IdsOf(symbols) ==
  CASE Known(symbols) -> <<IdOf(symbols)>>
    [] model.type = "gpt2" -> <<>>
    [] model.type = "merges" /\ Known(<<"_">> \o symbols) -> <<IdOf(<<"_">> \o symbols)>>
    [] OTHER -> EncodeBytes(symbols)

(* encode_greedy: the longest token that the rest begins with, either as it  *)
(* is or behind a mark; the first of these is preferred.                     *)
RECURSIVE Greedy(_)
Greedy(rest) ==
  LET fits == {n \in 1..Len(rest) : Known(SubSeq(rest, 1, n)) \/ Known(<<"_">> \o SubSeq(rest, 1, n))}
      n == Max(fits)
      head == SubSeq(rest, 1, n)
  IN  IF rest = <<>> THEN <<>>
      ELSE IF fits = {} THEN EncodeBytes(<<Head(rest)>>) \o Greedy(Tail(rest))
      ELSE <<IF Known(head) THEN IdOf(head) ELSE IdOf(<<"_">> \o head)>> \o Greedy(SubSeq(rest, n + 1, Len(rest)))

BytesOfText(t) == FlattenSeq([i \in DOMAIN t |-> BytesOf[t[i]]])

(* What the merges leave of the text.                                        *)
Symbols(t) == CASE model.type = "gpt2" -> Merge(Singles(Marked(BytesOfText(t))))
                [] model.type = "merges" -> Merge(Singles(t))
                [] model.type = "scores" -> Merge(Singles(<<"_">> \o Marked(t)))

Encode(t) ==
  (IF model.addBos THEN <<model.bos>> ELSE <<>>) \o
  (IF t = <<>> THEN <<>>
   ELSE IF model.type = "greedy" THEN Greedy(t)
   ELSE FlattenSeq([i \in DOMAIN Symbols(t) |-> IdsOf(Symbols(t)[i])]))

-----------------------------------------------------------------------------
(* decode and decode_token: of every token by itself, and nothing of one     *)
(* with the id of bos or eos.  The bytes of a gpt2 token that are no whole   *)
(* character become a replacement character; a byte token of the others is   *)
(* written as it is spelt.                                                   *)
RECURSIVE Characters(_)
Characters(bytes) ==
  LET whole == {c \in Letters : IsPrefix(Marked(BytesOf[c]), bytes)}
      c == CHOOSE x \in whole : TRUE
  IN  IF bytes = <<>> THEN <<>>
      ELSE IF whole = {} THEN <<"replacement">> \o Characters(Tail(bytes))
      ELSE <<c>> \o Characters(SubSeq(bytes, Len(BytesOf[c]) + 1, Len(bytes)))

DecodeToken(id) ==
  IF id \in {model.bos, model.eos} THEN <<>>
  ELSE IF model.type = "gpt2" THEN Characters(model.vocab[id])
  ELSE [i \in DOMAIN model.vocab[id] |-> IF model.vocab[id][i] = "_" THEN " " ELSE model.vocab[id][i]]

Decode(ids) == FlattenSeq([i \in DOMAIN ids |-> DecodeToken(ids[i])])

-----------------------------------------------------------------------------
TokenizerInit == model \in Models /\ typed = <<>>
TypeChar(c) == Len(typed) < MaxText /\ typed' = Append(typed, c) /\ UNCHANGED model
TokenizerNext == \E c \in Letters : TypeChar(c)
TokenizerSpec == TokenizerInit /\ [][TokenizerNext]_tokenizerVars

-----------------------------------------------------------------------------
(* The reference: the merges one after the other, in the order in which they *)
(* were learnt, each over the whole text from its beginning.  A list is      *)
(* learnt in order when a merge comes after all those that make its parts.   *)
RECURSIVE Pass(_, _)
Pass(symbols, pair) ==
  IF Len(symbols) < 2 THEN symbols
  ELSE IF SubSeq(symbols, 1, 2) = pair THEN <<pair[1] \o pair[2]>> \o Pass(SubSeq(symbols, 3, Len(symbols)), pair)
  ELSE <<Head(symbols)>> \o Pass(Tail(symbols), pair)
InPasses(symbols) == FoldLeft(Pass, symbols, model.merges)

Makers(part) == {q \in DOMAIN model.merges : model.merges[q][1] \o model.merges[q][2] = part}
LearntInOrder == \A m \in DOMAIN model.merges : \A k \in 1..2 :
  LET part == model.merges[m][k]
  IN  Len(part) > 1 => Makers(part) # {} /\ \A q \in Makers(part) : q < m

(* Merging one best pair at a time gives what learning in order means, and   *)
(* however the pairs are ranked the symbols stay those of the text.          *)
MergesAsLearnt ==
  LET text == CASE model.type = "gpt2" -> Marked(BytesOfText(typed))
                [] model.type = "merges" -> typed
                [] model.type = "scores" -> <<"_">> \o Marked(typed)
  IN  model.type # "greedy" =>
        /\ model.type # "scores" /\ LearntInOrder => Symbols(typed) = InPasses(Singles(text))
        /\ FlattenSeq(Symbols(typed)) = text

(* What comes back is the text, for the vocabularies that know every symbol: *)
(* behind a space with scores, with gpt2 when no character has its bytes in  *)
(* two tokens, and when no symbol of the text has the id of bos or eos.      *)
KnowsAll(t) == \A i \in DOMAIN Symbols(t) : Known(Symbols(t)[i])
Split(t) == \E i \in DOMAIN Symbols(t) : Contains(Characters(Symbols(t)[i]), "replacement")
Dropped(t) == \E i \in DOMAIN Symbols(t) : IdOf(Symbols(t)[i]) \in {model.bos, model.eos}
RoundTrips ==
  (typed # <<>> /\ model.type # "greedy" /\ KnowsAll(typed) /\ ~Dropped(typed) /\ (model.type = "gpt2" => ~Split(typed))) =>
    Decode(Encode(typed)) = IF model.type = "scores" THEN <<" ">> \o typed ELSE typed

TokenizerInv == MergesAsLearnt /\ RoundTrips

-----------------------------------------------------------------------------
(* "Decode token IDs back to text" is not so in general, as TLC shows: a     *)
(* character in two gpt2 tokens becomes two replacement characters, a byte   *)
(* token is written as <0xNN>, and the fallback to marked tokens puts spaces *)
(* into words.  Nor is it where every symbol is known: without the keys for  *)
(* bos and eos, ordinary tokens have their ids, and are left out.            *)
DecodesBack == Decode(Encode(typed)) = typed
KeepsKnown == typed # <<>> /\ model.type = "merges" /\ KnowsAll(typed) => Decode(Encode(typed)) = typed

=============================================================================
