---------------------------- MODULE GrammarMode -----------------------------
(* inference/grammar.rs: GrammarAcceptor follows a parsed GBNF grammar with  *)
(* one stack of frames and commits to the first alternative that takes a     *)
(* character.  Beside it runs the language of the grammar: the set of what   *)
(* may still follow.  A rule is a sequence of alternatives, an alternative a *)
(* sequence of elements.                                                     *)
EXTENDS Integers, Sequences, SequencesExt

CONSTANTS Grammars,       \* what parse_grammar returned: functions from rule names, "root" among them
          Chars,          \* characters that occur
          Utf8,           \* function: how many bytes a character has
          TokenTexts,     \* texts of the tokens: sequences of characters, <<>> that of the end token
          MaxChars        \* bound: length of the text

Literal(chars)  == [kind |-> "Literal", chars |-> chars]
CharClass(set)  == [kind |-> "CharClass", set |-> set]
RuleRef(name)   == [kind |-> "RuleRef", name |-> name]
Group(alts)     == [kind |-> "Group", alts |-> alts]
Optional(elem)  == [kind |-> "Optional", elem |-> elem]
Repeat(elem)    == [kind |-> "Repeat", elem |-> elem]
RepeatOne(elem) == [kind |-> "RepeatOne", elem |-> elem]

(* validate_references: every name that occurs has a rule.                   *)
RECURSIVE Refers(_)
Refers(elem) == CASE elem.kind = "RuleRef" -> {elem.name}
                  [] elem.kind = "Group" -> UNION {Refers(elem.alts[a][e]) : <<a, e>> \in
                                              {p \in (1..8) \X (1..8) : p[1] <= Len(elem.alts) /\ p[2] <= Len(elem.alts[p[1]])}}
                  [] elem.kind \in {"Optional", "Repeat", "RepeatOne"} -> Refers(elem.elem)
                  [] OTHER -> {}
Parsed(g) == /\ "root" \in DOMAIN g
             /\ \A n \in DOMAIN g : \A a \in DOMAIN g[n] : \A e \in DOMAIN g[n][a] : Refers(g[n][a][e]) \subseteq DOMAIN g

ASSUME GrammarAssumption == /\ \A g \in Grammars : Parsed(g)
                            /\ Utf8 \in [Chars -> 1..4] /\ TokenTexts \subseteq Seq(Chars) /\ MaxChars \in Nat

VARIABLES grammar, acceptor, expected, taken
grammarVars == <<grammar, acceptor, expected, taken>>

-----------------------------------------------------------------------------
Frame(rule, alt) == [rule |-> rule, alt |-> alt, elem |-> 1, offset |-> 0, reps |-> 0]
TopFrame(acc) == Last(acc.stack)
SetTop(acc, frame) == [acc EXCEPT !.stack = Append(Front(@), frame)]
Next1(acc) == SetTop(acc, [TopFrame(acc) EXCEPT !.elem = @ + 1, !.offset = 0])
Outcome(ok, acc) == [ok |-> ok, acc |-> acc]

(* try_advance_element: what is left of the acceptor when it fails is kept,  *)
(* as an optional element that was skipped stays skipped.                    *)
RECURSIVE TryElement(_, _, _, _), TryAlternatives(_, _, _, _, _)
TryElement(acc, elem, c, offset) ==
  CASE elem.kind = "Literal" ->
         IF offset >= Len(elem.chars) \/ elem.chars[offset + 1] # c THEN Outcome(FALSE, acc)
         ELSE Outcome(TRUE, IF offset + 1 >= Len(elem.chars) THEN Next1(acc)
                            ELSE SetTop(acc, [TopFrame(acc) EXCEPT !.offset = offset + 1]))
    [] elem.kind = "CharClass" -> IF c \in elem.set THEN Outcome(TRUE, Next1(acc)) ELSE Outcome(FALSE, acc)
    [] elem.kind = "RuleRef" -> TryAlternatives(acc, grammar[elem.name], elem.name, c, 1)
    [] elem.kind = "Group" -> TryAlternatives(acc, elem.alts, "", c, 1)
    [] elem.kind = "Optional" ->
         LET inner == TryElement(acc, elem.elem, c, 0)
             skipped == SetTop(inner.acc, [TopFrame(inner.acc) EXCEPT !.elem = TopFrame(acc).elem + 1, !.offset = 0])
             alts == grammar[TopFrame(skipped).rule]
             alt == alts[TopFrame(skipped).alt]
         IN  IF inner.ok THEN inner
             ELSE IF TopFrame(skipped).elem > Len(alt) THEN Outcome(FALSE, skipped)
             ELSE TryElement(skipped, alt[TopFrame(skipped).elem], c, 0)
    [] OTHER ->   \* Repeat and RepeatOne stay on the element
         LET inner == TryElement(acc, elem.elem, c, 0)
         IN  IF ~inner.ok THEN inner
             ELSE Outcome(TRUE, SetTop(inner.acc, [TopFrame(inner.acc) EXCEPT !.elem = TopFrame(acc).elem, !.reps = @ + 1]))

(* The first alternative whose first element takes the character; a rule's   *)
(* gets a frame of its own, a group's none.  A failed attempt leaves nothing.*)
TryAlternatives(acc, alts, name, c, a) ==
  IF a > Len(alts) THEN Outcome(FALSE, acc)
  ELSE LET start == IF name = "" THEN acc ELSE [acc EXCEPT !.stack = Append(@, Frame(name, a))]
           tried == IF alts[a] = <<>> THEN Outcome(FALSE, acc) ELSE TryElement(start, alts[a][1], c, 0)
       IN  IF tried.ok THEN tried ELSE TryAlternatives(acc, alts, name, c, a + 1)

(* try_advance: at the start of a rule any alternative, in order, each on    *)
(* what the one before left; else the frame's own.                           *)
RECURSIVE TryFromStart(_, _, _)
TryFromStart(acc, c, a) ==
  LET alts == grammar[TopFrame(acc).rule]
      tried == TryElement(acc, alts[a][1], c, 0)
  IN  IF a > Len(alts) THEN Outcome(FALSE, acc)
      ELSE IF alts[a] = <<>> THEN TryFromStart(acc, c, a + 1)
      ELSE IF tried.ok THEN Outcome(TRUE, [tried.acc EXCEPT !.stack[Len(acc.stack)].alt = a])
      ELSE TryFromStart(tried.acc, c, a + 1)

TryAdvance(acc, c) ==
  LET f == TopFrame(acc)
      alt == grammar[f.rule][f.alt]
  IN  IF acc.stack = <<>> THEN Outcome(FALSE, acc)
      ELSE IF f.elem = 1 /\ f.offset = 0 THEN TryFromStart(acc, c, 1)
      ELSE IF f.elem <= Len(alt) THEN TryElement(acc, alt[f.elem], c, f.offset)
      ELSE Outcome(FALSE, acc)

(* reduce: finished alternatives leave the stack, and their parents go on.   *)
RECURSIVE Reduce(_)
ReduceKeepsParent(acc) ==
  IF acc.stack = <<>> THEN [acc EXCEPT !.complete = TRUE]
  ELSE LET f == TopFrame(acc)
       IN  IF f.elem <= Len(grammar[f.rule][f.alt]) THEN acc ELSE Reduce([acc EXCEPT !.stack = Front(@)])
Reduce(acc) ==
  IF acc.stack = <<>> THEN [acc EXCEPT !.complete = TRUE]
  ELSE LET f == TopFrame(acc)
           popped == [acc EXCEPT !.stack = Front(@)]
       IN  IF f.elem <= Len(grammar[f.rule][f.alt]) THEN acc
           ELSE Reduce(IF popped.stack = <<>> THEN popped ELSE Next1(popped))

Accept(acc, c) == IF acc.complete THEN Outcome(FALSE, acc)
                  ELSE LET tried == TryAdvance(acc, c)
                       IN  IF tried.ok THEN Outcome(TRUE, Reduce(tried.acc)) ELSE tried

-----------------------------------------------------------------------------
RECURSIVE CanBeEmpty(_)
CanBeEmpty(elem) ==
  CASE elem.kind = "Literal" -> elem.chars = <<>>
    [] elem.kind = "CharClass" -> FALSE
    [] elem.kind = "RuleRef" -> \E a \in DOMAIN grammar[elem.name] :
                                  \A e \in DOMAIN grammar[elem.name][a] : CanBeEmpty(grammar[elem.name][a][e])
    [] elem.kind = "Group" -> \E a \in DOMAIN elem.alts : \A e \in DOMAIN elem.alts[a] : CanBeEmpty(elem.alts[a][e])
    [] elem.kind \in {"Optional", "Repeat"} -> TRUE
    [] OTHER -> CanBeEmpty(elem.elem)

(* can_finish: what is left of every frame may be empty, the element that a  *)
(* frame is in included.                                                     *)
CanFinish(acc) ==
  acc.complete \/ \A d \in DOMAIN acc.stack :
    LET f == acc.stack[d]
        alt == grammar[f.rule][f.alt]
    IN  \A e \in f.elem..Len(alt) :
          \/ CanBeEmpty(alt[e])
          \/ e = f.elem /\ alt[e].kind = "RepeatOne" /\ f.reps >= 1

(* accept_str: up to the first character that is not accepted, which leaves  *)
(* its traces.                                                               *)
AcceptStr(acc, token) ==
  FoldLeft(LAMBDA o, c : IF ~o.ok THEN o
                         ELSE LET next == Accept(o.acc, c)
                              IN  [ok |-> next.ok, acc |-> next.acc, count |-> IF next.ok THEN o.count + 1 ELSE o.count],
           [ok |-> TRUE, acc |-> acc, count |-> 0], token)

(* would_accept compares the characters that were accepted with the length   *)
(* of the token in bytes.                                                    *)
ByteLen(token) == FoldLeft(LAMBDA n, c : n + Utf8[c], 0, token)
WouldAccept(acc, token) == AcceptStr(acc, token).count = ByteLen(token)

AllowedByFirst(acc) ==
  {t \in TokenTexts : IF t = <<>> THEN CanFinish(acc) ELSE AcceptStr(acc, t).count > 0 /\ ByteLen(t) = Len(t)}

(* filter_tokens_by_grammar, and the mask that apply_grammar_mask makes of   *)
(* it: one that would leave nothing is not applied.                          *)
Allowed(acc) == {t \in TokenTexts : IF t = <<>> THEN CanFinish(acc) ELSE WouldAccept(acc, t)}
Sampled(acc) == IF Allowed(acc) = {} THEN TokenTexts ELSE Allowed(acc)

-----------------------------------------------------------------------------
(* The language: what may follow, up to the next character.                  *)
RECURSIVE Expand(_)
Expand(rest) ==
  IF rest = <<>> THEN {rest}
  ELSE LET elem == Head(rest)
           tail == Tail(rest)
       IN  CASE elem.kind = "Literal" -> IF elem.chars = <<>> THEN Expand(tail) ELSE {rest}
             [] elem.kind = "CharClass" -> {rest}
             [] elem.kind = "RuleRef" -> UNION {Expand(grammar[elem.name][a] \o tail) : a \in DOMAIN grammar[elem.name]}
             [] elem.kind = "Group" -> UNION {Expand(elem.alts[a] \o tail) : a \in DOMAIN elem.alts}
             [] elem.kind = "Optional" -> Expand(tail) \union Expand(<<elem.elem>> \o tail)
             [] elem.kind = "Repeat" -> Expand(tail) \union Expand(<<elem.elem>> \o rest)
             [] OTHER -> Expand(<<elem.elem, Repeat(elem.elem)>> \o tail)

After(rests, c) ==
  UNION {Expand(IF Head(r).kind = "Literal" THEN <<Literal(Tail(Head(r).chars))>> \o Tail(r) ELSE Tail(r)) :
         r \in {q \in rests : q # <<>> /\ IF Head(q).kind = "Literal" THEN Head(Head(q).chars) = c ELSE c \in Head(q).set}}

AfterToken(rests, token) == FoldLeft(After, rests, token)

-----------------------------------------------------------------------------
GrammarInit ==
  /\ grammar \in Grammars
  /\ acceptor = [stack |-> <<Frame("root", 1)>>, complete |-> FALSE]
  /\ expected = Expand(<<RuleRef("root")>>)
  /\ taken = 0

(* A token that the mask has left is sampled, and the acceptor moves on.     *)
Generate(token) == /\ taken + Len(token) <= MaxChars
                   /\ token \in Sampled(acceptor) \ {<<>>}
                   /\ acceptor' = AcceptStr(acceptor, token).acc
                   /\ expected' = AfterToken(expected, token)
                   /\ taken' = taken + Len(token)
                   /\ UNCHANGED grammar

GrammarNext == \E token \in TokenTexts : Generate(token)
GrammarSpec == GrammarInit /\ [][GrammarNext]_grammarVars

-----------------------------------------------------------------------------
(* As long as the text is one of the language, the acceptor takes exactly    *)
(* the characters that the language allows next, and can finish exactly at   *)
(* the end of a sentence.                                                    *)
AcceptsLanguage ==
  expected # {} =>
    /\ {c \in Chars : Accept(acceptor, c).ok} = {c \in Chars : After(expected, c) # {}}
    /\ CanFinish(acceptor) = (<<>> \in expected)

(* The tokens that continue the text, or end it.                             *)
Continues(token) == IF token = <<>> THEN <<>> \in expected ELSE AfterToken(expected, token) # {}
Ascii(token) == \A i \in DOMAIN token : Utf8[token[i]] = 1

(* The mask leaves exactly the tokens in ASCII that continue or end the text *)
(* as a whole, whenever there are any.  Tokens with other characters are     *)
(* lost: they have more bytes than characters.                               *)
MaskIsExact ==
  LET legal == {t \in TokenTexts : Ascii(t) /\ Continues(t)}
  IN  expected # {} /\ legal # {} => Sampled(acceptor) = legal

-----------------------------------------------------------------------------
(* README.md:224 says that the engine ensures "output always matches the     *)
(* defined grammar", and the head of grammar.rs that it masks "out invalid   *)
(* tokens".  TLC refutes that no other is masked, and that what is generated *)
(* is always the beginning of a sentence: where only a character of more     *)
(* than one byte may follow, the mask is empty and dropped.                  *)
LegalIsSampled == \A t \in TokenTexts : Continues(t) => t \in Sampled(acceptor)
OutputMatches == expected # {}

=============================================================================
