------------------------------ MODULE JsonMode ------------------------------
(* inference/json_mode.rs: three recognisers are fed one text, character by  *)
(* character: JsonValidator, a machine with a stack; the recursive descent   *)
(* by which is_valid_json_prefix lets a token through; and the grammar of    *)
(* RFC 8259 itself, which the code gets from serde_json (external).          *)
(*                                                                           *)
(* A character stands for its class: "q" is the quote, "esc" the backslash,  *)
(* "0" a digit, "s" a space, "x" what only a string may hold, "c" a control  *)
(* character.  "t" followed by "r" is every keyword, and the digits of a     *)
(* Unicode escape are one.                                                   *)
EXTENDS Integers, Sequences, SequencesExt

CONSTANTS Alphabet,   \* classes of characters that occur
          MaxLength   \* bound: length of the text

VARIABLES
  text,       \* what was generated
  validator,  \* JsonValidator: state, stack
  rfc         \* the grammar: state, stack

jsonVars == <<text, validator, rfc>>

Machine(state, stack) == [state |-> state, stack |-> stack]
Dead == Machine("Dead", <<>>)
Top(m) == IF m.stack = <<>> THEN "none" ELSE Last(m.stack)

JsonInit == text = <<>> /\ validator = Machine("ExpectValue", <<>>) /\ rfc = Machine("ExpectValue", <<>>)

-----------------------------------------------------------------------------
(* JsonValidator                                                             *)
To(m, state) == [m EXCEPT !.state = state]
Push(m, container, state) == Machine(state, Append(m.stack, container))

(* A closing bracket pops its container; the outermost one ends the text.    *)
CloseWith(m, container) ==
  IF Top(m) # container THEN Dead
  ELSE Machine(IF Len(m.stack) = 1 THEN "Done" ELSE "AfterValue", Front(m.stack))

ExpectValue(m, ch) == CASE ch = "s" -> m
                        [] ch = "q" -> To(m, "InString")
                        [] ch = "{" -> Push(m, "Object", "ExpectKeyOrClose")
                        [] ch = "[" -> Push(m, "Array", "ExpectValueOrClose")
                        [] ch \in {"-", "0"} -> To(m, "InNumber")
                        [] ch = "t" -> To(m, "InKeyword")
                        [] OTHER -> Dead

AfterValueLax(m, ch) == CASE ch = "," -> To(m, "ExpectValueOrClose")
                          [] ch = "}" -> CloseWith(m, "Object")
                          [] ch = "]" -> CloseWith(m, "Array")
                          [] OTHER -> IF ch = "s" THEN m ELSE Dead

(* after_value: a comma in an object expects a key or its end; a colon is    *)
(* expected nowhere.                                                         *)
AfterValue(m, ch) == CASE ch = "s" -> m
                       [] ch = "," /\ Top(m) = "Object" -> To(m, "ExpectKeyOrClose")
                       [] ch = "," /\ Top(m) = "Array" -> To(m, "ExpectValue")
                       [] ch = "}" -> CloseWith(m, "Object")
                       [] ch = "]" -> CloseWith(m, "Array")
                       [] OTHER -> Dead

Validate(m, ch) ==
  CASE m.state = "ExpectValue" -> ExpectValue(m, ch)
    [] m.state = "InString" -> IF ch = "esc" THEN To(m, "InStringEscape")
                               ELSE IF ch = "q" THEN To(m, "AfterValue")
                               ELSE IF ch = "c" THEN Dead ELSE m
    [] m.state = "InStringEscape" -> IF ch \in {"q", "esc", "t", "r", "u"} THEN To(m, "InString") ELSE Dead
    [] m.state = "InNumber" -> IF ch \in {"0", ".", "e", "-"} THEN m ELSE AfterValue(To(m, "AfterValue"), ch)
    [] m.state = "AfterValue" -> AfterValue(m, ch)
    [] m.state = "ExpectKeyOrClose" -> IF ch = "s" THEN m ELSE IF ch = "q" THEN To(m, "InString")
                                       ELSE IF ch = "}" THEN CloseWith(m, "Object") ELSE Dead
    [] m.state = "ExpectValueOrClose" -> IF ch = "s" THEN m ELSE IF ch = "]" THEN CloseWith(m, "Array")
                                         ELSE ExpectValue(m, ch)
    [] m.state = "InKeyword" -> IF ch = "r" THEN To(m, "AfterValue") ELSE Dead
    [] OTHER -> Dead

ValidatorComplete(m) == m.state = "Done" \/ (m.state = "AfterValue" /\ m.stack = <<>>)

-----------------------------------------------------------------------------
(* The grammar: the same machine with keys and colons, numbers by their      *)
(* parts, hexadecimal digits, and nothing but spaces after the end.          *)
NumberEnds == {"Zero", "Fraction", "Exponent"}
InNumberOf(m, ch) ==
  CASE m.state = "Minus" -> IF ch = "0" THEN To(m, "Zero") ELSE Dead
    [] m.state = "Zero" /\ ch = "." -> To(m, "Point")
    [] m.state \in {"Point", "Fraction"} /\ ch = "0" -> To(m, "Fraction")
    [] m.state \in {"Zero", "Fraction"} /\ ch = "e" -> To(m, "E")
    [] m.state = "E" /\ ch = "-" -> To(m, "ESign")
    [] m.state \in {"E", "ESign", "Exponent"} /\ ch = "0" -> To(m, "Exponent")
    [] m.state \in NumberEnds -> To(m, "Ended")
    [] OTHER -> Dead

StartValue(m, ch) == LET v == ExpectValue(m, ch) IN
  IF v.state # "InNumber" THEN v ELSE To(m, IF ch = "-" THEN "Minus" ELSE "Zero")

AfterRfc(m, ch) == CASE ch = "s" -> To(m, "AfterValue")
                     [] ch = "," /\ Top(m) = "Object" -> To(m, "ExpectKey")
                     [] ch = "," /\ Top(m) = "Array" -> To(m, "ExpectValue")
                     [] ch = "}" -> CloseWith(m, "Object")
                     [] ch = "]" -> CloseWith(m, "Array")
                     [] OTHER -> Dead

InText(m, ch, escape, after) == IF ch = "esc" THEN To(m, escape) ELSE IF ch = "q" THEN To(m, after)
                                ELSE IF ch = "c" THEN Dead ELSE m
Escaped(m, ch, hex, back) == IF ch = "u" THEN To(m, hex)
                             ELSE IF ch \in {"q", "esc", "t", "r"} THEN To(m, back) ELSE Dead

Rfc(m, ch) ==
  CASE m.state = "ExpectValue" -> StartValue(m, ch)
    [] m.state = "ExpectValueOrClose" -> IF ch = "]" THEN CloseWith(m, "Array") ELSE IF ch = "s" THEN m ELSE StartValue(m, ch)
    [] m.state = "ExpectKeyOrClose" -> IF ch = "}" THEN CloseWith(m, "Object")
                                       ELSE IF ch = "s" THEN m ELSE IF ch = "q" THEN To(m, "InKey") ELSE Dead
    [] m.state = "ExpectKey" -> IF ch = "s" THEN m ELSE IF ch = "q" THEN To(m, "InKey") ELSE Dead
    [] m.state = "InKey" -> InText(m, ch, "KeyEscape", "ExpectColon")
    [] m.state = "InString" -> InText(m, ch, "InStringEscape", "AfterValue")
    [] m.state = "KeyEscape" -> Escaped(m, ch, "KeyHex", "InKey")
    [] m.state = "InStringEscape" -> Escaped(m, ch, "StringHex", "InString")
    [] m.state = "KeyHex" -> IF ch \in {"0", "e"} THEN To(m, "InKey") ELSE Dead
    [] m.state = "StringHex" -> IF ch \in {"0", "e"} THEN To(m, "InString") ELSE Dead
    [] m.state = "ExpectColon" -> IF ch = "s" THEN m ELSE IF ch = ":" THEN To(m, "ExpectValue") ELSE Dead
    [] m.state = "InKeyword" -> IF ch = "r" THEN To(m, "AfterValue") ELSE Dead
    [] m.state \in NumberEnds \union {"Minus", "Point", "E", "ESign"} ->
         LET n == InNumberOf(m, ch) IN IF n.state = "Ended" THEN AfterRfc(m, ch) ELSE n
    [] m.state \in {"AfterValue", "Done"} -> IF m.state = "Done" /\ ch = "s" THEN m ELSE AfterRfc(m, ch)
    [] OTHER -> Dead

RfcComplete(m) == m.state = "Done" \/ (m.stack = <<>> /\ m.state \in NumberEnds \union {"AfterValue"})
Run(m, chars) == FoldLeft(Rfc, m, chars)

-----------------------------------------------------------------------------
(* is_valid_json_prefix_statemachine.  A parser returns whether it is        *)
(* content and the index behind what it took; behind the text all are.       *)
Result(ok, i) == [ok |-> ok, i |-> i]
At(t, i) == IF i <= Len(t) THEN t[i] ELSE "end"

RECURSIVE SkipWs(_, _), SkipDigits(_, _), ParseString(_, _), ParseValue(_, _), ParsePairs(_, _), ParseItems(_, _)
SkipWs(t, i) == IF At(t, i) = "s" THEN SkipWs(t, i + 1) ELSE i
SkipDigits(t, i) == IF At(t, i) = "0" THEN SkipDigits(t, i + 1) ELSE i

(* i is behind the opening quote.                                            *)
ParseString(t, i) ==
  CASE At(t, i) = "end" -> Result(TRUE, i)
    [] At(t, i) = "q" -> Result(TRUE, i + 1)
    [] At(t, i) = "c" -> Result(FALSE, i)
    [] At(t, i) = "esc" ->
         CASE At(t, i + 1) = "end" -> Result(TRUE, i + 1)
           [] At(t, i + 1) \in {"q", "esc", "t", "r"} -> ParseString(t, i + 2)
           [] At(t, i + 1) = "u" -> IF At(t, i + 2) = "end" THEN Result(TRUE, i + 2)
                                    ELSE IF t[i + 2] \in {"0", "e"} THEN ParseString(t, i + 3) ELSE Result(FALSE, i)
           [] OTHER -> Result(FALSE, i)
    [] OTHER -> ParseString(t, i + 1)

ParseNumberWhole(t, i) ==
  LET a == IF At(t, i) = "-" THEN i + 1 ELSE i
  IN  IF At(t, a) = "end" THEN Result(TRUE, a) ELSE Result(t[a] = "0", SkipDigits(t, a))

(* parse_number: any digits, any digits after a point or an exponent.        *)
ParseNumber(t, i) ==
  LET a == IF At(t, i) = "-" THEN i + 1 ELSE i
      b == SkipDigits(t, a)
      p == IF At(t, b) = "." THEN SkipDigits(t, b + 1) ELSE b
      s == IF At(t, p + 1) = "-" THEN p + 2 ELSE p + 1
  IN  IF At(t, a) = "end" THEN Result(TRUE, a)
      ELSE IF t[a] # "0" THEN Result(FALSE, a)
      ELSE Result(TRUE, IF At(t, p) = "e" THEN SkipDigits(t, s) ELSE p)

ParseValue(t, start) == LET i == SkipWs(t, start) IN
  CASE At(t, i) = "end" -> Result(TRUE, i)
    [] At(t, i) = "q" -> ParseString(t, i + 1)
    [] At(t, i) = "{" -> IF At(t, SkipWs(t, i + 1)) = "}" THEN Result(TRUE, SkipWs(t, i + 1) + 1) ELSE ParsePairs(t, i + 1)
    [] At(t, i) = "[" -> IF At(t, SkipWs(t, i + 1)) = "]" THEN Result(TRUE, SkipWs(t, i + 1) + 1) ELSE ParseItems(t, i + 1)
    [] At(t, i) = "t" -> IF At(t, i + 1) = "end" THEN Result(TRUE, i + 1) ELSE Result(t[i + 1] = "r", i + 2)
    [] At(t, i) \in {"-", "0"} -> ParseNumber(t, i)
    [] OTHER -> Result(FALSE, i)

(* The loops of parse_object and parse_array, from behind "{" "[" or ",".    *)
ParsePairs(t, start) ==
  LET k == SkipWs(t, start)
      key == ParseString(t, k + 1)
      colon == SkipWs(t, key.i)
      value == ParseValue(t, colon + 1)
      next == SkipWs(t, value.i)
  IN  IF At(t, k) = "end" THEN Result(TRUE, k)
      ELSE IF t[k] # "q" \/ ~key.ok THEN Result(FALSE, k)
      ELSE IF At(t, colon) = "end" THEN Result(TRUE, colon)
      ELSE IF t[colon] # ":" \/ ~value.ok THEN Result(FALSE, colon)
      ELSE CASE At(t, next) = "end" -> Result(TRUE, next)
             [] At(t, next) = "," -> ParsePairs(t, next + 1)
             [] OTHER -> Result(t[next] = "}", next + 1)

ParseItems(t, start) ==
  LET value == ParseValue(t, start)
      next == SkipWs(t, value.i)
  IN  IF ~value.ok THEN value
      ELSE CASE At(t, next) = "end" -> Result(TRUE, next)
             [] At(t, next) = "," -> ParseItems(t, next + 1)
             [] OTHER -> Result(t[next] = "]", next + 1)

StateMachine(t) == ParseValue(t, 1).ok

(* is_valid_json_prefix, with serde_json on the text and on its completions. *)
Completions == {<<"q", "}">>, <<"q", "]">>, <<"q">>, <<"}">>, <<"]">>, <<"0">>, <<"0", "}">>, <<"0", "]">>,
                <<"t", "r">>, <<"t", "r", "}">>, <<"t", "r", "]">>, <<"q", "q", "}">>, <<"q", "q", "]">>}
IsValidJsonPrefix(t) == t = <<>> \/ StateMachine(t) \/ RfcComplete(rfc) \/ (\E c \in Completions : RfcComplete(Run(rfc, c)))

-----------------------------------------------------------------------------
(* Any character may follow what the grammar or the validator have taken.    *)
FeedChar(ch) ==
  /\ Len(text) < MaxLength /\ (rfc # Dead \/ validator # Dead)
  /\ text' = Append(text, ch)
  /\ validator' = Validate(validator, ch)
  /\ rfc' = Rfc(rfc, ch)

JsonNext == \E ch \in Alphabet : FeedChar(ch)
JsonSpec == JsonInit /\ [][JsonNext]_jsonVars

-----------------------------------------------------------------------------
(* The constraint never masks what could still become JSON: whatever is a    *)
(* beginning of a document passes the recursive descent by itself.           *)
PrefixesPass == rfc # Dead => StateMachine(text) /\ IsValidJsonPrefix(text)

(* In a text without objects, numbers and \u, JsonValidator takes exactly    *)
(* the beginnings of documents, and knows when one is complete, but for one  *)
(* thing: it refuses the space that may follow the outermost bracket.        *)
Trailing == rfc.state = "Done" /\ Last(text) = "s"
ValidatorExact ==
  (\A i \in DOMAIN text : text[i] \notin {"{", "-", "0", "u"}) =>
    /\ (validator = Dead) = (rfc = Dead \/ Trailing)
    /\ ValidatorComplete(validator) = (RfcComplete(rfc) /\ ~Trailing)

(* Both recognisers are complete for documents.                              *)
JsonInv == PrefixesPass /\ ValidatorExact

-----------------------------------------------------------------------------
(* What the documentation says and TLC refutes: apply_json_constraint "masks *)
(* out tokens that would produce invalid JSON", but the descent does not     *)
(* look behind a complete value and is lax on numbers; and validate_complete *)
(* is to "validate a complete string as JSON", but takes {"a"}, and neither  *)
(* {"a":1} nor a document with a space behind its last bracket.              *)
OnlyPrefixesPass == text # <<>> /\ StateMachine(text) => rfc # Dead
ValidatorAgrees == ValidatorComplete(validator) = RfcComplete(rfc)

=============================================================================
