------------------------------ MODULE Sampler -------------------------------
(* inference/sampler.rs: from the logits of a step to a token.  Penalties on *)
(* what was said, the mask of a constrained slot, top-k, min-p, the tail,    *)
(* the nucleus and the draw; or Mirostat, which carries mu from step to step.*)
(*                                                                           *)
(* A logit is an integer or NegInf, and exp is 2^: what the code compares    *)
(* are sums and products of these.  Thresholds are in quarters, surprise is  *)
(* in whole bits and eta is 1.  The comparisons are exact, but for the one   *)
(* with top_p = 1, where the sum of the rounded shares may stay below 1.     *)
EXTENDS Collections

CONSTANTS VocabSize, Levels,   \* size of the vocabulary, and logits that occur
          Settings,            \* records: what a Sampler is made with
          Tau,                 \* mirostat_tau
          Rounds,              \* BOOLEAN: sums of floats are rounded
          Floor,               \* what no logit is below 0 by, penalised or not
          MaxBits,             \* bound: surprises from here on are not told apart
          MaxSamples           \* bound: tokens sampled

(* apply_penalties, for a token that was said n times.                       *)
Repeated(s, l) == IF l > 0 THEN l \div s.repetition ELSE l * s.repetition
PenalisedBy(s, l, n) == IF n = 0 THEN l ELSE Repeated(s, l) - s.frequency * n - s.presence

ASSUME SamplerAssumption ==
  /\ VocabSize \in Nat \ {0} /\ Levels \subseteq Int /\ Rounds \in BOOLEAN
  /\ {Tau, Floor, MaxBits, MaxSamples} \subseteq Nat
  /\ Settings \subseteq [temperature : Nat, topK : Nat, minP : 0..4, tfsZ : 0..4, topP : 0..4, repetition : Nat \ {0},
                         frequency : Int, presence : Int, mirostat : {"Disabled", "V1", "V2"}]
  /\ \A s \in Settings, l \in Levels, n \in 0..MaxSamples : PenalisedBy(s, l, n) >= -Floor

Vocabulary == 0..(VocabSize - 1)
NegInf == -Floor - 1

VARIABLES setting,  \* [temperature, topK, minP, tfsZ, topP, repetition, frequency, presence, mirostat]
          said,     \* tokens sampled so far
          mu,       \* mirostat_mu
          last      \* the last call: logits after penalties and mask, what was allowed, what could be drawn, and the token

samplerVars == <<setting, said, mu, last>>

-----------------------------------------------------------------------------
Penalised(logits) ==
  [t \in Vocabulary |-> PenalisedBy(setting, logits[t], Cardinality({i \in DOMAIN said : said[i] = t}))]

(* mask_logits; nothing allowed is no mask.                                  *)
MaskLogits(logits, allowed) == [t \in Vocabulary |-> IF allowed = {} \/ t \in allowed THEN logits[t] ELSE NegInf]

(* exp of a logit, with a floor common to the logits of a step; the tokens   *)
(* of a list are distinct.                                                   *)
Weight(logits, t) == IF logits[t] = NegInf THEN 0 ELSE 2^(logits[t] + Floor)
Mass(logits, tokens) == SumOver([t \in Vocabulary |-> Weight(logits, t)], Range(tokens))

Before(logits) ==
  {p \in Vocabulary \X Vocabulary : logits[p[1]] > logits[p[2]] \/ (logits[p[1]] = logits[p[2]] /\ p[1] < p[2])}
Descending(logits) == [i \in 1..VocabSize |-> CHOOSE t \in Vocabulary : RankIn(Vocabulary, Before(logits), t) = i - 1]

TopKLogits(logits) == SubSeq(Descending(logits), 1, Min({setting.topK, VocabSize}))

MinPFilter(logits, tokens) ==
  IF setting.minP = 0 THEN tokens
  ELSE PartAt(tokens, {i \in DOMAIN tokens : 4 * Weight(logits, tokens[i]) >= setting.minP * Weight(logits, tokens[1])})

(* tail_free_filter: second differences of the sorted weights, up to a share *)
(* of their sum.                                                             *)
Gap(a, b) == IF a > b THEN a - b ELSE b - a
TailFreeFilter(logits, tokens) ==
  LET w == [i \in DOMAIN tokens |-> Weight(logits, tokens[i])]
      second == [i \in 1..(Len(tokens) - 2) |-> Gap(Gap(w[i], w[i + 1]), Gap(w[i + 1], w[i + 2]))]
      Upto(i) == SumOver(second, 1..i)
      over == {i \in DOMAIN second : 4 * Upto(i) > setting.tfsZ * Upto(Len(second))}
  IN  IF setting.tfsZ \in {0, 4} \/ Len(tokens) <= 2 \/ over = {} THEN tokens ELSE SubSeq(tokens, 1, Min(over) + 1)

NucleusWithoutLast(logits, tokens) ==
  LET before == {i \in DOMAIN tokens : 4 * Mass(logits, SubSeq(tokens, 1, i)) <= setting.topP * Mass(logits, tokens)}
  IN  {SubSeq(tokens, 1, IF before = {} THEN 0 ELSE Max(before))}

(* The shortest prefix whose share reaches top_p.                            *)
Nucleus(logits, tokens) ==
  LET reaches == {i \in DOMAIN tokens : 4 * Mass(logits, SubSeq(tokens, 1, i)) >= setting.topP * Mass(logits, tokens)}
  IN  (IF reaches = {} THEN {tokens} ELSE {SubSeq(tokens, 1, Min(reaches))})
      \union (IF Rounds /\ setting.topP = 4 THEN {tokens} ELSE {})

(* sample_from_distribution: a token with a share, or the last one when the  *)
(* rounded shares end before the random number; 0 when there is none.        *)
Drawable(logits, tokens) ==
  IF tokens = <<>> THEN {0}
  ELSE {t \in Range(tokens) : Weight(logits, t) > 0} \union (IF Rounds THEN {tokens[Len(tokens)]} ELSE {})

Likeliest(logits) == {t \in Vocabulary : \A u \in Vocabulary : logits[u] <= logits[t]}

-----------------------------------------------------------------------------
(* Mirostat.  Surprise is -log2 of a share, here rounded up; a share among   *)
(* what was kept is rounded either way.                                      *)
Bits(part, whole) == Min({n \in 0..MaxBits : n = MaxBits \/ part * 2^n >= whole})
BitsRounded(part, whole) == {Bits(part, whole)} \union {n \in {Bits(part, whole) - 1} : n >= 0 /\ part * 2^(n + 1) > whole}

(* Version 2 keeps the tokens whose surprise is at most mu, at least one;    *)
(* version 1 a number of them that it gets from an estimate.                 *)
MirostatKeeps(logits) ==
  LET all == Descending(logits)
      known == PartAt(all, {i \in DOMAIN all : /\ Weight(logits, all[i]) > 0
                                               /\ Bits(Weight(logits, all[i]), Mass(logits, all)) <= mu})
  IN  IF setting.mirostat = "V1" THEN {SubSeq(all, 1, k) : k \in 1..VocabSize}
      ELSE {IF known = <<>> THEN SubSeq(all, 1, 1) ELSE known}

Learn(surprise) == mu - (surprise - Tau)

-----------------------------------------------------------------------------
SamplerInit == /\ setting \in Settings
               /\ said = <<>> /\ mu = 2 * Tau
               /\ last = [logits |-> [t \in Vocabulary |-> 0], allowed |-> {}, drawn |-> Vocabulary, token |-> 0]

Took(logits, allowed, drawn, token) ==
  /\ last' = [logits |-> logits, allowed |-> allowed, drawn |-> drawn, token |-> token]
  /\ said' = Append(said, token) /\ UNCHANGED setting

(* sample at temperature 0, where argmax returns the last of its equals.     *)
SampleGreedy(logits, allowed) ==
  /\ setting.temperature = 0
  /\ Took(logits, allowed, Likeliest(logits), Max(Likeliest(logits))) /\ UNCHANGED mu

SampleMirostat(logits, allowed) ==
  /\ setting.temperature > 0 /\ setting.mirostat # "Disabled"
  /\ \E kept \in MirostatKeeps(logits) : \E t \in Drawable(logits, kept) :
       /\ \E s \in BitsRounded(Max({Weight(logits, t), 1}), Mass(logits, kept)) : mu' = Learn(s)
       /\ Took(logits, allowed, Drawable(logits, kept), t)

SamplePlain(logits, allowed) ==
  /\ setting.temperature > 0 /\ setting.mirostat = "Disabled"
  /\ \E kept \in Nucleus(logits, TailFreeFilter(logits, MinPFilter(logits, TopKLogits(logits)))) :
       \E t \in Drawable(logits, kept) : Took(logits, allowed, Drawable(logits, kept), t)
  /\ UNCHANGED mu

SamplerNext ==
  \E raw \in [Vocabulary -> Levels], allowed \in SUBSET Vocabulary :
    LET logits == MaskLogits(Penalised(raw), allowed)
    IN  /\ Len(said) < MaxSamples
        /\ SampleGreedy(logits, allowed) \/ SampleMirostat(logits, allowed) \/ SamplePlain(logits, allowed)

SamplerSpec == SamplerInit /\ [][SamplerNext]_samplerVars

-----------------------------------------------------------------------------
(* No chain of filters loses a most likely token: it can always be drawn,    *)
(* whatever was masked or penalised.                                         *)
LikeliestSurvives == setting.topK > 0 => last.drawn \intersect Likeliest(last.logits) # {}

(* Without rounding a masked token is never drawn.                           *)
MaskHolds == ~Rounds /\ last.allowed # {} /\ setting.topK > 0 => last.token \in last.allowed

(* Mirostat's second version keeps mu at its target or above: what it cuts   *)
(* off is never more than the target allows, after any tokens.               *)
MirostatFloor == setting.mirostat = "V2" => mu >= Tau

SamplerInv == LikeliestSurvives /\ MaskHolds /\ MirostatFloor

-----------------------------------------------------------------------------
(* What the documentation says and TLC refutes when sums are rounded:        *)
(* "Vocabulary set to NEG_INFINITY ... will never be sampled".  With a top_k of  *)
(* 0, the token is 0 whatever the logits, masked or not.                     *)
NeverSampled == last.allowed # {} => last.token \in last.allowed

=============================================================================
