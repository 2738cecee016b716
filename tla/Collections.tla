---------------------------- MODULE Collections -----------------------------
(***************************************************************************)
(* Queues and sums as several modules use them: the parts of a sequence    *)
(* that VecDeque::retain and iterators keep, and the sum of a field over a *)
(* collection; and the facts about them, and about orders and powers of    *)
(* two, that the proofs share.                                             *)
(***************************************************************************)
EXTENDS Integers, Sequences, FiniteSets, FiniteSetsExt, Functions,
        TLAPS, FiniteSetTheorems, SequenceTheorems

\* A set of positions in increasing order, as a sequence.
Enumeration(at) ==
  CHOOSE f \in [1..Cardinality(at) -> at] :
    {f[k] : k \in DOMAIN f} = at /\ \A j, k \in DOMAIN f : j < k => f[j] < f[k]

\* The elements of s at the given positions, in order.
PartAt(s, at) == [k \in 1..Cardinality(at) |-> s[Enumeration(at)[k]]]

\* VecDeque::retain: s without the elements of out.
Retained(s, out) == PartAt(s, {i \in DOMAIN s : s[i] \notin out})

\* The sum of f over S.
SumOver(f, S) == MapThenSumSet(LAMBDA x : f[x], S)

-----------------------------------------------------------------------------
(* The facts.  Each is an induction over the subsets of a finite set: the    *)
(* library has the strict subset ordering well-founded, so that a family of  *)
(* counterexamples that is not empty has a smallest member.                  *)

\* A family of subsets of a finite set has a smallest member.
LEMMA SmallestMember ==
  ASSUME NEW S, IsFiniteSet(S), NEW F \in SUBSET SUBSET S, F # {}
  PROVE  \E s \in F : \A r \in F : r \subseteq s => r = s
<1>1. F \subseteq FiniteSubsetsOf(S)
  BY FS_FiniteSubsetsOfFinite
<1>2. \E s \in F : \A r \in F : <<r, s>> \notin StrictSubsetOrdering(S)
  BY <1>1, FS_StrictSubsetOrderingWellFounded, WFMin
<1> QED BY <1>2 DEF StrictSubsetOrdering

(* A fold over the subsets of T: pick chooses the element that is taken      *)
(* first, step combines it with the rest.                                    *)
FoldsAll(g, T, base, pick, step) ==
  /\ DOMAIN g = SUBSET T
  /\ \A s \in SUBSET T :
        g[s] = IF s = {} THEN base ELSE step[<<pick[s], g[s \ {pick[s]}]>>]

IsFold(g, T, V, base, pick, step) ==
  g \in [SUBSET T -> V] /\ FoldsAll(g, T, base, pick, step)

\* Two folds of the same set agree.
LEMMA FoldUnique ==
  ASSUME NEW T, IsFiniteSet(T), NEW V, NEW base, NEW pick, NEW step,
         \A s \in SUBSET T : s # {} => pick[s] \in s,
         NEW g, FoldsAll(g, T, base, pick, step),
         NEW h, FoldsAll(h, T, base, pick, step)
  PROVE  \A s \in SUBSET T : g[s] = h[s]
<1> DEFINE F == {s \in SUBSET T : g[s] # h[s]}
<1>1. ASSUME F # {} PROVE FALSE
  <2>1. PICK s \in F : \A r \in F : r \subseteq s => r = s
    <3>1. F \in SUBSET SUBSET T
      OBVIOUS
    <3> HIDE DEF F
    <3> QED BY <1>1, <3>1, SmallestMember
  <2>2. s # {} /\ s \in SUBSET T /\ g[s] # h[s]
    BY <2>1 DEF FoldsAll
  <2>3. pick[s] \in s /\ s \ {pick[s]} \in SUBSET T /\ s \ {pick[s]} # s
    BY <2>2
  <2>4. g[s \ {pick[s]}] = h[s \ {pick[s]}]
    BY <2>1, <2>3
  <2> QED BY <2>2, <2>3, <2>4 DEF FoldsAll
<1> QED BY <1>1

\* A step that stays in V has a fold, with values in V.
LEMMA FoldExists ==
  ASSUME NEW T, IsFiniteSet(T), NEW V, NEW base \in V, NEW pick, NEW step,
         \A s \in SUBSET T : s # {} => pick[s] \in s,
         \A x \in T, v \in V : step[<<x, v>>] \in V
  PROVE  \E g : IsFold(g, T, V, base, pick, step)
<1> DEFINE AllFolds(S) == {g \in [SUBSET S -> V] : IsFold(g, S, V, base, pick, step)}
           F == {S \in SUBSET T : AllFolds(S) = {}}
<1>1. ASSUME F # {} PROVE FALSE
  <2>1. PICK S \in F : \A R \in F : R \subseteq S => R = S
    <3>1. F \in SUBSET SUBSET T
      OBVIOUS
    <3> HIDE DEF F
    <3> QED BY <1>1, <3>1, SmallestMember
  <2>2. S \in SUBSET T /\ IsFiniteSet(S) /\ AllFolds(S) = {}
    BY <2>1, FS_Subset
  <2>3. \A R \in SUBSET S : R # S => AllFolds(R) # {}
    BY <2>1, <2>2
  <2> DEFINE G(R) == CHOOSE g \in AllFolds(R) : TRUE
  <2>4. \A R \in SUBSET S : R # S => IsFold(G(R), R, V, base, pick, step)
    BY <2>3
  <2> HIDE DEF G
  \* The fold over R, read at a smaller set, is the fold over that set.
  <2>5. ASSUME NEW R \in SUBSET S, R # S, NEW Q \in SUBSET R, Q # S
        PROVE  G(R)[Q] = G(Q)[Q]
    <3> DEFINE g == [s \in SUBSET Q |-> G(R)[s]]
               k == G(Q)
    <3>0. IsFold(G(R), R, V, base, pick, step) /\ IsFold(G(Q), Q, V, base, pick, step)
      BY <2>4, <2>5
    <3>1. IsFiniteSet(Q)
      BY <2>2, FS_Subset
    <3>2. \A s \in SUBSET Q : s # {} => pick[s] \in s
      BY <2>2
    <3>3. FoldsAll(k, Q, base, pick, step)
      BY <3>0 DEF IsFold
    <3>4. FoldsAll(g, Q, base, pick, step)
      BY <3>0, <3>2 DEF IsFold, FoldsAll
    <3> HIDE DEF g, k
    <3>6. \A s \in SUBSET Q : g[s] = k[s]
      BY <3>1, <3>2, <3>3, <3>4, FoldUnique
    <3> QED BY <3>6 DEF g, k
  <2> DEFINE Rest(s) == s \ {pick[s]}
             At(s) == IF s = {} THEN base ELSE step[<<pick[s], G(Rest(s))[Rest(s)]>>]
             h == [s \in SUBSET S |-> At(s)]
  <2>6. ASSUME NEW s \in SUBSET S, s # {}
        PROVE  /\ pick[s] \in s /\ Rest(s) \in SUBSET S /\ Rest(s) # s /\ Rest(s) # S
               /\ G(Rest(s))[Rest(s)] \in V
    <3>1. pick[s] \in s /\ Rest(s) \in SUBSET S /\ Rest(s) # s /\ Rest(s) # S
      BY <2>2, <2>6
    <3>2. IsFold(G(Rest(s)), Rest(s), V, base, pick, step)
      BY <3>1, <2>4
    <3> QED BY <3>1, <3>2 DEF IsFold
  <2>7. h \in [SUBSET S -> V]
    <3> SUFFICES ASSUME NEW s \in SUBSET S PROVE At(s) \in V
      OBVIOUS
    <3>1. CASE s = {}
      BY <3>1
    <3>2. CASE s # {}
      <4>1. pick[s] \in T /\ G(Rest(s))[Rest(s)] \in V
        BY <3>2, <2>2, <2>6
      <4> QED BY <3>2, <4>1
    <3> QED BY <3>1, <3>2
  <2>8. ASSUME NEW s \in SUBSET S, s # S PROVE h[s] = G(s)[s]
    <3>1. IsFold(G(s), s, V, base, pick, step)
      BY <2>4, <2>8
    <3>2. G(s)[s] = IF s = {} THEN base ELSE step[<<pick[s], G(s)[Rest(s)]>>]
      BY <3>1 DEF IsFold, FoldsAll
    <3>3. CASE s # {}
      <4>1. G(s)[Rest(s)] = G(Rest(s))[Rest(s)]
        BY <3>3, <2>5, <2>6, <2>8
      <4> QED BY <3>2, <3>3, <4>1
    <3>4. CASE s = {}
      BY <3>2, <3>4
    <3> QED BY <3>3, <3>4
  <2>9. ASSUME NEW s \in SUBSET S
        PROVE  h[s] = IF s = {} THEN base ELSE step[<<pick[s], h[s \ {pick[s]}]>>]
    <3>1. CASE s = {}
      BY <3>1
    <3>2. CASE s # {}
      <4>1. h[s] = step[<<pick[s], G(Rest(s))[Rest(s)]>>]
        BY <3>2
      <4>2. h[Rest(s)] = G(Rest(s))[Rest(s)]
        BY <3>2, <2>6, <2>8
      <4> QED BY <3>2, <4>1, <4>2
    <3> QED BY <3>1, <3>2
  <2> HIDE DEF h
  <2>10. h \in AllFolds(S)
    BY <2>7, <2>9 DEF IsFold, FoldsAll
  <2> QED BY <2>2, <2>10
<1>2. T \notin F
  BY <1>1
<1> QED BY <1>2

-----------------------------------------------------------------------------
(* Sums.                                                                     *)
SumPick(T) == [s \in SUBSET T |-> CHOOSE x \in s : TRUE]
SumStep(T, f) == [p \in T \X Int |-> f[p[1]] + p[2]]
IsSum(g, T, f) == IsFold(g, T, Int, 0, SumPick(T), SumStep(T, f))

\* What one step of a sum adds.
LEMMA SumStepAt ==
  ASSUME NEW T, NEW f, NEW x \in T, NEW v \in Int, f[x] \in Int
  PROVE  SumStep(T, f)[<<x, v>>] = f[x] + v
BY DEF SumStep

\* SumOver is the value of such a fold at the whole set.
LEMMA SumExists ==
  ASSUME NEW T, IsFiniteSet(T), NEW f, \A x \in T : f[x] \in Int
  PROVE  \E g : IsSum(g, T, f) /\ SumOver(f, T) = g[T]
<1> DEFINE pick == SumPick(T)
           step == SumStep(T, f)
           V == Int
<1>1. \A s \in SUBSET T : s # {} => pick[s] \in s
  BY DEF SumPick
<1>2. \A x \in T, v \in V : step[<<x, v>>] = f[x] + v /\ f[x] + v \in V
  <2> SUFFICES ASSUME NEW x \in T, NEW v \in Int
               PROVE  step[<<x, v>>] = f[x] + v /\ f[x] + v \in Int
    OBVIOUS
  <2>1. step[<<x, v>>] = f[x] + v
    BY SumStepAt
  <2> HIDE DEF step
  <2> QED BY <2>1
<1>3. 0 \in V
  OBVIOUS
<1> HIDE DEF pick, step, V
<1>4. PICK g : IsFold(g, T, V, 0, pick, step)
  <2>1. \A x \in T, v \in V : step[<<x, v>>] \in V
    BY <1>2
  <2> QED BY <1>1, <1>3, <2>1, FoldExists
<1> DEFINE Body(h) == [s \in SUBSET T |->
                         IF s = {} THEN 0
                         ELSE LET x == CHOOSE x \in s : TRUE IN f[x] + h[s \ {x}]]
           iter == CHOOSE h : h = Body(h)
<1>5. g = Body(g)
  <2>1. ASSUME NEW s \in SUBSET T, s # {}
        PROVE  g[s] = LET x == CHOOSE x \in s : TRUE IN f[x] + g[s \ {x}]
    <3>1. g[s] = step[<<pick[s], g[s \ {pick[s]}]>>] /\ g[s \ {pick[s]}] \in V
      BY <1>4, <2>1 DEF IsFold, FoldsAll
    <3>2. pick[s] \in T /\ pick[s] = CHOOSE x \in s : TRUE
      BY <1>1, <2>1 DEF pick, SumPick
    <3>3. step[<<pick[s], g[s \ {pick[s]}]>>] = f[pick[s]] + g[s \ {pick[s]}]
      BY <1>2, <3>1, <3>2
    <3> QED BY <3>1, <3>2, <3>3
  <2>2. {} \in SUBSET T => g[{}] = 0
    BY <1>4 DEF IsFold, FoldsAll
  <2>3. g = [s \in SUBSET T |-> g[s]]
    BY <1>4 DEF IsFold
  <2> QED BY <2>1, <2>2, <2>3
<1>6. iter = Body(iter)
  BY <1>5
<1>7. SumOver(f, T) = iter[T]
  BY DEF SumOver, MapThenSumSet, MapThenFoldSet
<1>8. \A s \in SUBSET T : iter[s] = g[s]
  <2> DEFINE F == {s \in SUBSET T : iter[s] # g[s]}
  <2>1. ASSUME F # {} PROVE FALSE
    <3>1. F \in SUBSET SUBSET T
      OBVIOUS
    <3>2. PICK s \in F : \A r \in F : r \subseteq s => r = s
      <4> HIDE DEF F
      <4> QED BY <2>1, <3>1, SmallestMember
    <3> DEFINE x == CHOOSE x \in s : TRUE
    <3>3. s \in SUBSET T /\ iter[s] # g[s]
      BY <3>2
    <3>4. iter[s] = Body(iter)[s] /\ g[s] = Body(g)[s]
      BY <1>5, <1>6
    <3> HIDE DEF iter
    <3>5. CASE s = {}
      BY <3>3, <3>4, <3>5
    <3>6. CASE s # {}
      <4>1. x \in s
        BY <3>6
      <4>2. iter[s] = f[x] + iter[s \ {x}] /\ g[s] = f[x] + g[s \ {x}]
        BY <3>3, <3>4, <3>6
      <4>3. s \ {x} \in SUBSET T /\ s \ {x} # s
        BY <3>3, <4>1
      <4>4. iter[s \ {x}] = g[s \ {x}]
        BY <3>2, <4>3
      <4> QED BY <3>3, <4>2, <4>4
    <3> QED BY <3>5, <3>6
  <2> QED BY <2>1
<1> QED BY <1>4, <1>7, <1>8 DEF IsSum, pick, step, V

\* A sum's fold at a subset: the sum of that subset.
LEMMA SumAt ==
  ASSUME NEW T, IsFiniteSet(T), NEW f, \A x \in T : f[x] \in Int,
         NEW g, IsSum(g, T, f), NEW s \in SUBSET T
  PROVE  /\ g[s] \in Int
         /\ s = {} => g[s] = 0
         /\ s # {} => \E x \in s : g[s] = f[x] + g[s \ {x}]
         /\ SumOver(f, s) = g[s]
<1>1. g[s] \in Int
  BY DEF IsSum, IsFold
<1>2. s = {} => g[s] = 0
  BY DEF IsSum, IsFold, FoldsAll
<1>3. ASSUME s # {} PROVE \E x \in s : g[s] = f[x] + g[s \ {x}]
  <2> DEFINE x == SumPick(T)[s]
  <2>1. x \in s
    BY <1>3 DEF SumPick
  <2>2. g[s] = SumStep(T, f)[<<x, g[s \ {x}]>>] /\ g[s \ {x}] \in Int
    BY <1>3 DEF IsSum, IsFold, FoldsAll
  <2> HIDE DEF x
  <2>3. SumStep(T, f)[<<x, g[s \ {x}]>>] = f[x] + g[s \ {x}]
    BY <2>1, <2>2, SumStepAt
  <2> QED BY <2>1, <2>2, <2>3
\* The sum over s alone is the same fold.
<1>4. SumOver(f, s) = g[s]
  <2>1. IsFiniteSet(s)
    BY FS_Subset
  <2>2. PICK h : IsSum(h, s, f) /\ SumOver(f, s) = h[s]
    BY <2>1, SumExists
  <2> DEFINE F == {r \in SUBSET s : g[r] # h[r]}
  <2>3. ASSUME F # {} PROVE FALSE
    <3>1. F \in SUBSET SUBSET s
      OBVIOUS
    <3>2. PICK r \in F : \A q \in F : q \subseteq r => q = r
      <4> HIDE DEF F
      <4> QED BY <2>1, <2>3, <3>1, SmallestMember
    <3>3. r \in SUBSET s /\ g[r] # h[r]
      BY <3>2
    <3>4. CASE r = {}
      BY <2>2, <3>3, <3>4 DEF IsSum, IsFold, FoldsAll
    <3>5. CASE r # {}
      <4> DEFINE x == CHOOSE x \in r : TRUE
                 q == r \ {x}
      <4>1. x \in r /\ q \in SUBSET s /\ q # r
        BY <3>3, <3>5
      <4>2. g[q] = h[q] /\ g[q] \in Int /\ h[q] \in Int
        BY <3>2, <4>1, <2>2 DEF IsSum, IsFold
      <4>3. g[r] = SumStep(T, f)[<<x, g[q]>>]
        BY <3>3, <3>5 DEF IsSum, IsFold, FoldsAll, SumPick
      <4>4. h[r] = SumStep(s, f)[<<x, h[q]>>]
        BY <3>3, <3>5, <2>2 DEF IsSum, IsFold, FoldsAll, SumPick
      <4> HIDE DEF x, q
      <4>5. SumStep(T, f)[<<x, g[q]>>] = f[x] + g[q] /\ SumStep(s, f)[<<x, h[q]>>] = f[x] + h[q]
        BY <3>3, <4>1, <4>2, SumStepAt
      <4> QED BY <3>3, <4>2, <4>3, <4>4, <4>5
    <3> QED BY <3>4, <3>5
  <2> QED BY <2>2, <2>3
<1> QED BY <1>1, <1>2, <1>3, <1>4

\* What SumOver is, whatever order the elements are taken in.
LEMMA SumFacts ==
  ASSUME NEW T, IsFiniteSet(T), NEW f, \A x \in T : f[x] \in Int
  PROVE  /\ SumOver(f, {}) = 0
         /\ \A s \in SUBSET T : SumOver(f, s) \in Int
         /\ \A s \in SUBSET T : \A x \in s : SumOver(f, s) = f[x] + SumOver(f, s \ {x})
<1>1. PICK g : IsSum(g, T, f)
  BY SumExists
<1>2. \A s \in SUBSET T : /\ g[s] \in Int
                          /\ s = {} => g[s] = 0
                          /\ s # {} => \E x \in s : g[s] = f[x] + g[s \ {x}]
                          /\ SumOver(f, s) = g[s]
  BY <1>1, SumAt
<1> DEFINE F == {s \in SUBSET T : \E x \in s : g[s] # f[x] + g[s \ {x}]}
<1>3. ASSUME F # {} PROVE FALSE
  <2>1. F \in SUBSET SUBSET T
    OBVIOUS
  <2>2. PICK s \in F : \A r \in F : r \subseteq s => r = s
    <3> HIDE DEF F
    <3> QED BY <1>3, <2>1, SmallestMember
  <2>3. PICK x \in s : g[s] # f[x] + g[s \ {x}]
    BY <2>2
  <2>4. PICK y \in s : g[s] = f[y] + g[s \ {y}]
    BY <1>2, <2>2
  <2>5. x # y
    BY <2>3, <2>4
  <2> DEFINE q == s \ {x, y}
  <2>6. /\ s \ {y} \notin F /\ s \ {x} \notin F
        /\ s \ {y} \in SUBSET T /\ s \ {x} \in SUBSET T
    BY <2>2
  <2>7. /\ (s \ {y}) \ {x} = q /\ (s \ {x}) \ {y} = q
        /\ x \in s \ {y} /\ y \in s \ {x} /\ q \in SUBSET T
    BY <2>2, <2>5
  <2>8. g[s \ {y}] = f[x] + g[(s \ {y}) \ {x}] /\ g[s \ {x}] = f[y] + g[(s \ {x}) \ {y}]
    BY <2>6, <2>7
  <2>9. g[s \ {y}] = f[x] + g[q] /\ g[s \ {x}] = f[y] + g[q]
    BY <2>7, <2>8
  <2>10. f[x] \in Int /\ f[y] \in Int /\ g[q] \in Int
    BY <1>2, <2>7
  <2> QED BY <2>3, <2>4, <2>9, <2>10
<1>4. \A s \in SUBSET T : \A x \in s : g[s] = f[x] + g[s \ {x}]
  BY <1>3
<1> QED BY <1>2, <1>4

\* One element more.
LEMMA SumPlus ==
  ASSUME NEW T, IsFiniteSet(T), NEW f, \A x \in T : f[x] \in Int,
         NEW s \in SUBSET T, NEW x \in T, x \notin s
  PROVE  SumOver(f, s \cup {x}) = SumOver(f, s) + f[x]
<1>1. /\ s \cup {x} \in SUBSET T /\ x \in s \cup {x}
      /\ (s \cup {x}) \ {x} = s
  OBVIOUS
<1>2. SumOver(f, s \cup {x}) = f[x] + SumOver(f, s) /\ SumOver(f, s) \in Int
  BY <1>1, SumFacts
<1> QED BY <1>2

\* The sum of a difference is the difference of the sums.
LEMMA SumMinus ==
  ASSUME NEW T, IsFiniteSet(T), NEW f, \A x \in T : f[x] \in Int,
         NEW s \in SUBSET T, NEW r \in SUBSET s
  PROVE  SumOver(f, s \ r) = SumOver(f, s) - SumOver(f, r)
<1> DEFINE F == {q \in SUBSET s : SumOver(f, s \ q) # SumOver(f, s) - SumOver(f, q)}
<1>1. IsFiniteSet(s)
  BY FS_Subset
<1>2. ASSUME F # {} PROVE FALSE
  <2>1. F \in SUBSET SUBSET s
    OBVIOUS
  <2>2. PICK q \in F : \A p \in F : p \subseteq q => p = q
    <3> HIDE DEF F
    <3> QED BY <1>1, <1>2, <2>1, SmallestMember
  <2>3. q \in SUBSET s /\ SumOver(f, s \ q) # SumOver(f, s) - SumOver(f, q)
    BY <2>2
  <2>4. /\ SumOver(f, {}) = 0
        /\ \A p \in SUBSET T : SumOver(f, p) \in Int
        /\ \A p \in SUBSET T : \A x \in p : SumOver(f, p) = f[x] + SumOver(f, p \ {x})
    BY SumFacts
  <2>5. CASE q = {}
    <3>1. s \ q = s
      BY <2>5
    <3> QED BY <2>3, <2>4, <2>5, <3>1
  <2>6. CASE q # {}
    <3>1. PICK x \in q : TRUE
      BY <2>6
    <3> DEFINE p == q \ {x}
    <3>2. /\ p \in SUBSET s /\ p # q /\ p \subseteq q
          /\ s \ p \in SUBSET T /\ x \in s \ p
          /\ (s \ p) \ {x} = s \ q
      BY <2>3
    <3>3. SumOver(f, s \ p) = SumOver(f, s) - SumOver(f, p)
      BY <2>2, <3>2
    <3>4. SumOver(f, s \ p) = f[x] + SumOver(f, s \ q)
      <4>1. SumOver(f, s \ p) = f[x] + SumOver(f, (s \ p) \ {x})
        BY <2>4, <3>2
      <4> QED BY <3>2, <4>1
    <3>5. SumOver(f, q) = f[x] + SumOver(f, p)
      BY <2>3, <2>4
    <3>6. /\ f[x] \in Int /\ SumOver(f, q) \in Int /\ SumOver(f, p) \in Int
          /\ SumOver(f, s) \in Int /\ SumOver(f, s \ q) \in Int
      BY <2>3, <2>4, <3>2
    <3> QED BY <2>3, <3>3, <3>4, <3>5, <3>6
  <2> QED BY <2>5, <2>6
<1> QED BY <1>2

\* A sum of naturals is one.
LEMMA SumNat ==
  ASSUME NEW T, IsFiniteSet(T), NEW f, \A x \in T : f[x] \in Nat
  PROVE  SumOver(f, T) \in Nat
<1> DEFINE F == {q \in SUBSET T : SumOver(f, q) \notin Nat}
<1>1. ASSUME F # {} PROVE FALSE
  <2>1. F \in SUBSET SUBSET T
    OBVIOUS
  <2>2. PICK q \in F : \A p \in F : p \subseteq q => p = q
    <3> HIDE DEF F
    <3> QED BY <1>1, <2>1, SmallestMember
  <2>3. /\ SumOver(f, {}) = 0
        /\ \A p \in SUBSET T : \A x \in p : SumOver(f, p) = f[x] + SumOver(f, p \ {x})
    BY SumFacts
  <2>4. q \in SUBSET T /\ SumOver(f, q) \notin Nat /\ q # {}
    <3>1. q \in SUBSET T /\ SumOver(f, q) \notin Nat
      BY <2>2
    <3>2. SumOver(f, {}) \in Nat
      BY <2>3
    <3> QED BY <3>1, <3>2
  <2>5. PICK x \in q : TRUE
    BY <2>4
  <2>6. q \ {x} \in SUBSET T /\ q \ {x} # q /\ q \ {x} \notin F
    BY <2>2, <2>4
  <2>7. SumOver(f, q \ {x}) \in Nat /\ f[x] \in Nat
    BY <2>4, <2>6
  <2> QED BY <2>3, <2>4, <2>7
<1> QED BY <1>1

\* The part of a set has the smaller sum, where nothing is negative.
LEMMA SumPart ==
  ASSUME NEW T, IsFiniteSet(T), NEW f, \A x \in T : f[x] \in Nat, NEW s \in SUBSET T
  PROVE  /\ SumOver(f, s) \in Nat /\ SumOver(f, T) \in Nat
         /\ SumOver(f, s) <= SumOver(f, T)
<1>1. /\ IsFiniteSet(s) /\ IsFiniteSet(T \ s)
      /\ \A x \in T \ s : f[x] \in Nat
      /\ \A x \in s : f[x] \in Nat
      /\ \A x \in T : f[x] \in Int
  BY FS_Subset
<1>2. SumOver(f, s) \in Nat /\ SumOver(f, T) \in Nat /\ SumOver(f, T \ s) \in Nat
  BY <1>1, SumNat
<1>3. SumOver(f, T \ s) = SumOver(f, T) - SumOver(f, s)
  BY <1>1, SumMinus
<1> QED BY <1>2, <1>3

\* Two functions that agree on a set have the same sum over it.
LEMMA SumSame ==
  ASSUME NEW T, IsFiniteSet(T), NEW f, NEW g, \A x \in T : f[x] \in Int /\ f[x] = g[x]
  PROVE  SumOver(f, T) = SumOver(g, T)
<1> DEFINE F == {q \in SUBSET T : SumOver(f, q) # SumOver(g, q)}
<1>1. ASSUME F # {} PROVE FALSE
  <2>1. F \in SUBSET SUBSET T
    OBVIOUS
  <2>2. PICK q \in F : \A p \in F : p \subseteq q => p = q
    <3> HIDE DEF F
    <3> QED BY <1>1, <2>1, SmallestMember
  <2>3. /\ SumOver(f, {}) = 0 /\ SumOver(g, {}) = 0
        /\ \A p \in SUBSET T : \A x \in p :
              /\ SumOver(f, p) = f[x] + SumOver(f, p \ {x})
              /\ SumOver(g, p) = g[x] + SumOver(g, p \ {x})
    BY SumFacts
  <2>4. q \in SUBSET T /\ SumOver(f, q) # SumOver(g, q) /\ q # {}
    BY <2>2, <2>3
  <2>5. PICK x \in q : TRUE
    BY <2>4
  <2>6. SumOver(f, q \ {x}) = SumOver(g, q \ {x})
    BY <2>2, <2>4, <2>5
  <2> QED BY <2>3, <2>4, <2>6
<1> QED BY <1>1

\* The sum of two functions.
LEMMA SumAdd ==
  ASSUME NEW T, IsFiniteSet(T), NEW f, NEW g, NEW h,
         \A x \in T : f[x] \in Int /\ g[x] \in Int /\ h[x] = f[x] + g[x]
  PROVE  SumOver(h, T) = SumOver(f, T) + SumOver(g, T)
<1> DEFINE F == {q \in SUBSET T : SumOver(h, q) # SumOver(f, q) + SumOver(g, q)}
<1>1. ASSUME F # {} PROVE FALSE
  <2>1. F \in SUBSET SUBSET T
    OBVIOUS
  <2>2. PICK q \in F : \A p \in F : p \subseteq q => p = q
    <3> HIDE DEF F
    <3> QED BY <1>1, <2>1, SmallestMember
  <2>3. /\ \A x \in T : f[x] \in Int
        /\ \A x \in T : g[x] \in Int
        /\ \A x \in T : h[x] \in Int
    OBVIOUS
  <2> HIDE DEF F
  <2>4. /\ SumOver(f, {}) = 0
        /\ \A p \in SUBSET T : SumOver(f, p) \in Int
        /\ \A p \in SUBSET T : \A x \in p : SumOver(f, p) = f[x] + SumOver(f, p \ {x})
    BY <2>3, SumFacts
  <2>5. /\ SumOver(g, {}) = 0
        /\ \A p \in SUBSET T : SumOver(g, p) \in Int
        /\ \A p \in SUBSET T : \A x \in p : SumOver(g, p) = g[x] + SumOver(g, p \ {x})
    BY <2>3, SumFacts
  <2>6. /\ SumOver(h, {}) = 0
        /\ \A p \in SUBSET T : \A x \in p : SumOver(h, p) = h[x] + SumOver(h, p \ {x})
    BY <2>3, SumFacts
  <2>7. /\ SumOver(f, {}) = 0 /\ SumOver(g, {}) = 0 /\ SumOver(h, {}) = 0
        /\ \A p \in SUBSET T : SumOver(f, p) \in Int /\ SumOver(g, p) \in Int
        /\ \A p \in SUBSET T : \A x \in p :
              /\ SumOver(f, p) = f[x] + SumOver(f, p \ {x})
              /\ SumOver(g, p) = g[x] + SumOver(g, p \ {x})
              /\ SumOver(h, p) = h[x] + SumOver(h, p \ {x})
    BY <2>4, <2>5, <2>6
  <2>8. q \in SUBSET T /\ SumOver(h, q) # SumOver(f, q) + SumOver(g, q) /\ q # {}
    <3>1. q \in SUBSET T /\ SumOver(h, q) # SumOver(f, q) + SumOver(g, q)
      BY <2>2 DEF F
    <3>2. SumOver(h, {}) = SumOver(f, {}) + SumOver(g, {})
      BY <2>7
    <3> QED BY <3>1, <3>2
  <2>9. PICK x \in q : TRUE
    BY <2>8
  <2>10. SumOver(h, q \ {x}) = SumOver(f, q \ {x}) + SumOver(g, q \ {x})
    <3>1. q \ {x} \in SUBSET T /\ q \ {x} \subseteq q /\ q \ {x} # q
      BY <2>8, <2>9
    <3>2. q \ {x} \notin F
      BY <2>2, <3>1
    <3> QED BY <3>1, <3>2 DEF F
  <2>11. /\ SumOver(f, q) = f[x] + SumOver(f, q \ {x}) /\ SumOver(g, q) = g[x] + SumOver(g, q \ {x})
         /\ SumOver(h, q) = h[x] + SumOver(h, q \ {x}) /\ h[x] = f[x] + g[x]
         /\ f[x] \in Int /\ g[x] \in Int
         /\ SumOver(f, q \ {x}) \in Int /\ SumOver(g, q \ {x}) \in Int
    <3>1. q \ {x} \in SUBSET T /\ x \in T
      BY <2>8, <2>9
    <3> QED BY <2>7, <2>8, <2>9, <3>1
  <2> QED BY <2>8, <2>10, <2>11
<1> QED BY <1>1

\* The larger function has the larger sum.
LEMMA SumAtMost ==
  ASSUME NEW T, IsFiniteSet(T), NEW f, NEW g,
         \A x \in T : f[x] \in Int /\ g[x] \in Int /\ f[x] <= g[x]
  PROVE  SumOver(f, T) <= SumOver(g, T)
<1> DEFINE d == [x \in T |-> g[x] - f[x]]
<1>1. \A x \in T : d[x] \in Nat /\ f[x] \in Int /\ d[x] \in Int /\ g[x] = f[x] + d[x]
  OBVIOUS
<1> HIDE DEF d
<1>2. SumOver(g, T) = SumOver(f, T) + SumOver(d, T)
  BY <1>1, SumAdd
<1>3. SumOver(d, T) \in Nat
  BY <1>1, SumNat
<1>4. SumOver(f, T) \in Int
  BY <1>1, SumFacts
<1> QED BY <1>2, <1>3, <1>4

\* One more in one place is one more in the sum.
LEMMA SumOneMore ==
  ASSUME NEW T, IsFiniteSet(T), NEW f, NEW g, NEW x \in T,
         \A t \in T : f[t] \in Int /\ g[t] = IF t = x THEN f[t] + 1 ELSE f[t]
  PROVE  SumOver(g, T) = SumOver(f, T) + 1
<1> DEFINE R == T \ {x}
<1>1. R \in SUBSET T /\ T \in SUBSET T /\ x \notin R /\ R \cup {x} = T /\ IsFiniteSet(R)
  BY FS_Subset
<1>2. \A t \in T : f[t] \in Int /\ g[t] \in Int
  OBVIOUS
<1>3. \A t \in R : f[t] \in Int /\ f[t] = g[t]
  OBVIOUS
<1> HIDE DEF R
<1>4. SumOver(f, R) = SumOver(g, R)
  BY <1>1, <1>3, SumSame
<1>5. SumOver(f, R \cup {x}) = SumOver(f, R) + f[x] /\ SumOver(g, R \cup {x}) = SumOver(g, R) + g[x]
  BY <1>1, <1>2, SumPlus
<1>6. SumOver(f, R) \in Int /\ g[x] = f[x] + 1 /\ f[x] \in Int
  BY <1>1, <1>2, SumFacts
<1>7. SumOver(f, T) = SumOver(f, R) + f[x] /\ SumOver(g, T) = SumOver(g, R) + g[x]
  BY <1>1, <1>5
<1>8. PICK a, b : a = SumOver(f, R) /\ b = f[x] /\ a \in Int /\ b \in Int
  BY <1>6
<1>9. SumOver(f, T) = a + b /\ SumOver(g, T) = a + (b + 1)
  BY <1>4, <1>6, <1>7, <1>8
<1> QED BY <1>8, <1>9

-----------------------------------------------------------------------------
(* Parts of a sequence.                                                      *)

\* A set of positions has a last one.
LEMMA LargestMember ==
  ASSUME NEW n \in Nat, NEW at \in SUBSET (1..n), at # {}
  PROVE  \E m \in at : \A i \in at : i <= m
<1> DEFINE Above(k) == {i \in at : i > k}
           F == {Above(k) : k \in at}
           A == at
<1>1. IsFiniteSet(at)
  <2>1. IsFiniteSet(1..n)
    BY FS_Interval
  <2> QED BY <2>1, FS_Subset
<1>2. F \in SUBSET SUBSET at /\ F # {}
  OBVIOUS
<1>3. PICK s \in F : \A r \in F : r \subseteq s => r = s
  <2>1. IsFiniteSet(A) /\ F \in SUBSET SUBSET A /\ F # {}
    BY <1>1, <1>2
  <2> HIDE DEF F, A
  <2> QED BY <2>1, SmallestMember
<1>4. PICK m \in at : s = Above(m)
  OBVIOUS
<1>5. ASSUME NEW k \in at, k > m PROVE FALSE
  <2>1. m \in Int /\ k \in Int /\ \A i \in at : i \in Int
    OBVIOUS
  <2>2. Above(k) \subseteq s /\ k \in s /\ k \notin Above(k)
    <3>1. k > m /\ ~(k > k) /\ \A i \in at : i > k => i > m
      BY <1>5, <2>1
    <3> QED BY <1>4, <3>1
  <2>3. Above(k) \in F
    OBVIOUS
  <2> QED BY <1>3, <2>2, <2>3
<1>6. \A i \in at : i \in Int
  OBVIOUS
<1> QED BY <1>5, <1>6

Increasing(f, at) ==
  /\ f \in [1..Cardinality(at) -> at]
  /\ {f[k] : k \in DOMAIN f} = at /\ \A j, k \in DOMAIN f : j < k => f[j] < f[k]

\* A set of positions can be put in increasing order.
LEMMA EnumerationExists ==
  ASSUME NEW n \in Nat, NEW at \in SUBSET (1..n)
  PROVE  \E f : Increasing(f, at)
<1> DEFINE F == {q \in SUBSET at : ~\E f : Increasing(f, q)}
           A == at
<1>1. IsFiniteSet(at)
  <2>1. IsFiniteSet(1..n)
    BY FS_Interval
  <2> QED BY <2>1, FS_Subset
<1>2. ASSUME F # {} PROVE FALSE
  <2>1. F \in SUBSET SUBSET at
    OBVIOUS
  <2>2. PICK q \in F : \A p \in F : p \subseteq q => p = q
    <3>1. IsFiniteSet(A) /\ F \in SUBSET SUBSET A
      BY <1>1, <2>1
    <3> HIDE DEF F, A
    <3> QED BY <1>2, <3>1, SmallestMember
  <2>3. q \in SUBSET (1..n) /\ IsFiniteSet(q) /\ q \in SUBSET at
    BY <1>1, <2>2, FS_Subset
  <2>4. CASE q = {}
    <3>1. Cardinality(q) = 0
      BY <2>4, FS_EmptySet
    <3>2. Increasing(<<>>, q)
      BY <2>4, <3>1 DEF Increasing
    <3> QED BY <2>2, <3>2
  <2>5. CASE q # {}
    <3>1. PICK m \in q : \A i \in q : i <= m
      BY <2>3, <2>5, LargestMember
    <3> DEFINE p == q \ {m}
               c == Cardinality(p)
    <3>2. p \in SUBSET at /\ p # q /\ p \subseteq q
      BY <2>3
    <3>3. PICK f : Increasing(f, p)
      BY <2>2, <3>2
    <3>4. IsFiniteSet(p) /\ c \in Nat /\ Cardinality(q) = c + 1
      <4>1. q = p \cup {m} /\ m \notin p
        OBVIOUS
      <4>2. IsFiniteSet(p) /\ c \in Nat
        BY <2>3, FS_RemoveElement, FS_CardinalityType
      <4> QED BY <4>1, <4>2, FS_AddElement
    <3>5. /\ f \in [1..c -> p]
          /\ \A i \in p : \E k \in 1..c : f[k] = i
          /\ \A j, k \in 1..c : j < k => f[j] < f[k]
      BY <3>3 DEF Increasing
    <3> HIDE DEF c
    <3> DEFINE g == [k \in 1..c + 1 |-> IF k = c + 1 THEN m ELSE f[k]]
    <3>6. g \in [1..c + 1 -> q]
      BY <3>2, <3>4, <3>5
    <3>7. \A i \in q : \E k \in 1..c + 1 : g[k] = i
      <4> SUFFICES ASSUME NEW i \in q PROVE \E k \in 1..c + 1 : g[k] = i
        OBVIOUS
      <4>1. CASE i = m
        BY <3>4, <4>1
      <4>2. CASE i # m
        <5>1. PICK k \in 1..c : f[k] = i
          BY <3>5, <4>2
        <5> QED BY <3>4, <5>1
      <4> QED BY <4>1, <4>2
    <3>8. ASSUME NEW j \in 1..c + 1, NEW k \in 1..c + 1, j < k PROVE g[j] < g[k]
      <4>1. j \in 1..c /\ g[j] = f[j] /\ f[j] \in p
        BY <3>4, <3>5, <3>8
      <4>2. CASE k = c + 1
        <5>1. f[j] \in q /\ f[j] # m
          BY <4>1
        <5>2. f[j] <= m /\ f[j] \in Int /\ m \in Int
          <6>1. f[j] \in 1..n /\ m \in 1..n /\ f[j] <= m
            BY <2>3, <3>1, <5>1
          <6> QED BY <6>1
        <5> QED BY <4>1, <4>2, <5>1, <5>2
      <4>3. CASE k # c + 1
        BY <3>4, <3>5, <3>8, <4>1, <4>3
      <4> QED BY <4>2, <4>3
    <3>9. DOMAIN g = 1..c + 1
      OBVIOUS
    <3> HIDE DEF g
    <3>10. Increasing(g, q)
      BY ZenonT(40), <3>4, <3>6, <3>7, <3>8, <3>9 DEF c, Increasing
    <3> QED BY <2>2, <3>10
  <2> QED BY <2>4, <2>5
<1> QED BY <1>2

\* What PartAt returns: the elements at the positions, in their order.
LEMMA PartEnumerated ==
  ASSUME NEW S, NEW s \in Seq(S), NEW at \in SUBSET (1..Len(s))
  PROVE  /\ IsFiniteSet(at) /\ Cardinality(at) \in Nat /\ Cardinality(at) <= Len(s)
         /\ Enumeration(at) \in [1..Cardinality(at) -> at]
         /\ \A i \in at : \E k \in 1..Cardinality(at) : Enumeration(at)[k] = i
         /\ \A j, k \in 1..Cardinality(at) : j < k => Enumeration(at)[j] < Enumeration(at)[k]
         /\ PartAt(s, at) \in Seq(S)
         /\ Len(PartAt(s, at)) = Cardinality(at)
         /\ \A k \in 1..Cardinality(at) :
              /\ Enumeration(at)[k] \in 1..Len(s)
              /\ PartAt(s, at)[k] = s[Enumeration(at)[k]]
<1> DEFINE m == Len(s)
           n == Cardinality(at)
           f == Enumeration(at)
<1>0. m \in Nat /\ at \in SUBSET (1..m) /\ DOMAIN s = 1..m
  OBVIOUS
<1>1. IsFiniteSet(1..m) /\ Cardinality(1..m) = m
  <2> HIDE DEF m
  <2> QED BY <1>0, FS_Interval
<1>2. IsFiniteSet(at) /\ n \in Nat /\ n <= m
  <2> HIDE DEF m
  <2>1. IsFiniteSet(at) /\ Cardinality(at) <= Cardinality(1..m)
    BY <1>0, <1>1, FS_Subset
  <2> QED BY <1>1, <2>1, FS_CardinalityType
<1>3. \E g : Increasing(g, at)
  <2> HIDE DEF m
  <2> QED BY <1>0, EnumerationExists
<1>4. Increasing(f, at)
  BY <1>3 DEF Increasing, Enumeration
<1>5. /\ f \in [1..n -> at]
      /\ \A i \in at : \E k \in 1..n : f[k] = i
      /\ \A j, k \in 1..n : j < k => f[j] < f[k]
  BY <1>4 DEF Increasing
<1>6. PartAt(s, at) = [k \in 1..n |-> s[f[k]]]
  BY DEF PartAt
<1> HIDE DEF f, n
<1>7. \A k \in 1..n : f[k] \in 1..m /\ s[f[k]] \in S
  <2> SUFFICES ASSUME NEW k \in 1..n PROVE f[k] \in 1..m /\ s[f[k]] \in S
    OBVIOUS
  <2>1. f[k] \in at
    BY <1>5
  <2>2. f[k] \in 1..m
    BY <1>0, <2>1
  <2> QED BY <1>0, <2>2
<1>8. /\ PartAt(s, at) \in Seq(S) /\ Len(PartAt(s, at)) = n
      /\ \A k \in 1..n : PartAt(s, at)[k] = s[f[k]]
  BY <1>2, <1>6, <1>7
<1> QED BY <1>2, <1>5, <1>7, <1>8 DEF f, n

\* Each element at a position, once, and nothing else.
LEMMA PartFacts ==
  ASSUME NEW S, NEW s \in Seq(S), NEW at \in SUBSET (1..Len(s))
  PROVE  /\ PartAt(s, at) \in Seq(S)
         /\ Len(PartAt(s, at)) <= Len(s) /\ Len(PartAt(s, at)) = Cardinality(at)
         /\ \A k \in 1..Len(PartAt(s, at)) : \E i \in at : PartAt(s, at)[k] = s[i]
         /\ \A i \in at : \E k \in 1..Len(PartAt(s, at)) : PartAt(s, at)[k] = s[i]
         /\ IsInjective(s) => IsInjective(PartAt(s, at))
<1> DEFINE t == PartAt(s, at)
           f == Enumeration(at)
           n == Cardinality(at)
<1>1. /\ n \in Nat /\ n <= Len(s)
      /\ f \in [1..n -> at]
      /\ \A i \in at : \E k \in 1..n : f[k] = i
      /\ \A j, k \in 1..n : j < k => f[j] < f[k]
      /\ t \in Seq(S) /\ Len(t) = n
      /\ \A k \in 1..n : f[k] \in 1..Len(s) /\ t[k] = s[f[k]]
  BY PartEnumerated
<1> HIDE DEF f, n, t
<1>2. ASSUME IsInjective(s) PROVE IsInjective(t)
  <2> SUFFICES ASSUME NEW j \in 1..n, NEW k \in 1..n, t[j] = t[k] PROVE j = k
    BY <1>1 DEF IsInjective
  <2>1. f[j] = f[k]
    <3>1. f[j] \in DOMAIN s /\ f[k] \in DOMAIN s /\ s[f[j]] = s[f[k]]
      BY <1>1
    <3> QED BY <1>2, <3>1 DEF IsInjective
  <2>2. f[j] \in Int /\ f[k] \in Int /\ j \in Int /\ k \in Int
    BY <1>1
  <2>3. (j < k => f[j] < f[k]) /\ (k < j => f[k] < f[j])
    BY <1>1
  <2> QED BY <2>1, <2>2, <2>3
<1>3. \A k \in 1..n : \E i \in at : t[k] = s[i]
  BY <1>1
<1>4. \A i \in at : \E k \in 1..n : t[k] = s[i]
  BY <1>1
<1> QED BY <1>1, <1>2, <1>3, <1>4 DEF n, t

\* What is retained: the other elements, in their order and as often.
LEMMA RetainedFacts ==
  ASSUME NEW S, NEW s \in Seq(S), NEW out, NEW t, t = Retained(s, out)
  PROVE  /\ t \in Seq(S)
         /\ \A k \in 1..Len(t) : t[k] \notin out /\ \E i \in 1..Len(s) : t[k] = s[i]
         /\ \A i \in 1..Len(s) : s[i] \notin out => \E k \in 1..Len(t) : t[k] = s[i]
         /\ IsInjective(s) => IsInjective(t)
<1> DEFINE at == {i \in DOMAIN s : s[i] \notin out}
<1>1. at \in SUBSET (1..Len(s)) /\ t = PartAt(s, at)
  BY DEF Retained
<1>2. /\ \A i \in at : i \in 1..Len(s) /\ s[i] \notin out
      /\ \A i \in 1..Len(s) : s[i] \notin out => i \in at
  OBVIOUS
<1> DEFINE u == PartAt(s, at)
<1>4. /\ u \in Seq(S)
      /\ \A k \in 1..Len(u) : \E i \in at : u[k] = s[i]
      /\ \A i \in at : \E k \in 1..Len(u) : u[k] = s[i]
      /\ IsInjective(s) => IsInjective(u)
  <2> HIDE DEF at
  <2> QED BY <1>1, PartFacts
<1> HIDE DEF at
<1>3. /\ t \in Seq(S)
      /\ \A k \in 1..Len(t) : \E i \in at : t[k] = s[i]
      /\ \A i \in at : \E k \in 1..Len(t) : t[k] = s[i]
      /\ IsInjective(s) => IsInjective(t)
  BY <1>1, <1>4
<1> QED BY <1>2, <1>3

-----------------------------------------------------------------------------
(* Queues that repeat nothing, as the LRU orders are.                        *)

\* A queue that repeats nothing is as long as it has elements.
LEMMA DistinctLength ==
  ASSUME NEW S, NEW q \in Seq(S), IsInjective(q)
  PROVE  IsFiniteSet(Range(q)) /\ Cardinality(Range(q)) = Len(q)
<1> DEFINE n == Len(q)
           R == Range(q)
<1>1. n \in Nat /\ DOMAIN q = 1..n /\ IsFiniteSet(1..n) /\ Cardinality(1..n) = n
  <2>1. n \in Nat /\ DOMAIN q = 1..n
    OBVIOUS
  <2> HIDE DEF n
  <2> QED BY <2>1, FS_Interval
<1>2. q \in Bijection(1..n, R)
  <2>1. q \in [1..n -> R]
    BY DEF Range
  <2>2. \A t \in R : \E i \in 1..n : q[i] = t
    BY DEF Range
  <2> HIDE DEF n, R
  <2> QED BY <2>1, <2>2 DEF Bijection, Injection, Surjection
<1> HIDE DEF n, R
<1>3. ExistsBijection(1..n, R)
  BY <1>2 DEF ExistsBijection
<1> QED BY <1>1, <1>3, FS_Bijection DEF n, R

\* What is retained, as a set.
LEMMA RetainedRange ==
  ASSUME NEW S, NEW q \in Seq(S), NEW out
  PROVE  /\ Retained(q, out) \in Seq(S)
         /\ Range(Retained(q, out)) = Range(q) \ out
         /\ IsInjective(q) => IsInjective(Retained(q, out))
<1> DEFINE t == Retained(q, out)
<1>1. /\ t \in Seq(S)
      /\ \A k \in 1..Len(t) : t[k] \notin out /\ \E i \in 1..Len(q) : t[k] = q[i]
      /\ \A i \in 1..Len(q) : q[i] \notin out => \E k \in 1..Len(t) : t[k] = q[i]
      /\ IsInjective(q) => IsInjective(t)
  BY RetainedFacts
<1> HIDE DEF t
<1>2. DOMAIN t = 1..Len(t) /\ DOMAIN q = 1..Len(q)
  BY <1>1
<1>3. Range(t) \subseteq Range(q) \ out
  BY <1>1, <1>2 DEF Range
<1>4. Range(q) \ out \subseteq Range(t)
  BY SMTT(30), <1>1, <1>2 DEF Range
<1> QED BY <1>1, <1>3, <1>4 DEF t

\* A new element at the back.
LEMMA PushedBack ==
  ASSUME NEW S, NEW q \in Seq(S), NEW x \in S
  PROVE  /\ Append(q, x) \in Seq(S)
         /\ Range(Append(q, x)) = Range(q) \cup {x}
         /\ IsInjective(q) /\ x \notin Range(q) => IsInjective(Append(q, x))
<1> DEFINE t == Append(q, x)
           n == Len(q)
<1>1. /\ t \in Seq(S) /\ n \in Nat /\ DOMAIN q = 1..n /\ DOMAIN t = 1..n + 1
      /\ t[n + 1] = x /\ \A i \in 1..n : t[i] = q[i]
  OBVIOUS
<1> HIDE DEF t, n
<1>2. \A i \in 1..n + 1 : i \in 1..n \/ i = n + 1
  BY <1>1
<1>3. \A i \in 1..n : i \in 1..n + 1
  BY <1>1
<1>4. Range(t) = Range(q) \cup {x}
  <2>1. n + 1 \in 1..n + 1
    BY <1>1
  <2>2. Range(t) \subseteq Range(q) \cup {x}
    BY <1>1, <1>2 DEF Range
  <2>3. Range(q) \cup {x} \subseteq Range(t)
    BY <1>1, <1>3, <2>1 DEF Range
  <2> QED BY <2>2, <2>3
<1>5. ASSUME IsInjective(q), x \notin Range(q) PROVE IsInjective(t)
  <2>1. \A i \in 1..n : q[i] # x
    BY <1>1, <1>5 DEF Range
  <2> QED BY <1>1, <1>2, <1>5, <2>1 DEF IsInjective
<1> QED BY <1>1, <1>4, <1>5 DEF t

\* The order of what is retained is the order it had.
LEMMA RetainedOrder ==
  ASSUME NEW S, NEW q \in Seq(S), NEW out
  PROVE  \A j, k \in 1..Len(Retained(q, out)) : j < k =>
            \E a, b \in 1..Len(q) : /\ a < b /\ q[a] = Retained(q, out)[j]
                                    /\ q[b] = Retained(q, out)[k]
<1> DEFINE at == {i \in DOMAIN q : q[i] \notin out}
           f == Enumeration(at)
           n == Cardinality(at)
           t == PartAt(q, at)
<1>1. at \in SUBSET (1..Len(q)) /\ Retained(q, out) = t
  BY DEF Retained
<1> HIDE DEF at
<1>2. /\ Len(t) = n
      /\ \A j, k \in 1..n : j < k => f[j] < f[k]
      /\ \A k \in 1..n : f[k] \in 1..Len(q) /\ t[k] = q[f[k]]
  BY <1>1, PartEnumerated
<1> HIDE DEF f, n, t
<1> QED BY <1>1, <1>2

\* The first and the last of a set of positions.
LEMMA Extremes ==
  ASSUME NEW n \in Nat, NEW at \in SUBSET (1..n), at # {}
  PROVE  /\ Min(at) \in at /\ \A i \in at : Min(at) <= i
         /\ Max(at) \in at /\ \A i \in at : i <= Max(at)
<1>1. \E m \in at : \A i \in at : i <= m
  BY LargestMember
<1>2. \E m \in at : \A i \in at : m <= i
  <2> DEFINE mirror == {n + 1 - i : i \in at}
  <2>1. mirror \in SUBSET (1..n) /\ mirror # {}
    <3>1. \A i \in at : n + 1 - i \in 1..n
      OBVIOUS
    <3>2. mirror \subseteq 1..n
      BY <3>1
    <3>3. \E i \in at : n + 1 - i \in mirror
      OBVIOUS
    <3> QED BY <3>2, <3>3
  <2>2. PICK m \in mirror : \A i \in mirror : i <= m
    <3> HIDE DEF mirror
    <3> QED BY <2>1, LargestMember
  <2>3. PICK k \in at : m = n + 1 - k
    OBVIOUS
  <2>4. \A i \in at : n + 1 - i <= n + 1 - k
    BY <2>2, <2>3
  <2>5. \A i \in at : i \in Int
    OBVIOUS
  <2>6. \A i \in at : k <= i
    BY <2>4, <2>5
  <2> QED BY <2>6
<1>3. \A i \in at : i \in Int
  OBVIOUS
<1> QED BY <1>1, <1>2, <1>3 DEF Min, Max

\* The n elements at the front of a queue that repeats nothing, and the rest.
LEMMA QueueSplit ==
  ASSUME NEW S, NEW q \in Seq(S), IsInjective(q), NEW n \in 0..Len(q)
  PROVE  /\ Range(SubSeq(q, 1, n)) = {q[i] : i \in 1..n}
         /\ Range(SubSeq(q, 1, n)) \subseteq Range(q)
         /\ n = 0 => Range(SubSeq(q, 1, n)) = {}
         /\ n = Len(q) => Range(SubSeq(q, 1, n)) = Range(q)
         /\ SubSeq(q, n + 1, Len(q)) \in Seq(S) /\ IsInjective(SubSeq(q, n + 1, Len(q)))
         /\ Range(SubSeq(q, n + 1, Len(q))) = Range(q) \ Range(SubSeq(q, 1, n))
<1> DEFINE front == SubSeq(q, 1, n)
           rest  == SubSeq(q, n + 1, Len(q))
           m     == Len(q)
<1>1. m \in Nat /\ n \in Nat /\ n <= m /\ DOMAIN q = 1..m
  OBVIOUS
<1>2. DOMAIN front = 1..n /\ \A i \in 1..n : front[i] = q[i]
  BY SubSeqProperties
<1>3. /\ rest \in Seq(S) /\ DOMAIN rest = 1..m - n
      /\ \A i \in 1..m - n : rest[i] = q[n + i]
  BY SubSeqProperties
<1> HIDE DEF front, rest, m
<1>4. Range(front) = {q[i] : i \in 1..n}
  BY <1>2 DEF Range
<1>5. Range(front) \subseteq Range(q)
  BY <1>1, <1>4 DEF Range
<1>6. /\ n = 0 => Range(front) = {}
      /\ n = m => Range(front) = Range(q)
  <2>1. n = 0 => 1..n = {}
    BY <1>1
  <2>2. n = 0 => Range(front) = {}
    BY <1>4, <2>1
  <2>3. n = m => Range(front) = Range(q)
    BY <1>1, <1>4 DEF Range
  <2> QED BY <2>2, <2>3
<1>7. \A i \in 1..m - n : n + i \in 1..m /\ n + i \notin 1..n
  BY <1>1
<1>8. IsInjective(rest)
  <2> SUFFICES ASSUME NEW i \in 1..m - n, NEW j \in 1..m - n, rest[i] = rest[j] PROVE i = j
    BY <1>3 DEF IsInjective
  <2>1. n + i = n + j
    BY <1>1, <1>3, <1>7 DEF IsInjective
  <2> QED BY <1>1, <2>1
<1>9. Range(rest) = Range(q) \ Range(front)
  <2>1. ASSUME NEW i \in 1..m - n PROVE rest[i] \in Range(q) \ Range(front)
    <3>1. rest[i] = q[n + i] /\ n + i \in DOMAIN q /\ n + i \notin 1..n
      BY <1>1, <1>3, <1>7
    <3>2. \A j \in 1..n : q[j] # q[n + i]
      BY <1>1, <3>1 DEF IsInjective
    <3> QED BY <1>4, <3>1, <3>2 DEF Range
  <2>2. ASSUME NEW x \in Range(q) \ Range(front) PROVE x \in Range(rest)
    <3>1. PICK k \in 1..m : x = q[k]
      BY <1>1 DEF Range
    <3>2. k \notin 1..n
      BY <1>4, <2>2, <3>1
    <3>3. k - n \in 1..m - n /\ n + (k - n) = k
      BY <1>1, <3>2
    <3>4. rest[k - n] = x
      BY <1>3, <3>1, <3>3
    <3> QED BY <1>3, <3>3, <3>4 DEF Range
  <2> QED BY <1>3, <2>1, <2>2 DEF Range
<1> QED BY <1>3, <1>4, <1>5, <1>6, <1>8, <1>9 DEF front, rest, m

\* Positions that include the first m leave those in place.
LEMMA PrefixStays ==
  ASSUME NEW S, NEW s \in Seq(S), NEW at \in SUBSET (1..Len(s)), NEW m \in Nat, 1..m \subseteq at
  PROVE  /\ m <= Cardinality(at)
         /\ \A k \in 1..m : Enumeration(at)[k] = k
         /\ \A k \in 1..Cardinality(at) : k > m => Enumeration(at)[k] > m
<1>1. PICK n, e : n = Cardinality(at) /\ e = Enumeration(at)
  OBVIOUS
<1>2. /\ n \in Nat /\ IsFiniteSet(at)
      /\ \A k \in 1..n : e[k] \in at /\ e[k] \in Int /\ e[k] >= 1
      /\ \A i \in at : \E k \in 1..n : e[k] = i
      /\ \A j, k \in 1..n : j < k => e[j] < e[k]
  BY SMTT(30), <1>1, PartEnumerated
<1>3. m <= n
  <2>1. IsFiniteSet(1..m) /\ Cardinality(1..m) = m
    BY FS_Interval
  <2>2. Cardinality(1..m) <= Cardinality(at)
    BY <1>2, FS_Subset
  <2> QED BY <1>1, <2>1, <2>2
<1>4. ASSUME NEW w \in 1..m, e[w] # w PROVE FALSE
  <2>1. PICK bad : bad = {k \in 1..m : e[k] # k}
    OBVIOUS
  <2>2. bad \in SUBSET (1..m) /\ bad # {}
    BY <1>4, <2>1
  <2>3. PICK k \in bad : \A i \in bad : k <= i
    BY <2>2, Extremes
  <2>4. /\ k \in 1..m /\ e[k] # k /\ k \in 1..n
        /\ \A i \in 1..m : i < k => e[i] = i
    <3>1. k \in 1..m /\ e[k] # k
      BY <2>1
    <3>2. k \in 1..n
      BY <1>2, <1>3, <3>1
    <3>3. ASSUME NEW i \in 1..m, i < k, e[i] # i PROVE FALSE
      <4>1. i \in bad
        BY <2>1, <3>3
      <4>2. k <= i
        BY <2>3, <4>1
      <4> QED BY <3>1, <3>3, <4>2
    <3> QED BY <3>1, <3>2, <3>3
  <2>5. PICK h \in 1..n : e[h] = k
    BY <1>2, <2>4
  <2>6. h > k
    BY <1>2, <1>3, <2>4, <2>5
  <2>7. e[k] < k /\ e[k] \in 1..k - 1
    BY <1>2, <2>4, <2>5, <2>6
  <2>8. PICK q \in 1..k - 1 : q = e[k]
    BY <2>7
  <2>9. q \in 1..m /\ q < k /\ q \in 1..n /\ e[q] = q
    <3>1. q \in 1..m /\ q < k /\ q \in 1..n
      BY <1>2, <2>4, <2>8
    <3> QED BY <2>4, <3>1
  <2>10. e[q] < e[k]
    BY <1>2, <2>4, <2>9
  <2> QED BY <2>8, <2>9, <2>10
<1>5. \A k \in 1..m : e[k] = k
  BY <1>4
<1>6. ASSUME NEW k \in 1..n, k > m PROVE e[k] > m
  <2>1. CASE m = 0
    BY <1>2, <2>1
  <2>2. CASE m # 0
    <3>1. m \in 1..m /\ m \in 1..n
      BY <1>2, <1>3, <2>2
    <3>2. e[m] < e[k] /\ e[m] = m
      BY <1>2, <1>5, <1>6, <3>1
    <3> QED BY <3>2
  <2> QED BY <2>1, <2>2
<1> QED BY <1>1, <1>3, <1>5, <1>6

-----------------------------------------------------------------------------
(* Ranks in an order.                                                        *)

\* How many come before i in the order R of B.
Preceding(B, R, i) == {j \in B : <<j, i>> \in R}
RankIn(B, R, i) == Cardinality(Preceding(B, R, i))
IsOrder(B, R) ==
  /\ \A i \in B : <<i, i>> \notin R
  /\ \A i, j \in B : i # j => <<i, j>> \in R \/ <<j, i>> \in R
  /\ \A i, j, k \in B : <<i, j>> \in R /\ <<j, k>> \in R => <<i, k>> \in R

\* Who comes first has the lower rank; ranks are distinct and below the size.
LEMMA RanksIncrease ==
  ASSUME NEW B, IsFiniteSet(B), NEW R, IsOrder(B, R)
  PROVE  /\ \A i \in B : RankIn(B, R, i) \in 0..Cardinality(B) - 1
         /\ \A i, j \in B : <<i, j>> \in R => RankIn(B, R, i) < RankIn(B, R, j)
         /\ \A i, j \in B : RankIn(B, R, i) = RankIn(B, R, j) => i = j
<1>1. ASSUME NEW i \in B
      PROVE  /\ IsFiniteSet(Preceding(B, R, i)) /\ RankIn(B, R, i) \in Nat
             /\ RankIn(B, R, i) <= Cardinality(B) - 1 /\ Cardinality(B) \in Nat
  <2>1. Preceding(B, R, i) \subseteq B \ {i}
    BY DEF Preceding, IsOrder
  <2>2. /\ IsFiniteSet(B \ {i}) /\ Cardinality(B \ {i}) = Cardinality(B) - 1
        /\ Cardinality(B) \in Nat
    BY FS_RemoveElement, FS_CardinalityType
  <2>3. /\ IsFiniteSet(Preceding(B, R, i))
        /\ Cardinality(Preceding(B, R, i)) <= Cardinality(B \ {i})
    BY <2>1, <2>2, FS_Subset
  <2>4. Cardinality(Preceding(B, R, i)) \in Nat
    BY <2>3, FS_CardinalityType
  <2> QED BY <2>2, <2>3, <2>4 DEF RankIn
<1>2. ASSUME NEW i \in B, NEW j \in B, <<i, j>> \in R
      PROVE  RankIn(B, R, i) < RankIn(B, R, j)
  <2>1. Preceding(B, R, i) \cup {i} \subseteq Preceding(B, R, j) /\ i \notin Preceding(B, R, i)
    BY <1>2 DEF Preceding, IsOrder
  <2>2. /\ IsFiniteSet(Preceding(B, R, i) \cup {i})
        /\ Cardinality(Preceding(B, R, i) \cup {i}) = RankIn(B, R, i) + 1
    BY <1>1, <2>1, FS_AddElement DEF RankIn
  <2>3. Cardinality(Preceding(B, R, i) \cup {i}) <= RankIn(B, R, j)
    BY <1>1, <2>1, FS_Subset DEF RankIn
  <2> QED BY <1>1, <2>2, <2>3
<1>3. ASSUME NEW i \in B, NEW j \in B, RankIn(B, R, i) = RankIn(B, R, j), i # j PROVE FALSE
  <2>1. <<i, j>> \in R \/ <<j, i>> \in R
    BY <1>3 DEF IsOrder
  <2>2. RankIn(B, R, i) < RankIn(B, R, j) \/ RankIn(B, R, j) < RankIn(B, R, i)
    BY <1>2, <2>1
  <2> QED BY <1>1, <1>3, <2>2
<1>4. \A i \in B : RankIn(B, R, i) \in 0..Cardinality(B) - 1
  BY <1>1
<1> QED BY <1>2, <1>3, <1>4

\* As many as k are among the first k.
LEMMA FirstOfOrder ==
  ASSUME NEW B, IsFiniteSet(B), NEW R, IsOrder(B, R), NEW k \in 0..Cardinality(B),
         NEW low, low = {i \in B : RankIn(B, R, i) < k}
  PROVE  IsFiniteSet(low) /\ Cardinality(low) = k
<1>1. PICK n : n = Cardinality(B) /\ n \in Nat
  BY FS_CardinalityType
<1>2. PICK f : f = [i \in B |-> RankIn(B, R, i)]
  OBVIOUS
<1>3. /\ f \in [B -> 0..n - 1]
      /\ \A i, j \in B : f[i] = f[j] => i = j
      /\ \A i \in B : f[i] = RankIn(B, R, i)
  BY <1>1, <1>2, RanksIncrease
<1>4. IsFiniteSet(0..n - 1) /\ Cardinality(0..n - 1) = n
  <2>1. 0 \in Int /\ n - 1 \in Int
    BY <1>1
  <2>2. IsFiniteSet(0..n - 1) /\ Cardinality(0..n - 1) = IF 0 > n - 1 THEN 0 ELSE n - 1 - 0 + 1
    BY <2>1, FS_Interval
  <2> QED BY <1>1, <2>2
<1>5. f \in Injection(B, 0..n - 1)
  BY <1>3 DEF Injection, IsInjective
<1>6. f \in Surjection(B, 0..n - 1)
  BY <1>1, <1>4, <1>5, FS_Injection
<1>7. \A r \in 0..n - 1 : \E i \in B : f[i] = r
  BY <1>3, <1>6 DEF Surjection, Range
<1>8. PICK g : g = [i \in low |-> f[i]]
  OBVIOUS
<1>9. /\ g \in [low -> 0..k - 1]
      /\ \A i, j \in low : g[i] = g[j] => i = j
  <2>1. \A i \in low : i \in B /\ f[i] \in 0..k - 1
    BY <1>1, <1>3
  <2> QED BY <1>3, <1>8, <2>1
<1>10. \A r \in 0..k - 1 : \E i \in low : g[i] = r
  <2> SUFFICES ASSUME NEW r \in 0..k - 1 PROVE \E i \in low : g[i] = r
    OBVIOUS
  <2>1. r \in 0..n - 1 /\ r < k
    BY <1>1
  <2>2. PICK i \in B : f[i] = r
    BY <1>7, <2>1
  <2>3. i \in low
    BY <1>3, <2>1, <2>2
  <2> QED BY <1>8, <2>2, <2>3
<1>11. /\ g \in Injection(low, 0..k - 1) /\ g \in Surjection(low, 0..k - 1)
  <2>1. g \in Injection(low, 0..k - 1)
    BY <1>9 DEF Injection, IsInjective
  <2>2. Range(g) = 0..k - 1
    BY <1>9, <1>10 DEF Range
  <2> QED BY <1>9, <1>10, <2>1, <2>2 DEF Surjection
<1>12. IsFiniteSet(0..k - 1) /\ Cardinality(0..k - 1) = k
  <2>1. 0 \in Int /\ k - 1 \in Int /\ k \in Nat
    BY <1>1
  <2>2. IsFiniteSet(0..k - 1) /\ Cardinality(0..k - 1) = IF 0 > k - 1 THEN 0 ELSE k - 1 - 0 + 1
    BY <2>1, FS_Interval
  <2> QED BY <2>1, <2>2
<1>13. IsFiniteSet(low) /\ (Cardinality(low) = Cardinality(0..k - 1) <=> g \in Surjection(low, 0..k - 1))
  BY <1>11, <1>12, FS_Injection
<1> QED BY <1>11, <1>12, <1>13

\* Every rank below the size is somebody's.
LEMMA RanksTaken ==
  ASSUME NEW B, IsFiniteSet(B), NEW R, IsOrder(B, R), NEW r \in 0..Cardinality(B) - 1
  PROVE  \E i \in B : RankIn(B, R, i) = r
<1>1. PICK low, more : /\ low = {i \in B : RankIn(B, R, i) < r}
                       /\ more = {i \in B : RankIn(B, R, i) < r + 1}
  OBVIOUS
<1>2. r \in 0..Cardinality(B) /\ r + 1 \in 0..Cardinality(B)
  BY FS_CardinalityType
<1>3. Cardinality(low) = r /\ Cardinality(more) = r + 1
  BY <1>1, <1>2, FirstOfOrder
<1>4. \A i \in B : RankIn(B, R, i) \in Nat
  BY RanksIncrease
<1>5. low \subseteq more
  BY <1>1, <1>4
<1>6. low # more
  BY <1>3
<1>7. PICK i \in more : i \notin low
  BY <1>5, <1>6
<1> QED BY <1>1, <1>4, <1>7

-----------------------------------------------------------------------------
(* Numbers.  The powers of two are the sizes of sets of subsets.             *)

\* A set of numbers has a least.
LEMMA LeastOfNat ==
  ASSUME NEW S \in SUBSET Nat, S # {}
  PROVE  Min(S) \in S /\ \A n \in S : Min(S) <= n
<1>1. \E m \in S : \A n \in S : m <= n
  <2>1. PICK k \in S : TRUE
    OBVIOUS
  <2> DEFINE at == {i \in 1..(k + 1) : (k + 1) - i \in S}
  <2>2. k \in Nat /\ k + 1 \in Nat /\ 1 \in at
    BY <2>1
  <2>3. PICK m \in at : \A i \in at : i <= m
    BY <2>2, LargestMember
  <2>4. (k + 1) - m \in S /\ m \in 1..(k + 1)
    OBVIOUS
  <2>5. ASSUME NEW n \in S PROVE (k + 1) - m <= n
    <3>1. n \in Nat
      OBVIOUS
    <3>2. CASE n <= k
      <4>1. (k + 1) - n \in 1..(k + 1) /\ (k + 1) - ((k + 1) - n) = n
        BY <2>2, <3>1, <3>2
      <4>2. (k + 1) - n \in at
        BY <4>1
      <4>3. (k + 1) - n <= m
        BY <2>3, <4>2
      <4> QED BY <2>2, <2>4, <3>1, <4>3
    <3>3. CASE n > k
      BY <2>2, <2>4, <3>1, <3>3
    <3> QED BY <2>2, <3>1, <3>2, <3>3
  <2> QED BY <2>4, <2>5
<1> QED BY <1>1 DEF Min

\* Powers of two are positive and do not fall.
LEMMA PowersOfTwo ==
  ASSUME NEW n \in Nat
  PROVE  2^n \in Nat \ {0} /\ \A m \in Nat : m <= n => 2^m <= 2^n
<1>1. ASSUME NEW k \in Nat
      PROVE  IsFiniteSet(SUBSET (1..k)) /\ Cardinality(SUBSET (1..k)) = 2^k /\ 2^k \in Nat
  <2>1. 1 \in Int /\ k \in Int
    OBVIOUS
  <2>2. IsFiniteSet(1..k) /\ Cardinality(1..k) = k
    <3>1. Cardinality(1..k) = IF 1 > k THEN 0 ELSE k - 1 + 1
      BY <2>1, FS_Interval
    <3> QED BY <2>1, <3>1, FS_Interval
  <2>3. IsFiniteSet(SUBSET (1..k)) /\ Cardinality(SUBSET (1..k)) = 2^k
    BY <2>2, FS_SUBSET
  <2>4. Cardinality(SUBSET (1..k)) \in Nat
    BY <2>3, FS_CardinalityType
  <2> QED BY <2>3, <2>4
<1>2. 2^n # 0
  <2>1. SUBSET (1..n) # {}
    OBVIOUS
  <2> QED BY <1>1, <2>1, FS_EmptySet
<1>3. ASSUME NEW m \in Nat, m <= n PROVE 2^m <= 2^n
  <2>1. 1..m \subseteq 1..n
    BY <1>3
  <2>2. SUBSET (1..m) \subseteq SUBSET (1..n)
    BY <2>1
  <2>3. Cardinality(SUBSET (1..m)) <= Cardinality(SUBSET (1..n))
    BY <1>1, <2>2, FS_Subset
  <2> QED BY <1>1, <2>3
<1> QED BY <1>1, <1>2, <1>3

\* The next power of two is twice this one.
LEMMA PowerDoubles ==
  ASSUME NEW n \in Nat
  PROVE  2^(n + 1) = 2 * 2^n
<1> DEFINE A == SUBSET (1..n)
           B == {s \cup {n + 1} : s \in A}
           put == [s \in A |-> s \cup {n + 1}]
<1>1. \A k \in Nat : IsFiniteSet(SUBSET (1..k)) /\ Cardinality(SUBSET (1..k)) = 2^k /\ 2^k \in Nat
  <2> SUFFICES ASSUME NEW k \in Nat
               PROVE  IsFiniteSet(SUBSET (1..k)) /\ Cardinality(SUBSET (1..k)) = 2^k /\ 2^k \in Nat
    OBVIOUS
  <2>1. IsFiniteSet(1..k) /\ Cardinality(1..k) = k
    <3>1. 1 \in Int /\ k \in Int
      OBVIOUS
    <3>2. IsFiniteSet(1..k) /\ Cardinality(1..k) = IF 1 > k THEN 0 ELSE k - 1 + 1
      BY <3>1, FS_Interval
    <3> QED BY <3>1, <3>2
  <2>2. IsFiniteSet(SUBSET (1..k)) /\ Cardinality(SUBSET (1..k)) = 2^k
    BY <2>1, FS_SUBSET
  <2> QED BY <2>2, FS_CardinalityType
<1>2. put \in Bijection(A, B)
  <2>1. put \in Surjection(A, B)
    BY DEF Surjection
  <2>2. \A s, r \in A : put[s] = put[r] => s = r
    <3>1. \A s \in A : n + 1 \notin s
      OBVIOUS
    <3> QED BY <3>1
  <2>3. put \in Injection(A, B)
    BY <2>1, <2>2 DEF Surjection, Injection, IsInjective
  <2> QED BY <2>1, <2>3 DEF Bijection
<1>3. IsFiniteSet(A) /\ Cardinality(A) = 2^n
  BY <1>1
<1>4. IsFiniteSet(B) /\ Cardinality(B) = 2^n
  <2> HIDE DEF A, B, put
  <2>1. ExistsBijection(A, B)
    BY <1>2 DEF ExistsBijection
  <2> QED BY <1>3, <2>1, FS_Bijection
<1>5. A \cap B = {}
  OBVIOUS
<1>6. A \cup B = SUBSET (1..(n + 1))
  <2>1. ASSUME NEW s \in SUBSET (1..(n + 1)), n + 1 \in s PROVE s \in B
    <3>1. s \ {n + 1} \in A
      OBVIOUS
    <3>2. s = (s \ {n + 1}) \cup {n + 1}
      BY <2>1
    <3> QED BY <3>1, <3>2
  <2>2. ASSUME NEW s \in SUBSET (1..(n + 1)), n + 1 \notin s PROVE s \in A
    BY <2>2
  <2>3. A \subseteq SUBSET (1..(n + 1)) /\ B \subseteq SUBSET (1..(n + 1))
    <3>1. 1..n \subseteq 1..(n + 1) /\ n + 1 \in 1..(n + 1)
      OBVIOUS
    <3>2. \A s \in A : s \subseteq 1..(n + 1) /\ s \cup {n + 1} \subseteq 1..(n + 1)
      BY <3>1
    <3> QED BY <3>2
  <2> QED BY <2>1, <2>2, <2>3
<1>7. Cardinality(A \cup B) = Cardinality(A) + Cardinality(B) - Cardinality(A \cap B)
  BY <1>3, <1>4, FS_Union
<1>8. Cardinality(SUBSET (1..(n + 1))) = 2^(n + 1)
  BY <1>1
<1> HIDE DEF A, B, put
<1>9. 2^(n + 1) = 2^n + 2^n - 0
  BY <1>3, <1>4, <1>5, <1>6, <1>7, <1>8, FS_EmptySet
<1> QED BY <1>1, <1>9

\* Exponents add.
LEMMA PowerOfSum ==
  ASSUME NEW a \in Nat, NEW b \in Nat
  PROVE  2^(a + b) = 2^a * 2^b
<1> DEFINE S == {k \in Nat : 2^(a + k) # 2^a * 2^k}
<1>1. ASSUME S # {} PROVE FALSE
  <2>1. PICK k \in S : \A m \in S : k <= m
    BY <1>1, LeastOfNat
  <2>2. k \in Nat /\ 2^(a + k) # 2^a * 2^k
    BY <2>1
  <2>3. 2^a \in Nat /\ 2^0 = 1
    BY PowersOfTwo
  <2>4. k # 0
    <3>1. ASSUME k = 0 PROVE FALSE
      <4>1. a + k = a
        BY <3>1
      <4>2. 2^a * 2^k = 2^a
        BY <2>3, <3>1
      <4> QED BY <2>2, <4>1, <4>2
    <3> QED BY <3>1
  <2>5. PICK m \in Nat : k = m + 1
    BY <2>2, <2>4
  <2>6. 2^(a + m) = 2^a * 2^m
    <3>1. m \notin S
      BY <2>1, <2>5
    <3> QED BY <3>1
  <2>7. 2^(m + 1) = 2 * 2^m /\ 2^((a + m) + 1) = 2 * 2^(a + m)
    BY PowerDoubles
  <2>8. PICK p \in Nat, q \in Nat : p = 2^a /\ q = 2^m
    BY PowersOfTwo
  <2>9. a + k = (a + m) + 1
    BY <2>5
  <2>10. 2^(a + k) = 2 * (p * q) /\ 2^a * 2^k = p * (2 * q)
    BY <2>5, <2>6, <2>7, <2>8, <2>9
  <2>11. 2 * (p * q) = p * (2 * q)
    BY <2>8
  <2> QED BY <2>2, <2>10, <2>11
<1> QED BY <1>1

\* A larger exponent is a larger power.
LEMMA PowersIncrease ==
  ASSUME NEW a \in Nat, NEW b \in Nat
  PROVE  2^a < 2^b <=> a < b
<1>1. ASSUME NEW m \in Nat, NEW n \in Nat, m < n PROVE 2^m < 2^n
  <2>1. PICK p \in Nat \ {0} : p = 2^m
    BY PowersOfTwo
  <2>2. 2^(m + 1) = 2 * p
    BY <2>1, PowerDoubles
  <2>3. m + 1 <= n /\ m + 1 \in Nat
    BY <1>1
  <2>4. 2^(m + 1) <= 2^n /\ 2^n \in Nat
    BY <2>3, PowersOfTwo
  <2> QED BY <2>1, <2>2, <2>4
<1>2. 2^a \in Nat /\ 2^b \in Nat
  BY PowersOfTwo
<1>3. CASE a < b
  BY <1>1, <1>3
<1>4. CASE a = b
  BY <1>2, <1>4
<1>5. CASE b < a
  BY <1>1, <1>2, <1>5
<1> QED BY <1>3, <1>4, <1>5

\* A factor comes out of a sum.
LEMMA SumScaled ==
  ASSUME NEW T, IsFiniteSet(T), NEW c \in Int, NEW f, NEW g,
         \A x \in T : f[x] \in Int /\ g[x] = c * f[x]
  PROVE  SumOver(g, T) = c * SumOver(f, T)
<1> DEFINE F == {q \in SUBSET T : SumOver(g, q) # c * SumOver(f, q)}
<1>1. ASSUME F # {} PROVE FALSE
  <2>1. F \in SUBSET SUBSET T
    OBVIOUS
  <2>2. PICK q \in F : \A p \in F : p \subseteq q => p = q
    <3> HIDE DEF F
    <3> QED BY <1>1, <2>1, SmallestMember
  <2>3. \A x \in T : f[x] \in Int /\ g[x] \in Int
    OBVIOUS
  <2>4. /\ SumOver(f, {}) = 0 /\ SumOver(g, {}) = 0
        /\ \A p \in SUBSET T : SumOver(f, p) \in Int /\ SumOver(g, p) \in Int
        /\ \A p \in SUBSET T : \A x \in p :
              /\ SumOver(f, p) = f[x] + SumOver(f, p \ {x})
              /\ SumOver(g, p) = g[x] + SumOver(g, p \ {x})
    BY <2>3, SumFacts
  <2>5. q \in SUBSET T /\ SumOver(g, q) # c * SumOver(f, q) /\ q # {}
    <3>1. q \in SUBSET T /\ SumOver(g, q) # c * SumOver(f, q)
      BY <2>2
    <3>2. c * 0 = 0
      OBVIOUS
    <3>3. q = {} => SumOver(g, q) = c * SumOver(f, q)
      BY <2>4, <3>2
    <3> QED BY <3>1, <3>3
  <2>6. PICK x \in q : TRUE
    BY <2>5
  <2>7. SumOver(g, q \ {x}) = c * SumOver(f, q \ {x})
    BY <2>2, <2>5, <2>6
  <2>8. PICK m \in Int, n \in Int : m = f[x] /\ n = SumOver(f, q \ {x})
    BY <2>3, <2>4, <2>5, <2>6
  <2>9. SumOver(g, q) = c * m + c * n /\ SumOver(f, q) = m + n
    BY <2>4, <2>5, <2>6, <2>7, <2>8
  <2>10. c * m + c * n = c * (m + n)
    BY <2>8
  <2> QED BY <2>5, <2>9, <2>10
<1> QED BY <1>1

=============================================================================
