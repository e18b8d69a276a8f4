----------------------- MODULE DownloadProgressProofs -----------------------
(***************************************************************************)
(* The counts and the events of a download, for any number of chunks and   *)
(* workers, any lengths and any sizes of a plain body.                     *)
(***************************************************************************)
EXTENDS DownloadProgress, FiniteSetTheorems, WellFoundedInduction, NaturalsInduction,
        TLAPS

-----------------------------------------------------------------------------
(* Sums over finite sets. *)

SumOf(f, S) == MapThenSumSet(LAMBDA x : f[x], S)

\* MapThenFoldSet's next element, and what its function is at one set.
Pick(s) == CHOOSE x \in s : TRUE
Fold(f, g, s) == IF s = {} THEN 0 ELSE f[Pick(s)] + g[s \ {Pick(s)}]
IsFold(f, g, S) == g = [s \in SUBSET S |-> Fold(f, g, s)]

LEMMA PickIn == ASSUME NEW s, s # {} PROVE Pick(s) \in s
  BY DEF Pick

LEMMA LeastNumber ==
  ASSUME NEW T \in SUBSET Nat, T # {}
  PROVE  \E n \in T : \A m \in T : n <= m
<1> DEFINE R == OpToRel(<, Nat)
<1>1. IsWellFoundedOn(R, Nat)
  BY NatLessThanWellFounded
<1>2. PICK n \in T : \A m \in T : <<m, n>> \notin R
  <2> HIDE DEF R
  <2> QED
    BY <1>1, WFMin
<1>3. \A m \in T : ~(m < n)
  BY <1>2 DEF OpToRel
<1> QED
  BY <1>3

\* The sets of at most n elements are closed under taking one away.
Small(S, n) == {s \in SUBSET S : Cardinality(s) <= n}

LEMMA SmallSets ==
  ASSUME NEW S, IsFiniteSet(S), NEW n \in Nat
  PROVE  /\ Small(S, 0) = {{}}
         /\ \A s \in Small(S, n + 1) : s # {} => s \ {Pick(s)} \in Small(S, n)
         /\ Small(S, Cardinality(S)) = SUBSET S
<1>1. \A s \in SUBSET S : IsFiniteSet(s) /\ Cardinality(s) \in Nat /\ Cardinality(s) <= Cardinality(S)
  BY FS_Subset, FS_CardinalityType
<1>2. Small(S, 0) = {{}}
  BY <1>1, FS_EmptySet DEF Small
<1>3. ASSUME NEW s \in Small(S, n + 1), s # {}
      PROVE  s \ {Pick(s)} \in Small(S, n)
  <2>1. Cardinality(s \ {Pick(s)}) = Cardinality(s) - 1
    BY <1>1, <1>3, PickIn, FS_RemoveElement DEF Small
  <2> QED
    BY <1>1, <1>3, <2>1 DEF Small
<1> QED
  BY <1>1, <1>2, <1>3 DEF Small

\* The recursive function that MapThenFoldSet chooses exists.
LEMMA FoldExists ==
  ASSUME NEW f, NEW S, IsFiniteSet(S)
  PROVE  \E g : IsFold(f, g, S)
<1> DEFINE Has(n) == \E g : g = [s \in Small(S, n) |-> Fold(f, g, s)]
           T == {n \in Nat : ~Has(n)}
<1>1. Has(0)
  <2> DEFINE g == [s \in Small(S, 0) |-> 0]
  <2>1. g = [s \in Small(S, 0) |-> Fold(f, g, s)]
    BY SmallSets DEF Fold
  <2> HIDE DEF g
  <2> QED
    BY <2>1
<1>2. ASSUME NEW n \in Nat, Has(n)
      PROVE  Has(n + 1)
  <2>1. PICK h : h = [s \in Small(S, n) |-> Fold(f, h, s)]
    BY <1>2
  <2> DEFINE g == [s \in Small(S, n + 1) |-> Fold(f, h, s)]
  <2>2. Small(S, n) \subseteq Small(S, n + 1)
    BY FS_Subset, FS_CardinalityType DEF Small
  <2>3. \A s \in Small(S, n) : g[s] = h[s]
    BY <2>1, <2>2
  <2>4. \A s \in Small(S, n + 1) : Fold(f, h, s) = Fold(f, g, s)
    BY <2>3, SmallSets DEF Fold
  <2>5. g = [s \in Small(S, n + 1) |-> Fold(f, g, s)]
    BY <2>4
  <2> HIDE DEF g
  <2> QED
    BY <2>5
<1>3. T = {}
  <2> SUFFICES ASSUME T # {} PROVE FALSE
    OBVIOUS
  <2> HIDE DEF Has
  <2>1. PICK n \in T : \A m \in T : n <= m
    BY LeastNumber
  <2>2. n # 0 /\ n - 1 \in Nat /\ n - 1 \notin T
    BY <1>1, <2>1
  <2>3. Has((n - 1) + 1)
    BY <1>2, <2>2
  <2> QED
    BY <2>1, <2>3
<1>4. Has(Cardinality(S))
  <2> HIDE DEF Has
  <2> QED
    BY <1>3, FS_CardinalityType
<1> QED
  BY <1>4, SmallSets DEF IsFold

\* What the function is at a set does not depend on the set it was made for.
LEMMA FoldsAgree ==
  ASSUME NEW f, NEW S, IsFiniteSet(S), NEW g, IsFold(f, g, S),
         NEW R, IsFiniteSet(R), NEW h, IsFold(f, h, R),
         NEW s \in SUBSET S, s \in SUBSET R
  PROVE  g[s] = h[s]
<1> DEFINE Bad == {s2 \in (SUBSET S) \cap (SUBSET R) : g[s2] # h[s2]}
           Sizes2 == {Cardinality(s2) : s2 \in Bad}
<1>1. SUFFICES ASSUME g[s] # h[s] PROVE FALSE
  OBVIOUS
<1> s \in Bad
  BY <1>1
<1>2. \A s2 \in SUBSET S : IsFiniteSet(s2) /\ Cardinality(s2) \in Nat
  BY FS_Subset, FS_CardinalityType
<1>3. Sizes2 \in SUBSET Nat /\ Sizes2 # {}
  BY <1>1, <1>2
<1>4. PICK t \in Bad : \A s2 \in Bad : Cardinality(t) <= Cardinality(s2)
  <2> HIDE DEF Bad
  <2>1. PICK n \in Sizes2 : \A m \in Sizes2 : n <= m
    BY <1>3, LeastNumber
  <2> QED
    BY <2>1
<1>5. g[t] = Fold(f, g, t) /\ h[t] = Fold(f, h, t)
  <2>1. t \in SUBSET S /\ t \in SUBSET R
    BY <1>4
  <2>2. g = [s2 \in SUBSET S |-> Fold(f, g, s2)] /\ h = [s2 \in SUBSET R |-> Fold(f, h, s2)]
    BY DEF IsFold
  <2> HIDE DEF Bad
  <2>3. g[t] = Fold(f, g, t)
    BY <2>1, <2>2
  <2>4. h[t] = Fold(f, h, t)
    BY <2>1, <2>2
  <2> QED
    BY <2>3, <2>4
<1>6. t # {}
  BY <1>4, <1>5 DEF Fold
<1>7. t \ {Pick(t)} \in (SUBSET S) \cap (SUBSET R) /\ Cardinality(t \ {Pick(t)}) < Cardinality(t)
  <2>1. t \in SUBSET S /\ t \in SUBSET R
    BY <1>4
  <2>2. Pick(t) \in t
    BY <1>6, PickIn
  <2>3. IsFiniteSet(t) /\ Cardinality(t) \in Nat
    BY <1>2, <2>1
  <2> HIDE DEF Bad
  <2>4. Cardinality(t \ {Pick(t)}) = Cardinality(t) - 1
    BY <2>2, <2>3, FS_RemoveElement
  <2> QED
    BY <2>1, <2>3, <2>4
<1>8. t \ {Pick(t)} \notin Bad
  BY <1>2, <1>4, <1>7
<1> QED
  BY <1>4, <1>5, <1>6, <1>7, <1>8 DEF Fold

LEMMA SumIsFold ==
  ASSUME NEW f, NEW S, IsFiniteSet(S)
  PROVE  \E g : IsFold(f, g, S) /\ SumOf(f, S) = g[S]
<1> DEFINE g == CHOOSE g : g = [s \in SUBSET S |->
                                  IF s = {} THEN 0
                                  ELSE f[CHOOSE x \in s : TRUE]
                                         + g[s \ {CHOOSE x \in s : TRUE}]]
<1>1. SumOf(f, S) = g[S]
  BY SMT DEF SumOf, MapThenSumSet, MapThenFoldSet
<1>2. g = CHOOSE h : IsFold(f, h, S)
  BY SMT DEF IsFold, Fold, Pick
<1>3. IsFold(f, g, S)
  <2> HIDE DEF g
  <2> QED
    BY <1>2, FoldExists
<1> QED
  BY <1>1, <1>3

LEMMA SumUnfold ==
  ASSUME NEW f, NEW S, IsFiniteSet(S), S # {}
  PROVE  SumOf(f, S) = f[Pick(S)] + SumOf(f, S \ {Pick(S)})
<1>1. PICK g : IsFold(f, g, S) /\ SumOf(f, S) = g[S]
  BY SumIsFold
<1>2. IsFiniteSet(S \ {Pick(S)})
  BY FS_RemoveElement
<1>3. PICK h : IsFold(f, h, S \ {Pick(S)}) /\ SumOf(f, S \ {Pick(S)}) = h[S \ {Pick(S)}]
  BY <1>2, SumIsFold
<1>4. g[S \ {Pick(S)}] = h[S \ {Pick(S)}]
  BY <1>1, <1>2, <1>3, FoldsAgree
<1>5. g[S] = Fold(f, g, S)
  BY <1>1 DEF IsFold
<1> QED
  BY <1>1, <1>3, <1>4, <1>5 DEF Fold

LEMMA SumEmpty == ASSUME NEW f PROVE SumOf(f, {}) = 0
<1>1. PICK g : IsFold(f, g, {}) /\ SumOf(f, {}) = g[{}]
  BY SumIsFold, FS_EmptySet
<1> QED
  BY <1>1 DEF IsFold, Fold

\* Induction on the size of a set.
LEMMA SmallestSet ==
  ASSUME NEW S, IsFiniteSet(S), NEW B \in SUBSET SUBSET S, B # {}
  PROVE  \E t \in B : \A s \in B : Cardinality(t) <= Cardinality(s)
<1> DEFINE C == {Cardinality(s) : s \in B}
<1>1. C \in SUBSET Nat /\ C # {}
  BY FS_Subset, FS_CardinalityType
<1>2. PICK n \in C : \A m \in C : n <= m
  BY <1>1, LeastNumber
<1> QED
  BY <1>2

\* An element can be taken out wherever it is.
LEMMA SumRemove ==
  ASSUME NEW f, NEW S, IsFiniteSet(S), \A x \in S : f[x] \in Nat
  PROVE  /\ SumOf(f, S) \in Nat
         /\ \A x \in S : SumOf(f, S) = f[x] + SumOf(f, S \ {x})
<1> DEFINE Good(s) == /\ SumOf(f, s) \in Nat
                      /\ \A x \in s : SumOf(f, s) = f[x] + SumOf(f, s \ {x})
           B == {s \in SUBSET S : ~Good(s)}
<1>1. SUFFICES ASSUME B # {} PROVE FALSE
  BY <1>1
<1>2. PICK t \in B : \A s \in B : Cardinality(t) <= Cardinality(s)
  <2> HIDE DEF B
  <2>1. B \in SUBSET SUBSET S
    BY DEF B
  <2> QED
    BY <1>1, <2>1, SmallestSet
<1>3. t # {}
  <2>1. Good({})
    BY SumEmpty
  <2> HIDE DEF Good
  <2> QED
    BY <1>2, <2>1
<1>4. \A x \in t : IsFiniteSet(t) /\ IsFiniteSet(t \ {x}) /\ Cardinality(t \ {x}) < Cardinality(t)
  BY <1>2, FS_Subset, FS_RemoveElement, FS_CardinalityType
<1>5. \A x \in t : Good(t \ {x})
  <2> HIDE DEF Good
  <2> TAKE x \in t
  <2>1. t \ {x} \in SUBSET S /\ Cardinality(t \ {x}) \in Nat /\ Cardinality(t) \in Nat
    BY <1>2, <1>4, FS_CardinalityType
  <2> QED
    BY <1>2, <1>4, <2>1
<1> DEFINE p == Pick(t)
<1>6. p \in t /\ SumOf(f, t) = f[p] + SumOf(f, t \ {p}) /\ f[p] \in Nat
  BY <1>2, <1>3, <1>4, PickIn, SumUnfold
<1>7. SumOf(f, t \ {p}) \in Nat
  BY <1>5, <1>6
<1>8. ASSUME NEW x \in t, x # p
      PROVE  SumOf(f, t) = f[x] + SumOf(f, t \ {x})
  <2>1. /\ SumOf(f, t \ {p}) = f[x] + SumOf(f, (t \ {p}) \ {x})
        /\ SumOf(f, t \ {x}) = f[p] + SumOf(f, (t \ {x}) \ {p})
    BY <1>5, <1>6, <1>8
  <2>2. (t \ {p}) \ {x} = (t \ {x}) \ {p}
    OBVIOUS
  <2>3. f[x] \in Nat /\ SumOf(f, (t \ {p}) \ {x}) \in Nat
    <3>1. IsFiniteSet((t \ {p}) \ {x}) /\ Cardinality((t \ {p}) \ {x}) < Cardinality(t)
      <4>1. IsFiniteSet(t \ {p}) /\ Cardinality(t \ {p}) < Cardinality(t)
        BY <1>4, <1>6
      <4>2. /\ IsFiniteSet((t \ {p}) \ {x})
            /\ Cardinality((t \ {p}) \ {x}) = Cardinality(t \ {p}) - 1
        BY <1>8, <4>1, FS_RemoveElement
      <4>3. Cardinality(t \ {p}) \in Nat /\ Cardinality(t) \in Nat
        BY <1>4, <1>6, FS_CardinalityType
      <4> QED
        BY <4>1, <4>2, <4>3
    <3>2. (t \ {p}) \ {x} \in SUBSET S /\ f[x] \in Nat
      BY <1>2
    <3>3. Cardinality((t \ {p}) \ {x}) \in Nat /\ Cardinality(t) \in Nat
      BY <1>4, <1>6, <3>1, FS_CardinalityType
    <3>4. Good((t \ {p}) \ {x})
      <4> HIDE DEF Good
      <4> QED
        BY <1>2, <3>1, <3>2, <3>3
    <3> QED
      BY <3>2, <3>4
  <2>4. SumOf(f, (t \ {p}) \ {x}) = SumOf(f, (t \ {x}) \ {p})
    BY <2>2
  <2> HIDE DEF p
  <2> QED
    BY <1>6, <2>1, <2>3, <2>4
<1> QED
  BY <1>2, <1>6, <1>7, <1>8

LEMMA SumSame ==
  ASSUME NEW f, NEW g, NEW S, IsFiniteSet(S), \A x \in S : f[x] = g[x]
  PROVE  SumOf(f, S) = SumOf(g, S)
<1> DEFINE B == {s \in SUBSET S : SumOf(f, s) # SumOf(g, s)}
<1>1. SUFFICES ASSUME B # {} PROVE FALSE
  BY <1>1
<1>2. PICK t \in B : \A s \in B : Cardinality(t) <= Cardinality(s)
  <2> HIDE DEF B
  <2>1. B \in SUBSET SUBSET S
    BY DEF B
  <2> QED
    BY <1>1, <2>1, SmallestSet
<1>3. t # {} /\ IsFiniteSet(t)
  BY <1>2, SumEmpty, FS_Subset
<1>4. /\ SumOf(f, t) = f[Pick(t)] + SumOf(f, t \ {Pick(t)})
      /\ SumOf(g, t) = g[Pick(t)] + SumOf(g, t \ {Pick(t)})
      /\ Pick(t) \in t
  BY <1>3, SumUnfold, PickIn
<1>5. Cardinality(t \ {Pick(t)}) < Cardinality(t)
  <2>1. /\ Cardinality(t \ {Pick(t)}) = Cardinality(t) - 1
        /\ Cardinality(t) \in Nat
    BY <1>3, <1>4, FS_RemoveElement, FS_CardinalityType
  <2> QED
    BY <2>1
<1>6. SumOf(f, t \ {Pick(t)}) = SumOf(g, t \ {Pick(t)})
  BY <1>2, <1>3, <1>5, FS_RemoveElement, FS_CardinalityType
<1> QED
  BY <1>2, <1>4, <1>6

\* One value changes.
LEMMA SumExcept ==
  ASSUME NEW S, IsFiniteSet(S), NEW f \in [S -> Nat], NEW g \in [S -> Nat], NEW x \in S,
         \A y \in S : y # x => g[y] = f[y]
  PROVE  SumOf(g, S) = (SumOf(f, S) - f[x]) + g[x]
<1>1. IsFiniteSet(S \ {x})
  BY FS_RemoveElement
<1>2. SumOf(g, S \ {x}) = SumOf(f, S \ {x})
  BY <1>1, SumSame
<1>3. /\ SumOf(f, S) = f[x] + SumOf(f, S \ {x})
      /\ SumOf(g, S) = g[x] + SumOf(g, S \ {x})
  BY SumRemove
<1>4. SumOf(f, S \ {x}) \in Nat
  BY <1>1, SumRemove
<1>5. f[x] \in Nat /\ g[x] \in Nat
  OBVIOUS
<1> QED
  BY <1>2, <1>3, <1>4, <1>5

LEMMA SumAdd ==
  ASSUME NEW f, NEW S, IsFiniteSet(S), NEW x, x \notin S, \A y \in S \cup {x} : f[y] \in Nat
  PROVE  SumOf(f, S \cup {x}) = SumOf(f, S) + f[x]
<1>1. (S \cup {x}) \ {x} = S /\ IsFiniteSet(S \cup {x})
  BY FS_AddElement
<1>2. SumOf(f, S \cup {x}) = f[x] + SumOf(f, S)
  BY <1>1, SumRemove
<1> QED
  BY <1>2, SumRemove

\* Smaller values have a smaller sum.
LEMMA SumBound ==
  ASSUME NEW S, IsFiniteSet(S), NEW f, NEW g,
         \A x \in S : f[x] \in Nat /\ g[x] \in Nat /\ f[x] <= g[x]
  PROVE  SumOf(f, S) <= SumOf(g, S)
<1> DEFINE B == {s \in SUBSET S : ~(SumOf(f, s) <= SumOf(g, s))}
<1>1. SUFFICES ASSUME B # {} PROVE FALSE
  BY <1>1
<1>2. PICK t \in B : \A s \in B : Cardinality(t) <= Cardinality(s)
  <2> HIDE DEF B
  <2>1. B \in SUBSET SUBSET S
    BY DEF B
  <2> QED
    BY <1>1, <2>1, SmallestSet
<1>3. t # {} /\ IsFiniteSet(t) /\ IsFiniteSet(t \ {Pick(t)})
  <2>1. SumOf(f, {}) <= SumOf(g, {})
    BY SumEmpty
  <2>2. IsFiniteSet(t)
    BY <1>2, FS_Subset
  <2> QED
    BY <1>2, <2>1, <2>2, FS_RemoveElement
<1>4. /\ SumOf(f, t) = f[Pick(t)] + SumOf(f, t \ {Pick(t)})
      /\ SumOf(g, t) = g[Pick(t)] + SumOf(g, t \ {Pick(t)})
      /\ Pick(t) \in t
  BY <1>3, SumUnfold, PickIn
<1>5. Cardinality(t \ {Pick(t)}) < Cardinality(t)
  <2>1. /\ Cardinality(t \ {Pick(t)}) = Cardinality(t) - 1
        /\ Cardinality(t) \in Nat
    BY <1>3, <1>4, FS_RemoveElement, FS_CardinalityType
  <2> QED
    BY <2>1
<1>6. SumOf(f, t \ {Pick(t)}) <= SumOf(g, t \ {Pick(t)})
  BY <1>2, <1>3, <1>5, FS_CardinalityType
<1>7. SumOf(f, t \ {Pick(t)}) \in Nat /\ SumOf(g, t \ {Pick(t)}) \in Nat
  BY <1>2, <1>3, SumRemove
<1> QED
  BY <1>2, <1>4, <1>6, <1>7

LEMMA SumZero ==
  ASSUME NEW f, NEW S, IsFiniteSet(S), \A x \in S : f[x] = 0
  PROVE  SumOf(f, S) = 0
<1> DEFINE B == {s \in SUBSET S : SumOf(f, s) # 0}
<1>1. SUFFICES ASSUME B # {} PROVE FALSE
  BY <1>1
<1>2. PICK t \in B : \A s \in B : Cardinality(t) <= Cardinality(s)
  <2> HIDE DEF B
  <2>1. B \in SUBSET SUBSET S
    BY DEF B
  <2> QED
    BY <1>1, <2>1, SmallestSet
<1>3. t # {} /\ IsFiniteSet(t)
  BY <1>2, SumEmpty, FS_Subset
<1>4. SumOf(f, t) = f[Pick(t)] + SumOf(f, t \ {Pick(t)}) /\ Pick(t) \in t
  BY <1>3, SumUnfold, PickIn
<1>5. Cardinality(t \ {Pick(t)}) < Cardinality(t)
  <2>1. /\ Cardinality(t \ {Pick(t)}) = Cardinality(t) - 1
        /\ Cardinality(t) \in Nat
    BY <1>3, <1>4, FS_RemoveElement, FS_CardinalityType
  <2> QED
    BY <2>1
<1>6. SumOf(f, t \ {Pick(t)}) = 0
  BY <1>2, <1>3, <1>5, FS_RemoveElement, FS_CardinalityType
<1> QED
  BY <1>2, <1>4, <1>6

-----------------------------------------------------------------------------
(* The inductive invariant. *)

\* A worker that has a chunk.
Busy(w) == work[w] \in {"copy", "undo"}

\* Each chunk that was claimed is finished or in one worker's hands.
ClaimsInv ==
  /\ phase = "start" => nextChunk = 1 /\ \A w \in Worker : work[w] = "idle" /\ chunk[w] = 0
  /\ phase \notin {"start", "ranged"} => \A w \in Worker : work[w] \in {"idle", "exited"}
  /\ nextChunk >= 1
  /\ \A w \in Worker : work[w] # "copy" => written[w] = 0
  /\ \A w \in Worker : work[w] = "copy" => written[w] <= Length[chunk[w]]
  /\ \A w \in Worker : Busy(w) => chunk[w] < nextChunk /\ chunk[w] \notin finished
  /\ \A v, w \in Worker : v # w /\ Busy(v) /\ Busy(w) => chunk[v] # chunk[w]
  /\ \A c \in finished : c < nextChunk

\* Without a failure no claimed chunk is forgotten, and nobody leaves before all are claimed.
CompleteInv ==
  phase = "ranged" /\ failure = "none" =>
    /\ \A c \in Chunk : c < nextChunk =>
         c \in finished \/ \E w \in Worker : Busy(w) /\ chunk[w] = c
    /\ \A w \in Worker : work[w] # "idle"
    /\ \A w \in Worker : work[w] = "exited" => nextChunk >= Chunks

\* What the reporter ends with when the call succeeds.
Complete(d, t) ==
  Event(d, t) \in IF size = 0 THEN {Event(RangedSize, RangedSize)}
                  ELSE {Event(size, size), Event(size, 0)}

\* What each step of the call leaves to the next.
CallInv ==
  /\ phase \in {"start", "ranged", "reset", "single"} => streamed = 0 /\ size = 0
  /\ phase \in {"start", "single"} => total = 0
  /\ phase = "ranged" => total = RangedSize
  /\ phase = "stream" => size \in Sizes /\ total \in {0, size}
  /\ phase = "start" => failure = "none"
  /\ phase = "reset" => failure = "other"
  /\ failure # "none" => undone
  /\ \A w \in Worker : work[w] = "undo" => undone
  /\ phase = "start" \/ (phase \in {"single", "stream"} /\ failure # "other") =>
       finished = {} /\ \A w \in Worker : work[w] = "idle"
  /\ outcome # "none" => phase \in {"stop", "wait", "returned"}
  /\ outcome = "ok" => Complete(downloaded, total)

FellBack == failure = "other" /\ phase # "ranged"

\* part[c] is what chunk c has contributed to the count.
Contributed(part) ==
  /\ \A c \in finished : part[c] = Length[c]
  /\ \A w \in Worker : work[w] = "copy" => part[chunk[w]] = written[w]
  /\ \A c \in Chunk : c \notin finished /\ (\A w \in Worker : ~(work[w] = "copy" /\ chunk[w] = c))
                        => part[c] = 0

CountInv ==
  /\ \E part \in [Chunk -> Nat] :
       /\ Contributed(part)
       /\ ~FellBack => downloaded = streamed + SumOf(part, Chunk)
  /\ downloaded = IF FellBack THEN streamed
                  ELSE streamed + SumOf(Length, finished) + SumOf(written, Worker)
  /\ failure # "other" => IF total = 0 THEN downloaded = streamed ELSE downloaded <= total

\* What is shown, about to be shown, and counted.
DeliveryInv ==
  /\ loaded >= 0 /\ last.Downloaded >= 0
  /\ stopping <=> phase \in {"wait", "returned"}
  /\ flush = "emit" => stopping /\ loaded = downloaded
  /\ flush = "stopped" => stopping /\ last = Event(downloaded, total)
  /\ phase = "returned" => flush = "stopped"
  /\ ~undone => last.Downloaded <= loaded /\ loaded <= downloaded
  /\ failure # "other" => /\ last.Total # 0 => last.Downloaded <= last.Total
                          /\ IF total = 0 THEN loaded <= streamed ELSE loaded <= total

IInv == TypeOK /\ ClaimsInv /\ CompleteInv /\ CallInv /\ CountInv /\ DeliveryInv

-----------------------------------------------------------------------------
(* The constants. *)

LEMMA Constants ==
  /\ Chunks \in Nat \ {0} /\ MaxAttempts \in Nat \ {0}
  /\ Sizes \subseteq Nat \ {0}
  /\ Length \in [Chunk -> Nat \ {0}]
  /\ Chunk \subseteq Nat /\ \A n \in Nat : n < Chunks <=> n \in Chunk
BY ProgressAssumption DEF Chunk

LEMMA Indices == IsFiniteSet(Chunk) /\ IsFiniteSet(Worker) /\ 0 \in Chunk /\ 0 \in Worker
<1>1. Chunks \in Nat \ {0} /\ Workers \in Nat \ {0}
  BY ProgressAssumption
<1>2. IsFiniteSet(0 .. Chunks - 1) /\ IsFiniteSet(0 .. Workers - 1)
  BY <1>1, FS_Interval
<1> HIDE DEF Chunks
<1> QED
  BY <1>1, <1>2 DEF Chunk, Worker

\* No chunk is longer than the file, and the file is not empty.
LEMMA RangedSizeBounds ==
  /\ RangedSize = SumOf(Length, Chunk)
  /\ RangedSize \in Nat \ {0}
  /\ \A c \in Chunk : Length[c] <= RangedSize
<1>1. RangedSize = SumOf(Length, Chunk)
  BY DEF RangedSize, Bytes, SumOf
<1>2. \A c \in Chunk : /\ SumOf(Length, Chunk) = Length[c] + SumOf(Length, Chunk \ {c})
                       /\ SumOf(Length, Chunk \ {c}) \in Nat
                       /\ Length[c] \in Nat \ {0}
  <2>1. \A c \in Chunk : Length[c] \in Nat /\ Length[c] # 0
    BY Constants
  <2>2. \A c \in Chunk : SumOf(Length, Chunk) = Length[c] + SumOf(Length, Chunk \ {c})
    BY <2>1, Indices, SumRemove
  <2>3. ASSUME NEW c \in Chunk PROVE SumOf(Length, Chunk \ {c}) \in Nat
    <3>1. IsFiniteSet(Chunk \ {c})
      BY Indices, FS_RemoveElement
    <3> QED
      BY <2>1, <3>1, SumRemove
  <2> QED
    BY <2>1, <2>2, <2>3
<1>3. ASSUME NEW c \in Chunk PROVE RangedSize \in Nat \ {0} /\ Length[c] <= RangedSize
  <2> DEFINE a == Length[c]
             b == SumOf(Length, Chunk \ {c})
  <2>1. RangedSize = a + b /\ a \in Nat \ {0} /\ b \in Nat
    BY <1>1, <1>2
  <2> HIDE DEF a, b
  <2>2. RangedSize \in Nat \ {0} /\ a <= RangedSize
    BY <2>1
  <2> QED
    BY <2>2 DEF a
<1>4. 0 \in Chunk
  BY Indices
<1> HIDE DEF RangedSize
<1> QED
  BY <1>1, <1>3, <1>4

-----------------------------------------------------------------------------
(* Init and the types. *)

LEMMA InitIInv == Init => IInv
<1> SUFFICES ASSUME Init PROVE IInv
  OBVIOUS
<1> USE DEF Init
<1>1. TypeOK
  <2>1. RangedSize \in Nat /\ 0 \in Chunk /\ MaxAttempts \in Nat \ {0}
    BY Constants, Indices, RangedSizeBounds
  <2> QED
    <3>1. streamed = 0 /\ size = 0
      OBVIOUS
    <3>2. written \in [Worker -> 0 .. RangedSize]
      BY <2>1
    <3>3. last \in [Downloaded : Int, Total : {0, RangedSize} \cup Sizes]
      BY DEF Event
    <3>4. attempt \in [Worker -> 1 .. MaxAttempts] /\ chunk \in [Worker -> Chunk]
      BY <2>1
    <3>5. /\ phase = "start" /\ outcome = "none" /\ failure = "none" /\ flush = "select"
          /\ nextChunk \in Nat /\ downloaded \in Int /\ loaded \in Int /\ total = 0
          /\ finished \subseteq Chunk
      OBVIOUS
    <3>7. work \in [Worker -> {"idle", "claim", "copy", "undo", "exited"}]
      OBVIOUS
    <3>8. undone \in BOOLEAN /\ stopping \in BOOLEAN
      OBVIOUS
    <3>6. streamed \in 0 .. size /\ size \in Sizes \cup {0}
      BY <3>1
    <3> HIDE DEF RangedSize, Init
    <3> QED
      BY <3>2, <3>3, <3>4, <3>5, <3>6, <3>7, <3>8 DEF TypeOK
<1>2. ClaimsInv /\ CompleteInv
  BY Constants, Indices DEF ClaimsInv, CompleteInv, Busy
<1>3. CallInv
  BY DEF CallInv
<1>4. CountInv
  <2> DEFINE part == [c \in Chunk |-> 0]
  <2>1. SumOf(part, Chunk) = 0 /\ SumOf(written, Worker) = 0 /\ SumOf(Length, finished) = 0
    BY Indices, SumZero, SumEmpty
  <2>2. part \in [Chunk -> Nat] /\ Contributed(part)
    BY DEF Contributed
  <2> HIDE DEF part
  <2> QED
    BY <2>1, <2>2 DEF CountInv, FellBack
<1>5. DeliveryInv
  BY DEF DeliveryInv, Event
<1> QED
  BY <1>1, <1>2, <1>3, <1>4, <1>5 DEF IInv

\* The actions that touch the workers, the call, and the delivery.
LEMMA TypeOKStep == IInv /\ [Next]_vars => TypeOK'
<1> SUFFICES ASSUME IInv, [Next]_vars PROVE TypeOK'
  OBVIOUS
<1> TypeOK
  BY DEF IInv
<1> USE DEF TypeOK, transferVars, workerVars, counterVars, deliveryVars, Goto, Add
<1>1. ASSUME NEW w \in Worker, WorkerStep(w) PROVE TypeOK'
  <2>1. CASE Claim(w)
    BY <2>1, Constants, RangedSizeBounds DEF Claim
  <2>2. CASE WriteChunk(w)
    <3>1. Length[chunk[w]] \in Nat /\ Length[chunk[w]] <= RangedSize /\ RangedSize \in Nat
      BY Constants, RangedSizeBounds
    <3>2. written[w] + 1 \in 0 .. RangedSize
      BY <2>2, <3>1 DEF WriteChunk
    <3>3. written' \in [Worker -> 0 .. RangedSize]
      BY <2>2, <3>2 DEF WriteChunk
    <3> QED
      BY <2>2, <3>3 DEF WriteChunk
  <2>3. CASE ChunkDone(w)
    BY <2>3, RangedSizeBounds DEF ChunkDone
  <2>4. CASE CopyFails(w)
    BY <2>4, RangedSizeBounds DEF CopyFails, Uncounted
  <2>5. CASE AfterFailure(w)
    <3>1. MaxAttempts \in Nat
      BY Constants
    <3> QED
      BY <2>5, <3>1 DEF AfterFailure, AttemptsLeft
  <2> QED
    BY <1>1, <2>1, <2>2, <2>3, <2>4, <2>5 DEF WorkerStep
<1>2. ASSUME CallStep PROVE TypeOK'
  <2> USE DEF Return
  <2>1. CASE Probe
    BY <2>1 DEF Probe
  <2>2. CASE RunReturns
    BY <2>2 DEF RunReturns, ResetCount, KeepCount
  <2>3. CASE ResetTotal
    BY <2>3 DEF ResetTotal
  <2>4. CASE OpenStream
    <3>1. CASE size' = size /\ total' = total
      BY <2>4, <3>1 DEF OpenStream
    <3>2. CASE size' \in Sizes /\ total' \in {total, size'}
      <4>1. streamed \in 0 .. size'
        BY <2>4, <3>2, Constants DEF OpenStream, IInv, CallInv
      <4> QED
        BY <2>4, <3>2, <4>1 DEF OpenStream
    <3> QED
      BY <2>4, <3>1, <3>2 DEF OpenStream
  <2>5. CASE CopyStream
    <3>1. size \in Nat
      BY Constants
    <3> QED
      BY <2>5, <3>1 DEF CopyStream
  <2>6. CASE StopReporter
    BY <2>6 DEF StopReporter
  <2>7. CASE CallReturns
    BY <2>7 DEF CallReturns
  <2> QED
    BY <1>2, <2>1, <2>2, <2>3, <2>4, <2>5, <2>6, <2>7 DEF CallStep
<1>3. CASE LoadDownloaded
  BY <1>3 DEF LoadDownloaded
<1>4. CASE LoadTotalAndEmit
  BY <1>4 DEF LoadTotalAndEmit, Flush, Event
<1>5. CASE UNCHANGED vars
  BY <1>5 DEF vars
<1> QED
  BY <1>1, <1>2, <1>3, <1>4, <1>5 DEF Next

-----------------------------------------------------------------------------
(* The chunks. *)

\* Workers run only while run does.
LEMMA WorkersRun ==
  ASSUME IInv, NEW w \in Worker, work[w] \in {"claim", "copy", "undo"}
  PROVE  phase = "ranged" /\ streamed = 0 /\ size = 0 /\ total = RangedSize /\ outcome = "none"
<1>1. phase = "ranged"
  BY DEF IInv, ClaimsInv
<1> QED
  BY <1>1 DEF IInv, TypeOK, CallInv

\* A chunk in a worker's hands was claimed, is unfinished, and is nobody else's.
LEMMA Holder ==
  ASSUME IInv, NEW w \in Worker, Busy(w)
  PROVE  /\ chunk[w] \in Chunk /\ chunk[w] < nextChunk /\ chunk[w] \notin finished
         /\ \A v \in Worker : v # w /\ Busy(v) => chunk[v] # chunk[w]
BY DEF IInv, TypeOK, ClaimsInv

\* What only the workers and the probe change.
LEMMA ClaimsFrame ==
  ASSUME IInv, UNCHANGED <<workerVars, nextChunk>>,
         phase' = "start" => phase = "start",
         phase' \notin {"start", "ranged"} =>
           phase \notin {"start", "ranged"} \/ AllExited \/ (phase = "start")
  PROVE  ClaimsInv'
BY DEF IInv, ClaimsInv, workerVars, Busy, AllExited

LEMMA ClaimsStep == IInv /\ [Next]_vars => ClaimsInv'
<1> SUFFICES ASSUME IInv, [Next]_vars PROVE ClaimsInv'
  OBVIOUS
<1> TypeOK /\ ClaimsInv
  BY DEF IInv
<1>1. ASSUME NEW w \in Worker, WorkerStep(w) PROVE ClaimsInv'
  <2> work[w] \in {"claim", "copy", "undo"}
    BY <1>1 DEF WorkerStep, Claim, WriteChunk, ChunkDone, CopyFails, AfterFailure
  <2> phase = "ranged"
    BY WorkersRun
  <2> USE DEF TypeOK, Goto, transferVars, Busy
  <2>1. CASE Claim(w)
    <3>1. CASE UNCHANGED <<nextChunk, chunk, written>> /\ work' = [work EXCEPT ![w] = "exited"]
      BY <2>1, <3>1 DEF ClaimsInv, Claim
    <3>2. CASE nextChunk < Chunks /\ nextChunk' = nextChunk + 1
                 /\ work' = [work EXCEPT ![w] = "copy"] /\ chunk' = [chunk EXCEPT ![w] = nextChunk]
                 /\ written' = [written EXCEPT ![w] = 0]
      <4>1. nextChunk \in Chunk /\ Length[nextChunk] \in Nat /\ nextChunk \notin finished
        BY <3>2, Constants DEF ClaimsInv
      <4>2. \A v \in Worker : Busy(v) => chunk[v] < nextChunk
        BY DEF ClaimsInv
      <4>3. \A c \in finished : c \in Nat /\ c < nextChunk
        BY Constants DEF ClaimsInv
      <4> HIDE DEF Busy
      <4>4. \A v \in Worker : Busy(v)' => \/ Busy(v) /\ v # w /\ chunk'[v] = chunk[v]
                                          \/ v = w /\ chunk'[v] = nextChunk
        BY <3>2 DEF Busy
      <4>5. \A v \in Worker : chunk[v] \in Nat
        BY Constants
      <4>6. (\A v \in Worker : Busy(v) => chunk[v] < nextChunk /\ chunk[v] \notin finished)'
        BY <2>1, <3>2, <4>1, <4>2, <4>3, <4>4, <4>5 DEF ClaimsInv, Claim
      <4>7. (\A v, u \in Worker : v # u /\ Busy(v) /\ Busy(u) => chunk[v] # chunk[u])'
        BY <3>2, <4>1, <4>2, <4>4, <4>5 DEF ClaimsInv
      <4> QED
        BY <2>1, <3>2, <4>1, <4>3, <4>6, <4>7 DEF ClaimsInv, Claim
    <3>3. CASE nextChunk' = nextChunk + 1 /\ work' = [work EXCEPT ![w] = "exited"]
                 /\ UNCHANGED <<chunk, written>>
      <4>1. \A c \in finished : c \in Nat
        BY Constants
      <4>2. \A v \in Worker : chunk[v] \in Nat
        BY Constants
      <4> QED
        BY <2>1, <3>3, <4>1, <4>2 DEF ClaimsInv, Claim
    <3> QED
      BY <2>1, <3>1, <3>2, <3>3 DEF Claim
  <2>2. CASE WriteChunk(w)
    <3>1. \A v \in Worker : Length[chunk[v]] \in Nat /\ written[v] \in Nat
      <4>1. \A c \in Chunk : Length[c] \in Nat
        BY Constants
      <4>2. written \in [Worker -> Nat]
        BY RangedSizeBounds
      <4> QED
        BY <4>1, <4>2
    <3> QED
      BY <2>2, <3>1 DEF ClaimsInv, WriteChunk
  <2>3. CASE ChunkDone(w)
    <3>1. \A v \in Worker : v # w /\ Busy(v) => chunk[v] # chunk[w]
      BY <2>3, Holder DEF ChunkDone
    <3> QED
      BY <2>3, <3>1 DEF ClaimsInv, ChunkDone
  <2>4. CASE CopyFails(w)
    BY <2>4 DEF ClaimsInv, CopyFails
  <2>5. CASE AfterFailure(w)
    <3>1. Length[chunk[w]] \in Nat
      BY Constants
    <3> QED
      BY <2>5, <3>1 DEF ClaimsInv, AfterFailure
  <2> QED
    BY <1>1, <2>1, <2>2, <2>3, <2>4, <2>5 DEF WorkerStep
<1>2. ASSUME CallStep PROVE ClaimsInv'
  <2>1. CASE Probe
    <3>1. CASE work' = [w \in Worker |-> IF w = 0 THEN "copy" ELSE "claim"] /\ phase' = "ranged"
      <4>1. Length[0] \in Nat /\ finished = {}
        BY <2>1, Constants DEF Probe, IInv, CallInv
      <4> QED
        BY <2>1, <3>1, <4>1 DEF Probe, TypeOK, ClaimsInv, Busy
    <3>2. CASE UNCHANGED work /\ phase' \in {"single", "stop"}
      BY <2>1, <3>2 DEF Probe, ClaimsInv, Busy
    <3> QED
      BY <2>1, <3>1, <3>2 DEF Probe, Return
  <2> USE DEF Return
  <2>2. CASE RunReturns
    BY <2>2, ClaimsFrame DEF RunReturns
  <2>3. CASE ResetTotal
    BY <2>3, ClaimsFrame DEF ResetTotal
  <2>4. CASE OpenStream
    BY <2>4, ClaimsFrame DEF OpenStream
  <2>5. CASE CopyStream
    BY <2>5, ClaimsFrame DEF CopyStream
  <2>6. CASE StopReporter
    BY <2>6, ClaimsFrame DEF StopReporter
  <2>7. CASE CallReturns
    BY <2>7, ClaimsFrame DEF CallReturns
  <2> QED
    BY <1>2, <2>1, <2>2, <2>3, <2>4, <2>5, <2>6, <2>7 DEF CallStep
<1>3. CASE LoadDownloaded
  BY <1>3, ClaimsFrame DEF LoadDownloaded, transferVars
<1>4. CASE LoadTotalAndEmit
  BY <1>4, ClaimsFrame DEF LoadTotalAndEmit, transferVars
<1>5. CASE UNCHANGED vars
  BY <1>5, ClaimsFrame DEF vars, transferVars
<1> QED
  BY <1>1, <1>2, <1>3, <1>4, <1>5 DEF Next

LEMMA CompleteStep == IInv /\ [Next]_vars => CompleteInv'
<1> SUFFICES ASSUME IInv, [Next]_vars, (phase = "ranged" /\ failure = "none")'
             PROVE  (/\ \A c \in Chunk : c < nextChunk =>
                          c \in finished \/ \E w \in Worker : Busy(w) /\ chunk[w] = c
                     /\ \A w \in Worker : work[w] # "idle"
                     /\ \A w \in Worker : work[w] = "exited" => nextChunk >= Chunks)'
  BY DEF CompleteInv
<1> TypeOK /\ CompleteInv
  BY DEF IInv
<1> Chunks \in Nat /\ nextChunk \in Nat /\ \A c \in Chunk : c \in Nat
  BY Constants DEF TypeOK
<1>1. ASSUME NEW w \in Worker, WorkerStep(w) PROVE CompleteInv'
  <2> work[w] \in {"claim", "copy", "undo"}
    BY <1>1 DEF WorkerStep, Claim, WriteChunk, ChunkDone, CopyFails, AfterFailure
  <2> phase = "ranged"
    BY WorkersRun
  <2> USE DEF TypeOK, Goto, transferVars, CompleteInv
  <2>1. CASE Claim(w)
    <3>1. /\ failure = "none" /\ failure' = failure /\ work[w] = "claim" /\ nextChunk' = nextChunk + 1
          /\ phase' = phase /\ finished' = finished
      BY <2>1 DEF Claim
    <3>2. /\ \A v \in Worker : v # w => work'[v] = work[v] /\ chunk'[v] = chunk[v]
          /\ \/ work'[w] = "copy" /\ chunk'[w] = nextChunk
             \/ work'[w] = "exited" /\ nextChunk >= Chunks
      BY <2>1, <3>1 DEF Claim
    <3>3. ASSUME NEW c \in Chunk, c < nextChunk'
          PROVE  c \in finished' \/ \E v \in Worker : Busy(v)' /\ chunk'[v] = c
      <4>1. c < nextChunk \/ (c = nextChunk /\ c < Chunks)
        BY <3>1, <3>3, Constants
      <4>2. CASE c < nextChunk
        BY <3>1, <3>2, <4>2 DEF Busy
      <4>3. CASE c = nextChunk /\ c < Chunks
        BY <3>2, <4>3 DEF Busy
      <4> QED
        BY <4>1, <4>2, <4>3
    <3>4. \A v \in Worker : work'[v] # "idle" /\ (work'[v] = "exited" => nextChunk' >= Chunks)
      BY <3>1, <3>2
    <3> QED
      BY <3>3, <3>4
  <2>2. CASE WriteChunk(w)
    BY <2>2 DEF WriteChunk, Busy
  <2>3. CASE ChunkDone(w)
    BY <2>3 DEF ChunkDone, Busy
  <2>4. CASE CopyFails(w)
    BY <2>4 DEF CopyFails, Busy
  <2>5. CASE AfterFailure(w)
    BY <2>5 DEF AfterFailure, Busy
  <2> QED
    BY <1>1, <2>1, <2>2, <2>3, <2>4, <2>5 DEF WorkerStep
<1>2. CASE Probe
  <2>1. work' = [w \in Worker |-> IF w = 0 THEN "copy" ELSE "claim"]
    BY <1>2 DEF Probe, Return
  <2>2. nextChunk' = 1 /\ chunk'[0] = 0 /\ 0 \in Worker
    BY <1>2, Indices DEF Probe, IInv, ClaimsInv
  <2>3. \A c \in Chunk : c < 1 => c = 0
    OBVIOUS
  <2> QED
    BY <2>1, <2>2, <2>3 DEF Busy
<1>3. CASE phase = "ranged" /\ UNCHANGED <<workerVars, nextChunk, failure>>
  BY <1>3 DEF CompleteInv, Busy, workerVars
<1>4. \/ \E w \in Worker : WorkerStep(w)
      \/ Probe
      \/ phase = "ranged" /\ UNCHANGED <<workerVars, nextChunk, failure>>
  BY DEF Next, CallStep, RunReturns, ResetTotal, OpenStream, CopyStream, StopReporter, CallReturns,
         Return, LoadDownloaded, LoadTotalAndEmit, vars, transferVars
<1> QED
  BY <1>1, <1>2, <1>3, <1>4 DEF CompleteInv

-----------------------------------------------------------------------------
(* The counts. *)

\* Contributions that fit their chunks fit the file.
LEMMA PartsFit ==
  ASSUME NEW part \in [Chunk -> Nat], \A c \in Chunk : part[c] <= Length[c]
  PROVE  SumOf(part, Chunk) \in Nat /\ SumOf(part, Chunk) <= RangedSize
<1>1. \A c \in Chunk : part[c] \in Nat /\ Length[c] \in Nat /\ part[c] <= Length[c]
  BY Constants
<1>2. SumOf(part, Chunk) <= SumOf(Length, Chunk)
  BY <1>1, Indices, SumBound
<1> QED
  BY <1>1, <1>2, Indices, SumRemove, RangedSizeBounds

LEMMA WrittenSum == TypeOK => /\ written \in [Worker -> Nat]
                              /\ SumOf(written, Worker) \in Nat
                              /\ SumOf(Length, finished) \in Nat
<1> SUFFICES ASSUME TypeOK PROVE /\ written \in [Worker -> Nat]
                              /\ SumOf(written, Worker) \in Nat
                              /\ SumOf(Length, finished) \in Nat
  OBVIOUS
<1>1. written \in [Worker -> Nat]
  BY RangedSizeBounds DEF TypeOK
<1>2. SumOf(written, Worker) \in Nat
  BY <1>1, Indices, SumRemove
<1>3. IsFiniteSet(finished) /\ \A c \in finished : Length[c] \in Nat
  BY Constants, Indices, FS_Subset DEF TypeOK
<1> QED
  BY <1>1, <1>2, <1>3, SumRemove

\* What one worker has written changes.
LEMMA WrittenChange ==
  ASSUME written \in [Worker -> Nat], NEW w \in Worker, NEW n \in Nat,
         written' = [written EXCEPT ![w] = n]
  PROVE  SumOf(written', Worker) = (SumOf(written, Worker) - written[w]) + n
<1> DEFINE g == [written EXCEPT ![w] = n]
<1>1. g \in [Worker -> Nat] /\ g[w] = n /\ \A v \in Worker : v # w => g[v] = written[v]
  OBVIOUS
<1> HIDE DEF g
<1>2. SumOf(g, Worker) = (SumOf(written, Worker) - written[w]) + g[w]
  BY <1>1, Indices, SumExcept
<1> QED
  BY <1>1, <1>2 DEF g

\* The contributions of a step: how the workers' sum, the complete chunks' sum and the
\* chunks' sum change together with the count.
LEMMA WorkerCounts ==
  ASSUME IInv, NEW w \in Worker, WorkerStep(w),
         NEW part \in [Chunk -> Nat], Contributed(part)
  PROVE  \E part2 \in [Chunk -> Nat] :
           /\ Contributed(part2)'
           /\ \E delta \in Int :
                /\ downloaded' = downloaded + delta
                /\ SumOf(part2, Chunk) = SumOf(part, Chunk) + delta
                /\ (SumOf(Length, finished) + SumOf(written, Worker))'
                     = SumOf(Length, finished) + SumOf(written, Worker) + delta
<1> USE DEF Goto, transferVars, counterVars
<1> TypeOK /\ ClaimsInv
  BY DEF IInv
<1> written \in [Worker -> Nat] /\ SumOf(written, Worker) \in Nat /\ SumOf(Length, finished) \in Nat
  BY WrittenSum
<1> SumOf(part, Chunk) \in Nat
  BY Indices, SumRemove
<1> work \in [Worker -> {"idle", "claim", "copy", "undo", "exited"}] /\ chunk \in [Worker -> Chunk]
  BY DEF TypeOK
<1> downloaded \in Int
  BY DEF TypeOK
<1> DEFINE Result(part2, delta) ==
             /\ Contributed(part2)'
             /\ downloaded' = downloaded + delta
             /\ SumOf(part2, Chunk) = SumOf(part, Chunk) + delta
             /\ (SumOf(Length, finished) + SumOf(written, Worker))'
                  = SumOf(Length, finished) + SumOf(written, Worker) + delta
<1> SUFFICES \E part2 \in [Chunk -> Nat] : \E delta \in Int : Result(part2, delta)
  OBVIOUS
<1>1. ASSUME Claim(w) PROVE Result(part, 0)
  <2>1. work[w] = "claim" /\ written[w] = 0
    BY <1>1 DEF Claim, ClaimsInv
  <2>2. written' = written /\ finished' = finished /\ downloaded' = downloaded
    BY <1>1, <2>1 DEF Claim
  <2>3. Contributed(part)'
    <3>1. CASE work' = [work EXCEPT ![w] = "exited"] /\ chunk' = chunk
      BY <2>1, <2>2, <3>1 DEF Contributed
    <3>2. CASE work' = [work EXCEPT ![w] = "copy"] /\ chunk' = [chunk EXCEPT ![w] = nextChunk]
                 /\ nextChunk < Chunks
      <4>1. nextChunk \in Chunk /\ nextChunk \notin finished
        BY <3>2, Constants DEF TypeOK, ClaimsInv
      <4>2. \A v \in Worker : work[v] = "copy" => chunk[v] # nextChunk
        <5>1. ASSUME NEW v \in Worker, work[v] = "copy" PROVE chunk[v] # nextChunk
          <6>1. chunk[v] < nextChunk /\ chunk[v] \in Nat /\ nextChunk \in Nat
            BY <5>1, Constants DEF TypeOK, ClaimsInv, Busy
          <6> QED
            BY <6>1
        <5> QED
          BY <5>1
      <4>3. part[nextChunk] = 0
        BY <4>1, <4>2 DEF Contributed
      <4> QED
        BY <2>1, <2>2, <3>2, <4>1, <4>3 DEF Contributed
    <3> QED
      BY <1>1, <3>1, <3>2 DEF Claim
  <2> QED
    BY <2>2, <2>3
<1>2. ASSUME WriteChunk(w) PROVE Result([part EXCEPT ![chunk[w]] = @ + 1], 1)
  <2> DEFINE part2 == [part EXCEPT ![chunk[w]] = part[chunk[w]] + 1]
  <2>1. work[w] = "copy" /\ written' = [written EXCEPT ![w] = written[w] + 1]
        /\ UNCHANGED <<work, chunk, finished>> /\ downloaded' = downloaded + 1
    BY <1>2 DEF WriteChunk, Add
  <2>2. chunk[w] \notin finished /\ \A v \in Worker : v # w /\ work[v] = "copy" => chunk[v] # chunk[w]
    BY <2>1, Holder DEF Busy
  <2>3. Contributed(part2)'
    BY <2>1, <2>2 DEF Contributed
  <2>4. SumOf(part2, Chunk) = (SumOf(part, Chunk) - part[chunk[w]]) + (part[chunk[w]] + 1)
    <3>1. /\ part2 \in [Chunk -> Nat] /\ chunk[w] \in Chunk /\ part2[chunk[w]] = part[chunk[w]] + 1
          /\ \A c \in Chunk : c # chunk[w] => part2[c] = part[c]
      OBVIOUS
    <3> HIDE DEF part2
    <3>2. SumOf(part2, Chunk) = (SumOf(part, Chunk) - part[chunk[w]]) + part2[chunk[w]]
      BY <3>1, Indices, SumExcept
    <3> QED
      BY <3>1, <3>2
  <2>5. SumOf(written', Worker) = (SumOf(written, Worker) - written[w]) + (written[w] + 1)
    <3>1. written[w] + 1 \in Nat /\ written' = [written EXCEPT ![w] = written[w] + 1]
      BY <2>1
    <3> QED
      BY <3>1, WrittenChange
  <2> HIDE DEF part2
  <2>6. SumOf(part2, Chunk) = SumOf(part, Chunk) + 1
    BY <2>4
  <2>7. (SumOf(Length, finished) + SumOf(written, Worker))' = SumOf(Length, finished) + SumOf(written, Worker) + 1
    BY <2>1, <2>5
  <2>8. Result(part2, 1)
    BY <2>1, <2>3, <2>6, <2>7
  <2> QED
    BY <2>8 DEF part2
<1>3. ASSUME ChunkDone(w) PROVE Result(part, 0)
  <2>1. /\ work[w] = "copy" /\ written[w] = Length[chunk[w]] /\ written' = [written EXCEPT ![w] = 0]
        /\ finished' = finished \cup {chunk[w]} /\ work' = [work EXCEPT ![w] = "claim"]
        /\ UNCHANGED <<chunk, downloaded>>
    BY <1>3 DEF ChunkDone
  <2>2. chunk[w] \notin finished /\ \A v \in Worker : v # w /\ work[v] = "copy" => chunk[v] # chunk[w]
    BY <2>1, Holder DEF Busy
  <2>3. Contributed(part)'
    BY <2>1, <2>2 DEF Contributed
  <2>4. SumOf(written', Worker) = (SumOf(written, Worker) - written[w]) + 0
    BY <2>1, WrittenChange
  <2>5. SumOf(Length, finished \cup {chunk[w]}) = SumOf(Length, finished) + Length[chunk[w]]
    <3>1. IsFiniteSet(finished) /\ \A c \in finished \cup {chunk[w]} : Length[c] \in Nat
      BY Constants, Indices, FS_Subset DEF TypeOK
    <3> QED
      BY <2>2, <3>1, SumAdd
  <2> QED
    BY <2>1, <2>3, <2>4, <2>5
<1>4. ASSUME CopyFails(w) PROVE Result([part EXCEPT ![chunk[w]] = 0], -written[w])
  <2> DEFINE part2 == [part EXCEPT ![chunk[w]] = 0]
  <2>1. /\ work[w] = "copy" /\ written' = [written EXCEPT ![w] = 0]
        /\ work' = [work EXCEPT ![w] = "undo"]
        /\ UNCHANGED <<chunk, finished>> /\ downloaded' = downloaded + -written[w]
    BY <1>4 DEF CopyFails, Add, Uncounted
  <2>2. chunk[w] \notin finished /\ \A v \in Worker : v # w /\ work[v] = "copy" => chunk[v] # chunk[w]
    BY <2>1, Holder DEF Busy
  <2>3. Contributed(part2)' /\ part[chunk[w]] = written[w]
    BY <2>1, <2>2 DEF Contributed
  <2>4. SumOf(part2, Chunk) = (SumOf(part, Chunk) - part[chunk[w]]) + 0
    <3>1. /\ part2 \in [Chunk -> Nat] /\ chunk[w] \in Chunk /\ part2[chunk[w]] = 0
          /\ \A c \in Chunk : c # chunk[w] => part2[c] = part[c]
      OBVIOUS
    <3> HIDE DEF part2
    <3>2. SumOf(part2, Chunk) = (SumOf(part, Chunk) - part[chunk[w]]) + part2[chunk[w]]
      BY <3>1, Indices, SumExcept
    <3> QED
      BY <3>1, <3>2
  <2>5. SumOf(written', Worker) = (SumOf(written, Worker) - written[w]) + 0
    BY <2>1, WrittenChange
  <2> HIDE DEF part2
  <2>6. SumOf(part2, Chunk) = SumOf(part, Chunk) + -written[w]
    BY <2>3, <2>4
  <2>7. (SumOf(Length, finished) + SumOf(written, Worker))'
          = SumOf(Length, finished) + SumOf(written, Worker) + -written[w]
    BY <2>1, <2>5
  <2>8. Result(part2, -written[w])
    BY <2>1, <2>3, <2>6, <2>7
  <2> QED
    BY <2>8 DEF part2
<1>5. ASSUME AfterFailure(w) PROVE Result(part, 0)
  <2>1. /\ work[w] = "undo" /\ written[w] = 0
        /\ work' = [work EXCEPT ![w] = "copy"] \/ work' = [work EXCEPT ![w] = "exited"]
        /\ UNCHANGED <<chunk, finished, written, downloaded>>
    BY <1>5 DEF AfterFailure, ClaimsInv
  <2>2. chunk[w] \notin finished /\ \A v \in Worker : v # w /\ work[v] = "copy" => chunk[v] # chunk[w]
    BY <2>1, Holder DEF Busy
  <2>3. part[chunk[w]] = 0
    BY <2>1, <2>2 DEF Contributed
  <2>4. Contributed(part)'
    BY <2>1, <2>2, <2>3 DEF Contributed
  <2> QED
    BY <2>1, <2>4
<1> DEFINE more == [part EXCEPT ![chunk[w]] = @ + 1]
           less == [part EXCEPT ![chunk[w]] = 0]
<1>6. more \in [Chunk -> Nat] /\ less \in [Chunk -> Nat]
  OBVIOUS
<1>7. -written[w] \in Int
  OBVIOUS
<1> HIDE DEF Result
<1>8. CASE Claim(w) \/ ChunkDone(w) \/ AfterFailure(w)
  BY <1>1, <1>3, <1>5, <1>8
<1>9. CASE WriteChunk(w)
  <2>1. Result(more, 1)
    BY <1>2, <1>9
  <2> HIDE DEF more
  <2> QED
    BY <2>1, <1>6
<1>10. CASE CopyFails(w)
  <2>1. Result(less, -written[w])
    BY <1>4, <1>10
  <2> HIDE DEF less
  <2> QED
    BY <2>1, <1>6, <1>7
<1> QED
  BY <1>8, <1>9, <1>10 DEF WorkerStep

\* A step that leaves the workers alone.
LEMMA CountFrame ==
  ASSUME IInv, UNCHANGED workerVars,
         FellBack' => downloaded' = streamed',
         ~FellBack' => ~FellBack /\ downloaded' - streamed' = downloaded - streamed,
         streamed' \in Nat, downloaded' \in Int,
         (failure # "other" => IF total = 0 THEN downloaded = streamed ELSE downloaded <= total)'
  PROVE  CountInv'
<1> USE DEF workerVars
<1>1. CountInv /\ TypeOK /\ downloaded \in Int /\ streamed \in Nat
  BY DEF IInv, TypeOK
<1>2. PICK part \in [Chunk -> Nat] : Contributed(part) /\ (~FellBack => downloaded = streamed + SumOf(part, Chunk))
  BY <1>1 DEF CountInv
<1>3. SumOf(part, Chunk) \in Nat /\ SumOf(Length, finished) \in Nat /\ SumOf(written, Worker) \in Nat
  BY <1>1, Indices, SumRemove, WrittenSum
<1>4. Contributed(part)'
  BY <1>2 DEF Contributed
<1>5. ~FellBack' => downloaded' = streamed' + SumOf(part, Chunk)
  BY <1>1, <1>2, <1>3
<1>6. (downloaded = IF FellBack THEN streamed
                    ELSE streamed + SumOf(Length, finished) + SumOf(written, Worker))'
  <2>1. CASE FellBack'
    BY <2>1
  <2>2. CASE ~FellBack'
    <3>1. downloaded = streamed + SumOf(Length, finished) + SumOf(written, Worker)
      BY <1>1, <2>2 DEF CountInv
    <3>2. downloaded' = streamed' + SumOf(Length, finished) + SumOf(written, Worker)
      BY <1>1, <1>3, <2>2, <3>1
    <3> QED
      BY <2>2, <3>2
  <2> QED
    BY <2>1, <2>2
<1> QED
  BY <1>4, <1>5, <1>6 DEF CountInv

LEMMA CountStep == IInv /\ [Next]_vars => CountInv'
<1> SUFFICES ASSUME IInv, [Next]_vars PROVE CountInv'
  OBVIOUS
<1> TypeOK /\ CountInv /\ CallInv
  BY DEF IInv
<1> streamed \in Nat /\ downloaded \in Int /\ RangedSize \in Nat \ {0} /\ size \in Nat
  BY RangedSizeBounds, Constants DEF TypeOK
<1>1. ASSUME NEW w \in Worker, WorkerStep(w) PROVE CountInv'
  <2>1. phase = "ranged" /\ streamed = 0 /\ total = RangedSize
    BY <1>1, WorkersRun DEF WorkerStep, Claim, WriteChunk, ChunkDone, CopyFails, AfterFailure
  <2>2. UNCHANGED <<phase, streamed, total>>
    BY <1>1 DEF WorkerStep, Claim, WriteChunk, ChunkDone, CopyFails, AfterFailure, transferVars, counterVars
  <2>3. ~FellBack /\ ~FellBack'
    BY <2>1, <2>2 DEF FellBack
  <2>4. PICK part \in [Chunk -> Nat] : Contributed(part) /\ downloaded = streamed + SumOf(part, Chunk)
    BY <2>3 DEF CountInv
  <2>5. PICK part2 \in [Chunk -> Nat] :
          /\ Contributed(part2)'
          /\ \E delta \in Int :
               /\ downloaded' = downloaded + delta
               /\ SumOf(part2, Chunk) = SumOf(part, Chunk) + delta
               /\ (SumOf(Length, finished) + SumOf(written, Worker))'
                    = SumOf(Length, finished) + SumOf(written, Worker) + delta
    BY <1>1, <2>4, WorkerCounts
  <2>6. \A c \in Chunk : part2[c] <= Length[c]
    <3>1. TypeOK' /\ ClaimsInv'
      BY TypeOKStep, ClaimsStep
    <3>2. finished' \subseteq Chunk /\ \A c \in Chunk : Length[c] \in Nat
      BY <3>1, Constants DEF TypeOK
    <3>3. ASSUME NEW c \in Chunk PROVE part2[c] <= Length[c]
      <4>1. CASE c \in finished'
        BY <2>5, <3>2, <4>1 DEF Contributed
      <4>2. CASE \E v \in Worker : work'[v] = "copy" /\ chunk'[v] = c
        BY <2>5, <3>1, <4>2 DEF Contributed, ClaimsInv
      <4>3. CASE c \notin finished' /\ ~(\E v \in Worker : work'[v] = "copy" /\ chunk'[v] = c)
        <5>1. part2[c] = 0
          BY <2>5, <4>3 DEF Contributed
        <5> QED
          BY <3>2, <5>1
      <4> QED
        BY <4>1, <4>2, <4>3
    <3> QED
      BY <3>3
  <2>7. SumOf(part2, Chunk) \in Nat /\ SumOf(part2, Chunk) <= RangedSize
    BY <2>6, PartsFit
  <2>8. SumOf(part, Chunk) \in Nat /\ SumOf(Length, finished) \in Nat /\ SumOf(written, Worker) \in Nat
    BY Indices, SumRemove, WrittenSum
  <2>9. downloaded' = streamed' + SumOf(part2, Chunk)
    BY <2>1, <2>2, <2>4, <2>5, <2>7, <2>8
  <2>10. (downloaded = streamed + SumOf(Length, finished) + SumOf(written, Worker))'
    <3>1. /\ SumOf(Length, finished') \in Nat /\ SumOf(written', Worker) \in Nat
          /\ streamed' = 0
      <4>1. TypeOK'
        BY TypeOKStep
      <4>2. written' \in [Worker -> Nat]
        BY <4>1, RangedSizeBounds DEF TypeOK
      <4>3. IsFiniteSet(finished') /\ \A c \in finished' : Length[c] \in Nat
        BY <4>1, Constants, Indices, FS_Subset DEF TypeOK
      <4> QED
        BY <2>1, <2>2, <4>2, <4>3, Indices, SumRemove
    <3>2. downloaded = SumOf(Length, finished) + SumOf(written, Worker)
      BY <2>1, <2>3, <2>8 DEF CountInv
    <3> QED
      BY <2>5, <2>8, <3>1, <3>2
  <2>11. (IF total = 0 THEN downloaded = streamed ELSE downloaded <= total)'
    BY <2>1, <2>2, <2>7, <2>9
  <2> QED
    BY <2>3, <2>5, <2>9, <2>10, <2>11 DEF CountInv
<1>2. ASSUME CallStep PROVE CountInv'
  <2> USE DEF Return
  <2>1. CASE Probe
    <3>1. /\ finished = {} /\ streamed = 0 /\ total = 0 /\ failure = "none"
          /\ downloaded = 0 /\ written = [w \in Worker |-> 0]
          /\ \A w \in Worker : work[w] = "idle"
      <4>1. /\ finished = {} /\ streamed = 0 /\ total = 0 /\ failure = "none"
            /\ \A w \in Worker : work[w] = "idle"
        BY <2>1 DEF Probe, CallInv
      <4>2. \A w \in Worker : written[w] = 0
        BY <4>1 DEF IInv, ClaimsInv
      <4> QED
        BY <4>1, <4>2 DEF CountInv, TypeOK
    <3> DEFINE part == [c \in Chunk |-> 0]
    <3>2. SumOf(part, Chunk) = 0 /\ SumOf(written, Worker) = 0 /\ SumOf(Length, finished) = 0
      BY <3>1, Indices, SumZero, SumEmpty
    <3>3. finished' = {} /\ written' = written /\ UNCHANGED <<streamed, downloaded, failure, chunk>>
      BY <2>1, <3>1 DEF Probe
    <3>4. Contributed(part)'
      <4>1. \A w \in Worker : chunk'[w] \in Chunk /\ written'[w] = 0
        BY <3>1, <3>3 DEF TypeOK
      <4> QED
        BY <3>3, <4>1 DEF Contributed
    <3>5. part \in [Chunk -> Nat] /\ ~FellBack'
      BY <3>1, <3>3 DEF FellBack
    <3>6. (IF total = 0 THEN downloaded = streamed ELSE downloaded <= total)'
      BY <2>1, <3>1, <3>3 DEF Probe
    <3> HIDE DEF part
    <3> QED
      BY <3>1, <3>2, <3>3, <3>4, <3>5, <3>6 DEF CountInv
  <2>2. CASE RunReturns
    BY <2>2, CountFrame DEF RunReturns, ResetCount, KeepCount, FellBack, CallInv, CountInv
  <2>3. CASE ResetTotal
    BY <2>3, CountFrame DEF ResetTotal, FellBack, CountInv, CallInv
  <2>4. CASE OpenStream
    <3>1. total' # 0 /\ failure # "other" => downloaded' = 0
      BY <2>4 DEF OpenStream, CountInv, CallInv
    <3>2. total' \in {0} \cup Sizes
      BY <2>4 DEF OpenStream, CallInv
    <3> QED
      BY <2>4, <3>1, <3>2, Constants, CountFrame DEF OpenStream, FellBack, CountInv, CallInv
  <2>5. CASE CopyStream
    <3>1. CASE streamed < size /\ streamed' = streamed + 1 /\ downloaded' = downloaded + 1 /\ UNCHANGED phase
      <4>1. failure # "other" => downloaded = streamed
        <5>1. failure # "other" => finished = {} /\ \A w \in Worker : work[w] = "idle"
          BY <2>5 DEF CopyStream, CallInv
        <5>2. failure # "other" => SumOf(Length, finished) = 0 /\ SumOf(written, Worker) = 0
          <6>1. failure # "other" => \A w \in Worker : written[w] = 0
            BY <5>1 DEF IInv, ClaimsInv
          <6> QED
            BY <5>1, <6>1, Indices, SumZero, SumEmpty
        <5> QED
          BY <5>2 DEF CountInv, FellBack
      <4> QED
        BY <2>5, <3>1, <4>1, CountFrame DEF CopyStream, FellBack, CountInv, CallInv
    <3>2. CASE UNCHANGED <<streamed, downloaded>>
      BY <2>5, <3>2, CountFrame DEF CopyStream, FellBack, CountInv
    <3> QED
      BY <2>5, <3>1, <3>2 DEF CopyStream, Add
  <2>6. CASE StopReporter
    BY <2>6, CountFrame DEF StopReporter, FellBack, CountInv, counterVars
  <2>7. CASE CallReturns
    BY <2>7, CountFrame DEF CallReturns, FellBack, CountInv, counterVars
  <2> QED
    BY <1>2, <2>1, <2>2, <2>3, <2>4, <2>5, <2>6, <2>7 DEF CallStep
<1>3. CASE LoadDownloaded
  BY <1>3, CountFrame DEF LoadDownloaded, FellBack, CountInv, counterVars, transferVars
<1>4. CASE LoadTotalAndEmit
  BY <1>4, CountFrame DEF LoadTotalAndEmit, FellBack, CountInv, counterVars, transferVars
<1>5. CASE UNCHANGED vars
  BY <1>5, CountFrame DEF vars, FellBack, CountInv, counterVars, transferVars
<1> QED
  BY <1>1, <1>2, <1>3, <1>4, <1>5 DEF Next

-----------------------------------------------------------------------------
(* The call and its events. *)

\* run without a failure leaves the whole file counted.
LEMMA RunComplete ==
  ASSUME IInv, phase = "ranged", failure = "none", AllExited
  PROVE  downloaded = RangedSize /\ total = RangedSize /\ size = 0
<1> TypeOK /\ CompleteInv /\ CallInv /\ CountInv
  BY DEF IInv
<1>1. \A w \in Worker : work[w] = "exited"
  BY DEF AllExited
<1>2. nextChunk >= Chunks /\ nextChunk \in Nat
  BY <1>1, Indices DEF CompleteInv, TypeOK
<1>3. \A c \in Chunk : c < nextChunk
  <2>1. \A c \in Chunk : c \in Nat /\ c < Chunks
    BY Constants
  <2> QED
    BY <1>2, <2>1, Constants
<1>4. finished = Chunk
  BY <1>1, <1>3 DEF CompleteInv, TypeOK, Busy
<1>5. PICK part \in [Chunk -> Nat] : Contributed(part) /\ (~FellBack => downloaded = streamed + SumOf(part, Chunk))
  BY DEF CountInv
<1>6. SumOf(part, Chunk) = RangedSize
  BY <1>4, <1>5, Indices, SumSame, RangedSizeBounds DEF Contributed
<1>7. streamed = 0 /\ size = 0 /\ total = RangedSize
  BY DEF CallInv
<1> QED
  BY <1>5, <1>6, <1>7, RangedSizeBounds DEF FellBack

\* An attempt's count is never below zero, and what a stream counted is what it copied.
LEMMA StreamCount ==
  ASSUME IInv, phase = "stream"
  PROVE  downloaded = streamed
<1> CallInv /\ CountInv /\ TypeOK
  BY DEF IInv
<1>1. CASE failure # "other"
  <2>1. finished = {} /\ \A w \in Worker : work[w] = "idle"
    BY <1>1 DEF CallInv
  <2>2. SumOf(Length, finished) = 0 /\ SumOf(written, Worker) = 0
    <3>1. \A w \in Worker : written[w] = 0
      BY <2>1 DEF IInv, ClaimsInv
    <3> QED
      BY <2>1, <3>1, Indices, SumZero, SumEmpty
  <2>3. streamed \in Nat
    BY Constants DEF TypeOK
  <2> QED
    BY <1>1, <2>2, <2>3 DEF CountInv, FellBack
<1>2. CASE failure = "other"
  BY <1>2 DEF CountInv, FellBack
<1> QED
  BY <1>1, <1>2

LEMMA CountNat ==
  ASSUME IInv
  PROVE  downloaded \in Nat
<1>1. streamed \in Nat /\ SumOf(Length, finished) \in Nat /\ SumOf(written, Worker) \in Nat
  BY Constants, WrittenSum DEF IInv, TypeOK
<1> QED
  BY <1>1 DEF IInv, CountInv

LEMMA CallStepInv == IInv /\ [Next]_vars => CallInv'
<1> SUFFICES ASSUME IInv, [Next]_vars PROVE CallInv'
  OBVIOUS
<1> TypeOK /\ CallInv
  BY DEF IInv
<1>1. ASSUME NEW w \in Worker, WorkerStep(w) PROVE CallInv'
  <2>1. phase = "ranged" /\ streamed = 0 /\ size = 0 /\ total = RangedSize /\ outcome = "none"
    BY <1>1, WorkersRun DEF WorkerStep, Claim, WriteChunk, ChunkDone, CopyFails, AfterFailure
  <2>2. UNCHANGED <<phase, streamed, size, total, outcome>>
    BY <1>1 DEF WorkerStep, Claim, WriteChunk, ChunkDone, CopyFails, AfterFailure, transferVars, counterVars
  <2>3. (/\ failure # "none" => undone
         /\ \A v \in Worker : work[v] = "undo" => undone)'
    <3>1. CASE AfterFailure(w)
      <4>1. undone /\ undone' = undone
        BY <3>1 DEF AfterFailure, CallInv
      <4> QED
        BY <4>1
    <3>2. CASE CopyFails(w)
      BY <3>2 DEF CopyFails
    <3>3. CASE Claim(w) \/ WriteChunk(w) \/ ChunkDone(w)
      <4>1. failure' = failure /\ undone' = undone /\ \A v \in Worker : work'[v] = "undo" => work[v] = "undo"
        BY <3>3 DEF Claim, WriteChunk, ChunkDone, transferVars, TypeOK, Goto
      <4> QED
        BY <4>1 DEF CallInv
    <3> QED
      BY <1>1, <3>1, <3>2, <3>3 DEF WorkerStep
  <2> QED
    BY <2>1, <2>2, <2>3 DEF CallInv
<1>2. ASSUME CallStep PROVE CallInv'
  <2> USE DEF Return
  <2>1. CASE Probe
    BY <2>1 DEF Probe, CallInv
  <2>2. CASE RunReturns
    <3>1. CASE failure = "none" /\ outcome' = "ok" /\ phase' = "stop" /\ UNCHANGED downloaded
      <4>1. downloaded = RangedSize /\ total = RangedSize /\ size = 0
        BY <2>2, <3>1, RunComplete DEF RunReturns
      <4> QED
        BY <2>2, <3>1, <4>1 DEF RunReturns, CallInv, workerVars, Complete
    <3>2. CASE outcome' = "error" /\ phase' = "stop"
      BY <2>2, <3>2 DEF RunReturns, CallInv, workerVars
    <3>3. CASE failure = "other" /\ phase' = "reset" /\ UNCHANGED outcome
      BY <2>2, <3>3 DEF RunReturns, CallInv, workerVars
    <3> QED
      BY <2>2, <3>1, <3>2, <3>3 DEF RunReturns, KeepCount
  <2>3. CASE ResetTotal
    BY <2>3 DEF ResetTotal, CallInv, workerVars
  <2>4. CASE OpenStream
    BY <2>4 DEF OpenStream, CallInv, workerVars
  <2>5. CASE CopyStream
    <3>1. CASE phase' = phase /\ outcome' = outcome
      BY <2>5, <3>1 DEF CopyStream, CallInv, workerVars
    <3>2. CASE streamed = size /\ phase' = "stop" /\ outcome' = "ok" /\ UNCHANGED <<streamed, downloaded>>
      <4>1. downloaded = size /\ size \in Sizes /\ total \in {0, size} /\ size # 0
        BY <2>5, <3>2, StreamCount, Constants DEF CopyStream, CallInv
      <4> QED
        BY <2>5, <3>2, <4>1 DEF CopyStream, CallInv, workerVars, Complete
    <3>3. CASE phase' = "stop" /\ outcome' = "error" /\ UNCHANGED <<streamed, downloaded>>
      BY <2>5, <3>3 DEF CopyStream, CallInv, workerVars
    <3> QED
      BY <2>5, <3>1, <3>2, <3>3 DEF CopyStream
  <2>6. CASE StopReporter
    BY <2>6 DEF StopReporter, CallInv, workerVars, counterVars, Complete
  <2>7. CASE CallReturns
    BY <2>7 DEF CallReturns, CallInv, workerVars, counterVars, Complete
  <2> QED
    BY <1>2, <2>1, <2>2, <2>3, <2>4, <2>5, <2>6, <2>7 DEF CallStep
<1>3. CASE UNCHANGED <<transferVars, workerVars, counterVars>>
  BY <1>3 DEF CallInv, transferVars, workerVars, counterVars, Complete
<1> QED
  BY <1>1, <1>2, <1>3 DEF Next, LoadDownloaded, LoadTotalAndEmit, vars

\* The rest of a call after it closed the stopping channel counts nothing.
LEMMA DeliveryStep == IInv /\ [Next]_vars => DeliveryInv'
<1> SUFFICES ASSUME IInv, [Next]_vars PROVE DeliveryInv'
  OBVIOUS
<1> TypeOK /\ DeliveryInv /\ CallInv
  BY DEF IInv
<1> /\ downloaded \in Nat /\ loaded \in Int /\ last.Downloaded \in Int /\ streamed \in Nat /\ size \in Nat
    /\ total \in Nat /\ last.Total \in Nat /\ RangedSize \in Nat
  <2>1. Sizes \subseteq Nat /\ RangedSize \in Nat
    BY Constants, RangedSizeBounds
  <2>2. size \in Nat
    BY <2>1 DEF TypeOK
  <2>3. streamed \in Nat
    BY <2>2 DEF TypeOK
  <2>4. total \in Nat /\ last.Total \in Nat /\ last.Downloaded \in Int /\ loaded \in Int
    <3>1. total \in {0, RangedSize} \cup Sizes /\ last.Total \in {0, RangedSize} \cup Sizes
      BY DEF TypeOK
    <3>2. last.Downloaded \in Int /\ loaded \in Int
      BY DEF TypeOK
    <3>3. \A n \in {0, RangedSize} \cup Sizes : n \in Nat
      BY <2>1
    <3> QED
      BY <3>1, <3>2, <3>3
  <2> QED
    BY <2>1, <2>2, <2>3, <2>4, CountNat
<1>1. ASSUME NEW w \in Worker, WorkerStep(w) PROVE DeliveryInv'
  <2>1. phase = "ranged" /\ phase' = phase /\ ~stopping
    BY <1>1, WorkersRun DEF WorkerStep, Claim, WriteChunk, ChunkDone, CopyFails, AfterFailure,
                            transferVars, DeliveryInv
  <2>2. UNCHANGED <<deliveryVars, stopping, total, streamed>>
    BY <1>1 DEF WorkerStep, Claim, WriteChunk, ChunkDone, CopyFails, AfterFailure, transferVars, counterVars
  <2>3. ~undone' => downloaded' >= downloaded /\ ~undone
    BY <1>1 DEF WorkerStep, Claim, WriteChunk, ChunkDone, CopyFails, AfterFailure, Add, counterVars, TypeOK
  <2>4. failure' # "other" => failure # "other"
    BY <1>1 DEF WorkerStep, Claim, WriteChunk, ChunkDone, CopyFails, AfterFailure, transferVars
  <2>5. downloaded' \in Nat
    <3>1. TypeOK' /\ CountInv'
      BY TypeOKStep, CountStep
    <3>2. written' \in [Worker -> Nat]
      BY <3>1, RangedSizeBounds DEF TypeOK
    <3>3. IsFiniteSet(finished') /\ \A c \in finished' : Length[c] \in Nat
      BY <3>1, Constants, Indices, FS_Subset DEF TypeOK
    <3>4. SumOf(Length, finished') \in Nat /\ SumOf(written', Worker) \in Nat
      BY <3>2, <3>3, Indices, SumRemove
    <3> QED
      BY <3>1, <3>4, <2>2 DEF CountInv
  <2> QED
    BY <2>1, <2>2, <2>3, <2>4, <2>5 DEF DeliveryInv, deliveryVars
<1>2. ASSUME CallStep PROVE DeliveryInv'
  <2> USE DEF Return, deliveryVars
  <2>1. CASE Probe
    BY <2>1 DEF Probe, CallInv, DeliveryInv
  <2>2. CASE RunReturns
    BY <2>2 DEF RunReturns, ResetCount, KeepCount, CallInv, DeliveryInv, workerVars
  <2>3. CASE ResetTotal
    BY <2>3 DEF ResetTotal, CallInv, DeliveryInv, workerVars
  <2>4. CASE OpenStream
    <3>1. \A s \in Sizes : s \in Nat
      BY Constants
    <3> QED
      BY <2>4, <3>1 DEF OpenStream, CallInv, DeliveryInv, workerVars
  <2>5. CASE CopyStream
    BY <2>5 DEF CopyStream, Add, DeliveryInv, workerVars
  <2>6. CASE StopReporter
    BY <2>6 DEF StopReporter, DeliveryInv, workerVars, counterVars
  <2>7. CASE CallReturns
    BY <2>7 DEF CallReturns, DeliveryEnded, DeliveryInv, workerVars, counterVars
  <2> QED
    BY <1>2, <2>1, <2>2, <2>3, <2>4, <2>5, <2>6, <2>7 DEF CallStep
<1>3. CASE LoadDownloaded
  <2>1. failure # "other" => IF total = 0 THEN downloaded <= streamed ELSE downloaded <= total
    BY DEF IInv, CountInv
  <2> QED
    BY <1>3, <2>1 DEF LoadDownloaded, DeliveryInv, transferVars, workerVars, counterVars
<1>4. CASE LoadTotalAndEmit
  <2>1. last' = [Downloaded |-> loaded, Total |-> total]
    BY <1>4 DEF LoadTotalAndEmit, Flush, Event
  <2>2. UNCHANGED <<transferVars, workerVars, counterVars, loaded, stopping>>
    BY <1>4 DEF LoadTotalAndEmit
  <2>3. phase # "returned"
    BY <1>4 DEF LoadTotalAndEmit, DeliveryInv
  <2>4. flush' \in {"stopped", "select"} /\ (flush' = "stopped" => flush = "emit")
    BY <1>4 DEF LoadTotalAndEmit
  <2> QED
    BY <2>1, <2>2, <2>3, <2>4 DEF DeliveryInv, transferVars, workerVars, counterVars, Event
<1>5. CASE UNCHANGED vars
  BY <1>5 DEF vars, DeliveryInv, transferVars, workerVars, counterVars, deliveryVars
<1> QED
  BY <1>1, <1>2, <1>3, <1>4, <1>5 DEF Next

-----------------------------------------------------------------------------
(* The theorems. *)

LEMMA Invariance == Spec => []IInv
<1>1. IInv /\ [Next]_vars => IInv'
  BY TypeOKStep, ClaimsStep, CompleteStep, CallStepInv, CountStep, DeliveryStep DEF IInv
<1> QED
  BY InitIInv, <1>1, PTL DEF Spec

\* Every variable keeps its type: in particular an attempt never writes more than the
\* file has, and a stream never more than its body.
THEOREM ProgressTypes == Spec => []TypeOK
<1>1. IInv => TypeOK
  BY DEF IInv
<1> QED
  BY <1>1, Invariance, PTL

\* downloadReporter.downloaded is exactly the bytes that count, after any number of
\* failed attempts and a fallback, and before a fallback no event exceeds its total.
THEOREM CountIsExact == Spec => []CountsExact
<1>1. IInv => CountsExact
  <2> SUFFICES ASSUME IInv PROVE CountsExact
    OBVIOUS
  <2>1. Bytes(finished) = SumOf(Length, finished)
    BY DEF Bytes, SumOf
  <2>2. MapThenSumSet(LAMBDA w : written[w], Worker) = SumOf(written, Worker)
    BY DEF SumOf
  <2>3. downloaded = IF failure = "other" /\ phase # "ranged" THEN streamed
                     ELSE streamed + Bytes(finished) + MapThenSumSet(LAMBDA w : written[w], Worker)
    BY <2>1, <2>2 DEF IInv, CountInv, FellBack
  <2>4. last.Downloaded >= 0 /\ downloaded >= 0
    BY CountNat DEF IInv, DeliveryInv
  <2>5. failure # "other" /\ last.Total # 0 => last.Downloaded <= last.Total
    BY DEF IInv, DeliveryInv
  <2> QED
    BY <2>3, <2>4, <2>5 DEF CountsExact
<1> QED
  BY <1>1, Invariance, PTL

\* When downloadFileWithProgress returns without an error, the last event it emitted
\* shows the whole file.
THEOREM FinalEvent == Spec => []FinalEventExact
<1>1. IInv => FinalEventExact
  BY DEF IInv, DeliveryInv, CallInv, Complete, FinalEventExact
<1> QED
  BY <1>1, Invariance, PTL

\* No event follows the return of the call, and without a failed attempt the shown
\* count never goes back.
THEOREM EventsInOrder == Spec => EventsOrdered
<1>1. IInv /\ [Next]_vars => [/\ phase = "returned" => UNCHANGED last
                              /\ ~undone => last'.Downloaded >= last.Downloaded]_vars
  <2> SUFFICES ASSUME IInv, [Next]_vars
               PROVE  /\ phase = "returned" => UNCHANGED last
                      /\ ~undone => last'.Downloaded >= last.Downloaded
    OBVIOUS
  <2> USE DEF IInv, TypeOK, DeliveryInv
  <2>1. CASE LoadTotalAndEmit
    BY <2>1 DEF LoadTotalAndEmit, Flush, Event
  <2>2. CASE UNCHANGED last
    BY <2>2
  <2> QED
    BY <2>1, <2>2 DEF Next, CallStep, Probe, RunReturns, ResetTotal, OpenStream, CopyStream,
         StopReporter, CallReturns, WorkerStep, Claim, WriteChunk, ChunkDone, CopyFails,
         AfterFailure, LoadDownloaded, deliveryVars, vars
<1> QED
  BY <1>1, Invariance, PTL DEF Spec, EventsOrdered
=============================================================================
