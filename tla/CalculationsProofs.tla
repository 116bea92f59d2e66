------------------------- MODULE CalculationsProofs -------------------------
(***************************************************************************)
(* Proofs about ExportParts, CaptureSchedule and HeartbeatSummaries: for   *)
(* any export, any interval and any heartbeats, without the bounds of the  *)
(* instances.                                                              *)
(***************************************************************************)
EXTENDS ExportParts, CaptureSchedule, HeartbeatSummaries, SetLemmas

-----------------------------------------------------------------------------
(* Sums over finite sets, as MapThenSumSet takes them: one element after   *)
(* the other.                                                              *)

Picked(s) == CHOOSE x \in s : TRUE

\* F[s] is the sum of g over s, for the subsets s of S.
Sums(F, S, g) ==
  F = [s \in SUBSET S |-> IF s = {} THEN 0 ELSE g[Picked(s)] + F[s \ {Picked(s)}]]

\* The sums over the subsets of at most n elements.
SumsTo(F, n, S, g) ==
  F = [s \in {u \in SUBSET S : Cardinality(u) <= n} |->
         IF s = {} THEN 0 ELSE g[Picked(s)] + F[s \ {Picked(s)}]]

\* A finite set without the element that is picked.
LEMMA PickedLeaves ==
  ASSUME NEW S, IsFiniteSet(S), NEW s \in SUBSET S, s # {}
  PROVE  /\ Picked(s) \in s /\ IsFiniteSet(s)
         /\ Cardinality(s) \in Nat /\ Cardinality(s \ {Picked(s)}) = Cardinality(s) - 1
<1>1. Picked(s) \in s
  BY DEF Picked
<1>2. IsFiniteSet(s)
  BY FS_Subset
<1> QED
  BY <1>1, <1>2, FS_CardinalityType, FS_RemoveElement

\* The sums exist: those over the sets of n + 1 elements are made of those over
\* the sets of n.
LEMMA SumsExist ==
  ASSUME NEW S, IsFiniteSet(S), NEW g
  PROVE  \E F : Sums(F, S, g)
<1> DEFINE Lacking == {n \in Nat : ~ \E F : SumsTo(F, n, S, g)}
<1>1. Lacking = {}
  <2> SUFFICES ASSUME Lacking # {}  PROVE FALSE
    OBVIOUS
  <2>1. PICK n \in Lacking : \A m \in Lacking : n <= m
    BY Least
  <2>2. n # 0
    <3> SUFFICES ASSUME n = 0  PROVE FALSE
      OBVIOUS
    <3> DEFINE Z == [s \in {u \in SUBSET S : Cardinality(u) <= 0} |-> 0]
    <3>1. \A s \in {u \in SUBSET S : Cardinality(u) <= 0} : s = {}
      <4> SUFFICES ASSUME NEW s \in SUBSET S, Cardinality(s) <= 0, s # {}  PROVE FALSE
        OBVIOUS
      <4>1. Cardinality(s) \in Nat /\ IsFiniteSet(s)
        BY PickedLeaves
      <4> QED
        BY <4>1, FS_EmptySet
    <3>2. SumsTo(Z, 0, S, g)
      BY <3>1 DEF SumsTo
    <3> QED
      BY <2>1, <3>2
  <2>3. n - 1 \in Nat /\ n - 1 \notin Lacking
    BY <2>1, <2>2
  <2>4. PICK F : SumsTo(F, n - 1, S, g)
    BY <2>3
  <2> DEFINE Next(s) == IF s = {} THEN 0 ELSE g[Picked(s)] + F[s \ {Picked(s)}]
             D(k) == {u \in SUBSET S : Cardinality(u) <= k}
             G == [s \in D(n) |-> Next(s)]
  <2>5. \A s \in D(n - 1) : s \in D(n) /\ F[s] = Next(s)
    <3>1. \A s \in SUBSET S : Cardinality(s) \in Nat
      BY FS_Subset, FS_CardinalityType
    <3>2. F = [s \in D(n - 1) |-> Next(s)]
      BY <2>4 DEF SumsTo
    <3> SUFFICES ASSUME NEW s \in D(n - 1)  PROVE s \in D(n) /\ F[s] = Next(s)
      OBVIOUS
    <3>3. s \in D(n)
      BY <2>3, <3>1
    <3>4. F[s] = Next(s)
      BY <3>2
    <3> QED
      BY <3>3, <3>4
  <2>6. ASSUME NEW s \in D(n), s # {}  PROVE s \ {Picked(s)} \in D(n - 1)
    BY <2>3, <2>6, PickedLeaves
  <2>7. \A s \in D(n) : Next(s) = IF s = {} THEN 0 ELSE g[Picked(s)] + G[s \ {Picked(s)}]
    BY <2>5, <2>6
  <2>8. SumsTo(G, n, S, g)
    BY <2>7 DEF SumsTo
  <2> QED
    BY <2>1, <2>8
<1>2. Cardinality(S) \in Nat
  BY FS_CardinalityType
<1>3. PICK F : SumsTo(F, Cardinality(S), S, g)
  BY <1>1, <1>2
<1>4. {u \in SUBSET S : Cardinality(u) <= Cardinality(S)} = SUBSET S
  BY FS_Subset
<1>5. Sums(F, S, g)
  BY <1>3, <1>4 DEF SumsTo, Sums
<1> QED
  BY <1>5

\* A sum of natural numbers is one: no smallest set has a sum that is none.
LEMMA SumsAreNatural ==
  ASSUME NEW S, IsFiniteSet(S), NEW g, \A t \in S : g[t] \in Nat,
         NEW F, Sums(F, S, g), NEW s \in SUBSET S
  PROVE  F[s] \in Nat
<1> DEFINE Wrong == {u \in SUBSET S : F[u] \notin Nat}
           Sizes == {Cardinality(u) : u \in Wrong}
<1> SUFFICES ASSUME Wrong # {}  PROVE FALSE
  OBVIOUS
<1>1. \A u \in SUBSET S : IsFiniteSet(u) /\ Cardinality(u) \in Nat
  BY FS_Subset, FS_CardinalityType
<1>2. Sizes \subseteq Nat /\ Sizes # {}
  BY <1>1
<1>3. PICK n \in Sizes : \A m \in Sizes : n <= m
  BY <1>2, Least
<1>4. PICK u \in Wrong : Cardinality(u) = n
  BY <1>3
<1>s. F[u] = IF u = {} THEN 0 ELSE g[Picked(u)] + F[u \ {Picked(u)}]
  BY <1>4, Zenon DEF Sums
<1>5. u # {} /\ F[u] = g[Picked(u)] + F[u \ {Picked(u)}]
  <2>1. u # {}
    BY <1>4, <1>s
  <2> QED
    BY <2>1, <1>s, Zenon
<1>6. Picked(u) \in u /\ Cardinality(u \ {Picked(u)}) = n - 1 /\ n \in Nat
  BY <1>2, <1>4, <1>5, PickedLeaves
<1>7. u \ {Picked(u)} \notin Wrong
  BY <1>3, <1>6
<1>8. F[u \ {Picked(u)}] \in Nat /\ g[Picked(u)] \in Nat
  BY <1>4, <1>6, <1>7
<1> QED
  BY <1>4, <1>5, <1>8

Together(U, s) == UNION {U[t] : t \in s}

\* If g counts sets that are apart, its sum counts their union.
LEMMA SumsCount ==
  ASSUME NEW S, IsFiniteSet(S), NEW g, NEW F, Sums(F, S, g), NEW U,
         \A t \in S : IsFiniteSet(U[t]) /\ g[t] = Cardinality(U[t]),
         \A t, v \in S : t # v => U[t] \cap U[v] = {},
         NEW s \in SUBSET S
  PROVE  IsFiniteSet(Together(U, s)) /\ F[s] = Cardinality(Together(U, s))
<1> DEFINE All(w) == Together(U, w)
<1>a. All({}) = {}
  BY DEF Together
<1>b. ASSUME NEW w \in SUBSET S, NEW p \in w
      PROVE  All(w) = U[p] \cup All(w \ {p}) /\ U[p] \cap All(w \ {p}) = {}
  <2>1. All(w) = U[p] \cup All(w \ {p})
    BY DEF Together
  <2>2. U[p] \cap All(w \ {p}) = {}
    BY <1>b DEF Together
  <2> QED
    BY <2>1, <2>2
<1> HIDE DEF All
<1> DEFINE Wrong == {w \in SUBSET S : ~(IsFiniteSet(All(w)) /\ F[w] = Cardinality(All(w)))}
           Sizes == {Cardinality(w) : w \in Wrong}
<1> SUFFICES ASSUME Wrong # {}  PROVE FALSE
  BY DEF All
<1>1. \A w \in SUBSET S : IsFiniteSet(w) /\ Cardinality(w) \in Nat
  BY FS_Subset, FS_CardinalityType
<1>2. Sizes \subseteq Nat /\ Sizes # {}
  BY <1>1
<1>3. PICK n \in Sizes : \A m \in Sizes : n <= m
  BY <1>2, Least
<1>4. PICK w \in Wrong : Cardinality(w) = n
  BY <1>3
<1>w. w \in SUBSET S /\ ~(IsFiniteSet(All(w)) /\ F[w] = Cardinality(All(w)))
  BY <1>4
<1>5. w # {}
  <2> SUFFICES ASSUME w = {}  PROVE FALSE
    OBVIOUS
  <2>1. F[w] = 0
    BY <1>w, Zenon DEF Sums
  <2> QED
    BY <1>w, <1>a, <2>1, FS_EmptySet
<1>6. PICK p : p = Picked(w)
  OBVIOUS
<1>7. p \in w /\ Cardinality(w \ {p}) = n - 1 /\ n \in Nat
  BY <1>2, <1>w, <1>4, <1>5, <1>6, PickedLeaves
<1>8. w \ {p} \in SUBSET S /\ w \ {p} \notin Wrong
  BY <1>3, <1>w, <1>7
<1>9. IsFiniteSet(All(w \ {p})) /\ F[w \ {p}] = Cardinality(All(w \ {p}))
  BY <1>8
<1>10. All(w) = U[p] \cup All(w \ {p}) /\ U[p] \cap All(w \ {p}) = {}
  BY <1>b, <1>w, <1>7
<1>11. p \in S /\ IsFiniteSet(U[p]) /\ g[p] = Cardinality(U[p])
  BY <1>w, <1>7
<1>12. F[w] = g[p] + F[w \ {p}]
  <2>1. F[w] = IF w = {} THEN 0 ELSE g[Picked(w)] + F[w \ {Picked(w)}]
    BY <1>w, Zenon DEF Sums
  <2>2. F[w] = g[Picked(w)] + F[w \ {Picked(w)}]
    BY <1>5, <2>1, Zenon
  <2> QED
    BY <1>6, <2>2
<1>13. /\ IsFiniteSet(U[p] \cup All(w \ {p}))
       /\ Cardinality(U[p] \cup All(w \ {p})) =
            Cardinality(U[p]) + Cardinality(All(w \ {p})) - Cardinality(U[p] \cap All(w \ {p}))
  BY <1>9, <1>11, FS_Union
<1>14. Cardinality(U[p]) \in Nat /\ Cardinality(All(w \ {p})) \in Nat /\ Cardinality({}) = 0
  BY <1>9, <1>11, FS_CardinalityType, FS_EmptySet
<1>15. F[w] = Cardinality(All(w))
  <2>1. Cardinality(All(w)) = Cardinality(U[p]) + Cardinality(All(w \ {p})) - 0
    BY <1>10, <1>13, <1>14
  <2>2. F[w] = Cardinality(U[p]) + Cardinality(All(w \ {p}))
    BY <1>9, <1>11, <1>12
  <2> QED
    BY <1>14, <2>1, <2>2
<1> QED
  BY <1>w, <1>10, <1>13, <1>15

-----------------------------------------------------------------------------
(* The parts of an export.                                                 *)

PackingInv ==
  /\ PackingTypeOK /\ PartsHoldTheImages /\ PartsAreFull
  /\ first <= image /\ DOMAIN disk \subseteq 1..(Len(parts) + 1)
  /\ outcome # "built" =>
       /\ Packed = first - 1
       /\ first = image => image = 1 /\ parts = <<>> /\ DOMAIN disk = {}
  /\ outcome = "building" /\ first < image =>
       \/ ZipBytes(first, image - 1) <= MaximumPartBytes
       \/ first = image - 1 /\ parts # <<>>

\* The size of a ZIP file is a number, and 0 if no image is in it.
LEMMA ZipSizes ==
  ASSUME sizes \in Seq(Nat), NEW a \in Nat \ {0}, NEW b \in Nat, b <= Len(sizes)
  PROVE  ZipBytes(a, b) \in Nat /\ (b < a => ZipBytes(a, b) = 0)
<1>1. IsFiniteSet(a..b) /\ \A t \in a..b : sizes[t] \in Nat
  <2>1. IsFiniteSet(a..b)
    BY FS_Interval
  <2>2. ASSUME NEW t \in a..b  PROVE sizes[t] \in Nat
    <3>1. t \in 1..Len(sizes)
      OBVIOUS
    <3> QED
      BY <3>1
  <2> QED
    BY <2>1, <2>2
<1>2. PICK E : Sums(E, a..b, sizes)
  BY <1>1, SumsExist
<1>3. E = [s \in SUBSET (a..b) |->
             IF s = {} THEN 0
             ELSE sizes[CHOOSE x \in s : TRUE] + E[s \ {CHOOSE x \in s : TRUE}]]
  BY <1>2, Zenon DEF Sums, Picked
<1>4. \E F : /\ F = [s \in SUBSET (a..b) |->
                       IF s = {} THEN 0
                       ELSE sizes[CHOOSE x \in s : TRUE] + F[s \ {CHOOSE x \in s : TRUE}]]
             /\ ZipBytes(a, b) = F[a..b]
  BY <1>3, Zenon DEF ZipBytes, MapThenSumSet, MapThenFoldSet
<1>5. PICK F : Sums(F, a..b, sizes) /\ ZipBytes(a, b) = F[a..b]
  BY <1>4, Zenon DEF Sums, Picked
<1>6. ZipBytes(a, b) \in Nat
  BY <1>1, <1>5, SumsAreNatural
<1>7. ASSUME b < a  PROVE ZipBytes(a, b) = 0
  <2>1. a..b = {}
    BY <1>7
  <2>2. F[a..b] = IF a..b = {} THEN 0 ELSE sizes[Picked(a..b)] + F[(a..b) \ {Picked(a..b)}]
    BY <1>5, Zenon DEF Sums
  <2> QED
    BY <1>5, <2>1, <2>2, Zenon
<1> QED
  BY <1>6, <1>7

\* ... and the same as long as the images are.
LEMMA ZipStays ==
  ASSUME sizes' = sizes, NEW a, NEW b  PROVE ZipBytes(a, b)' = ZipBytes(a, b)
  BY DEF ZipBytes, MapThenSumSet, MapThenFoldSet

\* An export starts with its first image taken and no part.
LEMMA PackingStart == PackingInit => PackingInv
<1> SUFFICES ASSUME PackingInit  PROVE PackingInv
  OBVIOUS
<1>1. /\ sizes \in Seq(Nat) /\ image = 1 /\ first = 1 /\ parts = <<>> /\ disk = <<>>
      /\ outcome = "building"
  BY ExportsAreSizes DEF PackingInit
<1>2. DOMAIN disk = {} /\ Len(parts) = 0 /\ 1..Len(parts) = {} /\ Len(sizes) \in Nat
  BY <1>1
<1>3. PackingTypeOK
  BY <1>1, <1>2 DEF PackingTypeOK
<1>4. PartsHoldTheImages /\ PartsAreFull
  BY <1>1, <1>2 DEF PartsHoldTheImages, PartsAreFull, Packed
<1> QED
  BY <1>1, <1>2, <1>3, <1>4 DEF PackingInv, Packed

\* A new part at the end.
LEMMA NewPart ==
  ASSUME PackingInv, outcome = "building", Finalize,
         parts' = Append(parts, <<first, image - 1>>), sizes' = sizes,
         image - 1 < Len(sizes) => ZipBytes(first, image) > MaximumPartBytes,
         first < image \/ parts = <<>>
  PROVE  /\ parts' \in Seq(Nat \X Nat) /\ parts' # <<>> /\ Packed' = image - 1
         /\ DOMAIN disk' = DOMAIN disk \cup {Len(parts')} /\ Len(parts') = Len(parts) + 1
         /\ \A k \in 1..Len(parts') :
              /\ parts'[k][1] = (IF k = 1 THEN 1 ELSE parts'[k - 1][2] + 1)
              /\ k \in DOMAIN disk' /\ disk'[k] = parts'[k]
         /\ PartsAreFull'
<1> DEFINE n == Len(parts) + 1
           part == <<first, image - 1>>
<1>1. /\ parts \in Seq(Nat \X Nat) /\ Len(parts) \in Nat /\ part \in Nat \X Nat
      /\ image \in Nat /\ first \in Nat /\ first >= 1 /\ image >= 1 /\ image <= Len(sizes) + 1
      /\ sizes \in Seq(Nat) /\ Len(sizes) \in Nat
  BY SMTT(30) DEF PackingInv, PackingTypeOK
<1>2. /\ parts' \in Seq(Nat \X Nat) /\ Len(parts') = n /\ parts'[n] = part
      /\ \A k \in 1..Len(parts) : parts'[k] = parts[k]
  BY <1>1, SMTT(30)
<1>3. /\ DOMAIN disk' = DOMAIN disk \cup {n} /\ disk'[n] = part
      /\ \A k \in DOMAIN disk : k # n => disk'[k] = disk[k]
  BY DEF Finalize, Write
<1>4. Packed' = image - 1 /\ parts' # <<>>
  <2>1. Len(parts') # 0 /\ Len(parts') = n /\ parts'[n] = <<first, image - 1>>
    BY <1>1, <1>2, SMTT(30)
  <2>2. parts' # <<>>
    BY <2>1
  <2>3. parts'[Len(parts')][2] = image - 1
    BY <2>1
  <2> QED
    BY <2>2, <2>3 DEF Packed
<1>5. ASSUME NEW k \in 1..n
      PROVE  /\ parts'[k][1] = (IF k = 1 THEN 1 ELSE parts'[k - 1][2] + 1)
             /\ k \in DOMAIN disk' /\ disk'[k] = parts'[k]
  <2>1. CASE k = n
    <3>1. k \in DOMAIN disk' /\ disk'[k] = parts'[k]
      BY <1>2, <1>3, <2>1
    <3>2. parts'[k][1] = first /\ Packed = first - 1
      BY <1>2, <2>1 DEF PackingInv
    <3>3. CASE n = 1
      BY <1>1, <2>1, <3>1, <3>2, <3>3 DEF Packed
    <3>4. CASE n # 1
      <4>1. parts # <<>> /\ Len(parts) \in 1..Len(parts)
        BY <1>1, <3>4
      <4>2. parts'[k - 1] = parts[Len(parts)] /\ k # 1
        BY <1>1, <1>2, <2>1, <3>4, <4>1
      <4>3. parts[Len(parts)][2] = first - 1
        BY <3>2, <4>1 DEF Packed
      <4>4. parts'[k - 1][2] = first - 1
        BY <4>2, <4>3, Zenon
      <4>5. first - 1 + 1 = first
        BY <1>1
      <4>6. parts'[k - 1][2] + 1 = first
        BY <4>4, <4>5
      <4> QED
        BY <3>1, <3>2, <4>2, <4>6
    <3> QED
      BY <3>3, <3>4
  <2>2. CASE k # n
    <3>1. k \in 1..Len(parts)
      BY <1>1, <2>2
    <3>2. /\ parts[k][1] = (IF k = 1 THEN 1 ELSE parts[k - 1][2] + 1)
          /\ k \in DOMAIN disk /\ disk[k] = parts[k]
      BY <3>1 DEF PackingInv, PartsHoldTheImages
    <3>3. parts'[k] = parts[k] /\ (k # 1 => parts'[k - 1] = parts[k - 1])
      <4>1. k # 1 => k - 1 \in 1..Len(parts)
        BY <1>1, <3>1
      <4> HIDE DEF n, part
      <4> QED
        BY <1>2, <3>1, <4>1
    <3> QED
      BY <1>3, <2>2, <3>2, <3>3
  <2> QED
    BY <2>1, <2>2
<1>6. ASSUME NEW k \in 1..n
      PROVE  /\ \/ ZipBytes(parts[k][1], parts[k][2])' <= MaximumPartBytes
                \/ k > 1 /\ parts'[k][1] = parts'[k][2]
             /\ parts'[k][2] < Len(sizes)' =>
                  ZipBytes(parts[k][1], parts[k][2] + 1)' > MaximumPartBytes
  <2>1. PICK a, b : a = parts'[k][1] /\ b = parts'[k][2]
    OBVIOUS
  <2>2. /\ ZipBytes(a, b) <= MaximumPartBytes \/ (k > 1 /\ a = b)
        /\ b < Len(sizes) => ZipBytes(a, b + 1) > MaximumPartBytes
    <3>1. CASE k = n
      <4>1. a = first /\ b = image - 1 /\ image = b + 1
        BY <1>1, <1>2, <2>1, <3>1
      <4>2. CASE first < image
        <5>1. \/ ZipBytes(first, image - 1) <= MaximumPartBytes
              \/ first = image - 1 /\ parts # <<>>
          BY <4>2 DEF PackingInv
        <5>2. parts # <<>> => k > 1
          BY <1>1, <3>1
        <5> QED
          BY <4>1, <5>1, <5>2
      <4>3. CASE parts = <<>> /\ ~(first < image)
        <5>1. b \in Nat /\ b < a /\ a \in Nat \ {0} /\ b <= Len(sizes)
          BY <1>1, <4>1, <4>3
        <5>2. ZipBytes(a, b) = 0
          BY <1>1, <5>1, ZipSizes
        <5> QED
          BY <4>1, <5>2, LimitIsNat
      <4> QED
        BY <4>2, <4>3
    <3>2. CASE k # n
      <4>1. k \in 1..Len(parts) /\ a = parts[k][1] /\ b = parts[k][2]
        BY <1>1, <1>2, <2>1, <3>2
      <4> QED
        BY <4>1 DEF PackingInv, PartsAreFull
    <3> QED
      BY <3>1, <3>2
  <2>3. ZipBytes(a, b)' = ZipBytes(a, b) /\ ZipBytes(a, b + 1)' = ZipBytes(a, b + 1)
    BY ZipStays
  <2> QED
    BY <2>1, <2>2, <2>3
<1>7. PartsAreFull'
  BY <1>2, <1>6 DEF PartsAreFull
<1> QED
  BY <1>2, <1>3, <1>4, <1>5, <1>7

\* One image after the other.
LEMMA PackingStep ==
  ASSUME PackingInv, [PackingNext]_exportVars  PROVE PackingInv'
<1>1. /\ parts \in Seq(Nat \X Nat) /\ Len(parts) \in Nat
      /\ image \in Nat /\ first \in Nat /\ first >= 1 /\ image >= 1 /\ image <= Len(sizes) + 1
      /\ first <= image /\ sizes \in Seq(Nat) /\ Len(sizes) \in Nat
      /\ DOMAIN disk \subseteq 1..(Len(parts) + 1)
  BY DEF PackingInv, PackingTypeOK
<1>same. ASSUME UNCHANGED <<sizes, parts>>  PROVE PartsAreFull' /\ Packed' = Packed
  <2>1. ASSUME NEW k \in 1..Len(parts)
        PROVE  /\ \/ ZipBytes(parts[k][1], parts[k][2])' <= MaximumPartBytes
                  \/ k > 1 /\ parts[k][1] = parts[k][2]
               /\ parts[k][2] < Len(sizes) =>
                    ZipBytes(parts[k][1], parts[k][2] + 1)' > MaximumPartBytes
    <3>1. PICK a, b : a = parts[k][1] /\ b = parts[k][2]
      OBVIOUS
    <3>2. ZipBytes(a, b)' = ZipBytes(a, b) /\ ZipBytes(a, b + 1)' = ZipBytes(a, b + 1)
      BY <1>same, ZipStays
    <3>3. /\ ZipBytes(a, b) <= MaximumPartBytes \/ (k > 1 /\ a = b)
          /\ b < Len(sizes) => ZipBytes(a, b + 1) > MaximumPartBytes
      BY <3>1 DEF PackingInv, PartsAreFull
    <3> QED
      BY <1>same, <3>1, <3>2, <3>3
  <2> QED
    BY <1>same, <2>1 DEF PartsAreFull, Packed
<1>2. CASE ImageFits
  <2>1. /\ outcome = "building" /\ image <= Len(sizes) /\ Fits(first, image)
        /\ image' = image + 1 /\ UNCHANGED <<sizes, first, parts, outcome>>
        /\ disk' = [k \in DOMAIN disk \cup {Len(parts) + 1} |->
                      IF k = Len(parts) + 1 THEN <<first, image>> ELSE disk[k]]
    BY <1>2 DEF ImageFits, Taking, Write
  <2>2. PackingTypeOK'
    BY <1>1, <2>1 DEF PackingInv, PackingTypeOK
  <2>3. DOMAIN disk' = DOMAIN disk \cup {Len(parts) + 1} /\ \A k \in 1..Len(parts) : disk'[k] = disk[k]
    <3>1. \A k \in 1..Len(parts) : k \in DOMAIN disk /\ k # Len(parts) + 1
      BY <1>1 DEF PackingInv, PartsHoldTheImages
    <3> QED
      BY <2>1, <3>1
  <2>4. PartsHoldTheImages'
    BY <1>same, <2>1, <2>3 DEF PackingInv, PartsHoldTheImages
  <2>5. ZipBytes(first, image - 1)' <= MaximumPartBytes
    <3>1. PICK a, b : a = first /\ b = image
      OBVIOUS
    <3>2. ZipBytes(a, b)' = ZipBytes(a, b) /\ ZipBytes(a, b) <= MaximumPartBytes
      BY <2>1, <3>1, ZipStays DEF Fits
    <3>3. first' = a /\ image' - 1 = b
      BY <1>1, <2>1, <3>1
    <3> QED
      BY <3>2, <3>3
  <2>6. Packed' = first' - 1 /\ first' <= image' /\ first' # image'
    BY <1>1, <1>same, <2>1 DEF PackingInv
  <2>7. DOMAIN disk' \subseteq 1..(Len(parts') + 1)
    BY <1>1, <2>1, <2>3
  <2> QED
    BY <1>same, <2>1, <2>2, <2>4, <2>5, <2>6, <2>7 DEF PackingInv
<1>3. CASE SingleImageTooLarge
  <2>1. /\ outcome = "building" /\ first = image /\ outcome' = "too_large"
        /\ UNCHANGED <<sizes, first, parts, image>>
        /\ disk' = Restrict(disk, DOMAIN disk \ {Len(parts) + 1})
    BY <1>3 DEF SingleImageTooLarge, Taking
  <2>2. image = 1 /\ parts = <<>> /\ DOMAIN disk = {}
    BY <2>1 DEF PackingInv
  <2>3. DOMAIN disk' = {}
    BY <2>1, <2>2 DEF Restrict
  <2>4. PackingTypeOK'
    BY <2>1 DEF PackingInv, PackingTypeOK
  <2>5. PartsHoldTheImages'
    <3>1. Len(parts') = 0
      BY <2>1, <2>2
    <3> QED
      BY <2>1, <2>3, <3>1 DEF PartsHoldTheImages
  <2>6. Packed' = first' - 1
    BY <1>same, <2>1 DEF PackingInv
  <2> QED
    BY <1>1, <1>same, <2>1, <2>2, <2>3, <2>4, <2>5, <2>6 DEF PackingInv
<1>4. CASE PartIsFull
  <2>1. /\ outcome = "building" /\ image <= Len(sizes) /\ first < image /\ ~Fits(first, image)
        /\ Finalize /\ parts' = Append(parts, <<first, image - 1>>)
        /\ first' = image /\ image' = image + 1 /\ UNCHANGED <<sizes, outcome>>
    BY <1>4 DEF PartIsFull, Taking
  <2>2. ZipBytes(first, image) > MaximumPartBytes
    <3>1. ZipBytes(first, image) \in Nat
      BY <1>1, <2>1, ZipSizes
    <3> QED
      BY <2>1, <3>1, LimitIsNat DEF Fits
  <2>3. /\ parts' \in Seq(Nat \X Nat) /\ parts' # <<>> /\ Packed' = image - 1
        /\ DOMAIN disk' = DOMAIN disk \cup {Len(parts')} /\ Len(parts') = Len(parts) + 1
        /\ \A k \in 1..Len(parts') :
             /\ parts'[k][1] = (IF k = 1 THEN 1 ELSE parts'[k - 1][2] + 1)
             /\ k \in DOMAIN disk' /\ disk'[k] = parts'[k]
        /\ PartsAreFull'
    BY <2>1, <2>2, NewPart
  <2>4. PackingTypeOK'
    BY <1>1, <2>1, <2>3 DEF PackingInv, PackingTypeOK
  <2>5. PartsHoldTheImages'
    BY <2>1, <2>3 DEF PartsHoldTheImages
  <2>6. DOMAIN disk' \subseteq 1..(Len(parts') + 1)
    BY <1>1, <2>3
  <2>7. first' <= image' /\ first' # image' /\ first' = image' - 1
    BY <1>1, <2>1
  <2> QED
    BY <2>1, <2>3, <2>4, <2>5, <2>6, <2>7 DEF PackingInv
<1>5. CASE LastPart
  <2>1. /\ outcome = "building" /\ image > Len(sizes) /\ (first < image \/ parts = <<>>)
        /\ Finalize /\ parts' = Append(parts, <<first, image - 1>>)
        /\ outcome' = "built" /\ UNCHANGED <<sizes, image, first>>
    BY <1>5 DEF LastPart
  <2>2. ~(image - 1 < Len(sizes)) /\ image - 1 = Len(sizes)
    BY <1>1, <2>1, SMTT(30)
  <2>3. /\ parts' \in Seq(Nat \X Nat) /\ parts' # <<>> /\ Packed' = image - 1
        /\ DOMAIN disk' = DOMAIN disk \cup {Len(parts')} /\ Len(parts') = Len(parts) + 1
        /\ \A k \in 1..Len(parts') :
             /\ parts'[k][1] = (IF k = 1 THEN 1 ELSE parts'[k - 1][2] + 1)
             /\ k \in DOMAIN disk' /\ disk'[k] = parts'[k]
        /\ PartsAreFull'
    BY <2>1, <2>2, NewPart
  <2>4. PackingTypeOK'
    BY <2>1, <2>3 DEF PackingInv, PackingTypeOK
  <2>5. DOMAIN disk' = 1..Len(parts')
    <3>1. \A k \in 1..Len(parts') : k \in DOMAIN disk'
      BY <2>3
    <3> QED
      BY <1>1, <2>3, <3>1
  <2>6. PartsHoldTheImages'
    BY <2>1, <2>2, <2>3, <2>5 DEF PartsHoldTheImages
  <2>7. DOMAIN disk' \subseteq 1..(Len(parts') + 1)
    BY <1>1, <2>3
  <2> QED
    BY <1>1, <2>1, <2>3, <2>4, <2>6, <2>7 DEF PackingInv
<1>6. CASE UNCHANGED exportVars
  <2>1. UNCHANGED <<sizes, image, first, parts, disk, outcome>>
    BY <1>6 DEF exportVars
  <2>2. PackingTypeOK' /\ PartsHoldTheImages'
    BY <1>same, <2>1 DEF PackingInv, PackingTypeOK, PartsHoldTheImages
  <2>3. ZipBytes(first, image - 1)' = ZipBytes(first, image - 1)
    <3>1. PICK a, b : a = first /\ b = image - 1
      OBVIOUS
    <3> QED
      BY <2>1, <3>1, ZipStays
  <2> QED
    BY <1>same, <2>1, <2>2, <2>3 DEF PackingInv
<1> QED
  BY <1>2, <1>3, <1>4, <1>5, <1>6 DEF PackingNext

\* The packing keeps its invariant.
THEOREM PackingInvariance == PackingSpec => []PackingInv
<1>1. PackingInit => PackingInv
  BY PackingStart
<1>2. PackingInv /\ [PackingNext]_exportVars => PackingInv'
  BY PackingStep
<1> QED
  BY <1>1, <1>2, PTL DEF PackingSpec

\* build_export_zip_parts loses, repeats and moves no image, whatever the sizes
\* and whichever candidates it wrote on the way, and each part has its file.
THEOREM NoImageIsLost == PackingSpec => []PartsHoldTheImages
<1>1. PackingInv => PartsHoldTheImages
  BY DEF PackingInv
<1> QED
  BY <1>1, PackingInvariance, PTL

\* Parts are filled up, and only a single image that is not the first of its
\* export makes one that is too large.
THEOREM PartsAreFilled == PackingSpec => []PartsAreFull
<1>1. PackingInv => PartsAreFull
  BY DEF PackingInv
<1> QED
  BY <1>1, PackingInvariance, PTL

-----------------------------------------------------------------------------
(* The schedule of captures.                                               *)

\* The next capture is on the grid; while one is taken it is the one that was
\* due, and otherwise it comes after the interval of the last one.
ScheduleInv ==
  /\ ScheduleTypeOK
  /\ nextCapture % Interval = 0
  /\ capturing => nextCapture <= clock
  /\ lastSlot * Interval <= clock
  /\ ~capturing => lastSlot * Interval < nextCapture

\* Division with remainder.
LEMMA Division ==
  ASSUME NEW a \in Nat, NEW b \in Nat \ {0}
  PROVE  /\ a \div b \in Nat /\ a % b \in 0..(b - 1)
         /\ a = (a \div b) * b + (a % b)
OBVIOUS

\* A multiple is on the grid.
LEMMA OnTheGrid ==
  ASSUME NEW k \in Nat, NEW b \in Nat \ {0}
  PROVE  (k * b) % b = 0
OBVIOUS

\* An earlier multiple lies in an earlier interval.
LEMMA Order ==
  ASSUME NEW j \in Int, NEW k \in Int, NEW b \in Nat \ {0}, j * b < k * b
  PROVE  j < k
OBVIOUS

\* The grid goes on.
LEMMA NextOnTheGrid ==
  ASSUME NEW n \in Nat, n % Interval = 0
  PROVE  n + Interval \in Nat /\ (n + Interval) % Interval = 0
<1> DEFINE k == n \div Interval
<1>1. k \in Nat /\ n = k * Interval
  BY IntervalIsPositive, Division
<1> HIDE DEF k
<1>2. n + Interval = (k + 1) * Interval /\ k + 1 \in Nat
  BY <1>1, IntervalIsPositive
<1> QED
  BY <1>2, OnTheGrid, IntervalIsPositive

\* The next capture is the first instant of the grid after now.
LEMMA RescheduleGives ==
  ASSUME NEW due \in Nat, NEW now \in Nat, due % Interval = 0, due <= now + Interval
  PROVE  /\ Reschedule(due, now) \in Nat /\ Reschedule(due, now) % Interval = 0
         /\ now < Reschedule(due, now) /\ Reschedule(due, now) <= now + Interval
<1> USE IntervalIsPositive
<1>1. CASE now < due
  BY <1>1 DEF Reschedule
<1>2. CASE due <= now
  <2> DEFINE q == (now - due) \div Interval
             r == (now - due) % Interval
             k == due \div Interval
  <2>1. /\ q \in Nat /\ r \in 0..(Interval - 1) /\ now - due = q * Interval + r
    <3>1. now - due \in Nat
      BY <1>2
    <3> QED
      BY <3>1, Division
  <2>2. k \in Nat /\ due = k * Interval
    BY Division
  <2> HIDE DEF q, r, k
  <2>3. Reschedule(due, now) = due + (q + 1) * Interval
    BY <1>2 DEF Reschedule, q
  <2>4. (q + 1) * Interval = q * Interval + Interval /\ q * Interval \in Nat
    BY <2>1
  <2>5. now < Reschedule(due, now) /\ Reschedule(due, now) <= now + Interval
    BY <2>1, <2>3, <2>4
  <2>6. due + (q + 1) * Interval = (k + (q + 1)) * Interval /\ k + (q + 1) \in Nat
    <3>1. ASSUME NEW x \in Nat, NEW y \in Nat, NEW z \in Nat
          PROVE  x * z + y * z = (x + y) * z
      OBVIOUS
    <3> QED
      BY <2>1, <2>2, <3>1
  <2>7. Reschedule(due, now) % Interval = 0
    BY <2>3, <2>6, OnTheGrid
  <2> QED
    BY <2>3, <2>4, <2>5, <2>7
<1> QED
  BY <1>1, <1>2

\* The first capture is due at once, which is an instant of the grid.
LEMMA ScheduleStart == ScheduleInit => ScheduleInv
<1>1. /\ (-1) * Interval = -Interval /\ 0 % Interval = 0
      /\ -Interval < 0 /\ -1 \in Nat \cup {-1}
  BY IntervalIsPositive
<1> SUFFICES ASSUME ScheduleInit PROVE ScheduleInv
  OBVIOUS
<1>2. clock = 0 /\ nextCapture = 0 /\ capturing = FALSE /\ lastSlot = -1
  BY DEF ScheduleInit
<1>3. ScheduleTypeOK
  BY <1>2 DEF ScheduleTypeOK
<1>4. nextCapture % Interval = 0 /\ lastSlot * Interval < 0
  BY <1>1, <1>2
<1>5. lastSlot * Interval <= clock /\ lastSlot * Interval < nextCapture
  <2>1. ASSUME NEW x \in Int, x < 0 PROVE x <= 0
    BY <2>1
  <2>2. lastSlot * Interval \in Int
    BY <1>2, IntervalIsPositive
  <2> QED
    BY <1>2, <1>4, <2>1, <2>2
<1> QED
  BY <1>2, <1>3, <1>4, <1>5 DEF ScheduleInv

\* Beginning, ending and rescheduling a capture keep the schedule's invariant.
LEMMA ScheduleStep == ScheduleInv /\ [ScheduleNext]_scheduleVars => ScheduleInv'
<1> SUFFICES ASSUME ScheduleInv, [ScheduleNext]_scheduleVars PROVE ScheduleInv'
  OBVIOUS
<1>types. /\ clock \in Nat /\ nextCapture \in Nat /\ capturing \in BOOLEAN
      /\ lastSlot \in Nat \cup {-1} /\ nextCapture % Interval = 0 /\ Interval \in Nat \ {0}
  BY IntervalIsPositive DEF ScheduleInv, ScheduleTypeOK
<1>slot. lastSlot * Interval \in Int /\ lastSlot * Interval <= clock
  BY <1>types DEF ScheduleInv
<1>1. CASE TimeGoesOn
  <2>1. lastSlot' * Interval = lastSlot * Interval /\ clock' = clock + 1
    BY <1>1 DEF TimeGoesOn
  <2> QED
    BY <1>1, <1>types, <1>slot, <2>1 DEF TimeGoesOn, ScheduleInv, ScheduleTypeOK
<1>2. CASE BeginCapture
  <2>1. /\ Slot(clock) \in Nat /\ Slot(clock) * Interval <= clock
    BY <1>types, Division DEF Slot
  <2> QED
    BY <1>2, <1>types, <2>1 DEF BeginCapture, ScheduleInv, ScheduleTypeOK
<1>3. CASE EndCapture
  <2>1. nextCapture + Interval \in Nat /\ (nextCapture + Interval) % Interval = 0
    BY <1>types, NextOnTheGrid
  <2>2. nextCapture <= clock
    BY <1>3 DEF EndCapture, ScheduleInv
  <2> DEFINE n == Reschedule(nextCapture + Interval, clock)
  <2>3. nextCapture + Interval <= clock + Interval
    BY <1>types, <2>2
  <2>4. n \in Nat /\ n % Interval = 0 /\ clock < n
    BY <1>types, <2>1, <2>3, RescheduleGives
  <2>5. capturing' = FALSE /\ nextCapture' = n /\ clock' = clock /\ lastSlot' = lastSlot
    BY <1>3 DEF EndCapture
  <2> HIDE DEF n
  <2>6. lastSlot * Interval < n
    <3>1. ASSUME NEW x \in Int, x <= clock PROVE x < n
      BY <1>types, <2>4, <3>1
    <3> QED
      BY <1>slot, <3>1
  <2>7. ScheduleTypeOK'
    BY <1>types, <2>4, <2>5 DEF ScheduleTypeOK
  <2> QED
    BY <1>slot, <2>4, <2>5, <2>6, <2>7 DEF ScheduleInv
<1>4. CASE UNCHANGED scheduleVars
  BY <1>4 DEF scheduleVars, ScheduleInv, ScheduleTypeOK
<1> QED
  BY <1>1, <1>2, <1>3, <1>4 DEF ScheduleNext

\* ScheduleInv is an invariant of the capture schedule.
THEOREM ScheduleInvariance == ScheduleSpec => []ScheduleInv
  BY ScheduleStart, ScheduleStep, PTL DEF ScheduleSpec

\* The two halves of CapturesKeepTime, for a single step.
LEMMA KeepsTime ==
  ASSUME ScheduleInv, [ScheduleNext]_scheduleVars
  PROVE  /\ capturing' /\ ~capturing => lastSlot' > lastSlot
         /\ capturing /\ ~capturing' =>
              /\ nextCapture' % Interval = 0
              /\ clock < nextCapture' /\ nextCapture' <= clock + Interval
<1>types. /\ clock \in Nat /\ nextCapture \in Nat /\ lastSlot \in Nat \cup {-1}
      /\ nextCapture % Interval = 0 /\ Interval \in Nat \ {0}
  BY IntervalIsPositive DEF ScheduleInv, ScheduleTypeOK
<1>1. CASE BeginCapture
  <2>1. nextCapture = (nextCapture \div Interval) * Interval /\ nextCapture \div Interval \in Nat
    BY <1>types, Division
  <2>2. lastSlot < nextCapture \div Interval
    BY <1>1, <1>types, <2>1, Order DEF BeginCapture, ScheduleInv
  <2>3. Slot(clock) \in Nat /\ nextCapture \div Interval <= Slot(clock)
    <3>1. /\ Slot(clock) \in Nat /\ clock % Interval \in 0..(Interval - 1)
          /\ clock = Slot(clock) * Interval + (clock % Interval)
      BY <1>types, Division DEF Slot
    <3>2. Slot(clock) * Interval + Interval = (Slot(clock) + 1) * Interval
      BY <1>types, <3>1
    <3>3. (nextCapture \div Interval) * Interval < (Slot(clock) + 1) * Interval
      BY <1>1, <1>types, <2>1, <3>1, <3>2 DEF BeginCapture
    <3>4. nextCapture \div Interval < Slot(clock) + 1
      BY <1>types, <2>1, <3>1, <3>3, Order
    <3> QED
      BY <2>1, <3>1, <3>4
  <2> QED
    BY <1>1, <1>types, <2>1, <2>2, <2>3 DEF BeginCapture
<1>2. CASE EndCapture
  <2>1. nextCapture + Interval \in Nat /\ (nextCapture + Interval) % Interval = 0
    BY <1>types, NextOnTheGrid
  <2>2. nextCapture + Interval <= clock + Interval
    BY <1>2, <1>types DEF EndCapture, ScheduleInv
  <2> QED
    BY <1>2, <1>types, <2>1, <2>2, RescheduleGives DEF EndCapture
<1>3. CASE TimeGoesOn \/ UNCHANGED scheduleVars
  BY <1>3 DEF TimeGoesOn, scheduleVars
<1> QED
  BY <1>1, <1>2, <1>3 DEF ScheduleNext

\* The clock, the next capture and the last one are what ScheduleTypeOK says.
THEOREM ScheduleTyped == ScheduleSpec => []ScheduleTypeOK
<1>1. ScheduleInv => ScheduleTypeOK
  BY DEF ScheduleInv
<1> QED
  BY <1>1, ScheduleInvariance, PTL

\* For every interval captures keep to the grid, one in an interval at most.
THEOREM NoDrift == ScheduleSpec => CapturesKeepTime
<1>1. ScheduleInv /\ [ScheduleNext]_scheduleVars =>
        [/\ capturing' /\ ~capturing => lastSlot' > lastSlot
         /\ capturing /\ ~capturing' =>
              /\ nextCapture' % Interval = 0
              /\ clock < nextCapture' /\ nextCapture' <= clock + Interval]_scheduleVars
  BY KeepsTime
<1> QED
  BY <1>1, ScheduleInvariance, PTL DEF ScheduleSpec, CapturesKeepTime

-----------------------------------------------------------------------------
(* What the summary of a day measures.                                     *)

\* The heartbeat before t.
Prev(b, t) == Max({u \in b : u < t})

\* Every heartbeat but the first has one before it.
LEMMA PrevIs ==
  ASSUME NEW b, b \subseteq Nat, IsFiniteSet(b), NEW t \in b \ {Min(b)}
  PROVE  Prev(b, t) \in b /\ Prev(b, t) < t /\ \A u \in b : u < t => u <= Prev(b, t)
<1>1. \E m \in b : \A u \in b : m <= u
  BY Least
<1>2. Min(b) \in b /\ \A u \in b : Min(b) <= u
  BY <1>1, Zenon DEF Min
<1> DEFINE before == {u \in b : u < t}
<1>3. before \subseteq Int /\ IsFiniteSet(before)
  <2>1. before \in SUBSET b /\ b \subseteq Int
    <3>1. before \in SUBSET b
      BY Zenon
    <3> QED
      BY <3>1
  <2> HIDE DEF before
  <2>2. IsFiniteSet(before)
    BY <2>1, FS_Subset
  <2> QED
    BY <2>1, <2>2
<1>4. before # {}
  <2>1. Min(b) <= t /\ Min(b) # t /\ Min(b) \in Nat /\ t \in Nat
    BY <1>2
  <2> QED
    BY <1>2, <2>1
<1>5. \E m \in before : \A u \in before : m >= u
  <2>1. PICK m \in before : \A u \in before : u <= m
    BY <1>3, <1>4, Greatest
  <2> QED
    BY <1>3, <2>1
<1>6. Prev(b, t) \in before /\ \A u \in before : Prev(b, t) >= u
  BY <1>5, Zenon DEF Prev, Max
<1> QED
  BY <1>3, <1>6

\* The instants of offline time that the gap before t adds.
Silence(b, t) == (Prev(b, t) + OfflineAfter)..(t - 1)

\* _offline_seconds adds for a gap as many units as there are instants of silence in it.
LEMMA SilenceIs ==
  ASSUME NEW b, b \subseteq Nat, IsFiniteSet(b), NEW t \in b \ {Min(b)}
  PROVE  /\ IsFiniteSet(Silence(b, t))
         /\ OfflineBetween(Prev(b, t), t) = Cardinality(Silence(b, t))
<1>1. Prev(b, t) \in Nat /\ Prev(b, t) < t /\ t \in Nat /\ OfflineAfter \in Nat
  BY PrevIs, SummaryAssumption
<1> DEFINE begin == Prev(b, t) + OfflineAfter
<1>2. begin \in Int /\ t - 1 \in Int
  BY <1>1
<1>3. /\ IsFiniteSet(begin..(t - 1))
      /\ Cardinality(begin..(t - 1)) = IF begin > t - 1 THEN 0 ELSE t - 1 - begin + 1
  BY <1>2, FS_Interval
<1>4. OfflineBetween(Prev(b, t), t) = IF begin > t - 1 THEN 0 ELSE t - 1 - begin + 1
  BY <1>1 DEF OfflineBetween
<1> QED
  BY <1>3, <1>4 DEF Silence

\* Gaps are apart.
LEMMA SilencesApart ==
  ASSUME NEW b, b \subseteq Nat, IsFiniteSet(b),
         NEW t \in b \ {Min(b)}, NEW v \in b \ {Min(b)}, t # v
  PROVE  Silence(b, t) \cap Silence(b, v) = {}
<1>1. ASSUME NEW x \in b \ {Min(b)}, NEW y \in b \ {Min(b)}, x < y, NEW z,
             z \in Silence(b, x), z \in Silence(b, y)
      PROVE  FALSE
  <2>1. x \in Nat /\ y \in Nat /\ x <= Prev(b, y) /\ Prev(b, y) \in Nat /\ OfflineAfter \in Nat
    BY <1>1, PrevIs, SummaryAssumption
  <2>2. z \in Int /\ z <= x - 1 /\ Prev(b, y) + OfflineAfter <= z
    <3>1. Prev(b, x) \in Nat
      BY <1>1, PrevIs
    <3> QED
      BY <1>1, <2>1, <3>1 DEF Silence
  <2> QED
    BY <2>1, <2>2
<1>2. t < v \/ v < t
  OBVIOUS
<1> QED
  BY <1>1, <1>2

\* Together they are the instants at which the camera was offline.
LEMMA SilencesAreOffline ==
  ASSUME NEW b, b \subseteq 0..LastInstant, IsFiniteSet(b)
  PROVE  OfflineInstants(b) = UNION {Silence(b, t) : t \in b \ {Min(b)}}
<1>0. b \subseteq Nat /\ LastInstant \in Nat /\ OfflineAfter \in Nat
  BY SummaryAssumption
<1>1. ASSUME NEW t \in b \ {Min(b)}, NEW x \in Silence(b, t)  PROVE x \in OfflineInstants(b)
  <2>1. /\ Prev(b, t) \in b /\ Prev(b, t) < t /\ \A u \in b : u < t => u <= Prev(b, t)
        /\ t \in 0..LastInstant /\ Prev(b, t) \in Nat
    BY <1>0, PrevIs
  <2>2. x \in Int /\ Prev(b, t) + OfflineAfter <= x /\ x <= t - 1
    BY <1>0, <2>1 DEF Silence
  <2>3. x \in 0..LastInstant /\ Prev(b, t) <= x /\ t > x
    BY <1>0, <2>1, <2>2
  <2>4. ASSUME NEW u \in b, u <= x  PROVE x - u >= OfflineAfter
    <3>1. u \in Nat /\ u <= Prev(b, t)
      BY <1>0, <2>1, <2>3, <2>4
    <3> QED
      BY <1>0, <2>1, <2>2, <3>1
  <2> QED
    BY <2>1, <2>3, <2>4 DEF OfflineInstants
<1>2. ASSUME NEW x \in OfflineInstants(b)  PROVE \E t \in b \ {Min(b)} : x \in Silence(b, t)
  <2>1. /\ x \in Nat /\ \E u \in b : u <= x /\ \E v \in b : v > x
        /\ \A u \in b : u <= x => x - u >= OfflineAfter
    BY <1>0 DEF OfflineInstants
  <2> DEFINE later == {u \in b : u > x}
  <2>2. later \subseteq Nat /\ later # {}
    BY <1>0, <2>1
  <2>3. PICK t \in later : \A u \in later : t <= u
    BY <2>2, Least
  <2>4. t # Min(b)
    <3>1. \E m \in b : \A u \in b : m <= u
      BY <1>0, <2>1, Least
    <3>2. \A u \in b : Min(b) <= u
      BY <3>1, Zenon DEF Min
    <3>3. PICK u \in b : u <= x
      BY <2>1
    <3> QED
      BY <1>0, <2>1, <2>2, <2>3, <3>2, <3>3
  <2>5. t \in b \ {Min(b)} /\ t > x /\ t \in Nat
    BY <2>2, <2>3, <2>4
  <2>6. Prev(b, t) \in b /\ Prev(b, t) < t /\ Prev(b, t) \in Nat
    BY <1>0, <2>5, PrevIs
  <2>7. Prev(b, t) <= x
    BY <2>1, <2>3, <2>5, <2>6
  <2>8. x - Prev(b, t) >= OfflineAfter
    BY <2>1, <2>6, <2>7
  <2>9. x \in Silence(b, t)
    BY <1>0, <2>1, <2>5, <2>6, <2>8 DEF Silence
  <2> QED
    BY <2>5, <2>9
<1> QED
  BY <1>1, <1>2

\* offline_seconds is the time for which the camera was offline on the day.
LEMMA OfflineSecondsMeasure ==
  ASSUME NEW b, b \subseteq 0..LastInstant
  PROVE  OfflineSeconds(b) = Cardinality(OfflineInstants(b))
<1> DEFINE S == b \ {Min(b)}
           g == [t \in S |-> OfflineBetween(Prev(b, t), t)]
           U == [t \in S |-> Silence(b, t)]
<1>1. b \subseteq Nat /\ IsFiniteSet(b) /\ IsFiniteSet(S)
  <2>1. IsFiniteSet(0..LastInstant)
    BY FS_Interval, SummaryAssumption
  <2>2. b \in SUBSET (0..LastInstant) /\ S \in SUBSET b /\ b \subseteq Nat
    BY SummaryAssumption
  <2> HIDE DEF S
  <2>3. IsFiniteSet(b)
    BY <2>1, <2>2, FS_Subset
  <2>4. IsFiniteSet(S)
    BY <2>2, <2>3, FS_Subset
  <2> QED
    BY <2>2, <2>3, <2>4
<1>2. \A s \in SUBSET S : s # {} => g[Picked(s)] = OfflineBetween(Max({u \in b : u < Picked(s)}), Picked(s))
  <2>1. \A s \in SUBSET S : s # {} => Picked(s) \in S
    BY DEF Picked
  <2> QED
    BY <2>1 DEF Prev
<1>3. PICK E : Sums(E, S, g)
  BY <1>1, SumsExist
<1> HIDE DEF g
<1>4. E = [s \in SUBSET S |->
             IF s = {} THEN 0
             ELSE OfflineBetween(Max({u \in b : u < CHOOSE x \in s : TRUE}), CHOOSE x \in s : TRUE)
                  + E[s \ {CHOOSE x \in s : TRUE}]]
  BY <1>2, <1>3, Zenon DEF Sums, Picked
<1>z. PICK z : z = OfflineSeconds(b)
  OBVIOUS
<1>S. S = b \ {Min(b)}
  OBVIOUS
<1> HIDE DEF S
<1>5. \E F : /\ F = [s \in SUBSET S |->
                       IF s = {} THEN 0
                       ELSE OfflineBetween(Max({u \in b : u < CHOOSE x \in s : TRUE}), CHOOSE x \in s : TRUE)
                            + F[s \ {CHOOSE x \in s : TRUE}]]
             /\ z = F[S]
  <2>1. z = LET iter[s \in SUBSET S] ==
                  IF s = {} THEN 0
                  ELSE OfflineBetween(Max({u \in b : u < CHOOSE x \in s : TRUE}), CHOOSE x \in s : TRUE)
                       + iter[s \ {CHOOSE x \in s : TRUE}]
            IN  iter[S]
    BY <1>z, <1>S DEF OfflineSeconds, MapThenSumSet, MapThenFoldSet
  <2> QED
    BY <1>4, <2>1, Zenon
<1>6. PICK F : Sums(F, S, g) /\ z = F[S]
  <2>1. PICK F : /\ F = [s \in SUBSET S |->
                           IF s = {} THEN 0
                           ELSE OfflineBetween(Max({u \in b : u < CHOOSE x \in s : TRUE}), CHOOSE x \in s : TRUE)
                                + F[s \ {CHOOSE x \in s : TRUE}]]
                 /\ z = F[S]
    BY <1>5
  <2>2. Sums(F, S, g)
    BY <1>2, <2>1, ZenonT(30) DEF Sums, Picked
  <2> QED
    BY <2>1, <2>2
<1> USE DEF S
<1>7. \A t \in S : U[t] = Silence(b, t) /\ g[t] = OfflineBetween(Prev(b, t), t)
  BY DEF g
<1> HIDE DEF U
<1>8. \A t \in S : IsFiniteSet(U[t]) /\ g[t] = Cardinality(U[t])
  BY <1>1, <1>7, SilenceIs
<1>9. \A t, v \in S : t # v => U[t] \cap U[v] = {}
  BY <1>1, <1>7, SilencesApart
<1> HIDE DEF S
<1>10. F[S] = Cardinality(Together(U, S))
  <2>1. Sums(F, S, g) /\ S \in SUBSET S /\ IsFiniteSet(S)
    BY <1>1, <1>6
  <2> QED
    BY <1>8, <1>9, <2>1, SumsCount
<1>11. Together(U, S) = UNION {Silence(b, t) : t \in S}
  BY <1>7 DEF Together
<1>12. OfflineInstants(b) = UNION {Silence(b, t) : t \in S}
  BY <1>1, SilencesAreOffline DEF S
<1> QED
  BY <1>z, <1>6, <1>10, <1>11, <1>12

-----------------------------------------------------------------------------
(* The aggregation of heartbeats.                                          *)

\* What the summary of a day says.
DaySummary(d) ==
  [count |-> Cardinality(DayBeats(received, d)), offline |-> OfflineSeconds(DayBeats(received, d))]

\* The days the transaction deals with have no summary yet and are over, even for
\* a heartbeat that is still to be committed; what it writes and deletes is what
\* the days had and have.
BeatsInv ==
  /\ SummariesTypeOK /\ received \subseteq 0..instant
  /\ \A t \in arriving : t <= instant /\ instant <= t + MaxLatency
  /\ \A d \in DOMAIN summaries \cup DOMAIN written \cup dueDays : d < Day(instant) - RetentionDays
  /\ DOMAIN summaries \cap (DOMAIN written \cup dueDays) = {}
  /\ \A t \in received : t \in beats <=> Day(t) \notin DOMAIN summaries
  /\ \A d \in DOMAIN summaries : summaries[d] = DaySummary(d)
  /\ \A d \in DOMAIN written : written[d] = DaySummary(d)
  /\ deleted = {t \in beats : Day(t) \in DOMAIN written /\ (passStep = "delete" => Day(t) \notin dueDays)}
  /\ DOMAIN written \cap dueDays = IF passStep = "delete" THEN {DueDay} ELSE {}
  /\ passStep \in {"summarize", "delete"} <=> dueDays # {}
  /\ passStep = "idle" => DOMAIN written = {}

\* An instant and its day.
LEMMA DayOf ==
  ASSUME NEW t \in Nat
  PROVE  /\ Day(t) \in Nat /\ t % DayLength \in Nat /\ t % DayLength < DayLength
         /\ t = Day(t) * DayLength + (t % DayLength)
  BY Division, DayIsPositive DEF Day

\* Days follow one another.
LEMMA DaysInOrder ==
  ASSUME NEW t \in Nat, NEW u \in Nat, t <= u
  PROVE  Day(t) \in Nat /\ Day(u) \in Nat /\ Day(t) <= Day(u)
<1> USE DayIsPositive
<1>1. /\ Day(t) \in Nat /\ t % DayLength \in Nat /\ t = Day(t) * DayLength + (t % DayLength)
      /\ Day(u) \in Nat /\ u % DayLength < DayLength /\ u % DayLength \in Nat
      /\ u = Day(u) * DayLength + (u % DayLength)
  BY DayOf
<1>2. Day(u) * DayLength + DayLength = (Day(u) + 1) * DayLength
  BY <1>1
<1>3. Day(t) * DayLength < (Day(u) + 1) * DayLength
  <2>1. PICK p, q \in Nat : p = Day(t) * DayLength /\ q = Day(u) * DayLength
    BY <1>1
  <2>2. p < q + DayLength
    BY <1>1, <2>1
  <2> QED
    BY <1>2, <2>1, <2>2
<1>4. Day(t) < Day(u) + 1
  BY <1>1, <1>3, Order
<1> QED
  BY <1>1, <1>4

\* The dates of the sessions are those of UTC.
LEMMA SessionDateIs ==
  ASSUME NEW t \in Int  PROVE SessionDate(t) = Day(t)
BY SessionIsUTC DEF SessionDate

\* What is older than the cutoff is of a day that is over.
LEMMA CutoffIsADay ==
  ASSUME instant \in Nat, NEW t \in Nat, t < Cutoff
  PROVE  Day(t) < Day(instant) - RetentionDays
<1> USE DayIsPositive, SummaryAssumption
<1>1. /\ Day(t) \in Nat /\ t % DayLength \in Nat /\ t = Day(t) * DayLength + (t % DayLength)
      /\ Day(instant) \in Nat
  BY DayOf
<1>2. Day(t) * DayLength < (Day(instant) - RetentionDays) * DayLength
  <2>1. PICK p \in Nat : p = Day(t) * DayLength
    BY <1>1
  <2>2. PICK q \in Int : q = (Day(instant) - RetentionDays) * DayLength
    BY <1>1
  <2>3. p < q
    BY <1>1, <2>1, <2>2 DEF Cutoff
  <2> QED
    BY <2>1, <2>2, <2>3
<1> QED
  BY <1>1, <1>2, Order

\* A heartbeat that is still to be committed is of a day that is not.
LEMMA ArrivesInTime ==
  ASSUME instant \in Nat, NEW t \in Nat, instant <= t + MaxLatency
  PROVE  Day(instant) - RetentionDays <= Day(t)
<1> USE DayIsPositive, SummaryAssumption
<1>1. /\ Day(t) \in Nat /\ t % DayLength \in Nat /\ t % DayLength < DayLength
      /\ t = Day(t) * DayLength + (t % DayLength)
      /\ Day(instant) \in Nat /\ instant % DayLength \in Nat
      /\ instant = Day(instant) * DayLength + (instant % DayLength)
  BY DayOf
<1>2. (Day(instant) - RetentionDays) * DayLength < (Day(t) + 1) * DayLength
  <2>1. PICK p, q, r \in Nat : /\ p = Day(t) * DayLength /\ q = Day(instant) * DayLength
                               /\ r = RetentionDays * DayLength
    BY <1>1
  <2>2. MaxLatency \in Nat /\ MaxLatency <= r
    BY <2>1, LatencyAssumption
  <2>3. q - r < p + DayLength
    BY <1>1, <2>1, <2>2
  <2>4. /\ (Day(instant) - RetentionDays) * DayLength = q - r
        /\ (Day(t) + 1) * DayLength = p + DayLength
    BY <1>1, <2>1
  <2> QED
    BY <2>3, <2>4
<1>3. Day(instant) - RetentionDays < Day(t) + 1
  BY <1>1, <1>2, Order
<1> QED
  BY <1>1, <1>3

\* The day that is looked at is one of those that are due.
LEMMA DueDayIsDue ==
  ASSUME SummariesTypeOK, dueDays # {}  PROVE DueDay \in dueDays
<1>1. dueDays \subseteq Nat
  BY DEF SummariesTypeOK, Days
<1>2. \E d \in dueDays : \A k \in dueDays : d <= k
  BY <1>1, Least
<1> QED
  BY <1>2, Zenon DEF DueDay, Min

\* Before the first heartbeat there is nothing to count.
LEMMA SummariesStart == SummariesInit => BeatsInv
<1> SUFFICES ASSUME SummariesInit  PROVE BeatsInv
  OBVIOUS
<1>1. /\ instant = 0 /\ arriving = {} /\ beats = {} /\ received = {} /\ DOMAIN summaries = {} /\ passStep = "idle"
      /\ dueDays = {} /\ DOMAIN written = {} /\ deleted = {}
  BY DEF SummariesInit
<1> QED
  BY <1>1, SummaryAssumption DEF BeatsInv, SummariesTypeOK

\* Heartbeats that arrive are of a day without summary.
LEMMA SummariesStep ==
  ASSUME BeatsInv, [SummariesNext]_beatVars  PROVE BeatsInv'
<1>1. /\ SummariesTypeOK /\ received \subseteq 0..instant
      /\ \A t \in arriving : t <= instant /\ instant <= t + MaxLatency
      /\ \A d \in DOMAIN summaries \cup DOMAIN written \cup dueDays : d < Day(instant) - RetentionDays
      /\ DOMAIN summaries \cap (DOMAIN written \cup dueDays) = {}
      /\ \A t \in received : t \in beats <=> Day(t) \notin DOMAIN summaries
      /\ \A d \in DOMAIN summaries : summaries[d] = DaySummary(d)
      /\ \A d \in DOMAIN written : written[d] = DaySummary(d)
      /\ deleted = {t \in beats : Day(t) \in DOMAIN written /\ (passStep = "delete" => Day(t) \notin dueDays)}
      /\ DOMAIN written \cap dueDays = IF passStep = "delete" THEN {DueDay} ELSE {}
      /\ passStep \in {"summarize", "delete"} <=> dueDays # {}
      /\ passStep = "idle" => DOMAIN written = {}
  BY DEF BeatsInv
<1>2. /\ instant \in Nat /\ instant <= LastInstant /\ LastInstant \in Nat
      /\ arriving \subseteq 0..LastInstant /\ beats \subseteq received /\ received \subseteq 0..LastInstant
      /\ DOMAIN summaries \subseteq Days /\ DOMAIN written \subseteq Days
      /\ passStep \in {"idle", "summarize", "delete", "commit"}
      /\ dueDays \subseteq Days /\ deleted \subseteq received
  BY <1>1, SummaryAssumption DEF SummariesTypeOK
<1>days. /\ Day(instant) \in Nat /\ Day(LastInstant) \in Nat /\ Day(instant) <= Day(LastInstant)
         /\ \A t \in received : Day(t) \in Days /\ t \in Nat
         /\ Days \subseteq Nat /\ RetentionDays \in Nat
  <2>1. Day(instant) \in Nat /\ Day(LastInstant) \in Nat /\ Day(instant) <= Day(LastInstant)
    BY <1>2, DaysInOrder
  <2>2. ASSUME NEW t \in received  PROVE Day(t) \in Days /\ t \in Nat
    <3>1. t \in Nat /\ t <= LastInstant
      BY <1>2
    <3>2. Day(t) \in Nat /\ Day(t) <= Day(LastInstant)
      BY <1>2, <3>1, DaysInOrder
    <3> QED
      BY <2>1, <3>1, <3>2 DEF Days
  <2> QED
    BY <2>1, <2>2, SummaryAssumption DEF Days
<1>sum. ASSUME received' = received  PROVE \A d : DaySummary(d)' = DaySummary(d)
  BY <1>sum DEF DaySummary
<1>3. CASE ClockGoesOn
  <2>1. /\ instant < LastInstant /\ \A t \in arriving : instant < t + MaxLatency
        /\ instant' = instant + 1
        /\ UNCHANGED <<arriving, beats, summaries, received, passStep, dueDays, written, deleted>>
    BY <1>3 DEF ClockGoesOn, passVars
  <2>2. Day(instant') \in Nat /\ Day(instant) <= Day(instant')
    BY <1>2, <2>1, DaysInOrder
  <2>3. SummariesTypeOK'
    BY <1>2, <2>1 DEF SummariesTypeOK
  <2>4. received' \subseteq 0..instant'
    BY <1>1, <1>2, <2>1
  <2>5. \A d \in DOMAIN summaries \cup DOMAIN written \cup dueDays : d < Day(instant') - RetentionDays
    <3>1. \A d \in DOMAIN summaries \cup DOMAIN written \cup dueDays :
            d \in Nat /\ d < Day(instant) - RetentionDays
      BY <1>1, <1>2, <1>days
    <3> QED
      BY <1>days, <2>2, <3>1
  <2>6. DueDay' = DueDay
    BY <2>1 DEF DueDay
  <2>7. \A t \in arriving' : t <= instant' /\ instant' <= t + MaxLatency
    BY <1>1, <1>2, <2>1, LatencyAssumption, SummaryAssumption, DayIsPositive
  <2> QED
    BY <1>1, <1>sum, <2>1, <2>3, <2>4, <2>5, <2>6, <2>7 DEF BeatsInv
<1>4. CASE BeatArrives
  <2>1. /\ arriving' = arriving \cup {instant}
        /\ UNCHANGED <<instant, beats, summaries, received, passStep, dueDays, written, deleted>>
    BY <1>4 DEF BeatArrives, passVars
  <2>2. \A t \in arriving' : t <= instant' /\ instant' <= t + MaxLatency
    <3>1. MaxLatency \in Nat
      BY LatencyAssumption, SummaryAssumption, DayIsPositive
    <3> QED
      BY <1>1, <1>2, <2>1, <3>1
  <2>3. SummariesTypeOK' /\ DueDay' = DueDay
    BY <1>1, <1>2, <2>1 DEF SummariesTypeOK, DueDay
  <2> QED
    BY <1>1, <1>sum, <2>1, <2>2, <2>3 DEF BeatsInv
<1>commits. ASSUME NEW b \in arriving, BeatCommits(b)  PROVE BeatsInv'
  <2>1. /\ arriving' = arriving \ {b} /\ beats' = beats \cup {b} /\ received' = received \cup {b}
        /\ UNCHANGED <<instant, summaries, passStep, dueDays, written, deleted>>
    BY <1>commits DEF BeatCommits, passVars
  <2>b. b \in Nat /\ b <= instant /\ Day(instant) - RetentionDays <= Day(b) /\ Day(b) \in Nat
    <3>1. b \in Nat /\ b <= instant /\ instant <= b + MaxLatency
      BY <1>1, <1>2, <1>commits
    <3> QED
      BY <1>2, <3>1, ArrivesInTime, DayOf
  <2>2. SummariesTypeOK'
    BY <1>2, <2>1 DEF SummariesTypeOK
  <2>3. received' \subseteq 0..instant'
    BY <1>1, <1>2, <2>1, <2>b
  <2>4. \A d \in DOMAIN summaries \cup DOMAIN written \cup dueDays : d # Day(b)
    <3>1. \A d \in DOMAIN summaries \cup DOMAIN written \cup dueDays :
            d \in Nat /\ d < Day(instant) - RetentionDays
      BY <1>1, <1>2, <1>days
    <3> QED
      BY <1>days, <2>b, <3>1
  <2>5. \A t \in received' : t \in beats' <=> Day(t) \notin DOMAIN summaries'
    BY <1>1, <2>1, <2>4
  <2>6. ASSUME NEW d, d # Day(b)  PROVE DaySummary(d)' = DaySummary(d)
    <3>1. DayBeats(received', d) = DayBeats(received, d)
      BY <2>1, <2>6 DEF DayBeats
    <3> QED
      BY <3>1 DEF DaySummary
  <2>7. DueDay' = DueDay
    BY <2>1 DEF DueDay
  <2>8. deleted' = {t \in beats' : /\ Day(t) \in DOMAIN written'
                                   /\ passStep' = "delete" => Day(t) \notin dueDays'}
    BY <1>1, <2>1, <2>4
  <2> QED
    BY <1>1, <2>1, <2>2, <2>3, <2>4, <2>5, <2>6, <2>7, <2>8 DEF BeatsInv
<1>fails. ASSUME NEW b \in arriving, BeatFails(b)  PROVE BeatsInv'
  <2>1. /\ arriving' = arriving \ {b}
        /\ UNCHANGED <<instant, beats, summaries, received, passStep, dueDays, written, deleted>>
    BY <1>fails DEF BeatFails, passVars
  <2>2. SummariesTypeOK' /\ DueDay' = DueDay
    BY <1>1, <1>2, <2>1 DEF SummariesTypeOK, DueDay
  <2> QED
    BY <1>1, <1>sum, <2>1, <2>2 DEF BeatsInv
<1>5. CASE BeginAggregation
  <2>1. /\ passStep = "idle" /\ \E t \in beats : t < Cutoff
        /\ passStep' = "summarize" /\ dueDays' = {Day(t) : t \in {u \in beats : u < Cutoff}}
        /\ UNCHANGED <<instant, arriving, beats, summaries, received, written, deleted>>
    <3>1. \A t \in beats : SessionDate(t) = Day(t)
      BY <1>2, <1>days, SessionDateIs
    <3> QED
      BY <1>5, <3>1 DEF BeginAggregation
  <2>2. \A d \in dueDays' : d \in Days /\ d < Day(instant) - RetentionDays /\ d \notin DOMAIN summaries
    <3> SUFFICES ASSUME NEW t \in beats, t < Cutoff
                 PROVE  /\ Day(t) \in Days /\ Day(t) < Day(instant) - RetentionDays
                        /\ Day(t) \notin DOMAIN summaries
      BY <2>1
    <3>1. t \in received /\ t \in Nat
      BY <1>2, <1>days
    <3> QED
      BY <1>1, <1>2, <1>days, <3>1, CutoffIsADay
  <2>3. SummariesTypeOK'
    BY <1>1, <2>1, <2>2 DEF SummariesTypeOK
  <2>4. dueDays' # {}
    BY <2>1
  <2>5. DOMAIN written = {} /\ deleted' = {}
    BY <1>1, <2>1
  <2> QED
    BY <1>1, <1>sum, <2>1, <2>2, <2>3, <2>4, <2>5 DEF BeatsInv
<1>6. CASE SummarizeDay
  <2>1. /\ passStep = "summarize" /\ passStep' = "delete"
        /\ written' = Upsert([d \in {DueDay} |->
                                [count |-> Cardinality(DayBeats(beats, DueDay)),
                                 offline |-> OfflineSeconds(DayBeats(beats, DueDay))]], written)
        /\ UNCHANGED <<instant, arriving, beats, summaries, received, dueDays, deleted>>
    BY <1>6 DEF SummarizeDay
  <2>2. DueDay \in dueDays /\ DueDay' = DueDay
    BY <1>1, <2>1, DueDayIsDue DEF DueDay
  <2>3. DayBeats(beats, DueDay) = DayBeats(received, DueDay)
    BY <1>1, <1>2, <2>2 DEF DayBeats
  <2>4. /\ DOMAIN written' = DOMAIN written \cup {DueDay} /\ written'[DueDay] = DaySummary(DueDay)
        /\ \A d \in DOMAIN written : d # DueDay => written'[d] = written[d]
    BY <2>1, <2>3 DEF Upsert, DaySummary
  <2>5. SummariesTypeOK'
    BY <1>1, <1>2, <2>1, <2>2, <2>4 DEF SummariesTypeOK
  <2>6. \A d \in DOMAIN written' : written'[d] = DaySummary(d)
    BY <1>1, <2>4
  <2>7. DOMAIN written' \cap dueDays = {DueDay}
    BY <1>1, <2>1, <2>2, <2>4
  <2>8. deleted = {t \in beats : Day(t) \in DOMAIN written' /\ Day(t) \notin dueDays}
    <3>1. deleted = {t \in beats : Day(t) \in DOMAIN written}
      BY <1>1, <2>1
    <3>2. \A t \in beats : Day(t) \in DOMAIN written <=> Day(t) \in DOMAIN written' /\ Day(t) \notin dueDays
      BY <1>1, <2>1, <2>2, <2>4
    <3> QED
      BY <3>1, <3>2
  <2> QED
    BY <1>1, <1>sum, <2>1, <2>2, <2>4, <2>5, <2>6, <2>7, <2>8 DEF BeatsInv
<1>7. CASE DeleteDay
  <2>1. /\ passStep = "delete" /\ deleted' = deleted \cup DayBeats(beats, DueDay)
        /\ dueDays' = dueDays \ {DueDay}
        /\ passStep' = IF dueDays' = {} THEN "commit" ELSE "summarize"
        /\ UNCHANGED <<instant, arriving, beats, summaries, received, written>>
    BY <1>7 DEF DeleteDay
  <2>2. DueDay \in dueDays /\ DOMAIN written \cap dueDays = {DueDay}
    BY <1>1, <2>1, DueDayIsDue
  <2>3. DOMAIN written \cap dueDays' = {}
    BY <2>1, <2>2
  <2>4. deleted' = {t \in beats : Day(t) \in DOMAIN written}
    <3>1. deleted = {t \in beats : Day(t) \in DOMAIN written /\ Day(t) \notin dueDays}
      BY <1>1, <2>1
    <3>2. \A t \in beats : Day(t) \in DOMAIN written <=>
                             (Day(t) \in DOMAIN written /\ Day(t) \notin dueDays) \/ Day(t) = DueDay
      BY <2>2
    <3> QED
      BY <2>1, <3>1, <3>2 DEF DayBeats
  <2>5. SummariesTypeOK'
    BY <1>2, <2>1, <2>4 DEF SummariesTypeOK
  <2> QED
    BY <1>1, <1>sum, <2>1, <2>3, <2>4, <2>5 DEF BeatsInv
<1>8. CASE CommitAggregation
  <2>1. /\ passStep = "commit" /\ passStep' = "idle" /\ dueDays' = {} /\ DOMAIN written' = {}
        /\ deleted' = {} /\ summaries' = Upsert(written, summaries) /\ beats' = beats \ deleted
        /\ UNCHANGED <<instant, arriving, received>>
    BY <1>8 DEF CommitAggregation, PassEnds
  <2>2. deleted = {t \in beats : Day(t) \in DOMAIN written}
    BY <1>1, <2>1
  <2>3. /\ DOMAIN summaries' = DOMAIN written \cup DOMAIN summaries
        /\ \A d \in DOMAIN written : summaries'[d] = written[d]
        /\ \A d \in DOMAIN summaries : d \notin DOMAIN written => summaries'[d] = summaries[d]
    BY <2>1 DEF Upsert
  <2>4. \A d \in DOMAIN summaries' : summaries'[d] = DaySummary(d)
    BY <1>1, <2>3
  <2>5. \A t \in received : t \in beats' <=> Day(t) \notin DOMAIN summaries'
    BY <1>1, <1>2, <2>1, <2>2, <2>3
  <2>6. SummariesTypeOK'
    BY <1>1, <1>2, <2>1, <2>3 DEF SummariesTypeOK
  <2> QED
    BY <1>1, <1>sum, <2>1, <2>3, <2>4, <2>5, <2>6 DEF BeatsInv
<1>9. CASE AggregationFails
  <2>1. /\ passStep' = "idle" /\ dueDays' = {} /\ DOMAIN written' = {} /\ deleted' = {}
        /\ UNCHANGED <<instant, arriving, beats, summaries, received>>
    BY <1>9 DEF AggregationFails, PassEnds
  <2>2. SummariesTypeOK'
    BY <1>1, <2>1 DEF SummariesTypeOK
  <2> QED
    BY <1>1, <1>sum, <2>1, <2>2 DEF BeatsInv
<1>10. CASE UNCHANGED beatVars
  <2>1. UNCHANGED <<instant, arriving, beats, summaries, received, passStep, dueDays, written, deleted>>
    BY <1>10 DEF beatVars, passVars
  <2>2. SummariesTypeOK' /\ DueDay' = DueDay
    BY <1>1, <2>1 DEF SummariesTypeOK, DueDay
  <2> QED
    BY <1>1, <1>sum, <2>1, <2>2 DEF BeatsInv
<1> QED
  BY <1>3, <1>4, <1>commits, <1>fails, <1>5, <1>6, <1>7, <1>8, <1>9, <1>10 DEF SummariesNext

\* The aggregation keeps its invariant.
THEOREM SummariesInvariance == SummariesSpec => []BeatsInv
<1>1. SummariesInit => BeatsInv
  BY SummariesStart
<1>2. BeatsInv /\ [SummariesNext]_beatVars => BeatsInv'
  BY SummariesStep
<1> QED
  BY <1>1, <1>2, PTL DEF SummariesSpec

\* Clock, heartbeats and summaries are what SummariesTypeOK says.
THEOREM SummariesTyped == SummariesSpec => []SummariesTypeOK
<1>1. BeatsInv => SummariesTypeOK
  BY DEF BeatsInv
<1> QED
  BY <1>1, SummariesInvariance, PTL

\* aggregate_due_heartbeats_once counts every heartbeat once or keeps it, through
\* failures, repetitions and heartbeats that arrive meanwhile, and offline_seconds
\* is the time of the day for which the camera was silent too long.
THEOREM NoBeatIsLost == SummariesSpec => []EveryBeatCounts
<1>1. ASSUME BeatsInv  PROVE EveryBeatCounts
  <2>1. /\ beats \subseteq received /\ received \subseteq 0..LastInstant
        /\ \A t \in received : t \in beats <=> Day(t) \notin DOMAIN summaries
        /\ \A d \in DOMAIN summaries : summaries[d] = DaySummary(d)
    BY <1>1 DEF BeatsInv, SummariesTypeOK
  <2>2. ASSUME NEW d \in DOMAIN summaries
        PROVE  /\ DayBeats(beats, d) = {}
               /\ summaries[d].count = Cardinality(DayBeats(received, d))
               /\ summaries[d].offline = Cardinality(OfflineInstants(DayBeats(received, d)))
    <3>1. DayBeats(beats, d) = {}
      BY <2>1 DEF DayBeats
    <3>2. DayBeats(received, d) \subseteq 0..LastInstant
      BY <2>1 DEF DayBeats
    <3>3. OfflineSeconds(DayBeats(received, d)) = Cardinality(OfflineInstants(DayBeats(received, d)))
      BY <3>2, OfflineSecondsMeasure
    <3> QED
      BY <2>1, <3>1, <3>3 DEF DaySummary
  <2>3. ASSUME NEW d, d \notin DOMAIN summaries
        PROVE  DayBeats(beats, d) = DayBeats(received, d)
    BY <2>1, <2>3 DEF DayBeats
  <2> QED
    BY <2>2, <2>3 DEF EveryBeatCounts
<1> QED
  BY <1>1, SummariesInvariance, PTL
=============================================================================
