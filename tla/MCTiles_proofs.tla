--------------------------- MODULE MCTiles_proofs ---------------------------
(***************************************************************************)
(* The tiles of a distributed frame buffer, for any finite set of regions  *)
(* and any number of frames: a tile that is composited is complete with    *)
(* its last part and has all of them from back to front, and the regions   *)
(* of the error estimate stay apart while they are refined.                *)
(***************************************************************************)
EXTENDS Sequences, MCTiles, TileAccumulation_proofs

-----------------------------------------------------------------------------
(* Compositing.  The inductive invariant is BlendInv.                      *)

\* The parts of a frame: the background announces n of them, those of the
\* regions W come.  Unless the ranks disagree, n is the number of the regions W.
Announcing(n) == Blend!Background(n)
PartsFor(n, W) == {Announcing(n)} \cup {Blend!RegionPart(o) : o \in W}

\* s has the elements of P in some order.
Lists(s, P) ==
  /\ s \in Seq(P) /\ P \subseteq {s[k] : k \in 1 .. Len(s)}
  /\ \A k, l \in 1 .. Len(s) : s[k] = s[l] => k = l

\* Until the background is there, nothing else is counted; from then on the
\* tile knows how many parts are still to come, and blends when there are none.
Composing(n, W) ==
  /\ parts = PartsFor(n, W) /\ coming \subseteq parts
  /\ expectedInNextGeneration = 0
  /\ Announcing(n) \in coming =>
       currentGeneration = 0 /\ missingInCurrentGeneration = 1
  /\ Announcing(n) \notin coming =>
       /\ currentGeneration = (IF n = 0 THEN 0 ELSE 1)
       /\ missingInCurrentGeneration =
            (IF n = 0 THEN 0 ELSE n - Cardinality(W) + Cardinality(coming))
  /\ errors \in BOOLEAN
  /\ errors <=> missingInCurrentGeneration < 0
  /\ blended = <<>> =>
       /\ Lists(bufferedTile, parts \ coming)
       /\ missingInCurrentGeneration # 0
  /\ blended # <<>> =>
       /\ Announcing(n) \notin coming /\ missingInCurrentGeneration = 0
       /\ bufferedTile = <<>>
       /\ \E s : Lists(s, parts \ coming) /\ blended = <<Blend!BackToFront(s)>>

Regions == 1 .. Cardinality(Region)

BlendInv ==
  /\ composed \in 0 .. MaxBlends
  /\ composed = 0 =>
       /\ parts = {} /\ coming = {} /\ bufferedTile = <<>> /\ blended = <<>>
       /\ currentGeneration = 0 /\ expectedInNextGeneration = 0
       /\ missingInCurrentGeneration = 0 /\ errors = FALSE
  /\ composed > 0 => \E V \in SUBSET Regions : Composing(Cardinality(V), V)

LEMMA SameCardinality == \A S : Blend!Cardinality(S) = Cardinality(S)
BY DEF Cardinality, Blend!Cardinality

LEMMA ListsMore ==
  ASSUME NEW P, NEW s, Lists(s, P), NEW p, p \notin P
  PROVE  /\ Lists(Append(s, p), P \cup {p})
         /\ Len(Append(s, p)) = Len(s) + 1 /\ Len(s) \in Nat
<1> DEFINE t == Append(s, p)
<1>1. /\ s \in Seq(P) /\ s \in Seq(P \cup {p}) /\ t \in Seq(P \cup {p}) /\ Len(s) \in Nat
      /\ Len(t) = Len(s) + 1 /\ t[Len(s) + 1] = p
      /\ \A k \in 1 .. Len(s) : t[k] = s[k] /\ s[k] \in P
  BY DEF Lists
<1>2. \A k \in 1 .. Len(t) : k \in 1 .. Len(s) \/ k = Len(s) + 1
  BY <1>1
<1>3. \A k \in 1 .. Len(s) : k \in 1 .. Len(t)
  BY <1>1
<1>4. Len(s) + 1 \in 1 .. Len(t)
  BY <1>1
<1> HIDE DEF t
<1>5. P \cup {p} \subseteq {t[k] : k \in 1 .. Len(t)}
  BY <1>1, <1>3, <1>4 DEF Lists
<1>6. \A k, l \in 1 .. Len(t) : t[k] = t[l] => k = l
  BY <1>1, <1>2 DEF Lists
<1> QED BY <1>1, <1>5, <1>6 DEF Lists, t

\* A list of a finite set is as long as the set is large.
LEMMA LengthOfList ==
  ASSUME NEW P, NEW s, Lists(s, P)
  PROVE  /\ IsFiniteSet(P) /\ Len(s) = Cardinality(P) /\ DOMAIN s = 1 .. Len(s)
         /\ s \in Bijection(1 .. Len(s), P)
<1>1. /\ s \in Seq(P) /\ s \in [1 .. Len(s) -> P] /\ Len(s) \in Nat /\ DOMAIN s = 1 .. Len(s)
  BY DEF Lists
<1>2. s \in Bijection(1 .. Len(s), P)
  BY <1>1 DEF Lists, Bijection, Injection, Surjection, IsInjective
<1>3. ExistsBijection(1 .. Len(s), P)
  BY <1>2 DEF ExistsBijection
<1>4. IsFiniteSet(1 .. Len(s)) /\ Cardinality(1 .. Len(s)) = Len(s)
  <2>1. 1 \in Int /\ Len(s) \in Int
    BY <1>1
  <2>2. Cardinality(1 .. Len(s)) = IF 1 > Len(s) THEN 0 ELSE Len(s) - 1 + 1
    BY <2>1, FS_Interval
  <2> QED BY <1>1, <2>1, <2>2, FS_Interval
<1> QED BY <1>1, <1>2, <1>3, <1>4, FS_Bijection

\* The background and a region's part differ, and so do those of two regions.
LEMMA PartsDiffer ==
  ASSUME NEW n, NEW W
  PROVE  /\ Announcing(n).generation = 0 /\ Announcing(n).children = n
         /\ Announcing(n).sortOrder = Cardinality(Region) + 1
         /\ \A p \in PartsFor(n, W) : p # Announcing(n) =>
              /\ p.generation = 1 /\ p.children = 0 /\ p.sortOrder \in W
              /\ p = Blend!RegionPart(p.sortOrder)
         /\ \A o : /\ Blend!RegionPart(o) # Announcing(n)
                   /\ Blend!RegionPart(o).sortOrder = o
BY SameCardinality DEF PartsFor, Announcing, Blend!Background, Blend!RegionPart, Blend!Farthest

\* A frame has one part more than regions.
LEMMA PartsCounted ==
  ASSUME NEW n, NEW W, IsFiniteSet(W)
  PROVE  IsFiniteSet(PartsFor(n, W)) /\ Cardinality(PartsFor(n, W)) = Cardinality(W) + 1
<1> DEFINE R == {Blend!RegionPart(o) : o \in W}
           f == [o \in W |-> Blend!RegionPart(o)]
<1>1. f \in Bijection(W, R)
  BY PartsDiffer DEF Bijection, Injection, Surjection, IsInjective
<1>2. IsFiniteSet(R) /\ Cardinality(R) = Cardinality(W)
  BY <1>1, FS_Bijection DEF ExistsBijection
<1>3. Announcing(n) \notin R /\ PartsFor(n, W) = R \cup {Announcing(n)}
  BY PartsDiffer DEF PartsFor
<1> QED BY <1>2, <1>3, FS_AddElement

\* When all of a frame but c is listed, the background with it, those of the
\* next generation that are not coming any more are counted, and nothing is
\* announced after them.
LEMMA CountedAhead ==
  ASSUME NEW n \in Nat, NEW W, IsFiniteSet(W), NEW c, c \subseteq PartsFor(n, W), Announcing(n) \notin c,
         NEW s, Lists(s, PartsFor(n, W) \ c)
  PROVE  /\ Blend!CountOf(s, 1) = Cardinality(W) - Cardinality(c)
         /\ Blend!ChildrenOf(s, 1) = 0
<1> DEFINE P == PartsFor(n, W) \ c
           G == Blend!InGeneration(s, 1)
           A == Announcing(n)
           f == [k \in G |-> s[k]]
<1>1. /\ s \in [1 .. Len(s) -> P] /\ DOMAIN s = 1 .. Len(s) /\ IsFiniteSet(P)
      /\ \A p \in P : \E k \in DOMAIN s : p = s[k]
      /\ \A k, l \in DOMAIN s : s[k] = s[l] => k = l
  <2>1. Lists(s, P)
    OBVIOUS
  <2> HIDE DEF P
  <2>2. IsFiniteSet(P) /\ DOMAIN s = 1 .. Len(s) /\ s \in Bijection(1 .. Len(s), P)
    BY <2>1, LengthOfList
  <2> QED BY <2>1, <2>2 DEF Bijection, Injection, Surjection, Lists
<1>2. \A p \in P : p.generation = 1 <=> p # A
  BY PartsDiffer
<1>3. \A p \in P : p # A => p.children = 0
  BY PartsDiffer
<1>4. G = {k \in DOMAIN s : s[k] # A}
  BY <1>1, <1>2 DEF Blend!InGeneration
<1>5. \A k \in G : s[k].children = 0
  BY <1>1, <1>3, <1>4
<1> HIDE DEF P, G, A
<1>6. f \in Bijection(G, P \ {A})
  <2>1. f \in [G -> P \ {A}]
    BY <1>1, <1>4
  <2>2. \A k, l \in G : f[k] = f[l] => k = l
    BY <1>1, <1>4
  <2>3. \A p \in P \ {A} : \E k \in G : f[k] = p
    BY <1>1, <1>4
  <2> QED BY <2>1, <2>2, <2>3 DEF Bijection, Injection, Surjection, IsInjective
<1>7. IsFiniteSet(P \ {A}) /\ Cardinality(P \ {A}) = Cardinality(P) - 1 /\ Cardinality(P) \in Nat
  <2>1. A \in P
    BY DEF P, A, PartsFor
  <2> QED BY <2>1, <1>1, FS_RemoveElement, FS_CardinalityType
<1>8. IsFiniteSet(G) /\ Cardinality(G) = Cardinality(P) - 1
  <2> DEFINE inverse == [p \in P \ {A} |-> CHOOSE k \in G : f[k] = p]
  <2>1. \A p \in P \ {A} : inverse[p] \in G /\ f[inverse[p]] = p
    BY <1>6 DEF Bijection, Surjection
  <2>2. \A k \in G : f[k] \in P \ {A} /\ inverse[f[k]] = k
    BY <1>6, <2>1 DEF Bijection, Injection, IsInjective
  <2> HIDE DEF f
  <2>3. inverse \in [P \ {A} -> G]
    BY <2>1
  <2>4. \A p, q \in P \ {A} : inverse[p] = inverse[q] => p = q
    BY <2>1
  <2>5. inverse \in Bijection(P \ {A}, G)
    BY <2>2, <2>3, <2>4 DEF Bijection, Injection, Surjection, IsInjective
  <2> QED BY <2>5, <1>7, FS_Bijection DEF ExistsBijection
<1>9. Cardinality(c) = Cardinality(W) + 1 - Cardinality(P)
  <2>1. IsFiniteSet(PartsFor(n, W)) /\ Cardinality(PartsFor(n, W)) = Cardinality(W) + 1
    BY PartsCounted
  <2>2. IsFiniteSet(c) /\ Cardinality(c) \in Nat /\ Cardinality(W) \in Nat
    BY <2>1, FS_Subset, FS_CardinalityType
  <2>3. Cardinality(PartsFor(n, W) \ c) = Cardinality(PartsFor(n, W)) - Cardinality(PartsFor(n, W) \cap c)
    BY <2>1, FS_Difference
  <2>4. PartsFor(n, W) \cap c = c
    OBVIOUS
  <2>5. Cardinality(P) = Cardinality(W) + 1 - Cardinality(c)
    <3>1. Cardinality(P) = Cardinality(PartsFor(n, W) \ c)
      BY DEF P
    <3>2. Cardinality(PartsFor(n, W) \cap c) = Cardinality(c)
      BY <2>4, Zenon
    <3>3. PICK x, y, z, u, v : /\ x = Cardinality(P) /\ y = Cardinality(PartsFor(n, W))
                               /\ z = Cardinality(c) /\ u = Cardinality(W)
                               /\ v = Cardinality(PartsFor(n, W) \cap c)
      OBVIOUS
    <3>4. x = y - v /\ v = z /\ y = u + 1 /\ z \in Nat /\ u \in Nat
      BY <3>1, <3>2, <3>3, <2>1, <2>2, <2>3, Zenon
    <3> QED BY <3>3, <3>4
  <2> QED BY <2>2, <2>5, <1>7
<1>10. Blend!CountOf(s, 1) = Cardinality(W) - Cardinality(c)
  <2>1. Blend!CountOf(s, 1) = Cardinality(G)
    BY SameCardinality DEF Blend!CountOf, G
  <2>2. Cardinality(W) \in Nat
    BY FS_CardinalityType
  <2> QED BY <2>1, <2>2, <1>7, <1>8, <1>9
<1>11. Blend!ChildrenOf(s, 1) = 0
  <2>1. \A k \in G : {k} \X (1 .. s[k].children) = {}
    BY <1>5
  <2>2. UNION {{k} \X (1 .. s[k].children) : k \in G} = {}
    BY <2>1
  <2>3. Blend!ChildrenOf(s, 1) = Cardinality({})
    BY <2>2, SameCardinality DEF Blend!ChildrenOf, G
  <2> QED BY <2>3, FS_EmptySet
<1> QED BY <1>10, <1>11

\* When as many parts come as are announced, the tile is complete when nothing
\* is coming any more, and not before.
LEMMA Agreed ==
  ASSUME NEW W, IsFiniteSet(W), Composing(Cardinality(W), W)
  PROVE  /\ errors = FALSE
         /\ blended = <<>> <=> coming # {}
<1> DEFINE n == Cardinality(W)
           A == Announcing(n)
<1>1. /\ n \in Nat /\ coming \subseteq PartsFor(n, W) /\ (n = 0 => W = {})
      /\ IsFiniteSet(coming) /\ Cardinality(coming) \in Nat
      /\ Cardinality(coming) = 0 <=> coming = {}
  <2>1. n \in Nat /\ coming \subseteq PartsFor(n, W)
    BY FS_CardinalityType DEF Composing
  <2>2. IsFiniteSet(coming)
    BY <2>1, PartsCounted, FS_Subset
  <2> QED BY <2>1, <2>2, FS_CardinalityType, FS_EmptySet
<1> HIDE DEF n, A
<1>2. A \in coming => missingInCurrentGeneration = 1 /\ blended = <<>> /\ coming # {}
  BY DEF Composing, A, n
<1>3. A \notin coming => missingInCurrentGeneration = Cardinality(coming)
  <2>1. CASE n = 0 /\ A \notin coming
    <3>1. coming = {}
      BY <1>1, <2>1 DEF PartsFor, A
    <3> QED BY <1>1, <2>1, <3>1 DEF Composing, A, n
  <2>2. CASE n # 0 /\ A \notin coming
    <3>1. missingInCurrentGeneration = n - n + Cardinality(coming)
      BY <2>2 DEF Composing, A, n
    <3> QED BY <1>1, <3>1
  <2> QED BY <2>1, <2>2
<1>4. ~(missingInCurrentGeneration < 0)
  BY <1>1, <1>2, <1>3
<1>5. errors = FALSE
  <2>1. errors \in BOOLEAN /\ ~errors
    BY <1>4 DEF Composing
  <2> QED BY <2>1, Zenon
<1>6. /\ blended = <<>> => missingInCurrentGeneration # 0
      /\ blended # <<>> => missingInCurrentGeneration = 0
  BY DEF Composing
<1> QED BY <1>1, <1>2, <1>3, <1>5, <1>6

LEMMA RegionsFinite ==
  /\ IsFiniteSet(Regions) /\ Cardinality(Regions) = Cardinality(Region)
  /\ Cardinality(Region) \in Nat
  /\ \A W \in SUBSET Regions : IsFiniteSet(W) /\ Cardinality(W) \in 0 .. Cardinality(Region)
<1>1. Cardinality(Region) \in Nat
  BY RegionAssumption, FS_CardinalityType
<1>2. \A n \in Nat : IsFiniteSet(1 .. n) /\ Cardinality(1 .. n) = n
  <2> SUFFICES ASSUME NEW n \in Nat PROVE IsFiniteSet(1 .. n) /\ Cardinality(1 .. n) = n
    OBVIOUS
  <2>1. Cardinality(1 .. n) = IF 1 > n THEN 0 ELSE n - 1 + 1
    BY FS_Interval, 1 \in Int, n \in Int
  <2> QED BY <2>1, FS_Interval, 1 \in Int, n \in Int
<1>3. IsFiniteSet(Regions) /\ Cardinality(Regions) = Cardinality(Region)
  BY <1>1, <1>2 DEF Regions
<1>4. \A W \in SUBSET Regions : IsFiniteSet(W) /\ Cardinality(W) \in 0 .. Cardinality(Region)
  <2> SUFFICES ASSUME NEW W \in SUBSET Regions
               PROVE  IsFiniteSet(W) /\ Cardinality(W) \in 0 .. Cardinality(Region)
    OBVIOUS
  <2>1. IsFiniteSet(W) /\ Cardinality(W) <= Cardinality(Regions)
    BY <1>3, FS_Subset
  <2>2. Cardinality(W) \in Nat
    BY <2>1, FS_CardinalityType
  <2> QED BY <1>1, <1>3, <2>1, <2>2
<1> QED BY <1>1, <1>3, <1>4

LEMMA BlendAgreed ==
  ASSUME BlendInv
  PROVE  /\ errors = FALSE
         /\ composed > 0 => (blended = <<>> <=> coming # {})
         /\ coming = {} => bufferedTile = <<>>
<1>1. CASE composed = 0
  BY <1>1 DEF BlendInv
<1>2. CASE composed > 0
  <2>1. PICK V \in SUBSET Regions : Composing(Cardinality(V), V)
    BY <1>2 DEF BlendInv
  <2>2. errors = FALSE /\ (blended = <<>> <=> coming # {})
    BY <2>1, RegionsFinite, Agreed
  <2>3. coming = {} => bufferedTile = <<>>
    BY <2>1, <2>2 DEF Composing
  <2> QED BY <1>2, <2>2, <2>3
<1>3. composed = 0 \/ composed > 0
  BY RegionAssumption DEF BlendInv
<1> QED BY <1>1, <1>2, <1>3

LEMMA BlendStart == ASSUME Blend!Init PROVE BlendInv
BY RegionAssumption DEF Blend!Init, BlendInv

\* A frame begins: renderFrame sends the parts of the frame, all at once.
LEMMA FrameBegins ==
  ASSUME NEW n, NEW W, parts' = PartsFor(n, W), coming' = parts', blended' = <<>>,
         bufferedTile = <<>>, errors = FALSE, UNCHANGED errors, Blend!ResetTile
  PROVE  Composing(n, W)'
<1>1. /\ currentGeneration' = 0 /\ expectedInNextGeneration' = 0
      /\ missingInCurrentGeneration' = 1 /\ bufferedTile' = <<>>
  BY DEF Blend!ResetTile
<1>2. PICK A : A = Announcing(n)
  OBVIOUS
<1>3. Announcing(n)' = A /\ PartsFor(n, W)' = PartsFor(n, W)
  BY <1>2 DEF PartsFor, Announcing, Blend!Background, Blend!Farthest, Blend!RegionPart
<1>4. A \in coming'
  BY <1>2 DEF PartsFor
<1>5. Lists(bufferedTile', parts' \ coming')
  BY <1>1 DEF Lists
<1>6. errors' \in BOOLEAN /\ ~errors'
  BY Zenon
<1>7. 1 # 0 /\ ~(1 < 0)
  OBVIOUS
<1> QED BY <1>1, <1>3, <1>4, <1>5, <1>6, <1>7 DEF Composing

LEMMA BlendBegins == ASSUME BlendInv, Blend!BeginFrame PROVE BlendInv'
<1>1. /\ composed' = composed + 1 /\ composed < MaxBlends /\ composed \in 0 .. MaxBlends
      /\ coming = {} /\ coming' = parts' /\ blended' = <<>> /\ errors' = errors
  BY DEF BlendInv, Blend!BeginFrame
<1>2. bufferedTile = <<>> /\ errors = FALSE
  BY <1>1, BlendAgreed DEF BlendInv
<1>3. PICK V \in SUBSET Regions : parts' = PartsFor(Cardinality(V), V)
  BY SameCardinality DEF Blend!BeginFrame, PartsFor, Announcing, Regions
<1>4. Composing(Cardinality(V), V)'
  BY <1>1, <1>2, <1>3, FrameBegins DEF Blend!BeginFrame
<1>5. \E X \in SUBSET Regions : Composing(Cardinality(X), X)'
  BY <1>4
<1> QED BY <1>1, <1>5, RegionAssumption DEF BlendInv, Regions

\* AlphaBlendTile_simple::process, whatever was announced.
LEMMA PartProcessed ==
  ASSUME NEW n \in Nat, NEW W, IsFiniteSet(W), Composing(n, W), blended = <<>>,
         NEW p, Blend!Process(p)
  PROVE  Composing(n, W)' /\ composed' = composed
<1> DEFINE A == Announcing(n)
           s == Append(bufferedTile, p)
           next == coming \ {p}
           counted == [generation |-> currentGeneration,
                       missing |-> missingInCurrentGeneration - 1,
                       expected |-> expectedInNextGeneration + p.children]
           uncounted == [generation |-> currentGeneration,
                         missing |-> missingInCurrentGeneration,
                         expected |-> expectedInNextGeneration]
           t == IF p.generation = currentGeneration THEN Blend!Advance(s, counted) ELSE uncounted
<1>1. /\ p \in coming /\ coming' = next /\ parts' = parts /\ composed' = composed
      /\ currentGeneration' = t.generation /\ missingInCurrentGeneration' = t.missing
      /\ expectedInNextGeneration' = t.expected /\ errors' = (errors \/ t.missing < 0)
      /\ t.missing = 0 => /\ blended' = Append(blended, Blend!BackToFront(s))
                          /\ bufferedTile' = <<>>
      /\ t.missing # 0 => bufferedTile' = s /\ blended' = blended
  BY DEF Blend!Process, Blend!AfterBlending
<1>2. /\ parts = PartsFor(n, W) /\ coming \subseteq PartsFor(n, W) /\ expectedInNextGeneration = 0
      /\ Lists(bufferedTile, parts \ coming) /\ missingInCurrentGeneration # 0
      /\ A \in PartsFor(n, W) /\ errors \in BOOLEAN
      /\ errors <=> missingInCurrentGeneration < 0
  BY DEF Composing, PartsFor
<1>3. Lists(s, PartsFor(n, W) \ next)
  <2>1. (PartsFor(n, W) \ coming) \cup {p} = PartsFor(n, W) \ next /\ p \notin PartsFor(n, W) \ coming
    BY <1>1, <1>2
  <2> QED BY <2>1, <1>2, ListsMore
<1>4. /\ IsFiniteSet(coming) /\ IsFiniteSet(next) /\ Cardinality(next) \in Nat
      /\ Cardinality(coming) = Cardinality(next) + 1 /\ Cardinality(W) \in Nat
  <2>1. IsFiniteSet(coming)
    BY <1>2, PartsCounted, FS_Subset
  <2>2. IsFiniteSet(next) /\ Cardinality(next) = Cardinality(coming) - 1
    BY <2>1, <1>1, FS_RemoveElement
  <2>3. Cardinality(coming) \in Nat /\ Cardinality(next) \in Nat /\ Cardinality(W) \in Nat
    BY <2>1, <2>2, FS_CardinalityType
  <2> QED BY <2>1, <2>2, <2>3
<1> HIDE DEF s, next
<1> DEFINE left == IF n = 0 THEN 0 ELSE n - Cardinality(W) + Cardinality(next)
<1>5. /\ t.expected = 0
      /\ A \in next => t.generation = 0 /\ t.missing = 1
      /\ A \notin next => /\ t.generation = (IF n = 0 THEN 0 ELSE 1)
                          /\ t.missing = left
      /\ errors => t.missing < 0
  <2>1. CASE p = A
    <3>1. p.generation = 0 /\ p.children = n /\ A \notin next
      BY <2>1, PartsDiffer DEF next
    <3>2. currentGeneration = 0 /\ missingInCurrentGeneration = 1
      BY <2>1, <1>1 DEF Composing
    <3>3. /\ t = Blend!Advance(s, counted)
          /\ counted.generation = 0 /\ counted.missing = 0 /\ counted.expected = n
      BY <3>1, <3>2, <1>2, <1>4
    <3>4. ~errors
      BY <3>2, <1>2
    <3> HIDE DEF counted, t
    <3>5. CASE n = 0
      <4>1. t = counted
        BY <3>3, <3>5 DEF Blend!Advance
      <4> QED BY <4>1, <3>1, <3>3, <3>4, <3>5
    <3>6. CASE n # 0
      <4>1. t = [generation |-> 0 + 1,
                 missing |-> n - Blend!CountOf(s, 0 + 1),
                 expected |-> Blend!ChildrenOf(s, 0 + 1)]
        BY <3>3, <3>6 DEF Blend!Advance
      <4>2. /\ Blend!CountOf(s, 1) = Cardinality(W) - Cardinality(next)
            /\ Blend!ChildrenOf(s, 1) = 0
        <5>1. next \subseteq PartsFor(n, W)
          BY <1>2 DEF next
        <5> QED BY <5>1, <3>1, <1>3, CountedAhead
      <4>3. 0 + 1 = 1
        OBVIOUS
      <4>4. t.generation = 1 /\ t.missing = n - (Cardinality(W) - Cardinality(next)) /\ t.expected = 0
        BY <4>1, <4>2, <4>3
      <4>5. t.missing = left
        BY <4>4, <3>6, <1>4
      <4> QED BY <4>4, <4>5, <3>1, <3>4, <3>6
    <3> QED BY <3>5, <3>6
  <2>2. CASE p # A
    <3>1. p.generation = 1 /\ p.children = 0
      BY <2>2, <1>1, <1>2, PartsDiffer
    <3>2. CASE A \in coming
      <4>1. currentGeneration = 0 /\ missingInCurrentGeneration = 1 /\ A \in next
        BY <3>2, <2>2 DEF Composing, next
      <4>2. t = uncounted
        BY <4>1, <3>1
      <4> QED BY <4>1, <4>2, <1>2
    <3>3. CASE A \notin coming
      <4>0. n # 0 /\ A \notin next
        BY <3>3, <1>2 DEF Composing, next
      <4>1. /\ currentGeneration = 1
            /\ missingInCurrentGeneration = n - Cardinality(W) + Cardinality(coming)
        BY <3>3, <4>0 DEF Composing
      <4>2. /\ counted.expected = 0 /\ counted.generation = 1 /\ counted.missing = left
            /\ missingInCurrentGeneration < 0 => counted.missing < 0
        BY <4>0, <4>1, <3>1, <1>2, <1>4
      <4>3. t = counted
        <5>1. t = Blend!Advance(s, counted)
          BY <4>1, <3>1
        <5> HIDE DEF counted
        <5>2. Blend!Advance(s, counted) = counted
          BY <4>2 DEF Blend!Advance
        <5> QED BY <5>1, <5>2
      <4> HIDE DEF counted, t, left
      <4> QED BY <4>0, <4>2, <4>3, <1>2
    <3> QED BY <3>2, <3>3
  <2> QED BY <2>1, <2>2
<1> HIDE DEF t, A, left
<1>6. /\ Announcing(n)' = A /\ PartsFor(n, W)' = PartsFor(n, W)
  <2>1. Announcing(n)' = A
    BY DEF Announcing, Blend!Background, Blend!Farthest, A
  <2> QED BY <2>1 DEF PartsFor, Blend!RegionPart, A
<1>7. Composing(n, W)'
  <2>1. /\ parts' = PartsFor(n, W)' /\ coming' \subseteq parts' /\ expectedInNextGeneration' = 0
    BY <1>1, <1>2, <1>5, <1>6 DEF next
  <2>2. A \in coming' => currentGeneration' = 0 /\ missingInCurrentGeneration' = 1
    BY <1>1, <1>5
  <2>3. A \notin coming' =>
          /\ currentGeneration' = (IF n = 0 THEN 0 ELSE 1)
          /\ missingInCurrentGeneration' =
               (IF n = 0 THEN 0 ELSE n - Cardinality(W) + Cardinality(coming'))
    BY <1>1, <1>5 DEF left
  <2>4. errors' \in BOOLEAN /\ (errors' <=> missingInCurrentGeneration' < 0)
    BY <1>1, <1>2, <1>5
  <2>5. CASE t.missing # 0
    <3>1. /\ blended' = <<>> /\ missingInCurrentGeneration' # 0
          /\ Lists(bufferedTile', parts' \ coming')
      BY <1>1, <1>2, <1>3, <2>5
    <3> QED BY <1>6, <2>1, <2>2, <2>3, <2>4, <3>1 DEF Composing
  <2>6. CASE t.missing = 0
    <3>1. blended' = Append(<<>>, Blend!BackToFront(s)) /\ bufferedTile' = <<>>
      BY <2>6, <1>1
    <3>2. blended' = <<Blend!BackToFront(s)>> /\ blended' # <<>>
      BY <3>1
    <3>3. A \notin coming' /\ missingInCurrentGeneration' = 0 /\ Lists(s, parts' \ coming')
      BY <1>1, <1>2, <1>3, <1>5, <2>6
    <3> QED BY <1>6, <2>1, <2>2, <2>3, <2>4, <3>1, <3>2, <3>3 DEF Composing
  <2> QED BY <2>5, <2>6
<1> QED BY <1>1, <1>7

LEMMA BlendKept == ASSUME BlendInv, Blend!Next PROVE BlendInv'
<1>1. CASE Blend!BeginFrame
  BY <1>1, BlendBegins
<1>2. CASE \E p \in coming : Blend!Process(p)
  <2>1. PICK p \in coming : Blend!Process(p)
    BY <1>2
  <2>2. composed > 0 /\ composed \in 0 .. MaxBlends
    BY <2>1, RegionAssumption DEF BlendInv
  <2>3. PICK V \in SUBSET Regions : Composing(Cardinality(V), V)
    BY <2>2 DEF BlendInv
  <2>4. IsFiniteSet(V) /\ Cardinality(V) \in Nat
    BY RegionsFinite
  <2>7. blended = <<>>
    BY <2>1, <2>3, <2>4, Agreed
  <2>5. Composing(Cardinality(V), V)' /\ composed' = composed
    BY <2>1, <2>3, <2>4, <2>7, PartProcessed
  <2>6. \E X \in SUBSET Regions : Composing(Cardinality(X), X)'
    BY <2>5
  <2> QED BY <2>2, <2>5, <2>6 DEF BlendInv, Regions
<1> QED BY <1>1, <1>2 DEF Blend!Next

\* Different keys can be put into descending order: the place of each is the
\* number of those that are not smaller.
LEMMA OrderExists ==
  ASSUME NEW n \in Nat, NEW key \in [1 .. n -> Int],
         \A k, l \in 1 .. n : key[k] = key[l] => k = l
  PROVE  \E p \in [1 .. n -> 1 .. n] :
           IsInjective(p) /\ \A k, l \in 1 .. n : k < l => key[p[k]] > key[p[l]]
<1> DEFINE D == 1 .. n
           above(k) == {l \in D : key[l] >= key[k]}
           place == [k \in D |-> Cardinality(above(k))]
<1>1. IsFiniteSet(D) /\ Cardinality(D) = n
  <2>1. 1 \in Int /\ n \in Int
    OBVIOUS
  <2>2. Cardinality(1 .. n) = IF 1 > n THEN 0 ELSE n - 1 + 1
    BY <2>1, FS_Interval
  <2> QED BY <2>1, <2>2, FS_Interval
<1>2. ASSUME NEW k \in D
      PROVE  /\ IsFiniteSet(above(k)) /\ Cardinality(above(k)) \in D /\ k \in above(k)
             /\ above(k) \in SUBSET D
  <2>1. above(k) \in SUBSET D /\ k \in above(k)
    OBVIOUS
  <2>2. IsFiniteSet(above(k)) /\ Cardinality(above(k)) <= n
    BY <2>1, <1>1, FS_Subset
  <2>3. Cardinality(above(k)) \in Nat /\ Cardinality(above(k)) # 0
    BY <2>1, <2>2, FS_CardinalityType, FS_EmptySet
  <2> QED BY <2>1, <2>2, <2>3
<1>3. ASSUME NEW k \in D, NEW l \in D, key[k] >= key[l]
      PROVE  /\ place[k] <= place[l]
             /\ place[k] = place[l] => k = l
  <2>1. above(k) \in SUBSET above(l)
    BY <1>3
  <2>2. /\ Cardinality(above(k)) <= Cardinality(above(l))
        /\ Cardinality(above(l)) = Cardinality(above(k)) => above(l) = above(k)
    BY <2>1, <1>2, FS_Subset
  <2>3. above(l) = above(k) => key[l] >= key[k]
    BY <1>2
  <2>4. key[l] >= key[k] => k = l
    BY <1>3
  <2> HIDE DEF above
  <2> QED BY <2>2, <2>3, <2>4
<1>4. place \in Injection(D, D)
  <2>1. place \in [D -> D]
    BY <1>2
  <2>2. ASSUME NEW k \in D, NEW l \in D, place[k] = place[l]
        PROVE  k = l
    <3>1. key[k] >= key[l] \/ key[l] >= key[k]
      OBVIOUS
    <3> HIDE DEF place
    <3> QED BY <3>1, <2>2, <1>3
  <2> HIDE DEF place
  <2> QED BY <2>1, <2>2 DEF Injection, IsInjective
<1> HIDE DEF place, above
<1>5. place \in Surjection(D, D)
  BY <1>1, <1>4, FS_Injection
<1> DEFINE q == [k \in D |-> CHOOSE l \in D : place[l] = k]
<1>6. \A k \in D : q[k] \in D /\ place[q[k]] = k
  BY <1>5 DEF Surjection
<1>7. q \in [1 .. n -> 1 .. n]
  BY <1>6
<1> HIDE DEF q
<1>8. IsInjective(q)
  BY <1>6, <1>7 DEF IsInjective
<1>9. ASSUME NEW k \in D, NEW l \in D, k < l
      PROVE  key[q[k]] > key[q[l]]
  <2>1. key[q[l]] \in Int /\ key[q[k]] \in Int
    BY <1>6
  <2>2. key[q[l]] >= key[q[k]] => l <= k
    BY <1>3, <1>6
  <2> QED BY <2>1, <2>2, <1>9
<1> QED BY <1>7, <1>8, <1>9

\* What is blended is all of the frame from the background to the front.
LEMMA BlendsSorted ==
  ASSUME NEW m, NEW W, W \subseteq Regions, NEW s, Lists(s, PartsFor(m, W))
  PROVE  LET b == Blend!BackToFront(s)
         IN /\ {b[k] : k \in 1 .. Len(b)} = PartsFor(m, W) /\ b \in Seq(PartsFor(m, W))
            /\ Len(b) = Cardinality(PartsFor(m, W)) /\ DOMAIN b = 1 .. Len(b)
            /\ b[1].generation = 0
            /\ \A k, l \in 1 .. Len(b) : k < l => b[k].sortOrder > b[l].sortOrder
<1> DEFINE n == Len(s)
           D == 1 .. n
           key == [k \in D |-> s[k].sortOrder]
           nearness == [k \in D |-> -s[k].sortOrder]
           InOrder(p) == /\ Blend!IsInjective(p)
                         /\ \A k, l \in D : k < l => nearness[p[k]] <= nearness[p[l]]
           order == CHOOSE p \in [D -> D] : InOrder(p)
           b == [k \in D |-> s[order[k]]]
           N == Cardinality(Region)
<1>1. /\ s \in [D -> PartsFor(m, W)] /\ n \in Nat /\ DOMAIN s = D /\ IsFiniteSet(PartsFor(m, W))
      /\ n = Cardinality(PartsFor(m, W)) /\ N \in Nat
      /\ \A k, l \in D : s[k] = s[l] => k = l
      /\ \A p \in PartsFor(m, W) : \E k \in D : p = s[k]
  BY LengthOfList, RegionAssumption, FS_CardinalityType DEF Lists
<1>2. \A p, q \in PartsFor(m, W) :
        /\ p.sortOrder \in 1 .. N + 1 /\ p.sortOrder \in Int
        /\ p.sortOrder = N + 1 <=> p = Announcing(m)
        /\ p.sortOrder = q.sortOrder => p = q
  <2> SUFFICES ASSUME NEW p \in PartsFor(m, W), NEW q \in PartsFor(m, W)
               PROVE  /\ p.sortOrder \in 1 .. N + 1 /\ p.sortOrder \in Int
                      /\ p.sortOrder = N + 1 <=> p = Announcing(m)
                      /\ p.sortOrder = q.sortOrder => p = q
    OBVIOUS
  <2>1. N + 1 \in 1 .. N + 1 /\ N + 1 \in Int /\ Announcing(m).sortOrder = N + 1
    BY <1>1, PartsDiffer
  <2>2. \A x \in W : x \in 1 .. N + 1 /\ x \in Int /\ x # N + 1
    BY <1>1 DEF Regions
  <2>3. \A r \in PartsFor(m, W) : r # Announcing(m) =>
          r.sortOrder \in W /\ r = Blend!RegionPart(r.sortOrder)
    BY PartsDiffer
  <2> HIDE DEF N
  <2> QED BY <2>1, <2>2, <2>3
<1>3. /\ key \in [D -> Int] /\ \A k, l \in D : key[k] = key[l] => k = l
  BY <1>1, <1>2
<1>4. b = Blend!BackToFront(s)
  BY <1>1 DEF Blend!BackToFront, Blend!Sorted
<1> HIDE DEF n
<1>5. /\ order \in [D -> D] /\ Blend!IsInjective(order)
      /\ \A k, l \in D : k < l => s[order[k]].sortOrder >= s[order[l]].sortOrder
  <2>1. PICK p \in [D -> D] : IsInjective(p) /\ \A k, l \in D : k < l => key[p[k]] > key[p[l]]
    <3> HIDE DEF key
    <3> QED BY <1>1, <1>3, OrderExists
  <2>2. InOrder(p)
    <3>1. Blend!IsInjective(p)
      BY <2>1 DEF IsInjective, Blend!IsInjective
    <3>2. ASSUME NEW k \in D, NEW l \in D, k < l
          PROVE  nearness[p[k]] <= nearness[p[l]]
      <4>1. p[k] \in D /\ p[l] \in D
        BY <2>1
      <4>2. key[p[k]] > key[p[l]] /\ key[p[k]] \in Int /\ key[p[l]] \in Int
        BY <2>1, <3>2, <1>3, <4>1
      <4>3. key[p[k]] = s[p[k]].sortOrder /\ key[p[l]] = s[p[l]].sortOrder
        BY <4>1
      <4> HIDE DEF key
      <4> QED BY <4>2, <4>3
    <3> QED BY <3>1, <3>2
  <2>3. order \in [D -> D] /\ InOrder(order)
    <3> HIDE DEF InOrder
    <3> QED BY <2>2
  <2>4. ASSUME NEW k \in D, NEW l \in D, k < l
        PROVE  s[order[k]].sortOrder >= s[order[l]].sortOrder
    <3> HIDE DEF order
    <3>0. order[k] \in D /\ order[l] \in D
      BY <2>3
    <3>1. s[order[k]].sortOrder \in Int /\ s[order[l]].sortOrder \in Int
      <4>1. s[order[k]] \in PartsFor(m, W) /\ s[order[l]] \in PartsFor(m, W)
        BY <3>0, <1>1
      <4> QED BY <4>1, <1>2
    <3>2. nearness[order[k]] <= nearness[order[l]]
      BY <2>3, <2>4
    <3>3. nearness[order[k]] = -s[order[k]].sortOrder /\ nearness[order[l]] = -s[order[l]].sortOrder
      BY <3>0
    <3> HIDE DEF nearness
    <3> QED BY <3>1, <3>2, <3>3
  <2> QED BY <2>3, <2>4
<1> HIDE DEF order
<1>6. \A k, l \in D : order[k] = order[l] => k = l
  BY <1>5 DEF Blend!IsInjective
<1>7. order \in Surjection(D, D)
  <2>1. order \in Injection(D, D)
    BY <1>5, <1>6 DEF Injection, IsInjective
  <2>2. 1 \in Int /\ n \in Int
    BY <1>1
  <2>3. IsFiniteSet(D)
    BY <2>2, FS_Interval
  <2> QED BY <2>1, <2>3, FS_Injection
<1>8. /\ b \in [D -> PartsFor(m, W)] /\ Len(b) = n /\ DOMAIN b = D /\ b \in Seq(PartsFor(m, W))
  <2>1. b \in [D -> PartsFor(m, W)]
    BY <1>1, <1>5
  <2> HIDE DEF b
  <2> QED BY <2>1, <1>1
<1>9. \A p \in PartsFor(m, W) : \E k \in D : p = b[k]
  BY <1>1, <1>7 DEF Surjection
<1>10. ASSUME NEW k \in D, NEW l \in D, k < l
       PROVE  b[k].sortOrder > b[l].sortOrder
  <2>1. order[k] \in D /\ order[l] \in D /\ order[k] # order[l]
    BY <1>5, <1>6, <1>10, <1>1
  <2>2. s[order[k]] # s[order[l]] /\ s[order[k]] \in PartsFor(m, W) /\ s[order[l]] \in PartsFor(m, W)
    BY <2>1, <1>1
  <2>3. /\ s[order[k]].sortOrder \in Int /\ s[order[l]].sortOrder \in Int
        /\ s[order[k]].sortOrder # s[order[l]].sortOrder
        /\ s[order[k]].sortOrder >= s[order[l]].sortOrder
    BY <2>2, <1>1, <1>2, <1>5, <1>10
  <2> QED BY <2>3
<1> HIDE DEF b
<1>11. b[1] = Announcing(m) /\ 1 \in D
  <2>1. PICK k \in D : b[k] = Announcing(m)
    BY <1>9 DEF PartsFor
  <2>2. 1 \in D /\ (k # 1 => 1 < k)
    BY <1>1
  <2>3. b[1].sortOrder \in 1 .. N + 1 /\ b[k].sortOrder = N + 1
    BY <2>1, <2>2, <1>2, <1>8
  <2>4. k = 1
    BY <2>2, <2>3, <1>1, <1>10
  <2> QED BY <2>1, <2>2, <2>4
<1>12. b[1].generation = 0
  BY <1>11, PartsDiffer
<1> QED BY <1>1, <1>4, <1>8, <1>9, <1>10, <1>12

LEMMA BlendComplete == ASSUME BlendInv PROVE Blend!CompletesWithLast
<1>1. CASE composed = 0
  BY <1>1 DEF BlendInv, Blend!CompletesWithLast
<1>2. CASE composed > 0
  <2>1. PICK V \in SUBSET Regions : Composing(Cardinality(V), V)
    BY <1>2 DEF BlendInv
  <2>2. blended = <<>> <=> coming # {}
    BY <1>2, BlendAgreed
  <2>3. blended # <<>> => \E b : blended = <<b>>
    BY <2>1 DEF Composing
  <2>4. (\A b : Len(<<b>>) = 1) /\ Len(<<>>) = 0
    OBVIOUS
  <2> QED BY <1>2, <2>2, <2>3, <2>4 DEF Blend!CompletesWithLast
<1>3. composed \in Nat
  BY RegionAssumption DEF BlendInv
<1> QED BY <1>1, <1>2, <1>3

\* Whatever was announced, all that has come is blended, and in order.
LEMMA BlendedInOrder ==
  ASSUME NEW n, NEW W \in SUBSET Regions, Composing(n, W), coming = {}
  PROVE  Blend!BlendsAllInOrder
<1>1. CASE blended = <<>>
  BY <1>1 DEF Blend!BlendsAllInOrder
<1>2. CASE blended # <<>>
  <2>1. PICK s : Lists(s, parts \ coming) /\ blended = <<Blend!BackToFront(s)>>
    BY <1>2 DEF Composing
  <2>2. parts = PartsFor(n, W) /\ parts \ coming = PartsFor(n, W)
    BY DEF Composing
  <2> DEFINE b == Blend!BackToFront(s)
  <2>3. /\ {b[k] : k \in 1 .. Len(b)} = PartsFor(n, W) /\ DOMAIN b = 1 .. Len(b)
        /\ Len(b) = Cardinality(PartsFor(n, W)) /\ b[1].generation = 0
        /\ \A k, l \in 1 .. Len(b) : k < l => b[k].sortOrder > b[l].sortOrder
    BY <2>1, <2>2, BlendsSorted
  <2> HIDE DEF b
  <2>4. Blend!ToSet(b) = PartsFor(n, W)
    BY <2>3 DEF Blend!ToSet
  <2>5. DOMAIN blended = {1} /\ blended[1] = b
    BY <2>1 DEF b
  <2> QED BY <2>2, <2>3, <2>4, <2>5, SameCardinality DEF Blend!BlendsAllInOrder
<1> QED BY <1>1, <1>2

LEMMA BlendOrdered == ASSUME BlendInv PROVE Blend!BlendsAllInOrder
<1>1. CASE blended = <<>>
  BY <1>1 DEF Blend!BlendsAllInOrder
<1>2. CASE blended # <<>>
  <2>1. composed > 0
    BY <1>2, RegionAssumption DEF BlendInv
  <2>2. PICK V \in SUBSET Regions : Composing(Cardinality(V), V)
    BY <2>1 DEF BlendInv
  <2> QED BY <1>2, <2>1, <2>2, BlendAgreed, BlendedInOrder
<1> QED BY <1>1, <1>2

-----------------------------------------------------------------------------
(* The error of the tiles.  Sums over sets first.                          *)

\* Induction on a set of numbers that has 0 and the successors up to n: the
\* least one missing would follow one that is not.
LEMMA Least == ASSUME NEW T \in SUBSET Nat, T # {} PROVE \E x \in T : \A y \in T : y >= x
<1> DEFINE W == {0 .. k : k \in T}
<1>1. W \subseteq FiniteSubsetsOf(Nat) /\ W # {}
  <2>1. \A k \in T : IsFiniteSet(0 .. k) /\ 0 .. k \subseteq Nat
    <3> SUFFICES ASSUME NEW k \in T PROVE IsFiniteSet(0 .. k)
      OBVIOUS
    <3> QED BY FS_Interval, 0 \in Int, k \in Int
  <2> QED BY <2>1 DEF FiniteSubsetsOf
<1>2. PICK w \in W : \A v \in W : <<v, w>> \notin StrictSubsetOrdering(Nat)
  BY <1>1, FS_StrictSubsetOrderingWellFounded, WFMin
<1>3. PICK x \in T : w = 0 .. x
  BY <1>2
<1>4. ASSUME NEW y \in T, y < x
      PROVE FALSE
  <2>1. 0 .. y \in W /\ 0 .. y \subseteq Nat /\ w \subseteq Nat /\ 0 .. y \subseteq w
    BY <1>3, <1>4
  <2>2. x \in w /\ x \notin 0 .. y
    BY <1>3, <1>4
  <2> HIDE DEF W
  <2> QED BY <2>1, <2>2, <1>2 DEF StrictSubsetOrdering
<1>5. \A y \in T : y >= x
  BY <1>4
<1> QED BY <1>5
LEMMA CountUp ==
  ASSUME NEW T, NEW n \in Nat, T \subseteq 0 .. n, 0 \in T, \A k \in 0 .. n - 1 : k \in T => k + 1 \in T
  PROVE n \in T
<1> DEFINE B == {k \in 0 .. n : k \notin T}
<1>1. SUFFICES ASSUME B # {} PROVE FALSE
  OBVIOUS
<1>2. PICK x \in B : \A y \in B : y >= x
  BY <1>1, Least, 0 .. n \subseteq Nat
<1>3. x # 0 /\ x - 1 \in 0 .. n - 1 /\ x - 1 \in 0 .. n /\ ~(x - 1 >= x)
  BY <1>2
<1>4. x - 1 \in T
  BY <1>2, <1>3
<1>5. (x - 1) + 1 \in T /\ (x - 1) + 1 = x
  BY <1>3, <1>4
<1> QED BY <1>2, <1>5

LEMMA Sized ==
  ASSUME NEW S, IsFiniteSet(S), NEW s \in SUBSET S
  PROVE  /\ IsFiniteSet(s) /\ Cardinality(s) \in 0 .. Cardinality(S)
         /\ Cardinality(s) = 0 <=> s = {}
         /\ \A x \in s : Cardinality(s \ {x}) = Cardinality(s) - 1
<1>1. IsFiniteSet(s) /\ Cardinality(s) <= Cardinality(S)
  BY FS_Subset
<1>2. Cardinality(s) \in Nat /\ Cardinality(S) \in Nat
  BY <1>1, FS_CardinalityType
<1>3. Cardinality(s) = 0 <=> s = {}
  BY <1>1, FS_EmptySet
<1>4. \A x \in s : Cardinality(s \ {x}) = Cardinality(s) - 1
  BY <1>1, FS_RemoveElement
<1> QED BY <1>1, <1>2, <1>3, <1>4

\* The sum of values that are at most B, as MapThenSumSet computes it.
LEMMA SumBound ==
  ASSUME NEW S, IsFiniteSet(S), NEW val, NEW B \in Nat,
         \A t \in S : val[t] \in Nat /\ val[t] <= B
  PROVE  LET sum == CHOOSE f : f = [s \in SUBSET S |->
                      IF s = {} THEN 0
                      ELSE val[CHOOSE x \in s : TRUE] + f[s \ {CHOOSE x \in s : TRUE}]]
         IN sum[S] \in Nat /\ sum[S] <= B * Cardinality(S)
<1> DEFINE some(s) == CHOOSE x \in s : TRUE
           step(f) == [s \in SUBSET S |->
                         IF s = {} THEN 0 ELSE val[some(s)] + f[s \ {some(s)}]]
           N == Cardinality(S)
           sum == CHOOSE f : f = step(f)
<1>1. N \in Nat
  BY FS_CardinalityType
<1>2. \A s \in SUBSET S : s # {} => /\ some(s) \in s /\ some(s) \in S
                                    /\ s \ {some(s)} \in SUBSET S
                                    /\ val[some(s)] \in Nat /\ val[some(s)] <= B
  OBVIOUS
<1>3. ASSUME NEW s \in SUBSET S
      PROVE  /\ Cardinality(s) \in Nat /\ Cardinality(s) <= N
             /\ Cardinality(s) = 0 <=> s = {}
             /\ s # {} => Cardinality(s \ {some(s)}) = Cardinality(s) - 1
  <2>1. /\ Cardinality(s) \in 0 .. Cardinality(S)
        /\ Cardinality(s) = 0 <=> s = {}
        /\ \A x \in s : Cardinality(s \ {x}) = Cardinality(s) - 1
    BY Sized
  <2>2. s # {} => some(s) \in s
    BY <1>2
  <2> HIDE DEF some
  <2> QED BY <2>1, <2>2, <1>1
<1> HIDE DEF some, N
<1>4. \E f : f = step(f)
  <2> DEFINE Fixed(f, n) == \A s \in SUBSET S : Cardinality(s) <= n => f[s] = step(f)[s]
             T == {n \in 0 .. N : \E f \in [SUBSET S -> Nat] : Fixed(f, n)}
  <2>1. 0 \in T
    <3> DEFINE f == [s \in SUBSET S |-> 0]
    <3>1. f \in [SUBSET S -> Nat]
      OBVIOUS
    <3>2. ASSUME NEW s \in SUBSET S, Cardinality(s) <= 0
          PROVE  f[s] = step(f)[s]
      <4>1. Cardinality(s) \in Nat
        BY <1>3, Zenon
      <4>2. Cardinality(s) = 0
        BY <3>2, <4>1
      <4>3. s = {}
        BY <4>2, <1>3, Zenon
      <4> QED BY <4>3
    <3>3. 0 \in 0 .. N
      BY <1>1
    <3> HIDE DEF f, step
    <3>4. Fixed(f, 0)
      BY <3>2
    <3> QED BY <3>1, <3>3, <3>4
  <2>2. ASSUME NEW k \in 0 .. N - 1, k \in T
        PROVE  k + 1 \in T
    <3>1. PICK f \in [SUBSET S -> Nat] : Fixed(f, k)
      BY <2>2
    <3> DEFINE g == step(f)
    <3>2. g \in [SUBSET S -> Nat]
      BY <1>2
    <3>3. ASSUME NEW s \in SUBSET S, Cardinality(s) <= k + 1
          PROVE  g[s] = step(g)[s]
      <4>1. CASE s = {}
        BY <4>1
      <4>2. CASE s # {}
        <5>1. Cardinality(s \ {some(s)}) <= k /\ s \ {some(s)} \in SUBSET S
          BY <4>2, <3>3, <1>2, <1>3
        <5>2. f[s \ {some(s)}] = g[s \ {some(s)}]
          BY <5>1, <3>1
        <5>3. g[s] = val[some(s)] + f[s \ {some(s)}]
          BY <4>2
        <5> HIDE DEF g
        <5>4. step(g)[s] = val[some(s)] + g[s \ {some(s)}]
          BY <4>2
        <5> QED BY <5>2, <5>3, <5>4
      <4> QED BY <4>1, <4>2
    <3> HIDE DEF g, step
    <3>4. Fixed(g, k + 1)
      BY <3>3
    <3>5. k + 1 \in 0 .. N
      BY <1>1
    <3> QED BY <3>2, <3>4, <3>5
  <2> HIDE DEF Fixed
  <2>3. N \in T
    <3>1. T \subseteq 0 .. N
      OBVIOUS
    <3> HIDE DEF T
    <3> QED BY <3>1, <2>1, <2>2, <1>1, CountUp
  <2>4. PICK f \in [SUBSET S -> Nat] : Fixed(f, N)
    BY <2>3
  <2>5. \A s \in SUBSET S : f[s] = step(f)[s]
    BY <2>4, <1>1, <1>3 DEF Fixed
  <2>6. f = step(f)
    BY <2>5
  <2> QED BY <2>6
<1>5. sum = step(sum)
  <2> HIDE DEF step
  <2> QED BY <1>4
<1> HIDE DEF sum
<1>6. /\ sum[{}] = 0
      /\ \A s \in SUBSET S : s # {} => sum[s] = val[some(s)] + sum[s \ {some(s)}]
  <2> DEFINE f == sum
  <2> HIDE DEF f
  <2>1. f = step(f)
    BY <1>5 DEF f
  <2>2. f[{}] = step(f)[{}] /\ \A s \in SUBSET S : f[s] = step(f)[s]
    BY <2>1
  <2>3. step(f)[{}] = 0
    OBVIOUS
  <2>4. \A s \in SUBSET S : s # {} => step(f)[s] = val[some(s)] + f[s \ {some(s)}]
    OBVIOUS
  <2> QED BY <2>2, <2>3, <2>4 DEF f
<1>7. \A s \in SUBSET S : sum[s] \in Nat /\ sum[s] <= B * Cardinality(s)
  <2> DEFINE Bounded(n) == \A s \in SUBSET S :
                             Cardinality(s) <= n => sum[s] \in Nat /\ sum[s] <= B * Cardinality(s)
             T == {n \in 0 .. N : Bounded(n)}
  <2>1. 0 \in T
    <3>1. ASSUME NEW s \in SUBSET S, Cardinality(s) <= 0
          PROVE  sum[s] \in Nat /\ sum[s] <= B * Cardinality(s)
      <4>1. Cardinality(s) \in Nat
        BY <1>3, Zenon
      <4>2. Cardinality(s) = 0
        BY <3>1, <4>1
      <4>3. s = {} /\ Cardinality(s) = 0
        BY <4>2, <1>3, Zenon
      <4> QED BY <4>3, <1>6
    <3>2. 0 \in 0 .. N
      BY <1>1
    <3> QED BY <3>1, <3>2
  <2>2. ASSUME NEW k \in 0 .. N - 1, k \in T
        PROVE  k + 1 \in T
    <3>1. ASSUME NEW s \in SUBSET S, Cardinality(s) <= k + 1
          PROVE  sum[s] \in Nat /\ sum[s] <= B * Cardinality(s)
      <4>1. CASE s = {}
        <5>1. Cardinality(s) = 0 /\ sum[s] = 0
          BY <4>1, <1>3, <1>6
        <5> QED BY <5>1
      <4>2. CASE s # {}
        <5> DEFINE r == s \ {some(s)}
        <5>1. /\ Cardinality(r) = Cardinality(s) - 1 /\ r \in SUBSET S
              /\ Cardinality(s) \in Nat
          BY <4>2, <1>2, <1>3
        <5>2. Cardinality(r) <= k /\ Cardinality(r) \in Nat
          BY <5>1, <3>1, <1>3
        <5>3. sum[r] \in Nat /\ sum[r] <= B * Cardinality(r)
          BY <5>1, <5>2, <2>2
        <5>4. sum[s] = val[some(s)] + sum[r] /\ val[some(s)] \in Nat /\ val[some(s)] <= B
          BY <4>2, <1>2, <1>6
        <5>5. B * Cardinality(s) = B * Cardinality(r) + B
          <6>1. Cardinality(s) = Cardinality(r) + 1
            BY <5>1
          <6> HIDE DEF r
          <6>2. \A m \in Nat : B * (m + 1) = B * m + B
            OBVIOUS
          <6> QED BY <6>1, <6>2, <5>2
        <5> HIDE DEF r
        <5>6. B * Cardinality(r) \in Nat
          BY <5>2
        <5> QED BY <5>3, <5>4, <5>5, <5>6
      <4> QED BY <4>1, <4>2
    <3>2. k + 1 \in 0 .. N
      BY <1>1
    <3> QED BY <3>1, <3>2
  <2>3. N \in T
    <3>1. T \subseteq 0 .. N
      OBVIOUS
    <3> HIDE DEF T
    <3> QED BY <3>1, <2>1, <2>2, <1>1, CountUp
  <2> QED BY <2>3, <1>3, <1>1
<1>8. S \in SUBSET S
  OBVIOUS
<1> QED BY <1>7, <1>8 DEF sum, some, N


(* Boxes of tiles.                                                         *)

Boxes ==
  {b \in [lower : Int \X Int, upper : Int \X Int] :
     /\ 0 <= b.lower[1] /\ b.lower[1] < b.upper[1] /\ b.upper[1] <= Width
     /\ 0 <= b.lower[2] /\ b.lower[2] < b.upper[2] /\ b.upper[2] <= Height}

LEMMA BoxShape ==
  ASSUME NEW b \in Boxes
  PROVE  /\ b.lower[1] \in Int /\ b.lower[2] \in Int /\ b.upper[1] \in Int /\ b.upper[2] \in Int
         /\ b = [lower |-> <<b.lower[1], b.lower[2]>>, upper |-> <<b.upper[1], b.upper[2]>>]
         /\ 0 <= b.lower[1] /\ b.lower[1] < b.upper[1] /\ b.upper[1] <= Width
         /\ 0 <= b.lower[2] /\ b.lower[2] < b.upper[2] /\ b.upper[2] <= Height
         /\ Errors!Extent(b, 1) = b.upper[1] - b.lower[1]
         /\ Errors!Extent(b, 2) = b.upper[2] - b.lower[2]
         /\ Errors!Extent(b, 1) \in Nat \ {0} /\ Errors!Extent(b, 2) \in Nat \ {0}
<1>1. b \in [lower : Int \X Int, upper : Int \X Int]
  BY DEF Boxes
<1>2. /\ b = [lower |-> b.lower, upper |-> b.upper]
      /\ b.lower \in Int \X Int /\ b.upper \in Int \X Int
  BY <1>1
<1>3. b = [lower |-> <<b.lower[1], b.lower[2]>>, upper |-> <<b.upper[1], b.upper[2]>>]
  BY <1>2
<1> QED BY <1>2, <1>3 DEF Boxes, Errors!Extent

\* The tiles of a box are a product.
LEMMA TilesOfBox ==
  ASSUME NEW b \in Boxes
  PROVE  /\ Errors!TilesOf(b) =
              (b.lower[1] .. b.upper[1] - 1) \X (b.lower[2] .. b.upper[2] - 1)
         /\ Errors!TilesOf(b) \subseteq Errors!Tile
         /\ b.lower \in Errors!TilesOf(b)
<1>1. /\ b.lower[1] \in Int /\ b.lower[2] \in Int /\ b.upper[1] \in Int /\ b.upper[2] \in Int
      /\ b.lower = <<b.lower[1], b.lower[2]>>
      /\ 0 <= b.lower[1] /\ b.lower[1] < b.upper[1] /\ b.upper[1] <= Width
      /\ 0 <= b.lower[2] /\ b.lower[2] < b.upper[2] /\ b.upper[2] <= Height
  <2>1. b.lower = <<b.lower[1], b.lower[2]>>
    BY DEF Boxes
  <2> QED BY <2>1, BoxShape
<1>2. Width \in Nat /\ Height \in Nat
  BY SizeAssumption
<1>3. Errors!TilesOf(b) =
        {t \in Errors!Tile : /\ b.lower[1] <= t[1] /\ t[1] < b.upper[1]
                             /\ b.lower[2] <= t[2] /\ t[2] < b.upper[2]}
  <2>1. 1 .. 2 = {1, 2}
    OBVIOUS
  <2> QED BY <2>1 DEF Errors!TilesOf
<1> DEFINE P == (b.lower[1] .. b.upper[1] - 1) \X (b.lower[2] .. b.upper[2] - 1)
<1>4. ASSUME NEW t \in P
      PROVE  t \in Errors!TilesOf(b)
  <2>1. PICK x \in b.lower[1] .. b.upper[1] - 1, y \in b.lower[2] .. b.upper[2] - 1 : t = <<x, y>>
    OBVIOUS
  <2>2. x \in 0 .. Width - 1 /\ y \in 0 .. Height - 1
    BY <1>1, <1>2, <2>1
  <2>3. t \in Errors!Tile /\ t[1] = x /\ t[2] = y
    BY <2>1, <2>2 DEF Errors!Tile
  <2> QED BY <1>1, <1>3, <2>1, <2>3
<1>5. ASSUME NEW t \in Errors!TilesOf(b)
      PROVE  t \in P
  <2>1. PICK x \in 0 .. Width - 1, y \in 0 .. Height - 1 : t = <<x, y>>
    BY <1>3 DEF Errors!Tile
  <2>2. x \in b.lower[1] .. b.upper[1] - 1 /\ y \in b.lower[2] .. b.upper[2] - 1
    BY <1>1, <1>2, <1>3, <2>1
  <2> QED BY <2>1, <2>2
<1>6. b.lower \in P
  <2>1. PICK x \in Int, y \in Int : x = b.lower[1] /\ y = b.lower[2] /\ b.lower = <<x, y>>
    BY <1>1
  <2>2. x \in b.lower[1] .. b.upper[1] - 1 /\ y \in b.lower[2] .. b.upper[2] - 1
    BY <1>1, <2>1
  <2>3. <<x, y>> \in P
    BY <2>2
  <2> QED BY <2>1, <2>3
<1> HIDE DEF P
<1>7. Errors!TilesOf(b) = P
  BY <1>4, <1>5
<1> QED BY <1>3, <1>6, <1>7 DEF P

LEMMA AreaOfBox ==
  ASSUME NEW b \in Boxes
  PROVE  /\ IsFiniteSet(Errors!TilesOf(b)) /\ Errors!Area(b) \in Nat
         /\ Cardinality(Errors!TilesOf(b)) = Errors!Area(b)
<1> DEFINE X == b.lower[1] .. b.upper[1] - 1
           Y == b.lower[2] .. b.upper[2] - 1
<1>1. /\ b.lower[1] \in Int /\ b.upper[1] - 1 \in Int /\ b.lower[1] <= b.upper[1] - 1
      /\ b.lower[2] \in Int /\ b.upper[2] - 1 \in Int /\ b.lower[2] <= b.upper[2] - 1
      /\ Errors!Extent(b, 1) = (b.upper[1] - 1) - b.lower[1] + 1
      /\ Errors!Extent(b, 2) = (b.upper[2] - 1) - b.lower[2] + 1
      /\ Errors!Extent(b, 1) \in Nat /\ Errors!Extent(b, 2) \in Nat
  BY BoxShape
<1>2. /\ IsFiniteSet(X) /\ Cardinality(X) = Errors!Extent(b, 1)
      /\ IsFiniteSet(Y) /\ Cardinality(Y) = Errors!Extent(b, 2)
  <2>1. \A l, u \in Int : l <= u => IsFiniteSet(l .. u) /\ Cardinality(l .. u) = u - l + 1
    BY FS_Interval
  <2> QED BY <1>1, <2>1
<1> HIDE DEF X, Y
<1>3. IsFiniteSet(X \X Y) /\ Cardinality(X \X Y) = Cardinality(X) * Cardinality(Y)
  BY <1>2, FS_Product
<1>4. Errors!TilesOf(b) = X \X Y
  BY TilesOfBox DEF X, Y
<1>5. \A m, n \in Nat : m * n \in Nat
  OBVIOUS
<1> QED BY <1>1, <1>2, <1>3, <1>4, <1>5 DEF Errors!Area

LEMMA AreaOne ==
  ASSUME NEW b \in Boxes
  PROVE  /\ Errors!Area(b) = 1 <=> Errors!Extent(b, 1) = 1 /\ Errors!Extent(b, 2) = 1
         /\ Errors!Extent(b, 2) = 1 => Errors!Area(b) = Errors!Extent(b, 1)
         /\ Errors!Extent(b, 1) = 1 => Errors!Area(b) = Errors!Extent(b, 2)
         /\ Errors!Area(b) >= 1
<1>1. ASSUME NEW m \in Nat \ {0}, NEW n \in Nat \ {0}
      PROVE  m * n >= m /\ m * n >= n /\ (m = 1 => m * n = n) /\ (n = 1 => m * n = m)
  <2>1. PICK k \in Nat : n = k + 1
    BY n = (n - 1) + 1, n - 1 \in Nat
  <2>2. PICK l \in Nat : m = l + 1
    BY m = (m - 1) + 1, m - 1 \in Nat
  <2>3. m * n = m * k + m /\ m * k \in Nat
    BY <2>1
  <2>4. m * n = l * n + n /\ l * n \in Nat
    BY <2>2
  <2> QED BY <2>3, <2>4
<1>2. Errors!Extent(b, 1) \in Nat \ {0} /\ Errors!Extent(b, 2) \in Nat \ {0}
  BY BoxShape
<1> QED BY <1>1, <1>2 DEF Errors!Area

\* What becomes of a box of more than two tiles: two boxes, and a single tile
\* is only split off a pair.
LEMMA Halves ==
  ASSUME NEW b \in Boxes, Errors!Area(b) > 2
  PROVE  LET f == Errors!FirstHalf(b)
             s == Errors!SecondHalf(b)
         IN /\ f \in Boxes /\ s \in Boxes
            /\ Errors!TilesOf(f) \subseteq Errors!TilesOf(b)
            /\ Errors!TilesOf(s) \subseteq Errors!TilesOf(b)
            /\ Errors!TilesOf(f) \cap Errors!TilesOf(s) = {}
            /\ Errors!Area(s) # 1
            /\ Errors!Area(f) = 1 => Errors!Area(s) = 2
<1> DEFINE x == b.lower[1]
           y == b.lower[2]
           X == b.upper[1]
           Y == b.upper[2]
           f == Errors!FirstHalf(b)
           s == Errors!SecondHalf(b)
<1>1. /\ x \in Int /\ y \in Int /\ X \in Int /\ Y \in Int
      /\ b = [lower |-> <<x, y>>, upper |-> <<X, Y>>]
      /\ 0 <= x /\ x < X /\ X <= Width /\ 0 <= y /\ y < Y /\ Y <= Height
      /\ Errors!Extent(b, 1) = X - x /\ Errors!Extent(b, 2) = Y - y
  BY BoxShape
<1> HIDE DEF x, y, X, Y
<1>2. /\ Y - y = 1 => X - x > 2
      /\ X - x = 1 => Y - y > 2
  BY <1>1, AreaOne
<1>3. Width \in Nat /\ Height \in Nat
  BY SizeAssumption
<1>4. CASE Errors!Extent(b, 1) > Errors!Extent(b, 2)
  <2>1. PICK h \in Int : h = (X - x) \div 2
    BY <1>1
  <2>2. 2 * h <= X - x /\ X - x <= 2 * h + 1
    BY <1>1, <2>1
  <2>3. X - x > Y - y
    BY <1>1, <1>4
  <2>4. /\ f = [lower |-> <<x, y>>, upper |-> <<x + h, Y>>]
        /\ s = [lower |-> <<x + h, y>>, upper |-> <<X, Y>>]
    <3>1. f = [b EXCEPT !.upper[1] = b.lower[1] + Errors!Extent(b, 1) \div 2]
      BY <1>4 DEF Errors!FirstHalf
    <3>2. s = [b EXCEPT !.lower[1] = b.lower[1] + Errors!Extent(b, 1) \div 2]
      BY <1>4 DEF Errors!SecondHalf
    <3>3. b.lower[1] + Errors!Extent(b, 1) \div 2 = x + h
      BY <1>1, <2>1 DEF x
    <3>4. f = [b EXCEPT !.upper[1] = x + h] /\ s = [b EXCEPT !.lower[1] = x + h]
      BY <3>1, <3>2, <3>3
    <3>5. f = [lower |-> <<x, y>>, upper |-> [<<X, Y>> EXCEPT ![1] = x + h]]
      BY <1>1, <3>4
    <3>6. s = [lower |-> [<<x, y>> EXCEPT ![1] = x + h], upper |-> <<X, Y>>]
      BY <1>1, <3>4
    <3> QED BY <3>5, <3>6
  <2> HIDE DEF f, s
  <2>5. h >= 1 /\ x < x + h /\ x + h < X
    BY <1>1, <2>2, <2>3
  <2>6. f \in Boxes /\ s \in Boxes
    BY <1>1, <1>3, <2>4, <2>5 DEF Boxes
  <2>7. /\ Errors!TilesOf(f) = (x .. x + h - 1) \X (y .. Y - 1)
        /\ Errors!TilesOf(s) = (x + h .. X - 1) \X (y .. Y - 1)
        /\ Errors!TilesOf(b) = (x .. X - 1) \X (y .. Y - 1)
    BY <2>4, <2>6, <1>1, TilesOfBox
  <2>8. /\ x .. x + h - 1 \subseteq x .. X - 1 /\ x + h .. X - 1 \subseteq x .. X - 1
        /\ (x .. x + h - 1) \cap (x + h .. X - 1) = {}
    BY <1>1, <2>5
  <2>9. /\ Errors!TilesOf(f) \subseteq Errors!TilesOf(b)
        /\ Errors!TilesOf(s) \subseteq Errors!TilesOf(b)
        /\ Errors!TilesOf(f) \cap Errors!TilesOf(s) = {}
    BY <2>7, <2>8
  <2>10. /\ Errors!Extent(f, 1) = h /\ Errors!Extent(f, 2) = Y - y
         /\ Errors!Extent(s, 1) = X - x - h /\ Errors!Extent(s, 2) = Y - y
    BY <1>1, <2>4, <2>6, BoxShape
  <2>11. Errors!Area(s) # 1
    BY <1>1, <1>2, <2>2, <2>5, <2>6, <2>10, AreaOne
  <2>12. Errors!Area(f) = 1 => Errors!Area(s) = 2
    BY <1>1, <1>2, <2>2, <2>5, <2>6, <2>10, AreaOne
  <2> QED BY <2>6, <2>9, <2>11, <2>12 DEF f, s
<1>5. CASE ~(Errors!Extent(b, 1) > Errors!Extent(b, 2))
  <2>1. PICK h \in Int : h = (Y - y) \div 2
    BY <1>1
  <2>2. 2 * h <= Y - y /\ Y - y <= 2 * h + 1
    BY <1>1, <2>1
  <2>3. Y - y >= X - x
    BY <1>1, <1>5
  <2>4. /\ f = [lower |-> <<x, y>>, upper |-> <<X, y + h>>]
        /\ s = [lower |-> <<x, y + h>>, upper |-> <<X, Y>>]
    <3>1. f = [b EXCEPT !.upper[2] = b.lower[2] + Errors!Extent(b, 2) \div 2]
      BY <1>5 DEF Errors!FirstHalf
    <3>2. s = [b EXCEPT !.lower[2] = b.lower[2] + Errors!Extent(b, 2) \div 2]
      BY <1>5 DEF Errors!SecondHalf
    <3>3. b.lower[2] + Errors!Extent(b, 2) \div 2 = y + h
      BY <1>1, <2>1 DEF y
    <3>4. f = [b EXCEPT !.upper[2] = y + h] /\ s = [b EXCEPT !.lower[2] = y + h]
      BY <3>1, <3>2, <3>3
    <3>5. f = [lower |-> <<x, y>>, upper |-> [<<X, Y>> EXCEPT ![2] = y + h]]
      BY <1>1, <3>4
    <3>6. s = [lower |-> [<<x, y>> EXCEPT ![2] = y + h], upper |-> <<X, Y>>]
      BY <1>1, <3>4
    <3> QED BY <3>5, <3>6
  <2> HIDE DEF f, s
  <2>5. h >= 1 /\ y < y + h /\ y + h < Y
    BY <1>1, <1>2, <2>2, <2>3
  <2>6. f \in Boxes /\ s \in Boxes
    BY <1>1, <1>3, <2>4, <2>5 DEF Boxes
  <2>7. /\ Errors!TilesOf(f) = (x .. X - 1) \X (y .. y + h - 1)
        /\ Errors!TilesOf(s) = (x .. X - 1) \X (y + h .. Y - 1)
        /\ Errors!TilesOf(b) = (x .. X - 1) \X (y .. Y - 1)
    BY <2>4, <2>6, <1>1, TilesOfBox
  <2>8. /\ y .. y + h - 1 \subseteq y .. Y - 1 /\ y + h .. Y - 1 \subseteq y .. Y - 1
        /\ (y .. y + h - 1) \cap (y + h .. Y - 1) = {}
    BY <1>1, <2>5
  <2>9. /\ Errors!TilesOf(f) \subseteq Errors!TilesOf(b)
        /\ Errors!TilesOf(s) \subseteq Errors!TilesOf(b)
        /\ Errors!TilesOf(f) \cap Errors!TilesOf(s) = {}
    BY <2>7, <2>8
  <2>10. /\ Errors!Extent(f, 1) = X - x /\ Errors!Extent(f, 2) = h
         /\ Errors!Extent(s, 1) = X - x /\ Errors!Extent(s, 2) = Y - y - h
    BY <1>1, <2>4, <2>6, BoxShape
  <2>11. Errors!Area(s) # 1
    BY <1>1, <1>2, <2>2, <2>5, <2>6, <2>10, AreaOne
  <2>12. Errors!Area(f) = 1 => Errors!Area(s) = 2
    BY <1>1, <1>2, <2>2, <2>5, <2>6, <2>10, AreaOne
  <2> QED BY <2>6, <2>9, <2>11, <2>12 DEF f, s
<1> QED BY <1>4, <1>5

\* No two boxes of R share a tile.
Apart(R) == \A b, c \in R : b # c => Errors!TilesOf(b) \cap Errors!TilesOf(c) = {}

\* Every single tile of R was split off a pair of tiles, which is still in R
\* or has gone: a spare pair of its own.
Singles(R) == {b \in R : Errors!Area(b) = 1}
IsSpare(R, spare) ==
  /\ spare \in [Singles(R) -> {p \in Boxes : Errors!Area(p) = 2}]
  /\ \A b \in Singles(R) : \A c \in R :
       c = spare[b] \/ Errors!TilesOf(c) \cap Errors!TilesOf(spare[b]) = {}
  /\ \A b, c \in Singles(R) :
       c # b => Errors!TilesOf(spare[c]) \cap Errors!TilesOf(spare[b]) = {}
Spared(R) == \E spare : IsSpare(R, spare)

LEMMA SparedLess ==
  ASSUME NEW R, Spared(R), NEW Q \in SUBSET R
  PROVE  Spared(Q)
<1>1. PICK spare : IsSpare(R, spare)
  BY DEF Spared
<1> DEFINE less == [b \in Singles(Q) |-> spare[b]]
<1>2. Singles(Q) \subseteq Singles(R)
  BY DEF Singles
<1>3. less \in [Singles(Q) -> {p \in Boxes : Errors!Area(p) = 2}]
  BY <1>1, <1>2 DEF IsSpare
<1>4. \A b \in Singles(Q) : less[b] = spare[b]
  OBVIOUS
<1> HIDE DEF less
<1>5. IsSpare(Q, less)
  BY <1>1, <1>2, <1>3, <1>4 DEF IsSpare
<1> QED BY <1>5 DEF Spared

LEMMA SparedSplit ==
  ASSUME NEW R \in SUBSET Boxes, Apart(R), Spared(R), NEW b \in R, Errors!Area(b) > 2
  PROVE  /\ Spared((R \ {b}) \cup {Errors!FirstHalf(b), Errors!SecondHalf(b)})
         /\ Apart((R \ {b}) \cup {Errors!FirstHalf(b), Errors!SecondHalf(b)})
         /\ (R \ {b}) \cup {Errors!FirstHalf(b), Errors!SecondHalf(b)} \subseteq Boxes
<1>1. PICK spare : IsSpare(R, spare)
  BY DEF Spared
<1> DEFINE f == Errors!FirstHalf(b)
           s == Errors!SecondHalf(b)
           T(c) == Errors!TilesOf(c)
           Q == (R \ {b}) \cup {f, s}
           split == [c \in Singles(Q) |-> IF c = f THEN s ELSE spare[c]]
<1>2. /\ f \in Boxes /\ s \in Boxes /\ T(f) \subseteq T(b) /\ T(s) \subseteq T(b)
      /\ T(f) \cap T(s) = {} /\ Errors!Area(s) # 1
      /\ Errors!Area(f) = 1 => Errors!Area(s) = 2
  BY Halves
<1> HIDE DEF f, s
<1>3. \A c \in R \ {b} : T(c) \cap T(b) = {}
  BY DEF Apart
<1>4. \A c \in Q : c = f \/ c = s \/ c \in R \ {b}
  OBVIOUS
<1>5. \A c \in Singles(Q) : c # f => c \in Singles(R)
  BY <1>2, <1>4 DEF Singles
<1>6. \A c \in Singles(R) : T(b) \cap T(spare[c]) = {}
  <2>1. \A c \in Singles(R) : Errors!Area(spare[c]) = 2
    BY <1>1 DEF IsSpare
  <2>2. \A c \in Singles(R) : spare[c] # b
    BY <2>1
  <2> QED BY <1>1, <2>2 DEF IsSpare
<1> HIDE DEF T
<1>7. Apart(Q)
  <2> SUFFICES ASSUME NEW c \in Q, NEW d \in Q, c # d PROVE T(c) \cap T(d) = {}
    BY DEF Apart, T
  <2>1. c \in R \ {b} /\ d \in R \ {b} => T(c) \cap T(d) = {}
    BY DEF Apart, T
  <2>2. c \in R \ {b} => T(c) \cap T(f) = {} /\ T(c) \cap T(s) = {}
    BY <1>2, <1>3
  <2>3. d \in R \ {b} => T(d) \cap T(f) = {} /\ T(d) \cap T(s) = {}
    BY <1>2, <1>3
  <2> QED BY <1>2, <1>4, <2>1, <2>2, <2>3
<1>8. Q \subseteq Boxes
  BY <1>2
<1>9. split \in [Singles(Q) -> {p \in Boxes : Errors!Area(p) = 2}]
  <2> SUFFICES ASSUME NEW c \in Singles(Q)
               PROVE  split[c] \in Boxes /\ Errors!Area(split[c]) = 2
    BY DEF split
  <2>1. c = f => Errors!Area(s) = 2
    BY <1>2 DEF Singles
  <2>2. c # f => spare[c] \in Boxes /\ Errors!Area(spare[c]) = 2
    BY <1>1, <1>5 DEF IsSpare
  <2> QED BY <1>2, <2>1, <2>2
<1>10. \A c \in Singles(Q) : split[c] = IF c = f THEN s ELSE spare[c]
  OBVIOUS
<1> HIDE DEF split, Q
<1>11. ASSUME NEW c \in Singles(Q), NEW d \in Q
       PROVE  d = split[c] \/ T(d) \cap T(split[c]) = {}
  <2>1. CASE c = f
    BY <2>1, <1>2, <1>3, <1>4, <1>10
  <2>2. CASE c # f
    <3>1. c \in Singles(R) /\ split[c] = spare[c]
      BY <2>2, <1>5, <1>10
    <3>2. d \in R => d = spare[c] \/ T(d) \cap T(spare[c]) = {}
      BY <3>1, <1>1 DEF IsSpare, T
    <3>3. T(f) \cap T(spare[c]) = {} /\ T(s) \cap T(spare[c]) = {}
      BY <3>1, <1>2, <1>6
    <3> QED BY <3>1, <3>2, <3>3, <1>4
  <2> QED BY <2>1, <2>2
<1>12. ASSUME NEW c \in Singles(Q), NEW d \in Singles(Q), d # c
       PROVE  T(split[d]) \cap T(split[c]) = {}
  <2>1. CASE c # f /\ d # f
    <3>1. c \in Singles(R) /\ d \in Singles(R) /\ split[c] = spare[c] /\ split[d] = spare[d]
      BY <2>1, <1>5, <1>10
    <3> QED BY <3>1, <1>1, <1>12 DEF IsSpare, T
  <2>2. CASE c = f
    <3>1. split[c] = s /\ d \in Singles(R) /\ split[d] = spare[d]
      BY <2>2, <1>5, <1>10, <1>12
    <3> QED BY <3>1, <1>2, <1>6
  <2>3. CASE d = f
    <3>1. split[d] = s /\ c \in Singles(R) /\ split[c] = spare[c]
      BY <2>3, <1>5, <1>10, <1>12
    <3> QED BY <3>1, <1>2, <1>6
  <2> QED BY <2>1, <2>2, <2>3
<1>13. IsSpare(Q, split)
  BY <1>9, <1>11, <1>12 DEF IsSpare, T
<1> QED BY <1>7, <1>8, <1>13 DEF Spared, Q, f, s

\* There are two regions for three tiles at most: a single tile takes two
\* thirds and a third from its pair, which has four thirds in all.
LEMMA RegionsCounted ==
  ASSUME NEW R \in SUBSET Boxes, Apart(R), Spared(R)
  PROVE  IsFiniteSet(R) /\ 3 * Cardinality(R) <= 2 * Width * Height
<1>1. PICK spare : IsSpare(R, spare)
  BY DEF Spared
<1> DEFINE T(b) == Errors!TilesOf(b)
           other(b) == IF Errors!Extent(b, 1) > 1 THEN <<b.lower[1] + 1, b.lower[2]>>
                       ELSE <<b.lower[1], b.lower[2] + 1>>
           H == Errors!Tile \X (1 .. 2)
           single(b) == Errors!Area(b) = 1
           third(b, k) == IF single(b)
                          THEN IF k = 3 THEN <<spare[b].lower, 1>> ELSE <<b.lower, k>>
                          ELSE IF k = 3 THEN <<b.lower, 2>> ELSE <<other(b), k>>
           g == [p \in R \X (1 .. 3) |-> third(p[1], p[2])]
<1>2. ASSUME NEW b \in R
      PROVE  /\ b.lower \in T(b) /\ b.lower \in Errors!Tile
             /\ T(b) \subseteq Errors!Tile
             /\ ~single(b) => other(b) \in T(b) /\ other(b) # b.lower
             /\ single(b) => /\ spare[b] \in Boxes /\ ~single(spare[b])
                             /\ spare[b].lower \in T(spare[b])
                             /\ spare[b].lower \in Errors!Tile
                             /\ b \in Singles(R)
  <2>0. b \in Boxes
    OBVIOUS
  <2>1. b.lower \in T(b) /\ T(b) \subseteq Errors!Tile
    BY <2>0, TilesOfBox
  <2>2. ASSUME ~single(b)
        PROVE  other(b) \in T(b) /\ other(b) # b.lower
    <3>1. PICK x \in Int, y \in Int, X \in Int, Y \in Int :
            /\ b = [lower |-> <<x, y>>, upper |-> <<X, Y>>] /\ x < X /\ y < Y
            /\ Errors!Extent(b, 1) = X - x /\ Errors!Extent(b, 2) = Y - y
      BY <2>0, BoxShape
    <3>2. ~(X - x = 1 /\ Y - y = 1)
      BY <2>0, <2>2, <3>1, AreaOne
    <3>3. b.lower = <<x, y>> /\ b.lower[1] = x /\ b.lower[2] = y /\ b.upper[1] = X /\ b.upper[2] = Y
      BY <3>1
    <3>4. T(b) = (x .. X - 1) \X (y .. Y - 1)
      BY <2>0, <3>3, TilesOfBox
    <3>5. CASE X - x > 1
      <4>1. other(b) = <<x + 1, y>> /\ x + 1 \in x .. X - 1 /\ y \in y .. Y - 1
        BY <3>1, <3>3, <3>5
      <4> QED BY <4>1, <3>3, <3>4
    <3>6. CASE ~(X - x > 1)
      <4>1. other(b) = <<x, y + 1>> /\ y + 1 \in y .. Y - 1 /\ x \in x .. X - 1
        BY <3>1, <3>2, <3>3, <3>6
      <4> QED BY <4>1, <3>3, <3>4
    <3> QED BY <3>5, <3>6
  <2>3. ASSUME single(b)
        PROVE  /\ spare[b] \in Boxes /\ ~single(spare[b])
               /\ spare[b].lower \in T(spare[b]) /\ spare[b].lower \in Errors!Tile
               /\ b \in Singles(R)
    <3>1. b \in Singles(R)
      BY <2>3 DEF Singles
    <3>2. spare[b] \in Boxes /\ Errors!Area(spare[b]) = 2
      BY <1>1, <3>1 DEF IsSpare
    <3>3. spare[b].lower \in T(spare[b]) /\ T(spare[b]) \subseteq Errors!Tile
      BY <3>2, TilesOfBox
    <3> QED BY <3>1, <3>2, <3>3
  <2> QED BY <2>1, <2>2, <2>3
<1> HIDE DEF other
<1>3. \A b, c \in R : b # c => T(b) \cap T(c) = {}
  BY DEF Apart
<1>4. ASSUME NEW b \in R, NEW c \in R, single(b)
      PROVE  /\ c = spare[b] \/ T(c) \cap T(spare[b]) = {}
             /\ single(c) /\ c # b => T(spare[c]) \cap T(spare[b]) = {}
  <2>1. b \in Singles(R) /\ (single(c) => c \in Singles(R))
    BY <1>4 DEF Singles
  <2> QED BY <2>1, <1>1 DEF IsSpare
<1> HIDE DEF single, T
<1>5. ASSUME NEW b \in R, NEW k \in 1 .. 3
      PROVE  third(b, k) \in H
  <2>1. k # 3 => k \in 1 .. 2
    OBVIOUS
  <2>2. single(b) => b.lower \in Errors!Tile /\ spare[b].lower \in Errors!Tile
    BY <1>2
  <2>3. ~single(b) => b.lower \in Errors!Tile /\ other(b) \in Errors!Tile
    BY <1>2
  <2> QED BY <2>1, <2>2, <2>3
<1>6. ASSUME NEW b \in R, NEW c \in R, NEW k \in 1 .. 3, NEW l \in 1 .. 3,
             third(b, k) = third(c, l)
      PROVE  b = c /\ k = l
  <2>1. CASE b = c
    <3>1. single(b) => b.lower # spare[b].lower
      <4>1. single(b) => b # spare[b]
        BY <1>2
      <4>2. single(b) => T(b) \cap T(spare[b]) = {}
        BY <1>4, <4>1
      <4> QED BY <4>2, <1>2
    <3>2. k \in {1, 2, 3} /\ l \in {1, 2, 3}
      OBVIOUS
    <3>3. ~single(b) => other(b) # b.lower
      BY <1>2
    <3> QED BY <1>6, <2>1, <3>1, <3>2, <3>3
  <2>2. CASE b # c
    <3>1. T(b) \cap T(c) = {}
      BY <1>3, <2>2
    <3>2. CASE single(b) /\ single(c)
      <4>1. /\ b.lower \in T(b) /\ c.lower \in T(c)
            /\ spare[b].lower \in T(spare[b]) /\ spare[c].lower \in T(spare[c])
            /\ c # spare[b] /\ b # spare[c]
        BY <1>2, <3>2
      <4>2. /\ T(c) \cap T(spare[b]) = {} /\ T(b) \cap T(spare[c]) = {}
            /\ T(spare[c]) \cap T(spare[b]) = {}
        BY <1>4, <2>2, <3>2, <4>1
      <4>3. \E x \in {b.lower, spare[b].lower}, y \in {c.lower, spare[c].lower} : x = y
        BY <1>6, <3>2
      <4> QED BY <3>1, <4>1, <4>2, <4>3
    <3>3. CASE single(b) /\ ~single(c)
      <4>1. /\ b.lower \in T(b) /\ c.lower \in T(c) /\ other(c) \in T(c) /\ other(c) # c.lower
            /\ spare[b].lower \in T(spare[b])
        BY <1>2, <3>3
      <4>2. c = spare[b] \/ T(c) \cap T(spare[b]) = {}
        BY <1>4, <3>3
      <4>3. k = 3 => spare[b].lower = other(c)
        BY <1>6, <3>3
      <4>4. k # 3 => b.lower = other(c) \/ b.lower = c.lower
        BY <1>6, <3>3
      <4> QED BY <3>1, <4>1, <4>2, <4>3, <4>4
    <3>4. CASE ~single(b) /\ single(c)
      <4>1. /\ c.lower \in T(c) /\ b.lower \in T(b) /\ other(b) \in T(b) /\ other(b) # b.lower
            /\ spare[c].lower \in T(spare[c])
        BY <1>2, <3>4
      <4>2. b = spare[c] \/ T(b) \cap T(spare[c]) = {}
        BY <1>4, <3>4
      <4>3. l = 3 => spare[c].lower = other(b)
        BY <1>6, <3>4
      <4>4. l # 3 => c.lower = other(b) \/ c.lower = b.lower
        BY <1>6, <3>4
      <4> QED BY <3>1, <4>1, <4>2, <4>3, <4>4
    <3>5. CASE ~single(b) /\ ~single(c)
      <4>1. /\ b.lower \in T(b) /\ c.lower \in T(c) /\ other(b) \in T(b) /\ other(c) \in T(c)
        BY <1>2, <3>5
      <4>2. \E x \in {b.lower, other(b)}, y \in {c.lower, other(c)} : x = y
        BY <1>6, <3>5
      <4> QED BY <3>1, <4>1, <4>2
    <3> QED BY <3>2, <3>3, <3>4, <3>5
  <2> QED BY <2>1, <2>2
<1> HIDE DEF third, H
<1>7. g \in Injection(R \X (1 .. 3), H)
  <2>1. \A p \in R \X (1 .. 3) : p[1] \in R /\ p[2] \in 1 .. 3 /\ p = <<p[1], p[2]>>
    OBVIOUS
  <2>2. g \in [R \X (1 .. 3) -> H]
    BY <2>1, <1>5
  <2>3. ASSUME NEW p \in R \X (1 .. 3), NEW q \in R \X (1 .. 3), g[p] = g[q]
        PROVE  p = q
    <3>1. third(p[1], p[2]) = third(q[1], q[2])
      BY <2>3
    <3>2. p[1] = q[1] /\ p[2] = q[2]
      BY <3>1, <2>1, <1>6
    <3>3. p = <<p[1], p[2]>> /\ q = <<q[1], q[2]>>
      BY <2>1
    <3> HIDE DEF g
    <3> QED BY <3>2, <3>3, Zenon
  <2> HIDE DEF g
  <2> QED BY <2>2, <2>3 DEF Injection, IsInjective
<1> HIDE DEF g
<1> USE DEF H
<1>8. /\ IsFiniteSet(H) /\ Cardinality(H) = Width * Height * 2
      /\ IsFiniteSet(1 .. 3) /\ Cardinality(1 .. 3) = 3
  <2>1. \A n \in Int : n >= 0 => IsFiniteSet(1 .. n) /\ Cardinality(1 .. n) = n
    <3> SUFFICES ASSUME NEW n \in Int, n >= 0
                 PROVE  IsFiniteSet(1 .. n) /\ Cardinality(1 .. n) = n
      OBVIOUS
    <3>1. Cardinality(1 .. n) = IF 1 > n THEN 0 ELSE n - 1 + 1
      BY FS_Interval, 1 \in Int
    <3> QED BY <3>1, FS_Interval, 1 \in Int
  <2>2. \A n \in Int : n >= 1 => IsFiniteSet(0 .. n - 1) /\ Cardinality(0 .. n - 1) = n
    <3> SUFFICES ASSUME NEW n \in Int, n >= 1
                 PROVE  IsFiniteSet(0 .. n - 1) /\ Cardinality(0 .. n - 1) = n
      OBVIOUS
    <3>1. 0 \in Int /\ n - 1 \in Int
      OBVIOUS
    <3>2. Cardinality(0 .. n - 1) = IF 0 > n - 1 THEN 0 ELSE (n - 1) - 0 + 1
      BY <3>1, FS_Interval
    <3> QED BY <3>1, <3>2, FS_Interval
  <2>3. /\ IsFiniteSet(0 .. Width - 1) /\ Cardinality(0 .. Width - 1) = Width
        /\ IsFiniteSet(0 .. Height - 1) /\ Cardinality(0 .. Height - 1) = Height
    BY <2>2, SizeAssumption
  <2>4. IsFiniteSet(Errors!Tile) /\ Cardinality(Errors!Tile) = Width * Height
    BY <2>3, FS_Product DEF Errors!Tile
  <2>5. IsFiniteSet(1 .. 2) /\ Cardinality(1 .. 2) = 2 /\ IsFiniteSet(1 .. 3) /\ Cardinality(1 .. 3) = 3
    BY <2>1, 2 \in Int, 3 \in Int, 2 >= 0, 3 >= 0
  <2> QED BY <2>4, <2>5, FS_Product
<1> HIDE DEF H
<1>9. /\ IsFiniteSet(R \X (1 .. 3))
      /\ Cardinality(R \X (1 .. 3)) <= Cardinality(H)
  BY <1>7, <1>8, FS_Injection
<1>10. IsFiniteSet(R)
  <2> DEFINE e == [b \in R |-> <<b, 1>>]
  <2>1. e \in Injection(R, R \X (1 .. 3))
    BY DEF Injection, IsInjective
  <2> QED BY <2>1, <1>9, FS_Injection
<1>11. Cardinality(R \X (1 .. 3)) = Cardinality(R) * 3
  BY <1>8, <1>10, FS_Product
<1>12. Cardinality(R) \in Nat /\ Width * Height \in Nat
  <2>1. \A m, n \in Nat : m * n \in Nat
    OBVIOUS
  <2> QED BY <2>1, <1>10, FS_CardinalityType, SizeAssumption
<1>13. 2 * Width * Height = Width * Height * 2
  BY SizeAssumption
<1> QED BY <1>8, <1>9, <1>10, <1>11, <1>12, <1>13

(* The inductive invariant of TileError.                                   *)

ErrorValues == Error \cup {Errors!Inf, Threshold + 1}
RegionSet == {errorRegion[k] : k \in 1 .. Len(errorRegion)}

ErrorTypes ==
  /\ tileErrorBuffer \in [Errors!Tile -> ErrorValues]
  /\ errorRegion \in Seq(Boxes)
  /\ refining \in BOOLEAN
  /\ regions \in 0 .. Len(errorRegion) /\ i \in 1 .. regions + 1
  /\ ~refining => i = 1 /\ regions = 0

RegionsApart ==
  \A k, l \in 1 .. Len(errorRegion) :
    k # l => Errors!TilesOf(errorRegion[k]) \cap Errors!TilesOf(errorRegion[l]) = {}

\* The regions that have been looked at, and the new ones, are to be rendered.
LookedAt(k) == k < i \/ k > regions
GroupsActive ==
  \A k \in 1 .. Len(errorRegion) : LookedAt(k) =>
    \A t \in Errors!TilesOf(errorRegion[k]) : Errors!Active(t)

ConvergedOut ==
  \A t \in converged : /\ t \in Errors!Tile /\ ~Errors!Active(t)
                       /\ \A k \in 1 .. Len(errorRegion) : t \notin Errors!TilesOf(errorRegion[k])

\* An image of one tile has no pair, and one region.
RegionsSpared == Width * Height > 1 => Spared(RegionSet)

ErrorInv == ErrorTypes /\ RegionsApart /\ GroupsActive /\ ConvergedOut /\ RegionsSpared

LEMMA ErrorNumbers ==
  /\ ErrorValues \subseteq Nat /\ Threshold \in Nat /\ Errors!Inf \in ErrorValues
  /\ Errors!Inf > Threshold /\ Threshold + 1 \in ErrorValues /\ Error \subseteq ErrorValues
<1>1. Errors!Inf \in Nat /\ Errors!Inf > Threshold
  BY ErrorAssumption DEF Errors!Inf
<1> QED BY <1>1, ErrorAssumption DEF ErrorValues

LEMMA LiftedTiles ==
  ASSUME ErrorTypes, NEW b \in Boxes
  PROVE  /\ Errors!Lifted(b) \in [Errors!Tile -> ErrorValues]
         /\ \A t \in Errors!Tile : t \notin Errors!TilesOf(b) => Errors!Lifted(b)[t] = tileErrorBuffer[t]
         /\ \A t \in Errors!Tile : Errors!Active(t) => Errors!Lifted(b)[t] > Threshold
         /\ (\E t \in Errors!TilesOf(b) : Errors!Active(t)) =>
              \A t \in Errors!TilesOf(b) : Errors!Lifted(b)[t] > Threshold
<1> DEFINE higher(t) == Errors!Max({tileErrorBuffer[t], Threshold + 1})
<1>1. ASSUME NEW t \in Errors!Tile
      PROVE  /\ higher(t) \in ErrorValues /\ higher(t) > Threshold
             /\ tileErrorBuffer[t] \in ErrorValues
  <2>1. tileErrorBuffer[t] \in ErrorValues /\ tileErrorBuffer[t] \in Nat
    BY ErrorNumbers DEF ErrorTypes
  <2>2. \E x \in {tileErrorBuffer[t], Threshold + 1} : \A y \in {tileErrorBuffer[t], Threshold + 1} : x >= y
    BY <2>1, ErrorNumbers
  <2>3. /\ higher(t) \in {tileErrorBuffer[t], Threshold + 1}
        /\ \A y \in {tileErrorBuffer[t], Threshold + 1} : higher(t) >= y
    BY <2>2 DEF Errors!Max
  <2> HIDE DEF higher
  <2>4. higher(t) >= Threshold + 1 /\ higher(t) \in ErrorValues /\ higher(t) \in Nat
    BY <2>1, <2>3, ErrorNumbers
  <2> QED BY <2>1, <2>4, ErrorNumbers
<1>2. Errors!TilesOf(b) \subseteq Errors!Tile
  BY TilesOfBox
<1>3. CASE \E t \in Errors!TilesOf(b) : Errors!Active(t)
  <2>1. Errors!Lifted(b) =
          [t \in Errors!Tile |-> IF t \in Errors!TilesOf(b) THEN higher(t) ELSE tileErrorBuffer[t]]
    BY <1>3 DEF Errors!Lifted
  <2> HIDE DEF higher
  <2>2. Errors!Lifted(b) \in [Errors!Tile -> ErrorValues]
    BY <1>1, <2>1
  <2> QED BY <1>1, <1>2, <2>1, <2>2 DEF Errors!Active
<1>4. CASE ~\E t \in Errors!TilesOf(b) : Errors!Active(t)
  <2>1. Errors!Lifted(b) = tileErrorBuffer
    BY <1>4 DEF Errors!Lifted
  <2> QED BY <1>4, <2>1 DEF ErrorTypes, Errors!Active
<1> QED BY <1>3, <1>4

\* A region without a tile above the threshold has a low average.
LEMMA LowWhenDone ==
  ASSUME ErrorTypes, NEW b \in Boxes, \A t \in Errors!TilesOf(b) : ~Errors!Active(t)
  PROVE  Errors!LowAverage(b)
<1> DEFINE S == Errors!TilesOf(b)
           sum == CHOOSE f : f = [s \in SUBSET S |->
                    IF s = {} THEN 0
                    ELSE tileErrorBuffer[CHOOSE x \in s : TRUE] + f[s \ {CHOOSE x \in s : TRUE}]]
<1>1. \A t \in S : tileErrorBuffer[t] \in Nat /\ tileErrorBuffer[t] <= Threshold
  <2> SUFFICES ASSUME NEW t \in S
               PROVE  tileErrorBuffer[t] \in Nat /\ tileErrorBuffer[t] <= Threshold
    OBVIOUS
  <2>1. t \in Errors!Tile
    BY TilesOfBox
  <2>2. tileErrorBuffer[t] \in Nat /\ Threshold \in Nat
    BY <2>1, ErrorNumbers DEF ErrorTypes
  <2> QED BY <2>2 DEF Errors!Active
<1>2. IsFiniteSet(S) /\ Cardinality(S) = Errors!Area(b) /\ Errors!Area(b) \in Nat
  BY AreaOfBox
<1>3. sum[S] \in Nat /\ sum[S] <= Threshold * Cardinality(S)
  <2>1. Threshold \in Nat /\ IsFiniteSet(S)
    BY <1>2, ErrorNumbers
  <2> HIDE DEF S
  <2> QED BY <1>1, <2>1, SumBound
<1>4. Errors!MapThenSumSet(LAMBDA t : tileErrorBuffer[t], S) = sum[S]
  BY DEF Errors!MapThenSumSet, Errors!MapThenFoldSet
<1>5. sum[S] <= 4 * Threshold * Errors!Area(b)
  <2> HIDE DEF sum, S
  <2>1. \A m, n \in Nat : m * n \in Nat /\ 4 * m * n = 4 * (m * n)
    OBVIOUS
  <2> QED BY <1>2, <1>3, <2>1, ErrorNumbers
<1> QED BY <1>4, <1>5, Zenon DEF Errors!LowAverage

\* The list without entry k; r is the last of the old ones. Where an entry
\* of the new list comes from.
MovedFrom(s, k, r, j) == IF j = r THEN Len(s) ELSE IF j = k THEN r ELSE j

LEMMA RegionRemoved ==
  ASSUME NEW s \in Seq(Boxes), NEW r \in 1 .. Len(s), NEW k \in 1 .. r
  PROVE  /\ Errors!WithoutRegion(s, k, r) \in Seq(Boxes)
         /\ Len(Errors!WithoutRegion(s, k, r)) = Len(s) - 1
         /\ \A j \in 1 .. Len(s) - 1 :
              /\ Errors!WithoutRegion(s, k, r)[j] = s[MovedFrom(s, k, r, j)]
              /\ MovedFrom(s, k, r, j) \in 1 .. Len(s) /\ MovedFrom(s, k, r, j) # k
<1> DEFINE n == Len(s)
           moved == [s EXCEPT ![k] = s[r]]
           again == [moved EXCEPT ![r] = Errors!Last(moved)]
           w == Errors!WithoutRegion(s, k, r)
           from(j) == IF j = r THEN n ELSE IF j = k THEN r ELSE j
<1>1. /\ n \in Nat /\ n >= 1 /\ s \in [1 .. n -> Boxes] /\ r \in 1 .. n /\ k \in 1 .. n
      /\ k <= r /\ r <= n /\ n \in 1 .. n
  OBVIOUS
<1>2. /\ moved \in [1 .. n -> Boxes] /\ moved \in Seq(Boxes) /\ Len(moved) = n
      /\ \A j \in 1 .. n : moved[j] = IF j = k THEN s[r] ELSE s[j]
  BY <1>1
<1> HIDE DEF moved
<1>3. Errors!Last(moved) = moved[n] /\ moved[n] \in Boxes
  BY <1>1, <1>2 DEF Errors!Last
<1>4. /\ again \in [1 .. n -> Boxes] /\ again \in Seq(Boxes) /\ Len(again) = n
      /\ \A j \in 1 .. n : again[j] = IF j = r THEN moved[n] ELSE moved[j]
  BY <1>1, <1>2, <1>3
<1> HIDE DEF again
<1>5. w = SubSeq(again, 1, n - 1)
  BY <1>4 DEF Errors!WithoutRegion, Errors!Front, moved, again
<1>6. /\ w \in Seq(Boxes) /\ Len(w) = n - 1
      /\ \A j \in 1 .. n - 1 : w[j] = again[j]
  <2> HIDE DEF w
  <2> QED BY <1>1, <1>4, <1>5
<1> HIDE DEF w
<1>7. ASSUME NEW j \in 1 .. n - 1
      PROVE  w[j] = s[from(j)] /\ from(j) \in 1 .. n /\ from(j) # k
  <2>0. j \in 1 .. n /\ j <= n - 1 /\ j \in Int /\ k \in Int /\ r \in Int
    BY <1>1
  <2>1. CASE j = r
    <3> HIDE DEF n
    <3>0. r <= n - 1
      BY <2>0, <2>1
    <3>1. k <= n - 1 /\ n # k
      BY <1>1, <2>0, <3>0
    <3>2. w[j] = moved[n] /\ moved[n] = s[n]
      BY <1>1, <1>2, <1>4, <1>6, <2>0, <2>1, <3>1
    <3> QED BY <1>1, <2>1, <3>1, <3>2
  <2>2. CASE j # r
    BY <1>1, <1>2, <1>4, <1>6, <2>0, <2>2
  <2> QED BY <2>1, <2>2
<1> QED BY <1>6, <1>7 DEF w, MovedFrom

LEMMA ListedOnce ==
  ASSUME ErrorTypes, RegionsApart
  PROVE  /\ \A k, l \in 1 .. Len(errorRegion) : errorRegion[k] = errorRegion[l] => k = l
         /\ \A k \in 1 .. Len(errorRegion) : errorRegion[k] \in Boxes /\ errorRegion[k] \in RegionSet
         /\ RegionSet \subseteq Boxes /\ Apart(RegionSet)
         /\ Lists(errorRegion, RegionSet) /\ Len(errorRegion) \in Nat
<1>1. \A k \in 1 .. Len(errorRegion) : errorRegion[k] \in Boxes /\ errorRegion[k] \in RegionSet
  BY DEF ErrorTypes, RegionSet
<1>2. ASSUME NEW k \in 1 .. Len(errorRegion), NEW l \in 1 .. Len(errorRegion),
             errorRegion[k] = errorRegion[l], k # l
      PROVE  FALSE
  <2>1. errorRegion[k].lower \in Errors!TilesOf(errorRegion[k])
    BY <1>1, TilesOfBox
  <2> QED BY <1>2, <2>1 DEF RegionsApart
<1>3. RegionSet \subseteq Boxes
  BY <1>1 DEF RegionSet
<1>4. Apart(RegionSet)
  BY DEF Apart, RegionSet, RegionsApart
<1>5. Len(errorRegion) \in Nat /\ errorRegion \in Seq(RegionSet)
  <2>1. errorRegion \in [1 .. Len(errorRegion) -> RegionSet] /\ Len(errorRegion) \in Nat
    BY <1>1 DEF ErrorTypes
  <2> QED BY <2>1
<1>6. Lists(errorRegion, RegionSet)
  BY <1>2, <1>5 DEF Lists, RegionSet
<1> QED BY <1>1, <1>2, <1>3, <1>4, <1>5, <1>6

\* One region that covers the image, which is to be rendered: TileError::clear.
LEMMA ErrorCleared == Errors!Init => ErrorInv
<1> SUFFICES ASSUME Errors!Init PROVE ErrorInv
  OBVIOUS
<1>0. /\ tileErrorBuffer = [t \in Errors!Tile |-> Errors!Inf]
      /\ errorRegion = <<Errors!Box(0, 0, Width, Height)>>
      /\ i = 1 /\ regions = 0 /\ refining = FALSE /\ converged = {}
  BY DEF Errors!Init
<1> DEFINE b == Errors!Box(0, 0, Width, Height)
<1>1. Width \in Nat \ {0} /\ Height \in Nat \ {0}
  BY SizeAssumption
<1>2. b \in Boxes /\ Errors!Area(b) = Width * Height
  <2>1. /\ b = [lower |-> <<0, 0>>, upper |-> <<Width, Height>>]
        /\ b.lower[1] = 0 /\ b.lower[2] = 0 /\ b.upper[1] = Width /\ b.upper[2] = Height
    BY DEF Errors!Box
  <2> HIDE DEF b
  <2>2. b \in Boxes
    BY <1>1, <2>1 DEF Boxes
  <2>3. Errors!Extent(b, 1) = Width /\ Errors!Extent(b, 2) = Height
    BY <1>1, <2>1 DEF Errors!Extent
  <2> QED BY <2>2, <2>3 DEF Errors!Area
<1> HIDE DEF b
<1>3. errorRegion = <<b>> /\ errorRegion \in Seq(Boxes) /\ Len(errorRegion) = 1 /\ errorRegion[1] = b
  BY <1>0, <1>2 DEF b
<1>4. ErrorTypes
  <2>1. tileErrorBuffer \in [Errors!Tile -> ErrorValues]
    BY <1>0, ErrorNumbers
  <2>2. refining \in BOOLEAN
    BY <1>0, Zenon
  <2>3. 0 \in 0 .. 1 /\ 1 \in 1 .. 0 + 1
    OBVIOUS
  <2> QED BY <1>0, <1>3, <2>1, <2>2, <2>3 DEF ErrorTypes
<1>5. RegionsApart
  BY <1>3 DEF RegionsApart
<1>6. GroupsActive
  <2>1. \A t \in Errors!TilesOf(b) : t \in Errors!Tile
    BY <1>2, TilesOfBox
  <2> QED BY <1>0, <1>3, <2>1, ErrorNumbers DEF GroupsActive, Errors!Active
<1>7. ConvergedOut
  BY <1>0 DEF ConvergedOut
<1>8. RegionsSpared
  <2> SUFFICES ASSUME Width * Height > 1 PROVE Spared(RegionSet)
    BY DEF RegionsSpared
  <2>1. RegionSet = {b}
    BY <1>3 DEF RegionSet
  <2>2. Width * Height # 1
    <3>1. \A n \in Int : n > 1 => n # 1
      OBVIOUS
    <3>2. Width * Height \in Int
      BY <1>1
    <3> QED BY <3>1, <3>2
  <2>3. Singles(RegionSet) = {}
    BY <2>1, <2>2, <1>2 DEF Singles
  <2> DEFINE none == [c \in {} |-> c]
  <2>4. IsSpare(RegionSet, none)
    BY <2>3 DEF IsSpare
  <2> QED BY <2>4 DEF Spared
<1> QED BY <1>4, <1>5, <1>6, <1>7, <1>8 DEF ErrorInv

\* A frame changes only what is above the threshold.
LEMMA ErrorRendered == ASSUME ErrorInv, Errors!RenderFrame PROVE ErrorInv'
<1>1. /\ ~refining /\ refining' = TRUE /\ i' = 1 /\ regions' = Len(errorRegion)
      /\ errorRegion' = errorRegion /\ converged' = converged
  BY DEF Errors!RenderFrame
<1>2. /\ tileErrorBuffer' \in [Errors!Tile -> ErrorValues]
      /\ \A t \in Errors!Tile : ~Errors!Active(t) => tileErrorBuffer'[t] = tileErrorBuffer[t]
  <2>1. tileErrorBuffer \in [Errors!Tile -> ErrorValues] /\ Error \subseteq ErrorValues
    BY ErrorNumbers DEF ErrorInv, ErrorTypes
  <2>2. CASE tileErrorBuffer' = tileErrorBuffer
    BY <2>1, <2>2
  <2>3. CASE \E new \in [{t \in Errors!Tile : Errors!Active(t)} -> Error] :
               tileErrorBuffer' = [t \in Errors!Tile |->
                                     IF Errors!Active(t) THEN new[t] ELSE tileErrorBuffer[t]]
    BY <2>1, <2>3
  <2> QED BY <2>2, <2>3 DEF Errors!RenderFrame
<1>3. ErrorTypes'
  <2>1. Len(errorRegion) \in Nat
    BY DEF ErrorInv, ErrorTypes
  <2> QED BY <1>1, <1>2, <2>1 DEF ErrorInv, ErrorTypes
<1>4. RegionsApart' /\ RegionsSpared'
  BY <1>1 DEF ErrorInv, RegionsApart, RegionsSpared, RegionSet
<1>5. GroupsActive'
  <2>1. \A k \in 1 .. Len(errorRegion) : ~(k < 1) /\ ~(k > Len(errorRegion))
    OBVIOUS
  <2> QED BY <1>1, <2>1 DEF GroupsActive, LookedAt
<1>6. ConvergedOut'
  BY <1>1, <1>2 DEF ErrorInv, ConvergedOut, Errors!Active
<1> QED BY <1>3, <1>4, <1>5, <1>6 DEF ErrorInv

\* What the steps of RefineRegion have in common.
LEMMA RegionLifted ==
  ASSUME ErrorInv, i <= regions, NEW b, b = errorRegion[i], tileErrorBuffer' = Errors!Lifted(b)
  PROVE  /\ i \in 1 .. Len(errorRegion) /\ b \in Boxes /\ b \in RegionSet
         /\ tileErrorBuffer' \in [Errors!Tile -> ErrorValues]
         /\ \A t \in Errors!Tile : Errors!Active(t) => Errors!Active(t)'
         /\ (\E t \in Errors!TilesOf(b) : Errors!Active(t)) =>
              \A t \in Errors!TilesOf(b) : Errors!Active(t)'
         /\ \A t \in converged : t \in Errors!Tile /\ ~Errors!Active(t)'
<1>1. i \in 1 .. Len(errorRegion) /\ b \in Boxes /\ b \in RegionSet /\ ErrorTypes
  BY ListedOnce DEF ErrorInv, ErrorTypes
<1>2. \A t \in converged : /\ t \in Errors!Tile /\ ~Errors!Active(t) /\ t \notin Errors!TilesOf(b)
  BY <1>1 DEF ErrorInv, ConvergedOut
<1> QED BY <1>1, <1>2, LiftedTiles DEF Errors!Active

LEMMA RegionDropped ==
  ASSUME ErrorInv, refining, i <= regions, NEW b, b = errorRegion[i],
         tileErrorBuffer' = Errors!Lifted(b),
         errorRegion' = Errors!WithoutRegion(errorRegion, i, regions),
         regions' = regions - 1, UNCHANGED <<i, refining, converged>>
  PROVE  ErrorInv'
<1> DEFINE n == Len(errorRegion)
           w == errorRegion'
           from(j) == MovedFrom(errorRegion, i, regions, j)
<1>1. /\ n \in Nat /\ regions \in 1 .. n /\ i \in 1 .. regions /\ errorRegion \in Seq(Boxes)
      /\ ErrorTypes /\ RegionsApart
  BY DEF ErrorInv, ErrorTypes
<1>2. /\ w \in Seq(Boxes) /\ Len(w) = n - 1
      /\ \A j \in 1 .. n - 1 :
           w[j] = errorRegion[from(j)] /\ from(j) \in 1 .. n /\ from(j) # i
  <2>1. w = Errors!WithoutRegion(errorRegion, i, regions)
    OBVIOUS
  <2> HIDE DEF w
  <2> QED BY <1>1, <2>1, RegionRemoved
<1>3. \A j, k \in 1 .. n - 1 : j # k => from(j) # from(k)
  BY <1>1 DEF MovedFrom
<1>4. /\ \A t \in Errors!Tile : Errors!Active(t) => Errors!Active(t)'
      /\ \A t \in converged : t \in Errors!Tile /\ ~Errors!Active(t)'
      /\ tileErrorBuffer' \in [Errors!Tile -> ErrorValues]
  BY RegionLifted
<1>5. ErrorTypes'
  BY <1>1, <1>2, <1>4 DEF ErrorTypes
<1>6. \A j \in 1 .. n - 1 : LookedAt(j)' => LookedAt(from(j))
  BY <1>1 DEF LookedAt, MovedFrom
<1> HIDE DEF from
<1>7. RegionsApart'
  <2> SUFFICES ASSUME NEW j \in 1 .. n - 1, NEW k \in 1 .. n - 1, j # k
               PROVE  Errors!TilesOf(w[j]) \cap Errors!TilesOf(w[k]) = {}
    BY <1>2 DEF RegionsApart
  <2>1. from(j) # from(k) /\ from(j) \in 1 .. n /\ from(k) \in 1 .. n
    BY <1>2, <1>3
  <2>2. Errors!TilesOf(errorRegion[from(j)]) \cap Errors!TilesOf(errorRegion[from(k)]) = {}
    BY <1>1, <2>1 DEF RegionsApart
  <2> QED BY <1>2, <2>2
<1>8. GroupsActive'
  <2> SUFFICES ASSUME NEW j \in 1 .. n - 1, LookedAt(j)', NEW t \in Errors!TilesOf(w[j])
               PROVE  Errors!Active(t)'
    BY <1>2 DEF GroupsActive
  <2>1. LookedAt(from(j)) /\ w[j] = errorRegion[from(j)] /\ from(j) \in 1 .. n
    BY <1>2, <1>6
  <2>2. Errors!Active(t)
    BY <2>1 DEF ErrorInv, GroupsActive
  <2>3. t \in Errors!Tile
    BY <2>1, <1>1, TilesOfBox
  <2> QED BY <2>2, <2>3, <1>4
<1>9. ConvergedOut'
  <2>1. \A t \in converged : \A j \in 1 .. n - 1 : t \notin Errors!TilesOf(w[j])
    BY <1>2 DEF ErrorInv, ConvergedOut
  <2> QED BY <1>2, <1>4, <2>1 DEF ConvergedOut
<1>10. RegionsSpared'
  <2>1. RegionSet' \subseteq RegionSet
    BY <1>2 DEF RegionSet
  <2>2. RegionsSpared
    BY DEF ErrorInv
  <2>3. PICK Q : Q = RegionSet'
    OBVIOUS
  <2>4. Width * Height > 1 => Spared(Q)
    BY <2>1, <2>2, <2>3, SparedLess DEF RegionsSpared
  <2> QED BY <2>3, <2>4 DEF RegionsSpared
<1> QED BY <1>5, <1>7, <1>8, <1>9, <1>10 DEF ErrorInv

LEMMA RegionSplit ==
  ASSUME ErrorInv, refining, i <= regions, NEW b, b = errorRegion[i],
         ~Errors!Finished(b), tileErrorBuffer' = Errors!Lifted(b),
         errorRegion' = Append([errorRegion EXCEPT ![i] = Errors!FirstHalf(b)], Errors!SecondHalf(b)),
         i' = i + 1, UNCHANGED <<regions, refining, converged>>
  PROVE  ErrorInv'
<1> DEFINE n == Len(errorRegion)
           w == errorRegion'
           f == Errors!FirstHalf(b)
           s == Errors!SecondHalf(b)
           T(c) == Errors!TilesOf(c)
<1>1. /\ n \in Nat /\ regions \in 1 .. n /\ i \in 1 .. regions /\ i \in 1 .. n
      /\ errorRegion \in Seq(Boxes) /\ ErrorTypes /\ RegionsApart /\ b \in Boxes /\ b \in RegionSet
  BY RegionLifted DEF ErrorInv, ErrorTypes
<1>2. /\ Errors!Area(b) > 2 /\ \E t \in T(b) : Errors!Active(t)
  BY <1>1, AreaOfBox DEF Errors!Finished
<1>3. /\ f \in Boxes /\ s \in Boxes /\ T(f) \subseteq T(b) /\ T(s) \subseteq T(b)
      /\ T(f) \cap T(s) = {}
  BY <1>1, <1>2, Halves
<1> HIDE DEF f, s
<1>4. /\ w \in Seq(Boxes) /\ Len(w) = n + 1 /\ w[i] = f /\ w[n + 1] = s
      /\ \A j \in 1 .. n : j # i => w[j] = errorRegion[j]
      /\ \A j \in 1 .. n + 1 : j \in 1 .. n \/ j = n + 1
  <2> DEFINE u == [errorRegion EXCEPT ![i] = f]
  <2>1. /\ u \in Seq(Boxes) /\ Len(u) = n /\ u[i] = f
        /\ \A j \in 1 .. n : j # i => u[j] = errorRegion[j]
    BY <1>1, <1>3
  <2>2. w = Append(u, s)
    BY DEF f, s
  <2> HIDE DEF u, w
  <2> QED BY <1>1, <1>3, <2>1, <2>2
<1>5. /\ \A t \in Errors!Tile : Errors!Active(t) => Errors!Active(t)'
      /\ \A t \in converged : t \in Errors!Tile /\ ~Errors!Active(t)'
      /\ tileErrorBuffer' \in [Errors!Tile -> ErrorValues]
      /\ \A t \in T(b) : Errors!Active(t)'
  BY <1>2, RegionLifted
<1>6. \A j \in 1 .. n : j # i => T(errorRegion[j]) \cap T(b) = {}
  BY <1>1 DEF RegionsApart
<1> HIDE DEF w
<1>7. ErrorTypes'
  BY <1>1, <1>4, <1>5 DEF ErrorTypes, w
<1>8. RegionsApart'
  <2> SUFFICES ASSUME NEW j \in 1 .. n + 1, NEW k \in 1 .. n + 1, j # k
               PROVE  T(w[j]) \cap T(w[k]) = {}
    BY <1>4 DEF RegionsApart, w
  <2>1. \A l \in 1 .. n + 1 :
          \/ w[l] = f /\ l = i
          \/ w[l] = s /\ l = n + 1
          \/ l \in 1 .. n /\ l # i /\ w[l] = errorRegion[l]
    BY <1>4
  <2>2. \A l \in 1 .. n : l # i => /\ T(errorRegion[l]) \cap T(f) = {}
                                   /\ T(errorRegion[l]) \cap T(s) = {}
    BY <1>3, <1>6
  <2>3. \A l, m \in 1 .. n : l # m => T(errorRegion[l]) \cap T(errorRegion[m]) = {}
    BY <1>1 DEF RegionsApart
  <2> HIDE DEF T
  <2> QED BY <1>3, <2>1, <2>2, <2>3
<1>9. GroupsActive'
  <2> SUFFICES ASSUME NEW j \in 1 .. n + 1, LookedAt(j)', NEW t \in T(w[j])
               PROVE  Errors!Active(t)'
    BY <1>4 DEF GroupsActive, w
  <2>1. CASE j = i \/ j = n + 1
    BY <1>3, <1>4, <1>5, <2>1
  <2>2. CASE j # i /\ j # n + 1
    <3>1. j \in 1 .. n /\ w[j] = errorRegion[j] /\ LookedAt(j)
      BY <1>1, <1>4, <2>2 DEF LookedAt
    <3>2. Errors!Active(t)
      BY <3>1 DEF ErrorInv, GroupsActive
    <3>3. t \in Errors!Tile
      BY <3>1, <1>1, TilesOfBox
    <3> QED BY <3>2, <3>3, <1>5
  <2> QED BY <2>1, <2>2
<1>10. ConvergedOut'
  <2>1. \A t \in converged : t \notin T(b)
    BY <1>1 DEF ErrorInv, ConvergedOut
  <2>2. \A t \in converged : \A j \in 1 .. n + 1 : t \notin T(w[j])
    BY <1>3, <1>4, <2>1 DEF ErrorInv, ConvergedOut
  <2> QED BY <1>4, <1>5, <2>2 DEF ConvergedOut, w
<1>11. RegionsSpared'
  <2> DEFINE Q == (RegionSet \ {b}) \cup {f, s}
  <2>1. RegionSet' \subseteq Q
    <3>1. \A j \in 1 .. n : j # i => errorRegion[j] # b /\ errorRegion[j] \in RegionSet
      BY <1>1, ListedOnce
    <3>2. \A j \in 1 .. n + 1 : w[j] \in Q
      BY <1>4, <3>1
    <3>3. RegionSet' = {w[j] : j \in 1 .. n + 1}
      BY <1>4 DEF RegionSet, w
    <3> HIDE DEF Q
    <3> QED BY <3>2, <3>3
  <2>2. Width * Height > 1 => Spared(Q)
    <3>1. RegionSet \subseteq Boxes /\ Apart(RegionSet)
      BY <1>1, ListedOnce
    <3>2. RegionsSpared
      BY DEF ErrorInv
    <3> QED BY <1>1, <1>2, <3>1, <3>2, SparedSplit DEF RegionsSpared, f, s
  <2>3. PICK P : P = RegionSet'
    OBVIOUS
  <2> HIDE DEF Q
  <2>4. Width * Height > 1 => Spared(P)
    BY <2>1, <2>2, <2>3, SparedLess
  <2> QED BY <2>3, <2>4 DEF RegionsSpared
<1> QED BY <1>7, <1>8, <1>9, <1>10, <1>11 DEF ErrorInv

LEMMA RegionKept ==
  ASSUME ErrorInv, refining, i <= regions, NEW b, b = errorRegion[i],
         ~Errors!LowAverage(b), tileErrorBuffer' = Errors!Lifted(b),
         i' = i + 1, UNCHANGED <<errorRegion, regions, refining, converged>>
  PROVE  ErrorInv'
<1>1. /\ regions \in 1 .. Len(errorRegion) /\ i \in 1 .. regions /\ i \in 1 .. Len(errorRegion)
      /\ errorRegion \in Seq(Boxes) /\ ErrorTypes /\ b \in Boxes
  BY RegionLifted DEF ErrorInv, ErrorTypes
<1>2. \E t \in Errors!TilesOf(b) : Errors!Active(t)
  BY <1>1, LowWhenDone
<1>3. /\ \A t \in Errors!Tile : Errors!Active(t) => Errors!Active(t)'
      /\ \A t \in converged : t \in Errors!Tile /\ ~Errors!Active(t)'
      /\ tileErrorBuffer' \in [Errors!Tile -> ErrorValues]
      /\ \A t \in Errors!TilesOf(b) : Errors!Active(t)'
  BY <1>2, RegionLifted
<1>4. ErrorTypes'
  BY <1>1, <1>3 DEF ErrorTypes
<1>5. RegionsApart' /\ RegionsSpared'
  BY DEF ErrorInv, RegionsApart, RegionsSpared, RegionSet
<1>6. ConvergedOut'
  BY <1>3 DEF ErrorInv, ConvergedOut
<1>7. GroupsActive'
  <2> SUFFICES ASSUME NEW j \in 1 .. Len(errorRegion), LookedAt(j)',
                      NEW t \in Errors!TilesOf(errorRegion[j])
               PROVE  Errors!Active(t)'
    BY DEF GroupsActive
  <2>1. CASE j = i
    BY <1>3, <2>1
  <2>2. CASE j # i
    <3>1. LookedAt(j)
      BY <1>1, <2>2 DEF LookedAt
    <3>2. Errors!Active(t)
      BY <3>1 DEF ErrorInv, GroupsActive
    <3>3. t \in Errors!Tile
      BY <1>1, TilesOfBox
    <3> QED BY <3>2, <3>3, <1>3
  <2> QED BY <2>1, <2>2
<1> QED BY <1>4, <1>5, <1>6, <1>7 DEF ErrorInv

LEMMA RefineEnded == ASSUME ErrorInv, Errors!EndRefine PROVE ErrorInv'
<1>1. /\ i > regions /\ refining' = FALSE /\ i' = 1 /\ regions' = 0
      /\ converged' = {t \in Errors!Tile : ~Errors!Active(t)}
      /\ tileErrorBuffer' = tileErrorBuffer /\ errorRegion' = errorRegion
  BY DEF Errors!EndRefine
<1>2. \A k \in 1 .. Len(errorRegion) : LookedAt(k)
  BY <1>1 DEF ErrorInv, ErrorTypes, LookedAt
<1>3. \A k \in 1 .. Len(errorRegion) : \A t \in Errors!TilesOf(errorRegion[k]) : Errors!Active(t)
  BY <1>2 DEF ErrorInv, GroupsActive
<1>4. ErrorTypes'
  <2>1. Len(errorRegion) \in Nat /\ 0 \in 0 .. Len(errorRegion) /\ 1 \in 1 .. 0 + 1
    BY DEF ErrorInv, ErrorTypes
  <2> QED BY <1>1, <2>1 DEF ErrorInv, ErrorTypes
<1>5. RegionsApart' /\ RegionsSpared'
  BY <1>1 DEF ErrorInv, RegionsApart, RegionsSpared, RegionSet
<1>6. GroupsActive'
  BY <1>1, <1>3 DEF GroupsActive, Errors!Active
<1>7. ConvergedOut'
  BY <1>1, <1>3 DEF ConvergedOut, Errors!Active
<1> QED BY <1>4, <1>5, <1>6, <1>7 DEF ErrorInv

LEMMA ErrorKept == ASSUME ErrorInv, Errors!Next PROVE ErrorInv'
<1>1. CASE Errors!RenderFrame
  BY <1>1, ErrorRendered
<1>2. CASE Errors!RefineRegion
  <2>1. PICK b : b = errorRegion[i]
    OBVIOUS
  <2>2. /\ refining /\ i <= regions /\ tileErrorBuffer' = Errors!Lifted(b)
        /\ UNCHANGED <<refining, converged>>
        /\ \/ /\ errorRegion' = Errors!WithoutRegion(errorRegion, i, regions)
              /\ regions' = regions - 1 /\ UNCHANGED i
           \/ /\ ~Errors!Finished(b)
              /\ errorRegion' = Append([errorRegion EXCEPT ![i] = Errors!FirstHalf(b)],
                                       Errors!SecondHalf(b))
              /\ i' = i + 1 /\ UNCHANGED regions
           \/ ~Errors!LowAverage(b) /\ i' = i + 1 /\ UNCHANGED <<errorRegion, regions>>
    BY <1>2, <2>1 DEF Errors!RefineRegion
  <2> QED BY <2>1, <2>2, RegionDropped, RegionSplit, RegionKept
<1>3. CASE Errors!EndRefine
  BY <1>3, RefineEnded
<1>4. CASE Errors!Clear
  <2>1. /\ tileErrorBuffer' = [t \in Errors!Tile |-> Errors!Inf]
        /\ errorRegion' = <<Errors!Box(0, 0, Width, Height)>>
        /\ i' = 1 /\ regions' = 0 /\ refining' = FALSE /\ converged' = {}
    BY <1>4 DEF Errors!Clear, ErrorInv, ErrorTypes
  <2>2. Errors!Init'
    BY <2>1 DEF Errors!Init, Errors!Tile, Errors!Inf, Errors!Box
  <2>3. (Errors!Init => ErrorInv)'
    BY ErrorCleared, PTL
  <2> QED BY <2>2, <2>3
<1> QED BY <1>1, <1>2, <1>3, <1>4 DEF Errors!Next

(* What the invariants say of the state.                                   *)

LEMMA ComposingTyped ==
  ASSUME composed \in 0 .. MaxBlends,
         NEW n \in 0 .. Cardinality(Region), NEW W \in SUBSET Regions, Composing(n, W),
         errors = FALSE, missingInCurrentGeneration \in 0 .. Cardinality(Region) + 1
  PROVE  Blend!TypeOK
<1> DEFINE N == Cardinality(Region)
<1>1. N \in Nat /\ Blend!Cardinality(Region) = N
  BY RegionsFinite, SameCardinality
<1>2. 0 \in 0 .. N /\ n \in 0 .. N
  BY <1>1
<1>3. parts \subseteq Blend!Part
  <2>1. N + 1 \in 1 .. N + 1 /\ \A o \in W : o \in 1 .. N + 1
    BY <1>1 DEF Regions
  <2>2. Announcing(n) \in Blend!Part
    BY <1>1, <1>2, <2>1 DEF Announcing, Blend!Background, Blend!Farthest, Blend!Part
  <2>3. \A o \in W : Blend!RegionPart(o) \in Blend!Part
    BY <1>1, <1>2, <2>1 DEF Blend!RegionPart, Blend!Farthest, Blend!Part
  <2> QED BY <2>2, <2>3 DEF PartsFor, Composing
<1>4. coming \subseteq parts /\ expectedInNextGeneration = 0 /\ currentGeneration \in {0, 1}
  BY DEF Composing
<1>5. bufferedTile \in Seq(Blend!Part)
  <2>1. CASE blended # <<>>
    BY <2>1 DEF Composing
  <2>2. CASE blended = <<>>
    <3>1. bufferedTile \in Seq(parts \ coming)
      BY <2>2 DEF Composing, Lists
    <3>2. bufferedTile \in [1 .. Len(bufferedTile) -> Blend!Part] /\ Len(bufferedTile) \in Nat
      BY <3>1, <1>3
    <3> QED BY <3>2
  <2> QED BY <2>1, <2>2
<1> QED BY <1>1, <1>2, <1>3, <1>4, <1>5 DEF Blend!TypeOK

LEMMA BlendTyped == ASSUME BlendInv PROVE Blend!TypeOK
<1> DEFINE N == Cardinality(Region)
<1>1. N \in Nat /\ MaxBlends \in Nat /\ Blend!Cardinality(Region) = N
  BY RegionAssumption, RegionsFinite, SameCardinality
<1>2. 0 \in 0 .. N /\ 0 \in 0 .. N + 1 /\ 1 \in 0 .. N + 1
  BY <1>1
<1>3. CASE composed = 0
  <2>1. bufferedTile \in Seq(Blend!Part)
    BY <1>3 DEF BlendInv
  <2> QED BY <1>1, <1>2, <1>3, <2>1 DEF BlendInv, Blend!TypeOK
<1>4. CASE composed > 0
  <2>1. PICK V \in SUBSET Regions : Composing(Cardinality(V), V)
    BY <1>4 DEF BlendInv
  <2>2. IsFiniteSet(V) /\ Cardinality(V) \in 0 .. N
    BY RegionsFinite
  <2>3. errors = FALSE
    BY BlendAgreed
  <2>4. missingInCurrentGeneration \in 0 .. N + 1
    <3>1. IsFiniteSet(parts) /\ Cardinality(parts) = Cardinality(V) + 1 /\ coming \in SUBSET parts
      BY <2>1, <2>2, PartsCounted DEF Composing
    <3>2. Cardinality(coming) \in 0 .. Cardinality(parts)
      BY <3>1, Sized
    <3>3. Cardinality(coming) \in 0 .. N + 1
      BY <1>1, <2>2, <3>1, <3>2
    <3>4. Cardinality(V) - Cardinality(V) + Cardinality(coming) = Cardinality(coming)
      BY <2>2, <3>3
    <3> QED BY <1>2, <2>1, <3>3, <3>4 DEF Composing
  <2>5. composed \in 0 .. MaxBlends
    BY DEF BlendInv
  <2> QED BY <2>1, <2>2, <2>3, <2>4, <2>5, ComposingTyped
<1>5. composed = 0 \/ composed > 0
  BY <1>1 DEF BlendInv
<1> QED BY <1>3, <1>4, <1>5

LEMMA RegionsTyped == ASSUME ErrorInv PROVE Errors!TypeOK
<1>1. /\ ErrorTypes /\ DOMAIN errorRegion = 1 .. Len(errorRegion) /\ Len(errorRegion) \in Nat
      /\ \A k \in 1 .. Len(errorRegion) : errorRegion[k] \in Boxes
  BY DEF ErrorInv, ErrorTypes
<1>2. i \in 1 .. Len(errorRegion) + 1
  BY <1>1 DEF ErrorTypes
<1>3. \A k \in 1 .. Len(errorRegion) : Errors!TilesOf(errorRegion[k]) # {}
  BY <1>1, TilesOfBox
<1>4. tileErrorBuffer \in [Errors!Tile -> Error \cup {Errors!Inf, Threshold + 1}]
  BY <1>1 DEF ErrorTypes, ErrorValues
<1> QED BY <1>1, <1>2, <1>3, <1>4 DEF Errors!TypeOK, ErrorTypes

LEMMA RegionsStayApart == ASSUME ErrorInv PROVE Errors!RegionsDisjoint
<1>1. DOMAIN errorRegion = 1 .. Len(errorRegion)
  BY DEF ErrorInv, ErrorTypes
<1> QED BY <1>1 DEF ErrorInv, RegionsApart, Errors!RegionsDisjoint

\* Two regions for three tiles, and an image of one tile has one region.
LEMMA RegionsStayFew == ASSUME ErrorInv PROVE Errors!RegionsFit
<1>1. /\ RegionSet \subseteq Boxes /\ Apart(RegionSet) /\ Lists(errorRegion, RegionSet)
      /\ Len(errorRegion) \in Nat
      /\ \A k \in 1 .. Len(errorRegion) : errorRegion[k] \in Boxes
  BY ListedOnce DEF ErrorInv
<1>2. Len(errorRegion) = Cardinality(RegionSet)
  BY <1>1, LengthOfList
<1>3. Width \in Nat \ {0} /\ Height \in Nat \ {0} /\ Width * Height \in Nat
  BY SizeAssumption
<1>4. 2 * Width * Height = 2 * (Width * Height)
  BY <1>3
<1>5. CASE Width * Height > 1
  <2>1. 3 * Cardinality(RegionSet) <= 2 * Width * Height
    BY <1>1, <1>5, RegionsCounted DEF ErrorInv, RegionsSpared
  <2> QED BY <1>1, <1>2, <1>3, <1>4, <2>1 DEF Errors!RegionsFit
<1>6. CASE ~(Width * Height > 1)
  <2>1. Width = 1 /\ Height = 1
    <3>1. \A m, n \in Nat \ {0} : m > 1 => m * n > 1
      <4> SUFFICES ASSUME NEW m \in Nat \ {0}, NEW n \in Nat \ {0}, m > 1 PROVE m * n > 1
        OBVIOUS
      <4>1. PICK d \in Nat : n = 1 + d
        BY n - 1 \in Nat, n = 1 + (n - 1)
      <4>2. m * n = m + m * d /\ m * d \in Nat
        BY <4>1
      <4> QED BY <4>2
    <3>2. ~(Width > 1)
      BY <1>3, <1>6, <3>1
    <3>3. Width * Height = Height * Width
      BY <1>3
    <3>4. ~(Height > 1)
      BY <1>3, <1>6, <3>1, <3>3
    <3> QED BY <1>3, <3>2, <3>4
  <2>2. Errors!Tile = {<<0, 0>>}
    BY <2>1 DEF Errors!Tile
  <2>3. ASSUME NEW k \in 1 .. Len(errorRegion), NEW l \in 1 .. Len(errorRegion) PROVE k = l
    <3>1. \A b \in Boxes : <<0, 0>> \in Errors!TilesOf(b)
      BY <2>2, TilesOfBox
    <3> QED BY <1>1, <3>1 DEF ErrorInv, RegionsApart
  <2>4. ~(Len(errorRegion) > 1)
    <3>1. SUFFICES ASSUME Len(errorRegion) > 1 PROVE FALSE
      OBVIOUS
    <3>2. 1 \in 1 .. Len(errorRegion) /\ 2 \in 1 .. Len(errorRegion)
      BY <1>1, <3>1
    <3>3. 1 = 2
      BY <2>3, <3>2
    <3> QED BY <3>3
  <2> QED BY <1>1, <2>1, <2>4 DEF Errors!RegionsFit
<1> QED BY <1>3, <1>5, <1>6

LEMMA RegionsRefined == ASSUME ErrorInv PROVE Errors!RefinedAsGroup /\ Errors!ConvergedStays
<1>1. /\ DOMAIN errorRegion = 1 .. Len(errorRegion) /\ Len(errorRegion) \in Nat
      /\ ~refining => i = 1 /\ regions = 0
  BY DEF ErrorInv, ErrorTypes
<1>2. ~refining => \A k \in 1 .. Len(errorRegion) : LookedAt(k)
  BY <1>1 DEF LookedAt
<1> QED BY <1>1, <1>2 DEF ErrorInv, GroupsActive, ConvergedOut, Errors!RefinedAsGroup,
           Errors!ConvergedStays

(* The tile that the ranks of a data-distributed frame render to.          *)

\* Both modules mean the same tile.
LEMMA SameTile ==
  /\ Compose!Init <=> Blend!Init
  /\ Compose!ResetTile <=> Blend!ResetTile
  /\ \A p : Compose!Process(p) <=> Blend!Process(p)
  /\ Compose!CompletesWithLast <=> Blend!CompletesWithLast
  /\ Compose!BlendsAllInOrder <=> Blend!BlendsAllInOrder
  /\ Compose!TypeOK <=> Blend!TypeOK
  /\ \A n : Compose!Background(n) = Announcing(n)
  /\ \A o : Compose!RegionPart(o) = Blend!RegionPart(o)
  /\ \A S : Compose!Cardinality(S) = Cardinality(S)
<1>1. Compose!Init <=> Blend!Init
  BY DEF Compose!Init, Blend!Init
<1>2. Compose!ResetTile <=> Blend!ResetTile
  BY DEF Compose!ResetTile, Blend!ResetTile
<1>3. \A S : Compose!Cardinality(S) = Cardinality(S)
  BY DEF Compose!Cardinality, Cardinality
<1>4. \A n : Compose!Background(n) = Announcing(n)
  BY <1>3, SameCardinality DEF Compose!Background, Announcing, Blend!Background, Compose!Farthest, Blend!Farthest
<1>5. \A o : Compose!RegionPart(o) = Blend!RegionPart(o)
  BY DEF Compose!RegionPart, Blend!RegionPart
<1>6. Compose!CompletesWithLast <=> Blend!CompletesWithLast
  BY DEF Compose!CompletesWithLast, Blend!CompletesWithLast
<1>7. Compose!BlendsAllInOrder <=> Blend!BlendsAllInOrder
  BY <1>3, SameCardinality DEF Compose!BlendsAllInOrder, Blend!BlendsAllInOrder, Compose!ToSet, Blend!ToSet
<1>8. Compose!TypeOK <=> Blend!TypeOK
  BY <1>3, SameCardinality DEF Compose!TypeOK, Blend!TypeOK, Compose!Part, Blend!Part, Compose!Farthest, Blend!Farthest
<1>9. ASSUME NEW p PROVE Compose!Process(p) <=> Blend!Process(p)
  BY <1>3, SameCardinality DEF Compose!Process, Blend!Process, Compose!Advance, Blend!Advance, Compose!CountOf,
     Blend!CountOf, Compose!ChildrenOf, Blend!ChildrenOf, Compose!InGeneration, Blend!InGeneration,
     Compose!BackToFront, Blend!BackToFront, Compose!Sorted, Blend!Sorted, Compose!IsInjective, Blend!IsInjective,
     Compose!AfterBlending, Blend!AfterBlending, Cardinality, Compose!Cardinality, Blend!Cardinality
<1> QED BY <1>1, <1>2, <1>3, <1>4, <1>5, <1>6, <1>7, <1>8, <1>9

Scene == 0 .. NumRegions - 1

SceneTypes ==
  /\ tileIndex \in Nat
  /\ rankRegions \in [Compose!Rank -> SUBSET Scene]
  /\ regionOwners \in [Scene -> SUBSET Compose!Rank]
  /\ \A r \in Compose!Rank : \A g \in rankRegions[r] : r \in regionOwners[g]
  /\ projected \subseteq Compose!AllRegions(rankRegions)
  /\ rankAccumID \in [Compose!Rank -> Nat]

\* Until the view is changed without a clear, a rank has rendered the tile in
\* all the frames or in none.
InStep ==
  ~uncleared => \E n \in Nat : \A r \in Compose!Rank :
    rankAccumID[r] = IF Compose!RendersTile(r) THEN n ELSE 0

OwnersHave == \A g \in projected : ~Compose!StaleOwner(g)

\* As many parts come as are announced, unless the frame is of a view for
\* which the owners of a region are not those that have it, or the ranks
\* do not count alike.
Announced ==
  \E n \in 0 .. Cardinality(Region), W \in SUBSET Regions :
    /\ Composing(n, W)
    /\ Compose!Rendering /\ ~uncleared /\ OwnersHave => n = Cardinality(W)

RegionsInv ==
  /\ SceneTypes /\ InStep
  /\ composed \in 0 .. MaxBlends
  /\ composed = 0 =>
       /\ parts = {} /\ coming = {} /\ bufferedTile = <<>> /\ blended = <<>>
       /\ currentGeneration = 0 /\ expectedInNextGeneration = 0
       /\ missingInCurrentGeneration = 0 /\ errors = FALSE
  /\ composed > 0 => Announced

\* Of the owners of a region one has the place that a tile asks for.
LEMMA OneInCharge ==
  ASSUME NEW O \in SUBSET Compose!Rank, O # {}, NEW k \in Nat
  PROVE  \E r \in O : k % Cardinality(O) = Cardinality({s \in O : s < r})
<1> DEFINE m == Cardinality(O)
           D == 0 .. m - 1
           before(r) == {s \in O : s < r}
           place == [r \in O |-> Cardinality(before(r))]
<1>1. Compose!Rank = 0 .. NumRanks - 1 /\ NumRanks \in Nat
  BY RanksAssumption DEF Compose!Rank
<1>2. IsFiniteSet(O) /\ m \in Nat /\ m > 0
  <2>1. IsFiniteSet(0 .. NumRanks - 1)
    BY <1>1, FS_Interval, 0 \in Int, NumRanks - 1 \in Int
  <2>2. IsFiniteSet(O)
    BY <1>1, <2>1, FS_Subset
  <2> QED BY <2>2, FS_CardinalityType, FS_EmptySet
<1> HIDE DEF m
<1>3. IsFiniteSet(D) /\ Cardinality(D) = m
  <2>1. 0 \in Int /\ m - 1 \in Int /\ (IF 0 > m - 1 THEN 0 ELSE (m - 1) - 0 + 1) = m
    BY <1>2
  <2> QED BY <2>1, FS_Interval
<1>4. ASSUME NEW r \in O
      PROVE  /\ IsFiniteSet(before(r)) /\ Cardinality(before(r)) \in D /\ r \notin before(r)
             /\ r \in Int
  <2>1. r \in Int /\ r \notin before(r) /\ before(r) \subseteq O \ {r}
    BY <1>1
  <2>2. IsFiniteSet(O \ {r}) /\ Cardinality(O \ {r}) = m - 1
    BY <1>2, FS_RemoveElement DEF m
  <2>3. IsFiniteSet(before(r)) /\ Cardinality(before(r)) <= m - 1
    BY <2>1, <2>2, FS_Subset
  <2>4. Cardinality(before(r)) \in Nat
    BY <2>3, FS_CardinalityType
  <2> QED BY <1>2, <2>1, <2>3, <2>4
<1>5. ASSUME NEW r \in O, NEW s \in O, r < s
      PROVE  place[r] # place[s]
  <2>1. before(r) \subseteq before(s) /\ r \in before(s)
    <3>1. \A x \in before(r) : x \in O /\ x < r /\ x \in Int
      BY <1>1
    <3>2. r \in Int /\ s \in Int
      BY <1>1
    <3>3. ASSUME NEW x \in before(r) PROVE x \in before(s)
      <4>1. x \in Int /\ x \in O /\ x < r
        BY <3>1
      <4>2. x < s
        BY <3>2, <4>1, <1>5
      <4> QED BY <4>1, <4>2
    <3>4. r \in before(s)
      BY <1>5
    <3> HIDE DEF before
    <3> QED BY <3>3, <3>4
  <2>2. /\ Cardinality(before(s)) = Cardinality(before(r)) => before(r) = before(s)
    BY <1>4, <2>1, FS_Subset
  <2> QED BY <1>4, <2>1, <2>2
<1>6. place \in Injection(O, D)
  <2>1. place \in [O -> D]
    BY <1>4
  <2>2. \A r, s \in O : place[r] = place[s] => r = s
    <3> SUFFICES ASSUME NEW r \in O, NEW s \in O, r # s PROVE place[r] # place[s]
      OBVIOUS
    <3>1. r < s \/ s < r
      <4>1. r \in Int /\ s \in Int
        BY <1>1
      <4> QED BY <4>1
    <3> HIDE DEF place
    <3> QED BY <3>1, <1>5
  <2> HIDE DEF place
  <2> QED BY <2>1, <2>2 DEF Injection, IsInjective
<1>7. place \in Surjection(O, D)
  <2> HIDE DEF place, D
  <2>1. Cardinality(O) = Cardinality(D)
    BY <1>3 DEF m
  <2> QED BY <1>2, <1>3, <1>6, <2>1, FS_Injection
<1>8. k % m \in D
  BY <1>2
<1>9. PICK r \in O : place[r] = k % m
  BY <1>7, <1>8 DEF Surjection
<1> QED BY <1>9 DEF m

\* What the ranks send is one background and parts of regions, and as many of
\* these as it says if the owners of the regions have them and the ranks
\* count alike: then all see the same regions.
LEMMA SentParts ==
  ASSUME SceneTypes, InStep,
         NEW visible \in [{rankAccumID[r] : r \in Compose!Rank} -> SUBSET projected]
  PROVE  \E n \in 0 .. Cardinality(Region), W \in SUBSET Regions :
           /\ Compose!PartsSent(visible) = PartsFor(n, W)
           /\ ~uncleared /\ OwnersHave => n = Cardinality(W)
<1> DEFINE owner == tileIndex % NumRanks
           seen(r) == visible[rankAccumID[r]]
           sends(r, g) == /\ Compose!RendersTile(r) /\ g \in rankRegions[r] /\ g \in seen(r)
                          /\ Compose!InCharge(r, g)
           G == {g \in Scene : \E r \in Compose!Rank : sends(r, g)}
           n == Cardinality(seen(owner))
           W == {g + 1 : g \in G}
<1>1. /\ owner \in Compose!Rank /\ {r \in Compose!Rank : Compose!TileOwner(r)} = {owner}
      /\ Compose!RendersTile(owner)
  <2>1. owner \in 0 .. NumRanks - 1
    BY RanksAssumption DEF SceneTypes
  <2> QED BY <2>1 DEF Compose!Rank, Compose!TileOwner, Compose!RendersTile
<1>2. projected \subseteq Scene
  BY DEF SceneTypes, Compose!AllRegions
<1>3. \A r \in Compose!Rank : seen(r) \subseteq projected
  OBVIOUS
<1>4. NumRegions \in Nat /\ NumRegions <= Cardinality(Region) /\ Cardinality(Region) \in Nat
  BY RanksAssumption, RegionsFinite
<1>5. /\ IsFiniteSet(Scene) /\ Cardinality(Scene) = NumRegions
  <2>1. 0 \in Int /\ NumRegions - 1 \in Int
        /\ (IF 0 > NumRegions - 1 THEN 0 ELSE (NumRegions - 1) - 0 + 1) = NumRegions
    BY <1>4
  <2> QED BY <2>1, FS_Interval DEF Scene
<1>6. n \in 0 .. Cardinality(Region)
  <2>1. seen(owner) \subseteq Scene
    BY <1>1, <1>2, <1>3
  <2> HIDE DEF owner, seen
  <2>2. n \in 0 .. NumRegions
    BY <1>5, <2>1, Sized
  <2> QED BY <1>4, <2>2
<1>7. W \in SUBSET Regions
  BY <1>4 DEF Regions, Scene
<1>8. Compose!PartsSent(visible) = PartsFor(n, W)
  <2>1. {Compose!Background(Compose!Cardinality(visible[rankAccumID[r]])) :
           r \in {s \in Compose!Rank : Compose!TileOwner(s)}} = {Announcing(n)}
    BY <1>1, SameTile
  <2> DEFINE sent(r) == {g \in rankRegions[r] \cap visible[rankAccumID[r]] : Compose!InCharge(r, g)}
             all == UNION {{Compose!RegionPart(g + 1) : g \in sent(r)} :
                             r \in {s \in Compose!Rank : Compose!RendersTile(s)}}
  <2>2. \A r \in Compose!Rank : rankRegions[r] \subseteq Scene
    BY DEF SceneTypes
  <2>3. all = {Blend!RegionPart(o) : o \in W}
    <3>1. ASSUME NEW p \in all PROVE p \in {Blend!RegionPart(o) : o \in W}
      <4>1. PICK r \in Compose!Rank : Compose!RendersTile(r) /\ \E g \in sent(r) : p = Compose!RegionPart(g + 1)
        BY <3>1
      <4>2. PICK g \in sent(r) : p = Compose!RegionPart(g + 1)
        BY <4>1
      <4>3. g \in G
        BY <2>2, <4>1
      <4>4. p = Blend!RegionPart(g + 1)
        BY <4>2, SameTile
      <4> HIDE DEF G
      <4> QED BY <4>3, <4>4
    <3>2. ASSUME NEW p \in {Blend!RegionPart(o) : o \in W} PROVE p \in all
      <4>1. PICK g \in G : p = Blend!RegionPart(g + 1)
        BY <3>2
      <4>2. PICK r \in Compose!Rank : sends(r, g)
        OBVIOUS
      <4>3. g \in sent(r) /\ Compose!RendersTile(r)
        BY <4>2
      <4>4. p = Compose!RegionPart(g + 1)
        BY <4>1, SameTile
      <4> HIDE DEF sent
      <4> QED BY <4>2, <4>3, <4>4
    <3> HIDE DEF all, W
    <3> QED BY <3>1, <3>2
  <2>4. Compose!PartsSent(visible) = {Announcing(n)} \cup all
    BY <2>1 DEF Compose!PartsSent
  <2> QED BY <2>3, <2>4 DEF PartsFor
<1>9. ASSUME ~uncleared, OwnersHave PROVE n = Cardinality(W)
  <2>1. \A r \in Compose!Rank : Compose!RendersTile(r) => seen(r) = seen(owner)
    BY <1>1, <1>9 DEF InStep
  <2>2. G \subseteq seen(owner)
    BY <2>1
  <2>3. ASSUME NEW g \in seen(owner) PROVE g \in G
    <3>1. g \in projected /\ g \in Scene
      BY <1>1, <1>2, <1>3, <2>3
    <3>2. PICK h \in Compose!Rank : g \in rankRegions[h]
      BY <3>1 DEF SceneTypes, Compose!AllRegions
    <3>3. regionOwners[g] \in SUBSET Compose!Rank /\ regionOwners[g] # {} /\ tileIndex \in Nat
      BY <3>1, <3>2 DEF SceneTypes
    <3>4. PICK r \in regionOwners[g] :
            tileIndex % Cardinality(regionOwners[g]) = Cardinality({s \in regionOwners[g] : s < r})
      BY <3>3, OneInCharge
    <3>5. r \in Compose!Rank /\ Compose!InCharge(r, g)
      BY <3>3, <3>4, SameTile DEF Compose!InCharge
    <3>6. g \in rankRegions[r]
      BY <3>1, <3>5, <1>9 DEF OwnersHave, Compose!StaleOwner
    <3>7. Compose!RendersTile(r)
      BY <3>1, <3>5, <3>6 DEF Compose!RendersTile
    <3> HIDE DEF seen, owner
    <3>8. g \in seen(r)
      BY <2>1, <2>3, <3>5, <3>7
    <3> QED BY <3>1, <3>5, <3>6, <3>7, <3>8
  <2>4. G = seen(owner)
    BY <2>2, <2>3
  <2> HIDE DEF seen, owner
  <2>5. Cardinality(W) = Cardinality(G)
    <3> DEFINE f == [g \in G |-> g + 1]
    <3>1. \A g \in G : g \in Int
      BY DEF Scene
    <3> HIDE DEF G
    <3>2. f \in Bijection(G, W)
      BY <3>1 DEF Bijection, Injection, Surjection, IsInjective
    <3>3. IsFiniteSet(G)
      BY <1>5, FS_Subset DEF G
    <3> QED BY <3>2, <3>3, FS_Bijection DEF ExistsBijection
  <2> QED BY <2>4, <2>5
<1> HIDE DEF n, W
<1> QED BY <1>6, <1>7, <1>8, <1>9

-----------------------------------------------------------------------------
(* The steps of the ranks.                                                 *)

LEMMA RegionsStart == ASSUME Compose!RegionsInit PROVE RegionsInv
<1>1. /\ tileIndex \in 0 .. NumTiles - 1 /\ rankRegions = [r \in Compose!Rank |-> {}]
      /\ regionOwners = [g \in Scene |-> {}] /\ projected = {}
      /\ rankAccumID = [r \in Compose!Rank |-> 0]
  BY DEF Compose!RegionsInit, Scene
<1>2. SceneTypes
  BY <1>1, RanksAssumption DEF SceneTypes
<1>3. InStep
  <2>1. \A r \in Compose!Rank : rankAccumID[r] = IF Compose!RendersTile(r) THEN 0 ELSE 0
    BY <1>1
  <2> QED BY <2>1, 0 \in Nat DEF InStep
<1>4. Blend!Init
  BY SameTile DEF Compose!RegionsInit
<1> QED BY <1>2, <1>3, <1>4, RegionAssumption DEF Blend!Init, RegionsInv

LEMMA ComposingLeft ==
  ASSUME NEW n, NEW W, Composing(n, W), UNCHANGED blendVars
  PROVE  Composing(n, W)'
<1>1. UNCHANGED <<composed, parts, coming, bufferedTile, currentGeneration,
        expectedInNextGeneration, missingInCurrentGeneration, blended, errors>>
  BY DEF blendVars
<1>2. PICK A, P : A = Announcing(n) /\ P = PartsFor(n, W)
  OBVIOUS
<1>3. Announcing(n)' = A /\ PartsFor(n, W)' = P
  BY <1>2 DEF PartsFor, Announcing, Blend!Background, Blend!RegionPart, Blend!Farthest
<1> QED BY <1>1, <1>2, <1>3 DEF Composing

\* What a tile composes does not depend on the scene once it is complete.
LEMMA TileLeft ==
  ASSUME RegionsInv, SceneTypes', InStep', UNCHANGED blendVars, ~Compose!Rendering
  PROVE  RegionsInv'
<1>1. UNCHANGED <<composed, parts, coming, bufferedTile, currentGeneration,
        expectedInNextGeneration, missingInCurrentGeneration, blended, errors>>
  BY DEF blendVars
<1>2. ~Compose!Rendering'
  BY <1>1 DEF Compose!Rendering
<1>3. ASSUME composed > 0 PROVE Announced'
  <2>1. PICK n \in 0 .. Cardinality(Region), W \in SUBSET Regions : Composing(n, W)
    BY <1>3 DEF RegionsInv, Announced
  <2>2. Composing(n, W)'
    BY <2>1, ComposingLeft
  <2>3. \E m \in 0 .. Cardinality(Region), X \in SUBSET Regions :
          /\ Composing(m, X)'
          /\ Compose!Rendering' /\ ~uncleared' /\ OwnersHave' => m = Cardinality(X)
    BY <1>2, <2>2
  <2> QED BY <2>3 DEF Announced, Regions
<1> QED BY <1>1, <1>3 DEF RegionsInv

LEMMA RendersSame ==
  ASSUME UNCHANGED <<tileIndex, rankRegions, regionOwners, projected>>
  PROVE  \A r \in Compose!Rank : Compose!RendersTile(r)' <=> Compose!RendersTile(r)
BY DEF Compose!RendersTile, Compose!TileOwner, Compose!InCharge

\* A view that changes after the tile has been rendered to is uncleared.
LEMMA ViewKept ==
  ASSUME InStep, SceneTypes, Compose!ViewChanges, UNCHANGED <<tileIndex, rankAccumID>>,
         rankRegions' = rankRegions => regionOwners' = regionOwners
  PROVE  InStep'
<1>1. CASE uncleared'
  BY <1>1 DEF InStep
<1>2. CASE ~uncleared'
  <2>1. /\ ~uncleared
        /\ \/ UNCHANGED <<rankRegions, projected>>
           \/ \A r \in Compose!Rank : ~(rankAccumID[r] > 0)
    BY <1>2 DEF Compose!ViewChanges
  <2>2. CASE UNCHANGED <<rankRegions, projected>>
    <3>1. PICK n \in Nat : \A r \in Compose!Rank :
            rankAccumID[r] = IF Compose!RendersTile(r) THEN n ELSE 0
      BY <2>1 DEF InStep
    <3>2. \A r \in Compose!Rank : Compose!RendersTile(r)' <=> Compose!RendersTile(r)
      BY <2>2, RendersSame
    <3>3. \A r \in Compose!Rank : rankAccumID'[r] = IF Compose!RendersTile(r)' THEN n ELSE 0
      BY <3>1, <3>2
    <3> QED BY <3>3 DEF InStep
  <2>3. CASE \A r \in Compose!Rank : ~(rankAccumID[r] > 0)
    <3>1. \A r \in Compose!Rank : rankAccumID[r] \in Nat
      BY DEF SceneTypes
    <3>2. \A r \in Compose!Rank : rankAccumID'[r] = 0
      BY <2>3, <3>1
    <3>3. \A r \in Compose!Rank : rankAccumID'[r] = IF Compose!RendersTile(r)' THEN 0 ELSE 0
      BY <3>2
    <3> QED BY <3>3, 0 \in Nat DEF InStep
  <2> QED BY <2>1, <2>2, <2>3
<1> QED BY <1>1, <1>2

LEMMA SceneChanges ==
  ASSUME RegionsInv, Compose!Commit \/ Compose!MoveCamera \/ Compose!ClearAccum
  PROVE  RegionsInv'
<1>1. ~Compose!Rendering /\ UNCHANGED <<blendVars, tileIndex>>
  BY DEF Compose!Commit, Compose!MoveCamera, Compose!ClearAccum, Compose!vars, Compose!tileVars, blendVars
<1>2. SceneTypes /\ InStep
  BY DEF RegionsInv
<1>3. CASE Compose!Commit
  <2>1. PICK models \in Compose!Models :
          Compose!ExchangeModelBounds(models) /\ projected' \in SUBSET Compose!AllRegions(models)
    BY <1>3 DEF Compose!Commit
  <2>2. models \in [Compose!Rank -> SUBSET Scene]
    BY <2>1 DEF Compose!Models, Scene
  <2>3. /\ rankRegions' = models
        /\ regionOwners' = [g \in Scene |-> regionOwners[g] \cup {r \in Compose!Rank : g \in models[r]}]
    BY <1>2, <2>1 DEF Compose!ExchangeModelBounds, SceneTypes
  <2>4. UNCHANGED <<tileIndex, rankAccumID>> /\ Compose!ViewChanges
    BY <1>3 DEF Compose!Commit
  <2>5. SceneTypes'
    <3>1. regionOwners' \in [Scene -> SUBSET Compose!Rank]
      BY <1>2, <2>3 DEF SceneTypes
    <3>2. \A r \in Compose!Rank : \A g \in models[r] : r \in regionOwners'[g]
      BY <2>2, <2>3
    <3> QED BY <1>2, <2>1, <2>2, <2>3, <2>4, <3>1, <3>2 DEF SceneTypes, Scene
  <2>6. ASSUME rankRegions' = rankRegions PROVE regionOwners' = regionOwners
    <3>1. \A g \in Scene : regionOwners'[g] = regionOwners[g]
      BY <1>2, <2>3, <2>6 DEF SceneTypes
    <3> QED BY <1>2, <2>3, <3>1 DEF SceneTypes
  <2>7. InStep'
    BY <1>2, <2>4, <2>6, ViewKept
  <2> QED BY <1>1, <2>5, <2>7, TileLeft
<1>4. CASE Compose!MoveCamera
  <2>1. /\ projected' \in SUBSET Compose!AllRegions(rankRegions) /\ Compose!ViewChanges
        /\ UNCHANGED <<tileIndex, rankRegions, regionOwners, rankAccumID>>
    BY <1>4 DEF Compose!MoveCamera
  <2>2. SceneTypes'
    BY <1>2, <2>1 DEF SceneTypes, Scene
  <2>3. InStep'
    BY <1>2, <2>1, ViewKept
  <2> QED BY <1>1, <2>2, <2>3, TileLeft
<1>5. CASE Compose!ClearAccum
  <2>1. /\ rankAccumID' = [r \in Compose!Rank |-> 0]
        /\ UNCHANGED <<tileIndex, rankRegions, regionOwners, projected>>
    BY <1>5 DEF Compose!ClearAccum, Compose!sceneVars
  <2>2. SceneTypes'
    BY <1>2, <2>1 DEF SceneTypes, Scene
  <2>3. InStep'
    <3>1. \A r \in Compose!Rank : rankAccumID'[r] = IF Compose!RendersTile(r)' THEN 0 ELSE 0
      BY <2>1
    <3> QED BY <3>1, 0 \in Nat DEF InStep
  <2> QED BY <1>1, <2>2, <2>3, TileLeft
<1> QED BY <1>3, <1>4, <1>5

\* Between frames nothing is left of the last one.
LEMMA NothingLeft ==
  ASSUME RegionsInv, ~Compose!Rendering PROVE bufferedTile = <<>> /\ errors = FALSE
<1>1. CASE composed = 0
  BY <1>1 DEF RegionsInv
<1>2. CASE composed > 0
  <2>1. PICK n \in 0 .. Cardinality(Region), W \in SUBSET Regions : Composing(n, W)
    BY <1>2 DEF RegionsInv, Announced
  <2>2. blended # <<>>
    BY <1>2 DEF Compose!Rendering
  <2>3. bufferedTile = <<>> /\ missingInCurrentGeneration = 0
    BY <2>1, <2>2 DEF Composing
  <2>4. errors \in BOOLEAN /\ (errors <=> missingInCurrentGeneration < 0)
    BY <2>1 DEF Composing
  <2>5. ~errors
    BY <2>3, <2>4
  <2>6. errors = FALSE
    <3>1. errors \in BOOLEAN
      BY <2>4
    <3> QED BY <2>5, <3>1
  <2>7. bufferedTile = <<>>
    BY <2>3
  <2> QED BY <2>6, <2>7, Zenon
<1>3. composed = 0 \/ composed > 0
  BY RegionAssumption DEF RegionsInv
<1> QED BY <1>1, <1>2, <1>3, Zenon

LEMMA FrameSent == ASSUME RegionsInv, Compose!RenderFrame PROVE RegionsInv'
<1>1. /\ ~Compose!Rendering /\ composed < MaxBlends /\ composed' = composed + 1
      /\ coming' = parts' /\ blended' = <<>> /\ UNCHANGED errors /\ Compose!ResetTile
      /\ UNCHANGED <<tileIndex, rankRegions, regionOwners, projected, uncleared>>
      /\ rankAccumID' = [r \in Compose!Rank |->
                           rankAccumID[r] + (IF Compose!RendersTile(r) THEN 1 ELSE 0)]
  BY DEF Compose!RenderFrame, Compose!sceneVars
<1>2. PICK visible \in [{rankAccumID[r] : r \in Compose!Rank} -> SUBSET projected] :
        parts' = Compose!PartsSent(visible)
  BY DEF Compose!RenderFrame
<1>3. SceneTypes /\ InStep /\ composed \in 0 .. MaxBlends
  BY DEF RegionsInv
<1>4. PICK n \in 0 .. Cardinality(Region), W \in SUBSET Regions :
        /\ Compose!PartsSent(visible) = PartsFor(n, W)
        /\ ~uncleared /\ OwnersHave => n = Cardinality(W)
  BY <1>2, <1>3, SentParts
<1>5. Composing(n, W)'
  <2>1. Blend!ResetTile
    BY <1>1, SameTile
  <2> QED BY <1>1, <1>2, <1>4, <2>1, NothingLeft, FrameBegins
<1>6. OwnersHave' => OwnersHave
  BY <1>1 DEF OwnersHave, Compose!StaleOwner
<1>7. Announced'
  <2>1. \E m \in 0 .. Cardinality(Region), X \in SUBSET Regions :
          /\ Composing(m, X)'
          /\ Compose!Rendering' /\ ~uncleared' /\ OwnersHave' => m = Cardinality(X)
    BY <1>1, <1>4, <1>5, <1>6
  <2> QED BY <2>1 DEF Announced, Regions
<1>8. SceneTypes'
  <2>1. rankAccumID' \in [Compose!Rank -> Nat]
    BY <1>1, <1>3 DEF SceneTypes
  <2> QED BY <1>1, <1>3, <2>1 DEF SceneTypes, Scene
<1>9. InStep'
  <2>1. CASE uncleared
    BY <1>1, <2>1 DEF InStep
  <2>2. CASE ~uncleared
    <3>1. PICK m \in Nat : \A r \in Compose!Rank :
            rankAccumID[r] = IF Compose!RendersTile(r) THEN m ELSE 0
      BY <1>3, <2>2 DEF InStep
    <3>2. \A r \in Compose!Rank : Compose!RendersTile(r)' <=> Compose!RendersTile(r)
      BY <1>1, RendersSame
    <3>3. \A r \in Compose!Rank : rankAccumID'[r] = IF Compose!RendersTile(r)' THEN m + 1 ELSE 0
      BY <1>1, <3>1, <3>2
    <3> QED BY <3>3, m + 1 \in Nat DEF InStep
  <2> QED BY <2>1, <2>2
<1>10. composed' \in 0 .. MaxBlends /\ composed' # 0
  BY <1>1, <1>3, RegionAssumption
<1> QED BY <1>7, <1>8, <1>9, <1>10 DEF RegionsInv

LEMMA PartComes ==
  ASSUME RegionsInv, blended = <<>>, NEW p \in coming, Compose!Process(p), UNCHANGED regionVars
  PROVE  RegionsInv'
<1>1. UNCHANGED <<tileIndex, rankRegions, regionOwners, projected, rankAccumID, uncleared>>
  BY DEF regionVars
<1>2. SceneTypes /\ InStep /\ composed \in 0 .. MaxBlends
  BY DEF RegionsInv
<1>3. SceneTypes'
  BY <1>1, <1>2 DEF SceneTypes, Scene
<1>4. InStep'
  BY <1>1, <1>2, RendersSame DEF InStep
<1>5. composed > 0
  BY <1>2, RegionAssumption DEF RegionsInv
<1>6. PICK n \in 0 .. Cardinality(Region), W \in SUBSET Regions :
        /\ Composing(n, W)
        /\ Compose!Rendering /\ ~uncleared /\ OwnersHave => n = Cardinality(W)
  BY <1>5 DEF RegionsInv, Announced
<1>7. Composing(n, W)' /\ composed' = composed
  <2>1. n \in Nat /\ IsFiniteSet(W) /\ Blend!Process(p)
    BY RegionsFinite, SameTile
  <2> QED BY <1>6, <2>1, PartProcessed
<1>8. Compose!Rendering
  BY <1>5 DEF Compose!Rendering
<1>9. OwnersHave' => OwnersHave
  BY <1>1 DEF OwnersHave, Compose!StaleOwner
<1>10. Announced'
  <2>1. \E m \in 0 .. Cardinality(Region), X \in SUBSET Regions :
          /\ Composing(m, X)'
          /\ Compose!Rendering' /\ ~uncleared' /\ OwnersHave' => m = Cardinality(X)
    BY <1>1, <1>6, <1>7, <1>8, <1>9
  <2> QED BY <2>1 DEF Announced, Regions
<1> QED BY <1>2, <1>3, <1>4, <1>5, <1>7, <1>10 DEF RegionsInv

LEMMA RegionsLeft == RegionsInv /\ UNCHANGED <<blendVars, regionVars>> => RegionsInv'
<1> SUFFICES ASSUME RegionsInv, UNCHANGED <<blendVars, regionVars>> PROVE RegionsInv'
  OBVIOUS
<1>1. UNCHANGED <<tileIndex, rankRegions, regionOwners, projected, rankAccumID, uncleared>>
  BY DEF regionVars
<1>2. UNCHANGED <<composed, parts, coming, bufferedTile, currentGeneration,
        expectedInNextGeneration, missingInCurrentGeneration, blended, errors>>
  BY DEF blendVars
<1>3. SceneTypes' /\ InStep'
  BY <1>1, RendersSame DEF RegionsInv, SceneTypes, InStep, Scene
<1>4. ASSUME composed > 0 PROVE Announced'
  <2>1. PICK n \in 0 .. Cardinality(Region), W \in SUBSET Regions :
          /\ Composing(n, W)
          /\ Compose!Rendering /\ ~uncleared /\ OwnersHave => n = Cardinality(W)
    BY <1>4 DEF RegionsInv, Announced
  <2>2. Composing(n, W)'
    BY <2>1, ComposingLeft
  <2>3. (Compose!Rendering' => Compose!Rendering) /\ (OwnersHave' => OwnersHave)
    BY <1>1, <1>2 DEF Compose!Rendering, OwnersHave, Compose!StaleOwner
  <2>4. \E m \in 0 .. Cardinality(Region), X \in SUBSET Regions :
          /\ Composing(m, X)'
          /\ Compose!Rendering' /\ ~uncleared' /\ OwnersHave' => m = Cardinality(X)
    BY <1>1, <2>1, <2>2, <2>3
  <2> QED BY <2>4 DEF Announced, Regions
<1> QED BY <1>2, <1>3, <1>4 DEF RegionsInv

LEMMA RegionsKept == ASSUME RegionsInv, Compose!RegionsNext PROVE RegionsInv'
<1>1. CASE blended = <<>> /\ (\E p \in coming : Compose!Process(p)) /\ UNCHANGED Compose!regionVars
  <2>1. UNCHANGED regionVars
    BY <1>1 DEF regionVars, Compose!regionVars, Compose!sceneVars
  <2> QED BY <1>1, <2>1, PartComes
<1> QED BY <1>1, SceneChanges, FrameSent DEF Compose!RegionsNext

\* A frame of the present view blends what is announced.
LEMMA RegionsComposed == ASSUME RegionsInv PROVE Compose!ComposesUnlessStale
<1> SUFFICES ASSUME ~uncleared, OwnersHave
             PROVE  Blend!TypeOK /\ Blend!CompletesWithLast /\ Blend!BlendsAllInOrder
  BY SameTile DEF Compose!ComposesUnlessStale, OwnersHave
<1>1. composed \in 0 .. MaxBlends /\ composed \in Nat
  BY RegionAssumption DEF RegionsInv
<1>2. CASE composed = 0
  <2>1. BlendInv
    BY <1>2 DEF RegionsInv, BlendInv
  <2> QED BY <2>1, BlendTyped, BlendComplete, BlendOrdered
<1>3. CASE composed > 0
  <2>1. PICK n \in 0 .. Cardinality(Region), W \in SUBSET Regions :
          Composing(n, W) /\ (Compose!Rendering => n = Cardinality(W))
    BY <1>3 DEF RegionsInv, Announced
  <2>2. CASE Compose!Rendering
    <3>1. BlendInv
      BY <1>1, <1>3, <2>1, <2>2 DEF BlendInv
    <3> QED BY <3>1, BlendTyped, BlendComplete, BlendOrdered
  <2>3. CASE ~Compose!Rendering
    <3>1. blended # <<>> /\ coming = {}
      BY <1>3, <2>3 DEF Compose!Rendering
    <3>2. errors = FALSE
      BY <2>3, NothingLeft
    <3>3. missingInCurrentGeneration \in 0 .. Cardinality(Region) + 1
      <4>1. missingInCurrentGeneration = 0
        BY <2>1, <3>1 DEF Composing
      <4> QED BY <4>1, RegionsFinite
    <3>4. Blend!TypeOK
      BY <1>1, <2>1, <3>2, <3>3, ComposingTyped
    <3>5. Blend!BlendsAllInOrder
      BY <2>1, <3>1, BlendedInOrder
    <3>6. Blend!CompletesWithLast
      <4>1. PICK b : blended = <<b>>
        BY <2>1, <3>1 DEF Composing
      <4>2. Len(<<b>>) = 1
        OBVIOUS
      <4> QED BY <1>3, <3>1, <4>1, <4>2 DEF Blend!CompletesWithLast
    <3> QED BY <3>4, <3>5, <3>6
  <2> QED BY <2>2, <2>3
<1> QED BY <1>1, <1>2, <1>3


-----------------------------------------------------------------------------
(* A behaviour is that of one kind of tile, and leaves the others alone.   *)

TilesInv ==
  /\ IInv /\ MInv /\ WriteTypes /\ ErrorInv
  /\ kind # "regions" => BlendInv
  /\ kind = "regions" => RegionsInv

LEMMA TilesStart == CreateTiles => TilesInv
<1> SUFFICES ASSUME CreateTiles PROVE TilesInv
  OBVIOUS
<1>1. Init /\ Errors!Init /\ Blend!Init
  BY DEF CreateTiles, Compose!RegionsInit, Compose!Init, Blend!Init
<1>2. Compose!RegionsInit
  BY DEF CreateTiles
<1> QED BY <1>1, <1>2, InitIInv, MInit, WInit, ErrorCleared, BlendStart, RegionsStart DEF TilesInv

LEMMA BlendLeft == BlendInv /\ UNCHANGED blendVars => BlendInv'
<1> SUFFICES ASSUME BlendInv, UNCHANGED blendVars PROVE BlendInv'
  OBVIOUS
<1>1. UNCHANGED <<composed, parts, coming, bufferedTile, currentGeneration,
        expectedInNextGeneration, missingInCurrentGeneration, blended, errors>>
  BY DEF blendVars
<1>2. composed > 0 => \E V \in SUBSET Regions : Composing(Cardinality(V), V)'
  BY ComposingLeft DEF BlendInv
<1> QED BY <1>1, <1>2 DEF BlendInv, Regions

LEMMA ErrorLeft == ErrorInv /\ UNCHANGED errorVars => ErrorInv'
<1> SUFFICES ASSUME ErrorInv, UNCHANGED errorVars PROVE ErrorInv'
  OBVIOUS
<1>1. UNCHANGED <<tileErrorBuffer, errorRegion, i, regions, refining, converged>>
  BY DEF errorVars
<1>2. ErrorTypes'
  BY <1>1 DEF ErrorInv, ErrorTypes
<1>3. RegionsApart' /\ RegionsSpared'
  BY <1>1 DEF ErrorInv, RegionsApart, RegionsSpared, RegionSet
<1>4. GroupsActive' /\ ConvergedOut'
  BY <1>1 DEF ErrorInv, GroupsActive, LookedAt, ConvergedOut, Errors!Active
<1> QED BY <1>2, <1>3, <1>4 DEF ErrorInv

LEMMA WriteKept ==
  IInv /\ MInv /\ WriteTypes /\ [Next]_vars => IInv' /\ MInv' /\ WriteTypes'
BY NextIInv, MNext, WNext

LEMMA TilesKept ==
  TilesInv /\ [TileStep]_<<kind, vars, blendVars, regionVars, errorVars>> => TilesInv'
<1> SUFFICES ASSUME TilesInv, [TileStep]_<<kind, vars, blendVars, regionVars, errorVars>>
             PROVE  TilesInv'
  OBVIOUS
<1>0. kind' = kind
  BY DEF TileStep
<1>1. CASE Next /\ UNCHANGED <<blendVars, regionVars, errorVars>>
  BY <1>0, <1>1, WriteKept, BlendLeft, RegionsLeft, ErrorLeft DEF TilesInv
<1>2. CASE kind = "alphaBlend" /\ Blend!Next /\ UNCHANGED <<vars, errorVars>>
  BY <1>0, <1>2, WriteKept, BlendKept, ErrorLeft DEF TilesInv
<1>3. CASE kind = "regions" /\ Compose!RegionsNext /\ UNCHANGED <<vars, errorVars>>
  BY <1>0, <1>3, WriteKept, RegionsKept, ErrorLeft DEF TilesInv
<1>4. CASE Errors!Next /\ UNCHANGED <<vars, blendVars, regionVars>>
  BY <1>0, <1>4, WriteKept, BlendLeft, RegionsLeft, ErrorKept DEF TilesInv
<1>5. CASE UNCHANGED <<kind, vars, blendVars, regionVars, errorVars>>
  BY <1>5, WriteKept, BlendLeft, RegionsLeft, ErrorLeft DEF TilesInv
<1> QED BY <1>1, <1>2, <1>3, <1>4, <1>5 DEF TileStep

LEMMA TilesInvariance == TilesSpec => []TilesInv
BY TilesStart, TilesKept, PTL DEF TilesSpec

\* A composited tile is complete with its last part and not before, in
\* whichever order the background that announces the parts and the parts it
\* announces come, for any number of regions (AlphaBlendTile_simple::process).
THEOREM TileCompletes == TilesSpec => []CompletesWithLast
<1>1. TilesInv => CompletesWithLast
  BY BlendComplete DEF TilesInv, CompletesWithLast
<1> QED BY <1>1, TilesInvariance, PTL

\* It blends every part of its frame once and nothing of an earlier frame,
\* from back to front, the background first (AlphaBlendTile_simple::process).
THEOREM TileBlendsInOrder == TilesSpec => []BlendsAllInOrder
<1>1. TilesInv => BlendsAllInOrder
  BY BlendOrdered DEF TilesInv, BlendsAllInOrder
<1> QED BY <1>1, TilesInvariance, PTL

\* For an image of any size the regions of the error estimate stay apart while
\* they are split, dropped and moved about, and they never outgrow the two for
\* three tiles that are reserved, so that the reference into the list stays
\* valid over a push_back; every variable keeps its type (TileError::refine).
THEOREM RegionsAreSound == TilesSpec => []RegionsSound
<1>1. TilesInv => RegionsSound
  BY WriteTyped, BlendTyped, RegionsTyped, RegionsStayApart, RegionsStayFew
  DEF TilesInv, RegionsSound
<1> QED BY <1>1, TilesInvariance, PTL

\* After refine() every tile of a region is to be rendered, and a tile that
\* has converged is not lifted over the threshold again until a clear
\* (TileError::refine).
THEOREM RegionsRefinedAsGroup == TilesSpec => []RefinedAsGroup
<1>1. TilesInv => RefinedAsGroup
  BY RegionsRefined DEF TilesInv, RefinedAsGroup
<1> QED BY <1>1, TilesInvariance, PTL

\* The parts that the ranks send are those that the tile waits for, each once,
\* for any number of ranks and regions and whatever models are committed and
\* shared, as long as an owner of a region has it and the application clears
\* what it has changed the view of (DistributedRaycastRenderer::renderFrame).
THEOREM RegionsCompose == TilesSpec => []ComposesUnlessStale
<1>1. TilesInv => ComposesUnlessStale
  BY RegionsComposed DEF TilesInv, ComposesUnlessStale
<1> QED BY <1>1, TilesInvariance, PTL
============================================================================
