----------------------- MODULE TileAccumulation_proofs -----------------------
(***************************************************************************)
(* Between frames a tile's sum holds every instance once, what is shown is *)
(* their mean and the error compares it with the mean of one half, for any *)
(* number of frames and of instances in a frame, in whichever order they   *)
(* come.                                                                   *)
(***************************************************************************)
EXTENDS TileAccumulation, FiniteSetTheorems, TLAPS

Types ==
  /\ dynamic \in BOOLEAN /\ inFrame \in BOOLEAN /\ writeOnce \in BOOLEAN
  /\ frames \in 0 .. MaxFrames
  /\ tileAccumID \in Nat /\ tileAccumID <= frames * MaxInstances
  /\ \A a \in skipped \cup rendering \cup buffered : a \in Nat /\ a < MaxFrames * MaxInstances
  /\ \A a \in skipped \cup rendering : a < tileAccumID
  /\ instances \in Nat
  /\ accum \in [AccumID -> Nat]

\* What is still to come in a frame, by its kind: one instance, the latest, or
\* several that are counted down and of which one may be set aside.
ToCome ==
  /\ rendering \cap skipped = {}
  /\ ~inFrame => rendering = {} /\ last = "no"
  /\ inFrame /\ writeOnce =>
       /\ rendering = {tileAccumID - 1}
       /\ buffered = {} /\ last = "no"
  /\ inFrame /\ ~writeOnce =>
       /\ IsFiniteSet(rendering) /\ Cardinality(rendering) = instances
       /\ last = "yes" => rendering = {}
       /\ buffered \cap (rendering \cup skipped) = {}
       /\ \A a \in buffered : a < tileAccumID /\ buffered = {a}

Counted(a) ==
  /\ a < tileAccumID /\ a \notin skipped /\ a \notin rendering
  /\ ~(inFrame /\ a \in buffered)

\* Everything else is in the sum, once.
Summed == \A a \in AccumID : accum[a] = IF Counted(a) THEN 1 ELSE 0

IInv == Types /\ ToCome /\ Summed

-----------------------------------------------------------------------------
\* Instances are numbered below the bound of the sums.
LEMMA Bound ==
  ASSUME NEW f \in 0 .. MaxFrames, NEW t \in Nat, t <= f * MaxInstances,
         NEW n \in 0 .. MaxInstances, f < MaxFrames
  PROVE  /\ t + n <= (f + 1) * MaxInstances
         /\ t + n <= MaxFrames * MaxInstances
<1>1. MaxFrames \in Nat /\ MaxInstances \in Nat
  BY BoundsAssumption
<1>2. (f + 1) * MaxInstances = f * MaxInstances + MaxInstances
  BY <1>1
<1>3. f + 1 <= MaxFrames
  BY <1>1
<1>4. (f + 1) * MaxInstances <= MaxFrames * MaxInstances
  <2>1. ASSUME NEW x \in Nat, NEW y \in Nat, NEW z \in Nat, x <= y
        PROVE  x * z <= y * z
    <3>1. y = x + (y - x) /\ y - x \in Nat
      BY <2>1
    <3>2. y * z = x * z + (y - x) * z
      BY <3>1
    <3>3. (y - x) * z \in Nat
      BY <3>1
    <3>4. QED
      BY <3>2, <3>3
  <2>2. QED
    BY <1>1, <1>3, <2>1
<1>5. f * MaxInstances \in Nat /\ (f + 1) * MaxInstances \in Nat /\ MaxFrames * MaxInstances \in Nat
  BY <1>1
<1>6. QED
  BY <1>1, <1>2, <1>4, <1>5

\* Nothing has been rendered.
LEMMA InitIInv == Init => IInv
<1> SUFFICES ASSUME Init
             PROVE  IInv
  OBVIOUS
<1>1. Types
  <2>1. 0 <= 0 * MaxInstances /\ 0 \in 0 .. MaxFrames
    BY BoundsAssumption
  <2>2. accum \in [AccumID -> Nat]
    BY DEF Init, Empty
  <2>3. QED
    BY <2>1, <2>2 DEF Init, Types
<1>2. ToCome
  BY DEF Init, ToCome
<1>3. Summed
  BY DEF Init, Summed, Counted, Empty, AccumID
<1>4. QED
  BY <1>1, <1>2, <1>3 DEF IInv

-----------------------------------------------------------------------------
\* A frame gives its instances the next accumIDs, or skips one.
LEMMA NextFrame == IInv /\ BeginFrame => IInv'
<1> SUFFICES ASSUME IInv, BeginFrame
             PROVE  IInv'
  OBVIOUS
<1>0. MaxFrames \in Nat /\ MaxInstances \in Nat \ {0} /\ MaxFrames * MaxInstances \in Nat
  BY BoundsAssumption
<1>1. /\ ~inFrame /\ rendering = {} /\ last = "no" /\ last' = "no"
      /\ frames \in 0 .. MaxFrames /\ frames < MaxFrames
      /\ tileAccumID \in Nat /\ tileAccumID <= frames * MaxInstances
      /\ UNCHANGED <<dynamic, accum>>
  BY DEF IInv, Types, ToCome, BeginFrame
<1>2. ASSUME NEW n \in 0 .. MaxInstances, tileAccumID' = tileAccumID + n,
             NewFrame(n, tileAccumID .. tileAccumID + n - 1), UNCHANGED skipped
      PROVE  IInv'
  <2> DEFINE ids == tileAccumID .. tileAccumID + n - 1
  <2>1. tileAccumID + n <= (frames + 1) * MaxInstances /\ tileAccumID + n <= MaxFrames * MaxInstances
    BY <1>1, Bound
  <2>2. /\ rendering' = ids /\ instances' = n /\ writeOnce' = (n <= 1)
        /\ buffered' = {} /\ frames' = frames + 1 /\ inFrame' = (ids # {})
    BY <1>2 DEF NewFrame
  <2>3. n \in Nat
    BY <1>0
  <2>4. IsFiniteSet(ids) /\ Cardinality(ids) = n
    <3>1. tileAccumID \in Int /\ tileAccumID + n - 1 \in Int
      BY <1>1, <2>3
    <3>2. IF tileAccumID > tileAccumID + n - 1 THEN 0 = n
          ELSE (tileAccumID + n - 1) - tileAccumID + 1 = n
      BY <1>1, <2>3
    <3>3. QED
      BY <3>1, <3>2, FS_Interval
  <2>5. Types'
    <3>1. \A a \in ids : a \in Nat /\ a < tileAccumID + n /\ a < MaxFrames * MaxInstances
      BY <1>0, <1>1, <2>1, <2>3
    <3>2. \A a \in skipped : a \in Nat /\ a < tileAccumID /\ a < MaxFrames * MaxInstances
      BY DEF IInv, Types
    <3>3. \A a \in (skipped \cup rendering \cup buffered)' : a \in Nat /\ a < MaxFrames * MaxInstances
      BY <1>2, <2>2, <3>1, <3>2
    <3>4. \A a \in (skipped \cup rendering)' : a < tileAccumID'
      BY <1>1, <1>2, <2>2, <2>3, <3>1, <3>2
    <3>5. inFrame' \in BOOLEAN /\ writeOnce' \in BOOLEAN /\ dynamic' \in BOOLEAN
      BY <1>1, <2>2 DEF IInv, Types
    <3>6. /\ frames' \in 0 .. MaxFrames /\ tileAccumID' \in Nat
          /\ tileAccumID' <= frames' * MaxInstances /\ instances' \in Nat
      BY <1>0, <1>1, <1>2, <2>1, <2>2, <2>3
    <3>7. QED
      BY <1>1, <3>3, <3>4, <3>5, <3>6 DEF IInv, Types
  <2>6. ToCome'
    <3>1. \A a \in ids : a \notin skipped
      BY <1>1, <2>3 DEF IInv, Types
    <3>2. n <= 1 /\ ids # {} => ids = {tileAccumID + n - 1}
      BY <1>1, <2>3
    <3>3. (rendering \cap skipped = {})'
      BY <1>2, <2>2, <3>1
    <3>4. ~inFrame' => rendering' = {} /\ last' = "no"
      BY <1>1, <2>2
    <3>5. inFrame' /\ writeOnce' =>
            rendering' = {tileAccumID' - 1} /\ buffered' = {} /\ last' = "no"
      <4>1. tileAccumID' - 1 = tileAccumID + n - 1
        BY <1>1, <1>2, <2>3
      <4>2. inFrame' /\ writeOnce' => ids # {} /\ n <= 1
        BY <2>2, Zenon
      <4>3. QED
        BY <1>1, <2>2, <3>2, <4>1, <4>2
    <3>6. inFrame' /\ ~writeOnce' =>
            IsFiniteSet(rendering') /\ Cardinality(rendering') = instances' /\ last' # "yes"
      BY <1>1, <2>2, <2>4
    <3>7. QED
      BY <2>2, <3>3, <3>4, <3>5, <3>6 DEF ToCome
  <2>7. Summed'
    <3>1. ASSUME NEW a \in AccumID
          PROVE  Counted(a)' <=> Counted(a)
      <4>1. a \in Nat
        BY <1>0 DEF AccumID
      <4>2. a < tileAccumID + n /\ a \notin ids <=> a < tileAccumID
        BY <1>1, <2>3, <4>1
      <4>3. QED
        BY <1>1, <1>2, <2>2, <4>2 DEF Counted
    <3>2. QED
      BY <1>1, <3>1 DEF IInv, Summed
  <2>8. QED
    BY <2>5, <2>6, <2>7 DEF IInv
<1>3. ASSUME tileAccumID' = tileAccumID + 1, NewFrame(0, {}), skipped' = skipped \cup {tileAccumID}
      PROVE  IInv'
  <2>1. tileAccumID + 1 <= (frames + 1) * MaxInstances /\ tileAccumID + 1 <= MaxFrames * MaxInstances
    <3>1. 1 \in 0 .. MaxInstances
      BY <1>0
    <3>2. QED
      BY <1>1, <3>1, Bound
  <2>2. /\ rendering' = {} /\ instances' = 0 /\ writeOnce' = TRUE
        /\ buffered' = {} /\ frames' = frames + 1 /\ inFrame' = FALSE
    <3>1. writeOnce' = (0 <= 1) /\ inFrame' = ({} # {})
      BY <1>3 DEF NewFrame
    <3>2. (0 <= 1) = TRUE /\ ({} # {}) = FALSE
      OBVIOUS
    <3>3. QED
      BY <1>3, <3>1, <3>2 DEF NewFrame
  <2>3. Types'
    <3>1. frames' \in 0 .. MaxFrames /\ tileAccumID' <= frames' * MaxInstances
      BY <1>0, <1>1, <1>3, <2>1, <2>2
    <3>2. tileAccumID \in Nat /\ tileAccumID < MaxFrames * MaxInstances
      BY <1>0, <1>1, <2>1
    <3>3. \A a \in skipped' : a \in Nat /\ a < MaxFrames * MaxInstances /\ a < tileAccumID'
      BY <1>0, <1>1, <1>3, <3>2 DEF IInv, Types
    <3>4. /\ \A a \in (skipped \cup rendering \cup buffered)' : a \in Nat /\ a < MaxFrames * MaxInstances
          /\ \A a \in (skipped \cup rendering)' : a < tileAccumID'
      BY <2>2, <3>3
    <3>5. dynamic' \in BOOLEAN /\ inFrame' \in BOOLEAN /\ writeOnce' \in BOOLEAN
      BY <1>1, <2>2 DEF IInv, Types
    <3>6. tileAccumID' \in Nat /\ instances' \in Nat /\ accum' \in [AccumID -> Nat]
      BY <1>1, <1>3, <2>2, <3>2 DEF IInv, Types
    <3>7. QED
      BY <3>1, <3>4, <3>5, <3>6 DEF Types
  <2>4. ToCome'
    BY <1>1, <1>3, <2>2 DEF ToCome
  <2>5. Summed'
    <3>1. ASSUME NEW a \in AccumID
          PROVE  Counted(a)' <=> Counted(a)
      <4>1. a \in Nat
        BY <1>0 DEF AccumID
      <4>2. a < tileAccumID + 1 /\ a # tileAccumID <=> a < tileAccumID
        BY <1>1, <4>1
      <4>3. QED
        BY <1>1, <1>3, <2>2, <4>2 DEF Counted
    <3>2. QED
      BY <1>1, <3>1 DEF IInv, Summed
  <2>6. QED
    BY <2>3, <2>4, <2>5 DEF IInv
<1>4. ASSUME tileAccumID' = tileAccumID + 1, NewFrame(0, {tileAccumID}), UNCHANGED skipped
      PROVE  IInv'
  <2>1. tileAccumID + 1 <= (frames + 1) * MaxInstances /\ tileAccumID + 1 <= MaxFrames * MaxInstances
    <3>1. 1 \in 0 .. MaxInstances
      BY <1>0
    <3>2. QED
      BY <1>1, <3>1, Bound
  <2>2. /\ rendering' = {tileAccumID} /\ instances' = 0 /\ writeOnce' = TRUE
        /\ buffered' = {} /\ frames' = frames + 1 /\ inFrame' = TRUE
    <3>1. writeOnce' = (0 <= 1) /\ inFrame' = ({tileAccumID} # {})
      BY <1>4 DEF NewFrame
    <3>2. (0 <= 1) = TRUE /\ ({tileAccumID} # {}) = TRUE
      OBVIOUS
    <3>3. QED
      BY <1>4, <3>1, <3>2 DEF NewFrame
  <2>3. Types'
    <3>1. frames' \in 0 .. MaxFrames /\ tileAccumID' <= frames' * MaxInstances
      BY <1>0, <1>1, <1>4, <2>1, <2>2
    <3>2. tileAccumID \in Nat /\ tileAccumID < MaxFrames * MaxInstances
      BY <1>0, <1>1, <2>1
    <3>3. QED
      BY <1>1, <1>4, <2>2, <3>1, <3>2 DEF IInv, Types
  <2>4. ToCome'
    <3>1. tileAccumID \notin skipped /\ tileAccumID' - 1 = tileAccumID
      BY <1>1, <1>4 DEF IInv, Types
    <3>2. QED
      BY <1>1, <1>4, <2>2, <3>1 DEF ToCome
  <2>5. Summed'
    <3>1. ASSUME NEW a \in AccumID
          PROVE  Counted(a)' <=> Counted(a)
      <4>1. a \in Nat
        BY <1>0 DEF AccumID
      <4>2. a < tileAccumID + 1 /\ a # tileAccumID <=> a < tileAccumID
        BY <1>1, <4>1
      <4>3. QED
        BY <1>1, <1>4, <2>2, <4>2 DEF Counted
    <3>2. QED
      BY <1>1, <3>1 DEF IInv, Summed
  <2>6. QED
    BY <2>3, <2>4, <2>5 DEF IInv
<1>5. CASE GenerateTileTasks
  BY <1>2, <1>5 DEF GenerateTileTasks
<1>6. CASE StaticTask
  BY <1>3, <1>4, <1>6 DEF StaticTask
<1>7. QED
  BY <1>5, <1>6 DEF BeginFrame

-----------------------------------------------------------------------------
\* An instance that is added to a sum without it is there once.
LEMMA AddOne ==
  ASSUME NEW bag \in [AccumID -> Nat], NEW a \in AccumID
  PROVE  /\ Add(bag, a) \in [AccumID -> Nat]
         /\ \A b \in AccumID : Add(bag, a)[b] = IF b = a THEN bag[a] + 1 ELSE bag[b]
BY DEF Add

\* The only instance of a frame: with the accumID 0 the sum starts afresh.
LEMMA NextOnce == ASSUME NEW a \in AccumID, IInv, ProcessOnce(a)
                  PROVE  IInv'
<1>0. a \in Nat
  BY BoundsAssumption DEF AccumID
<1>1. /\ inFrame /\ writeOnce /\ a = tileAccumID - 1 /\ rendering = {a}
      /\ buffered = {} /\ last = "no" /\ tileAccumID \in Nat
  BY DEF IInv, ToCome, Types, ProcessOnce
<1>2. /\ inFrame' = FALSE /\ rendering' = {}
      /\ UNCHANGED <<dynamic, frames, tileAccumID, skipped, instances, writeOnce, buffered, last>>
  BY <1>1 DEF ProcessOnce, Complete, tileVars
<1>3. a \notin skipped
  BY <1>1 DEF IInv, ToCome
<1>4. accum' \in [AccumID -> Nat] /\ \A b \in AccumID : accum'[b] = IF b = a THEN 1 ELSE accum[b]
  <2>1. CASE a < 1
    <3>1. accum' = Only(a)
      BY <2>1 DEF ProcessOnce, AccumulateTile
    <3>2. \A b \in AccumID : b # a => accum[b] = 0
      <4>1. tileAccumID = 1
        BY <1>0, <1>1, <2>1
      <4>2. \A b \in AccumID : b # a => ~(b < tileAccumID)
        BY <1>0, <2>1, <4>1, BoundsAssumption DEF AccumID
      <4>3. QED
        BY <4>2 DEF IInv, Summed, Counted
    <3>3. QED
      BY <3>1, <3>2 DEF Only, Empty
  <2>2. CASE ~(a < 1)
    <3>1. accum' = Add(accum, a)
      BY <2>2 DEF ProcessOnce, AccumulateTile
    <3>2. accum \in [AccumID -> Nat] /\ accum[a] = 0
      BY <1>1 DEF IInv, Types, Summed, Counted
    <3>3. QED
      BY <3>1, <3>2, AddOne
  <2>3. QED
    BY <2>1, <2>2
<1>5. Types'
  BY <1>1, <1>2, <1>4 DEF IInv, Types
<1>6. ToCome'
  BY <1>1, <1>2 DEF IInv, ToCome
<1>7. Summed'
  <2>1. ASSUME NEW b \in AccumID
        PROVE  Counted(b)' <=> (b = a \/ Counted(b))
    BY <1>0, <1>1, <1>2, <1>3 DEF Counted
  <2>2. QED
    BY <1>4, <2>1 DEF IInv, Summed
<1>8. QED
  BY <1>5, <1>6, <1>7 DEF IInv

\* One of several: it is set aside, or added.
LEMMA NextLocked == ASSUME NEW a \in AccumID, IInv, ProcessLocked(a)
                    PROVE  IInv'
<1>1. /\ inFrame /\ ~writeOnce /\ a \in rendering /\ rendering' = rendering \ {a}
      /\ instances' = instances - 1
      /\ last' = IF instances' = 0 THEN "yes" ELSE last
      /\ UNCHANGED <<dynamic, frames, inFrame, tileAccumID, skipped, writeOnce>>
  BY DEF IInv, ToCome, Types, ProcessLocked
<1>2. /\ IsFiniteSet(rendering) /\ Cardinality(rendering) = instances
      /\ IsFiniteSet(rendering') /\ Cardinality(rendering') = instances'
      /\ instances' = 0 => rendering' = {}
  <2>1. IsFiniteSet(rendering) /\ Cardinality(rendering) = instances
    BY <1>1 DEF IInv, ToCome
  <2>2. IsFiniteSet(rendering \ {a}) /\ Cardinality(rendering \ {a}) = Cardinality(rendering) - 1
    BY <1>1, <2>1, FS_RemoveElement
  <2>3. QED
    BY <1>1, <2>1, <2>2, FS_EmptySet
<1>3. instances' \in Nat
  BY <1>2, FS_CardinalityType
<1>4. a \notin skipped /\ a \notin buffered /\ a < tileAccumID /\ a < MaxFrames * MaxInstances /\ a \in Nat
  BY <1>1 DEF IInv, ToCome, Types
<1>5. CASE buffered = {} /\ ~IsOdd(a)
  <2>1. buffered' = {a} /\ accum' = accum
    BY <1>5 DEF ProcessLocked
  <2>2. Types'
    BY <1>1, <1>3, <1>4, <2>1 DEF IInv, Types
  <2>3. ToCome'
    BY <1>1, <1>2, <1>4, <2>1 DEF IInv, ToCome
  <2>4. Summed'
    <3>1. ASSUME NEW b \in AccumID
          PROVE  Counted(b)' <=> Counted(b)
      BY <1>1, <1>5, <2>1 DEF Counted
    <3>2. QED
      BY <2>1, <3>1 DEF IInv, Summed
  <2>5. QED
    BY <2>2, <2>3, <2>4 DEF IInv
<1>6. CASE ~(buffered = {} /\ ~IsOdd(a))
  <2>1. buffered' = buffered /\ accum' = Add(accum, a)
    BY <1>6 DEF ProcessLocked, AccumulateSimple
  <2>2. accum \in [AccumID -> Nat] /\ accum[a] = 0
    BY <1>1 DEF IInv, Types, Summed, Counted
  <2>3. accum' \in [AccumID -> Nat] /\ \A b \in AccumID : accum'[b] = IF b = a THEN 1 ELSE accum[b]
    BY <2>1, <2>2, AddOne
  <2>4. Types'
    BY <1>1, <1>3, <2>1, <2>3 DEF IInv, Types
  <2>5. ToCome'
    BY <1>1, <1>2, <2>1 DEF IInv, ToCome
  <2>6. Summed'
    <3>1. ASSUME NEW b \in AccumID
          PROVE  Counted(b)' <=> (b = a \/ Counted(b))
      BY <1>1, <1>4, <2>1 DEF Counted
    <3>2. QED
      BY <2>3, <3>1 DEF IInv, Summed
  <2>7. QED
    BY <2>4, <2>5, <2>6 DEF IInv
<1>7. QED
  BY <1>5, <1>6

\* The last one adds what was set aside.
LEMMA NextLast == IInv /\ ProcessLast => IInv'
<1> SUFFICES ASSUME IInv, ProcessLast
             PROVE  IInv'
  OBVIOUS
<1>1. PICK s \in buffered : accum' = Add(accum, s)
  BY DEF ProcessLast
<1>2. /\ last = "yes" /\ last' = "no" /\ inFrame' = FALSE
      /\ UNCHANGED <<dynamic, frames, tileAccumID, skipped, rendering, instances, writeOnce, buffered>>
  BY DEF ProcessLast, Complete
<1>3. inFrame /\ ~writeOnce /\ rendering = {} /\ buffered = {s} /\ s < tileAccumID /\ s \notin skipped
  BY <1>1, <1>2 DEF IInv, ToCome, Types
<1>4. s \in AccumID
  BY <1>1, BoundsAssumption DEF IInv, Types, AccumID
<1>5. accum \in [AccumID -> Nat] /\ accum[s] = 0
  BY <1>3, <1>4 DEF IInv, Types, Summed, Counted
<1>6. accum' \in [AccumID -> Nat] /\ \A b \in AccumID : accum'[b] = IF b = s THEN 1 ELSE accum[b]
  BY <1>1, <1>4, <1>5, AddOne
<1>7. Types'
  BY <1>2, <1>6 DEF IInv, Types
<1>8. ToCome'
  BY <1>2, <1>3 DEF IInv, ToCome
<1>9. Summed'
  <2>1. ASSUME NEW b \in AccumID
        PROVE  Counted(b)' <=> (b = s \/ Counted(b))
    BY <1>2, <1>3 DEF Counted
  <2>2. QED
    BY <1>6, <2>1 DEF IInv, Summed
<1>10. QED
  BY <1>7, <1>8, <1>9 DEF IInv

\* clear() resets sums and numbers together.
LEMMA NextClear == IInv /\ Clear => IInv'
<1> SUFFICES ASSUME IInv, Clear
             PROVE  IInv'
  OBVIOUS
<1>1. /\ ~inFrame /\ accum' = Empty /\ tileAccumID' = 0 /\ skipped' = {}
      /\ UNCHANGED <<dynamic, frames, inFrame, rendering, instances, writeOnce, buffered, last>>
  BY DEF Clear, tileVars
<1>2. rendering = {} /\ last = "no"
  BY <1>1 DEF IInv, ToCome
<1>3. Types'
  <2>1. frames * MaxInstances \in Nat
    BY BoundsAssumption DEF IInv, Types
  <2>2. Empty \in [AccumID -> Nat]
    BY DEF Empty
  <2>3. QED
    BY <1>1, <1>2, <2>1, <2>2 DEF IInv, Types
<1>4. ToCome'
  BY <1>1, <1>2 DEF ToCome, IInv, Types
<1>5. Summed'
  <2>1. \A a \in AccumID : ~Counted(a)'
    BY <1>1, BoundsAssumption DEF Counted, AccumID
  <2>2. QED
    BY <1>1, <2>1 DEF Summed, Empty
<1>6. QED
  BY <1>3, <1>4, <1>5 DEF IInv

LEMMA NextIInv == IInv /\ [Next]_vars => IInv'
<1> SUFFICES ASSUME IInv, [Next]_vars
             PROVE  IInv'
  OBVIOUS
<1>1. CASE ThresholdChanges
  BY <1>1 DEF ThresholdChanges, tileVars, bufferVars, IInv, Types, ToCome, Summed, Counted
<1>2. CASE UNCHANGED vars
  BY <1>2 DEF vars, tileVars, bufferVars, IInv, Types, ToCome, Summed, Counted
<1>3. QED
  BY <1>1, <1>2, NextFrame, NextOnce, NextLocked, NextLast, NextClear DEF Next

\* The inductive invariant holds in every state of a tile's accumulation
\* (WriteMultipleTile, the load balancers, DFB::clear).
THEOREM Invariance == Spec => []IInv
BY InitIInv, NextIInv, PTL DEF Spec

\* Between frames every instance that was given an accumID and rendered is in
\* the sum exactly once (WriteMultipleTile::process).
THEOREM SummedOnce == Spec => []EachInstanceOnce
<1>1. IInv => EachInstanceOnce
  <2> SUFFICES ASSUME IInv, Resting
               PROVE  accum = [a \in AccumID |-> IF a < tileAccumID /\ a \notin skipped THEN 1 ELSE 0]
    BY DEF EachInstanceOnce
  <2>1. ASSUME NEW a \in AccumID
        PROVE  Counted(a) <=> a < tileAccumID /\ a \notin skipped
    BY DEF Resting, IInv, ToCome, Counted
  <2>2. QED
    BY <2>1 DEF IInv, Types, Summed
<1>2. QED
  BY <1>1, Invariance, PTL
-----------------------------------------------------------------------------
(* What is shown, and the estimate.                                        *)

\* The highest accumID of a frame of several instances is seen before its end.
Latest == inFrame /\ ~writeOnce =>
  maxAccumID < tileAccumID /\ (tileAccumID - 1 \in rendering \/ maxAccumID = tileAccumID - 1)

\* The variance is the odd half of the sum; what is set aside is even.
Varied == \A a \in AccumID : variance[a] = IF IsOdd(a) THEN accum[a] ELSE 0
Evens == \A a \in buffered : ~IsOdd(a)

MInv ==
  /\ maxAccumID \in Nat /\ variance \in [AccumID -> Nat]
  /\ Latest /\ Varied /\ Evens
  /\ FinalIsMeanUnlessSkipped /\ EstimateIsBalanced

-----------------------------------------------------------------------------
(* The sizes of bags that hold each of their instances once.               *)

LEMMA SizeOfOnce ==
  ASSUME NEW bag \in [AccumID -> Nat], NEW S \in SUBSET AccumID, IsFiniteSet(S),
         MaxFrames * MaxInstances >= 1,
         \A a \in AccumID : bag[a] = IF a \in S THEN 1 ELSE 0
  PROVE  Size(bag) = Cardinality(S)
<1> DEFINE P == {p \in AccumID \X (1 .. MaxFrames * MaxInstances) : p[2] <= bag[p[1]]}
           f == [a \in S |-> <<a, 1>>]
<1>0. MaxFrames * MaxInstances \in Nat
  BY BoundsAssumption
<1>1. \A a \in S : <<a, 1>> \in P
  BY <1>0
<1>2. \A p \in P : p[1] \in S /\ p = <<p[1], 1>>
  <2>1. SUFFICES ASSUME NEW a \in AccumID, NEW k \in 1 .. MaxFrames * MaxInstances, k <= bag[a]
                 PROVE  a \in S /\ k = 1
    OBVIOUS
  <2>2. bag[a] = IF a \in S THEN 1 ELSE 0
    OBVIOUS
  <2> QED BY <2>1, <2>2
<1>3. f \in Bijection(S, P)
  <2>1. f \in [S -> P]
    BY <1>1
  <2>2. \A a, b \in S : f[a] = f[b] => a = b
    OBVIOUS
  <2>3. \A p \in P : \E a \in S : f[a] = p
    BY <1>2
  <2> QED BY <2>1, <2>2, <2>3 DEF Bijection, Injection, Surjection, IsInjective
<1>4. ExistsBijection(S, P)
  BY <1>3 DEF ExistsBijection
<1>5. Cardinality(P) = Cardinality(S)
  BY <1>4, FS_Bijection
<1> QED BY <1>5 DEF Size

LEMMA SizeOfAll ==
  ASSUME NEW bag \in [AccumID -> Nat], NEW t \in Nat, t >= 1, t <= MaxFrames * MaxInstances,
         \A a \in AccumID : bag[a] = IF a < t THEN 1 ELSE 0
  PROVE  Size(bag) = t
<1>0. MaxFrames * MaxInstances \in Nat /\ MaxFrames * MaxInstances >= 1
  BY BoundsAssumption
<1>1. IsFiniteSet(0 .. t - 1) /\ Cardinality(0 .. t - 1) = t
  <2>1. 0 \in Int /\ t - 1 \in Int /\ (IF 0 > t - 1 THEN 0 = t ELSE (t - 1) - 0 + 1 = t)
    OBVIOUS
  <2> QED BY <2>1, FS_Interval
<1>2. 0 .. t - 1 \subseteq AccumID
  BY <1>0 DEF AccumID
<1>3. \A a \in AccumID : a \in 0 .. t - 1 <=> a < t
  <2>1. \A a \in AccumID : a \in Nat
    BY <1>0 DEF AccumID
  <2> QED BY <2>1
<1>4. \A a \in AccumID : bag[a] = IF a \in 0 .. t - 1 THEN 1 ELSE 0
  BY <1>3
<1> QED BY <1>0, <1>1, <1>2, <1>4, SizeOfOnce

LEMMA SizeButOne ==
  ASSUME NEW bag \in [AccumID -> Nat], NEW t \in Nat, t <= MaxFrames * MaxInstances,
         NEW s \in Nat, s < t,
         \A a \in AccumID : bag[a] = IF a < t /\ a # s THEN 1 ELSE 0
  PROVE  Size(bag) = t - 1
<1>0. MaxFrames * MaxInstances \in Nat /\ MaxFrames * MaxInstances >= 1
  BY BoundsAssumption
<1>1. IsFiniteSet(0 .. t - 1) /\ Cardinality(0 .. t - 1) = t
  <2>1. 0 \in Int /\ t - 1 \in Int /\ (IF 0 > t - 1 THEN 0 = t ELSE (t - 1) - 0 + 1 = t)
    OBVIOUS
  <2> QED BY <2>1, FS_Interval
<1>2. s \in 0 .. t - 1
  OBVIOUS
<1>3. IsFiniteSet((0 .. t - 1) \ {s}) /\ Cardinality((0 .. t - 1) \ {s}) = t - 1
  <2>1. PICK S : S = 0 .. t - 1
    OBVIOUS
  <2>2. IsFiniteSet(S \ {s}) /\ Cardinality(S \ {s}) = Cardinality(S) - 1
    BY <1>1, <1>2, <2>1, FS_RemoveElement
  <2> QED BY <1>1, <2>1, <2>2
<1>4. (0 .. t - 1) \ {s} \subseteq AccumID
  <2>1. \A a \in 0 .. t - 1 : a \in 0 .. MaxFrames * MaxInstances
    BY <1>0
  <2> QED BY <2>1 DEF AccumID
<1>5. \A a \in AccumID : a \in (0 .. t - 1) \ {s} <=> a < t /\ a # s
  BY <1>0 DEF AccumID
<1>6. \A a \in AccumID : bag[a] = IF a \in (0 .. t - 1) \ {s} THEN 1 ELSE 0
  BY <1>5
<1> QED BY <1>0, <1>3, <1>4, <1>6, SizeOfOnce

\* Half of the numbers below an even one are odd.
LEMMA SizeOfOdds ==
  ASSUME NEW bag \in [AccumID -> Nat], NEW h \in Nat, 2 * h <= MaxFrames * MaxInstances,
         MaxFrames * MaxInstances >= 1,
         \A a \in AccumID : bag[a] = IF a < 2 * h /\ IsOdd(a) THEN 1 ELSE 0
  PROVE  Size(bag) = h
<1> DEFINE S == {a \in 0 .. 2 * h - 1 : IsOdd(a)}
           f == [k \in 0 .. h - 1 |-> 2 * k + 1]
<1>0. MaxFrames * MaxInstances \in Nat
  BY BoundsAssumption
<1>1. IsFiniteSet(0 .. h - 1) /\ Cardinality(0 .. h - 1) = h
  <2>1. 0 \in Int /\ h - 1 \in Int /\ (IF 0 > h - 1 THEN 0 = h ELSE (h - 1) - 0 + 1 = h)
    OBVIOUS
  <2> QED BY <2>1, FS_Interval
<1>2. f \in Bijection(0 .. h - 1, S)
  <2>1. ASSUME NEW k \in 0 .. h - 1 PROVE 2 * k + 1 \in 0 .. 2 * h - 1 /\ IsOdd(2 * k + 1)
    BY DEF IsOdd
  <2>2. f \in [0 .. h - 1 -> S]
    BY <2>1
  <2>3. \A a, b \in 0 .. h - 1 : f[a] = f[b] => a = b
    OBVIOUS
  <2>4. ASSUME NEW a \in S PROVE \E k \in 0 .. h - 1 : f[k] = a
    <3>1. a \in Nat /\ a < 2 * h /\ a = 2 * (a \div 2) + 1
      BY DEF IsOdd
    <3>2. a \div 2 \in 0 .. h - 1
      BY <3>1
    <3> QED BY <3>1, <3>2
  <2> QED BY <2>2, <2>3, <2>4 DEF Bijection, Injection, Surjection, IsInjective
<1>3. IsFiniteSet(S) /\ Cardinality(S) = h
  <2>1. ExistsBijection(0 .. h - 1, S)
    BY <1>2 DEF ExistsBijection
  <2> QED BY <2>1, <1>1, FS_Bijection
<1>4. S \subseteq AccumID
  BY <1>0 DEF AccumID
<1>5. \A a \in AccumID : a \in S <=> a < 2 * h /\ IsOdd(a)
  BY <1>0 DEF AccumID
<1>6. \A a \in AccumID : bag[a] = IF a \in S THEN 1 ELSE 0
  BY <1>5
<1> HIDE DEF S
<1> QED BY <1>0, <1>3, <1>4, <1>6, SizeOfOnce

-----------------------------------------------------------------------------
(* The steps.                                                              *)

LEMMA TimesMonotone ==
  ASSUME NEW x \in Nat, NEW y \in Nat, NEW z \in Nat, x <= y
  PROVE  x * z <= y * z /\ x * z \in Nat /\ y * z \in Nat
<1>1. PICK d \in Nat : y = x + d
  BY y - x \in Nat, y = x + (y - x)
<1>2. y * z = x * z + d * z
  BY <1>1
<1>3. d * z \in Nat /\ x * z \in Nat /\ y * z \in Nat
  OBVIOUS
<1> QED BY <1>2, <1>3

\* A frame is over when everything up to the next accumID is in the sum.
LEMMA OverWhenSummed ==
  ASSUME IInv', inFrame' = FALSE, skipped' = {}
  PROVE  /\ \A b \in AccumID : accum'[b] = IF b < tileAccumID' THEN 1 ELSE 0
         /\ tileAccumID' \in Nat /\ tileAccumID' <= MaxFrames * MaxInstances
         /\ accum' \in [AccumID -> Nat]
<1>1. /\ tileAccumID' \in Nat /\ tileAccumID' <= frames' * MaxInstances
      /\ frames' \in 0 .. MaxFrames /\ accum' \in [AccumID -> Nat]
  BY DEF IInv, Types
<1>2. /\ frames' * MaxInstances <= MaxFrames * MaxInstances
      /\ frames' * MaxInstances \in Nat /\ MaxFrames * MaxInstances \in Nat
  <2>1. MaxFrames \in Nat /\ MaxInstances \in Nat /\ frames' \in Nat /\ frames' <= MaxFrames
    BY <1>1, BoundsAssumption
  <2> QED BY <2>1, TimesMonotone
<1>4. rendering' = {}
  BY DEF IInv, ToCome
<1>5. ASSUME NEW b \in AccumID PROVE accum'[b] = IF b < tileAccumID' THEN 1 ELSE 0
  <2>1. Counted(b)' <=> b < tileAccumID'
    BY <1>4 DEF Counted
  <2> QED BY <2>1 DEF IInv, Summed
<1> QED BY <1>1, <1>2, <1>5

LEMMA OddOrEven ==
  ASSUME NEW t \in Nat, t >= 1
  PROVE  /\ IsOdd(t - 1) => \E h \in Nat : t = 2 * h
         /\ ~IsOdd(t - 1) => \E h \in Nat : t - 1 = 2 * h
<1>1. CASE IsOdd(t - 1)
  <2>1. t - 1 = 2 * ((t - 1) \div 2) + 1 /\ (t - 1) \div 2 \in Nat
    BY <1>1 DEF IsOdd
  <2>2. t = 2 * ((t - 1) \div 2 + 1) /\ (t - 1) \div 2 + 1 \in Nat
    BY <2>1
  <2> QED BY <1>1, <2>2
<1>2. CASE ~IsOdd(t - 1)
  <2>1. t - 1 = 2 * ((t - 1) \div 2) /\ (t - 1) \div 2 \in Nat
    BY <1>2 DEF IsOdd
  <2> QED BY <1>2, <2>1
<1> QED BY <1>1, <1>2

LEMMA MInit == Init => MInv
<1> SUFFICES ASSUME Init PROVE MInv
  OBVIOUS
<1>1. maxAccumID \in Nat /\ variance \in [AccumID -> Nat] /\ Varied
  BY DEF Init, Empty, Varied
<1>2. Latest /\ Evens
  BY DEF Init, Latest, Evens
<1>3. FinalIsMeanUnlessSkipped /\ EstimateIsBalanced
  BY DEF Init, FinalIsMeanUnlessSkipped, FinalIsMean, EstimateIsBalanced
<1> QED BY <1>1, <1>2, <1>3 DEF MInv

LEMMA MFrame == IInv /\ MInv /\ BeginFrame => MInv'
<1> SUFFICES ASSUME IInv, MInv, BeginFrame PROVE MInv'
  OBVIOUS
<1>1. /\ ~inFrame /\ UNCHANGED <<accum, variance, final>>
      /\ maxAccumID' = 0 /\ buffered' = {} /\ estimate' = NoEstimate
  BY DEF BeginFrame, GenerateTileTasks, StaticTask, NewFrame
<1>2. Varied' /\ Evens' /\ EstimateIsBalanced' /\ variance' \in [AccumID -> Nat]
  BY <1>1 DEF MInv, Varied, Evens, EstimateIsBalanced
<1>3. Latest'
  <2>1. CASE GenerateTileTasks
    <3>1. PICK n \in 0 .. MaxInstances :
            tileAccumID' = tileAccumID + n /\ NewFrame(n, tileAccumID .. tileAccumID + n - 1)
      BY <2>1 DEF GenerateTileTasks
    <3>2. tileAccumID \in Nat /\ n \in Nat
      BY BoundsAssumption DEF IInv, Types
    <3>3. ASSUME ~writeOnce' PROVE 0 < tileAccumID' /\ tileAccumID' - 1 \in rendering'
      <4>1. n > 1
        <5>1. ~(n <= 1)
          BY <3>1, <3>3, Zenon DEF NewFrame
        <5> QED BY <3>2, <5>1
      <4>2. rendering' = tileAccumID .. tileAccumID + n - 1
        BY <3>1 DEF NewFrame
      <4> QED BY <3>1, <3>2, <4>1, <4>2
    <3> QED BY <1>1, <3>3 DEF Latest
  <2>2. CASE StaticTask
    <3>1. 0 <= 1
      OBVIOUS
    <3>2. writeOnce'
      BY <2>2, <3>1, Zenon DEF StaticTask, NewFrame
    <3> QED BY <3>2 DEF Latest
  <2> QED BY <2>1, <2>2 DEF BeginFrame
<1>4. FinalIsMeanUnlessSkipped'
  <2>1. skipped' = {} => skipped = {}
    BY DEF BeginFrame, GenerateTileTasks, StaticTask
  <2> QED BY <1>1, <2>1 DEF MInv, FinalIsMeanUnlessSkipped, FinalIsMean, Resting
<1> QED BY <1>1, <1>2, <1>3, <1>4 DEF MInv

LEMMA MOnce == ASSUME NEW a \in AccumID, IInv, MInv, ProcessOnce(a) PROVE MInv'
<1>0. IInv'
  BY NextOnce
<1>1. /\ inFrame /\ writeOnce /\ a = tileAccumID - 1 /\ tileAccumID \in Nat /\ a \in Nat
      /\ rendering = {a} /\ buffered = {}
  BY BoundsAssumption DEF IInv, ToCome, Types, ProcessOnce, AccumID
<1>2. /\ inFrame' = FALSE
      /\ UNCHANGED <<tileAccumID, skipped, writeOnce, maxAccumID, buffered>>
      /\ AccumulateTile(a, a, TRUE)
  BY DEF ProcessOnce, Complete, tileVars
<1>3. /\ accum \in [AccumID -> Nat] /\ variance \in [AccumID -> Nat] /\ Varied
      /\ \A b \in AccumID : b >= a => accum[b] = 0
  <2>1. \A b \in AccumID : b >= a => ~Counted(b)
    <3>1. ASSUME NEW b \in AccumID, b >= a PROVE b = a \/ ~(b < tileAccumID)
      BY <1>1, <3>1, BoundsAssumption DEF AccumID
    <3> QED BY <1>1, <3>1 DEF Counted
  <2> QED BY <2>1 DEF IInv, Types, Summed, MInv
<1>4. variance' \in [AccumID -> Nat] /\ Varied'
  <2>1. CASE a < 1
    <3>1. a = 0 /\ accum' = Only(a) /\ variance' = variance
      BY <1>1, <1>2, <2>1 DEF AccumulateTile
    <3>2. \A b \in AccumID : accum[b] = 0 /\ variance[b] = 0
      BY <1>3, <3>1, BoundsAssumption DEF AccumID, Varied
    <3>3. ~IsOdd(a)
      BY <3>1 DEF IsOdd
    <3> QED BY <1>3, <3>1, <3>2, <3>3 DEF Varied, Only, Empty
  <2>2. CASE a = 1
    <3>1. accum' = Add(accum, a) /\ variance' = Only(a) /\ IsOdd(a)
      BY <1>2, <2>2 DEF AccumulateTile, IsOdd
    <3>2. \A b \in AccumID : IsOdd(b) => accum[b] = 0
      <4>1. ASSUME NEW b \in AccumID, IsOdd(b) PROVE b >= a
        BY <2>2, <4>1, BoundsAssumption DEF AccumID, IsOdd
      <4> QED BY <1>3, <4>1
    <3>3. \A b \in AccumID : accum'[b] = IF b = a THEN 1 ELSE accum[b]
      BY <1>1, <1>3, <3>1, AddOne
    <3>4. variance' \in [AccumID -> Nat] /\ \A b \in AccumID : variance'[b] = IF b = a THEN 1 ELSE 0
      BY <3>1 DEF Only, Empty
    <3> QED BY <3>1, <3>2, <3>3, <3>4 DEF Varied
  <2>3. CASE a > 1
    <3>1. /\ accum' = Add(accum, a)
          /\ variance' = IF IsOdd(a) THEN Add(variance, a) ELSE variance
      BY <1>1, <1>2, <2>3 DEF AccumulateTile
    <3>2. \A b \in AccumID : accum'[b] = IF b = a THEN accum[b] + 1 ELSE accum[b]
      BY <1>3, <3>1, AddOne
    <3>3. variance' \in [AccumID -> Nat]
          /\ \A b \in AccumID : variance'[b] = IF b = a /\ IsOdd(a) THEN variance[b] + 1 ELSE variance[b]
      <4>1. CASE IsOdd(a)
        BY <1>3, <3>1, <4>1, AddOne
      <4>2. CASE ~IsOdd(a)
        BY <1>3, <3>1, <4>2
      <4> QED BY <4>1, <4>2
    <3> QED BY <1>3, <3>2, <3>3 DEF Varied
  <2> QED BY <1>1, <2>1, <2>2, <2>3
<1>5. /\ skipped = {} => Size(accum') = tileAccumID
      /\ tileAccumID >= 1 /\ (skipped = {} => tileAccumID <= MaxFrames * MaxInstances)
  <2>1. tileAccumID >= 1
    BY <1>1
  <2> QED BY <1>0, <1>2, <2>1, OverWhenSummed, SizeOfAll
<1>6. FinalIsMeanUnlessSkipped'
  <2>1. final' = [samples |-> Size(accum'), scale |-> a + 1] \/ (a < 1 /\ final' = [samples |-> 1, scale |-> 1])
    BY <1>2 DEF AccumulateTile
  <2>2. skipped = {} => Size(accum') = a + 1
    BY <1>1, <1>5
  <2> QED BY <1>2, <2>1, <2>2 DEF FinalIsMeanUnlessSkipped, FinalIsMean
<1>7. EstimateIsBalanced'
  <2>1. CASE a >= 1 /\ IsOdd(a)
    <3>1. SUFFICES ASSUME skipped = {}
                   PROVE  /\ estimate'.accum = estimate'.accumID + 1
                          /\ 2 * estimate'.variance = estimate'.accumID + 1
      BY <1>2 DEF EstimateIsBalanced
    <3>2. estimate' = [accum |-> Size(accum'), variance |-> Size(variance'), accumID |-> a]
      BY <1>1, <1>2, <2>1 DEF AccumulateTile
    <3>3. PICK h \in Nat : tileAccumID = 2 * h
      BY <1>1, <2>1, OddOrEven
    <3>4. \A b \in AccumID : variance'[b] = IF b < 2 * h /\ IsOdd(b) THEN 1 ELSE 0
      BY <1>0, <1>2, <1>4, <3>1, <3>3, OverWhenSummed DEF Varied
    <3>5. MaxFrames * MaxInstances >= 1 /\ 2 * h <= MaxFrames * MaxInstances
      BY <1>5, <3>1, <3>3, BoundsAssumption
    <3>6. Size(variance') = h
      BY <1>4, <3>4, <3>5, SizeOfOdds
    <3> QED BY <1>1, <1>5, <3>1, <3>2, <3>3, <3>6
  <2>2. CASE ~(a >= 1 /\ IsOdd(a))
    <3>1. estimate' = estimate
      BY <1>1, <1>2, <2>2 DEF AccumulateTile
    <3> QED BY <1>2, <3>1 DEF MInv, EstimateIsBalanced
  <2> QED BY <2>1, <2>2
<1>8. Latest' /\ Evens' /\ maxAccumID' \in Nat
  BY <1>2 DEF MInv, Latest, Evens
<1> QED BY <1>4, <1>6, <1>7, <1>8 DEF MInv

LEMMA MLocked == ASSUME NEW a \in AccumID, IInv, MInv, ProcessLocked(a) PROVE MInv'
<1>1. /\ inFrame /\ ~writeOnce /\ a \in rendering /\ rendering' = rendering \ {a}
      /\ a \in Nat /\ a < tileAccumID /\ tileAccumID \in Nat /\ maxAccumID \in Nat
      /\ inFrame' = inFrame /\ UNCHANGED <<tileAccumID, skipped, writeOnce, final, estimate>>
      /\ maxAccumID' = IF a > maxAccumID THEN a ELSE maxAccumID
  BY DEF IInv, ToCome, Types, ProcessLocked, MInv
<1>2. Latest' /\ maxAccumID' \in Nat
  <2>1. maxAccumID < tileAccumID /\ (tileAccumID - 1 \in rendering \/ maxAccumID = tileAccumID - 1)
    BY <1>1 DEF MInv, Latest
  <2>2. maxAccumID' \in Nat /\ maxAccumID' < tileAccumID /\ maxAccumID' >= maxAccumID /\ maxAccumID' >= a
    BY <1>1, <2>1
  <2>3. CASE tileAccumID - 1 \in rendering /\ a # tileAccumID - 1
    BY <1>1, <2>2, <2>3 DEF Latest
  <2>4. CASE maxAccumID = tileAccumID - 1 \/ a = tileAccumID - 1
    <3>1. maxAccumID' = tileAccumID - 1
      BY <1>1, <2>2, <2>4
    <3> QED BY <1>1, <2>2, <3>1 DEF Latest
  <2> QED BY <2>1, <2>2, <2>3, <2>4
<1>3. /\ accum \in [AccumID -> Nat] /\ variance \in [AccumID -> Nat] /\ Varied /\ Evens
  BY DEF IInv, Types, MInv
<1>4. variance' \in [AccumID -> Nat] /\ Varied' /\ Evens'
  <2>1. CASE buffered = {} /\ ~IsOdd(a)
    <3>1. buffered' = {a} /\ UNCHANGED <<accum, variance>>
      BY <2>1 DEF ProcessLocked
    <3> QED BY <1>3, <2>1, <3>1 DEF Varied, Evens
  <2>2. CASE ~(buffered = {} /\ ~IsOdd(a))
    <3>1. /\ buffered' = buffered /\ accum' = Add(accum, a)
          /\ variance' = IF IsOdd(a) THEN Add(variance, a) ELSE variance
      BY <2>2 DEF ProcessLocked, AccumulateSimple
    <3>2. \A b \in AccumID : accum'[b] = IF b = a THEN accum[b] + 1 ELSE accum[b]
      BY <1>3, <3>1, AddOne
    <3>3. variance' \in [AccumID -> Nat]
          /\ \A b \in AccumID : variance'[b] = IF b = a /\ IsOdd(a) THEN variance[b] + 1 ELSE variance[b]
      <4>1. CASE IsOdd(a)
        BY <1>3, <3>1, <4>1, AddOne
      <4>2. CASE ~IsOdd(a)
        BY <1>3, <3>1, <4>2
      <4> QED BY <4>1, <4>2
    <3> QED BY <1>3, <3>1, <3>2, <3>3 DEF Varied, Evens
  <2> QED BY <2>1, <2>2
<1>5. FinalIsMeanUnlessSkipped'
  BY <1>1 DEF FinalIsMeanUnlessSkipped, FinalIsMean, Resting
<1>6. EstimateIsBalanced'
  BY <1>1 DEF MInv, EstimateIsBalanced
<1> QED BY <1>2, <1>4, <1>5, <1>6 DEF MInv

LEMMA MLast == IInv /\ MInv /\ ProcessLast => MInv'
<1> SUFFICES ASSUME IInv, MInv, ProcessLast PROVE MInv'
  OBVIOUS
<1>0. IInv'
  BY NextLast
<1>1. PICK s \in buffered :
        /\ accum' = Add(accum, s)
        /\ final' = [samples |-> Size(accum'), scale |-> maxAccumID + 1]
        /\ estimate' = IF IsOdd(maxAccumID) THEN Estimate(accum', variance, maxAccumID)
                                            ELSE Estimate(accum, variance, maxAccumID - 1)
  BY DEF ProcessLast
<1>2. /\ last = "yes" /\ inFrame' = FALSE
      /\ UNCHANGED <<tileAccumID, skipped, rendering, writeOnce, maxAccumID, buffered, variance>>
  BY DEF ProcessLast, Complete
<1>3. /\ inFrame /\ ~writeOnce /\ rendering = {} /\ s \in AccumID /\ s < tileAccumID /\ s \in Nat
      /\ tileAccumID \in Nat /\ maxAccumID \in Nat /\ maxAccumID = tileAccumID - 1 /\ ~IsOdd(s)
  <2>1. inFrame /\ ~writeOnce /\ rendering = {} /\ s < tileAccumID /\ s \in Nat
        /\ s < MaxFrames * MaxInstances
    BY <1>1, <1>2 DEF IInv, ToCome, Types
  <2>2. s \in AccumID
    BY <2>1, BoundsAssumption DEF AccumID
  <2> QED BY <1>1, <2>1, <2>2 DEF IInv, Types, MInv, Latest, Evens
<1>4. /\ accum \in [AccumID -> Nat] /\ variance \in [AccumID -> Nat] /\ Varied
      /\ \A b \in AccumID : accum'[b] = IF b = s THEN accum[b] + 1 ELSE accum[b]
      /\ accum[s] = 0
  <2>1. accum \in [AccumID -> Nat] /\ variance \in [AccumID -> Nat] /\ Varied
    BY DEF IInv, Types, MInv
  <2>2. ~Counted(s)
    BY <1>1, <1>3 DEF Counted
  <2> QED BY <1>1, <1>3, <2>1, <2>2, AddOne DEF IInv, Summed
<1>5. Varied'
  BY <1>2, <1>3, <1>4 DEF Varied
<1>6. ASSUME skipped = {}
      PROVE  /\ Size(accum') = tileAccumID
             /\ EstimateIsBalanced'
  <2>1. /\ \A b \in AccumID : accum'[b] = IF b < tileAccumID THEN 1 ELSE 0
        /\ tileAccumID <= MaxFrames * MaxInstances /\ accum' \in [AccumID -> Nat]
    BY <1>0, <1>2, <1>6, OverWhenSummed
  <2>2. tileAccumID >= 1
    BY <1>3
  <2>3. Size(accum') = tileAccumID
    BY <1>3, <2>1, <2>2, SizeOfAll
  <2>4. MaxFrames * MaxInstances >= 1
    BY <1>3, <2>1, <2>2, BoundsAssumption
  <2>5. \A b \in AccumID : b \in Nat
    BY BoundsAssumption DEF AccumID
  <2>6. CASE IsOdd(maxAccumID)
    <3>1. PICK h \in Nat : tileAccumID = 2 * h
      BY <1>3, <2>2, <2>6, OddOrEven
    <3>2. \A b \in AccumID : variance[b] = IF b < 2 * h /\ IsOdd(b) THEN 1 ELSE 0
      BY <1>2, <1>5, <2>1, <3>1 DEF Varied
    <3>3. Size(variance) = h
      BY <1>4, <2>1, <2>4, <3>1, <3>2, SizeOfOdds
    <3>4. estimate' = [accum |-> Size(accum'), variance |-> Size(variance), accumID |-> maxAccumID]
      BY <1>1, <2>6 DEF Estimate
    <3>5. /\ estimate'.accum = estimate'.accumID + 1
          /\ 2 * estimate'.variance = estimate'.accumID + 1
      BY <1>3, <2>3, <3>1, <3>3, <3>4
    <3> QED BY <2>3, <3>5 DEF EstimateIsBalanced
  <2>7. CASE ~IsOdd(maxAccumID)
    <3>1. PICK h \in Nat : tileAccumID - 1 = 2 * h
      BY <1>3, <2>2, <2>7, OddOrEven
    <3>2. \A b \in AccumID : IsOdd(b) => (b < tileAccumID <=> b < 2 * h)
      BY <1>3, <2>5, <2>7, <3>1
    <3>3. \A b \in AccumID : variance[b] = IF b < 2 * h /\ IsOdd(b) THEN 1 ELSE 0
      BY <1>2, <1>5, <2>1, <3>2 DEF Varied
    <3>4. 2 * h <= MaxFrames * MaxInstances
      BY <1>3, <2>1, <3>1, BoundsAssumption
    <3>5. Size(variance) = h
      BY <1>4, <2>4, <3>3, <3>4, SizeOfOdds
    <3>6. \A b \in AccumID : accum[b] = IF b < tileAccumID /\ b # s THEN 1 ELSE 0
      BY <1>3, <1>4, <2>1
    <3>7. Size(accum) = tileAccumID - 1
      BY <1>3, <1>4, <2>1, <3>6, SizeButOne
    <3>8. estimate' = [accum |-> Size(accum), variance |-> Size(variance), accumID |-> maxAccumID - 1]
      BY <1>1, <2>7 DEF Estimate
    <3>9. /\ estimate'.accum = estimate'.accumID + 1
          /\ 2 * estimate'.variance = estimate'.accumID + 1
      BY <1>3, <3>1, <3>5, <3>7, <3>8
    <3> QED BY <2>3, <3>9 DEF EstimateIsBalanced
  <2> QED BY <2>3, <2>6, <2>7
<1>7. FinalIsMeanUnlessSkipped' /\ EstimateIsBalanced'
  <2>1. CASE skipped # {}
    BY <1>2, <2>1 DEF FinalIsMeanUnlessSkipped, EstimateIsBalanced
  <2>2. CASE skipped = {}
    <3>1. final'.samples = final'.scale
      BY <1>1, <1>3, <1>6, <2>2
    <3> QED BY <1>6, <2>2, <3>1 DEF FinalIsMeanUnlessSkipped, FinalIsMean
  <2> QED BY <2>1, <2>2
<1>8. Latest' /\ Evens' /\ maxAccumID' \in Nat /\ variance' \in [AccumID -> Nat]
  BY <1>2 DEF MInv, Latest, Evens
<1> QED BY <1>5, <1>7, <1>8 DEF MInv

LEMMA MClear == IInv /\ MInv /\ Clear => MInv'
<1> SUFFICES ASSUME IInv, MInv, Clear PROVE MInv'
  OBVIOUS
<1>1. /\ ~inFrame /\ accum' = Empty /\ variance' = Empty /\ inFrame' = inFrame
      /\ final' = [samples |-> 0, scale |-> 0] /\ estimate' = NoEstimate
      /\ UNCHANGED <<maxAccumID, buffered>>
  BY DEF Clear, tileVars
<1>2. variance' \in [AccumID -> Nat] /\ Varied' /\ maxAccumID' \in Nat
  BY <1>1 DEF Varied, Empty, MInv
<1>3. Latest' /\ Evens'
  BY <1>1 DEF Latest, Evens, MInv
<1>4. FinalIsMeanUnlessSkipped' /\ EstimateIsBalanced'
  BY <1>1 DEF FinalIsMeanUnlessSkipped, FinalIsMean, EstimateIsBalanced
<1> QED BY <1>2, <1>3, <1>4 DEF MInv

LEMMA MNext == IInv /\ MInv /\ [Next]_vars => MInv'
<1> SUFFICES ASSUME IInv, MInv, [Next]_vars PROVE MInv'
  OBVIOUS
<1>1. CASE ThresholdChanges \/ UNCHANGED vars
  <2>1. UNCHANGED <<inFrame, writeOnce, tileAccumID, skipped, rendering, maxAccumID, buffered,
                    accum, variance, final, estimate>>
    BY <1>1 DEF ThresholdChanges, vars, tileVars, bufferVars
  <2>2. maxAccumID' \in Nat /\ variance' \in [AccumID -> Nat] /\ Latest' /\ Varied' /\ Evens'
    BY <2>1 DEF MInv, Latest, Varied, Evens
  <2>3. FinalIsMeanUnlessSkipped' /\ EstimateIsBalanced'
    BY <2>1 DEF MInv, FinalIsMeanUnlessSkipped, FinalIsMean, Resting, EstimateIsBalanced
  <2> QED BY <2>2, <2>3 DEF MInv
<1> QED BY <1>1, MFrame, MOnce, MLocked, MLast, MClear DEF Next

LEMMA MeanInvariance == Spec => [](IInv /\ MInv)
BY InitIInv, NextIInv, MInit, MNext, PTL DEF Spec

\* What is shown is divided by the number of instances in it, as long as no
\* accumID was taken and not rendered (DFB_accumulateTile, the maxAccumID of
\* WriteMultipleTile::process).
THEOREM ShownIsMean == Spec => []FinalIsMeanUnlessSkipped
<1>1. MInv => FinalIsMeanUnlessSkipped
  BY DEF MInv
<1> QED BY <1>1, MeanInvariance, PTL

\* The error compares the sum of all with the sum of exactly half of them,
\* each divided by what is in it, whether a frame ends with an odd or an even
\* accumID (WriteMultipleTile::process).
THEOREM EstimatesBalance == Spec => []EstimateIsBalanced
<1>1. MInv => EstimateIsBalanced
  BY DEF MInv
<1> QED BY <1>1, MeanInvariance, PTL
-----------------------------------------------------------------------------
(* The types.  An even instance is still coming until one is set aside.    *)

WriteTypes ==
  /\ instances <= MaxInstances
  /\ tileError \in {"inf", "high", "low"} /\ last \in {"no", "yes"}
  /\ maxAccumID \in AccumID /\ rendering \subseteq AccumID /\ skipped \subseteq AccumID
  /\ buffered \in {{}} \cup {{a} : a \in {b \in AccumID : ~IsOdd(b)}}
  /\ inFrame /\ ~writeOnce => (buffered # {} \/ \E a \in rendering : ~IsOdd(a))

LEMMA WInit == Init => WriteTypes
<1> SUFFICES ASSUME Init PROVE WriteTypes
  OBVIOUS
<1>1. MaxFrames * MaxInstances \in Nat /\ MaxInstances \in Nat
  BY BoundsAssumption
<1>2. 0 \in AccumID
  BY <1>1 DEF AccumID
<1> QED BY <1>1, <1>2 DEF Init, WriteTypes

LEMMA WFrame == ASSUME IInv, WriteTypes, BeginFrame PROVE WriteTypes'
<1>1. /\ ~inFrame /\ tileError' = tileError /\ last' = last /\ buffered' = {} /\ maxAccumID' = 0
      /\ frames \in 0 .. MaxFrames /\ frames < MaxFrames
      /\ tileAccumID \in Nat /\ tileAccumID <= frames * MaxInstances
      /\ MaxFrames * MaxInstances \in Nat /\ MaxInstances \in Nat \ {0}
  BY BoundsAssumption DEF BeginFrame, GenerateTileTasks, StaticTask, NewFrame, IInv, Types
<1>2. 0 \in AccumID
  BY <1>1 DEF AccumID
<1>3. PICK n, ids, m :
        /\ n \in 0 .. MaxInstances /\ m \in {0, n}
        /\ rendering' = ids /\ instances' = m /\ writeOnce' = (m <= 1)
        /\ (ids = {} \/ ids = tileAccumID .. tileAccumID + n - 1)
        /\ m > 1 => ids = tileAccumID .. tileAccumID + n - 1
        /\ skipped' \in {skipped, skipped \cup {tileAccumID}}
  <2>1. CASE GenerateTileTasks
    BY <2>1 DEF GenerateTileTasks, NewFrame
  <2>2. CASE StaticTask
    <3>1. 1 \in 0 .. MaxInstances /\ {tileAccumID} = tileAccumID .. tileAccumID + 1 - 1
      BY <1>1
    <3>2. \E ids \in {{}, {tileAccumID}} :
            /\ rendering' = ids /\ instances' = 0 /\ writeOnce' = (0 <= 1)
            /\ skipped' \in {skipped, skipped \cup {tileAccumID}}
      BY <2>2 DEF StaticTask, NewFrame
    <3>3. ~(0 > 1) /\ 0 \in {0, 1}
      OBVIOUS
    <3> QED BY <3>1, <3>2, <3>3
  <2> QED BY <2>1, <2>2 DEF BeginFrame
<1>4. n \in Nat /\ n <= MaxInstances /\ m \in Nat /\ m <= MaxInstances
  BY <1>1, <1>3
<1>5. \A a \in tileAccumID .. tileAccumID + n - 1 : a \in AccumID
  <2>1. tileAccumID + n <= MaxFrames * MaxInstances
    BY <1>1, <1>3, Bound
  <2> QED BY <1>1, <1>4, <2>1 DEF AccumID
<1>6. tileAccumID \in AccumID
  <2>1. tileAccumID + 0 <= MaxFrames * MaxInstances
    BY <1>1, 0 \in 0 .. MaxInstances, Bound
  <2> QED BY <1>1, <2>1 DEF AccumID
<1>7. rendering' \subseteq AccumID /\ skipped' \subseteq AccumID
  BY <1>3, <1>5, <1>6 DEF WriteTypes
<1>8. m > 1 => \E a \in ids : ~IsOdd(a)
  <2> SUFFICES ASSUME m > 1 PROVE \E a \in ids : ~IsOdd(a)
    OBVIOUS
  <2>1. n > 1
    BY <1>3, <1>4
  <2>2. /\ tileAccumID \in tileAccumID .. tileAccumID + n - 1
        /\ tileAccumID + 1 \in tileAccumID .. tileAccumID + n - 1
    BY <1>1, <1>4, <2>1
  <2>3. ~IsOdd(tileAccumID) \/ ~IsOdd(tileAccumID + 1)
    BY <1>1 DEF IsOdd
  <2> QED BY <1>3, <2>2, <2>3
<1>9. ~writeOnce' => m > 1
  <2>1. writeOnce' = (m <= 1)
    BY <1>3
  <2>2. ~writeOnce' => ~(m <= 1)
    BY <2>1, Zenon
  <2> QED BY <1>4, <2>2
<1> QED BY <1>1, <1>2, <1>3, <1>4, <1>7, <1>8, <1>9 DEF WriteTypes

LEMMA WNext == IInv /\ WriteTypes /\ [Next]_vars => WriteTypes'
<1> SUFFICES ASSUME IInv, WriteTypes, [Next]_vars PROVE WriteTypes'
  OBVIOUS
<1>1. CASE UNCHANGED vars
  BY <1>1 DEF WriteTypes, vars, tileVars
<1>2. CASE BeginFrame
  BY <1>2, WFrame
<1>3. ASSUME NEW a \in AccumID, ProcessOnce(a) PROVE WriteTypes'
  <2>1. /\ inFrame' = FALSE /\ rendering' \subseteq rendering
        /\ tileError' \in {tileError, "low", "high"}
        /\ UNCHANGED <<skipped, instances, writeOnce, maxAccumID, buffered, last>>
    BY <1>3 DEF ProcessOnce, Complete, tileVars
  <2> QED BY <2>1 DEF WriteTypes
<1>4. ASSUME NEW a \in AccumID, ProcessLocked(a) PROVE WriteTypes'
  <2>1. /\ a \in rendering /\ rendering' = rendering \ {a} /\ instances' = instances - 1
        /\ maxAccumID' \in {a, maxAccumID} /\ last' \in {"yes", last}
        /\ buffered' = (IF buffered = {} /\ ~IsOdd(a) THEN {a} ELSE buffered)
        /\ UNCHANGED <<inFrame, skipped, tileError, writeOnce>>
    BY <1>4 DEF ProcessLocked
  <2>2. instances \in Nat /\ instances <= MaxInstances /\ MaxInstances \in Nat
    BY BoundsAssumption DEF IInv, Types, WriteTypes
  <2>3. instances' <= MaxInstances
    BY <2>1, <2>2
  <2>4. buffered' \in {{}} \cup {{x} : x \in {b \in AccumID : ~IsOdd(b)}}
    BY <2>1 DEF WriteTypes
  <2>5. inFrame' /\ ~writeOnce' => (buffered' # {} \/ \E x \in rendering' : ~IsOdd(x))
    <3>1. CASE ~IsOdd(a)
      BY <2>1, <3>1
    <3>2. CASE IsOdd(a)
      BY <2>1, <3>2 DEF WriteTypes
    <3> QED BY <3>1, <3>2
  <2> QED BY <2>1, <2>3, <2>4, <2>5 DEF WriteTypes
<1>5. CASE ProcessLast
  <2>1. /\ inFrame' = FALSE /\ last' = "no"
        /\ tileError' \in {tileError, "low", "high"}
        /\ UNCHANGED <<skipped, rendering, instances, maxAccumID, buffered>>
    BY <1>5 DEF ProcessLast, Complete
  <2> QED BY <2>1 DEF WriteTypes
<1>6. CASE Clear
  <2>1. /\ ~inFrame /\ inFrame' = inFrame /\ tileError' = "inf" /\ skipped' = {}
        /\ UNCHANGED <<rendering, instances, maxAccumID, buffered, last>>
    BY <1>6 DEF Clear, tileVars
  <2> QED BY <2>1 DEF WriteTypes
<1>7. CASE ThresholdChanges
  <2>1. /\ tileError' \in {"low", "high"}
        /\ UNCHANGED <<inFrame, skipped, rendering, instances, writeOnce, maxAccumID, buffered, last>>
    BY <1>7 DEF ThresholdChanges, tileVars
  <2> QED BY <2>1 DEF WriteTypes
<1> QED BY <1>1, <1>2, <1>3, <1>4, <1>5, <1>6, <1>7 DEF Next

LEMMA WriteTyped == ASSUME IInv, MInv, WriteTypes PROVE TypeOK
<1>1. /\ tileAccumID \in Nat /\ tileAccumID <= MaxFrames * MaxInstances
      /\ MaxFrames * MaxInstances \in Nat /\ instances \in 0 .. MaxInstances
  <2>1. frames \in 0 .. MaxFrames /\ tileAccumID \in Nat /\ tileAccumID <= frames * MaxInstances
    BY DEF IInv, Types
  <2>2. MaxFrames \in Nat /\ MaxInstances \in Nat /\ frames \in Nat /\ frames <= MaxFrames
    BY <2>1, BoundsAssumption
  <2>3. frames * MaxInstances <= MaxFrames * MaxInstances
    BY <2>2, TimesMonotone
  <2>4. frames * MaxInstances \in Nat /\ MaxFrames * MaxInstances \in Nat
    BY <2>2, TimesMonotone
  <2>5. instances \in Nat /\ instances <= MaxInstances
    BY DEF IInv, Types, WriteTypes
  <2> QED BY <2>1, <2>2, <2>3, <2>4, <2>5
<1>2. \A a \in AccumID : accum[a] \in 0 .. MaxFrames * MaxInstances
  <2> SUFFICES ASSUME NEW a \in AccumID, Counted(a), accum[a] = 1
               PROVE  accum[a] \in 0 .. MaxFrames * MaxInstances
    BY <1>1 DEF IInv, Summed
  <2>1. a \in Nat /\ a < tileAccumID
    BY <1>1 DEF AccumID, Counted
  <2> QED BY <1>1, <2>1
<1>3. accum \in Bag
  BY <1>2 DEF Bag, IInv, Types
<1>4. variance \in Bag
  <2>1. \A a \in AccumID : variance[a] \in {0, accum[a]}
    BY DEF MInv, Varied
  <2>2. 0 \in 0 .. MaxFrames * MaxInstances
    BY <1>1
  <2> QED BY <1>2, <2>1, <2>2 DEF Bag, MInv
<1>5. tileAccumID \in AccumID
  BY <1>1 DEF AccumID
<1>6. last = "yes" => buffered # {}
  <2> SUFFICES ASSUME last = "yes" PROVE buffered # {}
    OBVIOUS
  <2>1. inFrame /\ ~writeOnce /\ rendering = {}
    BY DEF IInv, ToCome
  <2> QED BY <2>1 DEF WriteTypes
<1> QED BY <1>1, <1>3, <1>4, <1>5, <1>6 DEF TypeOK, WriteTypes, IInv, Types
=============================================================================
