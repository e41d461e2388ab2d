-------------------------- MODULE LocalFrame_proofs --------------------------
(***************************************************************************)
(* The local device shows means of a tile's instances, and is a            *)
(* FrameService, for every number of tiles and frames.                     *)
(***************************************************************************)
EXTENDS LocalFrame, TLAPS

Instances == Nat \X Nat

Types ==
  /\ rendering \in BOOLEAN /\ cancel \in BOOLEAN
  /\ step \in [Tile -> {"start", "render", "report", "telling", "done"}]
  /\ accumID \in [Tile -> Nat] /\ tileAccumID \in [Tile -> Nat]
  /\ accum \in [Tile -> Seq(Instances)] /\ variance \in [Tile -> Seq(Instances)]
  /\ colors \in [Tile -> Nat] /\ mapped \in [Tile -> Nat]
  /\ finished \in Nat /\ cleared \in Nat /\ below \subseteq Tile

\* What a task knows: the frame waits for it, nobody else counts instances of
\* its tile, and the tile has not converged.
TaskOwnsTile ==
  /\ cleared <= finished
  /\ ~rendering => \A t \in Tile : step[t] = "done"
  /\ \A t \in Tile :
       step[t] = "render" => accumID[t] = tileAccumID[t] /\ t \notin below

\* Where the colours of a tile are from, by the progress of its task.
ColorsFollowTask ==
  /\ ~rendering => colors = mapped
  /\ \A t \in Tile :
       /\ colors[t] = mapped[t] \/ (t \notin below /\ colors[t] = finished + 1)
       /\ step[t] \in {"report", "telling"} => colors[t] = finished + 1
       /\ rendering /\ ~cancel /\ step[t] = "done"
            => t \in below \/ colors[t] = finished + 1

IInv == Types /\ TaskOwnsTile /\ TilesAreMeans /\ ColorsFollowTask

\* What the application sees of the local device.
Service == INSTANCE FrameService WITH
  inPlace <- TRUE, conv <- below, shown <- mapped

ImplementsService == Service!Spec

-----------------------------------------------------------------------------
\* The constructor of the frame buffer.
LEMMA InitIInv == Init => IInv
<1> SUFFICES ASSUME Init
             PROVE  IInv
  OBVIOUS
<1>1. Types
  <2>1. <<>> \in Seq(Instances)
    OBVIOUS
  <2>2. QED
    BY <2>1 DEF Init, Types
<1>2. TaskOwnsTile /\ ColorsFollowTask
  BY DEF Init, TaskOwnsTile, ColorsFollowTask
<1>3. TilesAreMeans
  BY DEF Init, TilesAreMeans
<1>4. QED
  BY <1>1, <1>2, <1>3 DEF IInv

\* The variables keep their types.
LEMMA NextTypes == Types /\ [Next]_vars => Types'
<1> SUFFICES ASSUME Types, [Next]_vars
             PROVE  Types'
  OBVIOUS
<1> USE DEF Types, Goto, buffers, frames
<1>1. CASE BeginFrame
  BY <1>1 DEF BeginFrame
<1>2. CASE EndFrame
  <2>1. below' \subseteq Tile
    BY <1>2 DEF EndFrame
  <2>2. rendering' = FALSE /\ finished' = finished + 1 /\ mapped' = colors
    BY <1>2 DEF EndFrame
  <2>3. UNCHANGED <<step, accumID, cancel, tileAccumID, accum, variance, colors, cleared>>
    BY <1>2 DEF EndFrame
  <2>4. rendering' \in BOOLEAN /\ cancel' \in BOOLEAN
    BY <2>2, <2>3
  <2>5. finished' \in Nat /\ mapped' \in [Tile -> Nat]
    BY <2>2
  <2>6. QED
    BY <2>1, <2>3, <2>4, <2>5
<1>3. CASE Clear
  BY <1>3 DEF Clear
<1>4. ASSUME NEW t \in Tile, StartTile(t)
      PROVE  Types'
  BY <1>4 DEF StartTile
<1>5. ASSUME NEW t \in Tile, SetTile(t)
      PROVE  Types'
  <2> DEFINE inst == <<accumID[t], finished + 1>>
  <2>1. inst \in Instances
    BY DEF Instances
  <2>2. <<inst>> \in Seq(Instances)
    <3> HIDE DEF inst
    <3>1. QED
      BY <2>1
  <2>3. Append(accum[t], inst) \in Seq(Instances) /\ Append(variance[t], inst) \in Seq(Instances)
    <3> HIDE DEF inst
    <3>1. QED
      BY <2>1
  <2>4. accum' \in [Tile -> Seq(Instances)]
    BY <1>5, <2>2, <2>3 DEF SetTile
  <2>5. variance' \in [Tile -> Seq(Instances)]
    BY <1>5, <2>2, <2>3 DEF SetTile
  <2>6. QED
    BY <1>5, <2>4, <2>5 DEF SetTile
<1>6. ASSUME NEW t \in Tile, ReportProgress(t)
      PROVE  Types'
  BY <1>6 DEF ReportProgress
<1>7. ASSUME NEW t \in Tile, CallbackReturns(t)
      PROVE  Types'
  BY <1>7 DEF CallbackReturns
<1>8. CASE UNCHANGED vars
  BY <1>8 DEF vars
<1>9. QED
  BY <1>1, <1>2, <1>3, <1>4, <1>5, <1>6, <1>7, <1>8 DEF Next

\* A task keeps its tile to itself.
LEMMA NextTasks == IInv /\ [Next]_vars => TaskOwnsTile'
<1> SUFFICES ASSUME IInv, [Next]_vars
             PROVE  TaskOwnsTile'
  OBVIOUS
<1> USE DEF IInv, Types, TaskOwnsTile, Goto, buffers, frames
<1>1. CASE BeginFrame
  BY <1>1 DEF BeginFrame
<1>2. CASE EndFrame
  BY <1>2 DEF EndFrame
<1>3. CASE Clear
  BY <1>3 DEF Clear
<1>4. ASSUME NEW t \in Tile, StartTile(t)
      PROVE  TaskOwnsTile'
  BY <1>4 DEF StartTile
<1>5. ASSUME NEW t \in Tile, SetTile(t)
      PROVE  TaskOwnsTile'
  BY <1>5 DEF SetTile
<1>6. ASSUME NEW t \in Tile, ReportProgress(t)
      PROVE  TaskOwnsTile'
  BY <1>6 DEF ReportProgress
<1>7. ASSUME NEW t \in Tile, CallbackReturns(t)
      PROVE  TaskOwnsTile'
  BY <1>7 DEF CallbackReturns
<1>8. CASE UNCHANGED vars
  BY <1>8 DEF vars
<1>9. QED
  BY <1>1, <1>2, <1>3, <1>4, <1>5, <1>6, <1>7, <1>8 DEF Next

-----------------------------------------------------------------------------
\* What TilesAreMeans says of a tile with n instances, for a sum, a variance
\* and the frame of the last clear.
MeansOf(n, sum, var, since) ==
  n > 0 =>
    /\ Len(sum) = n
    /\ n >= 2 => Len(var) = n \div 2
    /\ \A k \in 1 .. n :
         /\ sum[k][1] = k - 1 /\ sum[k][2] > since
         /\ k % 2 = 0 => var[k \div 2] = sum[k]

\* accumulateTile: one more instance, added to the sum, and to the variance if
\* its accumID is odd, keeps them balanced.
LEMMA OneMore ==
  ASSUME NEW n \in Nat, NEW sum \in Seq(Instances), NEW var \in Seq(Instances),
         NEW since \in Nat, NEW f \in Nat, f > since, MeansOf(n, sum, var, since)
  PROVE  MeansOf(n + 1,
           IF n = 0 THEN <<<<n, f>>>> ELSE Append(sum, <<n, f>>),
           IF n % 2 = 0 THEN var
           ELSE IF n = 1 THEN <<<<n, f>>>> ELSE Append(var, <<n, f>>),
           since)
<1> DEFINE inst == <<n, f>>
           sum2 == IF n = 0 THEN <<inst>> ELSE Append(sum, inst)
           var2 == IF n % 2 = 0 THEN var
                   ELSE IF n = 1 THEN <<inst>> ELSE Append(var, inst)
<1>0. inst \in Instances /\ inst[1] = n /\ inst[2] = f
  BY DEF Instances
<1>a. SUFFICES MeansOf(n + 1, sum2, var2, since)
  OBVIOUS
<1> HIDE DEF inst
<1>1. Len(sum2) = n + 1 /\ sum2[n + 1] = inst /\ \A k \in 1 .. n : sum2[k] = sum[k]
  <2>1. CASE n = 0
    BY <2>1
  <2>2. CASE n > 0
    BY <1>0, <2>2 DEF MeansOf
  <2>3. QED
    BY <2>1, <2>2
<1>b. \A k \in 1 .. n + 1 : sum2[k][1] = k - 1 /\ sum2[k][2] > since
  <2>1. SUFFICES ASSUME NEW k \in 1 .. n + 1
                 PROVE  sum2[k][1] = k - 1 /\ sum2[k][2] > since
    OBVIOUS
  <2>2. CASE k = n + 1
    BY <1>0, <1>1, <2>2
  <2>3. CASE k # n + 1
    <3>1. n > 0 /\ k \in 1 .. n /\ sum2[k] = sum[k]
      BY <1>1, <2>3
    <3>2. QED
      BY <3>1 DEF MeansOf
  <2>4. QED
    BY <2>2, <2>3
<1> HIDE DEF sum2
<1>2. CASE n % 2 = 0
  <2>1. (n + 1) \div 2 = n \div 2 /\ (n + 1) % 2 # 0 /\ (n + 1 >= 2 => n >= 2)
    BY <1>2
  <2>2. var2 = var
    BY <1>2
  <2> HIDE DEF var2
  <2>3. n + 1 >= 2 => Len(var2) = (n + 1) \div 2
    BY <2>1, <2>2 DEF MeansOf
  <2>4. ASSUME NEW k \in 1 .. n + 1, k % 2 = 0
        PROVE  var2[k \div 2] = sum2[k]
    <3>1. n > 0 /\ k \in 1 .. n
      BY <2>1, <2>4
    <3>2. var[k \div 2] = sum[k]
      BY <2>4, <3>1 DEF MeansOf
    <3>3. QED
      BY <1>1, <2>2, <3>1, <3>2
  <2>5. QED
    BY <1>1, <1>b, <2>3, <2>4 DEF MeansOf
<1>3. CASE n % 2 # 0
  <2>1. n > 0 /\ (n + 1) \div 2 = (n \div 2) + 1
    BY <1>3
  <2>2. Len(var2) = (n + 1) \div 2 /\ var2[(n + 1) \div 2] = inst
    <3>1. CASE n = 1
      BY <3>1
    <3>2. CASE n # 1
      BY <1>0, <1>3, <2>1, <3>2 DEF MeansOf
    <3>3. QED
      BY <3>1, <3>2
  <2>3. \A k \in 1 .. n : k % 2 = 0 => var2[k \div 2] = var[k \div 2]
    <3>1. SUFFICES ASSUME NEW k \in 1 .. n, k % 2 = 0
                   PROVE  var2[k \div 2] = var[k \div 2]
      OBVIOUS
    <3>2. n # 1 /\ k \div 2 \in 1 .. n \div 2
      BY <1>3, <3>1
    <3>3. n >= 2 /\ Len(var) = n \div 2
      BY <2>1, <3>2 DEF MeansOf
    <3>4. QED
      BY <1>0, <1>3, <3>2, <3>3
  <2> HIDE DEF var2
  <2>4. ASSUME NEW k \in 1 .. n + 1, k % 2 = 0
        PROVE  var2[k \div 2] = sum2[k]
    <3>1. CASE k = n + 1
      BY <1>1, <2>2, <3>1
    <3>2. CASE k # n + 1
      <4>1. k \in 1 .. n
        BY <3>2
      <4>2. var[k \div 2] = sum[k]
        BY <2>1, <2>4, <4>1 DEF MeansOf
      <4>3. QED
        BY <1>1, <2>3, <2>4, <4>1, <4>2
    <3>3. QED
      BY <3>1, <3>2
  <2>5. QED
    BY <1>1, <1>b, <2>2, <2>4 DEF MeansOf
<1>4. QED
  BY <1>2, <1>3

\* A step keeps the means: only setTile touches the sums, and only of its
\* tile; clear() forgets them all by their counters.
LEMMA NextMeans == IInv /\ [Next]_vars => TilesAreMeans'
<1> SUFFICES ASSUME IInv, [Next]_vars
             PROVE  TilesAreMeans'
  OBVIOUS
<1>a. \A t \in Tile : MeansOf(tileAccumID[t], accum[t], variance[t], cleared)
  BY DEF IInv, TilesAreMeans, MeansOf
<1>b. SUFFICES \A t \in Tile :
                 MeansOf(tileAccumID[t], accum[t], variance[t], cleared)'
  BY DEF TilesAreMeans, MeansOf
<1>1. CASE Clear
  <2>1. \A t \in Tile : tileAccumID'[t] = 0
    BY <1>1 DEF Clear
  <2>2. QED
    BY <2>1 DEF MeansOf
<1>2. ASSUME NEW t \in Tile, SetTile(t)
      PROVE  \A u \in Tile :
               MeansOf(tileAccumID[u], accum[u], variance[u], cleared)'
  <2>1. accumID[t] = tileAccumID[t] /\ finished + 1 > cleared /\ cleared' = cleared
    BY <1>2 DEF IInv, Types, TaskOwnsTile, SetTile, frames
  <2>2. MeansOf(tileAccumID'[t], accum'[t], variance'[t], cleared)
    <3> DEFINE n == tileAccumID[t]
               inst == <<n, finished + 1>>
    <3>1. /\ tileAccumID'[t] = n + 1
          /\ accum'[t] = IF n = 0 THEN <<inst>> ELSE Append(accum[t], inst)
          /\ variance'[t] = IF n % 2 = 0 THEN variance[t]
                            ELSE IF n = 1 THEN <<inst>> ELSE Append(variance[t], inst)
      BY <1>2, <2>1 DEF SetTile, IInv, Types
    <3>2. MeansOf(n, accum[t], variance[t], cleared)
      BY <1>a
    <3>3. /\ n \in Nat /\ cleared \in Nat /\ finished + 1 \in Nat
          /\ accum[t] \in Seq(Instances) /\ variance[t] \in Seq(Instances)
      BY DEF IInv, Types
    <3> HIDE DEF n
    <3>4. QED
      BY <2>1, <3>1, <3>2, <3>3, OneMore
  <2>3. ASSUME NEW u \in Tile, u # t
        PROVE  MeansOf(tileAccumID'[u], accum'[u], variance'[u], cleared)
    <3>1. tileAccumID'[u] = tileAccumID[u] /\ accum'[u] = accum[u]
          /\ variance'[u] = variance[u]
      BY <1>2, <2>3 DEF SetTile, IInv, Types
    <3>2. QED
      BY <1>a, <3>1
  <2>4. QED
    BY <2>1, <2>2, <2>3 DEF MeansOf
<1>3. ASSUME UNCHANGED <<tileAccumID, accum, variance, cleared>>
      PROVE  \A t \in Tile :
               MeansOf(tileAccumID[t], accum[t], variance[t], cleared)'
  BY <1>a, <1>3 DEF MeansOf
<1>4. QED
  BY <1>1, <1>2, <1>3
     DEF Next, vars, buffers, frames, BeginFrame, EndFrame, StartTile,
         ReportProgress, CallbackReturns

-----------------------------------------------------------------------------
\* The colours follow the tasks.
LEMMA NextColors == IInv /\ [Next]_vars => ColorsFollowTask'
<1> SUFFICES ASSUME IInv, [Next]_vars
             PROVE  ColorsFollowTask'
  OBVIOUS
<1> USE DEF IInv, Types, TaskOwnsTile, ColorsFollowTask, Goto, buffers, frames
<1>1. CASE BeginFrame
  BY <1>1 DEF BeginFrame
<1>2. CASE EndFrame
  BY <1>2 DEF EndFrame
<1>3. CASE Clear
  BY <1>3 DEF Clear
<1>4. ASSUME NEW t \in Tile, StartTile(t)
      PROVE  ColorsFollowTask'
  BY <1>4 DEF StartTile
<1>5. ASSUME NEW t \in Tile, SetTile(t)
      PROVE  ColorsFollowTask'
  BY <1>5 DEF SetTile
<1>6. ASSUME NEW t \in Tile, ReportProgress(t)
      PROVE  ColorsFollowTask'
  BY <1>6 DEF ReportProgress
<1>7. ASSUME NEW t \in Tile, CallbackReturns(t)
      PROVE  ColorsFollowTask'
  BY <1>7 DEF CallbackReturns
<1>8. CASE UNCHANGED vars
  BY <1>8 DEF vars
<1>9. QED
  BY <1>1, <1>2, <1>3, <1>4, <1>5, <1>6, <1>7, <1>8 DEF Next

\* The inductive invariant.
LEMMA NextIInv == IInv /\ [Next]_vars => IInv'
BY NextTypes, NextTasks, NextMeans, NextColors DEF IInv

\* It holds in every state of the local device (LocalTiledLoadBalancer).
THEOREM Invariance == Spec => []IInv
BY InitIInv, NextIInv, PTL DEF Spec

\* Whatever was cancelled or skipped, a tile shows the mean of its instances
\* since the last clear (LocalFB.ispc, accumulateTile).
THEOREM MeansShown == Spec => []TilesAreMeans
<1>1. IInv => TilesAreMeans
  BY DEF IInv
<1>2. QED
  BY <1>1, Invariance, PTL

-----------------------------------------------------------------------------
\* The frame buffer is created with nothing shown.
LEMMA InitService == Init => Service!Init
BY DEF Init, Service!Init

\* The end of a frame shows it, or what was rendered before it was cancelled;
\* clear() is seen by the errors, and the tasks are not seen at all.
LEMMA NextService == IInv /\ [Next]_vars => [Service!Next]_(Service!vars)
<1> SUFFICES ASSUME IInv, [Next]_vars
             PROVE  [Service!Next]_(Service!vars)
  OBVIOUS
<1>0. DOMAIN mapped = Tile
  BY DEF IInv, Types
<1>1. CASE EndFrame
  <2>1. /\ finished' = finished + 1 /\ mapped' = colors /\ cancelled' = cancel
        /\ below' \subseteq Tile /\ rendering /\ \A t \in Tile : step[t] = "done"
    BY <1>1 DEF EndFrame
  <2>2. CASE cancel
    <3>1. \A t \in Tile : mapped'[t] = mapped[t] \/ (t \notin below /\ mapped'[t] = finished')
      BY <2>1 DEF IInv, ColorsFollowTask
    <3>2. cancelled' = TRUE
      BY <2>1, <2>2 DEF IInv, Types
    <3>3. Service!CancelFrame
      BY <1>0, <2>1, <3>1, <3>2 DEF Service!CancelFrame
    <3>4. QED
      BY <3>3 DEF Service!Next
  <2>3. CASE ~cancel
    <3>1. \A t \in Tile : mapped'[t] = IF t \in below THEN mapped[t] ELSE finished'
      BY <2>1, <2>3 DEF IInv, ColorsFollowTask
    <3>2. mapped' \in [Tile -> Nat]
      BY <2>1 DEF IInv, Types
    <3>3. mapped' = [t \in DOMAIN mapped |-> IF t \in below THEN mapped[t] ELSE finished']
      BY <1>0, <3>1, <3>2
    <3>4. cancelled' = FALSE
      BY <2>1, <2>3 DEF IInv, Types
    <3>5. Service!ShowFrame
      BY <1>0, <2>1, <3>3, <3>4 DEF Service!ShowFrame
    <3>6. QED
      BY <3>5 DEF Service!Next
  <2>4. QED
    BY <2>2, <2>3
<1>2. CASE Clear
  BY <1>2 DEF Clear, Service!Next, Service!ClearFrame
<1>3. ASSUME UNCHANGED <<finished, cancelled, below, mapped>>
      PROVE  [Service!Next]_(Service!vars)
  BY <1>3 DEF Service!vars
<1>4. QED
  BY <1>1, <1>2, <1>3
     DEF Next, vars, buffers, frames, BeginFrame, StartTile, SetTile,
         ReportProgress, CallbackReturns

\* The application sees whole frames of the local device, one after the other,
\* and of a cancelled frame only tiles that were to be refined.
THEOREM Implements == Spec => ImplementsService
BY InitService, NextService, Invariance, PTL DEF Spec, ImplementsService, Service!Spec
=============================================================================
