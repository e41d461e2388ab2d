------------------------- MODULE TileAccumulation -------------------------
(* How one tile of an accumulating, variance-estimating frame buffer is    *)
(* filled: the accumulation IDs the load balancer hands out, and the       *)
(* WriteMultipleTile of the tile's owner that takes the rendered instances *)
(* of a frame in any order.                                                *)
(*                                                                         *)
(* A rendered instance is known by the accumID it was rendered with; a     *)
(* buffer of sums is the bag of the instances added to it.  Colors, and    *)
(* the auxiliary channels that are summed beside them, are left out.       *)
EXTENDS Integers, FiniteSets

CONSTANTS
  MaxFrames,    \* bound: frames of a behaviour
  MaxInstances  \* bound: times the tile is rendered in one frame

ASSUME BoundsAssumption == MaxFrames \in Nat /\ MaxInstances \in Nat \ {0}

VARIABLES
  dynamic,      \* TRUE: dynamic load balancer, FALSE: static load balancer
  frames,       \* ghost: frames begun
  inFrame,      \* a frame with instances of this tile is being rendered
  tileAccumID,  \* the next accumID, DFB::accumID
  skipped,      \* ghost: accumIDs taken and not rendered since the last clear
  tileError,    \* the master's error of the tile against the threshold
  rendering,    \* instances being rendered or under way to the owner
  instances,    \* WriteMultipleTile: instances still to come
  writeOnce,    \* writeOnceTile
  maxAccumID,
  buffered,     \* {} or the one instance in bufferedTile
  last,         \* "yes": a thread has left the mutex with the last instance
  accum,        \* sum of instances
  variance,     \* sum of every other instance
  final,        \* what is shown: a sum, and what it is divided by
  estimate      \* operands of the frame's error estimate, NoEstimate if none

tileVars == <<instances, writeOnce, maxAccumID, buffered, last>>
bufferVars == <<accum, variance, final, estimate>>
vars == <<dynamic, frames, inFrame, tileAccumID, skipped, tileError, rendering, tileVars, bufferVars>>

AccumID == 0 .. MaxFrames * MaxInstances

\* Bags of instances.
Empty == [a \in AccumID |-> 0]
Only(a) == [Empty EXCEPT ![a] = 1]
Add(bag, a) == [bag EXCEPT ![a] = @ + 1]
\* The number of instances in a bag that holds each at most a few times.
Size(bag) == Cardinality({p \in AccumID \X (1 .. MaxFrames * MaxInstances) : p[2] <= bag[p[1]]})

NoEstimate == [accum |-> 0, variance |-> 0, accumID |-> -1]

Init ==
  /\ dynamic \in BOOLEAN
  /\ frames = 0
  /\ inFrame = FALSE
  /\ tileAccumID = 0 /\ skipped = {}
  /\ tileError = "inf"
  /\ rendering = {}
  /\ instances = 0 /\ writeOnce = TRUE
  /\ maxAccumID = 0 /\ buffered = {} /\ last = "no"
  /\ accum = Empty /\ variance = Empty
  /\ final = [samples |-> 0, scale |-> 0]
  /\ estimate = NoEstimate

-----------------------------------------------------------------------------
(* The load balancers                                                       *)

\* DFB::startNewFrame calls WriteMultipleTile::newFrame with the instance
\* counts of the master.
NewFrame(n, ids) ==
  /\ rendering' = ids
  /\ maxAccumID' = 0
  /\ instances' = n
  /\ writeOnce' = (n <= 1)
  /\ buffered' = {}
  /\ estimate' = NoEstimate
  /\ frames' = frames + 1
  /\ inFrame' = (ids # {})

\* dynamicLoadBalancer::Master::generateTileTasks: a tile above the threshold
\* is rendered once, and again as often as tiles that need no rendering leave
\* room for.  Until a tile has an error every tile is active and is rendered
\* once.
GenerateTileTasks ==
  /\ dynamic
  /\ \E n \in 0 .. MaxInstances :
       /\ (n = 0) <=> (tileError = "low")
       /\ tileError = "inf" => n = 1
       /\ tileAccumID' = tileAccumID + n
       /\ NewFrame(n, tileAccumID .. tileAccumID + n - 1)
  /\ UNCHANGED skipped

\* staticLoadBalancer::Slave::renderFrame: the accumID is taken before the
\* error is looked at; the master's tileInstances, which every rank gets, are
\* all zero.
StaticTask ==
  /\ ~dynamic
  /\ tileAccumID' = tileAccumID + 1
  /\ IF tileError = "low"
     THEN NewFrame(0, {}) /\ skipped' = skipped \cup {tileAccumID}
     ELSE NewFrame(0, {tileAccumID}) /\ UNCHANGED skipped

BeginFrame ==
  /\ ~inFrame
  /\ frames < MaxFrames
  /\ GenerateTileTasks \/ StaticTask
  /\ UNCHANGED <<dynamic, tileError, last, accum, variance, final>>

-----------------------------------------------------------------------------
(* The sums (DistributedFrameBuffer.ispc)                                   *)

IsOdd(a) == a % 2 = 1

\* DFB_accumulateTile of the colors of instance s under accumID a.
AccumulateTile(s, a, hasVariance) ==
  IF a < 1
  THEN /\ accum' = Only(s)
       /\ final' = [samples |-> 1, scale |-> 1]
       /\ UNCHANGED <<variance, estimate>>
  ELSE LET vari == IF a > 1 THEN Add(variance, s) ELSE Only(s)
       IN /\ accum' = Add(accum, s)
          /\ final' = [samples |-> Size(accum'), scale |-> a + 1]
          /\ IF hasVariance /\ IsOdd(a)
             THEN /\ variance' = vari
                  /\ estimate' = [accum |-> Size(accum'), variance |-> Size(vari), accumID |-> a]
             ELSE UNCHANGED <<variance, estimate>>

\* DFB_accumulateTileSimple.
AccumulateSimple(s) ==
  /\ accum' = Add(accum, s)
  /\ variance' = IF IsOdd(s) THEN Add(variance, s) ELSE variance

-----------------------------------------------------------------------------
(* WriteMultipleTile::process                                               *)

\* tileIsCompleted: the error reaches the master unless it is infinite, which
\* it is without an estimate; TileError::refine may lift it over the threshold.
Complete(est) ==
  /\ inFrame' = FALSE
  /\ tileError' \in IF est = NoEstimate THEN {tileError} ELSE {"low", "high"}

\* The only instance of the frame.
ProcessOnce(a) ==
  /\ writeOnce
  /\ a \in rendering
  /\ rendering' = rendering \ {a}
  /\ AccumulateTile(a, a, TRUE)
  /\ Complete(estimate')
  /\ UNCHANGED <<dynamic, frames, tileAccumID, skipped, tileVars>>

\* One of several instances, under the mutex: the first even one is set
\* aside, the others are summed.  (An instance with accumID 0 is the only one
\* of its frame.)
ProcessLocked(a) ==
  /\ ~writeOnce
  /\ a \in rendering
  /\ rendering' = rendering \ {a}
  /\ maxAccumID' = IF a > maxAccumID THEN a ELSE maxAccumID
  /\ IF buffered = {} /\ ~IsOdd(a)
     THEN buffered' = {a} /\ UNCHANGED <<accum, variance>>
     ELSE AccumulateSimple(a) /\ UNCHANGED buffered
  /\ instances' = instances - 1
  /\ last' = IF instances' = 0 THEN "yes" ELSE last
  /\ UNCHANGED <<dynamic, frames, inFrame, tileAccumID, skipped, tileError, writeOnce, final, estimate>>

Estimate(acc, vari, a) == [accum |-> Size(acc), variance |-> Size(vari), accumID |-> a]

\* Mutant: the buffered instance keeps the accumID it was rendered with.
ProcessLast_OwnID ==
  /\ last = "yes"
  /\ last' = "no"
  /\ \E s \in buffered :
       /\ accum' = Add(accum, s)
       /\ final' = [samples |-> Size(accum'), scale |-> s + 1]
       /\ estimate' = IF IsOdd(maxAccumID) THEN Estimate(accum', variance, maxAccumID)
                                           ELSE Estimate(accum, variance, maxAccumID - 1)
  /\ Complete(estimate')
  /\ UNCHANGED <<dynamic, frames, tileAccumID, skipped, rendering, instances, writeOnce, maxAccumID, buffered, variance>>

\* Mutant: the error is always computed at the end.
ProcessLast_EstimateAfter ==
  /\ last = "yes"
  /\ last' = "no"
  /\ \E s \in buffered :
       /\ accum' = Add(accum, s)
       /\ final' = [samples |-> Size(accum'), scale |-> maxAccumID + 1]
       /\ estimate' = Estimate(accum', variance, maxAccumID)
  /\ Complete(estimate')
  /\ UNCHANGED <<dynamic, frames, tileAccumID, skipped, rendering, instances, writeOnce, maxAccumID, buffered, variance>>

\* The last instance, outside the mutex: the buffered instance goes in under
\* the highest accumID.  With an even one the variance lacks an instance, and
\* the error is estimated first, while accum lacks one too.
ProcessLast ==
  /\ last = "yes"
  /\ last' = "no"
  /\ \E s \in buffered :
       /\ accum' = Add(accum, s)
       /\ final' = [samples |-> Size(accum'), scale |-> maxAccumID + 1]
       /\ estimate' = IF IsOdd(maxAccumID) THEN Estimate(accum', variance, maxAccumID)
                                           ELSE Estimate(accum, variance, maxAccumID - 1)
  /\ Complete(estimate')
  /\ UNCHANGED <<dynamic, frames, tileAccumID, skipped, rendering, instances, writeOnce, maxAccumID, buffered, variance>>

-----------------------------------------------------------------------------
(* Between frames                                                           *)

\* Mutant: the sums are cleared, the counter is not.
Clear_KeepsID ==
  /\ ~inFrame /\ tileAccumID > 0
  /\ accum' = Empty /\ variance' = Empty
  /\ final' = [samples |-> 0, scale |-> 0]
  /\ estimate' = NoEstimate
  /\ tileError' = "inf"
  /\ skipped' = {}
  /\ UNCHANGED <<dynamic, frames, inFrame, tileAccumID, rendering, tileVars>>

\* DFB::clear of the accumulation channel.
Clear ==
  /\ ~inFrame /\ tileAccumID > 0
  /\ accum' = Empty /\ variance' = Empty
  /\ final' = [samples |-> 0, scale |-> 0]
  /\ estimate' = NoEstimate
  /\ tileAccumID' = 0
  /\ tileError' = "inf"
  /\ skipped' = {}
  /\ UNCHANGED <<dynamic, frames, inFrame, rendering, tileVars>>

\* The application changes the renderer's error threshold and does not clear.
ThresholdChanges ==
  /\ ~inFrame
  /\ tileError # "inf"
  /\ tileError' = IF tileError = "low" THEN "high" ELSE "low"
  /\ UNCHANGED <<dynamic, frames, inFrame, tileAccumID, skipped, rendering, tileVars, bufferVars>>

Next ==
  \/ BeginFrame
  \/ \E a \in AccumID : ProcessOnce(a) \/ ProcessLocked(a)
  \/ ProcessLast
  \/ Clear
  \/ ThresholdChanges

Spec == Init /\ [][Next]_vars

-----------------------------------------------------------------------------
(* Properties                                                               *)

Bag == [AccumID -> 0 .. MaxFrames * MaxInstances]

\* Types, and the one thing the last instance relies on: an even instance was
\* set aside (n > 1 consecutive accumIDs hold an even one).
TypeOK ==
  /\ dynamic \in BOOLEAN
  /\ frames \in 0 .. MaxFrames /\ inFrame \in BOOLEAN
  /\ tileAccumID \in AccumID /\ skipped \subseteq AccumID
  /\ tileError \in {"inf", "high", "low"}
  /\ rendering \subseteq AccumID
  /\ instances \in 0 .. MaxInstances /\ writeOnce \in BOOLEAN
  /\ maxAccumID \in AccumID
  /\ buffered \in {{}} \cup {{a} : a \in {b \in AccumID : ~IsOdd(b)}}
  /\ last \in {"no", "yes"} /\ (last = "yes" => buffered # {})
  /\ accum \in Bag /\ variance \in Bag

Resting == ~inFrame

\* Between frames the sum holds every instance that was given an accumID and
\* rendered exactly once, in whichever order the instances of a frame came.
EachInstanceOnce ==
  Resting =>
    accum = [a \in AccumID |-> IF a < tileAccumID /\ a \notin skipped THEN 1 ELSE 0]

FinalIsMean == Resting => final.samples = final.scale

\* What is shown is a mean: it is divided by the number of instances summed.
\* The static load balancer keeps this only up to the first frame that does
\* not render the converged tile: the accumID it takes all the same makes the
\* divisor of every later frame too large.
FinalIsMeanUnlessSkipped == skipped = {} => FinalIsMean

\* The error compares the mean of all with the mean of every other instance;
\* both are divided by what was summed, at whatever accumID a frame ends (and
\* as long as no accumID was skipped).
EstimateIsBalanced ==
  skipped = {} /\ estimate # NoEstimate =>
    /\ estimate.accum = estimate.accumID + 1
    /\ 2 * estimate.variance = estimate.accumID + 1
============================================================================
