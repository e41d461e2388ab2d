----------------------------- MODULE LocalFrame -----------------------------
(***************************************************************************)
(* A frame of the local device: LocalTiledLoadBalancer::renderFrame        *)
(* (ospray/render/LoadBalancer.cpp) renders the tiles in parallel into a   *)
(* LocalFrameBuffer (ospray/fb/LocalFB.cpp, LocalFB.ispc) and tells the    *)
(* application of the progress, which may cancel (Device::reportProgress). *)
(*                                                                         *)
(* The colours of a tile are the list of the instances <<accumID, frame>>  *)
(* that were added up; the errors of the tiles are reduced to whether they *)
(* are below the threshold (TileError has the rest).                       *)
(***************************************************************************)
EXTENDS Naturals, Sequences

CONSTANTS
  NumTiles,   \* getTotalTiles()
  MaxFrames   \* bound: frames rendered

Tile == 1 .. NumTiles

VARIABLES
  rendering,    \* is the application in ospRenderFrame?
  step,         \* how far the task of each tile is
  accumID,      \* the Tile's accumID, read when its task begins
  tileAccumID,  \* the frame buffer's
  accum,        \* accumBuffer of each tile
  variance,     \* varianceBuffer
  below,        \* tiles with an error below the threshold
  cancel,       \* the flag the tasks share
  telling,      \* progressMutex: is the callback running?
  finished,     \* frames rendered so far
  colors,       \* the frame that each tile's colours are from, now ...
  mapped,       \* ... and when the last frame ended
  cancelled,    \* was the last frame cancelled?
  cleared       \* history: frames finished at the last clear

buffers == <<tileAccumID, accum, variance, colors>>
frames == <<rendering, below, finished, mapped, cancelled, cleared>>
vars == <<step, accumID, cancel, telling, buffers, frames>>

Init ==
  /\ rendering = FALSE
  /\ step = [t \in Tile |-> "done"]
  /\ accumID = [t \in Tile |-> 0] /\ tileAccumID = [t \in Tile |-> 0]
  /\ accum = [t \in Tile |-> <<>>] /\ variance = [t \in Tile |-> <<>>]
  /\ below = {} /\ cancel = FALSE /\ telling = FALSE
  /\ finished = 0 /\ colors = [t \in Tile |-> 0] /\ mapped = colors
  /\ cancelled = FALSE /\ cleared = 0

Goto(t, s) == step' = [step EXCEPT ![t] = s]

BeginFrame ==
  /\ ~rendering /\ finished < MaxFrames
  /\ rendering' = TRUE
  /\ step' = [t \in Tile |-> "start"]
  /\ cancel' = FALSE
  /\ UNCHANGED <<accumID, telling, buffers, below, finished, mapped, cancelled, cleared>>

\* The task of a tile up to its early returns.
StartTile(t) ==
  /\ step[t] = "start"
  /\ Goto(t, IF cancel \/ t \in below THEN "done" ELSE "render")
  /\ accumID' = [accumID EXCEPT ![t] = tileAccumID[t]]
  /\ UNCHANGED <<cancel, telling, buffers, frames>>

\* renderTile, setTile: accumulateTile starts afresh with the instance 0; the
\* variance takes every other one.
SetTile(t) ==
  LET id == accumID[t]
      instance == <<id, finished + 1>>
  IN /\ step[t] = "render"
     /\ Goto(t, "report")
     /\ accum' = [accum EXCEPT ![t] = IF id = 0 THEN <<instance>> ELSE Append(@, instance)]
     /\ variance' = IF id % 2 = 0 THEN variance
                    ELSE [variance EXCEPT ![t] = IF id = 1 THEN <<instance>>
                                                           ELSE Append(@, instance)]
     /\ tileAccumID' = [tileAccumID EXCEPT ![t] = @ + 1]
     /\ colors' = [colors EXCEPT ![t] = finished + 1]
     /\ UNCHANGED <<accumID, cancel, telling, frames>>

\* reportProgress: skipped while the callback is running for another tile.
ReportProgress(t) ==
  /\ step[t] = "report"
  /\ Goto(t, IF telling THEN "done" ELSE "telling")
  /\ telling' = TRUE
  /\ UNCHANGED <<accumID, cancel, buffers, frames>>

CallbackReturns(t) ==
  /\ step[t] = "telling"
  /\ telling' = FALSE
  /\ \E continue \in BOOLEAN : cancel' = (cancel \/ ~continue)
  /\ Goto(t, "done")
  /\ UNCHANGED <<accumID, buffers, frames>>

\* parallel_for returns; endFrame refines the errors.  A tile without an
\* estimate (of its first two instances) is not below the threshold.
EndFrame ==
  /\ rendering /\ \A t \in Tile : step[t] = "done"
  /\ rendering' = FALSE
  /\ finished' = finished + 1 /\ mapped' = colors /\ cancelled' = cancel
  /\ below' \in SUBSET {t \in Tile : tileAccumID[t] >= 2}
  /\ UNCHANGED <<step, accumID, cancel, telling, buffers, cleared>>

\* mutant: the accumulated colours are kept
Clear_ErrorsOnly ==
  /\ ~rendering
  /\ below' = {} /\ cleared' = finished
  /\ UNCHANGED <<step, accumID, cancel, telling, buffers, rendering, finished,
                 mapped, cancelled>>

\* clear(OSP_FB_ACCUM): the colours and errors go when they are used again
Clear ==
  /\ ~rendering
  /\ tileAccumID' = [t \in Tile |-> 0]
  /\ below' = {} /\ cleared' = finished
  /\ UNCHANGED <<step, accumID, cancel, telling, accum, variance, colors,
                 rendering, finished, mapped, cancelled>>

Next ==
  \/ BeginFrame \/ EndFrame \/ Clear
  \/ \E t \in Tile : StartTile(t) \/ SetTile(t) \/ ReportProgress(t) \/ CallbackReturns(t)

Spec == Init /\ [][Next]_vars

-----------------------------------------------------------------------------
TypeOK ==
  /\ step \in [Tile -> {"start", "render", "report", "telling", "done"}]
  /\ accumID \in [Tile -> 0 .. MaxFrames] /\ tileAccumID \in [Tile -> 0 .. MaxFrames]
  /\ below \subseteq Tile
  /\ telling \in BOOLEAN /\ cancel \in BOOLEAN

\* A tile that is not being rendered shows the mean of its instances 0, 1,
\* ..., each rendered in a frame of its own after the last clear, whichever
\* frames were cancelled or skipped the tile; and the estimate of its error
\* compares their mean with that of every other one.
TilesAreMeans == \A t \in Tile :
  LET n == tileAccumID[t]
  IN n > 0 =>
       /\ Len(accum[t]) = n
       /\ n >= 2 => Len(variance[t]) = n \div 2
       /\ \A k \in 1 .. n :
            /\ accum[t][k][1] = k - 1 /\ accum[t][k][2] > cleared
            /\ k % 2 = 0 => variance[t][k \div 2] = accum[t][k]
=============================================================================
