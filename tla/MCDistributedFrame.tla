------------------------- MODULE MCDistributedFrame -------------------------
(* Frames in every way they are rendered, checked in one run: replicated   *)
(* rendering with the constants of the configuration, data-distributed     *)
(* rendering with three ranks and two tiles, the progress of replicated    *)
(* rendering, and the local device.                                        *)
EXTENDS DistributedFrame

CONSTANTS
  Worker, TilesPerWorker, MaxReports,  \* of the module FrameProgress
  LocalTiles, LocalFrames              \* of the module LocalFrame

ASSUME SizesAssumption == TilesPerWorker \in Nat /\ LocalFrames \in Nat

\* replicated rendering, static load balancer: tile t is rendered by the
\* worker t modulo the number of workers
StaticRenderers == [t \in 0..NumTiles-1 |-> {1 + (t % (NumRanks-1))}]

\* data-distributed rendering: every rank has a part of every tile
AllRenderers == [t \in 0..1 |-> 0..2]

VARIABLES
  mode,  \* "replicated", "distributed", "progress" or "local"
  at, progressFrame, reporting, left, counted, reports, update, old,
  globalCompleted, cancelRendering, callback, told, ended, asked,
  rendering, step, accumID, tileAccumID, accum, variance, below, cancel,
  telling, finished, colors, mapped, cancelled, cleared

Distributed == INSTANCE DistributedFrame WITH
  NumRanks <- 3, NumTiles <- 2, MasterIsAWorker <- TRUE,
  Renderers <- AllRenderers

Progress == INSTANCE FrameProgress WITH
  frame <- progressFrame, MaxFrames <- MaxFrame

Local == INSTANCE LocalFrame WITH
  NumTiles <- LocalTiles, MaxFrames <- LocalFrames

progressVars == <<at, progressFrame, reporting, left, counted, reports, update,
  old, globalCompleted, cancelRendering, callback, told, ended, asked>>
localVars == <<rendering, step, accumID, tileAccumID, accum, variance, below,
  cancel, telling, finished, colors, mapped, cancelled, cleared>>

FramesInit ==
  /\ \/ mode \in {"replicated", "progress", "local"} /\ Init
     \/ mode = "distributed" /\ Distributed!Init
  /\ Progress!Init /\ Local!Init

FramesNext ==
  /\ UNCHANGED mode
  /\ \/ mode = "replicated" /\ Next /\ UNCHANGED <<progressVars, localVars>>
     \/ mode = "distributed" /\ UNCHANGED <<progressVars, localVars>> /\ Distributed!Next
     \/ mode = "progress" /\ UNCHANGED <<vars, localVars>> /\ Progress!Next
     \/ mode = "local" /\ UNCHANGED <<vars, progressVars>> /\ Local!Next

\* Fairness of DistributedFrame, stated and used in the first mode only
FramesFairness ==
  /\ \A r \in Rank :
       /\ WF_vars(mode = "replicated" /\ MainThread(r))
       /\ WF_vars(mode = "replicated" /\ CloseByTask(r))
       /\ \A t \in Tile : WF_vars(mode = "replicated" /\ RenderTile(r, t))
  /\ \A t \in Tile : WF_vars(mode = "replicated" /\ (StoreTile(t) \/ CountTile(t)))
  /\ \A m \in Message :
       WF_vars(mode = "replicated" /\ (Receive(m) \/ Incoming(m) \/ ProcessMessage(m)))

FramesSpec ==
  FramesInit /\ [][FramesNext]_<<mode, vars, progressVars, localVars>> /\ FramesFairness

-----------------------------------------------------------------------------
\* The properties of the modules, in the mode of the behaviour.

Service == INSTANCE FrameService WITH
  inPlace <- mode = "local",
  finished <- IF mode = "local" THEN finished ELSE Finished,
  cancelled <- IF mode = "local" THEN cancelled ELSE Cancelled,
  conv <- IF mode = "local" THEN below ELSE converged[Master],
  shown <- IF mode = "local" THEN mapped ELSE image

\* Both devices implement the frame buffer the application sees: ranks, tasks
\* and messages together (DistributedFrameBuffer.cpp), or tasks that render in
\* place (LoadBalancer.cpp): whole frames, in order, converged tiles untouched.
ImplementsService == Service!Spec

\* No tile message outlives its frame (DFB::incoming); and all variables keep
\* their types.
InFrame ==
  /\ Progress!TypeOK /\ Local!TypeOK
  /\ IF mode = "distributed" THEN Distributed!TypeOK /\ Distributed!MessagesInFrame
                             ELSE TypeOK /\ MessagesInFrame

\* A frame that is begun is finished, on every rank (DFB::waitUntilFinished).
BegunFinish ==
  \A r \in Rank : (mode = "replicated" /\ pc[r] = "barrier") ~> pc[r] = "idle"

\* A frame is cancelled on all ranks exactly when the application has asked
\* for it (DFB::updateProgress, waitUntilFinished).
CancelHonoured == Progress!CancelHonoured

\* On the local device a tile shows the mean of its instances since the last
\* clear, and its error is estimated from as many as the code takes it for
\* (LocalFB.cpp, LocalFB.ispc).
TilesAreMeans == Local!TilesAreMeans
=============================================================================
