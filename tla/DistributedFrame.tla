--------------------------- MODULE DistributedFrame ---------------------------
(***************************************************************************)
(* One frame after another on the distributed frame buffer of              *)
(* modules/mpi/fb/DistributedFrameBuffer.cpp (DFB).  Every rank runs the   *)
(* same sequence of collective calls; between them tiles are rendered,     *)
(* sent to the rank that owns them, composited there, and gathered by the  *)
(* master at the end of the frame.                                         *)
(*                                                                         *)
(* A rank is one main thread (pc), any number of task threads (the parts   *)
(* of tiles being processed, the pending calls of closeCurrentFrame) and   *)
(* the two threads of the message layer (net -> inbox -> task).            *)
(*                                                                         *)
(* Pixels are abstracted to the number of the frame they were rendered in. *)
(* What a tile does with its parts (blend, accumulate, composite) is left  *)
(* to the module of the tile types: here a tile is complete when every     *)
(* rank of Renderers[t] has contributed its part.                          *)
(***************************************************************************)
EXTENDS Integers, Sequences, FiniteSets

CONSTANTS
  NumRanks,         \* size of mpicommon::world
  NumTiles,         \* getTotalTiles()
  MasterIsAWorker,  \* the DFB's constructor argument
  Renderers,        \* [Tile -> the ranks that render a part of the tile]
  CanCancel,        \* may the application install a progress callback?
  MaxFrame          \* bound: frames rendered

Rank   == 0 .. NumRanks-1
Master == 0
Tile   == 0 .. NumTiles-1

ASSUME RankAssumption ==
  /\ NumRanks \in Nat \ {0} /\ NumTiles \in Nat
  /\ MasterIsAWorker \in BOOLEAN /\ CanCancel \in BOOLEAN
  /\ ~MasterIsAWorker => NumRanks > 1
ASSUME RenderersAssumption == Renderers \in [Tile -> (SUBSET Rank) \ {{}}]
ASSUME FrameAssumption == MaxFrame \in Nat

\* ownerIDFromTileID: round robin over all ranks, or over the workers only
OwnerOf(t) == IF MasterIsAWorker THEN t % NumRanks ELSE (t % (NumRanks-1)) + 1

MyTiles(r) == {t \in Tile : OwnerOf(t) = r}

VARIABLES
  pc,             \* where the main thread of each rank is
  frame,          \* the frame each rank is in, or has last finished
  frameIsActive,  \* atomic flag of each rank's DFB
  frameIsDone,    \* flag under each DFB's mutex
  converged,      \* each rank's tiles with an error below the threshold
  todo,           \* the tiles each rank has still to render a part of
  parts,          \* parts of each tile that its owner has processed: the
                  \* code counts them, here each is its <<rank, frame>>
  stage,          \* how far the owner is with completing each tile
  completed,      \* numTilesCompletedThisFrame
  closers,        \* frames a task has found complete and not yet closed
  gatherBuffer,   \* finished tiles each rank will send to the master
  messaging,      \* are the message layer's threads running?
  net,            \* tile messages in the network
  inbox,          \* messages each rank's message layer has received
  tasks,          \* tile messages handed to the tasking system
  delayed,        \* delayedMessage
  calls,          \* the collective calls each rank has made, with their data
  image,          \* the master's frame: which frame a tile's pixels are from
  staleClose      \* history: a task has closed a frame it did not belong to

main  == <<pc, frame, calls>>
flags == <<frameIsActive, frameIsDone>>
tiles == <<parts, stage, completed, gatherBuffer>>
msgs  == <<messaging, net, inbox, tasks, delayed>>
vars  == <<main, flags, converged, todo, tiles, closers, msgs, image,
          staleClose>>

-----------------------------------------------------------------------------
(***************************************************************************)
(* Collective calls.  The k-th call of one rank is matched with the k-th   *)
(* call of the others.  A broadcast lets a rank pass once the master has   *)
(* made its call, a barrier once every rank has, a gather lets every rank  *)
(* but the master pass at once.                                            *)
(***************************************************************************)
PC == {"idle", "barrier", "start", "check", "close", "begin", "render",
       "wait", "ibarrier", "stop", "cancel", "gather", "assemble", "end"}

\* where the main thread holds the DFB's mutex: waitUntilFinished keeps it
\* from the end of the wait to its return
HoldsMutex(r) == pc[r] \in {"ibarrier", "stop", "cancel", "gather", "assemble"}

Call(r, kind, data) ==
  calls' = [calls EXCEPT ![r] = Append(@, [kind |-> kind, data |-> data])]

\* the data the master passed to the call that rank r is about to make
FromMaster(r) == calls[Master][Len(calls[r]) + 1].data

BcastReady(r) == r = Master \/ Len(calls[Master]) > Len(calls[r])

AllCalled(r) == \A s \in Rank : Len(calls[s]) >= Len(calls[r])

Goto(r, l) == pc' = [pc EXCEPT ![r] = l]

-----------------------------------------------------------------------------
Init ==
  /\ pc = [r \in Rank |-> "idle"]
  /\ frame = [r \in Rank |-> 0]
  /\ frameIsActive = [r \in Rank |-> FALSE]
  /\ frameIsDone = [r \in Rank |-> FALSE]
  /\ converged = [r \in Rank |-> {}]
  /\ todo = [r \in Rank |-> {}]
  /\ parts = [t \in Tile |-> {}]
  /\ stage = [t \in Tile |-> "open"]
  /\ completed = [r \in Rank |-> 0]
  /\ closers = [r \in Rank |-> {}]
  /\ gatherBuffer = [r \in Rank |-> {}]
  /\ messaging = [r \in Rank |-> FALSE]
  /\ net = {}
  /\ inbox = {}
  /\ tasks = {}
  /\ delayed = [r \in Rank |-> {}]
  /\ calls = [r \in Rank |-> <<>>]
  /\ image = [t \in Tile |-> 0]
  /\ staleClose = FALSE

(***************************************************************************)
(* Starting a frame.                                                       *)
(***************************************************************************)

\* world.barrier(), the first statement of RenderFrame
EnterBarrier(r) ==
  /\ pc[r] = "idle"
  /\ frame[r] < MaxFrame
  /\ Call(r, "barrier", {})
  /\ Goto(r, "barrier")
  /\ UNCHANGED <<frame, flags, converged, todo, tiles, closers, msgs, image,
                 staleClose>>

LeaveBarrier(r) ==
  /\ pc[r] = "barrier"
  /\ AllCalled(r)
  /\ Goto(r, "start")
  /\ UNCHANGED <<frame, calls, flags, converged, todo, tiles, closers, msgs,
                 image, staleClose>>

\* startNewFrame, up to and with enableAsyncMessaging: take the delayed
\* messages, synchronise the tile errors (the master broadcasts), reset the
\* tiles and the counter, count the converged tiles as completed, activate
\* the frame, schedule the delayed messages, start the message layer
StartNewFrame(r) ==
  /\ pc[r] = "start"
  /\ BcastReady(r)
  /\ ~frameIsActive[r]
  /\ LET conv == IF r = Master THEN converged[r] ELSE FromMaster(r)
     IN  /\ Call(r, "bcastErrors", conv)
         /\ converged' = [converged EXCEPT ![r] = conv]
         /\ todo' = [todo EXCEPT ![r] =
                       {t \in Tile \ conv : r \in Renderers[t]}]
         /\ completed' = [completed EXCEPT ![r] =
                            Cardinality(MyTiles(r) \cap conv)]
  /\ frame' = [frame EXCEPT ![r] = @ + 1]
  /\ parts' = [t \in Tile |-> IF OwnerOf(t) = r THEN {} ELSE parts[t]]
  /\ stage' = [t \in Tile |-> IF OwnerOf(t) = r THEN "open" ELSE stage[t]]
  /\ gatherBuffer' = [gatherBuffer EXCEPT ![r] = {}]
  /\ frameIsDone' = [frameIsDone EXCEPT ![r] = FALSE]
  /\ frameIsActive' = [frameIsActive EXCEPT ![r] = TRUE]
  /\ tasks' = tasks \cup delayed[r]
  /\ delayed' = [delayed EXCEPT ![r] = {}]
  /\ messaging' = [messaging EXCEPT ![r] = TRUE]
  /\ Goto(r, "check")
  /\ UNCHANGED <<closers, net, inbox, image, staleClose>>

\* mutant: the counter is compared with ">=", one too early
IsComplete_OneShort(r, n) ==
  n + 1 >= IF r = Master /\ ~MasterIsAWorker THEN NumTiles
                                             ELSE Cardinality(MyTiles(r))

\* the comparison of isFrameComplete, for a counter value n
IsComplete(r, n) ==
  n = IF r = Master /\ ~MasterIsAWorker THEN NumTiles
                                        ELSE Cardinality(MyTiles(r))

\* mutant: a frame with nothing to render is not closed
CheckComplete_Never(r) ==
  /\ pc[r] = "check"
  /\ Goto(r, "begin")
  /\ UNCHANGED <<frame, calls, flags, converged, todo, tiles, closers, msgs,
                 image, staleClose>>

\* the last statement of startNewFrame: if (isFrameComplete(0)) ...
CheckComplete(r) ==
  /\ pc[r] = "check"
  /\ Goto(r, IF IsComplete(r, completed[r]) THEN "close" ELSE "begin")
  /\ UNCHANGED <<frame, calls, flags, converged, todo, tiles, closers, msgs,
                 image, staleClose>>

\* ... closeCurrentFrame()
CloseAtStart(r) ==
  /\ pc[r] = "close"
  /\ frameIsDone' = [frameIsDone EXCEPT ![r] = TRUE]
  /\ Goto(r, "begin")
  /\ UNCHANGED <<frame, calls, frameIsActive, converged, todo, tiles, closers,
                 msgs, image, staleClose>>

\* beginFrame: the master broadcasts whether there is a progress callback
BeginFrame(r) ==
  /\ pc[r] = "begin"
  /\ BcastReady(r)
  /\ \E report \in IF r = Master THEN {FALSE, CanCancel} ELSE {FromMaster(r)} :
       Call(r, "bcastReport", report)
  /\ Goto(r, "render")
  /\ UNCHANGED <<frame, flags, converged, todo, tiles, closers, msgs, image,
                 staleClose>>

-----------------------------------------------------------------------------
(***************************************************************************)
(* Rendering and completing tiles.                                         *)
(***************************************************************************)

\* TileData::process: one more part of tile t, rendered by rank q in frame f;
\* the last one completes the tile
ProcessPart(t, q, f) ==
  /\ parts' = [parts EXCEPT ![t] = @ \cup {<<q, f>>}]
  /\ stage' = IF Cardinality(parts'[t]) = Cardinality(Renderers[t])
                THEN [stage EXCEPT ![t] = "final"] ELSE stage
  /\ UNCHANGED <<completed, gatherBuffer>>

\* a rendering task of rank r calls setTile: process a tile of ours, send
\* the part to the owner otherwise
RenderTile(r, t) ==
  /\ pc[r] = "render"
  /\ t \in todo[r]
  /\ todo' = [todo EXCEPT ![r] = @ \ {t}]
  /\ IF OwnerOf(t) = r
       THEN ProcessPart(t, r, frame[r]) /\ UNCHANGED net
       ELSE /\ net' = net \cup {[tile |-> t, from |-> r, frame |-> frame[r]]}
            /\ UNCHANGED tiles
  /\ UNCHANGED <<main, flags, converged, closers, messaging, inbox, tasks,
                 delayed, image, staleClose>>

\* the parallel_for over the tiles returns.  A master that is no worker has
\* nothing to render: the load balancer closes its frame
RenderingDone(r) ==
  /\ pc[r] = "render"
  /\ todo[r] = {}
  /\ Goto(r, "wait")
  /\ frameIsDone' = IF r = Master /\ ~MasterIsAWorker
                      THEN [frameIsDone EXCEPT ![r] = TRUE] ELSE frameIsDone
  /\ UNCHANGED <<frame, calls, frameIsActive, converged, todo, tiles, closers,
                 msgs, image, staleClose>>

\* the message layer receives a message ...
Receive(m) ==
  /\ m \in net
  /\ messaging[OwnerOf(m.tile)]
  /\ net' = net \ {m}
  /\ inbox' = inbox \cup {m}
  /\ UNCHANGED <<main, flags, converged, todo, tiles, closers, messaging,
                 tasks, delayed, image, staleClose>>

\* ... and calls incoming(): schedule it, or, when the frame is not active,
\* lock the mutex and keep it for the next frame
Incoming(m) ==
  LET r == OwnerOf(m.tile) IN
  /\ m \in inbox
  /\ IF frameIsActive[r]
       THEN tasks' = tasks \cup {m} /\ UNCHANGED delayed
       ELSE /\ ~HoldsMutex(r)
            /\ delayed' = [delayed EXCEPT ![r] = @ \cup {m}]
            /\ UNCHANGED tasks
  /\ inbox' = inbox \ {m}
  /\ UNCHANGED <<main, flags, converged, todo, tiles, closers, messaging, net,
                 image, staleClose>>

\* the scheduled task: processMessage(WriteTileMessage)
ProcessMessage(m) ==
  /\ m \in tasks
  /\ tasks' = tasks \ {m}
  /\ ProcessPart(m.tile, m.from, m.frame)
  /\ UNCHANGED <<main, flags, converged, todo, closers, messaging, net, inbox,
                 delayed, image, staleClose>>

\* mutant: the tile is counted before it is in the gather buffer
StoreTile_CountFirst(t) ==
  LET r == OwnerOf(t) IN
  /\ stage[t] = "final"
  /\ stage' = [stage EXCEPT ![t] = "stored"]
  /\ completed' = [completed EXCEPT ![r] = @ + 1]
  /\ closers' = IF IsComplete(r, completed[r] + 1)
                  THEN [closers EXCEPT ![r] = @ \cup {frame[r]}] ELSE closers
  /\ UNCHANGED <<main, flags, converged, todo, parts, gatherBuffer, msgs,
                 image, staleClose>>

\* tileIsCompleted: the finished tile goes into the gather buffer ...
StoreTile(t) ==
  LET r == OwnerOf(t) IN
  /\ stage[t] = "final"
  /\ stage' = [stage EXCEPT ![t] = "stored"]
  /\ gatherBuffer' = [gatherBuffer EXCEPT ![r] = @ \cup {<<t, frame[r]>>}]
  /\ UNCHANGED <<main, flags, converged, todo, parts, completed, closers, msgs,
                 image, staleClose>>

\* ... it is counted: if (isFrameComplete(1)) ...
CountTile(t) ==
  LET r == OwnerOf(t) IN
  /\ stage[t] = "stored"
  /\ stage' = [stage EXCEPT ![t] = "counted"]
  /\ completed' = [completed EXCEPT ![r] = @ + 1]
  /\ closers' = IF IsComplete(r, completed[r] + 1)
                  THEN [closers EXCEPT ![r] = @ \cup {frame[r]}] ELSE closers
  /\ UNCHANGED <<main, flags, converged, todo, parts, gatherBuffer, msgs,
                 image, staleClose>>

\* ... closeCurrentFrame(), which has to wait for the mutex
CloseByTask(r) ==
  /\ ~HoldsMutex(r)
  /\ \E f \in closers[r] :
       /\ closers' = [closers EXCEPT ![r] = @ \ {f}]
       /\ staleClose' = (staleClose \/ f < frame[r])
  /\ frameIsDone' = [frameIsDone EXCEPT ![r] = TRUE]
  /\ UNCHANGED <<main, frameIsActive, converged, todo, tiles, msgs, image>>

-----------------------------------------------------------------------------
(***************************************************************************)
(* Finishing a frame: waitUntilFinished and endFrame.                      *)
(***************************************************************************)

\* frameDoneCond.wait, then the non-blocking barrier, with the mutex held
EnterIbarrier(r) ==
  /\ pc[r] = "wait"
  /\ frameIsDone[r]
  /\ Call(r, "ibarrier", {})
  /\ Goto(r, "ibarrier")
  /\ UNCHANGED <<frame, flags, converged, todo, tiles, closers, msgs, image,
                 staleClose>>

\* MPI_Test says that every rank is there: frameIsActive = false
LeaveIbarrier(r) ==
  /\ pc[r] = "ibarrier"
  /\ AllCalled(r)
  /\ frameIsActive' = [frameIsActive EXCEPT ![r] = FALSE]
  /\ Goto(r, "stop")
  /\ UNCHANGED <<frame, calls, frameIsDone, converged, todo, tiles, closers,
                 msgs, image, staleClose>>

\* the report flag that rank r received in beginFrame of this frame
Reports(r) == calls[r][Len(calls[r]) - 1].data

\* mutant: the message layer is left running between two frames
StopMessaging_Keeps(r) ==
  /\ pc[r] = "stop"
  /\ Goto(r, IF Reports(r) THEN "cancel" ELSE "gather")
  /\ UNCHANGED <<frame, calls, flags, converged, todo, tiles, closers, msgs,
                 image, staleClose>>

\* disableAsyncMessaging: waits for the inbox thread and empties the inbox
StopMessaging(r) ==
  /\ pc[r] = "stop"
  /\ \A m \in inbox : OwnerOf(m.tile) # r
  /\ messaging' = [messaging EXCEPT ![r] = FALSE]
  /\ Goto(r, IF Reports(r) THEN "cancel" ELSE "gather")
  /\ UNCHANGED <<frame, calls, flags, converged, todo, tiles, closers, net,
                 inbox, tasks, delayed, image, staleClose>>

\* mutant: every rank goes by its own flag
BcastCancelled_Own(r) ==
  /\ pc[r] = "cancel"
  /\ BcastReady(r)
  /\ \E cancelled \in BOOLEAN :
       /\ Call(r, "bcastCancelled", cancelled)
       /\ Goto(r, IF cancelled THEN "end" ELSE "gather")
  /\ UNCHANGED <<frame, flags, converged, todo, tiles, closers, msgs, image,
                 staleClose>>

\* the master broadcasts whether its callback cancelled the frame; everyone
\* skips the gather then
BcastCancelled(r) ==
  /\ pc[r] = "cancel"
  /\ BcastReady(r)
  /\ \E cancelled \in IF r = Master THEN BOOLEAN ELSE {FromMaster(r)} :
       /\ Call(r, "bcastCancelled", cancelled)
       /\ Goto(r, IF cancelled THEN "end" ELSE "gather")
  /\ UNCHANGED <<frame, flags, converged, todo, tiles, closers, msgs, image,
                 staleClose>>

\* gatherFinalTiles, the sending side
Gather(r) ==
  /\ pc[r] = "gather"
  /\ Call(r, "gather", gatherBuffer[r])
  /\ Goto(r, IF r = Master THEN "assemble" ELSE "end")
  /\ UNCHANGED <<frame, flags, converged, todo, tiles, closers, msgs, image,
                 staleClose>>

\* what the master receives from rank r in the gather
Gathered(r) == calls[r][Len(calls[Master])].data

\* gatherFinalTiles on the master: write the received tiles into the local
\* frame, take over their errors; endFrame refines the errors, so that any
\* set of tiles may be below the threshold in the next frame
Assemble ==
  /\ pc[Master] = "assemble"
  /\ AllCalled(Master)
  /\ image' = [t \in Tile |->
                 IF \E f \in 1..MaxFrame : <<t, f>> \in Gathered(OwnerOf(t))
                   THEN CHOOSE f \in 1..MaxFrame :
                          <<t, f>> \in Gathered(OwnerOf(t))
                   ELSE image[t]]
  /\ \E conv \in SUBSET Tile : converged' = [converged EXCEPT ![Master] = conv]
  /\ Goto(Master, "end")
  /\ UNCHANGED <<frame, calls, flags, todo, tiles, closers, msgs, staleClose>>

\* waitUntilFinished returns, endFrame, renderFrame returns
EndFrame(r) ==
  /\ pc[r] = "end"
  /\ Goto(r, "idle")
  /\ UNCHANGED <<frame, calls, flags, converged, todo, tiles, closers, msgs,
                 image, staleClose>>

\* clear(OSP_FB_ACCUM), a command between two frames: forget the tile errors
Clear(r) ==
  /\ pc[r] = "idle"
  /\ converged' = [converged EXCEPT ![r] = {}]
  /\ UNCHANGED <<main, flags, todo, tiles, closers, msgs, image, staleClose>>

-----------------------------------------------------------------------------
MainThread(r) ==
  \/ EnterBarrier(r) \/ LeaveBarrier(r) \/ StartNewFrame(r)
  \/ CheckComplete(r) \/ CloseAtStart(r) \/ BeginFrame(r) \/ RenderingDone(r)
  \/ EnterIbarrier(r) \/ LeaveIbarrier(r) \/ StopMessaging(r)
  \/ BcastCancelled(r) \/ Gather(r) \/ EndFrame(r)
  \/ r = Master /\ Assemble

Message == [tile : Tile, from : Rank, frame : 1..MaxFrame]

Next ==
  \/ \E r \in Rank : MainThread(r) \/ Clear(r)
  \/ \E r \in Rank, t \in Tile : RenderTile(r, t)
  \/ \E m \in net : Receive(m)
  \/ \E m \in inbox : Incoming(m)
  \/ \E m \in tasks : ProcessMessage(m)
  \/ \E t \in Tile : StoreTile(t) \/ CountTile(t)
  \/ \E r \in Rank : CloseByTask(r)

(***************************************************************************)
(* Every thread of every rank keeps running, the tasking system runs every *)
(* scheduled task, and the message layer polls for ever: weak fairness on  *)
(* each of them.                                                           *)
(***************************************************************************)
Fairness ==
  /\ \A r \in Rank : /\ WF_vars(MainThread(r))
                     /\ WF_vars(CloseByTask(r))
                     /\ \A t \in Tile : WF_vars(RenderTile(r, t))
  /\ \A t \in Tile : WF_vars(StoreTile(t)) /\ WF_vars(CountTile(t))
  /\ \A m \in Message : /\ WF_vars(Receive(m))
                        /\ WF_vars(Incoming(m))
                        /\ WF_vars(ProcessMessage(m))

Spec == Init /\ [][Next]_vars /\ Fairness

-----------------------------------------------------------------------------
(***************************************************************************)
(* Properties.                                                             *)
(***************************************************************************)
TypeOK ==
  /\ pc \in [Rank -> PC]
  /\ frame \in [Rank -> 0..MaxFrame]
  /\ frameIsActive \in [Rank -> BOOLEAN]
  /\ frameIsDone \in [Rank -> BOOLEAN]
  /\ converged \in [Rank -> SUBSET Tile]
  /\ todo \in [Rank -> SUBSET Tile]
  /\ parts \in [Tile -> SUBSET (Rank \X (1..MaxFrame))]
  /\ stage \in [Tile -> {"open", "final", "stored", "counted"}]
  /\ completed \in [Rank -> Nat]
  /\ closers \in [Rank -> SUBSET (1..MaxFrame)]
  /\ gatherBuffer \in [Rank -> SUBSET (Tile \X (1..MaxFrame))]
  /\ messaging \in [Rank -> BOOLEAN]
  /\ net \in SUBSET Message
  /\ inbox \in SUBSET Message
  /\ tasks \in SUBSET Message
  /\ delayed \in [Rank -> SUBSET Message]
  /\ DOMAIN calls = Rank
  /\ image \in [Tile -> 0..MaxFrame]
  /\ staleClose \in BOOLEAN

\* "we are done exactly once we've completed sending / receiving the last
\* tile" (DistributedFrameBuffer.h:206-209): a rank that has left the wait
\* of waitUntilFinished has completed all of its tiles.
DoneWhenComplete ==
  \A r \in Rank : pc[r] \in {"ibarrier", "stop", "cancel", "gather"} =>
    \A t \in MyTiles(r) \ converged[r] : stage[t] = "counted"

\* No tile message outlives its frame: one that waits for its receiver is for
\* the frame the receiver is in or, while it sits in the network, for the one
\* the receiver is about to start.
MessagesInFrame ==
  /\ \A m \in inbox \cup tasks :
       LET r == OwnerOf(m.tile) IN m.frame = frame[r] /\ frameIsActive[r]
  /\ \A m \in net :
       LET r == OwnerOf(m.tile)
       IN  m.frame = IF pc[r] \in {"barrier", "start"} THEN frame[r] + 1
                                                      ELSE frame[r]

\* The frames the master has finished: its own count, up to the step of the
\* current frame that shows or cancels it.
Finished == IF pc[Master] \in {"idle", "barrier", "start", "end"}
              THEN frame[Master] ELSE frame[Master] - 1

\* Was the last of them cancelled?
Cancelled ==
  LET ends == {k \in 1..Len(calls[Master]) :
                 \/ calls[Master][k].kind = "gather"
                      /\ ~(pc[Master] = "assemble" /\ k = Len(calls[Master]))
                 \/ calls[Master][k].kind = "bcastCancelled" /\ calls[Master][k].data}
  IN \E k \in ends : calls[Master][k].kind = "bcastCancelled" /\ \A l \in ends : l <= k

\* No task closes a frame that is not its own.
NoStaleClose == ~staleClose

\* All ranks make the same collective calls in the same order, whether the
\* frame is cancelled, reported or neither.
CallsMatch ==
  \A r, s \in Rank :
    \A k \in 1..Len(calls[r]) :
      k <= Len(calls[s]) => calls[r][k].kind = calls[s][k].kind

\* A frame that is begun is finished, on every rank.
FramesFinish == \A r \in Rank : pc[r] = "barrier" ~> pc[r] = "idle"

=============================================================================
