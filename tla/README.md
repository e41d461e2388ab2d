# TLA+ models of OSPRay

OSPRay is a ray tracing engine for visualisation. Most of its source is
floating-point arithmetic on images and scenes; what keeps the engine correct
is a smaller amount of coordination code: threads that are started and stopped,
tasks, messages between MPI ranks, frames that begin and end on all ranks, and
tiles that are dealt out, rendered several times, composited and accumulated.
These modules model that part. Each is written from the code it names;
`PROJECT.json` maps every definition to the lines it stands for.

## 1. The system

| component | where | state it keeps | operations | modules |
|---|---|---|---|---|
| AsyncLoop | `ospcommon/AsyncLoop.h` | three flags, a mutex, a condition variable, a thread | start, stop, destructor, the loop | `AsyncLoop`, `MCThreads`, `MCThreads_proofs` |
| message layer (maml) | `mpiMessageLayer/maml` | outbox, pending sends and receives, inbox, two AsyncLoops | send, the two passes, start, stop with its flush | `MessageLayer`, `MessageService`, `MCOffload`, `MCOffload_proofs` |
| distributed frame buffer (DFB) | `modules/mpi/fb/DistributedFrameBuffer*` | frame flags, tile counters, delayed messages, gather buffer, copies of the errors | beginFrame, startNewFrame, incoming, tileIsCompleted, closeCurrentFrame, updateProgress, waitUntilFinished, gatherFinalTiles, endFrame, clear | `DistributedFrame`, `FrameProgress`, `FrameService`, `MCDistributedFrame`, `DistributedFrame_proofs`, `MCDistributedFrame_proofs` |
| load balancers | `modules/mpi/render/MPILoadBalancer.*` | master: queues of tiles, who has been told there are no more; worker: counters of tasks | static: renderFrame; dynamic: generateTileTasks, scheduleTile, incoming, tileTask, renderFrame | static: in `DistributedFrame`; dynamic: `DynamicBalancer` and its proofs, `MCStolenTiles` |
| tile types | `modules/mpi/fb/DistributedFrameBuffer_TileTypes.*`, `.ispc` | sums, variance, buffered parts, generations | newFrame, process | `TileAccumulation` and its proofs, `AlphaBlendTile`, `MCTiles`, `MCTiles_proofs` |
| tile error | `ospray/fb/TileError.cpp` | errors of the tiles, regions | update, refine, clear | `TileError`, `MCTiles`, `MCTiles_proofs` |
| internal tasking system | `ospcommon/tasking/detail/TaskSys.*` | list of active tasks, workers, running flag | parallel_for, schedule, the workers, shutdown | `TaskSys`, `MCThreads`, `MCThreads_proofs` |
| offload device | `modules/mpi/MPIOffload*`, `common/OSPWork.*`, `BufferedDataStreaming.cpp`, `MPIBcastFabric.cpp` | write buffer, what each worker has received, the load balancer of every rank | commit, processWork, flush, readWork, run on master and workers | `WorkStream`, `WorkService`, `MCOffload`, `MCOffload_proofs` |
| objects, handles, reference counts | `ospray/common/ObjectHandle.cpp`, `Managed.*`, `Data.cpp`, `memory/RefCount.h`, the works of `OSPWork.*`, `api/ISPCDevice.cpp` | the objects of the local device, of a worker and of the master, with counts, parameters and lists | new, set, add, remove, release | `ObjectStore`, `MCOffload` |
| distributed device, messaging | `MPIDistributedDevice.cpp`, `common/Messaging.cpp` | map of message handlers | as a local device, on every rank | planned |
| distributed raycast | `render/distributed/DistributedRaycast.cpp` | regions of all ranks and their owners, counters of the tiles | commit with its exchange of regions, renderFrame | `DistributedRegions`, `AlphaBlendTile`, `MCTiles`, `MCTiles_proofs` |
| asynchronous render engine | `exampleViewer/common/util/AsyncRenderEngine.cpp` | state, flags, two frame buffers, an AsyncLoop | start, stop, the render loop, mapping of a frame, cancel | `AsyncRenderEngine`, `MCThreads`, `MCThreads_proofs` |
| local device: frame | `ospray/render/LoadBalancer.cpp`, `ospray/fb/LocalFB.*`, `Device::reportProgress` | one accumulating buffer, counters of the tiles, a cancel flag | renderFrame, setTile, reportProgress, endFrame, clear | `LocalFrame` and its proofs, `FrameService`, `MCDistributedFrame` |
| scene graph of the applications | `apps/common/sg`: `common/Node.*`, `SceneGraph.cpp` | a tree of nodes with values and time stamps, the accumulated frames | setValue, markAsModified, commit by traversal, renderFrame | `SceneGraph`, `MCThreads`, `MCThreads_proofs` |
| shading, cameras, geometries, volumes, textures | `ospray/render`, `ospray/geometry`, ... | parameters | kernels in ISPC | not modelled: pure floating point |
| sockets, MPI service, utilities, applications, vendored code | | | | not modelled: wrappers, start-up, sequential containers, clients |

How they interact on a frame of the offload device:

1. The master application calls `ospRenderFrame`. The works it has buffered go
   out with it (`WorkStream`), and that of the frame makes every rank enter a barrier (`OSPWork.cpp`, RenderFrame) and call `renderFrame` of its
   load balancer, which calls `startNewFrame` of its DFB. That broadcasts the
   tile errors, resets the tiles, and starts the message layer.
2. Tiles are rendered by tasks: each worker its own (static), or those the
   master sends it as messages (dynamic), or all that the worker's data touch
   (distributed). `setTile` hands a finished part to the tile's owner, directly
   or as a message. The owner's message layer queues a task for it.
3. The tile's `process` composites or accumulates; when it is complete,
   `tileIsCompleted` copies it to the gather buffer and counts it. The task, or
   the main thread, that sees the count reach the number of tiles closes the
   frame.
4. `waitUntilFinished` waits for that, passes an `Ibarrier`, stops the message
   layer (which flushes it), agrees on whether the frame was cancelled, and
   gathers the finished tiles on the master. The errors are refined there and
   broadcast with the next frame.

What is hard here: the master's tasks, main thread and message threads share
state with few locks (frame flags, queues, notification flags); collective
calls must be made in the same order by all ranks, on paths that branch on
data; messages can reach a rank before or after the frame they are meant for;
instances of a tile come in any order and the order decides the arithmetic;
several waits end only if somebody else's message arrives. Nothing is
persisted and no rank is restarted, so there is no crash recovery; MPI loses
and duplicates nothing, so neither do the models.

What makes each part correct, in one line each:

- AsyncLoop: `stop()` is a barrier for the body and returns; `start()` starts.
- message layer: a message is handled exactly once, by its receiver, never
  while the layer is stopped; `stop()` returns.
- DFB: a rank leaves a frame when its tiles are complete and not before; all
  ranks make the same collective calls; messages stay in their frame; the
  application sees whole frames.
- dynamic balancer: every tile is rendered as often as planned, no task
  outlives the frame, the frame ends.
- tiles: every instance is in the sum once and the divisor is their number; a
  composite holds all parts in depth order.
- distributed raycast: the ranks send a tile the parts its owner announces, each
  once, although each decides for itself what it sends.
- tile error: regions share no tile, are refined as groups and fit their list.
- render engine: frames are shown whole and once; `start()` renders, and after
  `stop()` nothing does.
- local device: whole frames, or, cancelled, some tiles of one; what a tile
  shows is a mean.
- offload device: works are run by all workers in order, whatever the sizes of
  works and buffers; a call that waits is not waiting for what it holds back
  itself; all ranks of a frame use the same load balancer.
- objects: they exist as long as somebody needs them, and a worker's are those
  of the local device after the same calls.
- scene graph: a commit finds every value that has changed since the last one,
  and frames of different values are not accumulated into one image.
- tasking: every job once, join means joined, no task used after its end.

## 2. The modules

**`AsyncLoop`** has one variable per flag of the class and one program counter
each for the background thread and the owner. The flags are read and written
without the mutex, so each access is an action. `Lock`, `EvalPredicate` and
`Block` split the condition variable's wait where a notification can fall;
`SpuriousWakeup` is allowed up to `MaxSpurious` times. The launch method is
THREAD; with TASK the destructor does not join (section 7).

**`DistributedFrame`** gives each rank a main thread (`pc`) that walks through
`beginFrame`, rendering, `waitUntilFinished` and `endFrame`; tasks and message
threads are the sets `parts`, `closers`, `net`, `inbox`, `tasks`. Collectives
are explicit: `calls[r]` records the calls a rank has made with their data, and
the k-th calls of all ranks are matched. A broadcast lets a rank pass when the
master has called, a barrier when all have. Where the code waits for the
Ibarrier it is a step of its own, so other threads can act before it. Each tile
goes through `StoreTile` (copy into the gather buffer) and `CountTile` (raise
the counter under the mutex), separate because other tasks act between them. Pixels are
the number of the frame they were rendered in. `Renderers` says which ranks
render a part of a tile, so one module covers the static balancer, the
data-distributed mode and the effect of the dynamic balancer on the buffer.
`MCStolenTiles` gives all tiles to one worker.

**`FrameProgress`** is the part of the frame that `DistributedFrame` leaves out:
the workers count completed tiles and report the count to the master once a
second (any time, in the model), a task of the master adds it up without a lock
(`ReadCount`, `UpdateProgress`) and calls the application, which may answer 0.
`reportProgress` skips the call while another is running (`callback` is its
`try_lock`). Messages can be received as long as the message layer runs, those
of the frame before included, since nobody looks at `frameID`.

**`LocalFrame`** is a frame of the local device: one task per tile with its
early returns, `setTile` with accumulation, the callback and the shared cancel
flag. A sum is the list of instances `<<accumID, frame>>` in it.

**`FrameService`** is what the application sees, and both devices implement it:
frames appear whole and in order, converged tiles keep their pixels, a
cancelled frame changes nothing, or (`inPlace`) some of its tiles.
`MCDistributedFrame` runs the modes of a frame side by side: `mode` chooses one
per behaviour, and the mapping to `FrameService` follows it.

**`DynamicBalancer`** splits `scheduleTile` into choosing, popping, closing and
sending, because the master's main thread and the inbox thread run it at once
without a lock. A `pop_back` on a queue the other thread has emptied is
undefined; the model lets that thread go no further. `raced` remembers whether
the two ever overlapped. `generateTileTasks` is `TileTasks`, for any set of
tiles above the threshold and any order of equal errors; `Chosen` and
`OwnedBy` put the tasks into the queues of the tiles' owners. The frame buffer
is reduced to completion: the full one is `DistributedFrame`. Answers from the
master to one worker stay in order here, which is the kindest assumption for the
balancer: `MessageService` does not promise it. `CanStep` lists the guards of
the steps once more, as a state predicate for `OnlyRaceOrLateAnswerHangs`.

**`MessageLayer`** takes the AsyncLoops as their module shows them: `stop()`
waits for the pass under way, and no pass begins before the next start. The
parallel vectors of `waitOnSomeRequests` are sets; the completed receives enter
the inbox in any order, as `MPI_Testsome` reports them. The messages a pass
takes out of a box, and those it leaves, are chosen by their positions
(`Chosen`, with `Local` and `Remote` for the outbox). MPI is external:
`Probed`, `CompletesSend`, `CompletesRecv`. `MessageService` is the abstract
specification: at most one delivery, to the right rank, none while stopped, in
no order.

**`TileAccumulation`** follows one tile of an accumulating buffer. A rendered
instance is its accumID; a buffer of sums is the bag of instances added. So
"the shown colour is a mean" becomes "the divisor is the size of the bag".
`dynamic` chooses the load balancer, since the two count accumIDs differently.
**`AlphaBlendTile`** follows one tile of a composited frame: background and
region parts, generations, the order of blending. `BeginFrame` hands it parts
that fit. **`DistributedRegions`** extends it with the ranks that make these
parts: every commit exchanges the ids of the regions and adds to the owners of
each; in a frame every rank projects the regions, decides by the round robin
over a region's owners whether it is in charge of the tile, tests with its own
rays which regions are visible, and sends its parts; the owner of the tile
sends the background with the number of regions it sees. The geometry is a
free choice within what the ranks have in common: which regions project to the
tile is the same for all (`projected`), and two ranks see the same regions if
they render the tile with the same accumID, since it alone decides where the
rays go. Other accumIDs may see other regions, which is why each rank's counter
of the tile is in the model. Models as the code needs them: the ids in use are
0, 1, ... (they index arrays), every rank has a region, and what is visible
projects to the tile.
**`MCTiles`** runs all of them: `createTiles` makes the tiles of a buffer of one
kind, so a behaviour has one of them.

**`TileError`** is `TileError.cpp` with integer errors. `refine()` is one step per
region, with the in-place removal and the append of the code.

**`AsyncRenderEngine`** extends `AsyncLoop`: the engine's function is the loop's
body, refined into steps (`at`), and the application thread is the loop's owner
(`app`). The back buffer is filled in two steps, so that a swap can fall
between. `start()` is its retry loop around the loop's stop and start; the
20 ms it sleeps are long enough for the loop to reach its body, or to be asleep
again, except `MaxSlow` times. `overwritten` remembers whether a body set the
state to RUNNING while a call was stopping the loop.
**`MCThreads`** runs the threads of a process: AsyncLoop alone under any calls,
in the hands of the engine, `TaskSys`, or `SceneGraph`.

**`SceneGraph`** is the tree of `sg::Frame`: a camera and a renderer with
parameters, and the renderer's backplate, which `Renderer::preCommit` marks as
modified whenever it runs. The application thread sets values and walks up the
parents with a new stamp, test and store apart, since nothing locks the stamps.
The render thread commits the tree and renders: the recursion of `traverse` is
unrolled into the list `todo` of the calls that are still to be made, each
marking of the backplate being one step. What was accumulated is the set of
committed values its frames were rendered with. `overlapped` remembers the
parameters that were last changed while a commit ran, or whose change was not
yet told to the parents when it began.

**`WorkStream`** follows the works from `processWork` to the workers. A work is
two or three units of the stream, the buffer sizes are 2 and 4, so that works
straddle broadcasts and broadcasts hold several works. `Broadcast` is one step:
the size, the barrier and the data are collectives that all ranks make in the
same order, and a worker gets there only when it has used up what it had.
`commit()` is split where it flushes, replaces the stream, and sends the load
balancer. A frame is one step (`WorldBarrier`), since `DistributedFrame` is the
frame. **`WorkService`** is the promise: calls run on every worker in order and
once, those with a result return after those that compute it have come to it.

**`ObjectStore`** applies each call of the application to two heaps at once,
the local device's and a worker's, plus the parameters the master keeps of its
renderers and volumes. `RefDec` deletes recursively, as the destructors do;
`RefIncs` counts all items of an array at once, and `Reach` is the least set
that contains the roots and is closed under counted references. `ospSetObject`
with NULL is an action of its own (`SetNull`): it gives back the old object and
counts no new one. A null pointer reads like no parameter, so `Null` is told from
`None` only in renderers and volumes, of which the master has a copy that a
removal changes and a null pointer does not.
What nobody will ever take back is counted in `leaked`, so that the property
about life times can be exact. One parameter per object stands for all: they
do not interact. Handles are used once (`free()` has no caller). The
application of the model releases each object once, uses what it has not
released, and builds no cycles.
**`MCOffload`** runs the message layer, the stream and the objects.

**`TaskSys`** is the internal tasking system. `Access(k, step)` is a step that
uses task k: if the task has gone, the behaviour ends there with `undefined`
set. That keeps undefined behaviour from being given a meaning, and lets the
other properties speak about what happens before it.

Mutants stand in front of the definition they change. They are never part of
`Next`.

## 3. The runs

| run | instance | checks |
|---|---|---|
| `threads` | the loop, the engine (`MaxSlow` 1), or 1 caller, 2 workers, 2 tasks of 0 or 2 jobs and a shutdown; 2 spurious wakeups; or a camera and a renderer with a parameter each, 2 changes, 2 frames | `NoBodyAfterStop`, `LoopLive`; `ShowsWholeNewFrames`, `StoppedIsQuiet`, `StartRendersUnlessOverwritten`, `CallsReturnUnlessOverwritten`; `JobsRunOnce`, `CallsReturn` (and that scheduled tasks are run), `ShutdownReturns`; `ShowsScene` |
| `async_loop_wakeup` | the loop alone | violated: `StartWakes`. `start()` notifies without the mutex and the loop can sleep on |
| `frames` | replicated: master, 2 workers, 3 tiles; distributed: 3 ranks that all render 2 tiles; progress: 2 workers, 2 messages; all 2 frames; local: 3 tiles, 4 frames; any converged sets, cancellation | `CallsMatch`, `InFrame`, `NoStaleClose`, `BegunFinish` (replicated mode), `CancelHonoured`, `TilesAreMeans`, refinement of `FrameService` by both devices |
| `df_stale_close` | 2 workers, one renders both tiles, 2 frames | violated: `DoneWhenComplete`. A late `closeCurrentFrame` ends the next frame |
| `progress_stale` | 2 workers, 2 frames, 3 progress messages | violated: `ProgressAtMostOne`. A message of the last frame is counted in the present one |
| `dyn` | 2 workers, 2 tiles, 2 dealt in advance, 2 frames | `NoTaskOutlivesFrame`, `EveryTileOnce`, `ExhaustedIsLastUnlessRaced`, `OnlyRaceOrLateAnswerHangs` |
| `dyn_late_answer` | one frame, 1 dealt in advance | violated: `RenderThreadsFinish`. The last answer comes after the worker's message layer was stopped |
| `tiles` | 5 frames of up to 4 instances; 2 frames of up to 4 regions; 2 frames of 3 ranks with 2 regions, 2 commits and a tile whose owner is any of them; 5 x 2 tiles with errors below and far above the threshold | `EachInstanceOnce`, `FinalIsMeanUnlessSkipped`, `EstimateIsBalanced`; `CompletesWithLast`, `BlendsAllInOrder`; `ComposesUnlessStale`; `RegionsSound`, `RefinedAsGroup` (and that converged tiles stay so) |
| `regions_stale` | 3 ranks, 2 regions, 2 commits, 1 frame | violated: `ComposesWhenCleared`. A rank that gave a region up stays in charge of some of its tiles |
| `offload` | 2 ranks, 2 messages, 2 starts of the message layer; 2 workers, buffers of 2 or 4 units, 4 works of any kind; 3 objects, lists of up to 2, 1 leak | `OnePlace`, `QuietWhenStopped`, `Delivered`, `OnlyStoppedPeerHolds`, refinement of `MessageService`; `StreamIsWhole`, `SameBalancer`, `CallsEnd`, refinement of `WorkService` (`StreamImplements`); `LivesUnlessUncounted`, `DevicesAgree` |
| `offload_volumes` | the same objects | violated: `VolumesRemoved`. `RemoveVolume::run` adds the volume before it erases one |
| `task_sys_lifetime` | 1 caller, 1 worker, 1 task | violated: `NoUseAfterEnd`. The list keeps a pointer to a task that has returned |

A run whose module puts several components side by side explores each behaviour
of one component with the others at rest; they are not composed there, only
checked together. Real compositions are `AsyncRenderEngine` on `AsyncLoop`,
`DistributedRegions` on `AlphaBlendTile`, and the ranks, tasks and messages of
`DistributedFrame`.

The type invariants are conjuncts of an invariant of their run: of `JobsRunOnce`,
`InFrame`, `EveryTileOnce`, `OnePlace`, `StreamIsWhole`, `RegionsSound`,
`ComposesUnlessStale`, `LivesUnlessUncounted` and `ShowsScene`.

Why these bounds are enough to show something:

- *Frames.* Two are needed for anything late (messages, closes, requests) to
  reach the wrong frame; each step looks at the present frame only, so a third
  adds renamings. Accumulation looks at parity and at the accumIDs 0 and 1,
  which are special, so it has five frames.
- *Scene graph.* The first frame commits all; the second finds the changes made
  before, during and after it. Two changes can meet on the stamps of one parent.
- *Ranks and workers.* Three ranks: master, owner and a sender that is neither.
  Two workers: the owner of a tile and one who takes it over. Two ranks in the
  message layer include messages to oneself.
- *Tiles.* More tiles than workers in replicated mode, so that a rank owns
  several. Three on the local device: one done, one in the callback, one that
  is to be skipped. Four frames there: clear, two instances, and a tile that
  has converged.
- *Progress.* Two messages, so that two tasks race for the count and one is of
  the frame before; three to exceed the tiles of a frame (`progress_stale`).
- *Works.* `commit()` sends the first. Three more: one that stays in the buffer,
  one that must push it out, one that follows; a buffer smaller than a work and
  one larger.
- *Objects.* An owner, what it owns, and a third that owns or replaces either.
  The bound on leaks cuts behaviours that only repeat one, and NULL is given to
  parameters that hold an object only: on others it changes no count.
- *Dealing in advance.* Two, so that a worker has two requests outstanding: the
  second is answered after it has been notified, or crosses into the next frame.
- *Regions of a distributed frame.* Three ranks: the tile's owner, one that
  shares a region with another, one that has lost it. Two regions can be shared
  differently and add up to a wrong count. Two frames and two commits: what a
  change leaves behind is seen in the frame after it.
- *Regions of the error.* 5 x 2 tiles: halves of unequal size, splits in both directions, and
  regions that are split again while others are dropped.
- *Messages.* Two suffice to reorder, to have one pending while one is flushed,
  and for a handler's answer.

Deadlock checking is off in every run: the application may stop calling, and the
bounds end every behaviour. Where a hang is the question a property asks it
(`LoopLive`, `CallsReturnUnlessOverwritten`, `BegunFinish`,
`OnlyRaceOrLateAnswerHangs`, `OnlyStoppedPeerHolds`, `CallsReturn`,
`ShutdownReturns`, `CallsEnd`).

## 4. Fairness

Weak fairness of each thread's next step: operating system threads and tasks
run, and a body, handler or tile returns. Calls the owner or application has
begun go on; nobody is obliged to make one. MPI completes a request once it is
matched, and may or may not buffer a send (`MessageLayer` has fairness only for
the matched ones). Spurious wakeups have none and are bounded. No strong
fairness is used, and no loop is assumed to win a contended mutex for ever.

The application of the render engine goes on displaying new frames (fairness of
`Swap`): `ImGuiViewer::display` asks for one in every iteration of its event
loop. It is under no obligation to start or stop. The workers of the offload
device read and run, and a collective that everybody has entered completes.
`sleep_for(20ms)` in `AsyncRenderEngine::start` is a timing assumption rather
than fairness: a loop that has been notified is in its body by then, except
`MaxSlow` times, after which `start()` only tries again.

`OnlyRaceOrLateAnswerHangs` is an invariant: in `DynamicBalancer` every step uses
something up (a message, a tile, a phase of a frame), so no step can be taken
for ever, and to come to the end it is enough not to be stuck before it. It has
two parts. `GoesOn` says that the guard of some step holds (`CanStep`), or the
state is one of those the property excepts; this is a state predicate, and
proved. `CanStep => ENABLED Next` says that these guards are the steps' own; only
TLC checks it.

## 5. What the runs say about the code

*Lost start* (`AsyncLoop.h:110`). The notification can fall between the
predicate and the block. `AsyncRenderEngine.cpp:260-280` retries for that
reason without knowing it ("I hope someone can find a better solution").

*Stale close* (`DistributedFrameBuffer.cpp:216`). The main thread's
`isFrameComplete(0)` in `startNewFrame` and the last task's `isFrameComplete(1)`
can both see the final count. The task then closes a frame late, possibly the
next one. It needs a rank whose main thread finds its own tiles complete at the
start of the frame although others render them, so it happens with the dynamic
balancer only; with the static one, and when all ranks render all tiles,
`NoStaleClose` and `DoneWhenComplete` hold.

*Late answer* (`MPILoadBalancer.cpp:408`). The master closes its frame before
it sends the last `tilesExhausted`. If a worker stops its message layer first,
it waits for ever. If two threads are in `scheduleTile` at once
(`MPILoadBalancer.cpp:245`) a `tilesExhausted` can overtake a tile for the same
worker, which then counts the tile and never renders it; the invariants of
`dyn` state what holds as long as they are not.

*Task used after its end* (`TaskSys.cpp:165`). A completed task stays listed
until a worker finds it exhausted.

*Progress of another frame* (`DistributedFrameBuffer.cpp:532`). `incoming()` lets
progress messages pass outside a frame and `updateProgress` counts them in
whatever frame is active. The callback can be told more than 1 ("the reported
progress is in (0-1]", `doc/api.md:2131`). Cancellation is sound all the same
(`CancelHonoured`): an answer given after the next `beginFrame` cancels that
frame, one given before it is forgotten.

*Stale owners* (`DistributedRaycast.cpp:594`). `exchangeModelBounds` inserts the
ranks into `regionOwners` and nobody ever clears it, though `commit` clears the
regions themselves. After a commit that moves a region to other ranks, a rank
without it is still in charge of every n-th tile of the region and sends nothing
there. The owner of the tile counts the region, and the frame never completes.
`ComposesUnlessStale` says that this is all that can go wrong if the frame
buffer is cleared with every change of the view. Without that another thing
can: a rank that starts to render to a tile counts its accumID from where it
left off, its rays fall elsewhere in the pixels than the owner's, and at the
edge of a region the two can differ on whether it is visible. The viewer
of the MPI module clears whenever the camera moves (`ospDistribViewerDemo.cpp:435`);
the documentation of `ospRenderFrame` does not ask for it.

*Removed volume* (`OSPWork.cpp:557`). `RemoveVolume::run` pushes the volume to
the back of the list before it erases the first match, so that a volume that is
removed from a model stays in it on the workers. The local device erases only.

*Overwritten state* (`AsyncRenderEngine.cpp:37`). The body sets the state to
RUNNING without a look at it. If that falls into a call of `stop()`, or into
the retry of `start()`, the body can spin for pixels to be taken while the
application waits in `AsyncLoop::stop`, which is a deadlock, or a later
`start()` returns at once although the loop sleeps. The two properties with
`UnlessOverwritten` state what holds otherwise.

*Lost changes* (`Node.cpp:457`). `subtreeModifiedButNotCommitted` ("Did this
Node (or decendants) get modified and not (yet) committed?", `Node.h:155`)
compares stamps, and a node gets its `lastCommitted` at the end of its traversal.
A value that is set after its node was visited and before the parent is stamped
looks committed from the root, and no later commit descends to it until
something else below the parent changes. Likewise `Frame::preCommit` decides
whether to clear before it commits the children: a change between shows in the
next frame, which is accumulated onto frames without it. The viewer's
application thread does set values while the render thread commits.
`ShowsScene` and `NothingLost` except the parameters whose last change
overlapped with a commit; without the exception both are violated within two
frames.

*Reference counts.* `RemoveParam::run` does not give back an object a parameter
held, the local device does ("ManagedObjects have to be decref before removing
them", `ISPCDevice.cpp:215`); `Param::set` of a plain value over an object
leaks it on both (`ParameterizedObject.h:41`). The leaks are counted in the
model and `LivesUnlessUncounted` and `DevicesAgree` hold up to them.

*Items that dangle* (`Data.cpp:42`). An array counts its items if its type is
OSP_OBJECT, and not if it is another type of object, OSP_LIGHT for instance. A
light that the application creates, puts in such an array and releases is gone,
and the array still refers to it, although "all ospray objects [...] will
automatically live as long as any other object (and/or the application) still
need it" (`Managed.h:45-49`). The application has to keep the items of such
arrays. `LivesUnlessUncounted` looks at all references of the existing objects,
counted or not, and excepts just these: an item of an array of lights that the
application has released (`NothingDangles`). Without the exception it is
violated by those three calls.

*A write buffer of size 0* (`MPIOffloadDevice.cpp:478`). `size_t(writeBufferSize *
1024)` is 0 for a `writeBufferScale` below 1/1024; `BufferedWriteStream::write`
then copies nothing, and its loop never ends. The model assumes a buffer of at least
one unit (`BufferSizesAssumption`), and what is checked and proved of the stream
holds for those.

*Also worth knowing*: the comment in the static balancer
(`MPILoadBalancer.cpp:138-141`) says that the assignment of tiles to workers
does not match their ownership, but the round robin of lines 142-143 is that of
`ownerIDFromTileID`; `delayedMessage` is never filled (`InFrame`), as the
comment in `incoming()` expects; the static balancer takes an accumID for a tile
before it sees that the tile is converged and skips it
(`MPILoadBalancer.cpp:148-151`), so the divisor is too large if a lower
threshold renders that tile again (`FinalIsMeanUnlessSkipped`); `parallel_for`
over nothing never returns with the internal tasking system (`TaskSys.cpp:100`;
`CallsReturn` excepts it); with `OSPRAY_PREALLOCATED_TILES`, or the example
viewer's widget of the same name, at 0 the master of the dynamic balancer deals
out nothing in advance, no worker has a tile after which to ask for another, and
the first frame never ends (`MPILoadBalancer.cpp:351`; the hypothesis
`NumPreAllocated # 0` of `OnlyRaceOrLateHangs`); `shutdownWorkerThreads`
notifies without the mutex, and can miss a worker that is about to block
(`TaskSys.cpp:181`; `missed` in `ShutdownReturns`); `getString` of an object the
master does not keep dereferences a null pointer (`MPIOffloadDevice.cpp:865`).

## 6. What is proved

The proofs hold for every value of the constants that satisfies the named
assumptions of the modules: any bound on spurious wakeups, any number of ranks
(with a worker if the master is none), of tiles and of frames, any assignment
of renderers to tiles, any sizes of works and buffers, images, and lists of
regions. The assumptions say that the bounds are numbers and the sets finite;
`RegionAssumption` that the regions of a composited tile are finitely many,
`SceneAssumption` that the parameters of a scene's camera and renderer are, and
are nodes of their own,
`RanksAssumption` that there is a rank and that the ranks share no more regions
than a tile can have parts of; `ObjectsAssumption` that the bounds on objects and
lists are numbers, `NoneAssumption` that "no parameter", a plain value, a null
pointer and the handles are different things; `BufferSizesAssumption` that no
write buffer has size 0 (section 5).
Each safety theorem follows one pattern: an inductive invariant, one case per
action, and the property as a consequence.

`MCThreads_proofs` proves about the threads of one process, in the modules they
are modelled in and in the specification `ThreadsSpec` the run `threads` checks.
The loop:

- `Invariance`: `IInv` is inductive. It says that the inside flag is up exactly
  in the guarded part of the loop, that the mutex is held where the program
  counter says so, and that the run flag is down from the moment `stop()`
  clears it. `NoBodyAfterStop` alone is not inductive: a state with the flag up
  after a stop, or with the loop at `enter` and the mutex free, would step out
  of it.
- `StopIsABarrier`: `[]NoBodyAfterStop`. The background thread tests the flag
  and runs the body under the mutex, `stop()` takes that mutex after clearing
  the flag, so the body is over when it has it, and the test fails afterwards.
- `InsideIsLocked`: the flag `stop()` waits for is only ever up while the mutex
  is held. So that wait never blocks, which is why nobody has to notify it.

The render engine, on top of it:

- `EngineInvariance`: the invariant of the loop is reused as it stands, since
  every step of the engine is a step of its loop or leaves the loop alone
  (`UsesLoop`). On top, `OwnerFollows` says which call of the loop a call of the
  engine is in, `StateTells` what the state says of the loop, and
  `BuffersFollow` which of the two buffers is half-written, new or shown.
- `ShowsWhole`: `[]ShowsWholeNewFrames`. That alone is not inductive: pixels
  nobody has seen are only safe because a body that writes over them is being
  stopped, and the calls that stop it do not map a frame.
- `EngineStops`: `ThreadsSpec => []StoppedIsQuiet`, the property of the run.

The tasking system, which runs beside them:

- `ForkAndJoin`: `ThreadsSpec => []JobsRunOnce`. Jobs are claimed by a counter
  that may run past the number of jobs, and finished jobs are counted by another
  that decides when the task is done; the two are only related by what the
  threads have claimed and not yet counted. `TasksShared` makes that relation a
  statement about sets: the jobs below the claim counter are those in a thread's
  hands and those counted, no job is in two hands, and the counted ones are as
  many as the second counter says.
- `ThreadsInvariance`: the three invariants hold side by side.

The scene graph:

- `SceneShown`: `ThreadsSpec => []ShowsScene`, for any number of parameters,
  changes and frames. The property speaks of the time between commits; within
  one, `InOrder` says that the calls the render thread has still to make are in
  the order of the recursion (`Before`: a node's children between its two
  halves, and nothing of a subtree after its node is committed). A change that
  no commit has met is `ToBeFound`: all stamps on its way up are newer than the
  last commit of their nodes, or the application is still on its way and will
  not be stopped by an equal or newer stamp. From the beginning of a commit on
  it is `BeingCommitted`: its value is set, or the stamps that lead there and
  the call that compares them are still there (`WillSet`), likewise its object's
  commit (`WillCommit`) and the end of what was accumulated (`WillShow`). The
  stamps in this are `Flagged`: a node modified itself, or below it with
  no application in between its test and its store, unless it stores a newer
  stamp than that of the node's commit. Only its own commit ends that
  (`FlagsKept`), and then `InOrder` says that nobody counts on it.

`DistributedFrame_proofs`:

- `TypeCorrect`: `[]TypeOK`.
- `CollectivesMatch`: `[]CallsMatch`, any two ranks' calls agree as far as both
  have come. This is no step-by-step comparison of two program counters, ranks
  are many calls apart. The argument: the call a rank makes next is a function
  `Follow` of the calls it has made and their data; the program counter agrees
  with it (`PcFollows`); the only data that function looks at came from a
  broadcast, and a broadcast gives every rank the master's data
  (`BcastAgrees`). So two ranks with equal calls up to n make the same call
  n + 1 (`FollowAgrees`), and a rank that is behind follows the other's path.
  The types and the calls need each other (the set of converged tiles has its
  type from the broadcast), so `IInv` is the conjunction.

Further facts of that module are about messages and the end of a frame. They
assume `OwnersRender`: the owner of a tile renders a part of it. The static load
balancer and data-distributed rendering are so (`StaticOwnersRender`,
`DistributedConstants`). The dynamic one is not, and there they fail: a tile
rendered elsewhere can complete a frame between `startNewFrame` and its test for
an empty frame, and the frame is closed twice (the run `df_stale_close`).

- `WholeInvariance`: `WholeInv` is inductive. A rank knows nothing of where the
  others are, except through the collective calls it has made with them. So the
  calls are counted: the frame number is the number of barriers
  (`FramesCounted`), who has left a barrier has left it after everyone entered
  it (`RanksInOrder`), and the tiles taken for converged are those broadcast
  after the last barrier (`ErrorsKnown`). With that, a message on its way is of
  the frame its owner is in, or is about to start (`MessagesFollow`), a part is
  either still to be rendered, on its way or processed (`TodoFollows`,
  `PartsFollow`), and the counter of completed tiles says which they are
  (`DoneFollows`).
- `ClosedOnce`, `CompleteWhenDone`, `MessagesStayInFrame`: what follows from it.
- `ShowsWholeFrames`: `Spec => Shown!Spec`, the ranks refine `FrameService`. The
  master writes what it receives in the gather into its frame. `GathersAreWhole`
  says what a rank gave to its k-th call, when that was a gather: the tiles it
  owns but those of the last broadcast of converged tiles before, each with the
  number of barriers before as its frame. As the calls of two ranks agree, that
  is the same frame and the same broadcast for all, and the master's.

`LocalFrame_proofs`:

- `Invariance`: `IInv` is inductive. `TilesAreMeans` alone is not: a task that
  renders with an accumID other than the counter of its tile would add a wrong
  instance. So `TaskOwnsTile` says that the two agree while the task renders
  (nobody else counts, and `clear()` waits for the frame), and
  `ColorsFollowTask` says which frame the colours of a tile are from, by the
  progress of its task.
- `MeansShown`: `[]TilesAreMeans`. The step is `OneMore`: an instance added to
  a sum of n, and to the variance if n is odd, keeps both balanced.
- `Implements`: `Spec => ImplementsService`, the refinement the run `frames`
  checks in its local mode. Only `EndFrame` and `Clear` are seen: if the frame
  was not cancelled, every task has finished its tile or found it converged, so
  the colours are of this frame exactly where `FrameService` wants them.

`MCDistributedFrame_proofs`, for the specification `FramesSpec` of the run
`frames`:

- `LocalMeans`: `[]TilesAreMeans` in the mode of the local device, which is
  `Spec` of `LocalFrame` (`RunsLocal`).
- `CancelsEverywhere`: `[]CancelHonoured`, if "master" is not a worker's name.
  A worker takes the answer from what the master's frame ended with, and asks
  for it only if it knows of a callback. So `RanksInStep` says that the ranks are at
  most one frame apart, that who is apart has not begun the new frame or has
  left the old one, and that within a frame a worker's `reporting` is the
  master's. `FlagFollows` says that the flag is what the application answered
  since `beginFrame`. Nothing is assumed of the progress messages: they may
  come in any frame, and the tasks may lose each other's counts.
- `StaysInFrame`: `[]InFrame`, the types of all modes and the messages of the
  first two, with `OwnersRender`. `ProgressBounded` counts the tiles a worker
  has reported and has still to complete; `LocalBounded` the instances of a
  tile against the frames. The mode "distributed" instantiates the module
  `DistributedFrame` a second time, so the facts about it are instantiated too
  (`DP`) and its steps are shown to be the same (`DistributedSteps`).
- `FramesClosedOnce`: `[]NoStaleClose` in all modes.
- `FramesImplementService`: `FramesSpec => ImplementsService`, the refinement the
  run checks, in every mode.

`MCOffload_proofs`, first the message layer:

- `StopsQuietly`: `[]QuietWhenStopped`. `LoopsInPhase` says that a pass or a
  handler that has taken something out of a box still holds it only in phases
  that end after it is put back. Without that the flush could find all boxes
  empty while a message is in hand. `NothingPending` keeps what the last look
  of the flush found.
- `MessagesInOnePlace`: `[]OnePlace`. The boxes between outbox and handler are
  sequences, so "nowhere twice" is a statement about numbers: `OneEach` says
  that the occurrences of a message in its seven places add up to one if it was
  sent and to none if not. A step moves occurrences from one box to another,
  and the lemmas about `Occurs` say what appending, taking the head, removing
  and choosing by position do to them. A new message is new because the
  messages are numbered (`Numbered`).
- `LayerImplementsService`: `OffloadSpec => ImplementsService`. A message is
  given to its handler when it is taken from the inbox; with `OneEach` it has
  not been given before, and with `LoopsInPhase` its rank is not stopped.

Then the stream of works:

- `StreamStaysWhole`: `[]StreamIsWhole`. `WholeFor` says that what a worker has
  in hand and what is still in the master's buffer continue what it has run,
  unit by unit, up to the unit the master is about to write; it does not say
  how they are divided between the two, which is what the sizes of the buffers
  decide.
- `BalancersAgree`: `[]SameBalancer`. The load balancer of a rank is the one
  set last in the works it has run (`Uses`). All ranks are in a frame only when
  they have run the same works.
- `StreamImplementsService`: `OffloadSpec => StreamImplements`. A call returns
  when those that compute its result have come to it: `Waited` says so of all
  works but the last, and a worker that waits at a barrier, or for the master
  to pick up an answer, is at the last one (`AtBarrier`, `AtPick`).

Then the objects, for any number of them, lists of any length and parameters
set, lost and removed in any order:

- `CountsStayExact`: every count is one for the application if it keeps the
  object, what has leaked, and one for every reference of a parameter, a list or
  an array of objects. This is `Balanced` with nothing under way; within a
  `RefDec` the objects still to be given back are counted too.
- `ObjectInvariance`: `ObjectInv`, which `LivesUnlessUncounted` needs. Exact counts
  alone do not make it inductive: an object that has gone must not count
  anything any more (`DeadEmpty`), and two objects that hold each other would
  live for ever, so references go down (`Lower`, by `Height`) and never to an
  object that has not been created (`Unborn`). A worker loses at least what the
  local device loses, and what the application keeps has the same parameters on
  both (`SameParams`): otherwise "the same leaks" would not mean "the same heap".
- `ObjectsLiveUnlessUncounted`: `[]LivesUnlessUncounted`, with the exception for
  arrays of lights that section 5 describes. Whatever an existing object refers
  to and counts exists, because a count is at least the number of references; an
  item of an array of lights that the application keeps has the application's
  count (`ExistingRefers`). So what is reachable exists. What exists is
  reachable: if not, take such an object of the greatest height; its count comes
  from an object above it, which exists and is not reachable either
  (`ExistsIsReached`).
- `DevicesStayAgreed`: `[]DevicesAgree`. The devices do not give back in the same
  order: `removeParam` gives the object back before it clears the parameter, and
  `RemoveVolume` adds before it erases. `ClearedLater` shows that the first order
  makes no difference, `EraseAfterPush` that the second makes none if the
  volume was not in the list; with the same leaks, `RemoveParam` can only have
  removed a value or nothing.

`RefDecs` is a recursive function, and its effect is proved without induction
over its definition. One `refDec()` takes a pair of a heap and a list to the next
(`Dec`), and each takes one off `Weight`, the references of the heap and those
still to be given back. So whatever every `Dec` keeps is true of the result
(`RefDecsEnd`): the balance, the end of the dead, what fades and what does not
(`GivenBack`). That the definition can be unfolded at all is proved first: from
every pair the steps lead to one end at most, and the function of these ends
solves the equation (`RefDecsUnfold`).

`TileAccumulation_proofs`:

- `SummedOnce`: `[]EachInstanceOnce`. The property speaks of the time between
  frames; `IInv` says what holds within one: an accumID that has been given out
  was skipped, is still being rendered, is set aside in the buffer (one at
  most), or is in the sum exactly once. `ToCome` has the cases of a tile that
  is written once and of one whose instances are counted down.
- `ShownIsMean`: `[]FinalIsMeanUnlessSkipped`, and `EstimatesBalance`:
  `[]EstimateIsBalanced`. The sum and the variance are bags; their sizes are
  found by a bijection with the instances they hold, since each is in the bag
  once. The variance is the odd half of the sum, so an even number of instances
  has it at exactly half.

`MCTiles_proofs` takes these to `TilesSpec` and adds the other tiles:

- `TileCompletes`, `TileBlendsInOrder`: `[]CompletesWithLast` and
  `[]BlendsAllInOrder`. `Composing(n, W)` is the state of a tile for which n
  parts are announced and those of the regions W come: the buffered parts are
  a list of some of the parts without repetition, the others are coming, and
  the counter of the current generation is what is missing of it. The order is
  that of a sorting permutation, which exists because the distances of the
  parts differ (`OrderExists`: a part goes to the place given by the number of
  parts that are not nearer).
- `RegionsCompose`: `[]ComposesUnlessStale`, for any number of ranks and
  regions, whatever is committed and shared. Here n and W may differ: n is what
  the owner of the tile sees, W what the ranks in charge send. `InStep` says
  that a rank has rendered the tile in all frames since the last clear or in
  none, as long as the view is changed with a clear only, hence with the owner's
  accumID; `OneInCharge` that the round robin over
  the owners of a region hits one rank, and that this rank has the region if no
  owner is stale; `SentParts` that n = W follows. `Announced` keeps it for the
  frame.
- `RegionsAreSound`: `[]RegionsSound`, for an image of any size: regions are
  disjoint, refinement keeps every variable in its type, and the list never
  outgrows the two regions per three tiles that are reserved for it. Counting
  alone does not show that, since it matters where the regions of one tile come
  from: they are split off three tiles, and the other two are never split. So
  `Spared` gives every region of one tile two neighbouring tiles of its own, which
  are a region of the list or, when that was dropped, in none.
- `RegionsRefinedAsGroup`: `[]RefinedAsGroup`. The regions of the list that are
  behind the index, or were appended by this `refine()`, have all tiles to be
  rendered; the others are still to be looked at (`GroupsActive`,
  `ConvergedOut`).

`DynamicBalancer_proofs`:

- `TasksEndInFrame`: `[]NoTaskOutlivesFrame`. `renderFrame` waits for a counter,
  not for the tasks; `TasksCounted` says that the tasks are never more than it
  counts, that a worker whose message layer has stopped gets no more, and that
  an idle worker has none. It holds although the two threads of the master may
  race, and it says nothing of how many tiles they deal out.
- `ExhaustedEnds`: `[]ExhaustedIsLastUnlessRaced`, and `TilesOnce`:
  `[]EveryTileOnce`. The invariant of `DealInvariance` is `raced` or two parts.
  `ToldOnce`: one call of `scheduleTile` at a time; its worker is notified exactly
  if its answer is `tilesExhausted`; and with that answer on its way, or
  received, no call for the worker is left. Hence a tile that is received is
  also rendered, since `tilesAvailable` still holds. `CopiesInv`: a copy of a
  tile waits in a queue, leaves in a call, is on its way to a worker, is with
  a task or on its way to the owner, in one of these places and there once
  (`Apart`, `QueuedOnce`, `AnsweredOnce`, `RenderedOnce`); those in such a place
  and the parts the owner has are as many as were queued (`Counted`); and an
  owner at the end of the frame has all of them (`OwnersDone`), so that the next
  frame begins with empty queues. No assumption is made on the set of tiles
  above the error threshold or on the order of equal errors, as `std::sort`
  makes none. `Chosen` gives the queue of a worker by positions; `ChosenTasks`
  says that it has each chosen task once.
- `OnlyRaceOrLateHangs`: `[]GoesOn`, which is `OnlyRaceOrLateAnswerHangs` but for
  `ENABLED`, if at least one tile is dealt to every worker in advance. The
  invariant of `HangInvariance` adds what each rank waits for. `BarrierInv`: nobody
  is past the barrier at the end of the master's frame before all have come to
  it, and a message layer runs exactly while its rank is in between.
  `NotifiedInv`: the master's frame is done when all workers have been notified,
  or the call that will close it is under way; and a worker is notified only
  when no queue has a tile left. `ToldSoon`: `tilesExhausted` has come to every
  notified worker, or is on its way. `Asked`: a worker that has not been notified
  has a tile to come, to render or to ask for; this is where tiles dealt in
  advance are needed. `ScheduledExact`: `tilesScheduled` is the number of tasks,
  not only at least that, because no two tasks have the same record
  (`EndedApart`). A state in which no guard holds (`Stopped`) then leaves no call,
  no task and nobody in `drain` but a `Stranded` worker; a waiting master has a
  worker that is still to be served, and a waiting owner of a tile has a copy of
  it under way.

A word on induction: the library's theorems for it take an operator as a
parameter and cannot be used. Where an argument needs induction over numbers
or over the size of a set, it is made with a set of numbers in place of the
predicate and the least element that is not in it (`Least`, `CountUp` in
`MCTiles_proofs`); the sums over regions need it, and so does `RefDecs`. What any
other recursive function computes for every argument is not proved.

Only model-checked:

- liveness, which no backend reaches: `LoopLive`,
  `StartRendersUnlessOverwritten`, `CallsReturnUnlessOverwritten`,
  `CallsReturn`, `ShutdownReturns`, `BegunFinish`, `Delivered`,
  `OnlyStoppedPeerHolds`, `CallsEnd`, and that refinements are live;
- of `OnlyRaceOrLateAnswerHangs` the part `CanStep => ENABLED Next`: the prover
  has no rule for `ENABLED`. The rest, `GoesOn`, is proved.

## 7. What is not modelled

- In the DFB: the gather of errors for `OSP_FB_NONE`, pixel operations, the
  depth and auxiliary channels, and the time between two progress messages.
- In the tile types: the arithmetic of blending and of the error estimate (the
  operands are modelled), `ZCompositeTile` beyond the parts it counts (in
  `DistributedFrame`), the switch from one load balancer to the other.
- In the message layer: handlers registered while running, several
  communicators, compression.
- In the tasking system: nested `parallel_for`, a new `init()` after a shutdown;
  TBB, OpenMP and Cilk are external.
- In the offload device: how the ranks find each other at start-up, the bytes of
  the parameters, exceptions thrown on a worker.
- In the objects: `commit()` and the listeners, pixel operations' instances,
  `Renderer::model` (an uncounted pointer, `Renderer.cpp:39`), several
  parameters per object, `mapBuffer`'s count on the frame buffer.
- In the render engine: the denoiser, which is off in a default build. Its
  body and the scene graph that it renders are checked apart, not composed.
- In the scene graph: adding and removing nodes, verification, new handles of the
  renderer, the camera and the frame buffer (which also clear), the frame buffer
  used for navigation, the values `preCommit` and `updateRenderer` derive from
  others, and the nodes of models, lights, geometries and volumes.
- In the distributed raycast renderer: the geometry of projection, visibility and
  depth order (a shared region is the same for all ranks), ghost regions, ids
  with gaps, tiles below the error threshold (left out by all ranks alike), and
  ranks without a region: they take `renderNonDistrib`, with other collective
  calls than the rest (`DistributedRaycast.cpp:216`).
- In `AsyncLoop`: the launch method TASK, with which the destructor does not join
  the loop (`AsyncLoop.h:74`).
- The data race on `frameActive`, on which a tile task spins
  (`MPILoadBalancer.cpp:428`): a compiler may hoist the read of the plain bool,
  and the model takes the wait for one that ends.
- The distributed device and the message dispatch by object id: planned,
  section 8.
- Shading, cameras, geometries, volumes and textures are floating-point kernels
  without state beyond their parameters, out of a model checker's reach; they
  and the vendored libraries and applications are most of the source lines.

The collectives of `DistributedFrame` order the frames more strictly than the
Ibarrier alone: in the model the barrier before each frame already separates
them.

## 8. Plan

Done, in this order: `AsyncLoop`; `DistributedFrame` with `FrameService`;
`DynamicBalancer`; `MessageLayer` with `MessageService`; the tile types;
`TileError`; `TaskSys`; `AsyncRenderEngine`; `LocalFrame`; `FrameProgress`;
`WorkStream` with `WorkService`; `ObjectStore`; `DistributedRegions`;
`SceneGraph`; the proofs of section 6.

Next:

1. The distributed device and the life time of message handlers
   (`Messaging.cpp:74`): a frame buffer that is released on one rank while a
   message for it is on its way.
2. The `OSP_FB_NONE` gather in `DistributedFrame`.
3. `commit()` and the listeners in `ObjectStore`.
