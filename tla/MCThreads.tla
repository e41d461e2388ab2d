----------------------------- MODULE MCThreads -----------------------------
(* The threads inside one process, checked in one run: AsyncLoop under any *)
(* sequence of calls of its owner, AsyncLoop in the hands of the render    *)
(* engine, the tasking system, or the scene graph that the engine's body   *)
(* commits and renders.                                                    *)
EXTENDS AsyncRenderEngine, FiniteSets

CONSTANTS Caller, Worker, MaxTasks, JobCounts, MayShutDown,
          CameraParam, RendererParam, MaxChanges, MaxFrames

ASSUME TaskBoundsAssumption == MaxTasks \in Nat /\ JobCounts \subseteq 0 .. 3
ASSUME ThreadAssumption == Caller \cap Worker = {}
ASSUME SceneAssumption ==
  /\ IsFiniteSet(CameraParam) /\ IsFiniteSet(RendererParam)
  /\ CameraParam \cap RendererParam = {}
  /\ (CameraParam \cup RendererParam) \cap {"frame", "camera", "renderer", "backplate"} = {}
  /\ MaxChanges \in Nat /\ MaxFrames \in Nat

VARIABLES
  part,  \* "loop", "engine", "tasks" or "scene"
  pc, current, job, myCompleted, task, active, running, shutdown, ran,
  undefined, missed,
  value, set, committed, now, lastModified, childrenMTime, lastCommitted,
  changed, appAt, above, stamp, changes, todo, frames,
  clearFB, numAccumulatedFrames, accumulated, pending, overlapped

Tasks == INSTANCE TaskSys
Scene == INSTANCE SceneGraph

taskVars == <<pc, current, job, myCompleted, task, active, running, shutdown,
              ran, undefined, missed>>
sceneVars == <<value, set, committed, now, lastModified, childrenMTime, lastCommitted,
               changed, appAt, above, stamp, changes, todo, frames,
               clearFB, numAccumulatedFrames, accumulated, pending, overlapped>>

ThreadsInit ==
  /\ part \in {"loop", "engine", "tasks", "scene"}
  /\ EngineInit /\ Tasks!Init /\ Scene!Init

ThreadsNext ==
  /\ UNCHANGED part
  /\ \/ part = "loop" /\ Next /\ UNCHANGED <<engineVars, taskVars, sceneVars>>
     \/ part = "engine" /\ EngineNext /\ UNCHANGED <<taskVars, sceneVars>>
     \/ part = "tasks" /\ UNCHANGED <<vars, engineVars, sceneVars>> /\ Tasks!Next
     \/ part = "scene" /\ UNCHANGED <<vars, engineVars, taskVars>> /\ Scene!Next

\* Fairness of AsyncLoop, the steps of the engine's body and calls, with an
\* application that keeps displaying new frames, and fairness of TaskSys.
ThreadsFairness ==
  /\ WF_vars(part = "loop" /\ LoopThread)
  /\ WF_vars(part = "loop" /\ OwnerReturns)
  /\ WF_<<vars, engineVars>>(part = "engine" /\ (Body \/ Loop))
  /\ WF_<<vars, engineVars>>(part = "engine" /\ InCall)
  /\ WF_<<vars, engineVars>>(part = "engine" /\ Swap)
  /\ \A c \in Caller :
       WF_taskVars(part = "tasks" /\ ~undefined /\ Tasks!InParallelFor(c))
  /\ \A w \in Worker :
       WF_taskVars(part = "tasks" /\ ~undefined /\ Tasks!WorkerThread(w))
  /\ WF_taskVars(part = "tasks" /\ ~undefined /\ (Tasks!NotifyAll \/ Tasks!Join))

ThreadsSpec ==
  ThreadsInit /\ [][ThreadsNext]_<<part, vars, engineVars, taskVars, sceneVars>> /\ ThreadsFairness

-----------------------------------------------------------------------------
\* AsyncLoop::stop() returns if the body does, although nothing ever notifies
\* the condition variable it waits on and the loop may take the mutex again
\* before it; and while it is not stopped the function is called over and
\* over (AsyncLoop.h:31-33).
LoopLive ==
  /\ (part = "loop" /\ owner = "stopping") ~> owner = "stopped"
  /\ (part = "loop" /\ owner = "running" /\ loop = "leave")
       ~> (loop = "body" \/ owner # "running")

\* From the return of the engine's stop() to the next start() no frame is
\* rendered and none will be (AsyncRenderEngine::stop), so that the
\* application may change the scene and commit the device.
StoppedIsQuiet == part = "engine" => EngineIsQuiet

\* After start() a frame is rendered, although the notification of the loop
\* may be lost (AsyncRenderEngine::start).  The one way to miss that is a body
\* that set the state to RUNNING during a call that was stopping the loop:
\* later calls of start() take it for a running engine.
StartRendersUnlessOverwritten ==
  (part = "engine" /\ app = "idle" /\ wanted)
    ~> (loop = "body" \/ ~wanted \/ app = "stop" \/ overwritten)

\* start() and stop() return, and the body does not spin for ever on a frame
\* that is never shown (AsyncRenderEngine.cpp, the loop on newPixels), with
\* the same exception.
CallsReturnUnlessOverwritten ==
  /\ app \in {"retry", "stop"} ~> (app = "idle" \/ overwritten)
  /\ at = "spin" ~> (at # "spin" \/ overwritten)

\* Fork and join: no job is run twice, and a task is completed only when all
\* of its jobs have been run (Task::workOnIt); with the types of all variables.
JobsRunOnce == EngineTypeOK /\ Tasks!TypeOK /\ Tasks!JobsRunOnce

\* parallel_for returns, but for a call without jobs (Task::wait); a scheduled
\* task is run if there is a worker and no shutdown comes first
\* (schedule_internal, getNextActiveTask).
CallsReturn == Tasks!CallsReturn /\ Tasks!ScheduledTasksRun

\* The shutdown returns unless a worker missed its notification
\* (shutdownWorkerThreads).
ShutdownReturns == Tasks!ShutdownReturns

\* What is accumulated and what was committed are the values of the scene
\* graph, but for changes that overlap with a commit (Frame::preCommit,
\* Node::subtreeModifiedButNotCommitted).
ShowsScene ==
  part = "scene" => Scene!TypeOK /\ Scene!ShowsScene /\ Scene!NothingLost
=============================================================================
