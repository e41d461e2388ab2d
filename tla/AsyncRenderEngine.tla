------------------------- MODULE AsyncRenderEngine -------------------------
(***************************************************************************)
(* The engine of the example viewer                                        *)
(* (exampleViewer/common/util/AsyncRenderEngine.cpp, built without the     *)
(* denoiser): frames are rendered in the body of an AsyncLoop and handed   *)
(* to the application thread through a double buffer.  The application     *)
(* thread starts and stops the engine and shows new frames in between, as  *)
(* ImGuiViewer does; it is the owner of the AsyncLoop.                     *)
(*                                                                         *)
(* What is in a buffer is "none", "partial" while it is written, "new"     *)
(* until it is shown and "shown" from then on.                             *)
(***************************************************************************)
EXTENDS AsyncLoop

CONSTANT MaxSlow  \* bound: how often the loop is slower than start() sleeps
ASSUME MaxSlowAssumption == MaxSlow \in Nat

VARIABLES
  state,           \* ExecState, atomic
  newPixels,       \* atomic
  frameCancelled,  \* atomic
  front,           \* frameBuffers: index of front(); back() is the other
  buffer,          \* what is in each of the two
  at,              \* where the body is
  app,             \* where the application thread is in the engine
  wanted,          \* ghost: the call that returned last was start()
  slow,            \* sleeps that were too short so far
  overwritten      \* ghost: a body began while a call was stopping the loop

buffers == <<front, buffer, newPixels>>
ghosts == <<wanted, overwritten>>
engineVars == <<state, frameCancelled, buffers, at, app, slow, ghosts>>

back == 1 - front

EngineInit ==
  /\ Init
  /\ state = "invalid" /\ newPixels = FALSE /\ frameCancelled = FALSE
  /\ front = 0 /\ buffer = [b \in 0 .. 1 |-> "none"]
  /\ at = "begin" /\ app = "idle"
  /\ wanted = FALSE /\ slow = 0 /\ overwritten = FALSE

-----------------------------------------------------------------------------
(* The body, on the background thread.                                     *)

InBody(l) == loop = "body" /\ at = l

\* state = RUNNING, whatever it was; commit of the device, animation, pick
Begin ==
  /\ InBody("begin")
  /\ state' = "running"
  /\ overwritten' = (overwritten \/ app \in {"restop", "restart", "stop", "stopping"})
  /\ at' = "render"
  /\ UNCHANGED <<vars, frameCancelled, buffers, app, wanted, slow>>

\* renderFrame(); a cancelled frame, and no frame at all, end the body
RenderFrame ==
  /\ InBody("render")
  /\ \/ /\ BodyReturns
        /\ at' = "begin"
     \/ /\ ~frameCancelled
        /\ at' = "spin"
        /\ UNCHANGED vars
  /\ frameCancelled' = FALSE
  /\ UNCHANGED <<state, buffers, app, slow, ghosts>>

\* mutant: a new frame does not wait for the last one to be shown
SpinEnds_NoWait ==
  /\ InBody("spin")
  /\ at' = "fill"
  /\ UNCHANGED <<vars, state, frameCancelled, buffers, app, slow, ghosts>>

\* mutant: the loop does not look at the state
SpinEnds_IgnoresStop ==
  /\ InBody("spin")
  /\ ~newPixels
  /\ at' = "fill"
  /\ UNCHANGED <<vars, state, frameCancelled, buffers, app, slow, ghosts>>

\* while (state == RUNNING && newPixels == true);
SpinEnds ==
  /\ InBody("spin")
  /\ ~(state = "running" /\ newPixels)
  /\ at' = "fill"
  /\ UNCHANGED <<vars, state, frameCancelled, buffers, app, slow, ghosts>>

\* frameBuffers.back(): resize, copy from the mapped frame buffer ...
Fill ==
  /\ InBody("fill")
  /\ buffer' = [buffer EXCEPT ![back] = "partial"]
  /\ at' = "filled"
  /\ UNCHANGED <<vars, state, frameCancelled, newPixels, front, app, slow, ghosts>>

\* ... to the end
Filled ==
  /\ InBody("filled")
  /\ buffer' = [buffer EXCEPT ![back] = "new"]
  /\ at' = "publish"
  /\ UNCHANGED <<vars, state, frameCancelled, newPixels, front, app, slow, ghosts>>

\* newPixels = true, and the body returns
Publish ==
  /\ InBody("publish")
  /\ newPixels' = TRUE
  /\ at' = "begin"
  /\ BodyReturns
  /\ UNCHANGED <<state, frameCancelled, front, buffer, app, slow, ghosts>>

Body == Begin \/ RenderFrame \/ SpinEnds \/ Fill \/ Filled \/ Publish

\* the rest of the background thread is AsyncLoop's
Loop ==
  /\ \/ TestAlive \/ Lock \/ EvalPredicate \/ Block
     \/ CheckAlive \/ TestRunning \/ Leave
  /\ UNCHANGED engineVars

-----------------------------------------------------------------------------
(* The application thread.                                                 *)

\* start() up to its loop: nothing at all when the state is RUNNING
CallStart ==
  /\ app = "idle"
  /\ IF state = "running" THEN app' = "idle" /\ wanted' = TRUE /\ UNCHANGED state
     ELSE app' = "retry" /\ state' = "started" /\ UNCHANGED wanted
  /\ UNCHANGED <<vars, frameCancelled, buffers, at, slow, overwritten>>

\* mutant: the loop is started once and not looked at again
TestStarted_Once ==
  /\ app = "retry"
  /\ IF loopShouldBeRunning THEN app' = "idle" /\ wanted' = TRUE
                            ELSE app' = "restop" /\ UNCHANGED wanted
  /\ UNCHANGED <<vars, state, frameCancelled, buffers, at, slow, overwritten>>

\* while (state != RUNNING)
TestStarted ==
  /\ app = "retry"
  /\ IF state = "running" THEN app' = "idle" /\ wanted' = TRUE
                          ELSE app' = "restop" /\ UNCHANGED wanted
  /\ UNCHANGED <<vars, state, frameCancelled, buffers, at, slow, overwritten>>

\* backgroundThread->stop() in start() and stop() ...
StopLoop ==
  /\ \/ app = "restop" /\ app' = "restart"
     \/ app = "stop" /\ app' = "stopping"
  /\ BeginStop
  /\ UNCHANGED <<state, frameCancelled, buffers, at, slow, ghosts>>

\* ... and start()
RestartLoop ==
  /\ app = "restart" /\ owner = "stopped"
  /\ Start
  /\ app' = "sleep"
  /\ UNCHANGED <<state, frameCancelled, buffers, at, slow, ghosts>>

\* sleep_for(20ms), long enough for the loop to get from a notification to
\* its body or back to sleep, except MaxSlow times
Sleep ==
  /\ app = "sleep" /\ owner = "running"
  /\ \/ /\ state = "running" \/ loop = "asleep"
        /\ UNCHANGED slow
     \/ slow < MaxSlow /\ slow' = slow + 1
  /\ app' = "retry"
  /\ UNCHANGED <<vars, state, frameCancelled, buffers, at, ghosts>>

\* stop() up to the loop's stop(): nothing when the state is not RUNNING
CallStop ==
  /\ app = "idle"
  /\ IF state = "running" THEN app' = "stop" /\ state' = "stopped" /\ UNCHANGED wanted
     ELSE app' = "idle" /\ wanted' = FALSE /\ UNCHANGED state
  /\ UNCHANGED <<vars, frameCancelled, buffers, at, slow, overwritten>>

StopEnds ==
  /\ app = "stopping" /\ owner = "stopped"
  /\ app' = "idle"
  /\ wanted' = FALSE
  /\ UNCHANGED <<vars, state, frameCancelled, buffers, at, slow, overwritten>>

\* mapFramebuffer, when there are new pixels: swap ...
Swap ==
  /\ app = "idle" /\ newPixels
  /\ front' = back
  /\ buffer' = [buffer EXCEPT ![back] = IF @ = "new" THEN "shown" ELSE @]
  /\ app' = "mapping"
  /\ UNCHANGED <<vars, state, frameCancelled, newPixels, at, slow, ghosts>>

\* ... and newPixels = false
Swapped ==
  /\ app = "mapping"
  /\ newPixels' = FALSE
  /\ app' = "idle"
  /\ UNCHANGED <<vars, state, frameCancelled, front, buffer, at, slow, ghosts>>

SetFrameCancelled ==
  /\ app = "idle"
  /\ frameCancelled' = TRUE
  /\ UNCHANGED <<vars, state, buffers, at, app, slow, ghosts>>

\* what is under way in a call of the application
InCall ==
  \/ TestStarted \/ StopLoop \/ RestartLoop \/ Sleep \/ StopEnds \/ Swapped
  \/ /\ Notify \/ EndStop
     /\ UNCHANGED engineVars

EngineNext ==
  \/ Body \/ Loop
  \/ /\ SpuriousWakeup
     /\ UNCHANGED engineVars
  \/ CallStart \/ CallStop \/ Swap \/ SetFrameCancelled \/ InCall

EngineSpec == EngineInit /\ [][EngineNext]_<<vars, engineVars>>

-----------------------------------------------------------------------------
(* Properties.                                                             *)

EngineTypeOK ==
  /\ TypeOK
  /\ state \in {"invalid", "stopped", "started", "running"}
  /\ front \in 0 .. 1
  /\ buffer \in [0 .. 1 -> {"none", "partial", "new", "shown"}]
  /\ at # "begin" => loop = "body"
  /\ app \in {"idle", "retry", "restop", "restart", "sleep", "stop", "stopping", "mapping"}
  /\ slow \in 0 .. MaxSlow

\* "a GUI thread wants to continuously draw the latest complete framebuffer"
\* (DoubleBufferedValue.h): what is mapped is never a frame that is being
\* written, and new pixels are pixels that have not been shown.
ShowsWholeNewFrames ==
  /\ buffer[front] # "partial"
  /\ newPixels /\ app = "idle" => buffer[back] = "new"

\* From the return of stop() to the next start() no frame is rendered and none
\* will be, so that the application may change the scene and commit the device.
EngineIsQuiet == app = "idle" /\ ~wanted => loop # "body" /\ ~loopShouldBeRunning
=============================================================================
