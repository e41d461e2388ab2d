---------------------------- MODULE FrameProgress ----------------------------
(***************************************************************************)
(* Progress and cancellation in replicated rendering                       *)
(* (mpi/fb/DistributedFrameBuffer.cpp): the workers count the tiles they   *)
(* complete and report the count to the master once a second; a task of    *)
(* the master adds it up and calls the application, which may cancel.      *)
(* DistributedFrame has the rest of the frame; a rank is here              *)
(*   "idle", "started" (after startNewFrame), "render" (after beginFrame), *)
(*   "barrier" (in waitUntilFinished), "stopped" (its message layer too)   *)
(* and the master also "telling" (the last report) and "bcast".            *)
(***************************************************************************)
EXTENDS Naturals, Sequences, FiniteSets

CONSTANTS
  Worker,
  TilesPerWorker,  \* the tiles a worker owns
  MaxFrames,       \* bound: frames rendered
  MaxReports       \* bound: progress messages sent

Rank == Worker \cup {"master"}
Total == TilesPerWorker * Cardinality(Worker)

VARIABLES
  at,              \* where each rank is
  frame,           \* frames each rank has started
  reporting,       \* reportRenderingProgress
  left,            \* tiles each worker has still to complete
  counted,         \* renderingProgressTiles
  reports,         \* the progress messages sent
  update,          \* how far each is: "net", "queued", "add", "telling", "done"
  old,             \* the count its task has read
  globalCompleted, \* globalTilesCompletedThisFrame
  cancelRendering, \* the master's flag
  callback,        \* progressMutex: is the callback running?
  told,            \* the last progress told, in tiles
  ended,           \* how each rank's last frame ended
  asked            \* history: the callback has returned 0 in this frame

messages == <<reports, update, old>>
answer == <<cancelRendering, asked>>
ranks == <<at, frame, reporting, left, counted, ended>>
vars == <<ranks, messages, globalCompleted, answer, callback, told>>

Init ==
  /\ at = [r \in Rank |-> "idle"] /\ frame = [r \in Rank |-> 0]
  /\ reporting = [r \in Rank |-> FALSE]
  /\ left = [w \in Worker |-> 0] /\ counted = [r \in Rank |-> 0]
  /\ reports = <<>> /\ update = <<>> /\ old = <<>>
  /\ globalCompleted = 0 /\ cancelRendering = FALSE /\ callback = FALSE
  /\ told = Total /\ ended = [r \in Rank |-> "shown"] /\ asked = FALSE

Goto(r, l) == at' = [at EXCEPT ![r] = l]

-----------------------------------------------------------------------------
(* The main threads, and the tasks that complete tiles.                    *)

\* the end of isFrameComplete(n): a second has passed, or not
CountAndReport(r, n) ==
  LET sum == counted[r] + n
  IN IF ~reporting[r] THEN UNCHANGED <<counted, messages>>
     ELSE \/ /\ counted' = [counted EXCEPT ![r] = sum]
             /\ UNCHANGED messages
          \/ /\ Len(reports) < MaxReports
             /\ reports' = Append(reports, [numCompleted |-> sum, frame |-> frame[r]])
             /\ update' = Append(update, "net") /\ old' = Append(old, 0)
             /\ counted' = [counted EXCEPT ![r] = 0]

\* the barrier before a frame, and startNewFrame.  Any number of a worker's
\* tiles may have converged.
StartNewFrame(r) ==
  /\ at[r] = "idle" /\ frame[r] < MaxFrames
  /\ \A s \in Rank : frame[s] > frame[r] \/ (frame[s] = frame[r] /\ at[s] = "idle")
  /\ Goto(r, "started")
  /\ frame' = [frame EXCEPT ![r] = @ + 1]
  /\ counted' = [counted EXCEPT ![r] = 0]
  /\ IF r = "master" THEN globalCompleted' = 0 /\ UNCHANGED left
     ELSE /\ \E n \in 0 .. TilesPerWorker : left' = [left EXCEPT ![r] = n]
          /\ UNCHANGED globalCompleted
  /\ UNCHANGED <<reporting, ended, messages, answer, callback, told>>

\* isFrameComplete(0), with the last frame's flag, and beginFrame: the master
\* asks the device for a callback and broadcasts the answer
BeginFrame(r) ==
  /\ at[r] = "started"
  /\ CountAndReport(r, 0)
  /\ \/ r = "master" /\ \E has \in BOOLEAN : reporting' = [reporting EXCEPT ![r] = has]
     \/ /\ r # "master" /\ frame["master"] = frame[r] /\ at["master"] # "started"
        /\ reporting' = [reporting EXCEPT ![r] = reporting["master"]]
  /\ IF r = "master" THEN cancelRendering' = FALSE /\ asked' = FALSE ELSE UNCHANGED answer
  /\ Goto(r, "render")
  /\ UNCHANGED <<frame, left, globalCompleted, callback, told, ended>>

CompleteTile(w) ==
  /\ at[w] = "render" /\ left[w] > 0
  /\ left' = [left EXCEPT ![w] = @ - 1]
  /\ CountAndReport(w, 1)
  /\ UNCHANGED <<at, frame, reporting, ended, globalCompleted, answer, callback, told>>

EnterBarrier(r) ==
  /\ at[r] = "render" /\ (r \in Worker => left[r] = 0)
  /\ Goto(r, "barrier")
  /\ UNCHANGED <<frame, reporting, left, counted, ended, messages, globalCompleted,
                 answer, callback, told>>

\* the barrier is complete, and disableAsyncMessaging
StopMessaging(r) ==
  /\ at[r] = "barrier"
  /\ \A s \in Rank : frame[s] = frame[r] /\ at[s] \notin {"started", "render"}
  /\ Goto(r, "stopped")
  /\ UNCHANGED <<frame, reporting, left, counted, ended, messages, globalCompleted,
                 answer, callback, told>>

\* reportProgress(1.0) on the master, skipped while a task is in the callback
ReportDone ==
  /\ at["master"] = "stopped"
  /\ IF reporting["master"] /\ ~callback
       THEN Goto("master", "telling") /\ callback' = TRUE /\ told' = Total
       ELSE Goto("master", "bcast") /\ UNCHANGED <<callback, told>>
  /\ UNCHANGED <<frame, reporting, left, counted, ended, messages, globalCompleted, answer>>

\* the callback returns; 0 counts up to the broadcast of the flag
Answered(zero) ==
  /\ callback' = FALSE
  /\ cancelRendering' = (cancelRendering \/ zero)
  /\ asked' = (asked \/ (zero /\ at["master"] # "idle"))

\* mutant: the last report decides
ReportDoneReturns_Last ==
  /\ at["master"] = "telling"
  /\ callback' = FALSE
  /\ \E zero \in BOOLEAN : cancelRendering' = zero /\ asked' = (asked \/ zero)
  /\ Goto("master", "bcast")
  /\ UNCHANGED <<frame, reporting, left, counted, ended, messages, globalCompleted, told>>

ReportDoneReturns ==
  /\ at["master"] = "telling"
  /\ \E zero \in BOOLEAN : Answered(zero)
  /\ Goto("master", "bcast")
  /\ UNCHANGED <<frame, reporting, left, counted, ended, messages, globalCompleted, told>>

\* the master broadcasts whether the frame is cancelled, if there is a
\* callback; the tiles are gathered if it is not
EndFrame(r) ==
  /\ IF r = "master" THEN at[r] = "bcast"
     ELSE at[r] = "stopped" /\ at["master"] = "idle"
  /\ ended' = [ended EXCEPT ![r] =
       IF reporting[r] /\ (IF r = "master" THEN cancelRendering ELSE ended["master"] = "cancelled")
         THEN "cancelled" ELSE "shown"]
  /\ Goto(r, "idle")
  /\ UNCHANGED <<frame, reporting, left, counted, messages, globalCompleted, answer,
                 callback, told>>

-----------------------------------------------------------------------------
(* Progress messages on the master: incoming() schedules a task for each,  *)
(* whether a frame is active or not.                                       *)

Become(k, l) == update' = [update EXCEPT ![k] = l]

Receive(k) ==
  /\ update[k] = "net" /\ at["master"] \in {"started", "render", "barrier"}
  /\ Become(k, "queued")
  /\ UNCHANGED <<ranks, reports, old, globalCompleted, answer, callback, told>>

\* updateProgress: globalTilesCompletedThisFrame is not atomic
ReadCount(k) ==
  /\ update[k] = "queued"
  /\ Become(k, "add")
  /\ old' = [old EXCEPT ![k] = globalCompleted]
  /\ UNCHANGED <<ranks, reports, globalCompleted, answer, callback, told>>

UpdateProgress(k) ==
  /\ update[k] = "add"
  /\ globalCompleted' = old[k] + reports[k].numCompleted
  /\ IF reporting["master"] /\ ~callback
       THEN Become(k, "telling") /\ callback' = TRUE /\ told' = globalCompleted'
       ELSE Become(k, "done") /\ UNCHANGED <<callback, told>>
  /\ UNCHANGED <<ranks, reports, old, answer>>

CallbackReturns(k) ==
  /\ update[k] = "telling"
  /\ \E zero \in BOOLEAN : Answered(zero)
  /\ Become(k, "done")
  /\ UNCHANGED <<ranks, reports, old, globalCompleted, told>>

MainThread(r) ==
  \/ StartNewFrame(r) \/ BeginFrame(r) \/ EnterBarrier(r) \/ StopMessaging(r) \/ EndFrame(r)

Next ==
  \/ \E r \in Rank : MainThread(r)
  \/ ReportDone \/ ReportDoneReturns
  \/ \E w \in Worker : CompleteTile(w)
  \/ \E k \in DOMAIN reports :
       Receive(k) \/ ReadCount(k) \/ UpdateProgress(k) \/ CallbackReturns(k)

Spec == Init /\ [][Next]_vars

-----------------------------------------------------------------------------
TypeOK ==
  /\ at \in [Rank -> {"idle", "started", "render", "barrier", "stopped", "telling", "bcast"}]
  /\ frame \in [Rank -> 0 .. MaxFrames]
  /\ \A r \in Rank : counted[r] \in 0 .. TilesPerWorker
  /\ DOMAIN update = DOMAIN reports

\* "If the callback function returns zero than the application requests to
\* cancel rendering" (doc/api.md:2131): when it did so between beginFrame and
\* the broadcast of the flag, every rank ends the frame as cancelled, and only
\* then, whatever tasks of this frame and older ones are in updateProgress.
CancelHonoured ==
  at["master"] = "idle" /\ frame["master"] > 0 =>
    /\ (ended["master"] = "cancelled") = (asked /\ reporting["master"])
    /\ \A w \in Worker : frame[w] = frame["master"] /\ at[w] = "idle"
                           => ended[w] = ended["master"]

\* "the reported progress is in (0-1]" (doc/api.md:2131): what the callback
\* is told never exceeds the tiles of the frame.
ProgressAtMostOne == told <= Total
=============================================================================
