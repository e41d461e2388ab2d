--------------------------- MODULE DynamicBalancer ---------------------------
(***************************************************************************)
(* The dynamic load balancer of modules/mpi/render/MPILoadBalancer.cpp.    *)
(* The master deals out tiles, a few to every worker in advance and then   *)
(* one for every request; a worker asks for a tile whenever it has         *)
(* rendered one.  When the queues are empty the master answers             *)
(* tilesExhausted, once to every worker.                                   *)
(*                                                                         *)
(* On the master two threads deal out tiles without a lock: the main       *)
(* thread in renderFrame, and the inbox thread in incoming().  So          *)
(* scheduleTile is split here where the two can get between each other.    *)
(*                                                                         *)
(* The frame buffer (DistributedFrame) is reduced to what the balancer     *)
(* waits for: a worker's frame is done when all parts of its own tiles are *)
(* there, the master's when the balancer closes it, and nobody leaves a    *)
(* frame before all have come to its end.                                  *)
(***************************************************************************)
EXTENDS Integers, Sequences, FiniteSets, SequencesExt

CONSTANTS
  NumWorkers,       \* worker.size
  NumTiles,         \* getTotalTiles()
  NumPreAllocated,  \* OSPRAY_PREALLOCATED_TILES
  MaxFrame          \* bound: frames rendered

Worker == 1 .. NumWorkers
Tile   == 1 .. NumTiles
Thread == {"main", "inbox"}

ASSUME CountAssumption ==
  /\ NumWorkers \in Nat \ {0} /\ NumTiles \in Nat \ {0}
  /\ NumPreAllocated \in Nat /\ MaxFrame \in Nat

\* ownerIDFromTileID, for tiles numbered from 1
OwnerOf(t) == ((t - 1) % NumWorkers) + 1

VARIABLES
  mpc,             \* the master's main thread
  frame,           \* number of the frame each rank is in (0: the master)
  preferredTiles,  \* the master's queue of tiles for each worker
  workerNotified,  \* has the master told the worker that it has no more?
  toDeal,          \* the calls of scheduleTile still to make in advance
  instances,       \* copies of each tile to be rendered in this frame
  masterIsDone,    \* frameIsDone of the master's frame buffer
  call,            \* the call of scheduleTile each master thread is in
  answers,         \* messages on their way to each worker
  requests,        \* number of requests on their way from each worker
  wpc,             \* each worker's main thread
  messaging,       \* is the message layer of each worker running?
  tilesAvailable, tilesScheduled, frameActive,  \* members of Slave
  tasks,           \* [worker, tile, accumId, step] of the scheduled tileTasks
  sent,            \* finished parts on their way to the owner of the tile
  parts,           \* number of parts of each tile at its owner
  raced            \* history: two threads have been in scheduleTile at once

master  == <<mpc, toDeal, instances, masterIsDone>>
dealing == <<preferredTiles, workerNotified, call, raced>>
slave   == <<wpc, messaging, frameActive>>
counts  == <<tilesAvailable, tilesScheduled>>
tiles   == <<tasks, sent, parts>>
net     == <<answers, requests>>
vars    == <<master, frame, dealing, slave, counts, tiles, net>>

Exhausted == [tilesExhausted |-> TRUE]
NoCall    == [step |-> "none"]

Init ==
  /\ mpc = "idle"
  /\ frame = [r \in {0} \cup Worker |-> 0]
  /\ preferredTiles = [w \in Worker |-> <<>>]
  /\ workerNotified = [w \in Worker |-> FALSE]
  /\ toDeal = <<>>
  /\ instances = [t \in Tile |-> 0]
  /\ masterIsDone = FALSE
  /\ call = [h \in Thread |-> NoCall]
  /\ answers = [w \in Worker |-> <<>>]
  /\ requests = [w \in Worker |-> 0]
  /\ wpc = [w \in Worker |-> "idle"]
  /\ messaging = [w \in Worker |-> FALSE]
  /\ tilesAvailable = [w \in Worker |-> FALSE]
  /\ tilesScheduled = [w \in Worker |-> 0]
  /\ frameActive = [w \in Worker |-> FALSE]
  /\ tasks = {}
  /\ sent = {}
  /\ parts = [t \in Tile |-> 0]
  /\ raced = FALSE

-----------------------------------------------------------------------------
(***************************************************************************)
(* The master.                                                             *)
(***************************************************************************)

\* The orders std::sort may put the active tiles in, and that of their numbers.
ErrorOrders(active) ==
  {q \in [1..Cardinality(active) -> active] : IsInjective(q)}
TileOrders(active) ==
  {q \in ErrorOrders(active) : \A i, j \in DOMAIN q : i < j => q[i] < q[j]}

\* generateTileTasks: every tile above the error threshold goes to the queue
\* of its owner, in order of numbers; then, in the order q of their errors,
\* again and again, until as many tiles are queued as there are in the frame.
\* The accumId tells the copies of a tile apart.
TileTasks(first, q) ==
  LET total     == IF q = <<>> THEN 0 ELSE NumTiles
      queued(i) == IF i <= Len(q) THEN first[i] ELSE q[((i - Len(q) - 1) % Len(q)) + 1]
  IN  [i \in 1..total |->
         [tile |-> queued(i),
          accumId |-> Cardinality({j \in 1..i-1 : queued(j) = queued(i)})]]

\* The tasks of s at some positions, in their order.
Chosen(s, positions) ==
  LET position(k) == CHOOSE i \in positions : Cardinality({j \in positions : j <= i}) = k
  IN [k \in 1 .. Cardinality(positions) |-> s[position(k)]]

OwnedBy(w, s) == {i \in DOMAIN s : OwnerOf(s[i].tile) = w}

\* renderFrame, to beginFrame: nobody is notified, tiles are queued, the frame
\* buffer starts its frame
StartFrame ==
  /\ mpc = "idle"
  /\ frame[0] < MaxFrame
  /\ \A w \in Worker : wpc[w] = "idle" /\ frame[w] = frame[0]
  /\ frame' = [frame EXCEPT ![0] = @ + 1]
  /\ workerNotified' = [w \in Worker |-> FALSE]
  /\ \E active \in SUBSET Tile : \E first \in TileOrders(active), q \in ErrorOrders(active) :
       LET new == TileTasks(first, q) IN
       /\ preferredTiles' =
            [w \in Worker |-> preferredTiles[w] \o Chosen(new, OwnedBy(w, new))]
       /\ instances' =
            [t \in Tile |-> Cardinality({i \in DOMAIN new : new[i].tile = t})]
  /\ masterIsDone' = FALSE
  /\ toDeal' = [i \in 1 .. NumPreAllocated * NumWorkers |-> ((i - 1) % NumWorkers) + 1]
  /\ mpc' = "deal"
  /\ UNCHANGED <<call, raced, slave, counts, tiles, net>>

\* The worker whose queue a tile for worker w is taken from: its own, else the
\* first of the longest.  No tile is left when that one is empty.
QueueFor(w) ==
  IF preferredTiles[w] # <<>> THEN w
  ELSE CHOOSE v \in Worker :
         \A u \in Worker : \/ Len(preferredTiles[u]) < Len(preferredTiles[v])
                           \/ Len(preferredTiles[u]) = Len(preferredTiles[v])
                              /\ v <= u

\* mutant: a worker that has been notified is answered again
PickTile_Again(h, w) ==
  LET v == QueueFor(w) IN
  IF preferredTiles[v] = <<>>
    THEN /\ call' = [call EXCEPT ![h] = [step |-> "close", worker |-> w,
                                         answer |-> Exhausted]]
         /\ workerNotified' = [workerNotified EXCEPT ![w] = TRUE]
    ELSE /\ call' = [call EXCEPT ![h] = [step |-> "pop", worker |-> w,
                                         answer |-> Last(preferredTiles[v]),
                                         from |-> v]]
         /\ UNCHANGED workerNotified

\* scheduleTile, to the choice of an answer; it returns at once for a worker
\* that has been notified
PickTile(h, w) ==
  LET v == QueueFor(w) IN
  IF workerNotified[w]
    THEN UNCHANGED <<call, workerNotified>>
  ELSE IF preferredTiles[v] = <<>>
    THEN /\ call' = [call EXCEPT ![h] = [step |-> "close", worker |-> w,
                                         answer |-> Exhausted]]
         /\ workerNotified' = [workerNotified EXCEPT ![w] = TRUE]
    ELSE /\ call' = [call EXCEPT ![h] = [step |-> "pop", worker |-> w,
                                         answer |-> Last(preferredTiles[v]),
                                         from |-> v]]
         /\ UNCHANGED workerNotified

Races(h) == \E g \in Thread \ {h} : call[g] # NoCall

\* renderFrame deals out the next tile in advance
DealInAdvance ==
  /\ mpc = "deal" /\ call["main"] = NoCall /\ toDeal # <<>>
  /\ PickTile("main", Head(toDeal))
  /\ toDeal' = Tail(toDeal)
  /\ raced' = (raced \/ Races("main"))
  /\ UNCHANGED <<mpc, instances, masterIsDone, frame, preferredTiles, slave,
                 counts, tiles, net>>

\* incoming(): a worker asks for a tile
Incoming(w) ==
  /\ mpc \in {"deal", "wait", "ibarrier", "stop"} /\ call["inbox"] = NoCall
  /\ requests[w] > 0
  /\ requests' = [requests EXCEPT ![w] = @ - 1]
  /\ PickTile("inbox", w)
  /\ raced' = (raced \/ Races("inbox"))
  /\ UNCHANGED <<master, frame, preferredTiles, slave, counts, tiles, answers>>

\* mutant: the tile is read at one end of the queue and removed at the other
PopTile_Front(h) ==
  /\ call[h].step = "pop"
  /\ LET v == call[h].from IN
       /\ preferredTiles[v] # <<>>
       /\ preferredTiles' = [preferredTiles EXCEPT ![v] = Tail(@)]
  /\ call' = [call EXCEPT ![h].step = "send"]
  /\ UNCHANGED <<master, frame, workerNotified, raced, slave, counts, tiles,
                 net>>

\* queue->pop_back().  On a queue another thread has emptied in between this
\* is undefined; of what may happen the model has the thread go no further.
PopTile(h) ==
  /\ call[h].step = "pop"
  /\ LET v == call[h].from IN
       /\ preferredTiles[v] # <<>>
       /\ preferredTiles' = [preferredTiles EXCEPT ![v] = Front(@)]
  /\ call' = [call EXCEPT ![h].step = "send"]
  /\ UNCHANGED <<master, frame, workerNotified, raced, slave, counts, tiles,
                 net>>

\* closeCurrentFrame, when that was the last worker to be notified
CloseFrame(h) ==
  /\ call[h].step = "close"
  /\ masterIsDone' = (masterIsDone \/ \A w \in Worker : workerNotified[w])
  /\ call' = [call EXCEPT ![h].step = "send"]
  /\ UNCHANGED <<mpc, toDeal, instances, frame, preferredTiles,
                 workerNotified, raced, slave, counts, tiles, net>>

\* sendTo
SendAnswer(h) ==
  /\ call[h].step = "send"
  /\ answers' = [answers EXCEPT ![call[h].worker] = Append(@, call[h].answer)]
  /\ call' = [call EXCEPT ![h] = NoCall]
  /\ UNCHANGED <<master, frame, preferredTiles, workerNotified, raced, slave,
                 counts, tiles, requests>>

-----------------------------------------------------------------------------
(***************************************************************************)
(* The end of a frame, in waitUntilFinished: every rank waits for its own  *)
(* frame to be done, then for all the others to come so far (Ibarrier),    *)
(* then it stops its message layer.                                        *)
(***************************************************************************)
AtEnd(l) == l \in {"ibarrier", "stop", "drain", "idle"}

AllAtEnd(f) ==
  /\ frame[0] = f /\ AtEnd(mpc)
  /\ \A w \in Worker : frame[w] = f /\ AtEnd(wpc[w])

MasterGoto(l) ==
  /\ mpc' = l
  /\ UNCHANGED <<toDeal, instances, masterIsDone, frame, dealing, slave,
                 counts, tiles, net>>

MasterWaits == mpc = "deal" /\ call["main"] = NoCall /\ toDeal = <<>>
                 /\ MasterGoto("wait")
MasterDone  == mpc = "wait" /\ masterIsDone /\ MasterGoto("ibarrier")
MasterLeaves == mpc = "ibarrier" /\ AllAtEnd(frame[0]) /\ MasterGoto("stop")
\* stopping the message layer waits for the inbox thread
MasterStops == mpc = "stop" /\ call["inbox"] = NoCall /\ MasterGoto("idle")

-----------------------------------------------------------------------------
(***************************************************************************)
(* A worker.                                                               *)
(***************************************************************************)

\* renderFrame, to startNewFrame: the frame buffer waits for the master's
\* broadcast, resets the worker's tiles and starts the message layer
StartWorker(w) ==
  /\ wpc[w] = "idle"
  /\ frame[w] < frame[0]
  /\ frame' = [frame EXCEPT ![w] = @ + 1]
  /\ tilesAvailable' = [tilesAvailable EXCEPT ![w] = TRUE]
  /\ tilesScheduled' = [tilesScheduled EXCEPT ![w] = 0]
  /\ parts' = [t \in Tile |-> IF OwnerOf(t) = w THEN 0 ELSE parts[t]]
  /\ messaging' = [messaging EXCEPT ![w] = TRUE]
  /\ wpc' = [wpc EXCEPT ![w] = "begin"]
  /\ UNCHANGED <<master, dealing, frameActive, tasks, sent, net>>

\* mutant: tilesAvailable is set when messages may already have come
ActivateFrame_Late(w) ==
  /\ wpc[w] = "begin"
  /\ frameActive' = [frameActive EXCEPT ![w] = TRUE]
  /\ tilesAvailable' = [tilesAvailable EXCEPT ![w] = TRUE]
  /\ wpc' = [wpc EXCEPT ![w] = "wait"]
  /\ UNCHANGED <<master, frame, dealing, messaging, tilesScheduled, tiles, net>>

\* renderer->beginFrame has returned the perFrameData
ActivateFrame(w) ==
  /\ wpc[w] = "begin"
  /\ frameActive' = [frameActive EXCEPT ![w] = TRUE]
  /\ wpc' = [wpc EXCEPT ![w] = "wait"]
  /\ UNCHANGED <<master, frame, dealing, messaging, counts, tiles, net>>

\* incoming(): an answer of the master.  A tile that comes after
\* tilesExhausted is counted and never rendered.
Receive(w) ==
  /\ messaging[w] /\ answers[w] # <<>>
  /\ answers' = [answers EXCEPT ![w] = Tail(@)]
  /\ LET a   == Head(answers[w])
         new == [worker |-> w, tile |-> a.tile, accumId |-> a.accumId,
                 step |-> "render"]
     IN  IF a = Exhausted
           THEN /\ tilesAvailable' = [tilesAvailable EXCEPT ![w] = FALSE]
                /\ UNCHANGED <<tilesScheduled, tasks>>
           ELSE /\ tilesScheduled' = [tilesScheduled EXCEPT ![w] = @ + 1]
                /\ tasks' = IF tilesAvailable[w] THEN tasks \cup {new} ELSE tasks
                /\ UNCHANGED tilesAvailable
  /\ UNCHANGED <<master, frame, dealing, slave, sent, parts, requests>>

StepTask(k, l) == (tasks \ {k}) \cup {[k EXCEPT !.step = l]}

\* tileTask: wait for the frame, render, ask for another tile ...
RenderTask(k) ==
  /\ k \in tasks /\ k.step = "render"
  /\ frameActive[k.worker]
  /\ requests' = IF tilesAvailable[k.worker]
                   THEN [requests EXCEPT ![k.worker] = @ + 1] ELSE requests
  /\ tasks' = StepTask(k, "set")
  /\ UNCHANGED <<master, frame, dealing, slave, counts, sent, parts, answers>>

\* ... setTile ...
SetTile(k) ==
  /\ k \in tasks /\ k.step = "set"
  /\ tasks' = StepTask(k, "end")
  /\ IF OwnerOf(k.tile) = k.worker
       THEN parts' = [parts EXCEPT ![k.tile] = @ + 1] /\ UNCHANGED sent
       ELSE sent' = sent \cup {k} /\ UNCHANGED parts
  /\ UNCHANGED <<master, frame, dealing, slave, counts, net>>

\* ... count the task as finished
EndTask(k) ==
  /\ k \in tasks /\ k.step = "end"
  /\ tasks' = tasks \ {k}
  /\ tilesScheduled' = [tilesScheduled EXCEPT ![k.worker] = @ - 1]
  /\ UNCHANGED <<master, frame, dealing, slave, tilesAvailable, sent, parts,
                 net>>

\* the frame buffer of the tile's owner gets a part from another worker
DeliverPart(k) ==
  /\ k \in sent /\ messaging[OwnerOf(k.tile)]
  /\ sent' = sent \ {k}
  /\ parts' = [parts EXCEPT ![k.tile] = @ + 1]
  /\ UNCHANGED <<master, frame, dealing, slave, counts, tasks, net>>

WorkerGoto(w, l) ==
  /\ wpc' = [wpc EXCEPT ![w] = l]
  /\ UNCHANGED <<master, frame, dealing, counts, tiles, net>>

WorkerDone(w) ==
  /\ wpc[w] = "wait"
  /\ \A t \in Tile : OwnerOf(t) = w => parts[t] = instances[t]
  /\ WorkerGoto(w, "ibarrier") /\ UNCHANGED <<messaging, frameActive>>

WorkerLeaves(w) ==
  /\ wpc[w] = "ibarrier" /\ AllAtEnd(frame[w])
  /\ WorkerGoto(w, "stop") /\ UNCHANGED <<messaging, frameActive>>

WorkerStops(w) ==
  /\ wpc[w] = "stop"
  /\ messaging' = [messaging EXCEPT ![w] = FALSE]
  /\ WorkerGoto(w, "drain") /\ UNCHANGED frameActive

\* mutant: the tasks that are still running are not waited for
WorkerDrains_NoWait(w) ==
  /\ wpc[w] = "drain"
  /\ ~tilesAvailable[w]
  /\ frameActive' = [frameActive EXCEPT ![w] = FALSE]
  /\ WorkerGoto(w, "idle") /\ UNCHANGED messaging

\* "wait for render threads to finish"
WorkerDrains(w) ==
  /\ wpc[w] = "drain"
  /\ tilesScheduled[w] = 0 /\ ~tilesAvailable[w]
  /\ frameActive' = [frameActive EXCEPT ![w] = FALSE]
  /\ WorkerGoto(w, "idle") /\ UNCHANGED messaging

-----------------------------------------------------------------------------
MasterMain == StartFrame \/ DealInAdvance \/ MasterWaits \/ MasterDone
                \/ MasterLeaves \/ MasterStops
Dealing(h) == PopTile(h) \/ CloseFrame(h) \/ SendAnswer(h)
WorkerMain(w) == StartWorker(w) \/ ActivateFrame(w) \/ WorkerDone(w)
                   \/ WorkerLeaves(w) \/ WorkerStops(w) \/ WorkerDrains(w)
TaskStep(k) == RenderTask(k) \/ SetTile(k) \/ EndTask(k)

Next ==
  \/ MasterMain
  \/ \E h \in Thread : Dealing(h)
  \/ \E w \in Worker : Incoming(w) \/ WorkerMain(w) \/ Receive(w)
  \/ \E k \in tasks : TaskStep(k)
  \/ \E k \in sent : DeliverPart(k)

(***************************************************************************)
(* Every thread keeps running, every message is received while the layer  *)
(* of its receiver runs, and the tasking system runs every task.           *)
(***************************************************************************)
Fairness ==
  /\ WF_vars(MasterMain)
  /\ \A h \in Thread : WF_vars(Dealing(h))
  /\ \A w \in Worker : /\ WF_vars(Incoming(w)) /\ WF_vars(Receive(w))
                       /\ WF_vars(WorkerMain(w))
                       /\ WF_vars(\E k \in tasks : k.worker = w /\ TaskStep(k))
                       /\ WF_vars(\E k \in sent : OwnerOf(k.tile) = w
                                                   /\ DeliverPart(k))

Spec == Init /\ [][Next]_vars /\ Fairness

-----------------------------------------------------------------------------
(***************************************************************************)
(* Properties.                                                             *)
(***************************************************************************)
TileTask == [tile : Tile, accumId : 0..NumTiles-1]

TypeOK ==
  /\ mpc \in {"idle", "deal", "wait", "ibarrier", "stop"}
  /\ frame \in [{0} \cup Worker -> 0..MaxFrame]
  /\ preferredTiles \in [Worker -> Seq(TileTask)]
  /\ workerNotified \in [Worker -> BOOLEAN]
  /\ toDeal \in Seq(Worker)
  /\ instances \in [Tile -> 0..NumTiles]
  /\ masterIsDone \in BOOLEAN
  /\ \A h \in Thread : call[h].step \in {"none", "pop", "close", "send"}
  /\ answers \in [Worker -> Seq(TileTask \cup {Exhausted})]
  /\ requests \in [Worker -> Nat]
  /\ wpc \in [Worker -> {"idle", "begin", "wait", "ibarrier", "stop", "drain"}]
  /\ messaging \in [Worker -> BOOLEAN]
  /\ tilesAvailable \in [Worker -> BOOLEAN]
  /\ tilesScheduled \in [Worker -> Nat]
  /\ frameActive \in [Worker -> BOOLEAN]
  /\ \A k \in tasks \cup sent :
       /\ k.worker \in Worker /\ k.tile \in Tile
       /\ k.step \in {"render", "set", "end"}
  /\ parts \in [Tile -> Nat]
  /\ raced \in BOOLEAN

\* When a worker's renderFrame returns, none of its tile tasks is left that
\* would use the perFrameData, the renderer or the frame buffer.
NoTaskOutlivesFrame ==
  \A k \in tasks : wpc[k.worker] # "idle"

Dealt(t) == [tile : {t}, accumId : 0..NumTiles-1]

\* the copies of tile t that are still in a queue, or on their way out
Queued(t) == {k \in Dealt(t) : \E w \in Worker : Contains(preferredTiles[w], k)}
Answering(t) ==
  {k \in Dealt(t) : \/ \E h \in Thread : call[h].step = "send" /\ call[h].answer = k
                    \/ \E w \in Worker : Contains(answers[w], k)}
Rendering(t) == {k \in tasks : k.tile = t /\ k.step # "end"}
Sent(t) == {k \in sent : k.tile = t}

\* No copy of a tile is lost or rendered twice on its way from the queue over
\* a worker to the owner, unless two threads were in scheduleTile at once; and
\* all variables keep their types.
EveryTileOnce == TypeOK /\
  (raced \/ \A t \in Tile :
    frame[OwnerOf(t)] = frame[0] =>
      Cardinality(Queued(t)) + Cardinality(Answering(t)) +
        Cardinality(Rendering(t)) + Cardinality(Sent(t)) + parts[t]
          = instances[t])

\* A worker that has been told that there are no more tiles is sent nothing
\* else in that frame.
ExhaustedIsLast ==
  \A w \in Worker :
    /\ \A i \in DOMAIN answers[w] :
         answers[w][i] = Exhausted => i = Len(answers[w])
    /\ wpc[w] \in {"wait", "ibarrier", "stop", "drain"} /\ ~tilesAvailable[w]
         => answers[w] = <<>>

\* The same, as far as the order of steps of one thread goes.
ExhaustedIsLastUnlessRaced == raced \/ ExhaustedIsLast

\* a worker has left the frame's barrier before the master's last answer
\* came, and its message layer is off
Stranded(w) ==
  /\ wpc[w] = "drain" /\ tilesAvailable[w] /\ ~messaging[w]
  /\ \/ Contains(answers[w], Exhausted)
     \/ \E h \in Thread : call[h] # NoCall /\ call[h].worker = w
                                           /\ call[h].answer = Exhausted

\* all ranks have left the last frame the master began
Finished == mpc = "idle" /\ \A w \in Worker : wpc[w] = "idle" /\ frame[w] = frame[0]

\* The guards of the steps: some thread can go on, or a message be received.
CanStep ==
  \/ Finished /\ frame[0] < MaxFrame
  \/ mpc = "deal" /\ call["main"] = NoCall
  \/ mpc = "wait" /\ masterIsDone
  \/ mpc = "ibarrier" /\ AllAtEnd(frame[0])
  \/ mpc = "stop" /\ call["inbox"] = NoCall
  \/ \E h \in Thread : \/ call[h].step \in {"close", "send"}
                       \/ call[h].step = "pop" /\ preferredTiles[call[h].from] # <<>>
  \/ \E w \in Worker :
       \/ mpc \in {"deal", "wait", "ibarrier", "stop"} /\ call["inbox"] = NoCall /\ requests[w] > 0
       \/ wpc[w] = "idle" /\ frame[w] < frame[0]
       \/ wpc[w] \in {"begin", "stop"}
       \/ wpc[w] = "wait" /\ \A t \in Tile : OwnerOf(t) = w => parts[t] = instances[t]
       \/ wpc[w] = "ibarrier" /\ AllAtEnd(frame[w])
       \/ wpc[w] = "drain" /\ tilesScheduled[w] = 0 /\ ~tilesAvailable[w]
       \/ messaging[w] /\ answers[w] # <<>>
  \/ \E k \in tasks : k.step = "render" => frameActive[k.worker]
  \/ \E k \in sent : messaging[OwnerOf(k.tile)]

\* All ranks leave the frames they begin; all that can keep them from it are
\* two threads in scheduleTile and an answer that comes too late.  (No step
\* can be taken for ever, so to come to the end it is enough not to stop.)
GoesOn == CanStep \/ Finished \/ raced \/ \E w \in Worker : Stranded(w)

\* The same, with the steps themselves for their guards.
OnlyRaceOrLateAnswerHangs == GoesOn /\ (CanStep => ENABLED Next)

\* "wait for render threads to finish": a worker that waits for its render
\* threads goes on when they have finished.
RenderThreadsFinish ==
  \A w \in Worker :
    wpc[w] = "drain" /\ tilesScheduled[w] = 0 /\ ~raced
      ~> wpc[w] # "drain" \/ raced

=============================================================================
