------------------------ MODULE DynamicBalancer_proofs ------------------------
(***************************************************************************)
(* The dynamic load balancer, for every number of workers, tiles, frames   *)
(* and tiles dealt in advance.  No tile task of a worker outlives its      *)
(* frame, although two threads of the master may get between each other.   *)
(* Unless they have, no copy of a tile is lost or rendered twice,          *)
(* tilesExhausted is the last a worker is sent in a frame, and no frame    *)
(* stops before all have left it, but for an answer that comes too late.   *)
(***************************************************************************)
EXTENDS DynamicBalancer, FiniteSetTheorems, FunctionTheorems, TLAPS

WorkerPC == {"idle", "begin", "wait", "ibarrier", "stop", "drain"}

TasksOf(w) == {k \in tasks : k.worker = w}

Types ==
  /\ wpc \in [Worker -> WorkerPC]
  /\ messaging \in [Worker -> BOOLEAN]
  /\ tilesScheduled \in [Worker -> Int]
  /\ IsFiniteSet(tasks)
  /\ \A k \in tasks :
       /\ k = [worker |-> k.worker, tile |-> k.tile, accumId |-> k.accumId, step |-> k.step]
       /\ k.worker \in Worker

\* tilesScheduled counts at least the tasks there are, the messages that would
\* bring more stop before it is waited for, and so a worker that is idle has
\* none.
TasksCounted ==
  \A w \in Worker :
    /\ Cardinality(TasksOf(w)) <= tilesScheduled[w]
    /\ wpc[w] \in {"idle", "drain"} => ~messaging[w]
    /\ wpc[w] = "idle" => TasksOf(w) = {}

IInv == Types /\ TasksCounted

-----------------------------------------------------------------------------
\* The tasks of a worker are finitely many.
LEMMA FiniteTasks == ASSUME Types, NEW w \in Worker
                     PROVE  /\ IsFiniteSet(TasksOf(w))
                            /\ Cardinality(TasksOf(w)) \in Nat
BY FS_Subset, FS_CardinalityType DEF Types, TasksOf

\* Before the first frame.
LEMMA InitIInv == Init => IInv
<1> SUFFICES ASSUME Init
             PROVE  IInv
  OBVIOUS
<1>1. Types
  BY FS_EmptySet DEF Init, Types, WorkerPC
<1>2. \A w \in Worker : TasksOf(w) = {}
  BY DEF Init, TasksOf
<1>3. \A w \in Worker : Cardinality(TasksOf(w)) = 0
  BY <1>2, FS_EmptySet, Zenon
<1>4. TasksCounted
  BY <1>2, <1>3 DEF Init, TasksCounted
<1>5. QED
  BY <1>1, <1>4 DEF IInv

\* A step that leaves the tasks, their count and the workers alone.
LEMMA Elsewhere ==
  ASSUME IInv, UNCHANGED <<wpc, messaging, tilesScheduled, tasks>>
  PROVE  IInv'
BY DEF IInv, Types, TasksCounted, TasksOf

\* The main thread of a worker: it begins a frame without tasks, and is idle
\* again when there are none.
LEMMA NextMain == ASSUME NEW w \in Worker, IInv, WorkerMain(w)
                  PROVE  IInv'
<1>1. tasks' = tasks
  BY DEF WorkerMain, StartWorker, ActivateFrame, WorkerDone, WorkerLeaves, WorkerStops,
         WorkerDrains, WorkerGoto, tiles
<1>2. \A v \in Worker : TasksOf(v)' = TasksOf(v)
  BY <1>1 DEF TasksOf
<1>3. ASSUME StartWorker(w)
      PROVE  IInv'
  <2>1. Types'
    BY <1>1, <1>3 DEF StartWorker, IInv, Types, WorkerPC
  <2>2. Cardinality(TasksOf(w)) <= 0
    <3>1. TasksOf(w) = {}
      BY <1>3 DEF StartWorker, IInv, TasksCounted
    <3>2. Cardinality(TasksOf(w)) = 0
      BY <3>1, FS_EmptySet, Zenon
    <3>3. QED
      BY <3>2
  <2>3. TasksCounted'
    BY <1>2, <1>3, <2>2 DEF StartWorker, IInv, Types, TasksCounted
  <2>4. QED
    BY <2>1, <2>3 DEF IInv
<1>4. ASSUME WorkerDrains(w)
      PROVE  IInv'
  <2>1. UNCHANGED <<messaging, tilesScheduled, tasks>> /\ wpc' = [wpc EXCEPT ![w] = "idle"]
    BY <1>4 DEF WorkerDrains, WorkerGoto, counts, tiles
  <2>2. TasksOf(w) = {}
    <3>1. Cardinality(TasksOf(w)) <= 0
      BY <1>4 DEF WorkerDrains, IInv, TasksCounted
    <3>2. QED
      BY <3>1, FiniteTasks, FS_EmptySet DEF IInv
  <2>3. Types'
    BY <2>1 DEF IInv, Types, WorkerPC
  <2>4. TasksCounted'
    BY <1>2, <1>4, <2>1, <2>2 DEF WorkerDrains, IInv, Types, TasksCounted
  <2>5. QED
    BY <2>3, <2>4 DEF IInv
<1>5. ASSUME WorkerStops(w)
      PROVE  IInv'
  <2>1. /\ UNCHANGED <<tilesScheduled, tasks>> /\ wpc' = [wpc EXCEPT ![w] = "drain"]
        /\ messaging' = [messaging EXCEPT ![w] = FALSE]
    BY <1>5 DEF WorkerStops, WorkerGoto, counts, tiles
  <2>2. Types'
    BY <2>1 DEF IInv, Types, WorkerPC
  <2>3. TasksCounted'
    BY <1>2, <2>1 DEF IInv, Types, TasksCounted
  <2>4. QED
    BY <2>2, <2>3 DEF IInv
<1>6. ASSUME ActivateFrame(w) \/ WorkerDone(w) \/ WorkerLeaves(w)
      PROVE  IInv'
  <2>1. /\ UNCHANGED <<messaging, tilesScheduled, tasks>>
        /\ \E l \in {"wait", "ibarrier", "stop"} : wpc' = [wpc EXCEPT ![w] = l]
    BY <1>6 DEF ActivateFrame, WorkerDone, WorkerLeaves, WorkerGoto, counts, tiles
  <2>2. Types'
    BY <2>1 DEF IInv, Types, WorkerPC
  <2>3. TasksCounted'
    BY <1>2, <2>1 DEF IInv, Types, TasksCounted
  <2>4. QED
    BY <2>2, <2>3 DEF IInv
<1>7. QED
  BY <1>3, <1>4, <1>5, <1>6 DEF WorkerMain

\* A tile that is received is counted before its task exists.
LEMMA NextReceive == ASSUME NEW w \in Worker, IInv, Receive(w)
                     PROVE  IInv'
<1> DEFINE a == Head(answers[w])
           new == [worker |-> w, tile |-> a.tile, accumId |-> a.accumId, step |-> "render"]
<1>1. messaging[w] /\ UNCHANGED <<wpc, messaging>>
  BY DEF Receive, slave
<1>2. CASE UNCHANGED <<tilesScheduled, tasks>>
  BY <1>1, <1>2, Elsewhere
<1>3. CASE /\ tilesScheduled' = [tilesScheduled EXCEPT ![w] = @ + 1]
           /\ tasks' = tasks
  <2>1. \A v \in Worker : TasksOf(v)' = TasksOf(v)
    BY <1>3 DEF TasksOf
  <2>2. \A v \in Worker : Cardinality(TasksOf(v)) \in Nat
    BY FiniteTasks DEF IInv
  <2>3. TasksCounted'
    BY <1>1, <1>3, <2>1, <2>2 DEF IInv, Types, TasksCounted
  <2>4. QED
    BY <1>1, <1>3, <2>3 DEF IInv, Types
<1>4. CASE /\ tilesScheduled' = [tilesScheduled EXCEPT ![w] = @ + 1]
           /\ tasks' = tasks \cup {new}
  <2>1. /\ new.worker = w
        /\ new = [worker |-> new.worker, tile |-> new.tile, accumId |-> new.accumId,
                  step |-> new.step]
    OBVIOUS
  <2> HIDE DEF new
  <2>2. Types'
    <3>1. IsFiniteSet(tasks')
      BY <1>4, FS_AddElement DEF IInv, Types
    <3>2. \A k \in tasks' :
            /\ k = [worker |-> k.worker, tile |-> k.tile, accumId |-> k.accumId, step |-> k.step]
            /\ k.worker \in Worker
      BY <1>4, <2>1 DEF IInv, Types
    <3>3. QED
      BY <1>1, <1>4, <3>1, <3>2 DEF IInv, Types
  <2>3. \A v \in Worker : TasksOf(v)' = IF v = w THEN TasksOf(v) \cup {new} ELSE TasksOf(v)
    BY <1>4, <2>1 DEF TasksOf
  <2>4. Cardinality(TasksOf(w) \cup {new}) <= Cardinality(TasksOf(w)) + 1
    <3>1. IsFiniteSet(TasksOf(w)) /\ Cardinality(TasksOf(w)) \in Nat
      BY FiniteTasks DEF IInv
    <3>2. Cardinality(TasksOf(w) \cup {new})
            = IF new \in TasksOf(w) THEN Cardinality(TasksOf(w)) ELSE Cardinality(TasksOf(w)) + 1
      BY <3>1, FS_AddElement
    <3>3. QED
      BY <3>1, <3>2
  <2>5. /\ Cardinality(TasksOf(w) \cup {new}) \in Nat
        /\ \A v \in Worker : Cardinality(TasksOf(v)) \in Nat
    BY FiniteTasks, FS_AddElement, FS_CardinalityType DEF IInv
  <2>6. TasksCounted'
    BY <1>1, <1>4, <2>3, <2>4, <2>5 DEF IInv, Types, TasksCounted
  <2>7. QED
    BY <2>2, <2>6 DEF IInv
<1>5. QED
  BY <1>2, <1>3, <1>4 DEF Receive

\* A task that goes on is the same task; one that ends leaves before it is no
\* longer counted.
LEMMA NextTask == ASSUME NEW k \in tasks, IInv, TaskStep(k)
                  PROVE  IInv'
<1>0. /\ k.worker \in Worker /\ UNCHANGED <<wpc, messaging>>
      /\ k = [worker |-> k.worker, tile |-> k.tile, accumId |-> k.accumId, step |-> k.step]
  BY DEF IInv, Types, TaskStep, RenderTask, SetTile, EndTask, slave
<1>1. ASSUME NEW l, tasks' = StepTask(k, l), UNCHANGED tilesScheduled
      PROVE  IInv'
  <2> DEFINE next == [k EXCEPT !.step = l]
  <2>1. /\ next = [worker |-> k.worker, tile |-> k.tile, accumId |-> k.accumId, step |-> l]
        /\ next.worker = k.worker /\ next.tile = k.tile /\ next.accumId = k.accumId
        /\ next.step = l
    BY <1>0
  <2>2. tasks' = (tasks \ {k}) \cup {next}
    BY <1>1 DEF StepTask
  <2> HIDE DEF next
  <2>3. Types'
    <3>1. IsFiniteSet(tasks')
      BY <2>2, FS_AddElement, FS_RemoveElement DEF IInv, Types
    <3>2. \A j \in tasks' :
            /\ j = [worker |-> j.worker, tile |-> j.tile, accumId |-> j.accumId, step |-> j.step]
            /\ j.worker \in Worker
      BY <1>0, <2>1, <2>2 DEF IInv, Types
    <3>3. QED
      BY <1>0, <1>1, <3>1, <3>2 DEF IInv, Types
  <2>4. \A v \in Worker :
          TasksOf(v)' = IF v = k.worker THEN (TasksOf(v) \ {k}) \cup {next} ELSE TasksOf(v)
    BY <2>1, <2>2 DEF TasksOf
  <2>5. k \in TasksOf(k.worker)
    BY DEF TasksOf
  <2>6. Cardinality((TasksOf(k.worker) \ {k}) \cup {next}) <= Cardinality(TasksOf(k.worker))
    <3>1. IsFiniteSet(TasksOf(k.worker)) /\ Cardinality(TasksOf(k.worker)) \in Nat
      BY <1>0, FiniteTasks DEF IInv
    <3>2. /\ IsFiniteSet(TasksOf(k.worker) \ {k})
          /\ Cardinality(TasksOf(k.worker) \ {k}) = Cardinality(TasksOf(k.worker)) - 1
      BY <2>5, <3>1, FS_RemoveElement
    <3>3. Cardinality((TasksOf(k.worker) \ {k}) \cup {next})
            <= Cardinality(TasksOf(k.worker) \ {k}) + 1
      <4>1. Cardinality((TasksOf(k.worker) \ {k}) \cup {next})
              = IF next \in TasksOf(k.worker) \ {k}
                THEN Cardinality(TasksOf(k.worker) \ {k})
                ELSE Cardinality(TasksOf(k.worker) \ {k}) + 1
        BY <3>2, FS_AddElement
      <4>2. QED
        BY <3>1, <3>2, <4>1
    <3>4. Cardinality((TasksOf(k.worker) \ {k}) \cup {next}) \in Nat
      BY <3>2, FS_AddElement, FS_CardinalityType
    <3>5. QED
      BY <3>1, <3>2, <3>3, <3>4
  <2>7. /\ Cardinality((TasksOf(k.worker) \ {k}) \cup {next}) \in Nat
        /\ \A v \in Worker : Cardinality(TasksOf(v)) \in Nat
    <3>1. \A v \in Worker : IsFiniteSet(TasksOf(v)) /\ Cardinality(TasksOf(v)) \in Nat
      BY FiniteTasks DEF IInv
    <3>2. IsFiniteSet((TasksOf(k.worker) \ {k}) \cup {next})
      BY <1>0, <3>1, FS_RemoveElement, FS_AddElement
    <3>3. QED
      BY <3>1, <3>2, FS_CardinalityType
  <2>8. TasksCounted'
    BY <1>0, <1>1, <2>4, <2>5, <2>6, <2>7 DEF IInv, Types, TasksCounted
  <2>9. QED
    BY <2>3, <2>8 DEF IInv
<1>2. ASSUME EndTask(k)
      PROVE  IInv'
  <2>1. /\ tasks' = tasks \ {k}
        /\ tilesScheduled' = [tilesScheduled EXCEPT ![k.worker] = @ - 1]
    BY <1>2 DEF EndTask
  <2>2. Types'
    <3>1. IsFiniteSet(tasks')
      BY <2>1, FS_RemoveElement DEF IInv, Types
    <3>2. QED
      BY <1>0, <2>1, <3>1 DEF IInv, Types
  <2>3. \A v \in Worker : TasksOf(v)' = IF v = k.worker THEN TasksOf(v) \ {k} ELSE TasksOf(v)
    BY <2>1 DEF TasksOf
  <2>4. k \in TasksOf(k.worker)
    BY DEF TasksOf
  <2>5. \A v \in Worker : IsFiniteSet(TasksOf(v)) /\ Cardinality(TasksOf(v)) \in Nat
    BY FiniteTasks DEF IInv
  <2>6. Cardinality(TasksOf(k.worker) \ {k}) = Cardinality(TasksOf(k.worker)) - 1
    BY <1>0, <2>4, <2>5, FS_RemoveElement
  <2>7. TasksCounted'
    BY <1>0, <2>1, <2>3, <2>4, <2>5, <2>6 DEF IInv, Types, TasksCounted
  <2>8. QED
    BY <2>2, <2>7 DEF IInv
<1>3. CASE RenderTask(k)
  BY <1>1, <1>3 DEF RenderTask, counts
<1>4. CASE SetTile(k)
  BY <1>1, <1>4 DEF SetTile, counts
<1>5. QED
  BY <1>2, <1>3, <1>4 DEF TaskStep

\* The master, the messages and the owners of tiles touch none of it.
LEMMA NextIInv == IInv /\ [Next]_vars => IInv'
<1> SUFFICES ASSUME IInv, [Next]_vars
             PROVE  IInv'
  OBVIOUS
<1> USE DEF master, dealing, slave, counts, tiles, net
<1>1. CASE MasterMain
  <2>1. UNCHANGED <<wpc, messaging, tilesScheduled, tasks>>
    BY <1>1 DEF MasterMain, StartFrame, DealInAdvance, MasterWaits, MasterDone,
                MasterLeaves, MasterStops, MasterGoto
  <2>2. QED
    BY <2>1, Elsewhere
<1>2. ASSUME NEW h \in Thread, Dealing(h)
      PROVE  IInv'
  <2>1. UNCHANGED <<wpc, messaging, tilesScheduled, tasks>>
    BY <1>2 DEF Dealing, PopTile, CloseFrame, SendAnswer
  <2>2. QED
    BY <2>1, Elsewhere
<1>3. ASSUME NEW w \in Worker, Incoming(w)
      PROVE  IInv'
  <2>1. UNCHANGED <<wpc, messaging, tilesScheduled, tasks>>
    BY <1>3 DEF Incoming
  <2>2. QED
    BY <2>1, Elsewhere
<1>4. ASSUME NEW k \in sent, DeliverPart(k)
      PROVE  IInv'
  <2>1. UNCHANGED <<wpc, messaging, tilesScheduled, tasks>>
    BY <1>4 DEF DeliverPart
  <2>2. QED
    BY <2>1, Elsewhere
<1>5. CASE UNCHANGED vars
  BY <1>5, Elsewhere DEF vars
<1>6. QED
  BY <1>1, <1>2, <1>3, <1>4, <1>5, NextMain, NextReceive, NextTask DEF Next

\* The inductive invariant of the worker's tasks (dynamicLoadBalancer::Slave).
THEOREM Invariance == Spec => []IInv
BY InitIInv, NextIInv, PTL DEF Spec

\* When a worker's renderFrame returns none of its tasks is left
\* (dynamicLoadBalancer::Slave::renderFrame, tileTask).
THEOREM TasksEndInFrame == Spec => []NoTaskOutlivesFrame
<1>1. IInv => NoTaskOutlivesFrame
  BY DEF IInv, Types, TasksCounted, TasksOf, NoTaskOutlivesFrame
<1>2. QED
  BY <1>1, Invariance, PTL
-----------------------------------------------------------------------------
(***************************************************************************)
(* What the master tells a worker, and the way of a tile.  These hold      *)
(* unless the two threads of the master have been in scheduleTile at once; *)
(* the types and the frames of the ranks hold in any case.                 *)
(***************************************************************************)
Closing == [step : {"close", "send"}, worker : Worker, answer : {Exhausted}]
Giving == [step : {"pop", "send"}, worker : Worker, answer : TileTask, from : Worker]

CallTypes == call \in [Thread -> {NoCall} \cup Closing \cup Giving]

TaskRecord == [worker : Worker, tile : Tile, accumId : 0..NumTiles-1, step : {"render", "set", "end"}]

\* Who is in a frame is in the master's, and nobody is more than one behind.
\* The master's threads deal out tiles in its frames only.
FramesInStep ==
  /\ \A w \in Worker : /\ frame[w] = frame[0] \/ frame[w] + 1 = frame[0]
                       /\ wpc[w] # "idle" => frame[w] = frame[0]
  /\ call["main"] # NoCall => mpc = "deal"
  /\ call["inbox"] # NoCall => mpc # "idle"
  /\ frame[0] = 0 => mpc = "idle" /\ \A w \in Worker : answers[w] = <<>>

DealTypes ==
  TypeOK /\ CallTypes /\ FramesInStep /\ tasks \cup sent \subseteq TaskRecord

CallTo(w) == \E h \in Thread : call[h] # NoCall /\ call[h].worker = w

\* The worker has received tilesExhausted in the master's frame.
Told(w) ==
  IF wpc[w] = "idle" THEN frame[w] = frame[0] /\ frame[0] # 0 ELSE ~tilesAvailable[w]

\* tilesExhausted is decided once, before it is sent, and with it there is
\* nothing more to be sent.
ToldOnce ==
  /\ \A h, g \in Thread : call[h] # NoCall /\ call[g] # NoCall => h = g
  /\ \A h \in Thread : call[h] # NoCall =>
       (workerNotified[call[h].worker] <=> call[h].answer = Exhausted)
  /\ \A w \in Worker :
       /\ \A i \in 1 .. Len(answers[w]) :
            answers[w][i] = Exhausted => i = Len(answers[w]) /\ workerNotified[w] /\ ~CallTo(w)
       /\ Told(w) => answers[w] = <<>> /\ workerNotified[w] /\ ~CallTo(w)

\* Where copy c of a tile is: in the queue of the tile's owner, in a call, on
\* its way to a worker, with a task, or on its way to the owner.
CopyOf(k) == [tile |-> k.tile, accumId |-> k.accumId]
Waits(c) == \E w \in Worker, i \in Nat : i \in 1 .. Len(preferredTiles[w]) /\ preferredTiles[w][i] = c
Leaves(c) == \E h \in Thread : call[h].step = "send" /\ call[h].answer = c
Answered(c) == \E w \in Worker, i \in Nat : i \in 1 .. Len(answers[w]) /\ answers[w][i] = c
Rendered(c) == \E k \in tasks : k.step # "end" /\ CopyOf(k) = c
SentOff(c) == \E k \in sent : CopyOf(k) = c

\* No copy is in one place twice ...
QueuedOnce ==
  /\ \A v, w \in Worker : \A i \in 1 .. Len(preferredTiles[v]), j \in 1 .. Len(preferredTiles[w]) :
       preferredTiles[v][i] = preferredTiles[w][j] => v = w /\ i = j
  /\ \A h \in Thread : call[h].step = "pop" =>
       LET q == preferredTiles[call[h].from] IN q # <<>> /\ q[Len(q)] = call[h].answer
AnsweredOnce ==
  \A v, w \in Worker : \A i \in 1 .. Len(answers[v]), j \in 1 .. Len(answers[w]) :
    answers[v][i] = answers[w][j] /\ answers[v][i] # Exhausted => v = w /\ i = j
RenderedOnce ==
  /\ \A k, l \in tasks : k.step # "end" /\ l.step # "end" /\ CopyOf(k) = CopyOf(l) => k = l
  /\ \A k, l \in sent : CopyOf(k) = CopyOf(l) => k = l

\* ... nor in two places.
Apart ==
  \A c \in TileTask :
    /\ Waits(c) => ~Leaves(c) /\ ~Answered(c) /\ ~Rendered(c) /\ ~SentOff(c)
    /\ Leaves(c) => ~Answered(c) /\ ~Rendered(c) /\ ~SentOff(c)
    /\ Answered(c) => ~Rendered(c) /\ ~SentOff(c)
    /\ Rendered(c) => ~SentOff(c)

\* The copies of t that have not come to its owner.
Held(c) == Waits(c) \/ Leaves(c) \/ Answered(c) \/ Rendered(c) \/ SentOff(c)
HeldOf(t) == {c \in TileTask : c.tile = t /\ Held(c)}

\* Until its owner has begun the frame none has.
Arrived(t) == IF frame[OwnerOf(t)] = frame[0] THEN parts[t] ELSE 0
Counted == \A t \in Tile : Cardinality(HeldOf(t)) + Arrived(t) = instances[t]

\* A worker that has come to the end of the frame has all parts.
OwnersDone ==
  \A w \in Worker :
    wpc[w] \in {"ibarrier", "stop", "drain"} \/ (wpc[w] = "idle" /\ frame[w] = frame[0])
      => \A t \in Tile : OwnerOf(t) = w => parts[t] = instances[t]

CopiesInv == QueuedOnce /\ AnsweredOnce /\ RenderedOnce /\ Apart /\ Counted /\ OwnersDone

DealInv == DealTypes /\ (raced \/ (ToldOnce /\ CopiesInv))
-----------------------------------------------------------------------------
(* The model's operators: what is chosen, and what is told apart.          *)

LEMMA Distinct == Exhausted \notin TileTask /\ NoCall \notin Closing \cup Giving
<1>1. ASSUME NEW c \in TileTask PROVE c # Exhausted
  BY DEF TileTask, Exhausted
<1>2. ASSUME NEW c \in Closing \cup Giving PROVE c.step # "none"
  BY DEF Closing, Giving
<1>3. NoCall.step = "none"
  BY DEF NoCall
<1> QED BY <1>1, <1>2, <1>3

\* Of the queues there is a first longest one (std::max_element).
LEMMA LongestQueue ==
  ASSUME preferredTiles \in [Worker -> Seq(TileTask)]
  PROVE  \E v \in Worker : \A u \in Worker :
           \/ Len(preferredTiles[u]) < Len(preferredTiles[v])
           \/ Len(preferredTiles[u]) = Len(preferredTiles[v]) /\ v <= u
<1> DEFINE better(u, v) == \/ Len(preferredTiles[u]) > Len(preferredTiles[v])
                           \/ Len(preferredTiles[u]) = Len(preferredTiles[v]) /\ u < v
           above(v) == {u \in Worker : better(u, v)}
           W == {above(v) : v \in Worker}
<1>1. IsFiniteSet(Worker)
  BY CountAssumption, FS_Interval, 1 \in Int, NumWorkers \in Int DEF Worker
<1>2. W \subseteq FiniteSubsetsOf(Worker) /\ W # {}
  <2>1. \A v \in Worker : above(v) \subseteq Worker /\ IsFiniteSet(above(v))
    BY <1>1, FS_Subset
  <2>2. Worker # {}
    <3>1. 1 \in Worker
      BY CountAssumption DEF Worker
    <3> QED BY <3>1
  <2> HIDE DEF above
  <2> QED BY <2>1, <2>2 DEF FiniteSubsetsOf
<1>3. PICK B \in W : \A C \in W : <<C, B>> \notin StrictSubsetOrdering(Worker)
  BY <1>1, <1>2, FS_StrictSubsetOrderingWellFounded, WFMin
<1>4. PICK v \in Worker : B = above(v)
  BY <1>3
<1>5. \A u \in Worker : Len(preferredTiles[u]) \in Nat /\ u \in Int
  BY DEF Worker
<1>6. ASSUME NEW u \in Worker, better(u, v)
      PROVE  FALSE
  <2>1. above(u) \subseteq above(v)
    BY <1>5, <1>6
  <2>2. u \in above(v) /\ u \notin above(u)
    BY <1>5, <1>6
  <2>3. above(u) \in W /\ above(u) \subseteq Worker /\ above(v) \subseteq Worker
    OBVIOUS
  <2> HIDE DEF above, W
  <2> QED BY <2>1, <2>2, <2>3, <1>3, <1>4 DEF StrictSubsetOrdering
<1>7. \A u \in Worker : \/ Len(preferredTiles[u]) < Len(preferredTiles[v])
                        \/ Len(preferredTiles[u]) = Len(preferredTiles[v]) /\ v <= u
  BY <1>5, <1>6
<1> QED BY <1>7

\* The queue a tile is taken from is a worker's, and it has none only when there
\* is none left.
LEMMA QueueExists ==
  ASSUME preferredTiles \in [Worker -> Seq(TileTask)], NEW w \in Worker
  PROVE  QueueFor(w) \in Worker
BY LongestQueue DEF QueueFor

LEMMA NoTileLeft ==
  ASSUME preferredTiles \in [Worker -> Seq(TileTask)], NEW w \in Worker,
         preferredTiles[QueueFor(w)] = <<>>
  PROVE  \A v \in Worker : preferredTiles[v] = <<>>
<1>1. preferredTiles[w] = <<>>
  BY DEF QueueFor
<1>2. \A u \in Worker : \/ Len(preferredTiles[u]) < Len(preferredTiles[QueueFor(w)])
                        \/ Len(preferredTiles[u]) = Len(preferredTiles[QueueFor(w)])
  BY <1>1, LongestQueue DEF QueueFor
<1>3. ASSUME NEW u \in Worker PROVE preferredTiles[u] = <<>>
  <2>1. preferredTiles[u] \in Seq(TileTask) /\ Len(<<>>) = 0
    OBVIOUS
  <2>2. Len(preferredTiles[u]) < 0 \/ Len(preferredTiles[u]) = 0
    BY <1>2, <2>1
  <2> QED BY <2>1, <2>2
<1> QED BY <1>3

\* A call that goes on is for the same worker and with the same answer.
LEMMA CallGoes ==
  ASSUME CallTypes, NEW h \in Thread, call[h].step \in {"pop", "close"},
         call' = [call EXCEPT ![h].step = "send"]
  PROVE  /\ CallTypes' /\ call[h] # NoCall /\ call'[h] # NoCall
         /\ call'[h].step = "send" /\ call'[h].worker = call[h].worker
         /\ call'[h].answer = call[h].answer /\ call[h].worker \in Worker
         /\ call[h].step = "pop" => call[h] \in Giving /\ call'[h] \in Giving
         /\ call[h].step = "close" => call[h] \in Closing /\ call'[h] \in Closing
         /\ \A g \in Thread : g # h => call'[g] = call[g]
<1>1. call[h] \in Closing \cup Giving
  BY DEF CallTypes, NoCall
<1>2. /\ DOMAIN call = Thread /\ call' = [call EXCEPT ![h] = call'[h]]
      /\ call'[h] = [call[h] EXCEPT !.step = "send"]
      /\ \A g \in Thread : g # h => call'[g] = call[g]
  BY DEF CallTypes
<1>3. CASE call[h] \in Giving
  <2>1. /\ call'[h] \in Giving /\ call'[h].step = "send" /\ call'[h].worker = call[h].worker
        /\ call'[h].answer = call[h].answer /\ call[h].worker \in Worker
        /\ call[h].step # "close"
    BY <1>2, <1>3 DEF Giving
  <2>2. call' \in [Thread -> {NoCall} \cup Closing \cup Giving]
    BY <1>2, <2>1 DEF CallTypes
  <2> QED BY <1>2, <1>3, <2>1, <2>2, Distinct DEF CallTypes
<1>4. CASE call[h] \in Closing
  <2>1. /\ call'[h] \in Closing /\ call'[h].step = "send" /\ call'[h].worker = call[h].worker
        /\ call'[h].answer = call[h].answer /\ call[h].worker \in Worker
        /\ call[h].step # "pop"
    BY <1>2, <1>4 DEF Closing
  <2>2. call' \in [Thread -> {NoCall} \cup Closing \cup Giving]
    BY <1>2, <2>1 DEF CallTypes
  <2> QED BY <1>2, <1>4, <2>1, <2>2, Distinct DEF CallTypes
<1> QED BY <1>1, <1>3, <1>4

\* scheduleTile returns at once, or decides for tilesExhausted or a tile.
Refused(w) == workerNotified[w] /\ UNCHANGED <<call, workerNotified>>
Notified(h, w) ==
  /\ ~workerNotified[w] /\ workerNotified' = [workerNotified EXCEPT ![w] = TRUE]
  /\ call'[h] \in Closing /\ call'[h].step = "close" /\ call'[h].worker = w
  /\ \A v \in Worker : preferredTiles[v] = <<>>
Chose(h, w) ==
  /\ ~workerNotified[w] /\ UNCHANGED workerNotified
  /\ call'[h] \in Giving /\ call'[h].step = "pop" /\ call'[h].worker = w
  /\ LET q == preferredTiles[call'[h].from] IN q # <<>> /\ q[Len(q)] = call'[h].answer

LEMMA CallBegins ==
  ASSUME CallTypes, preferredTiles \in [Worker -> Seq(TileTask)],
         NEW h \in Thread, NEW w \in Worker, PickTile(h, w)
  PROVE  /\ CallTypes' /\ \A g \in Thread : g # h => call'[g] = call[g]
         /\ Refused(w) \/ Notified(h, w) \/ Chose(h, w)
<1> DEFINE v == QueueFor(w)
<1>1. v \in Worker
  BY QueueExists
<1> HIDE DEF v
<1>2. CASE workerNotified[w]
  BY <1>2 DEF PickTile, CallTypes, Refused
<1>3. CASE ~workerNotified[w] /\ preferredTiles[v] = <<>>
  <2> DEFINE new == [step |-> "close", worker |-> w, answer |-> Exhausted]
  <2>1. /\ call' = [call EXCEPT ![h] = new]
        /\ workerNotified' = [workerNotified EXCEPT ![w] = TRUE]
    BY <1>3 DEF PickTile, v
  <2>2. new \in Closing /\ new.step = "close" /\ new.worker = w
    BY DEF Closing
  <2> HIDE DEF new
  <2>3. call'[h] = new /\ CallTypes' /\ \A g \in Thread : g # h => call'[g] = call[g]
    BY <2>1, <2>2 DEF CallTypes
  <2>4. \A u \in Worker : preferredTiles[u] = <<>>
    BY <1>3, NoTileLeft DEF v
  <2> QED BY <1>3, <2>1, <2>2, <2>3, <2>4 DEF Notified
<1>4. CASE ~workerNotified[w] /\ preferredTiles[v] # <<>>
  <2> DEFINE new == [step |-> "pop", worker |-> w, answer |-> Last(preferredTiles[v]), from |-> v]
  <2>1. call' = [call EXCEPT ![h] = new] /\ UNCHANGED workerNotified
    BY <1>4 DEF PickTile, v
  <2>2. /\ Last(preferredTiles[v]) \in TileTask
        /\ Last(preferredTiles[v]) = preferredTiles[v][Len(preferredTiles[v])]
    BY <1>1, <1>4 DEF Last
  <2>3. /\ new \in Giving /\ new.step = "pop" /\ new.worker = w /\ new.from = v
        /\ new.answer = Last(preferredTiles[v])
    BY <1>1, <2>2 DEF Giving
  <2> HIDE DEF new
  <2>4. call'[h] = new /\ CallTypes' /\ \A g \in Thread : g # h => call'[g] = call[g]
    BY <2>1, <2>3 DEF CallTypes
  <2> QED BY <1>4, <2>1, <2>2, <2>3, <2>4 DEF Chose
<1> QED BY <1>2, <1>3, <1>4
\* The queued tasks of a frame are tasks, and differ.
LEMMA NewTasks ==
  ASSUME NEW active \in SUBSET Tile, NEW first \in TileOrders(active), NEW q \in ErrorOrders(active),
         NEW new, new = TileTasks(first, q)
  PROVE  /\ new \in Seq(TileTask) /\ Len(new) \in 0 .. NumTiles
         /\ \A i, j \in 1 .. Len(new) : new[i] = new[j] => i = j
<1> DEFINE n == Cardinality(active)
           total == IF q = <<>> THEN 0 ELSE NumTiles
           queued(i) == IF i <= Len(q) THEN first[i] ELSE q[((i - Len(q) - 1) % Len(q)) + 1]
           before(i) == {j \in 1..i-1 : queued(j) = queued(i)}
<1>1. IsFiniteSet(active) /\ n \in Nat
  <2>1. IsFiniteSet(Tile)
    BY CountAssumption, FS_Interval, 1 \in Int, NumTiles \in Int DEF Tile
  <2> QED BY <2>1, FS_Subset, FS_CardinalityType
<1>2. /\ q \in [1 .. n -> active] /\ first \in [1 .. n -> active]
      /\ q \in Seq(active) /\ Len(q) = n
  BY <1>1 DEF ErrorOrders, TileOrders
<1>3. ASSUME NEW i \in 1 .. total PROVE queued(i) \in Tile
  <2>1. n # 0 /\ n > 0
    BY <1>1, <1>2
  <2>2. CASE i <= n
    BY <1>1, <1>2, <2>2
  <2>3. CASE i > n
    <3>1. (i - n - 1) % n \in 0 .. n - 1
      BY <1>1, <2>1, <2>3
    <3>2. ((i - n - 1) % n) + 1 \in 1 .. n
      BY <1>1, <2>1, <3>1
    <3>3. q[((i - n - 1) % n) + 1] \in active
      BY <1>2, <3>2
    <3> QED BY <1>1, <1>2, <2>3, <3>3
  <2> QED BY <1>1, <2>2, <2>3, CountAssumption
<1>4. total \in 0 .. NumTiles /\ total \in Nat /\ NumTiles \in Nat
  BY CountAssumption
<1> HIDE DEF queued, total
<1>5. ASSUME NEW i \in 1 .. total
      PROVE  IsFiniteSet(before(i)) /\ Cardinality(before(i)) \in 0 .. NumTiles - 1
  <2>1. IsFiniteSet(1 .. i - 1) /\ Cardinality(1 .. i - 1) = i - 1
    <3>1. 1 \in Int /\ i - 1 \in Int /\ i >= 1
      BY <1>4
    <3>2. Cardinality(1 .. i - 1) = IF 1 > i - 1 THEN 0 ELSE i - 1 - 1 + 1
      BY <3>1, FS_Interval
    <3> QED BY <3>1, <3>2, FS_Interval
  <2>2. IsFiniteSet(before(i)) /\ Cardinality(before(i)) <= i - 1 /\ Cardinality(before(i)) \in Nat
    BY <2>1, FS_Subset, FS_CardinalityType
  <2> HIDE DEF before
  <2> QED BY <1>4, <2>2
<1>6. new = [i \in 1 .. total |-> [tile |-> queued(i), accumId |-> Cardinality(before(i))]]
  BY DEF TileTasks, queued, total
<1>7. new \in Seq(TileTask) /\ Len(new) = total
  <2> HIDE DEF before
  <2> QED BY <1>3, <1>4, <1>5, <1>6 DEF TileTask
<1>8. ASSUME NEW i \in 1 .. total, NEW j \in 1 .. total, i < j, queued(i) = queued(j)
      PROVE  Cardinality(before(i)) # Cardinality(before(j))
  <2>1. before(i) \subseteq before(j) /\ i \in before(j) /\ i \notin before(i)
    BY <1>8, <1>4
  <2> HIDE DEF before
  <2> QED BY <1>5, <2>1, FS_Subset
<1>9. ASSUME NEW i \in 1 .. total, NEW j \in 1 .. total, new[i] = new[j], i # j
      PROVE  FALSE
  <2>1. queued(i) = queued(j) /\ Cardinality(before(i)) = Cardinality(before(j))
    <3> HIDE DEF before
    <3> QED BY <1>6, <1>9
  <2>2. i < j \/ j < i
    BY <1>4, <1>9
  <2> HIDE DEF before
  <2> QED BY <1>8, <2>1, <2>2
<1> QED BY <1>4, <1>7, <1>9
LEMMA UpTo == \A n \in Nat : IsFiniteSet(1 .. n) /\ Cardinality(1 .. n) = n
<1> SUFFICES ASSUME NEW n \in Nat PROVE IsFiniteSet(1 .. n) /\ Cardinality(1 .. n) = n
  OBVIOUS
<1>1. Cardinality(1 .. n) = IF 1 > n THEN 0 ELSE n - 1 + 1
  BY FS_Interval, 1 \in Int, n \in Int
<1> QED BY <1>1, FS_Interval, 1 \in Int, n \in Int

\* The places of a set of numbers, counted from the least.
LEMMA Places ==
  ASSUME NEW L \in Nat, NEW I \in SUBSET (1 .. L)
  PROVE  /\ IsFiniteSet(I) /\ Cardinality(I) \in Nat
         /\ [i \in I |-> Cardinality({j \in I : j <= i})] \in Bijection(I, 1 .. Cardinality(I))
<1> DEFINE n == Cardinality(I)
           upTo(i) == {j \in I : j <= i}
           place == [i \in I |-> Cardinality(upTo(i))]
<1>1. IsFiniteSet(I) /\ n \in Nat /\ \A x \in I : x \in Int
  <2>1. IsFiniteSet(I)
    BY UpTo, FS_Subset
  <2> QED BY <2>1, FS_CardinalityType
<1>2. ASSUME NEW i \in I
      PROVE  IsFiniteSet(upTo(i)) /\ Cardinality(upTo(i)) \in 1 .. n /\ i \in upTo(i)
  <2>1. i \in upTo(i) /\ upTo(i) \subseteq I
    BY <1>1
  <2>2. IsFiniteSet(upTo(i)) /\ Cardinality(upTo(i)) <= n
    BY <1>1, <2>1, FS_Subset
  <2>3. Cardinality(upTo(i)) \in Nat /\ Cardinality(upTo(i)) # 0
    BY <2>1, <2>2, FS_CardinalityType, FS_EmptySet
  <2> QED BY <1>1, <2>1, <2>2, <2>3
<1>3. ASSUME NEW i \in I, NEW j \in I, i < j PROVE place[i] # place[j]
  <2>1. upTo(i) \subseteq upTo(j) /\ j \notin upTo(i)
    <3>1. i \in Int /\ j \in Int
      BY <1>1
    <3>2. ASSUME NEW x \in upTo(i) PROVE x \in upTo(j)
      <4>1. x \in I /\ x \in Int /\ x <= i
        BY <1>1
      <4>2. x <= j
        BY <1>3, <3>1, <4>1
      <4> QED BY <4>1, <4>2
    <3>3. j \notin upTo(i)
      BY <1>3, <3>1
    <3> HIDE DEF upTo
    <3> QED BY <3>2, <3>3
  <2>2. Cardinality(upTo(i)) = Cardinality(upTo(j)) => upTo(i) = upTo(j)
    BY <1>2, <2>1, FS_Subset
  <2> QED BY <1>2, <2>1, <2>2
<1>4. IsFiniteSet(1 .. n) /\ Cardinality(1 .. n) = n
  BY <1>1, UpTo
<1>5. place \in Injection(I, 1 .. n)
  <2>1. place \in [I -> 1 .. n]
    BY <1>2
  <2>2. \A r, s \in I : place[r] = place[s] => r = s
    <3> SUFFICES ASSUME NEW r \in I, NEW s \in I, r # s PROVE place[r] # place[s]
      OBVIOUS
    <3>1. r < s \/ s < r
      <4>1. r \in Int /\ s \in Int
        BY <1>1
      <4> QED BY <4>1
    <3> HIDE DEF place
    <3> QED BY <3>1, <1>3
  <2> HIDE DEF place
  <2> QED BY <2>1, <2>2 DEF Injection, IsInjective
<1>6. place \in Surjection(I, 1 .. n)
  <2> HIDE DEF place
  <2>1. Cardinality(I) = Cardinality(1 .. n)
    BY <1>4
  <2> QED BY <1>1, <1>4, <1>5, <2>1, FS_Injection
<1> HIDE DEF place
<1>7. place \in Bijection(I, 1 .. n)
  BY <1>5, <1>6 DEF Bijection
<1> QED BY <1>1, <1>7 DEF place

\* What is chosen from s are its tasks at the positions, each once.
LEMMA ChosenTasks ==
  ASSUME NEW S, NEW s \in Seq(S), NEW I \in SUBSET (1 .. Len(s)),
         \A i, j \in 1 .. Len(s) : s[i] = s[j] => i = j
  PROVE  LET t == Chosen(s, I)
         IN  /\ t \in Seq(S)
             /\ \A k \in 1 .. Len(t) : \E i \in I : t[k] = s[i]
             /\ \A i \in I : \E k \in 1 .. Len(t) : t[k] = s[i]
             /\ \A k, l \in 1 .. Len(t) : t[k] = t[l] => k = l
<1> DEFINE n == Cardinality(I)
           place == [i \in I |-> Cardinality({j \in I : j <= i})]
           position(k) == CHOOSE i \in I : Cardinality({j \in I : j <= i}) = k
           t == Chosen(s, I)
<1>1. IsFiniteSet(I) /\ n \in Nat /\ place \in Bijection(I, 1 .. n)
  BY Places, Len(s) \in Nat
<1>2. ASSUME NEW k \in 1 .. n PROVE position(k) \in I /\ place[position(k)] = k
  <2>1. PICK i \in I : place[i] = k
    <3> HIDE DEF place
    <3> QED BY <1>1 DEF Bijection, Surjection
  <2>2. Cardinality({j \in I : j <= i}) = k
    BY <2>1
  <2>3. position(k) \in I /\ Cardinality({j \in I : j <= position(k)}) = k
    BY <2>2
  <2> HIDE DEF position
  <2> QED BY <2>3
<1>3. ASSUME NEW i \in I PROVE place[i] \in 1 .. n /\ position(place[i]) = i
  <2>1. place[i] \in 1 .. n
    <3> HIDE DEF place
    <3> QED BY <1>1 DEF Bijection, Injection
  <2>2. position(place[i]) \in I /\ place[position(place[i])] = place[i]
    BY <1>2, <2>1
  <2> HIDE DEF place, position
  <2> QED BY <1>1, <2>1, <2>2 DEF Bijection, Injection, IsInjective
<1>4. t = [k \in 1 .. n |-> s[position(k)]]
  BY DEF Chosen
<1> HIDE DEF place, position, t
<1>5. t \in Seq(S) /\ Len(t) = n /\ \A k \in 1 .. n : t[k] = s[position(k)]
  <2>1. \A k \in 1 .. n : s[position(k)] \in S
    <3> SUFFICES ASSUME NEW k \in 1 .. n PROVE s[position(k)] \in S
      OBVIOUS
    <3>1. position(k) \in 1 .. Len(s)
      BY <1>2
    <3>2. \A i \in 1 .. Len(s) : s[i] \in S
      OBVIOUS
    <3> QED BY <3>1, <3>2
  <2>2. t \in [1 .. n -> S]
    BY <1>4, <2>1
  <2> QED BY <1>1, <1>4, <2>2
<1>6. \A k \in 1 .. Len(t) : \E i \in I : t[k] = s[i]
  BY <1>2, <1>5
<1>7. \A i \in I : \E k \in 1 .. Len(t) : t[k] = s[i]
  BY <1>3, <1>5
<1>8. \A k, l \in 1 .. Len(t) : t[k] = t[l] => k = l
  <2> SUFFICES ASSUME NEW k \in 1 .. n, NEW l \in 1 .. n, t[k] = t[l] PROVE k = l
    BY <1>5
  <2>1. position(k) \in 1 .. Len(s) /\ position(l) \in 1 .. Len(s) /\ s[position(k)] = s[position(l)]
    BY <1>2, <1>5
  <2>2. position(k) = position(l)
    BY <2>1
  <2> QED BY <1>2, <2>2
<1> QED BY <1>5, <1>6, <1>7, <1>8 DEF t
-----------------------------------------------------------------------------
(* The types.                                                              *)

LEMMA NumbersAre ==
  /\ NumTiles \in Nat \ {0} /\ NumWorkers \in Nat \ {0} /\ MaxFrame \in Nat /\ NumPreAllocated \in Nat
  /\ 0 \notin Worker /\ Worker \subseteq Nat /\ Tile \subseteq Nat /\ IsFiniteSet(Tile) /\ Worker # {}
  /\ \A t \in Tile : OwnerOf(t) \in Worker
<1>1. NumTiles \in Nat \ {0} /\ NumWorkers \in Nat \ {0} /\ MaxFrame \in Nat /\ NumPreAllocated \in Nat
  BY CountAssumption
<1>2. IsFiniteSet(Tile)
  BY <1>1, UpTo DEF Tile
<1>3. ASSUME NEW t \in Tile PROVE OwnerOf(t) \in Worker
  <2>1. (t - 1) % NumWorkers \in 0 .. NumWorkers - 1
    BY <1>1 DEF Tile
  <2> QED BY <1>1, <2>1 DEF OwnerOf, Worker
<1>4. 1 \in Worker
  BY <1>1 DEF Worker
<1> QED BY <1>1, <1>2, <1>3, <1>4 DEF Worker, Tile

LEMMA TypesStart == Init => DealTypes
<1> SUFFICES ASSUME Init PROVE DealTypes
  OBVIOUS
<1>1. TypeOK
  <2>1. frame \in [{0} \cup Worker -> 0..MaxFrame] /\ instances \in [Tile -> 0..NumTiles]
    BY NumbersAre DEF Init
  <2>2. /\ preferredTiles \in [Worker -> Seq(TileTask)] /\ toDeal \in Seq(Worker)
        /\ answers \in [Worker -> Seq(TileTask \cup {Exhausted})]
    BY DEF Init
  <2>3. \A h \in Thread : call[h].step = "none"
    BY DEF Init, NoCall
  <2> QED BY <2>1, <2>2, <2>3 DEF Init, TypeOK
<1>2. CallTypes
  BY DEF Init, CallTypes
<1>3. FramesInStep
  <2>1. frame[0] = 0 /\ \A w \in Worker : frame[w] = 0 /\ wpc[w] = "idle" /\ answers[w] = <<>>
    BY DEF Init
  <2>2. \A h \in Thread : call[h] = NoCall
    BY DEF Init
  <2> QED BY <2>1, <2>2 DEF Init, FramesInStep, Thread
<1> QED BY <1>1, <1>2, <1>3 DEF DealTypes, Init

\* A frame is begun: the tasks are typed, and everybody is one behind.
LEMMA TypesStartFrame == ASSUME DealTypes, StartFrame PROVE DealTypes'
<1>1. PICK active \in SUBSET Tile :
        \E first \in TileOrders(active), q \in ErrorOrders(active) :
          LET new == TileTasks(first, q) IN
          /\ preferredTiles' =
               [w \in Worker |-> preferredTiles[w] \o Chosen(new, OwnedBy(w, new))]
          /\ instances' = [t \in Tile |-> Cardinality({i \in DOMAIN new : new[i].tile = t})]
  BY DEF StartFrame
<1>2. PICK first \in TileOrders(active), q \in ErrorOrders(active) :
          LET new == TileTasks(first, q) IN
          /\ preferredTiles' =
               [w \in Worker |-> preferredTiles[w] \o Chosen(new, OwnedBy(w, new))]
          /\ instances' = [t \in Tile |-> Cardinality({i \in DOMAIN new : new[i].tile = t})]
  BY <1>1
<1> DEFINE new == TileTasks(first, q)
<1>3. /\ new \in Seq(TileTask) /\ Len(new) \in 0 .. NumTiles
      /\ \A i, j \in 1 .. Len(new) : new[i] = new[j] => i = j
  BY NewTasks
<1>4. /\ preferredTiles' = [w \in Worker |-> preferredTiles[w] \o Chosen(new, OwnedBy(w, new))]
      /\ instances' = [t \in Tile |-> Cardinality({i \in DOMAIN new : new[i].tile = t})]
  BY <1>2
<1> HIDE DEF new
<1>5. preferredTiles' \in [Worker -> Seq(TileTask)]
  <2>1. \A w \in Worker : Chosen(new, OwnedBy(w, new)) \in Seq(TileTask)
    <3> SUFFICES ASSUME NEW w \in Worker PROVE Chosen(new, OwnedBy(w, new)) \in Seq(TileTask)
      OBVIOUS
    <3>1. OwnedBy(w, new) \subseteq 1 .. Len(new)
      BY <1>3 DEF OwnedBy
    <3> QED BY <1>3, <3>1, ChosenTasks
  <2>2. \A w \in Worker : preferredTiles[w] \in Seq(TileTask)
    BY DEF DealTypes, TypeOK
  <2>3. \A w \in Worker : preferredTiles[w] \o Chosen(new, OwnedBy(w, new)) \in Seq(TileTask)
    BY <2>1, <2>2
  <2> QED BY <1>4, <2>3
<1>6. instances' \in [Tile -> 0 .. NumTiles]
  <2>1. ASSUME NEW t \in Tile
        PROVE  Cardinality({i \in DOMAIN new : new[i].tile = t}) \in 0 .. NumTiles
    <3>1. IsFiniteSet(1 .. Len(new)) /\ Cardinality(1 .. Len(new)) = Len(new)
      BY <1>3, UpTo
    <3> DEFINE I == {i \in DOMAIN new : new[i].tile = t}
    <3>2. I \subseteq 1 .. Len(new)
      BY <1>3
    <3> HIDE DEF I
    <3>3. IsFiniteSet(I) /\ Cardinality(I) <= Len(new)
      BY <3>1, <3>2, FS_Subset
    <3>4. Cardinality(I) \in Nat
      BY <3>3, FS_CardinalityType
    <3>5. Cardinality(I) \in 0 .. NumTiles
      BY <1>3, <3>3, <3>4, NumbersAre
    <3> QED BY <3>5 DEF I
  <2> QED BY <1>4, <2>1
<1>7. toDeal' \in Seq(Worker)
  <2> DEFINE n == NumPreAllocated * NumWorkers
  <2>1. n \in Nat /\ NumWorkers \in Nat \ {0}
    BY NumbersAre
  <2>2. \A i \in 1 .. n : ((i - 1) % NumWorkers) + 1 \in Worker
    <3> HIDE DEF n
    <3> SUFFICES ASSUME NEW i \in 1 .. n PROVE ((i - 1) % NumWorkers) + 1 \in Worker
      OBVIOUS
    <3>1. (i - 1) % NumWorkers \in 0 .. NumWorkers - 1
      BY <2>1
    <3> QED BY <2>1, <3>1 DEF Worker
  <2>3. toDeal' = [i \in 1 .. n |-> ((i - 1) % NumWorkers) + 1]
    BY DEF StartFrame
  <2> HIDE DEF n
  <2> QED BY <2>1, <2>2, <2>3
<1>8. /\ frame' = [frame EXCEPT ![0] = @ + 1] /\ frame[0] < MaxFrame /\ mpc = "idle"
      /\ \A w \in Worker : wpc[w] = "idle" /\ frame[w] = frame[0]
      /\ workerNotified' = [w \in Worker |-> FALSE] /\ masterIsDone' = FALSE /\ mpc' = "deal"
      /\ UNCHANGED <<call, raced, wpc, messaging, frameActive, tilesAvailable, tilesScheduled,
                     tasks, sent, parts, answers, requests>>
  BY DEF StartFrame, slave, counts, tiles, net
<1>9. /\ frame' \in [{0} \cup Worker -> 0 .. MaxFrame] /\ frame'[0] = frame[0] + 1 /\ frame'[0] # 0
      /\ \A w \in Worker : frame'[w] = frame[w] /\ frame[w] \in Nat
  BY <1>8, NumbersAre DEF DealTypes, TypeOK
<1>10. TypeOK'
  BY <1>5, <1>6, <1>7, <1>8, <1>9 DEF DealTypes, TypeOK
<1>11. FramesInStep'
  BY <1>8, <1>9 DEF DealTypes, FramesInStep
<1> QED BY <1>8, <1>10, <1>11 DEF DealTypes, CallTypes
\* The calls of scheduleTile: what they leave alone, and what is sent.
LEMMA TypesCall ==
  ASSUME DealTypes, NEW h \in Thread, NEW w \in Worker, PickTile(h, w),
         h = "main" => mpc = "deal", mpc # "idle",
         UNCHANGED <<mpc, frame, preferredTiles, slave, counts, tiles, answers>>,
         UNCHANGED <<instances, masterIsDone>>, raced' \in BOOLEAN,
         toDeal' \in Seq(Worker), requests' \in [Worker -> Nat]
  PROVE  DealTypes'
<1>1. /\ CallTypes' /\ \A g \in Thread : g # h => call'[g] = call[g]
      /\ Refused(w) \/ Notified(h, w) \/ Chose(h, w)
  BY CallBegins DEF DealTypes, TypeOK
<1>2. workerNotified' \in [Worker -> BOOLEAN]
  BY <1>1 DEF Refused, Notified, Chose, DealTypes, TypeOK
<1>3. \A g \in Thread : call'[g].step \in {"none", "pop", "close", "send"}
  BY <1>1 DEF CallTypes, NoCall, Closing, Giving
<1>4. TypeOK'
  BY <1>2, <1>3 DEF DealTypes, TypeOK, slave, counts, tiles
<1>5. FramesInStep'
  BY <1>1 DEF DealTypes, FramesInStep, Thread, slave
<1> QED BY <1>1, <1>4, <1>5 DEF DealTypes, tiles

LEMMA TypesDealing == ASSUME DealTypes, NEW h \in Thread, Dealing(h) PROVE DealTypes'
<1>1. /\ CallTypes /\ TypeOK /\ FramesInStep
      /\ call[h] # NoCall => call[h] \in Closing \cup Giving
  BY DEF DealTypes, CallTypes
<1>2. UNCHANGED <<mpc, frame, workerNotified, raced, toDeal, instances, wpc, messaging, frameActive,
                  tilesAvailable, tilesScheduled, tasks, sent, parts, requests>>
  BY DEF Dealing, PopTile, CloseFrame, SendAnswer, master, slave, counts, tiles, net
<1>3. call[h] # NoCall
  BY DEF Dealing, PopTile, CloseFrame, SendAnswer, NoCall
<1>4. mpc # "idle" /\ frame[0] # 0 /\ (h = "main" => mpc = "deal")
  BY <1>1, <1>3 DEF FramesInStep, Thread
<1>5. ASSUME PopTile(h) \/ CloseFrame(h)
      PROVE  DealTypes'
  <2>1. /\ CallTypes' /\ \A g \in Thread : g # h => call'[g] = call[g]
        /\ call'[h].step = "send"
        /\ call[h].step = "pop" => call[h] \in Giving
    BY <1>1, <1>5, CallGoes DEF PopTile, CloseFrame
  <2>2. preferredTiles' \in [Worker -> Seq(TileTask)]
    <3>1. CASE PopTile(h)
      <4>1. /\ call[h].from \in Worker /\ preferredTiles[call[h].from] # <<>>
            /\ preferredTiles' = [preferredTiles EXCEPT ![call[h].from] = Front(@)]
        BY <2>1, <3>1 DEF PopTile, Giving
      <4>2. Front(preferredTiles[call[h].from]) \in Seq(TileTask)
        BY <1>1, <4>1 DEF TypeOK, Front
      <4> QED BY <1>1, <4>1, <4>2 DEF TypeOK
    <3>2. CASE CloseFrame(h)
      BY <1>1, <3>2 DEF CloseFrame, TypeOK
    <3> QED BY <1>5, <3>1, <3>2
  <2>3. masterIsDone' \in BOOLEAN /\ UNCHANGED answers
    BY <1>1, <1>5 DEF PopTile, CloseFrame, TypeOK, master, net
  <2>4. \A g \in Thread : call'[g].step \in {"none", "pop", "close", "send"}
    BY <1>1, <2>1 DEF TypeOK
  <2>5. TypeOK'
    BY <1>1, <1>2, <2>2, <2>3, <2>4 DEF TypeOK
  <2>6. FramesInStep'
    BY <1>1, <1>2, <1>4, <2>1, <2>3 DEF FramesInStep, Thread
  <2> QED BY <1>2, <2>1, <2>5, <2>6 DEF DealTypes
<1>6. ASSUME SendAnswer(h)
      PROVE  DealTypes'
  <2>1. /\ answers' = [answers EXCEPT ![call[h].worker] = Append(@, call[h].answer)]
        /\ call' = [call EXCEPT ![h] = NoCall] /\ UNCHANGED <<preferredTiles, masterIsDone>>
    BY <1>6 DEF SendAnswer, master
  <2>2. call[h].worker \in Worker /\ call[h].answer \in TileTask \cup {Exhausted}
    BY <1>1, <1>3 DEF Closing, Giving
  <2>3. answers' \in [Worker -> Seq(TileTask \cup {Exhausted})]
    <3>1. answers \in [Worker -> Seq(TileTask \cup {Exhausted})]
      BY <1>1 DEF TypeOK
    <3>2. Append(answers[call[h].worker], call[h].answer) \in Seq(TileTask \cup {Exhausted})
      BY <2>2, <3>1
    <3> QED BY <2>1, <3>1, <3>2
  <2>4. CallTypes' /\ call'[h] = NoCall /\ \A g \in Thread : g # h => call'[g] = call[g]
    BY <1>1, <2>1 DEF CallTypes
  <2>5. \A g \in Thread : call'[g].step \in {"none", "pop", "close", "send"}
    <3>1. NoCall.step = "none"
      BY DEF NoCall
    <3>2. \A g \in Thread : call[g].step \in {"none", "pop", "close", "send"}
      BY <1>1 DEF TypeOK
    <3> QED BY <2>4, <3>1, <3>2
  <2>6. TypeOK'
    BY <1>1, <1>2, <2>1, <2>3, <2>5 DEF TypeOK
  <2>7. FramesInStep'
    BY <1>1, <1>2, <1>4, <2>4 DEF FramesInStep, Thread
  <2> QED BY <1>2, <2>4, <2>6, <2>7 DEF DealTypes
<1> QED BY <1>5, <1>6 DEF Dealing

LEMMA TypesMaster == ASSUME DealTypes, MasterMain PROVE DealTypes'
<1>1. CASE StartFrame
  BY <1>1, TypesStartFrame
<1>2. CASE DealInAdvance
  <2>1. Head(toDeal) \in Worker /\ Tail(toDeal) \in Seq(Worker)
    BY <1>2 DEF DealInAdvance, DealTypes, TypeOK
  <2>2. raced' \in BOOLEAN
    BY <1>2 DEF DealInAdvance, DealTypes, TypeOK, Races
  <2>3. /\ PickTile("main", Head(toDeal)) /\ mpc = "deal" /\ "main" \in Thread
        /\ UNCHANGED <<mpc, frame, preferredTiles, slave, counts, tiles, answers>>
        /\ UNCHANGED <<instances, masterIsDone>>
        /\ toDeal' = Tail(toDeal) /\ requests' = requests
    BY <1>2 DEF DealInAdvance, Thread, net
  <2> QED BY <2>1, <2>2, <2>3, TypesCall DEF DealTypes, TypeOK
<1>3. CASE MasterWaits \/ MasterDone \/ MasterLeaves \/ MasterStops
  <2>1. /\ mpc # "idle" /\ mpc' \in {"idle", "wait", "ibarrier", "stop"}
        /\ mpc = "deal" => call["main"] = NoCall
        /\ mpc' = "idle" => call["inbox"] = NoCall
        /\ UNCHANGED <<toDeal, instances, masterIsDone, frame, preferredTiles, workerNotified, call,
                       raced, wpc, messaging, frameActive, tilesAvailable, tilesScheduled, tasks,
                       sent, parts, answers, requests>>
    BY <1>3 DEF MasterWaits, MasterDone, MasterLeaves, MasterStops, MasterGoto, dealing, slave,
                counts, tiles, net
  <2>2. TypeOK'
    BY <2>1 DEF DealTypes, TypeOK
  <2>3. FramesInStep'
    BY <2>1 DEF DealTypes, FramesInStep
  <2> QED BY <2>1, <2>2, <2>3 DEF DealTypes, CallTypes
<1> QED BY <1>1, <1>2, <1>3 DEF MasterMain

LEMMA TypesIncoming == ASSUME DealTypes, NEW w \in Worker, Incoming(w) PROVE DealTypes'
<1>1. requests' \in [Worker -> Nat]
  BY DEF Incoming, DealTypes, TypeOK
<1>2. raced' \in BOOLEAN
  BY DEF Incoming, DealTypes, TypeOK, Races
<1>3. /\ PickTile("inbox", w) /\ mpc # "idle" /\ "inbox" \in Thread /\ "inbox" # "main"
      /\ UNCHANGED <<mpc, frame, preferredTiles, slave, counts, tiles, answers>>
      /\ UNCHANGED <<instances, masterIsDone, toDeal>>
  BY DEF Incoming, master, Thread
<1> QED BY <1>1, <1>2, <1>3, TypesCall DEF DealTypes, TypeOK

\* A worker's main thread.
LEMMA TypesWorker ==
  ASSUME DealTypes, IInv', NEW w \in Worker, WorkerMain(w) PROVE DealTypes'
<1>1. CASE StartWorker(w)
  <2>1. /\ frame' = [frame EXCEPT ![w] = @ + 1] /\ frame[w] < frame[0] /\ wpc[w] = "idle"
        /\ wpc' = [wpc EXCEPT ![w] = "begin"]
        /\ messaging' = [messaging EXCEPT ![w] = TRUE]
        /\ tilesAvailable' = [tilesAvailable EXCEPT ![w] = TRUE]
        /\ tilesScheduled' = [tilesScheduled EXCEPT ![w] = 0]
        /\ parts' = [t \in Tile |-> IF OwnerOf(t) = w THEN 0 ELSE parts[t]]
        /\ UNCHANGED <<mpc, toDeal, instances, masterIsDone, preferredTiles, workerNotified, call,
                       raced, frameActive, tasks, sent, answers, requests>>
    BY <1>1 DEF StartWorker, master, dealing, net
  <2>2. /\ frame[w] \in 0 .. MaxFrame /\ frame[0] \in 0 .. MaxFrame /\ w # 0
        /\ frame[w] + 1 = frame[0]
    BY <2>1, NumbersAre DEF DealTypes, TypeOK, FramesInStep
  <2>3. /\ frame' \in [{0} \cup Worker -> 0 .. MaxFrame] /\ frame'[0] = frame[0]
        /\ frame'[w] = frame[0] /\ \A v \in Worker : v # w => frame'[v] = frame[v]
    BY <2>1, <2>2 DEF DealTypes, TypeOK
  <2>4. parts' \in [Tile -> Nat]
    BY <2>1 DEF DealTypes, TypeOK
  <2>5. /\ wpc' \in [Worker -> {"idle", "begin", "wait", "ibarrier", "stop", "drain"}]
        /\ messaging' \in [Worker -> BOOLEAN] /\ tilesAvailable' \in [Worker -> BOOLEAN]
        /\ tilesScheduled' \in [Worker -> Nat]
    BY <2>1 DEF DealTypes, TypeOK
  <2>6. TypeOK'
    BY <2>1, <2>3, <2>4, <2>5 DEF DealTypes, TypeOK
  <2>7. FramesInStep'
    BY <2>1, <2>3 DEF DealTypes, TypeOK, FramesInStep
  <2> QED BY <2>1, <2>6, <2>7 DEF DealTypes, CallTypes
<1>2. CASE ActivateFrame(w) \/ WorkerDone(w) \/ WorkerLeaves(w) \/ WorkerStops(w) \/ WorkerDrains(w)
  <2>1. /\ wpc[w] # "idle"
        /\ \E l \in {"idle", "wait", "ibarrier", "stop", "drain"} : wpc' = [wpc EXCEPT ![w] = l]
        /\ \/ UNCHANGED messaging
           \/ messaging' = [messaging EXCEPT ![w] = FALSE]
        /\ \/ UNCHANGED frameActive
           \/ frameActive' = [frameActive EXCEPT ![w] = TRUE]
           \/ frameActive' = [frameActive EXCEPT ![w] = FALSE]
        /\ UNCHANGED <<mpc, toDeal, instances, masterIsDone, frame, preferredTiles, workerNotified,
                       call, raced, tilesAvailable, tilesScheduled, parts, tasks, sent, answers,
                       requests>>
    BY <1>2 DEF ActivateFrame, WorkerDone, WorkerLeaves, WorkerStops, WorkerDrains, WorkerGoto,
                master, dealing, counts, tiles, net
  <2>2. /\ wpc' \in [Worker -> {"idle", "begin", "wait", "ibarrier", "stop", "drain"}]
        /\ messaging' \in [Worker -> BOOLEAN] /\ frameActive' \in [Worker -> BOOLEAN]
        /\ \A v \in Worker : v # w => wpc'[v] = wpc[v]
    <3>1. /\ wpc \in [Worker -> {"idle", "begin", "wait", "ibarrier", "stop", "drain"}]
          /\ messaging \in [Worker -> BOOLEAN] /\ frameActive \in [Worker -> BOOLEAN]
      BY DEF DealTypes, TypeOK
    <3>2. /\ wpc' \in [Worker -> {"idle", "begin", "wait", "ibarrier", "stop", "drain"}]
          /\ \A v \in Worker : v # w => wpc'[v] = wpc[v]
      BY <2>1, <3>1
    <3>3. messaging' \in [Worker -> BOOLEAN]
      BY <2>1, <3>1
    <3>4. frameActive' \in [Worker -> BOOLEAN]
      BY <2>1, <3>1
    <3> QED BY <3>2, <3>3, <3>4
  <2>3. TypeOK'
    BY <2>1, <2>2 DEF DealTypes, TypeOK
  <2>4. FramesInStep'
    BY <2>1, <2>2 DEF DealTypes, FramesInStep
  <2> QED BY <2>1, <2>3, <2>4 DEF DealTypes, CallTypes
<1> QED BY <1>1, <1>2 DEF WorkerMain
\* An answer of the master becomes a task of the worker.
LEMMA TypesReceive == ASSUME DealTypes, NEW w \in Worker, Receive(w) PROVE DealTypes'
<1> DEFINE a == Head(answers[w])
           new == [worker |-> w, tile |-> a.tile, accumId |-> a.accumId, step |-> "render"]
<1>1. /\ answers[w] # <<>> /\ answers' = [answers EXCEPT ![w] = Tail(@)]
      /\ UNCHANGED <<mpc, toDeal, instances, masterIsDone, frame, preferredTiles, workerNotified,
                     call, raced, wpc, messaging, frameActive, sent, parts, requests>>
  BY DEF Receive, master, dealing, slave
<1>2. a \in TileTask \cup {Exhausted} /\ Tail(answers[w]) \in Seq(TileTask \cup {Exhausted})
  BY <1>1 DEF DealTypes, TypeOK
<1>3. a # Exhausted => new \in TaskRecord
  BY <1>2 DEF TileTask, TaskRecord
<1>4. \/ /\ tilesAvailable' = [tilesAvailable EXCEPT ![w] = FALSE]
         /\ UNCHANGED <<tilesScheduled, tasks>>
      \/ /\ a # Exhausted /\ tilesScheduled' = [tilesScheduled EXCEPT ![w] = @ + 1]
         /\ tasks' = tasks \/ tasks' = tasks \cup {new}
         /\ UNCHANGED tilesAvailable
  BY DEF Receive
<1> HIDE DEF a, new
<1>5. tasks' \cup sent' \subseteq TaskRecord
  BY <1>1, <1>3, <1>4 DEF DealTypes
<1>6. \A k \in tasks' \cup sent' :
        k.worker \in Worker /\ k.tile \in Tile /\ k.step \in {"render", "set", "end"}
  BY <1>5 DEF TaskRecord
<1>7. tilesScheduled' \in [Worker -> Nat] /\ tilesAvailable' \in [Worker -> BOOLEAN]
  <2>1. tilesScheduled \in [Worker -> Nat] /\ tilesAvailable \in [Worker -> BOOLEAN]
    BY DEF DealTypes, TypeOK
  <2>2. tilesScheduled' \in [Worker -> Nat]
    BY <1>4, <2>1
  <2>3. tilesAvailable' \in [Worker -> BOOLEAN]
    BY <1>4, <2>1
  <2> QED BY <2>2, <2>3
<1>8. answers' \in [Worker -> Seq(TileTask \cup {Exhausted})]
  BY <1>1, <1>2 DEF DealTypes, TypeOK
<1>9. TypeOK'
  BY <1>1, <1>6, <1>7, <1>8 DEF DealTypes, TypeOK
<1>10. FramesInStep'
  <2>1. frame[0] = 0 => FALSE
    BY <1>1 DEF DealTypes, FramesInStep
  <2> QED BY <1>1, <2>1 DEF DealTypes, FramesInStep
<1> QED BY <1>1, <1>5, <1>9, <1>10 DEF DealTypes, CallTypes

\* A task goes on, as the same task, and its part may be sent on.
LEMMA TaskGoes ==
  ASSUME NEW k \in TaskRecord, NEW l \in {"render", "set", "end"}
  PROVE  LET n == [k EXCEPT !.step = l]
         IN  n \in TaskRecord /\ CopyOf(n) = CopyOf(k) /\ n.step = l /\ n.worker = k.worker
BY DEF TaskRecord, CopyOf

LEMMA TypesTask == ASSUME DealTypes, IInv', NEW k \in tasks, TaskStep(k) PROVE DealTypes'
<1>1. /\ k \in TaskRecord /\ k.worker \in Worker /\ k.tile \in Tile
      /\ UNCHANGED <<mpc, toDeal, instances, masterIsDone, frame, preferredTiles, workerNotified,
                     call, raced, wpc, messaging, frameActive, tilesAvailable, answers>>
  BY DEF DealTypes, TypeOK, TaskStep, RenderTask, SetTile, EndTask, master, dealing, slave, counts, net
<1>2. /\ \/ tasks' = tasks \ {k}
         \/ \E l \in {"set", "end"} : tasks' = StepTask(k, l)
      /\ sent' = sent \/ sent' = sent \cup {k}
      /\ parts' = parts \/ parts' = [parts EXCEPT ![k.tile] = @ + 1]
      /\ requests' = requests \/ requests' = [requests EXCEPT ![k.worker] = @ + 1]
      /\ tilesScheduled' = tilesScheduled
         \/ tilesScheduled' = [tilesScheduled EXCEPT ![k.worker] = @ - 1]
  BY DEF TaskStep, RenderTask, SetTile, EndTask, counts, net
<1>3. tasks' \cup sent' \subseteq TaskRecord
  <2>1. tasks \subseteq TaskRecord /\ sent \subseteq TaskRecord
    BY DEF DealTypes
  <2>2. ASSUME NEW l \in {"set", "end"}, tasks' = StepTask(k, l) PROVE tasks' \subseteq TaskRecord
    <3>1. [k EXCEPT !.step = l] \in TaskRecord
      BY <1>1, TaskGoes
    <3> QED BY <2>1, <2>2, <3>1 DEF StepTask
  <2>3. tasks' \subseteq TaskRecord
    BY <1>2, <2>1, <2>2
  <2>4. sent' \subseteq TaskRecord
    BY <1>1, <1>2, <2>1
  <2> QED BY <2>3, <2>4
<1>4. \A j \in tasks' \cup sent' :
        j.worker \in Worker /\ j.tile \in Tile /\ j.step \in {"render", "set", "end"}
  BY <1>3 DEF TaskRecord
<1>5. parts' \in [Tile -> Nat] /\ requests' \in [Worker -> Nat]
  <2>1. parts \in [Tile -> Nat] /\ requests \in [Worker -> Nat]
    BY DEF DealTypes, TypeOK
  <2>2. parts' \in [Tile -> Nat]
    BY <1>1, <1>2, <2>1
  <2>3. requests' \in [Worker -> Nat]
    BY <1>1, <1>2, <2>1
  <2> QED BY <2>2, <2>3
<1>6. tilesScheduled' \in [Worker -> Nat]
  <2>1. tilesScheduled' \in [Worker -> Int]
    BY <1>1, <1>2 DEF DealTypes, TypeOK
  <2>2. ASSUME NEW v \in Worker PROVE tilesScheduled'[v] >= 0
    <3>1. /\ Cardinality(TasksOf(v)') <= tilesScheduled'[v]
      BY DEF IInv, TasksCounted
    <3>2. IsFiniteSet(TasksOf(v)')
      <4>1. IsFiniteSet(tasks')
        BY DEF IInv, Types
      <4>2. TasksOf(v)' \subseteq tasks'
        BY DEF TasksOf
      <4> QED BY <4>1, <4>2, FS_Subset
    <3>3. Cardinality(TasksOf(v)') \in Nat
      BY <3>2, FS_CardinalityType
    <3>4. tilesScheduled'[v] \in Int
      BY <2>1
    <3> QED BY <3>1, <3>3, <3>4
  <2> QED BY <2>1, <2>2
<1>7. TypeOK'
  BY <1>1, <1>4, <1>5, <1>6 DEF DealTypes, TypeOK
<1>8. FramesInStep'
  BY <1>1 DEF DealTypes, FramesInStep
<1> QED BY <1>1, <1>3, <1>7, <1>8 DEF DealTypes, CallTypes

LEMMA TypesKept == ASSUME IInv, DealTypes, [Next]_vars PROVE IInv' /\ DealTypes'
<1>1. IInv'
  BY NextIInv
<1>2. ASSUME NEW k \in sent, DeliverPart(k) PROVE DealTypes'
  <2>1. /\ sent' = sent \ {k} /\ parts' = [parts EXCEPT ![k.tile] = @ + 1] /\ k.tile \in Tile
        /\ UNCHANGED <<mpc, toDeal, instances, masterIsDone, frame, preferredTiles, workerNotified,
                       call, raced, wpc, messaging, frameActive, tilesAvailable, tilesScheduled,
                       tasks, answers, requests>>
    BY <1>2 DEF DeliverPart, DealTypes, TypeOK, master, dealing, slave, counts, net
  <2>2. parts' \in [Tile -> Nat]
    BY <2>1 DEF DealTypes, TypeOK
  <2>3. TypeOK'
    BY <2>1, <2>2 DEF DealTypes, TypeOK
  <2> QED BY <2>1, <2>3 DEF DealTypes, FramesInStep, CallTypes
<1>3. ASSUME UNCHANGED vars PROVE DealTypes'
  BY <1>3 DEF vars, master, dealing, slave, counts, tiles, net, DealTypes, TypeOK, FramesInStep, CallTypes
<1>4. DealTypes'
  BY <1>1, <1>2, <1>3, TypesMaster, TypesDealing, TypesIncoming, TypesWorker, TypesReceive,
     TypesTask DEF Next
<1> QED BY <1>1, <1>4
-----------------------------------------------------------------------------
(* What the workers are told.                                              *)

\* Nothing of it changes with the steps of the master's main thread that do
\* not deal out tiles, of the tasks and of parts.
LEMMA ToldElsewhere ==
  ASSUME ToldOnce, UNCHANGED <<call, workerNotified, answers, frame, wpc, tilesAvailable>>
  PROVE  ToldOnce'
BY DEF ToldOnce, CallTo, Told

\* A call begins when there is none, for a worker that has not been notified.
LEMMA ToldCall ==
  ASSUME DealTypes, ToldOnce, NEW h \in Thread, NEW w \in Worker, PickTile(h, w),
         ~Races(h), call[h] = NoCall, UNCHANGED <<answers, frame, wpc, tilesAvailable>>
  PROVE  ToldOnce'
<1>1. /\ \A g \in Thread : g # h => call'[g] = call[g]
      /\ Refused(w) \/ Notified(h, w) \/ Chose(h, w)
  BY CallBegins DEF DealTypes, TypeOK
<1>2. \A g \in Thread : g # h => call'[g] = NoCall
  BY <1>1 DEF Races
<1>3. CASE Refused(w)
  BY <1>3, ToldElsewhere DEF Refused
<1>4. CASE Notified(h, w) \/ Chose(h, w)
  <2>1. /\ call'[h].worker = w /\ ~workerNotified[w] /\ workerNotified'[w] \in BOOLEAN
        /\ \A v \in Worker : v # w => workerNotified'[v] = workerNotified[v]
        /\ workerNotified'[w] <=> call'[h].answer = Exhausted
    <3>1. workerNotified \in [Worker -> BOOLEAN]
      BY DEF DealTypes, TypeOK
    <3>2. CASE Notified(h, w)
      BY <3>1, <3>2 DEF Notified, Closing
    <3>3. CASE Chose(h, w)
      <4>1. call'[h].answer \in TileTask /\ call'[h].answer # Exhausted
        BY <3>3, Distinct DEF Chose, Giving
      <4> QED BY <3>1, <3>3, <4>1 DEF Chose
    <3> QED BY <1>4, <3>2, <3>3
  <2>2. \A v \in Worker : v # w => (CallTo(v)' <=> CallTo(v))
    <3>1. \A v \in Worker : ~CallTo(v)
      BY <1>2, <1>1 DEF Races, CallTo
    <3>2. \A v \in Worker : v # w => ~CallTo(v)'
      BY <1>2, <2>1 DEF CallTo
    <3> QED BY <3>1, <3>2
  <2>3. \A v \in Worker : Told(v)' <=> Told(v)
    BY DEF Told
  <2>4. ~Told(w) /\ \A i \in 1 .. Len(answers[w]) : answers[w][i] # Exhausted
    BY <2>1 DEF ToldOnce
  <2>5. \A g, k \in Thread : call'[g] # NoCall /\ call'[k] # NoCall => g = k
    BY <1>2
  <2>6. \A g \in Thread : call'[g] # NoCall =>
          (workerNotified'[call'[g].worker] <=> call'[g].answer = Exhausted)
    BY <1>2, <2>1
  <2> HIDE DEF CallTo, Told
  <2>7. ASSUME NEW v \in Worker
        PROVE  /\ \A i \in 1 .. Len(answers[v]) : answers[v][i] = Exhausted =>
                    i = Len(answers[v]) /\ workerNotified'[v] /\ ~CallTo(v)'
               /\ Told(v)' => answers[v] = <<>> /\ workerNotified'[v] /\ ~CallTo(v)'
    BY <2>1, <2>2, <2>3, <2>4 DEF ToldOnce
  <2> QED BY <2>5, <2>6, <2>7 DEF ToldOnce
<1> QED BY <1>1, <1>3, <1>4

\* An answer is sent: it is the last one if it is tilesExhausted, and none
\* before it was.
LEMMA ToldDealing ==
  ASSUME DealTypes, ToldOnce, NEW h \in Thread, Dealing(h)
  PROVE  ToldOnce'
<1>1. /\ CallTypes /\ UNCHANGED <<workerNotified, frame, wpc, tilesAvailable>>
      /\ call[h] # NoCall
  BY DEF DealTypes, Dealing, PopTile, CloseFrame, SendAnswer, NoCall, slave, counts
<1>2. \A v \in Worker : Told(v)' <=> Told(v)
  BY <1>1 DEF Told
<1>3. \A g \in Thread : g # h => call[g] = NoCall
  BY <1>1 DEF ToldOnce
<1>4. ASSUME PopTile(h) \/ CloseFrame(h)
      PROVE  ToldOnce'
  <2>1. /\ UNCHANGED answers
        /\ call'[h] # NoCall /\ call'[h].worker = call[h].worker /\ call'[h].answer = call[h].answer
        /\ \A g \in Thread : g # h => call'[g] = call[g]
    BY <1>1, <1>4, CallGoes DEF PopTile, CloseFrame, net
  <2>2. \A v \in Worker : CallTo(v)' <=> CallTo(v)
    BY <1>1, <1>3, <2>1 DEF CallTo
  <2> QED BY <1>1, <1>2, <1>3, <2>1, <2>2 DEF ToldOnce
<1>5. ASSUME SendAnswer(h)
      PROVE  ToldOnce'
  <2> DEFINE w == call[h].worker
             a == call[h].answer
  <2>1. /\ answers' = [answers EXCEPT ![w] = Append(@, a)] /\ call' = [call EXCEPT ![h] = NoCall]
    BY <1>5 DEF SendAnswer
  <2>2. w \in Worker /\ a \in TileTask \cup {Exhausted} /\ CallTo(w)
    BY <1>1 DEF CallTypes, Closing, Giving, CallTo
  <2>3. \A g \in Thread : call'[g] = NoCall
    BY <1>1, <1>3, <2>1 DEF CallTypes
  <2>4. \A v \in Worker : ~CallTo(v)'
    BY <2>3 DEF CallTo
  <2>5. ~Told(w) /\ (workerNotified[w] <=> a = Exhausted)
        /\ \A i \in 1 .. Len(answers[w]) : answers[w][i] # Exhausted
    BY <1>1, <2>2 DEF ToldOnce
  <2> HIDE DEF w, a
  <2>6. /\ \A v \in Worker : v # w => answers'[v] = answers[v]
        /\ answers'[w] = Append(answers[w], a)
        /\ answers[w] \in Seq(TileTask \cup {Exhausted})
    BY <2>1, <2>2 DEF DealTypes, TypeOK
  <2>7. /\ Len(answers'[w]) = Len(answers[w]) + 1 /\ answers'[w][Len(answers[w]) + 1] = a
        /\ \A i \in 1 .. Len(answers[w]) : answers'[w][i] = answers[w][i]
        /\ Len(answers[w]) \in Nat
    BY <2>2, <2>6
  <2>8. \A i \in 1 .. Len(answers'[w]) :
          answers'[w][i] = Exhausted => i = Len(answers'[w]) /\ workerNotified[w]
    BY <2>5, <2>7
  <2> HIDE DEF CallTo, Told
  <2>9. ASSUME NEW v \in Worker
        PROVE  /\ \A i \in 1 .. Len(answers'[v]) : answers'[v][i] = Exhausted =>
                    i = Len(answers'[v]) /\ workerNotified'[v] /\ ~CallTo(v)'
               /\ Told(v)' => answers'[v] = <<>> /\ workerNotified'[v] /\ ~CallTo(v)'
    <3>1. CASE v = w
      BY <1>1, <1>2, <2>4, <2>5, <2>8, <3>1
    <3>2. CASE v # w
      BY <1>1, <1>2, <2>4, <2>6, <3>2 DEF ToldOnce
    <3> QED BY <3>1, <3>2
  <2> QED BY <2>3, <2>9 DEF ToldOnce
<1> QED BY <1>4, <1>5 DEF Dealing

\* A worker that receives tilesExhausted has got all that was sent to it.
LEMMA ToldReceive ==
  ASSUME IInv, DealTypes, ToldOnce, NEW w \in Worker, Receive(w)
  PROVE  ToldOnce' /\ (Head(answers[w]) # Exhausted => tilesAvailable[w])
<1>1. /\ UNCHANGED <<call, workerNotified, frame, wpc>> /\ messaging[w] /\ answers[w] # <<>>
      /\ answers' = [answers EXCEPT ![w] = Tail(@)] /\ wpc[w] # "idle"
  BY DEF Receive, dealing, slave, master, IInv, TasksCounted
<1>2. answers \in [Worker -> Seq(TileTask \cup {Exhausted})] /\ tilesAvailable \in [Worker -> BOOLEAN]
  BY DEF DealTypes, TypeOK
<1>3. /\ answers'[w] = Tail(answers[w]) /\ \A v \in Worker : v # w => answers'[v] = answers[v]
      /\ Len(answers'[w]) = Len(answers[w]) - 1 /\ Len(answers[w]) \in Nat /\ Len(answers[w]) > 0
      /\ \A i \in 1 .. Len(answers'[w]) : answers'[w][i] = answers[w][i + 1]
      /\ Head(answers[w]) = answers[w][1]
  <2>1. answers[w] \in Seq(TileTask \cup {Exhausted})
    BY <1>2
  <2> QED BY <1>1, <1>2, <2>1
<1>4. \A v \in Worker : CallTo(v)' <=> CallTo(v)
  BY <1>1 DEF CallTo
<1>5. tilesAvailable[w]
  BY <1>1 DEF ToldOnce, Told
<1>6. \A v \in Worker : v # w => (Told(v)' <=> Told(v))
  BY <1>1, <1>2 DEF Receive, Told
<1>7. Told(w)' => Head(answers[w]) = Exhausted
  BY <1>1, <1>5 DEF Receive, Told
<1>8. Head(answers[w]) = Exhausted => answers'[w] = <<>> /\ workerNotified[w] /\ ~CallTo(w)
  <2>1. Head(answers[w]) = Exhausted => Len(answers[w]) = 1 /\ workerNotified[w] /\ ~CallTo(w)
    <3>1. 1 \in 1 .. Len(answers[w])
      BY <1>3
    <3>2. \A i \in 1 .. Len(answers[w]) :
            answers[w][i] = Exhausted => i = Len(answers[w]) /\ workerNotified[w] /\ ~CallTo(w)
      BY DEF ToldOnce
    <3>3. answers[w][1] = Exhausted => 1 = Len(answers[w]) /\ workerNotified[w] /\ ~CallTo(w)
      BY <3>1, <3>2
    <3> QED BY <1>3, <3>3
  <2>2. Len(answers[w]) = 1 => answers'[w] = <<>>
    BY <1>2, <1>3
  <2> QED BY <2>1, <2>2
<1> HIDE DEF CallTo, Told
<1>9. ASSUME NEW v \in Worker
      PROVE  /\ \A i \in 1 .. Len(answers'[v]) : answers'[v][i] = Exhausted =>
                  i = Len(answers'[v]) /\ workerNotified'[v] /\ ~CallTo(v)'
             /\ Told(v)' => answers'[v] = <<>> /\ workerNotified'[v] /\ ~CallTo(v)'
  <2>1. CASE v = w
    <3>1. \A i \in 1 .. Len(answers'[w]) : i + 1 \in 1 .. Len(answers[w]) /\ i \in Nat
      BY <1>3
    <3>2. \A i \in 1 .. Len(answers'[w]) : answers'[w][i] = Exhausted =>
            i + 1 = Len(answers[w]) /\ workerNotified[w] /\ ~CallTo(w)
      BY <1>3, <3>1 DEF ToldOnce
    <3>3. \A i \in 1 .. Len(answers'[w]) : i + 1 = Len(answers[w]) => i = Len(answers'[w])
      BY <1>3, <3>1
    <3> QED BY <1>1, <1>4, <1>7, <1>8, <2>1, <3>2, <3>3
  <2>2. CASE v # w
    BY <1>1, <1>3, <1>4, <1>6, <2>2 DEF ToldOnce
  <2> QED BY <2>1, <2>2
<1> QED BY <1>1, <1>5, <1>9 DEF ToldOnce
\* Between frames nothing is on its way to a worker, and the master is not
\* about to send anything.
LEMMA NothingSent ==
  ASSUME DealTypes, ToldOnce, mpc = "idle", \A w \in Worker : wpc[w] = "idle" /\ frame[w] = frame[0]
  PROVE  (\A w \in Worker : answers[w] = <<>>) /\ \A h \in Thread : call[h] = NoCall
<1>1. \A w \in Worker : answers[w] = <<>>
  BY DEF ToldOnce, Told, DealTypes, FramesInStep
<1>2. \A h \in Thread : call[h] = NoCall
  BY DEF DealTypes, FramesInStep, Thread
<1> QED BY <1>1, <1>2

LEMMA ToldStartFrame == ASSUME DealTypes, ToldOnce, StartFrame PROVE ToldOnce'
<1>1. /\ UNCHANGED <<call, wpc, answers>> /\ mpc = "idle" /\ frame' = [frame EXCEPT ![0] = @ + 1]
      /\ \A w \in Worker : wpc[w] = "idle" /\ frame[w] = frame[0]
  BY DEF StartFrame, slave, net
<1>2. \A w \in Worker : frame'[w] # frame'[0]
  <2>1. 0 \notin Worker /\ frame \in [{0} \cup Worker -> 0 .. MaxFrame] /\ MaxFrame \in Nat
    BY NumbersAre DEF DealTypes, TypeOK
  <2> QED BY <1>1, <2>1
<1>3. (\A w \in Worker : answers'[w] = <<>>) /\ \A h \in Thread : call'[h] = NoCall
  BY <1>1, NothingSent
<1>4. \A w \in Worker : Len(answers'[w]) = 0
  BY <1>3
<1> QED BY <1>1, <1>2, <1>3, <1>4 DEF ToldOnce, Told

LEMMA ToldWorker == ASSUME DealTypes, ToldOnce, NEW w \in Worker, WorkerMain(w) PROVE ToldOnce'
<1>1. UNCHANGED <<call, workerNotified, answers>>
  BY DEF WorkerMain, StartWorker, ActivateFrame, WorkerDone, WorkerLeaves, WorkerStops,
         WorkerDrains, WorkerGoto, dealing, net
<1>2. \A v \in Worker : CallTo(v)' <=> CallTo(v)
  BY <1>1 DEF CallTo
<1>3. \A v \in Worker : Told(v)' => Told(v)
  <2>1. CASE StartWorker(w)
    <3>1. /\ wpc' = [wpc EXCEPT ![w] = "begin"] /\ frame' = [frame EXCEPT ![w] = @ + 1]
          /\ tilesAvailable' = [tilesAvailable EXCEPT ![w] = TRUE]
      BY <2>1 DEF StartWorker
    <3>2. wpc'[w] = "begin" /\ tilesAvailable'[w] = TRUE
      BY <3>1 DEF DealTypes, TypeOK
    <3>3. \A v \in Worker : v # w => /\ wpc'[v] = wpc[v] /\ frame'[v] = frame[v]
                                     /\ tilesAvailable'[v] = tilesAvailable[v]
      BY <3>1 DEF DealTypes, TypeOK
    <3>4. frame'[0] = frame[0]
      BY <3>1, NumbersAre DEF DealTypes, TypeOK
    <3> QED BY <3>2, <3>3, <3>4 DEF Told
  <2>2. CASE ~StartWorker(w)
    <3>1. /\ UNCHANGED <<frame, tilesAvailable>> /\ wpc[w] # "idle"
          /\ \E l \in {"idle", "wait", "ibarrier", "stop", "drain"} :
               wpc' = [wpc EXCEPT ![w] = l] /\ (l = "idle" => ~tilesAvailable[w])
      BY <2>2 DEF WorkerMain, ActivateFrame, WorkerDone, WorkerLeaves, WorkerStops,
                  WorkerDrains, WorkerGoto, counts
    <3>2. \A v \in Worker : v # w => wpc'[v] = wpc[v]
      BY <3>1 DEF DealTypes, TypeOK
    <3>3. wpc'[w] = "idle" => ~tilesAvailable[w]
      BY <3>1 DEF DealTypes, TypeOK
    <3> QED BY <3>1, <3>2, <3>3 DEF Told
  <2> QED BY <2>1, <2>2
<1> HIDE DEF CallTo, Told
<1> QED BY <1>1, <1>2, <1>3 DEF ToldOnce

LEMMA ToldKept == ASSUME IInv, DealTypes, ToldOnce, [Next]_vars, ~raced' PROVE ToldOnce'
<1>1. ASSUME MasterMain PROVE ToldOnce'
  <2>1. ASSUME DealInAdvance PROVE ToldOnce'
    <3>1. /\ PickTile("main", Head(toDeal)) /\ "main" \in Thread
          /\ ~Races("main") /\ call["main"] = NoCall
          /\ UNCHANGED <<answers, frame, wpc, tilesAvailable>>
      BY <2>1 DEF DealInAdvance, Thread, slave, counts, net
    <3>2. Head(toDeal) \in Worker
      BY <2>1 DEF DealInAdvance, DealTypes, TypeOK
    <3> QED BY <3>1, <3>2, ToldCall
  <2>2. ASSUME MasterWaits \/ MasterDone \/ MasterLeaves \/ MasterStops PROVE ToldOnce'
    <3>1. UNCHANGED <<call, workerNotified, answers, frame, wpc, tilesAvailable>>
      BY <2>2 DEF MasterWaits, MasterDone, MasterLeaves, MasterStops, MasterGoto, dealing, slave,
                  counts, net
    <3> QED BY <3>1, ToldElsewhere
  <2> QED BY <1>1, <2>1, <2>2, ToldStartFrame DEF MasterMain
<1>2. ASSUME NEW w \in Worker, Incoming(w) PROVE ToldOnce'
  <2>1. /\ PickTile("inbox", w) /\ "inbox" \in Thread /\ ~Races("inbox") /\ call["inbox"] = NoCall
        /\ UNCHANGED <<answers, frame, wpc, tilesAvailable>>
    BY <1>2 DEF Incoming, Thread, slave, counts
  <2> QED BY <2>1, ToldCall
<1>3. ASSUME NEW k \in tasks, TaskStep(k) PROVE ToldOnce'
  <2>1. UNCHANGED <<call, workerNotified, answers, frame, wpc, tilesAvailable>>
    BY <1>3 DEF TaskStep, RenderTask, SetTile, EndTask, dealing, slave, counts, net
  <2> QED BY <2>1, ToldElsewhere
<1>4. ASSUME NEW k \in sent, DeliverPart(k) PROVE ToldOnce'
  <2>1. UNCHANGED <<call, workerNotified, answers, frame, wpc, tilesAvailable>>
    BY <1>4 DEF DeliverPart, dealing, slave, counts, net
  <2> QED BY <2>1, ToldElsewhere
<1>5. ASSUME UNCHANGED vars PROVE ToldOnce'
  BY <1>5, ToldElsewhere DEF vars, dealing, slave, counts, net
<1> QED BY <1>1, <1>2, <1>3, <1>4, <1>5, ToldDealing, ToldReceive, ToldWorker DEF Next
-----------------------------------------------------------------------------
(* The way of a tile.                                                      *)

LEMMA CopiesFinite ==
  ASSUME NEW t \in Tile
  PROVE  IsFiniteSet(HeldOf(t)) /\ Cardinality(HeldOf(t)) \in Nat /\ HeldOf(t) \subseteq Dealt(t)
<1> DEFINE f == [a \in 0 .. NumTiles - 1 |-> [tile |-> t, accumId |-> a]]
<1>1. IsFiniteSet(0 .. NumTiles - 1)
  BY FS_Interval, NumbersAre, 0 \in Int, NumTiles - 1 \in Int
<1>2. f \in Surjection(0 .. NumTiles - 1, Dealt(t))
  <2>1. f \in [0 .. NumTiles - 1 -> Dealt(t)]
    BY DEF Dealt
  <2>2. \A c \in Dealt(t) : \E a \in 0 .. NumTiles - 1 : f[a] = c
    BY DEF Dealt
  <2> HIDE DEF f
  <2> QED BY <2>1, <2>2 DEF Surjection
<1>3. IsFiniteSet(Dealt(t))
  <2> HIDE DEF f
  <2> QED BY <1>1, <1>2, FS_Surjection
<1>4. HeldOf(t) \subseteq Dealt(t)
  <2>1. \A c \in TileTask : c.tile = t => c \in Dealt(t)
    BY DEF TileTask, Dealt
  <2> QED BY <2>1 DEF HeldOf
<1> QED BY <1>3, <1>4, FS_Subset, FS_CardinalityType

\* The copies are where they were, and no part has come.
LEMMA CopiesKept ==
  ASSUME Apart, Counted,
         \A c \in TileTask : /\ Waits(c)' <=> Waits(c)
                             /\ Leaves(c)' <=> Leaves(c)
                             /\ Answered(c)' <=> Answered(c)
                             /\ Rendered(c)' <=> Rendered(c)
                             /\ SentOff(c)' <=> SentOff(c),
         \A t \in Tile : Arrived(t)' = Arrived(t) /\ instances'[t] = instances[t]
  PROVE  Apart' /\ Counted'
<1> HIDE DEF Waits, Leaves, Answered, Rendered, SentOff, Arrived
<1>1. Apart'
  BY DEF Apart
<1>2. \A t \in Tile : HeldOf(t)' = HeldOf(t)
  BY DEF HeldOf, Held
<1>3. Counted'
  BY <1>2 DEF Counted
<1> QED BY <1>1, <1>3

\* The copies are somewhere else.
LEMMA CopiesMoved ==
  ASSUME Counted, \A c \in TileTask : Held(c)' <=> Held(c),
         \A t \in Tile : Arrived(t)' = Arrived(t) /\ instances'[t] = instances[t]
  PROVE  Counted'
<1> HIDE DEF Held, Arrived
<1>1. \A t \in Tile : HeldOf(t)' = HeldOf(t)
  BY DEF HeldOf
<1> QED BY <1>1 DEF Counted

\* One copy has come to the owner of its tile, who is in the frame.
LEMMA CopyArrives ==
  ASSUME DealTypes, Counted, NEW c \in TileTask, Held(c), ~Held(c)',
         \A b \in TileTask : b # c => (Held(b)' <=> Held(b)),
         frame[OwnerOf(c.tile)] = frame[0],
         parts' = [parts EXCEPT ![c.tile] = @ + 1], UNCHANGED <<frame, instances>>
  PROVE  Counted' /\ parts[c.tile] # instances[c.tile]
<1>1. c.tile \in Tile
  BY DEF TileTask
<1>2. \A t \in Tile : /\ t # c.tile => HeldOf(t)' = HeldOf(t)
                      /\ t = c.tile => HeldOf(t)' = HeldOf(t) \ {c} /\ c \in HeldOf(t)
  <2> HIDE DEF Held
  <2> QED BY DEF HeldOf
<1>3. /\ parts \in [Tile -> Nat] /\ instances \in [Tile -> 0 .. NumTiles]
  BY DEF DealTypes, TypeOK
<1>4. Cardinality(HeldOf(c.tile)) + parts[c.tile] = instances[c.tile]
  BY <1>1 DEF Counted, Arrived
<1>5. /\ Cardinality(HeldOf(c.tile)') = Cardinality(HeldOf(c.tile)) - 1
      /\ Cardinality(HeldOf(c.tile)') \in Nat /\ Cardinality(HeldOf(c.tile)) \in Nat
  <2>1. IsFiniteSet(HeldOf(c.tile))
    BY <1>1, CopiesFinite
  <2>2. HeldOf(c.tile)' = HeldOf(c.tile) \ {c} /\ c \in HeldOf(c.tile)
    BY <1>1, <1>2
  <2> QED BY <2>1, <2>2, FS_RemoveElement, FS_CardinalityType
<1>6. ASSUME NEW t \in Tile PROVE Cardinality(HeldOf(t)') + Arrived(t)' = instances'[t]
  <2>1. CASE t = c.tile
    <3>1. Arrived(t)' = parts[t] + 1 /\ instances'[t] = instances[t] /\ instances[t] \in Nat
      BY <1>1, <1>3, <2>1 DEF Arrived
    <3>2. parts[t] \in Nat
      BY <1>3
    <3> QED BY <1>4, <1>5, <2>1, <3>1, <3>2
  <2>2. CASE t # c.tile
    BY <1>1, <1>2, <1>3, <2>2 DEF Counted, Arrived
  <2> QED BY <2>1, <2>2
<1>7. parts[c.tile] # instances[c.tile]
  <2>1. parts[c.tile] \in Nat
    BY <1>1, <1>3
  <2> QED BY <1>4, <1>5, <2>1
<1> QED BY <1>6, <1>7 DEF Counted

\* A tile is chosen: it stays in its queue.
LEMMA CopiesPick ==
  ASSUME DealTypes, CopiesInv, NEW h \in Thread, NEW w \in Worker, PickTile(h, w),
         ~Races(h), call[h] = NoCall,
         UNCHANGED <<preferredTiles, answers, tasks, sent, parts, frame, instances, wpc>>
  PROVE  CopiesInv'
<1>1. /\ \A g \in Thread : g # h => call'[g] = call[g]
      /\ Refused(w) \/ Notified(h, w) \/ Chose(h, w)
  BY CallBegins DEF DealTypes, TypeOK
<1>2. \A g \in Thread : g # h => call[g] = NoCall /\ call'[g] = NoCall
  BY <1>1 DEF Races
<1>3. \A g \in Thread : call[g].step = "none" /\ (g # h => call'[g].step = "none")
  BY <1>2 DEF NoCall
<1>4. /\ call'[h].step \in {"none", "close", "pop"}
      /\ call'[h].step = "pop" => LET q == preferredTiles[call'[h].from]
                                  IN  q # <<>> /\ q[Len(q)] = call'[h].answer
  BY <1>1, <1>3 DEF Refused, Notified, Chose
<1>5. \A c \in TileTask : ~Leaves(c) /\ ~Leaves(c)'
  BY <1>3, <1>4 DEF Leaves
<1>6. QueuedOnce'
  BY <1>3, <1>4 DEF CopiesInv, QueuedOnce
<1>7. AnsweredOnce' /\ RenderedOnce' /\ OwnersDone'
  BY DEF CopiesInv, AnsweredOnce, RenderedOnce, OwnersDone, CopyOf
<1>8. Apart' /\ Counted'
  <2>1. \A c \in TileTask : /\ Waits(c)' <=> Waits(c)
                            /\ Answered(c)' <=> Answered(c)
                            /\ Rendered(c)' <=> Rendered(c)
                            /\ SentOff(c)' <=> SentOff(c)
    BY DEF Waits, Answered, Rendered, SentOff, CopyOf
  <2>2. \A t \in Tile : Arrived(t)' = Arrived(t) /\ instances'[t] = instances[t]
    BY DEF Arrived
  <2> QED BY <1>5, <2>1, <2>2, CopiesKept DEF CopiesInv
<1> QED BY <1>6, <1>7, <1>8 DEF CopiesInv

\* The chosen tile leaves its queue.
LEMMA CopiesPop ==
  ASSUME DealTypes, ToldOnce, CopiesInv, NEW h \in Thread, PopTile(h)
  PROVE  CopiesInv'
<1> DEFINE v == call[h].from
           c0 == call[h].answer
<1>1. /\ call[h].step = "pop" /\ call' = [call EXCEPT ![h].step = "send"]
      /\ preferredTiles[v] # <<>> /\ preferredTiles' = [preferredTiles EXCEPT ![v] = Front(@)]
      /\ UNCHANGED <<answers, tasks, sent, parts, frame, instances, wpc>>
  BY DEF PopTile, master, slave, tiles, net
<1>2. /\ call[h] \in Giving /\ call'[h].step = "send" /\ call'[h].answer = c0
      /\ call[h] # NoCall /\ \A g \in Thread : g # h => call'[g] = call[g]
  BY <1>1, CallGoes DEF DealTypes
<1>3. v \in Worker /\ c0 \in TileTask
  BY <1>2 DEF Giving
<1>4. \A g \in Thread : g # h => call[g].step = "none" /\ call'[g].step = "none"
  <2>1. \A g \in Thread : g # h => call[g] = NoCall /\ call'[g] = NoCall
    BY <1>2 DEF ToldOnce
  <2> QED BY <2>1 DEF NoCall
<1>5. /\ preferredTiles[v][Len(preferredTiles[v])] = c0
      /\ preferredTiles[v] \in Seq(TileTask) /\ Len(preferredTiles[v]) \in Nat \ {0}
      /\ preferredTiles'[v] = Front(preferredTiles[v])
      /\ \A u \in Worker : u # v => preferredTiles'[u] = preferredTiles[u]
  BY <1>1, <1>3 DEF CopiesInv, QueuedOnce, DealTypes, TypeOK
<1> HIDE DEF v, c0
<1>6. /\ Len(preferredTiles'[v]) = Len(preferredTiles[v]) - 1
      /\ \A i \in 1 .. Len(preferredTiles'[v]) :
           preferredTiles'[v][i] = preferredTiles[v][i]
  BY <1>5 DEF Front
<1>7. \A u \in Worker : /\ Len(preferredTiles[u]) \in Nat
                        /\ 1 .. Len(preferredTiles'[u]) \subseteq 1 .. Len(preferredTiles[u])
                        /\ \A i \in 1 .. Len(preferredTiles'[u]) :
                             preferredTiles'[u][i] = preferredTiles[u][i]
  <2>1. preferredTiles \in [Worker -> Seq(TileTask)]
    BY DEF DealTypes, TypeOK
  <2> QED BY <1>5, <1>6, <2>1
<1>8. QueuedOnce'
  <2>1. \A g \in Thread : call'[g].step # "pop"
    BY <1>2, <1>4
  <2>2. \A u, w \in Worker :
          \A i \in 1 .. Len(preferredTiles'[u]), j \in 1 .. Len(preferredTiles'[w]) :
            preferredTiles'[u][i] = preferredTiles'[w][j] => u = w /\ i = j
    BY <1>7 DEF CopiesInv, QueuedOnce
  <2> QED BY <2>1, <2>2 DEF QueuedOnce
<1>9. \A c \in TileTask : Waits(c)' <=> Waits(c) /\ c # c0
  <2>1. ASSUME NEW c \in TileTask, Waits(c)'
        PROVE  Waits(c) /\ c # c0
    <3>1. PICK w \in Worker, i \in Nat : i \in 1 .. Len(preferredTiles'[w]) /\ preferredTiles'[w][i] = c
      BY <2>1 DEF Waits
    <3>2. i \in 1 .. Len(preferredTiles[w]) /\ preferredTiles[w][i] = c
      BY <1>7, <3>1
    <3>3. c # c0
      <4>1. Len(preferredTiles[v]) \in 1 .. Len(preferredTiles[v])
        BY <1>5
      <4>2. c = c0 => w = v /\ i = Len(preferredTiles[v])
        BY <1>3, <1>5, <3>2, <4>1 DEF CopiesInv, QueuedOnce
      <4> QED BY <1>5, <1>6, <3>1, <4>2
    <3> QED BY <3>2, <3>3 DEF Waits
  <2>2. ASSUME NEW c \in TileTask, Waits(c), c # c0
        PROVE  Waits(c)'
    <3>1. PICK w \in Worker, i \in Nat : i \in 1 .. Len(preferredTiles[w]) /\ preferredTiles[w][i] = c
      BY <2>2 DEF Waits
    <3>2. i \in 1 .. Len(preferredTiles'[w])
      <4>1. w = v => i # Len(preferredTiles[v])
        BY <1>5, <2>2, <3>1
      <4> QED BY <1>5, <1>6, <3>1, <4>1
    <3> QED BY <1>7, <3>1, <3>2 DEF Waits
  <2> QED BY <2>1, <2>2
<1>10. \A c \in TileTask : (Leaves(c)' <=> c = c0) /\ ~Leaves(c)
  BY <1>1, <1>2, <1>4 DEF Leaves
<1>11. Waits(c0)
  <2>1. Len(preferredTiles[v]) \in 1 .. Len(preferredTiles[v]) /\ Len(preferredTiles[v]) \in Nat
    BY <1>5
  <2> QED BY <1>3, <1>5, <2>1 DEF Waits
<1>12. \A c \in TileTask : /\ Answered(c)' <=> Answered(c)
                           /\ Rendered(c)' <=> Rendered(c)
                           /\ SentOff(c)' <=> SentOff(c)
  BY <1>1 DEF Answered, Rendered, SentOff, CopyOf
<1>13. AnsweredOnce' /\ RenderedOnce' /\ OwnersDone'
  BY <1>1 DEF CopiesInv, AnsweredOnce, RenderedOnce, OwnersDone, CopyOf
<1>14. \A t \in Tile : Arrived(t)' = Arrived(t) /\ instances'[t] = instances[t]
  BY <1>1 DEF Arrived
<1> HIDE DEF Waits, Leaves, Answered, Rendered, SentOff
<1>15. Apart'
  BY <1>9, <1>10, <1>11, <1>12 DEF CopiesInv, Apart
<1>16. \A c \in TileTask : Held(c)' <=> Held(c)
  BY <1>9, <1>10, <1>11, <1>12 DEF Held
<1>17. Counted'
  BY <1>14, <1>16, CopiesMoved DEF CopiesInv
<1> QED BY <1>8, <1>13, <1>15, <1>17 DEF CopiesInv

\* tilesExhausted is no tile.
LEMMA CopiesClose ==
  ASSUME DealTypes, ToldOnce, CopiesInv, NEW h \in Thread, CloseFrame(h)
  PROVE  CopiesInv'
<1>1. /\ call[h].step = "close" /\ call' = [call EXCEPT ![h].step = "send"]
      /\ UNCHANGED <<preferredTiles, answers, tasks, sent, parts, frame, instances, wpc>>
  BY DEF CloseFrame, slave, tiles, net
<1>2. /\ call[h] \in Closing /\ call[h] # NoCall /\ call'[h].step = "send"
      /\ call'[h].answer = call[h].answer
      /\ \A g \in Thread : g # h => call'[g] = call[g]
  BY <1>1, CallGoes DEF DealTypes
<1>3. call'[h].answer = Exhausted
  BY <1>2 DEF Closing
<1>4. \A g \in Thread : g # h => call[g].step = "none" /\ call'[g].step = "none"
  <2>1. \A g \in Thread : g # h => call[g] = NoCall /\ call'[g] = NoCall
    BY <1>2 DEF ToldOnce
  <2> QED BY <2>1 DEF NoCall
<1>5. \A c \in TileTask : ~Leaves(c) /\ ~Leaves(c)'
  BY <1>1, <1>2, <1>3, <1>4, Distinct DEF Leaves
<1>6. QueuedOnce'
  BY <1>1, <1>2, <1>4 DEF CopiesInv, QueuedOnce
<1>7. AnsweredOnce' /\ RenderedOnce' /\ OwnersDone'
  BY <1>1 DEF CopiesInv, AnsweredOnce, RenderedOnce, OwnersDone, CopyOf
<1>8. Apart' /\ Counted'
  <2>1. \A c \in TileTask : /\ Waits(c)' <=> Waits(c)
                            /\ Answered(c)' <=> Answered(c)
                            /\ Rendered(c)' <=> Rendered(c)
                            /\ SentOff(c)' <=> SentOff(c)
    BY <1>1 DEF Waits, Answered, Rendered, SentOff, CopyOf
  <2>2. \A t \in Tile : Arrived(t)' = Arrived(t) /\ instances'[t] = instances[t]
    BY <1>1 DEF Arrived
  <2> QED BY <1>5, <2>1, <2>2, CopiesKept DEF CopiesInv
<1> QED BY <1>6, <1>7, <1>8 DEF CopiesInv

\* The tile is sent to a worker.
LEMMA CopiesSend ==
  ASSUME DealTypes, ToldOnce, CopiesInv, NEW h \in Thread, SendAnswer(h)
  PROVE  CopiesInv'
<1> DEFINE w == call[h].worker
           a == call[h].answer
<1>1. /\ call[h].step = "send" /\ call' = [call EXCEPT ![h] = NoCall]
      /\ answers' = [answers EXCEPT ![w] = Append(@, a)]
      /\ UNCHANGED <<preferredTiles, tasks, sent, parts, frame, instances, wpc>>
  BY DEF SendAnswer, master, slave, tiles
<1>2. call[h] \in Closing \cup Giving /\ call[h] # NoCall
  BY <1>1 DEF DealTypes, CallTypes, NoCall
<1>3. w \in Worker /\ a \in TileTask \cup {Exhausted}
  BY <1>2 DEF Closing, Giving
<1>4. (\A g \in Thread : g # h => call[g].step = "none") /\ \A g \in Thread : call'[g].step = "none"
  <2>1. /\ \A g \in Thread : g # h => call[g] = NoCall
        /\ \A g \in Thread : call'[g] = NoCall
    BY <1>1, <1>2 DEF ToldOnce, DealTypes, CallTypes
  <2> QED BY <2>1 DEF NoCall
<1>5. \A c \in TileTask : (Leaves(c) <=> c = a) /\ ~Leaves(c)'
  BY <1>1, <1>4 DEF Leaves
<1> HIDE DEF w, a
<1>6. /\ \A v \in Worker : v # w => answers'[v] = answers[v]
      /\ answers'[w] = Append(answers[w], a)
      /\ answers[w] \in Seq(TileTask \cup {Exhausted})
  BY <1>1, <1>3 DEF DealTypes, TypeOK
<1>7. /\ Len(answers'[w]) = Len(answers[w]) + 1 /\ answers'[w][Len(answers[w]) + 1] = a
      /\ \A i \in 1 .. Len(answers[w]) : answers'[w][i] = answers[w][i]
      /\ Len(answers[w]) \in Nat
  BY <1>3, <1>6
<1>8. \A v \in Worker : \A i \in 1 .. Len(answers'[v]) :
        \/ i \in 1 .. Len(answers[v]) /\ answers'[v][i] = answers[v][i]
        \/ v = w /\ i = Len(answers[w]) + 1 /\ answers'[v][i] = a
  BY <1>6, <1>7
<1>9. \A c \in TileTask : Answered(c)' <=> Answered(c) \/ c = a
  <2>1. ASSUME NEW c \in TileTask, Answered(c)'
        PROVE  Answered(c) \/ c = a
    BY <1>8, <2>1 DEF Answered
  <2>2. ASSUME NEW c \in TileTask, Answered(c)
        PROVE  Answered(c)'
    <3>1. PICK v \in Worker, i \in Nat : i \in 1 .. Len(answers[v]) /\ answers[v][i] = c
      BY <2>2 DEF Answered
    <3>2. i \in 1 .. Len(answers'[v]) /\ answers'[v][i] = c
      BY <1>6, <1>7, <3>1
    <3> QED BY <3>2 DEF Answered
  <2>3. ASSUME NEW c \in TileTask, c = a
        PROVE  Answered(c)'
    <3>1. Len(answers[w]) + 1 \in 1 .. Len(answers'[w]) /\ Len(answers[w]) + 1 \in Nat
      BY <1>7
    <3> QED BY <1>3, <1>7, <2>3, <3>1 DEF Answered
  <2> QED BY <2>1, <2>2, <2>3
<1>10. a # Exhausted => a \in TileTask /\ ~Answered(a)
  BY <1>3, <1>5 DEF CopiesInv, Apart
<1>11. AnsweredOnce'
  <2>1. a # Exhausted => \A v \in Worker : \A i \in 1 .. Len(answers[v]) : answers[v][i] # a
    <3>1. \A v \in Worker : \A i \in 1 .. Len(answers[v]) : i \in Nat
      OBVIOUS
    <3> QED BY <1>10, <3>1 DEF Answered
  <2>2. ASSUME NEW u \in Worker, NEW v \in Worker,
               NEW i \in 1 .. Len(answers'[u]), NEW j \in 1 .. Len(answers'[v]),
               answers'[u][i] = answers'[v][j], answers'[u][i] # Exhausted
        PROVE  u = v /\ i = j
    <3>1. CASE answers'[u][i] = a
      <4>1. a # Exhausted /\ ~(i \in 1 .. Len(answers[u]) /\ answers'[u][i] = answers[u][i])
            /\ ~(j \in 1 .. Len(answers[v]) /\ answers'[v][j] = answers[v][j])
        BY <2>1, <2>2, <3>1
      <4>2. /\ u = w /\ i = Len(answers[w]) + 1
            /\ v = w /\ j = Len(answers[w]) + 1
        BY <1>8, <4>1
      <4> QED BY <4>2
    <3>2. CASE answers'[u][i] # a
      <4>1. /\ i \in 1 .. Len(answers[u]) /\ answers'[u][i] = answers[u][i]
            /\ j \in 1 .. Len(answers[v]) /\ answers'[v][j] = answers[v][j]
        BY <1>8, <2>2, <3>2
      <4>2. answers[u][i] = answers[v][j] /\ answers[u][i] # Exhausted
        BY <2>2, <4>1
      <4> QED BY <4>1, <4>2 DEF CopiesInv, AnsweredOnce
    <3> QED BY <3>1, <3>2
  <2> QED BY <2>2 DEF AnsweredOnce
<1>12. QueuedOnce'
  BY <1>1, <1>4 DEF CopiesInv, QueuedOnce
<1>13. RenderedOnce' /\ OwnersDone'
  BY <1>1 DEF CopiesInv, RenderedOnce, OwnersDone, CopyOf
<1>14. \A c \in TileTask : /\ Waits(c)' <=> Waits(c)
                           /\ Rendered(c)' <=> Rendered(c)
                           /\ SentOff(c)' <=> SentOff(c)
  BY <1>1 DEF Waits, Rendered, SentOff, CopyOf
<1>15. \A t \in Tile : Arrived(t)' = Arrived(t) /\ instances'[t] = instances[t]
  BY <1>1 DEF Arrived
<1> HIDE DEF Waits, Leaves, Answered, Rendered, SentOff
<1>16. Apart'
  BY <1>5, <1>9, <1>14 DEF CopiesInv, Apart
<1>17. \A c \in TileTask : Held(c)' <=> Held(c)
  BY <1>5, <1>9, <1>14 DEF Held
<1>18. Counted'
  BY <1>15, <1>17, CopiesMoved DEF CopiesInv
<1> QED BY <1>11, <1>12, <1>13, <1>16, <1>18 DEF CopiesInv

\* A tile that is received is rendered: tilesExhausted has not come before it.
LEMMA CopiesReceive ==
  ASSUME IInv, DealTypes, ToldOnce, CopiesInv, NEW w \in Worker, Receive(w)
  PROVE  CopiesInv'
<1> DEFINE a == Head(answers[w])
           new == [worker |-> w, tile |-> a.tile, accumId |-> a.accumId, step |-> "render"]
<1>1. /\ answers[w] # <<>> /\ answers' = [answers EXCEPT ![w] = Tail(@)]
      /\ UNCHANGED <<preferredTiles, call, sent, parts, frame, instances, wpc>>
      /\ tasks' = IF a = Exhausted THEN tasks ELSE tasks \cup {new}
  BY ToldReceive DEF Receive, master, dealing, slave
<1>2. answers \in [Worker -> Seq(TileTask \cup {Exhausted})]
  BY DEF DealTypes, TypeOK
<1>3. /\ \A v \in Worker : v # w => answers'[v] = answers[v]
      /\ Len(answers'[w]) = Len(answers[w]) - 1 /\ Len(answers[w]) \in Nat /\ Len(answers[w]) > 0
      /\ \A i \in 1 .. Len(answers'[w]) : answers'[w][i] = answers[w][i + 1]
      /\ a = answers[w][1] /\ a \in TileTask \cup {Exhausted}
  <2>1. answers[w] \in Seq(TileTask \cup {Exhausted})
    BY <1>2
  <2> QED BY <1>1, <1>2, <2>1
<1>4. a # Exhausted => CopyOf(new) = a /\ new.step # "end"
  BY <1>3 DEF TileTask, CopyOf
<1> HIDE DEF a, new
<1> DEFINE was(v, i) == IF v = w THEN i + 1 ELSE i
<1>5. \A v \in Worker : \A i \in 1 .. Len(answers'[v]) :
        /\ was(v, i) \in 1 .. Len(answers[v]) /\ answers'[v][i] = answers[v][was(v, i)]
        /\ v = w => was(v, i) # 1
  BY <1>3
<1>6. ASSUME NEW u \in Worker, NEW v \in Worker, NEW i \in 1 .. Len(answers[u]),
             NEW j \in 1 .. Len(answers[v]), answers[u][i] = answers[v][j],
             answers[u][i] # Exhausted
      PROVE  u = v /\ i = j
  BY <1>6 DEF CopiesInv, AnsweredOnce
<1>7. AnsweredOnce'
  <2>1. ASSUME NEW u \in Worker, NEW v \in Worker,
               NEW i \in 1 .. Len(answers'[u]), NEW j \in 1 .. Len(answers'[v]),
               answers'[u][i] = answers'[v][j], answers'[u][i] # Exhausted
        PROVE  u = v /\ i = j
    <3>1. /\ was(u, i) \in 1 .. Len(answers[u]) /\ answers'[u][i] = answers[u][was(u, i)]
          /\ was(v, j) \in 1 .. Len(answers[v]) /\ answers'[v][j] = answers[v][was(v, j)]
      BY <1>5
    <3>2. u = v /\ was(u, i) = was(v, j)
      <4> HIDE DEF was
      <4>1. PICK k \in 1 .. Len(answers[u]) : k = was(u, i)
        BY <3>1
      <4>2. PICK l \in 1 .. Len(answers[v]) : l = was(v, j)
        BY <3>1
      <4>3. answers[u][k] = answers[v][l] /\ answers[u][k] # Exhausted
        BY <2>1, <3>1, <4>1, <4>2
      <4> QED BY <1>6, <4>1, <4>2, <4>3
    <3> QED BY <3>2
  <2> QED BY <2>1 DEF AnsweredOnce
<1>8. \A c \in TileTask : Answered(c)' <=> Answered(c) /\ c # a
  <2>1. ASSUME NEW c \in TileTask, Answered(c)'
        PROVE  Answered(c) /\ c # a
    <3>1. PICK v \in Worker, i \in Nat : i \in 1 .. Len(answers'[v]) /\ answers'[v][i] = c
      BY <2>1 DEF Answered
    <3>2. /\ was(v, i) \in 1 .. Len(answers[v]) /\ answers[v][was(v, i)] = c
          /\ v = w => was(v, i) # 1
      BY <1>5, <3>1
    <3> HIDE DEF was
    <3>3. Answered(c)
      BY <3>2, was(v, i) \in Nat DEF Answered
    <3>4. c # a
      <4>1. c # Exhausted /\ 1 \in 1 .. Len(answers[w])
        BY <1>3, Distinct
      <4> QED BY <1>3, <1>6, <3>2, <4>1
    <3> QED BY <3>3, <3>4
  <2>2. ASSUME NEW c \in TileTask, Answered(c), c # a
        PROVE  Answered(c)'
    <3>1. PICK v \in Worker, i \in Nat : i \in 1 .. Len(answers[v]) /\ answers[v][i] = c
      BY <2>2 DEF Answered
    <3>2. CASE v # w
      BY <1>3, <3>1, <3>2 DEF Answered
    <3>3. CASE v = w
      <4>1. i - 1 \in 1 .. Len(answers'[w]) /\ i - 1 \in Nat /\ i - 1 + 1 = i
        BY <1>3, <2>2, <3>1, <3>3
      <4>2. answers'[w][i - 1] = c
        BY <1>3, <3>1, <3>3, <4>1
      <4> QED BY <4>1, <4>2 DEF Answered
    <3> QED BY <3>2, <3>3
  <2> QED BY <2>1, <2>2
<1>9. a # Exhausted => a \in TileTask /\ Answered(a)
  BY <1>3, 1 \in 1 .. Len(answers[w]), 1 \in Nat DEF Answered
<1>10. \A c \in TileTask : Rendered(c)' <=> Rendered(c) \/ c = a
  <2>1. CASE a = Exhausted
    BY <1>1, <2>1, Distinct DEF Rendered
  <2>2. CASE a # Exhausted
    BY <1>1, <1>4, <2>2 DEF Rendered
  <2> QED BY <2>1, <2>2
<1>11. RenderedOnce'
  <2>1. CASE a = Exhausted
    BY <1>1, <2>1 DEF CopiesInv, RenderedOnce
  <2>2. CASE a # Exhausted
    <3>1. \A k \in tasks : k.step # "end" => CopyOf(k) # a
      BY <1>9, <2>2 DEF CopiesInv, Apart, Rendered
    <3>2. \A k, l \in tasks' : k.step # "end" /\ l.step # "end" /\ CopyOf(k) = CopyOf(l) => k = l
      BY <1>1, <1>4, <2>2, <3>1 DEF CopiesInv, RenderedOnce
    <3> QED BY <1>1, <3>2 DEF CopiesInv, RenderedOnce, CopyOf
  <2> QED BY <2>1, <2>2
<1>12. QueuedOnce' /\ OwnersDone'
  BY <1>1 DEF CopiesInv, QueuedOnce, OwnersDone
<1>13. \A c \in TileTask : /\ Waits(c)' <=> Waits(c)
                           /\ Leaves(c)' <=> Leaves(c)
                           /\ SentOff(c)' <=> SentOff(c)
  BY <1>1 DEF Waits, Leaves, SentOff, CopyOf
<1>14. \A t \in Tile : Arrived(t)' = Arrived(t) /\ instances'[t] = instances[t]
  BY <1>1 DEF Arrived
<1>15. \A c \in TileTask : c = a => Answered(c)
  BY <1>9, Distinct
<1> HIDE DEF Waits, Leaves, Answered, Rendered, SentOff
<1>16. Apart'
  BY <1>8, <1>10, <1>13, <1>15 DEF CopiesInv, Apart
<1>17. \A c \in TileTask : Held(c)' <=> Held(c)
  BY <1>8, <1>10, <1>13, <1>15 DEF Held
<1>18. Counted'
  BY <1>14, <1>17, CopiesMoved DEF CopiesInv
<1> QED BY <1>7, <1>11, <1>12, <1>16, <1>18 DEF CopiesInv

LEMMA CopyOfTask ==
  ASSUME DealTypes, NEW k \in tasks \cup sent, NEW l
  PROVE  /\ k \in TaskRecord /\ CopyOf(k) \in TileTask /\ CopyOf(k).tile = k.tile /\ k.worker \in Worker
         /\ [k EXCEPT !.step = l].step = l /\ CopyOf([k EXCEPT !.step = l]) = CopyOf(k)
<1>1. k \in TaskRecord
  BY DEF DealTypes
<1> QED BY <1>1 DEF TaskRecord, TileTask, CopyOf

\* A task renders, or is counted as finished: that moves no copy.
LEMMA CopiesRender ==
  ASSUME DealTypes, CopiesInv, NEW k \in tasks, RenderTask(k) \/ EndTask(k)
  PROVE  CopiesInv'
<1>1. /\ UNCHANGED <<preferredTiles, call, answers, sent, parts, frame, instances, wpc>>
      /\ \/ k.step = "render" /\ tasks' = StepTask(k, "set")
         \/ k.step = "end" /\ tasks' = tasks \ {k}
  BY DEF RenderTask, EndTask, master, dealing, slave, net
<1>2. PICK m : m.step = "set" /\ CopyOf(m) = CopyOf(k) /\ m = [k EXCEPT !.step = "set"]
  BY CopyOfTask
<1>3. \/ k.step # "end" /\ tasks' = (tasks \ {k}) \cup {m}
      \/ k.step = "end" /\ tasks' = tasks \ {k}
  BY <1>1, <1>2 DEF StepTask
<1>4. \A c \in TileTask : Rendered(c)' <=> Rendered(c)
  <2> SUFFICES ASSUME NEW c \in TileTask PROVE Rendered(c)' <=> Rendered(c)
    OBVIOUS
  <2>1. ASSUME Rendered(c) PROVE Rendered(c)'
    <3>1. PICK l \in tasks : l.step # "end" /\ CopyOf(l) = c
      BY <2>1 DEF Rendered
    <3>2. CASE l = k
      <4>1. m \in tasks'
        BY <1>3, <3>1, <3>2
      <4> QED BY <1>2, <3>1, <3>2, <4>1 DEF Rendered, CopyOf
    <3>3. CASE l # k
      <4>1. l \in tasks'
        BY <1>3, <3>1, <3>3
      <4> QED BY <3>1, <4>1 DEF Rendered, CopyOf
    <3> QED BY <3>2, <3>3
  <2>2. ASSUME Rendered(c)' PROVE Rendered(c)
    <3>1. PICK l \in tasks' : l.step # "end" /\ CopyOf(l) = c
      BY <2>2 DEF Rendered, CopyOf
    <3>2. l \in tasks \/ (k.step # "end" /\ CopyOf(k) = c)
      BY <1>2, <1>3, <3>1
    <3> QED BY <3>1, <3>2 DEF Rendered
  <2> QED BY <2>1, <2>2
<1>5. RenderedOnce'
  <2>1. \A n \in tasks' : n.step # "end" =>
          \E o \in tasks : o.step # "end" /\ CopyOf(o) = CopyOf(n) /\ (n = IF o = k THEN m ELSE o)
    BY <1>2, <1>3
  <2>2. \A n, l \in tasks' : n.step # "end" /\ l.step # "end" /\ CopyOf(n) = CopyOf(l) => n = l
    BY <2>1 DEF CopiesInv, RenderedOnce
  <2> QED BY <1>1, <2>2 DEF CopiesInv, RenderedOnce, CopyOf
<1>6. QueuedOnce' /\ AnsweredOnce' /\ OwnersDone'
  BY <1>1 DEF CopiesInv, QueuedOnce, AnsweredOnce, OwnersDone
<1>7. \A c \in TileTask : /\ Waits(c)' <=> Waits(c)
                          /\ Leaves(c)' <=> Leaves(c)
                          /\ Answered(c)' <=> Answered(c)
                          /\ SentOff(c)' <=> SentOff(c)
  BY <1>1 DEF Waits, Leaves, Answered, SentOff, CopyOf
<1>8. \A t \in Tile : Arrived(t)' = Arrived(t) /\ instances'[t] = instances[t]
  BY <1>1 DEF Arrived
<1>9. Apart' /\ Counted'
  BY <1>4, <1>7, <1>8, CopiesKept DEF CopiesInv
<1> QED BY <1>5, <1>6, <1>9 DEF CopiesInv

\* A part comes to the owner of its tile, who waits for it: the other owners
\* have what they had.
LEMMA OwnersStayDone ==
  ASSUME DealTypes, OwnersDone, NEW t \in Tile, parts[t] # instances[t],
         parts' = [parts EXCEPT ![t] = @ + 1], UNCHANGED <<wpc, frame, instances>>
  PROVE  OwnersDone'
<1>1. parts \in [Tile -> Nat]
  BY DEF DealTypes, TypeOK
<1>2. \A u \in Tile : u # t => parts'[u] = parts[u]
  BY <1>1
<1> QED BY <1>2 DEF OwnersDone

\* A part is set: it is sent to the owner of the tile or has come.
LEMMA CopiesSet ==
  ASSUME IInv, DealTypes, CopiesInv, NEW k \in tasks, SetTile(k)
  PROVE  CopiesInv'
<1> DEFINE c0 == CopyOf(k)
<1>1. /\ UNCHANGED <<preferredTiles, call, answers, frame, instances, wpc>>
      /\ k.step = "set" /\ tasks' = StepTask(k, "end")
      /\ IF OwnerOf(k.tile) = k.worker
           THEN parts' = [parts EXCEPT ![k.tile] = @ + 1] /\ UNCHANGED sent
           ELSE sent' = sent \cup {k} /\ UNCHANGED parts
  BY DEF SetTile, master, dealing, slave, net
<1>2. PICK m : m.step = "end" /\ tasks' = (tasks \ {k}) \cup {m}
  BY <1>1, CopyOfTask DEF StepTask
<1>3. c0 \in TileTask /\ c0.tile = k.tile /\ k.tile \in Tile /\ k.worker \in Worker
  BY CopyOfTask DEF TileTask
<1>4. \A n \in tasks' : n.step # "end" => n \in tasks /\ n # k
  BY <1>2
<1>5. \A n \in tasks : n.step # "end" /\ n # k => n \in tasks' /\ CopyOf(n) # c0
  BY <1>1, <1>2 DEF CopiesInv, RenderedOnce
<1>6. \A c \in TileTask : Rendered(c)' <=> Rendered(c) /\ c # c0
  <2>1. ASSUME NEW c \in TileTask, Rendered(c)' PROVE Rendered(c) /\ c # c0
    <3>1. PICK n \in tasks' : n.step # "end" /\ CopyOf(n) = c
      BY <2>1 DEF Rendered, CopyOf
    <3> QED BY <1>4, <1>5, <3>1 DEF Rendered
  <2>2. ASSUME NEW c \in TileTask, Rendered(c), c # c0 PROVE Rendered(c)'
    <3>1. PICK n \in tasks : n.step # "end" /\ CopyOf(n) = c
      BY <2>2 DEF Rendered
    <3>2. n \in tasks'
      BY <1>5, <2>2, <3>1
    <3> QED BY <3>1, <3>2 DEF Rendered, CopyOf
  <2> QED BY <2>1, <2>2
<1>7. Rendered(c0)
  BY <1>1 DEF Rendered
<1>8. \A n, l \in tasks' : n.step # "end" /\ l.step # "end" /\ CopyOf(n) = CopyOf(l) => n = l
  BY <1>4 DEF CopiesInv, RenderedOnce
<1>9. ~Waits(c0) /\ ~Leaves(c0) /\ ~Answered(c0) /\ ~SentOff(c0)
  BY <1>3, <1>7 DEF CopiesInv, Apart
<1>10. \A c \in TileTask : /\ Waits(c)' <=> Waits(c)
                           /\ Leaves(c)' <=> Leaves(c)
                           /\ Answered(c)' <=> Answered(c)
  BY <1>1 DEF Waits, Leaves, Answered
<1>11. QueuedOnce' /\ AnsweredOnce'
  BY <1>1 DEF CopiesInv, QueuedOnce, AnsweredOnce
<1>12. ASSUME OwnerOf(k.tile) = k.worker PROVE CopiesInv'
  <2>1. parts' = [parts EXCEPT ![k.tile] = @ + 1] /\ UNCHANGED sent
    BY <1>1, <1>12
  <2>2. \A c \in TileTask : SentOff(c)' <=> SentOff(c)
    BY <2>1 DEF SentOff, CopyOf
  <2>3. frame[OwnerOf(k.tile)] = frame[0]
    <3>1. wpc[k.worker] # "idle"
      <4>1. k \in TasksOf(k.worker)
        BY DEF TasksOf
      <4> QED BY <1>3, <4>1 DEF IInv, TasksCounted
    <3> QED BY <1>3, <1>12, <3>1 DEF DealTypes, FramesInStep
  <2>4. RenderedOnce'
    BY <1>8, <2>1 DEF CopiesInv, RenderedOnce, CopyOf
  <2> HIDE DEF Waits, Leaves, Answered, Rendered, SentOff
  <2>5. Held(c0) /\ ~Held(c0)' /\ \A c \in TileTask : c # c0 => (Held(c)' <=> Held(c))
    BY <1>3, <1>6, <1>7, <1>9, <1>10, <2>2 DEF Held
  <2>6. Counted' /\ parts[c0.tile] # instances[c0.tile]
    <3> HIDE DEF c0, Held
    <3> QED BY <1>1, <1>3, <2>1, <2>3, <2>5, CopyArrives DEF CopiesInv
  <2>7. OwnersDone'
    BY <1>1, <1>3, <2>1, <2>6, OwnersStayDone DEF CopiesInv
  <2>8. Apart'
    BY <1>6, <1>10, <2>2 DEF CopiesInv, Apart
  <2> QED BY <1>11, <2>4, <2>6, <2>7, <2>8 DEF CopiesInv
<1>13. ASSUME OwnerOf(k.tile) # k.worker PROVE CopiesInv'
  <2>1. sent' = sent \cup {k} /\ UNCHANGED parts
    BY <1>1, <1>13
  <2>2. \A c \in TileTask : SentOff(c)' <=> SentOff(c) \/ c = c0
    BY <2>1 DEF SentOff, CopyOf
  <2>3. RenderedOnce'
    <3>1. \A l \in sent : CopyOf(l) # CopyOf(k)
      BY <1>9 DEF SentOff
    <3>2. \A n, l \in sent' : CopyOf(n) = CopyOf(l) => n = l
      BY <2>1, <3>1 DEF CopiesInv, RenderedOnce
    <3> QED BY <1>8, <3>2 DEF RenderedOnce, CopyOf
  <2>4. OwnersDone'
    BY <1>1, <2>1 DEF CopiesInv, OwnersDone
  <2>5. \A t \in Tile : Arrived(t)' = Arrived(t) /\ instances'[t] = instances[t]
    BY <1>1, <2>1 DEF Arrived
  <2> HIDE DEF Waits, Leaves, Answered, Rendered, SentOff, c0
  <2>6. Apart'
    BY <1>3, <1>6, <1>9, <1>10, <2>2 DEF CopiesInv, Apart
  <2>7. \A c \in TileTask : Held(c)' <=> Held(c)
    BY <1>6, <1>7, <1>10, <2>2 DEF Held
  <2>8. Counted'
    BY <2>5, <2>7, CopiesMoved DEF CopiesInv
  <2> QED BY <1>11, <2>3, <2>4, <2>6, <2>8 DEF CopiesInv
<1> QED BY <1>12, <1>13

\* The owner of the tile receives a part.
LEMMA CopiesDeliver ==
  ASSUME IInv, DealTypes, CopiesInv, NEW k \in sent, DeliverPart(k)
  PROVE  CopiesInv'
<1> DEFINE c0 == CopyOf(k)
<1>1. /\ UNCHANGED <<preferredTiles, call, answers, tasks, frame, instances, wpc>>
      /\ messaging[OwnerOf(k.tile)] /\ sent' = sent \ {k}
      /\ parts' = [parts EXCEPT ![k.tile] = @ + 1]
  BY DEF DeliverPart, master, dealing, slave, net
<1>2. c0 \in TileTask /\ c0.tile = k.tile /\ k.tile \in Tile
  BY CopyOfTask DEF TileTask
<1>3. OwnerOf(k.tile) \in Worker
  BY <1>2, NumbersAre
<1>4. frame[OwnerOf(k.tile)] = frame[0]
  BY <1>1, <1>3 DEF IInv, TasksCounted, DealTypes, FramesInStep
<1>5. \A c \in TileTask : SentOff(c)' <=> SentOff(c) /\ c # c0
  BY <1>1 DEF SentOff, CopyOf, CopiesInv, RenderedOnce
<1>6. SentOff(c0)
  BY DEF SentOff
<1>7. ~Waits(c0) /\ ~Leaves(c0) /\ ~Answered(c0) /\ ~Rendered(c0)
  BY <1>2, <1>6 DEF CopiesInv, Apart
<1>8. \A c \in TileTask : /\ Waits(c)' <=> Waits(c)
                          /\ Leaves(c)' <=> Leaves(c)
                          /\ Answered(c)' <=> Answered(c)
                          /\ Rendered(c)' <=> Rendered(c)
  BY <1>1 DEF Waits, Leaves, Answered, Rendered, CopyOf
<1>9. QueuedOnce' /\ AnsweredOnce' /\ RenderedOnce'
  BY <1>1 DEF CopiesInv, QueuedOnce, AnsweredOnce, RenderedOnce, CopyOf
<1> HIDE DEF Waits, Leaves, Answered, Rendered, SentOff, c0
<1>10. Held(c0) /\ ~Held(c0)' /\ \A c \in TileTask : c # c0 => (Held(c)' <=> Held(c))
  BY <1>2, <1>5, <1>6, <1>7, <1>8 DEF Held
<1>11. Counted' /\ parts[c0.tile] # instances[c0.tile]
  <2> HIDE DEF Held
  <2> QED BY <1>1, <1>2, <1>4, <1>10, CopyArrives DEF CopiesInv
<1>12. OwnersDone'
  BY <1>1, <1>2, <1>11, OwnersStayDone DEF CopiesInv
<1>13. Apart'
  BY <1>5, <1>8 DEF CopiesInv, Apart
<1> QED BY <1>9, <1>11, <1>12, <1>13 DEF CopiesInv

\* What does not touch the tiles.
LEMMA CopiesElsewhere ==
  ASSUME CopiesInv,
         UNCHANGED <<preferredTiles, call, answers, tasks, sent, parts, frame, instances, wpc>>
  PROVE  CopiesInv'
<1>1. /\ QueuedOnce' /\ AnsweredOnce' /\ RenderedOnce' /\ OwnersDone'
  BY DEF CopiesInv, QueuedOnce, AnsweredOnce, RenderedOnce, OwnersDone, CopyOf
<1>2. \A c \in TileTask : /\ Waits(c)' <=> Waits(c)
                          /\ Leaves(c)' <=> Leaves(c)
                          /\ Answered(c)' <=> Answered(c)
                          /\ Rendered(c)' <=> Rendered(c)
                          /\ SentOff(c)' <=> SentOff(c)
  BY DEF Waits, Leaves, Answered, Rendered, SentOff, CopyOf
<1>3. \A t \in Tile : Arrived(t)' = Arrived(t) /\ instances'[t] = instances[t]
  BY DEF Arrived
<1> QED BY <1>1, <1>2, <1>3, CopiesKept DEF CopiesInv

\* A worker begins a frame without parts, and leaves the wait for them with
\* all of them.
LEMMA CopiesWorker ==
  ASSUME DealTypes, CopiesInv, NEW w \in Worker, WorkerMain(w)
  PROVE  CopiesInv'
<1>1. UNCHANGED <<preferredTiles, call, answers, tasks, sent, instances>>
  BY DEF WorkerMain, StartWorker, ActivateFrame, WorkerDone, WorkerLeaves, WorkerStops,
         WorkerDrains, WorkerGoto, master, dealing, tiles, net
<1>2. /\ \A c \in TileTask : /\ Waits(c)' <=> Waits(c)
                             /\ Leaves(c)' <=> Leaves(c)
                             /\ Answered(c)' <=> Answered(c)
                             /\ Rendered(c)' <=> Rendered(c)
                             /\ SentOff(c)' <=> SentOff(c)
      /\ QueuedOnce' /\ AnsweredOnce' /\ RenderedOnce'
  BY <1>1 DEF Waits, Leaves, Answered, Rendered, SentOff, CopyOf, CopiesInv, QueuedOnce,
              AnsweredOnce, RenderedOnce
<1>3. (\A t \in Tile : Arrived(t)' = Arrived(t)) /\ OwnersDone'
  <2>1. CASE StartWorker(w)
    <3>1. /\ wpc[w] = "idle" /\ frame[w] < frame[0]
          /\ wpc' = [wpc EXCEPT ![w] = "begin"] /\ frame' = [frame EXCEPT ![w] = @ + 1]
          /\ parts' = [t \in Tile |-> IF OwnerOf(t) = w THEN 0 ELSE parts[t]]
      BY <2>1 DEF StartWorker
    <3>2. /\ wpc'[w] = "begin" /\ frame'[w] = frame[w] + 1 /\ frame'[0] = frame[0]
          /\ \A v \in Worker : v # w => wpc'[v] = wpc[v] /\ frame'[v] = frame[v]
      BY <3>1, NumbersAre DEF DealTypes, TypeOK
    <3>3. frame'[w] = frame[0] /\ frame[w] # frame[0]
      <4>1. frame[w] \in Int /\ frame[0] \in Int
        BY NumbersAre DEF DealTypes, TypeOK
      <4> QED BY <3>1, <3>2, <4>1 DEF DealTypes, FramesInStep
    <3>4. \A t \in Tile : parts'[t] = IF OwnerOf(t) = w THEN 0 ELSE parts[t]
      BY <3>1
    <3>5. ASSUME NEW t \in Tile PROVE Arrived(t)' = Arrived(t)
      <4>1. OwnerOf(t) \in Worker
        BY NumbersAre
      <4> QED BY <3>2, <3>3, <3>4, <4>1 DEF Arrived
    <3>6. OwnersDone'
      BY <1>1, <3>2, <3>4 DEF CopiesInv, OwnersDone
    <3> QED BY <3>5, <3>6
  <2>2. CASE ~StartWorker(w)
    <3>1. /\ UNCHANGED <<frame, parts>>
          /\ \E l \in {"idle", "wait", "ibarrier", "stop", "drain"} :
               /\ wpc' = [wpc EXCEPT ![w] = l]
               /\ \/ l = "wait"
                  \/ \A t \in Tile : OwnerOf(t) = w => parts[t] = instances[t]
                  \/ wpc[w] \in {"ibarrier", "stop", "drain"}
      BY <2>2 DEF WorkerMain, ActivateFrame, WorkerDone, WorkerLeaves, WorkerStops,
                  WorkerDrains, WorkerGoto, tiles
    <3>2. PICK l \in {"idle", "wait", "ibarrier", "stop", "drain"} :
               /\ wpc' = [wpc EXCEPT ![w] = l]
               /\ \/ l = "wait"
                  \/ \A t \in Tile : OwnerOf(t) = w => parts[t] = instances[t]
      BY <3>1 DEF CopiesInv, OwnersDone
    <3>3. wpc'[w] = l /\ \A v \in Worker : v # w => wpc'[v] = wpc[v]
      BY <3>2 DEF DealTypes, TypeOK
    <3>4. OwnersDone'
      BY <1>1, <3>1, <3>2, <3>3 DEF CopiesInv, OwnersDone
    <3> QED BY <3>1, <3>4 DEF Arrived
  <2> QED BY <2>1, <2>2
<1>4. \A t \in Tile : instances'[t] = instances[t]
  BY <1>1
<1>5. Apart' /\ Counted'
  BY <1>2, <1>3, <1>4, CopiesKept DEF CopiesInv
<1> QED BY <1>2, <1>3, <1>5 DEF CopiesInv

\* Between frames all copies have come to the owners.
LEMMA NothingHeld ==
  ASSUME IInv, DealTypes, ToldOnce, CopiesInv, mpc = "idle",
         \A w \in Worker : wpc[w] = "idle" /\ frame[w] = frame[0]
  PROVE  /\ \A c \in TileTask : ~Held(c)
         /\ \A w \in Worker : preferredTiles[w] = <<>>
         /\ sent = {} /\ tasks = {}
<1>1. ASSUME NEW t \in Tile PROVE HeldOf(t) = {}
  <2>1. OwnerOf(t) \in Worker
    BY NumbersAre
  <2>2. Arrived(t) = instances[t]
    BY <2>1 DEF CopiesInv, OwnersDone, Arrived
  <2>3. Cardinality(HeldOf(t)) + Arrived(t) = instances[t]
    BY DEF CopiesInv, Counted
  <2>4. instances[t] \in Nat /\ Cardinality(HeldOf(t)) \in Nat
    BY CopiesFinite, NumbersAre DEF DealTypes, TypeOK
  <2>5. Cardinality(HeldOf(t)) = 0
    BY <2>2, <2>3, <2>4
  <2> QED BY <2>5, CopiesFinite, FS_EmptySet
<1>2. \A c \in TileTask : ~Held(c)
  <2>1. \A c \in TileTask : c.tile \in Tile
    BY DEF TileTask
  <2> HIDE DEF Held
  <2> QED BY <1>1, <2>1 DEF HeldOf
<1>3. ASSUME NEW w \in Worker PROVE preferredTiles[w] = <<>>
  <2>1. preferredTiles[w] \in Seq(TileTask)
    BY DEF DealTypes, TypeOK
  <2>2. preferredTiles[w] # <<>> => /\ 1 \in 1 .. Len(preferredTiles[w]) /\ 1 \in Nat
                                    /\ preferredTiles[w][1] \in TileTask
    BY <2>1
  <2>3. preferredTiles[w] # <<>> => Waits(preferredTiles[w][1])
    BY <2>2 DEF Waits
  <2> QED BY <1>2, <2>2, <2>3 DEF Held
<1>4. sent = {}
  <2>1. ASSUME NEW k \in sent PROVE FALSE
    <3>1. SentOff(CopyOf(k)) /\ CopyOf(k) \in TileTask
      BY CopyOfTask DEF SentOff
    <3> QED BY <1>2, <3>1 DEF Held
  <2> QED BY <2>1
<1>5. tasks = {}
  BY DEF IInv, TasksCounted, Types, TasksOf
<1> QED BY <1>2, <1>3, <1>4, <1>5

\* A frame begins with its copies in the queues of the owners of the tiles.
LEMMA CopiesStartFrame ==
  ASSUME IInv, DealTypes, ToldOnce, CopiesInv, StartFrame
  PROVE  CopiesInv'
<1>1. PICK active \in SUBSET Tile :
        \E first \in TileOrders(active), q \in ErrorOrders(active) :
          LET new == TileTasks(first, q) IN
          /\ preferredTiles' =
               [w \in Worker |-> preferredTiles[w] \o Chosen(new, OwnedBy(w, new))]
          /\ instances' = [t \in Tile |-> Cardinality({i \in DOMAIN new : new[i].tile = t})]
  BY DEF StartFrame
<1>2. PICK first \in TileOrders(active), q \in ErrorOrders(active) :
          LET new == TileTasks(first, q) IN
          /\ preferredTiles' =
               [w \in Worker |-> preferredTiles[w] \o Chosen(new, OwnedBy(w, new))]
          /\ instances' = [t \in Tile |-> Cardinality({i \in DOMAIN new : new[i].tile = t})]
  BY <1>1
<1> DEFINE new == TileTasks(first, q)
<1>3. /\ new \in Seq(TileTask) /\ Len(new) \in 0 .. NumTiles
      /\ \A i, j \in 1 .. Len(new) : new[i] = new[j] => i = j
  BY NewTasks
<1>4. /\ preferredTiles' = [w \in Worker |-> preferredTiles[w] \o Chosen(new, OwnedBy(w, new))]
      /\ instances' = [t \in Tile |-> Cardinality({i \in DOMAIN new : new[i].tile = t})]
  BY <1>2
<1> HIDE DEF new
<1>5. /\ mpc = "idle" /\ \A w \in Worker : wpc[w] = "idle" /\ frame[w] = frame[0]
      /\ frame' = [frame EXCEPT ![0] = @ + 1]
      /\ UNCHANGED <<call, wpc, answers, tasks, sent, parts>>
  BY DEF StartFrame, slave, tiles, net
<1>6. /\ \A w \in Worker : preferredTiles[w] = <<>>
      /\ sent = {} /\ tasks = {}
  BY <1>5, NothingHeld
<1>7. (\A w \in Worker : answers[w] = <<>>) /\ \A h \in Thread : call[h].step = "none"
  BY <1>5, NothingSent DEF NoCall
<1>8. \A w \in Worker : frame'[w] # frame'[0]
  <2>1. 0 \notin Worker /\ frame \in [{0} \cup Worker -> 0 .. MaxFrame] /\ MaxFrame \in Nat
    BY NumbersAre DEF DealTypes, TypeOK
  <2> QED BY <1>5, <2>1
<1> DEFINE mine(w) == Chosen(new, OwnedBy(w, new))
<1>9. ASSUME NEW w \in Worker
      PROVE  /\ preferredTiles'[w] = mine(w)
             /\ \A k \in 1 .. Len(mine(w)) : \E i \in OwnedBy(w, new) : mine(w)[k] = new[i]
             /\ \A i \in OwnedBy(w, new) : \E k \in 1 .. Len(mine(w)) : mine(w)[k] = new[i]
             /\ \A k, l \in 1 .. Len(mine(w)) : mine(w)[k] = mine(w)[l] => k = l
  <2>1. OwnedBy(w, new) \subseteq 1 .. Len(new)
    BY <1>3 DEF OwnedBy
  <2>2. /\ mine(w) \in Seq(TileTask)
        /\ \A k \in 1 .. Len(mine(w)) : \E i \in OwnedBy(w, new) : mine(w)[k] = new[i]
        /\ \A i \in OwnedBy(w, new) : \E k \in 1 .. Len(mine(w)) : mine(w)[k] = new[i]
        /\ \A k, l \in 1 .. Len(mine(w)) : mine(w)[k] = mine(w)[l] => k = l
    BY <1>3, <2>1, ChosenTasks
  <2>3. preferredTiles'[w] = <<>> \o mine(w)
    BY <1>4, <1>6
  <2> HIDE DEF mine
  <2>4. preferredTiles'[w] = mine(w)
    BY <2>2, <2>3
  <2> QED BY <2>2, <2>4
<1> HIDE DEF mine
<1>10. \A w \in Worker : \A i \in OwnedBy(w, new) :
         i \in 1 .. Len(new) /\ OwnerOf(new[i].tile) = w
  BY <1>3 DEF OwnedBy
<1>11. \A i \in 1 .. Len(new) : OwnerOf(new[i].tile) \in Worker
                                /\ i \in OwnedBy(OwnerOf(new[i].tile), new)
  <2> SUFFICES ASSUME NEW i \in 1 .. Len(new)
               PROVE  OwnerOf(new[i].tile) \in Worker /\ i \in OwnedBy(OwnerOf(new[i].tile), new)
    OBVIOUS
  <2>1. new[i] \in TileTask /\ i \in DOMAIN new
    BY <1>3
  <2>2. new[i].tile \in Tile
    BY <2>1 DEF TileTask
  <2>3. OwnerOf(new[i].tile) \in Worker
    BY <2>2, NumbersAre
  <2> QED BY <2>1, <2>3 DEF OwnedBy
<1>12. \A c \in TileTask : Waits(c)' <=> \E i \in 1 .. Len(new) : new[i] = c
  <2>1. ASSUME NEW c \in TileTask, Waits(c)' PROVE \E i \in 1 .. Len(new) : new[i] = c
    <3>1. PICK w \in Worker, k \in Nat :
            k \in 1 .. Len(preferredTiles'[w]) /\ preferredTiles'[w][k] = c
      BY <2>1 DEF Waits
    <3> QED BY <1>9, <1>10, <3>1
  <2>2. ASSUME NEW i \in 1 .. Len(new) PROVE Waits(new[i])'
    <3>1. PICK w \in Worker : i \in OwnedBy(w, new)
      BY <1>11
    <3>2. PICK k \in 1 .. Len(preferredTiles'[w]) : preferredTiles'[w][k] = new[i]
      BY <1>9, <3>1
    <3>3. k \in Nat
      BY <3>2
    <3> QED BY <3>2, <3>3 DEF Waits
  <2> QED BY <2>1, <2>2
<1>13. \A c \in TileTask : ~Leaves(c)' /\ ~Answered(c)' /\ ~Rendered(c)' /\ ~SentOff(c)'
  <2>1. \A w \in Worker : Len(answers'[w]) = 0
    BY <1>5, <1>7
  <2> QED BY <1>5, <1>6, <1>7, <2>1 DEF Leaves, Answered, Rendered, SentOff
<1>14. QueuedOnce'
  <2>1. ASSUME NEW v \in Worker, NEW w \in Worker,
               NEW k \in 1 .. Len(preferredTiles'[v]), NEW l \in 1 .. Len(preferredTiles'[w]),
               preferredTiles'[v][k] = preferredTiles'[w][l]
        PROVE  v = w /\ k = l
    <3>1. PICK i \in OwnedBy(v, new) : mine(v)[k] = new[i]
      BY <1>9
    <3>2. PICK j \in OwnedBy(w, new) : mine(w)[l] = new[j]
      BY <1>9
    <3>3. i = j /\ v = w
      BY <1>3, <1>9, <1>10, <2>1, <3>1, <3>2
    <3> QED BY <1>9, <2>1, <3>3
  <2> QED BY <1>5, <1>7, <2>1 DEF QueuedOnce
<1>15. AnsweredOnce' /\ RenderedOnce' /\ OwnersDone'
  <2>1. \A w \in Worker : Len(answers'[w]) = 0
    BY <1>5, <1>7
  <2> QED BY <1>5, <1>6, <1>8, <2>1 DEF AnsweredOnce, RenderedOnce, OwnersDone
<1>16. Apart'
  <2> HIDE DEF Waits, Leaves, Answered, Rendered, SentOff
  <2> QED BY <1>13 DEF Apart
<1>17. ASSUME NEW t \in Tile PROVE Cardinality(HeldOf(t)') + Arrived(t)' = instances'[t]
  <2> DEFINE I == {i \in DOMAIN new : new[i].tile = t}
             C == {c \in TileTask : c.tile = t /\ \E i \in 1 .. Len(new) : new[i] = c}
             f == [i \in I |-> new[i]]
  <2>1. HeldOf(t)' = C
    <3> HIDE DEF Waits, Leaves, Answered, Rendered, SentOff
    <3>1. \A c \in TileTask : Held(c)' <=> \E i \in 1 .. Len(new) : new[i] = c
      BY <1>12, <1>13 DEF Held
    <3> HIDE DEF Held
    <3> QED BY <3>1 DEF HeldOf
  <2>2. I \subseteq 1 .. Len(new) /\ IsFiniteSet(I) /\ Cardinality(I) \in Nat
    <3>1. IsFiniteSet(1 .. Len(new)) /\ I \subseteq 1 .. Len(new)
      BY <1>3, UpTo
    <3> QED BY <3>1, FS_Subset, FS_CardinalityType
  <2>3. f \in Bijection(I, C)
    <3>1. \A i \in I : i \in 1 .. Len(new) /\ new[i] \in C
      BY <1>3
    <3>2. \A c \in C : \E i \in I : new[i] = c
      BY <1>3
    <3> HIDE DEF I, C
    <3>3. f \in [I -> C]
      BY <3>1
    <3>4. \A i, j \in I : f[i] = f[j] => i = j
      BY <1>3, <3>1
    <3>5. \A c \in C : \E i \in I : f[i] = c
      BY <3>2
    <3> HIDE DEF f
    <3>6. f \in Injection(I, C)
      BY <3>3, <3>4 DEF Injection, IsInjective
    <3>7. f \in Surjection(I, C)
      BY <3>3, <3>5 DEF Surjection
    <3> QED BY <3>6, <3>7 DEF Bijection
  <2>4. Cardinality(C) = Cardinality(I)
    <3> HIDE DEF I, C, f
    <3> QED BY <2>2, <2>3, FS_Bijection DEF ExistsBijection
  <2>5. instances'[t] = Cardinality(I)
    BY <1>4
  <2>6. Arrived(t)' = 0
    BY <1>8, NumbersAre DEF Arrived
  <2> HIDE DEF I, C
  <2> QED BY <2>1, <2>2, <2>4, <2>5, <2>6
<1>18. Counted'
  BY <1>17 DEF Counted
<1> QED BY <1>14, <1>15, <1>16, <1>18 DEF CopiesInv
-----------------------------------------------------------------------------
\* Each master thread that calls scheduleTile is alone in it, or raced.
LEMMA CopiesPreserved ==
  ASSUME IInv, DealTypes, ToldOnce, CopiesInv, [Next]_vars, ~raced'
  PROVE  CopiesInv'
<1>1. ASSUME MasterMain PROVE CopiesInv'
  <2>1. ASSUME DealInAdvance PROVE CopiesInv'
    <3>1. /\ PickTile("main", Head(toDeal)) /\ "main" \in Thread
          /\ ~Races("main") /\ call["main"] = NoCall
          /\ UNCHANGED <<preferredTiles, answers, tasks, sent, parts, frame, instances, wpc>>
      BY <2>1 DEF DealInAdvance, Thread, slave, tiles, net
    <3>2. Head(toDeal) \in Worker
      BY <2>1 DEF DealInAdvance, DealTypes, TypeOK
    <3> QED BY <3>1, <3>2, CopiesPick
  <2>2. ASSUME MasterWaits \/ MasterDone \/ MasterLeaves \/ MasterStops PROVE CopiesInv'
    <3>1. UNCHANGED <<preferredTiles, call, answers, tasks, sent, parts, frame, instances, wpc>>
      BY <2>2 DEF MasterWaits, MasterDone, MasterLeaves, MasterStops, MasterGoto, dealing, slave,
                  tiles, net
    <3> QED BY <3>1, CopiesElsewhere
  <2> QED BY <1>1, <2>1, <2>2, CopiesStartFrame DEF MasterMain
<1>2. ASSUME NEW w \in Worker, Incoming(w) PROVE CopiesInv'
  <2>1. /\ PickTile("inbox", w) /\ "inbox" \in Thread /\ ~Races("inbox") /\ call["inbox"] = NoCall
        /\ UNCHANGED <<preferredTiles, answers, tasks, sent, parts, frame, instances, wpc>>
    BY <1>2 DEF Incoming, Thread, master, slave, tiles
  <2> QED BY <2>1, CopiesPick
<1>3. ASSUME NEW h \in Thread, Dealing(h) PROVE CopiesInv'
  BY <1>3, CopiesPop, CopiesClose, CopiesSend DEF Dealing
<1>4. ASSUME NEW k \in tasks, TaskStep(k) PROVE CopiesInv'
  BY <1>4, CopiesRender, CopiesSet DEF TaskStep
<1>5. ASSUME UNCHANGED vars PROVE CopiesInv'
  BY <1>5, CopiesElsewhere DEF vars, master, dealing, slave, tiles, net
<1> QED BY <1>1, <1>2, <1>3, <1>4, <1>5, CopiesReceive, CopiesWorker, CopiesDeliver DEF Next

\* Before the first frame there is nothing to deal out.
LEMMA DealStart == Init => DealInv
<1> SUFFICES ASSUME Init PROVE DealInv
  OBVIOUS
<1>1. DealTypes
  BY TypesStart
<1>2. /\ mpc = "idle" /\ \A w \in Worker : wpc[w] = "idle" /\ frame[w] = 0
      /\ frame[0] = 0 /\ tasks = {} /\ sent = {}
      /\ \A w \in Worker : Len(answers[w]) = 0 /\ Len(preferredTiles[w]) = 0
      /\ \A h \in Thread : call[h] = NoCall
      /\ \A t \in Tile : parts[t] = 0 /\ instances[t] = 0
  BY DEF Init
<1>3. ToldOnce
  BY <1>2 DEF ToldOnce, Told
<1>4. \A c \in TileTask : ~Waits(c) /\ ~Leaves(c) /\ ~Answered(c) /\ ~Rendered(c) /\ ~SentOff(c)
  <2>1. \A h \in Thread : call[h].step = "none"
    BY <1>2 DEF NoCall
  <2> QED BY <1>2, <2>1 DEF Waits, Leaves, Answered, Rendered, SentOff
<1>5. QueuedOnce /\ AnsweredOnce /\ RenderedOnce /\ OwnersDone
  <2>1. \A h \in Thread : call[h].step = "none"
    BY <1>2 DEF NoCall
  <2> QED BY <1>2, <2>1 DEF QueuedOnce, AnsweredOnce, RenderedOnce, OwnersDone
<1>6. Apart
  BY <1>4 DEF Apart
<1>7. Counted
  <2>1. ASSUME NEW t \in Tile PROVE Cardinality(HeldOf(t)) + Arrived(t) = instances[t]
    <3>1. HeldOf(t) = {}
      BY <1>4 DEF HeldOf, Held
    <3>2. Cardinality(HeldOf(t)) = 0
      BY <3>1, FS_EmptySet, Zenon
    <3>3. Arrived(t) = 0
      BY <1>2 DEF Arrived
    <3> QED BY <1>2, <3>2, <3>3
  <2> QED BY <2>1 DEF Counted
<1> QED BY <1>1, <1>3, <1>5, <1>6, <1>7 DEF DealInv, CopiesInv

\* Two threads that have been in scheduleTile at once stay so.
LEMMA RacedStays == ASSUME [Next]_vars, raced PROVE raced'
<1>1. ASSUME MasterMain PROVE raced'
  BY <1>1 DEF MasterMain, StartFrame, DealInAdvance, MasterWaits, MasterDone, MasterLeaves,
              MasterStops, MasterGoto, dealing
<1>2. ASSUME NEW h \in Thread, Dealing(h) PROVE raced'
  BY <1>2 DEF Dealing, PopTile, CloseFrame, SendAnswer
<1>3. ASSUME NEW w \in Worker, Incoming(w) \/ WorkerMain(w) \/ Receive(w) PROVE raced'
  BY <1>3 DEF Incoming, WorkerMain, StartWorker, ActivateFrame, WorkerDone, WorkerLeaves,
              WorkerStops, WorkerDrains, WorkerGoto, Receive, dealing
<1>4. ASSUME NEW k, TaskStep(k) \/ DeliverPart(k) PROVE raced'
  BY <1>4 DEF TaskStep, RenderTask, SetTile, EndTask, DeliverPart, dealing
<1>5. ASSUME UNCHANGED vars PROVE raced'
  BY <1>5 DEF vars, dealing
<1> QED BY <1>1, <1>2, <1>3, <1>4, <1>5 DEF Next

\* The inductive invariant of the tiles and of what the workers are told
\* (dynamicLoadBalancer::Master and Slave).
THEOREM DealInvariance == Spec => [](IInv /\ DealInv)
<1>1. Init => IInv /\ DealInv
  BY InitIInv, DealStart
<1>2. IInv /\ DealInv /\ [Next]_vars => IInv' /\ DealInv'
  <2> SUFFICES ASSUME IInv, DealInv, [Next]_vars PROVE IInv' /\ DealInv'
    OBVIOUS
  <2>1. IInv' /\ DealTypes'
    BY TypesKept DEF DealInv
  <2>2. ASSUME ~raced' PROVE ToldOnce' /\ CopiesInv'
    <3>1. ~raced
      BY <2>2, RacedStays
    <3> QED BY <2>2, <3>1, ToldKept, CopiesPreserved DEF DealInv
  <2> QED BY <2>1, <2>2 DEF DealInv
<1> QED BY <1>1, <1>2, PTL DEF Spec

\* A worker that has been told that there are no more tiles is sent nothing
\* else (scheduleTile, Slave::incoming).
THEOREM ExhaustedEnds == Spec => []ExhaustedIsLastUnlessRaced
<1>1. DealInv => ExhaustedIsLastUnlessRaced
  <2> SUFFICES ASSUME DealTypes, ToldOnce PROVE ExhaustedIsLast
    BY DEF DealInv, ExhaustedIsLastUnlessRaced
  <2>1. ASSUME NEW w \in Worker
        PROVE  /\ \A i \in DOMAIN answers[w] : answers[w][i] = Exhausted => i = Len(answers[w])
               /\ wpc[w] \in {"wait", "ibarrier", "stop", "drain"} /\ ~tilesAvailable[w]
                    => answers[w] = <<>>
    <3>1. DOMAIN answers[w] = 1 .. Len(answers[w])
      BY DEF DealTypes, TypeOK
    <3>2. \A i \in DOMAIN answers[w] : answers[w][i] = Exhausted => i = Len(answers[w])
      BY <3>1 DEF ToldOnce
    <3>3. wpc[w] # "idle" /\ ~tilesAvailable[w] => answers[w] = <<>>
      BY DEF ToldOnce, Told
    <3> QED BY <3>2, <3>3
  <2> QED BY <2>1 DEF ExhaustedIsLast
<1> QED BY <1>1, DealInvariance, PTL

\* The copies of t with tasks, or on their way to its owner, as tasks.
LEMMA OnTheirWay ==
  ASSUME DealTypes, CopiesInv, NEW t \in Tile
  PROVE  /\ [k \in Rendering(t) |-> CopyOf(k)]
              \in Bijection(Rendering(t), {c \in TileTask : c.tile = t /\ Rendered(c)})
         /\ [k \in Sent(t) |-> CopyOf(k)]
              \in Bijection(Sent(t), {c \in TileTask : c.tile = t /\ SentOff(c)})
<1>1. ASSUME NEW K, NEW C, \A k \in K : CopyOf(k) \in C,
             \A k, l \in K : CopyOf(k) = CopyOf(l) => k = l,
             \A c \in C : \E k \in K : CopyOf(k) = c
      PROVE  [k \in K |-> CopyOf(k)] \in Bijection(K, C)
  <2> DEFINE f == [k \in K |-> CopyOf(k)]
  <2>1. f \in [K -> C] /\ (\A k, l \in K : f[k] = f[l] => k = l) /\ \A c \in C : \E k \in K : f[k] = c
    <3> HIDE DEF CopyOf
    <3> QED BY <1>1
  <2> HIDE DEF f
  <2>2. f \in Injection(K, C) /\ f \in Surjection(K, C)
    BY <2>1 DEF Injection, IsInjective, Surjection
  <2>3. f \in Bijection(K, C)
    BY <2>2 DEF Bijection
  <2> QED BY <2>3 DEF f
<1>2. [k \in Rendering(t) |-> CopyOf(k)]
        \in Bijection(Rendering(t), {c \in TileTask : c.tile = t /\ Rendered(c)})
  <2> DEFINE C == {c \in TileTask : c.tile = t /\ Rendered(c)}
  <2>1. \A k \in Rendering(t) : CopyOf(k) \in C
    <3> SUFFICES ASSUME NEW k \in Rendering(t) PROVE CopyOf(k) \in C
      OBVIOUS
    <3>1. k \in tasks /\ k.tile = t /\ k.step # "end"
      BY DEF Rendering
    <3> QED BY <3>1, CopyOfTask DEF Rendered
  <2>2. \A k, l \in Rendering(t) : CopyOf(k) = CopyOf(l) => k = l
    BY DEF Rendering, CopiesInv, RenderedOnce
  <2>3. \A c \in C : \E k \in Rendering(t) : CopyOf(k) = c
    <3> SUFFICES ASSUME NEW c \in C PROVE \E k \in Rendering(t) : CopyOf(k) = c
      OBVIOUS
    <3>1. PICK k \in tasks : k.step # "end" /\ CopyOf(k) = c
      BY DEF Rendered
    <3>2. k.tile = t
      BY <3>1, CopyOfTask
    <3> QED BY <3>1, <3>2 DEF Rendering
  <2> HIDE DEF C
  <2>4. [k \in Rendering(t) |-> CopyOf(k)] \in Bijection(Rendering(t), C)
    BY <1>1, <2>1, <2>2, <2>3
  <2> QED BY <2>4 DEF C
<1>3. [k \in Sent(t) |-> CopyOf(k)]
        \in Bijection(Sent(t), {c \in TileTask : c.tile = t /\ SentOff(c)})
  <2> DEFINE C == {c \in TileTask : c.tile = t /\ SentOff(c)}
  <2>1. \A k \in Sent(t) : CopyOf(k) \in C
    <3> SUFFICES ASSUME NEW k \in Sent(t) PROVE CopyOf(k) \in C
      OBVIOUS
    <3>1. k \in sent /\ k.tile = t
      BY DEF Sent
    <3> QED BY <3>1, CopyOfTask DEF SentOff
  <2>2. \A k, l \in Sent(t) : CopyOf(k) = CopyOf(l) => k = l
    BY DEF Sent, CopiesInv, RenderedOnce
  <2>3. \A c \in C : \E k \in Sent(t) : CopyOf(k) = c
    <3> SUFFICES ASSUME NEW c \in C PROVE \E k \in Sent(t) : CopyOf(k) = c
      OBVIOUS
    <3>1. PICK k \in sent : CopyOf(k) = c
      BY DEF SentOff
    <3>2. k.tile = t
      BY <3>1, CopyOfTask
    <3> QED BY <3>1, <3>2 DEF Sent
  <2> HIDE DEF C
  <2>4. [k \in Sent(t) |-> CopyOf(k)] \in Bijection(Sent(t), C)
    BY <1>1, <2>1, <2>2, <2>3
  <2> QED BY <2>4 DEF C
<1> QED BY <1>2, <1>3

\* Of apart sets the copies add up.
LEMMA AddUp ==
  ASSUME NEW Q, NEW A, NEW R, NEW S, NEW H, H = Q \cup A \cup R \cup S, IsFiniteSet(H),
         \A c \in H : /\ c \in Q => c \notin A /\ c \notin R /\ c \notin S
                      /\ c \in A => c \notin R /\ c \notin S
                      /\ c \in R => c \notin S
  PROVE  /\ Cardinality(Q) + Cardinality(A) + Cardinality(R) + Cardinality(S) = Cardinality(H)
         /\ IsFiniteSet(R) /\ IsFiniteSet(S)
<1> DEFINE QA == Q \cup A
           QAR == QA \cup R
<1>0. Q \cap A = {} /\ QA \cap R = {} /\ QAR \cap S = {} /\ H = QAR \cup S
  <2>1. Q \subseteq H /\ A \subseteq H /\ R \subseteq H /\ H = QAR \cup S
    OBVIOUS
  <2>2. Q \cap A = {}
    BY <2>1
  <2>3. QA \cap R = {}
    BY <2>1
  <2>4. QAR \cap S = {}
    BY <2>1
  <2> QED BY <2>1, <2>2, <2>3, <2>4
<1>a. Cardinality({}) = 0
  BY FS_EmptySet
<1>b. Cardinality(Q \cap A) = 0 /\ Cardinality(QA \cap R) = 0 /\ Cardinality(QAR \cap S) = 0
  BY <1>0, <1>a, Zenon
<1>1. IsFiniteSet(Q) /\ IsFiniteSet(A) /\ IsFiniteSet(R) /\ IsFiniteSet(S)
  BY FS_Subset
<1>2. Cardinality(QA) = Cardinality(Q) + Cardinality(A) /\ IsFiniteSet(QA)
  <2>1. Cardinality(QA) = Cardinality(Q) + Cardinality(A) - Cardinality(Q \cap A) /\ IsFiniteSet(QA)
    BY <1>1, FS_Union
  <2> QED BY <1>1, <1>b, <2>1, FS_CardinalityType
<1> HIDE DEF QA
<1>3. Cardinality(QAR) = Cardinality(QA) + Cardinality(R) /\ IsFiniteSet(QAR)
  <2>1. Cardinality(QAR) = Cardinality(QA) + Cardinality(R) - Cardinality(QA \cap R) /\ IsFiniteSet(QAR)
    BY <1>1, <1>2, FS_Union
  <2> QED BY <1>1, <1>2, <1>b, <2>1, FS_CardinalityType
<1> HIDE DEF QAR
<1>4. Cardinality(H) = Cardinality(QAR) + Cardinality(S)
  <2>1. Cardinality(QAR \cup S) = Cardinality(QAR) + Cardinality(S) - Cardinality(QAR \cap S)
    BY <1>1, <1>3, FS_Union
  <2>2. Cardinality(QAR) \in Nat /\ Cardinality(S) \in Nat
    BY <1>1, <1>3, FS_CardinalityType
  <2>3. Cardinality(QAR \cup S) = Cardinality(QAR) + Cardinality(S)
    BY <1>b, <2>1, <2>2
  <2> QED BY <1>0, <2>3, Zenon
<1> QED BY <1>1, <1>2, <1>3, <1>4, FS_CardinalityType

\* No copy of a tile is lost or rendered twice between the master's queue and
\* the tile's owner (generateTileTasks, scheduleTile, tileTask, setTile).
THEOREM TilesOnce == Spec => []EveryTileOnce
<1>1. DealInv => EveryTileOnce
  <2> SUFFICES ASSUME DealTypes, ToldOnce, CopiesInv, NEW t \in Tile, frame[OwnerOf(t)] = frame[0]
               PROVE  Cardinality(Queued(t)) + Cardinality(Answering(t)) +
                        Cardinality(Rendering(t)) + Cardinality(Sent(t)) + parts[t] = instances[t]
    BY DEF DealInv, DealTypes, EveryTileOnce
  <2> DEFINE Q == {c \in TileTask : c.tile = t /\ Waits(c)}
             A == {c \in TileTask : c.tile = t /\ (Leaves(c) \/ Answered(c))}
             R == {c \in TileTask : c.tile = t /\ Rendered(c)}
             S == {c \in TileTask : c.tile = t /\ SentOff(c)}
  <2>1. \A c : c \in Dealt(t) <=> c \in TileTask /\ c.tile = t
    BY DEF Dealt, TileTask
  <2>2. Queued(t) = Q /\ Answering(t) = A
    <3>1. \A c \in TileTask : Waits(c) <=> \E w \in Worker : Contains(preferredTiles[w], c)
      <4>1. \A w \in Worker : \A i \in 1 .. Len(preferredTiles[w]) : i \in Nat
        OBVIOUS
      <4> QED BY <4>1 DEF Waits, Contains
    <3>2. \A c \in TileTask : Answered(c) <=> \E w \in Worker : Contains(answers[w], c)
      <4>1. \A w \in Worker : \A i \in 1 .. Len(answers[w]) : i \in Nat
        OBVIOUS
      <4> QED BY <4>1 DEF Answered, Contains
    <3>3. \A c \in TileTask : Leaves(c) <=> \E h \in Thread : call[h].step = "send" /\ call[h].answer = c
      BY DEF Leaves
    <3> HIDE DEF Waits, Answered, Leaves
    <3>4. Queued(t) = Q
      BY <2>1, <3>1 DEF Queued
    <3>5. Answering(t) = A
      BY <2>1, <3>2, <3>3 DEF Answering
    <3> QED BY <3>4, <3>5
  <2>3. Cardinality(Q) + Cardinality(A) + Cardinality(R) + Cardinality(S) = Cardinality(HeldOf(t))
        /\ IsFiniteSet(R) /\ IsFiniteSet(S)
    <3> HIDE DEF Waits, Leaves, Answered, Rendered, SentOff
    <3>1. HeldOf(t) = Q \cup A \cup R \cup S
      BY DEF HeldOf, Held
    <3>2. \A c \in HeldOf(t) : /\ c \in Q => c \notin A /\ c \notin R /\ c \notin S
                               /\ c \in A => c \notin R /\ c \notin S
                               /\ c \in R => c \notin S
      BY DEF CopiesInv, Apart
    <3>3. IsFiniteSet(HeldOf(t))
      BY CopiesFinite
    <3> HIDE DEF Q, A, R, S
    <3> QED BY <3>1, <3>2, <3>3, AddUp
  <2>4. Cardinality(Rendering(t)) = Cardinality(R) /\ Cardinality(Sent(t)) = Cardinality(S)
    <3>1. ExistsBijection(Rendering(t), R) /\ ExistsBijection(Sent(t), S)
      BY OnTheirWay DEF ExistsBijection
    <3> HIDE DEF R, S
    <3>2. ExistsBijection(R, Rendering(t)) /\ ExistsBijection(S, Sent(t))
      BY <3>1, Fun_ExistsBijSymmetric
    <3> QED BY <2>3, <3>2, FS_Bijection
  <2>5. Cardinality(HeldOf(t)) + parts[t] = instances[t]
    BY DEF CopiesInv, Counted, Arrived
  <2> HIDE DEF Q, A, R, S
  <2> QED BY <2>2, <2>3, <2>4, <2>5
<1> QED BY <1>1, DealInvariance, PTL
-----------------------------------------------------------------------------
(***************************************************************************)
(* Nobody waits for ever.  Where the ranks are at the end of a frame, what *)
(* the master has told, and what still comes from or to a worker that has  *)
(* not been told; then a state in which no step is possible is one of      *)
(* those that the property names.                                          *)
(***************************************************************************)

\* The worker has left the barrier at the end of the master's frame; so has
\* the master.
Past(w) == wpc[w] \in {"stop", "drain"} \/ (wpc[w] = "idle" /\ frame[w] = frame[0] /\ frame[0] # 0)
MasterPast == mpc = "stop" \/ (mpc = "idle" /\ frame[0] # 0)

\* Nobody leaves the barrier before all have come to it, and what runs between
\* the barriers runs exactly there.
BarrierInv ==
  /\ MasterPast \/ (\E w \in Worker : Past(w)) => AllAtEnd(frame[0])
  /\ \A w \in Worker :
       /\ messaging[w] <=> wpc[w] \in {"begin", "wait", "ibarrier", "stop"}
       /\ frameActive[w] <=> wpc[w] \in {"wait", "ibarrier", "stop", "drain"}
       /\ wpc[w] # "idle" => frame[0] # 0
  /\ mpc # "deal" => toDeal = <<>>

\* The master's frame is done when all workers have been notified, and a worker
\* is notified when no queue has a tile left.
NotifiedInv ==
  /\ mpc = "ibarrier" \/ MasterPast => masterIsDone
  /\ masterIsDone => \A w \in Worker : workerNotified[w]
  /\ (\A w \in Worker : workerNotified[w]) => masterIsDone \/ \E h \in Thread : call[h].step = "close"
  /\ \A w \in Worker : workerNotified[w] => \A v \in Worker : preferredTiles[v] = <<>>

\* The steps of the main threads.
LEMMA BarrierMaster == ASSUME DealTypes, BarrierInv, MasterMain PROVE BarrierInv'
<1>0. /\ UNCHANGED <<messaging, frameActive, wpc>>
      /\ frame \in [{0} \cup Worker -> 0 .. MaxFrame] /\ 0 \notin Worker /\ MaxFrame \in Nat
  BY NumbersAre DEF MasterMain, StartFrame, DealInAdvance, MasterWaits, MasterDone, MasterLeaves,
     MasterStops, MasterGoto, slave, DealTypes, TypeOK
<1>1. CASE StartFrame
  <2>1. /\ frame' = [frame EXCEPT ![0] = @ + 1] /\ mpc' = "deal"
        /\ \A w \in Worker : wpc[w] = "idle" /\ frame[w] = frame[0]
    BY <1>1 DEF StartFrame
  <2>2. frame'[0] # 0 /\ \A w \in Worker : frame'[w] # frame'[0]
    BY <1>0, <2>1
  <2>3. ~MasterPast' /\ \A w \in Worker : ~Past(w)'
    BY <1>0, <2>1, <2>2 DEF MasterPast, Past
  <2> QED BY <1>0, <2>1, <2>2, <2>3 DEF BarrierInv
<1>2. CASE ~StartFrame
  <2>1. /\ UNCHANGED frame
        /\ \/ mpc' = mpc /\ mpc = "deal" /\ toDeal # <<>>
           \/ UNCHANGED toDeal /\ mpc = "deal" /\ toDeal = <<>> /\ mpc' = "wait"
           \/ UNCHANGED toDeal /\ mpc = "wait" /\ mpc' = "ibarrier"
           \/ UNCHANGED toDeal /\ mpc = "ibarrier" /\ AllAtEnd(frame[0]) /\ mpc' = "stop"
           \/ UNCHANGED toDeal /\ mpc = "stop" /\ mpc' = "idle"
    BY <1>2 DEF MasterMain, DealInAdvance, MasterWaits, MasterDone, MasterLeaves, MasterStops,
                MasterGoto
  <2>2. \A w \in Worker : Past(w)' <=> Past(w)
    BY <1>0, <2>1 DEF Past
  <2>3. MasterPast' \/ (\E w \in Worker : Past(w)') => AllAtEnd(frame[0])
    <3>1. CASE mpc \in {"deal", "wait"}
      <4>1. ~AllAtEnd(frame[0])
        BY <3>1 DEF AllAtEnd, AtEnd
      <4>2. ~MasterPast'
        BY <2>1, <3>1 DEF MasterPast
      <4> QED BY <2>2, <4>1, <4>2 DEF BarrierInv
    <3>2. CASE mpc \in {"ibarrier", "stop"}
      BY <2>1, <2>2, <3>2 DEF BarrierInv, MasterPast
    <3> QED BY <2>1, <3>1, <3>2
  <2>4. AllAtEnd(frame[0]) /\ (MasterPast' \/ \E w \in Worker : Past(w)') => AllAtEnd(frame[0])'
    <3>1. CASE mpc \in {"deal", "wait"}
      BY <3>1 DEF AllAtEnd, AtEnd
    <3>2. CASE mpc \in {"ibarrier", "stop"}
      BY <1>0, <2>1, <3>2 DEF AllAtEnd, AtEnd
    <3> QED BY <2>1, <3>1, <3>2
  <2>5. mpc' # "deal" => toDeal' = <<>>
    BY <2>1 DEF BarrierInv
  <2> QED BY <1>0, <2>1, <2>3, <2>4, <2>5 DEF BarrierInv
<1> QED BY <1>1, <1>2

LEMMA BarrierWorker ==
  ASSUME DealTypes, BarrierInv, NEW w \in Worker, WorkerMain(w) PROVE BarrierInv'
<1>0. /\ UNCHANGED <<mpc, toDeal>>
      /\ frame \in [{0} \cup Worker -> 0 .. MaxFrame] /\ 0 \notin Worker /\ MaxFrame \in Nat
      /\ wpc \in [Worker -> WorkerPC] /\ messaging \in [Worker -> BOOLEAN]
      /\ frameActive \in [Worker -> BOOLEAN]
  BY NumbersAre DEF WorkerMain, StartWorker, ActivateFrame, WorkerDone, WorkerLeaves, WorkerStops,
     WorkerDrains, WorkerGoto, master, DealTypes, TypeOK, WorkerPC
<1>1. /\ \A v \in Worker \ {w} : /\ wpc'[v] = wpc[v] /\ messaging'[v] = messaging[v]
                                 /\ frameActive'[v] = frameActive[v] /\ frame'[v] = frame[v]
      /\ frame'[0] = frame[0]
  <2>1. CASE StartWorker(w)
    BY <1>0, <2>1 DEF StartWorker
  <2>2. CASE ActivateFrame(w)
    BY <1>0, <2>2 DEF ActivateFrame
  <2>3. CASE WorkerDone(w) \/ WorkerLeaves(w) \/ WorkerStops(w) \/ WorkerDrains(w)
    BY <1>0, <2>3 DEF WorkerDone, WorkerLeaves, WorkerStops, WorkerDrains, WorkerGoto
  <2> QED BY <2>1, <2>2, <2>3 DEF WorkerMain
<1>2. \A v \in Worker \ {w} : Past(v)' <=> Past(v)
  BY <1>1 DEF Past
<1>3. MasterPast' <=> MasterPast
  BY <1>0, <1>1 DEF MasterPast
<1>4. ASSUME ~AllAtEnd(frame[0]), ~Past(w)' PROVE ~MasterPast' /\ ~\E v \in Worker : Past(v)'
  BY <1>2, <1>3, <1>4 DEF BarrierInv
<1>5. ASSUME AllAtEnd(frame[0]), frame'[w] = frame[w], AtEnd(wpc'[w]) PROVE AllAtEnd(frame[0])'
  BY <1>0, <1>1, <1>5 DEF AllAtEnd
<1>6. ASSUME messaging'[w] <=> wpc'[w] \in {"begin", "wait", "ibarrier", "stop"},
             frameActive'[w] <=> wpc'[w] \in {"wait", "ibarrier", "stop", "drain"},
             frame[0] # 0,
             MasterPast' \/ (\E v \in Worker : Past(v)') => AllAtEnd(frame[0])'
      PROVE  BarrierInv'
  BY <1>0, <1>1, <1>6 DEF BarrierInv
<1>7. /\ messaging[w] <=> wpc[w] \in {"begin", "wait", "ibarrier", "stop"}
      /\ frameActive[w] <=> wpc[w] \in {"wait", "ibarrier", "stop", "drain"}
      /\ wpc[w] # "idle" => frame[0] # 0 /\ frame[w] = frame[0]
      /\ frame[w] \in Nat /\ frame[0] \in Nat
  BY <1>0 DEF BarrierInv, DealTypes, FramesInStep
<1>8. CASE StartWorker(w)
  <2>1. /\ wpc'[w] = "begin" /\ messaging'[w] = TRUE /\ frameActive'[w] = frameActive[w]
        /\ wpc[w] = "idle" /\ frame[w] < frame[0]
    BY <1>0, <1>8 DEF StartWorker
  <2>2. ~AllAtEnd(frame[0]) /\ ~Past(w)' /\ frame[0] # 0
    BY <1>7, <2>1 DEF AllAtEnd, Past
  <2> QED BY <1>4, <1>6, <1>7, <2>1, <2>2
<1>9. CASE ActivateFrame(w) \/ WorkerDone(w)
  <2>1. \/ wpc[w] = "begin" /\ wpc'[w] = "wait" /\ frameActive'[w] = TRUE
        \/ wpc[w] = "wait" /\ wpc'[w] = "ibarrier" /\ frameActive'[w] = frameActive[w]
    BY <1>0, <1>9 DEF ActivateFrame, WorkerDone, WorkerGoto
  <2>2. messaging'[w] = messaging[w]
    BY <1>9 DEF ActivateFrame, WorkerDone
  <2>3. ~AllAtEnd(frame[0]) /\ ~Past(w)'
    BY <2>1 DEF AllAtEnd, AtEnd, Past
  <2> QED BY <1>4, <1>6, <1>7, <2>1, <2>2, <2>3
<1>10. CASE WorkerLeaves(w) \/ WorkerStops(w) \/ WorkerDrains(w)
  <2>1. /\ frame'[w] = frame[w]
        /\ \/ /\ wpc[w] = "ibarrier" /\ wpc'[w] = "stop" /\ AllAtEnd(frame[w])
              /\ messaging'[w] = messaging[w] /\ frameActive'[w] = frameActive[w]
           \/ /\ wpc[w] = "stop" /\ wpc'[w] = "drain"
              /\ messaging'[w] = FALSE /\ frameActive'[w] = frameActive[w]
           \/ /\ wpc[w] = "drain" /\ wpc'[w] = "idle"
              /\ messaging'[w] = messaging[w] /\ frameActive'[w] = FALSE
    BY <1>0, <1>10 DEF WorkerLeaves, WorkerStops, WorkerDrains, WorkerGoto
  <2>2. AllAtEnd(frame[0])
    BY <1>7, <2>1 DEF BarrierInv, Past
  <2>3. AllAtEnd(frame[0])'
    BY <1>5, <2>1, <2>2 DEF AtEnd
  <2> QED BY <1>6, <1>7, <2>1, <2>3
<1> QED BY <1>8, <1>9, <1>10 DEF WorkerMain

LEMMA BarrierKept == ASSUME DealTypes, BarrierInv, [Next]_vars PROVE BarrierInv'
<1>1. ASSUME UNCHANGED <<mpc, toDeal, frame, wpc, messaging, frameActive>> PROVE BarrierInv'
  BY <1>1 DEF BarrierInv, MasterPast, Past, AllAtEnd
<1>2. ASSUME NEW h \in Thread, Dealing(h)
      PROVE  UNCHANGED <<mpc, toDeal, frame, wpc, messaging, frameActive>>
  BY <1>2 DEF Dealing, PopTile, CloseFrame, SendAnswer, master, slave
<1>3. ASSUME NEW w \in Worker, Incoming(w) \/ Receive(w)
      PROVE  UNCHANGED <<mpc, toDeal, frame, wpc, messaging, frameActive>>
  BY <1>3 DEF Incoming, Receive, master, slave
<1>4. ASSUME NEW k, TaskStep(k) \/ DeliverPart(k)
      PROVE  UNCHANGED <<mpc, toDeal, frame, wpc, messaging, frameActive>>
  BY <1>4 DEF TaskStep, RenderTask, SetTile, EndTask, DeliverPart, master, slave
<1>5. ASSUME UNCHANGED vars PROVE UNCHANGED <<mpc, toDeal, frame, wpc, messaging, frameActive>>
  BY <1>5 DEF vars, master, slave
<1> QED BY <1>1, <1>2, <1>3, <1>4, <1>5, BarrierMaster, BarrierWorker DEF Next

\* scheduleTile decides.
LEMMA NotifiedCall ==
  ASSUME DealTypes, NotifiedInv, NEW h \in Thread, NEW w \in Worker, PickTile(h, w),
         UNCHANGED <<mpc, frame, masterIsDone, preferredTiles>>, call[h] = NoCall
  PROVE  NotifiedInv'
<1>1. /\ \A g \in Thread : g # h => call'[g] = call[g]
      /\ Refused(w) \/ Notified(h, w) \/ Chose(h, w)
  BY CallBegins DEF DealTypes, TypeOK
<1>2. MasterPast' <=> MasterPast
  BY DEF MasterPast
<1>3. workerNotified \in [Worker -> BOOLEAN] /\ NoCall.step = "none"
  BY DEF DealTypes, TypeOK, NoCall
<1>4. CASE Refused(w)
  BY <1>2, <1>4 DEF Refused, NotifiedInv
<1>5. CASE Notified(h, w)
  <2>1. /\ ~masterIsDone /\ call'[h].step = "close" /\ \A v \in Worker : preferredTiles'[v] = <<>>
    BY <1>5 DEF Notified, NotifiedInv
  <2> QED BY <1>2, <2>1 DEF NotifiedInv
<1>6. CASE Chose(h, w)
  <2>1. ~workerNotified'[w] /\ UNCHANGED workerNotified
    BY <1>6 DEF Chose
  <2> QED BY <1>2, <2>1 DEF NotifiedInv
<1> QED BY <1>1, <1>4, <1>5, <1>6

LEMMA NotifiedDealing ==
  ASSUME DealTypes, NotifiedInv, NEW h \in Thread, Dealing(h) PROVE NotifiedInv'
<1>0. /\ UNCHANGED <<mpc, frame, workerNotified>> /\ CallTypes /\ NoCall.step = "none"
      /\ preferredTiles \in [Worker -> Seq(TileTask)]
  BY DEF Dealing, PopTile, CloseFrame, SendAnswer, master, DealTypes, TypeOK, NoCall
<1>1. MasterPast' <=> MasterPast
  BY <1>0 DEF MasterPast
<1>2. CASE PopTile(h)
  <2>1. call[h] \in Giving
    BY <1>0, <1>2, CallGoes DEF PopTile
  <2>2. preferredTiles[call[h].from] # <<>> /\ call[h].from \in Worker
    BY <1>2, <2>1 DEF PopTile, Giving
  <2>3. \A v \in Worker : ~workerNotified[v]
    BY <2>2 DEF NotifiedInv
  <2>4. Worker # {} /\ UNCHANGED masterIsDone
    BY <1>2, NumbersAre DEF PopTile, master
  <2> QED BY <1>0, <1>1, <2>3, <2>4 DEF NotifiedInv
<1>3. CASE CloseFrame(h)
  <2>1. /\ masterIsDone' = (masterIsDone \/ \A w \in Worker : workerNotified[w])
        /\ UNCHANGED preferredTiles
    BY <1>3 DEF CloseFrame
  <2> QED BY <1>0, <1>1, <2>1 DEF NotifiedInv
<1>4. CASE SendAnswer(h)
  <2>1. call' = [call EXCEPT ![h] = NoCall] /\ call[h].step = "send"
        /\ UNCHANGED <<masterIsDone, preferredTiles>>
    BY <1>4 DEF SendAnswer, master
  <2>2. \A g \in Thread : call[g].step = "close" => call'[g].step = "close"
    BY <1>0, <2>1 DEF CallTypes
  <2> QED BY <1>0, <1>1, <2>1, <2>2 DEF NotifiedInv
<1> QED BY <1>2, <1>3, <1>4 DEF Dealing

LEMMA NotifiedMaster == ASSUME DealTypes, NotifiedInv, MasterMain PROVE NotifiedInv'
<1>1. CASE StartFrame
  <2>1. /\ mpc' = "deal" /\ masterIsDone' = FALSE /\ workerNotified' = [w \in Worker |-> FALSE]
    BY <1>1 DEF StartFrame
  <2>2. ~MasterPast' /\ Worker # {}
    BY <2>1, NumbersAre DEF MasterPast
  <2>3. \A w \in Worker : ~workerNotified'[w]
    BY <2>1
  <2> QED BY <2>1, <2>2, <2>3 DEF NotifiedInv
<1>2. CASE DealInAdvance
  <2>1. /\ PickTile("main", Head(toDeal)) /\ "main" \in Thread /\ call["main"] = NoCall
        /\ UNCHANGED <<mpc, frame, masterIsDone, preferredTiles>>
    BY <1>2 DEF DealInAdvance, Thread
  <2>2. Head(toDeal) \in Worker
    BY <1>2 DEF DealInAdvance, DealTypes, TypeOK
  <2> QED BY <2>1, <2>2, NotifiedCall
<1>3. CASE MasterWaits \/ MasterDone \/ MasterLeaves \/ MasterStops
  <2>1. /\ UNCHANGED <<masterIsDone, frame, preferredTiles, workerNotified, call>>
        /\ \/ mpc = "deal" /\ mpc' = "wait"
           \/ mpc = "wait" /\ masterIsDone /\ mpc' = "ibarrier"
           \/ mpc = "ibarrier" /\ mpc' = "stop"
           \/ mpc = "stop" /\ mpc' = "idle"
    BY <1>3 DEF MasterWaits, MasterDone, MasterLeaves, MasterStops, MasterGoto, dealing
  <2>2. mpc' = "ibarrier" \/ MasterPast' => masterIsDone
    BY <2>1 DEF NotifiedInv, MasterPast
  <2> QED BY <2>1, <2>2 DEF NotifiedInv
<1> QED BY <1>1, <1>2, <1>3 DEF MasterMain

LEMMA NotifiedKept == ASSUME DealTypes, NotifiedInv, [Next]_vars PROVE NotifiedInv'
<1>1. ASSUME UNCHANGED <<mpc, masterIsDone, preferredTiles, workerNotified, call>>, frame'[0] = frame[0]
      PROVE  NotifiedInv'
  BY <1>1 DEF NotifiedInv, MasterPast
<1>2. ASSUME NEW w \in Worker, Incoming(w) PROVE NotifiedInv'
  <2>1. /\ PickTile("inbox", w) /\ "inbox" \in Thread /\ call["inbox"] = NoCall
        /\ UNCHANGED <<mpc, frame, masterIsDone, preferredTiles>>
    BY <1>2 DEF Incoming, Thread, master
  <2> QED BY <2>1, NotifiedCall
<1>3. ASSUME NEW w \in Worker, WorkerMain(w) \/ Receive(w) PROVE NotifiedInv'
  <2>1. UNCHANGED <<mpc, masterIsDone, preferredTiles, workerNotified, call>>
    BY <1>3 DEF WorkerMain, StartWorker, ActivateFrame, WorkerDone, WorkerLeaves, WorkerStops,
                WorkerDrains, WorkerGoto, Receive, master, dealing
  <2>2. frame' = frame \/ frame' = [frame EXCEPT ![w] = @ + 1]
    BY <1>3 DEF WorkerMain, StartWorker, ActivateFrame, WorkerDone, WorkerLeaves, WorkerStops,
                WorkerDrains, WorkerGoto, Receive
  <2>3. frame'[0] = frame[0]
    BY <2>2, NumbersAre DEF DealTypes, TypeOK
  <2> QED BY <1>1, <2>1, <2>3
<1>4. ASSUME NEW k, TaskStep(k) \/ DeliverPart(k)
      PROVE  UNCHANGED <<mpc, masterIsDone, preferredTiles, workerNotified, call, frame>>
  BY <1>4 DEF TaskStep, RenderTask, SetTile, EndTask, DeliverPart, master, dealing
<1>5. ASSUME UNCHANGED vars
      PROVE  UNCHANGED <<mpc, masterIsDone, preferredTiles, workerNotified, call, frame>>
  BY <1>5 DEF vars, master, dealing
<1> QED BY <1>1, <1>2, <1>3, <1>4, <1>5, NotifiedDealing, NotifiedMaster DEF Next

\* tilesExhausted is on its way to the worker.
ExhaustedComes(w) ==
  \/ \E i \in 1 .. Len(answers[w]) : answers[w][i] = Exhausted
  \/ \E h \in Thread : call[h] # NoCall /\ call[h].worker = w /\ call[h].answer = Exhausted

\* Who has been notified has heard it, or will.
ToldSoon == \A w \in Worker : workerNotified[w] => Told(w) \/ ExhaustedComes(w)

LEMMA ToldSoonCall ==
  ASSUME DealTypes, ToldSoon, NEW h \in Thread, NEW w \in Worker, PickTile(h, w),
         UNCHANGED <<answers, frame, wpc, tilesAvailable>>, call[h] = NoCall
  PROVE  ToldSoon'
<1>1. /\ \A g \in Thread : g # h => call'[g] = call[g]
      /\ Refused(w) \/ Notified(h, w) \/ Chose(h, w)
  BY CallBegins DEF DealTypes, TypeOK
<1>2. \A v \in Worker : /\ Told(v)' <=> Told(v)
                        /\ ExhaustedComes(v) => ExhaustedComes(v)'
  BY <1>1 DEF Told, ExhaustedComes
<1> HIDE DEF Told
<1>3. CASE Refused(w) \/ Chose(h, w)
  BY <1>2, <1>3 DEF Refused, Chose, ToldSoon
<1>4. CASE Notified(h, w)
  <2>1. call'[h].worker = w /\ call'[h].answer = Exhausted /\ call'[h] # NoCall
    BY <1>4, Distinct DEF Notified, Closing
  <2>2. ExhaustedComes(w)'
    BY <2>1 DEF ExhaustedComes
  <2>3. \A v \in Worker : v # w => workerNotified'[v] = workerNotified[v]
    BY <1>4 DEF Notified, DealTypes, TypeOK
  <2> HIDE DEF ExhaustedComes
  <2> QED BY <1>2, <2>2, <2>3 DEF ToldSoon
<1> QED BY <1>1, <1>3, <1>4

LEMMA ToldSoonDealing ==
  ASSUME DealTypes, ToldSoon, NEW h \in Thread, Dealing(h) PROVE ToldSoon'
<1>1. /\ CallTypes /\ UNCHANGED <<workerNotified, frame, wpc, tilesAvailable>> /\ call[h] # NoCall
      /\ answers \in [Worker -> Seq(TileTask \cup {Exhausted})]
  BY DEF DealTypes, TypeOK, Dealing, PopTile, CloseFrame, SendAnswer, NoCall, slave, counts
<1>2. \A v \in Worker : Told(v)' <=> Told(v)
  BY <1>1 DEF Told
<1>3. ASSUME NEW v \in Worker, ExhaustedComes(v) PROVE ExhaustedComes(v)'
  <2>1. CASE PopTile(h) \/ CloseFrame(h)
    <3>1. /\ UNCHANGED answers
          /\ call'[h] # NoCall /\ call'[h].worker = call[h].worker /\ call'[h].answer = call[h].answer
          /\ \A g \in Thread : g # h => call'[g] = call[g]
      BY <1>1, <2>1, CallGoes DEF PopTile, CloseFrame, net
    <3>2. \A g \in Thread : /\ call[g] # NoCall => call'[g] # NoCall
                            /\ call'[g].worker = call[g].worker /\ call'[g].answer = call[g].answer
      BY <3>1
    <3> QED BY <1>3, <3>1, <3>2 DEF ExhaustedComes
  <2>2. CASE SendAnswer(h)
    <3> DEFINE w == call[h].worker
               a == call[h].answer
    <3>1. /\ answers' = [answers EXCEPT ![w] = Append(@, a)] /\ call' = [call EXCEPT ![h] = NoCall]
      BY <2>2 DEF SendAnswer
    <3>2. w \in Worker /\ a \in TileTask \cup {Exhausted}
      BY <1>1 DEF CallTypes, Closing, Giving
    <3> HIDE DEF w, a
    <3>3. /\ answers'[w] = Append(answers[w], a) /\ \A u \in Worker : u # w => answers'[u] = answers[u]
          /\ answers[w] \in Seq(TileTask \cup {Exhausted})
          /\ \A g \in Thread : g # h => call'[g] = call[g]
      BY <1>1, <3>1, <3>2 DEF CallTypes
    <3>4. /\ Len(answers'[w]) = Len(answers[w]) + 1 /\ Len(answers[w]) \in Nat
          /\ answers'[w][Len(answers[w]) + 1] = a
          /\ \A i \in 1 .. Len(answers[w]) : answers'[w][i] = answers[w][i]
      BY <3>2, <3>3
    <3>5. CASE \E i \in 1 .. Len(answers[v]) : answers[v][i] = Exhausted
      <4>1. PICK i \in 1 .. Len(answers[v]) : answers[v][i] = Exhausted
        BY <3>5
      <4>2. i \in 1 .. Len(answers'[v]) /\ answers'[v][i] = Exhausted
        <5>1. CASE v = w
          BY <3>4, <4>1, <5>1
        <5>2. CASE v # w
          BY <3>3, <4>1, <5>2
        <5> QED BY <5>1, <5>2
      <4> QED BY <4>2 DEF ExhaustedComes
    <3>6. CASE \E g \in Thread : call[g] # NoCall /\ call[g].worker = v /\ call[g].answer = Exhausted
      <4>1. PICK g \in Thread : call[g] # NoCall /\ call[g].worker = v /\ call[g].answer = Exhausted
        BY <3>6
      <4>2. CASE g = h
        <5>1. v = w /\ a = Exhausted
          BY <4>1, <4>2 DEF w, a
        <5>2. Len(answers[w]) + 1 \in 1 .. Len(answers'[w])
          BY <3>4
        <5> QED BY <3>4, <5>1, <5>2 DEF ExhaustedComes
      <4>3. CASE g # h
        BY <3>3, <4>1, <4>3 DEF ExhaustedComes
      <4> QED BY <4>2, <4>3
    <3> QED BY <1>3, <3>5, <3>6 DEF ExhaustedComes
  <2> QED BY <2>1, <2>2 DEF Dealing
<1> HIDE DEF Told, ExhaustedComes
<1> QED BY <1>1, <1>2, <1>3 DEF ToldSoon

LEMMA ToldSoonReceive ==
  ASSUME IInv, DealTypes, ToldSoon, NEW w \in Worker, Receive(w) PROVE ToldSoon'
<1>1. /\ UNCHANGED <<call, workerNotified, frame, wpc>> /\ messaging[w] /\ answers[w] # <<>>
      /\ answers' = [answers EXCEPT ![w] = Tail(@)] /\ wpc[w] # "idle"
  BY DEF Receive, dealing, slave, master, IInv, TasksCounted
<1>2. answers \in [Worker -> Seq(TileTask \cup {Exhausted})] /\ tilesAvailable \in [Worker -> BOOLEAN]
  BY DEF DealTypes, TypeOK
<1>3. /\ answers'[w] = Tail(answers[w]) /\ \A v \in Worker : v # w => answers'[v] = answers[v]
      /\ Len(answers'[w]) = Len(answers[w]) - 1 /\ Len(answers[w]) \in Nat /\ Len(answers[w]) > 0
      /\ \A i \in 1 .. Len(answers'[w]) : answers'[w][i] = answers[w][i + 1]
      /\ Head(answers[w]) = answers[w][1]
  <2>1. answers[w] \in Seq(TileTask \cup {Exhausted})
    BY <1>2
  <2> QED BY <1>1, <1>2, <2>1
<1>4. \A v \in Worker : v # w => /\ Told(v) => Told(v)'
                                 /\ ExhaustedComes(v) => ExhaustedComes(v)'
  <2>1. \A v \in Worker : v # w => tilesAvailable'[v] = tilesAvailable[v]
    BY <1>2 DEF Receive
  <2> QED BY <1>1, <1>3, <2>1 DEF Told, ExhaustedComes
<1>5. Told(w) => Told(w)'
  BY <1>1, <1>2 DEF Receive, Told
<1>6. ASSUME ExhaustedComes(w) PROVE Told(w)' \/ ExhaustedComes(w)'
  <2>1. CASE Head(answers[w]) = Exhausted
    BY <1>1, <1>2, <2>1 DEF Receive, Told
  <2>2. CASE Head(answers[w]) # Exhausted
    <3>1. ASSUME NEW i \in 1 .. Len(answers[w]), answers[w][i] = Exhausted PROVE ExhaustedComes(w)'
      <4>1. i # 1
        BY <1>3, <2>2, <3>1
      <4>2. i - 1 \in 1 .. Len(answers'[w]) /\ (i - 1) + 1 = i
        BY <1>3, <4>1
      <4>3. answers'[w][i - 1] = Exhausted
        BY <1>3, <3>1, <4>2
      <4> QED BY <4>2, <4>3 DEF ExhaustedComes
    <3> QED BY <1>1, <1>6, <3>1 DEF ExhaustedComes
  <2> QED BY <2>1, <2>2
<1> HIDE DEF Told, ExhaustedComes
<1> QED BY <1>1, <1>4, <1>5, <1>6 DEF ToldSoon

LEMMA ToldSoonKept ==
  ASSUME IInv, DealTypes, BarrierInv, ToldSoon, [Next]_vars PROVE ToldSoon'
<1>1. ASSUME UNCHANGED <<call, workerNotified, answers, frame, wpc, tilesAvailable>> PROVE ToldSoon'
  BY <1>1 DEF ToldSoon, ExhaustedComes, Told
<1>2. ASSUME MasterMain PROVE ToldSoon'
  <2>1. CASE StartFrame
    BY <2>1 DEF StartFrame, ToldSoon
  <2>2. CASE DealInAdvance
    <3>1. /\ PickTile("main", Head(toDeal)) /\ "main" \in Thread /\ call["main"] = NoCall
          /\ UNCHANGED <<answers, frame, wpc, tilesAvailable>>
      BY <2>2 DEF DealInAdvance, Thread, slave, counts, net
    <3>2. Head(toDeal) \in Worker
      BY <2>2 DEF DealInAdvance, DealTypes, TypeOK
    <3> QED BY <3>1, <3>2, ToldSoonCall
  <2>3. CASE MasterWaits \/ MasterDone \/ MasterLeaves \/ MasterStops
    BY <1>1, <2>3 DEF MasterWaits, MasterDone, MasterLeaves, MasterStops, MasterGoto, dealing, slave,
                      counts, net
  <2> QED BY <1>2, <2>1, <2>2, <2>3 DEF MasterMain
<1>3. ASSUME NEW w \in Worker, WorkerMain(w) PROVE ToldSoon'
  <2>1. UNCHANGED <<call, workerNotified, answers>>
    BY <1>3 DEF WorkerMain, StartWorker, ActivateFrame, WorkerDone, WorkerLeaves, WorkerStops,
           WorkerDrains, WorkerGoto, dealing, net
  <2>2. \A v \in Worker : ExhaustedComes(v)' <=> ExhaustedComes(v)
    BY <2>1 DEF ExhaustedComes
  <2>3. /\ wpc \in [Worker -> WorkerPC] /\ tilesAvailable \in [Worker -> BOOLEAN]
        /\ frame \in [{0} \cup Worker -> 0 .. MaxFrame] /\ 0 \notin Worker /\ MaxFrame \in Nat
    BY NumbersAre DEF DealTypes, TypeOK, WorkerPC
  <2>4. \A v \in Worker : Told(v) => Told(v)'
    <3>1. CASE StartWorker(w)
      <4>1. /\ wpc[w] = "idle" /\ frame[w] < frame[0] /\ frame' = [frame EXCEPT ![w] = @ + 1]
            /\ wpc' = [wpc EXCEPT ![w] = "begin"]
            /\ tilesAvailable' = [tilesAvailable EXCEPT ![w] = TRUE]
        BY <3>1 DEF StartWorker
      <4>2. frame[w] # frame[0] /\ frame'[0] = frame[0]
        BY <2>3, <4>1
      <4> QED BY <2>3, <4>1, <4>2 DEF Told
    <3>2. CASE ~StartWorker(w)
      <4>1. /\ UNCHANGED <<frame, tilesAvailable>> /\ wpc[w] # "idle"
            /\ \E l \in WorkerPC : wpc' = [wpc EXCEPT ![w] = l]
        BY <1>3, <3>2 DEF WorkerMain, ActivateFrame, WorkerDone, WorkerLeaves, WorkerStops,
                  WorkerDrains, WorkerGoto, counts, WorkerPC
      <4>2. frame[w] = frame[0] /\ frame[0] # 0
        BY <4>1 DEF DealTypes, FramesInStep, BarrierInv
      <4> QED BY <2>3, <4>1, <4>2 DEF Told
    <3> QED BY <3>1, <3>2
  <2> HIDE DEF Told, ExhaustedComes
  <2> QED BY <2>1, <2>2, <2>4 DEF ToldSoon
<1>4. ASSUME NEW w \in Worker, Incoming(w) PROVE ToldSoon'
  <2>1. /\ PickTile("inbox", w) /\ "inbox" \in Thread /\ call["inbox"] = NoCall
        /\ UNCHANGED <<answers, frame, wpc, tilesAvailable>>
    BY <1>4 DEF Incoming, Thread, slave, counts
  <2> QED BY <2>1, ToldSoonCall
<1>5. ASSUME NEW k, TaskStep(k) \/ DeliverPart(k) PROVE ToldSoon'
  <2>1. UNCHANGED <<call, workerNotified, answers, frame, wpc, tilesAvailable>>
    BY <1>5 DEF TaskStep, RenderTask, SetTile, EndTask, DeliverPart, dealing, slave, counts, net
  <2> QED BY <1>1, <2>1
<1>6. ASSUME UNCHANGED vars PROVE ToldSoon'
  BY <1>1, <1>6 DEF vars, dealing, slave, counts, net
<1> QED BY <1>2, <1>3, <1>4, <1>5, <1>6, ToldSoonDealing, ToldSoonReceive DEF Next

\* A worker that has not been notified has a tile to come, to render or to ask
\* for: the master deals some out in advance, and then one for each that has
\* been rendered.
Pending(w) ==
  \/ \E i \in 1 .. Len(toDeal) : toDeal[i] = w
  \/ CallTo(w)
  \/ answers[w] # <<>>
  \/ requests[w] > 0
  \/ \E k \in tasks : k.worker = w /\ k.step = "render"
Asked == NumPreAllocated # 0 /\ mpc # "idle" => \A w \in Worker : workerNotified[w] \/ Pending(w)

LEMMA AskedStart == ASSUME DealTypes, StartFrame PROVE Asked'
<1> SUFFICES ASSUME NumPreAllocated # 0, NEW w \in Worker PROVE Pending(w)'
  BY DEF Asked
<1>1. NumWorkers \in Nat /\ NumWorkers > 0 /\ NumPreAllocated \in Nat /\ w \in 1 .. NumWorkers
  BY NumbersAre DEF Worker
<1>2. toDeal' = [i \in 1 .. NumPreAllocated * NumWorkers |-> ((i - 1) % NumWorkers) + 1]
  BY DEF StartFrame
<1>3. NumPreAllocated * NumWorkers \in Nat /\ NumPreAllocated * NumWorkers >= NumWorkers
  BY <1>1
<1>4. (w - 1) % NumWorkers = w - 1
  BY <1>1
<1>5. w \in 1 .. Len(toDeal') /\ toDeal'[w] = w
  BY <1>1, <1>2, <1>3, <1>4
<1> QED BY <1>5 DEF Pending

\* A worker for which scheduleTile is called is notified or gets an answer.
LEMMA AskedCall ==
  ASSUME DealTypes, NEW h \in Thread, NEW u \in Worker, PickTile(h, u), call[h] = NoCall
  PROVE  /\ workerNotified'[u] \/ CallTo(u)'
         /\ \A w \in Worker : /\ workerNotified[w] => workerNotified'[w]
                              /\ CallTo(w) => CallTo(w)'
<1>1. /\ \A g \in Thread : g # h => call'[g] = call[g]
      /\ Refused(u) \/ Notified(h, u) \/ Chose(h, u)
  BY CallBegins DEF DealTypes, TypeOK
<1>2. workerNotified \in [Worker -> BOOLEAN]
  BY DEF DealTypes, TypeOK
<1>3. \A w \in Worker : CallTo(w) => CallTo(w)'
  BY <1>1 DEF CallTo
<1>4. CASE Refused(u)
  BY <1>3, <1>4 DEF Refused
<1>5. CASE Notified(h, u)
  <2>1. workerNotified' = [workerNotified EXCEPT ![u] = TRUE]
    BY <1>5 DEF Notified
  <2> QED BY <1>2, <1>3, <2>1
<1>6. CASE Chose(h, u)
  <2>1. call'[h] # NoCall /\ call'[h].worker = u /\ UNCHANGED workerNotified
    BY <1>6, Distinct DEF Chose
  <2> QED BY <1>3, <2>1 DEF CallTo
<1> QED BY <1>1, <1>4, <1>5, <1>6

LEMMA AskedDealing == ASSUME DealTypes, Asked, NEW h \in Thread, Dealing(h) PROVE Asked'
<1>1. /\ CallTypes /\ UNCHANGED <<mpc, workerNotified, toDeal, requests, tasks>> /\ call[h] # NoCall
      /\ answers \in [Worker -> Seq(TileTask \cup {Exhausted})]
  BY DEF DealTypes, TypeOK, Dealing, PopTile, CloseFrame, SendAnswer, NoCall, master, tiles, net
<1>2. \A w \in Worker : CallTo(w) \/ answers[w] # <<>> => CallTo(w)' \/ answers'[w] # <<>>
  <2>1. CASE PopTile(h) \/ CloseFrame(h)
    <3>1. /\ UNCHANGED answers /\ call'[h] # NoCall /\ call'[h].worker = call[h].worker
          /\ \A g \in Thread : g # h => call'[g] = call[g]
      BY <1>1, <2>1, CallGoes DEF PopTile, CloseFrame, net
    <3> QED BY <3>1 DEF CallTo
  <2>2. CASE SendAnswer(h)
    <3> DEFINE u == call[h].worker
               a == call[h].answer
    <3>1. /\ answers' = [answers EXCEPT ![u] = Append(@, a)] /\ call' = [call EXCEPT ![h] = NoCall]
      BY <2>2 DEF SendAnswer
    <3>2. u \in Worker /\ a \in TileTask \cup {Exhausted}
      BY <1>1 DEF CallTypes, Closing, Giving
    <3>3. \A g \in Thread : g # h => call'[g] = call[g]
      BY <1>1, <3>1 DEF CallTypes
    <3>4. \A w \in Worker : CallTo(w) => CallTo(w)' \/ w = u
      BY <3>3 DEF CallTo
    <3> HIDE DEF u, a
    <3>5. answers'[u] # <<>> /\ \A w \in Worker : w # u => answers'[w] = answers[w]
      <4>1. answers'[u] = Append(answers[u], a) /\ \A w \in Worker : w # u => answers'[w] = answers[w]
        BY <1>1, <3>1, <3>2
      <4>2. answers[u] \in Seq(TileTask \cup {Exhausted})
        BY <1>1, <3>2
      <4>3. Len(Append(answers[u], a)) = Len(answers[u]) + 1 /\ Len(answers[u]) \in Nat /\ Len(<<>>) = 0
        BY <3>2, <4>2
      <4>4. Append(answers[u], a) # <<>>
        BY <4>3
      <4> QED BY <4>1, <4>4
    <3> QED BY <3>4, <3>5
  <2> QED BY <2>1, <2>2 DEF Dealing
<1> HIDE DEF CallTo
<1> QED BY <1>1, <1>2 DEF Asked, Pending

LEMMA AskedReceive ==
  ASSUME IInv, DealTypes, ToldOnce, Asked, NEW u \in Worker, Receive(u) PROVE Asked'
<1>1. /\ UNCHANGED <<mpc, workerNotified, toDeal, call, requests>>
      /\ answers[u] # <<>> /\ answers' = [answers EXCEPT ![u] = Tail(@)]
      /\ answers \in [Worker -> Seq(TileTask \cup {Exhausted})]
  BY DEF Receive, master, dealing, DealTypes, TypeOK
<1>2. tasks \subseteq tasks'
  BY DEF Receive
<1>3. \A w \in Worker : CallTo(w)' <=> CallTo(w)
  BY <1>1 DEF CallTo
<1>4. \A w \in Worker : w # u => answers'[w] = answers[w]
  BY <1>1
<1>5. ASSUME ~workerNotified[u] PROVE \E k \in tasks' : k.worker = u /\ k.step = "render"
  <2>1. answers[u] \in Seq(TileTask \cup {Exhausted}) /\ 1 \in 1 .. Len(answers[u])
        /\ Head(answers[u]) = answers[u][1]
    <3>1. answers[u] \in Seq(TileTask \cup {Exhausted})
      BY <1>1
    <3> QED BY <1>1, <3>1
  <2>2. Head(answers[u]) # Exhausted
    BY <1>5, <2>1 DEF ToldOnce
  <2>3. tilesAvailable[u]
    BY <2>2, ToldReceive
  <2> DEFINE new == [worker |-> u, tile |-> Head(answers[u]).tile,
                     accumId |-> Head(answers[u]).accumId, step |-> "render"]
  <2>4. tasks' = tasks \cup {new}
    BY <2>2, <2>3 DEF Receive
  <2>5. new.worker = u /\ new.step = "render"
    OBVIOUS
  <2> HIDE DEF new
  <2> QED BY <2>4, <2>5
<1> HIDE DEF CallTo
<1> QED BY <1>1, <1>2, <1>3, <1>4, <1>5 DEF Asked, Pending

LEMMA AskedTask ==
  ASSUME IInv, DealTypes, ToldOnce, Asked, NEW k \in tasks, TaskStep(k) PROVE Asked'
<1>1. /\ UNCHANGED <<mpc, workerNotified, toDeal, call, answers>>
      /\ k \in TaskRecord /\ k.worker \in Worker /\ requests \in [Worker -> Nat]
  BY DEF TaskStep, RenderTask, SetTile, EndTask, master, dealing, slave, counts, net, DealTypes,
         TaskRecord, TypeOK
<1>2. \A w \in Worker : CallTo(w)' <=> CallTo(w)
  BY <1>1 DEF CallTo
<1>3. \A l \in tasks : l # k => l \in tasks'
  BY DEF TaskStep, RenderTask, SetTile, EndTask, StepTask
<1>4. CASE RenderTask(k)
  <2>1. requests' = IF tilesAvailable[k.worker] THEN [requests EXCEPT ![k.worker] = @ + 1] ELSE requests
    BY <1>4 DEF RenderTask
  <2>2. wpc[k.worker] # "idle"
    BY <1>1 DEF IInv, TasksCounted, TasksOf
  <2>3. ~workerNotified[k.worker] => tilesAvailable[k.worker]
    BY <1>1, <2>2 DEF ToldOnce, Told
  <2>4. ~workerNotified[k.worker] => requests'[k.worker] > 0
    BY <1>1, <2>1, <2>3
  <2>5. \A w \in Worker : requests[w] > 0 => requests'[w] > 0
    BY <1>1, <2>1
  <2> HIDE DEF CallTo
  <2> QED BY <1>1, <1>2, <1>3, <2>4, <2>5 DEF Asked, Pending
<1>5. CASE SetTile(k) \/ EndTask(k)
  <2>1. UNCHANGED requests /\ k.step # "render"
    BY <1>5 DEF SetTile, EndTask, net
  <2> HIDE DEF CallTo
  <2> QED BY <1>1, <1>2, <1>3, <2>1 DEF Asked, Pending
<1> QED BY <1>4, <1>5 DEF TaskStep

LEMMA AskedKept ==
  ASSUME IInv, DealTypes, ToldOnce, Asked, [Next]_vars PROVE Asked'
<1>1. ASSUME UNCHANGED <<workerNotified, toDeal, call, answers, requests, tasks>>, mpc' # "idle" => mpc # "idle"
      PROVE  Asked'
  BY <1>1 DEF Asked, Pending, CallTo
<1>2. CASE MasterMain
  <2>1. CASE DealInAdvance
    <3>0. PICK u : u = Head(toDeal)
      OBVIOUS
    <3>1. /\ PickTile("main", u) /\ "main" \in Thread /\ call["main"] = NoCall
          /\ UNCHANGED <<mpc, answers, requests, tasks>> /\ toDeal' = Tail(toDeal)
          /\ toDeal \in Seq(Worker) /\ toDeal # <<>>
      BY <2>1, <3>0 DEF DealInAdvance, Thread, tiles, net, DealTypes, TypeOK
    <3>2. /\ u = toDeal[1] /\ u \in Worker
          /\ Len(toDeal') = Len(toDeal) - 1 /\ Len(toDeal) \in Nat
          /\ \A i \in 1 .. Len(toDeal') : toDeal'[i] = toDeal[i + 1]
      BY <3>0, <3>1
    <3>3. /\ workerNotified'[u] \/ CallTo(u)'
          /\ \A w \in Worker : /\ workerNotified[w] => workerNotified'[w]
                               /\ CallTo(w) => CallTo(w)'
      BY <3>1, <3>2, AskedCall
    <3> HIDE DEF CallTo
    <3>4. ASSUME NEW w \in Worker, \E i \in 1 .. Len(toDeal) : toDeal[i] = w
          PROVE  w = u \/ \E i \in 1 .. Len(toDeal') : toDeal'[i] = w
      <4>1. PICK i \in 1 .. Len(toDeal) : toDeal[i] = w
        BY <3>4
      <4>2. CASE i = 1
        BY <3>2, <4>1, <4>2
      <4>3. CASE i # 1
        <5>1. i - 1 \in 1 .. Len(toDeal') /\ (i - 1) + 1 = i
          BY <3>2, <4>3
        <5> QED BY <3>2, <4>1, <5>1
      <4> QED BY <4>2, <4>3
    <3> QED BY <3>1, <3>3, <3>4 DEF Asked, Pending
  <2>2. CASE MasterWaits \/ MasterDone \/ MasterLeaves \/ MasterStops
    <3>1. /\ UNCHANGED <<workerNotified, toDeal, call, answers, requests, tasks>>
          /\ mpc # "idle"
      BY <2>2 DEF MasterWaits, MasterDone, MasterLeaves, MasterStops, MasterGoto, dealing, tiles, net
    <3> QED BY <1>1, <3>1
  <2> QED BY <1>2, <2>1, <2>2, AskedStart DEF MasterMain
<1>3. ASSUME NEW u \in Worker, Incoming(u) PROVE Asked'
  <2>1. /\ PickTile("inbox", u) /\ "inbox" \in Thread /\ call["inbox"] = NoCall
        /\ UNCHANGED <<mpc, toDeal, answers, tasks>> /\ requests' = [requests EXCEPT ![u] = @ - 1]
        /\ requests \in [Worker -> Nat]
    BY <1>3 DEF Incoming, Thread, master, tiles, DealTypes, TypeOK
  <2>2. /\ workerNotified'[u] \/ CallTo(u)'
        /\ \A w \in Worker : /\ workerNotified[w] => workerNotified'[w]
                             /\ CallTo(w) => CallTo(w)'
    BY <2>1, AskedCall
  <2>3. \A w \in Worker : w # u => requests'[w] = requests[w]
    BY <2>1
  <2> HIDE DEF CallTo
  <2> QED BY <2>1, <2>2, <2>3 DEF Asked, Pending
<1>4. ASSUME NEW w \in Worker, WorkerMain(w) PROVE Asked'
  <2>1. UNCHANGED <<workerNotified, toDeal, call, answers, requests, tasks, mpc>>
    BY <1>4 DEF WorkerMain, StartWorker, ActivateFrame, WorkerDone, WorkerLeaves, WorkerStops,
                WorkerDrains, WorkerGoto, master, dealing, tiles, net
  <2> QED BY <1>1, <2>1
<1>5. ASSUME NEW k \in sent, DeliverPart(k) PROVE Asked'
  <2>1. UNCHANGED <<workerNotified, toDeal, call, answers, requests, tasks, mpc>>
    BY <1>5 DEF DeliverPart, master, dealing, net
  <2> QED BY <1>1, <2>1
<1>6. ASSUME UNCHANGED vars PROVE Asked'
  BY <1>1, <1>6 DEF vars, master, dealing, tiles, net
<1> QED BY <1>2, <1>3, <1>4, <1>5, <1>6, AskedDealing, AskedReceive, AskedTask DEF Next

\* A copy that a task has set does not come again, and so no two records of
\* tasks are the same: tilesScheduled is exactly the number of tasks.
Ended(c) == \E k \in tasks : k.step = "end" /\ CopyOf(k) = c
Live(c) == Waits(c) \/ Leaves(c) \/ Answered(c) \/ Rendered(c)
EndedApart == \A c \in TileTask : Ended(c) => ~Live(c)
ScheduledExact == \A w \in Worker : tilesScheduled[w] = Cardinality(TasksOf(w))

\* Only a new frame makes copies.
LEMMA LiveDealing ==
  ASSUME DealTypes, CopiesInv, NEW h \in Thread, Dealing(h), NEW c \in TileTask, Live(c)'
  PROVE  Live(c)
<1>0. /\ CallTypes /\ call[h] # NoCall /\ UNCHANGED tasks /\ c # Exhausted
      /\ preferredTiles \in [Worker -> Seq(TileTask)]
      /\ answers \in [Worker -> Seq(TileTask \cup {Exhausted})]
  BY Distinct DEF Dealing, PopTile, CloseFrame, SendAnswer, DealTypes, TypeOK, NoCall, tiles
<1>1. Rendered(c)' => Rendered(c)
  BY <1>0 DEF Rendered, CopyOf
<1>2. CASE PopTile(h) \/ CloseFrame(h)
  <2>1. /\ UNCHANGED answers /\ call'[h].step = "send" /\ call'[h].answer = call[h].answer
        /\ \A g \in Thread : g # h => call'[g] = call[g]
        /\ call[h].step = "pop" => call[h] \in Giving
        /\ call[h].step = "close" => call[h] \in Closing
    BY <1>0, <1>2, CallGoes DEF PopTile, CloseFrame, net
  <2>2. Answered(c)' => Answered(c)
    BY <2>1 DEF Answered
  <2>3. Leaves(c)' => Leaves(c) \/ call[h].answer = c
    BY <2>1 DEF Leaves
  <2>4. CASE CloseFrame(h)
    <3>1. call[h].answer = Exhausted /\ UNCHANGED preferredTiles
      BY <2>1, <2>4 DEF CloseFrame, Closing
    <3>2. Waits(c)' => Waits(c)
      BY <3>1 DEF Waits
    <3> QED BY <1>0, <1>1, <2>2, <2>3, <3>1, <3>2 DEF Live
  <2>5. CASE PopTile(h)
    <3>0. PICK v : v = call[h].from
      OBVIOUS
    <3>1. /\ v \in Worker /\ call[h].step = "pop" /\ preferredTiles[v] # <<>>
          /\ preferredTiles' = [preferredTiles EXCEPT ![v] = Front(@)]
          /\ preferredTiles[v][Len(preferredTiles[v])] = call[h].answer
      BY <2>1, <2>5, <3>0 DEF PopTile, Giving, CopiesInv, QueuedOnce
    <3>2. /\ preferredTiles[v] \in Seq(TileTask) /\ Len(preferredTiles[v]) \in Nat \ {0}
          /\ preferredTiles'[v] = Front(preferredTiles[v])
          /\ \A u \in Worker : u # v => preferredTiles'[u] = preferredTiles[u]
      BY <1>0, <3>1
    <3>3. /\ Len(preferredTiles'[v]) = Len(preferredTiles[v]) - 1
          /\ \A i \in 1 .. Len(preferredTiles'[v]) : preferredTiles'[v][i] = preferredTiles[v][i]
      BY <3>2 DEF Front
    <3>4. \A u \in Worker : \A i \in 1 .. Len(preferredTiles'[u]) :
            i \in 1 .. Len(preferredTiles[u]) /\ preferredTiles'[u][i] = preferredTiles[u][i]
      BY <3>2, <3>3
    <3>5. Waits(c)' => Waits(c)
      BY <3>4 DEF Waits
    <3>6. call[h].answer = c => Waits(c)
      <4>1. Len(preferredTiles[v]) \in 1 .. Len(preferredTiles[v]) /\ Len(preferredTiles[v]) \in Nat
        BY <3>2
      <4> QED BY <3>1, <4>1 DEF Waits
    <3> QED BY <1>1, <2>2, <2>3, <3>5, <3>6 DEF Live
  <2> QED BY <1>2, <2>4, <2>5
<1>3. CASE SendAnswer(h)
  <2>0. PICK w, a : w = call[h].worker /\ a = call[h].answer
    OBVIOUS
  <2>1. /\ call[h].step = "send" /\ call' = [call EXCEPT ![h] = NoCall]
        /\ answers' = [answers EXCEPT ![w] = Append(@, a)] /\ UNCHANGED preferredTiles
        /\ w \in Worker /\ a \in TileTask \cup {Exhausted}
    BY <1>0, <1>3, <2>0 DEF SendAnswer, CallTypes, Closing, Giving
  <2>2. Waits(c)' => Waits(c)
    BY <2>1 DEF Waits
  <2>3. \A g \in Thread : call'[g].step = "send" => call'[g] = call[g]
    BY <1>0, <2>1 DEF CallTypes, NoCall
  <2>4. Leaves(c)' => Leaves(c)
    BY <2>3 DEF Leaves
  <2>5. Answered(c)' => Answered(c) \/ c = a
    <3>1. /\ \A v \in Worker : v # w => answers'[v] = answers[v]
          /\ answers'[w] = Append(answers[w], a)
          /\ answers[w] \in Seq(TileTask \cup {Exhausted})
      BY <1>0, <2>1
    <3>2. /\ Len(answers'[w]) = Len(answers[w]) + 1 /\ answers'[w][Len(answers[w]) + 1] = a
          /\ \A i \in 1 .. Len(answers[w]) : answers'[w][i] = answers[w][i]
          /\ Len(answers[w]) \in Nat
      BY <2>1, <3>1
    <3>3. \A v \in Worker : \A i \in 1 .. Len(answers'[v]) :
            \/ i \in 1 .. Len(answers[v]) /\ answers'[v][i] = answers[v][i]
            \/ answers'[v][i] = a
      BY <3>1, <3>2
    <3> QED BY <3>3 DEF Answered
  <2>6. c = a => Leaves(c)
    BY <2>0, <2>1 DEF Leaves
  <2> QED BY <1>1, <2>2, <2>4, <2>5, <2>6 DEF Live
<1> QED BY <1>2, <1>3 DEF Dealing

LEMMA LiveCall ==
  ASSUME DealTypes, NEW h \in Thread, NEW w \in Worker, PickTile(h, w),
         UNCHANGED <<preferredTiles, answers, tasks>>, NEW c \in TileTask, Live(c)'
  PROVE  Live(c)
<1>1. /\ \A g \in Thread : g # h => call'[g] = call[g]
      /\ Refused(w) \/ Notified(h, w) \/ Chose(h, w)
  BY CallBegins DEF DealTypes, TypeOK
<1>2. call'[h].step = "send" => call'[h] = call[h]
  BY <1>1 DEF Refused, Notified, Chose
<1>3. Leaves(c)' => Leaves(c)
  BY <1>1, <1>2 DEF Leaves
<1>4. /\ Waits(c)' => Waits(c)
      /\ Answered(c)' => Answered(c)
      /\ Rendered(c)' => Rendered(c)
  BY DEF Waits, Answered, Rendered, CopyOf
<1> QED BY <1>3, <1>4 DEF Live

LEMMA LiveReceive ==
  ASSUME DealTypes, NEW w \in Worker, Receive(w), NEW c \in TileTask, Live(c)'
  PROVE  Live(c)
<1> DEFINE a == Head(answers[w])
           new == [worker |-> w, tile |-> a.tile, accumId |-> a.accumId, step |-> "render"]
<1>1. /\ answers[w] # <<>> /\ answers' = [answers EXCEPT ![w] = Tail(@)]
      /\ UNCHANGED <<preferredTiles, call>>
      /\ tasks' = tasks \/ (a # Exhausted /\ tasks' = tasks \cup {new})
  BY DEF Receive, dealing
<1>2. answers \in [Worker -> Seq(TileTask \cup {Exhausted})]
  BY DEF DealTypes, TypeOK
<1>3. /\ \A v \in Worker : v # w => answers'[v] = answers[v]
      /\ Len(answers'[w]) = Len(answers[w]) - 1 /\ Len(answers[w]) \in Nat /\ Len(answers[w]) > 0
      /\ \A i \in 1 .. Len(answers'[w]) : answers'[w][i] = answers[w][i + 1]
      /\ a = answers[w][1] /\ a \in TileTask \cup {Exhausted}
  <2>1. answers[w] \in Seq(TileTask \cup {Exhausted})
    BY <1>2
  <2> QED BY <1>1, <1>2, <2>1
<1>4. a # Exhausted => CopyOf(new) = a /\ Answered(a)
  <2>1. a # Exhausted => CopyOf(new) = a
    BY <1>3 DEF TileTask, CopyOf
  <2>2. Answered(a)
    BY <1>3, 1 \in 1 .. Len(answers[w]), 1 \in Nat DEF Answered
  <2> QED BY <2>1, <2>2
<1> HIDE DEF a, new
<1>5. Answered(c)' => Answered(c)
  <2> SUFFICES ASSUME Answered(c)' PROVE Answered(c)
    OBVIOUS
  <2>1. PICK v \in Worker, i \in Nat : i \in 1 .. Len(answers'[v]) /\ answers'[v][i] = c
    BY DEF Answered
  <2>2. CASE v = w
    <3>1. i + 1 \in 1 .. Len(answers[w]) /\ i + 1 \in Nat /\ answers[w][i + 1] = c
      BY <1>3, <2>1, <2>2
    <3> QED BY <3>1 DEF Answered
  <2>3. CASE v # w
    BY <1>3, <2>1, <2>3 DEF Answered
  <2> QED BY <2>2, <2>3
<1>6. Rendered(c)' => Rendered(c) \/ (a # Exhausted /\ c = a)
  BY <1>1, <1>4 DEF Rendered, CopyOf
<1>7. Waits(c)' => Waits(c)
  BY <1>1 DEF Waits
<1>8. Leaves(c)' => Leaves(c)
  BY <1>1 DEF Leaves
<1> HIDE DEF Waits, Leaves, Answered, Rendered
<1> QED BY <1>4, <1>5, <1>6, <1>7, <1>8 DEF Live

LEMMA LiveTask ==
  ASSUME DealTypes, NEW k \in tasks, TaskStep(k), NEW c \in TileTask, Live(c)'
  PROVE  Live(c)
<1>1. /\ UNCHANGED <<preferredTiles, call, answers>>
      /\ \/ k.step = "render" /\ tasks' = StepTask(k, "set")
         \/ k.step = "set" /\ tasks' = StepTask(k, "end")
         \/ tasks' = tasks \ {k}
  BY DEF TaskStep, RenderTask, SetTile, EndTask, dealing, net
<1>2. /\ CopyOf([k EXCEPT !.step = "set"]) = CopyOf(k)
      /\ [k EXCEPT !.step = "end"].step = "end"
  BY CopyOfTask
<1>3. \A l \in tasks' : l.step # "end" =>
        l \in tasks \/ (k.step # "end" /\ CopyOf(l) = CopyOf(k))
  BY <1>1, <1>2 DEF StepTask
<1>4. Rendered(c)' => Rendered(c)
  <2> SUFFICES ASSUME Rendered(c)' PROVE Rendered(c)
    OBVIOUS
  <2>1. PICK l \in tasks' : l.step # "end" /\ CopyOf(l) = c
    BY DEF Rendered, CopyOf
  <2> QED BY <1>3, <2>1 DEF Rendered
<1>5. /\ Waits(c)' => Waits(c)
      /\ Leaves(c)' => Leaves(c)
      /\ Answered(c)' => Answered(c)
  BY <1>1 DEF Waits, Leaves, Answered
<1> QED BY <1>4, <1>5 DEF Live

LEMMA LiveStays ==
  ASSUME DealTypes, CopiesInv, [Next]_vars, ~StartFrame, NEW c \in TileTask, Live(c)'
  PROVE  Live(c)
<1>1. ASSUME UNCHANGED <<preferredTiles, call, answers, tasks>> PROVE Live(c)
  BY <1>1 DEF Live, Waits, Leaves, Answered, Rendered, CopyOf
<1>2. ASSUME MasterMain PROVE Live(c)
  <2>1. CASE DealInAdvance
    <3>1. /\ PickTile("main", Head(toDeal)) /\ "main" \in Thread
          /\ UNCHANGED <<preferredTiles, answers, tasks>>
      BY <2>1 DEF DealInAdvance, Thread, tiles, net
    <3>2. Head(toDeal) \in Worker
      BY <2>1 DEF DealInAdvance, DealTypes, TypeOK
    <3> QED BY <3>1, <3>2, LiveCall
  <2>2. CASE MasterWaits \/ MasterDone \/ MasterLeaves \/ MasterStops
    BY <1>1, <2>2 DEF MasterWaits, MasterDone, MasterLeaves, MasterStops, MasterGoto, dealing, tiles, net
  <2> QED BY <1>2, <2>1, <2>2 DEF MasterMain
<1>3. ASSUME NEW w \in Worker, Incoming(w) PROVE Live(c)
  <2>1. /\ PickTile("inbox", w) /\ "inbox" \in Thread /\ UNCHANGED <<preferredTiles, answers, tasks>>
    BY <1>3 DEF Incoming, Thread, tiles
  <2> QED BY <2>1, LiveCall
<1>4. ASSUME NEW w \in Worker, WorkerMain(w) PROVE Live(c)
  <2>1. UNCHANGED <<preferredTiles, call, answers, tasks>>
    BY <1>4 DEF WorkerMain, StartWorker, ActivateFrame, WorkerDone, WorkerLeaves, WorkerStops,
                WorkerDrains, WorkerGoto, dealing, tiles, net
  <2> QED BY <1>1, <2>1
<1>5. ASSUME NEW k \in sent, DeliverPart(k) PROVE Live(c)
  BY <1>1, <1>5 DEF DeliverPart, dealing, net
<1>6. ASSUME UNCHANGED vars PROVE Live(c)
  BY <1>1, <1>6 DEF vars, dealing, tiles, net
<1> QED BY <1>2, <1>3, <1>4, <1>5, <1>6, LiveDealing, LiveReceive, LiveTask DEF Next

LEMMA NoTasksBetween ==
  ASSUME IInv, \A w \in Worker : wpc[w] = "idle"
  PROVE  tasks = {}
BY DEF IInv, TasksCounted, Types, TasksOf

LEMMA EndedKept ==
  ASSUME IInv, DealTypes, CopiesInv, EndedApart, [Next]_vars
  PROVE  EndedApart'
<1>1. CASE StartFrame
  <2>1. tasks' = {}
    BY <1>1, NoTasksBetween DEF StartFrame, tiles
  <2> QED BY <2>1 DEF EndedApart, Ended
<1>2. ASSUME NEW k \in tasks, SetTile(k) PROVE EndedApart'
  <2>1. /\ UNCHANGED <<preferredTiles, call, answers>> /\ k.step = "set" /\ tasks' = StepTask(k, "end")
        /\ CopyOf(k) \in TileTask
    BY <1>2, CopyOfTask DEF SetTile, dealing, net
  <2>2. PICK m : m.step = "end" /\ CopyOf(m) = CopyOf(k) /\ tasks' = (tasks \ {k}) \cup {m}
    BY <2>1, CopyOfTask DEF StepTask
  <2>3. \A c \in TileTask : Ended(c)' => Ended(c) \/ c = CopyOf(k)
    <3> SUFFICES ASSUME NEW c \in TileTask, Ended(c)' PROVE Ended(c) \/ c = CopyOf(k)
      OBVIOUS
    <3>1. PICK l \in tasks' : l.step = "end" /\ CopyOf(l) = c
      BY DEF Ended, CopyOf
    <3> QED BY <2>2, <3>1 DEF Ended
  <2>4. Rendered(CopyOf(k))
    BY <2>1 DEF Rendered
  <2>5. ~Waits(CopyOf(k)) /\ ~Leaves(CopyOf(k)) /\ ~Answered(CopyOf(k))
    BY <2>1, <2>4 DEF CopiesInv, Apart
  <2>6. \A c \in TileTask : c = CopyOf(k) => ~Waits(c)' /\ ~Leaves(c)' /\ ~Answered(c)'
    BY <2>1, <2>5 DEF Waits, Leaves, Answered
  <2>7. \A c \in TileTask : c = CopyOf(k) => ~Rendered(c)'
    <3> SUFFICES ASSUME NEW l \in tasks', l.step # "end", CopyOf(l) = CopyOf(k) PROVE FALSE
      BY DEF Rendered, CopyOf
    <3>1. l \in tasks /\ l # k
      BY <2>2
    <3> QED BY <2>1, <3>1 DEF CopiesInv, RenderedOnce
  <2>8. ~StartFrame
    <3>1. StartFrame => tasks = {}
      BY NoTasksBetween DEF StartFrame
    <3> QED BY <3>1
  <2>9. \A c \in TileTask : Live(c)' => Live(c)
    BY <2>8, LiveStays
  <2> HIDE DEF Ended, Waits, Leaves, Answered, Rendered
  <2> QED BY <2>3, <2>6, <2>7, <2>9 DEF EndedApart, Live
<1>3. ASSUME ~StartFrame, ~\E k \in tasks : SetTile(k) PROVE EndedApart'
  <2>1. \A l \in tasks' : l.step = "end" => l \in tasks
    <3>1. ASSUME tasks' = tasks PROVE \A l \in tasks' : l.step = "end" => l \in tasks
      BY <3>1
    <3>2. ASSUME NEW w \in Worker, Receive(w) PROVE \A l \in tasks' : l.step = "end" => l \in tasks
      BY <3>2 DEF Receive
    <3>3. ASSUME NEW k \in tasks, TaskStep(k) PROVE \A l \in tasks' : l.step = "end" => l \in tasks
      <4>1. [k EXCEPT !.step = "set"].step = "set"
        BY CopyOfTask
      <4>2. tasks' = StepTask(k, "set") \/ tasks' = tasks \ {k}
        BY <1>3, <3>3 DEF TaskStep, RenderTask, EndTask
      <4> QED BY <4>1, <4>2 DEF StepTask
    <3>4. ASSUME MasterMain PROVE tasks' = tasks
      BY <1>3, <3>4 DEF MasterMain, DealInAdvance, MasterWaits, MasterDone, MasterLeaves, MasterStops,
                        MasterGoto, tiles
    <3>5. ASSUME NEW w \in Worker, Incoming(w) \/ WorkerMain(w) PROVE tasks' = tasks
      BY <3>5 DEF Incoming, WorkerMain, StartWorker, ActivateFrame, WorkerDone, WorkerLeaves,
                  WorkerStops, WorkerDrains, WorkerGoto, tiles
    <3>6. ASSUME NEW h \in Thread, Dealing(h) PROVE tasks' = tasks
      BY <3>6 DEF Dealing, PopTile, CloseFrame, SendAnswer, tiles
    <3>7. ASSUME NEW k, DeliverPart(k) PROVE tasks' = tasks
      BY <3>7 DEF DeliverPart
    <3>8. ASSUME UNCHANGED vars PROVE tasks' = tasks
      BY <3>8 DEF vars, tiles
    <3> QED BY <3>1, <3>2, <3>3, <3>4, <3>5, <3>6, <3>7, <3>8 DEF Next
  <2>2. \A c \in TileTask : Ended(c)' => Ended(c)
    <3> SUFFICES ASSUME NEW c \in TileTask, Ended(c)' PROVE Ended(c)
      OBVIOUS
    <3>1. PICK l \in tasks' : l.step = "end" /\ CopyOf(l) = c
      BY DEF Ended, CopyOf
    <3> QED BY <2>1, <3>1 DEF Ended
  <2>3. \A c \in TileTask : Live(c)' => Live(c)
    BY <1>3, LiveStays
  <2> HIDE DEF Ended, Live
  <2> QED BY <2>2, <2>3 DEF EndedApart
<1> QED BY <1>1, <1>2, <1>3

\* A task that begins is a new one.
LEMMA ScheduledReceive ==
  ASSUME IInv, DealTypes, ToldOnce, CopiesInv, ScheduledExact, NEW w \in Worker, Receive(w)
  PROVE  ScheduledExact'
<1> DEFINE a == Head(answers[w])
           new == [worker |-> w, tile |-> a.tile, accumId |-> a.accumId, step |-> "render"]
<1>1. \/ a = Exhausted /\ UNCHANGED <<tilesScheduled, tasks>>
      \/ /\ a # Exhausted /\ tasks' = tasks \cup {new}
         /\ tilesScheduled' = [tilesScheduled EXCEPT ![w] = @ + 1]
  BY ToldReceive DEF Receive
<1>2. a # Exhausted => a \in TileTask /\ Answered(a)
  <2>1. answers[w] \in Seq(TileTask \cup {Exhausted}) /\ answers[w] # <<>>
    BY DEF Receive, DealTypes, TypeOK
  <2>2. a = answers[w][1] /\ 1 \in 1 .. Len(answers[w]) /\ a \in TileTask \cup {Exhausted}
    BY <2>1
  <2> QED BY <2>2, 1 \in Nat DEF Answered
<1>3. a # Exhausted => CopyOf(new) = a /\ new.step = "render" /\ new.worker = w
  BY <1>2 DEF TileTask, CopyOf
<1>4. a # Exhausted => new \notin tasks
  <2>1. a # Exhausted => ~Rendered(a)
    BY <1>2 DEF CopiesInv, Apart
  <2> HIDE DEF a, new
  <2> QED BY <1>3, <2>1 DEF Rendered
<1> HIDE DEF a, new
<1>5. CASE UNCHANGED <<tilesScheduled, tasks>>
  BY <1>5 DEF ScheduledExact, TasksOf
<1>6. CASE a # Exhausted
  <2>1. \A v \in Worker : TasksOf(v)' = IF v = w THEN TasksOf(v) \cup {new} ELSE TasksOf(v)
    BY <1>1, <1>3, <1>6 DEF TasksOf
  <2>2. Cardinality(TasksOf(w) \cup {new}) = Cardinality(TasksOf(w)) + 1
    <3>1. IsFiniteSet(TasksOf(w))
      BY FiniteTasks DEF IInv
    <3>2. new \notin TasksOf(w)
      BY <1>4, <1>6 DEF TasksOf
    <3> QED BY <3>1, <3>2, FS_AddElement
  <2>3. tilesScheduled' = [tilesScheduled EXCEPT ![w] = @ + 1] /\ tilesScheduled \in [Worker -> Int]
    BY <1>1, <1>6 DEF IInv, Types
  <2> QED BY <2>1, <2>2, <2>3 DEF ScheduledExact
<1> QED BY <1>1, <1>5, <1>6

\* A task that goes on is one record before and after, and one that ends is
\* counted no longer.
LEMMA ScheduledTask ==
  ASSUME IInv, DealTypes, CopiesInv, EndedApart, ScheduledExact, NEW k \in tasks, TaskStep(k)
  PROVE  ScheduledExact'
<1>0. /\ k \in TasksOf(k.worker) /\ k.worker \in Worker /\ k \in TaskRecord /\ CopyOf(k) \in TileTask
      /\ tilesScheduled \in [Worker -> Int]
      /\ \A v \in Worker : IsFiniteSet(TasksOf(v)) /\ Cardinality(TasksOf(v)) \in Nat
  BY FiniteTasks, CopyOfTask DEF IInv, Types, TasksOf
<1>1. Cardinality(TasksOf(k.worker) \ {k}) = Cardinality(TasksOf(k.worker)) - 1
      /\ IsFiniteSet(TasksOf(k.worker) \ {k})
  BY <1>0, FS_RemoveElement
<1>2. ASSUME NEW m, m \notin tasks, m.worker = k.worker, tasks' = (tasks \ {k}) \cup {m},
             UNCHANGED tilesScheduled
      PROVE  ScheduledExact'
  <2>1. \A v \in Worker :
          TasksOf(v)' = IF v = k.worker THEN (TasksOf(v) \ {k}) \cup {m} ELSE TasksOf(v)
    BY <1>2 DEF TasksOf
  <2>2. m \notin TasksOf(k.worker) \ {k}
    BY <1>2 DEF TasksOf
  <2>3. Cardinality((TasksOf(k.worker) \ {k}) \cup {m}) = Cardinality(TasksOf(k.worker) \ {k}) + 1
    BY <1>1, <2>2, FS_AddElement
  <2>4. Cardinality((TasksOf(k.worker) \ {k}) \cup {m}) = Cardinality(TasksOf(k.worker))
    BY <1>0, <1>1, <2>3
  <2> QED BY <1>2, <2>1, <2>4 DEF ScheduledExact
<1>3. CASE RenderTask(k)
  <2>1. PICK m : m = [k EXCEPT !.step = "set"]
    OBVIOUS
  <2>2. /\ m.step = "set" /\ CopyOf(m) = CopyOf(k) /\ m.worker = k.worker
    BY <1>0, <2>1, TaskGoes
  <2>3. k.step = "render" /\ tasks' = (tasks \ {k}) \cup {m} /\ UNCHANGED tilesScheduled
    BY <1>3, <2>1 DEF RenderTask, StepTask, counts
  <2>4. m \notin tasks
    BY <2>2, <2>3 DEF CopiesInv, RenderedOnce
  <2> QED BY <1>2, <2>2, <2>3, <2>4
<1>4. CASE SetTile(k)
  <2>1. PICK m : m = [k EXCEPT !.step = "end"]
    OBVIOUS
  <2>2. /\ m.step = "end" /\ CopyOf(m) = CopyOf(k) /\ m.worker = k.worker
    BY <1>0, <2>1, TaskGoes
  <2>3. k.step = "set" /\ tasks' = (tasks \ {k}) \cup {m} /\ UNCHANGED tilesScheduled
    BY <1>4, <2>1 DEF SetTile, StepTask, counts
  <2>4. m \notin tasks
    <3>1. Rendered(CopyOf(k))
      BY <2>3 DEF Rendered
    <3>2. m \in tasks => Ended(CopyOf(k))
      BY <2>2 DEF Ended
    <3> QED BY <1>0, <3>1, <3>2 DEF EndedApart, Live
  <2> QED BY <1>2, <2>2, <2>3, <2>4
<1>5. CASE EndTask(k)
  <2>1. tasks' = tasks \ {k} /\ tilesScheduled' = [tilesScheduled EXCEPT ![k.worker] = @ - 1]
    BY <1>5 DEF EndTask
  <2>2. \A v \in Worker : TasksOf(v)' = IF v = k.worker THEN TasksOf(v) \ {k} ELSE TasksOf(v)
    BY <2>1 DEF TasksOf
  <2> QED BY <1>0, <1>1, <2>1, <2>2 DEF ScheduledExact
<1> QED BY <1>3, <1>4, <1>5 DEF TaskStep

LEMMA ScheduledKept ==
  ASSUME IInv, DealTypes, ToldOnce, CopiesInv, EndedApart, ScheduledExact, [Next]_vars
  PROVE  ScheduledExact'
<1>1. ASSUME UNCHANGED <<tilesScheduled, tasks>> PROVE ScheduledExact'
  BY <1>1 DEF ScheduledExact, TasksOf
<1>2. ASSUME MasterMain PROVE ScheduledExact'
  BY <1>1, <1>2 DEF MasterMain, StartFrame, DealInAdvance, MasterWaits, MasterDone, MasterLeaves,
                    MasterStops, MasterGoto, counts, tiles
<1>3. ASSUME NEW h \in Thread, Dealing(h) PROVE ScheduledExact'
  BY <1>1, <1>3 DEF Dealing, PopTile, CloseFrame, SendAnswer, counts, tiles
<1>4. ASSUME NEW w \in Worker, StartWorker(w) PROVE ScheduledExact'
  <2>1. /\ tilesScheduled' = [tilesScheduled EXCEPT ![w] = 0] /\ UNCHANGED tasks
        /\ tilesScheduled \in [Worker -> Int] /\ TasksOf(w) = {}
    BY <1>4 DEF StartWorker, IInv, Types, TasksCounted
  <2>2. Cardinality(TasksOf(w)) = 0
    BY <2>1, FS_EmptySet, Zenon
  <2>3. \A v \in Worker : TasksOf(v)' = TasksOf(v)
    BY <2>1 DEF TasksOf
  <2> QED BY <2>1, <2>2, <2>3 DEF ScheduledExact
<1>5. ASSUME NEW w \in Worker, Incoming(w) \/ (WorkerMain(w) /\ ~StartWorker(w)) PROVE ScheduledExact'
  BY <1>1, <1>5 DEF Incoming, WorkerMain, ActivateFrame, WorkerDone, WorkerLeaves, WorkerStops,
                    WorkerDrains, WorkerGoto, counts, tiles
<1>6. ASSUME NEW k \in sent, DeliverPart(k) PROVE ScheduledExact'
  BY <1>1, <1>6 DEF DeliverPart, counts
<1>7. ASSUME UNCHANGED vars PROVE ScheduledExact'
  BY <1>1, <1>7 DEF vars, counts, tiles
<1> QED BY <1>2, <1>3, <1>4, <1>5, <1>6, <1>7, ScheduledReceive, ScheduledTask DEF Next

\* What is needed to see that nobody waits for ever.
HangInv ==
  /\ BarrierInv /\ NotifiedInv /\ ToldSoon
  /\ raced \/ (Asked /\ EndedApart /\ ScheduledExact)

LEMMA HangStart == Init => HangInv
<1> SUFFICES ASSUME Init PROVE HangInv
  OBVIOUS
<1>1. /\ mpc = "idle" /\ frame[0] = 0 /\ toDeal = <<>> /\ tasks = {} /\ ~masterIsDone
      /\ \A w \in Worker : /\ wpc[w] = "idle" /\ frame[w] = 0 /\ ~messaging[w] /\ ~frameActive[w]
                           /\ ~workerNotified[w] /\ tilesScheduled[w] = 0
      /\ Worker # {}
  BY NumbersAre DEF Init
<1>2. BarrierInv
  BY <1>1 DEF BarrierInv, MasterPast, Past
<1>3. NotifiedInv
  BY <1>1 DEF NotifiedInv, MasterPast
<1>4. ToldSoon /\ Asked
  BY <1>1 DEF ToldSoon, Asked
<1>5. EndedApart
  BY <1>1 DEF EndedApart, Ended
<1>6. ScheduledExact
  <2>1. \A w \in Worker : TasksOf(w) = {}
    BY <1>1 DEF TasksOf
  <2>2. \A w \in Worker : Cardinality(TasksOf(w)) = 0
    BY <2>1, FS_EmptySet, Zenon
  <2> QED BY <1>1, <2>2 DEF ScheduledExact
<1> QED BY <1>2, <1>3, <1>4, <1>5, <1>6 DEF HangInv

\* The inductive invariant of the ends of the frames (waitUntilFinished,
\* dynamicLoadBalancer::Master and Slave).
THEOREM HangInvariance == Spec => [](IInv /\ DealInv /\ HangInv)
<1>1. Init => IInv /\ DealInv /\ HangInv
  BY InitIInv, DealStart, HangStart
<1>2. IInv /\ DealInv /\ HangInv /\ [Next]_vars => HangInv'
  <2> SUFFICES ASSUME IInv, DealInv, HangInv, [Next]_vars PROVE HangInv'
    OBVIOUS
  <2>1. DealTypes
    BY DEF DealInv
  <2>2. BarrierInv' /\ NotifiedInv' /\ ToldSoon'
    BY <2>1, BarrierKept, NotifiedKept, ToldSoonKept DEF HangInv
  <2>3. ASSUME ~raced' PROVE Asked' /\ EndedApart' /\ ScheduledExact'
    <3>1. ~raced
      BY <2>3, RacedStays
    <3> QED BY <2>1, <3>1, AskedKept, EndedKept, ScheduledKept DEF DealInv, HangInv
  <2> QED BY <2>2, <2>3 DEF HangInv
<1> QED BY <1>1, <1>2, DealInvariance, PTL DEF Spec

\* A state that stops although all ranks have not left the frame: nobody is in
\* scheduleTile, no task is left, and everybody waits in the master's frame.
Stopped ==
  /\ IInv /\ DealTypes /\ ToldOnce /\ CopiesInv
  /\ BarrierInv /\ NotifiedInv /\ ToldSoon /\ Asked /\ ScheduledExact
  /\ ~CanStep /\ ~Finished /\ ~\E w \in Worker : Stranded(w)

LEMMA NobodyDeals == ASSUME Stopped PROVE \A h \in Thread : call[h] = NoCall
<1> SUFFICES ASSUME NEW h \in Thread, call[h] # NoCall PROVE FALSE
  OBVIOUS
<1>1. call[h] \in Closing \cup Giving
  BY DEF Stopped, DealTypes, CallTypes
<1>2. call[h].step \in {"pop", "close", "send"}
  BY <1>1 DEF Closing, Giving
<1>3. call[h].step = "pop" => preferredTiles[call[h].from] # <<>>
  BY DEF Stopped, CopiesInv, QueuedOnce
<1> QED BY <1>2, <1>3 DEF Stopped, CanStep

\* Where a worker is that cannot go on.
LEMMA WorkersWait ==
  ASSUME Stopped, NEW w \in Worker
  PROVE  /\ wpc[w] \in {"idle", "wait", "ibarrier", "drain"} /\ frame[w] = frame[0]
         /\ wpc[w] \in {"wait", "ibarrier"} => messaging[w] /\ answers[w] = <<>>
         /\ wpc[w] # "idle" => frame[0] # 0
<1>1. wpc[w] \in WorkerPC /\ frame[w] \in Nat /\ frame[0] \in Nat
  BY NumbersAre DEF Stopped, DealTypes, TypeOK, WorkerPC
<1>2. wpc[w] \notin {"begin", "stop"} /\ ~(wpc[w] = "idle" /\ frame[w] < frame[0])
      /\ ~(messaging[w] /\ answers[w] # <<>>)
  BY DEF Stopped, CanStep
<1>3. frame[w] = frame[0] \/ frame[w] + 1 = frame[0]
  BY DEF Stopped, DealTypes, FramesInStep
<1>4. wpc[w] # "idle" => frame[w] = frame[0]
  BY DEF Stopped, DealTypes, FramesInStep
<1>5. frame[w] = frame[0]
  BY <1>1, <1>2, <1>3, <1>4
<1>6. /\ messaging[w] <=> wpc[w] \in {"begin", "wait", "ibarrier", "stop"}
      /\ wpc[w] # "idle" => frame[0] # 0
  BY DEF Stopped, BarrierInv
<1> QED BY <1>1, <1>2, <1>5, <1>6 DEF WorkerPC

LEMMA NoTaskIsLeft == ASSUME Stopped PROVE tasks = {}
<1> SUFFICES ASSUME NEW k \in tasks PROVE FALSE
  OBVIOUS
<1>1. k.worker \in Worker /\ wpc[k.worker] # "idle"
  BY DEF Stopped, IInv, Types, TasksCounted, TasksOf
<1>2. wpc[k.worker] \in {"wait", "ibarrier", "drain"}
  BY <1>1, WorkersWait
<1>3. frameActive[k.worker]
  BY <1>1, <1>2 DEF Stopped, BarrierInv
<1> QED BY <1>3 DEF Stopped, CanStep

\* At the end of the frame all workers have been notified.
LEMMA AllNotified ==
  ASSUME Stopped, frame[0] # 0, mpc # "wait"
  PROVE  \A w \in Worker : workerNotified[w]
<1>1. mpc \in {"idle", "ibarrier"}
  <2>1. mpc \in {"idle", "deal", "wait", "ibarrier", "stop"}
    BY DEF Stopped, DealTypes, TypeOK
  <2>2. mpc \notin {"deal", "stop"}
    BY NobodyDeals DEF Stopped, CanStep, Thread
  <2> QED BY <2>1, <2>2
<1>2. mpc = "ibarrier" \/ MasterPast
  BY <1>1 DEF MasterPast
<1> QED BY <1>2 DEF Stopped, NotifiedInv

\* Nobody waits for render threads: tilesExhausted has come, or is too late.
LEMMA NobodyDrains == ASSUME Stopped, NEW w \in Worker PROVE wpc[w] # "drain"
<1> SUFFICES ASSUME wpc[w] = "drain" PROVE FALSE
  OBVIOUS
<1>1. AllAtEnd(frame[0]) /\ ~messaging[w] /\ frame[0] # 0
  BY DEF Stopped, BarrierInv, Past
<1>2. workerNotified[w]
  <2>1. mpc # "wait"
    BY <1>1 DEF AllAtEnd, AtEnd
  <2> QED BY <1>1, <2>1, AllNotified
<1>3. tilesScheduled[w] = 0
  <2>1. TasksOf(w) = {}
    BY NoTaskIsLeft DEF TasksOf
  <2>2. Cardinality(TasksOf(w)) = 0
    BY <2>1, FS_EmptySet, Zenon
  <2> QED BY <2>2 DEF Stopped, ScheduledExact
<1>4. tilesAvailable[w]
  BY <1>3 DEF Stopped, CanStep
<1>5. ExhaustedComes(w)
  BY <1>2, <1>4 DEF Stopped, ToldSoon, Told
<1>6. Stranded(w)
  BY <1>1, <1>4, <1>5 DEF Stranded, ExhaustedComes, Contains
<1> QED BY <1>6 DEF Stopped

\* The master has something to wait for: a worker that has not been notified
\* has a tile to come or to ask for.
LEMMA MasterNeedNotWait == ASSUME Stopped, NumPreAllocated # 0 PROVE mpc # "wait"
<1> SUFFICES ASSUME mpc = "wait" PROVE FALSE
  OBVIOUS
<1>1. ~masterIsDone /\ \A h \in Thread : call[h].step # "close"
  BY NobodyDeals DEF Stopped, CanStep, NoCall
<1>2. PICK v \in Worker : ~workerNotified[v]
  BY <1>1 DEF Stopped, NotifiedInv
<1>3. toDeal = <<>> /\ ~CallTo(v) /\ tasks = {}
  BY NobodyDeals, NoTaskIsLeft DEF Stopped, BarrierInv, CallTo
<1>4. frame[0] # 0 /\ ~AllAtEnd(frame[0])
  BY DEF Stopped, DealTypes, FramesInStep, AllAtEnd, AtEnd
<1>5. answers[v] = <<>>
  <2>1. ~Past(v)
    BY <1>4 DEF Stopped, BarrierInv
  <2>2. wpc[v] \in {"wait", "ibarrier"}
    BY <1>4, <2>1, WorkersWait DEF Past
  <2> QED BY <2>2, WorkersWait
<1>6. ~(requests[v] > 0)
  BY NobodyDeals DEF Stopped, CanStep, Thread
<1>7. ~\E i \in 1 .. Len(toDeal) : toDeal[i] = v
  BY <1>3
<1>8. Pending(v)
  BY <1>2 DEF Stopped, Asked
<1> QED BY <1>3, <1>5, <1>6, <1>7, <1>8 DEF Pending

\* The owner of a tile has all its parts when no copy is on its way.
LEMMA OwnerNeedNotWait ==
  ASSUME Stopped, NEW w \in Worker, mpc # "wait" PROVE wpc[w] # "wait"
<1> SUFFICES ASSUME wpc[w] = "wait" PROVE FALSE
  OBVIOUS
<1>1. frame[0] # 0 /\ frame[w] = frame[0] /\ messaging[w] /\ ~AllAtEnd(frame[0])
  BY WorkersWait DEF AllAtEnd, AtEnd
<1>2. \A v \in Worker : preferredTiles[v] = <<>>
  BY <1>1, AllNotified DEF Stopped, NotifiedInv
<1>3. \A v \in Worker : answers[v] = <<>>
  <2> SUFFICES ASSUME NEW v \in Worker PROVE answers[v] = <<>>
    OBVIOUS
  <2>1. ~Past(v)
    BY <1>1 DEF Stopped, BarrierInv
  <2>2. wpc[v] \in {"wait", "ibarrier"}
    BY <1>1, <2>1, WorkersWait DEF Past
  <2> QED BY <2>2, WorkersWait
<1>4. PICK t \in Tile : OwnerOf(t) = w /\ parts[t] # instances[t]
  BY DEF Stopped, CanStep
<1>5. ASSUME NEW c \in TileTask, c.tile = t PROVE ~Held(c)
  <2>1. ~Waits(c) /\ ~Answered(c)
    <3>1. \A v \in Worker : Len(preferredTiles[v]) = 0 /\ Len(answers[v]) = 0
      BY <1>2, <1>3
    <3> QED BY <3>1 DEF Waits, Answered
  <2>2. ~Leaves(c) /\ ~Rendered(c)
    BY NobodyDeals, NoTaskIsLeft DEF Leaves, Rendered, NoCall
  <2>3. ~SentOff(c)
    <3> SUFFICES ASSUME NEW k \in sent, CopyOf(k) = c PROVE FALSE
      BY DEF SentOff
    <3>1. k.tile = t
      BY <1>5 DEF CopyOf
    <3> QED BY <1>1, <1>4, <3>1 DEF Stopped, CanStep
  <2> QED BY <2>1, <2>2, <2>3 DEF Held
<1>6. HeldOf(t) = {}
  <2> HIDE DEF Held
  <2> QED BY <1>5 DEF HeldOf
<1>7. Cardinality(HeldOf(t)) = 0
  BY <1>6, FS_EmptySet, Zenon
<1>8. Cardinality(HeldOf(t)) + parts[t] = instances[t]
  BY <1>1, <1>4 DEF Stopped, CopiesInv, Counted, Arrived
<1>9. parts[t] \in Nat
  BY DEF Stopped, DealTypes, TypeOK
<1> QED BY <1>4, <1>7, <1>8, <1>9

\* So there is no such state.
LEMMA NeverStopped == ASSUME Stopped, NumPreAllocated # 0 PROVE FALSE
<1>1. \A w \in Worker : wpc[w] \in {"idle", "ibarrier"} /\ frame[w] = frame[0]
  BY WorkersWait, NobodyDrains, MasterNeedNotWait, OwnerNeedNotWait
<1>2. mpc \in {"idle", "ibarrier"}
  <2>1. mpc \in {"idle", "deal", "wait", "ibarrier", "stop"}
    BY DEF Stopped, DealTypes, TypeOK
  <2>2. mpc \notin {"deal", "stop"}
    BY NobodyDeals DEF Stopped, CanStep, Thread
  <2> QED BY <2>1, <2>2, MasterNeedNotWait
<1>3. AllAtEnd(frame[0])
  BY <1>1, <1>2 DEF AllAtEnd, AtEnd
<1>4. mpc # "ibarrier" /\ \A w \in Worker : wpc[w] # "ibarrier"
  BY <1>1, <1>3 DEF Stopped, CanStep
<1>5. Finished
  BY <1>1, <1>2, <1>4 DEF Finished
<1> QED BY <1>5 DEF Stopped

\* With at least one tile dealt in advance to every worker, all that can keep
\* the ranks in a frame are two threads in scheduleTile and an answer that
\* comes too late (renderFrame, incoming and scheduleTile of the master,
\* DistributedFrameBuffer::waitUntilFinished, Slave::renderFrame).
THEOREM OnlyRaceOrLateHangs == NumPreAllocated # 0 => (Spec => []GoesOn)
<1> SUFFICES ASSUME NumPreAllocated # 0 PROVE Spec => []GoesOn
  OBVIOUS
<1>1. IInv /\ DealInv /\ HangInv => GoesOn
  <2> SUFFICES ASSUME IInv, DealInv, HangInv, ~GoesOn PROVE FALSE
    OBVIOUS
  <2>1. ~raced /\ ~CanStep /\ ~Finished /\ ~\E w \in Worker : Stranded(w)
    BY DEF GoesOn
  <2>2. Stopped
    BY <2>1 DEF Stopped, DealInv, HangInv
  <2> QED BY <2>2, NeverStopped
<1> QED BY <1>1, HangInvariance, PTL
=============================================================================
