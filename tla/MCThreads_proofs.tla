--------------------------- MODULE MCThreads_proofs ---------------------------
(***************************************************************************)
(* The threads of one process: stop() of the AsyncLoop is a barrier, the   *)
(* render engine shows whole new frames and is quiet when it is stopped,   *)
(* the tasking system runs every job once, and the scene graph loses no    *)
(* change, for every number of wakeups, short sleeps, threads, tasks,      *)
(* parameters, changes and frames.                                         *)
(***************************************************************************)
EXTENDS MCThreads, FiniteSetTheorems, SequenceTheorems, TLAPS

-----------------------------------------------------------------------------
(* AsyncLoop                                                               *)

\* The initial state, after the constructor, satisfies the invariant.
LEMMA InitIInv == Init => IInv
<1> SUFFICES ASSUME Init
             PROVE  IInv
  OBVIOUS
<1>1. TypeOK
  <2>1. spurious \in 0..MaxSpurious
    BY MaxSpuriousAssumption DEF Init
  <2>2. QED
    BY <2>1 DEF Init, TypeOK, LoopPC, OwnerPC, Locked
<1>2. QED
  BY <1>1 DEF Init, IInv, NoBodyAfterStop

\* Every step of the background thread and of its owner keeps it: the only
\* way into the body is through the test of the run flag under the mutex, and
\* stop() returns only when the mutex is free.
LEMMA NextIInv == IInv /\ [Next]_vars => IInv'
<1> SUFFICES ASSUME IInv, [Next]_vars
             PROVE  IInv'
  OBVIOUS
<1> USE MaxSpuriousAssumption
    DEF IInv, TypeOK, LoopPC, OwnerPC, Locked, NoBodyAfterStop, flags
<1>1. CASE TestAlive
  BY <1>1 DEF TestAlive
<1>2. CASE Lock
  BY <1>2 DEF Lock
<1>3. CASE EvalPredicate
  BY <1>3 DEF EvalPredicate
<1>4. CASE Block
  BY <1>4 DEF Block
<1>5. CASE SpuriousWakeup
  BY <1>5 DEF SpuriousWakeup
<1>6. CASE CheckAlive
  BY <1>6 DEF CheckAlive
<1>7. CASE TestRunning
  BY <1>7 DEF TestRunning
<1>8. CASE BodyReturns
  BY <1>8 DEF BodyReturns
<1>9. CASE Leave
  BY <1>9 DEF Leave
<1>10. CASE Start
  BY <1>10 DEF Start
<1>11. CASE Notify
  BY <1>11 DEF Notify
<1>12. CASE BeginStop
  BY <1>12 DEF BeginStop
<1>13. CASE EndStop
  BY <1>13 DEF EndStop
<1>14. CASE BeginDestroy
  BY <1>14 DEF BeginDestroy
<1>15. CASE Join
  BY <1>15 DEF Join
<1>16. CASE UNCHANGED vars
  BY <1>16 DEF vars
<1>17. QED
  BY <1>1, <1>2, <1>3, <1>4, <1>5, <1>6, <1>7, <1>8, <1>9, <1>10, <1>11,
     <1>12, <1>13, <1>14, <1>15, <1>16
  DEF Next, LoopThread, OwnerCalls, OwnerReturns

\* The inductive invariant holds in every reachable state of the loop.
THEOREM Invariance == Spec => []IInv
  BY InitIInv, NextIInv, PTL DEF Spec

\* stop() is a barrier: after it returns and before the next start() the
\* user's function is not running (AsyncLoop.h, stop()).
THEOREM StopIsABarrier == Spec => []NoBodyAfterStop
<1>1. IInv => NoBodyAfterStop
  BY DEF IInv
<1>2. QED
  BY Invariance, <1>1, PTL

\* The inside flag is only up while the background thread holds the mutex, so
\* the wait of stop() never blocks (AsyncLoop.h, stop()).
THEOREM InsideIsLocked == Spec => []InsideMeansLocked
<1>1. IInv => InsideMeansLocked
  BY DEF IInv, TypeOK, Locked, InsideMeansLocked
<1>2. QED
  BY Invariance, <1>1, PTL

-----------------------------------------------------------------------------
(* AsyncRenderEngine: what it needs of the AsyncLoop is the invariant proved  *)
(* of that.                                                                *)

EngineTypes ==
  /\ state \in {"invalid", "stopped", "started", "running"}
  /\ newPixels \in BOOLEAN /\ wanted \in BOOLEAN
  /\ front \in {0, 1}
  /\ buffer \in [{0, 1} -> {"none", "partial", "new", "shown"}]
  /\ at \in {"begin", "render", "spin", "fill", "filled", "publish"}
  /\ app \in {"idle", "retry", "restop", "restart", "sleep", "stop", "stopping", "mapping"}

\* Which call of the AsyncLoop each call of the engine is in.
OwnerFollows ==
  /\ app \in {"idle", "mapping", "retry", "restop", "stop"} => owner \in {"stopped", "running"}
  /\ app \in {"restart", "stopping"} => owner \in {"stopped", "stopping"}
  /\ app = "sleep" => owner \in {"notify", "running"}

\* Between calls the state tells whether the loop runs, and a body that has
\* begun sees the state RUNNING unless it is being stopped.
StateTells ==
  /\ app \in {"idle", "mapping"} /\ loopShouldBeRunning => state = "running"
  /\ app \in {"idle", "mapping"} /\ ~wanted => owner = "stopped"
  /\ at # "begin" => loop = "body" /\ (state = "running" \/ app \in {"stop", "stopping"})

Writing == {"fill", "filled", "publish"}

\* Only a body that is being stopped writes over pixels nobody has seen.
BuffersFollow ==
  /\ at \in Writing /\ newPixels => app \in {"stop", "stopping"}
  /\ app = "mapping" => newPixels /\ at \notin Writing
  /\ at = "filled" => buffer[back] = "partial"
  /\ at = "publish" => buffer[back] = "new"
  /\ newPixels /\ app # "mapping" => buffer[back] = "new" \/ at = "filled"
  /\ buffer[front] # "partial"

EngineIInv == IInv /\ EngineTypes /\ OwnerFollows /\ StateTells /\ BuffersFollow

-----------------------------------------------------------------------------
\* The engine is created with its loop not running and no frame.
LEMMA InitEngine == EngineInit => EngineIInv
<1> SUFFICES ASSUME EngineInit
             PROVE  EngineIInv
  OBVIOUS
<1>1. IInv
  BY InitIInv DEF EngineInit
<1>2. EngineTypes
  <2>1. 0 .. 1 = {0, 1}
    OBVIOUS
  <2>2. QED
    BY <2>1 DEF EngineInit, EngineTypes
<1>3. OwnerFollows /\ StateTells /\ BuffersFollow
  BY DEF EngineInit, Init, OwnerFollows, StateTells, BuffersFollow, Writing, back
<1>4. QED
  BY <1>1, <1>2, <1>3 DEF EngineIInv

\* The engine is a client of its AsyncLoop: every step is one of the loop's,
\* or leaves it alone.
LEMMA UsesLoop == [EngineNext]_<<vars, engineVars>> => [Next]_vars
<1> SUFFICES ASSUME [EngineNext]_<<vars, engineVars>>
             PROVE  [Next]_vars
  OBVIOUS
<1>1. CASE Body
  BY <1>1 DEF Body, Begin, RenderFrame, SpinEnds, Fill, Filled, Publish, Next, LoopThread
<1>2. CASE Loop
  BY <1>2 DEF Loop, Next, LoopThread
<1>3. CASE SpuriousWakeup
  BY <1>3 DEF Next
<1>4. CASE CallStart \/ CallStop \/ Swap \/ SetFrameCancelled
  BY <1>4 DEF CallStart, CallStop, Swap, SetFrameCancelled
<1>5. CASE InCall
  BY <1>5 DEF InCall, TestStarted, StopLoop, RestartLoop, Sleep, StopEnds, Swapped,
              Next, OwnerCalls, OwnerReturns
<1>6. CASE UNCHANGED <<vars, engineVars>>
  BY <1>6
<1>7. QED
  BY <1>1, <1>2, <1>3, <1>4, <1>5, <1>6 DEF EngineNext

Rest == EngineTypes /\ OwnerFollows /\ StateTells /\ BuffersFollow

\* A step keeps the engine's part of the invariant.
LEMMA NextRest == EngineIInv /\ [EngineNext]_<<vars, engineVars>> => Rest'
<1> SUFFICES ASSUME EngineIInv, [EngineNext]_<<vars, engineVars>>
             PROVE  Rest'
  OBVIOUS
<1> USE DEF EngineIInv, Rest, EngineTypes, OwnerFollows, StateTells, BuffersFollow,
            Writing, back, buffers, ghosts, vars, InBody
<1>a. /\ owner = "stopped" => loop # "body" /\ ~loopShouldBeRunning
      /\ owner = "running" => loopShouldBeRunning
      /\ loopShouldBeRunning \in BOOLEAN
  BY DEF IInv, NoBodyAfterStop, TypeOK
<1>1. CASE Begin
  BY <1>a, <1>1 DEF Begin
<1>2. CASE RenderFrame
  BY <1>a, <1>2 DEF RenderFrame, BodyReturns, flags
<1>3. CASE SpinEnds
  BY <1>a, <1>3 DEF SpinEnds
<1>4. CASE Fill
  BY <1>a, <1>4 DEF Fill
<1>5. CASE Filled
  BY <1>a, <1>5 DEF Filled
<1>6. CASE Publish
  BY <1>a, <1>6 DEF Publish, BodyReturns, flags
<1>7. CASE Loop
  BY <1>a, <1>7 DEF Loop, engineVars, TestAlive, Lock, EvalPredicate, Block, CheckAlive,
                    TestRunning, Leave, flags
<1>8. CASE SpuriousWakeup /\ UNCHANGED engineVars
  BY <1>a, <1>8 DEF SpuriousWakeup, engineVars, flags
<1>9. CASE CallStart
  BY <1>a, <1>9 DEF CallStart
<1>10. CASE CallStop
  BY <1>a, <1>10 DEF CallStop
<1>11. CASE Swap
  BY <1>a, <1>11 DEF Swap
<1>12. CASE SetFrameCancelled
  BY <1>a, <1>12 DEF SetFrameCancelled
<1>13. CASE TestStarted
  BY <1>a, <1>13 DEF TestStarted
<1>14. CASE StopLoop
  BY <1>a, <1>14 DEF StopLoop, BeginStop
<1>15. CASE RestartLoop
  BY <1>a, <1>15 DEF RestartLoop, Start
<1>16. CASE Sleep
  BY <1>a, <1>16 DEF Sleep
<1>17. CASE StopEnds
  BY <1>a, <1>17 DEF StopEnds
<1>18. CASE Swapped
  BY <1>a, <1>18 DEF Swapped
<1>19. CASE (Notify \/ EndStop) /\ UNCHANGED engineVars
  BY <1>a, <1>19 DEF Notify, EndStop, engineVars, flags
<1>20. CASE UNCHANGED <<vars, engineVars>>
  BY <1>a, <1>20 DEF engineVars
<1>21. QED
  BY <1>1, <1>2, <1>3, <1>4, <1>5, <1>6, <1>7, <1>8, <1>9, <1>10, <1>11, <1>12, <1>13,
     <1>14, <1>15, <1>16, <1>17, <1>18, <1>19, <1>20
     DEF EngineNext, Body, InCall

\* The inductive invariant of the engine and its loop.
THEOREM EngineInvariance == EngineSpec => []EngineIInv
<1>1. EngineIInv /\ [EngineNext]_<<vars, engineVars>> => EngineIInv'
  BY UsesLoop, NextIInv, NextRest DEF EngineIInv, Rest
<1>2. QED
  BY InitEngine, <1>1, PTL DEF EngineSpec

\* What is mapped is never a frame that is being written, and new pixels have
\* not been shown (AsyncRenderEngine.cpp, DoubleBufferedValue.h).
THEOREM ShowsWhole == EngineSpec => []ShowsWholeNewFrames
<1>1. EngineIInv => ShowsWholeNewFrames
  BY DEF EngineIInv, BuffersFollow, Writing, ShowsWholeNewFrames
<1>2. QED
  BY <1>1, EngineInvariance, PTL

\* No frame is rendered between the return of stop() and the next start().
THEOREM StopIsQuiet == EngineSpec => []EngineIsQuiet
<1>1. EngineIInv => EngineIsQuiet
  BY DEF EngineIInv, IInv, NoBodyAfterStop, StateTells, EngineIsQuiet
<1>2. QED
  BY <1>1, EngineInvariance, PTL

-----------------------------------------------------------------------------
(* The tasking system.                                                     *)

PCs == {"idle", "wait", "take", "run", "count", "finish", "finished", "sleep",
        "get", "got", "block", "asleep", "exited"}

TaskRecord == [jobs : Tasks!Job, started : Nat, completed : Nat, done : BOOLEAN,
               alive : BOOLEAN, async : BOOLEAN]

TaskTypes ==
  /\ task \in Seq(TaskRecord) /\ Len(task) <= MaxTasks
  /\ active \in Seq(1 .. Len(task))
  /\ pc \in [Tasks!Thread -> PCs]
  /\ current \in [Tasks!Thread -> 0 .. Len(task)]
  /\ job \in [Tasks!Thread -> Nat] /\ myCompleted \in [Tasks!Thread -> Nat]
  /\ ran \in [Tasks!TaskID -> [Tasks!Job -> Nat]]
  /\ running \in BOOLEAN /\ undefined \in BOOLEAN /\ missed \in BOOLEAN

\* A thread that is at work has a task, takes jobs below started and runs
\* none that was run or that another thread runs; the one that finishes a
\* task has counted all of its jobs.
ThreadsAtWork ==
  \A t \in Tasks!Thread :
    LET k == current[t]
    IN /\ pc[t] \in {"wait", "got", "take", "run", "count", "finish", "finished", "sleep"}
            => k # 0
       /\ pc[t] = "run" => /\ job[t] < task[k].jobs /\ job[t] < task[k].started
                           /\ ran[k][job[t]] = 0
                           /\ \A u \in Tasks!Thread \ {t} :
                                pc[u] = "run" /\ current[u] = k => job[u] # job[t]
       /\ pc[t] \in {"finish", "finished"} => task[k].completed = task[k].jobs

\* A job is run at most once, and not before it is taken; a task that is done
\* has counted all of its jobs.
Jobs ==
  \A k \in Tasks!TaskID : \A j \in Tasks!Job :
    /\ ran[k][j] <= 1
    /\ k > Len(task) \/ j >= task[k].started => ran[k][j] = 0

DoneIsCounted ==
  \A k \in 1 .. Len(task) : task[k].done => task[k].completed = task[k].jobs

\* The jobs that were run are those the threads hold, which they have not yet
\* added to numJobsCompleted, and those that are counted there: no job is
\* held by two threads, or held and counted.
Shares(held, counted) ==
  /\ held \in [Tasks!Thread -> SUBSET Tasks!Job]
  /\ counted \in [Tasks!TaskID -> SUBSET Tasks!Job]
  /\ \A t \in Tasks!Thread : Cardinality(held[t]) = myCompleted[t]
  /\ \A t \in Tasks!Thread :
       /\ held[t] # {} => pc[t] \in {"take", "run", "count"}
       /\ \A j \in held[t] : /\ j < task[current[t]].jobs
                             /\ ran[current[t]][j] = 1
                             /\ j \notin counted[current[t]]
       /\ \A u \in Tasks!Thread \ {t} : current[u] = current[t] => held[t] \cap held[u] = {}
  /\ \A k \in Tasks!TaskID : IF k > Len(task) THEN counted[k] = {}
                             ELSE Cardinality(counted[k]) = task[k].completed
  /\ \A k \in 1 .. Len(task) : \A j \in counted[k] : j < task[k].jobs /\ ran[k][j] = 1

TasksShared == \E held, counted : Shares(held, counted)

TaskIInv == TaskTypes /\ ThreadsAtWork /\ Jobs /\ DoneIsCounted /\ TasksShared

-----------------------------------------------------------------------------
\* A set of jobs is finite, and as large as the counts that stand for it.
LEMMA JobSets ==
  ASSUME NEW S \in SUBSET Tasks!Job
  PROVE  /\ IsFiniteSet(S)
         /\ Cardinality(S) \in Nat
         /\ Cardinality(S) = 0 <=> S = {}
<1>1. IsFiniteSet(Tasks!Job)
  BY FS_Interval, 0 \in Int, 3 \in Int DEF Tasks!Job
<1>2. IsFiniteSet(S)
  BY <1>1, FS_Subset
<1>3. QED
  BY <1>2, FS_CardinalityType, FS_EmptySet

\* Jobs below n are at most n, and all of them when they are n.
LEMMA JobsBelow ==
  ASSUME NEW S \in SUBSET Tasks!Job, NEW n \in Tasks!Job, \A j \in S : j < n
  PROVE  /\ Cardinality(S) <= n
         /\ Cardinality(S) = n => \A j \in Tasks!Job : j < n => j \in S
<1>1. n \in Int /\ n - 1 \in Int /\ S \in SUBSET (0 .. n - 1)
  BY DEF Tasks!Job
<1>2. IsFiniteSet(0 .. n - 1) /\ Cardinality(0 .. n - 1) = n
  BY <1>1, FS_Interval, 0 \in Int DEF Tasks!Job
<1>3. /\ Cardinality(S) <= n
      /\ n = Cardinality(S) => 0 .. n - 1 = S
  BY <1>1, <1>2, FS_Subset
<1>4. QED
  BY <1>3 DEF Tasks!Job

LEMMA InitTasks == Tasks!Init => TaskIInv
<1> SUFFICES ASSUME Tasks!Init
             PROVE  TaskIInv
  OBVIOUS
<1> USE TaskBoundsAssumption
<1>1. TaskTypes
  <2>1. task \in Seq(TaskRecord) /\ Len(task) = 0 /\ active \in Seq(1 .. Len(task))
    BY DEF Tasks!Init
  <2>2. pc \in [Tasks!Thread -> PCs]
    BY DEF Tasks!Init, PCs
  <2>3. /\ current \in [Tasks!Thread -> 0 .. Len(task)]
        /\ job \in [Tasks!Thread -> Nat] /\ myCompleted \in [Tasks!Thread -> Nat]
        /\ ran \in [Tasks!TaskID -> [Tasks!Job -> Nat]]
    BY <2>1 DEF Tasks!Init
  <2>4. Len(task) <= MaxTasks
    BY <2>1
  <2>5. running \in BOOLEAN /\ undefined \in BOOLEAN /\ missed \in BOOLEAN
    BY DEF Tasks!Init
  <2>6. QED
    BY <2>1, <2>2, <2>3, <2>4, <2>5 DEF TaskTypes
<1>2. ThreadsAtWork /\ Jobs /\ DoneIsCounted
  <2>1. \A t \in Tasks!Thread : pc[t] \in {"idle", "get"}
    BY DEF Tasks!Init
  <2>2. ThreadsAtWork
    BY <2>1 DEF ThreadsAtWork
  <2>3. QED
    BY <2>2 DEF Tasks!Init, Jobs, DoneIsCounted
<1>3. TasksShared
  <2> DEFINE none == [t \in Tasks!Thread |-> {}]
             counted == [k \in Tasks!TaskID |-> {}]
  <2>1. Len(task) = 0 /\ \A k \in Tasks!TaskID : k > Len(task)
    BY DEF Tasks!Init, Tasks!TaskID
  <2>2. Shares(none, counted)
    BY <2>1, FS_EmptySet DEF Tasks!Init, Shares
  <2>3. QED
    BY <2>2 DEF TasksShared
<1>4. QED
  BY <1>1, <1>2, <1>3 DEF TaskIInv

-----------------------------------------------------------------------------
InJobs == {"take", "run", "count"}

\* A step that moves threads, out of their tasks and into others, or that
\* finishes a task or ends it, and leaves all jobs alone.
LEMMA Moves ==
  ASSUME TaskIInv,
         UNCHANGED <<job, myCompleted, ran>>,
         task' \in Seq(TaskRecord), Len(task') = Len(task),
         \A i \in 1 .. Len(task) :
           /\ task'[i].jobs = task[i].jobs /\ task'[i].started = task[i].started
           /\ task'[i].completed = task[i].completed
           /\ task'[i].done => task[i].done \/ task[i].completed = task[i].jobs,
         active' \in Seq(1 .. Len(task)),
         running' \in BOOLEAN, undefined' \in BOOLEAN, missed' \in BOOLEAN,
         pc' \in [Tasks!Thread -> PCs], current' \in [Tasks!Thread -> 0 .. Len(task)],
         \A t \in Tasks!Thread :
           \/ pc'[t] = pc[t] /\ current'[t] = current[t]
           \/ /\ pc'[t] \notin {"run", "finish"}
              /\ pc'[t] \in {"wait", "got", "take", "count", "sleep"} => current'[t] # 0
              /\ pc'[t] = "finished" => pc[t] = "finish" /\ current'[t] = current[t]
              /\ pc[t] \in InJobs =>
                   myCompleted[t] = 0 \/ (pc'[t] \in InJobs /\ current'[t] = current[t])
  PROVE  TaskIInv'
<1>0. /\ Len(task) \in Nat
      /\ \A t \in Tasks!Thread :
           /\ current[t] \in 0 .. Len(task)
           /\ pc[t] \in {"run", "finish", "finished", "take", "count"} => current[t] \in 1 .. Len(task)
  BY DEF TaskIInv, TaskTypes, ThreadsAtWork
<1>1. TaskTypes'
  BY DEF TaskIInv, TaskTypes
<1>2. ThreadsAtWork'
  <2>1. \A t \in Tasks!Thread : pc'[t] = "run" => pc[t] = "run" /\ current'[t] = current[t]
    OBVIOUS
  <2> SUFFICES ASSUME NEW t \in Tasks!Thread
               PROVE  ThreadsAtWork!(t)'
    BY DEF ThreadsAtWork
  <2>2. CASE pc'[t] = pc[t] /\ current'[t] = current[t]
    <3>1. /\ pc[t] \in {"wait", "got", "take", "run", "count", "finish", "finished", "sleep"}
               => current[t] # 0
          /\ pc[t] = "run" => /\ job[t] < task[current[t]].jobs
                              /\ job[t] < task[current[t]].started
                              /\ ran[current[t]][job[t]] = 0
                              /\ \A u \in Tasks!Thread \ {t} :
                                   pc[u] = "run" /\ current[u] = current[t] => job[u] # job[t]
          /\ pc[t] \in {"finish", "finished"} => task[current[t]].completed = task[current[t]].jobs
      BY DEF TaskIInv, ThreadsAtWork
    <3>2. pc[t] = "run" => \A u \in Tasks!Thread \ {t} :
                             pc'[u] = "run" /\ current'[u] = current[t] => job[u] # job[t]
      BY <2>1, <3>1
    <3>3. QED
      BY <1>0, <2>2, <3>1, <3>2
  <2>3. CASE ~(pc'[t] = pc[t] /\ current'[t] = current[t])
    <3>1. pc'[t] = "finished" => /\ current'[t] \in 1 .. Len(task)
                                 /\ task[current'[t]].completed = task[current'[t]].jobs
      BY <1>0, <2>3 DEF TaskIInv, ThreadsAtWork
    <3>2. QED
      BY <2>3, <3>1
  <2>4. QED
    BY <2>2, <2>3
<1>3. Jobs' /\ DoneIsCounted'
  <2>1. DoneIsCounted'
    BY DEF TaskIInv, DoneIsCounted
  <2>2. Jobs'
    <3> SUFFICES ASSUME NEW k \in Tasks!TaskID, NEW j \in Tasks!Job
                 PROVE  Jobs!(k)!(j)'
      BY DEF Jobs
    <3>1. ran[k][j] <= 1 /\ (k > Len(task) \/ j >= task[k].started => ran[k][j] = 0)
      BY DEF TaskIInv, Jobs
    <3>2. k > Len(task) \/ k \in 1 .. Len(task)
      BY <1>0 DEF Tasks!TaskID
    <3>3. QED
      BY <3>1, <3>2
  <2>3. QED
    BY <2>1, <2>2
<1>4. TasksShared'
  <2>1. PICK held, counted : Shares(held, counted)
    BY DEF TaskIInv, TasksShared
  <2>2. \A t \in Tasks!Thread : myCompleted[t] = 0 => held[t] = {}
    BY <2>1, JobSets DEF Shares
  <2>3. \A t \in Tasks!Thread : held[t] # {} => /\ pc'[t] \in InJobs /\ current'[t] = current[t]
                                                /\ current[t] \in 1 .. Len(task)
    BY <1>0, <2>1, <2>2 DEF Shares, InJobs
  <2>4. \A t \in Tasks!Thread :
           /\ held[t] # {} => pc'[t] \in {"take", "run", "count"}
           /\ \A j \in held[t] : /\ j < task'[current'[t]].jobs
                                 /\ ran[current'[t]][j] = 1
                                 /\ j \notin counted[current'[t]]
           /\ \A u \in Tasks!Thread \ {t} : current'[u] = current'[t] => held[t] \cap held[u] = {}
    <3> SUFFICES ASSUME NEW t \in Tasks!Thread
                 PROVE  <2>4!(t)
      OBVIOUS
    <3>1. /\ \A j \in held[t] : /\ j < task[current[t]].jobs
                                /\ ran[current[t]][j] = 1
                                /\ j \notin counted[current[t]]
          /\ \A u \in Tasks!Thread \ {t} : current[u] = current[t] => held[t] \cap held[u] = {}
      BY <2>1 DEF Shares
    <3>2. held[t] # {} => task'[current'[t]].jobs = task[current[t]].jobs
      BY <2>3
    <3>3. \A u \in Tasks!Thread \ {t} : current'[u] = current'[t] => held[t] \cap held[u] = {}
      BY <2>3, <3>1
    <3>4. held[t] # {} => pc'[t] \in {"take", "run", "count"} /\ current'[t] = current[t]
      BY <2>3 DEF InJobs
    <3>5. QED
      BY <3>1, <3>2, <3>3, <3>4
  <2>5. \A k \in Tasks!TaskID : IF k > Len(task') THEN counted[k] = {}
                                ELSE Cardinality(counted[k]) = task'[k].completed
    <3> SUFFICES ASSUME NEW k \in Tasks!TaskID
                 PROVE  IF k > Len(task) THEN counted[k] = {}
                        ELSE Cardinality(counted[k]) = task'[k].completed
      OBVIOUS
    <3>1. k > Len(task) \/ k \in 1 .. Len(task)
      BY <1>0 DEF Tasks!TaskID
    <3>2. QED
      BY <2>1, <3>1 DEF Shares
  <2>6. \A k \in 1 .. Len(task') : \A j \in counted[k] : j < task'[k].jobs /\ ran[k][j] = 1
    <3> SUFFICES ASSUME NEW k \in 1 .. Len(task), NEW j \in counted[k]
                 PROVE  j < task'[k].jobs /\ ran[k][j] = 1
      OBVIOUS
    <3>1. j < task[k].jobs /\ ran[k][j] = 1
      BY <2>1 DEF Shares
    <3>2. QED
      BY <3>1
  <2>7. Shares(held, counted)'
    BY <2>1, <2>4, <2>5, <2>6 DEF Shares
  <2>8. QED
    BY <2>7 DEF TasksShared
<1>5. QED
  BY <1>1, <1>2, <1>3, <1>4 DEF TaskIInv

\* A thread outside of its tasks holds no jobs.
LEMMA HoldsNone ==
  ASSUME TaskIInv, NEW t \in Tasks!Thread, pc[t] \notin InJobs
  PROVE  myCompleted[t] = 0
<1>1. PICK held, counted : Shares(held, counted)
  BY DEF TaskIInv, TasksShared
<1>2. held[t] = {}
  BY <1>1 DEF Shares, InJobs
<1>3. QED
  BY <1>1, <1>2, FS_EmptySet DEF Shares

\* A task that was used after its end changes nothing else.
LEMMA AccessFails ==
  ASSUME TaskIInv, undefined' = TRUE,
         UNCHANGED <<Tasks!threadVars, task, active, running, shutdown, ran, missed>>
  PROVE  TaskIInv'
<1>1. pc' \in [Tasks!Thread -> PCs] /\ active' \in Seq(1 .. Len(task))
  BY DEF TaskIInv, TaskTypes, Tasks!threadVars
<1>2. running' \in BOOLEAN /\ undefined' \in BOOLEAN /\ missed' \in BOOLEAN
  BY DEF TaskIInv, TaskTypes
<1>3. task' \in Seq(TaskRecord) /\ current' \in [Tasks!Thread -> 0 .. Len(task)]
  BY DEF TaskIInv, TaskTypes, Tasks!threadVars
<1>4. QED
  BY <1>1, <1>2, <1>3, Moves DEF Tasks!threadVars

\* A task that is added is new to everyone.
LEMMA AddsTask ==
  ASSUME TaskIInv, NEW n \in Tasks!Job, NEW async \in BOOLEAN, NEW list,
         Tasks!Enqueue(n, async, list), list \in Seq(1 .. Len(task) + 1),
         Len(task) + 1 <= MaxTasks, undefined' = undefined,
         UNCHANGED <<job, myCompleted>>,
         \/ UNCHANGED <<pc, current>>
         \/ \E c \in Tasks!Thread :
              /\ pc[c] = "idle"
              /\ pc' = [pc EXCEPT ![c] = "wait"]
              /\ current' = [current EXCEPT ![c] = Len(task) + 1]
  PROVE  TaskIInv'
<1> DEFINE k == Len(task) + 1
           new == Tasks!NewTask(n, async)
<1>1. /\ task' = Append(task, new) /\ active' = list
      /\ UNCHANGED <<running, shutdown, ran, missed>>
  BY DEF Tasks!Enqueue
<1>2. new \in TaskRecord
  BY DEF TaskRecord, Tasks!NewTask
<1>3. task \in Seq(TaskRecord) /\ Len(task) \in Nat
  BY DEF TaskIInv, TaskTypes
<1>4. /\ task' \in Seq(TaskRecord) /\ Len(task') = k
      /\ \A i \in 1 .. Len(task) : task'[i] = task[i]
      /\ task'[k] = new
  BY <1>1, <1>2, <1>3, AppendProperties
<1>5. /\ pc' \in [Tasks!Thread -> PCs] /\ current' \in [Tasks!Thread -> 0 .. k]
      /\ \A t \in Tasks!Thread : \/ pc[t] = "idle" /\ pc'[t] = "wait" /\ current'[t] = k
                                 \/ pc'[t] = pc[t] /\ current'[t] = current[t]
  <2>1. /\ pc \in [Tasks!Thread -> PCs] /\ current \in [Tasks!Thread -> 0 .. Len(task)]
        /\ current \in [Tasks!Thread -> 0 .. k] /\ k \in 0 .. k
    BY <1>3 DEF TaskIInv, TaskTypes
  <2>2. CASE UNCHANGED <<pc, current>>
    BY <2>1, <2>2
  <2>3. ASSUME NEW c \in Tasks!Thread, pc[c] = "idle", pc' = [pc EXCEPT ![c] = "wait"],
               current' = [current EXCEPT ![c] = k]
        PROVE  /\ pc' \in [Tasks!Thread -> PCs] /\ current' \in [Tasks!Thread -> 0 .. k]
               /\ \A t \in Tasks!Thread : \/ pc[t] = "idle" /\ pc'[t] = "wait" /\ current'[t] = k
                                          \/ pc'[t] = pc[t] /\ current'[t] = current[t]
    BY <2>1, <2>3 DEF PCs
  <2>4. QED
    BY <2>2, <2>3
<1>5a. \A t \in Tasks!Thread : current[t] \in 0 .. Len(task)
  BY <1>3 DEF TaskIInv, TaskTypes
<1>6. TaskTypes'
  <2>1. active' \in Seq(1 .. Len(task'))
    BY <1>1, <1>4
  <2>2. /\ job' \in [Tasks!Thread -> Nat] /\ myCompleted' \in [Tasks!Thread -> Nat]
        /\ ran' \in [Tasks!TaskID -> [Tasks!Job -> Nat]]
        /\ running' \in BOOLEAN /\ undefined' \in BOOLEAN /\ missed' \in BOOLEAN
    BY <1>1 DEF TaskIInv, TaskTypes
  <2>3. QED
    BY <2>1, <2>2, <1>4, <1>5 DEF TaskTypes
<1>7. ThreadsAtWork'
  <2> SUFFICES ASSUME NEW t \in Tasks!Thread
               PROVE  /\ pc'[t] \in {"wait", "got", "take", "run", "count", "finish", "finished", "sleep"}
                           => current'[t] # 0
                      /\ pc'[t] = "run" => /\ job'[t] < task'[current'[t]].jobs
                                           /\ job'[t] < task'[current'[t]].started
                                           /\ ran'[current'[t]][job'[t]] = 0
                                           /\ \A u \in Tasks!Thread \ {t} :
                                                pc'[u] = "run" /\ current'[u] = current'[t] => job'[u] # job'[t]
                      /\ pc'[t] \in {"finish", "finished"}
                           => task'[current'[t]].completed = task'[current'[t]].jobs
    BY DEF ThreadsAtWork
  <2>1. \/ pc'[t] = "wait" /\ current'[t] = k
        \/ pc'[t] = pc[t] /\ current'[t] = current[t]
    BY <1>5
  <2>2. CASE pc'[t] = "wait" /\ current'[t] = k
    BY <2>2, <1>3
  <2>3. CASE pc'[t] = pc[t] /\ current'[t] = current[t]
    <3>1. pc[t] \in {"run", "finish", "finished"} => task'[current[t]] = task[current[t]]
      BY <1>4, <1>5a DEF TaskIInv, ThreadsAtWork
    <3>2. \A u \in Tasks!Thread : pc'[u] = "run" => pc[u] = "run" /\ current'[u] = current[u]
      BY <1>5
    <3>3. QED
      <4>1. job' = job /\ ran' = ran
        BY <1>1
      <4>2. /\ pc'[t] = "run" => /\ job[t] < task[current[t]].jobs
                                 /\ job[t] < task[current[t]].started
                                 /\ ran[current[t]][job[t]] = 0
                                 /\ \A u \in Tasks!Thread \ {t} :
                                      pc[u] = "run" /\ current[u] = current[t] => job[u] # job[t]
            /\ pc'[t] \in {"finish", "finished"}
                 => task[current[t]].completed = task[current[t]].jobs
            /\ pc[t] \in {"wait", "got", "take", "run", "count", "finish", "finished", "sleep"}
                 => current[t] # 0
        BY <2>3 DEF TaskIInv, ThreadsAtWork
      <4>3. \A u \in Tasks!Thread \ {t} :
              pc'[t] = "run" /\ pc'[u] = "run" /\ current'[u] = current[t] => job[u] # job[t]
        BY <3>2, <4>2
      <4>4. QED
        BY <2>3, <3>1, <4>1, <4>2, <4>3
  <2>4. QED
    BY <2>1, <2>2, <2>3
<1>8. Jobs' /\ DoneIsCounted'
  <2>1. new.started = 0 /\ new.done = FALSE
    BY DEF Tasks!NewTask
  <2>2. ASSUME NEW i \in Tasks!TaskID, NEW j \in Tasks!Job
        PROVE  /\ ran'[i][j] <= 1
               /\ i > Len(task') \/ j >= task'[i].started => ran'[i][j] = 0
    <3>1. i <= Len(task) \/ i >= k
      BY <1>3 DEF Tasks!TaskID
    <3>2. CASE i <= Len(task)
      BY <1>1, <1>3, <1>4, <3>2 DEF TaskIInv, Jobs, Tasks!TaskID
    <3>3. CASE i >= k
      BY <1>1, <1>3, <1>4, <3>3 DEF TaskIInv, Jobs, Tasks!TaskID
    <3>4. QED
      BY <3>1, <3>2, <3>3
  <2>3. DoneIsCounted'
    <3> SUFFICES ASSUME NEW i \in 1 .. Len(task'), task'[i].done
                 PROVE  task'[i].completed = task'[i].jobs
      BY DEF DoneIsCounted
    <3>1. i \in 1 .. Len(task) \/ i = k
      BY <1>3, <1>4
    <3>2. QED
      BY <1>4, <2>1, <3>1 DEF TaskIInv, DoneIsCounted
  <2>4. QED
    BY <2>2, <2>3 DEF Jobs
<1>9. TasksShared'
  <2>1. PICK held, counted : Shares(held, counted)
    BY DEF TaskIInv, TasksShared
  <2>2. \A t \in Tasks!Thread : held[t] # {} =>
          /\ pc'[t] = pc[t] /\ current'[t] = current[t]
          /\ current[t] \in 1 .. Len(task)
    <3> SUFFICES ASSUME NEW t \in Tasks!Thread, held[t] # {}
                 PROVE  /\ pc'[t] = pc[t] /\ current'[t] = current[t]
                        /\ current[t] \in 1 .. Len(task)
      OBVIOUS
    <3>1. pc[t] \in InJobs
      BY <2>1 DEF Shares, InJobs
    <3>2. pc'[t] = pc[t] /\ current'[t] = current[t]
      BY <3>1, <1>5 DEF InJobs
    <3>3. current[t] # 0
      BY <3>1 DEF TaskIInv, ThreadsAtWork, InJobs
    <3>4. QED
      BY <3>2, <3>3, <1>3, <1>5a
  <2>3. \A i \in Tasks!TaskID : IF i > Len(task') THEN counted[i] = {}
                                ELSE Cardinality(counted[i]) = task'[i].completed
    <3> SUFFICES ASSUME NEW i \in Tasks!TaskID
                 PROVE  IF i > k THEN counted[i] = {}
                        ELSE Cardinality(counted[i]) = task'[i].completed
      BY <1>4
    <3>1. i > k \/ i = k \/ i \in 1 .. Len(task)
      BY <1>3 DEF Tasks!TaskID
    <3>2. new.completed = 0
      BY DEF Tasks!NewTask
    <3>3. i >= k => counted[i] = {}
      BY <2>1, <1>3 DEF Shares, Tasks!TaskID
    <3>4. CASE i = k
      <4>1. counted[i] = {} /\ Cardinality(counted[i]) = 0
        <5>1. counted[i] = {}
          BY <1>3, <3>3, <3>4
        <5>2. QED
          BY <5>1, FS_EmptySet
      <4>2. ~(i > k) /\ task'[i].completed = 0
        BY <1>3, <1>4, <3>2, <3>4
      <4>3. QED
        BY <4>1, <4>2
    <3>5. CASE i \in 1 .. Len(task)
      BY <1>3, <1>4, <2>1, <3>5 DEF Shares, Tasks!TaskID
    <3>6. QED
      BY <1>3, <3>1, <3>3, <3>4, <3>5 DEF Tasks!TaskID
  <2>4. \A i \in 1 .. Len(task') : \A j \in counted[i] : j < task'[i].jobs /\ ran'[i][j] = 1
    <3> SUFFICES ASSUME NEW i \in 1 .. Len(task'), NEW j \in counted[i]
                 PROVE  j < task'[i].jobs /\ ran'[i][j] = 1
      OBVIOUS
    <3>1. i \in Tasks!TaskID
      BY <1>4, <1>3, TaskBoundsAssumption DEF Tasks!TaskID
    <3>2. i \in 1 .. Len(task)
      BY <2>1, <1>3, <1>4, <3>1 DEF Shares
    <3>3. QED
      BY <1>1, <1>4, <2>1, <3>2 DEF Shares
  <2>5. \A t \in Tasks!Thread :
           /\ held[t] # {} => pc'[t] \in {"take", "run", "count"}
           /\ \A j \in held[t] : /\ j < task'[current'[t]].jobs
                                 /\ ran'[current'[t]][j] = 1
                                 /\ j \notin counted[current'[t]]
           /\ \A u \in Tasks!Thread \ {t} : current'[u] = current'[t] => held[t] \cap held[u] = {}
    BY <1>1, <1>4, <2>1, <2>2 DEF Shares
  <2>6. Shares(held, counted)'
    BY <2>1, <2>3, <2>4, <2>5 DEF Shares
  <2>7. QED
    BY <2>6 DEF TasksShared
<1>10. QED
  BY <1>6, <1>7, <1>8, <1>9 DEF TaskIInv

\* A task that is written keeps its place.
LEMMA Writes ==
  ASSUME TaskIInv, NEW k \in 1 .. Len(task), NEW r \in TaskRecord,
         task' = [task EXCEPT ![k] = r]
  PROVE  /\ task' \in Seq(TaskRecord) /\ Len(task') = Len(task)
         /\ \A i \in 1 .. Len(task) : task'[i] = IF i = k THEN r ELSE task[i]
  BY ExceptSeq DEF TaskIInv, TaskTypes

\* Where the tasks and the threads' places in them are.
LEMMA Places ==
  ASSUME TaskIInv
  PROVE  /\ Len(task) \in Nat /\ task \in [1 .. Len(task) -> TaskRecord]
         /\ 1 .. Len(task) \subseteq Tasks!TaskID
         /\ \A t \in Tasks!Thread :
              /\ current[t] \in 0 .. Len(task)
              /\ pc[t] \in {"wait", "got", "take", "run", "count", "finish", "finished", "sleep"}
                   => current[t] \in 1 .. Len(task)
<1>1. Len(task) \in Nat /\ task \in [1 .. Len(task) -> TaskRecord] /\ Len(task) <= MaxTasks
  BY DEF TaskIInv, TaskTypes
<1>2. \A t \in Tasks!Thread : current[t] \in 0 .. Len(task)
  BY DEF TaskIInv, TaskTypes
<1>3. QED
  BY <1>1, <1>2, TaskBoundsAssumption DEF TaskIInv, ThreadsAtWork, Tasks!TaskID

LEMMA TakesJob ==
  ASSUME TaskIInv, NEW t \in Tasks!Thread, Tasks!TakeJob(t)
  PROVE  TaskIInv'
<1> DEFINE k == current[t]
           id == task[k].started
<1>1. CASE undefined' = TRUE /\ UNCHANGED <<Tasks!threadVars, task, active, running, shutdown, ran, missed>>
  BY <1>1, AccessFails
<1>2. CASE /\ task' = [task EXCEPT ![k].started = @ + 1]
           /\ job' = [job EXCEPT ![t] = id]
           /\ pc' = [pc EXCEPT ![t] = IF id >= task[k].jobs THEN "count" ELSE "run"]
           /\ UNCHANGED <<current, myCompleted, active, running, shutdown, ran, undefined, missed>>
  <2>1. pc[t] = "take" /\ k \in 1 .. Len(task) /\ task[k] \in TaskRecord /\ id \in Nat
    BY Places DEF Tasks!TakeJob, TaskRecord
  <2> DEFINE r == [task[k] EXCEPT !.started = @ + 1]
  <2>2. /\ r \in TaskRecord /\ r.started = id + 1 /\ r.jobs = task[k].jobs
        /\ r.completed = task[k].completed /\ r.done = task[k].done
    BY <2>1 DEF TaskRecord
  <2>3. task' = [task EXCEPT ![k] = r]
    BY <1>2, <2>1, Places
  <2> HIDE DEF r
  <2>4. /\ task' \in Seq(TaskRecord) /\ Len(task') = Len(task)
        /\ \A i \in 1 .. Len(task) : task'[i] = IF i = k THEN r ELSE task[i]
    BY <2>1, <2>2, <2>3, Writes
  <2>5. \A i \in 1 .. Len(task) :
          /\ task'[i].jobs = task[i].jobs /\ task'[i].completed = task[i].completed
          /\ task'[i].done = task[i].done
          /\ task'[i].started = IF i = k THEN task[i].started + 1 ELSE task[i].started
    BY <2>2, <2>4
  <2>6. /\ pc \in [Tasks!Thread -> PCs] /\ job \in [Tasks!Thread -> Nat]
        /\ pc' \in [Tasks!Thread -> PCs] /\ job' \in [Tasks!Thread -> Nat]
    BY <1>2, <2>1 DEF TaskIInv, TaskTypes, PCs
  <2>7. TaskTypes'
    <3>1. /\ active' \in Seq(1 .. Len(task')) /\ current' \in [Tasks!Thread -> 0 .. Len(task')]
          /\ Len(task') <= MaxTasks
      BY <1>2, <2>4 DEF TaskIInv, TaskTypes
    <3>2. /\ myCompleted' \in [Tasks!Thread -> Nat]
          /\ ran' \in [Tasks!TaskID -> [Tasks!Job -> Nat]]
          /\ running' \in BOOLEAN /\ undefined' \in BOOLEAN /\ missed' \in BOOLEAN
      BY <1>2 DEF TaskIInv, TaskTypes
    <3>3. QED
      BY <2>4, <2>6, <3>1, <3>2 DEF TaskTypes
  <2>8. \A u \in Tasks!Thread : u # t => pc'[u] = pc[u] /\ job'[u] = job[u]
    BY <1>2, <2>6
  <2>9. /\ pc'[t] \in {"count", "run"} /\ job'[t] = id
        /\ pc'[t] = "run" => id < task[k].jobs
    BY <1>2, <2>1, <2>6, Places DEF TaskRecord, Tasks!Job
  <2>10. ThreadsAtWork'
    <3>1. id \in Tasks!Job => ran[k][id] = 0
      BY <2>1, Places DEF TaskIInv, Jobs
    <3>2. pc'[t] = "run" => id \in Tasks!Job
      BY <2>1, <2>9 DEF TaskRecord, Tasks!Job
    <3>3. \A u \in Tasks!Thread \ {t} : pc[u] = "run" /\ current[u] = k => job[u] # id
      BY <2>1 DEF TaskIInv, ThreadsAtWork
    <3>4. \A u \in Tasks!Thread : pc[u] \in {"run", "finish", "finished"} => current[u] \in 1 .. Len(task)
      BY Places
    <3>5. \A u \in Tasks!Thread : pc[u] = "run" => job[u] < task'[current[u]].started
      <4> SUFFICES ASSUME NEW u \in Tasks!Thread, pc[u] = "run"
                   PROVE  job[u] < task'[current[u]].started
        OBVIOUS
      <4>1. PICK i \in 1 .. Len(task) : i = current[u]
        BY <3>4
      <4>2. job[u] \in Nat /\ job[u] < task[i].started
        BY <2>6, <4>1 DEF TaskIInv, ThreadsAtWork
      <4>3. task[i].started \in Nat
        BY <4>1, Places DEF TaskRecord
      <4>4. task'[i].started = task[i].started \/ task'[i].started = task[i].started + 1
        BY <2>5
      <4>5. QED
        BY <4>1, <4>2, <4>3, <4>4
    <3> SUFFICES ASSUME NEW u \in Tasks!Thread
                 PROVE  ThreadsAtWork!(u)'
      BY DEF ThreadsAtWork
    <3>6. CASE u = t
      BY <1>2, <2>1, <2>5, <2>8, <2>9, <3>1, <3>2, <3>3, <3>6
    <3>7. CASE u # t
      <4>1. pc'[u] = pc[u] /\ current'[u] = current[u] /\ job'[u] = job[u] /\ ran' = ran
        BY <1>2, <2>8, <3>7
      <4>2. /\ pc[u] \in {"wait", "got", "take", "run", "count", "finish", "finished", "sleep"}
                 => current[u] # 0
            /\ pc[u] = "run" => /\ job[u] < task[current[u]].jobs
                                /\ ran[current[u]][job[u]] = 0
                                /\ \A v \in Tasks!Thread \ {u} :
                                     pc[v] = "run" /\ current[v] = current[u] => job[v] # job[u]
            /\ pc[u] \in {"finish", "finished"} => task[current[u]].completed = task[current[u]].jobs
        BY DEF TaskIInv, ThreadsAtWork
      <4>3. pc[u] \in {"run", "finish", "finished"} =>
              task'[current[u]].jobs = task[current[u]].jobs /\ task'[current[u]].completed = task[current[u]].completed
        BY <2>5, <3>4
      <4>4. pc[u] = "run" => \A v \in Tasks!Thread \ {u} :
                               pc'[v] = "run" /\ current[v] = current[u] => job'[v] # job[u]
        BY <2>8, <2>9, <4>2, <3>3
      <4>5. QED
        BY <1>2, <3>5, <4>1, <4>2, <4>3, <4>4
    <3>8. QED
      BY <3>6, <3>7
  <2>11. Jobs'
    <3> SUFFICES ASSUME NEW i \in Tasks!TaskID, NEW j \in Tasks!Job
                 PROVE  Jobs!(i)!(j)'
      BY DEF Jobs
    <3>1. ran[i][j] <= 1 /\ (i > Len(task) \/ j >= task[i].started => ran[i][j] = 0)
      BY DEF TaskIInv, Jobs
    <3>2. i > Len(task) \/ i \in 1 .. Len(task)
      BY Places DEF Tasks!TaskID
    <3>3. i \in 1 .. Len(task) /\ j >= task'[i].started => j >= task[i].started
      BY <2>1, <2>5 DEF Tasks!Job
    <3>4. QED
      BY <1>2, <2>4, <3>1, <3>2, <3>3
  <2>12. DoneIsCounted'
    BY <2>4, <2>5 DEF TaskIInv, DoneIsCounted
  <2>13. TasksShared'
    <3>1. PICK held, counted : Shares(held, counted)
      BY DEF TaskIInv, TasksShared
    <3>2. \A u \in Tasks!Thread : held[u] # {} => /\ pc'[u] \in InJobs
                                                  /\ current[u] \in 1 .. Len(task)
      BY <2>8, <2>9, <3>1, Places DEF Shares, InJobs
    <3>3. \A u \in Tasks!Thread :
           /\ held[u] # {} => pc'[u] \in {"take", "run", "count"}
           /\ \A j \in held[u] : j < task'[current[u]].jobs
      BY <2>5, <3>1, <3>2 DEF Shares, InJobs
    <3>4. \A i \in Tasks!TaskID : IF i > Len(task') THEN counted[i] = {}
                                  ELSE Cardinality(counted[i]) = task'[i].completed
      BY <2>4, <2>5, <3>1, Places DEF Shares, Tasks!TaskID
    <3>5. \A i \in 1 .. Len(task') : \A j \in counted[i] : j < task'[i].jobs /\ ran[i][j] = 1
      BY <2>4, <2>5, <3>1 DEF Shares
    <3>6. Shares(held, counted)'
      BY <1>2, <3>1, <3>3, <3>4, <3>5 DEF Shares
    <3>7. QED
      BY <3>6 DEF TasksShared
  <2>14. QED
    BY <2>7, <2>10, <2>11, <2>12, <2>13 DEF TaskIInv
<1>3. QED
  BY <1>1, <1>2 DEF Tasks!TakeJob, Tasks!Access, Tasks!Goto

\* The job that is run is one nobody holds, and is held from then on.
LEMMA RunsJob ==
  ASSUME TaskIInv, NEW t \in Tasks!Thread, Tasks!RunJob(t)
  PROVE  TaskIInv'
<1> DEFINE k == current[t]
           id == job[t]
<1>1. /\ pc[t] = "run" /\ pc' = [pc EXCEPT ![t] = "take"]
      /\ ran' = [ran EXCEPT ![k][id] = @ + 1]
      /\ myCompleted' = [myCompleted EXCEPT ![t] = @ + 1]
      /\ UNCHANGED <<current, job, task, active, running, shutdown, undefined, missed>>
  BY DEF Tasks!RunJob, Tasks!Goto
<1>2. /\ k \in 1 .. Len(task) /\ k \in Tasks!TaskID /\ task[k] \in TaskRecord
      /\ id < task[k].jobs /\ id < task[k].started /\ ran[k][id] = 0
      /\ \A u \in Tasks!Thread \ {t} : pc[u] = "run" /\ current[u] = k => job[u] # id
  BY <1>1, Places DEF TaskIInv, ThreadsAtWork
<1>3. id \in Tasks!Job
  <2>1. id \in Nat
    BY DEF TaskIInv, TaskTypes
  <2>2. QED
    BY <1>2, <2>1 DEF TaskRecord, Tasks!Job
<1>4. /\ pc \in [Tasks!Thread -> PCs] /\ myCompleted \in [Tasks!Thread -> Nat]
      /\ ran \in [Tasks!TaskID -> [Tasks!Job -> Nat]]
  BY DEF TaskIInv, TaskTypes
<1>5. /\ pc' \in [Tasks!Thread -> PCs] /\ myCompleted' \in [Tasks!Thread -> Nat]
      /\ ran' \in [Tasks!TaskID -> [Tasks!Job -> Nat]]
  BY <1>1, <1>2, <1>3, <1>4 DEF PCs
<1>6. \A i \in Tasks!TaskID : \A j \in Tasks!Job :
        ran'[i][j] = IF i = k /\ j = id THEN 1 ELSE ran[i][j]
  BY <1>1, <1>2, <1>3, <1>4
<1>7. \A u \in Tasks!Thread :
        /\ pc'[u] = IF u = t THEN "take" ELSE pc[u]
        /\ myCompleted'[u] = IF u = t THEN myCompleted[t] + 1 ELSE myCompleted[u]
  BY <1>1, <1>4
<1>8. TaskTypes'
  <2>1. /\ active' \in Seq(1 .. Len(task')) /\ current' \in [Tasks!Thread -> 0 .. Len(task')]
        /\ Len(task') <= MaxTasks /\ task' \in Seq(TaskRecord)
    BY <1>1 DEF TaskIInv, TaskTypes
  <2>2. /\ job' \in [Tasks!Thread -> Nat]
        /\ running' \in BOOLEAN /\ undefined' \in BOOLEAN /\ missed' \in BOOLEAN
    BY <1>1 DEF TaskIInv, TaskTypes
  <2>3. QED
    BY <1>5, <2>1, <2>2 DEF TaskTypes
<1>9. ThreadsAtWork'
  <2> SUFFICES ASSUME NEW u \in Tasks!Thread
               PROVE  ThreadsAtWork!(u)'
    BY DEF ThreadsAtWork
  <2>1. CASE u = t
    BY <1>1, <1>2, <1>7, <2>1
  <2>2. CASE u # t
    <3>1. /\ pc[u] \in {"wait", "got", "take", "run", "count", "finish", "finished", "sleep"}
               => current[u] # 0
          /\ pc[u] = "run" => /\ job[u] < task[current[u]].jobs
                              /\ job[u] < task[current[u]].started
                              /\ ran[current[u]][job[u]] = 0
                              /\ \A v \in Tasks!Thread \ {u} :
                                   pc[v] = "run" /\ current[v] = current[u] => job[v] # job[u]
          /\ pc[u] \in {"finish", "finished"} => task[current[u]].completed = task[current[u]].jobs
      BY DEF TaskIInv, ThreadsAtWork
    <3>2. pc[u] = "run" => ran'[current[u]][job[u]] = 0
      <4> SUFFICES ASSUME pc[u] = "run"
                   PROVE  ran'[current[u]][job[u]] = 0
        OBVIOUS
      <4>1. current[u] \in 1 .. Len(task) /\ current[u] \in Tasks!TaskID /\ task[current[u]] \in TaskRecord
        BY Places
      <4>2. job[u] \in Tasks!Job
        <5>1. job[u] \in Nat
          BY DEF TaskIInv, TaskTypes
        <5>2. QED
          BY <3>1, <4>1, <5>1 DEF TaskRecord, Tasks!Job
      <4>3. ~(current[u] = k /\ job[u] = id)
        BY <1>2, <2>2
      <4>4. QED
        BY <1>6, <3>1, <4>1, <4>2, <4>3
    <3>3. pc[u] = "run" => \A v \in Tasks!Thread \ {u} :
                             pc'[v] = "run" /\ current[v] = current[u] => job[v] # job[u]
      BY <1>7, <3>1
    <3>4. QED
      BY <1>1, <1>7, <2>2, <3>1, <3>2, <3>3
  <2>3. QED
    BY <2>1, <2>2
<1>10. Jobs'
  <2> SUFFICES ASSUME NEW i \in Tasks!TaskID, NEW j \in Tasks!Job
               PROVE  Jobs!(i)!(j)'
    BY DEF Jobs
  <2>1. ran[i][j] <= 1 /\ (i > Len(task) \/ j >= task[i].started => ran[i][j] = 0)
    BY DEF TaskIInv, Jobs
  <2>2. i = k /\ j = id => ~(i > Len(task)) /\ ~(j >= task[i].started)
    BY <1>2, <1>3, Places DEF TaskRecord, Tasks!Job
  <2>3. QED
    BY <1>1, <1>6, <2>1, <2>2
<1>11. DoneIsCounted'
  BY <1>1 DEF TaskIInv, DoneIsCounted
<1>12. TasksShared'
  <2>1. PICK held, counted : Shares(held, counted)
    BY DEF TaskIInv, TasksShared
  <2>0. PICK more : more = [held EXCEPT ![t] = @ \cup {id}]
    OBVIOUS
  <2>2. /\ held \in [Tasks!Thread -> SUBSET Tasks!Job]
        /\ more \in [Tasks!Thread -> SUBSET Tasks!Job]
        /\ \A u \in Tasks!Thread : more[u] = IF u = t THEN held[t] \cup {id} ELSE held[u]
    BY <2>0, <2>1, <1>3 DEF Shares
  <2>3. id \notin held[t] /\ id \notin counted[k]
        /\ \A u \in Tasks!Thread : current[u] = k => id \notin held[u]
    BY <1>2, <2>1 DEF Shares
  <2>4. Cardinality(more[t]) = myCompleted'[t]
    BY <1>7, <2>1, <2>2, <2>3, JobSets, FS_AddElement DEF Shares
  <2>5. \A u \in Tasks!Thread : Cardinality(more[u]) = myCompleted'[u]
    BY <1>7, <2>1, <2>2, <2>4 DEF Shares
  <2>6. ASSUME NEW u \in Tasks!Thread
        PROVE  /\ more[u] # {} => pc'[u] \in {"take", "run", "count"}
               /\ \A j \in more[u] : /\ j < task[current[u]].jobs
                                     /\ ran'[current[u]][j] = 1
                                     /\ j \notin counted[current[u]]
               /\ \A v \in Tasks!Thread \ {u} : current[v] = current[u] => more[u] \cap more[v] = {}
    <3>1. /\ held[u] # {} => pc[u] \in {"take", "run", "count"}
          /\ \A j \in held[u] : /\ j < task[current[u]].jobs
                                /\ ran[current[u]][j] = 1
                                /\ j \notin counted[current[u]]
          /\ \A v \in Tasks!Thread \ {u} : current[v] = current[u] => held[u] \cap held[v] = {}
      BY <2>1 DEF Shares
    <3>2. \A j \in held[u] : ran'[current[u]][j] = 1
      <4> SUFFICES ASSUME NEW j \in held[u]
                   PROVE  ran'[current[u]][j] = 1
        OBVIOUS
      <4>1. j \in Tasks!Job /\ current[u] \in Tasks!TaskID
        BY <2>2, <3>1, Places
      <4>2. QED
        BY <1>6, <3>1, <4>1
    <3>3. ran'[k][id] = 1
      BY <1>2, <1>3, <1>6
    <3>4. QED
      BY <1>2, <1>7, <2>2, <2>3, <3>1, <3>2, <3>3
  <2>7. \A i \in Tasks!TaskID : IF i > Len(task) THEN counted[i] = {}
                                ELSE Cardinality(counted[i]) = task[i].completed
    BY <2>1 DEF Shares
  <2>8. \A i \in 1 .. Len(task) : \A j \in counted[i] : j < task[i].jobs /\ ran'[i][j] = 1
    <3> SUFFICES ASSUME NEW i \in 1 .. Len(task), NEW j \in counted[i]
                 PROVE  j < task[i].jobs /\ ran'[i][j] = 1
      OBVIOUS
    <3>1. i \in Tasks!TaskID /\ j \in Tasks!Job
      BY <2>1, Places DEF Shares
    <3>2. j < task[i].jobs /\ ran[i][j] = 1
      BY <2>1 DEF Shares
    <3>3. QED
      BY <1>6, <3>1, <3>2
  <2>9. counted \in [Tasks!TaskID -> SUBSET Tasks!Job]
    BY <2>1 DEF Shares
  <2>10. Shares(more, counted)'
    BY <1>1, <2>2, <2>5, <2>6, <2>7, <2>8, <2>9 DEF Shares
  <2>11. QED
    BY <2>10 DEF TasksShared
<1>13. QED
  BY <1>8, <1>9, <1>10, <1>11, <1>12 DEF TaskIInv

\* The jobs a thread adds to the count are its own, and it goes on to finish
\* the task only if they were the last.
LEMMA CountsJobs ==
  ASSUME TaskIInv, NEW t \in Tasks!Thread, Tasks!CountJobs(t)
  PROVE  TaskIInv'
<1> DEFINE k == current[t]
           total == task[k].completed + myCompleted[t]
<1>0. /\ pc[t] = "count" /\ k \in 1 .. Len(task) /\ k \in Tasks!TaskID
      /\ task[k] \in TaskRecord /\ myCompleted[t] \in Nat
      /\ pc \in [Tasks!Thread -> PCs] /\ myCompleted \in [Tasks!Thread -> Nat]
      /\ Tasks!Leaves(t) \in {"sleep", "get"} /\ Len(task) \in Nat
  BY Places DEF Tasks!CountJobs, TaskIInv, TaskTypes, Tasks!Leaves
<1>1. CASE undefined' = TRUE /\ UNCHANGED <<Tasks!threadVars, task, active, running, shutdown, ran, missed>>
  BY <1>1, AccessFails
<1>2. CASE /\ myCompleted[t] = 0
           /\ pc' = [pc EXCEPT ![t] = Tasks!Leaves(t)]
           /\ UNCHANGED <<current, job, myCompleted, task, active, running, shutdown, ran, undefined, missed>>
  <2>1. /\ pc' \in [Tasks!Thread -> PCs]
        /\ \A u \in Tasks!Thread : pc'[u] = IF u = t THEN Tasks!Leaves(t) ELSE pc[u]
    BY <1>0, <1>2 DEF PCs
  <2>2. /\ task' \in Seq(TaskRecord) /\ active' \in Seq(1 .. Len(task))
        /\ current' \in [Tasks!Thread -> 0 .. Len(task)]
        /\ running' \in BOOLEAN /\ undefined' \in BOOLEAN /\ missed' \in BOOLEAN
    BY <1>2 DEF TaskIInv, TaskTypes
  <2>3. current[t] # 0
    BY <1>0
  <2>4. QED
    BY <1>0, <1>2, <2>1, <2>2, <2>3, Moves
<1>3. CASE /\ task' = [task EXCEPT ![k].completed = total]
           /\ pc' = [pc EXCEPT ![t] = IF myCompleted[t] # 0 /\ total = task[k].jobs
                                      THEN "finish" ELSE Tasks!Leaves(t)]
           /\ myCompleted' = [myCompleted EXCEPT ![t] = 0]
           /\ UNCHANGED <<current, job, active, running, shutdown, ran, undefined, missed>>
  <2> DEFINE r == [task[k] EXCEPT !.completed = total]
  <2>1. /\ r \in TaskRecord /\ r.completed = total /\ r.jobs = task[k].jobs
        /\ r.started = task[k].started /\ r.done = task[k].done
    <3>1. task[k].completed \in Nat
      BY <1>0 DEF TaskRecord
    <3>2. total \in Nat
      BY <1>0, <3>1
    <3> HIDE DEF total
    <3>3. QED
      BY <1>0, <3>2 DEF TaskRecord
  <2>2. task' = [task EXCEPT ![k] = r]
    BY <1>3, <1>0, Places
  <2> HIDE DEF r
  <2>3. /\ task' \in Seq(TaskRecord) /\ Len(task') = Len(task)
        /\ \A i \in 1 .. Len(task) : task'[i] = IF i = k THEN r ELSE task[i]
    BY <1>0, <2>1, <2>2, Writes
  <2>4. \A i \in 1 .. Len(task) :
          /\ task'[i].jobs = task[i].jobs /\ task'[i].started = task[i].started
          /\ task'[i].done = task[i].done
          /\ task'[i].completed = IF i = k THEN total ELSE task[i].completed
    BY <2>1, <2>3
  <2>5. /\ pc' \in [Tasks!Thread -> PCs] /\ myCompleted' \in [Tasks!Thread -> Nat]
        /\ \A u \in Tasks!Thread : myCompleted'[u] = IF u = t THEN 0 ELSE myCompleted[u]
        /\ \A u \in Tasks!Thread : u # t => pc'[u] = pc[u]
        /\ pc'[t] \in {"finish", "sleep", "get"}
        /\ pc'[t] = "finish" => total = task[k].jobs
    BY <1>0, <1>3 DEF PCs
  <2>6. TaskTypes'
    <3>1. /\ active' \in Seq(1 .. Len(task')) /\ current' \in [Tasks!Thread -> 0 .. Len(task')]
          /\ Len(task') <= MaxTasks
      BY <1>3, <2>3 DEF TaskIInv, TaskTypes
    <3>2. /\ job' \in [Tasks!Thread -> Nat] /\ ran' \in [Tasks!TaskID -> [Tasks!Job -> Nat]]
          /\ running' \in BOOLEAN /\ undefined' \in BOOLEAN /\ missed' \in BOOLEAN
      BY <1>3 DEF TaskIInv, TaskTypes
    <3>3. QED
      BY <2>3, <2>5, <3>1, <3>2 DEF TaskTypes
  <2>7. PICK held, counted : Shares(held, counted)
    BY DEF TaskIInv, TasksShared
  <2>8. PICK rest : rest = [held EXCEPT ![t] = {}]
    OBVIOUS
  <2>9. PICK more : more = [counted EXCEPT ![k] = @ \cup held[t]]
    OBVIOUS
  <2>10. /\ held \in [Tasks!Thread -> SUBSET Tasks!Job]
         /\ counted \in [Tasks!TaskID -> SUBSET Tasks!Job]
         /\ rest \in [Tasks!Thread -> SUBSET Tasks!Job]
         /\ more \in [Tasks!TaskID -> SUBSET Tasks!Job]
         /\ \A u \in Tasks!Thread : rest[u] = IF u = t THEN {} ELSE held[u]
         /\ \A i \in Tasks!TaskID : more[i] = IF i = k THEN counted[k] \cup held[t] ELSE counted[i]
    BY <1>0, <2>7, <2>8, <2>9 DEF Shares
  <2>11. Cardinality(more[k]) = total
    <3>1. IsFiniteSet(counted[k]) /\ IsFiniteSet(held[t])
      BY <1>0, <2>10, JobSets
    <3>2. counted[k] \cap held[t] = {}
      BY <2>7 DEF Shares
    <3>3. Cardinality(counted[k]) = task[k].completed /\ Cardinality(held[t]) = myCompleted[t]
      BY <1>0, <2>7 DEF Shares
    <3>4. Cardinality(counted[k] \cup held[t]) = Cardinality(counted[k]) + Cardinality(held[t]) - 0
      BY <3>1, <3>2, FS_Union, FS_EmptySet
    <3>5. more[k] = counted[k] \cup held[t]
      BY <1>0, <2>10
    <3>6. task[k].completed \in Nat
      BY <1>0 DEF TaskRecord
    <3>7. QED
      BY <1>0, <3>3, <3>4, <3>5, <3>6
  <2>12. \A j \in more[k] : j < task[k].jobs /\ ran[k][j] = 1
    BY <1>0, <2>7, <2>10 DEF Shares
  <2>13. total <= task[k].jobs
    BY <1>0, <2>10, <2>11, <2>12, JobsBelow DEF TaskRecord
  <2>14. task[k].completed = task[k].jobs => total = task[k].jobs
    BY <1>0, <2>13 DEF TaskRecord, Tasks!Job
  <2>15. ThreadsAtWork'
    <3> SUFFICES ASSUME NEW u \in Tasks!Thread
                 PROVE  ThreadsAtWork!(u)'
      BY DEF ThreadsAtWork
    <3>1. CASE u = t
      BY <1>0, <1>3, <2>4, <2>5, <3>1
    <3>2. CASE u # t
      <4>1. /\ pc[u] \in {"wait", "got", "take", "run", "count", "finish", "finished", "sleep"}
                 => current[u] # 0 /\ current[u] \in 1 .. Len(task)
            /\ pc[u] = "run" => /\ job[u] < task[current[u]].jobs
                                /\ job[u] < task[current[u]].started
                                /\ ran[current[u]][job[u]] = 0
                                /\ \A v \in Tasks!Thread \ {u} :
                                     pc[v] = "run" /\ current[v] = current[u] => job[v] # job[u]
            /\ pc[u] \in {"finish", "finished"} => task[current[u]].completed = task[current[u]].jobs
        BY Places DEF TaskIInv, ThreadsAtWork
      <4>2. pc[u] = "run" => \A v \in Tasks!Thread \ {u} :
                               pc'[v] = "run" /\ current[v] = current[u] => job[v] # job[u]
        BY <2>5, <4>1
      <4>3. pc[u] \in {"finish", "finished"} => task'[current[u]].completed = task'[current[u]].jobs
        BY <2>4, <2>14, <4>1
      <4>4. pc[u] = "run" => /\ task'[current[u]].jobs = task[current[u]].jobs
                             /\ task'[current[u]].started = task[current[u]].started
        BY <2>4, <4>1
      <4>5. QED
        BY <1>3, <2>5, <3>2, <4>1, <4>2, <4>3, <4>4
    <3>3. QED
      BY <3>1, <3>2
  <2>16. Jobs'
    <3> SUFFICES ASSUME NEW i \in Tasks!TaskID, NEW j \in Tasks!Job
                 PROVE  Jobs!(i)!(j)'
      BY DEF Jobs
    <3>1. ran[i][j] <= 1 /\ (i > Len(task) \/ j >= task[i].started => ran[i][j] = 0)
      BY DEF TaskIInv, Jobs
    <3>2. i > Len(task) \/ i \in 1 .. Len(task)
      BY <1>0 DEF Tasks!TaskID
    <3>3. QED
      BY <1>3, <2>3, <2>4, <3>1, <3>2
  <2>17. DoneIsCounted'
    BY <2>3, <2>4, <2>14 DEF TaskIInv, DoneIsCounted
  <2>18. TasksShared'
    <3>1. \A u \in Tasks!Thread : Cardinality(rest[u]) = myCompleted'[u]
      BY <2>5, <2>7, <2>10, FS_EmptySet DEF Shares
    <3>2. ASSUME NEW u \in Tasks!Thread
          PROVE  /\ rest[u] # {} => pc'[u] \in {"take", "run", "count"}
                 /\ \A j \in rest[u] : /\ j < task'[current[u]].jobs
                                       /\ ran[current[u]][j] = 1
                                       /\ j \notin more[current[u]]
                 /\ \A v \in Tasks!Thread \ {u} : current[v] = current[u] => rest[u] \cap rest[v] = {}
      <4>1. CASE u = t
        BY <2>10, <4>1
      <4>2. CASE u # t
        <5>1. /\ held[u] # {} => pc[u] \in {"take", "run", "count"}
              /\ \A j \in held[u] : /\ j < task[current[u]].jobs
                                    /\ ran[current[u]][j] = 1
                                    /\ j \notin counted[current[u]]
              /\ \A v \in Tasks!Thread \ {u} : current[v] = current[u] => held[u] \cap held[v] = {}
          BY <2>7 DEF Shares
        <5>2. held[u] # {} => current[u] \in 1 .. Len(task) /\ current[u] \in Tasks!TaskID
          BY <5>1, Places
        <5>3. \A j \in held[u] : j < task'[current[u]].jobs /\ j \notin more[current[u]]
          BY <2>4, <2>10, <4>2, <5>1, <5>2
        <5>4. QED
          BY <2>5, <2>10, <4>2, <5>1, <5>3
      <4>3. QED
        BY <4>1, <4>2
    <3>3. \A i \in Tasks!TaskID : IF i > Len(task') THEN more[i] = {}
                                  ELSE Cardinality(more[i]) = task'[i].completed
      <4> SUFFICES ASSUME NEW i \in Tasks!TaskID
                   PROVE  IF i > Len(task) THEN more[i] = {}
                          ELSE Cardinality(more[i]) = task'[i].completed
        BY <2>3
      <4>1. i > Len(task) \/ i \in 1 .. Len(task)
        BY <1>0 DEF Tasks!TaskID
      <4>2. IF i > Len(task) THEN counted[i] = {} ELSE Cardinality(counted[i]) = task[i].completed
        BY <2>7 DEF Shares
      <4>3. ~(k > Len(task))
        BY <1>0
      <4>4. QED
        BY <2>4, <2>10, <2>11, <4>1, <4>2, <4>3
    <3>4. \A i \in 1 .. Len(task') : \A j \in more[i] : j < task'[i].jobs /\ ran[i][j] = 1
      <4> SUFFICES ASSUME NEW i \in 1 .. Len(task), NEW j \in more[i]
                   PROVE  j < task'[i].jobs /\ ran[i][j] = 1
        BY <2>3
      <4>1. CASE i = k
        BY <2>4, <2>12, <4>1
      <4>2. CASE i # k
        <5>1. i \in Tasks!TaskID
          BY Places
        <5>2. j \in counted[i]
          BY <2>10, <4>2, <5>1
        <5>3. QED
          BY <2>4, <2>7, <5>2 DEF Shares
      <4>3. QED
        BY <4>1, <4>2
    <3>5. Shares(rest, more)'
      BY <1>3, <2>10, <3>1, <3>2, <3>3, <3>4 DEF Shares
    <3>6. QED
      BY <3>5 DEF TasksShared
  <2>19. QED
    BY <2>6, <2>15, <2>16, <2>17, <2>18 DEF TaskIInv
<1>4. QED
  BY <1>1, <1>2, <1>3 DEF Tasks!CountJobs, Tasks!Access, Tasks!Goto

\* The task that is finished has all its jobs counted.
LEMMA Finishes ==
  ASSUME TaskIInv, NEW t \in Tasks!Thread, Tasks!Finish(t) \/ Tasks!DeleteTask(t)
  PROVE  TaskIInv'
<1> DEFINE k == current[t]
           to == IF pc[t] = "finish" THEN "finished" ELSE Tasks!Leaves(t)
           r == IF pc[t] = "finish" THEN [task[k] EXCEPT !.done = TRUE]
                                    ELSE [task[k] EXCEPT !.alive = ~task[k].async]
<1>0. /\ pc[t] \in {"finish", "finished"} /\ k \in 1 .. Len(task)
      /\ task[k] \in TaskRecord /\ task[k].completed = task[k].jobs
      /\ task \in [1 .. Len(task) -> TaskRecord]
      /\ pc \in [Tasks!Thread -> PCs] /\ Tasks!Leaves(t) \in {"sleep", "get"}
  BY Places DEF Tasks!Finish, Tasks!DeleteTask, TaskIInv, ThreadsAtWork, TaskTypes, Tasks!Leaves
<1>1. CASE undefined' = TRUE /\ UNCHANGED <<Tasks!threadVars, task, active, running, shutdown, ran, missed>>
  BY <1>1, AccessFails
<1>2. CASE /\ pc' = [pc EXCEPT ![t] = to]
           /\ task' = [task EXCEPT ![k] = r]
           /\ UNCHANGED <<current, job, myCompleted, active, running, shutdown, ran, undefined, missed>>
  <2>1. /\ r \in TaskRecord /\ r.jobs = task[k].jobs /\ r.started = task[k].started
        /\ r.completed = task[k].completed
    BY <1>0 DEF TaskRecord
  <2> HIDE DEF r
  <2>2. /\ task' \in Seq(TaskRecord) /\ Len(task') = Len(task)
        /\ \A i \in 1 .. Len(task) : task'[i] = IF i = k THEN r ELSE task[i]
    BY <1>0, <1>2, <2>1, Writes
  <2>3. \A i \in 1 .. Len(task) :
           /\ task'[i].jobs = task[i].jobs /\ task'[i].started = task[i].started
           /\ task'[i].completed = task[i].completed
           /\ task'[i].done => task[i].done \/ task[i].completed = task[i].jobs
    BY <1>0, <2>1, <2>2
  <2>4. /\ pc' \in [Tasks!Thread -> PCs]
        /\ \A u \in Tasks!Thread : pc'[u] = IF u = t THEN to ELSE pc[u]
    BY <1>0, <1>2 DEF PCs
  <2>5. /\ active' \in Seq(1 .. Len(task)) /\ current' \in [Tasks!Thread -> 0 .. Len(task)]
        /\ running' \in BOOLEAN /\ undefined' \in BOOLEAN /\ missed' \in BOOLEAN
    BY <1>2 DEF TaskIInv, TaskTypes
  <2>6. \A u \in Tasks!Thread :
           \/ pc'[u] = pc[u] /\ current'[u] = current[u]
           \/ /\ pc'[u] \notin {"run", "finish"}
              /\ pc'[u] \in {"wait", "got", "take", "count", "sleep"} => current'[u] # 0
              /\ pc'[u] = "finished" => pc[u] = "finish" /\ current'[u] = current[u]
              /\ pc[u] \in InJobs =>
                   myCompleted[u] = 0 \/ (pc'[u] \in InJobs /\ current'[u] = current[u])
    BY <1>0, <1>2, <2>4 DEF InJobs
  <2>7. QED
    BY <1>2, <2>2, <2>3, <2>4, <2>5, <2>6, Moves
<1>3. QED
  BY <1>0, <1>1, <1>2, Places DEF Tasks!Finish, Tasks!DeleteTask, Tasks!Access, Tasks!Goto

\* The caller of parallel_for finds its task done, helps, or sleeps.
LEMMA Waits ==
  ASSUME TaskIInv, NEW c \in Tasks!Thread, Tasks!BeginWait(c) \/ Tasks!EndWait(c)
  PROVE  TaskIInv'
<1> DEFINE k == current[c]
<1>0. /\ pc[c] \in {"wait", "sleep"} /\ k \in 1 .. Len(task) /\ task[k] \in TaskRecord
      /\ task \in [1 .. Len(task) -> TaskRecord] /\ Len(task) \in Nat
      /\ pc \in [Tasks!Thread -> PCs] /\ current \in [Tasks!Thread -> 0 .. Len(task)]
  BY Places DEF Tasks!BeginWait, Tasks!EndWait, TaskIInv, TaskTypes
<1>1. /\ active \in Seq(1 .. Len(task)) /\ task \in Seq(TaskRecord)
      /\ running \in BOOLEAN /\ undefined \in BOOLEAN /\ missed \in BOOLEAN
  BY DEF TaskIInv, TaskTypes
<1>2. CASE Tasks!Return(c)
  <2> DEFINE r == [task[k] EXCEPT !.alive = FALSE]
  <2>1. /\ r \in TaskRecord /\ r.jobs = task[k].jobs /\ r.started = task[k].started
        /\ r.completed = task[k].completed /\ r.done = task[k].done
    BY <1>0 DEF TaskRecord
  <2>2. task' = [task EXCEPT ![k] = r]
    BY <1>0, <1>2 DEF Tasks!Return
  <2> HIDE DEF r
  <2>3. /\ task' \in Seq(TaskRecord) /\ Len(task') = Len(task)
        /\ \A i \in 1 .. Len(task) : task'[i] = IF i = k THEN r ELSE task[i]
    BY <1>0, <2>1, <2>2, Writes
  <2>4. \A i \in 1 .. Len(task) :
           /\ task'[i].jobs = task[i].jobs /\ task'[i].started = task[i].started
           /\ task'[i].completed = task[i].completed
           /\ task'[i].done => task[i].done \/ task[i].completed = task[i].jobs
    BY <2>1, <2>3
  <2>5. /\ pc' \in [Tasks!Thread -> PCs] /\ current' \in [Tasks!Thread -> 0 .. Len(task)]
        /\ \A u \in Tasks!Thread : /\ pc'[u] = IF u = c THEN "idle" ELSE pc[u]
                                   /\ current'[u] = IF u = c THEN 0 ELSE current[u]
    BY <1>0, <1>2 DEF PCs, Tasks!Return, Tasks!Goto
  <2>6. UNCHANGED <<job, myCompleted, active, running, shutdown, ran, undefined, missed>>
    BY <1>2 DEF Tasks!Return
  <2>7. \A u \in Tasks!Thread :
           \/ pc'[u] = pc[u] /\ current'[u] = current[u]
           \/ /\ pc'[u] \notin {"run", "finish", "finished", "wait", "got", "take", "count", "sleep"}
              /\ pc[u] \notin InJobs
    BY <1>0, <2>5 DEF InJobs
  <2>8. QED
    BY <1>1, <2>3, <2>4, <2>5, <2>6, <2>7, Moves
<1>3. CASE /\ pc' = [pc EXCEPT ![c] = "take"]
           /\ UNCHANGED <<current, job, myCompleted, task, active, running, shutdown, ran, undefined, missed>>
  <2>1. /\ pc' \in [Tasks!Thread -> PCs]
        /\ \A u \in Tasks!Thread : pc'[u] = IF u = c THEN "take" ELSE pc[u]
    BY <1>0, <1>3 DEF PCs
  <2>2. current[c] # 0 /\ pc[c] \notin InJobs
    BY <1>0 DEF InJobs
  <2>3. current' \in [Tasks!Thread -> 0 .. Len(task)]
    BY <1>0, <1>3
  <2>4. QED
    BY <1>1, <1>3, <2>1, <2>2, <2>3, Moves
<1>4. QED
  BY <1>2, <1>3 DEF Tasks!BeginWait, Tasks!EndWait, Tasks!Goto

\* A worker looks for a task, drops one that is exhausted, or blocks.
LEMMA GetsTask ==
  ASSUME TaskIInv, NEW w \in Tasks!Thread, Tasks!GetTask(w)
  PROVE  TaskIInv'
<1>0. /\ pc[w] = "get" /\ task \in [1 .. Len(task) -> TaskRecord] /\ Len(task) \in Nat
      /\ pc \in [Tasks!Thread -> PCs] /\ current \in [Tasks!Thread -> 0 .. Len(task)]
  BY Places DEF Tasks!GetTask, TaskIInv, TaskTypes
<1>1. /\ active \in Seq(1 .. Len(task)) /\ task \in Seq(TaskRecord)
      /\ running \in BOOLEAN /\ undefined \in BOOLEAN /\ missed \in BOOLEAN
  BY DEF TaskIInv, TaskTypes
<1>2. CASE /\ \/ pc' = [pc EXCEPT ![w] = "exited"]
              \/ pc' = [pc EXCEPT ![w] = "block"]
           /\ UNCHANGED <<current, job, active, undefined>>
           /\ UNCHANGED <<job, myCompleted, task, running, shutdown, ran, missed>>
  <2>1. /\ pc' \in [Tasks!Thread -> PCs]
        /\ \A u \in Tasks!Thread : pc'[u] = pc[u] \/ (pc'[u] \in {"exited", "block"} /\ pc[u] = "get")
    BY <1>0, <1>2 DEF PCs
  <2>2. current' \in [Tasks!Thread -> 0 .. Len(task)]
    BY <1>0, <1>2
  <2>3. QED
    BY <1>1, <1>2, <2>1, <2>2, Moves DEF InJobs
<1>3. CASE undefined' = TRUE /\ UNCHANGED <<Tasks!threadVars, task, active, running, shutdown, ran, missed>>
  BY <1>3, AccessFails
<1>4. CASE /\ active # <<>> /\ active' = Tail(active) /\ UNCHANGED <<pc, current>>
           /\ UNCHANGED <<job, myCompleted, task, running, shutdown, ran, undefined, missed>>
  <2>1. active' \in Seq(1 .. Len(task))
    BY <1>1, <1>4, HeadTailProperties
  <2>2. current' \in [Tasks!Thread -> 0 .. Len(task)] /\ pc' \in [Tasks!Thread -> PCs]
    BY <1>0, <1>4
  <2>3. QED
    BY <1>1, <1>4, <2>1, <2>2, Moves
<1>5. CASE /\ active # <<>> /\ pc' = [pc EXCEPT ![w] = "got"]
           /\ current' = [current EXCEPT ![w] = Head(active)] /\ UNCHANGED active
           /\ UNCHANGED <<job, myCompleted, task, running, shutdown, ran, undefined, missed>>
  <2>1. Head(active) \in 1 .. Len(task)
    BY <1>1, <1>5, HeadTailProperties
  <2>2. /\ pc' \in [Tasks!Thread -> PCs] /\ current' \in [Tasks!Thread -> 0 .. Len(task)]
        /\ \A u \in Tasks!Thread :
             \/ pc'[u] = pc[u] /\ current'[u] = current[u]
             \/ pc'[u] = "got" /\ current'[u] # 0 /\ pc[u] = "get"
    BY <1>0, <1>5, <2>1 DEF PCs
  <2>3. QED
    BY <1>1, <1>5, <2>2, Moves DEF InJobs
<1>6. QED
  BY <1>2, <1>3, <1>4, <1>5 DEF Tasks!GetTask, Tasks!Access, Tasks!Goto, Tasks!WithoutFirst

\* A worker blocks, wakes up, or begins with its task.
LEMMA WorkerMoves ==
  ASSUME TaskIInv, NEW w \in Tasks!Thread,
         Tasks!Block(w) \/ Tasks!WakeForTask(w) \/ Tasks!BeginTask(w)
  PROVE  TaskIInv'
<1>1. /\ pc \in [Tasks!Thread -> PCs] /\ active \in Seq(1 .. Len(task)) /\ task \in Seq(TaskRecord)
      /\ current \in [Tasks!Thread -> 0 .. Len(task)]
      /\ running \in BOOLEAN /\ undefined \in BOOLEAN /\ missed \in BOOLEAN
  BY DEF TaskIInv, TaskTypes
<1>2. UNCHANGED <<current, job, myCompleted, task, active, running, shutdown, ran, undefined, missed>>
  BY DEF Tasks!Block, Tasks!WakeForTask, Tasks!BeginTask
<1>3. /\ pc' \in [Tasks!Thread -> PCs]
      /\ \A u \in Tasks!Thread :
           \/ pc'[u] = pc[u]
           \/ pc'[u] \in {"asleep", "get", "exited"} /\ pc[u] \in {"block", "asleep", "got"}
           \/ pc'[u] = "take" /\ pc[u] = "got"
  BY <1>1 DEF Tasks!Block, Tasks!WakeForTask, Tasks!BeginTask, Tasks!Goto, PCs
<1>4. \A u \in Tasks!Thread : pc[u] = "got" => current[u] # 0
  BY DEF TaskIInv, ThreadsAtWork
<1>5. QED
  BY <1>1, <1>2, <1>3, <1>4, Moves DEF InJobs

LEMMA ShutsDown ==
  ASSUME TaskIInv, Tasks!Shutdown
  PROVE  TaskIInv'
<1>1. /\ pc \in [Tasks!Thread -> PCs] /\ active \in Seq(1 .. Len(task)) /\ task \in Seq(TaskRecord)
      /\ current \in [Tasks!Thread -> 0 .. Len(task)]
      /\ running \in BOOLEAN /\ undefined \in BOOLEAN /\ missed \in BOOLEAN
  BY DEF TaskIInv, TaskTypes
<1>2. UNCHANGED <<current, job, myCompleted, task, active, ran, undefined>>
  BY DEF Tasks!Shutdown, Tasks!ClearRunning, Tasks!NotifyAll, Tasks!Join, Tasks!threadVars
<1>3. running' \in BOOLEAN /\ missed' \in BOOLEAN
  BY <1>1 DEF Tasks!Shutdown, Tasks!ClearRunning, Tasks!NotifyAll, Tasks!Join
<1>4. /\ pc' \in [Tasks!Thread -> PCs]
      /\ \A u \in Tasks!Thread : pc'[u] = pc[u] \/ (pc'[u] = "get" /\ pc[u] = "asleep")
  BY <1>1 DEF Tasks!Shutdown, Tasks!ClearRunning, Tasks!NotifyAll, Tasks!Join, Tasks!threadVars, PCs
<1>5. QED
  BY <1>1, <1>2, <1>3, <1>4, Moves DEF InJobs

\* A caller adds a task.
LEMMA Schedules ==
  ASSUME TaskIInv, NEW c \in Tasks!Thread,
         Tasks!Schedule(c) \/ \E n \in JobCounts : Tasks!ParallelFor(c, n)
  PROVE  TaskIInv'
<1> DEFINE k == Len(task) + 1
<1>0. active \in Seq(1 .. Len(task)) /\ Len(task) \in Nat /\ active \in Seq(1 .. k) /\ k \in 1 .. k
  <2>1. active \in Seq(1 .. Len(task)) /\ Len(task) \in Nat
    BY Places DEF TaskIInv, TaskTypes
  <2>2. 1 .. Len(task) \subseteq 1 .. k
    BY <2>1
  <2>3. QED
    BY <2>1, <2>2, SeqMonotonic
<1>1. CASE Tasks!Schedule(c)
  <2>1. <<k>> \o active \in Seq(1 .. k)
    BY <1>0, ConcatProperties
  <2>2. 1 \in Tasks!Job /\ TRUE \in BOOLEAN
    BY DEF Tasks!Job
  <2>3. /\ Tasks!Enqueue(1, TRUE, <<k>> \o active) /\ k <= MaxTasks
        /\ UNCHANGED <<Tasks!threadVars, undefined>>
    BY <1>1 DEF Tasks!Schedule
  <2>4. QED
    BY <2>1, <2>2, <2>3, AddsTask DEF Tasks!threadVars
<1>2. ASSUME NEW n \in JobCounts, Tasks!ParallelFor(c, n)
      PROVE  TaskIInv'
  <2>1. CASE undefined' = TRUE /\ UNCHANGED <<Tasks!threadVars, task, active, running, shutdown, ran, missed>>
    BY <2>1, AccessFails
  <2>2. CASE /\ Tasks!Enqueue(n, FALSE, Append(active, k))
             /\ pc' = [pc EXCEPT ![c] = "wait"]
             /\ current' = [current EXCEPT ![c] = k]
             /\ UNCHANGED <<job, myCompleted, undefined>>
    <3>1. Append(active, k) \in Seq(1 .. k)
      BY <1>0, AppendProperties
    <3>2. n \in Tasks!Job /\ FALSE \in BOOLEAN
      BY TaskBoundsAssumption DEF Tasks!Job
    <3>3. pc[c] = "idle" /\ k <= MaxTasks
      BY <1>2 DEF Tasks!ParallelFor
    <3>4. QED
      BY <2>2, <3>1, <3>2, <3>3, AddsTask
  <2>3. QED
    BY <1>2, <2>1, <2>2 DEF Tasks!ParallelFor, Tasks!Access, Tasks!Goto
<1>3. QED
  BY <1>1, <1>2

\* Every step of the tasking system keeps its invariant.
LEMMA NextTasks == TaskIInv /\ [Tasks!Next]_taskVars => TaskIInv'
<1> SUFFICES ASSUME TaskIInv, [Tasks!Next]_taskVars
             PROVE  TaskIInv'
  OBVIOUS
<1>1. CASE UNCHANGED taskVars
  <2>1. TaskTypes' /\ ThreadsAtWork' /\ Jobs' /\ DoneIsCounted'
    BY <1>1 DEF taskVars, TaskIInv, TaskTypes, ThreadsAtWork, Jobs, DoneIsCounted
  <2>2. PICK held, counted : Shares(held, counted)
    BY DEF TaskIInv, TasksShared
  <2>3. Shares(held, counted)'
    BY <1>1, <2>2 DEF taskVars, Shares
  <2>4. QED
    BY <2>1, <2>3 DEF TaskIInv, TasksShared
<1>2. ASSUME NEW t \in Tasks!Thread, Tasks!WorkOnIt(t)
      PROVE  TaskIInv'
  BY <1>2, TakesJob, RunsJob, CountsJobs, Finishes DEF Tasks!WorkOnIt
<1>3. ASSUME NEW c \in Caller,
             \/ Tasks!InParallelFor(c) \/ Tasks!Schedule(c)
             \/ \E n \in JobCounts : Tasks!ParallelFor(c, n)
      PROVE  TaskIInv'
  <2>1. c \in Tasks!Thread
    BY DEF Tasks!Thread
  <2>2. QED
    BY <1>2, <1>3, <2>1, Waits, Schedules DEF Tasks!InParallelFor
<1>4. ASSUME NEW w \in Worker, Tasks!WorkerThread(w)
      PROVE  TaskIInv'
  <2>1. w \in Tasks!Thread
    BY DEF Tasks!Thread
  <2>2. QED
    BY <1>2, <1>4, <2>1, GetsTask, WorkerMoves DEF Tasks!WorkerThread
<1>5. CASE Tasks!Shutdown
  BY <1>5, ShutsDown
<1>6. QED
  BY <1>1, <1>3, <1>4, <1>5 DEF Tasks!Next

\* The invariant is what Task::workOnIt promises.
LEMMA TasksImply == TaskIInv => Tasks!TypeOK /\ Tasks!JobsRunOnce
<1> SUFFICES ASSUME TaskIInv
             PROVE  Tasks!TypeOK /\ Tasks!JobsRunOnce
  OBVIOUS
<1>1. PICK held, counted : Shares(held, counted)
  BY DEF TaskIInv, TasksShared
<1>2. /\ DOMAIN task = 1 .. Len(task) /\ Len(task) \in Nat
      /\ \A k \in 1 .. Len(task) : task[k] \in TaskRecord /\ k \in Tasks!TaskID
  BY Places
<1>3. \A k \in 1 .. Len(task) :
        /\ counted[k] \in SUBSET Tasks!Job /\ task[k].completed = Cardinality(counted[k])
        /\ \A j \in counted[k] : j < task[k].jobs /\ ran[k][j] = 1
  BY <1>1, <1>2 DEF Shares
<1>4. \A k \in 1 .. Len(task) :
        /\ task[k].completed <= task[k].jobs
        /\ task[k].completed = task[k].jobs => \A j \in Tasks!Job : j < task[k].jobs => ran[k][j] = 1
  <2> SUFFICES ASSUME NEW k \in 1 .. Len(task)
               PROVE  <1>4!(k)
    OBVIOUS
  <2>1. task[k].jobs \in Tasks!Job
    BY <1>2 DEF TaskRecord
  <2>2. QED
    BY <1>3, <2>1, JobsBelow
<1>5. Tasks!JobsRunOnce
  BY <1>2, <1>4 DEF TaskIInv, DoneIsCounted, Jobs, Tasks!JobsRunOnce
<1>6. \A t \in Tasks!Thread : myCompleted[t] \in Tasks!Job
  <2> SUFFICES ASSUME NEW t \in Tasks!Thread
               PROVE  myCompleted[t] \in Tasks!Job
    OBVIOUS
  <2>1. held[t] \in SUBSET Tasks!Job /\ Cardinality(held[t]) = myCompleted[t]
    BY <1>1 DEF Shares
  <2>2. CASE held[t] = {}
    BY <2>1, <2>2, FS_EmptySet DEF Tasks!Job
  <2>3. CASE held[t] # {}
    <3>1. current[t] \in 1 .. Len(task) /\ task[current[t]].jobs \in Tasks!Job
      BY <1>1, <1>2, <2>3, Places DEF Shares, TaskRecord
    <3>2. \A j \in held[t] : j < task[current[t]].jobs
      BY <1>1 DEF Shares
    <3>3. Cardinality(held[t]) <= task[current[t]].jobs /\ Cardinality(held[t]) \in Nat
      BY <2>1, <3>1, <3>2, JobsBelow, JobSets
    <3>4. QED
      BY <2>1, <3>1, <3>3 DEF Tasks!Job
  <2>4. QED
    BY <2>2, <2>3
<1>7. \A k \in DOMAIN task :
        task[k] \in [jobs : Tasks!Job, started : Nat, completed : Tasks!Job, done : BOOLEAN,
                     alive : BOOLEAN, async : BOOLEAN]
  BY <1>2, <1>4 DEF TaskRecord, Tasks!Job
<1>8. Tasks!TypeOK
  BY <1>2, <1>6, <1>7, Places DEF Tasks!TypeOK, TaskIInv, TaskTypes
<1>9. QED
  BY <1>5, <1>8

-----------------------------------------------------------------------------
(* The threads of one process.                                             *)

\* The AsyncLoop has its invariant in every part; the engine has its own where
\* it is running, and is at rest where it is not.
ThreadsIInv ==
  /\ IInv /\ EngineTypes /\ slow \in 0 .. MaxSlow
  /\ IF part = "engine" THEN EngineIInv ELSE at = "begin"
  /\ TaskIInv

THEOREM ThreadsInvariance == ThreadsSpec => []ThreadsIInv
<1>1. ThreadsInit => ThreadsIInv
  <2> SUFFICES ASSUME ThreadsInit
               PROVE  ThreadsIInv
    OBVIOUS
  <2>1. EngineIInv /\ at = "begin" /\ slow \in 0 .. MaxSlow
    BY InitEngine, MaxSlowAssumption DEF ThreadsInit, EngineInit
  <2>2. TaskIInv
    BY InitTasks DEF ThreadsInit
  <2>3. QED
    BY <2>1, <2>2 DEF ThreadsIInv, EngineIInv
<1>2. ThreadsIInv /\ [ThreadsNext]_<<part, vars, engineVars, taskVars, sceneVars>> => ThreadsIInv'
  <2> SUFFICES ASSUME ThreadsIInv, [ThreadsNext]_<<part, vars, engineVars, taskVars, sceneVars>>
               PROVE  ThreadsIInv'
    OBVIOUS
  <2>1. part' = part /\ [Tasks!Next]_taskVars
    BY DEF ThreadsNext
  <2>2. TaskIInv'
    BY <2>1, NextTasks DEF ThreadsIInv
  <2>3. CASE part = "engine" /\ [EngineNext]_<<vars, engineVars>>
    <3>1. EngineIInv'
      BY <2>3, UsesLoop, NextIInv, NextRest DEF ThreadsIInv, EngineIInv, Rest
    <3>2. slow' \in 0 .. MaxSlow
      BY <2>3, MaxSlowAssumption
      DEF ThreadsIInv, EngineNext, engineVars, Body, Begin, RenderFrame, SpinEnds, Fill,
          Filled, Publish, Loop, CallStart, CallStop, Swap, SetFrameCancelled, InCall,
          TestStarted, StopLoop, RestartLoop, Sleep, StopEnds, Swapped
    <3>3. QED
      BY <2>1, <2>2, <2>3, <3>1, <3>2 DEF ThreadsIInv, EngineIInv
  <2>4. CASE part # "engine" /\ [Next]_vars /\ UNCHANGED engineVars
    <3>1. IInv'
      BY <2>4, NextIInv DEF ThreadsIInv
    <3>2. EngineTypes' /\ at' = at /\ slow' = slow
      BY <2>4 DEF ThreadsIInv, engineVars, buffers, ghosts, EngineTypes
    <3>3. QED
      BY <2>1, <2>2, <2>4, <3>1, <3>2 DEF ThreadsIInv
  <2>5. QED
    BY <2>1, <2>3, <2>4 DEF ThreadsNext
<1>3. QED
  BY <1>1, <1>2, PTL DEF ThreadsSpec

\* From the return of the engine's stop() to its next start() no frame is
\* rendered and none will be (AsyncRenderEngine::stop).
THEOREM EngineStops == ThreadsSpec => []StoppedIsQuiet
<1>1. ThreadsIInv => StoppedIsQuiet
  BY DEF ThreadsIInv, EngineIInv, IInv, NoBodyAfterStop, StateTells, EngineIsQuiet, StoppedIsQuiet
<1>2. QED
  BY <1>1, ThreadsInvariance, PTL

\* No job of a task is run twice, whichever threads share it, and a task is
\* completed only when all of its jobs have been run (Task::workOnIt).
THEOREM ForkAndJoin == ThreadsSpec => []JobsRunOnce
<1>1. ThreadsIInv => JobsRunOnce
  <2> SUFFICES ASSUME ThreadsIInv
               PROVE  JobsRunOnce
    OBVIOUS
  <2>1. EngineTypeOK
    <3>1. 0 .. 1 = {0, 1}
      OBVIOUS
    <3>2. QED
      BY <3>1 DEF ThreadsIInv, IInv, EngineIInv, EngineTypes, StateTells, EngineTypeOK
  <2>2. QED
    BY <2>1, TasksImply DEF ThreadsIInv, JobsRunOnce
<1>2. QED
  BY <1>1, ThreadsInvariance, PTL

-----------------------------------------------------------------------------
(* SceneGraph: the tree of nodes.                                          *)

\* Whose children are which.
Kids(n) ==
  CASE n = "frame" -> {"camera", "renderer"}
    [] n = "camera" -> CameraParam
    [] n = "renderer" -> RendererParam \cup {"backplate"}
    [] OTHER -> {}

\* One Cardinality, whichever module it is from.
LEMMA SceneCardinality == \A S : Scene!Cardinality(S) = Cardinality(S)
  BY DEF Scene!Cardinality, Cardinality

\* SetToSeq lists every member of a finite set once.
LEMMA SetAsSequence ==
  ASSUME NEW S, IsFiniteSet(S)
  PROVE  /\ Scene!SetToSeq(S) \in Seq(S)
         /\ \A i, j \in 1 .. Len(Scene!SetToSeq(S)) :
              Scene!SetToSeq(S)[i] = Scene!SetToSeq(S)[j] => i = j
         /\ \A x \in S : \E i \in 1 .. Len(Scene!SetToSeq(S)) : Scene!SetToSeq(S)[i] = x
<1> DEFINE n == Cardinality(S)
           s == Scene!SetToSeq(S)
<1>1. n \in Nat /\ ExistsBijection(1 .. n, S)
  BY FS_CardinalityType
<1>2. PICK b \in [1 .. n -> S] : \A i, j \in 1 .. n : b[i] = b[j] => i = j
  BY <1>1 DEF ExistsBijection, Bijection, Injection, IsInjective
<1>3. s = CHOOSE f \in [1 .. n -> S] : \A i, j \in DOMAIN f : f[i] = f[j] => i = j
  BY SceneCardinality DEF Scene!SetToSeq, Scene!IsInjective
<1> HIDE DEF s, n
<1>4. s \in [1 .. n -> S] /\ \A i, j \in 1 .. n : s[i] = s[j] => i = j
  <2>1. \E f \in [1 .. n -> S] : \A i, j \in DOMAIN f : f[i] = f[j] => i = j
    BY <1>2
  <2>2. s \in [1 .. n -> S] /\ \A i, j \in DOMAIN s : s[i] = s[j] => i = j
    BY <1>3, <2>1
  <2>3. QED
    BY <2>2
<1>5. s \in Seq(S) /\ Len(s) = n
  BY <1>1, <1>4
<1>6. \A x \in S : \E i \in 1 .. n : s[i] = x
  <2>1. s \in Injection(1 .. n, S)
    BY <1>4 DEF Injection, IsInjective
  <2>2. Cardinality(1 .. n) = Cardinality(S)
    BY <1>1, FS_Interval DEF n
  <2>3. s \in Surjection(1 .. n, S)
    BY <2>1, <2>2, FS_Injection
  <2>4. QED
    BY <2>3 DEF Surjection
<1>7. QED
  BY <1>4, <1>5, <1>6 DEF s

\* The children of a node, in the order in which they are visited.
LEMMA ChildrenOf ==
  ASSUME NEW n \in Scene!Node
  PROVE  /\ Scene!Children(n) \in Seq(Kids(n))
         /\ \A i, j \in 1 .. Len(Scene!Children(n)) :
              Scene!Children(n)[i] = Scene!Children(n)[j] => i = j
         /\ \A m \in Kids(n) : \E i \in 1 .. Len(Scene!Children(n)) : Scene!Children(n)[i] = m
<1>1. CASE n = "frame"
  <2>1. Scene!Children(n) = <<"camera", "renderer">> /\ Kids(n) = {"camera", "renderer"}
    BY <1>1 DEF Scene!Children, Kids
  <2>2. QED
    BY <2>1
<1>2. CASE n = "camera"
  <2>1. Scene!Children(n) = Scene!SetToSeq(CameraParam) /\ Kids(n) = CameraParam
    BY <1>2 DEF Scene!Children, Kids
  <2>2. QED
    BY <2>1, SetAsSequence, SceneAssumption
<1>3. CASE n = "renderer"
  <2> DEFINE s == Scene!SetToSeq(RendererParam)
             t == <<"backplate">> \o s
  <2>1. Scene!Children(n) = t /\ Kids(n) = RendererParam \cup {"backplate"}
    BY <1>3 DEF Scene!Children, Kids
  <2>2. /\ s \in Seq(RendererParam)
        /\ \A i, j \in 1 .. Len(s) : s[i] = s[j] => i = j
        /\ \A x \in RendererParam : \E i \in 1 .. Len(s) : s[i] = x
    BY SetAsSequence, SceneAssumption
  <2> HIDE DEF s
  <2>3. "backplate" \notin RendererParam
    BY SceneAssumption
  <2>4. /\ t \in Seq(Kids(n)) /\ Len(t) = Len(s) + 1 /\ Len(s) \in Nat
        /\ \A i \in 1 .. Len(t) : t[i] = IF i = 1 THEN "backplate" ELSE s[i - 1]
    <3>1. s \in Seq(Kids(n)) /\ <<"backplate">> \in Seq(Kids(n))
      BY <2>1, <2>2
    <3>2. t \in Seq(Kids(n)) /\ Len(t) = 1 + Len(s)
      BY <3>1, ConcatProperties
    <3>3. \A i \in 1 .. Len(t) : t[i] = IF i <= 1 THEN <<"backplate">>[i] ELSE s[i - 1]
      BY <3>1, ConcatProperties
    <3>4. Len(s) \in Nat
      BY <2>2
    <3>5. QED
      BY <3>2, <3>3, <3>4
  <2>5. \A i \in 1 .. Len(s) : s[i] \in RendererParam
    BY <2>2
  <2> HIDE DEF t
  <2>6. \A i, j \in 1 .. Len(t) : t[i] = t[j] => i = j
    <3> SUFFICES ASSUME NEW i \in 1 .. Len(t), NEW j \in 1 .. Len(t), t[i] = t[j], i # j
                 PROVE  FALSE
      OBVIOUS
    <3>1. CASE i # 1 /\ j # 1
      <4>1. i - 1 \in 1 .. Len(s) /\ j - 1 \in 1 .. Len(s)
        BY <2>4, <3>1
      <4>2. t[i] = s[i - 1] /\ t[j] = s[j - 1]
        BY <2>4, <3>1
      <4>3. i - 1 = j - 1
        BY <2>2, <4>1, <4>2
      <4>4. QED
        BY <4>3
    <3>2. CASE i = 1 \/ j = 1
      BY <2>3, <2>4, <2>5, <3>2
    <3>3. QED
      BY <3>1, <3>2
  <2>7. \A m \in Kids(n) : \E i \in 1 .. Len(t) : t[i] = m
    <3> SUFFICES ASSUME NEW m \in Kids(n)
                 PROVE  \E i \in 1 .. Len(t) : t[i] = m
      OBVIOUS
    <3>1. CASE m = "backplate"
      BY <2>4, <3>1
    <3>2. CASE m # "backplate"
      <4>1. PICK i \in 1 .. Len(s) : s[i] = m
        BY <2>1, <2>2, <3>2
      <4>2. i + 1 \in 1 .. Len(t) /\ t[i + 1] = m
        BY <2>4, <4>1
      <4>3. QED
        BY <4>2
    <3>3. QED
      BY <3>1, <3>2
  <2>8. QED
    BY <2>1, <2>4, <2>6, <2>7
<1>4. CASE n \notin {"frame", "camera", "renderer"}
  <2>1. Scene!Children(n) = <<>> /\ Kids(n) = {}
    BY <1>4 DEF Scene!Children, Kids
  <2>2. QED
    BY <2>1
<1>5. QED
  BY <1>1, <1>2, <1>3, <1>4

\* Every node but the frame has one parent.
LEMMA ParentOf ==
  ASSUME NEW n \in Scene!Node, NEW m \in Kids(n)
  PROVE  m \in Scene!Node /\ Scene!Parent(m) = n
<1>1. \A k \in Scene!Node : m \in Scene!ToSet(Scene!Children(k)) <=> m \in Kids(k)
  <2> SUFFICES ASSUME NEW k \in Scene!Node
               PROVE  m \in Scene!ToSet(Scene!Children(k)) <=> m \in Kids(k)
    OBVIOUS
  <2> DEFINE s == Scene!Children(k)
  <2>1. /\ s \in Seq(Kids(k))
        /\ \A x \in Kids(k) : \E i \in 1 .. Len(s) : s[i] = x
    BY ChildrenOf
  <2>2. Scene!ToSet(s) = {s[i] : i \in DOMAIN s}
    BY DEF Scene!ToSet
  <2> HIDE DEF s
  <2>3. DOMAIN s = 1 .. Len(s) /\ \A i \in 1 .. Len(s) : s[i] \in Kids(k)
    BY <2>1
  <2>4. QED
    BY <2>1, <2>2, <2>3 DEF s
<1>2. m \in Scene!Node /\ \A k \in Scene!Node : m \in Kids(k) => k = n
  <2>1. CASE n = "frame"
    BY <2>1, SceneAssumption DEF Kids, Scene!Node, Scene!Param
  <2>2. CASE n = "camera"
    BY <2>2, SceneAssumption DEF Kids, Scene!Node, Scene!Param
  <2>3. CASE n = "renderer"
    BY <2>3, SceneAssumption DEF Kids, Scene!Node, Scene!Param
  <2>4. QED
    BY <2>1, <2>2, <2>3 DEF Kids
<1>3. Scene!Parent(m) = CHOOSE k \in Scene!Node : m \in Scene!ToSet(Scene!Children(k))
  BY DEF Scene!Parent
<1>4. QED
  BY <1>1, <1>2, <1>3

\* The nodes with children, and those that commit an object.
Inner == {"frame", "camera", "renderer"}
Commits == {"camera", "renderer"}

\* The tree of a frame.
LEMMA Tree ==
  /\ \A p \in CameraParam : Scene!Parent(p) = "camera"
  /\ \A p \in RendererParam : Scene!Parent(p) = "renderer"
  /\ Scene!Parent("backplate") = "renderer"
  /\ \A c \in Commits : Scene!Parent(c) = "frame"
  /\ Scene!Param \cap {"frame", "camera", "renderer", "backplate"} = {}
<1>1. {"frame", "camera", "renderer"} \subseteq Scene!Node
  BY DEF Scene!Node
<1>2. /\ Kids("camera") = CameraParam /\ Kids("renderer") = RendererParam \cup {"backplate"}
      /\ Kids("frame") = Commits
  BY DEF Kids, Commits
<1>3. QED
  BY <1>1, <1>2, ParentOf, SceneAssumption DEF Scene!Param

\* m is above n in the tree.
Above(m, n) == \/ m = "frame" /\ n # "frame"
               \/ m \in Commits /\ n # "frame" /\ n \notin Commits /\ Scene!Parent(n) = m

-----------------------------------------------------------------------------
(* The calls the render thread has still to make.                          *)

\* The calls there can be.
CallOf == ({"pre", "post", "preCommit", "commit", "mark"} \X Scene!Node) \cup {<<"render", "frame">>}

\* Call x may come before call y.
Before(x, y) ==
  /\ x[1] # "render"
  /\ \/ y[1] = "render"
     \/ /\ x[2] = y[2]
        /\ \/ x[1] \in {"pre", "preCommit"} /\ y[1] = "post"
           \/ x[1] = "commit" /\ y[1] = "mark"
     \/ Above(y[2], x[2]) /\ y[1] = "post"
     \/ Above(x[2], y[2]) /\ x[1] = "preCommit" /\ y[1] \in {"pre", "post"}
     \/ ~Above(x[2], y[2]) /\ ~Above(y[2], x[2]) /\ x[2] # y[2] /\ y[1] \in {"pre", "post"}

\* A sequence of calls as the unrolled recursion has it; in it, a call.
InOrder(s) == /\ s \in Seq(CallOf)
              /\ \A i, j \in 1 .. Len(s) : i < j => Before(s[i], s[j])

Holds(s, x) == \E i \in 1 .. Len(s) : s[i] = x

\* Calls in order stay so when others that may follow are put after them.
LEMMA Joined ==
  ASSUME NEW s, NEW t, InOrder(s), InOrder(t),
         \A i \in 1 .. Len(s), j \in 1 .. Len(t) : Before(s[i], t[j])
  PROVE  /\ InOrder(s \o t)
         /\ \A x : Holds(s \o t, x) <=> Holds(s, x) \/ Holds(t, x)
<1> DEFINE u == s \o t
<1>1. s \in Seq(CallOf) /\ t \in Seq(CallOf) /\ Len(s) \in Nat /\ Len(t) \in Nat
  BY DEF InOrder
<1>2. /\ u \in Seq(CallOf) /\ Len(u) = Len(s) + Len(t)
      /\ \A i \in 1 .. Len(u) : u[i] = IF i <= Len(s) THEN s[i] ELSE t[i - Len(s)]
  BY <1>1, ConcatProperties
<1> HIDE DEF u
<1>3. ASSUME NEW i \in 1 .. Len(u), NEW j \in 1 .. Len(u), i < j
      PROVE  Before(u[i], u[j])
  <2>1. CASE j <= Len(s)
    <3>1. i \in 1 .. Len(s) /\ j \in 1 .. Len(s) /\ u[i] = s[i] /\ u[j] = s[j]
      BY <1>1, <1>2, <1>3, <2>1
    <3>2. QED
      BY <1>3, <3>1 DEF InOrder
  <2>2. CASE i <= Len(s) /\ ~(j <= Len(s))
    <3>1. i \in 1 .. Len(s) /\ j - Len(s) \in 1 .. Len(t) /\ u[i] = s[i] /\ u[j] = t[j - Len(s)]
      BY <1>1, <1>2, <1>3, <2>2
    <3>2. QED
      BY <3>1
  <2>3. CASE ~(i <= Len(s))
    <3>1. /\ i - Len(s) \in 1 .. Len(t) /\ j - Len(s) \in 1 .. Len(t) /\ i - Len(s) < j - Len(s)
          /\ u[i] = t[i - Len(s)] /\ u[j] = t[j - Len(s)]
      BY <1>1, <1>2, <1>3, <2>3
    <3>2. QED
      BY <3>1 DEF InOrder
  <2>4. QED
    BY <2>1, <2>2, <2>3
<1>4. ASSUME NEW x
      PROVE  Holds(u, x) <=> Holds(s, x) \/ Holds(t, x)
  <2>1. ASSUME Holds(u, x)
        PROVE  Holds(s, x) \/ Holds(t, x)
    <3>1. PICK i \in 1 .. Len(u) : u[i] = x
      BY <2>1 DEF Holds
    <3>2. CASE i <= Len(s)
      <4>1. i \in 1 .. Len(s) /\ s[i] = x
        BY <1>1, <1>2, <3>1, <3>2
      <4>2. QED
        BY <4>1 DEF Holds
    <3>3. CASE ~(i <= Len(s))
      <4>1. i - Len(s) \in 1 .. Len(t) /\ t[i - Len(s)] = x
        BY <1>1, <1>2, <3>1, <3>3
      <4>2. QED
        BY <4>1 DEF Holds
    <3>4. QED
      BY <3>2, <3>3
  <2>2. ASSUME Holds(s, x)
        PROVE  Holds(u, x)
    <3>1. PICK i \in 1 .. Len(s) : s[i] = x
      BY <2>2 DEF Holds
    <3>2. i \in 1 .. Len(u) /\ u[i] = x
      BY <1>1, <1>2, <3>1
    <3>3. QED
      BY <3>2 DEF Holds
  <2>3. ASSUME Holds(t, x)
        PROVE  Holds(u, x)
    <3>1. PICK i \in 1 .. Len(t) : t[i] = x
      BY <2>3 DEF Holds
    <3>2. i + Len(s) \in 1 .. Len(u) /\ ~(i + Len(s) <= Len(s)) /\ i + Len(s) - Len(s) = i
      BY <1>1, <1>2
    <3>3. u[i + Len(s)] = t[i]
      BY <1>2, <3>2
    <3>4. QED
      BY <3>1, <3>2, <3>3 DEF Holds
  <2>4. QED
    BY <2>1, <2>2, <2>3
<1>5. InOrder(u)
  BY <1>2, <1>3 DEF InOrder
<1>6. QED
  BY <1>4, <1>5 DEF u

\* The first call of a sequence in order, and the rest.
LEMMA Split ==
  ASSUME NEW s, InOrder(s), s # <<>>
  PROVE  /\ Head(s) \in CallOf /\ InOrder(Tail(s))
         /\ \A i \in 1 .. Len(Tail(s)) : Before(Head(s), Tail(s)[i])
         /\ \A x : Holds(s, x) <=> x = Head(s) \/ Holds(Tail(s), x)
<1> DEFINE t == Tail(s)
           h == Head(s)
<1>1. /\ s \in Seq(CallOf) /\ Len(s) \in Nat /\ Len(s) >= 1 /\ h = s[1] /\ h \in CallOf
      /\ t \in Seq(CallOf) /\ Len(t) = Len(s) - 1 /\ \A i \in 1 .. Len(t) : t[i] = s[i + 1]
  <2>1. s \in Seq(CallOf)
    BY DEF InOrder
  <2>2. QED
    BY <2>1, HeadTailProperties
<1> HIDE DEF t, h
<1>2. \A i \in 1 .. Len(t) : i + 1 \in 1 .. Len(s) /\ 1 \in 1 .. Len(s) /\ 1 < i + 1
  BY <1>1
<1>3. ASSUME NEW i \in 1 .. Len(t), NEW j \in 1 .. Len(t), i < j
      PROVE  Before(t[i], t[j])
  <2>1. i + 1 < j + 1 /\ i + 1 \in 1 .. Len(s) /\ j + 1 \in 1 .. Len(s)
    BY <1>2, <1>3
  <2>2. Before(s[i + 1], s[j + 1])
    BY <2>1 DEF InOrder
  <2>3. QED
    BY <1>1, <2>2
<1>4. ASSUME NEW i \in 1 .. Len(t)
      PROVE  Before(h, t[i])
  <2>1. Before(s[1], s[i + 1])
    BY <1>2 DEF InOrder
  <2>2. QED
    BY <1>1, <2>1
<1>5. ASSUME NEW x
      PROVE  Holds(s, x) <=> x = h \/ Holds(t, x)
  <2>1. ASSUME Holds(s, x)
        PROVE  x = h \/ Holds(t, x)
    <3>1. PICK i \in 1 .. Len(s) : s[i] = x
      BY <2>1 DEF Holds
    <3>2. CASE i # 1
      <4>1. i - 1 \in 1 .. Len(t) /\ t[i - 1] = s[(i - 1) + 1] /\ (i - 1) + 1 = i
        BY <1>1, <3>2
      <4>2. QED
        BY <3>1, <4>1 DEF Holds
    <3>3. QED
      BY <1>1, <3>1, <3>2
  <2>2. ASSUME Holds(t, x)
        PROVE  Holds(s, x)
    <3>1. PICK i \in 1 .. Len(t) : t[i] = x
      BY <2>2 DEF Holds
    <3>2. s[i + 1] = x /\ i + 1 \in 1 .. Len(s)
      BY <1>1, <1>2, <3>1
    <3>3. QED
      BY <3>2 DEF Holds
  <2>3. Holds(s, h)
    <3>1. 1 \in 1 .. Len(s)
      BY <1>1
    <3>2. QED
      BY <1>1, <3>1 DEF Holds
  <2>4. QED
    BY <2>1, <2>2, <2>3
<1>6. QED
  BY <1>1, <1>3, <1>4, <1>5 DEF InOrder, t, h

\* What may come after the visit of a node may come after that of its
\* children, and of all that the visit does.
LEMMA BeforeBelow ==
  ASSUME NEW n \in Scene!Node, NEW m \in Kids(n), NEW y \in CallOf, Before(<<"pre", n>>, y),
         NEW f \in {"pre", "post"}
  PROVE  Before(<<f, m>>, y)
<1>1. /\ m \in Scene!Node /\ Scene!Parent(m) = n /\ m # "frame" /\ n \in Inner
      /\ n \in Commits => m \notin Commits
      /\ n = "frame" => m \in Commits
  BY ParentOf, SceneAssumption DEF Kids, Inner, Commits
<1>2. y[1] = "render" \/ y[2] \in Scene!Node
  BY DEF CallOf
<1>3. \A c \in Commits : Scene!Parent(c) = "frame"
  BY Tree
<1> DEFINE k == y[2]
           g == y[1]
<1>4. \/ g = "render"
      \/ n = k /\ g = "post"
      \/ Above(k, n) /\ g = "post"
      \/ ~Above(n, k) /\ ~Above(k, n) /\ n # k /\ g \in {"pre", "post"}
  BY DEF Before
<1>5. Above(n, m)
  BY <1>1 DEF Above, Inner, Commits
<1>6. Above(k, n) => Above(k, m)
  BY <1>1, <1>3 DEF Above, Inner, Commits
<1>7. Above(m, k) => Above(n, k)
  BY <1>1, <1>2, <1>3 DEF Above, Inner, Commits
<1>8. Above(k, m) => k = n \/ Above(k, n)
  BY <1>1, <1>3 DEF Above, Inner, Commits
<1> HIDE DEF k, g
<1>9. \/ g = "render"
      \/ Above(k, m) /\ g = "post"
      \/ ~Above(m, k) /\ ~Above(k, m) /\ m # k /\ g \in {"pre", "post"}
  BY <1>4, <1>5, <1>6, <1>7, <1>8
<1>10. QED
  BY <1>9 DEF Before, k, g

\* The places of a sequence of pairs laid out one after the other.
LEMMA Halves ==
  ASSUME NEW N \in Nat, NEW k \in 1 .. 2 * N
  PROVE  /\ (k + 1) \div 2 \in 1 .. N
         /\ k % 2 = 1 => k = 2 * ((k + 1) \div 2) - 1
         /\ k % 2 # 1 => k = 2 * ((k + 1) \div 2)
  OBVIOUS

\* The visits of the children of a node.
LEMMA Visits ==
  ASSUME NEW n \in Scene!Node
  PROVE  LET t == Scene!TraverseChildren(n) IN
         /\ InOrder(t)
         /\ \A i \in 1 .. Len(t) : \E f \in {"pre", "post"}, m \in Kids(n) : t[i] = <<f, m>>
         /\ \A m \in Kids(n) : Holds(t, <<"pre", m>>) /\ Holds(t, <<"post", m>>)
<1> DEFINE s == Scene!Children(n)
           t == Scene!TraverseChildren(n)
<1>1. /\ s \in Seq(Kids(n)) /\ Len(s) \in Nat
      /\ \A i, j \in 1 .. Len(s) : s[i] = s[j] => i = j
      /\ \A m \in Kids(n) : \E i \in 1 .. Len(s) : s[i] = m
  BY ChildrenOf
<1>2. t = [k \in 1 .. 2 * Len(s) |-> <<IF k % 2 = 1 THEN "pre" ELSE "post", s[(k + 1) \div 2]>>]
  BY DEF Scene!TraverseChildren
<1> HIDE DEF s, t
<1>3. /\ Len(t) = 2 * Len(s) /\ DOMAIN t = 1 .. Len(t)
      /\ \A k \in 1 .. Len(t) : t[k] = <<IF k % 2 = 1 THEN "pre" ELSE "post", s[(k + 1) \div 2]>>
  <2>1. 2 * Len(s) \in Nat
    BY <1>1
  <2>2. QED
    BY <1>2, <2>1
<1>4. \A k \in 1 .. Len(t) : /\ (k + 1) \div 2 \in 1 .. Len(s)
                             /\ (k % 2 = 1 => k = 2 * ((k + 1) \div 2) - 1)
                             /\ (k % 2 # 1 => k = 2 * ((k + 1) \div 2))
  BY <1>1, <1>3, Halves
<1>5. \A k \in 1 .. Len(t) : s[(k + 1) \div 2] \in Kids(n)
  BY <1>1, <1>4
<1>6. Kids(n) \subseteq Scene!Node
  BY ParentOf
<1>7. ASSUME NEW k \in 1 .. Len(t)
      PROVE  t[k] \in CallOf
  <2>1. t[k] = <<IF k % 2 = 1 THEN "pre" ELSE "post", s[(k + 1) \div 2]>>
    BY <1>3
  <2>2. s[(k + 1) \div 2] \in Scene!Node
    BY <1>5, <1>6
  <2>3. QED
    BY <2>1, <2>2 DEF CallOf
<1>8. t \in Seq(CallOf)
  <2>1. Len(t) \in Nat
    BY <1>1, <1>3
  <2>2. \A k \in 1 .. Len(t) : t[k] \in CallOf
    BY <1>7
  <2>3. t = [k \in 1 .. Len(t) |-> t[k]]
    BY <1>2, <1>3
  <2>4. QED
    BY <2>1, <2>2, <2>3
<1>9. ASSUME NEW i \in 1 .. Len(t), NEW j \in 1 .. Len(t), i < j
      PROVE  Before(t[i], t[j])
  <2> DEFINE a == (i + 1) \div 2
             b == (j + 1) \div 2
  <2>1. /\ a \in 1 .. Len(s) /\ b \in 1 .. Len(s) /\ s[a] \in Kids(n) /\ s[b] \in Kids(n)
    BY <1>4, <1>5
  <2>2. CASE a = b
    <3>1. i % 2 = 1 /\ j % 2 # 1
      BY <1>3, <1>4, <1>9, <2>2
    <3>2. t[i] = <<"pre", s[a]>> /\ t[j] = <<"post", s[a]>>
      BY <1>3, <2>2, <3>1
    <3>3. QED
      BY <3>2 DEF Before
  <2>3. CASE a # b
    <3>1. s[a] # s[b]
      BY <1>1, <2>1, <2>3
    <3>2. ~Above(s[a], s[b]) /\ ~Above(s[b], s[a])
      <4>1. Scene!Parent(s[a]) = n /\ Scene!Parent(s[b]) = n
        BY <2>1, ParentOf
      <4>2. n = "frame" => Kids(n) = Commits
        BY DEF Kids, Commits
      <4>3. n # "frame" => Kids(n) \cap Inner = {}
        BY SceneAssumption DEF Kids, Inner
      <4>4. QED
        BY <2>1, <4>1, <4>2, <4>3 DEF Above, Inner, Commits
    <3>3. t[i][2] = s[a] /\ t[j][2] = s[b] /\ t[i][1] \in {"pre", "post"} /\ t[j][1] \in {"pre", "post"}
      BY <1>3
    <3>4. QED
      BY <3>1, <3>2, <3>3 DEF Before
  <2>4. QED
    BY <2>2, <2>3
<1>10. \A i \in 1 .. Len(t) : \E f \in {"pre", "post"}, m \in Kids(n) : t[i] = <<f, m>>
  BY <1>3, <1>5
<1>11. ASSUME NEW m \in Kids(n)
       PROVE  Holds(t, <<"pre", m>>) /\ Holds(t, <<"post", m>>)
  <2>1. PICK i \in 1 .. Len(s) : s[i] = m
    BY <1>1
  <2>2. /\ 2 * i - 1 \in 1 .. Len(t) /\ (2 * i - 1) % 2 = 1 /\ ((2 * i - 1) + 1) \div 2 = i
        /\ 2 * i \in 1 .. Len(t) /\ (2 * i) % 2 # 1 /\ (2 * i + 1) \div 2 = i
    BY <1>1, <1>3
  <2>3. t[2 * i - 1] = <<"pre", m>> /\ t[2 * i] = <<"post", m>>
    BY <1>3, <2>1, <2>2
  <2>4. QED
    BY <2>2, <2>3 DEF Holds
<1>12. InOrder(t)
  BY <1>8, <1>9 DEF InOrder
<1>13. QED
  BY <1>10, <1>11, <1>12 DEF t

\* The next call, and the others.
LEMMA NextCall ==
  ASSUME InOrder(todo), NEW f, NEW n, Scene!Calls(f, n)
  PROVE  /\ <<f, n>> \in CallOf /\ InOrder(Tail(todo)) /\ todo # <<>>
         /\ \A i \in 1 .. Len(Tail(todo)) : Before(<<f, n>>, Tail(todo)[i])
         /\ \A x : Holds(todo, x) <=> x = <<f, n>> \/ Holds(Tail(todo), x)
         /\ \A x : Holds(Tail(todo), x) => x \in CallOf /\ Before(<<f, n>>, x)
<1>1. todo # <<>> /\ Head(todo) = <<f, n>>
  BY DEF Scene!Calls
<1>2. /\ <<f, n>> \in CallOf /\ InOrder(Tail(todo))
      /\ \A i \in 1 .. Len(Tail(todo)) : Before(<<f, n>>, Tail(todo)[i])
      /\ \A x : Holds(todo, x) <=> x = <<f, n>> \/ Holds(Tail(todo), x)
  BY <1>1, Split
<1>3. \A x : Holds(Tail(todo), x) => x \in CallOf /\ Before(<<f, n>>, x)
  BY <1>2 DEF Holds, InOrder
<1>4. QED
  BY <1>1, <1>2, <1>3

\* Once a node is committed, what is left is below nothing of it.
LEMMA WhenCommitted ==
  ASSUME InOrder(todo), NEW f \in {"commit", "mark"}, NEW n, Scene!Calls(f, n),
         NEW g, NEW m, Holds(Tail(todo), <<g, m>>)
  PROVE  /\ g \notin {"preCommit", "commit"}
         /\ g \in {"pre", "post"} => m # n /\ ~Above(n, m)
         /\ g = "pre" => ~Above(m, n)
<1>1. Before(<<f, n>>, <<g, m>>)
  BY NextCall
<1>2. Above(m, n) => ~Above(n, m)
  BY DEF Above, Commits
<1>3. QED
  BY <1>1, <1>2 DEF Before

\* What a visit adds to the calls.
LEMMA OpenedByPre ==
  ASSUME InOrder(todo), NEW n \in Scene!Node, Scene!PreTraverse(n)
  PROVE  /\ InOrder(todo)'
         /\ \A x : Holds(todo, x) => x = <<"pre", n>> \/ Holds(todo, x)'
         /\ Scene!SubtreeModifiedButNotCommitted(n) =>
              /\ Holds(todo, <<"preCommit", n>>)'
              /\ \A m \in Kids(n) : Holds(todo, <<"pre", m>>)' /\ Holds(todo, <<"post", m>>)'
         /\ \A x : Holds(todo, x)' =>
              \/ Holds(todo, x) \/ x = <<"preCommit", n>>
              \/ \E m \in Kids(n) : x \in {<<"pre", m>>, <<"post", m>>}
<1> DEFINE t == Scene!TraverseChildren(n)
           r == Tail(todo)
           h == <<<<"preCommit", n>>>>
<1>1. Scene!Calls("pre", n)
  BY DEF Scene!PreTraverse
<1>2. /\ InOrder(r)
      /\ \A i \in 1 .. Len(r) : r[i] \in CallOf /\ Before(<<"pre", n>>, r[i])
      /\ \A x : Holds(todo, x) <=> x = <<"pre", n>> \/ Holds(r, x)
  <2>1. /\ InOrder(r)
        /\ \A i \in 1 .. Len(r) : Before(<<"pre", n>>, r[i])
        /\ \A x : Holds(todo, x) <=> x = <<"pre", n>> \/ Holds(r, x)
    BY <1>1, NextCall
  <2>2. \A i \in 1 .. Len(r) : r[i] \in CallOf
    BY <2>1 DEF InOrder
  <2>3. QED
    BY <2>1, <2>2
<1>3. todo' = (IF Scene!SubtreeModifiedButNotCommitted(n) THEN h \o t ELSE <<>>) \o r
  BY DEF Scene!PreTraverse
<1>4. CASE ~Scene!SubtreeModifiedButNotCommitted(n)
  <2>1. todo' = r
    BY <1>2, <1>3, <1>4, ConcatEmptySeq DEF InOrder
  <2>2. QED
    BY <1>2, <1>4, <2>1 DEF InOrder, Holds
<1>5. CASE Scene!SubtreeModifiedButNotCommitted(n)
  <2>1. /\ InOrder(t)
        /\ \A i \in 1 .. Len(t) : \E f \in {"pre", "post"}, m \in Kids(n) : t[i] = <<f, m>>
        /\ \A m \in Kids(n) : Holds(t, <<"pre", m>>) /\ Holds(t, <<"post", m>>)
    BY Visits
  <2> HIDE DEF t, r
  <2>2. /\ InOrder(h) /\ Len(h) = 1 /\ h[1] = <<"preCommit", n>>
        /\ \A x : Holds(h, x) <=> x = <<"preCommit", n>>
    BY DEF InOrder, Holds, CallOf
  <2> HIDE DEF h
  <2>3. \A m \in Kids(n) : Above(n, m)
    BY ParentOf, SceneAssumption DEF Kids, Above, Commits
  <2>4. ASSUME NEW i \in 1 .. Len(h), NEW j \in 1 .. Len(t)
        PROVE  Before(h[i], t[j])
    <3>1. PICK f \in {"pre", "post"}, m \in Kids(n) : t[j] = <<f, m>>
      BY <2>1
    <3>2. i = 1 /\ Above(n, m)
      BY <2>2, <2>3
    <3>3. QED
      BY <2>2, <3>1, <3>2 DEF Before
  <2>5. /\ InOrder(h \o t)
        /\ \A x : Holds(h \o t, x) <=> Holds(h, x) \/ Holds(t, x)
    BY <2>1, <2>2, <2>4, Joined
  <2>6. \A x : Holds(h \o t, x) =>
          \/ x = <<"preCommit", n>>
          \/ \E f \in {"pre", "post"}, m \in Kids(n) : x = <<f, m>>
    <3>1. \A x : Holds(t, x) => \E f \in {"pre", "post"}, m \in Kids(n) : x = <<f, m>>
      BY <2>1 DEF Holds
    <3>2. QED
      BY <2>2, <2>5, <3>1
  <2>7. ASSUME NEW i \in 1 .. Len(h \o t), NEW j \in 1 .. Len(r)
        PROVE  Before((h \o t)[i], r[j])
    <3> DEFINE x == (h \o t)[i]
               y == r[j]
    <3>1. y \in CallOf /\ Before(<<"pre", n>>, y)
      BY <1>2
    <3>2. Holds(h \o t, x)
      BY DEF Holds
    <3> HIDE DEF x, y
    <3>3. ASSUME x = <<"preCommit", n>>
          PROVE  Before(x, y)
      BY <3>1, <3>3 DEF Before
    <3>4. ASSUME NEW f \in {"pre", "post"}, NEW m \in Kids(n), x = <<f, m>>
          PROVE  Before(x, y)
      BY <3>1, <3>4, BeforeBelow
    <3>5. Before(x, y)
      BY <2>6, <3>2, <3>3, <3>4
    <3>6. QED
      BY <3>5 DEF x, y
  <2>8. todo' = (h \o t) \o r
    BY <1>3, <1>5
  <2>9. /\ InOrder((h \o t) \o r)
        /\ \A x : Holds((h \o t) \o r, x) <=> Holds(h \o t, x) \/ Holds(r, x)
    BY <1>2, <2>5, <2>7, Joined
  <2>10. /\ InOrder(todo)'
         /\ \A x : Holds(todo, x)' <=> Holds(h \o t, x) \/ Holds(r, x)
    BY <2>8, <2>9 DEF InOrder, Holds
  <2>11. \A x : Holds(todo, x)' <=> x = <<"preCommit", n>> \/ Holds(t, x) \/ Holds(r, x)
    BY <2>2, <2>5, <2>10
  <2>12. ASSUME NEW x, Holds(h \o t, x), x # <<"preCommit", n>>
         PROVE  \E m \in Kids(n) : x \in {<<"pre", m>>, <<"post", m>>}
    <3>1. PICK f \in {"pre", "post"}, m \in Kids(n) : x = <<f, m>>
      BY <2>6, <2>12
    <3>2. f = "pre" \/ f = "post"
      OBVIOUS
    <3>3. x \in {<<"pre", m>>, <<"post", m>>}
      BY <3>1, <3>2
    <3>4. QED
      BY <3>3
  <2>13. QED
    BY <1>2, <2>1, <2>10, <2>11, <2>12, Zenon
<1>6. QED
  BY <1>4, <1>5

\* What the end of a visit adds to the calls.
LEMMA OpenedByPost ==
  ASSUME InOrder(todo), NEW n \in Scene!Node, Scene!PostTraverse(n)
  PROVE  /\ InOrder(todo)'
         /\ \A x : Holds(todo, x) => x = <<"post", n>> \/ Holds(todo, x)'
         /\ Scene!SubtreeModifiedButNotCommitted(n) => Holds(todo, <<"commit", n>>)'
         /\ \A x : Holds(todo, x)' => Holds(todo, x) \/ x \in {<<"commit", n>>, <<"mark", n>>}
<1> DEFINE r == Tail(todo)
           h == <<<<"commit", n>>, <<"mark", n>>>>
<1>1. Scene!Calls("post", n)
  BY DEF Scene!PostTraverse
<1>2. /\ InOrder(r)
      /\ \A i \in 1 .. Len(r) : r[i] \in CallOf /\ Before(<<"post", n>>, r[i])
      /\ \A x : Holds(todo, x) <=> x = <<"post", n>> \/ Holds(r, x)
  <2>1. /\ InOrder(r)
        /\ \A i \in 1 .. Len(r) : Before(<<"post", n>>, r[i])
        /\ \A x : Holds(todo, x) <=> x = <<"post", n>> \/ Holds(r, x)
    BY <1>1, NextCall
  <2>2. \A i \in 1 .. Len(r) : r[i] \in CallOf
    BY <2>1 DEF InOrder
  <2>3. QED
    BY <2>1, <2>2
<1>3. todo' = (IF Scene!SubtreeModifiedButNotCommitted(n) THEN h ELSE <<>>) \o r
  BY DEF Scene!PostTraverse
<1>4. CASE ~Scene!SubtreeModifiedButNotCommitted(n)
  <2>1. todo' = r
    BY <1>2, <1>3, <1>4, ConcatEmptySeq DEF InOrder
  <2>2. QED
    BY <1>2, <1>4, <2>1 DEF InOrder, Holds
<1>5. CASE Scene!SubtreeModifiedButNotCommitted(n)
  <2> HIDE DEF r
  <2>1. h \in Seq(CallOf) /\ Len(h) = 2 /\ h[1] = <<"commit", n>> /\ h[2] = <<"mark", n>>
    BY DEF CallOf
  <2> HIDE DEF h
  <2>2. InOrder(h)
    BY <2>1 DEF InOrder, Before
  <2>3. \A x : Holds(h, x) <=> x \in {<<"commit", n>>, <<"mark", n>>}
    <3>1. 1 .. Len(h) = {1, 2}
      BY <2>1
    <3>2. QED
      BY <2>1, <3>1 DEF Holds
  <2>4. ASSUME NEW i \in 1 .. Len(h), NEW j \in 1 .. Len(r)
        PROVE  Before(h[i], r[j])
    <3>1. h[i] \in {<<"commit", n>>, <<"mark", n>>}
      BY <2>1
    <3>2. Before(<<"post", n>>, r[j])
      BY <1>2
    <3>3. QED
      BY <3>1, <3>2 DEF Before
  <2>5. /\ InOrder(h \o r)
        /\ \A x : Holds(h \o r, x) <=> Holds(h, x) \/ Holds(r, x)
    BY <1>2, <2>2, <2>4, Joined
  <2>6. /\ InOrder(todo)'
        /\ \A x : Holds(todo, x)' <=> Holds(h, x) \/ Holds(r, x)
    BY <1>3, <1>5, <2>5 DEF InOrder, Holds
  <2>7. QED
    BY <1>2, <2>3, <2>6
<1>6. QED
  BY <1>4, <1>5

\* A call that is made and adds none.
LEMMA CallDone ==
  ASSUME InOrder(todo), NEW f, NEW n, Scene!Calls(f, n), todo' = Tail(todo)
  PROVE  /\ InOrder(todo)'
         /\ \A x : Holds(todo, x) => x = <<f, n>> \/ Holds(todo, x)'
         /\ \A x : Holds(todo, x)' <=> Holds(Tail(todo), x)
         /\ \A x : Holds(todo, x)' => Holds(todo, x)
<1>1. /\ InOrder(Tail(todo))
      /\ \A x : Holds(todo, x) <=> x = <<f, n>> \/ Holds(Tail(todo), x)
  BY NextCall
<1>2. InOrder(todo)' /\ \A x : Holds(todo, x)' <=> Holds(Tail(todo), x)
  BY <1>1 DEF InOrder, Holds
<1>3. QED
  BY <1>1, <1>2

-----------------------------------------------------------------------------
(* Every change is found, committed and shown.                             *)

\* The types; every stamp is older than the clock.
SceneTypes ==
  /\ value \in [Scene!Param -> 0 .. MaxChanges]
  /\ set \in [Scene!Param -> 0 .. MaxChanges]
  /\ committed \in [Scene!Param -> 0 .. MaxChanges]
  /\ accumulated \subseteq [Scene!Param -> 0 .. MaxChanges]
  /\ now \in Nat /\ stamp \in Nat /\ stamp < now
  /\ lastModified \in [Scene!Node -> Nat] /\ childrenMTime \in [Scene!Node -> Nat]
  /\ lastCommitted \in [Scene!Node -> Nat]
  /\ \A n \in Scene!Node : lastModified[n] < now /\ childrenMTime[n] < now /\ lastCommitted[n] < now
  /\ changes \in Nat
  /\ changed \in Scene!Param \cup {"camera"} /\ above \in Inner
  /\ appAt \in {"idle", "stamp", "test", "store"}
  /\ clearFB \in BOOLEAN
  /\ pending \subseteq Scene!Param /\ overlapped \subseteq Scene!Param

\* A frame that is being rendered has not been accumulated.
FramesCounted ==
  /\ numAccumulatedFrames \in Nat /\ frames \in Nat
  /\ numAccumulatedFrames <= frames /\ frames <= MaxFrames
  /\ todo # <<>> => numAccumulatedFrames < frames

\* The node itself has been modified since it was committed.
Touched(n) == lastModified[n] > lastCommitted[n]

\* A commit will visit the node, whatever the application does until then:
\* its stamp cannot be overwritten by an older one.
Flagged(n) == \/ Touched(n)
              \/ /\ childrenMTime[n] > lastCommitted[n]
                 /\ appAt = "store" /\ above = n => stamp > lastCommitted[n]

\* The next commit finds the change of a parameter.
Found(p) == Touched(p) /\ Flagged(Scene!Parent(p)) /\ Flagged("frame")

\* The next commit will find it, once the application is done with it.
OnItsWay(p) ==
  /\ appAt # "stamp" => Touched(p)
  /\ appAt \in {"test", "store"} =>
       /\ above = Scene!Parent(p) \/ (above = "frame" /\ Flagged(Scene!Parent(p)))
       /\ \A n \in Inner : stamp > lastCommitted[n]
       /\ stamp > childrenMTime["frame"] /\ stamp > childrenMTime[above]

\* A change that no commit has met is found by the next one.
ToBeFound ==
  \A p \in pending \ overlapped :
    /\ ~Scene!Committing
    /\ IF changed = p /\ appAt # "idle" THEN OnItsWay(p) ELSE Found(p)

\* The call is still to be made.
Open(f, n) == Holds(todo, <<f, n>>)

\* The commit that is running, if any, brings the value to the object...
WillSet(p) ==
  \/ set[p] = value[p]
  \/ Open("commit", p)
  \/ /\ Touched(p)
     /\ \/ Open("post", p)
        \/ Open("pre", Scene!Parent(p)) /\ Flagged(Scene!Parent(p))
        \/ Open("pre", "frame") /\ Flagged("frame") /\ Flagged(Scene!Parent(p))

\* ... commits it ...
WillCommit(p) ==
  \/ committed[p] = value[p]
  \/ Open("commit", Scene!Parent(p))
  \/ /\ Flagged(Scene!Parent(p))
     /\ Open("post", Scene!Parent(p)) \/ (Open("pre", "frame") /\ Flagged("frame"))

\* ... and clears what was accumulated with another.
WillShow(p) ==
  \/ \A shown \in accumulated : shown[p] = value[p]
  \/ /\ Open("commit", "frame") \/ (Open("post", "frame") /\ Flagged("frame"))
     /\ IF Open("pre", "frame") \/ Open("preCommit", "frame")
        THEN Flagged(Scene!Parent(p)) ELSE clearFB

\* Once a commit has begun after a change, it, or those before it, do all that.
BeingCommitted ==
  \A p \in Scene!Param \ (pending \cup overlapped) : WillSet(p) /\ WillCommit(p) /\ WillShow(p)

\* The inductive invariant of the scene graph.
SceneIInv == SceneTypes /\ FramesCounted /\ InOrder(todo) /\ ToBeFound /\ BeingCommitted

\* The invariant is what the run checks of the scene graph, and more.
LEMMA SceneImplies ==
  ASSUME SceneIInv
  PROVE  Scene!TypeOK /\ Scene!ShowsScene /\ Scene!NothingLost
<1>1. Scene!TypeOK
  <2>1. \A f \in {value, set, committed} \cup accumulated : f \in [Scene!Param -> 0 .. MaxChanges]
    BY DEF SceneIInv, SceneTypes
  <2>2. now \in Nat /\ \A f \in {lastModified, childrenMTime, lastCommitted} :
          DOMAIN f = Scene!Node /\ \A n \in Scene!Node : f[n] \in 0 .. now - 1
    BY DEF SceneIInv, SceneTypes
  <2>3. numAccumulatedFrames \in 0 .. MaxFrames
    BY SceneAssumption DEF SceneIInv, FramesCounted
  <2>4. changed \in Scene!Node /\ above \in Scene!Node
    BY DEF SceneIInv, SceneTypes, Scene!Node, Inner
  <2>5. /\ appAt \in {"idle", "stamp", "test", "store"} /\ clearFB \in BOOLEAN
        /\ pending \subseteq Scene!Param /\ overlapped \subseteq Scene!Param
    BY DEF SceneIInv, SceneTypes
  <2>6. QED
    BY <2>1, <2>2, <2>3, <2>4, <2>5 DEF Scene!TypeOK
<1>2. todo = <<>> => \A p \in Scene!Param \ (pending \cup overlapped) :
         committed[p] = value[p] /\ \A shown \in accumulated : shown[p] = value[p]
  <2>1. todo = <<>> => \A x : ~Holds(todo, x)
    BY DEF Holds
  <2>2. QED
    BY <2>1 DEF SceneIInv, BeingCommitted, WillCommit, WillShow, Open
<1>3. Scene!NothingLost
  <2> SUFFICES ASSUME todo = <<>>, appAt = "idle", NEW p \in Scene!Param \ overlapped,
                      committed[p] # value[p]
               PROVE  Scene!SubtreeModifiedButNotCommitted("frame")
    BY DEF Scene!NothingLost
  <2>1. p \in pending \ overlapped
    BY <1>2
  <2>2. Flagged("frame")
    BY <2>1 DEF SceneIInv, ToBeFound, Found
  <2>3. QED
    BY <2>2 DEF Flagged, Touched, Scene!SubtreeModifiedButNotCommitted
<1>4. QED
  BY <1>1, <1>2, <1>3 DEF Scene!ShowsScene

\* A scene that nothing has been committed of.
LEMMA InitScene == Scene!Init => SceneIInv
<1> SUFFICES ASSUME Scene!Init
             PROVE  SceneIInv
  OBVIOUS
<1>1. SceneTypes
  BY SceneAssumption DEF Scene!Init, SceneTypes, Inner
<1>2. FramesCounted
  BY SceneAssumption DEF Scene!Init, FramesCounted
<1>3. InOrder(todo)
  BY DEF Scene!Init, InOrder
<1>4. ToBeFound
  <2>1. \A n \in Scene!Node : Touched(n)
    BY DEF Scene!Init, Touched
  <2>2. \A p \in Scene!Param : p \in Scene!Node /\ Scene!Parent(p) \in Scene!Node
    BY Tree DEF Scene!Node, Scene!Param
  <2>3. QED
    BY <2>1, <2>2 DEF Scene!Init, ToBeFound, Found, Flagged, Scene!Node, Scene!Committing
<1>5. BeingCommitted
  BY DEF Scene!Init, BeingCommitted
<1>6. QED
  BY <1>1, <1>2, <1>3, <1>4, <1>5 DEF SceneIInv

\* Parents of what the application changes.
LEMMA ParentsAbove ==
  /\ \A p \in Scene!Param : p \in Scene!Node /\ Scene!Parent(p) \in Commits /\ p \notin Inner
  /\ \A c \in Commits : Scene!Parent(c) = "frame"
  /\ Commits \subseteq Inner /\ Inner \subseteq Scene!Node
  BY Tree DEF Scene!Param, Scene!Node, Commits, Inner

\* The types are kept, and no stamp is ahead of the clock.
LEMMA TypesKept ==
  ASSUME SceneTypes, Scene!Next
  PROVE  SceneTypes'
<1> USE DEF SceneTypes, Scene!values, Scene!stamps, Scene!appVars, Scene!frameVars, Scene!ghosts
<1>1. ASSUME NEW p \in Scene!Param, Scene!SetValue(p)
      PROVE  SceneTypes'
  <2>1. changes' \in 0 .. MaxChanges /\ value' = [value EXCEPT ![p] = changes']
    BY <1>1, SceneAssumption DEF Scene!SetValue
  <2>2. value' \in [Scene!Param -> 0 .. MaxChanges]
    BY <2>1
  <2>3. overlapped' \subseteq Scene!Param /\ pending' \subseteq Scene!Param
    BY <1>1 DEF Scene!SetValue
  <2>4. QED
    BY <1>1, <2>1, <2>2, <2>3 DEF Scene!SetValue
<1>2. CASE Scene!MarkCamera
  BY <1>2, SceneAssumption DEF Scene!MarkCamera
<1>3. CASE Scene!MarkAsModified
  <2>1. changed \in Scene!Node /\ Scene!Parent(changed) \in Inner
    BY ParentsAbove DEF Commits, Inner
  <2>2. lastModified' = [lastModified EXCEPT ![changed] = now] /\ stamp' = now /\ now' = now + 1
    BY <1>3 DEF Scene!MarkAsModified
  <2>3. /\ lastModified' \in [Scene!Node -> Nat]
        /\ \A n \in Scene!Node : lastModified'[n] = IF n = changed THEN now ELSE lastModified[n]
    BY <2>1, <2>2
  <2>4. QED
    BY <1>3, <2>1, <2>2, <2>3 DEF Scene!MarkAsModified
<1>4. CASE Scene!TestStamp
  BY <1>4 DEF Scene!TestStamp
<1>5. CASE Scene!SetChildrenModified
  <2>1. above \in Scene!Node /\ (above # "frame" => Scene!Parent(above) \in Inner)
    BY ParentsAbove DEF Commits, Inner
  <2>2. childrenMTime' = [childrenMTime EXCEPT ![above] = stamp]
    BY <1>5 DEF Scene!SetChildrenModified
  <2>3. /\ childrenMTime' \in [Scene!Node -> Nat]
        /\ \A n \in Scene!Node : childrenMTime'[n] = IF n = above THEN stamp ELSE childrenMTime[n]
    BY <2>1, <2>2
  <2>4. above' \in Inner /\ appAt' \in {"idle", "stamp", "test", "store"}
    BY <1>5, <2>1 DEF Scene!SetChildrenModified
  <2>5. QED
    BY <1>5, <2>3, <2>4 DEF Scene!SetChildrenModified
<1>6. CASE Scene!RenderFrame
  BY <1>6 DEF Scene!RenderFrame
<1>7. CASE Scene!Accumulate
  BY <1>7 DEF Scene!Accumulate
<1>8. ASSUME NEW n \in Scene!Node, Scene!PreTraverse(n)
      PROVE  SceneTypes'
  BY <1>8 DEF Scene!PreTraverse
<1>9. ASSUME NEW n \in Scene!Node, Scene!PreCommit(n)
      PROVE  SceneTypes'
  <2>1. clearFB' \in BOOLEAN
    BY <1>9 DEF Scene!PreCommit, Scene!Outdated
  <2>2. CASE n # "renderer"
    BY <1>9, <2>1, <2>2 DEF Scene!PreCommit
  <2>3. CASE n = "renderer"
    <3>1. /\ lastModified' = [lastModified EXCEPT !["backplate"] = now]
          /\ childrenMTime' = [childrenMTime EXCEPT !["renderer"] = now, !["frame"] = now]
          /\ now' = now + 1
      BY <1>9, <2>3 DEF Scene!PreCommit
    <3>2. {"backplate", "renderer", "frame"} \subseteq Scene!Node
      BY DEF Scene!Node
    <3>3. /\ lastModified' \in [Scene!Node -> Nat] /\ childrenMTime' \in [Scene!Node -> Nat]
          /\ \A m \in Scene!Node : lastModified'[m] < now' /\ childrenMTime'[m] < now' /\ lastCommitted[m] < now'
      BY <3>1, <3>2
    <3>4. UNCHANGED <<value, set, committed, accumulated, lastCommitted, changed, appAt, above, stamp,
                      changes, pending, overlapped>>
      BY <1>9, <2>3 DEF Scene!PreCommit
    <3>5. stamp < now'
      BY <3>1
    <3>6. QED
      BY <2>1, <3>1, <3>3, <3>4, <3>5
  <2>4. QED
    BY <2>2, <2>3
<1>10. ASSUME NEW n \in Scene!Node, Scene!PostTraverse(n)
       PROVE  SceneTypes'
  BY <1>10 DEF Scene!PostTraverse
<1>11. ASSUME NEW n \in Scene!Node, Scene!PostCommit(n)
       PROVE  SceneTypes'
  <2>1. set' \in [Scene!Param -> 0 .. MaxChanges]
    BY <1>11 DEF Scene!PostCommit
  <2>2. committed' \in [Scene!Param -> 0 .. MaxChanges]
    BY <1>11 DEF Scene!PostCommit, Scene!OspCommit
  <2>3. clearFB' \in BOOLEAN /\ accumulated' \subseteq [Scene!Param -> 0 .. MaxChanges]
    BY <1>11 DEF Scene!PostCommit, Scene!ClearFrame
  <2>4. QED
    BY <1>11, <2>1, <2>2, <2>3 DEF Scene!PostCommit
<1>12. ASSUME NEW n \in Scene!Node, Scene!MarkAsCommitted(n)
       PROVE  SceneTypes'
  <2>1. /\ lastCommitted' \in [Scene!Node -> Nat] /\ now' = now + 1
        /\ \A m \in Scene!Node : lastCommitted'[m] = IF m = n THEN now ELSE lastCommitted[m]
    BY <1>12 DEF Scene!MarkAsCommitted
  <2>2. QED
    BY <1>12, <2>1 DEF Scene!MarkAsCommitted
<1>13. QED
  BY <1>1, <1>2, <1>3, <1>4, <1>5, <1>6, <1>7, <1>8, <1>9, <1>10, <1>11, <1>12 DEF Scene!Next

\* Only its commit gives a node the stamp of one.
LEMMA CommitStamps ==
  ASSUME SceneTypes, Scene!Next, NEW n \in Scene!Node, ~Scene!Calls("mark", n)
  PROVE  lastCommitted'[n] = lastCommitted[n]
<1> USE DEF Scene!values, Scene!stamps, Scene!appVars, Scene!frameVars, Scene!ghosts
<1>1. ASSUME NEW m \in Scene!Node, Scene!MarkAsCommitted(m)
      PROVE  lastCommitted'[n] = lastCommitted[n]
  <2>1. m # n
    BY <1>1 DEF Scene!MarkAsCommitted
  <2>2. QED
    BY <1>1, <2>1 DEF Scene!MarkAsCommitted, SceneTypes
<1>2. lastCommitted' = lastCommitted \/ \E m \in Scene!Node : Scene!MarkAsCommitted(m)
  BY DEF Scene!Next, Scene!SetValue, Scene!MarkCamera, Scene!MarkAsModified, Scene!TestStamp,
         Scene!SetChildrenModified, Scene!RenderFrame, Scene!Accumulate, Scene!PreTraverse,
         Scene!PreCommit, Scene!PostTraverse, Scene!PostCommit
<1>3. QED
  BY <1>1, <1>2

\* Whoever changes the stamps: a node that will be visited stays so until it
\* is marked as committed.
LEMMA FlagsKept ==
  ASSUME SceneTypes, Scene!Next, NEW n \in Scene!Node, lastCommitted'[n] = lastCommitted[n]
  PROVE  (Touched(n) => Touched(n)') /\ (Flagged(n) => Flagged(n)')
<1> USE DEF SceneTypes, Touched, Flagged,
            Scene!values, Scene!stamps, Scene!appVars, Scene!frameVars, Scene!ghosts
<1> DEFINE Kept == /\ Touched(n) => Touched(n)'
                   /\ Flagged(n) => Flagged(n)'
<1>1. ASSUME NEW p \in Scene!Param, Scene!SetValue(p)
      PROVE  Kept
  BY <1>1 DEF Scene!SetValue
<1>2. CASE Scene!MarkCamera
  BY <1>2 DEF Scene!MarkCamera
<1>3. CASE Scene!MarkAsModified
  <2>1. lastModified'[n] = IF n = changed THEN now ELSE lastModified[n]
    BY <1>3 DEF Scene!MarkAsModified
  <2>2. QED
    BY <1>3, <2>1 DEF Scene!MarkAsModified
<1>4. CASE Scene!TestStamp
  BY <1>4 DEF Scene!TestStamp
<1>5. CASE Scene!SetChildrenModified
  <2>1. childrenMTime'[n] = IF n = above THEN stamp ELSE childrenMTime[n]
    BY <1>5 DEF Scene!SetChildrenModified
  <2>2. QED
    BY <1>5, <2>1 DEF Scene!SetChildrenModified
<1>6. CASE Scene!RenderFrame
  BY <1>6 DEF Scene!RenderFrame
<1>7. CASE Scene!Accumulate
  BY <1>7 DEF Scene!Accumulate
<1>8. ASSUME NEW m \in Scene!Node, Scene!PreTraverse(m)
      PROVE  Kept
  BY <1>8 DEF Scene!PreTraverse
<1>9. ASSUME NEW m \in Scene!Node, Scene!PreCommit(m)
      PROVE  Kept
  <2>1. CASE m = "renderer"
    <3>1. /\ lastModified'[n] = IF n = "backplate" THEN now ELSE lastModified[n]
          /\ childrenMTime'[n] = IF n \in {"renderer", "frame"} THEN now ELSE childrenMTime[n]
          /\ UNCHANGED <<lastCommitted, appAt, above, stamp>>
      BY <1>9, <2>1 DEF Scene!PreCommit
    <3>2. QED
      BY <3>1
  <2>2. CASE m # "renderer"
    BY <1>9, <2>2 DEF Scene!PreCommit
  <2>3. QED
    BY <2>1, <2>2
<1>10. ASSUME NEW m \in Scene!Node, Scene!PostTraverse(m)
       PROVE  Kept
  BY <1>10 DEF Scene!PostTraverse
<1>11. ASSUME NEW m \in Scene!Node, Scene!PostCommit(m)
       PROVE  Kept
  BY <1>11 DEF Scene!PostCommit
<1>12. ASSUME NEW m \in Scene!Node, Scene!MarkAsCommitted(m)
       PROVE  Kept
  BY <1>12 DEF Scene!MarkAsCommitted
<1>13. QED
  BY <1>1, <1>2, <1>3, <1>4, <1>5, <1>6, <1>7, <1>8, <1>9, <1>10, <1>11, <1>12 DEF Scene!Next

\* The calls stay in the order of the recursion.
LEMMA OrderKept ==
  ASSUME InOrder(todo), Scene!Next
  PROVE  InOrder(todo)'
<1>1. CASE UNCHANGED todo
  BY <1>1 DEF InOrder
<1>2. CASE Scene!RenderFrame
  <2>1. todo' = <<<<"pre", "frame">>, <<"post", "frame">>, <<"render", "frame">>>>
    BY <1>2 DEF Scene!RenderFrame
  <2>2. {<<"pre", "frame">>, <<"post", "frame">>, <<"render", "frame">>} \subseteq CallOf
    BY DEF CallOf, Scene!Node
  <2>3. QED
    BY <2>1, <2>2 DEF InOrder, Before
<1>3. CASE todo' = <<>>
  BY <1>3 DEF InOrder
<1>4. ASSUME NEW f, NEW n, Scene!Calls(f, n), todo' = Tail(todo)
      PROVE  InOrder(todo)'
  BY <1>4, CallDone
<1>5. ASSUME NEW n \in Scene!Node, Scene!PreTraverse(n) \/ Scene!PostTraverse(n)
      PROVE  InOrder(todo)'
  BY <1>5, OpenedByPre, OpenedByPost
<1>6. \/ UNCHANGED todo \/ Scene!RenderFrame \/ todo' = <<>>
      \/ \E f, n : Scene!Calls(f, n) /\ todo' = Tail(todo)
      \/ \E n \in Scene!Node : Scene!PreTraverse(n) \/ Scene!PostTraverse(n)
  BY DEF Scene!Next, Scene!SetValue, Scene!MarkCamera, Scene!MarkAsModified, Scene!TestStamp,
         Scene!SetChildrenModified, Scene!Accumulate, Scene!PreCommit, Scene!PostCommit,
         Scene!MarkAsCommitted
<1>7. QED
  BY <1>1, <1>2, <1>3, <1>4, <1>5, <1>6

\* A frame is accumulated at most once.
LEMMA FramesKept ==
  ASSUME FramesCounted, Scene!Next
  PROVE  FramesCounted'
<1> USE DEF FramesCounted, Scene!frameVars
<1>0. MaxFrames \in Nat
  BY SceneAssumption
<1>1. CASE Scene!RenderFrame
  <2>1. todo = <<>> /\ frames < MaxFrames /\ frames' = frames + 1 /\ numAccumulatedFrames' = numAccumulatedFrames
    BY <1>1 DEF Scene!RenderFrame
  <2>2. todo' # <<>>
    BY <1>1 DEF Scene!RenderFrame
  <2>3. QED
    BY <1>0, <2>1, <2>2
<1>2. CASE Scene!Accumulate
  <2>1. /\ todo # <<>> /\ todo' = <<>> /\ frames' = frames
        /\ numAccumulatedFrames' \in {numAccumulatedFrames, numAccumulatedFrames + 1}
    BY <1>2 DEF Scene!Accumulate, Scene!Calls
  <2>2. QED
    BY <1>0, <2>1
<1>3. CASE UNCHANGED <<todo, frames, numAccumulatedFrames>>
  BY <1>3
<1>4. CASE todo # <<>> /\ frames' = frames /\ numAccumulatedFrames' \in {0, numAccumulatedFrames}
  BY <1>0, <1>4
<1>5. \/ Scene!RenderFrame \/ Scene!Accumulate
      \/ UNCHANGED <<todo, frames, numAccumulatedFrames>>
      \/ todo # <<>> /\ frames' = frames /\ numAccumulatedFrames' \in {0, numAccumulatedFrames}
  BY DEF Scene!Next, Scene!SetValue, Scene!MarkCamera, Scene!MarkAsModified, Scene!TestStamp,
         Scene!SetChildrenModified, Scene!PreTraverse, Scene!PreCommit, Scene!PostTraverse,
         Scene!PostCommit, Scene!MarkAsCommitted, Scene!Calls, Scene!ClearFrame
<1>6. QED
  BY <1>1, <1>2, <1>3, <1>4, <1>5

\* What the application changes is found by the next commit: the stamps that
\* tell of it are newer than any of a commit that is over, and no commit runs.
LEMMA FoundKept ==
  ASSUME SceneTypes, InOrder(todo), ToBeFound, Scene!Next
  PROVE  ToBeFound'
<1> USE DEF Scene!values, Scene!stamps, Scene!appVars, Scene!frameVars, Scene!ghosts
<1> SUFFICES ASSUME NEW p \in (pending \ overlapped)'
             PROVE  /\ ~Scene!Committing'
                    /\ IF changed' = p /\ appAt' # "idle" THEN OnItsWay(p)' ELSE Found(p)'
  BY DEF ToBeFound
<1>1. p \in Scene!Param /\ p \in Scene!Node /\ p \notin Inner
  BY TypesKept, ParentsAbove DEF SceneTypes
<1> DEFINE c == Scene!Parent(p)
<1>2. c \in Commits /\ c # "frame" /\ c \in Scene!Node /\ "frame" \in Scene!Node /\ Scene!Parent(c) = "frame"
  BY <1>1, ParentsAbove DEF Commits, Inner
<1> HIDE DEF c
<1>3. ASSUME ~Scene!Committing, NEW f \in {"pre", "preCommit", "post", "commit", "mark"}, NEW n,
             Scene!Calls(f, n)
      PROVE  FALSE
  <2>1. todo \in Seq(CallOf) /\ todo # <<>> /\ Head(todo) = <<f, n>>
    BY <1>3 DEF InOrder, Scene!Calls
  <2>2. 1 \in DOMAIN todo /\ todo[1] = <<f, n>>
    BY <2>1
  <2>3. QED
    BY <1>3, <2>2 DEF Scene!Committing
<1>4. ~Scene!Committing /\ Found(p) => Found(p)'
  BY <1>1, <1>2, <1>3, CommitStamps, FlagsKept DEF Found, c
<1>5. UNCHANGED todo => Scene!Committing' = Scene!Committing
  BY DEF Scene!Committing
<1>6. ASSUME NEW q \in Scene!Param, Scene!SetValue(q)
      PROVE  /\ ~Scene!Committing'
             /\ IF changed' = p /\ appAt' # "idle" THEN OnItsWay(p)' ELSE Found(p)'
  <2>1. /\ appAt = "idle" /\ appAt' = "stamp" /\ changed' = q /\ UNCHANGED todo
        /\ pending' = pending \cup {q}
        /\ overlapped' = IF Scene!Committing THEN overlapped \cup {q} ELSE overlapped \ {q}
    BY <1>6 DEF Scene!SetValue
  <2>2. CASE p = q
    BY <1>5, <2>1, <2>2 DEF OnItsWay
  <2>3. CASE p # q
    <3>1. p \in pending \ overlapped
      BY <2>1, <2>3
    <3>2. ~Scene!Committing /\ Found(p)
      BY <2>1, <3>1 DEF ToBeFound
    <3>3. QED
      BY <1>4, <1>5, <2>1, <2>3, <3>2
  <2>4. QED
    BY <2>2, <2>3
<1>7. CASE Scene!MarkCamera
  <2>1. /\ appAt = "idle" /\ changed' = "camera" /\ UNCHANGED <<todo, pending, overlapped>>
    BY <1>7 DEF Scene!MarkCamera
  <2>2. ~Scene!Committing /\ Found(p) /\ p # "camera"
    BY <1>1, <2>1 DEF ToBeFound, Inner
  <2>3. QED
    BY <1>4, <1>5, <2>1, <2>2
<1>8. CASE UNCHANGED <<todo, pending, overlapped, changed>> /\ appAt # "idle" /\ changed # p
  <2>1. ~Scene!Committing /\ Found(p)
    BY <1>8 DEF ToBeFound
  <2>2. QED
    BY <1>4, <1>5, <1>8, <2>1
<1>9. CASE /\ UNCHANGED <<todo, pending, overlapped, changed>> /\ appAt # "idle" /\ changed = p
           /\ Scene!MarkAsModified \/ Scene!TestStamp \/ Scene!SetChildrenModified
  <2>1. ~Scene!Committing /\ OnItsWay(p)
    BY <1>9 DEF ToBeFound
  <2>2. \A n \in Inner : n \in Scene!Node
    BY ParentsAbove
  <2>3. \A n \in Scene!Node : lastCommitted'[n] = lastCommitted[n] /\ (Flagged(n) => Flagged(n)')
    BY <1>3, <2>1, CommitStamps, FlagsKept
  <2>4. Touched(p) => Touched(p)'
    BY <1>1, <1>3, <2>1, CommitStamps, FlagsKept
  <2>5. /\ now \in Nat /\ \A n \in Scene!Node : childrenMTime[n] < now /\ lastCommitted[n] < now
        /\ lastModified \in [Scene!Node -> Nat] /\ childrenMTime \in [Scene!Node -> Nat]
        /\ lastCommitted \in [Scene!Node -> Nat]
        /\ stamp \in Nat /\ above \in Inner
    BY DEF SceneTypes
  <2>6. CASE Scene!MarkAsModified
    <3>1. /\ appAt = "stamp" /\ appAt' = "test" /\ lastModified' = [lastModified EXCEPT ![p] = now]
          /\ stamp' = now /\ above' = c /\ UNCHANGED <<childrenMTime, lastCommitted>>
      BY <1>9, <2>6 DEF Scene!MarkAsModified, c
    <3>2. Touched(p)'
      BY <1>1, <2>5, <3>1 DEF Touched
    <3>3. /\ \A n \in Inner : stamp' > lastCommitted'[n]
          /\ stamp' > childrenMTime'["frame"] /\ stamp' > childrenMTime'[above']
      BY <1>2, <2>2, <2>5, <3>1
    <3>4. OnItsWay(p)'
      BY <3>1, <3>2, <3>3 DEF OnItsWay, c
    <3>5. QED
      BY <1>5, <1>9, <2>1, <3>1, <3>4
  <2>7. CASE Scene!TestStamp
    <3>1. /\ appAt = "test" /\ UNCHANGED <<stamp, above, childrenMTime, lastModified, lastCommitted>>
          /\ appAt' = IF stamp > childrenMTime[above] THEN "store" ELSE "idle"
      BY <2>7 DEF Scene!TestStamp
    <3>2. /\ Touched(p)
          /\ above = c \/ (above = "frame" /\ Flagged(c))
          /\ \A n \in Inner : stamp > lastCommitted[n]
          /\ stamp > childrenMTime["frame"] /\ stamp > childrenMTime[above]
      BY <2>1, <3>1 DEF OnItsWay, c
    <3>3. appAt' = "store"
      BY <3>1, <3>2
    <3>4. above' = c \/ (above' = "frame" /\ Flagged(c)')
      BY <1>2, <2>3, <3>1, <3>2
    <3>5. OnItsWay(p)'
      BY <2>4, <3>1, <3>2, <3>3, <3>4 DEF OnItsWay, c
    <3>6. QED
      BY <1>5, <1>9, <2>1, <3>3, <3>5
  <2>8. CASE Scene!SetChildrenModified
    <3>1. /\ appAt = "store" /\ UNCHANGED <<stamp, lastModified, lastCommitted>>
          /\ childrenMTime' = [childrenMTime EXCEPT ![above] = stamp]
          /\ IF above = "frame" THEN appAt' = "idle" ELSE appAt' = "test" /\ above' = Scene!Parent(above)
      BY <2>8 DEF Scene!SetChildrenModified
    <3>2. /\ Touched(p)
          /\ above = c \/ (above = "frame" /\ Flagged(c))
          /\ \A n \in Inner : stamp > lastCommitted[n]
          /\ stamp > childrenMTime["frame"] /\ stamp > childrenMTime[above]
      BY <2>1, <3>1 DEF OnItsWay, c
    <3>3. Touched(p)'
      BY <2>4, <3>2
    <3>4. appAt' # "store" /\ childrenMTime'[above] = stamp /\ lastCommitted'[above] = lastCommitted[above]
      BY <2>2, <2>3, <2>5, <3>1
    <3>5. childrenMTime'[above] > lastCommitted'[above]
      BY <2>5, <3>2, <3>4
    <3>6. CASE above = "frame"
      <4>1. Flagged("frame")'
        BY <3>4, <3>5, <3>6 DEF Flagged
      <4>2. Flagged(c)'
        BY <1>2, <2>3, <3>2, <3>6
      <4>3. Found(p)'
        BY <3>3, <4>1, <4>2 DEF Found, c
      <4>4. QED
        BY <1>5, <1>9, <2>1, <3>1, <3>6, <4>3
    <3>7. CASE above # "frame"
      <4>1. above = c /\ above' = "frame" /\ appAt' = "test"
        BY <1>2, <3>1, <3>2, <3>7
      <4>2. Flagged(c)'
        BY <3>4, <3>5, <4>1 DEF Flagged
      <4>3. childrenMTime'["frame"] = childrenMTime["frame"]
        BY <1>2, <2>5, <3>1, <4>1
      <4>4. OnItsWay(p)'
        BY <3>1, <3>2, <3>3, <4>1, <4>2, <4>3 DEF OnItsWay, c
      <4>5. QED
        BY <1>5, <1>9, <2>1, <4>1, <4>4
    <3>8. QED
      BY <3>6, <3>7
  <2>9. QED
    BY <1>9, <2>6, <2>7, <2>8
<1>10. ~Scene!RenderFrame
  BY DEF Scene!RenderFrame
<1>11. CASE Scene!Accumulate
  <2>1. /\ todo' = <<>> /\ UNCHANGED <<pending, overlapped, changed, appAt, above, stamp,
                                       lastModified, childrenMTime, lastCommitted>>
    BY <1>11 DEF Scene!Accumulate
  <2>2. ~Scene!Committing /\ IF changed = p /\ appAt # "idle" THEN OnItsWay(p) ELSE Found(p)
    BY <2>1 DEF ToBeFound
  <2>3. ~Scene!Committing'
    BY <2>1 DEF Scene!Committing
  <2>4. QED
    BY <2>1, <2>2, <2>3 DEF OnItsWay, Found, Touched, Flagged
<1>12. ASSUME NEW n \in Scene!Node,
              Scene!PreTraverse(n) \/ Scene!PreCommit(n) \/ Scene!PostTraverse(n)
                \/ Scene!PostCommit(n) \/ Scene!MarkAsCommitted(n)
       PROVE  FALSE
  <2>1. UNCHANGED <<pending, overlapped>>
    BY <1>12 DEF Scene!PreTraverse, Scene!PreCommit, Scene!PostTraverse, Scene!PostCommit,
                 Scene!MarkAsCommitted
  <2>2. ~Scene!Committing
    BY <2>1 DEF ToBeFound
  <2>3. \E f \in {"pre", "preCommit", "post", "commit", "mark"} : Scene!Calls(f, n)
    BY <1>12 DEF Scene!PreTraverse, Scene!PreCommit, Scene!PostTraverse, Scene!PostCommit,
                 Scene!MarkAsCommitted
  <2>4. QED
    BY <1>3, <2>2, <2>3
<1>13. Scene!MarkAsModified \/ Scene!TestStamp \/ Scene!SetChildrenModified =>
         UNCHANGED <<todo, pending, overlapped, changed>> /\ appAt # "idle"
  BY DEF Scene!MarkAsModified, Scene!TestStamp, Scene!SetChildrenModified
<1>14. QED
  BY <1>6, <1>7, <1>8, <1>9, <1>10, <1>11, <1>12, <1>13 DEF Scene!Next

\* The steps that make or end no call of the commit.
LEMMA OtherSteps ==
  ASSUME Scene!Next
  PROVE  \/ UNCHANGED <<todo, set, committed, accumulated, clearFB, lastCommitted>>
         \/ Scene!RenderFrame \/ Scene!Accumulate
         \/ \E n \in Scene!Node :
              Scene!PreTraverse(n) \/ Scene!PreCommit(n) \/ Scene!PostTraverse(n)
                \/ Scene!PostCommit(n) \/ Scene!MarkAsCommitted(n)
  BY DEF Scene!Next, Scene!SetValue, Scene!MarkCamera, Scene!MarkAsModified, Scene!TestStamp,
         Scene!SetChildrenModified, Scene!values, Scene!stamps, Scene!frameVars

\* Outside of a commit there are none of its calls.
LEMMA Outside ==
  ASSUME InOrder(todo), Scene!RenderFrame \/ Scene!Accumulate,
         NEW f \in {"pre", "preCommit", "post", "commit", "mark"}, NEW n
  PROVE  ~Open(f, n)
<1>1. CASE Scene!RenderFrame
  BY <1>1 DEF Scene!RenderFrame, Open, Holds
<1>2. CASE Scene!Accumulate
  <2>1. Scene!Calls("render", "frame")
    BY <1>2 DEF Scene!Accumulate
  <2>2. /\ \A x : Holds(todo, x) <=> x = <<"render", "frame">> \/ Holds(Tail(todo), x)
        /\ \A x : Holds(Tail(todo), x) => Before(<<"render", "frame">>, x)
    BY <2>1, NextCall
  <2>3. QED
    BY <2>2 DEF Before, Open
<1>3. QED
  BY <1>1, <1>2

\* What a commit has to set is set, or the call that does it is still to come.
LEMMA SetKept ==
  ASSUME SceneTypes, InOrder(todo), Scene!Next, NEW p \in Scene!Param, WillSet(p), value'[p] = value[p]
  PROVE  WillSet(p)'
<1> USE DEF Scene!values, Scene!stamps, Scene!appVars, Scene!frameVars, Scene!ghosts
<1> DEFINE c == Scene!Parent(p)
<1>1. /\ p \in Scene!Node /\ p \notin Inner /\ c \in Commits /\ c \in Scene!Node /\ "frame" \in Scene!Node
      /\ p # c /\ p # "frame" /\ c # "frame"
  BY ParentsAbove DEF Commits, Inner
<1>2. p \in Kids(c) /\ c \in Kids("frame") /\ Above(c, p) /\ Above("frame", p) /\ Above("frame", c)
  BY <1>1, Tree DEF Scene!Param, Kids, Commits, Above, Inner
<1>3. /\ lastCommitted'[p] = lastCommitted[p] => (Touched(p) => Touched(p)')
      /\ lastCommitted'[c] = lastCommitted[c] => (Flagged(c) => Flagged(c)')
      /\ lastCommitted'["frame"] = lastCommitted["frame"] => (Flagged("frame") => Flagged("frame")')
  BY <1>1, FlagsKept
<1>4. \/ set[p] = value[p]
      \/ Open("commit", p)
      \/ /\ Touched(p)
         /\ \/ Open("post", p)
            \/ Open("pre", c) /\ Flagged(c)
            \/ Open("pre", "frame") /\ Flagged("frame") /\ Flagged(c)
  BY DEF WillSet
<1>5. ASSUME \/ set'[p] = value'[p]
             \/ Open("commit", p)'
             \/ /\ Touched(p)'
                /\ \/ Open("post", p)'
                   \/ Open("pre", c)' /\ Flagged(c)'
                   \/ Open("pre", "frame")' /\ Flagged("frame")' /\ Flagged(c)'
      PROVE  WillSet(p)'
  BY <1>5 DEF WillSet
<1> HIDE DEF c
<1>6. CASE UNCHANGED <<todo, set, committed, accumulated, clearFB, lastCommitted>>
  <2>1. \A f, n : Open(f, n)' <=> Open(f, n)
    BY <1>6 DEF Open, Holds
  <2>2. QED
    BY <1>3, <1>4, <1>5, <1>6, <2>1
<1>7. CASE Scene!RenderFrame \/ Scene!Accumulate
  <2>1. set[p] = value[p]
    BY <1>4, <1>7, Outside
  <2>2. set' = set
    BY <1>7 DEF Scene!RenderFrame, Scene!Accumulate
  <2>3. QED
    BY <1>5, <2>1, <2>2
<1>8. ASSUME NEW n \in Scene!Node, Scene!PreTraverse(n)
      PROVE  WillSet(p)'
  <2>1. set' = set /\ lastCommitted' = lastCommitted
    BY <1>8 DEF Scene!PreTraverse
  <2>2. /\ \A f, m : Open(f, m) => <<f, m>> = <<"pre", n>> \/ Open(f, m)'
        /\ Scene!SubtreeModifiedButNotCommitted(n) =>
             \A m \in Kids(n) : Open("pre", m)' /\ Open("post", m)'
    BY <1>8, OpenedByPre DEF Open
  <2>3. Flagged(n) => Scene!SubtreeModifiedButNotCommitted(n)
    BY DEF Flagged, Touched, Scene!SubtreeModifiedButNotCommitted
  <2>4. QED
    BY <1>1, <1>2, <1>3, <1>4, <1>5, <2>1, <2>2, <2>3
<1>9. ASSUME NEW n \in Scene!Node, Scene!PreCommit(n)
      PROVE  WillSet(p)'
  <2>1. set' = set /\ lastCommitted' = lastCommitted /\ Scene!Calls("preCommit", n) /\ todo' = Tail(todo)
    BY <1>9 DEF Scene!PreCommit
  <2>2. \A f, m : Open(f, m) => <<f, m>> = <<"preCommit", n>> \/ Open(f, m)'
    BY <2>1, CallDone DEF Open
  <2>3. QED
    BY <1>3, <1>4, <1>5, <2>1, <2>2
<1>10. ASSUME NEW n \in Scene!Node, Scene!PostTraverse(n)
       PROVE  WillSet(p)'
  <2>1. set' = set /\ lastCommitted' = lastCommitted
    BY <1>10 DEF Scene!PostTraverse
  <2>2. /\ \A f, m : Open(f, m) => <<f, m>> = <<"post", n>> \/ Open(f, m)'
        /\ Scene!SubtreeModifiedButNotCommitted(n) => Open("commit", n)'
    BY <1>10, OpenedByPost DEF Open
  <2>3. Touched(n) => Scene!SubtreeModifiedButNotCommitted(n)
    BY DEF Touched, Scene!SubtreeModifiedButNotCommitted
  <2>4. QED
    BY <1>1, <1>3, <1>4, <1>5, <2>1, <2>2, <2>3
<1>11. ASSUME NEW n \in Scene!Node, Scene!PostCommit(n)
       PROVE  WillSet(p)'
  <2>1. /\ lastCommitted' = lastCommitted /\ Scene!Calls("commit", n) /\ todo' = Tail(todo)
        /\ set' = IF n \in Scene!Param THEN [set EXCEPT ![n] = value[n]] ELSE set
    BY <1>11 DEF Scene!PostCommit
  <2>2. \A f, m : Open(f, m) => <<f, m>> = <<"commit", n>> \/ Open(f, m)'
    BY <2>1, CallDone DEF Open
  <2>3. IF n = p THEN set'[p] = value[p] ELSE set'[p] = set[p]
    BY <2>1 DEF SceneTypes
  <2>4. QED
    BY <1>3, <1>4, <1>5, <2>1, <2>2, <2>3
<1>12. ASSUME NEW n \in Scene!Node, Scene!MarkAsCommitted(n)
       PROVE  WillSet(p)'
  <2>1. /\ set' = set /\ Scene!Calls("mark", n) /\ todo' = Tail(todo)
        /\ \A m \in Scene!Node : m # n => lastCommitted'[m] = lastCommitted[m]
    BY <1>12 DEF Scene!MarkAsCommitted, SceneTypes
  <2>2. \A f, m : Open(f, m) => <<f, m>> = <<"mark", n>> \/ (Open(f, m)' /\ Holds(Tail(todo), <<f, m>>))
    BY <2>1, CallDone DEF Open
  <2>3. \A f, m : Holds(Tail(todo), <<f, m>>) =>
                    /\ f \in {"pre", "post"} => m # n /\ ~Above(n, m)
                    /\ f = "pre" => ~Above(m, n)
    BY <2>1, WhenCommitted
  <2>4. QED
    BY <1>1, <1>2, <1>3, <1>4, <1>5, <2>1, <2>2, <2>3
<1>13. QED
  BY <1>6, <1>7, <1>8, <1>9, <1>10, <1>11, <1>12, OtherSteps

\* An object is committed after all of its values are set.
LEMMA CommitKept ==
  ASSUME SceneTypes, InOrder(todo), Scene!Next, NEW p \in Scene!Param, WillSet(p), WillCommit(p), value'[p] = value[p]
  PROVE  WillCommit(p)'
<1> USE DEF Scene!values, Scene!stamps, Scene!appVars, Scene!frameVars, Scene!ghosts
<1> DEFINE c == Scene!Parent(p)
<1>1. /\ p \in Scene!Node /\ p \notin Inner /\ c \in Commits /\ c \in Scene!Node /\ "frame" \in Scene!Node
      /\ p # c /\ p # "frame" /\ c # "frame"
  BY ParentsAbove DEF Commits, Inner
<1>2. p \in Kids(c) /\ c \in Kids("frame") /\ Above(c, p) /\ Above("frame", p) /\ Above("frame", c)
  BY <1>1, Tree DEF Scene!Param, Kids, Commits, Above, Inner
<1>3. /\ lastCommitted'[p] = lastCommitted[p] => (Touched(p) => Touched(p)')
      /\ lastCommitted'[c] = lastCommitted[c] => (Flagged(c) => Flagged(c)')
      /\ lastCommitted'["frame"] = lastCommitted["frame"] => (Flagged("frame") => Flagged("frame")')
  BY <1>1, FlagsKept
<1>4. \/ committed[p] = value[p]
      \/ Open("commit", c)
      \/ Flagged(c) /\ (Open("post", c) \/ (Open("pre", "frame") /\ Flagged("frame")))
  BY DEF WillCommit
<1>5. ASSUME \/ committed'[p] = value'[p]
             \/ Open("commit", c)'
             \/ Flagged(c)' /\ (Open("post", c)' \/ (Open("pre", "frame")' /\ Flagged("frame")'))
      PROVE  WillCommit(p)'
  BY <1>5 DEF WillCommit
<1> HIDE DEF c
<1>6. CASE UNCHANGED <<todo, set, committed, accumulated, clearFB, lastCommitted>>
  <2>1. \A f, n : Open(f, n)' <=> Open(f, n)
    BY <1>6 DEF Open, Holds
  <2>2. QED
    BY <1>3, <1>4, <1>5, <1>6, <2>1
<1>7. CASE Scene!RenderFrame \/ Scene!Accumulate
  <2>1. committed[p] = value[p]
    BY <1>4, <1>7, Outside
  <2>2. committed' = committed
    BY <1>7 DEF Scene!RenderFrame, Scene!Accumulate
  <2>3. QED
    BY <1>5, <2>1, <2>2
<1>8. ASSUME NEW n \in Scene!Node, Scene!PreTraverse(n)
      PROVE  WillCommit(p)'
  <2>1. committed' = committed /\ lastCommitted' = lastCommitted
    BY <1>8 DEF Scene!PreTraverse
  <2>2. /\ \A f, m : Open(f, m) => <<f, m>> = <<"pre", n>> \/ Open(f, m)'
        /\ Scene!SubtreeModifiedButNotCommitted(n) =>
             \A m \in Kids(n) : Open("pre", m)' /\ Open("post", m)'
    BY <1>8, OpenedByPre DEF Open
  <2>3. Flagged(n) => Scene!SubtreeModifiedButNotCommitted(n)
    BY DEF Flagged, Touched, Scene!SubtreeModifiedButNotCommitted
  <2>4. QED
    BY <1>1, <1>2, <1>3, <1>4, <1>5, <2>1, <2>2, <2>3
<1>9. ASSUME NEW n \in Scene!Node, Scene!PreCommit(n)
      PROVE  WillCommit(p)'
  <2>1. committed' = committed /\ lastCommitted' = lastCommitted /\ Scene!Calls("preCommit", n) /\ todo' = Tail(todo)
    BY <1>9 DEF Scene!PreCommit
  <2>2. \A f, m : Open(f, m) => <<f, m>> = <<"preCommit", n>> \/ Open(f, m)'
    BY <2>1, CallDone DEF Open
  <2>3. QED
    BY <1>3, <1>4, <1>5, <2>1, <2>2
<1>10. ASSUME NEW n \in Scene!Node, Scene!PostTraverse(n)
       PROVE  WillCommit(p)'
  <2>1. committed' = committed /\ lastCommitted' = lastCommitted
    BY <1>10 DEF Scene!PostTraverse
  <2>2. /\ \A f, m : Open(f, m) => <<f, m>> = <<"post", n>> \/ Open(f, m)'
        /\ Scene!SubtreeModifiedButNotCommitted(n) => Open("commit", n)'
    BY <1>10, OpenedByPost DEF Open
  <2>3. Flagged(n) => Scene!SubtreeModifiedButNotCommitted(n)
    BY DEF Flagged, Touched, Scene!SubtreeModifiedButNotCommitted
  <2>4. QED
    BY <1>1, <1>3, <1>4, <1>5, <2>1, <2>2, <2>3
<1>11. ASSUME NEW n \in Scene!Node, Scene!PostCommit(n)
       PROVE  WillCommit(p)'
  <2>1. /\ lastCommitted' = lastCommitted /\ Scene!Calls("commit", n) /\ todo' = Tail(todo)
        /\ n = "camera" => committed' = [q \in Scene!Param |-> IF q \in CameraParam THEN set[q] ELSE committed[q]]
        /\ n = "renderer" => committed' = [q \in Scene!Param |-> IF q \in RendererParam THEN set[q] ELSE committed[q]]
        /\ n \notin Commits => committed' = committed
    BY <1>11 DEF Scene!PostCommit, Scene!OspCommit, Commits
  <2>2. \A f, m : Open(f, m) => <<f, m>> = <<"commit", n>> \/ (Open(f, m)' /\ Holds(Tail(todo), <<f, m>>))
    BY <2>1, CallDone DEF Open
  <2>3. \A f, m : Holds(Tail(todo), <<f, m>>) =>
                    /\ f # "commit"
                    /\ f \in {"pre", "post"} => m # n /\ ~Above(n, m)
                    /\ f = "pre" => ~Above(m, n)
    BY <2>1, WhenCommitted
  <2>4. CASE n = c
    <3>1. set[p] = value[p]
      BY <1>1, <1>2, <2>2, <2>3, <2>4 DEF WillSet, c
    <3>2. committed'[p] = set[p]
      BY <1>1, <2>1, <2>4, Tree DEF Scene!Param, Commits, c
    <3>3. QED
      BY <1>5, <3>1, <3>2
  <2>5. CASE n # c
    <3>1. committed'[p] = committed[p]
      BY <1>1, <2>1, <2>5, Tree DEF Scene!Param, Commits, c
    <3>2. QED
      BY <1>3, <1>4, <1>5, <2>1, <2>2, <2>5, <3>1
  <2>6. QED
    BY <2>4, <2>5
<1>12. ASSUME NEW n \in Scene!Node, Scene!MarkAsCommitted(n)
       PROVE  WillCommit(p)'
  <2>1. /\ committed' = committed /\ Scene!Calls("mark", n) /\ todo' = Tail(todo)
        /\ \A m \in Scene!Node : m # n => lastCommitted'[m] = lastCommitted[m]
    BY <1>12 DEF Scene!MarkAsCommitted, SceneTypes
  <2>2. \A f, m : Open(f, m) => <<f, m>> = <<"mark", n>> \/ (Open(f, m)' /\ Holds(Tail(todo), <<f, m>>))
    BY <2>1, CallDone DEF Open
  <2>3. \A f, m : Holds(Tail(todo), <<f, m>>) =>
                    /\ f \in {"pre", "post"} => m # n /\ ~Above(n, m)
                    /\ f = "pre" => ~Above(m, n)
    BY <2>1, WhenCommitted
  <2>4. QED
    BY <1>1, <1>2, <1>3, <1>4, <1>5, <2>1, <2>2, <2>3
<1>13. QED
  BY <1>6, <1>7, <1>8, <1>9, <1>10, <1>11, <1>12, OtherSteps

\* The first call for a node is followed by nothing that commits it.
LEMMA PreFirst ==
  ASSUME InOrder(todo), NEW n, Scene!Calls("pre", n)
  PROVE  ~Open("commit", n)
<1>1. /\ \A x : Holds(todo, x) <=> x = <<"pre", n>> \/ Holds(Tail(todo), x)
      /\ \A x : Holds(Tail(todo), x) => Before(<<"pre", n>>, x)
  BY NextCall
<1>2. ~Before(<<"pre", n>>, <<"commit", n>>)
  BY DEF Before
<1>3. QED
  BY <1>1, <1>2 DEF Open

\* What was accumulated before a change is cleared by the commit of it.
LEMMA ShowKept ==
  ASSUME SceneTypes, InOrder(todo), Scene!Next, NEW p \in Scene!Param, WillCommit(p), WillShow(p), value'[p] = value[p]
  PROVE  WillShow(p)'
<1> USE DEF Scene!values, Scene!stamps, Scene!appVars, Scene!frameVars, Scene!ghosts
<1> DEFINE c == Scene!Parent(p)
<1>1. /\ p \in Scene!Node /\ p \notin Inner /\ c \in Commits /\ c \in Scene!Node /\ "frame" \in Scene!Node
      /\ p # c /\ p # "frame" /\ c # "frame"
  BY ParentsAbove DEF Commits, Inner
<1>2. p \in Kids(c) /\ c \in Kids("frame") /\ Above(c, p) /\ Above("frame", p) /\ Above("frame", c)
  BY <1>1, Tree DEF Scene!Param, Kids, Commits, Above, Inner
<1>3. /\ lastCommitted'[p] = lastCommitted[p] => (Touched(p) => Touched(p)')
      /\ lastCommitted'[c] = lastCommitted[c] => (Flagged(c) => Flagged(c)')
      /\ lastCommitted'["frame"] = lastCommitted["frame"] => (Flagged("frame") => Flagged("frame")')
  BY <1>1, FlagsKept
<1>4. \/ \A shown \in accumulated : shown[p] = value[p]
      \/ /\ Open("commit", "frame") \/ (Open("post", "frame") /\ Flagged("frame"))
         /\ Open("pre", "frame") \/ Open("preCommit", "frame") => Flagged(c)
         /\ ~(Open("pre", "frame") \/ Open("preCommit", "frame")) => clearFB
  BY DEF WillShow
<1>5. ASSUME \/ \A shown \in accumulated' : shown[p] = value'[p]
             \/ /\ Open("commit", "frame")' \/ (Open("post", "frame")' /\ Flagged("frame")')
                /\ Open("pre", "frame")' \/ Open("preCommit", "frame")' => Flagged(c)'
                /\ ~(Open("pre", "frame")' \/ Open("preCommit", "frame")') => clearFB'
      PROVE  WillShow(p)'
  BY <1>5 DEF WillShow
<1> HIDE DEF c
<1>6. CASE UNCHANGED <<todo, set, committed, accumulated, clearFB, lastCommitted>>
  <2>1. \A f, n : Open(f, n)' <=> Open(f, n)
    BY <1>6 DEF Open, Holds
  <2>2. QED
    BY <1>3, <1>4, <1>5, <1>6, <2>1
<1>7. CASE Scene!RenderFrame \/ Scene!Accumulate
  <2>1. committed[p] = value[p] /\ \A shown \in accumulated : shown[p] = value[p]
    BY <1>4, <1>7, Outside DEF WillCommit
  <2>2. accumulated' \in {accumulated, accumulated \cup {committed}}
    BY <1>7 DEF Scene!RenderFrame, Scene!Accumulate
  <2>3. QED
    BY <1>5, <2>1, <2>2
<1>8. ASSUME NEW n \in Scene!Node, Scene!PreTraverse(n)
      PROVE  WillShow(p)'
  <2>1. UNCHANGED <<accumulated, clearFB, lastCommitted>>
    BY <1>8 DEF Scene!PreTraverse
  <2>2. /\ \A f, m : Open(f, m) => <<f, m>> = <<"pre", n>> \/ Open(f, m)'
        /\ Scene!SubtreeModifiedButNotCommitted(n) => Open("preCommit", n)'
        /\ \A f, m : Open(f, m)' =>
             \/ Open(f, m) \/ <<f, m>> = <<"preCommit", n>>
             \/ \E k \in Kids(n) : <<f, m>> \in {<<"pre", k>>, <<"post", k>>}
    BY <1>8, OpenedByPre DEF Open
  <2>3. \A k \in Kids(n) : k # "frame"
    BY SceneAssumption DEF Kids
  <2>4. /\ Open("pre", "frame")' => Open("pre", "frame")
        /\ Open("preCommit", "frame")' => Open("preCommit", "frame") \/ n = "frame"
    BY <2>2, <2>3
  <2>5. n = "frame" => Open("pre", "frame")
    BY <1>8, NextCall DEF Scene!PreTraverse, Open
  <2>6. Flagged(n) => Scene!SubtreeModifiedButNotCommitted(n)
    BY DEF Flagged, Touched, Scene!SubtreeModifiedButNotCommitted
  <2>7. CASE \A shown \in accumulated : shown[p] = value[p]
    BY <1>5, <2>1, <2>7
  <2>8. CASE ~(\A shown \in accumulated : shown[p] = value[p])
    <3>1. Open("commit", "frame")' \/ (Open("post", "frame")' /\ Flagged("frame")')
      BY <1>3, <1>4, <2>1, <2>2, <2>8
    <3>2. Open("pre", "frame")' \/ Open("preCommit", "frame")' => Flagged(c)'
      BY <1>3, <1>4, <2>1, <2>4, <2>5, <2>8
    <3>3. ~(Open("pre", "frame")' \/ Open("preCommit", "frame")') => clearFB'
      <4> SUFFICES ASSUME ~(Open("pre", "frame")' \/ Open("preCommit", "frame")')
                   PROVE  clearFB'
        OBVIOUS
      <4>1. ~Open("preCommit", "frame") /\ (Open("pre", "frame") => n = "frame")
        BY <2>2
      <4>2. CASE n # "frame"
        BY <1>4, <2>1, <2>8, <4>1, <4>2
      <4>3. CASE n = "frame"
        <5>1. ~Open("commit", "frame")
          BY <1>8, <4>3, PreFirst DEF Scene!PreTraverse
        <5>2. Flagged("frame")
          BY <1>4, <2>8, <5>1
        <5>3. QED
          BY <2>2, <2>6, <4>3, <5>2
      <4>4. QED
        BY <4>2, <4>3
    <3>4. QED
      BY <1>5, <3>1, <3>2, <3>3
  <2>9. QED
    BY <2>7, <2>8
<1>9. ASSUME NEW n \in Scene!Node, Scene!PreCommit(n)
      PROVE  WillShow(p)'
  <2>1. /\ UNCHANGED <<accumulated, lastCommitted>> /\ Scene!Calls("preCommit", n) /\ todo' = Tail(todo)
        /\ clearFB' = IF n = "frame" THEN Scene!Outdated ELSE clearFB
    BY <1>9 DEF Scene!PreCommit
  <2>2. /\ \A f, m : Open(f, m) => <<f, m>> = <<"preCommit", n>> \/ Open(f, m)'
        /\ \A f, m : Open(f, m)' => Open(f, m)
    BY <2>1, CallDone DEF Open
  <2>3. n = "frame" => Open("preCommit", "frame")
    BY <2>1, NextCall DEF Open
  <2>4. Flagged(c) => Scene!Outdated
    BY <1>1 DEF Flagged, Touched, Scene!SubtreeModifiedButNotCommitted, Scene!Outdated, Commits
  <2>5. QED
    BY <1>3, <1>4, <1>5, <2>1, <2>2, <2>3, <2>4
<1>10. ASSUME NEW n \in Scene!Node, Scene!PostTraverse(n)
       PROVE  WillShow(p)'
  <2>1. UNCHANGED <<accumulated, clearFB, lastCommitted>>
    BY <1>10 DEF Scene!PostTraverse
  <2>2. /\ \A f, m : Open(f, m) => <<f, m>> = <<"post", n>> \/ Open(f, m)'
        /\ Scene!SubtreeModifiedButNotCommitted(n) => Open("commit", n)'
        /\ \A f, m : Open(f, m)' => Open(f, m) \/ f \in {"commit", "mark"}
    BY <1>10, OpenedByPost DEF Open
  <2>3. Flagged(n) => Scene!SubtreeModifiedButNotCommitted(n)
    BY DEF Flagged, Touched, Scene!SubtreeModifiedButNotCommitted
  <2>4. QED
    BY <1>3, <1>4, <1>5, <2>1, <2>2, <2>3
<1>11. ASSUME NEW n \in Scene!Node, Scene!PostCommit(n)
       PROVE  WillShow(p)'
  <2>1. /\ lastCommitted' = lastCommitted /\ Scene!Calls("commit", n) /\ todo' = Tail(todo)
        /\ n # "frame" => UNCHANGED <<accumulated, clearFB>>
        /\ n = "frame" => IF clearFB THEN accumulated' = {} ELSE UNCHANGED <<accumulated, clearFB>>
    BY <1>11 DEF Scene!PostCommit, Scene!ClearFrame
  <2>2. /\ \A f, m : Open(f, m) => <<f, m>> = <<"commit", n>> \/ (Open(f, m)' /\ Holds(Tail(todo), <<f, m>>))
        /\ \A f, m : Open(f, m)' => Open(f, m)
    BY <2>1, CallDone DEF Open
  <2>3. \A f, m : Holds(Tail(todo), <<f, m>>) =>
                    /\ f # "preCommit"
                    /\ f \in {"pre", "post"} => m # n
    BY <2>1, WhenCommitted
  <2>4. CASE n = "frame"
    BY <1>4, <1>5, <2>1, <2>2, <2>3, <2>4
  <2>5. CASE n # "frame"
    <3>1. UNCHANGED <<accumulated, clearFB>> /\ (Flagged("frame") => Flagged("frame")') /\ (Flagged(c) => Flagged(c)')
      BY <1>3, <2>1, <2>5
    <3>2. /\ Open("commit", "frame") => Open("commit", "frame")'
          /\ Open("post", "frame") => Open("post", "frame")'
          /\ Open("pre", "frame") <=> Open("pre", "frame")'
          /\ Open("preCommit", "frame") <=> Open("preCommit", "frame")'
      BY <2>2, <2>5
    <3>3. CASE \A shown \in accumulated : shown[p] = value[p]
      BY <1>5, <3>1, <3>3
    <3>4. CASE ~(\A shown \in accumulated : shown[p] = value[p])
      BY <1>4, <1>5, <3>1, <3>2, <3>4
    <3>5. QED
      BY <3>3, <3>4
  <2>6. QED
    BY <2>4, <2>5
<1>12. ASSUME NEW n \in Scene!Node, Scene!MarkAsCommitted(n)
       PROVE  WillShow(p)'
  <2>1. /\ UNCHANGED <<accumulated, clearFB>> /\ Scene!Calls("mark", n) /\ todo' = Tail(todo)
        /\ \A m \in Scene!Node : m # n => lastCommitted'[m] = lastCommitted[m]
    BY <1>12 DEF Scene!MarkAsCommitted, SceneTypes
  <2>2. /\ \A f, m : Open(f, m) => <<f, m>> = <<"mark", n>> \/ (Open(f, m)' /\ Holds(Tail(todo), <<f, m>>))
        /\ \A f, m : Open(f, m)' => Open(f, m)
    BY <2>1, CallDone DEF Open
  <2>3. \A f, m : Holds(Tail(todo), <<f, m>>) =>
                    /\ f # "preCommit"
                    /\ f \in {"pre", "post"} => m # n
                    /\ f = "pre" => ~Above(m, n)
    BY <2>1, WhenCommitted
  <2>4. CASE \A shown \in accumulated : shown[p] = value[p]
    BY <1>5, <2>1, <2>4
  <2>5. CASE ~(\A shown \in accumulated : shown[p] = value[p])
    <3>1. Open("commit", "frame")' \/ (Open("post", "frame")' /\ Flagged("frame")')
      BY <1>1, <1>3, <1>4, <2>1, <2>2, <2>3, <2>5
    <3>2. Open("pre", "frame")' \/ Open("preCommit", "frame")' => Flagged(c)'
      <4>1. CASE n = c
        BY <1>2, <2>2, <2>3, <4>1
      <4>2. CASE n # c
        BY <1>1, <1>3, <1>4, <2>1, <2>2, <2>5, <4>2
      <4>3. QED
        BY <4>1, <4>2
    <3>3. ~(Open("pre", "frame")' \/ Open("preCommit", "frame")') => clearFB'
      BY <1>4, <2>1, <2>2, <2>5
    <3>4. QED
      BY <1>5, <3>1, <3>2, <3>3
  <2>6. QED
    BY <2>4, <2>5
<1>13. QED
  BY <1>6, <1>7, <1>8, <1>9, <1>10, <1>11, <1>12, OtherSteps

\* A value is committed, and outdates what was accumulated, in the first
\* commit that begins after its change.
LEMMA CommitsKept ==
  ASSUME SceneIInv, Scene!Next
  PROVE  BeingCommitted'
<1> SUFFICES ASSUME NEW p \in Scene!Param, p \notin pending', p \notin overlapped'
             PROVE  WillSet(p)' /\ WillCommit(p)' /\ WillShow(p)'
  BY DEF BeingCommitted
<1>1. CASE p \notin pending /\ p \notin overlapped
  <2>1. WillSet(p) /\ WillCommit(p) /\ WillShow(p)
    BY <1>1 DEF SceneIInv, BeingCommitted
  <2>2. value'[p] = value[p]
    <3>1. ASSUME NEW q \in Scene!Param, Scene!SetValue(q)
          PROVE  value'[p] = value[p]
      <4>1. q # p
        BY <3>1 DEF Scene!SetValue
      <4>2. QED
        BY <3>1, <4>1 DEF Scene!SetValue, SceneIInv, SceneTypes
    <3>2. value' = value \/ \E q \in Scene!Param : Scene!SetValue(q)
      BY DEF Scene!Next, Scene!values, Scene!MarkCamera, Scene!MarkAsModified, Scene!TestStamp,
             Scene!SetChildrenModified, Scene!RenderFrame, Scene!Accumulate, Scene!PreTraverse,
             Scene!PreCommit, Scene!PostTraverse, Scene!PostCommit, Scene!MarkAsCommitted
    <3>3. QED
      BY <3>1, <3>2
  <2>3. QED
    BY <2>1, <2>2, SetKept, CommitKept, ShowKept DEF SceneIInv
<1>2. CASE p \in pending \/ p \in overlapped
  <2>1. Scene!RenderFrame
    <3>1. UNCHANGED <<pending, overlapped>> \/ Scene!RenderFrame \/ \E q \in Scene!Param : Scene!SetValue(q)
      BY DEF Scene!Next, Scene!ghosts, Scene!MarkCamera, Scene!MarkAsModified, Scene!TestStamp,
             Scene!SetChildrenModified, Scene!Accumulate, Scene!PreTraverse,
             Scene!PreCommit, Scene!PostTraverse, Scene!PostCommit, Scene!MarkAsCommitted
    <3>2. ASSUME NEW q \in Scene!Param, Scene!SetValue(q)
          PROVE  FALSE
      BY <1>2, <3>2 DEF Scene!SetValue
    <3>3. QED
      BY <1>2, <3>1, <3>2
  <2>2. /\ todo' = <<<<"pre", "frame">>, <<"post", "frame">>, <<"render", "frame">>>>
        /\ overlapped' = IF appAt = "idle" THEN overlapped ELSE overlapped \cup ({changed} \cap Scene!Param)
        /\ UNCHANGED <<lastModified, childrenMTime, lastCommitted, changed, appAt, above, stamp>>
    BY <2>1 DEF Scene!RenderFrame, Scene!stamps, Scene!appVars
  <2>3. p \in pending \ overlapped /\ ~(changed = p /\ appAt # "idle")
    BY <1>2, <2>2
  <2>4. Found(p)
    BY <2>3 DEF SceneIInv, ToBeFound
  <2>5. Found(p)'
    BY <2>2, <2>4 DEF Found, Touched, Flagged
  <2>6. Open("pre", "frame")' /\ Open("post", "frame")'
    <3>1. todo'[1] = <<"pre", "frame">> /\ todo'[2] = <<"post", "frame">> /\ {1, 2} \subseteq 1 .. Len(todo')
      BY <2>2
    <3>2. QED
      BY <3>1 DEF Open, Holds
  <2>7. QED
    BY <2>5, <2>6 DEF Found, WillSet, WillCommit, WillShow
<1>3. QED
  BY <1>1, <1>2

\* Every step of the scene graph keeps its invariant.
LEMMA NextScene ==
  SceneIInv /\ [Scene!Next]_sceneVars => SceneIInv'
<1>1. ASSUME SceneIInv, Scene!Next
      PROVE  SceneIInv'
  BY <1>1, TypesKept, FramesKept, OrderKept, FoundKept, CommitsKept DEF SceneIInv
<1>2. ASSUME SceneIInv, UNCHANGED sceneVars
      PROVE  SceneIInv'
  <2>1. SceneTypes' /\ FramesCounted' /\ InOrder(todo)'
    BY <1>2 DEF SceneIInv, sceneVars, SceneTypes, FramesCounted, InOrder
  <2>2. \A n : (Touched(n)' <=> Touched(n)) /\ (Flagged(n)' <=> Flagged(n))
    BY <1>2 DEF sceneVars, Touched, Flagged
  <2>3. \A f, n : Open(f, n)' <=> Open(f, n)
    BY <1>2 DEF sceneVars, Open, Holds
  <2>4. Scene!Committing' <=> Scene!Committing
    BY <1>2 DEF sceneVars, Scene!Committing
  <2>5. ToBeFound'
    BY <1>2, <2>2, <2>4 DEF SceneIInv, sceneVars, ToBeFound, OnItsWay, Found
  <2>6. BeingCommitted'
    BY <1>2, <2>2, <2>3 DEF SceneIInv, sceneVars, BeingCommitted, WillSet, WillCommit, WillShow
  <2>7. QED
    BY <2>1, <2>5, <2>6 DEF SceneIInv
<1>3. QED
  BY <1>1, <1>2

\* Every frame in the accumulation buffer shows the values of the scene graph,
\* and no change of them is lost, but for those that overlap with a commit
\* (Frame::preCommit, Node::subtreeModifiedButNotCommitted).
THEOREM SceneShown == ThreadsSpec => []ShowsScene
<1>1. ThreadsInit => SceneIInv
  BY InitScene DEF ThreadsInit
<1>2. SceneIInv /\ [ThreadsNext]_<<part, vars, engineVars, taskVars, sceneVars>> => SceneIInv'
  <2>1. [ThreadsNext]_<<part, vars, engineVars, taskVars, sceneVars>> => [Scene!Next]_sceneVars
    BY DEF ThreadsNext
  <2>2. QED
    BY <2>1, NextScene
<1>3. SceneIInv => ShowsScene
  BY SceneImplies DEF ShowsScene
<1>4. QED
  BY <1>1, <1>2, <1>3, PTL DEF ThreadsSpec
=============================================================================
