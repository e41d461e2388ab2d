------------------------------ MODULE TaskSys ------------------------------
(* The internal tasking system (ospcommon/tasking/detail/TaskSys): threads *)
(* that call parallel_for() or schedule(), worker threads that take tasks  *)
(* from the active list, and the shutdown of the workers.                  *)
(*                                                                         *)
(* The task of a parallel_for lives on its caller's stack until the call   *)
(* returns, the task of a schedule() until whoever completes it deletes    *)
(* it.  The active list is a list of pointers.  A thread that reads or     *)
(* writes a task after its end has undefined behaviour: the behaviour of   *)
(* the model ends there, with undefined set.                               *)
EXTENDS Integers, Sequences, FiniteSets

CONSTANTS
  Caller,    \* application threads
  Worker,    \* worker threads, one less than numThreads
  MaxTasks,  \* bound: tasks scheduled in a behaviour
  JobCounts, \* job counts a parallel_for is called with
  MayShutDown \* whether the system is shut down at some time

VARIABLES
  pc,        \* where each thread is
  current,   \* the task a thread works on, 0 if none
  job,       \* thisJobID of each thread
  myCompleted,
  task,      \* the tasks scheduled so far
  active,    \* activeListFirst .. activeListLast
  running,
  shutdown,  \* the thread in shutdownWorkerThreads
  ran,       \* ghost: how often each job of each task was run
  undefined, \* ghost: a task was used after its end
  missed     \* ghost: shutdown's notification came before a worker blocked

threadVars == <<pc, current, job, myCompleted>>
vars == <<threadVars, task, active, running, shutdown, ran, undefined, missed>>

Thread == Caller \cup Worker
TaskID == 1 .. MaxTasks
Job == 0 .. 3

Init ==
  /\ pc = [t \in Thread |-> IF t \in Caller THEN "idle" ELSE "get"]
  /\ current = [t \in Thread |-> 0]
  /\ job = [t \in Thread |-> 0] /\ myCompleted = [t \in Thread |-> 0]
  /\ task = <<>>
  /\ active = <<>>
  /\ running = TRUE
  /\ shutdown = "no"
  /\ ran = [k \in TaskID |-> [j \in Job |-> 0]]
  /\ undefined = FALSE /\ missed = FALSE

Goto(t, l) == pc' = [pc EXCEPT ![t] = l]

\* The mutex of the task system: free unless a worker is on its way from the
\* predicate of its wait to blocking.
MutexIsFree == \A w \in Worker : pc[w] # "block"

\* An access to task k, which steps if k is there and ends in undefined
\* behaviour if it is not.
Access(k, step) ==
  \/ task[k].alive /\ step
  \/ /\ ~task[k].alive
     /\ undefined' = TRUE
     /\ UNCHANGED <<threadVars, task, active, running, shutdown, ran, missed>>

-----------------------------------------------------------------------------
(* Scheduling                                                               *)

NewTask(n, async) ==
  [jobs |-> n, started |-> 0, completed |-> 0, done |-> FALSE, alive |-> TRUE, async |-> async]

\* scheduleTaskInternal; the workers' wait sees a list that is not empty.
Enqueue(n, async, list) ==
  /\ task' = Append(task, NewTask(n, async))
  /\ active' = list
  /\ UNCHANGED <<running, shutdown, ran, missed>>

\* parallel_for_internal: to the back, which writes the last task's next.
ParallelFor(c, n) ==
  LET k == Len(task) + 1
      step == /\ Enqueue(n, FALSE, Append(active, k))
              /\ Goto(c, "wait")
              /\ current' = [current EXCEPT ![c] = k]
              /\ UNCHANGED <<job, myCompleted, undefined>>
  IN /\ pc[c] = "idle" /\ MutexIsFree
     /\ k <= MaxTasks /\ shutdown = "no"
     /\ IF active = <<>> THEN step ELSE Access(active[Len(active)], step)

\* schedule_internal: to the front.
Schedule(c) ==
  LET k == Len(task) + 1
  IN /\ pc[c] = "idle" /\ MutexIsFree
     /\ k <= MaxTasks /\ shutdown = "no"
     /\ Enqueue(1, TRUE, <<k>> \o active)
     /\ UNCHANGED <<threadVars, undefined>>

-----------------------------------------------------------------------------
(* Task::workOnIt, by the caller of parallel_for and by workers             *)

TakeJob(t) ==
  LET k == current[t]
      id == task[k].started
      step ==
        /\ task' = [task EXCEPT ![k].started = @ + 1]
        /\ job' = [job EXCEPT ![t] = id]
        /\ Goto(t, IF id >= task[k].jobs THEN "count" ELSE "run")
        /\ UNCHANGED <<current, myCompleted, active, running, shutdown, ran, undefined, missed>>
  IN pc[t] = "take" /\ Access(k, step)

RunJob(t) ==
  /\ pc[t] = "run"
  /\ ran' = [ran EXCEPT ![current[t]][job[t]] = @ + 1]
  /\ myCompleted' = [myCompleted EXCEPT ![t] = @ + 1]
  /\ Goto(t, "take")
  /\ UNCHANGED <<current, job, task, active, running, shutdown, undefined, missed>>

\* Where a thread goes when it leaves workOnIt.
Leaves(t) == IF t \in Caller THEN "sleep" ELSE "get"

\* Mutant: the thread that runs out of jobs takes the task for completed.
CountJobs_Started(t) ==
  LET k == current[t]
      step == /\ Goto(t, "finish")
              /\ task' = [task EXCEPT ![k].completed = @ + myCompleted[t]]
              /\ myCompleted' = [myCompleted EXCEPT ![t] = 0]
              /\ UNCHANGED <<current, job, active, running, shutdown, ran, undefined, missed>>
  IN pc[t] = "count" /\ Access(k, step)

\* A thread that ran jobs adds them to numJobsCompleted; what it compares is the
\* value that the atomic addition returns, so no other step comes between.
CountJobs(t) ==
  LET k == current[t]
      now == task[k].completed + myCompleted[t]
      step ==
        /\ task' = [task EXCEPT ![k].completed = now]
        /\ Goto(t, IF myCompleted[t] # 0 /\ now = task[k].jobs THEN "finish" ELSE Leaves(t))
        /\ myCompleted' = [myCompleted EXCEPT ![t] = 0]
        /\ UNCHANGED <<current, job, active, running, shutdown, ran, undefined, missed>>
  IN /\ pc[t] = "count"
     /\ IF myCompleted[t] # 0
        THEN Access(k, step)
        ELSE Goto(t, Leaves(t))
             /\ UNCHANGED <<current, job, myCompleted, task, active, running, shutdown, ran, undefined, missed>>

\* Mutant: the last worker does not say so.
Finish_Silent(t) ==
  LET step == /\ Goto(t, "finished")
              /\ task' = [task EXCEPT ![current[t]].done = t \in Caller]
              /\ UNCHANGED <<current, job, myCompleted, active, running, shutdown, ran, undefined, missed>>
  IN pc[t] = "finish" /\ Access(current[t], step)

\* The one that completes the task says so under its mutex ...
Finish(t) ==
  LET step == /\ Goto(t, "finished")
              /\ task' = [task EXCEPT ![current[t]].done = TRUE]
              /\ UNCHANGED <<current, job, myCompleted, active, running, shutdown, ran, undefined, missed>>
  IN pc[t] = "finish" /\ Access(current[t], step)

\* ... and deletes it if it has to.
DeleteTask(t) ==
  LET k == current[t]
      step == /\ Goto(t, Leaves(t))
              /\ task' = [task EXCEPT ![k].alive = ~task[k].async]
              /\ UNCHANGED <<current, job, myCompleted, active, running, shutdown, ran, undefined, missed>>
  IN pc[t] = "finished" /\ Access(k, step)

-----------------------------------------------------------------------------
(* Task::wait, by the caller of parallel_for                                *)

\* The call returns; its task goes with the stack frame.
Return(c) ==
  /\ Goto(c, "idle")
  /\ task' = [task EXCEPT ![current[c]].alive = FALSE]
  /\ current' = [current EXCEPT ![c] = 0]
  /\ UNCHANGED <<job, myCompleted, active, running, shutdown, ran, undefined, missed>>

\* Completed already: nothing to wait for.  If not, help.
BeginWait(c) ==
  /\ pc[c] = "wait"
  /\ \/ task[current[c]].done /\ Return(c)
     \/ /\ ~task[current[c]].done
        /\ Goto(c, "take")
        /\ UNCHANGED <<current, job, myCompleted, task, active, running, shutdown, ran, undefined, missed>>

EndWait(c) ==
  /\ pc[c] = "sleep"
  /\ task[current[c]].done
  /\ Return(c)

-----------------------------------------------------------------------------
(* The workers                                                              *)

\* Mutant: the list is emptied with its first task.
WithoutFirst_All(list) == <<>>

WithoutFirst(list) == Tail(list)

IsExhausted(k) == task[k].started >= task[k].jobs

\* getNextActiveTask, under the mutex: wait, drop an exhausted task, or
\* return the first one.
GetTask(w) ==
  /\ pc[w] = "get" /\ MutexIsFree
  /\ \/ /\ ~running
        /\ Goto(w, "exited")
        /\ UNCHANGED <<current, job, active, undefined>>
        /\ UNCHANGED <<job, myCompleted, task, running, shutdown, ran, missed>>
     \/ /\ running /\ active = <<>>
        /\ Goto(w, "block")
        /\ UNCHANGED <<current, job, active, undefined>>
        /\ UNCHANGED <<job, myCompleted, task, running, shutdown, ran, missed>>
     \/ /\ running /\ active # <<>>
        /\ Access(Head(active),
             /\ IF IsExhausted(Head(active))
                THEN active' = WithoutFirst(active) /\ UNCHANGED <<pc, current>>
                ELSE /\ Goto(w, "got")
                     /\ current' = [current EXCEPT ![w] = Head(active)]
                     /\ UNCHANGED active
             /\ UNCHANGED <<job, myCompleted, task, running, shutdown, ran, undefined, missed>>)

\* The wait of the condition variable lets go of the mutex.
Block(w) ==
  /\ pc[w] = "block"
  /\ Goto(w, "asleep")
  /\ UNCHANGED <<current, job, myCompleted, task, active, running, shutdown, ran, undefined, missed>>

\* Woken by scheduleTaskInternal, which notifies under the mutex.
WakeForTask(w) ==
  /\ pc[w] = "asleep"
  /\ active # <<>>
  /\ Goto(w, "get")
  /\ UNCHANGED <<current, job, myCompleted, task, active, running, shutdown, ran, undefined, missed>>

\* Back in the worker's loop, outside the mutex.
BeginTask(w) ==
  /\ pc[w] = "got"
  /\ Goto(w, IF running THEN "take" ELSE "exited")
  /\ UNCHANGED <<current, job, myCompleted, task, active, running, shutdown, ran, undefined, missed>>

-----------------------------------------------------------------------------
(* shutdownWorkerThreads, by init() or at exit: no call is under way        *)

ClearRunning ==
  /\ MayShutDown
  /\ shutdown = "no"
  /\ \A c \in Caller : pc[c] = "idle"
  /\ running' = FALSE
  /\ shutdown' = "notify"
  /\ UNCHANGED <<threadVars, task, active, ran, undefined, missed>>

\* Mutant: one worker is woken.
NotifyAll_One ==
  /\ shutdown = "notify"
  /\ shutdown' = "join"
  /\ LET one == CHOOSE w \in Worker : TRUE
     IN pc' = [pc EXCEPT ![one] = IF @ = "asleep" THEN "get" ELSE @]
  /\ missed' = \E w \in Worker : pc[w] = "block"
  /\ UNCHANGED <<current, job, myCompleted, task, active, running, ran, undefined>>

\* Without the mutex: a worker that is about to block does not hear of it.
NotifyAll ==
  /\ shutdown = "notify"
  /\ shutdown' = "join"
  /\ pc' = [t \in Thread |-> IF pc[t] = "asleep" THEN "get" ELSE pc[t]]
  /\ missed' = \E w \in Worker : pc[w] = "block"
  /\ UNCHANGED <<current, job, myCompleted, task, active, running, ran, undefined>>

Join ==
  /\ shutdown = "join"
  /\ \A w \in Worker : pc[w] = "exited"
  /\ shutdown' = "joined"
  /\ UNCHANGED <<threadVars, task, active, running, ran, undefined, missed>>

-----------------------------------------------------------------------------
WorkOnIt(t) == TakeJob(t) \/ RunJob(t) \/ CountJobs(t) \/ Finish(t) \/ DeleteTask(t)

WorkerThread(w) == GetTask(w) \/ Block(w) \/ WakeForTask(w) \/ BeginTask(w) \/ WorkOnIt(w)

InParallelFor(c) == BeginWait(c) \/ WorkOnIt(c) \/ EndWait(c)

Shutdown == ClearRunning \/ NotifyAll \/ Join

Next ==
  /\ ~undefined
  /\ \/ \E c \in Caller : InParallelFor(c) \/ Schedule(c) \/ \E n \in JobCounts : ParallelFor(c, n)
     \/ \E w \in Worker : WorkerThread(w)
     \/ Shutdown

\* Threads run; a call that was begun goes on.  Nobody has to call, or to
\* shut the system down.
Fairness ==
  /\ \A c \in Caller : WF_vars(~undefined /\ InParallelFor(c))
  /\ \A w \in Worker : WF_vars(~undefined /\ WorkerThread(w))
  /\ WF_vars(~undefined /\ (NotifyAll \/ Join))

Spec == Init /\ [][Next]_vars /\ Fairness

-----------------------------------------------------------------------------
(* Properties                                                               *)

TypeOK ==
  /\ \A k \in DOMAIN task :
       task[k] \in [jobs : Job, started : Nat, completed : Job, done : BOOLEAN,
                    alive : BOOLEAN, async : BOOLEAN]
  /\ \A t \in Thread : current[t] \in 0 .. Len(task) /\ myCompleted[t] \in Job
  /\ active \in Seq(DOMAIN task)
  /\ running \in BOOLEAN /\ undefined \in BOOLEAN /\ missed \in BOOLEAN

\* Fork and join: no job is run twice, whichever threads share the task, and
\* a task is completed only when all its jobs have been run.
JobsRunOnce ==
  \A k \in DOMAIN task : \A j \in Job :
    /\ ran[k][j] <= 1
    /\ task[k].done /\ j < task[k].jobs => ran[k][j] = 1

\* parallel_for returns, but for a call without jobs.
CallsReturn ==
  \A c \in Caller :
    []<>(undefined \/ pc[c] = "idle" \/ (current[c] # 0 /\ task[current[c]].jobs = 0))

\* A scheduled task is run if there is a worker and the system is not shut
\* down first.
ScheduledTasksRun ==
  \A k \in TaskID :
    (k \in DOMAIN task /\ task[k].async) ~>
      (undefined \/ Worker = {} \/ ~running \/ ran[k][0] = 1)

\* The shutdown returns unless a worker missed its notification.
ShutdownReturns == (shutdown = "join") ~> (shutdown = "joined" \/ missed \/ undefined)

\* The list holds tasks "which are ready": no thread ever finds there, or
\* still holds, a task that has gone.
NoUseAfterEnd == ~undefined

============================================================================
