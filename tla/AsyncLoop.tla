------------------------------ MODULE AsyncLoop ------------------------------
(***************************************************************************)
(* components/ospcommon/AsyncLoop.h: a background thread that runs a body  *)
(* over and over between start() and stop(), and sleeps on a condition     *)
(* variable otherwise.  One owner thread calls start(), stop() and finally *)
(* the destructor, as the two users in the repository do (maml::Context    *)
(* under its tasksMutex, AsyncRenderEngine from the application thread).   *)
(*                                                                         *)
(* The three flags are atomics that are read and written WITHOUT the       *)
(* mutex; the mutex only protects the body and the wait.  Every atomic     *)
(* access that another thread can fall between is a step of its own.       *)
(***************************************************************************)
EXTENDS Naturals

CONSTANT MaxSpurious  \* bound: spurious wakeups of the wait in a behaviour
ASSUME MaxSpuriousAssumption == MaxSpurious \in Nat

VARIABLES
  threadShouldBeAlive,  \* atomic flag, cleared by the destructor
  loopShouldBeRunning,  \* atomic flag, set by start(), cleared by stop()
  insideLoopBody,       \* atomic flag, set around the body
  loopRunningMutex,     \* the thread that holds the mutex, or "free"
  loop,                 \* program counter of the background thread
  owner,                \* program counter of the owning thread
  spurious              \* spurious wakeups so far

vars == <<threadShouldBeAlive, loopShouldBeRunning, insideLoopBody,
          loopRunningMutex, loop, owner, spurious>>

flags == <<threadShouldBeAlive, loopShouldBeRunning, insideLoopBody>>

(***************************************************************************)
(* Program counters.                                                       *)
(*   loop   "top"    about to test threadShouldBeAlive                     *)
(*          "lock"   about to lock the mutex                               *)
(*          "pred"   holds the mutex, about to evaluate the wait predicate *)
(*          "block"  the predicate was false, about to block in wait()     *)
(*          "asleep" blocked in wait(), mutex released                     *)
(*          "woken"  notified, about to lock the mutex again               *)
(*          "check"  the wait is over, about to test threadShouldBeAlive   *)
(*          "enter"  insideLoopBody is set, about to test the run flag     *)
(*          "body"   inside the user's function                            *)
(*          "leave"  about to clear insideLoopBody and unlock              *)
(*          "ended"  the thread function has returned                      *)
(*   owner  "stopped", "running"  no call is in progress, and the last     *)
(*                   call that returned was stop() (or none), start()      *)
(*          "notify"  inside start(), the flag is set and not notified *)
(*          "stopping"  inside stop(), the flag is cleared                 *)
(*          "dying", "dnotify", "join"  inside the destructor, "gone" after *)
(***************************************************************************)
LoopPC  == {"top", "lock", "pred", "block", "asleep", "woken", "check",
            "enter", "body", "leave", "ended"}
OwnerPC == {"stopped", "running", "notify", "stopping", "dying",
            "dnotify", "join", "gone"}

\* where the background thread is between the lock and the unlock
Locked  == {"pred", "block", "check", "enter", "body", "leave"}

TypeOK ==
  /\ threadShouldBeAlive \in BOOLEAN
  /\ loopShouldBeRunning \in BOOLEAN
  /\ insideLoopBody \in BOOLEAN
  /\ loopRunningMutex = IF loop \in Locked THEN "loop" ELSE "free"
  /\ loop \in LoopPC
  /\ owner \in OwnerPC
  /\ spurious \in 0..MaxSpurious

Init ==
  /\ threadShouldBeAlive = TRUE
  /\ loopShouldBeRunning = FALSE
  /\ insideLoopBody = FALSE
  /\ loopRunningMutex = "free"
  /\ loop = "top"
  /\ owner = "stopped"
  /\ spurious = 0

-----------------------------------------------------------------------------
(* The background thread.                                                  *)

\* while (threadShouldBeAlive)
TestAlive ==
  /\ loop = "top"
  /\ loop' = IF threadShouldBeAlive THEN "lock" ELSE "ended"
  /\ UNCHANGED <<flags, loopRunningMutex, owner, spurious>>

\* std::unique_lock, and the lock that wait() takes again when it wakes up
Lock ==
  /\ loop \in {"lock", "woken"}
  /\ loopRunningMutex = "free"
  /\ loopRunningMutex' = "loop"
  /\ loop' = "pred"
  /\ UNCHANGED <<flags, owner, spurious>>

\* the predicate of the wait: loopShouldBeRunning.load()
EvalPredicate ==
  /\ loop = "pred"
  /\ loop' = IF loopShouldBeRunning THEN "check" ELSE "block"
  /\ UNCHANGED <<flags, loopRunningMutex, owner, spurious>>

\* wait() releases the mutex and blocks, in one step
Block ==
  /\ loop = "block"
  /\ loop' = "asleep"
  /\ loopRunningMutex' = "free"
  /\ UNCHANGED <<flags, owner, spurious>>

\* the C++ standard lets wait() return for no reason
SpuriousWakeup ==
  /\ loop = "asleep"
  /\ spurious < MaxSpurious
  /\ spurious' = spurious + 1
  /\ loop' = "woken"
  /\ UNCHANGED <<flags, loopRunningMutex, owner>>

\* if (!threadShouldBeAlive) return; insideLoopBody = true;
CheckAlive ==
  /\ loop = "check"
  /\ IF threadShouldBeAlive
       THEN /\ insideLoopBody' = TRUE
            /\ loop' = "enter"
            /\ UNCHANGED loopRunningMutex
       ELSE /\ loop' = "ended"
            /\ loopRunningMutex' = "free"
            /\ UNCHANGED insideLoopBody
  /\ UNCHANGED <<threadShouldBeAlive, loopShouldBeRunning, owner, spurious>>

\* if (loopShouldBeRunning) fcn();
TestRunning ==
  /\ loop = "enter"
  /\ loop' = IF loopShouldBeRunning THEN "body" ELSE "leave"
  /\ UNCHANGED <<flags, loopRunningMutex, owner, spurious>>

BodyReturns ==
  /\ loop = "body"
  /\ loop' = "leave"
  /\ UNCHANGED <<flags, loopRunningMutex, owner, spurious>>

\* mutant: insideLoopBody is not reset
Leave_NoReset ==
  /\ loop = "leave"
  /\ loopRunningMutex' = "free"
  /\ loop' = "top"
  /\ UNCHANGED <<flags, owner, spurious>>

\* insideLoopBody = false, and the lock goes out of scope
Leave ==
  /\ loop = "leave"
  /\ insideLoopBody' = FALSE
  /\ loopRunningMutex' = "free"
  /\ loop' = "top"
  /\ UNCHANGED <<threadShouldBeAlive, loopShouldBeRunning, owner, spurious>>

LoopThread ==
  \/ TestAlive \/ Lock \/ EvalPredicate \/ Block
  \/ CheckAlive \/ TestRunning \/ BodyReturns \/ Leave

-----------------------------------------------------------------------------
(* The owner.                                                              *)

\* start(), from a call of its own or from the destructor: nothing at all
\* happens when the flag is already set
Start ==
  /\ \/ /\ owner \in {"stopped", "running"}
        /\ owner' = IF loopShouldBeRunning THEN "running" ELSE "notify"
     \/ /\ owner = "dying"
        /\ owner' = IF loopShouldBeRunning THEN "join" ELSE "dnotify"
  /\ loopShouldBeRunning' = TRUE
  /\ UNCHANGED <<threadShouldBeAlive, insideLoopBody, loopRunningMutex, loop,
                 spurious>>

\* notify_one(), without the mutex: wakes the thread only if it is blocked
Notify ==
  /\ \/ owner = "notify" /\ owner' = "running"
     \/ owner = "dnotify" /\ owner' = "join"
  /\ loop' = IF loop = "asleep" THEN "woken" ELSE loop
  /\ UNCHANGED <<flags, loopRunningMutex, spurious>>

\* stop() up to the lock; nothing at all happens when the flag is not set
BeginStop ==
  /\ owner \in {"stopped", "running"}
  /\ owner' = IF loopShouldBeRunning THEN "stopping" ELSE "stopped"
  /\ loopShouldBeRunning' = FALSE
  /\ UNCHANGED <<threadShouldBeAlive, insideLoopBody, loopRunningMutex, loop,
                 spurious>>

\* mutant: stop() clears the flag and returns
EndStop_NoWait ==
  /\ owner = "stopping"
  /\ owner' = "stopped"
  /\ UNCHANGED <<flags, loopRunningMutex, loop, spurious>>

\* the rest of stop(): lock, wait for !insideLoopBody, unlock.  The flag is
\* only ever set while the background thread holds the mutex
\* (InsideMeansLocked), so the wait never blocks
EndStop ==
  /\ owner = "stopping"
  /\ loopRunningMutex = "free"
  /\ ~insideLoopBody
  /\ owner' = "stopped"
  /\ UNCHANGED <<flags, loopRunningMutex, loop,
                 spurious>>

\* ~AsyncLoop(), up to its call of start()
BeginDestroy ==
  /\ owner \in {"stopped", "running"}
  /\ threadShouldBeAlive' = FALSE
  /\ owner' = "dying"
  /\ UNCHANGED <<loopShouldBeRunning, insideLoopBody, loopRunningMutex, loop,
                 spurious>>

\* backgroundThread.join(), LaunchMethod::THREAD
Join ==
  /\ owner = "join"
  /\ loop = "ended"
  /\ owner' = "gone"
  /\ UNCHANGED <<flags, loopRunningMutex, loop,
                 spurious>>

OwnerCalls   == Start \/ BeginStop \/ BeginDestroy
OwnerReturns == Notify \/ EndStop \/ Join \/ (owner = "dying" /\ Start)

Next == LoopThread \/ SpuriousWakeup \/ OwnerCalls \/ OwnerReturns

(***************************************************************************)
(* The background thread is a running thread and the body returns: weak    *)
(* fairness.  A call the owner has made proceeds: weak fairness on the     *)
(* steps inside a call, none on making one.  Spurious wakeups may happen   *)
(* or not, but not for ever: a mutex is not a queue, and a thread that woke*)
(* up spuriously again and again could overtake stop() at the mutex.       *)
(***************************************************************************)
Fairness == WF_vars(LoopThread) /\ WF_vars(OwnerReturns)

Spec == Init /\ [][Next]_vars /\ Fairness

-----------------------------------------------------------------------------
(* Properties.                                                             *)

\* stop() is a barrier: from the return of stop() to the next call of
\* start() the user's function is not running, whichever of the unlocked
\* flag accesses the two threads interleave (AsyncLoop.h, stop()).
NoBodyAfterStop == owner = "stopped" => loop # "body"

\* What makes the unlocked predicate of stop() sound: the inside flag is only
\* ever up while the background thread holds the mutex (the constructor's
\* mainLoop), so stop() never has to be notified, and nobody does notify it.
InsideMeansLocked == insideLoopBody => loopRunningMutex = "loop"

\* The inductive invariant behind the two: the inside flag is up exactly in
\* the guarded part of the loop, and the run flag is down from the moment
\* stop() clears it to the next start().
IInv ==
  /\ TypeOK
  /\ insideLoopBody <=> loop \in {"enter", "body", "leave"}
  /\ owner \in {"stopped", "stopping"} => loopShouldBeRunning = FALSE
  /\ owner \in {"running", "notify", "dnotify", "join"}
       => loopShouldBeRunning = TRUE
  /\ NoBodyAfterStop

\* "When stopped, the thread is put to sleep until it is started again"
\* (AsyncLoop.h:33-34): after start() the function is called, or the owner
\* makes another call.  The notification that start() gives without the mutex
\* can fall between the predicate and the block of the wait, and is lost.
StartWakes == owner = "running" ~> (loop = "body" \/ owner # "running")
=============================================================================
