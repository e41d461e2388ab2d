----------------------------- MODULE WorkStream -----------------------------
(***************************************************************************)
(* How the calls of the application reach the workers in the offload       *)
(* device (mpi/MPIOffloadDevice.cpp, MPIOffloadWorker.cpp): processWork    *)
(* serializes a work item into a buffer, which is broadcast when it is     *)
(* full and when the call has a result, and runs the master's part of it;  *)
(* the workers read items from what they receive and run them.             *)
(*                                                                         *)
(* An item is Size(kind) units of the stream, written <<its number, part>>.*)
(* The kinds are the works that differ in what they flush and wait for:    *)
(* "plain" is every other work (New*, SetParam, CommitObject, ...).        *)
(***************************************************************************)
EXTENDS Naturals, Sequences

CONSTANTS
  Worker, FirstWorker,  \* rank 1 answers a pick
  BufferSizes,          \* the sizes that the parameter of commit() gives
  MaxCalls              \* bound: works sent in a behaviour

VARIABLES
  issued,    \* kinds of the works handed to processWork so far
  master,    \* where the application's thread is
  left,      \* units of the last work that are not yet written
  buffer,    \* the write stream: the units in the buffer ...
  size,      \* ... and maxBufferSize
  pick,      \* results of picks that were sent and not received
  at,        \* where each worker is
  have,      \* units each worker has received and not yet used
  ran,       \* kinds of the works each worker has begun to run
  balancer   \* TiledLoadBalancer::instance, of the "master" and each worker

masterVars == <<issued, master, left, buffer, size>>
workerVars == <<at, have, ran>>
vars == <<masterVars, workerVars, pick, balancer>>

Balancers == {"static", "dynamic"}
Kinds == {"plain", "module", "render", "pick", "final"} \cup Balancers

\* a tag and the rest; "plain" stands for large items as well
Size(kind) == IF kind = "plain" THEN 3 ELSE 2

\* processWork(work, true)
Flushed(kind) == kind \in {"module", "render", "pick", "final"}

work == issued[Len(issued)]

\* initializeDevice(): the fabric and an empty stream; commit() goes on
Init ==
  /\ issued = <<>> /\ master = "replace" /\ left = 0
  /\ buffer = <<>> /\ size \in BufferSizes
  /\ pick = 0
  /\ at = [w \in Worker |-> "read"] /\ have = [w \in Worker |-> <<>>]
  /\ ran = [w \in Worker |-> <<>>]
  /\ balancer = [r \in Worker \cup {"master"} |-> "none"]

-----------------------------------------------------------------------------
(* The master.                                                             *)

Begin(kind) ==
  /\ issued' = Append(issued, kind)
  /\ left' = Size(kind)
  /\ master' = "write"

\* any call of the device but commit(); nothing follows the destructor's
Call(kind) ==
  /\ master = "idle" /\ Len(issued) < MaxCalls
  /\ Begin(kind)
  /\ UNCHANGED <<buffer, size, workerVars, pick, balancer>>

\* mutant: the new stream takes over without a flush
CommitDevice_NoFlush ==
  /\ master = "idle" /\ Len(issued) < MaxCalls
  /\ master' = "replace"
  /\ UNCHANGED <<issued, left, buffer, size, workerVars, pick, balancer>>

\* commit(): writeStream->flush() ...
CommitDevice ==
  /\ master = "idle" /\ Len(issued) < MaxCalls
  /\ master' = IF buffer = <<>> THEN "replace" ELSE "flush"
  /\ UNCHANGED <<issued, left, buffer, size, workerVars, pick, balancer>>

\* mutant: the load balancer goes to the old stream, which is dropped with it
ReplaceStream_Late ==
  /\ master = "replace"
  /\ size' \in BufferSizes
  /\ buffer' = <<>>
  /\ \E b \in Balancers : issued' = Append(issued, b)
  /\ left' = 0
  /\ master' = "run"
  /\ UNCHANGED <<workerVars, pick, balancer>>

\* ... a new stream, and the load balancer
ReplaceStream ==
  /\ master = "replace"
  /\ size' \in BufferSizes
  /\ buffer' = <<>>
  /\ \E b \in Balancers : Begin(b)
  /\ UNCHANGED <<workerVars, pick, balancer>>

\* BufferedWriteStream::write, to the next full buffer
Write ==
  /\ master = "write" /\ left > 0
  /\ buffer' = Append(buffer, <<Len(issued), Size(work) - left + 1>>)
  /\ left' = left - 1
  /\ master' = IF Len(buffer') = size THEN "send" ELSE "write"
  /\ UNCHANGED <<issued, size, workerVars, pick, balancer>>

\* mutant: only a frame is flushed
Written_NoFlush ==
  /\ master = "write" /\ left = 0
  /\ master' = IF work = "render" /\ buffer # <<>> THEN "send" ELSE "run"
  /\ UNCHANGED <<issued, left, buffer, size, workerVars, pick, balancer>>

\* processWork, after the serialization
Written ==
  /\ master = "write" /\ left = 0
  /\ master' = IF Flushed(work) /\ buffer # <<>> THEN "send" ELSE "run"
  /\ UNCHANGED <<issued, left, buffer, size, workerVars, pick, balancer>>

\* runOnMaster
RunOnMaster ==
  /\ master = "run"
  /\ master' = CASE work \in {"render", "final"} -> "barrier"
                 [] work = "pick" -> "recv"
                 [] OTHER -> "idle"
  /\ balancer' = IF work \in Balancers THEN [balancer EXCEPT !["master"] = work]
                                       ELSE balancer
  /\ UNCHANGED <<issued, left, buffer, size, workerVars, pick>>

ReceivePick ==
  /\ master = "recv" /\ pick > 0
  /\ pick' = pick - 1
  /\ master' = "idle"
  /\ UNCHANGED <<issued, left, buffer, size, workerVars, balancer>>

-----------------------------------------------------------------------------
(* The workers.                                                            *)

\* the next item, when all of it has arrived
HasItem(w) ==
  /\ have[w] # <<>>
  /\ Len(have[w]) >= Size(issued[have[w][1][1]])

\* readWork, and the start of run()
ReadWork(w) ==
  LET kind == issued[have[w][1][1]]
  IN /\ at[w] = "read" /\ HasItem(w)
     /\ have' = [have EXCEPT ![w] = SubSeq(@, Size(kind) + 1, Len(@))]
     /\ ran' = [ran EXCEPT ![w] = Append(@, kind)]
     /\ at' = [at EXCEPT ![w] =
          CASE kind \in {"render", "final"} -> "barrier"
            [] kind = "pick" -> IF w = FirstWorker THEN "pick" ELSE "pickBarrier"
            [] OTHER -> "read"]
     /\ balancer' = IF kind \in Balancers THEN [balancer EXCEPT ![w] = kind]
                                          ELSE balancer
     /\ UNCHANGED <<masterVars, pick>>

\* Pick::run on rank 1: a small message, which MPI_Send buffers
SendPick(w) ==
  /\ at[w] = "pick"
  /\ pick' = pick + 1
  /\ at' = [at EXCEPT ![w] = "pickBarrier"]
  /\ UNCHANGED <<masterVars, have, ran, balancer>>

\* worker.barrier()
PickBarrier ==
  /\ \A w \in Worker : at[w] = "pickBarrier"
  /\ at' = [w \in Worker |-> "read"]
  /\ UNCHANGED <<masterVars, have, ran, pick, balancer>>

-----------------------------------------------------------------------------
(* Both.                                                                   *)

\* mutant: a read starts with what the broadcast brings
Broadcast_DropRest ==
  /\ master \in {"send", "flush"}
  /\ \A w \in Worker : at[w] = "read" /\ ~HasItem(w)
  /\ have' = [w \in Worker |-> buffer]
  /\ buffer' = <<>>
  /\ master' = IF master = "send" THEN "write" ELSE "replace"
  /\ UNCHANGED <<issued, left, size, at, ran, pick, balancer>>

\* MPIBcastFabric::send and read: an MPI_Ibcast of the length that all poll,
\* the group's barrier, an MPI_Bcast.  A worker takes part when it has used
\* what it had and the item it is reading is not complete.
Broadcast ==
  /\ master \in {"send", "flush"}
  /\ \A w \in Worker : at[w] = "read" /\ ~HasItem(w)
  /\ have' = [w \in Worker |-> have[w] \o buffer]
  /\ buffer' = <<>>
  /\ master' = IF master = "send" THEN "write" ELSE "replace"
  /\ UNCHANGED <<issued, left, size, at, ran, pick, balancer>>

\* world.barrier(), before a frame and before MPI_Finalize; DistributedFrame
\* is the frame, which is over when this step is
WorldBarrier ==
  /\ master = "barrier" /\ \A w \in Worker : at[w] = "barrier"
  /\ master' = IF work = "final" THEN "exit" ELSE "idle"
  /\ at' = [w \in Worker |-> IF work = "final" THEN "exit" ELSE "read"]
  /\ UNCHANGED <<issued, left, buffer, size, have, ran, pick, balancer>>

InCall == ReplaceStream \/ Write \/ Written \/ RunOnMaster \/ ReceivePick
Work(w) == ReadWork(w) \/ SendPick(w)
Collective == Broadcast \/ WorldBarrier \/ PickBarrier

Next ==
  \/ \E k \in Kinds \ Balancers : Call(k)
  \/ CommitDevice \/ InCall \/ Collective
  \/ \E w \in Worker : Work(w)

-----------------------------------------------------------------------------
(* Properties.                                                             *)

TypeOK ==
  /\ issued \in Seq(Kinds) /\ Len(issued) <= MaxCalls
  /\ master \in {"idle", "replace", "write", "flush", "send", "run", "recv",
                 "barrier", "exit"}
  /\ left \in 0 .. 3 /\ size \in BufferSizes
  /\ Len(buffer) <= size
  /\ pick \in 0 .. 1
  /\ at \in [Worker -> {"read", "barrier", "pick", "pickBarrier", "exit"}]

\* Everything that was sent and not run is, in order, with the worker or in
\* the write buffer: no unit is lost, doubled or moved, whatever the sizes of
\* items and buffers (BufferedReadStream::read, BufferedWriteStream::write).
Following(u) ==
  IF u[2] < Size(issued[u[1]]) THEN <<u[1], u[2] + 1>> ELSE <<u[1] + 1, 1>>
toWrite == IF left = 0 THEN <<Len(issued) + 1, 1>> ELSE <<Len(issued), Size(work) - left + 1>>
StreamIsWhole == \A w \in Worker :
  LET units == Append(have[w] \o buffer, toWrite)
  IN /\ units[1] = <<Len(ran[w]) + 1, 1>>
     /\ \A k \in 1 .. Len(units) - 1 : units[k + 1] = Following(units[k])

\* The ranks of a frame use the same load balancer, although the master
\* replaces its own at once and a worker when it comes to it
\* (SetLoadBalancer, RenderFrame::run).
SameBalancer ==
  master = "barrier" /\ (\A w \in Worker : at[w] = "barrier")
    => \A q, r \in DOMAIN balancer : balancer[q] = balancer[r]

\* What the application sees is a WorkService.
Service == INSTANCE WorkService
  WITH calls <- issued, begun <- ran,
       open <- master \in {"write", "send", "run", "recv", "barrier"}
=============================================================================
