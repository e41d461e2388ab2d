----------------------------- MODULE MCOffload -----------------------------
(* What passes between the ranks of the offload device, checked in one     *)
(* run: the messages of the message layer, the stream of works that goes   *)
(* to the workers, or the objects that works and calls act on.             *)
EXTENDS MessageLayer

CONSTANTS
  Worker, FirstWorker, BufferSizes, MaxCalls,  \* of the module WorkStream
  None, Plain, Null, MaxObjects, MaxListed, MaxLeaks \* of the module ObjectStore

ASSUME FirstWorkerAssumption == FirstWorker \in Worker
\* a writeBufferScale of at least 1/1024: below, the size is 0 and write() never
\* returns (MPIOffloadDevice.cpp:478)
ASSUME BufferSizesAssumption == BufferSizes \subseteq Nat \ {0}
ASSUME MaxCallsAssumption == MaxCalls \in Nat \ {0}
ASSUME WorkersAssumption == "master" \notin Worker  \* the master is rank 0 of the world
ASSUME ObjectsAssumption == MaxObjects \in Nat /\ MaxListed \in Nat

VARIABLES
  part,  \* "messages", "stream" or "objects"
  issued, master, left, buffer, size, pick, at, have, ran, balancer,
  kind, app, localHeap, heap, masterParam, leakedLocal, leaked, readded

Stream == INSTANCE WorkStream
Objects == INSTANCE ObjectStore

\* no parameter, a parameter's value, a null pointer and the objects are
\* different things
ASSUME NoneAssumption ==
  /\ None # Plain /\ Null \notin {None, Plain}
  /\ {None, Plain, Null} \cap Objects!Object = {}
  /\ None \notin DOMAIN Objects!Height

streamVars == <<issued, master, left, buffer, size, pick, at, have, ran, balancer>>
objectVars == <<kind, app, localHeap, heap, masterParam, leakedLocal, leaked, readded>>

OffloadInit ==
  /\ Init /\ Stream!Init /\ Objects!Init
  /\ part \in {"messages", "stream", "objects"}
  /\ part # "stream" => size = CHOOSE n \in BufferSizes : TRUE

OffloadNext ==
  /\ UNCHANGED part
  /\ \/ part = "messages" /\ Next /\ UNCHANGED <<streamVars, objectVars>>
     \/ part = "stream" /\ Stream!Next /\ UNCHANGED <<vars, objectVars>>
     \/ part = "objects" /\ UNCHANGED <<vars, streamVars>> /\ Objects!Next

\* The fairness of the message layer, whose threads have nothing to do in the
\* other parts.  A call of the application is carried out by its thread, a
\* worker reads and runs what it gets, and a collective that all have entered
\* completes: weak fairness.  The application may stop making calls.
OffloadFairness ==
  /\ Fairness
  /\ WF_streamVars(part = "stream" /\ Stream!InCall)
  /\ WF_streamVars(part = "stream" /\ Stream!Collective)
  /\ \A w \in Worker : WF_streamVars(part = "stream" /\ Stream!Work(w))

OffloadSpec ==
  OffloadInit /\ [][OffloadNext]_<<part, vars, streamVars, objectVars>> /\ OffloadFairness

-----------------------------------------------------------------------------
\* The workers have received a prefix of what was written (BufferedBcast).
StreamIsWhole == part = "stream" => Stream!TypeOK /\ Stream!StreamIsWhole

\* All ranks render a frame with the same load balancer (MPIOffloadDevice::commit).
SameBalancer == Stream!SameBalancer

\* The application and the workers see the calls of a WorkService: in order,
\* each once, and those with a result wait for it (processWork, runWorker).
StreamImplements == Stream!Service!Spec

\* Every call returns, whatever is still in the buffer when it waits for the
\* workers, and the workers leave with the master (CommandFinalize).
CallsEnd ==
  part = "stream" /\ master # "idle" ~>
    master = "idle" \/ (master = "exit" /\ \A w \in Worker : at[w] = "exit")

\* What the application keeps exists, and whatever an existing object refers to,
\* unless it is an item of an array of lights that the application has released
\* (Data.cpp:42, against Managed.h:45-49); and nothing else does, but for what
\* has leaked (RefCount, Ref, Param), in the local device and in a worker; and
\* all variables keep their types.
LivesUnlessUncounted == part = "objects" => Objects!TypeOK /\ Objects!LivesUnlessUncounted

\* A worker's objects are those of the local device after the same calls
\* (OSPWork.cpp, ISPCDevice.cpp), but for the leak of RemoveParam::run and
\* the volume that RemoveVolume::run adds, and the master's volumes have the
\* parameters it is asked for (MPIOffloadDevice::setRegion).
DevicesAgree == part = "objects" => Objects!WorkersAgree /\ Objects!MasterKnows

\* What was removed from a model is not in it (MPIOffloadDevice.cpp:811).
VolumesRemoved == Objects!VolumesRemoved
=============================================================================
