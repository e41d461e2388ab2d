----------------------------- MODULE ObjectStore -----------------------------
(***************************************************************************)
(* The objects of the API and their reference counts (ospcommon/memory/    *)
(* RefCount.h, common/Managed.*, Data.cpp, Model.h), as the calls of an    *)
(* application leave them in the local device (api/ISPCDevice.cpp) and in  *)
(* a worker and the master of the offload device (mpi/common/OSPWork.cpp). *)
(* All workers run the same works in the same order (WorkStream), so one   *)
(* of them stands for all, and both devices take a call in the same step.  *)
(*                                                                         *)
(* An object is known by its handle, a number that is used once, to the    *)
(* local device by its address.  A heap is, for every object,              *)
(*   count   its refCounter, 0 when it does not exist                      *)
(*   param   its one parameter: None, Plain (a value), an object, or Null   *)
(*           (a parameter for an object that was given none)               *)
(*   list    what else it refers to: the geometries and volumes of a       *)
(*           model, the items of a data array, the material of a geometry  *)
(***************************************************************************)
EXTENDS Naturals, FiniteSets, Sequences, SequencesExt, Functions

CONSTANTS
  None, Plain, Null,
  MaxObjects,   \* bound: objects created in a behaviour
  MaxListed,    \* bound: references a model or a data array holds
  MaxLeaks      \* bound: counts that nobody will take back

Object == 1 .. MaxObjects

VARIABLES
  kind,      \* what each object is, None before it is created
  app,       \* objects the application has created and not released
  localHeap, \* the objects of the local device
  heap,      \* those of a worker
  masterParam,    \* the one parameter of the objects the master keeps
  leakedLocal, leaked, \* ghost: of each object's count, what nobody will take back
  readded    \* ghost: a volume was removed from a model that contains it

heaps == <<localHeap, heap, leakedLocal, leaked>>
vars == <<kind, app, heaps, masterParam, readded>>

\* who may refer to whom: the application builds no cycles
Height == [renderer |-> 3, model |-> 2, geometry |-> 1, volume |-> 1,
           lights |-> 1, objects |-> 1, light |-> 0]

\* the master creates its own renderers and volumes (NewRenderer::runOnMaster)
OnMaster(o) == kind[o] \in {"renderer", "volume"}

Init ==
  /\ kind = [o \in Object |-> None] /\ app = {}
  /\ heap = [o \in Object |-> [count |-> 0, param |-> None, list |-> <<>>]]
  /\ localHeap = heap
  /\ masterParam = [o \in Object |-> None]
  /\ leakedLocal = [o \in Object |-> 0] /\ leaked = leakedLocal /\ readded = FALSE

-----------------------------------------------------------------------------
(* Counted references.                                                     *)

\* what the destructor of o takes back: ~ManagedObject, ~Data, ~Ref.  An
\* array counts its items only if its type is OSP_OBJECT.
Counted(h, o) ==
  (IF kind[o] = "lights" THEN <<>> ELSE h[o].list)
    \o (IF h[o].param \in Object THEN <<h[o].param>> ELSE <<>>)

Heap == [Object -> [count : Nat, param : Object \cup {None, Plain, Null}, list : Seq(Object)]]

RefInc(h, o) == [h EXCEPT ![o].count = @ + 1]

\* refInc() of each of a list of objects
RefIncs(h, os) ==
  [o \in Object |-> [h[o] EXCEPT !.count = @ + Cardinality({i \in DOMAIN os : os[i] = o})]]

\* refDec() of each of a list of objects: the last one deletes the object
RefDecs[p \in Heap \X Seq(Object)] ==
  LET h == p[1]  os == p[2]
  IN IF os = <<>> THEN h
     ELSE IF h[Head(os)].count > 1
       THEN RefDecs[<<[h EXCEPT ![Head(os)].count = @ - 1], Tail(os)>>]
       ELSE RefDecs[<<[h EXCEPT ![Head(os)] = [count |-> 0, param |-> None, list |-> <<>>]],
                      Counted(h, Head(os)) \o Tail(os)>>]
RefDec(h, os) == RefDecs[<<h, os>>]

\* mutant: the new object is not counted
SetParam_Borrow(h, o, v) ==
  LET old == h[o].param
      set == [h EXCEPT ![o].param = v]
  IN IF v # Plain /\ old \in Object THEN RefDec(set, <<old>>) ELSE set

\* Param::set: the specialization for objects counts the new one, if there is
\* one, and then gives back the old; a plain value just takes the place of what
\* was there
SetParam(h, o, v) ==
  LET old == h[o].param
      set == [(IF v \in Object THEN RefInc(h, v) ELSE h) EXCEPT ![o].param = v]
  IN IF v # Plain /\ old \in Object THEN RefDec(set, <<old>>) ELSE set

\* Ref<>: push_back to a list
Push(h, o, v) == [RefInc(h, v) EXCEPT ![o].list = Append(@, v)]

\* std::find_if and erase of the first one
Erase(h, o, v) ==
  IF v \notin ToSet(h[o].list) THEN h
  ELSE RefDec([h EXCEPT ![o].list = RemoveFirst(@, v)], <<v>>)

-----------------------------------------------------------------------------
(* The calls.                                                              *)

fresh == CHOOSE o \in Object : kind[o] = None /\ \A p \in 1 .. o - 1 : kind[p] # None
MayCreate == \E o \in Object : kind[o] = None

\* ospNew*, NewObjectT::run: a count of 1, and the handle is assigned
New(k) ==
  /\ MayCreate
  /\ kind' = [kind EXCEPT ![fresh] = k]
  /\ app' = app \cup {fresh}
  /\ localHeap' = RefInc(localHeap, fresh) /\ heap' = RefInc(heap, fresh)
  /\ UNCHANGED <<masterParam, leakedLocal, leaked, readded>>

\* ospNewData of objects: a worker first turns the handles into addresses.
\* The constructor counts the items of an OSP_OBJECT array ("objects"), and
\* not those of an OSP_LIGHT array ("lights").
NewData(k, items) ==
  LET create(h) ==
        [(IF k = "objects" THEN RefIncs(h, items) ELSE h) EXCEPT
           ![fresh].count = 1, ![fresh].list = items]
  IN /\ MayCreate
     /\ ToSet(items) \subseteq app
     /\ kind' = [kind EXCEPT ![fresh] = k]
     /\ app' = app \cup {fresh}
     /\ localHeap' = create(localHeap) /\ heap' = create(heap)
     /\ UNCHANGED <<masterParam, leakedLocal, leaked, readded>>

\* ospSetObject; the master does not run it
SetObject(o, v) ==
  /\ {o, v} \subseteq app /\ Height[kind[v]] < Height[kind[o]]
  /\ localHeap' = SetParam(localHeap, o, v) /\ heap' = SetParam(heap, o, v)
  /\ UNCHANGED <<kind, app, masterParam, leakedLocal, leaked, readded>>

\* A null pointer reads like no parameter (getParam returns the default).  The
\* two are told apart only where the master keeps the parameters as well: it
\* learns of a parameter that is removed, and not of a null pointer.
Nothing(o) == IF OnMaster(o) THEN Null ELSE None

\* ospSetObject with NULL
SetNull(o) ==
  /\ o \in app
  /\ localHeap' = SetParam(localHeap, o, Nothing(o)) /\ heap' = SetParam(heap, o, Nothing(o))
  /\ UNCHANGED <<kind, app, masterParam, leakedLocal, leaked, readded>>

\* the count that a parameter had on an object is lost
Leak(l, p) == IF p \in Object THEN [l EXCEPT ![p] = @ + 1] ELSE l
Bounded(l) == SumFunction(l) <= MaxLeaks

\* ospSet1i, ospSetString, ...
SetPlain(o) ==
  /\ o \in app
  /\ localHeap' = SetParam(localHeap, o, Plain) /\ heap' = SetParam(heap, o, Plain)
  /\ leakedLocal' = Leak(leakedLocal, localHeap[o].param)
  /\ leaked' = Leak(leaked, heap[o].param) /\ Bounded(leaked')
  /\ masterParam' = IF OnMaster(o) THEN [masterParam EXCEPT ![o] = Plain] ELSE masterParam
  /\ UNCHANGED <<kind, app, readded>>

\* ospRemoveParam: the local device gives back an object, a worker does not
RemoveParam(o) ==
  LET old == localHeap[o].param
  IN /\ o \in app
     /\ localHeap' = [(IF old \in Object THEN RefDec(localHeap, <<old>>) ELSE localHeap)
                       EXCEPT ![o].param = None]
     /\ heap' = [heap EXCEPT ![o].param = None]
     /\ leaked' = Leak(leaked, heap[o].param) /\ Bounded(leaked')
     /\ masterParam' = IF OnMaster(o) THEN [masterParam EXCEPT ![o] = None] ELSE masterParam
     /\ UNCHANGED <<kind, app, leakedLocal, readded>>

\* ospAddGeometry, ospAddVolume
AddTo(m, v) ==
  /\ {m, v} \subseteq app
  /\ kind[m] = "model" /\ kind[v] \in {"geometry", "volume"}
  /\ Len(heap[m].list) < MaxListed
  /\ localHeap' = Push(localHeap, m, v) /\ heap' = Push(heap, m, v)
  /\ UNCHANGED <<kind, app, masterParam, leakedLocal, leaked, readded>>

\* ospRemoveGeometry, ospRemoveVolume; RemoveVolume::run adds the volume
\* before it erases the first one
RemoveFrom(m, v) ==
  /\ {m, v} \subseteq app
  /\ kind[m] = "model" /\ kind[v] \in {"geometry", "volume"}
  /\ localHeap' = Erase(localHeap, m, v)
  /\ heap' = Erase(IF kind[v] = "volume" THEN Push(heap, m, v) ELSE heap, m, v)
  /\ readded' = (readded \/ (kind[v] = "volume" /\ v \in ToSet(heap[m].list)))
  /\ UNCHANGED <<kind, app, masterParam, leakedLocal, leaked>>

\* ospSetMaterial: Geometry::setMaterial wraps the material in an array of
\* one and replaces the array it holds (a light stands for any leaf)
SetMaterial(g, v) ==
  LET set(h) == RefDec([RefInc(h, v) EXCEPT ![g].list = <<v>>], h[g].list)
  IN /\ {g, v} \subseteq app
     /\ kind[g] = "geometry" /\ kind[v] = "light"
     /\ localHeap' = set(localHeap) /\ heap' = set(heap)
     /\ UNCHANGED <<kind, app, masterParam, leakedLocal, leaked, readded>>

\* mutant: the device forgets the object without giving it back
Release_Forget(o) ==
  /\ o \in app
  /\ app' = app \ {o}
  /\ localHeap' = RefDec(localHeap, <<o>>) /\ UNCHANGED heap
  /\ masterParam' = [masterParam EXCEPT ![o] = None]
  /\ UNCHANGED <<kind, leakedLocal, leaked, readded>>

\* ospRelease: freeObject gives the object back and forgets its handle
Release(o) ==
  /\ o \in app
  /\ app' = app \ {o}
  /\ localHeap' = RefDec(localHeap, <<o>>) /\ heap' = RefDec(heap, <<o>>)
  /\ masterParam' = [masterParam EXCEPT ![o] = None]
  /\ UNCHANGED <<kind, leakedLocal, leaked, readded>>

Next ==
  \/ \E k \in {"renderer", "model", "geometry", "volume", "light"} : New(k)
  \/ \E k \in {"lights", "objects"}, n \in 1 .. MaxListed :
       \E items \in [1 .. n -> {o \in app : kind[o] = "light"}] : NewData(k, items)
  \/ \E o, v \in app :
       SetObject(o, v) \/ AddTo(o, v) \/ RemoveFrom(o, v) \/ SetMaterial(o, v)
  \/ \E o \in app : heap[o].param \in Object /\ SetNull(o) \* bound: elsewhere it counts nothing
  \/ \E o \in app : SetPlain(o) \/ RemoveParam(o) \/ Release(o)

-----------------------------------------------------------------------------
(* Properties.                                                             *)

TypeOK ==
  /\ app \subseteq {o \in Object : kind[o] # None}
  /\ \A h \in {localHeap, heap}, o \in Object :
       /\ h[o].count \in Nat
       /\ h[o].param \in Object \cup {None, Plain, Null}
       /\ h[o].list \in Seq(Object)
  /\ masterParam \in [Object -> {None, Plain}]

\* everything that can be reached from a set of objects by counted references:
\* what is in every set that contains them and is closed under the references
Reach(h, roots) ==
  LET closed == {R \in SUBSET Object :
                   roots \subseteq R /\ \A o \in R : ToSet(Counted(h, o)) \subseteq R}
  IN {o \in Object : \A R \in closed : o \in R}

Exists(h) == {o \in Object : h[o].count > 0}

\* An object that exists refers to objects that exist, by its parameter and by
\* its list.  The exception contradicts "will automatically live as long as any
\* other object (and/or the application) still need it" (Managed.h:45): an item
\* of an array of lights may be gone once the application has released it,
\* since Data::Data does not count it.
NothingDangles(h) == \A o \in Exists(h) :
  /\ h[o].param \in Object => h[o].param \in Exists(h)
  /\ \A v \in ToSet(h[o].list) : v \in Exists(h) \/ (kind[o] = "lights" /\ v \notin app)

\* What exists is what the application keeps, what has leaked and what these
\* need, directly or not, by references that are counted.
OnlyNeeded(h, l) == Exists(h) = Reach(h, app \cup {o \in Object : l[o] > 0})

\* An object exists as long as the application or another object that exists
\* needs it, and no longer (Managed.h, "Reference counting"), in both devices:
\* but for the items of arrays of lights, which may be gone, and for what
\* Param::set and RemoveParam leak, which stays.
LivesUnlessUncounted ==
  \A d \in {<<localHeap, leakedLocal>>, <<heap, leaked>>} :
    NothingDangles(d[1]) /\ OnlyNeeded(d[1], d[2])

\* A worker's objects are those of the local device, with the same parameters
\* and lists, except for what RemoveParam leaks and RemoveVolume re-adds.
WorkersAgree ==
  leaked = leakedLocal /\ ~readded => heap = localHeap

\* What setRegion asks the master for, the type of a volume's voxels, is what
\* the workers have (MPIOffloadDevice::setRegion, getString).
MasterKnows == \A o \in app :
  /\ OnMaster(o) /\ heap[o].param = Plain => masterParam[o] = Plain
  /\ OnMaster(o) /\ heap[o].param = None => masterParam[o] = None

\* "remove an existing volume from a model" (MPIOffloadDevice.cpp:811): the
\* workers' models are those of the local device.
VolumesRemoved == \A m \in app :
  kind[m] = "model" => heap[m].list = localHeap[m].list
=============================================================================
