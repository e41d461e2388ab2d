------------------------ MODULE MCDistributedFrame_proofs ------------------------
(***************************************************************************)
(* Frames in every way they are rendered, for every value of the constants:*)
(* what the run frames checks, from the facts about DistributedFrame and   *)
(* LocalFrame, and from the invariants of FrameProgress proved here.  The  *)
(* modules that MCDistributedFrame instantiates are those whose facts are  *)
(* instantiated here: Distributed is DP, Local is LP.                      *)
(***************************************************************************)
EXTENDS MCDistributedFrame, DistributedFrame_proofs

LP == INSTANCE LocalFrame_proofs WITH
  NumTiles <- LocalTiles, MaxFrames <- LocalFrames

framesVars == <<mode, vars, progressVars, localVars>>

(***************************************************************************)
(* Progress and cancellation in replicated rendering.                      *)
(***************************************************************************)
Teller == "master"

ProgressTypes ==
  /\ at \in [Progress!Rank -> {"idle", "started", "render", "barrier", "stopped",
                              "telling", "bcast"}]
  /\ progressFrame \in [Progress!Rank -> Nat]
  /\ reporting \in [Progress!Rank -> BOOLEAN]
  /\ ended \in [Progress!Rank -> {"shown", "cancelled"}]
  /\ cancelRendering \in BOOLEAN /\ asked \in BOOLEAN

\* The ranks of a frame: nobody is a frame ahead but to start it, and nobody
\* ends a frame before the master.
StepOf(w) ==
  /\ progressFrame[w] < progressFrame[Teller] =>
       progressFrame[w] + 1 = progressFrame[Teller] /\ at[w] = "idle"
  /\ progressFrame[w] > progressFrame[Teller] =>
       /\ progressFrame[w] = progressFrame[Teller] + 1
       /\ at[w] = "started" /\ at[Teller] = "idle"
  /\ progressFrame[w] = progressFrame[Teller] =>
       /\ at[Teller] # "idle" => at[w] # "idle"
       /\ at[Teller] = "started" => at[w] = "started"
       /\ at[w] \notin {"idle", "started"} => reporting[w] = reporting[Teller]

RanksInStep == \A w \in Worker : StepOf(w)

\* The master's flag is what the application said in this frame, and what
\* the frame ended with.
FlagFollows ==
  /\ at[Teller] \notin {"idle", "started"} => asked = cancelRendering
  /\ Progress!CancelHonoured

ProgressIInv == ProgressTypes /\ RanksInStep /\ FlagFollows

-----------------------------------------------------------------------------
\* Before the first frame.
LEMMA InitProgress == Progress!Init => ProgressIInv
<1> SUFFICES ASSUME Progress!Init
             PROVE  ProgressIInv
  OBVIOUS
<1>1. ProgressTypes
  BY DEF Progress!Init, ProgressTypes, Progress!Rank
<1>2. RanksInStep
  BY DEF Progress!Init, RanksInStep, StepOf, Progress!Rank, Teller
<1>3. FlagFollows
  BY DEF Progress!Init, FlagFollows, Progress!CancelHonoured, Progress!Rank,
      Teller
<1>4. QED
  BY <1>1, <1>2, <1>3 DEF ProgressIInv

\* The main thread of the master, and what it tells the application.
LEMMA NextTeller ==
  ASSUME ProgressIInv, Teller \notin Worker,
         Progress!MainThread(Teller) \/ Progress!ReportDone \/ Progress!ReportDoneReturns
  PROVE  ProgressIInv'
<1> USE DEF ProgressIInv, ProgressTypes, RanksInStep, StepOf, FlagFollows,
    Progress!CancelHonoured, Progress!Rank, Teller, Progress!Goto
<1>1. CASE Progress!StartNewFrame(Teller)
  <2>1. /\ at' = [at EXCEPT ![Teller] = "started"]
        /\ progressFrame' = [progressFrame EXCEPT ![Teller] = @ + 1]
        /\ at[Teller] = "idle" /\ UNCHANGED <<reporting, ended, cancelRendering, asked>>
        /\ \A s \in Progress!Rank :
             progressFrame[s] > progressFrame[Teller] \/ (progressFrame[s] = progressFrame[Teller] /\ at[s] = "idle")
    BY <1>1 DEF Progress!StartNewFrame, Progress!answer
  <2>2. ProgressTypes'
    BY <2>1
  <2>3. RanksInStep'
    <3>1. SUFFICES ASSUME NEW v \in Worker
                   PROVE  StepOf(v)'
      BY DEF RanksInStep
    <3>2. QED
      BY <2>1
  <2>4. FlagFollows'
    BY <2>1
  <2>5. QED
    BY <2>2, <2>3, <2>4
<1>2. CASE Progress!BeginFrame(Teller)
  BY <1>2 DEF Progress!BeginFrame
<1>3. CASE Progress!EnterBarrier(Teller) \/ Progress!StopMessaging(Teller)
  BY <1>3 DEF Progress!EnterBarrier, Progress!StopMessaging, Progress!answer
<1>4. CASE Progress!EndFrame(Teller)
  BY <1>4 DEF Progress!EndFrame, Progress!answer
<1>5. CASE Progress!ReportDone
  BY <1>5 DEF Progress!ReportDone, Progress!answer
<1>6. CASE Progress!ReportDoneReturns
  BY <1>6 DEF Progress!ReportDoneReturns, Progress!Answered
<1>7. QED
  BY <1>1, <1>2, <1>3, <1>4, <1>5, <1>6 DEF Progress!MainThread

\* The main thread of a worker.
LEMMA NextWorker ==
  ASSUME ProgressIInv, Teller \notin Worker, NEW w \in Worker,
         Progress!MainThread(w) \/ Progress!CompleteTile(w)
  PROVE  ProgressIInv'
<1> USE DEF ProgressIInv, ProgressTypes, RanksInStep, StepOf, FlagFollows,
    Progress!CancelHonoured, Progress!Rank, Teller, Progress!Goto
<1>1. CASE Progress!StartNewFrame(w)
  <2>1. /\ at' = [at EXCEPT ![w] = "started"]
        /\ progressFrame' = [progressFrame EXCEPT ![w] = @ + 1]
        /\ at[w] = "idle" /\ UNCHANGED <<reporting, ended, cancelRendering, asked>>
        /\ \A s \in Progress!Rank :
             progressFrame[s] > progressFrame[w] \/ (progressFrame[s] = progressFrame[w] /\ at[s] = "idle")
    BY <1>1 DEF Progress!StartNewFrame, Progress!answer
  <2>2. ProgressTypes'
    BY <2>1
  <2>3. RanksInStep'
    <3>1. SUFFICES ASSUME NEW v \in Worker
                   PROVE  StepOf(v)'
      BY DEF RanksInStep
    <3>2. CASE v = w
      <4>1. /\ progressFrame'[v] = progressFrame[v] + 1
             /\ progressFrame'[Teller] = progressFrame[Teller]
            /\ at'[v] = "started" /\ at'[Teller] = at[Teller]
        BY <2>1, <3>2
      <4>2. \/ progressFrame[Teller] > progressFrame[v]
             \/ (progressFrame[Teller] = progressFrame[v] /\ at[Teller] = "idle")
        BY <2>1, <3>2
      <4>3. progressFrame[v] \in Nat /\ progressFrame[Teller] \in Nat
        OBVIOUS
      <4>4. QED
        BY <4>1, <4>2, <4>3
    <3>3. CASE v # w
      <4>1. /\ progressFrame'[v] = progressFrame[v] /\ progressFrame'[Teller] = progressFrame[Teller]
            /\ at'[v] = at[v] /\ at'[Teller] = at[Teller] /\ reporting' = reporting
        BY <2>1, <3>3
      <4>2. QED
        BY <4>1
    <3>4. QED
      BY <3>2, <3>3
  <2>4. FlagFollows'
    BY <2>1
  <2>5. QED
    BY <2>2, <2>3, <2>4
<1>2. CASE Progress!BeginFrame(w)
  BY <1>2 DEF Progress!BeginFrame, Progress!answer
<1>3. CASE Progress!EnterBarrier(w) \/ Progress!StopMessaging(w)
  BY <1>3 DEF Progress!EnterBarrier, Progress!StopMessaging, Progress!answer
<1>4. CASE Progress!EndFrame(w)
  BY <1>4 DEF Progress!EndFrame, Progress!answer
<1>5. CASE Progress!CompleteTile(w)
  BY <1>5 DEF Progress!CompleteTile, Progress!answer
<1>6. QED
  BY <1>1, <1>2, <1>3, <1>4, <1>5 DEF Progress!MainThread

\* A task in updateProgress, of whichever frame.
LEMMA NextReport ==
  ASSUME ProgressIInv, NEW k,
         Progress!Receive(k) \/ Progress!ReadCount(k) \/
         Progress!UpdateProgress(k) \/ Progress!CallbackReturns(k)
  PROVE  ProgressIInv'
<1> USE DEF ProgressIInv, ProgressTypes, RanksInStep, StepOf, FlagFollows,
    Progress!CancelHonoured, Progress!Rank, Teller, Progress!ranks,
    Progress!answer
<1>1. CASE Progress!Receive(k) \/ Progress!ReadCount(k) \/ Progress!UpdateProgress(k)
  BY <1>1 DEF Progress!Receive, Progress!ReadCount, Progress!UpdateProgress
<1>2. CASE Progress!CallbackReturns(k)
  BY <1>2 DEF Progress!CallbackReturns, Progress!Answered
<1>3. QED
  BY <1>1, <1>2

\* The ranks agree on a cancelled frame throughout.
LEMMA ProgressInvariance ==
  ASSUME "master" \notin Worker
  PROVE  FramesSpec => []ProgressIInv
<1>1. FramesInit => ProgressIInv
  BY InitProgress DEF FramesInit
<1>2. ProgressIInv /\ [FramesNext]_framesVars => ProgressIInv'
  <2> SUFFICES ASSUME ProgressIInv, [FramesNext]_framesVars
               PROVE  ProgressIInv'
    OBVIOUS
  <2>1. CASE UNCHANGED progressVars
    BY <2>1 DEF progressVars, ProgressIInv, ProgressTypes, RanksInStep, StepOf,
       FlagFollows, Progress!CancelHonoured, Progress!Rank, Teller
  <2>2. CASE Progress!Next
    BY <2>2, NextTeller, NextWorker, NextReport DEF Progress!Next, Progress!Rank, Teller
  <2>3. QED
    BY <2>1, <2>2 DEF FramesNext, framesVars
<1>3. QED
  BY <1>1, <1>2, PTL DEF FramesSpec, framesVars

\* Every rank ends a frame as cancelled exactly when the application has asked
\* for it (updateProgress, waitUntilFinished of DistributedFrameBuffer.cpp).
THEOREM CancelsEverywhere ==
  ASSUME "master" \notin Worker
  PROVE  FramesSpec => []CancelHonoured
<1>1. ProgressIInv => CancelHonoured
  BY DEF ProgressIInv, FlagFollows, CancelHonoured
<1>2. QED
  BY <1>1, ProgressInvariance, PTL

-----------------------------------------------------------------------------
(***************************************************************************)
(* The local device.                                                       *)
(***************************************************************************)

\* The third mode is the specification of the local device.
LEMMA RunsLocal == FramesSpec => LP!Spec
<1>1. FramesInit => LP!Init
  BY DEF FramesInit, Local!Init, LP!Init, Local!Tile, LP!Tile
<1>2. [FramesNext]_framesVars => [LP!Next]_(LP!vars)
  <2> SUFFICES ASSUME [FramesNext]_framesVars
               PROVE  [LP!Next]_(LP!vars)
    OBVIOUS
  <2>1. CASE UNCHANGED localVars
    BY <2>1 DEF localVars, LP!vars, LP!buffers, LP!frames
  <2>2. CASE Local!Next
    BY <2>2 DEF Local!Next, LP!Next, Local!Tile, LP!Tile, Local!Goto, LP!Goto,
       Local!BeginFrame, LP!BeginFrame, Local!EndFrame, LP!EndFrame,
       Local!Clear, LP!Clear, Local!StartTile, LP!StartTile,
       Local!SetTile, LP!SetTile, Local!ReportProgress, LP!ReportProgress,
       Local!CallbackReturns, LP!CallbackReturns,
       Local!buffers, LP!buffers, Local!frames, LP!frames
  <2>3. QED
    BY <2>1, <2>2 DEF FramesNext, framesVars
<1>3. QED
  BY <1>1, <1>2, PTL DEF FramesSpec, framesVars, LP!Spec

\* A tile of the local device shows the mean of its instances since the last
\* clear, whichever frames were cancelled (LocalFB::setTile).
THEOREM LocalMeans == FramesSpec => []TilesAreMeans
<1>1. LP!TilesAreMeans => TilesAreMeans
  BY DEF TilesAreMeans, Local!TilesAreMeans, LP!TilesAreMeans, Local!Tile, LP!Tile
<1>2. QED
  BY <1>1, RunsLocal, LP!MeansShown, PTL
-----------------------------------------------------------------------------
(***************************************************************************)
(* Types, and messages that stay in their frame, in every mode.            *)
(***************************************************************************)
DP == INSTANCE DistributedFrame_proofs WITH
  NumRanks <- 3, NumTiles <- 2, MasterIsAWorker <- TRUE,
  Renderers <- AllRenderers

\* No more instances of a tile than frames, and no task past the last frame.
LocalBounded ==
  /\ finished <= LocalFrames /\ (rendering => finished < LocalFrames)
  /\ \A t \in Local!Tile :
       /\ tileAccumID[t] <= finished + IF rendering THEN 1 ELSE 0
       /\ step[t] \in {"start", "render"} => rendering /\ tileAccumID[t] <= finished
       /\ accumID[t] <= LocalFrames
  /\ telling \in BOOLEAN

LocalTyped == LP!IInv /\ LocalBounded

\* A worker counts the tiles it had to complete, and a message that is sent
\* has a place in the network.
ProgressBounded ==
  /\ at \in [Progress!Rank -> {"idle", "started", "render", "barrier", "stopped",
                              "telling", "bcast"}]
  /\ progressFrame \in [Progress!Rank -> 0 .. MaxFrame]
  /\ counted \in [Progress!Rank -> Nat] /\ left \in [Worker -> Nat]
  /\ counted["master"] = 0
  /\ \A w \in Worker : counted[w] + left[w] <= TilesPerWorker
  /\ reports \in Seq([numCompleted : Nat, frame : 0 .. MaxFrame])
  /\ update \in Seq({"net", "queued", "add", "telling", "done"})
  /\ Len(update) = Len(reports)

-----------------------------------------------------------------------------
LEMMA InitLocal == Local!Init => LocalTyped
<1> SUFFICES ASSUME Local!Init
             PROVE  LocalTyped
  OBVIOUS
<1>1. LP!IInv
  BY LP!InitIInv DEF Local!Init, LP!Init, Local!Tile, LP!Tile
<1>2. LocalBounded
  <2>1. /\ finished = 0 /\ ~rendering /\ telling \in BOOLEAN /\ LocalFrames \in Nat
        /\ \A t \in Local!Tile : tileAccumID[t] = 0 /\ step[t] = "done" /\ accumID[t] = 0
    BY SizesAssumption DEF Local!Init
  <2>2. QED
    BY <2>1 DEF LocalBounded
<1>3. QED
  BY <1>1, <1>2 DEF LocalTyped

\* The modules Local and LP are the same one.
LEMMA LocalSteps == [Local!Next]_(Local!vars) <=> [LP!Next]_(LP!vars)
BY DEF Local!Next, LP!Next, Local!Tile, LP!Tile, Local!Goto, LP!Goto,
  Local!BeginFrame, LP!BeginFrame, Local!EndFrame, LP!EndFrame,
  Local!Clear, LP!Clear, Local!StartTile, LP!StartTile,
  Local!SetTile, LP!SetTile, Local!ReportProgress, LP!ReportProgress,
  Local!CallbackReturns, LP!CallbackReturns,
  Local!buffers, LP!buffers, Local!frames, LP!frames, Local!vars, LP!vars

LEMMA NextLocal ==
  ASSUME LocalTyped, Local!Next
  PROVE  LocalTyped'
<1>1. LP!IInv'
  BY LP!NextIInv, LocalSteps DEF LocalTyped
<1>2. LocalBounded'
  <2>1. /\ LocalFrames \in Nat /\ finished \in Nat /\ rendering \in BOOLEAN
        /\ step \in [Local!Tile -> {"start", "render", "report", "telling", "done"}]
        /\ accumID \in [Local!Tile -> Nat] /\ tileAccumID \in [Local!Tile -> Nat]
        /\ (rendering \/ \A t \in Local!Tile : step[t] = "done")
        /\ \A t \in Local!Tile : step[t] = "render" => accumID[t] = tileAccumID[t]
    BY SizesAssumption DEF LocalTyped, LP!IInv, LP!Types, LP!TaskOwnsTile, LP!Tile, Local!Tile
  <2> USE DEF LocalTyped, LocalBounded, Local!Goto, Local!buffers, Local!frames
  <2>2. CASE Local!BeginFrame
    BY <2>1, <2>2 DEF Local!BeginFrame
  <2>3. CASE Local!EndFrame
    BY <2>1, <2>3 DEF Local!EndFrame
  <2>4. CASE Local!Clear
    BY <2>1, <2>4 DEF Local!Clear
  <2>5. ASSUME NEW t \in Local!Tile, Local!StartTile(t)
        PROVE  LocalBounded'
    BY <2>1, <2>5 DEF Local!StartTile
  <2>6. ASSUME NEW t \in Local!Tile, Local!SetTile(t)
        PROVE  LocalBounded'
    BY <2>1, <2>6 DEF Local!SetTile
  <2>7. ASSUME NEW t \in Local!Tile, Local!ReportProgress(t)
        PROVE  LocalBounded'
    BY <2>1, <2>7 DEF Local!ReportProgress
  <2>8. ASSUME NEW t \in Local!Tile, Local!CallbackReturns(t)
        PROVE  LocalBounded'
    BY <2>1, <2>8 DEF Local!CallbackReturns
  <2>9. QED
    BY <2>2, <2>3, <2>4, <2>5, <2>6, <2>7, <2>8 DEF Local!Next
<1>3. QED
  BY <1>1, <1>2 DEF LocalTyped

\* What it means for the types of the local device.
LEMMA LocalImplies == LocalTyped => Local!TypeOK
<1> SUFFICES ASSUME LocalTyped
             PROVE  Local!TypeOK
  OBVIOUS
<1>1. /\ LocalFrames \in Nat /\ finished \in Nat /\ cancel \in BOOLEAN
      /\ step \in [Local!Tile -> {"start", "render", "report", "telling", "done"}]
      /\ accumID \in [Local!Tile -> Nat] /\ tileAccumID \in [Local!Tile -> Nat]
      /\ below \subseteq Local!Tile
  BY SizesAssumption DEF LocalTyped, LP!IInv, LP!Types, LP!Tile, Local!Tile
<1>2. \A t \in Local!Tile : accumID[t] \in 0 .. LocalFrames /\ tileAccumID[t] \in 0 .. LocalFrames
  BY <1>1 DEF LocalTyped, LocalBounded
<1>3. QED
  BY <1>1, <1>2 DEF Local!TypeOK, LocalTyped, LocalBounded

-----------------------------------------------------------------------------
LEMMA InitBounded == Progress!Init => ProgressBounded
BY SizesAssumption, FrameAssumption DEF Progress!Init, ProgressBounded, Progress!Rank

\* The end of isFrameComplete.
LEMMA CountBounded ==
  ASSUME ProgressBounded, NEW r \in Progress!Rank, NEW n \in Nat,
         Progress!CountAndReport(r, n)
  PROVE  /\ counted' \in [Progress!Rank -> Nat]
         /\ counted'[r] <= counted[r] + n
         /\ \A q \in Progress!Rank : q # r => counted'[q] = counted[q]
         /\ reports' \in Seq([numCompleted : Nat, frame : 0 .. MaxFrame])
         /\ update' \in Seq({"net", "queued", "add", "telling", "done"})
         /\ Len(update') = Len(reports')
<1>1. counted[r] \in Nat /\ counted[r] + n \in Nat /\ progressFrame[r] \in 0 .. MaxFrame
  BY DEF ProgressBounded
<1>2. CASE UNCHANGED <<counted, Progress!messages>>
  BY <1>1, <1>2 DEF ProgressBounded, Progress!messages
<1>3. CASE /\ counted' = [counted EXCEPT ![r] = counted[r] + n]
           /\ UNCHANGED Progress!messages
  BY <1>1, <1>3 DEF ProgressBounded, Progress!messages
<1>4. CASE /\ reports' = Append(reports, [numCompleted |-> counted[r] + n, frame |-> progressFrame[r]])
           /\ update' = Append(update, "net")
           /\ counted' = [counted EXCEPT ![r] = 0]
  <2>1. [numCompleted |-> counted[r] + n, frame |-> progressFrame[r]]
          \in [numCompleted : Nat, frame : 0 .. MaxFrame]
    BY <1>1
  <2>2. /\ reports' \in Seq([numCompleted : Nat, frame : 0 .. MaxFrame])
        /\ Len(reports') = Len(reports) + 1
    BY <1>4, <2>1 DEF ProgressBounded
  <2>3. /\ update' \in Seq({"net", "queued", "add", "telling", "done"})
        /\ Len(update') = Len(update) + 1
    BY <1>4 DEF ProgressBounded
  <2>4. QED
    BY <1>1, <1>4, <2>2, <2>3 DEF ProgressBounded
<1>5. QED
  BY <1>2, <1>3, <1>4 DEF Progress!CountAndReport

LEMMA NextBounded ==
  ASSUME ProgressBounded, "master" \notin Worker, Progress!Next
  PROVE  ProgressBounded'
<1>1. MaxFrame \in Nat /\ TilesPerWorker \in Nat /\ "master" \in Progress!Rank
      /\ \A w \in Worker : w \in Progress!Rank /\ w # "master"
  BY FrameAssumption, SizesAssumption DEF Progress!Rank
<1>2. ASSUME NEW r \in Progress!Rank, Progress!StartNewFrame(r)
      PROVE  ProgressBounded'
  <2>1. /\ at' = [at EXCEPT ![r] = "started"] /\ progressFrame' = [progressFrame EXCEPT ![r] = @ + 1]
        /\ progressFrame[r] < MaxFrame /\ counted' = [counted EXCEPT ![r] = 0]
        /\ UNCHANGED <<reports, update>>
    BY <1>2 DEF Progress!StartNewFrame, Progress!Goto, Progress!messages
  <2>2. CASE r = "master"
    <3>1. left' = left
      BY <1>2, <2>2 DEF Progress!StartNewFrame
    <3>2. QED
      BY <1>1, <2>1, <2>2, <3>1 DEF ProgressBounded
  <2>3. CASE r # "master"
    <3>1. PICK n \in 0 .. TilesPerWorker : left' = [left EXCEPT ![r] = n]
      BY <1>2, <2>3 DEF Progress!StartNewFrame
    <3>2. r \in Worker
      BY <2>3 DEF Progress!Rank
    <3>3. \A w \in Worker : counted'[w] + left'[w] <= TilesPerWorker
      BY <1>1, <2>1, <3>1, <3>2 DEF ProgressBounded
    <3>4. QED
      BY <1>1, <2>1, <2>3, <3>1, <3>2, <3>3 DEF ProgressBounded
  <2>4. QED
    BY <2>2, <2>3
<1>3. ASSUME NEW r \in Progress!Rank, Progress!BeginFrame(r)
      PROVE  ProgressBounded'
  <2>1. /\ Progress!CountAndReport(r, 0) /\ at' = [at EXCEPT ![r] = "render"]
        /\ UNCHANGED <<progressFrame, left>>
    BY <1>3 DEF Progress!BeginFrame, Progress!Goto
  <2>2. /\ counted' \in [Progress!Rank -> Nat]
        /\ counted'[r] <= counted[r] + 0
        /\ \A q \in Progress!Rank : q # r => counted'[q] = counted[q]
        /\ reports' \in Seq([numCompleted : Nat, frame : 0 .. MaxFrame])
        /\ update' \in Seq({"net", "queued", "add", "telling", "done"})
        /\ Len(update') = Len(reports')
    BY <2>1, CountBounded, 0 \in Nat
  <2>3. counted'["master"] = 0 /\ \A w \in Worker : counted'[w] + left'[w] <= TilesPerWorker
    <3>1. \A q \in Progress!Rank : counted'[q] \in Nat /\ counted[q] \in Nat /\ counted'[q] <= counted[q]
      <4>1. \A q \in Progress!Rank : counted'[q] \in Nat /\ counted[q] \in Nat
        BY <2>2 DEF ProgressBounded
      <4>2. QED
        BY <2>2, <4>1
    <3>2. \A w \in Worker : left[w] \in Nat /\ counted[w] + left[w] <= TilesPerWorker
      BY DEF ProgressBounded
    <3>3. counted["master"] = 0 /\ left' = left
      BY <2>1 DEF ProgressBounded
    <3>4. QED
      BY <1>1, <3>1, <3>2, <3>3
  <2>4. QED
    BY <2>1, <2>2, <2>3 DEF ProgressBounded
<1>4. ASSUME NEW w \in Worker, Progress!CompleteTile(w)
      PROVE  ProgressBounded'
  <2>1. /\ Progress!CountAndReport(w, 1) /\ left[w] > 0 /\ left' = [left EXCEPT ![w] = @ - 1]
        /\ UNCHANGED <<at, progressFrame>>
    BY <1>4 DEF Progress!CompleteTile
  <2>2. /\ counted' \in [Progress!Rank -> Nat]
        /\ counted'[w] <= counted[w] + 1
        /\ \A q \in Progress!Rank : q # w => counted'[q] = counted[q]
        /\ reports' \in Seq([numCompleted : Nat, frame : 0 .. MaxFrame])
        /\ update' \in Seq({"net", "queued", "add", "telling", "done"})
        /\ Len(update') = Len(reports')
    BY <1>1, <2>1, CountBounded
  <2>3. left' \in [Worker -> Nat]
    BY <2>1 DEF ProgressBounded
  <2>4. counted'["master"] = 0 /\ \A v \in Worker : counted'[v] + left'[v] <= TilesPerWorker
    BY <1>1, <2>1, <2>2 DEF ProgressBounded
  <2>5. QED
    BY <2>1, <2>2, <2>3, <2>4 DEF ProgressBounded
<1>5. ASSUME NEW r \in Progress!Rank,
             Progress!EnterBarrier(r) \/ Progress!StopMessaging(r) \/ Progress!EndFrame(r)
               \/ Progress!ReportDone \/ Progress!ReportDoneReturns
      PROVE  ProgressBounded'
  <2>1. /\ at' \in [Progress!Rank -> {"idle", "started", "render", "barrier", "stopped",
                                      "telling", "bcast"}]
        /\ UNCHANGED <<progressFrame, counted, left, reports, update>>
    BY <1>1, <1>5 DEF ProgressBounded, Progress!EnterBarrier, Progress!StopMessaging,
       Progress!EndFrame, Progress!ReportDone, Progress!ReportDoneReturns, Progress!Goto,
       Progress!messages
  <2>2. QED
    BY <2>1 DEF ProgressBounded
<1>6. ASSUME NEW k \in DOMAIN reports,
             Progress!Receive(k) \/ Progress!ReadCount(k) \/ Progress!UpdateProgress(k)
               \/ Progress!CallbackReturns(k)
      PROVE  ProgressBounded'
  <2>1. \E l \in {"queued", "add", "telling", "done"} : update' = [update EXCEPT ![k] = l]
    BY <1>6 DEF Progress!Receive, Progress!ReadCount, Progress!UpdateProgress,
       Progress!CallbackReturns, Progress!Become
  <2>2. UNCHANGED <<at, progressFrame, counted, left, reports>>
    BY <1>6 DEF Progress!Receive, Progress!ReadCount, Progress!UpdateProgress,
       Progress!CallbackReturns, Progress!Become, Progress!ranks
  <2>3. QED
    BY <2>1, <2>2 DEF ProgressBounded
<1>7. QED
  BY <1>1, <1>2, <1>3, <1>4, <1>5, <1>6 DEF Progress!Next, Progress!MainThread

LEMMA ProgressImplies == ProgressBounded /\ "master" \notin Worker => Progress!TypeOK
<1> SUFFICES ASSUME ProgressBounded, "master" \notin Worker
             PROVE  Progress!TypeOK
  OBVIOUS
<1>1. \A r \in Progress!Rank : counted[r] \in 0 .. TilesPerWorker
  BY SizesAssumption DEF ProgressBounded, Progress!Rank
<1>2. DOMAIN update = DOMAIN reports
  BY DEF ProgressBounded
<1>3. QED
  BY <1>1, <1>2 DEF ProgressBounded, Progress!TypeOK

-----------------------------------------------------------------------------
\* What replicated rendering with three ranks and two tiles assumes, and that
\* a rank of it owns only tiles it renders a part of.
LEMMA DistributedConstants ==
  /\ 3 \in Nat \ {0} /\ 2 \in Nat /\ TRUE \in BOOLEAN /\ CanCancel \in BOOLEAN
  /\ ~TRUE => 3 > 1
  /\ AllRenderers \in [DP!Tile -> (SUBSET DP!Rank) \ {{}}]
  /\ MaxFrame \in Nat
  /\ DP!OwnersRender
<1>1. CanCancel \in BOOLEAN /\ MaxFrame \in Nat
  BY RankAssumption, FrameAssumption
<1>2. DP!Tile = 0 .. 1 /\ DP!Rank = 0 .. 2
  BY DEF DP!Tile, DP!Rank
<1>3. AllRenderers \in [DP!Tile -> (SUBSET DP!Rank) \ {{}}]
  BY <1>2 DEF AllRenderers
<1>4. DP!OwnersRender
  <2>1. \A t \in 0 .. 1 : t % 3 \in 0 .. 2
    OBVIOUS
  <2>2. QED
    BY <1>2, <2>1 DEF DP!OwnersRender, DP!OwnerOf, AllRenderers
<1>5. QED
  BY <1>1, <1>3, <1>4

LEMMA InitDistributed == Distributed!Init => DP!ShownInv
<1>1. Distributed!Init => DP!Init
  BY DEF Distributed!Init, DP!Init, Distributed!Rank, DP!Rank, Distributed!Tile, DP!Tile
<1>2. QED
  BY <1>1, DP!InitShown, DistributedConstants

\* The modules Distributed and DP are the same one.
LEMMA SameCardinality ==
  \A S : Distributed!Cardinality(S) = Cardinality(S) /\ DP!Cardinality(S) = Cardinality(S)
BY DEF Cardinality, Distributed!Cardinality, DP!Cardinality

LEMMA DistributedSteps == Distributed!Next => DP!Next
<1> USE DEF Distributed!Rank, DP!Rank, Distributed!Tile, DP!Tile, Distributed!Master, DP!Master,
    Distributed!OwnerOf, DP!OwnerOf, Distributed!MyTiles, DP!MyTiles,
    Distributed!main, DP!main, Distributed!flags, DP!flags, Distributed!tiles, DP!tiles,
    Distributed!msgs, DP!msgs, Distributed!Goto, DP!Goto, Distributed!Call, DP!Call,
    Distributed!HoldsMutex, DP!HoldsMutex, Distributed!FromMaster, DP!FromMaster,
    Distributed!BcastReady, DP!BcastReady, Distributed!AllCalled, DP!AllCalled,
    Distributed!Reports, DP!Reports, Distributed!Gathered, DP!Gathered,
    Distributed!IsComplete, DP!IsComplete
<1>0. \A S : Distributed!Cardinality(S) = DP!Cardinality(S)
  BY SameCardinality
<1>1. \A r \in Distributed!Rank :
        /\ Distributed!EnterBarrier(r) => DP!EnterBarrier(r)
        /\ Distributed!LeaveBarrier(r) => DP!LeaveBarrier(r)
        /\ Distributed!StartNewFrame(r) => DP!StartNewFrame(r)
  BY <1>0 DEF Distributed!EnterBarrier, DP!EnterBarrier, Distributed!LeaveBarrier, DP!LeaveBarrier,
     Distributed!StartNewFrame, DP!StartNewFrame
<1>2. \A r \in Distributed!Rank :
        /\ Distributed!CheckComplete(r) => DP!CheckComplete(r)
        /\ Distributed!CloseAtStart(r) => DP!CloseAtStart(r)
        /\ Distributed!BeginFrame(r) => DP!BeginFrame(r)
        /\ Distributed!RenderingDone(r) => DP!RenderingDone(r)
  BY <1>0 DEF Distributed!CheckComplete, DP!CheckComplete, Distributed!CloseAtStart, DP!CloseAtStart,
     Distributed!BeginFrame, DP!BeginFrame, Distributed!RenderingDone, DP!RenderingDone
<1>3. \A r \in Distributed!Rank :
        /\ Distributed!EnterIbarrier(r) => DP!EnterIbarrier(r)
        /\ Distributed!LeaveIbarrier(r) => DP!LeaveIbarrier(r)
        /\ Distributed!StopMessaging(r) => DP!StopMessaging(r)
        /\ Distributed!BcastCancelled(r) => DP!BcastCancelled(r)
  BY DEF Distributed!EnterIbarrier, DP!EnterIbarrier, Distributed!LeaveIbarrier, DP!LeaveIbarrier,
     Distributed!StopMessaging, DP!StopMessaging, Distributed!BcastCancelled, DP!BcastCancelled
<1>4. \A r \in Distributed!Rank :
        /\ Distributed!Gather(r) => DP!Gather(r)
        /\ Distributed!EndFrame(r) => DP!EndFrame(r)
        /\ Distributed!Clear(r) => DP!Clear(r)
        /\ Distributed!CloseByTask(r) => DP!CloseByTask(r)
  BY DEF Distributed!Gather, DP!Gather, Distributed!EndFrame, DP!EndFrame,
     Distributed!Clear, DP!Clear, Distributed!CloseByTask, DP!CloseByTask
<1>5. Distributed!Assemble => DP!Assemble
  BY DEF Distributed!Assemble, DP!Assemble
<1>6. \A r \in Distributed!Rank, t \in Distributed!Tile :
        Distributed!RenderTile(r, t) => DP!RenderTile(r, t)
  BY <1>0 DEF Distributed!RenderTile, DP!RenderTile, Distributed!ProcessPart, DP!ProcessPart
<1>7. \A t \in Distributed!Tile :
        /\ Distributed!StoreTile(t) => DP!StoreTile(t)
        /\ Distributed!CountTile(t) => DP!CountTile(t)
  BY <1>0 DEF Distributed!StoreTile, DP!StoreTile, Distributed!CountTile, DP!CountTile
<1>8. \A m :
        /\ Distributed!Receive(m) => DP!Receive(m)
        /\ Distributed!Incoming(m) => DP!Incoming(m)
        /\ Distributed!ProcessMessage(m) => DP!ProcessMessage(m)
  BY <1>0 DEF Distributed!Receive, DP!Receive, Distributed!Incoming, DP!Incoming,
     Distributed!ProcessMessage, DP!ProcessMessage, Distributed!ProcessPart, DP!ProcessPart
<1>9. \A r \in Distributed!Rank : Distributed!MainThread(r) => DP!MainThread(r)
  BY <1>1, <1>2, <1>3, <1>4, <1>5 DEF Distributed!MainThread, DP!MainThread
<1>10. QED
  BY <1>4, <1>6, <1>7, <1>8, <1>9 DEF Distributed!Next, DP!Next

LEMMA NextDistributed ==
  ASSUME DP!ShownInv, Distributed!Next \/ UNCHANGED vars
  PROVE  DP!ShownInv'
<1>1. [DP!Next]_(DP!vars)
  BY DistributedSteps DEF vars, main, flags, tiles, msgs, DP!vars, DP!main, DP!flags, DP!tiles, DP!msgs
<1>2. QED
  BY <1>1, DP!NextShownInv, DistributedConstants

-----------------------------------------------------------------------------
\* In every mode the module of the mode keeps its invariant.
FramesInv ==
  /\ IF mode = "distributed" THEN DP!ShownInv ELSE ShownInv
  /\ ProgressBounded /\ LocalTyped

LEMMA FramesInvariance ==
  ASSUME OwnersRender, "master" \notin Worker
  PROVE  FramesSpec => []FramesInv
<1>1. FramesInit => FramesInv
  BY InitDistributed, InitShown, InitBounded, InitLocal DEF FramesInit, FramesInv
<1>2. FramesInv /\ [FramesNext]_framesVars => FramesInv'
  <2> SUFFICES ASSUME FramesInv, [FramesNext]_framesVars
               PROVE  FramesInv'
    OBVIOUS
  <2>1. mode' = mode
    BY DEF FramesNext, framesVars
  <2>2. LocalTyped'
    <3>1. UNCHANGED localVars => UNCHANGED Local!vars
      BY DEF localVars, Local!vars, Local!buffers, Local!frames
    <3>2. CASE UNCHANGED localVars
      <4>1. LP!IInv'
        BY <3>1, <3>2, LP!NextIInv, LocalSteps DEF LocalTyped, FramesInv
      <4>2. LocalBounded'
        BY <3>2 DEF LocalTyped, FramesInv, LocalBounded, localVars, Local!Tile
      <4>3. QED
        BY <4>1, <4>2 DEF LocalTyped
    <3>3. CASE Local!Next
      BY <3>3, NextLocal DEF FramesInv
    <3>4. QED
      BY <3>2, <3>3 DEF FramesNext, framesVars
  <2>3. ProgressBounded'
    <3>1. CASE UNCHANGED progressVars
      BY <3>1 DEF FramesInv, ProgressBounded, progressVars
    <3>2. CASE Progress!Next
      BY <3>2, NextBounded DEF FramesInv
    <3>3. QED
      BY <3>1, <3>2 DEF FramesNext, framesVars
  <2>4. CASE mode = "distributed"
    <3>1. DP!ShownInv /\ (Distributed!Next \/ UNCHANGED vars)
      BY <2>4 DEF FramesInv, FramesNext, framesVars
    <3>2. QED
      BY <2>1, <2>2, <2>3, <2>4, <3>1, NextDistributed DEF FramesInv
  <2>5. CASE mode # "distributed"
    <3>1. ShownInv /\ [Next]_vars
      BY <2>5 DEF FramesInv, FramesNext, framesVars
    <3>2. QED
      BY <2>1, <2>2, <2>3, <2>5, <3>1, NextShownInv DEF FramesInv
  <2>6. QED
    BY <2>4, <2>5
<1>3. QED
  BY <1>1, <1>2, PTL DEF FramesSpec, framesVars

\* No tile message outlives its frame (DFB::incoming), replicated or
\* distributed, and all variables of all modes keep their types.
THEOREM StaysInFrame ==
  ASSUME OwnersRender, "master" \notin Worker
  PROVE  FramesSpec => []InFrame
<1>1. FramesInv => InFrame
  <2> SUFFICES ASSUME FramesInv
               PROVE  InFrame
    OBVIOUS
  <2>1. Progress!TypeOK /\ Local!TypeOK
    BY ProgressImplies, LocalImplies DEF FramesInv
  <2>2. CASE mode = "distributed"
    <3>1. DP!TypeOK /\ DP!MessagesInFrame
      BY <2>2, DP!WholeImplies, DistributedConstants DEF FramesInv, DP!ShownInv, DP!WholeInv, DP!IInv
    <3>2. Distributed!TypeOK
      BY <3>1 DEF Distributed!TypeOK, DP!TypeOK, Distributed!Rank, DP!Rank, Distributed!Tile,
         DP!Tile, Distributed!PC, DP!PC, Distributed!Message, DP!Message
    <3>3. Distributed!MessagesInFrame
      BY <3>1 DEF Distributed!MessagesInFrame, DP!MessagesInFrame, Distributed!OwnerOf, DP!OwnerOf
    <3>4. QED
      BY <2>1, <2>2, <3>2, <3>3 DEF InFrame
  <2>3. CASE mode # "distributed"
    <3>1. TypeOK /\ MessagesInFrame
      BY <2>3, WholeImplies DEF FramesInv, ShownInv, WholeInv, IInv
    <3>2. QED
      BY <2>1, <2>3, <3>1 DEF InFrame
  <2>4. QED
    BY <2>2, <2>3
<1>2. QED
  BY <1>1, FramesInvariance, PTL

-----------------------------------------------------------------------------
(***************************************************************************)
(* The frame buffer of the application, in every mode.                     *)
(***************************************************************************)

LEMMA InitFramesService ==
  ASSUME FramesInit
  PROVE  Service!Init
<1>1. CASE mode = "local"
  <2>1. LP!Service!Init
    BY LP!InitService DEF FramesInit, Local!Init, LP!Init, Local!Tile, LP!Tile
  <2>2. QED
    BY <1>1, <2>1 DEF Service!Init, LP!Service!Init
<1>2. CASE mode = "distributed"
  <2>1. DP!Init
    BY <1>2 DEF FramesInit, Distributed!Init, DP!Init, Distributed!Rank, DP!Rank, Distributed!Tile, DP!Tile
  <2>2. DP!Shown!Init
    BY <2>1, DP!InitShown, DistributedConstants
  <2>3. DP!Finished = Finished /\ DP!Cancelled = Cancelled /\ DP!Master = Master
    BY DEF DP!Finished, Finished, DP!Cancelled, Cancelled, DP!Master, Master
  <2>4. QED
    BY <1>2, <2>2, <2>3 DEF Service!Init, DP!Shown!Init
<1>3. CASE mode \in {"replicated", "progress"}
  <2>1. Shown!Init
    BY <1>3, InitShown DEF FramesInit
  <2>2. QED
    BY <1>3, <2>1 DEF Service!Init, Shown!Init
<1>4. QED
  BY <1>1, <1>2, <1>3 DEF FramesInit

LEMMA NextFramesService ==
  ASSUME FramesInv, [FramesNext]_framesVars
  PROVE  [Service!Next]_(Service!vars)
<1>1. mode' = mode
  BY DEF FramesNext, framesVars
<1>2. CASE mode = "local"
  <2>1. LP!IInv /\ [Local!Next]_(Local!vars)
    BY <1>2 DEF FramesInv, LocalTyped, FramesNext, framesVars, localVars, Local!vars, Local!buffers, Local!frames
  <2>2. [LP!Service!Next]_(LP!Service!vars)
    BY <2>1, LP!NextService, LocalSteps
  <2>3. QED
    BY <1>1, <1>2, <2>2 DEF Service!Next, Service!vars, Service!ShowFrame, Service!CancelFrame, Service!ClearFrame,
       LP!Service!Next, LP!Service!vars, LP!Service!ShowFrame, LP!Service!CancelFrame, LP!Service!ClearFrame
<1>3. CASE mode = "distributed"
  <2>1. DP!ShownInv /\ (Distributed!Next \/ UNCHANGED vars)
    BY <1>3 DEF FramesInv, FramesNext, framesVars
  <2>2. [DP!Next]_(DP!vars)
    BY <2>1, DistributedSteps DEF vars, main, flags, tiles, msgs, DP!vars, DP!main, DP!flags, DP!tiles, DP!msgs
  <2>3. [DP!Shown!Next]_(DP!Shown!vars)
    BY <2>1, <2>2, DP!NextShown, DistributedConstants
  <2>4. /\ DP!Finished = Finished /\ DP!Cancelled = Cancelled /\ DP!Master = Master
        /\ DP!Finished' = Finished' /\ DP!Cancelled' = Cancelled'
    BY DEF DP!Finished, Finished, DP!Cancelled, Cancelled, DP!Master, Master
  <2>5. QED
    BY <1>1, <1>3, <2>3, <2>4 DEF Service!Next, Service!vars, Service!ShowFrame, Service!CancelFrame, Service!ClearFrame,
       DP!Shown!Next, DP!Shown!vars, DP!Shown!ShowFrame, DP!Shown!CancelFrame, DP!Shown!ClearFrame
<1>4. CASE mode # "local" /\ mode # "distributed"
  <2>1. ShownInv /\ [Next]_vars
    BY <1>4 DEF FramesInv, FramesNext, framesVars
  <2>2. [Shown!Next]_(Shown!vars)
    BY <2>1, NextShown
  <2>3. QED
    BY <1>1, <1>4, <2>2 DEF Service!Next, Service!vars, Service!ShowFrame, Service!CancelFrame, Service!ClearFrame,
       Shown!Next, Shown!vars, Shown!ShowFrame, Shown!CancelFrame, Shown!ClearFrame
<1>5. QED
  BY <1>2, <1>3, <1>4

\* Whether ranks render together or tasks in place, the application sees whole
\* frames, in order, and converged tiles untouched (DistributedFrameBuffer.cpp,
\* gatherFinalTiles; LocalFB.cpp).
THEOREM FramesImplementService ==
  ASSUME OwnersRender, "master" \notin Worker
  PROVE  FramesSpec => ImplementsService
<1>1. FramesInit => Service!Init
  BY InitFramesService
<1>2. FramesInv /\ [FramesNext]_framesVars => [Service!Next]_(Service!vars)
  BY NextFramesService
<1>3. QED
  BY <1>1, <1>2, FramesInvariance, PTL DEF FramesSpec, framesVars, ImplementsService, Service!Spec

\* No task closes a frame that is not its own, in any mode.
THEOREM FramesClosedOnce ==
  ASSUME OwnersRender, "master" \notin Worker
  PROVE  FramesSpec => []NoStaleClose
<1>1. FramesInv => NoStaleClose
  <2>1. ShownInv => NoStaleClose
    BY DEF ShownInv, WholeInv, TileSteps
  <2>2. DP!ShownInv => DP!NoStaleClose
    BY DEF DP!ShownInv, DP!WholeInv, DP!TileSteps
  <2>3. QED
    BY <2>1, <2>2 DEF FramesInv, NoStaleClose, DP!NoStaleClose
<1>2. QED
  BY <1>1, FramesInvariance, PTL

\* The static load balancer gives a tile to its owner (MPILoadBalancer.cpp,
\* DFB::ownerIDFromTileID): what the theorems assume of Renderers.
LEMMA StaticOwnersRender == Renderers = StaticRenderers /\ ~MasterIsAWorker => OwnersRender
<1> SUFFICES ASSUME Renderers = StaticRenderers, ~MasterIsAWorker, NEW t \in Tile
             PROVE  OwnerOf(t) \in Renderers[t]
  BY DEF OwnersRender
<1>1. PICK k : k = t % (NumRanks-1)
  OBVIOUS
<1>2. k \in Int
  <2>1. t \in Int /\ NumRanks - 1 \in Nat \ {0}
    BY RankAssumption DEF Tile
  <2>2. QED
    BY <1>1, <2>1
<1>3. Renderers[t] = {1 + k} /\ OwnerOf(t) = k + 1
  BY <1>1 DEF StaticRenderers, OwnerOf, Tile
<1>4. QED
  BY <1>2, <1>3
=============================================================================
