------------------------- MODULE DistributedRegions -------------------------
(***************************************************************************)
(* Who renders which region to a tile of a data-distributed frame          *)
(* (render/distributed/DistributedRaycast.cpp), composed with the tile     *)
(* that waits for these parts.  Every rank brings models with the ids of   *)
(* their regions; a region that several ranks bring is shared among them,  *)
(* tile by tile.  The owner of the tile announces how many regions it sees *)
(* in the tile, other ranks see for themselves whether theirs are visible. *)
(*                                                                         *)
(* One tile is followed.  The regions are numbered by depth.  The code     *)
(* indexes arrays with the ids, so together they are 0, 1, ..., and the    *)
(* application of the model gives every rank a region, as it has to.       *)
(***************************************************************************)
EXTENDS AlphaBlendTile

CONSTANTS
  NumRanks,
  NumRegions,  \* no more than there are in Region
  NumTiles,    \* of which one is followed
  MaxCommits   \* bound: commits of the renderer

Rank == 0 .. NumRanks - 1

VARIABLES
  tileIndex,
  regions,       \* ids of the models each rank has committed
  regionOwners,  \* the ranks that own each region; the same on all ranks
  projected,     \* regions whose bounds project to the tile
  tileAccumID,   \* each rank's counter of the tile
  commits,
  uncleared      \* history: the view has changed since the last clear

sceneVars == <<regions, regionOwners, projected, commits>>
regionVars == <<tileIndex, sceneVars, tileAccumID, uncleared>>

AllRegions(models) == UNION {models[r] : r \in Rank}

Models ==
  {m \in [Rank -> SUBSET (0 .. NumRegions - 1) \ {{}}] :
     \E k \in 1 .. NumRegions : AllRegions(m) = 0 .. k - 1}

RegionsInit ==
  /\ Init
  /\ tileIndex \in 0 .. NumTiles - 1
  /\ regions = [r \in Rank |-> {}]
  /\ regionOwners = [g \in 0 .. NumRegions - 1 |-> {}]
  /\ projected = {}
  /\ tileAccumID = [r \in Rank |-> 0]
  /\ commits = 0 /\ uncleared = FALSE

\* renderFrame returns on all ranks when the tile has been composited.  What
\* becomes of a frame with a part too many is left open: there is no next.
Rendering == composed > 0 /\ (blended = <<>> \/ coming # {})

ViewChanges ==
  uncleared' = (\/ uncleared
                \/ /\ <<regions, projected>>' # <<regions, projected>>
                   /\ \E r \in Rank : tileAccumID[r] > 0)

\* exchangeModelBounds: allRegions starts anew, regionOwners does not.
ExchangeModelBounds(models) ==
  /\ regions' = models
  /\ regionOwners' = [g \in DOMAIN regionOwners |->
       regionOwners[g] \cup {r \in Rank : g \in models[r]}]

\* All ranks commit the renderer, with other models or other bounds.
Commit ==
  /\ ~Rendering /\ commits < MaxCommits
  /\ commits' = commits + 1
  /\ \E models \in Models :
       /\ ExchangeModelBounds(models)
       /\ projected' \in SUBSET AllRegions(models)
  /\ UNCHANGED <<tileIndex, tileAccumID, vars>>
  /\ ViewChanges

\* The camera is committed.
MoveCamera ==
  /\ ~Rendering
  /\ projected' \in SUBSET AllRegions(regions) \ {projected}
  /\ UNCHANGED <<tileIndex, regions, regionOwners, commits, tileAccumID, vars>>
  /\ ViewChanges

\* clear(OSP_FB_ACCUM), on all ranks
ClearAccum ==
  /\ ~Rendering
  /\ tileAccumID' = [r \in Rank |-> 0]
  /\ uncleared' = FALSE
  /\ UNCHANGED <<tileIndex, sceneVars, vars>>

-----------------------------------------------------------------------------
TileOwner(r) == tileIndex % NumRanks = r

\* mutant: the rank itself and not its place among the owners
InCharge_Rank(r, g) == tileIndex % Cardinality(regionOwners[g]) = r

\* regionTileOwner: a shared region goes round its owners, in their order.
InCharge(r, g) ==
  LET owners == regionOwners[g]
  IN tileIndex % Cardinality(owners) = Cardinality({s \in owners : s < r})

\* tilesForFrame: the tiles a rank renders regions to, and those it owns
RendersTile(r) == TileOwner(r) \/ \E g \in regions[r] \cap projected : InCharge(r, g)

\* The parts the ranks send, where visible[id] are the regions that the rays
\* of a rank hit whose instance of the tile is id.
PartsSent(visible) ==
  {Background(Cardinality(visible[tileAccumID[r]])) : r \in {s \in Rank : TileOwner(s)}}
  \cup UNION {{RegionPart(g + 1) : g \in {g \in regions[r] \cap visible[tileAccumID[r]] : InCharge(r, g)}}
              : r \in {s \in Rank : RendersTile(s)}}

\* Every rank renders its regions to the tile, each with its own accumID,
\* which decides where in the pixels its rays go.  The bounds of a region
\* are projected conservatively.
RenderFrame ==
  /\ ~Rendering /\ composed < MaxFrames /\ commits > 0
  /\ composed' = composed + 1
  /\ \E visible \in [{tileAccumID[r] : r \in Rank} -> SUBSET projected] : parts' = PartsSent(visible)
  /\ coming' = parts'
  /\ tileAccumID' = [r \in Rank |-> tileAccumID[r] + (IF RendersTile(r) THEN 1 ELSE 0)]
  /\ ResetTile
  /\ blended' = <<>>
  /\ UNCHANGED <<errors, tileIndex, sceneVars, uncleared>>

RegionsNext ==
  \/ Commit \/ MoveCamera \/ ClearAccum \/ RenderFrame
  \/ /\ blended = <<>>
     /\ \E p \in coming : Process(p)
     /\ UNCHANGED regionVars

RegionsSpec == RegionsInit /\ [][RegionsNext]_<<vars, regionVars>>

-----------------------------------------------------------------------------
\* A rank is among the owners of a region that it no longer has.
StaleOwner(g) == \E r \in regionOwners[g] : g \notin regions[r]

\* The frame is complete when the last part has come, and has all regions in
\* order, whatever models are committed, shared or added, and whoever renders
\* (renderFrame): the ranks agree on the parts although nobody tells another
\* what it sees.  It takes owners that have their regions, and an application
\* that clears the frame buffer when it changes the view: a rank that starts
\* to render to the tile would be behind the others in its accumID.
ComposesUnlessStale ==
  \/ uncleared \/ \E g \in projected : StaleOwner(g)
  \/ TypeOK /\ CompletesWithLast /\ BlendsAllInOrder

\* "The ranks which own each region" (DistributedRaycast.h:90): a frame of a
\* new view is completed by the parts of the ranks that have the regions.
ComposesWhenCleared == ~uncleared => CompletesWithLast
=============================================================================
