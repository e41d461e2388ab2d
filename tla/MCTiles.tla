------------------------------ MODULE MCTiles ------------------------------
(* What is kept for the tiles of a distributed frame buffer, checked in    *)
(* one run.  A frame buffer creates tiles of one kind, so a behaviour is   *)
(* that of one tile that accumulates, of one tile that is composited, from *)
(* parts that fit or from those the ranks send, or of the errors of all    *)
(* tiles, and leaves the others alone.                                     *)
EXTENDS TileAccumulation

CONSTANTS
  Region,     \* regions of a data-distributed frame
  MaxBlends,  \* bound: frames of a tile that is composited
  NumRanks, NumRegions, NumTiles, MaxCommits,  \* of DistributedRegions
  Width, Height, Threshold, Error  \* of the module TileError

ASSUME RegionAssumption == IsFiniteSet(Region) /\ MaxBlends \in Nat
ASSUME RanksAssumption ==
  NumRanks \in Nat \ {0} /\ NumTiles \in Nat /\ NumRegions \in 0 .. Cardinality(Region)
ASSUME SizeAssumption == Width \in Nat \ {0} /\ Height \in Nat \ {0}
ASSUME ErrorAssumption == Threshold \in Nat \ {0} /\ Error \subseteq Nat

VARIABLES
  kind,       \* "write", "alphaBlend", "regions" or "error"
  composed, parts, coming, bufferedTile, currentGeneration,
  expectedInNextGeneration, missingInCurrentGeneration, blended, errors,
  tileIndex, rankRegions, regionOwners, projected, rankAccumID, commits, uncleared,
  tileErrorBuffer, errorRegion, i, regions, refining, converged

Blend == INSTANCE AlphaBlendTile WITH MaxFrames <- MaxBlends
Compose == INSTANCE DistributedRegions WITH
  MaxFrames <- MaxBlends, regions <- rankRegions, tileAccumID <- rankAccumID
Errors == INSTANCE TileError WITH tileError <- tileErrorBuffer

blendVars == <<composed, parts, coming, bufferedTile, currentGeneration,
  expectedInNextGeneration, missingInCurrentGeneration, blended, errors>>
regionVars ==
  <<tileIndex, rankRegions, regionOwners, projected, rankAccumID, commits, uncleared>>
errorVars == <<tileErrorBuffer, errorRegion, i, regions, refining, converged>>

\* createTiles, and the constructor of the TileError
CreateTiles ==
  /\ Init /\ Errors!Init /\ Compose!RegionsInit
  /\ kind \in {"write", "alphaBlend", "regions", "error"}
  /\ kind # "regions" => tileIndex = 0
  /\ kind # "write" => dynamic = FALSE

TileStep ==
  /\ UNCHANGED kind
  /\ \/ kind = "write" /\ Next /\ UNCHANGED <<blendVars, regionVars, errorVars>>
     \/ kind = "alphaBlend" /\ Blend!Next /\ UNCHANGED <<vars, regionVars, errorVars>>
     \/ kind = "regions" /\ Compose!RegionsNext /\ UNCHANGED <<vars, errorVars>>
     \/ kind = "error" /\ Errors!Next /\ UNCHANGED <<vars, blendVars, regionVars>>

TilesSpec == CreateTiles /\ [][TileStep]_<<kind, vars, blendVars, regionVars, errorVars>>

\* A composited tile is complete with its last part, not before, and once.
CompletesWithLast == kind = "alphaBlend" => Blend!CompletesWithLast

\* It blends all parts of its frame and no others, from back to front.
BlendsAllInOrder == kind = "alphaBlend" => Blend!BlendsAllInOrder

\* The parts that the ranks send are those the tile waits for, each once,
\* whoever has which region (DistributedRaycastRenderer::renderFrame).
ComposesUnlessStale == kind = "regions" => Compose!ComposesUnlessStale

\* TileError::refine: no tile is in two regions, and the list stays within
\* what the constructor reserves, while entries are split and moved; and the
\* variables of all three modules keep their types.
RegionsSound ==
  /\ TypeOK /\ (kind # "regions" => Blend!TypeOK) /\ Errors!TypeOK
  /\ Errors!RegionsDisjoint
  /\ Errors!RegionsFit

\* Regions are refined as a group and dropped when they are finished; and a
\* tile that has converged after refine() stays so until a clear.
RefinedAsGroup == Errors!RefinedAsGroup /\ Errors!ConvergedStays
============================================================================
