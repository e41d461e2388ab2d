----------------------------- MODULE TileError -----------------------------
(* The error of every tile and the regions over which refinement is        *)
(* decided (ospray/fb/TileError.cpp): frames that render the tiles above   *)
(* the threshold, each followed by one refine().                           *)
EXTENDS Integers, FiniteSets, FiniteSetsExt, SequencesExt

CONSTANTS
  Width, Height,  \* numTiles
  Threshold,      \* errorThreshold, above zero
  Error           \* the finite errors a rendered tile may get

VARIABLES
  tileError,    \* tileErrorBuffer
  errorRegion,  \* list of boxes [lower, upper), upper exclusive
  i,            \* refine(): index of the region looked at
  regions,      \* refine(): regions that were there before, still to look at
  refining,     \* refine() is under way
  converged     \* ghost: tiles not above the threshold after a refine()

vars == <<tileError, errorRegion, i, regions, refining, converged>>

Tile == (0 .. Width - 1) \X (0 .. Height - 1)

Inf == 1000 * (Threshold + 1)

Box(x0, y0, x1, y1) == [lower |-> <<x0, y0>>, upper |-> <<x1, y1>>]

TilesOf(b) == {t \in Tile : \A d \in 1 .. 2 : b.lower[d] <= t[d] /\ t[d] < b.upper[d]}

Extent(b, d) == b.upper[d] - b.lower[d]
Area(b) == Extent(b, 1) * Extent(b, 2)

\* TileError::clear: one region covers the image.
Init ==
  /\ tileError = [t \in Tile |-> Inf]
  /\ errorRegion = <<Box(0, 0, Width, Height)>>
  /\ i = 1 /\ regions = 0 /\ refining = FALSE
  /\ converged = {}

Active(t) == tileError[t] > Threshold

\* A frame renders the active tiles; their errors come in with update(), all
\* of them or, as long as no tile has an error, none.
RenderFrame ==
  /\ ~refining
  /\ \/ UNCHANGED tileError /\ \A t \in Tile : tileError[t] = Inf
     \/ \E new \in [{t \in Tile : Active(t)} -> Error] :
          tileError' = [t \in Tile |-> IF Active(t) THEN new[t] ELSE tileError[t]]
  /\ refining' = TRUE
  /\ i' = 1
  /\ regions' = Len(errorRegion)
  /\ UNCHANGED <<errorRegion, converged>>

LowAverage(b) == MapThenSumSet(LAMBDA t : tileError[t], TilesOf(b)) <= 4 * Threshold * Area(b)

\* Mutant: a region is not lifted when it is about to be split.
Lifted_NotSplit(b) ==
  IF (\E t \in TilesOf(b) : Active(t)) /\ ~LowAverage(b)
  THEN [t \in Tile |-> IF t \in TilesOf(b) THEN Max({tileError[t], Threshold + 1}) ELSE tileError[t]]
  ELSE tileError

\* A region with one tile above the threshold is refined as a group.
Lifted(b) ==
  IF \E t \in TilesOf(b) : Active(t)
  THEN [t \in Tile |-> IF t \in TilesOf(b) THEN Max({tileError[t], Threshold + 1}) ELSE tileError[t]]
  ELSE tileError

\* Mutant: a converged region is kept.
Finished_KeepsConverged(b) == Area(b) <= 2

\* A region is dropped when a split would leave single tiles, or all is done.
Finished(b) == Area(b) <= 2 \/ \A t \in TilesOf(b) : ~Active(t)

\* Mutant: only the old entry is cut.
SecondHalf_Whole(b) == b

\* The longer side is halved.
FirstHalf(b) ==
  LET d == IF Extent(b, 1) > Extent(b, 2) THEN 1 ELSE 2
  IN [b EXCEPT !.upper[d] = b.lower[d] + Extent(b, d) \div 2]
SecondHalf(b) ==
  LET d == IF Extent(b, 1) > Extent(b, 2) THEN 1 ELSE 2
  IN [b EXCEPT !.lower[d] = b.lower[d] + Extent(b, d) \div 2]

\* Entry k goes, the last old region (r) takes its place, the last of all
\* takes that one's.
WithoutRegion(s, k, r) ==
  LET moved == [s EXCEPT ![k] = s[r]] IN Front([moved EXCEPT ![r] = Last(moved)])

\* One iteration of the loop over the regions that were there before.
RefineRegion ==
  /\ refining /\ i <= regions
  /\ LET b == errorRegion[i]
     IN /\ tileError' = Lifted(b)
        /\ \/ /\ LowAverage(b) /\ Finished(b)
              /\ errorRegion' = WithoutRegion(errorRegion, i, regions)
              /\ regions' = regions - 1
              /\ UNCHANGED i
           \/ /\ LowAverage(b) /\ ~Finished(b)
              /\ errorRegion' = Append([errorRegion EXCEPT ![i] = FirstHalf(b)], SecondHalf(b))
              /\ i' = i + 1
              /\ UNCHANGED regions
           \/ /\ ~LowAverage(b)
              /\ i' = i + 1
              /\ UNCHANGED <<errorRegion, regions>>
  /\ UNCHANGED <<refining, converged>>

EndRefine ==
  /\ refining /\ i > regions
  /\ refining' = FALSE
  /\ i' = 1 /\ regions' = 0
  /\ converged' = {t \in Tile : ~Active(t)}
  /\ UNCHANGED <<tileError, errorRegion>>

\* TileError::clear, with the accumulation channel.
Clear ==
  /\ ~refining
  /\ tileError' = [t \in Tile |-> Inf]
  /\ errorRegion' = <<Box(0, 0, Width, Height)>>
  /\ converged' = {}
  /\ UNCHANGED <<i, regions, refining>>

Next == RenderFrame \/ RefineRegion \/ EndRefine \/ Clear

Spec == Init /\ [][Next]_vars

-----------------------------------------------------------------------------
(* Properties                                                               *)

\* Types; the loop stays inside the list, and every region is a box that is
\* not empty.
TypeOK ==
  /\ tileError \in [Tile -> Error \cup {Inf, Threshold + 1}]
  /\ refining \in BOOLEAN
  /\ i \in 1 .. Len(errorRegion) + 1 /\ regions \in 0 .. Len(errorRegion)
  /\ \A k \in DOMAIN errorRegion : TilesOf(errorRegion[k]) # {}

\* A tile is in one region at most, while entries are split and moved about.
RegionsDisjoint ==
  \A k, l \in DOMAIN errorRegion :
    k # l => TilesOf(errorRegion[k]) \cap TilesOf(errorRegion[l]) = {}

\* The list never outgrows what the constructor reserves, two regions for
\* three tiles, so the reference into it stays valid over a push_back.
RegionsFit == 3 * Len(errorRegion) <= 2 * Width * Height + 2

\* After refine() all tiles of a region will be rendered: none is left behind
\* while its group is refined, and no region of finished tiles is kept.
RefinedAsGroup ==
  ~refining => \A k \in DOMAIN errorRegion : \A t \in TilesOf(errorRegion[k]) : Active(t)

\* A tile that has converged after refine() is done for: no later frame
\* renders it and no refine() lifts it, until the buffer is cleared.
ConvergedStays == \A t \in converged : ~Active(t)
============================================================================
