-------------------------- MODULE AlphaBlendTile --------------------------
(* One tile of a data-distributed frame (AlphaBlendTile_simple) and the    *)
(* parts the ranks send for it (DistributedRaycastRenderer): the owner     *)
(* sends the background, generation 0, which says how many regions project *)
(* to the tile; the rank in charge of each such region sends its part,     *)
(* generation 1.  The parts come in any order; nobody else tells the tile  *)
(* when it has them all.                                                   *)
EXTENDS Integers, FiniteSets, SequencesExt

CONSTANTS
  Region,    \* the regions of all ranks, a finite set
  MaxFrames  \* bound: frames of a behaviour

VARIABLES
  composed,          \* ghost: frames begun
  parts,             \* ghost: the parts of this frame
  coming,            \* parts that have not reached process()
  bufferedTile,      \* parts buffered by the tile
  currentGeneration,
  expectedInNextGeneration,
  missingInCurrentGeneration,
  blended,           \* ghost: every blending of this frame, in turn
  errors             \* ghost: "negative missing" was reported

tileVars == <<bufferedTile, currentGeneration, expectedInNextGeneration, missingInCurrentGeneration>>
vars == <<composed, parts, coming, tileVars, blended, errors>>

\* sortOrder of the background: numeric_limits<int>::max().
Farthest == Cardinality(Region) + 1

Background(children) == [generation |-> 0, children |-> children, sortOrder |-> Farthest]
RegionPart(order) == [generation |-> 1, children |-> 0, sortOrder |-> order]

\* AlphaBlendTile_simple::newFrame.
ResetTile ==
  /\ currentGeneration' = 0
  /\ expectedInNextGeneration' = 0
  /\ missingInCurrentGeneration' = 1
  /\ UNCHANGED bufferedTile

Init ==
  /\ composed = 0
  /\ parts = {} /\ coming = {}
  /\ bufferedTile = <<>>
  /\ currentGeneration = 0
  /\ expectedInNextGeneration = 0
  /\ missingInCurrentGeneration = 0
  /\ blended = <<>>
  /\ errors = FALSE

\* A frame begins: the regions in depth order, of which some project to the
\* tile; each is sent by the one rank in charge of it.
BeginFrame ==
  /\ composed < MaxFrames
  /\ coming = {}
  /\ composed' = composed + 1
  /\ \E visible \in SUBSET (1 .. Cardinality(Region)) :
       parts' = {Background(Cardinality(visible))} \cup {RegionPart(o) : o \in visible}
  /\ coming' = parts'
  /\ ResetTile
  /\ blended' = <<>>
  /\ UNCHANGED errors

-----------------------------------------------------------------------------
InGeneration(s, g) == {i \in DOMAIN s : s[i].generation = g}

CountOf(s, g) == Cardinality(InGeneration(s, g))

\* The children the buffered parts of a generation announce, added up.
ChildrenOf(s, g) == Cardinality(UNION {{i} \X (1 .. s[i].children) : i \in InGeneration(s, g)})

\* Mutant: parts that came before their generation are not counted.
Advance_Forgets(s, t) ==
  IF t.missing = 0 /\ t.expected > 0
  THEN [generation |-> t.generation + 1, missing |-> t.expected, expected |-> 0]
  ELSE t

\* The while loop of process(): step on to the next generation when the
\* current one is complete, counting the parts of it that are here already.
\* A renderer's parts have two generations, so one step is all it takes.
Advance(s, t) ==
  IF t.missing = 0 /\ t.expected > 0
  THEN [generation |-> t.generation + 1,
        missing |-> t.expected - CountOf(s, t.generation + 1),
        expected |-> ChildrenOf(s, t.generation + 1)]
  ELSE t

\* The parts by ascending key.
Sorted(s, key) ==
  LET order == CHOOSE p \in [DOMAIN s -> DOMAIN s] :
        IsInjective(p) /\ \A i, j \in DOMAIN s : i < j => key[p[i]] <= key[p[j]]
  IN [i \in DOMAIN s |-> s[order[i]]]

\* Mutant: the blending is front to back.
BackToFront_Reversed(s) == Sorted(s, [i \in DOMAIN s |-> s[i].sortOrder])

\* std::sort by decreasing sortOrder.
BackToFront(s) == Sorted(s, [i \in DOMAIN s |-> -s[i].sortOrder])

\* bufferedTile.clear().
AfterBlending(s) == <<>>

\* AlphaBlendTile_simple::process, under the tile's mutex.
Process(p) ==
  LET s == Append(bufferedTile, p)
      counted == [generation |-> currentGeneration,
                  missing |-> missingInCurrentGeneration - 1,
                  expected |-> expectedInNextGeneration + p.children]
      t == IF p.generation = currentGeneration
           THEN Advance(s, counted)
           ELSE [generation |-> currentGeneration,
                 missing |-> missingInCurrentGeneration,
                 expected |-> expectedInNextGeneration]
  IN /\ p \in coming
     /\ coming' = coming \ {p}
     /\ currentGeneration' = t.generation
     /\ missingInCurrentGeneration' = t.missing
     /\ expectedInNextGeneration' = t.expected
     /\ errors' = (errors \/ t.missing < 0)
     /\ IF t.missing = 0
        THEN /\ blended' = Append(blended, BackToFront(s))
             /\ bufferedTile' = AfterBlending(s)
        ELSE /\ bufferedTile' = s
             /\ UNCHANGED blended
     /\ UNCHANGED <<composed, parts>>

Next == BeginFrame \/ \E p \in coming : Process(p)

Spec == Init /\ [][Next]_vars

-----------------------------------------------------------------------------
(* Properties                                                               *)

Part == [generation : {0, 1}, children : 0 .. Cardinality(Region), sortOrder : 1 .. Farthest]

TypeOK ==
  /\ composed \in 0 .. MaxFrames
  /\ coming \subseteq parts /\ parts \subseteq Part
  /\ bufferedTile \in Seq(Part)
  /\ currentGeneration \in {0, 1}
  /\ expectedInNextGeneration \in 0 .. Cardinality(Region)
  /\ missingInCurrentGeneration \in 0 .. Cardinality(Region) + 1
  /\ errors = FALSE

\* "called exactly once": the tile completes when its last part comes, not
\* before, and once, although the parts that announce and those that are
\* announced come in any order.
CompletesWithLast ==
  Len(blended) = IF composed > 0 /\ coming = {} THEN 1 ELSE 0

\* What is blended is all of this frame and nothing of an earlier one, from
\* back to front; so its first tile, whose accumID the accumulation takes, is
\* the owner's background and not the part of a rank that counts otherwise.
BlendsAllInOrder ==
  \A k \in DOMAIN blended :
    /\ ToSet(blended[k]) = parts
    /\ Len(blended[k]) = Cardinality(parts)
    /\ blended[k][1].generation = 0
    /\ \A i, j \in DOMAIN blended[k] :
         i < j => blended[k][i].sortOrder > blended[k][j].sortOrder
============================================================================
