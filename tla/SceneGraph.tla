---------------------------- MODULE SceneGraph ----------------------------
(***************************************************************************)
(* The scene graph of the applications (apps/common/sg): the render thread *)
(* commits the tree of nodes and accumulates a frame, while the            *)
(* application thread changes values.  Time stamps tell which subtrees a   *)
(* commit has to visit, and whether the accumulated frames are outdated.   *)
(*                                                                         *)
(* The tree is that of sg::Frame: a camera and a renderer with parameters, *)
(* and the renderer's backplate, which every commit of it marks modified.  *)
(* A value is the number of the modification it is from.                   *)
(***************************************************************************)
EXTENDS Integers, SequencesExt

CONSTANTS
  CameraParam, RendererParam,  \* sets of parameter nodes
  MaxChanges,                  \* bound: modifications by the application
  MaxFrames                    \* bound: frames

VARIABLES
  value,          \* properties.value of each parameter
  set, committed, \* what ospSet and then ospCommit made of it
  now,            \* TimeStamp::global
  lastModified, childrenMTime, lastCommitted,  \* time stamps of each node
  changed, appAt, above, stamp,  \* the node the application has changed, where
  changes,                    \* it is in that, and whom it tells
  todo,           \* calls the render thread has still to make, in order
  frames,
  clearFB, numAccumulatedFrames,
  accumulated,    \* what the frames in the accumulation buffer show
  pending,        \* ghost: parameters changed after the last commit began
  overlapped      \* ghost: parameters last changed while a commit ran

values == <<value, set, committed>>
stamps == <<lastModified, childrenMTime, lastCommitted>>
appVars == <<changed, appAt, above, stamp, changes>>
frameVars == <<clearFB, numAccumulatedFrames, accumulated>>
ghosts == <<pending, overlapped>>
vars == <<values, now, stamps, appVars, todo, frames, frameVars, ghosts>>

Param == CameraParam \cup RendererParam
Node == Param \cup {"frame", "camera", "renderer", "backplate"}

Children(n) ==
  CASE n = "frame" -> <<"camera", "renderer">>
    [] n = "camera" -> SetToSeq(CameraParam)
    [] n = "renderer" -> <<"backplate">> \o SetToSeq(RendererParam)
    [] OTHER -> <<>>

Parent(n) == CHOOSE p \in Node : n \in ToSet(Children(p))

\* A node that has been created is modified; the first frame commits it all.
Init ==
  /\ value = [p \in Param |-> 0] /\ set = value /\ committed = value
  /\ now = 2
  /\ lastModified = [n \in Node |-> 1]
  /\ childrenMTime = [n \in Node |-> 0]
  /\ lastCommitted = [n \in Node |-> 0]
  /\ changed = "camera" /\ appAt = "idle" /\ above = "frame" /\ stamp = 0 /\ changes = 0
  /\ todo = <<>> /\ frames = 0
  /\ clearFB = TRUE /\ numAccumulatedFrames = 0 /\ accumulated = {}
  /\ pending = Param /\ overlapped = {}

SubtreeModifiedButNotCommitted(n) ==
  lastModified[n] > lastCommitted[n] \/ childrenMTime[n] > lastCommitted[n]

\* The render thread is in a commit of the tree.
Committing == \E k \in DOMAIN todo : todo[k][1] # "render"

-----------------------------------------------------------------------------
(* The application thread.                                                 *)

\* setValue, up to the end of its critical section
SetValue(p) ==
  /\ appAt = "idle" /\ changes < MaxChanges
  /\ changes' = changes + 1
  /\ value' = [value EXCEPT ![p] = changes']
  /\ changed' = p /\ appAt' = "stamp"
  /\ pending' = pending \cup {p}
  /\ overlapped' = IF Committing THEN overlapped \cup {p} ELSE overlapped \ {p}
  /\ UNCHANGED <<set, committed, now, stamps, above, stamp, todo, frames, frameVars>>

\* camera.markAsModified(), as ImGuiViewer::display calls it
MarkCamera ==
  /\ appAt = "idle" /\ changes < MaxChanges
  /\ changes' = changes + 1
  /\ changed' = "camera" /\ appAt' = "stamp"
  /\ UNCHANGED <<values, now, stamps, above, stamp, todo, frames, frameVars, ghosts>>

\* lastModified = TimeStamp()
MarkAsModified ==
  /\ appAt = "stamp"
  /\ lastModified' = [lastModified EXCEPT ![changed] = now]
  /\ stamp' = now /\ now' = now + 1
  /\ above' = Parent(changed) /\ appAt' = "test"
  /\ UNCHANGED <<values, childrenMTime, lastCommitted, changed, changes, todo, frames, frameVars, ghosts>>

\* the test of setChildrenModified, without a lock
TestStamp ==
  /\ appAt = "test"
  /\ appAt' = IF stamp > childrenMTime[above] THEN "store" ELSE "idle"
  /\ UNCHANGED <<values, now, stamps, changed, above, stamp, changes, todo, frames, frameVars, ghosts>>

\* mutant: the parent is told, but not its own parent
SetChildrenModified_NotUp ==
  /\ appAt = "store"
  /\ childrenMTime' = [childrenMTime EXCEPT ![above] = stamp]
  /\ appAt' = "idle"
  /\ UNCHANGED <<values, now, lastModified, lastCommitted, changed, above, stamp, changes, todo, frames, frameVars, ghosts>>

SetChildrenModified ==
  /\ appAt = "store"
  /\ childrenMTime' = [childrenMTime EXCEPT ![above] = stamp]
  /\ IF above = "frame"
     THEN appAt' = "idle" /\ UNCHANGED above
     ELSE appAt' = "test" /\ above' = Parent(above)
  /\ UNCHANGED <<values, now, lastModified, lastCommitted, changed, stamp, changes, todo, frames, frameVars, ghosts>>

-----------------------------------------------------------------------------
(* The render thread.  The recursion is unrolled: todo begins with the     *)
(* call that is next.                                                      *)

\* Frame::renderFrame, which commits first
RenderFrame ==
  /\ todo = <<>> /\ frames < MaxFrames
  /\ frames' = frames + 1
  /\ todo' = <<<<"pre", "frame">>, <<"post", "frame">>, <<"render", "frame">>>>
  /\ pending' = {}
  /\ overlapped' = IF appAt = "idle" THEN overlapped ELSE overlapped \cup ({changed} \cap Param)
  /\ UNCHANGED <<values, now, stamps, appVars, frameVars>>

Calls(f, n) == todo # <<>> /\ Head(todo) = <<f, n>>

\* traverse of every child, its two halves one after the other
TraverseChildren(n) ==
  [k \in 1 .. 2 * Len(Children(n)) |-> <<IF k % 2 = 1 THEN "pre" ELSE "post", Children(n)[(k + 1) \div 2]>>]

\* mutant: a changed camera does not count
Outdated_Renderer == SubtreeModifiedButNotCommitted("renderer")

\* rChanged || cChanged of Frame::preCommit
Outdated == \E n \in {"camera", "renderer"} : SubtreeModifiedButNotCommitted(n)

PreTraverse(n) ==
  /\ Calls("pre", n)
  /\ todo' = (IF SubtreeModifiedButNotCommitted(n)
              THEN <<<<"preCommit", n>>>> \o TraverseChildren(n) ELSE <<>>) \o Tail(todo)
  /\ UNCHANGED <<values, now, stamps, appVars, frames, frameVars, ghosts>>

\* preCommit of the frame, and of the renderer, which marks its backplate
PreCommit(n) ==
  /\ Calls("preCommit", n)
  /\ todo' = Tail(todo)
  /\ clearFB' = IF n = "frame" THEN Outdated ELSE clearFB
  /\ IF n = "renderer"
     THEN /\ lastModified' = [lastModified EXCEPT !["backplate"] = now]
          /\ childrenMTime' = [childrenMTime EXCEPT !["renderer"] = now, !["frame"] = now]
          /\ now' = now + 1
     ELSE UNCHANGED <<now, lastModified, childrenMTime>>
  /\ UNCHANGED <<values, lastCommitted, appVars, frames, numAccumulatedFrames, accumulated, ghosts>>

\* the test is made again: a node may have been changed since
PostTraverse(n) ==
  /\ Calls("post", n)
  /\ todo' = (IF SubtreeModifiedButNotCommitted(n) THEN <<<<"commit", n>>, <<"mark", n>>>> ELSE <<>>)
             \o Tail(todo)
  /\ UNCHANGED <<values, now, stamps, appVars, frames, frameVars, ghosts>>

\* ospCommit of the camera or renderer with parameters P
OspCommit(P) == committed' = [p \in Param |-> IF p \in P THEN set[p] ELSE committed[p]]

\* mutant: the accumulated frames are kept
ClearFrame_Keeps == clearFB' = FALSE /\ UNCHANGED <<numAccumulatedFrames, accumulated>>

\* Frame::postCommit
ClearFrame ==
  IF clearFB
  THEN clearFB' = FALSE /\ numAccumulatedFrames' = 0 /\ accumulated' = {}
  ELSE UNCHANGED frameVars

PostCommit(n) ==
  /\ Calls("commit", n)
  /\ todo' = Tail(todo)
  /\ set' = IF n \in Param THEN [set EXCEPT ![n] = value[n]] ELSE set
  /\ CASE n = "camera" -> OspCommit(CameraParam)
       [] n = "renderer" -> OspCommit(RendererParam)
       [] OTHER -> UNCHANGED committed
  /\ IF n = "frame" THEN ClearFrame ELSE UNCHANGED frameVars
  /\ UNCHANGED <<value, now, stamps, appVars, frames, ghosts>>

MarkAsCommitted(n) ==
  /\ Calls("mark", n)
  /\ todo' = Tail(todo)
  /\ lastCommitted' = [lastCommitted EXCEPT ![n] = now]
  /\ now' = now + 1
  /\ UNCHANGED <<values, lastModified, childrenMTime, appVars, frames, frameVars, ghosts>>

\* ospRenderFrame; with a limit or threshold, two frames may be enough
Accumulate ==
  /\ Calls("render", "frame")
  /\ todo' = <<>>
  /\ \/ /\ numAccumulatedFrames' = numAccumulatedFrames + 1
        /\ accumulated' = accumulated \cup {committed}
     \/ /\ numAccumulatedFrames >= 2
        /\ UNCHANGED <<numAccumulatedFrames, accumulated>>
  /\ UNCHANGED <<values, now, stamps, appVars, frames, clearFB, ghosts>>

Next ==
  \/ \E p \in Param : SetValue(p)
  \/ MarkCamera \/ MarkAsModified \/ TestStamp \/ SetChildrenModified
  \/ RenderFrame \/ Accumulate
  \/ \E n \in Node : PreTraverse(n) \/ PreCommit(n) \/ PostTraverse(n) \/ PostCommit(n) \/ MarkAsCommitted(n)

Spec == Init /\ [][Next]_vars

-----------------------------------------------------------------------------
TypeOK ==
  /\ \A f \in {value, set, committed} \cup accumulated : f \in [Param -> 0 .. MaxChanges]
  /\ now \in Nat
  /\ \A f \in {lastModified, childrenMTime, lastCommitted} :
       DOMAIN f = Node /\ \A n \in Node : f[n] \in 0 .. now - 1
  /\ changed \in Node /\ above \in Node
  /\ appAt \in {"idle", "stamp", "test", "store"}
  /\ clearFB \in BOOLEAN /\ numAccumulatedFrames \in 0 .. MaxFrames
  /\ pending \subseteq Param /\ overlapped \subseteq Param

\* All the frames in the accumulation buffer show the values of the scene
\* graph: every change, of any node, before or between frames, is found by
\* the next commit and outdates what was accumulated.  Changes that overlap
\* with a commit are excepted, each until its parameter is changed again.
ShowsScene ==
  todo = <<>> =>
    \A p \in Param \ (pending \cup overlapped) : \A shown \in accumulated : shown[p] = value[p]

\* A value that was not committed is found by the next commit ("Did this Node
\* (or decendants) get modified and not (yet) committed?", Node.h:155), with
\* the same exception: the stamps of a commit that is over hide such a change.
NothingLost ==
  (todo = <<>> /\ appAt = "idle" /\ frames > 0) =>
    \A p \in Param \ overlapped : committed[p] # value[p] => SubtreeModifiedButNotCommitted("frame")
===========================================================================
