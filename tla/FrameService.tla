----------------------------- MODULE FrameService -----------------------------
(***************************************************************************)
(* What the application that maps the frame buffer may rely on, whichever  *)
(* device renders: frames are shown whole, one after the other.  A         *)
(* finished frame replaces all tiles that are still to be refined and      *)
(* leaves the converged ones as they are.  A cancelled frame changes       *)
(* nothing, or, on a device that renders in place, some of those tiles.    *)
(***************************************************************************)
EXTENDS Naturals

VARIABLES
  inPlace,    \* does the device render into what is mapped?
  finished,   \* frames rendered or cancelled so far
  cancelled,  \* was the last one cancelled?
  conv,       \* tiles whose error is below the threshold
  shown       \* the frame the pixels of each tile are from

vars == <<inPlace, finished, cancelled, conv, shown>>

Init ==
  /\ finished = 0 /\ conv = {} /\ shown = [t \in DOMAIN shown |-> 0]
  /\ inPlace \in BOOLEAN /\ cancelled = FALSE

\* ospRenderFrame
ShowFrame ==
  /\ finished' = finished + 1 /\ cancelled' = FALSE
  /\ shown' = [t \in DOMAIN shown |-> IF t \in conv THEN shown[t] ELSE finished']
  /\ conv' \in SUBSET DOMAIN shown
  /\ UNCHANGED inPlace

\* ospRenderFrame, cancelled by the progress callback
CancelFrame ==
  /\ finished' = finished + 1 /\ cancelled' = TRUE
  /\ IF inPlace
       THEN /\ \A t \in DOMAIN shown :
                 shown'[t] = shown[t] \/ (t \notin conv /\ shown'[t] = finished')
            /\ conv' \subseteq DOMAIN shown
       ELSE UNCHANGED <<conv, shown>>
  /\ UNCHANGED inPlace

\* ospFrameBufferClear of the accumulation buffer
ClearFrame ==
  /\ conv' = {}
  /\ UNCHANGED <<inPlace, finished, cancelled, shown>>

Next == ShowFrame \/ CancelFrame \/ ClearFrame

Spec == Init /\ [][Next]_vars
=============================================================================
