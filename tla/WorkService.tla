----------------------------- MODULE WorkService -----------------------------
(* What the offload device promises its application (api/Device.h): the    *)
(* calls are carried out on every worker in the order they were made, each *)
(* once; a call without a result may return before any of that, one with a *)
(* result only when those that compute it have come to it.                 *)
EXTENDS Naturals, Sequences

CONSTANTS Worker, FirstWorker

VARIABLES
  calls,    \* the calls so far, by kind
  begun,    \* the calls each worker has begun to carry out
  open      \* is the last call still in progress?

Init == calls = <<>> /\ begun = [w \in Worker |-> <<>>] /\ open = FALSE

Call == \E k \in {"plain", "static", "dynamic", "module", "render", "pick", "final"} :
  /\ ~open
  /\ open' = TRUE
  /\ calls' = Append(calls, k)
  /\ UNCHANGED begun

Carry(w) ==
  /\ Len(begun[w]) < Len(calls)
  /\ begun' = [begun EXCEPT ![w] = Append(@, calls[Len(@) + 1])]
  /\ UNCHANGED <<calls, open>>

\* a frame needs all workers, and so does the end; a pick is done by the first
Needed(k) ==
  CASE k \in {"render", "final"} -> Worker
    [] k = "pick" -> {FirstWorker}
    [] OTHER -> {}

Return ==
  /\ open
  /\ \A w \in Needed(calls[Len(calls)]) : Len(begun[w]) = Len(calls)
  /\ open' = FALSE
  /\ UNCHANGED <<calls, begun>>

Next == Call \/ Return \/ \E w \in Worker : Carry(w)

Spec == Init /\ [][Next]_<<calls, begun, open>>
=============================================================================
