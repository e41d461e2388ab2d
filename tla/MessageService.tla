-------------------------- MODULE MessageService --------------------------
(* What the message layer (components/mpiMessageLayer/maml) promises its   *)
(* clients: every message that is sent is handed to the handler of its     *)
(* receiver at most once, never on a rank whose layer is stopped, and in   *)
(* no particular order.                                                    *)
CONSTANTS
  Rank,   \* the processes of the communicator
  Message \* the messages: records with at least from and to, both in Rank

VARIABLES
  undelivered, \* messages sent and not yet handed to a handler
  handled,     \* messages a handler has been called with
  serving      \* ranks whose layer may call a handler

Init ==
  /\ undelivered = {}
  /\ handled = {}
  /\ serving = {}

\* A client, or a handler, sends a message: the layer need not be running.
Post ==
  \E m \in Message :
    /\ m \notin undelivered \cup handled
    /\ undelivered' = undelivered \cup {m}
    /\ UNCHANGED <<handled, serving>>

\* The handler of the receiver is called, and may answer with a message.
Deliver ==
  \E m \in undelivered :
    /\ m.to \in serving
    /\ handled' = handled \cup {m}
    /\ \/ undelivered' = undelivered \ {m}
       \/ \E a \in Message :
            /\ a \notin undelivered \cup handled
            /\ a.from = m.to
            /\ undelivered' = (undelivered \ {m}) \cup {a}
    /\ UNCHANGED serving

Start == \E r \in Rank \ serving : /\ serving' = serving \cup {r}
                                   /\ UNCHANGED <<undelivered, handled>>

Stop == \E r \in serving : /\ serving' = serving \ {r}
                           /\ UNCHANGED <<undelivered, handled>>

Next == Post \/ Deliver \/ Start \/ Stop

Spec == Init /\ [][Next]_<<undelivered, handled, serving>>
============================================================================
