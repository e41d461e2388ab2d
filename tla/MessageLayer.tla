--------------------------- MODULE MessageLayer ---------------------------
(* The maml message layer: the Context of every rank with its outbox, its  *)
(* pending MPI requests and its inbox, the two AsyncLoops that work on     *)
(* them, and the flush with which stop() ends.                             *)
(*                                                                         *)
(* The loops are used as their own module, AsyncLoop, shows them to be:    *)
(* stop() waits for the pass that is under way and no pass begins before   *)
(* the next start().  A payload is only an identity: compression and the   *)
(* timing log change nothing the properties tell apart.  MPI is external:  *)
(* messages between two ranks arrive in the order they were posted, a      *)
(* matched request completes at any later moment, in any order.            *)
EXTENDS Naturals, FiniteSets, SequencesExt

CONSTANTS
  Rank,        \* the ranks of the communicator
  MaxMessages, \* bound: messages sent in a behaviour
  MaxStarts    \* bound: calls of start() in a behaviour

ASSUME BoundsAssumption == MaxMessages \in Nat /\ MaxStarts \in Nat

VARIABLES
  main,         \* what the thread that calls start() and stop() is doing
  pass,         \* the step a send/receive pass is at
  outbox,       \* TransactionalBuffer of messages to send
  sending,      \* outgoingMessages, the local of sendMessagesFromOutbox
  pendingSends, \* posted Isends
  pendingRecvs, \* posted Irecvs
  inbox,        \* TransactionalBuffer of messages to handle
  handling,     \* incomingMessages, the local of processInboxMessages
  net,          \* MPI: posted and not yet matched by a receive
  complete,     \* MPI: requests that have completed, <<"send" or "recv", message>>
  sent,         \* ghost: every message sent
  handled,      \* ghost: every message a handler was called with
  starts        \* ghost: calls of start()

loopVars == <<main, pass, starts>>
boxVars == <<outbox, sending, inbox, handling>>
mpiVars == <<pendingSends, pendingRecvs, net, complete>>
ghostVars == <<sent, handled>>
vars == <<loopVars, boxVars, mpiVars, ghostVars>>

Message == [id : 1 .. MaxMessages, from : Rank, to : Rank]

Phase == {"stopped", "running", "stopSendReceive", "stopProcessInbox",
          "flush", "flushPass", "flushInbox"}

Init ==
  /\ main = [r \in Rank |-> "stopped"]
  /\ pass = [r \in Rank |-> "idle"]
  /\ outbox = [r \in Rank |-> <<>>]
  /\ sending = [r \in Rank |-> <<>>]
  /\ pendingSends = [r \in Rank |-> {}]
  /\ pendingRecvs = [r \in Rank |-> {}]
  /\ inbox = [r \in Rank |-> <<>>]
  /\ handling = [r \in Rank |-> <<>>]
  /\ net = <<>>
  /\ complete = {}
  /\ sent = {}
  /\ handled = {}
  /\ starts = 0

-----------------------------------------------------------------------------
(* Sending: any thread, running or not, and every handler may send.         *)

NewMessage(r, d) == [id |-> Cardinality(sent) + 1, from |-> r, to |-> d]

\* Context::send: put the message into the outbox.
Send(r) ==
  /\ Cardinality(sent) < MaxMessages
  /\ \E d \in Rank :
       /\ outbox' = [outbox EXCEPT ![r] = Append(@, NewMessage(r, d))]
       /\ sent' = sent \cup {NewMessage(r, d)}
  /\ UNCHANGED <<loopVars, sending, inbox, handling, mpiVars, handled>>

-----------------------------------------------------------------------------
(* A send/receive pass: the body of sendReceiveThread, which the flush      *)
(* runs again on the main thread.                                          *)

\* Mutant: the inbox is forgotten.
MustFlush_NoInbox(r) ==
  pendingRecvs[r] # {} \/ pendingSends[r] # {} \/ outbox[r] # <<>>

\* The flush goes on while anything is pending; the order of the tests is
\* of no matter, only other threads' sends can come between them.
MustFlush(r) ==
  \/ pendingRecvs[r] # {}
  \/ pendingSends[r] # {}
  \/ inbox[r] # <<>>
  \/ outbox[r] # <<>>

\* sendMessagesFromOutbox: take all messages ...
ConsumeOutbox(r) ==
  /\ pass[r] = "idle"
  /\ \/ main[r] = "running" /\ UNCHANGED main
     \/ main[r] = "flush" /\ MustFlush(r) /\ main' = [main EXCEPT ![r] = "flushPass"]
  /\ sending' = [sending EXCEPT ![r] = outbox[r]]
  /\ outbox' = [outbox EXCEPT ![r] = <<>>]
  /\ pass' = [pass EXCEPT ![r] = "post"]
  /\ UNCHANGED <<starts, inbox, handling, mpiVars, ghostVars>>

Local(s) == {i \in DOMAIN s : s[i].from = s[i].to}
Remote(s) == {i \in DOMAIN s : s[i].from # s[i].to}

\* The messages of s at some positions, in their order.
Chosen(s, positions) ==
  LET position(k) == CHOOSE i \in positions : Cardinality({j \in positions : j <= i}) = k
  IN [k \in 1 .. Cardinality(positions) |-> s[position(k)]]

\* ... and post them; a message to this rank goes to its inbox directly.
PostSends(r) ==
  /\ pass[r] = "post"
  /\ inbox' = [inbox EXCEPT ![r] = @ \o Chosen(sending[r], Local(sending[r]))]
  /\ net' = net \o Chosen(sending[r], Remote(sending[r]))
  /\ pendingSends' = [pendingSends EXCEPT ![r] = @ \cup {sending[r][i] : i \in Remote(sending[r])}]
  /\ sending' = [sending EXCEPT ![r] = <<>>]
  /\ pass' = [pass EXCEPT ![r] = "poll"]
  /\ UNCHANGED <<main, starts, outbox, handling, pendingRecvs, complete, ghostVars>>

\* The positions of net that a probe with MPI_ANY_SOURCE can find: the
\* oldest message of each sender.
Probed(r) ==
  {i \in DOMAIN net : /\ net[i].to = r
                      /\ \A j \in 1 .. i - 1 : ~(net[j].to = r /\ net[j].from = net[i].from)}

\* Mutant: the flush only sends.
Poll_NotInFlush(r) ==
  /\ pass[r] = "poll"
  /\ IF Probed(r) = {} \/ main[r] # "running"
     THEN UNCHANGED <<net, pendingRecvs>>
     ELSE \E i \in Probed(r) :
            /\ pendingRecvs' = [pendingRecvs EXCEPT ![r] = @ \cup {net[i]}]
            /\ net' = RemoveAt(net, i)
  /\ pass' = [pass EXCEPT ![r] = "wait"]
  /\ UNCHANGED <<main, starts, boxVars, pendingSends, complete, ghostVars>>

\* pollForAndRecieveMessages: at most one message is probed and its receive
\* posted (all of OSPRay uses one communicator).
Poll(r) ==
  /\ pass[r] = "poll"
  /\ IF Probed(r) = {}
     THEN UNCHANGED <<net, pendingRecvs>>
     ELSE \E i \in Probed(r) :
            /\ pendingRecvs' = [pendingRecvs EXCEPT ![r] = @ \cup {net[i]}]
            /\ net' = RemoveAt(net, i)
  /\ pass' = [pass EXCEPT ![r] = "wait"]
  /\ UNCHANGED <<main, starts, boxVars, pendingSends, complete, ghostVars>>

Done(r, kind, pending) == {m \in pending : <<kind, m>> \in complete}

\* Mutant: a completed receive stays in recvCache.
WaitOnSome_Keeps(r) ==
  /\ pass[r] = "wait"
  /\ \E order \in SetToSeqs(Done(r, "recv", pendingRecvs[r])) :
       inbox' = [inbox EXCEPT ![r] = @ \o order]
  /\ pendingSends' = [pendingSends EXCEPT ![r] = @ \ Done(r, "send", @)]
  /\ pass' = [pass EXCEPT ![r] = "idle"]
  /\ main' = [main EXCEPT ![r] = IF @ = "flushPass" THEN "flushInbox" ELSE @]
  /\ UNCHANGED <<starts, outbox, sending, handling, net, pendingRecvs, complete, ghostVars>>

\* Mutant: the sends are merged in front, the receives are not shifted back.
WaitOnSome_NotShifted(r) ==
  /\ pass[r] = "wait"
  /\ pendingSends' = [pendingSends EXCEPT ![r] = @ \ Done(r, "send", @)]
  /\ pendingRecvs' = [pendingRecvs EXCEPT ![r] = @ \ Done(r, "recv", @)]
  /\ \E order \in SetToSeqs(Done(r, "recv", pendingRecvs[r])) :
       inbox' = [inbox EXCEPT ![r] = IF pendingSends[r] = {} THEN @ \o order ELSE @]
  /\ pass' = [pass EXCEPT ![r] = "idle"]
  /\ main' = [main EXCEPT ![r] = IF @ = "flushPass" THEN "flushInbox" ELSE @]
  /\ UNCHANGED <<starts, outbox, sending, handling, net, complete, ghostVars>>

\* waitOnSomeRequests: forget the completed sends, move the completed
\* receives to the inbox in the order Testsome returns them.
WaitOnSome(r) ==
  LET sends == Done(r, "send", pendingSends[r])
      recvs == Done(r, "recv", pendingRecvs[r])
  IN /\ pass[r] = "wait"
     /\ pendingSends' = [pendingSends EXCEPT ![r] = @ \ sends]
     /\ pendingRecvs' = [pendingRecvs EXCEPT ![r] = @ \ recvs]
     /\ \E order \in SetToSeqs(recvs) : inbox' = [inbox EXCEPT ![r] = @ \o order]
     /\ complete' = complete \ (({"send"} \X sends) \cup ({"recv"} \X recvs))
     /\ pass' = [pass EXCEPT ![r] = "idle"]
     /\ main' = [main EXCEPT ![r] = IF @ = "flushPass" THEN "flushInbox" ELSE @]
     /\ UNCHANGED <<starts, outbox, sending, handling, net, ghostVars>>

-----------------------------------------------------------------------------
(* The inbox: the body of processInboxThread, run again by the flush.       *)

InboxLoopRuns(r) == main[r] \in {"running", "stopSendReceive"}

\* processInboxMessages: take all messages ...
ConsumeInbox(r) ==
  /\ handling[r] = <<>>
  /\ InboxLoopRuns(r) \/ main[r] = "flushInbox"
  /\ inbox[r] # <<>>
  /\ handling' = [handling EXCEPT ![r] = inbox[r]]
  /\ inbox' = [inbox EXCEPT ![r] = <<>>]
  /\ UNCHANGED <<loopVars, outbox, sending, mpiVars, ghostVars>>

\* ... and call the handler with each; a handler may send.
Handle(r) ==
  /\ handling[r] # <<>>
  /\ handled' = handled \cup {Head(handling[r])}
  /\ handling' = [handling EXCEPT ![r] = Tail(@)]
  /\ \/ UNCHANGED <<sent, outbox>>
     \/ /\ Cardinality(sent) < MaxMessages
        /\ \E d \in Rank :
             /\ outbox' = [outbox EXCEPT ![r] = Append(@, NewMessage(r, d))]
             /\ sent' = sent \cup {NewMessage(r, d)}
  /\ UNCHANGED <<loopVars, sending, inbox, mpiVars>>

\* The flush is back at its loop condition.
InboxProcessed(r) ==
  /\ main[r] = "flushInbox"
  /\ inbox[r] = <<>> /\ handling[r] = <<>>
  /\ main' = [main EXCEPT ![r] = "flush"]
  /\ UNCHANGED <<pass, starts, boxVars, mpiVars, ghostVars>>

-----------------------------------------------------------------------------
(* start() and stop(), serialised by tasksMutex.                            *)

Start(r) ==
  /\ main[r] = "stopped"
  /\ starts < MaxStarts
  /\ starts' = starts + 1
  /\ main' = [main EXCEPT ![r] = "running"]
  /\ UNCHANGED <<pass, boxVars, mpiVars, ghostVars>>

BeginStop(r) ==
  /\ main[r] = "running"
  /\ main' = [main EXCEPT ![r] = "stopSendReceive"]
  /\ UNCHANGED <<pass, starts, boxVars, mpiVars, ghostVars>>

\* sendReceiveThread->stop() returns, processInboxThread->stop() begins.
SendReceiveStopped(r) ==
  /\ main[r] = "stopSendReceive"
  /\ pass[r] = "idle"
  /\ main' = [main EXCEPT ![r] = "stopProcessInbox"]
  /\ UNCHANGED <<pass, starts, boxVars, mpiVars, ghostVars>>

\* Mutant: the inbox loop is not waited for.
ProcessInboxStopped_NoWait(r) ==
  /\ main[r] = "stopProcessInbox"
  /\ main' = [main EXCEPT ![r] = "flush"]
  /\ UNCHANGED <<pass, starts, boxVars, mpiVars, ghostVars>>

\* processInboxThread->stop() returns, flushRemainingMessages begins.
ProcessInboxStopped(r) ==
  /\ main[r] = "stopProcessInbox"
  /\ handling[r] = <<>>
  /\ main' = [main EXCEPT ![r] = "flush"]
  /\ UNCHANGED <<pass, starts, boxVars, mpiVars, ghostVars>>

\* Nothing is left, stop() returns.
Flushed(r) ==
  /\ main[r] = "flush"
  /\ ~MustFlush(r)
  /\ main' = [main EXCEPT ![r] = "stopped"]
  /\ UNCHANGED <<pass, starts, boxVars, mpiVars, ghostVars>>

-----------------------------------------------------------------------------
(* MPI, external: a receive completes some time after it was matched.  So   *)
(* does a send; it may complete before, if MPI chooses to buffer it.        *)

CompletesSend(m) ==
  /\ m \in pendingSends[m.from]
  /\ <<"send", m>> \notin complete
  /\ complete' = complete \cup {<<"send", m>>}
  /\ UNCHANGED <<loopVars, boxVars, pendingSends, pendingRecvs, net, ghostVars>>

CompletesRecv(m) ==
  /\ m \in pendingRecvs[m.to]
  /\ <<"recv", m>> \notin complete
  /\ complete' = complete \cup {<<"recv", m>>}
  /\ UNCHANGED <<loopVars, boxVars, pendingSends, pendingRecvs, net, ghostVars>>

-----------------------------------------------------------------------------
SendReceive(r) == ConsumeOutbox(r) \/ PostSends(r) \/ Poll(r) \/ WaitOnSome(r)

ProcessInbox(r) == ConsumeInbox(r) \/ Handle(r)

StopSteps(r) == SendReceiveStopped(r) \/ ProcessInboxStopped(r) \/ InboxProcessed(r) \/ Flushed(r)

MPI == \E m \in sent : CompletesSend(m) \/ CompletesRecv(m)

Next ==
  \/ \E r \in Rank :
       Send(r) \/ Start(r) \/ BeginStop(r) \/ StopSteps(r) \/ SendReceive(r) \/ ProcessInbox(r)
  \/ MPI

\* The loops are threads (or tasks) of their own, a stop() that was called
\* goes on, and MPI completes what has been matched.  Nobody has to start, to
\* stop, or to send, and MPI need not buffer.
Fairness ==
  /\ \A r \in Rank : WF_vars(SendReceive(r)) /\ WF_vars(ProcessInbox(r)) /\ WF_vars(StopSteps(r))
  /\ WF_vars(\E m \in sent : CompletesRecv(m) \/ (m \notin ToSet(net) /\ CompletesSend(m)))

Spec == Init /\ [][Next]_vars /\ Fairness

-----------------------------------------------------------------------------
(* Properties                                                               *)

\* Every box holds messages of its rank only: what leaves a rank through its
\* outbox, what reaches a handler through its inbox.
TypeOK ==
  /\ main \in [Rank -> Phase]
  /\ pass \in [Rank -> {"idle", "post", "poll", "wait"}]
  /\ sent \subseteq Message /\ handled \subseteq Message
  /\ starts \in 0 .. MaxStarts
  /\ \A r \in Rank :
       /\ outbox[r] \in Seq({m \in Message : m.from = r})
       /\ sending[r] \in Seq({m \in Message : m.from = r})
       /\ pendingSends[r] \subseteq {m \in Message : m.from = r /\ m.to # r}
       /\ pendingRecvs[r] \subseteq {m \in Message : m.to = r /\ m.from # r}
       /\ inbox[r] \in Seq({m \in Message : m.to = r})
       /\ handling[r] \in Seq({m \in Message : m.to = r})
  /\ net \in Seq({m \in Message : m.from # m.to})
  /\ complete \subseteq {"send", "recv"} \X Message

Occurs(m, seq) == Cardinality({i \in DOMAIN seq : seq[i] = m})
Holds(b) == IF b THEN 1 ELSE 0

\* From outbox to handler every message is in exactly one place: moving it
\* from a buffer to a local, to MPI, to recvCache, to the inbox neither loses
\* nor doubles it, whatever passes of whichever thread come between; and all
\* variables keep their types.
OnePlace == TypeOK /\
  \A m \in sent :
    1 = Occurs(m, outbox[m.from]) + Occurs(m, sending[m.from]) + Occurs(m, net)
        + Holds(m \in pendingRecvs[m.to]) + Occurs(m, inbox[m.to])
        + Occurs(m, handling[m.to]) + Holds(m \in handled)

\* When stop() has returned the layer is quiet: no pass and no handler is
\* under way, no request pending, nothing received is left unhandled.  Only
\* the outbox can fill, by threads that send to a stopped layer.
QuietWhenStopped ==
  \A r \in Rank : main[r] = "stopped" =>
    /\ pass[r] = "idle" /\ sending[r] = <<>> /\ handling[r] = <<>>
    /\ inbox[r] = <<>> /\ pendingSends[r] = {} /\ pendingRecvs[r] = {}

\* A message is handled unless one of its two ranks is stopped for good, or
\* its receiver's stop() returned before it came.
Delivered ==
  \A id \in 1 .. MaxMessages :
    (\E m \in sent : m.id = id) ~>
      (\E m \in sent : m.id = id /\ (m \in handled \/ "stopped" \in {main[m.from], main[m.to]}))

\* Only a send to a rank that has stopped can keep the flush of stop() from
\* ending: two ranks that flush receive from each other.
OnlyStoppedPeerHolds ==
  \A r \in Rank :
    []<>(\/ main[r] \in {"stopped", "running"}
         \/ \E m \in pendingSends[r] : main[m.to] = "stopped")

Service == INSTANCE MessageService WITH
  undelivered <- sent \ handled,
  serving <- {r \in Rank : main[r] # "stopped"}

\* The layer is what its clients take it for: at most one delivery, to the
\* right rank, and none when stopped.
ImplementsService == Service!Spec
============================================================================
