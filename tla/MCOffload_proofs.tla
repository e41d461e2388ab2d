-------------------------- MODULE MCOffload_proofs --------------------------
(***************************************************************************)
(* What passes between the ranks of the offload device, for any number of  *)
(* ranks and workers, any sizes of buffers and any number of messages,     *)
(* calls and objects: the message layer is quiet when stop() has returned, *)
(* no unit of the stream is lost or moved, the calls reach the workers in  *)
(* order, each once, and a call that waits has been waited for; an object  *)
(* exists as long as it is needed and no longer, and the devices agree.    *)
(***************************************************************************)
EXTENDS MCOffload, TLAPS, FiniteSetTheorems, SequenceTheorems, WellFoundedInduction

-----------------------------------------------------------------------------
(* The message layer.  The inductive invariant is IInv.                    *)

Passes == {"idle", "post", "poll", "wait"}

\* The functions of the ranks that the argument is about; what the boxes hold
\* is of no matter to it.
Types ==
  /\ main \in [Rank -> Phase] /\ pass \in [Rank -> Passes]
  /\ DOMAIN sending = Rank /\ DOMAIN inbox = Rank /\ DOMAIN handling = Rank
  /\ DOMAIN pendingSends = Rank /\ DOMAIN pendingRecvs = Rank

\* Each loop works in its own phases, the flush in their place: what a pass or
\* the handlers have taken out of a box is put away before the phase is over.
LoopsInPhase(r) ==
  /\ pass[r] # "idle" => main[r] \in {"running", "stopSendReceive", "flushPass"}
  /\ sending[r] # <<>> => pass[r] = "post"
  /\ handling[r] # <<>>
       => main[r] \in {"running", "stopSendReceive", "stopProcessInbox", "flushInbox"}

\* What the last look of the flush found stays true.
NothingPending(r) ==
  main[r] = "stopped" =>
    inbox[r] = <<>> /\ pendingSends[r] = {} /\ pendingRecvs[r] = {}

IInv == Types /\ \A r \in Rank : LoopsInPhase(r) /\ NothingPending(r)

-----------------------------------------------------------------------------
\* A context before its first start().
LEMMA InitIInv == Init => IInv
BY DEF Init, IInv, Types, LoopsInPhase, NothingPending, Phase, Passes

\* The variables stay functions of the ranks.
LEMMA NextTypes == Types /\ [Next]_vars => Types'
<1> SUFFICES ASSUME Types, [Next]_vars
             PROVE  Types'
  OBVIOUS
<1> USE DEF Types, Phase, Passes, loopVars, boxVars, mpiVars, ghostVars
<1>1. ASSUME NEW r \in Rank, Send(r) \/ Start(r) \/ BeginStop(r)
      PROVE  Types'
  BY <1>1 DEF Send, Start, BeginStop
<1>2. ASSUME NEW r \in Rank, StopSteps(r)
      PROVE  Types'
  BY <1>2 DEF StopSteps, SendReceiveStopped, ProcessInboxStopped, InboxProcessed, Flushed
<1>3. ASSUME NEW r \in Rank, ConsumeOutbox(r)
      PROVE  Types'
  BY <1>3 DEF ConsumeOutbox
<1>4. ASSUME NEW r \in Rank, PostSends(r)
      PROVE  Types'
  BY <1>4 DEF PostSends
<1>5. ASSUME NEW r \in Rank, Poll(r)
      PROVE  Types'
  BY <1>5 DEF Poll
<1>6. ASSUME NEW r \in Rank, WaitOnSome(r)
      PROVE  Types'
  BY <1>6 DEF WaitOnSome
<1>7. ASSUME NEW r \in Rank, ProcessInbox(r)
      PROVE  Types'
  BY <1>7 DEF ProcessInbox, ConsumeInbox, Handle
<1>8. CASE MPI
  BY <1>8 DEF MPI, CompletesSend, CompletesRecv
<1>9. CASE UNCHANGED vars
  BY <1>9 DEF vars
<1>10. QED
  BY <1>1, <1>2, <1>3, <1>4, <1>5, <1>6, <1>7, <1>8, <1>9 DEF Next, SendReceive

\* What a rank does leaves the state of the others as it was.
LEMMA NextPhases == IInv /\ [Next]_vars => \A s \in Rank : (LoopsInPhase(s) /\ NothingPending(s))'
<1> SUFFICES ASSUME IInv, [Next]_vars, NEW s \in Rank
             PROVE  (LoopsInPhase(s) /\ NothingPending(s))'
  OBVIOUS
<1> USE DEF IInv, Types, LoopsInPhase, NothingPending, loopVars, boxVars, mpiVars, ghostVars
<1>1. ASSUME NEW r \in Rank, Send(r) \/ Start(r) \/ BeginStop(r)
      PROVE  (LoopsInPhase(s) /\ NothingPending(s))'
  BY <1>1 DEF Send, Start, BeginStop
<1>2. ASSUME NEW r \in Rank, StopSteps(r)
      PROVE  (LoopsInPhase(s) /\ NothingPending(s))'
  BY <1>2 DEF StopSteps, SendReceiveStopped, ProcessInboxStopped, InboxProcessed,
              Flushed, MustFlush
<1>3. ASSUME NEW r \in Rank, ConsumeOutbox(r)
      PROVE  (LoopsInPhase(s) /\ NothingPending(s))'
  BY <1>3 DEF ConsumeOutbox
<1>4. ASSUME NEW r \in Rank, PostSends(r)
      PROVE  (LoopsInPhase(s) /\ NothingPending(s))'
  BY <1>4 DEF PostSends
<1>5. ASSUME NEW r \in Rank, Poll(r)
      PROVE  (LoopsInPhase(s) /\ NothingPending(s))'
  BY <1>5 DEF Poll
<1>6. ASSUME NEW r \in Rank, WaitOnSome(r)
      PROVE  (LoopsInPhase(s) /\ NothingPending(s))'
  BY <1>6 DEF WaitOnSome
<1>7. ASSUME NEW r \in Rank, ProcessInbox(r)
      PROVE  (LoopsInPhase(s) /\ NothingPending(s))'
  BY <1>7 DEF ProcessInbox, ConsumeInbox, Handle, InboxLoopRuns
<1>8. CASE MPI
  BY <1>8 DEF MPI, CompletesSend, CompletesRecv
<1>9. CASE UNCHANGED vars
  BY <1>9 DEF vars
<1>10. QED
  BY <1>1, <1>2, <1>3, <1>4, <1>5, <1>6, <1>7, <1>8, <1>9 DEF Next, SendReceive

\* It holds in every state of the layer (maml/Context.cpp).
THEOREM Invariance == Spec => []IInv
<1>1. IInv /\ [Next]_vars => IInv'
  BY NextTypes, NextPhases DEF IInv
<1>2. QED
  BY InitIInv, <1>1, PTL DEF Spec

\* When stop() has returned nothing is under way and nothing that came is
\* left, whichever pass or handler was under way when it was called
\* (Context::stop, flushRemainingMessages).
THEOREM StopsQuietly == Spec => []QuietWhenStopped
<1>1. IInv => QuietWhenStopped
  BY DEF IInv, Types, LoopsInPhase, NothingPending, QuietWhenStopped
<1>2. QED
  BY <1>1, Invariance, PTL

-----------------------------------------------------------------------------
(* How often a message occurs in a sequence.                               *)

At(m, s) == {k \in DOMAIN s : s[k] = m}
AtOf(m, s, positions) == {k \in positions : s[k] = m}

LEMMA UpTo == \A n \in Nat : IsFiniteSet(1 .. n) /\ Cardinality(1 .. n) = n
<1> SUFFICES ASSUME NEW n \in Nat PROVE IsFiniteSet(1 .. n) /\ Cardinality(1 .. n) = n
  OBVIOUS
<1>1. Cardinality(1 .. n) = IF 1 > n THEN 0 ELSE n - 1 + 1
  BY FS_Interval, 1 \in Int, n \in Int
<1> QED BY <1>1, FS_Interval, 1 \in Int, n \in Int

LEMMA Counted ==
  ASSUME NEW S, NEW s \in Seq(S), NEW m
  PROVE  /\ DOMAIN s = 1 .. Len(s) /\ Len(s) \in Nat
         /\ IsFiniteSet(At(m, s)) /\ Occurs(m, s) = Cardinality(At(m, s)) /\ Occurs(m, s) \in Nat
<1>1. DOMAIN s = 1 .. Len(s) /\ Len(s) \in Nat
  OBVIOUS
<1>2. IsFiniteSet(At(m, s))
  BY <1>1, UpTo, FS_Subset DEF At
<1> QED BY <1>1, <1>2, FS_CardinalityType DEF Occurs, At

LEMMA OccursIn ==
  ASSUME NEW S, NEW s \in Seq(S), NEW m
  PROVE  Occurs(m, s) = 0 <=> \A k \in 1 .. Len(s) : s[k] # m
<1>1. IsFiniteSet(At(m, s)) /\ Occurs(m, s) = Cardinality(At(m, s)) /\ DOMAIN s = 1 .. Len(s)
  BY Counted
<1>2. Occurs(m, s) = 0 <=> At(m, s) = {}
  BY <1>1, FS_EmptySet
<1> QED BY <1>1, <1>2 DEF At

LEMMA OccursNone == \A m : Occurs(m, <<>>) = 0
<1>1. \A m : At(m, <<>>) = {}
  BY DEF At
<1> QED BY <1>1, FS_EmptySet DEF Occurs, At

LEMMA OccursOne == \A x, m : Occurs(m, <<x>>) = Holds(x = m)
<1> SUFFICES ASSUME NEW x, NEW m PROVE Occurs(m, <<x>>) = Holds(x = m)
  OBVIOUS
<1>1. At(m, <<x>>) = IF x = m THEN {1} ELSE {}
  BY DEF At
<1>2. Cardinality({}) = 0 /\ Cardinality({1}) = 1
  BY FS_EmptySet, FS_Singleton
<1> QED BY <1>1, <1>2 DEF Occurs, At, Holds

LEMMA Joined ==
  ASSUME NEW S, NEW s \in Seq(S), NEW t \in Seq(S)
  PROVE  /\ s \o t \in Seq(S) /\ DOMAIN (s \o t) = 1 .. Len(s) + Len(t)
         /\ Len(s \o t) = Len(s) + Len(t)
         /\ \A k \in 1 .. Len(s) : (s \o t)[k] = s[k]
         /\ \A k \in 1 .. Len(t) : (s \o t)[Len(s) + k] = t[k]
OBVIOUS

LEMMA SameSeq ==
  ASSUME NEW S, NEW s \in Seq(S), NEW t \in Seq(S), Len(s) = Len(t),
         \A k \in 1 .. Len(s) : s[k] = t[k]
  PROVE  s = t
OBVIOUS

LEMMA OccursBoth ==
  ASSUME NEW S, NEW s \in Seq(S), NEW t \in Seq(S), NEW m
  PROVE  Occurs(m, s \o t) = Occurs(m, s) + Occurs(m, t)
<1> DEFINE A == At(m, s)
           B == At(m, t)
           C == {Len(s) + k : k \in B}
           f == [k \in B |-> Len(s) + k]
<1>1. /\ DOMAIN s = 1 .. Len(s) /\ Len(s) \in Nat /\ DOMAIN t = 1 .. Len(t) /\ Len(t) \in Nat
      /\ IsFiniteSet(A) /\ IsFiniteSet(B) /\ Occurs(m, s) = Cardinality(A) /\ Occurs(m, t) = Cardinality(B)
      /\ Occurs(m, s) \in Nat /\ Occurs(m, t) \in Nat
  BY Counted
<1>2. /\ s \o t \in Seq(S) /\ DOMAIN (s \o t) = 1 .. Len(s) + Len(t)
      /\ \A k \in 1 .. Len(s) : (s \o t)[k] = s[k]
      /\ \A k \in 1 .. Len(t) : (s \o t)[Len(s) + k] = t[k]
  BY Joined
<1>3. At(m, s \o t) = A \cup C /\ A \cap C = {}
  <2>1. ASSUME NEW k \in At(m, s \o t) PROVE k \in A \cup C
    <3>1. k \in 1 .. Len(s) + Len(t) /\ (s \o t)[k] = m
      BY <1>2 DEF At
    <3>2. CASE k \in 1 .. Len(s)
      BY <1>1, <1>2, <3>1, <3>2 DEF At
    <3>3. CASE k \notin 1 .. Len(s)
      <4>1. k - Len(s) \in 1 .. Len(t) /\ k = Len(s) + (k - Len(s))
        BY <1>1, <3>1, <3>3
      <4>2. k - Len(s) \in B
        BY <1>1, <1>2, <3>1, <4>1 DEF At
      <4> QED BY <4>1, <4>2
    <3> QED BY <3>2, <3>3
  <2>2. ASSUME NEW k \in A PROVE k \in At(m, s \o t)
    BY <1>1, <1>2 DEF At
  <2>3. ASSUME NEW k \in B PROVE Len(s) + k \in At(m, s \o t) /\ Len(s) + k \notin A
    BY <1>1, <1>2 DEF At
  <2> QED BY <2>1, <2>2, <2>3
<1>4. IsFiniteSet(C) /\ Cardinality(C) = Cardinality(B)
  <2>1. \A k \in B : k \in Int
    BY <1>1 DEF At
  <2>2. f \in Bijection(B, C)
    <3> HIDE DEF B
    <3> QED BY <1>1, <2>1 DEF Bijection, Injection, Surjection, IsInjective
  <2> HIDE DEF B, C
  <2>3. ExistsBijection(B, C)
    BY <2>2 DEF ExistsBijection
  <2> QED BY <1>1, <2>3, FS_Bijection
<1>5. Cardinality(A \cup C) = Cardinality(A) + Cardinality(C)
  <2> HIDE DEF A, C
  <2>1. Cardinality(A \cup C) = Cardinality(A) + Cardinality(C) - Cardinality(A \cap C)
    BY <1>1, <1>4, FS_Union
  <2>2. Cardinality(A \cap C) = 0
    BY <1>3, FS_EmptySet
  <2> QED BY <1>1, <1>4, <2>1, <2>2
<1> QED BY <1>1, <1>2, <1>3, <1>4, <1>5, Counted

LEMMA OccursAppend ==
  ASSUME NEW S, NEW s \in Seq(S), NEW x \in S, NEW m
  PROVE  Append(s, x) \in Seq(S) /\ Occurs(m, Append(s, x)) = Occurs(m, s) + Holds(x = m)
<1>1. Append(s, x) = s \o <<x>> /\ <<x>> \in Seq(S) /\ Append(s, x) \in Seq(S)
  OBVIOUS
<1>2. Occurs(m, s \o <<x>>) = Occurs(m, s) + Occurs(m, <<x>>)
  BY <1>1, OccursBoth
<1> QED BY <1>1, <1>2, OccursOne

LEMMA OccursTail ==
  ASSUME NEW S, NEW s \in Seq(S), s # <<>>, NEW m
  PROVE  /\ Head(s) \in S /\ Tail(s) \in Seq(S)
         /\ Occurs(m, s) = Holds(Head(s) = m) + Occurs(m, Tail(s))
<1>1. s = <<Head(s)>> \o Tail(s) /\ <<Head(s)>> \in Seq(S) /\ Tail(s) \in Seq(S) /\ Head(s) \in S
  OBVIOUS
<1>2. Occurs(m, <<Head(s)>> \o Tail(s)) = Occurs(m, <<Head(s)>>) + Occurs(m, Tail(s))
  BY <1>1, OccursBoth
<1>3. Occurs(m, <<Head(s)>>) = Holds(Head(s) = m)
  BY OccursOne
<1> QED BY <1>1, <1>2, <1>3

LEMMA OccursRemoved ==
  ASSUME NEW S, NEW s \in Seq(S), NEW k \in 1 .. Len(s), NEW m
  PROVE  /\ RemoveAt(s, k) \in Seq(S)
         /\ Occurs(m, s) = Occurs(m, RemoveAt(s, k)) + Holds(s[k] = m)
<1> DEFINE a == SubSeq(s, 1, k - 1)
           b == SubSeq(s, k + 1, Len(s))
           c == Append(a, s[k])
<1>1. /\ Len(s) \in Nat /\ a \in Seq(S) /\ Len(a) = k - 1 /\ \A j \in 1 .. k - 1 : a[j] = s[j]
      /\ s[k] \in S
  OBVIOUS
<1>2. b \in Seq(S) /\ Len(b) = Len(s) - k /\ \A j \in 1 .. Len(s) - k : b[j] = s[k + j]
  OBVIOUS
<1>3. RemoveAt(s, k) = a \o b
  BY DEF RemoveAt
<1> HIDE DEF a, b
<1>4. c \in Seq(S) /\ Len(c) = k /\ \A j \in 1 .. k : c[j] = s[j]
  BY <1>1
<1> HIDE DEF c
<1>5. s = c \o b
  <2>1. /\ c \o b \in Seq(S) /\ Len(c \o b) = Len(s)
        /\ \A j \in 1 .. k : (c \o b)[j] = c[j]
        /\ \A j \in 1 .. Len(s) - k : (c \o b)[k + j] = b[j]
    <3>1. /\ c \o b \in Seq(S) /\ Len(c \o b) = Len(c) + Len(b)
          /\ \A j \in 1 .. Len(c) : (c \o b)[j] = c[j]
          /\ \A j \in 1 .. Len(b) : (c \o b)[Len(c) + j] = b[j]
      <4>1. c \in Seq(S) /\ b \in Seq(S)
        BY <1>2, <1>4
      <4> QED BY <4>1, Joined
    <3>2. k + (Len(s) - k) = Len(s)
      BY <1>1
    <3> QED BY <1>2, <1>4, <3>1, <3>2
  <2>2. ASSUME NEW j \in 1 .. Len(s) PROVE (c \o b)[j] = s[j]
    <3>1. CASE j \in 1 .. k
      BY <1>4, <2>1, <3>1
    <3>2. CASE j \notin 1 .. k
      <4>1. j - k \in 1 .. Len(s) - k /\ k + (j - k) = j
        BY <1>1, <3>2
      <4> QED BY <1>2, <2>1, <4>1
    <3> QED BY <3>1, <3>2
  <2>3. \A j \in 1 .. Len(s) : s[j] = (c \o b)[j]
    BY <2>2
  <2> QED BY <2>1, <2>3, SameSeq
<1>6. Occurs(m, s) = Occurs(m, c) + Occurs(m, b)
  BY <1>2, <1>4, <1>5, OccursBoth
<1>7. Occurs(m, c) = Occurs(m, a) + Holds(s[k] = m)
  BY <1>1, OccursAppend DEF c
<1>8. Occurs(m, a \o b) = Occurs(m, a) + Occurs(m, b) /\ a \o b \in Seq(S)
  BY <1>1, <1>2, OccursBoth
<1>9. Occurs(m, a) \in Nat /\ Occurs(m, b) \in Nat /\ Holds(s[k] = m) \in Nat
  BY <1>1, <1>2, Counted DEF Holds
<1> QED BY <1>3, <1>6, <1>7, <1>8, <1>9

\* Numbers are counted from the least.
LEMMA Places ==
  ASSUME NEW L \in Nat, NEW I \in SUBSET (1 .. L)
  PROVE  /\ IsFiniteSet(I) /\ Cardinality(I) \in Nat
         /\ [i \in I |-> Cardinality({j \in I : j <= i})] \in Bijection(I, 1 .. Cardinality(I))
<1> DEFINE n == Cardinality(I)
           upTo(i) == {j \in I : j <= i}
           place == [i \in I |-> Cardinality(upTo(i))]
<1>1. IsFiniteSet(I) /\ n \in Nat /\ \A x \in I : x \in Int
  <2>1. IsFiniteSet(I)
    BY UpTo, FS_Subset
  <2> QED BY <2>1, FS_CardinalityType
<1>2. ASSUME NEW i \in I
      PROVE  IsFiniteSet(upTo(i)) /\ Cardinality(upTo(i)) \in 1 .. n /\ i \in upTo(i)
  <2>1. i \in upTo(i) /\ upTo(i) \subseteq I
    BY <1>1
  <2>2. IsFiniteSet(upTo(i)) /\ Cardinality(upTo(i)) <= n
    BY <1>1, <2>1, FS_Subset
  <2>3. Cardinality(upTo(i)) \in Nat /\ Cardinality(upTo(i)) # 0
    BY <2>1, <2>2, FS_CardinalityType, FS_EmptySet
  <2> QED BY <1>1, <2>1, <2>2, <2>3
<1>3. ASSUME NEW i \in I, NEW j \in I, i < j PROVE place[i] # place[j]
  <2>1. upTo(i) \subseteq upTo(j) /\ j \notin upTo(i)
    <3>1. i \in Int /\ j \in Int
      BY <1>1
    <3>2. ASSUME NEW x \in upTo(i) PROVE x \in upTo(j)
      <4>1. x \in I /\ x \in Int /\ x <= i
        BY <1>1
      <4>2. x <= j
        BY <1>3, <3>1, <4>1
      <4> QED BY <4>1, <4>2
    <3>3. j \notin upTo(i)
      BY <1>3, <3>1
    <3> HIDE DEF upTo
    <3> QED BY <3>2, <3>3
  <2>2. Cardinality(upTo(i)) = Cardinality(upTo(j)) => upTo(i) = upTo(j)
    BY <1>2, <2>1, FS_Subset
  <2> QED BY <1>2, <2>1, <2>2
<1>4. IsFiniteSet(1 .. n) /\ Cardinality(1 .. n) = n
  BY <1>1, UpTo
<1>5. place \in Injection(I, 1 .. n)
  <2>1. place \in [I -> 1 .. n]
    BY <1>2
  <2>2. \A r, s \in I : place[r] = place[s] => r = s
    <3> SUFFICES ASSUME NEW r \in I, NEW s \in I, r # s PROVE place[r] # place[s]
      OBVIOUS
    <3>1. r < s \/ s < r
      <4>1. r \in Int /\ s \in Int
        BY <1>1
      <4> QED BY <4>1
    <3> HIDE DEF place
    <3> QED BY <3>1, <1>3
  <2> HIDE DEF place
  <2> QED BY <2>1, <2>2 DEF Injection, IsInjective
<1>6. place \in Surjection(I, 1 .. n)
  <2> HIDE DEF place
  <2>1. Cardinality(I) = Cardinality(1 .. n)
    BY <1>4
  <2> QED BY <1>1, <1>4, <1>5, <2>1, FS_Injection
<1> HIDE DEF place
<1>7. place \in Bijection(I, 1 .. n)
  BY <1>5, <1>6 DEF Bijection
<1> QED BY <1>1, <1>7 DEF place

LEMMA OccursChosen ==
  ASSUME NEW S, NEW s \in Seq(S), NEW I \in SUBSET (1 .. Len(s)), NEW T, \A k \in I : s[k] \in T,
         NEW m
  PROVE  /\ Chosen(s, I) \in Seq(T)
         /\ Occurs(m, Chosen(s, I)) = Cardinality(AtOf(m, s, I))
<1> DEFINE n == Cardinality(I)
           place == [i \in I |-> Cardinality({j \in I : j <= i})]
           position(k) == CHOOSE i \in I : Cardinality({j \in I : j <= i}) = k
           t == Chosen(s, I)
           C == {k \in I : s[k] = m}
           f == [k \in At(m, t) |-> position(k)]
<1>1. IsFiniteSet(I) /\ n \in Nat /\ place \in Bijection(I, 1 .. n)
  BY Places, Len(s) \in Nat
<1>2. ASSUME NEW k \in 1 .. n PROVE position(k) \in I /\ place[position(k)] = k
  <2>1. PICK i \in I : place[i] = k
    <3> HIDE DEF place
    <3> QED BY <1>1 DEF Bijection, Surjection
  <2>2. Cardinality({j \in I : j <= i}) = k
    BY <2>1
  <2>3. position(k) \in I /\ Cardinality({j \in I : j <= position(k)}) = k
    BY <2>2
  <2> HIDE DEF position
  <2> QED BY <2>3
<1>3. ASSUME NEW i \in I PROVE place[i] \in 1 .. n /\ position(place[i]) = i
  <2>1. place[i] \in 1 .. n
    <3> HIDE DEF place
    <3> QED BY <1>1 DEF Bijection, Injection
  <2>2. position(place[i]) \in I /\ place[position(place[i])] = place[i]
    BY <1>2, <2>1
  <2> HIDE DEF place, position
  <2> QED BY <1>1, <2>1, <2>2 DEF Bijection, Injection, IsInjective
<1>4. t = [k \in 1 .. n |-> s[position(k)]]
  BY DEF Chosen
<1> HIDE DEF place, position, t
<1>5. t \in Seq(T) /\ DOMAIN t = 1 .. n
  <2>1. \A k \in 1 .. n : s[position(k)] \in T
    BY <1>2
  <2> QED BY <1>1, <1>4, <2>1
<1>6. IsFiniteSet(At(m, t)) /\ Occurs(m, t) = Cardinality(At(m, t))
  BY <1>5, Counted
<1>7. f \in Bijection(At(m, t), C)
  <2>1. ASSUME NEW k \in At(m, t) PROVE k \in 1 .. n /\ position(k) \in C
    BY <1>2, <1>4, <1>5 DEF At
  <2>2. f \in [At(m, t) -> C]
    BY <2>1
  <2>3. \A k, l \in At(m, t) : f[k] = f[l] => k = l
    BY <1>2, <2>1
  <2>4. ASSUME NEW i \in C PROVE \E k \in At(m, t) : f[k] = i
    <3>1. place[i] \in 1 .. n /\ position(place[i]) = i
      BY <1>3
    <3>2. place[i] \in At(m, t)
      BY <1>4, <1>5, <3>1 DEF At
    <3> QED BY <3>1, <3>2
  <2> HIDE DEF f, C
  <2> QED BY <2>2, <2>3, <2>4 DEF Bijection, Injection, Surjection, IsInjective
<1>8. Cardinality(At(m, t)) = Cardinality(C)
  <2> HIDE DEF f, C
  <2>1. ExistsBijection(At(m, t), C)
    BY <1>7 DEF ExistsBijection
  <2> QED BY <1>6, <2>1, FS_Bijection
<1> QED BY <1>5, <1>6, <1>8 DEF t, AtOf

LEMMA OccursOrdered ==
  ASSUME NEW S, IsFiniteSet(S), NEW s \in SetToSeqs(S), NEW m
  PROVE  s \in Seq(S) /\ Occurs(m, s) = Holds(m \in S)
<1> DEFINE n == Cardinality(S)
<1>1. n \in Nat /\ IsFiniteSet(1 .. n) /\ Cardinality(1 .. n) = n
  BY FS_CardinalityType, UpTo
<1>2. s \in [1 .. n -> S] /\ \A i, j \in 1 .. n : i # j => s[i] # s[j]
  BY DEF SetToSeqs
<1>3. s \in Seq(S) /\ DOMAIN s = 1 .. n
  BY <1>1, <1>2
<1>4. s \in Injection(1 .. n, S)
  BY <1>2 DEF Injection, IsInjective
<1>5. s \in Surjection(1 .. n, S)
  BY <1>1, <1>4, FS_Injection
<1>6. CASE m \in S
  <2>1. PICK k \in 1 .. n : s[k] = m
    BY <1>5, <1>6 DEF Surjection
  <2>2. At(m, s) = {k}
    BY <1>2, <1>3, <2>1 DEF At
  <2> QED BY <1>3, <1>6, <2>2, Counted, FS_Singleton DEF Holds
<1>7. CASE m \notin S
  <2>1. At(m, s) = {}
    BY <1>2, <1>3, <1>7 DEF At
  <2> QED BY <1>3, <1>7, <2>1, Counted, FS_EmptySet DEF Holds
<1> QED BY <1>6, <1>7

-----------------------------------------------------------------------------
(* Every message is in one place.  The inductive invariant is MessageInv.  *)

From(r) == {m \in Message : m.from = r}
To(r) == {m \in Message : m.to = r}

BoxTypes ==
  /\ Types /\ DOMAIN outbox = Rank
  /\ sent \subseteq Message /\ handled \subseteq Message
  /\ starts \in 0 .. MaxStarts
  /\ \A r \in Rank :
       /\ outbox[r] \in Seq(From(r)) /\ sending[r] \in Seq(From(r))
       /\ inbox[r] \in Seq(To(r)) /\ handling[r] \in Seq(To(r))
  /\ \A r \in Rank : pendingSends[r] \subseteq {m \in From(r) : m.to # r}
  /\ \A r \in Rank : pendingRecvs[r] \subseteq {m \in To(r) : m.from # r}
  /\ net \in Seq({m \in Message : m.from # m.to})
  /\ complete \subseteq {"send", "recv"} \X Message

\* The messages are numbered as they are sent.
Numbered == IsFiniteSet(sent) /\ \A m \in sent : m.id <= Cardinality(sent)

InPlaces(m) ==
  Occurs(m, outbox[m.from]) + Occurs(m, sending[m.from]) + Occurs(m, net)
  + Holds(m \in pendingRecvs[m.to]) + Occurs(m, inbox[m.to])
  + Occurs(m, handling[m.to]) + Holds(m \in handled)

OneEach == \A m \in Message : InPlaces(m) = Holds(m \in sent)

MessageInv == BoxTypes /\ Numbered /\ OneEach

LEMMA MessageStart == ASSUME Init PROVE MessageInv
<1>1. BoxTypes
  BY InitIInv, BoundsAssumption DEF Init, IInv, BoxTypes
<1>2. Numbered
  BY FS_EmptySet DEF Init, Numbered
<1>3. ASSUME NEW m \in Message PROVE InPlaces(m) = Holds(m \in sent)
  <2>1. m.from \in Rank /\ m.to \in Rank
    BY DEF Message
  <2>2. /\ Occurs(m, outbox[m.from]) = 0 /\ Occurs(m, sending[m.from]) = 0 /\ Occurs(m, net) = 0
        /\ Occurs(m, inbox[m.to]) = 0 /\ Occurs(m, handling[m.to]) = 0
    BY <2>1, OccursNone DEF Init
  <2>3. m \notin pendingRecvs[m.to] /\ m \notin handled /\ m \notin sent
    BY <2>1 DEF Init
  <2> QED BY <2>2, <2>3 DEF InPlaces, Holds
<1> QED BY <1>1, <1>2, <1>3 DEF MessageInv, OneEach

LEMMA NewOne ==
  ASSUME Numbered, sent \subseteq Message, Cardinality(sent) < MaxMessages, NEW r \in Rank, NEW d \in Rank
  PROVE  LET new == NewMessage(r, d)
         IN /\ new \in From(r) /\ new \notin sent /\ new.from = r /\ new.to = d
            /\ IsFiniteSet(sent \cup {new})
            /\ \A m \in sent \cup {new} : m.id <= Cardinality(sent \cup {new})
<1> DEFINE new == NewMessage(r, d)
<1>1. Cardinality(sent) \in Nat /\ MaxMessages \in Nat /\ IsFiniteSet(sent)
  BY FS_CardinalityType, BoundsAssumption DEF Numbered
<1>2. new.id = Cardinality(sent) + 1 /\ new.from = r /\ new.to = d
  BY DEF NewMessage
<1>3. new \in From(r)
  BY <1>1 DEF NewMessage, Message, From
<1>4. \A m \in sent : m.id \in Int /\ m.id <= Cardinality(sent)
  BY DEF Numbered, Message
<1>5. new \notin sent
  BY <1>1, <1>2, <1>4
<1> HIDE DEF new
<1>6. IsFiniteSet(sent \cup {new}) /\ Cardinality(sent \cup {new}) = Cardinality(sent) + 1
  BY <1>1, <1>5, FS_AddElement
<1>7. \A m \in sent \cup {new} : m.id <= Cardinality(sent \cup {new})
  BY <1>1, <1>2, <1>4, <1>6
<1> QED BY <1>2, <1>3, <1>5, <1>6, <1>7 DEF new

LEMMA NumberedKept ==
  ASSUME MessageInv, [Next]_vars PROVE Numbered'
<1> USE DEF loopVars, boxVars, mpiVars, ghostVars
<1>1. CASE sent' = sent
  BY <1>1 DEF MessageInv, Numbered
<1>2. ASSUME NEW r \in Rank, NEW d \in Rank, Cardinality(sent) < MaxMessages,
             sent' = sent \cup {NewMessage(r, d)}
      PROVE  Numbered'
  <2>1. /\ IsFiniteSet(sent \cup {NewMessage(r, d)})
        /\ \A m \in sent \cup {NewMessage(r, d)} : m.id <= Cardinality(sent \cup {NewMessage(r, d)})
    BY <1>2, NewOne DEF MessageInv, BoxTypes
  <2>2. IsFiniteSet(sent') /\ \A m \in sent' : m.id <= Cardinality(sent')
    BY <1>2, <2>1
  <2> QED BY <2>2 DEF Numbered
<1>3. ASSUME NEW r \in Rank, Send(r) PROVE Numbered'
  BY <1>2, <1>3 DEF Send
<1>4. ASSUME NEW r \in Rank, Handle(r) PROVE Numbered'
  BY <1>1, <1>2, <1>4 DEF Handle
<1>5. ASSUME NEW r \in Rank, Start(r) \/ BeginStop(r) \/ StopSteps(r) PROVE Numbered'
  BY <1>1, <1>5 DEF Start, BeginStop, StopSteps, SendReceiveStopped, ProcessInboxStopped, InboxProcessed, Flushed
<1>6. ASSUME NEW r \in Rank, SendReceive(r) PROVE Numbered'
  BY <1>1, <1>6 DEF SendReceive, ConsumeOutbox, PostSends, Poll, WaitOnSome
<1>7. ASSUME NEW r \in Rank, ConsumeInbox(r) PROVE Numbered'
  BY <1>1, <1>7 DEF ConsumeInbox
<1>8. CASE MPI
  BY <1>1, <1>8 DEF MPI, CompletesSend, CompletesRecv
<1>9. CASE UNCHANGED vars
  BY <1>1, <1>9 DEF vars
<1> QED BY <1>3, <1>4, <1>5, <1>6, <1>7, <1>8, <1>9 DEF Next, ProcessInbox

\* The seven places are counted with numbers, and what is somewhere is sent.
LEMMA PlacesCount ==
  ASSUME BoxTypes, NEW m \in Message
  PROVE  /\ m.from \in Rank /\ m.to \in Rank
         /\ Occurs(m, outbox[m.from]) \in Nat /\ Occurs(m, sending[m.from]) \in Nat
         /\ Occurs(m, net) \in Nat
         /\ Occurs(m, inbox[m.to]) \in Nat /\ Occurs(m, handling[m.to]) \in Nat
<1>1. m.from \in Rank /\ m.to \in Rank
  BY DEF Message
<1>2. /\ outbox[m.from] \in Seq(From(m.from)) /\ sending[m.from] \in Seq(From(m.from))
      /\ inbox[m.to] \in Seq(To(m.to)) /\ handling[m.to] \in Seq(To(m.to))
      /\ net \in Seq({x \in Message : x.from # x.to})
  BY <1>1 DEF BoxTypes
<1> QED BY <1>1, <1>2, Counted

LEMMA ReceivesFinite ==
  ASSUME MessageInv, NEW r \in Rank
  PROVE  \A S \in SUBSET pendingRecvs[r] : IsFiniteSet(S)
<1>1. ASSUME NEW m \in pendingRecvs[r] PROVE m \in sent
  <2>1. m \in Message /\ m.to = r
    BY DEF MessageInv, BoxTypes, To
  <2>2. InPlaces(m) = Holds(m \in sent) /\ Holds(m \in pendingRecvs[m.to]) = 1
    BY <2>1 DEF MessageInv, OneEach, Holds
  <2>3. Holds(m \in handled) \in Nat
    BY DEF Holds
  <2>4. Holds(m \in sent) # 0
    BY <2>1, <2>2, <2>3, PlacesCount DEF InPlaces, MessageInv
  <2> QED BY <2>4 DEF Holds
<1>2. pendingRecvs[r] \subseteq sent
  BY <1>1
<1> QED BY <1>2, FS_Subset DEF MessageInv, Numbered

\* The elements of a box are those of its rank.
LEMMA BoxTypesKept == ASSUME MessageInv, [Next]_vars PROVE BoxTypes'
<1> USE DEF loopVars, boxVars, mpiVars, ghostVars
<1>0. BoxTypes /\ Types'
  BY NextTypes DEF MessageInv, BoxTypes
<1>1. ASSUME NEW r \in Rank, NEW d \in Rank, Cardinality(sent) < MaxMessages
      PROVE  /\ NewMessage(r, d) \in From(r) /\ NewMessage(r, d) \in Message
             /\ Append(outbox[r], NewMessage(r, d)) \in Seq(From(r))
  <2>1. NewMessage(r, d) \in From(r) /\ outbox[r] \in Seq(From(r))
    BY <1>0, <1>1, NewOne DEF MessageInv, BoxTypes
  <2> QED BY <2>1 DEF From
<1>2. ASSUME NEW r \in Rank, Send(r) PROVE BoxTypes'
  BY <1>0, <1>1, <1>2 DEF Send, BoxTypes
<1>3. ASSUME NEW r \in Rank, Handle(r) PROVE BoxTypes'
  <2> DEFINE s == handling[r]
  <2>1. s \in Seq(To(r)) /\ s # <<>>
    BY <1>0, <1>3 DEF Handle, BoxTypes
  <2>2. Head(s) \in To(r) /\ Tail(s) \in Seq(To(r))
    BY <2>1
  <2>3. Head(s) \in Message
    BY <2>2 DEF To
  <2>4. /\ handled' = handled \cup {Head(s)} /\ handling' = [handling EXCEPT ![r] = Tail(s)]
        /\ UNCHANGED <<loopVars, sending, inbox, mpiVars>>
    BY <1>3 DEF Handle
  <2> HIDE DEF s
  <2>5. handled' \subseteq Message /\ \A q \in Rank : handling'[q] \in Seq(To(q))
    BY <1>0, <2>2, <2>3, <2>4 DEF BoxTypes, Types
  <2>6. /\ sent' \subseteq Message /\ DOMAIN outbox' = Rank
        /\ \A q \in Rank : outbox'[q] \in Seq(From(q))
    <3>1. CASE UNCHANGED <<sent, outbox>>
      BY <1>0, <3>1 DEF BoxTypes
    <3>2. CASE /\ Cardinality(sent) < MaxMessages
               /\ \E d \in Rank :
                    /\ outbox' = [outbox EXCEPT ![r] = Append(@, NewMessage(r, d))]
                    /\ sent' = sent \cup {NewMessage(r, d)}
      BY <1>0, <1>1, <3>2 DEF BoxTypes
    <3> QED BY <1>3, <3>1, <3>2 DEF Handle
  <2> QED BY <1>0, <2>4, <2>5, <2>6 DEF BoxTypes, From, To
<1>4. ASSUME NEW r \in Rank, Start(r) \/ BeginStop(r) \/ StopSteps(r) PROVE BoxTypes'
  BY <1>0, <1>4, BoundsAssumption
  DEF Start, BeginStop, StopSteps, SendReceiveStopped, ProcessInboxStopped, InboxProcessed, Flushed, BoxTypes
<1>5. ASSUME NEW r \in Rank, ConsumeOutbox(r) PROVE BoxTypes'
  BY <1>0, <1>5 DEF ConsumeOutbox, BoxTypes
<1>6. ASSUME NEW r \in Rank, PostSends(r) PROVE BoxTypes'
  <2> DEFINE s == sending[r]
             remote == {m \in Message : m.from # m.to}
  <2>1. s \in Seq(From(r)) /\ DOMAIN s = 1 .. Len(s) /\ \A i \in 1 .. Len(s) : s[i] \in From(r)
    BY <1>0 DEF BoxTypes
  <2>2. /\ Local(s) \in SUBSET (1 .. Len(s)) /\ \A i \in Local(s) : s[i] \in To(r)
        /\ Remote(s) \in SUBSET (1 .. Len(s)) /\ \A i \in Remote(s) : s[i] \in remote
        /\ \A i \in Remote(s) : s[i] \in {m \in From(r) : m.to # r}
    BY <2>1 DEF Local, Remote, From, To
  <2> HIDE DEF s, remote
  <2>3. Chosen(s, Local(s)) \in Seq(To(r)) /\ Chosen(s, Remote(s)) \in Seq(remote)
    BY <2>1, <2>2, OccursChosen
  <2>4. inbox[r] \in Seq(To(r)) /\ net \in Seq(remote)
    BY <1>0 DEF BoxTypes, remote
  <2>5. inbox[r] \o Chosen(s, Local(s)) \in Seq(To(r)) /\ net \o Chosen(s, Remote(s)) \in Seq(remote)
    BY <2>3, <2>4
  <2>6. /\ inbox' = [inbox EXCEPT ![r] = @ \o Chosen(s, Local(s))]
        /\ net' = net \o Chosen(s, Remote(s))
        /\ pendingSends' = [pendingSends EXCEPT ![r] = @ \cup {s[i] : i \in Remote(s)}]
        /\ sending' = [sending EXCEPT ![r] = <<>>]
        /\ UNCHANGED <<main, starts, outbox, handling, pendingRecvs, complete, ghostVars>>
    BY <1>6 DEF PostSends, s
  <2>7. \A q \in Rank : sending'[q] \in Seq(From(q)) /\ inbox'[q] \in Seq(To(q))
    BY <1>0, <2>5, <2>6 DEF BoxTypes, Types
  <2>8. \A q \in Rank : pendingSends'[q] \subseteq {m \in From(q) : m.to # q}
    BY <1>0, <2>2, <2>6 DEF BoxTypes, Types
  <2>9. net' \in Seq({m \in Message : m.from # m.to})
    BY <2>5, <2>6 DEF remote
  <2> QED BY <1>0, <2>6, <2>7, <2>8, <2>9 DEF BoxTypes, From, To
<1>7. ASSUME NEW r \in Rank, Poll(r) PROVE BoxTypes'
  <2>1. UNCHANGED <<main, starts, boxVars, pendingSends, complete, ghostVars>>
    BY <1>7 DEF Poll
  <2>2. CASE UNCHANGED <<net, pendingRecvs>>
    BY <1>0, <2>1, <2>2 DEF BoxTypes
  <2>3. ASSUME NEW i \in Probed(r), pendingRecvs' = [pendingRecvs EXCEPT ![r] = @ \cup {net[i]}],
               net' = RemoveAt(net, i)
        PROVE  BoxTypes'
    <3>1. net \in Seq({m \in Message : m.from # m.to}) /\ i \in 1 .. Len(net) /\ net[i].to = r
      BY <1>0 DEF BoxTypes, Probed
    <3>2. net[i] \in Message /\ net[i].from # net[i].to
      BY <3>1
    <3>3. net' \in Seq({m \in Message : m.from # m.to})
      BY <2>3, <3>1, OccursRemoved
    <3>4. \A q \in Rank : pendingRecvs'[q] \subseteq {m \in To(q) : m.from # q}
      BY <1>0, <2>3, <3>1, <3>2 DEF BoxTypes, Types, To
    <3> QED BY <1>0, <2>1, <3>3, <3>4 DEF BoxTypes
  <2> QED BY <1>7, <2>2, <2>3 DEF Poll
<1>8. ASSUME NEW r \in Rank, WaitOnSome(r) PROVE BoxTypes'
  <2> DEFINE recvs == Done(r, "recv", pendingRecvs[r])
  <2>1. PICK order \in SetToSeqs(recvs) : inbox' = [inbox EXCEPT ![r] = @ \o order]
    BY <1>8 DEF WaitOnSome
  <2>2. recvs \subseteq To(r) /\ IsFiniteSet(recvs)
    BY <1>0, ReceivesFinite DEF BoxTypes, Done
  <2>3. order \in Seq(recvs)
    BY <2>1, <2>2, OccursOrdered
  <2>4. order \in Seq(To(r)) /\ inbox[r] \in Seq(To(r))
    BY <1>0, <2>2, <2>3 DEF BoxTypes
  <2>5. \A q \in Rank : inbox'[q] \in Seq(To(q))
    BY <1>0, <2>1, <2>4 DEF BoxTypes, Types
  <2>6. /\ \A q \in Rank : pendingSends'[q] \subseteq pendingSends[q] /\ pendingRecvs'[q] \subseteq pendingRecvs[q]
        /\ complete' \subseteq complete /\ UNCHANGED <<starts, outbox, sending, handling, net, ghostVars>>
    BY <1>0, <1>8 DEF WaitOnSome, BoxTypes, Types
  <2> QED BY <1>0, <2>5, <2>6 DEF BoxTypes
<1>9. ASSUME NEW r \in Rank, ConsumeInbox(r) PROVE BoxTypes'
  BY <1>0, <1>9 DEF ConsumeInbox, BoxTypes
<1>10. CASE MPI
  BY <1>0, <1>10 DEF MPI, CompletesSend, CompletesRecv, BoxTypes
<1>11. CASE UNCHANGED vars
  BY <1>0, <1>11 DEF vars, BoxTypes
<1> QED BY <1>2, <1>3, <1>4, <1>5, <1>6, <1>7, <1>8, <1>9, <1>10, <1>11 DEF Next, SendReceive, ProcessInbox

\* No step loses a message or doubles it: what leaves a place comes to another.
LEMMA OneEachKept ==
  ASSUME IInv, MessageInv, [Next]_vars, NEW m \in Message
  PROVE  (InPlaces(m) = Holds(m \in sent))'
<1> USE DEF loopVars, boxVars, mpiVars, ghostVars
<1> DEFINE Kept ==
             Occurs(m, outbox'[m.from]) + Occurs(m, sending'[m.from]) + Occurs(m, net')
             + Holds(m \in pendingRecvs'[m.to]) + Occurs(m, inbox'[m.to])
             + Occurs(m, handling'[m.to]) + Holds(m \in handled') = Holds(m \in sent')
<1>1. SUFFICES Kept
  BY DEF InPlaces, Occurs, Holds
<1> DEFINE out == Occurs(m, outbox[m.from])
           send == Occurs(m, sending[m.from])
           way == Occurs(m, net)
           box == Occurs(m, inbox[m.to])
           hand == Occurs(m, handling[m.to])
           recv == Holds(m \in pendingRecvs[m.to])
           done == Holds(m \in handled)
           known == Holds(m \in sent)
<1>2. /\ m.from \in Rank /\ m.to \in Rank /\ out \in Nat /\ send \in Nat /\ way \in Nat
      /\ box \in Nat /\ hand \in Nat
  BY PlacesCount DEF MessageInv
<1>3. recv \in {0, 1} /\ done \in {0, 1} /\ known \in {0, 1}
  BY DEF Holds
<1>4. out + send + way + recv + box + hand + done = known
  BY DEF MessageInv, OneEach, InPlaces
<1>5. BoxTypes /\ Types
  BY DEF MessageInv, BoxTypes
<1>6. CASE UNCHANGED <<outbox, sending, net, pendingRecvs, inbox, handling, handled, sent>>
  BY <1>4, <1>6
<1>7. ASSUME NEW r \in Rank, NEW d \in Rank, Cardinality(sent) < MaxMessages,
             outbox' = [outbox EXCEPT ![r] = Append(@, NewMessage(r, d))],
             sent' = sent \cup {NewMessage(r, d)}
      PROVE  /\ Occurs(m, outbox'[m.from]) = out + Holds(NewMessage(r, d) = m)
             /\ Holds(m \in sent') = known + Holds(NewMessage(r, d) = m)
             /\ Holds(NewMessage(r, d) = m) \in {0, 1}
  <2> DEFINE new == NewMessage(r, d)
  <2>1. new \in From(r) /\ new \notin sent /\ new.from = r
    BY <1>5, <1>7, NewOne DEF MessageInv, BoxTypes
  <2>2. outbox[r] \in Seq(From(r))
    BY <1>5 DEF BoxTypes
  <2> HIDE DEF new
  <2>3. Occurs(m, Append(outbox[r], new)) = Occurs(m, outbox[r]) + Holds(new = m)
    BY <2>1, <2>2, OccursAppend
  <2>4. outbox'[m.from] = IF m.from = r THEN Append(outbox[r], new) ELSE outbox[m.from]
    BY <1>2, <1>5, <1>7 DEF new, BoxTypes
  <2>5. m.from # r => Holds(new = m) = 0
    BY <2>1 DEF Holds
  <2>6. Holds(m \in sent') = known + Holds(new = m) /\ Holds(new = m) \in {0, 1}
    BY <1>7, <2>1 DEF Holds, new
  <2>7. Occurs(m, outbox'[m.from]) = out + Holds(new = m)
    <3>1. CASE m.from = r
      BY <2>3, <2>4, <3>1
    <3>2. CASE m.from # r
      BY <1>2, <2>4, <2>5, <3>2
    <3> QED BY <3>1, <3>2
  <2> QED BY <2>6, <2>7 DEF new
<1> HIDE DEF out, send, way, box, hand, recv, done, known
<1>8. ASSUME NEW r \in Rank, Send(r) PROVE Kept
  <2>1. PICK d \in Rank : /\ Cardinality(sent) < MaxMessages
                          /\ outbox' = [outbox EXCEPT ![r] = Append(@, NewMessage(r, d))]
                          /\ sent' = sent \cup {NewMessage(r, d)}
    BY <1>8 DEF Send
  <2>2. /\ Occurs(m, sending'[m.from]) = send /\ Occurs(m, net') = way
        /\ Holds(m \in pendingRecvs'[m.to]) = recv /\ Occurs(m, inbox'[m.to]) = box
        /\ Occurs(m, handling'[m.to]) = hand /\ Holds(m \in handled') = done
    BY <1>8 DEF Send, send, way, recv, box, hand, done
  <2>3. /\ Occurs(m, outbox'[m.from]) = out + Holds(NewMessage(r, d) = m)
        /\ Holds(m \in sent') = known + Holds(NewMessage(r, d) = m)
        /\ Holds(NewMessage(r, d) = m) \in {0, 1}
    BY <1>7, <2>1
  <2> QED BY <1>2, <1>3, <1>4, <2>2, <2>3
<1>9. ASSUME NEW r \in Rank, Handle(r) PROVE Kept
  <2> DEFINE s == handling[r]
             h == Holds(Head(s) = m)
  <2>1. s \in Seq(To(r)) /\ s # <<>>
    BY <1>5, <1>9 DEF Handle, BoxTypes
  <2>2. Head(s) \in To(r) /\ Occurs(m, s) = h + Occurs(m, Tail(s)) /\ Occurs(m, Tail(s)) \in Nat
    <3> HIDE DEF s
    <3>1. /\ Head(s) \in To(r) /\ Tail(s) \in Seq(To(r))
          /\ Occurs(m, s) = Holds(Head(s) = m) + Occurs(m, Tail(s))
      BY <2>1, OccursTail
    <3> QED BY <3>1, Counted
  <2>3. h \in {0, 1}
    BY DEF Holds
  <2>4. /\ handled' = handled \cup {Head(s)} /\ handling' = [handling EXCEPT ![r] = Tail(s)]
        /\ UNCHANGED <<sending, inbox, net, pendingRecvs>>
    BY <1>9 DEF Handle
  <2>5. h = 1 => m.to = r
    BY <2>2 DEF Holds, To
  <2> HIDE DEF h
  <2>6. hand = h + Occurs(m, handling'[m.to])
    <3>1. CASE m.to = r
      BY <1>2, <1>5, <2>2, <2>4, <3>1 DEF Types, hand
    <3>2. CASE m.to # r
      <4>1. h = 0 /\ handling'[m.to] = handling[m.to]
        BY <1>2, <1>5, <2>3, <2>4, <2>5, <3>2 DEF Types
      <4> QED BY <1>2, <4>1 DEF hand
    <3> QED BY <3>1, <3>2
  <2>7. Occurs(m, handling'[m.to]) \in Nat
    <3>1. CASE m.to = r
      BY <1>2, <1>5, <2>2, <2>4, <3>1 DEF Types
    <3>2. CASE m.to # r
      BY <1>2, <1>5, <2>4, <3>2 DEF Types, hand
    <3> QED BY <3>1, <3>2
  <2>8. Holds(m \in handled') = done + h
    <3>1. h = 1 => done = 0
      BY <1>2, <1>3, <1>4, <2>6, <2>7
    <3>2. h = 1 <=> Head(s) = m
      BY DEF h, Holds
    <3>3. done = 0 <=> m \notin handled
      BY DEF done, Holds
    <3> QED BY <1>3, <2>3, <2>4, <3>1, <3>2, <3>3 DEF Holds
  <2>9. /\ Occurs(m, sending'[m.from]) = send /\ Occurs(m, net') = way
        /\ Holds(m \in pendingRecvs'[m.to]) = recv /\ Occurs(m, inbox'[m.to]) = box
    BY <2>4 DEF send, way, recv, box
  <2>10. CASE UNCHANGED <<sent, outbox>>
    <3>1. Occurs(m, outbox'[m.from]) = out /\ Holds(m \in sent') = known
      BY <2>10 DEF out, known
    <3> QED BY <1>2, <1>3, <1>4, <2>3, <2>6, <2>7, <2>8, <2>9, <3>1
  <2>11. ASSUME NEW d \in Rank, Cardinality(sent) < MaxMessages,
                outbox' = [outbox EXCEPT ![r] = Append(@, NewMessage(r, d))],
                sent' = sent \cup {NewMessage(r, d)} PROVE Kept
    <3>1. /\ Occurs(m, outbox'[m.from]) = out + Holds(NewMessage(r, d) = m)
          /\ Holds(m \in sent') = known + Holds(NewMessage(r, d) = m)
          /\ Holds(NewMessage(r, d) = m) \in {0, 1}
      BY <1>7, <2>11
    <3> QED BY <1>2, <1>3, <1>4, <2>3, <2>6, <2>7, <2>8, <2>9, <3>1
  <2> QED BY <1>9, <2>10, <2>11 DEF Handle
<1>10. ASSUME NEW r \in Rank, ConsumeOutbox(r) PROVE Kept
  <2>1. /\ sending' = [sending EXCEPT ![r] = outbox[r]] /\ outbox' = [outbox EXCEPT ![r] = <<>>]
        /\ UNCHANGED <<net, pendingRecvs, inbox, handling, handled, sent>>
    BY <1>10 DEF ConsumeOutbox
  <2>2. sending[r] = <<>>
    BY <1>10 DEF ConsumeOutbox, IInv, LoopsInPhase
  <2>3. Occurs(m, outbox'[m.from]) + Occurs(m, sending'[m.from]) = out + send
    <3>1. CASE m.from = r
      <4>1. outbox'[m.from] = <<>> /\ sending'[m.from] = outbox[m.from] /\ sending[m.from] = <<>>
        BY <1>2, <1>5, <2>1, <2>2, <3>1 DEF BoxTypes, Types
      <4> QED BY <1>2, <4>1, OccursNone DEF out, send
    <3>2. CASE m.from # r
      <4>1. outbox'[m.from] = outbox[m.from] /\ sending'[m.from] = sending[m.from]
        BY <1>2, <1>5, <2>1, <3>2 DEF BoxTypes, Types
      <4> QED BY <4>1 DEF out, send
    <3> QED BY <3>1, <3>2
  <2>4. /\ Occurs(m, net') = way
        /\ Holds(m \in pendingRecvs'[m.to]) = recv /\ Occurs(m, inbox'[m.to]) = box
        /\ Occurs(m, handling'[m.to]) = hand /\ Holds(m \in handled') = done
        /\ Holds(m \in sent') = known
    BY <2>1 DEF way, recv, box, hand, done, known
  <2> QED BY <1>2, <1>3, <1>4, <2>3, <2>4
<1>11. ASSUME NEW r \in Rank, PostSends(r) PROVE Kept
  <2> DEFINE s == sending[r]
             remote == {x \in Message : x.from # x.to}
             l == Cardinality(AtOf(m, s, Local(s)))
             w == Cardinality(AtOf(m, s, Remote(s)))
  <2>1. s \in Seq(From(r)) /\ DOMAIN s = 1 .. Len(s) /\ \A k \in 1 .. Len(s) : s[k] \in From(r)
    BY <1>5 DEF BoxTypes
  <2>2. /\ Local(s) \in SUBSET (1 .. Len(s)) /\ \A k \in Local(s) : s[k] \in To(r)
        /\ Remote(s) \in SUBSET (1 .. Len(s)) /\ \A k \in Remote(s) : s[k] \in remote
    BY <2>1 DEF Local, Remote, From, To
  <2>3. /\ inbox' = [inbox EXCEPT ![r] = @ \o Chosen(s, Local(s))]
        /\ net' = net \o Chosen(s, Remote(s))
        /\ sending' = [sending EXCEPT ![r] = <<>>]
        /\ UNCHANGED <<outbox, handling, pendingRecvs, handled, sent>>
    BY <1>11 DEF PostSends
  <2>4. inbox[r] \in Seq(To(r)) /\ net \in Seq(remote)
    BY <1>5 DEF BoxTypes
  <2>5. l = (IF m.from = m.to THEN Occurs(m, s) ELSE 0) /\ w = (IF m.from = m.to THEN 0 ELSE Occurs(m, s))
    <3>1. Occurs(m, s) = Cardinality(At(m, s)) /\ Cardinality({}) = 0
      BY <2>1, Counted, FS_EmptySet
    <3>2. AtOf(m, s, Local(s)) = (IF m.from = m.to THEN At(m, s) ELSE {})
      BY DEF Local, At, AtOf
    <3>3. AtOf(m, s, Remote(s)) = (IF m.from = m.to THEN {} ELSE At(m, s))
      BY DEF Remote, At, AtOf
    <3> QED BY <3>1, <3>2, <3>3
  <2>6. m.from # r => Occurs(m, s) = 0
    BY <2>1, OccursIn DEF From
  <2> HIDE DEF s, remote, l, w
  <2>7. /\ Chosen(s, Local(s)) \in Seq(To(r)) /\ Occurs(m, Chosen(s, Local(s))) = l
        /\ Chosen(s, Remote(s)) \in Seq(remote) /\ Occurs(m, Chosen(s, Remote(s))) = w
    <3>1. Chosen(s, Local(s)) \in Seq(To(r)) /\ Occurs(m, Chosen(s, Local(s))) = l
      BY <2>1, <2>2, OccursChosen DEF l
    <3>2. Chosen(s, Remote(s)) \in Seq(remote) /\ Occurs(m, Chosen(s, Remote(s))) = w
      BY <2>1, <2>2, OccursChosen DEF w
    <3> QED BY <3>1, <3>2
  <2>8. Occurs(m, net') = way + w
    BY <2>3, <2>4, <2>7, OccursBoth DEF way
  <2>9. Occurs(m, inbox'[m.to]) = IF m.to = r THEN box + l ELSE box
    <3>1. Occurs(m, inbox[r] \o Chosen(s, Local(s))) = Occurs(m, inbox[r]) + l
      BY <2>4, <2>7, OccursBoth
    <3>2. inbox'[m.to] = IF m.to = r THEN inbox[r] \o Chosen(s, Local(s)) ELSE inbox[m.to]
      BY <1>2, <1>5, <2>3 DEF Types
    <3> QED BY <3>1, <3>2 DEF box
  <2>10. Occurs(m, sending'[m.from]) = IF m.from = r THEN 0 ELSE send
    <3>1. sending'[m.from] = IF m.from = r THEN <<>> ELSE sending[m.from]
      BY <1>2, <1>5, <2>3 DEF Types
    <3> QED BY <3>1, OccursNone DEF send
  <2>11. m.from = r => send = Occurs(m, s)
    BY DEF send, s
  <2>12. /\ Occurs(m, outbox'[m.from]) = out
         /\ Holds(m \in pendingRecvs'[m.to]) = recv
         /\ Occurs(m, handling'[m.to]) = hand /\ Holds(m \in handled') = done
         /\ Holds(m \in sent') = known
    BY <2>3 DEF out, recv, hand, done, known
  <2>13. CASE m.from # r
    <3>1. l = 0 /\ w = 0
      BY <2>5, <2>6, <2>13
    <3> QED BY <1>2, <1>3, <1>4, <2>8, <2>9, <2>10, <2>12, <2>13, <3>1
  <2>14. CASE m.from = r /\ m.to = r
    <3>1. l = send /\ w = 0
      BY <2>5, <2>11, <2>14
    <3> QED BY <1>2, <1>3, <1>4, <2>8, <2>9, <2>10, <2>12, <2>14, <3>1
  <2>15. CASE m.from = r /\ m.to # r
    <3>1. l = 0 /\ w = send
      BY <2>5, <2>11, <2>15
    <3> QED BY <1>2, <1>3, <1>4, <2>8, <2>9, <2>10, <2>12, <2>15, <3>1
  <2> QED BY <2>13, <2>14, <2>15
<1>12. ASSUME NEW r \in Rank, Poll(r) PROVE Kept
  <2>1. UNCHANGED <<boxVars, ghostVars>>
    BY <1>12 DEF Poll
  <2>2. CASE UNCHANGED <<net, pendingRecvs>>
    BY <1>6, <2>1, <2>2
  <2>3. ASSUME NEW k \in Probed(r), pendingRecvs' = [pendingRecvs EXCEPT ![r] = @ \cup {net[k]}],
               net' = RemoveAt(net, k) PROVE Kept
    <3> DEFINE h == Holds(net[k] = m)
    <3>1. net \in Seq({x \in Message : x.from # x.to}) /\ k \in 1 .. Len(net) /\ net[k].to = r
      BY <1>5 DEF BoxTypes, Probed
    <3>2. way = Occurs(m, net') + h /\ Occurs(m, net') \in Nat
      BY <2>3, <3>1, OccursRemoved, Counted DEF way
    <3>3. h \in {0, 1} /\ (h = 1 <=> net[k] = m)
      BY DEF Holds
    <3> HIDE DEF h
    <3>4. h = 1 => recv = 0
      BY <1>2, <1>3, <1>4, <3>2
    <3>5. recv = 0 <=> m \notin pendingRecvs[m.to]
      BY DEF recv, Holds
    <3>6. m \in pendingRecvs'[m.to] <=> m \in pendingRecvs[m.to] \/ net[k] = m
      BY <1>2, <1>5, <2>3, <3>1 DEF Types
    <3>7. Holds(m \in pendingRecvs'[m.to]) = recv + h
      BY <1>3, <3>3, <3>4, <3>5, <3>6 DEF Holds
    <3>8. /\ Occurs(m, outbox'[m.from]) = out /\ Occurs(m, sending'[m.from]) = send
          /\ Occurs(m, inbox'[m.to]) = box
          /\ Occurs(m, handling'[m.to]) = hand /\ Holds(m \in handled') = done
          /\ Holds(m \in sent') = known
      BY <2>1 DEF out, send, box, hand, done, known
    <3> QED BY <1>2, <1>3, <1>4, <3>2, <3>3, <3>7, <3>8
  <2> QED BY <1>12, <2>2, <2>3 DEF Poll
<1>13. ASSUME NEW r \in Rank, WaitOnSome(r) PROVE Kept
  <2> DEFINE recvs == Done(r, "recv", pendingRecvs[r])
             h == Holds(m \in recvs)
  <2>1. PICK order \in SetToSeqs(recvs) : inbox' = [inbox EXCEPT ![r] = @ \o order]
    BY <1>13 DEF WaitOnSome
  <2>2. recvs \subseteq To(r) /\ IsFiniteSet(recvs) /\ recvs \subseteq pendingRecvs[r]
    BY <1>5, ReceivesFinite DEF BoxTypes, Done
  <2>3. /\ pendingRecvs' = [pendingRecvs EXCEPT ![r] = @ \ recvs]
        /\ UNCHANGED <<outbox, sending, handling, net, handled, sent>>
    BY <1>13 DEF WaitOnSome
  <2> HIDE DEF recvs
  <2>4. order \in Seq(recvs) /\ Occurs(m, order) = h
    BY <2>1, <2>2, OccursOrdered
  <2>5. order \in Seq(To(r)) /\ inbox[r] \in Seq(To(r))
    BY <1>5, <2>2, <2>4 DEF BoxTypes
  <2>6. Occurs(m, inbox[r] \o order) = Occurs(m, inbox[r]) + h
    BY <2>4, <2>5, OccursBoth
  <2>7. h \in {0, 1} /\ (h = 1 <=> m \in recvs)
    BY DEF Holds
  <2> HIDE DEF h
  <2>8. Occurs(m, inbox'[m.to]) = box + h
    <3>1. CASE m.to = r
      <4>1. inbox'[m.to] = inbox[r] \o order
        BY <1>2, <1>5, <2>1, <3>1 DEF Types
      <4> QED BY <2>6, <3>1, <4>1 DEF box
    <3>2. CASE m.to # r
      <4>1. inbox'[m.to] = inbox[m.to]
        BY <1>2, <1>5, <2>1, <3>2 DEF Types
      <4>2. h = 0
        BY <2>2, <2>7, <3>2 DEF To
      <4> QED BY <1>2, <4>1, <4>2 DEF box
    <3> QED BY <3>1, <3>2
  <2>9. recv = Holds(m \in pendingRecvs'[m.to]) + h
    <3>1. m \in pendingRecvs'[m.to] <=> m \in pendingRecvs[m.to] /\ m \notin recvs
      BY <1>2, <1>5, <2>2, <2>3 DEF Types, To
    <3>2. m \in recvs => m \in pendingRecvs[m.to]
      BY <2>2 DEF To
    <3> QED BY <2>7, <3>1, <3>2 DEF recv, Holds
  <2>10. Holds(m \in pendingRecvs'[m.to]) \in {0, 1}
    BY DEF Holds
  <2>11. /\ Occurs(m, outbox'[m.from]) = out /\ Occurs(m, sending'[m.from]) = send
         /\ Occurs(m, net') = way
         /\ Occurs(m, handling'[m.to]) = hand /\ Holds(m \in handled') = done
         /\ Holds(m \in sent') = known
    BY <2>3 DEF out, send, way, hand, done, known
  <2> QED BY <1>2, <1>3, <1>4, <2>7, <2>8, <2>9, <2>10, <2>11
<1>14. ASSUME NEW r \in Rank, ConsumeInbox(r) PROVE Kept
  <2>1. /\ handling[r] = <<>> /\ handling' = [handling EXCEPT ![r] = inbox[r]]
        /\ inbox' = [inbox EXCEPT ![r] = <<>>]
        /\ UNCHANGED <<outbox, sending, net, pendingRecvs, handled, sent>>
    BY <1>14 DEF ConsumeInbox
  <2>2. Occurs(m, inbox'[m.to]) + Occurs(m, handling'[m.to]) = box + hand
    <3>1. CASE m.to = r
      <4>1. inbox'[m.to] = <<>> /\ handling'[m.to] = inbox[m.to] /\ handling[m.to] = <<>>
        BY <1>2, <1>5, <2>1, <3>1 DEF Types
      <4> QED BY <1>2, <4>1, OccursNone DEF box, hand
    <3>2. CASE m.to # r
      <4>1. inbox'[m.to] = inbox[m.to] /\ handling'[m.to] = handling[m.to]
        BY <1>2, <1>5, <2>1, <3>2 DEF Types
      <4> QED BY <4>1 DEF box, hand
    <3> QED BY <3>1, <3>2
  <2>3. Occurs(m, inbox'[m.to]) \in Nat /\ Occurs(m, handling'[m.to]) \in Nat
    <3>1. CASE m.to = r
      <4>1. inbox'[m.to] = <<>> /\ handling'[m.to] = inbox[m.to]
        BY <1>2, <1>5, <2>1, <3>1 DEF Types
      <4> QED BY <1>2, <4>1, OccursNone DEF box
    <3>2. CASE m.to # r
      <4>1. inbox'[m.to] = inbox[m.to] /\ handling'[m.to] = handling[m.to]
        BY <1>2, <1>5, <2>1, <3>2 DEF Types
      <4> QED BY <1>2, <4>1 DEF box, hand
    <3> QED BY <3>1, <3>2
  <2>4. /\ Occurs(m, outbox'[m.from]) = out /\ Occurs(m, sending'[m.from]) = send
        /\ Occurs(m, net') = way /\ Holds(m \in pendingRecvs'[m.to]) = recv
        /\ Holds(m \in handled') = done /\ Holds(m \in sent') = known
    BY <2>1 DEF out, send, way, recv, done, known
  <2> QED BY <1>2, <1>3, <1>4, <2>2, <2>3, <2>4
<1>15. ASSUME NEW r \in Rank, Start(r) \/ BeginStop(r) \/ StopSteps(r)
       PROVE  UNCHANGED <<outbox, sending, net, pendingRecvs, inbox, handling, handled, sent>>
  BY <1>15 DEF Start, BeginStop, StopSteps, SendReceiveStopped, ProcessInboxStopped, InboxProcessed, Flushed
<1>16. MPI \/ UNCHANGED vars
         => UNCHANGED <<outbox, sending, net, pendingRecvs, inbox, handling, handled, sent>>
  BY DEF MPI, CompletesSend, CompletesRecv, vars
<1> QED BY <1>6, <1>8, <1>9, <1>10, <1>11, <1>12, <1>13, <1>14, <1>15, <1>16
        DEF Next, SendReceive, ProcessInbox

LEMMA MessageKept == IInv /\ MessageInv /\ [Next]_vars => MessageInv'
<1> SUFFICES ASSUME IInv, MessageInv, [Next]_vars PROVE MessageInv'
  OBVIOUS
<1>1. OneEach'
  <2>1. \A m \in Message : (InPlaces(m) = Holds(m \in sent))'
    BY OneEachKept
  <2> QED BY <2>1 DEF OneEach, Message
<1> QED BY <1>1, BoxTypesKept, NumberedKept DEF MessageInv

LEMMA MessageSteps ==
  ASSUME [OffloadNext]_<<part, vars, streamVars, objectVars>>
  PROVE  [Next]_vars
BY DEF OffloadNext

LEMMA MessageInvariance == OffloadSpec => [](IInv /\ MessageInv)
<1>1. OffloadInit => IInv /\ MessageInv
  BY InitIInv, MessageStart DEF OffloadInit
<1>2. IInv /\ MessageInv /\ [OffloadNext]_<<part, vars, streamVars, objectVars>> => (IInv /\ MessageInv)'
  <2>1. IInv /\ [Next]_vars => IInv'
    BY NextTypes, NextPhases DEF IInv
  <2> QED BY <2>1, MessageKept, MessageSteps
<1> QED BY <1>1, <1>2, PTL DEF OffloadSpec

\* From outbox to handler a message is in one place, for any number of ranks
\* and of messages and whichever passes of the loops and of a flush come
\* between (Context::sendMessagesFromOutbox, pollForAndRecieveMessages,
\* waitOnSomeRequests, processInboxMessages).
THEOREM MessagesInOnePlace == OffloadSpec => []OnePlace
<1>1. ASSUME IInv, MessageInv PROVE OnePlace
  <2>1. BoxTypes /\ Types
    BY <1>1 DEF MessageInv, BoxTypes
  <2>2. TypeOK
    BY <2>1 DEF BoxTypes, Types, Passes, From, To, TypeOK
  <2>3. ASSUME NEW m \in sent
        PROVE  1 = Occurs(m, outbox[m.from]) + Occurs(m, sending[m.from]) + Occurs(m, net)
                   + Holds(m \in pendingRecvs[m.to]) + Occurs(m, inbox[m.to])
                   + Occurs(m, handling[m.to]) + Holds(m \in handled)
    <3>1. m \in Message /\ Holds(m \in sent) = 1
      BY <2>1 DEF BoxTypes, Holds
    <3> QED BY <1>1, <3>1 DEF MessageInv, OneEach, InPlaces
  <2> QED BY <2>2, <2>3 DEF OnePlace
<1> QED BY <1>1, MessageInvariance, PTL

\* What has been handled was sent; what is to be handled was not yet.
LEMMA HandledWasSent == ASSUME MessageInv PROVE handled \subseteq sent
<1> SUFFICES ASSUME NEW m \in handled PROVE m \in sent
  OBVIOUS
<1>1. m \in Message /\ BoxTypes
  BY DEF MessageInv, BoxTypes
<1>2. InPlaces(m) = Holds(m \in sent) /\ Holds(m \in handled) = 1
  BY <1>1 DEF MessageInv, OneEach, Holds
<1>3. Holds(m \in pendingRecvs[m.to]) \in Nat
  BY DEF Holds
<1>4. Holds(m \in sent) # 0
  BY <1>1, <1>2, <1>3, PlacesCount DEF InPlaces
<1> QED BY <1>4 DEF Holds

LEMMA ToBeHandled ==
  ASSUME MessageInv, NEW r \in Rank, handling[r] # <<>>
  PROVE  Head(handling[r]) \in sent \ handled /\ Head(handling[r]).to = r
<1> DEFINE s == handling[r]
           m == Head(s)
<1>1. BoxTypes /\ s \in Seq(To(r))
  BY DEF MessageInv, BoxTypes
<1>2. m \in To(r) /\ m = s[1] /\ 1 \in 1 .. Len(s)
  BY <1>1
<1>3. m \in Message /\ m.to = r
  BY <1>2 DEF To
<1> HIDE DEF m
<1>4. Occurs(m, handling[m.to]) # 0
  BY <1>1, <1>2, <1>3, OccursIn
<1>5. /\ InPlaces(m) = Holds(m \in sent)
      /\ Holds(m \in sent) \in {0, 1} /\ Holds(m \in handled) \in {0, 1}
      /\ Holds(m \in pendingRecvs[m.to]) \in {0, 1}
  BY <1>3 DEF MessageInv, OneEach, Holds
<1>6. Holds(m \in sent) = 1 /\ Holds(m \in handled) = 0
  <2>1. /\ Occurs(m, outbox[m.from]) \in Nat /\ Occurs(m, sending[m.from]) \in Nat
        /\ Occurs(m, net) \in Nat
        /\ Occurs(m, inbox[m.to]) \in Nat /\ Occurs(m, handling[m.to]) \in Nat
    BY <1>1, <1>3, PlacesCount
  <2> QED BY <1>4, <1>5, <2>1 DEF InPlaces
<1>7. m \in sent /\ m \notin handled
  BY <1>6 DEF Holds
<1> QED BY <1>3, <1>7 DEF m

LEMMA ServiceStep ==
  ASSUME IInv, MessageInv, [Next]_vars
  PROVE  [Service!Next]_<<sent \ handled, handled, {r \in Rank : main[r] # "stopped"}>>
<1> DEFINE open == sent \ handled
           serving == {r \in Rank : main[r] # "stopped"}
<1> USE DEF loopVars, boxVars, mpiVars, ghostVars
<1>0. /\ handled \subseteq sent /\ sent \subseteq Message /\ DOMAIN main = Rank
      /\ main \in [Rank -> Phase]
  BY HandledWasSent DEF MessageInv, BoxTypes, Types
<1>1. ASSUME NEW r \in Rank, Send(r) PROVE Service!Post
  <2>1. PICK d \in Rank : Cardinality(sent) < MaxMessages /\ sent' = sent \cup {NewMessage(r, d)}
    BY <1>1 DEF Send
  <2>2. NewMessage(r, d) \in Message /\ NewMessage(r, d) \notin sent
    BY <1>0, <2>1, NewOne DEF MessageInv, From
  <2>3. UNCHANGED <<handled, main>>
    BY <1>1 DEF Send
  <2>4. open' = open \cup {NewMessage(r, d)} /\ serving' = serving
    BY <1>0, <2>1, <2>2, <2>3
  <2> QED BY <1>0, <2>2, <2>3, <2>4 DEF Service!Post
<1>2. ASSUME NEW r \in Rank, Handle(r) PROVE Service!Deliver
  <2> DEFINE m == Head(handling[r])
  <2>1. m \in open /\ m.to = r
    BY <1>2, ToBeHandled DEF Handle
  <2>2. handled' = handled \cup {m} /\ UNCHANGED main
    BY <1>2 DEF Handle
  <2>3. r \in serving
    BY <1>2 DEF Handle, IInv, LoopsInPhase
  <2> HIDE DEF m
  <2>4. \/ open' = open \ {m}
        \/ \E a \in Message : /\ a \notin open \cup handled /\ a.from = r
                              /\ open' = (open \ {m}) \cup {a}
    <3>1. CASE UNCHANGED sent
      BY <2>2, <3>1
    <3>2. ASSUME NEW d \in Rank, Cardinality(sent) < MaxMessages, sent' = sent \cup {NewMessage(r, d)}
          PROVE  \E a \in Message : /\ a \notin open \cup handled /\ a.from = r
                                    /\ open' = (open \ {m}) \cup {a}
      <4>1. /\ NewMessage(r, d) \in Message /\ NewMessage(r, d) \notin sent
            /\ NewMessage(r, d).from = r
        BY <1>0, <3>2, NewOne DEF MessageInv, From
      <4>2. open' = (open \ {m}) \cup {NewMessage(r, d)}
        BY <1>0, <2>1, <2>2, <3>2, <4>1
      <4>3. NewMessage(r, d) \notin open \cup handled
        BY <1>0, <4>1
      <4> QED BY <4>1, <4>2, <4>3
    <3> QED BY <1>2, <3>1, <3>2 DEF Handle
  <2>5. serving' = serving
    BY <2>2
  <2> HIDE DEF open, serving
  <2>6. \E x \in open : /\ x.to \in serving /\ handled' = handled \cup {x}
                        /\ \/ open' = open \ {x}
                           \/ \E a \in Message : /\ a \notin open \cup handled /\ a.from = x.to
                                                 /\ open' = (open \ {x}) \cup {a}
                        /\ serving' = serving
    BY <2>1, <2>2, <2>3, <2>4, <2>5
  <2> QED BY <2>6 DEF Service!Deliver, open, serving
<1>3. ASSUME NEW r \in Rank, Start(r) PROVE Service!Start
  <2>1. main[r] = "stopped" /\ main' = [main EXCEPT ![r] = "running"] /\ UNCHANGED <<sent, handled>>
    BY <1>3 DEF Start
  <2>2. r \in Rank \ serving /\ serving' = serving \cup {r} /\ open' = open
    BY <1>0, <2>1
  <2> QED BY <2>1, <2>2 DEF Service!Start
<1>4. ASSUME NEW r \in Rank, Flushed(r) PROVE Service!Stop
  <2>1. main[r] = "flush" /\ main' = [main EXCEPT ![r] = "stopped"] /\ UNCHANGED <<sent, handled>>
    BY <1>4 DEF Flushed
  <2>2. r \in serving /\ serving' = serving \ {r} /\ open' = open
    BY <1>0, <2>1
  <2> QED BY <2>1, <2>2 DEF Service!Stop
<1>5. ASSUME NEW r \in Rank, NEW from, NEW to, from # "stopped", to # "stopped",
             main[r] = from, main' = [main EXCEPT ![r] = to], UNCHANGED <<sent, handled>>
      PROVE  UNCHANGED <<open, handled, serving>>
  BY <1>0, <1>5
<1>6. ASSUME UNCHANGED <<main, sent, handled>> PROVE UNCHANGED <<open, handled, serving>>
  BY <1>6
<1>7. ASSUME NEW r \in Rank,
             \/ BeginStop(r) \/ SendReceiveStopped(r) \/ ProcessInboxStopped(r) \/ InboxProcessed(r)
      PROVE  UNCHANGED <<open, handled, serving>>
  <2> HIDE DEF open, serving
  <2> QED BY <1>5, <1>7 DEF BeginStop, SendReceiveStopped, ProcessInboxStopped, InboxProcessed
<1>8. ASSUME NEW r \in Rank, SendReceive(r) \/ ConsumeInbox(r)
      PROVE  UNCHANGED <<open, handled, serving>>
  <2>1. CASE UNCHANGED <<main, sent, handled>>
    BY <2>1, <1>6
  <2>2. CASE ConsumeOutbox(r)
    <3> HIDE DEF open, serving
    <3> QED BY <1>5, <1>6, <2>2 DEF ConsumeOutbox
  <2>3. CASE WaitOnSome(r)
    <3>1. UNCHANGED <<sent, handled>> /\ pass[r] = "wait"
          /\ main' = [main EXCEPT ![r] = IF @ = "flushPass" THEN "flushInbox" ELSE @]
      BY <2>3 DEF WaitOnSome
    <3>2. main[r] # "stopped"
      BY <3>1 DEF IInv, LoopsInPhase
    <3> QED BY <1>0, <3>1, <3>2
  <2> QED BY <1>8, <2>1, <2>2, <2>3 DEF SendReceive, PostSends, Poll, ConsumeInbox
<1>9. MPI \/ UNCHANGED vars => UNCHANGED <<main, sent, handled>>
  BY DEF MPI, CompletesSend, CompletesRecv, vars
<1> QED
  <2> HIDE DEF open, serving
  <2>1. Service!Next \/ UNCHANGED <<open, handled, serving>>
    BY <1>1, <1>2, <1>3, <1>4, <1>6, <1>7, <1>8, <1>9 DEF Next, StopSteps, ProcessInbox, Service!Next
  <2> QED BY <2>1 DEF open, serving

\* The clients of the layer may take it for the service: a message that is
\* sent comes to the handler of its receiver at most once, and never to a rank
\* whose layer is stopped.
THEOREM LayerImplementsService == OffloadSpec => ImplementsService
<1>1. OffloadInit => Service!Init
  BY DEF OffloadInit, Init, Service!Init
<1>2. IInv /\ MessageInv /\ [OffloadNext]_<<part, vars, streamVars, objectVars>>
        => [Service!Next]_<<sent \ handled, handled, {r \in Rank : main[r] # "stopped"}>>
  BY ServiceStep, MessageSteps
<1> QED BY <1>1, <1>2, MessageInvariance, PTL DEF OffloadSpec, ImplementsService, Service!Spec

-----------------------------------------------------------------------------
(* The stream of works.  The inductive invariant is StreamInv.             *)

Units == Seq(Nat \X Nat)
Open == {"write", "send", "run", "recv", "barrier"}

StreamTypes ==
  /\ issued \in Seq(Stream!Kinds) /\ ran \in [Worker -> Seq(Stream!Kinds)]
  /\ buffer \in Units /\ have \in [Worker -> Units]
  /\ left \in 0 .. 3 /\ size \in BufferSizes /\ pick \in Nat
  /\ master \in Open \cup {"idle", "replace", "flush", "exit"}
  /\ at \in [Worker -> {"read", "barrier", "pick", "pickBarrier", "exit"}]
  /\ balancer \in [Worker \cup {"master"} -> Stream!Balancers \cup {"none"}]

\* What the master does next and what it has written: only a work that is
\* being written has units left, a stream is replaced when it is empty, and
\* a buffer is sent when it is full.
MasterInv ==
  /\ left > 0 => master \in {"write", "send"} /\ left <= Stream!Size(Stream!work)
  /\ master \in Open => issued # <<>>
  /\ master = "replace" => buffer = <<>>
  /\ Len(buffer) <= size /\ (Len(buffer) = size => master = "send")
  /\ Len(issued) <= MaxCalls /\ (Len(issued) = MaxCalls => master \notin {"replace", "flush"})
  /\ master = "recv" => Stream!work = "pick"
  /\ master = "barrier" => Stream!work \in {"render", "final"}

\* What is on its way to w is what follows the works w has run, and those are
\* the first of the issued ones.
OnItsWay(w) == have[w] \o buffer
WholeFor(w) ==
  LET units == Append(OnItsWay(w), Stream!toWrite)
  IN /\ units[1] = <<Len(ran[w]) + 1, 1>>
     /\ \A k \in 1 .. Len(OnItsWay(w)) :
          units[k][1] \in 1 .. Len(issued) /\ units[k + 1] = Stream!Following(units[k])
RanInOrder(w) ==
  /\ Len(ran[w]) <= Len(issued)
  /\ \A i \in 1 .. Len(ran[w]) : ran[w][i] = issued[i]

\* The master has waited for the works before the last one, and for the last
\* one when the call has returned ...
Waited == \A i \in 1 .. Len(issued) :
  (i < Len(issued) \/ master \notin Open)
    => \A w \in Stream!Service!Needed(issued[i]) : Len(ran[w]) >= i

\* ... so that a worker that waits for the master, or an answer for it,
\* belongs to the last one.
AtBarrier(w) == at[w] = "barrier" =>
  /\ Len(ran[w]) = Len(issued) /\ Stream!work \in {"render", "final"}
  /\ master \in Open
AtPick ==
  /\ \A w \in Worker : at[w] = "pick" => w = FirstWorker /\ pick = 0
  /\ pick > 0 \/ at[FirstWorker] = "pick" =>
       /\ Len(ran[FirstWorker]) = Len(issued) /\ Stream!work = "pick"
       /\ master \in Open
  /\ pick <= 1

\* b is the load balancer after the first n works
Uses(b, n) ==
  \/ b = "none" /\ \A i \in 1 .. n : issued[i] \notin Stream!Balancers
  \/ \E i \in 1 .. n : /\ issued[i] = b /\ b \in Stream!Balancers
                       /\ \A j \in i + 1 .. n : issued[j] \notin Stream!Balancers

\* the works whose runOnMaster is over
RunOnMasterUpTo == IF master \in {"write", "send", "run"} THEN Len(issued) - 1 ELSE Len(issued)

BalancerInv ==
  /\ \A w \in Worker : Uses(balancer[w], Len(ran[w]))
  /\ Uses(balancer["master"], RunOnMasterUpTo)

StreamInv ==
  /\ StreamTypes /\ MasterInv
  /\ \A w \in Worker : WholeFor(w) /\ RanInOrder(w)
  /\ Waited /\ (\A w \in Worker : AtBarrier(w)) /\ AtPick
  /\ BalancerInv

(* Sequences.                                                              *)

LEMMA Extended ==
  ASSUME NEW h \in Units, NEW b \in Units, NEW t \in Nat \X Nat
  PROVE  /\ Append(h \o b, t) \in Units /\ h \o b \in Units
         /\ Len(h \o b) = Len(h) + Len(b)
         /\ Len(Append(h \o b, t)) = Len(h \o b) + 1
         /\ \A k \in 1 .. Len(h \o b) : Append(h \o b, t)[k] = (h \o b)[k]
         /\ \A k \in 1 .. Len(h) : (h \o b)[k] = h[k]
         /\ \A k \in Len(h) + 1 .. Len(h) + Len(b) : (h \o b)[k] = b[k - Len(h)]
         /\ Append(h \o b, t)[Len(h \o b) + 1] = t
BY DEF Units

\* What is put at the end of the second is put at the end of both.
LEMMA LastOfBoth ==
  ASSUME NEW h \in Units, NEW b \in Units, NEW t \in Nat \X Nat
  PROVE  h \o Append(b, t) = Append(h \o b, t)
BY DEF Units

\* What is left when the first n are taken away.
LEMMA TakenAway ==
  ASSUME NEW h \in Units, NEW n \in 1 .. Len(h)
  PROVE  /\ SubSeq(h, n + 1, Len(h)) \in Units
         /\ Len(SubSeq(h, n + 1, Len(h))) = Len(h) - n
         /\ \A k \in 1 .. Len(h) - n : SubSeq(h, n + 1, Len(h))[k] = h[k + n]
<1>1. Len(h) \in Nat /\ n \in Nat /\ n <= Len(h)
  BY DEF Units
<1>2. \A i \in n + 1 .. Len(h) : h[i] \in Nat \X Nat
  BY <1>1 DEF Units
<1>3. SubSeq(h, n + 1, Len(h)) = [i \in 1 .. Len(h) - n |-> h[i + n]]
  <2>1. SubSeq(h, n + 1, Len(h)) = [i \in 1 .. Len(h) - (n + 1) + 1 |-> h[i + (n + 1) - 1]]
    BY <1>1, <1>2
  <2> QED BY <1>1, <2>1
<1> QED BY <1>1, <1>3 DEF Units

\* The unit after the last written one, and those after a given one.
LEMMA NextUnit ==
  ASSUME StreamTypes, MasterInv
  PROVE  /\ Stream!toWrite \in Nat \X Nat
         /\ \A u \in Nat \X Nat :
              u[1] \in 1 .. Len(issued) => Stream!Following(u) \in Nat \X Nat
<1>1. left > 0 => issued # <<>> /\ Len(issued) \in 1 .. Len(issued) /\ left \in Nat
  BY DEF StreamTypes, MasterInv, Open
<1>2. \A i \in 1 .. Len(issued) : issued[i] \in Stream!Kinds /\ Stream!Size(issued[i]) \in {2, 3}
  BY DEF StreamTypes, Stream!Size
<1>3. left > 0 => Stream!Size(Stream!work) \in {2, 3}
                    /\ left <= Stream!Size(Stream!work)
  BY <1>1, <1>2 DEF Stream!work, MasterInv
<1>4. Stream!toWrite \in Nat \X Nat
  <2>1. CASE left = 0
    BY <2>1 DEF Stream!toWrite, StreamTypes
  <2>2. CASE left # 0
    <3>1. left > 0 /\ left \in 0 .. 3
      BY <2>2 DEF StreamTypes
    <3>2. Stream!Size(Stream!work) - left + 1 \in Nat
      BY <3>1, <1>3
    <3> QED BY <3>2, <2>2 DEF Stream!toWrite, StreamTypes
  <2> QED BY <2>1, <2>2
<1>5. ASSUME NEW u \in Nat \X Nat, u[1] \in 1 .. Len(issued)
      PROVE  Stream!Following(u) \in Nat \X Nat
  BY <1>5 DEF Stream!Following
<1> QED BY <1>4, <1>5

\* The first unit that a worker has belongs to the work after those it ran.
LEMMA HeadWork ==
  ASSUME StreamInv, NEW w \in Worker, have[w] # <<>>
  PROVE  /\ have[w][1] = <<Len(ran[w]) + 1, 1>> /\ have[w][1][1] = Len(ran[w]) + 1
         /\ Len(ran[w]) + 1 \in 1 .. Len(issued)
         /\ issued[Len(ran[w]) + 1] \in Stream!Kinds
<1>1. have[w] \in Units /\ buffer \in Units /\ 1 \in 1 .. Len(have[w])
  BY DEF StreamInv, StreamTypes, Units
<1>2. Stream!toWrite \in Nat \X Nat
  BY NextUnit DEF StreamInv
<1>3. /\ Append(OnItsWay(w), Stream!toWrite)[1] = have[w][1]
      /\ 1 \in 1 .. Len(OnItsWay(w))
  BY <1>1, <1>2, Extended DEF OnItsWay, Units
<1>4. WholeFor(w)
  BY DEF StreamInv
<1>5. have[w][1] = <<Len(ran[w]) + 1, 1>> /\ have[w][1][1] \in 1 .. Len(issued)
  BY <1>3, <1>4 DEF WholeFor
<1>6. Len(ran[w]) + 1 \in 1 .. Len(issued)
  BY <1>5
<1> QED BY <1>5, <1>6 DEF StreamInv, StreamTypes

(* The initial state and the types.                                        *)

LEMMA StreamStart == ASSUME Stream!Init PROVE StreamInv
<1>1. /\ issued = <<>> /\ master = "replace" /\ left = 0 /\ buffer = <<>> /\ pick = 0
      /\ size \in BufferSizes /\ size \in Nat \ {0} /\ MaxCalls \in Nat \ {0}
  BY BufferSizesAssumption, MaxCallsAssumption DEF Stream!Init
<1>2. \A w \in Worker : at[w] = "read" /\ have[w] = <<>> /\ ran[w] = <<>>
  BY DEF Stream!Init
<1>3. \A r \in Worker \cup {"master"} : balancer[r] = "none"
  BY DEF Stream!Init
<1>4. Len(issued) = 0 /\ Len(buffer) = 0 /\ \A w \in Worker : Len(ran[w]) = 0 /\ Len(have[w]) = 0
  BY <1>1, <1>2
<1>5. StreamTypes
  <2>1. ran \in [Worker -> Seq(Stream!Kinds)] /\ have \in [Worker -> Units]
    BY DEF Stream!Init, Units
  <2>2. issued \in Seq(Stream!Kinds) /\ buffer \in Units
    BY <1>1 DEF Units
  <2>3. /\ at \in [Worker -> {"read", "barrier", "pick", "pickBarrier", "exit"}]
        /\ balancer \in [Worker \cup {"master"} -> Stream!Balancers \cup {"none"}]
    BY DEF Stream!Init
  <2> QED BY <1>1, <2>1, <2>2, <2>3 DEF StreamTypes
<1>6. MasterInv
  BY <1>1, <1>4 DEF MasterInv, Open
<1>7. ASSUME NEW w \in Worker
      PROVE  WholeFor(w) /\ RanInOrder(w) /\ AtBarrier(w)
  <2>1. OnItsWay(w) = <<>> /\ Stream!toWrite = <<1, 1>>
    BY <1>1, <1>2, <1>4 DEF OnItsWay, Stream!toWrite
  <2>2. WholeFor(w)
    BY <2>1, <1>4 DEF WholeFor
  <2> QED BY <2>2, <1>2, <1>4 DEF RanInOrder, AtBarrier
<1>8. Waited
  BY <1>4 DEF Waited
<1>9. AtPick
  BY <1>1, <1>2, FirstWorkerAssumption DEF AtPick
<1>10. BalancerInv
  <2>1. Uses("none", 0)
    BY DEF Uses
  <2>2. RunOnMasterUpTo = 0
    BY <1>1, <1>4 DEF RunOnMasterUpTo
  <2> QED BY <2>1, <2>2, <1>3, <1>4 DEF BalancerInv
<1> QED BY <1>5, <1>6, <1>7, <1>8, <1>9, <1>10 DEF StreamInv

LEMMA StreamTypesKept == ASSUME StreamInv, Stream!Next PROVE StreamTypes'
<1> USE DEF StreamTypes, Stream!masterVars, Stream!workerVars
<1>0. StreamTypes
  BY DEF StreamInv
<1>1. ASSUME NEW k \in Stream!Kinds, Stream!Begin(k), UNCHANGED <<Stream!workerVars, pick, balancer>>,
             size' \in BufferSizes, buffer' \in Units
      PROVE  StreamTypes'
  <2>1. issued' \in Seq(Stream!Kinds) /\ left' \in 0 .. 3 /\ master' = "write"
    BY <1>0, <1>1 DEF Stream!Begin, Stream!Size
  <2> QED BY <2>1, <1>0, <1>1 DEF Open
<1>2. ASSUME NEW k \in Stream!Kinds \ Stream!Balancers, Stream!Call(k) PROVE StreamTypes'
  BY <1>0, <1>1, <1>2 DEF Stream!Call
<1>3. CASE Stream!CommitDevice
  BY <1>0, <1>3 DEF Stream!CommitDevice
<1>4. CASE Stream!ReplaceStream
  <2>1. PICK b \in Stream!Balancers : Stream!Begin(b)
    BY <1>4 DEF Stream!ReplaceStream
  <2>2. b \in Stream!Kinds /\ buffer' \in Units
    BY <1>4 DEF Stream!Kinds, Stream!ReplaceStream, Units
  <2> QED BY <2>1, <2>2, <1>1, <1>4 DEF Stream!ReplaceStream
<1>5. CASE Stream!Write
  <2>1. left > 0 /\ buffer' = Append(buffer, Stream!toWrite)
    BY <1>5, <1>0 DEF Stream!Write, Stream!toWrite
  <2>2. buffer' \in Units
    BY <2>1, <1>0, NextUnit DEF StreamInv, Units
  <2>3. left' \in 0 .. 3 /\ master' \in {"send", "write"}
    BY <1>5, <1>0 DEF Stream!Write
  <2> QED BY <2>2, <2>3, <1>0, <1>5 DEF Stream!Write, Open
<1>6. CASE Stream!Written
  BY <1>0, <1>6 DEF Stream!Written, Open
<1>7. CASE Stream!RunOnMaster
  <2>1. master' \in {"barrier", "recv", "idle"}
    BY <1>7 DEF Stream!RunOnMaster
  <2>2. balancer' \in [Worker \cup {"master"} -> Stream!Balancers \cup {"none"}]
    BY <1>7, <1>0 DEF Stream!RunOnMaster
  <2> QED BY <2>1, <2>2, <1>0, <1>7 DEF Stream!RunOnMaster, Open
<1>8. CASE Stream!ReceivePick
  BY <1>0, <1>8 DEF Stream!ReceivePick
<1>9. CASE Stream!Broadcast
  <2>1. have' \in [Worker -> Units] /\ buffer' \in Units
    BY <1>9, <1>0 DEF Stream!Broadcast, Units
  <2>2. master' \in {"write", "replace"}
    BY <1>9 DEF Stream!Broadcast
  <2> QED BY <2>1, <2>2, <1>0, <1>9 DEF Stream!Broadcast, Open
<1>10. CASE Stream!WorldBarrier
  BY <1>0, <1>10 DEF Stream!WorldBarrier
<1>11. CASE Stream!PickBarrier
  BY <1>0, <1>11 DEF Stream!PickBarrier
<1>12. ASSUME NEW w \in Worker, Stream!ReadWork(w) PROVE StreamTypes'
  <2>1. PICK kd : kd = issued[have[w][1][1]]
    OBVIOUS
  <2>2. have[w] # <<>> /\ kd \in Stream!Kinds /\ Len(have[w]) >= Stream!Size(kd)
    BY <1>12, <2>1, HeadWork DEF Stream!ReadWork, Stream!HasItem
  <2>3. have' = [have EXCEPT ![w] = SubSeq(@, Stream!Size(kd) + 1, Len(@))]
    BY <1>12, <2>1 DEF Stream!ReadWork
  <2>4. SubSeq(have[w], Stream!Size(kd) + 1, Len(have[w])) \in Units
    BY <1>0, <2>2 DEF Stream!Size, Units
  <2>5. have' \in [Worker -> Units]
    BY <2>3, <2>4, <1>0
  <2>6. ran' \in [Worker -> Seq(Stream!Kinds)]
    BY <1>12, <1>0, <2>1, <2>2 DEF Stream!ReadWork
  <2>7. at' \in [Worker -> {"read", "barrier", "pick", "pickBarrier", "exit"}]
    BY <1>12, <1>0 DEF Stream!ReadWork
  <2>8. balancer' \in [Worker \cup {"master"} -> Stream!Balancers \cup {"none"}]
    BY <1>12, <1>0 DEF Stream!ReadWork
  <2> QED BY <2>5, <2>6, <2>7, <2>8, <1>0, <1>12 DEF Stream!ReadWork
<1>13. ASSUME NEW w \in Worker, Stream!SendPick(w) PROVE StreamTypes'
  BY <1>0, <1>13 DEF Stream!SendPick
<1> QED BY <1>2, <1>3, <1>4, <1>5, <1>6, <1>7, <1>8, <1>9, <1>10, <1>11, <1>12, <1>13
        DEF Stream!Next, Stream!InCall, Stream!Collective, Stream!Work

LEMMA MasterKept == ASSUME StreamInv, Stream!Next PROVE MasterInv'
<1> USE DEF Stream!masterVars, Stream!workerVars
<1>0. /\ MasterInv /\ StreamTypes
      /\ Len(buffer) \in Nat /\ Len(issued) \in Nat /\ size \in Nat \ {0} /\ left \in Nat
  BY BufferSizesAssumption DEF StreamInv, StreamTypes, Units
<1>1. ASSUME NEW k \in Stream!Kinds, Stream!Begin(k), Len(issued) < MaxCalls,
             buffer' \in Units, Len(buffer') < size', size' \in Nat \ {0}
      PROVE  MasterInv'
  <2>1. /\ issued' = Append(issued, k) /\ Len(issued') = Len(issued) + 1 /\ issued' # <<>>
        /\ issued'[Len(issued')] = k
    <3>1. issued \in Seq(Stream!Kinds) /\ issued' = Append(issued, k)
      BY <1>0, <1>1 DEF Stream!Begin, StreamTypes
    <3>2. Len(issued') = Len(issued) + 1 /\ issued'[Len(issued) + 1] = k
      BY <3>1
    <3> QED BY <3>1, <3>2, <1>0
  <2>2. Stream!work' = k
    BY <2>1 DEF Stream!work
  <2>3. left' = Stream!Size(k) /\ master' = "write" /\ Stream!Size(k) \in Nat
    BY <1>1 DEF Stream!Begin, Stream!Size
  <2>4. left' <= Stream!Size(Stream!work')
    BY <2>2, <2>3
  <2>5. Len(buffer') \in Nat /\ MaxCalls \in Nat
    BY <1>1, MaxCallsAssumption DEF Units
  <2>6. (left > 0 => left <= Stream!Size(Stream!work))'
    BY <2>4 DEF Stream!Size
  <2> QED BY <1>0, <1>1, <2>1, <2>3, <2>5, <2>6 DEF MasterInv
<1>2. ASSUME NEW k \in Stream!Kinds \ Stream!Balancers, Stream!Call(k) PROVE MasterInv'
  BY <1>0, <1>1, <1>2 DEF Stream!Call, MasterInv, StreamTypes
<1>3. CASE Stream!CommitDevice
  BY <1>0, <1>3 DEF Stream!CommitDevice, MasterInv, Stream!work, Open
<1>4. CASE Stream!ReplaceStream
  <2>1. PICK b \in Stream!Balancers : Stream!Begin(b)
    BY <1>4 DEF Stream!ReplaceStream
  <2>2. /\ b \in Stream!Kinds /\ buffer' \in Units /\ Len(buffer') = 0
        /\ size' \in Nat \ {0}
    BY <1>4, BufferSizesAssumption DEF Stream!Kinds, Stream!ReplaceStream, Units
  <2>3. Len(issued) < MaxCalls
    BY <1>4, <1>0, MaxCallsAssumption DEF Stream!ReplaceStream, MasterInv
  <2> QED BY <2>1, <2>2, <2>3, <1>1
<1>5. CASE Stream!Write
  <2>1. /\ Len(buffer') = Len(buffer) + 1 /\ left' = left - 1 /\ left > 0
        /\ UNCHANGED <<issued, size>>
        /\ master = "write" /\ master' = IF Len(buffer') = size THEN "send" ELSE "write"
    BY <1>5, <1>0 DEF Stream!Write, StreamTypes, Units
  <2>2. Stream!work' = Stream!work /\ Stream!Size(Stream!work) \in Nat
    BY <2>1 DEF Stream!work, Stream!Size
  <2>3. (left > 0 => left <= Stream!Size(Stream!work))'
    <3>1. left' <= Stream!Size(Stream!work)
      BY <1>0, <2>1, <2>2 DEF MasterInv
    <3> QED BY <3>1, <2>2
  <2> QED BY <1>0, <2>1, <2>3, MaxCallsAssumption DEF MasterInv, Open
<1>6. CASE Stream!Written
  BY <1>0, <1>6 DEF Stream!Written, MasterInv, Stream!work, Open
<1>7. CASE Stream!RunOnMaster
  BY <1>0, <1>7 DEF Stream!RunOnMaster, MasterInv, Stream!work, Open
<1>8. CASE Stream!ReceivePick
  BY <1>0, <1>8 DEF Stream!ReceivePick, MasterInv, Stream!work, Open
<1>9. CASE Stream!Broadcast
  <2>1. /\ buffer' = <<>> /\ Len(buffer') = 0 /\ UNCHANGED <<issued, left, size>>
        /\ \/ master = "send" /\ master' = "write"
           \/ master = "flush" /\ master' = "replace"
    BY <1>9 DEF Stream!Broadcast
  <2>2. (left > 0 => left <= Stream!Size(Stream!work))'
    BY <1>0, <2>1 DEF MasterInv, Stream!work
  <2> QED BY <1>0, <2>1, <2>2 DEF MasterInv, Open
<1>10. CASE Stream!WorldBarrier
  BY <1>0, <1>10 DEF Stream!WorldBarrier, MasterInv, Stream!work, Open
<1>11. CASE UNCHANGED Stream!masterVars
  BY <1>0, <1>11 DEF MasterInv, Stream!work
<1>12. Stream!PickBarrier \/ (\E w \in Worker : Stream!Work(w)) => UNCHANGED Stream!masterVars
  BY DEF Stream!PickBarrier, Stream!Work, Stream!ReadWork, Stream!SendPick
<1> QED BY <1>2, <1>3, <1>4, <1>5, <1>6, <1>7, <1>8, <1>9, <1>10, <1>11, <1>12
        DEF Stream!Next, Stream!InCall, Stream!Collective

(* What the steps do to the works and their order.                         *)

LEMMA WorksKept ==
  ASSUME StreamInv, Stream!Next
  PROVE  /\ Len(issued') \in Nat /\ Len(issued) <= Len(issued')
         /\ \A i \in 1 .. Len(issued) : issued'[i] = issued[i]
         /\ issued' = issued
              \/ \E k \in Stream!Kinds :
                   /\ Stream!Begin(k) /\ master \in {"idle", "replace"} /\ UNCHANGED <<at, have, ran, pick, balancer>>
                   /\ Len(issued') = Len(issued) + 1 /\ issued'[Len(issued')] = k
                   /\ buffer' = buffer /\ left = 0
<1>1. issued \in Seq(Stream!Kinds) /\ MasterInv /\ left \in 0 .. 3
  BY DEF StreamInv, StreamTypes
<1>2. ASSUME NEW k \in Stream!Kinds, Stream!Begin(k)
      PROVE  /\ Len(issued') = Len(issued) + 1 /\ issued'[Len(issued')] = k
             /\ \A i \in 1 .. Len(issued) : issued'[i] = issued[i]
  BY <1>1, <1>2 DEF Stream!Begin
<1>3. ASSUME NEW k \in Stream!Kinds \ Stream!Balancers, Stream!Call(k)
      PROVE  /\ Stream!Begin(k) /\ master = "idle" /\ UNCHANGED <<at, have, ran, pick, balancer>>
             /\ buffer' = buffer /\ left = 0
  BY <1>3, <1>1 DEF Stream!Call, MasterInv, Stream!workerVars
<1>4. CASE Stream!ReplaceStream
  <2>1. /\ \E b \in Stream!Kinds : Stream!Begin(b)
        /\ master = "replace" /\ UNCHANGED <<at, have, ran, pick, balancer>>
    BY <1>4 DEF Stream!ReplaceStream, Stream!Kinds, Stream!workerVars
  <2>2. buffer' = buffer /\ left = 0
    BY <1>4, <1>1 DEF Stream!ReplaceStream, MasterInv
  <2> QED BY <2>1, <2>2, <1>1, <1>2
<1>5. CASE issued' = issued
  BY <1>1, <1>5
<1>6. \/ \E k \in Stream!Kinds \ Stream!Balancers : Stream!Call(k)
      \/ Stream!ReplaceStream \/ issued' = issued
  BY DEF Stream!Next, Stream!InCall, Stream!Collective, Stream!Work, Stream!CommitDevice,
         Stream!Write, Stream!Written, Stream!RunOnMaster, Stream!ReceivePick, Stream!Broadcast,
         Stream!WorldBarrier, Stream!PickBarrier, Stream!ReadWork, Stream!SendPick, Stream!masterVars
<1> QED BY <1>1, <1>2, <1>3, <1>4, <1>5, <1>6

LEMMA RunKept ==
  ASSUME StreamInv, Stream!Next, NEW w \in Worker
  PROVE  \/ ran'[w] = ran[w]
         \/ /\ Stream!ReadWork(w) /\ issued' = issued /\ Len(ran[w]) + 1 \in 1 .. Len(issued)
            /\ ran'[w] = Append(ran[w], issued[Len(ran[w]) + 1])
            /\ have[w][1][1] = Len(ran[w]) + 1
<1>1. ran \in [Worker -> Seq(Stream!Kinds)]
  BY DEF StreamInv, StreamTypes
<1>2. ASSUME NEW v \in Worker, Stream!ReadWork(v), v # w PROVE ran'[w] = ran[w]
  BY <1>1, <1>2 DEF Stream!ReadWork
<1>3. ASSUME Stream!ReadWork(w)
      PROVE  /\ issued' = issued /\ Len(ran[w]) + 1 \in 1 .. Len(issued)
             /\ ran'[w] = Append(ran[w], issued[Len(ran[w]) + 1])
             /\ have[w][1][1] = Len(ran[w]) + 1
  BY <1>1, <1>3, HeadWork DEF Stream!ReadWork, Stream!HasItem, Stream!masterVars
<1>4. (\E v \in Worker : Stream!ReadWork(v)) \/ ran' = ran
  BY DEF Stream!Next, Stream!InCall, Stream!Collective, Stream!Work, Stream!CommitDevice, Stream!Call,
         Stream!ReplaceStream,
         Stream!Write, Stream!Written, Stream!RunOnMaster, Stream!ReceivePick, Stream!Broadcast,
         Stream!WorldBarrier, Stream!PickBarrier, Stream!ReadWork, Stream!SendPick, Stream!workerVars
<1> QED BY <1>2, <1>3, <1>4

LEMMA InOrderKept ==
  ASSUME StreamInv, Stream!Next, NEW w \in Worker PROVE RanInOrder(w)'
<1>1. /\ RanInOrder(w) /\ ran[w] \in Seq(Stream!Kinds) /\ Len(issued) \in Nat
      /\ issued \in Seq(Stream!Kinds)
  BY DEF StreamInv, StreamTypes
<1>2. /\ Len(issued') \in Nat /\ Len(issued) <= Len(issued')
      /\ \A i \in 1 .. Len(issued) : issued'[i] = issued[i]
  BY WorksKept
<1>3. CASE ran'[w] = ran[w]
  BY <1>1, <1>2, <1>3 DEF RanInOrder
<1>4. CASE /\ issued' = issued /\ Len(ran[w]) + 1 \in 1 .. Len(issued)
           /\ ran'[w] = Append(ran[w], issued[Len(ran[w]) + 1])
  <2>1. Len(ran'[w]) = Len(ran[w]) + 1 /\ Len(ran'[w]) <= Len(issued')
    BY <1>1, <1>4
  <2>2. ASSUME NEW i \in 1 .. Len(ran'[w]) PROVE ran'[w][i] = issued'[i]
    BY <1>1, <1>4, <2>1 DEF RanInOrder
  <2> QED BY <2>1, <2>2 DEF RanInOrder
<1> QED BY <1>3, <1>4, RunKept

(* Who has come to which work.                                             *)

LEMMA NeededIsSome ==
  /\ \A k : Stream!Service!Needed(k) \subseteq Worker
  /\ \A k : k \in {"render", "final"} => Stream!Service!Needed(k) = Worker
  /\ Stream!Service!Needed("pick") = {FirstWorker}
  /\ \A k : k \notin {"render", "final", "pick"} => Stream!Service!Needed(k) = {}
BY FirstWorkerAssumption DEF Stream!Service!Needed

\* Who the last call waits for has begun the last work when the call returns.
LEMMA ReturnedWaited ==
  ASSUME StreamInv, Stream!Next, master \in Open, master' \notin Open
  PROVE  /\ issued' = issued /\ Len(issued) \in 1 .. Len(issued)
         /\ \A w \in Stream!Service!Needed(Stream!work) : Len(ran[w]) = Len(issued)
<1>1. /\ \/ Stream!RunOnMaster /\ Stream!work \notin {"render", "final", "pick"}
         \/ Stream!ReceivePick /\ Stream!work = "pick"
         \/ Stream!WorldBarrier
  <2>1. MasterInv
    BY DEF StreamInv
  <2> QED
    BY <2>1 DEF Stream!Next, Stream!InCall, Stream!Collective, Stream!Work, Stream!CommitDevice,
         Stream!Call, Stream!ReplaceStream, Stream!Begin, MasterInv,
         Stream!Write, Stream!Written, Stream!RunOnMaster, Stream!ReceivePick, Stream!Broadcast,
         Stream!WorldBarrier, Stream!PickBarrier, Stream!ReadWork, Stream!SendPick,
         Stream!masterVars, Open
<1>2. issued' = issued
  BY <1>1 DEF Stream!RunOnMaster, Stream!ReceivePick, Stream!WorldBarrier
<1>3. issued # <<>> /\ Len(issued) \in 1 .. Len(issued)
  BY DEF StreamInv, StreamTypes, MasterInv
<1>4. CASE Stream!RunOnMaster /\ Stream!work \notin {"render", "final", "pick"}
  BY <1>2, <1>3, <1>4, NeededIsSome
<1>5. CASE Stream!ReceivePick /\ Stream!work = "pick"
  <2>1. pick > 0 /\ AtPick
    BY <1>5 DEF Stream!ReceivePick, StreamInv
  <2> QED BY <2>1, <1>2, <1>3, <1>5, NeededIsSome DEF AtPick
<1>6. CASE Stream!WorldBarrier
  <2>1. \A w \in Worker : Len(ran[w]) = Len(issued)
    BY <1>6 DEF Stream!WorldBarrier, StreamInv, AtBarrier
  <2> QED BY <2>1, <1>2, <1>3, NeededIsSome
<1> QED BY <1>1, <1>4, <1>5, <1>6

LEMMA WaitedKept == ASSUME StreamInv, Stream!Next PROVE Waited'
<1>1. Waited /\ Len(issued) \in Nat /\ ran \in [Worker -> Seq(Stream!Kinds)]
  BY DEF StreamInv, StreamTypes
<1>2. \A w \in Worker : Len(ran'[w]) >= Len(ran[w]) /\ Len(ran[w]) \in Nat /\ Len(ran'[w]) \in Nat
  BY <1>1, RunKept
<1>3. SUFFICES ASSUME NEW i \in 1 .. Len(issued'), i < Len(issued') \/ master' \notin Open,
                      NEW w \in Stream!Service!Needed(issued'[i])
               PROVE  Len(ran'[w]) >= i
  <2>1. ASSUME NEW k PROVE (Stream!Service!Needed(k))' = Stream!Service!Needed(k)
    BY DEF Stream!Service!Needed
  <2> QED BY <2>1 DEF Waited
<1>4. w \in Worker
  BY NeededIsSome
<1>5. CASE issued' # issued
  <2>1. master \notin Open /\ Len(issued') = Len(issued) + 1 /\ master' \in Open
    BY <1>5, WorksKept DEF Open, Stream!Begin
  <2>2. i \in 1 .. Len(issued) /\ issued'[i] = issued[i]
    BY <2>1, <1>1, <1>3, WorksKept
  <2> QED BY <2>1, <2>2, <1>1, <1>2, <1>3, <1>4 DEF Waited
<1>6. CASE issued' = issued /\ (i < Len(issued) \/ master \notin Open)
  BY <1>1, <1>2, <1>3, <1>4, <1>6 DEF Waited
<1>7. CASE issued' = issued /\ i = Len(issued) /\ master \in Open /\ master' \notin Open
  BY <1>1, <1>2, <1>3, <1>4, <1>7, ReturnedWaited DEF Stream!work
<1> QED BY <1>3, <1>5, <1>6, <1>7, <1>1

\* A worker that begins a work that is waited for begins the last one, which
\* the master has not yet returned from.
LEMMA BeginsLast ==
  ASSUME StreamInv, NEW w \in Worker, Stream!ReadWork(w),
         NEW kd, kd = issued[Len(ran[w]) + 1], w \in Stream!Service!Needed(kd)
  PROVE  /\ Len(ran[w]) + 1 = Len(issued) /\ Stream!work = kd /\ master \in Open
<1>1. Len(ran[w]) + 1 \in 1 .. Len(issued) /\ Len(ran[w]) \in Nat
  BY HeadWork DEF StreamInv, StreamTypes, Stream!ReadWork, Stream!HasItem
<1>2. ~(Len(ran[w]) + 1 < Len(issued) \/ master \notin Open)
  BY <1>1 DEF StreamInv, Waited
<1>3. Len(issued) \in Nat
  BY DEF StreamInv, StreamTypes
<1>4. Len(ran[w]) + 1 = Len(issued)
  BY <1>1, <1>2, <1>3
<1> QED BY <1>2, <1>4 DEF Stream!work

\* The last work and the phase of its call stay as long as somebody who takes
\* part in it is not through.
LEMMA CallStaysOpen ==
  ASSUME StreamInv, Stream!Next, master \in Open,
         ~Stream!WorldBarrier, ~Stream!ReceivePick,
         Stream!work \in {"render", "final", "pick"}
  PROVE  master' \in Open /\ issued' = issued /\ Stream!work' = Stream!work
<1>1. issued' = issued
  <2>1. master \notin {"idle", "replace"}
    BY DEF Open
  <2> QED BY <2>1, WorksKept
<1>2. master' \in Open
  <2>1. MasterInv
    BY DEF StreamInv
  <2> QED
    BY <2>1 DEF Stream!Next, Stream!InCall, Stream!Collective, Stream!Work, Stream!CommitDevice,
         Stream!Call, Stream!ReplaceStream, Stream!Begin, MasterInv,
         Stream!Write, Stream!Written, Stream!RunOnMaster, Stream!Broadcast,
         Stream!PickBarrier, Stream!ReadWork, Stream!SendPick,
         Stream!masterVars, Open
<1> QED BY <1>1, <1>2 DEF Stream!work

LEMMA AtBarrierKept ==
  ASSUME StreamInv, Stream!Next, NEW w \in Worker PROVE AtBarrier(w)'
<1> SUFFICES ASSUME at'[w] = "barrier"
             PROVE  /\ Len(ran'[w]) = Len(issued') /\ Stream!work' \in {"render", "final"}
                    /\ master' \in Open
  BY DEF AtBarrier
<1>0. AtBarrier(w) /\ MasterInv /\ at \in [Worker -> {"read", "barrier", "pick", "pickBarrier", "exit"}]
      /\ ran \in [Worker -> Seq(Stream!Kinds)] /\ pick \in Nat
  BY DEF StreamInv, StreamTypes
<1>1. ~Stream!WorldBarrier
  BY DEF Stream!WorldBarrier
<1>2. CASE at[w] = "barrier"
  <2>1. /\ Len(ran[w]) = Len(issued) /\ Stream!work \in {"render", "final"} /\ master \in Open
    BY <1>0, <1>2 DEF AtBarrier
  <2>2. ~Stream!ReceivePick
    BY <1>0, <2>1 DEF Stream!ReceivePick, MasterInv
  <2>3. /\ master' \in Open /\ issued' = issued /\ Stream!work' = Stream!work
    BY <1>1, <2>1, <2>2, CallStaysOpen
  <2>4. ran'[w] = ran[w]
    BY <1>2, RunKept DEF Stream!ReadWork
  <2> QED BY <2>1, <2>3, <2>4
<1>3. CASE at[w] # "barrier"
  <2>1. Stream!ReadWork(w)
    BY <1>0, <1>1, <1>3 DEF Stream!Next, Stream!InCall, Stream!Collective, Stream!Work, Stream!CommitDevice,
         Stream!Call, Stream!ReplaceStream, Stream!workerVars,
         Stream!Write, Stream!Written, Stream!RunOnMaster, Stream!ReceivePick, Stream!Broadcast,
         Stream!PickBarrier, Stream!ReadWork, Stream!SendPick
  <2>2. PICK kd : kd = issued[Len(ran[w]) + 1]
    OBVIOUS
  <2>3. have[w] # <<>> /\ issued[have[w][1][1]] = kd
    BY <2>1, <2>2, HeadWork DEF Stream!ReadWork, Stream!HasItem
  <2>4. kd \in {"render", "final"}
    BY <2>1, <2>3, <1>0 DEF Stream!ReadWork
  <2>5. /\ Len(ran[w]) + 1 = Len(issued) /\ Stream!work = kd /\ master \in Open
    BY <2>1, <2>2, <2>4, BeginsLast, NeededIsSome
  <2>6. /\ UNCHANGED Stream!masterVars /\ ran'[w] = Append(ran[w], kd)
    BY <2>1, <2>3, <1>0 DEF Stream!ReadWork
  <2>7. Len(ran'[w]) = Len(ran[w]) + 1
    BY <2>6, <1>0
  <2> QED BY <2>4, <2>5, <2>6, <2>7 DEF Stream!masterVars, Stream!work
<1> QED BY <1>2, <1>3

LEMMA AtPickKept == ASSUME StreamInv, Stream!Next PROVE AtPick'
<1>0. /\ AtPick /\ MasterInv /\ FirstWorker \in Worker
      /\ at \in [Worker -> {"read", "barrier", "pick", "pickBarrier", "exit"}]
      /\ ran \in [Worker -> Seq(Stream!Kinds)] /\ pick \in Nat
  BY FirstWorkerAssumption DEF StreamInv, StreamTypes
<1>1. CASE Stream!ReceivePick
  <2>1. /\ pick = 1 /\ pick' = 0 /\ at' = at
    BY <1>0, <1>1 DEF Stream!ReceivePick, Stream!workerVars, AtPick
  <2>2. at[FirstWorker] # "pick"
    BY <1>0, <2>1 DEF AtPick
  <2> QED BY <1>0, <2>1, <2>2 DEF AtPick
<1>2. ASSUME NEW w \in Worker, Stream!SendPick(w) PROVE AtPick'
  <2>1. w = FirstWorker /\ pick = 0 /\ pick' = 1 /\ at[w] = "pick"
    BY <1>0, <1>2 DEF Stream!SendPick, AtPick
  <2>2. \A v \in Worker : at'[v] # "pick"
    BY <1>0, <1>2, <2>1 DEF Stream!SendPick, AtPick
  <2> QED BY <1>0, <1>2, <2>1, <2>2 DEF AtPick, Stream!SendPick, Stream!masterVars, Stream!work
<1>3. ASSUME NEW w \in Worker, Stream!ReadWork(w), at'[w] = "pick" PROVE AtPick'
  <2>2. PICK kd : kd = issued[Len(ran[w]) + 1]
    OBVIOUS
  <2>3. have[w] # <<>> /\ issued[have[w][1][1]] = kd
    BY <1>3, <2>2, HeadWork DEF Stream!ReadWork, Stream!HasItem
  <2>4. kd = "pick" /\ w = FirstWorker
    BY <1>3, <2>3, <1>0 DEF Stream!ReadWork
  <2>5. /\ Len(ran[w]) + 1 = Len(issued) /\ Stream!work = kd /\ master \in Open
    BY <1>3, <2>2, <2>4, BeginsLast, NeededIsSome
  <2>6. /\ UNCHANGED <<Stream!masterVars, pick>> /\ ran'[w] = Append(ran[w], kd)
        /\ \A v \in Worker : v # w => at'[v] = at[v]
    BY <1>3, <2>3, <1>0 DEF Stream!ReadWork
  <2>7. Len(ran'[w]) = Len(ran[w]) + 1 /\ pick = 0
    <3>1. Len(ran[w]) # Len(issued)
      BY <2>5, <1>0
    <3> QED BY <3>1, <2>4, <2>6, <1>0 DEF AtPick
  <2> QED BY <2>4, <2>5, <2>6, <2>7, <1>0 DEF Stream!masterVars, Stream!work, AtPick
<1>4. ASSUME ~Stream!ReceivePick, \A w \in Worker : ~Stream!SendPick(w),
             \A w \in Worker : Stream!ReadWork(w) => at'[w] # "pick"
      PROVE  AtPick'
  <2>1. pick' = pick /\ \A w \in Worker : at'[w] = "pick" => at[w] = "pick"
    BY <1>0, <1>4 DEF Stream!Next, Stream!InCall, Stream!Collective, Stream!Work, Stream!CommitDevice,
         Stream!Call, Stream!ReplaceStream, Stream!workerVars, Stream!WorldBarrier,
         Stream!Write, Stream!Written, Stream!RunOnMaster, Stream!Broadcast,
         Stream!PickBarrier, Stream!ReadWork
  <2>2. ASSUME pick > 0 \/ at[FirstWorker] = "pick"
        PROVE  /\ Len(ran'[FirstWorker]) = Len(issued') /\ Stream!work' = "pick"
               /\ master' \in Open
    <3>1. /\ Len(ran[FirstWorker]) = Len(issued) /\ Stream!work = "pick" /\ master \in Open
      BY <1>0, <2>2 DEF AtPick
    <3>2. ~Stream!WorldBarrier
      BY <3>1, <1>0 DEF Stream!WorldBarrier, MasterInv
    <3>3. /\ master' \in Open /\ issued' = issued /\ Stream!work' = Stream!work
      BY <1>4, <3>1, <3>2, CallStaysOpen
    <3>4. ran'[FirstWorker] = ran[FirstWorker]
      <4>1. ~(Len(ran[FirstWorker]) + 1 \in 1 .. Len(issued))
        BY <3>1, <1>0
      <4> QED BY <4>1, <1>0, RunKept
    <3> QED BY <3>1, <3>3, <3>4
  <2> QED BY <2>1, <2>2, <1>0 DEF AtPick
<1> QED BY <1>1, <1>2, <1>3, <1>4

(* The units.                                                              *)

\* Nobody touches the stream between the master and w but a Write, which puts
\* the next unit at its end, and w's ReadWork, which takes a work from it.
LEMMA StreamSteps ==
  ASSUME StreamInv, Stream!Next, NEW w \in Worker
  PROVE  \/ /\ OnItsWay(w)' = OnItsWay(w) /\ Stream!toWrite' = Stream!toWrite
            /\ ran'[w] = ran[w]
         \/ /\ OnItsWay(w)' = Append(OnItsWay(w), Stream!toWrite) /\ left > 0
            /\ Stream!toWrite' = Stream!Following(Stream!toWrite)
            /\ ran'[w] = ran[w] /\ issued' = issued
         \/ /\ Stream!ReadWork(w) /\ UNCHANGED <<issued, left>>
            /\ OnItsWay(w)' =
                 SubSeq(have[w], Stream!Size(issued[Len(ran[w]) + 1]) + 1, Len(have[w])) \o buffer
            /\ Stream!toWrite' = Stream!toWrite
            /\ ran'[w] = Append(ran[w], issued[Len(ran[w]) + 1])
<1>0. /\ StreamTypes /\ MasterInv /\ buffer \in Units /\ have \in [Worker -> Units] /\ have[w] \in Units
      /\ left \in 0 .. 3 /\ Len(issued) \in Nat /\ issued \in Seq(Stream!Kinds)
      /\ ran \in [Worker -> Seq(Stream!Kinds)]
  BY DEF StreamInv, StreamTypes
<1>1. CASE Stream!Write
  <2>1. /\ left > 0 /\ left' = left - 1 /\ UNCHANGED <<issued, have, ran>>
        /\ buffer' = Append(buffer, <<Len(issued), Stream!Size(Stream!work) - left + 1>>)
    BY <1>1 DEF Stream!Write, Stream!workerVars
  <2>2. /\ Stream!toWrite = <<Len(issued), Stream!Size(Stream!work) - left + 1>>
    BY <2>1, <1>0 DEF Stream!toWrite
  <2>3. have[w] \o Append(buffer, Stream!toWrite) = Append(have[w] \o buffer, Stream!toWrite)
    <3>1. Stream!toWrite \in Nat \X Nat
      BY <1>0, NextUnit
    <3> QED BY <1>0, <3>1, LastOfBoth
  <2>4. Stream!work' = Stream!work /\ Stream!work = issued[Len(issued)]
    BY <2>1 DEF Stream!work
  <2>5. Stream!Size(Stream!work) \in Nat
    BY DEF Stream!Size
  <2>6. Stream!toWrite' = IF left - 1 = 0 THEN <<Len(issued) + 1, 1>>
                          ELSE <<Len(issued), Stream!Size(Stream!work) - (left - 1) + 1>>
    BY <2>1, <2>4 DEF Stream!toWrite, Stream!Size
  <2>7. Stream!Following(Stream!toWrite) =
          IF Stream!Size(Stream!work) - left + 1 < Stream!Size(Stream!work)
            THEN <<Len(issued), Stream!Size(Stream!work) - left + 1 + 1>> ELSE <<Len(issued) + 1, 1>>
    BY <2>2, <2>4 DEF Stream!Following
  <2>8. Stream!toWrite' = Stream!Following(Stream!toWrite)
    <3>1. CASE left = 1
      BY <2>5, <2>6, <2>7, <3>1
    <3>2. CASE left \in {2, 3}
      BY <2>5, <2>6, <2>7, <3>2
    <3> QED BY <3>1, <3>2, <2>1, <1>0
  <2> QED BY <2>1, <2>2, <2>3, <2>8 DEF OnItsWay
<1>2. CASE Stream!Broadcast
  <2>1. /\ have'[w] = have[w] \o buffer /\ buffer' = <<>> /\ UNCHANGED <<issued, left, ran>>
    BY <1>2, <1>0 DEF Stream!Broadcast
  <2>2. (have[w] \o buffer) \o <<>> = have[w] \o buffer
    BY <1>0 DEF Units
  <2> QED BY <2>1, <2>2 DEF OnItsWay, Stream!toWrite, Stream!work, Stream!Size
<1>3. CASE Stream!ReadWork(w)
  <2>1. /\ UNCHANGED <<issued, left, buffer>> /\ issued[have[w][1][1]] = issued[Len(ran[w]) + 1]
    BY <1>3, HeadWork DEF Stream!ReadWork, Stream!HasItem, Stream!masterVars
  <2>2. have'[w] = SubSeq(have[w], Stream!Size(issued[Len(ran[w]) + 1]) + 1, Len(have[w]))
    BY <1>3, <1>0, <2>1 DEF Stream!ReadWork
  <2>3. ran'[w] = Append(ran[w], issued[Len(ran[w]) + 1])
    BY <1>3, <1>0, <2>1 DEF Stream!ReadWork
  <2> QED BY <1>3, <2>1, <2>2, <2>3 DEF OnItsWay, Stream!toWrite, Stream!work, Stream!Size
<1>4. ASSUME NEW v \in Worker, v # w, Stream!ReadWork(v)
      PROVE  /\ OnItsWay(w)' = OnItsWay(w) /\ Stream!toWrite' = Stream!toWrite /\ ran'[w] = ran[w]
  BY <1>0, <1>4 DEF Stream!ReadWork, Stream!masterVars, OnItsWay, Stream!toWrite, Stream!work, Stream!Size
<1>5. ASSUME NEW k \in Stream!Kinds, Stream!Begin(k), left = 0, buffer' = buffer, UNCHANGED <<have, ran>>
      PROVE  /\ OnItsWay(w)' = OnItsWay(w) /\ Stream!toWrite' = Stream!toWrite /\ ran'[w] = ran[w]
  <2>1. /\ Len(issued') = Len(issued) + 1 /\ issued'[Len(issued')] = k
    <3>1. issued' = Append(issued, k)
      BY <1>5 DEF Stream!Begin
    <3>2. Len(issued') = Len(issued) + 1 /\ issued'[Len(issued) + 1] = k
      BY <3>1, <1>0
    <3> QED BY <3>2
  <2>2. left' = Stream!Size(k) /\ Stream!Size(k) \in {2, 3}
    BY <1>5 DEF Stream!Begin, Stream!Size
  <2>3. Stream!work' = k
    BY <2>1 DEF Stream!work
  <2>4. Stream!toWrite' = <<Len(issued), Stream!Size(Stream!work) - left + 1>>'
    BY <2>2 DEF Stream!toWrite
  <2>5. Stream!Size(Stream!work)' = Stream!Size(k)
    BY <2>3 DEF Stream!Size
  <2>6. Stream!toWrite' = <<Len(issued) + 1, 1>>
    BY <2>1, <2>2, <2>4, <2>5
  <2>7. Stream!toWrite = <<Len(issued) + 1, 1>>
    BY <1>5 DEF Stream!toWrite
  <2> QED BY <1>5, <2>6, <2>7 DEF OnItsWay
<1>6. ASSUME UNCHANGED <<issued, left, buffer, have, ran>>
      PROVE  /\ OnItsWay(w)' = OnItsWay(w) /\ Stream!toWrite' = Stream!toWrite /\ ran'[w] = ran[w]
  BY <1>6 DEF OnItsWay, Stream!toWrite, Stream!work, Stream!Size
<1>7. ASSUME NEW k \in Stream!Kinds, Stream!Begin(k) PROVE issued' # issued
  <2>1. issued' = Append(issued, k)
    BY <1>7 DEF Stream!Begin
  <2>2. Len(issued') = Len(issued) + 1
    BY <2>1, <1>0
  <2> QED BY <2>2, <1>0
<1>9. \/ \E k \in Stream!Kinds : Stream!Begin(k)
      \/ Stream!Write \/ Stream!Broadcast \/ \E v \in Worker : Stream!ReadWork(v)
      \/ UNCHANGED <<issued, left, buffer, have, ran>>
  BY DEF Stream!Next, Stream!InCall, Stream!Collective, Stream!Work, Stream!CommitDevice, Stream!Call,
         Stream!ReplaceStream, Stream!workerVars, Stream!masterVars, Stream!WorldBarrier, Stream!Written,
         Stream!RunOnMaster, Stream!ReceivePick, Stream!PickBarrier, Stream!SendPick, Stream!Kinds
<1>8. CASE issued' # issued
  <2>1. PICK k \in Stream!Kinds : /\ Stream!Begin(k) /\ UNCHANGED <<have, ran>>
                                  /\ buffer' = buffer /\ left = 0
    BY <1>8, WorksKept
  <2> QED BY <2>1, <1>5
<1> QED BY <1>1, <1>2, <1>3, <1>4, <1>6, <1>7, <1>8, <1>9

LEMMA Dropped ==
  ASSUME NEW h \in Units, NEW b \in Units, NEW t \in Nat \X Nat, NEW n \in 1 .. Len(h)
  PROVE  /\ SubSeq(h, n + 1, Len(h)) \in Units
         /\ Len(SubSeq(h, n + 1, Len(h)) \o b) = Len(h \o b) - n
         /\ \A k \in 1 .. Len(h \o b) - n + 1 :
              Append(SubSeq(h, n + 1, Len(h)) \o b, t)[k] = Append(h \o b, t)[k + n]
<1>1. PICK r : r = SubSeq(h, n + 1, Len(h))
  OBVIOUS
<1>2. r \in Units /\ Len(r) = Len(h) - n /\ \A k \in 1 .. Len(r) : r[k] = h[k + n]
  BY <1>1, TakenAway
<1>3. /\ Len(r \o b) = Len(r) + Len(b) /\ Len(h \o b) = Len(h) + Len(b)
      /\ Len(r) \in Nat /\ Len(h) \in Nat /\ Len(b) \in Nat /\ Len(h \o b) - n = Len(r \o b)
  <2>1. Len(r \o b) = Len(r) + Len(b) /\ Len(h \o b) = Len(h) + Len(b)
    BY <1>2, Extended
  <2>2. Len(r) \in Nat /\ Len(h) \in Nat /\ Len(b) \in Nat
    BY <1>2 DEF Units
  <2> QED BY <2>1, <2>2, <1>2
<1>4. ASSUME NEW k \in 1 .. Len(r \o b) PROVE (r \o b)[k] = (h \o b)[k + n]
  <2>1. CASE k \in 1 .. Len(r)
    <3>1. k + n \in 1 .. Len(h)
      BY <1>2, <1>3, <2>1
    <3> QED BY <2>1, <3>1, <1>2, Extended
  <2>2. CASE k \in Len(r) + 1 .. Len(r) + Len(b)
    <3>1. (r \o b)[k] = b[k - Len(r)]
      BY <1>2, <2>2, Extended
    <3>2. (h \o b)[k + n] = b[(k + n) - Len(h)]
      <4>1. k + n \in Len(h) + 1 .. Len(h) + Len(b)
        BY <1>2, <1>3, <2>2
      <4> QED BY <4>1, Extended
    <3>3. (k + n) - Len(h) = k - Len(r)
      BY <1>2, <1>3
    <3> QED BY <3>1, <3>2, <3>3
  <2>3. k \in 1 .. Len(r) \/ k \in Len(r) + 1 .. Len(r) + Len(b)
    BY <1>3
  <2> QED BY <2>1, <2>2, <2>3
<1>5. ASSUME NEW k \in 1 .. Len(h \o b) - n + 1
      PROVE  Append(r \o b, t)[k] = Append(h \o b, t)[k + n]
  <2>1. CASE k \in 1 .. Len(r \o b)
    <3>1. k + n \in 1 .. Len(h \o b)
      BY <1>3, <2>1
    <3>2. Append(r \o b, t)[k] = (r \o b)[k]
      BY <2>1, <1>2, Extended
    <3>3. Append(h \o b, t)[k + n] = (h \o b)[k + n]
      BY <3>1, Extended
    <3> QED BY <2>1, <3>2, <3>3, <1>4
  <2>2. CASE k = Len(r \o b) + 1
    <3>1. k + n = Len(h \o b) + 1
      BY <1>3, <2>2
    <3> QED BY <2>2, <3>1, <1>2, Extended
  <2> QED BY <2>1, <2>2, <1>3
<1> QED BY <1>1, <1>2, <1>3, <1>5

LEMMA Added ==
  ASSUME NEW u \in Units, NEW t \in Nat \X Nat, NEW x \in Nat \X Nat
  PROVE  /\ Append(u, t) \in Units /\ Len(Append(u, t)) = Len(u) + 1
         /\ Append(u, t)[Len(u) + 1] = t
         /\ Append(Append(u, t), x)[Len(u) + 2] = x
         /\ \A k \in 1 .. Len(u) + 1 : Append(Append(u, t), x)[k] = Append(u, t)[k]
BY DEF Units

LEMMA WholeKept == ASSUME StreamInv, Stream!Next, NEW w \in Worker PROVE WholeFor(w)'
<1> DEFINE u == OnItsWay(w)
           t == Stream!toWrite
           W == Append(u, t)
<1>0. /\ u \in Units /\ t \in Nat \X Nat /\ have[w] \in Units /\ buffer \in Units
      /\ Len(u) \in Nat /\ Len(issued) \in Nat /\ Len(u) = Len(have[w]) + Len(buffer)
      /\ ran[w] \in Seq(Stream!Kinds) /\ issued \in Seq(Stream!Kinds)
  <2>1. have[w] \in Units /\ buffer \in Units /\ ran[w] \in Seq(Stream!Kinds) /\ issued \in Seq(Stream!Kinds)
    BY DEF StreamInv, StreamTypes
  <2>2. t \in Nat \X Nat
    BY NextUnit DEF StreamInv
  <2> QED BY <2>1, <2>2, Extended DEF OnItsWay, Units
<1>1. /\ W[1] = <<Len(ran[w]) + 1, 1>>
      /\ \A k \in 1 .. Len(u) : W[k][1] \in 1 .. Len(issued) /\ W[k + 1] = Stream!Following(W[k])
  BY DEF StreamInv, WholeFor
<1> HIDE DEF u, t, W
<1>2. ASSUME NEW x, x[1] \in 1 .. Len(issued) PROVE Stream!Following(x)' = Stream!Following(x)
  <2>1. issued'[x[1]] = issued[x[1]]
    BY <1>2, WorksKept
  <2> QED BY <2>1 DEF Stream!Following, Stream!Size
<1>3. 1 .. Len(issued) \subseteq 1 .. Len(issued')
  BY <1>0, WorksKept
<1>4. CASE OnItsWay(w)' = u /\ Stream!toWrite' = t /\ ran'[w] = ran[w]
  <2>1. ASSUME NEW k \in 1 .. Len(u)
        PROVE  \A x : x = W[k] => x[1] \in 1 .. Len(issued') /\ W[k + 1] = Stream!Following(x)'
    <3>1. PICK x : x = W[k]
      OBVIOUS
    <3>2. x[1] \in 1 .. Len(issued) /\ W[k + 1] = Stream!Following(x)
      BY <1>1, <3>1
    <3>3. Stream!Following(x)' = Stream!Following(x)
      BY <1>2, <3>2
    <3> QED BY <3>1, <3>2, <3>3, <1>3
  <2> QED BY <2>1, <1>1, <1>4 DEF WholeFor, Stream!Following, W
<1>5. CASE /\ OnItsWay(w)' = Append(u, t) /\ left > 0 /\ Stream!toWrite' = Stream!Following(t)
           /\ ran'[w] = ran[w] /\ issued' = issued
  <2>1. t[1] \in 1 .. Len(issued)
    BY <1>5, <1>0 DEF t, Stream!toWrite, StreamInv, MasterInv, StreamTypes, Open
  <2>2. PICK x : x = Stream!Following(t)
    OBVIOUS
  <2>3. x \in Nat \X Nat
    BY <2>1, <2>2, <1>0, NextUnit DEF StreamInv
  <2>4. PICK V : V = Append(Append(u, t), x)
    OBVIOUS
  <2>5. /\ Len(Append(u, t)) = Len(u) + 1 /\ W[Len(u) + 1] = t /\ V[Len(u) + 2] = x
        /\ \A k \in 1 .. Len(u) + 1 : V[k] = W[k]
    BY <1>0, <2>3, <2>4, Added DEF W
  <2>6. ASSUME NEW k \in 1 .. Len(u) + 1
        PROVE  V[k][1] \in 1 .. Len(issued) /\ V[k + 1] = Stream!Following(V[k])
    <3>1. CASE k \in 1 .. Len(u)
      BY <3>1, <2>5, <1>1, <1>0
    <3>2. CASE k = Len(u) + 1
      BY <3>2, <2>1, <2>2, <2>5, <1>0
    <3>3. Len(u) \in Nat
      BY <1>0
    <3>4. k \in 1 .. Len(u) \/ k = Len(u) + 1
      BY <3>3
    <3> QED BY <3>1, <3>2, <3>4
  <2>7. V[1] = <<Len(ran[w]) + 1, 1>>
    BY <2>5, <1>0, <1>1
  <2>8. \A k \in 1 .. Len(u) + 1 :
          V[k][1] \in 1 .. Len(issued') /\ V[k + 1] = Stream!Following(V[k])'
    BY <2>6, <1>5 DEF Stream!Following
  <2>9. Append(OnItsWay(w), Stream!toWrite)' = V
    BY <1>5, <2>2, <2>4 DEF t
  <2>10. Len(OnItsWay(w))' = Len(u) + 1
    BY <1>5, <2>5
  <2> QED BY <2>7, <2>8, <2>9, <2>10, <1>5 DEF WholeFor, Stream!Following
<1>6. CASE /\ Stream!ReadWork(w) /\ UNCHANGED <<issued, left>>
           /\ OnItsWay(w)' =
                SubSeq(have[w], Stream!Size(issued[Len(ran[w]) + 1]) + 1, Len(have[w])) \o buffer
           /\ Stream!toWrite' = t /\ ran'[w] = Append(ran[w], issued[Len(ran[w]) + 1])
  <2>1. PICK n : n = Len(ran[w]) + 1
    OBVIOUS
  <2>2. PICK z : z = Stream!Size(issued[n])
    OBVIOUS
  <2>3. /\ z \in {2, 3} /\ z <= Len(have[w]) /\ n \in 1 .. Len(issued)
        /\ W[1] = <<n, 1>>
    BY <1>1, <1>6, <2>1, <2>2, HeadWork DEF Stream!ReadWork, Stream!HasItem, Stream!Size
  <2>4. PICK V : V = Append(SubSeq(have[w], z + 1, Len(have[w])) \o buffer, t)
    OBVIOUS
  <2>5. z \in 1 .. Len(have[w])
    BY <2>3, <1>0
  <2>6. /\ Len(SubSeq(have[w], z + 1, Len(have[w])) \o buffer) = Len(u) - z
        /\ \A k \in 1 .. Len(u) - z + 1 : V[k] = W[k + z]
    BY <2>4, <2>5, <1>0, Dropped DEF OnItsWay, u, W
  <2>7. W[z + 1] = <<n + 1, 1>>
    <3>0. /\ 1 \in 1 .. Len(u) /\ 2 \in 1 .. Len(u) /\ (z = 3 => 3 \in 1 .. Len(u))
          /\ n \in Nat
      BY <2>3, <1>0
    <3>1. /\ Stream!Following(<<n, 1>>) = <<n, 2>>
          /\ z = 2 => Stream!Following(<<n, 2>>) = <<n + 1, 1>>
          /\ z = 3 => Stream!Following(<<n, 2>>) = <<n, 3>>
          /\ z = 3 => Stream!Following(<<n, 3>>) = <<n + 1, 1>>
      <4>1. Stream!Following(<<n, 1>>) = IF 1 < z THEN <<n, 2>> ELSE <<n + 1, 1>>
        BY <2>2 DEF Stream!Following
      <4>2. Stream!Following(<<n, 2>>) = IF 2 < z THEN <<n, 3>> ELSE <<n + 1, 1>>
        BY <2>2 DEF Stream!Following
      <4>3. Stream!Following(<<n, 3>>) = IF 3 < z THEN <<n, 4>> ELSE <<n + 1, 1>>
        BY <2>2 DEF Stream!Following
      <4> QED BY <4>1, <4>2, <4>3, <2>3
    <3>2. W[2] = <<n, 2>>
      <4>1. W[1 + 1] = Stream!Following(W[1])
        BY <3>0, <1>1
      <4> QED BY <4>1, <3>1, <2>3
    <3>3. W[3] = Stream!Following(<<n, 2>>)
      <4>1. W[2 + 1] = Stream!Following(W[2])
        BY <3>0, <1>1
      <4> QED BY <4>1, <3>2
    <3>4. z = 3 => W[4] = Stream!Following(W[3])
      <4>1. z = 3 => W[3 + 1] = Stream!Following(W[3])
        BY <3>0, <1>1
      <4> QED BY <4>1
    <3>5. CASE z = 2
      BY <3>1, <3>3, <3>5
    <3>6. CASE z = 3
      <4>1. W[3] = <<n, 3>>
        BY <3>1, <3>3, <3>6
      <4>2. W[4] = <<n + 1, 1>>
        BY <4>1, <3>1, <3>4, <3>6
      <4> QED BY <4>2, <3>6
    <3> QED BY <3>5, <3>6, <2>3
  <2>8. V[1] = <<n + 1, 1>>
    BY <2>3, <2>5, <2>6, <2>7, <1>0
  <2>9. ASSUME NEW k \in 1 .. Len(u) - z
        PROVE  V[k][1] \in 1 .. Len(issued) /\ V[k + 1] = Stream!Following(V[k])
    <3>1. k + z \in 1 .. Len(u) /\ V[k] = W[k + z] /\ V[k + 1] = W[(k + z) + 1]
      BY <2>3, <2>6, <1>0
    <3> QED BY <3>1, <1>1
  <2>10. Len(ran'[w]) + 1 = n + 1
    BY <1>6, <1>0, <2>1, <2>3
  <2>11. Append(OnItsWay(w), Stream!toWrite)' = V /\ Len(OnItsWay(w))' = Len(u) - z
    BY <1>6, <2>1, <2>2, <2>4, <2>6
  <2>12. \A k \in 1 .. Len(u) - z :
          V[k][1] \in 1 .. Len(issued') /\ V[k + 1] = Stream!Following(V[k])'
    BY <2>9, <1>6 DEF Stream!Following
  <2> QED BY <2>8, <2>10, <2>11, <2>12 DEF WholeFor, Stream!Following
<1> QED BY <1>4, <1>5, <1>6, StreamSteps DEF u, t

(* The load balancers.                                                     *)

LEMMA UsesOne ==
  ASSUME NEW n \in Nat, NEW b, NEW c, Uses(b, n), Uses(c, n) PROVE b = c
<1>1. ASSUME NEW x, NEW i \in 1 .. n, issued[i] \in Stream!Balancers,
             Uses(x, n)
      PROVE  \E j \in 1 .. n : /\ issued[j] = x /\ x \in Stream!Balancers
                               /\ \A k \in j + 1 .. n : issued[k] \notin Stream!Balancers
  BY <1>1 DEF Uses
<1>2. CASE \A i \in 1 .. n : issued[i] \notin Stream!Balancers
  BY <1>2 DEF Uses
<1>3. ASSUME NEW i \in 1 .. n, issued[i] \in Stream!Balancers PROVE b = c
  <2>1. PICK j \in 1 .. n : /\ issued[j] = b /\ b \in Stream!Balancers
                            /\ \A k \in j + 1 .. n : issued[k] \notin Stream!Balancers
    BY <1>1, <1>3
  <2>2. PICK m \in 1 .. n : /\ issued[m] = c /\ c \in Stream!Balancers
                            /\ \A k \in m + 1 .. n : issued[k] \notin Stream!Balancers
    BY <1>1, <1>3
  <2>3. j \notin m + 1 .. n /\ m \notin j + 1 .. n
    BY <2>1, <2>2
  <2>4. j = m
    BY <2>3
  <2> QED BY <2>1, <2>2, <2>4
<1> QED BY <1>2, <1>3

LEMMA UsesNext ==
  ASSUME NEW n \in Nat, NEW b, Uses(b, n)
  PROVE  Uses(IF issued[n + 1] \in Stream!Balancers THEN issued[n + 1] ELSE b, n + 1)
<1>1. CASE issued[n + 1] \in Stream!Balancers
  <2>1. n + 1 \in 1 .. n + 1 /\ \A j \in (n + 1) + 1 .. n + 1 : issued[j] \notin Stream!Balancers
    OBVIOUS
  <2> QED BY <1>1, <2>1 DEF Uses
<1>2. CASE issued[n + 1] \notin Stream!Balancers
  <2>1. \A i \in 1 .. n + 1 : i \in 1 .. n \/ i = n + 1
    OBVIOUS
  <2>2. CASE b = "none" /\ \A i \in 1 .. n : issued[i] \notin Stream!Balancers
    BY <1>2, <2>1, <2>2 DEF Uses
  <2>3. ASSUME NEW i \in 1 .. n, issued[i] = b, b \in Stream!Balancers,
               \A j \in i + 1 .. n : issued[j] \notin Stream!Balancers
        PROVE  Uses(b, n + 1)
    <3>1. i \in 1 .. n + 1 /\ \A j \in i + 1 .. n + 1 : j \in i + 1 .. n \/ j = n + 1
      OBVIOUS
    <3> QED BY <1>2, <2>3, <3>1 DEF Uses
  <2> QED BY <1>2, <2>2, <2>3 DEF Uses
<1> QED BY <1>1, <1>2

LEMMA UsesKept ==
  ASSUME StreamInv, Stream!Next, NEW n \in Nat, n <= Len(issued), NEW b, Uses(b, n)
  PROVE  Uses(b, n)'
<1>1. \A i \in 1 .. n : issued'[i] = issued[i]
  BY WorksKept DEF StreamInv, StreamTypes
<1>2. \A i \in 1 .. n : \A j \in i + 1 .. n : j \in 1 .. n
  OBVIOUS
<1> QED BY <1>1, <1>2 DEF Uses

LEMMA BalancerKept == ASSUME StreamInv, Stream!Next PROVE BalancerInv'
<1>0. /\ BalancerInv /\ MasterInv /\ issued \in Seq(Stream!Kinds) /\ ran \in [Worker -> Seq(Stream!Kinds)]
      /\ balancer \in [Worker \cup {"master"} -> Stream!Balancers \cup {"none"}]
      /\ Len(issued) \in Nat
  BY DEF StreamInv, StreamTypes
<1>1. ASSUME NEW w \in Worker PROVE Uses(balancer[w], Len(ran[w]))'
  <2>1. /\ Len(ran[w]) \in Nat /\ Len(ran[w]) <= Len(issued)
        /\ Uses(balancer[w], Len(ran[w]))
    BY <1>0 DEF StreamInv, RanInOrder, BalancerInv
  <2>2. CASE Stream!ReadWork(w)
    <3>1. /\ issued' = issued /\ Len(ran'[w]) = Len(ran[w]) + 1
          /\ have[w][1][1] = Len(ran[w]) + 1
      <4>1. /\ issued' = issued /\ have[w][1][1] = Len(ran[w]) + 1
            /\ ran'[w] = Append(ran[w], issued[Len(ran[w]) + 1])
        <5>1. have[w] # <<>>
          BY <2>2 DEF Stream!ReadWork, Stream!HasItem
        <5>2. have[w][1][1] = Len(ran[w]) + 1
          BY <5>1, HeadWork
        <5> QED BY <2>2, <5>2, <1>0 DEF Stream!ReadWork, Stream!masterVars
      <4> QED BY <4>1, <2>1, <1>0
    <3>2. balancer'[w] = IF issued[Len(ran[w]) + 1] \in Stream!Balancers
                           THEN issued[Len(ran[w]) + 1] ELSE balancer[w]
      BY <2>2, <3>1, <1>0 DEF Stream!ReadWork
    <3>3. PICK n : n = Len(ran[w])
      OBVIOUS
    <3>4. PICK b : b = IF issued[n + 1] \in Stream!Balancers THEN issued[n + 1] ELSE balancer[w]
      OBVIOUS
    <3>5. Uses(b, n + 1)
      BY <2>1, <3>3, <3>4, UsesNext
    <3>6. Uses(b, n + 1)'
      BY <3>1, <3>5 DEF Uses
    <3>7. balancer'[w] = b /\ Len(ran'[w]) = n + 1
      BY <3>1, <3>2, <3>3, <3>4
    <3> QED BY <3>6, <3>7
  <2>3. CASE ~Stream!ReadWork(w)
    <3>1. ran'[w] = ran[w]
      BY <2>3, RunKept
    <3>2. balancer'[w] = balancer[w]
      <4>1. ASSUME NEW v \in Worker, v # w, Stream!ReadWork(v) PROVE balancer'[w] = balancer[w]
        BY <1>0, <4>1 DEF Stream!ReadWork
      <4>2. CASE Stream!RunOnMaster
        BY <1>0, <4>2, WorkersAssumption DEF Stream!RunOnMaster
      <4> QED BY <2>3, <4>1, <4>2 DEF Stream!Next, Stream!InCall, Stream!Collective, Stream!Work,
            Stream!CommitDevice, Stream!Call, Stream!ReplaceStream, Stream!WorldBarrier, Stream!Written,
            Stream!Write, Stream!Broadcast, Stream!ReceivePick, Stream!PickBarrier, Stream!SendPick
    <3>3. PICK n, b : n = Len(ran[w]) /\ b = balancer[w]
      OBVIOUS
    <3>4. Uses(b, n)'
      BY <2>1, <3>3, UsesKept
    <3> QED BY <3>1, <3>2, <3>3, <3>4
  <2> QED BY <2>2, <2>3
<1>2. Uses(balancer["master"], RunOnMasterUpTo)
  BY <1>0 DEF BalancerInv
<1>3. Uses(balancer["master"], RunOnMasterUpTo)'
  <2>1. CASE Stream!RunOnMaster
    <3>1. PICK n : n = Len(issued) - 1
      OBVIOUS
    <3>2. n \in Nat /\ n + 1 = Len(issued) /\ Uses(balancer["master"], n)
      BY <1>0, <1>2, <2>1, <3>1 DEF Stream!RunOnMaster, RunOnMasterUpTo, MasterInv, Open
    <3>3. balancer'["master"] = IF issued[n + 1] \in Stream!Balancers THEN issued[n + 1]
                                ELSE balancer["master"]
      BY <1>0, <2>1, <3>2 DEF Stream!RunOnMaster, Stream!work
    <3>4. PICK b : b = IF issued[n + 1] \in Stream!Balancers THEN issued[n + 1]
                       ELSE balancer["master"]
      OBVIOUS
    <3>5. Uses(b, n + 1)
      BY <3>2, <3>4, UsesNext
    <3>6. issued' = issued /\ RunOnMasterUpTo' = n + 1
      BY <2>1, <3>2 DEF Stream!RunOnMaster, RunOnMasterUpTo
    <3>7. Uses(b, n + 1)'
      BY <3>5, <3>6 DEF Uses
    <3> QED BY <3>3, <3>4, <3>6, <3>7
  <2>2. CASE ~Stream!RunOnMaster
    <3>1. balancer'["master"] = balancer["master"]
      <4>1. ASSUME NEW v \in Worker, Stream!ReadWork(v) PROVE balancer'["master"] = balancer["master"]
        BY <1>0, <4>1, WorkersAssumption DEF Stream!ReadWork
      <4> QED BY <2>2, <4>1 DEF Stream!Next, Stream!InCall, Stream!Collective, Stream!Work,
            Stream!CommitDevice, Stream!Call, Stream!ReplaceStream, Stream!WorldBarrier, Stream!Written,
            Stream!Write, Stream!Broadcast, Stream!ReceivePick, Stream!PickBarrier, Stream!SendPick
    <3>2. RunOnMasterUpTo' = RunOnMasterUpTo
      <4>1. CASE issued' # issued
        <5>1. /\ master \in {"idle", "replace"} /\ master' = "write" /\ Len(issued') = Len(issued) + 1
          BY <4>1, WorksKept DEF Stream!Begin
        <5> QED BY <5>1, <1>0 DEF RunOnMasterUpTo
      <4>2. CASE issued' = issued
        <5>1. master' = master \/ ({master, master'} \subseteq {"write", "send", "run"})
                \/ {master, master'} \cap {"write", "send", "run"} = {}
          <6>1. CASE Stream!ReplaceStream \/ \E k \in Stream!Kinds \ Stream!Balancers : Stream!Call(k)
            <7>1. PICK k \in Stream!Kinds : Stream!Begin(k)
              BY <6>1 DEF Stream!ReplaceStream, Stream!Call, Stream!Kinds
            <7>2. issued' = Append(issued, k)
              BY <7>1 DEF Stream!Begin
            <7>3. Len(issued') = Len(issued) + 1
              BY <7>2, <1>0
            <7> QED BY <4>2, <7>3, <1>0
          <6> QED BY <2>2, <6>1 DEF Stream!Next, Stream!InCall, Stream!Collective, Stream!Work,
              Stream!CommitDevice, Stream!WorldBarrier, Stream!Written, Stream!ReadWork,
              Stream!Write, Stream!Broadcast, Stream!ReceivePick, Stream!PickBarrier, Stream!SendPick,
              Stream!masterVars
        <5> QED BY <4>2, <5>1 DEF RunOnMasterUpTo
      <4> QED BY <4>1, <4>2
    <3>3. RunOnMasterUpTo \in Nat /\ RunOnMasterUpTo <= Len(issued)
      BY <1>0 DEF RunOnMasterUpTo, MasterInv, Open
    <3>4. PICK n, b : n = RunOnMasterUpTo /\ b = balancer["master"]
      OBVIOUS
    <3>5. Uses(b, n)'
      BY <1>2, <3>3, <3>4, UsesKept
    <3> QED BY <3>1, <3>2, <3>4, <3>5
  <2> QED BY <2>1, <2>2
<1> QED BY <1>1, <1>3 DEF BalancerInv

-----------------------------------------------------------------------------
(* The theorems about the stream.                                          *)

LEMMA StreamKept == ASSUME StreamInv, Stream!Next PROVE StreamInv'
<1>1. \A w \in Worker : WholeFor(w)' /\ RanInOrder(w)' /\ AtBarrier(w)'
  BY WholeKept, InOrderKept, AtBarrierKept
<1> QED BY <1>1, StreamTypesKept, MasterKept, WaitedKept, AtPickKept, BalancerKept DEF StreamInv

LEMMA StreamStutter == ASSUME StreamInv, UNCHANGED streamVars PROVE StreamInv'
<1> USE DEF streamVars
<1>1. StreamTypes' /\ MasterInv'
  BY DEF StreamInv, StreamTypes, MasterInv, Stream!work
<1>4. Waited'
  <2>1. ASSUME NEW k PROVE (Stream!Service!Needed(k))' = Stream!Service!Needed(k)
    BY DEF Stream!Service!Needed
  <2> QED BY <2>1 DEF StreamInv, Waited
<1>2. ASSUME NEW w \in Worker PROVE WholeFor(w)' /\ RanInOrder(w)' /\ AtBarrier(w)'
  <2>1. RanInOrder(w)' /\ AtBarrier(w)'
    BY DEF StreamInv, RanInOrder, AtBarrier, Stream!work
  <2>2. OnItsWay(w)' = OnItsWay(w) /\ Stream!toWrite' = Stream!toWrite
    BY DEF OnItsWay, Stream!toWrite, Stream!work, Stream!Size
  <2>3. WholeFor(w)
    BY DEF StreamInv
  <2>4. WholeFor(w)'
    BY <2>2, <2>3 DEF WholeFor, Stream!Following
  <2> QED BY <2>1, <2>4
<1>3. AtPick' /\ BalancerInv'
  BY DEF StreamInv, AtPick, Stream!work, BalancerInv, Uses, RunOnMasterUpTo
<1> QED BY <1>1, <1>2, <1>3, <1>4 DEF StreamInv

LEMMA OffloadSteps ==
  ASSUME [OffloadNext]_<<part, vars, streamVars, objectVars>>
  PROVE  Stream!Next \/ UNCHANGED streamVars
BY DEF OffloadNext

LEMMA StreamInvariance == OffloadSpec => []StreamInv
<1>1. OffloadInit => StreamInv
  BY StreamStart DEF OffloadInit
<1>2. StreamInv /\ [OffloadNext]_<<part, vars, streamVars, objectVars>> => StreamInv'
  BY OffloadSteps, StreamKept, StreamStutter
<1> QED BY <1>1, <1>2, PTL DEF OffloadSpec

\* Whatever the sizes of buffers and works, every worker has got a prefix of
\* what was written: what is with it or in the buffer continues, unit by unit,
\* what it has run (BufferedWriteStream::write, BufferedReadStream::read).
THEOREM StreamStaysWhole == OffloadSpec => []StreamIsWhole
<1>1. ASSUME StreamInv PROVE StreamIsWhole
  <2>1. Stream!TypeOK
    <3>1. pick \in 0 .. 1
      BY <1>1 DEF StreamInv, StreamTypes, AtPick
    <3> QED BY <1>1, <3>1 DEF StreamInv, StreamTypes, MasterInv, Stream!TypeOK, Open
  <2>2. ASSUME NEW w \in Worker
        PROVE  LET units == Append(have[w] \o buffer, Stream!toWrite)
               IN /\ units[1] = <<Len(ran[w]) + 1, 1>>
                  /\ \A k \in 1 .. Len(units) - 1 : units[k + 1] = Stream!Following(units[k])
    <3>1. WholeFor(w) /\ have[w] \in Units /\ buffer \in Units
      BY <1>1 DEF StreamInv, StreamTypes
    <3>2. Stream!toWrite \in Nat \X Nat
      BY <1>1, NextUnit DEF StreamInv
    <3>3. /\ Len(Append(have[w] \o buffer, Stream!toWrite)) = Len(have[w] \o buffer) + 1
          /\ have[w] \o buffer \in Units
      BY <3>1, <3>2, Extended
    <3>4. Len(Append(have[w] \o buffer, Stream!toWrite)) - 1 = Len(have[w] \o buffer)
      BY <3>3 DEF Units
    <3> QED BY <3>1, <3>4 DEF WholeFor, OnItsWay
  <2> QED BY <2>1, <2>2 DEF StreamIsWhole, Stream!StreamIsWhole
<1> QED BY <1>1, StreamInvariance, PTL

\* All ranks of a frame use the same load balancer, although the master
\* replaces its own when it makes the call and a worker when it comes to the
\* work (SetLoadBalancer::run, MPIOffloadDevice::commit).
THEOREM BalancersAgree == OffloadSpec => []SameBalancer
<1>1. ASSUME StreamInv PROVE SameBalancer
  <2>1. SUFFICES ASSUME master = "barrier", \A w \in Worker : at[w] = "barrier"
                 PROVE  \A q, r \in DOMAIN balancer : balancer[q] = balancer[r]
    BY DEF SameBalancer, Stream!SameBalancer
  <2>2. DOMAIN balancer = Worker \cup {"master"} /\ Len(issued) \in Nat
    BY <1>1 DEF StreamInv, StreamTypes
  <2>3. \A w \in Worker : Uses(balancer[w], Len(issued))
    BY <1>1, <2>1 DEF StreamInv, AtBarrier, BalancerInv
  <2>4. Uses(balancer["master"], Len(issued))
    BY <1>1, <2>1 DEF StreamInv, BalancerInv, RunOnMasterUpTo
  <2>5. \A w \in Worker : balancer[w] = balancer["master"]
    BY <2>2, <2>3, <2>4, UsesOne
  <2> QED BY <2>2, <2>5
<1> QED BY <1>1, StreamInvariance, PTL

\* The application and the workers see the calls in order, each once, and a
\* call with a result when those that compute it have come to it.
THEOREM StreamImplementsService == OffloadSpec => StreamImplements
<1> DEFINE open == master \in {"write", "send", "run", "recv", "barrier"}
<1>1. OffloadInit => Stream!Service!Init
  BY DEF OffloadInit, Stream!Init, Stream!Service!Init
<1>2. ASSUME StreamInv, Stream!Next
      PROVE  [Stream!Service!Next]_<<issued, ran, open>>
  <2>0. ran \in [Worker -> Seq(Stream!Kinds)]
    BY <1>2 DEF StreamInv, StreamTypes
  <2>1. CASE issued' # issued
    <3>1. PICK k \in Stream!Kinds : /\ Stream!Begin(k) /\ master \in {"idle", "replace"}
                                    /\ ran' = ran
      BY <1>2, <2>1, WorksKept
    <3>2. ~open /\ open' /\ issued' = Append(issued, k)
      BY <3>1 DEF Stream!Begin
    <3>3. k \in {"plain", "static", "dynamic", "module", "render", "pick", "final"}
      BY DEF Stream!Kinds, Stream!Balancers
    <3> QED BY <3>1, <3>2, <3>3 DEF Stream!Service!Call, Stream!Service!Next
  <2>2. ASSUME NEW w \in Worker, ran'[w] # ran[w]
        PROVE  [Stream!Service!Next]_<<issued, ran, open>>
    <3>1. /\ Stream!ReadWork(w) /\ issued' = issued /\ Len(ran[w]) + 1 \in 1 .. Len(issued)
          /\ have[w][1][1] = Len(ran[w]) + 1
      BY <1>2, <2>2, RunKept
    <3>2. /\ ran' = [ran EXCEPT ![w] = Append(@, issued[Len(@) + 1])] /\ open' = open
      BY <2>0, <3>1 DEF Stream!ReadWork, Stream!masterVars
    <3>3. Len(ran[w]) < Len(issued)
      <4>1. Len(ran[w]) \in Nat /\ Len(issued) \in Nat
        BY <1>2, <2>0 DEF StreamInv, StreamTypes
      <4> QED BY <3>1, <4>1
    <3>4. Stream!Service!Carry(w)
      BY <3>1, <3>2, <3>3 DEF Stream!Service!Carry
    <3> QED BY <3>4 DEF Stream!Service!Next
  <2>3. CASE issued' = issued /\ ran' = ran
    <3>1. CASE open /\ ~open'
      <4>1. \A w \in Stream!Service!Needed(issued[Len(issued)]) : Len(ran[w]) = Len(issued)
        BY <1>2, <3>1, ReturnedWaited DEF Open, Stream!work
      <4>2. Stream!Service!Return
        BY <4>1, <3>1, <2>3 DEF Stream!Service!Return
      <4> QED BY <4>2 DEF Stream!Service!Next
    <3>2. CASE ~open /\ open'
      <4>1. PICK k \in Stream!Kinds : Stream!Begin(k)
        BY <1>2, <3>2 DEF Stream!Next, Stream!InCall, Stream!Collective, Stream!Work,
            Stream!CommitDevice, Stream!Call, Stream!ReplaceStream, Stream!WorldBarrier, Stream!Written,
            Stream!Write, Stream!RunOnMaster, Stream!Broadcast, Stream!ReceivePick, Stream!PickBarrier,
            Stream!ReadWork, Stream!SendPick, Stream!masterVars, Stream!Kinds
      <4>2. issued' = Append(issued, k) /\ issued \in Seq(Stream!Kinds)
        BY <4>1, <1>2 DEF Stream!Begin, StreamInv, StreamTypes
      <4>3. Len(issued') = Len(issued) + 1 /\ Len(issued) \in Nat
        BY <4>2
      <4> QED BY <4>3, <2>3
    <3>3. CASE open' = open
      BY <2>3, <3>3
    <3> QED BY <3>1, <3>2, <3>3
  <2>4. CASE ran' # ran
    <3>1. \E w \in Worker : ran'[w] # ran[w]
      <4>1. ran' \in [Worker -> Seq(Stream!Kinds)]
        BY <1>2, StreamTypesKept DEF StreamTypes
      <4> QED BY <2>0, <2>4, <4>1
    <3> QED BY <2>2, <3>1
  <2> QED BY <2>1, <2>3, <2>4
<1>3. UNCHANGED streamVars => UNCHANGED <<issued, ran, open>>
  BY DEF streamVars
<1>4. StreamInv /\ [OffloadNext]_<<part, vars, streamVars, objectVars>>
        => [Stream!Service!Next]_<<issued, ran, open>>
  BY <1>2, <1>3, OffloadSteps
<1> QED BY <1>1, <1>4, StreamInvariance, PTL
        DEF OffloadSpec, StreamImplements, Stream!Service!Spec

-----------------------------------------------------------------------------
(* The objects.  The inductive invariant is ObjectInv: every count is what *)
(* the application and the leaks hold of an object, and how often other    *)
(* objects refer to it.  RefDecs is recursive: what holds after it is what *)
(* one refDec() keeps (RefDecsEnd), since each takes one reference from    *)
(* the heap and the list of what is to be given back.                      *)

\* Lists of objects, heaps with what is to be given back, and the record of
\* an object that does not exist.
Lists == Seq(Objects!Object)
Pairs == Objects!Heap \X Lists
Dead == [count |-> 0, param |-> None, list |-> <<>>]

\* one refDec() of RefDecs
Dec(p) ==
  LET h == p[1]  o == Head(p[2])
  IN IF h[o].count > 1
       THEN <<[h EXCEPT ![o].count = @ - 1], Tail(p[2])>>
       ELSE <<[h EXCEPT ![o] = Dead], Objects!Counted(h, o) \o Tail(p[2])>>

\* What is in a heap, and in a pair of a heap and what is to be given back.
LEMMA HeapTypes ==
  /\ <<>> \in Lists
  /\ \A p \in Pairs : p = <<p[1], p[2]>> /\ p[1] \in Objects!Heap /\ p[2] \in Lists
  /\ \A h \in Objects!Heap, o \in Objects!Object :
       /\ h[o].count \in Nat /\ h[o].param \in Objects!Object \cup {None, Plain, Null} /\ h[o].list \in Lists
       /\ h[o] = [count |-> h[o].count, param |-> h[o].param, list |-> h[o].list]
BY DEF Lists, Pairs, Objects!Heap

Records == [count : Nat, param : Objects!Object \cup {None, Plain, Null}, list : Lists]

\* A heap with another record for one object.
LEMMA HeapChanged ==
  ASSUME NEW h \in Objects!Heap, NEW o \in Objects!Object, NEW r \in Records
  PROVE  /\ [h EXCEPT ![o] = r] \in Objects!Heap
         /\ \A x \in Objects!Object : [h EXCEPT ![o] = r][x] = IF x = o THEN r ELSE h[x]
<1>1. Objects!Heap = [Objects!Object -> Records]
  BY DEF Objects!Heap, Records, Lists
<1> QED BY <1>1

\* The records of a heap.
LEMMA Changes ==
  /\ Dead \in Records
  /\ \A r \in Records : /\ r.count \in Nat /\ r.param \in Objects!Object \cup {None, Plain, Null} /\ r.list \in Lists
                         /\ r = [count |-> r.count, param |-> r.param, list |-> r.list]
  /\ \A c \in Nat, v \in Objects!Object \cup {None, Plain, Null}, l \in Lists :
       [count |-> c, param |-> v, list |-> l] \in Records
  /\ \A h \in Objects!Heap, o \in Objects!Object : h[o] \in Records
<1>1. Objects!Heap = [Objects!Object -> Records]
  BY DEF Objects!Heap, Records, Lists
<1> QED BY <1>1, HeapTypes DEF Records, Dead

\* 1 if two objects are the same, else 0.
Same(x, y) == IF x = y THEN 1 ELSE 0

\* Same is a number, and what the counting of the messages calls Holds.
LEMMA SameIs ==
  /\ \A x, y : Same(x, y) \in Nat /\ Same(x, y) = Same(y, x)
  /\ \A x, y : (x = y => Same(x, y) = 1) /\ (x # y => Same(x, y) = 0)
  /\ \A x, y : Holds(x = y) = Same(x, y)
BY DEF Same, Holds

\* refDec() of an object that stays.
LEMMA OneLess ==
  ASSUME NEW h \in Objects!Heap, NEW o \in Objects!Object, h[o].count > 0
  PROVE  /\ [h EXCEPT ![o].count = @ - 1] \in Objects!Heap
         /\ \A x \in Objects!Object :
              /\ [h EXCEPT ![o].count = @ - 1][x].count = h[x].count - Same(x, o)
              /\ [h EXCEPT ![o].count = @ - 1][x].param = h[x].param
              /\ [h EXCEPT ![o].count = @ - 1][x].list = h[x].list
<1> DEFINE r == [count |-> h[o].count - 1, param |-> h[o].param, list |-> h[o].list]
<1>1. r \in Records /\ \A x \in Objects!Object : h[x] \in Records /\ h[x].count \in Nat
  <2>1. h[o].count - 1 \in Nat /\ h[o].count \in Nat /\ h[o] \in Records
    BY Changes, HeapTypes
  <2>2. r \in Records
    BY <2>1, Changes
  <2> QED BY <2>2, Changes
<1>2. [h EXCEPT ![o].count = @ - 1] = [h EXCEPT ![o] = r]
  <2>1. h[o] \in Records
    BY Changes
  <2>2. [h[o] EXCEPT !.count = h[o].count - 1] = r
    BY <2>1 DEF Records
  <2>3. [h EXCEPT ![o].count = @ - 1] = [h EXCEPT ![o] = [h[o] EXCEPT !.count = h[o].count - 1]]
    BY DEF Objects!Heap
  <2> HIDE DEF r
  <2> QED BY <2>2, <2>3
<1>3. /\ [h EXCEPT ![o] = r] \in Objects!Heap
      /\ \A x \in Objects!Object : [h EXCEPT ![o] = r][x] = IF x = o THEN r ELSE h[x]
  BY <1>1, HeapChanged
<1> QED BY <1>1, <1>2, <1>3 DEF Same

\* What an object refers to is a list of objects.
LEMMA CountedTypes ==
  ASSUME NEW h \in Objects!Heap, NEW o \in Objects!Object
  PROVE  Objects!Counted(h, o) \in Lists
<1>1. h[o].list \in Lists /\ h[o].param \in Objects!Object => <<h[o].param>> \in Lists
  BY HeapTypes DEF Lists
<1>2. <<>> \in Lists
  BY HeapTypes
<1>3. \A s, t \in Lists : s \o t \in Lists
  BY DEF Lists
<1> QED BY <1>1, <1>2, <1>3, HeapTypes DEF Objects!Counted

\* An object without a parameter and with an empty list refers to nothing.
LEMMA DeadCounts ==
  ASSUME NEW h \in Objects!Heap, NEW o \in Objects!Object, h[o].param = None, h[o].list = <<>>
  PROVE  Objects!Counted(h, o) = <<>>
<1>1. None \notin Objects!Object
  BY NoneAssumption
<1>2. <<>> \o <<>> = <<>>
  BY ConcatEmptySeq
<1> QED BY <1>1, <1>2 DEF Objects!Counted

\* A refDec() of a heap is a heap.
LEMMA DecTypes == ASSUME NEW p \in Pairs, p[2] # <<>> PROVE Dec(p) \in Pairs
<1> DEFINE o == Head(p[2])
<1>1. o \in Objects!Object /\ Tail(p[2]) \in Lists /\ p[1] \in Objects!Heap
  BY HeapTypes DEF Lists
<1>2. Objects!Counted(p[1], o) \o Tail(p[2]) \in Lists
  BY <1>1, CountedTypes DEF Lists
<1>3. [p[1] EXCEPT ![o].count = @ - 1] \in Objects!Heap \/ ~(p[1][o].count > 1)
  <2>0. p[1][o].count \in Nat
    BY <1>1, HeapTypes
  <2> HIDE DEF o
  <2>1. p[1][o].count > 1 => p[1][o].count > 0
    BY <2>0
  <2> QED BY <1>1, <2>1, OneLess
<1>4. [p[1] EXCEPT ![o] = Dead] \in Objects!Heap
  BY <1>1, HeapChanged, Changes
<1> QED BY <1>1, <1>2, <1>3, <1>4 DEF Dec, Pairs

Path(n, s, p, h) ==
  /\ s \in [0 .. n -> Pairs]
  /\ s[0] = p /\ s[n] = <<h, <<>>>>
  /\ \A i \in 0 .. n - 1 : s[i][2] # <<>> /\ s[i + 1] = Dec(s[i])
Ends(p) == {h \in Objects!Heap : \E n \in Nat : \E s : Path(n, s, p, h)}
One(S) == CHOOSE h : h \in S

\* Where nothing is to be given back the heap is the end.
LEMMA EndsStay == ASSUME NEW p \in Pairs, p[2] = <<>> PROVE Ends(p) = {p[1]}
<1>1. ASSUME NEW h \in Ends(p) PROVE h = p[1]
  <2>0. PICK n \in Nat : \E s : Path(n, s, p, h)
    BY <1>1 DEF Ends
  <2>9. PICK s : Path(n, s, p, h)
    BY <2>0
  <2>1. /\ s \in [0 .. n -> Pairs] /\ s[0] = p /\ s[n] = <<h, <<>>>>
        /\ \A i \in 0 .. n - 1 : s[i][2] # <<>> /\ s[i + 1] = Dec(s[i])
    BY <2>9 DEF Path
  <2>2. n = 0
    <3>1. n # 0 => 0 \in 0 .. n - 1
      OBVIOUS
    <3> QED BY <2>1, <3>1
  <2> QED BY <2>1, <2>2
<1>2. p[1] \in Ends(p)
  <2>1. p[1] \in Objects!Heap /\ p = <<p[1], <<>>>>
    BY HeapTypes
  <2>2. [i \in 0 .. 0 |-> p] \in [0 .. 0 -> Pairs]
    OBVIOUS
  <2>3. \A i \in 0 .. 0 - 1 : FALSE
    OBVIOUS
  <2> DEFINE s == [i \in 0 .. 0 |-> p]
  <2>4. s[0] = p
    OBVIOUS
  <2> HIDE DEF s
  <2>5. \E n \in Nat : \E t : Path(n, t, p, p[1])
    <3>1. s \in [0 .. 0 -> Pairs] /\ 0 \in Nat
      BY <2>2 DEF s
    <3>2. s[0] = p /\ s[0] = <<p[1], <<>>>>
      BY <2>1, <2>4
    <3> QED BY <2>3, <3>1, <3>2 DEF Path
  <2> QED BY <2>1, <2>5 DEF Ends
<1> QED BY <1>1, <1>2

\* One refDec() leads to the same ends.
LEMMA EndsStep == ASSUME NEW p \in Pairs, p[2] # <<>> PROVE Ends(p) = Ends(Dec(p))
<1>1. ASSUME NEW h \in Ends(p) PROVE h \in Ends(Dec(p))
  <2>0. PICK n \in Nat : \E s : Path(n, s, p, h)
    BY <1>1 DEF Ends
  <2>9. PICK s : Path(n, s, p, h)
    BY <2>0
  <2>1. /\ s \in [0 .. n -> Pairs] /\ s[0] = p /\ s[n] = <<h, <<>>>>
        /\ \A i \in 0 .. n - 1 : s[i][2] # <<>> /\ s[i + 1] = Dec(s[i])
    BY <2>9 DEF Path
  <2>2. n # 0
    BY <2>1
  <2> DEFINE t == [i \in 0 .. n - 1 |-> s[i + 1]]
  <2>3. t \in [0 .. n - 1 -> Pairs] /\ n - 1 \in Nat
    BY <2>1, <2>2
  <2>4. t[0] = Dec(p) /\ t[n - 1] = <<h, <<>>>>
    BY <2>1, <2>2
  <2>5. ASSUME NEW i \in 0 .. (n - 1) - 1 PROVE t[i][2] # <<>> /\ t[i + 1] = Dec(t[i])
    <3>1. t[i] = s[i + 1] /\ t[i + 1] = s[(i + 1) + 1] /\ i + 1 \in 0 .. n - 1
      OBVIOUS
    <3> QED BY <2>1, <3>1
  <2> HIDE DEF t
  <2>6. \E m \in Nat : \E u : Path(m, u, Dec(p), h)
    BY <2>3, <2>4, <2>5 DEF Path
  <2> QED BY <1>1, <2>6 DEF Ends
<1>2. ASSUME NEW h \in Ends(Dec(p)) PROVE h \in Ends(p)
  <2>0. PICK n \in Nat : \E s : Path(n, s, Dec(p), h)
    BY <1>2 DEF Ends
  <2>9. PICK s : Path(n, s, Dec(p), h)
    BY <2>0
  <2>1. /\ s \in [0 .. n -> Pairs] /\ s[0] = Dec(p) /\ s[n] = <<h, <<>>>>
        /\ \A i \in 0 .. n - 1 : s[i][2] # <<>> /\ s[i + 1] = Dec(s[i])
    BY <2>9 DEF Path
  <2> DEFINE t == [i \in 0 .. n + 1 |-> IF i = 0 THEN p ELSE s[i - 1]]
  <2>3. t \in [0 .. n + 1 -> Pairs] /\ n + 1 \in Nat
    BY <2>1
  <2>4. t[0] = p /\ t[n + 1] = <<h, <<>>>>
    BY <2>1
  <2>5. ASSUME NEW i \in 0 .. (n + 1) - 1 PROVE t[i][2] # <<>> /\ t[i + 1] = Dec(t[i])
    <3>1. t[i + 1] = s[i]
      OBVIOUS
    <3>2. CASE i = 0
      BY <2>1, <2>4, <3>1, <3>2
    <3>3. CASE i # 0
      <4>1. t[i] = s[i - 1] /\ i - 1 \in 0 .. n - 1 /\ (i - 1) + 1 = i
        BY <3>3
      <4> QED BY <2>1, <3>1, <4>1
    <3> QED BY <3>2, <3>3
  <2> HIDE DEF t
  <2>6. \E m \in Nat : \E u : Path(m, u, p, h)
    BY <2>3, <2>4, <2>5 DEF Path
  <2> QED BY <1>2, <2>6 DEF Ends
<1> QED BY <1>1, <1>2

\* RefDecs is what its definition says: a function that solves the equation exists,
\* since from every pair the steps lead to one end at most.
LEMMA RefDecsUnfold ==
  ASSUME NEW p \in Pairs
  PROVE  Objects!RefDecs[p] = IF p[2] = <<>> THEN p[1] ELSE Objects!RefDecs[Dec(p)]
<1> DEFINE body(f) == [q \in Pairs |-> IF q[2] = <<>> THEN q[1] ELSE f[Dec(q)]]
           F == [q \in Pairs |-> One(Ends(q))]
<1>1. F = body(F)
  <2>1. ASSUME NEW q \in Pairs PROVE One(Ends(q)) = body(F)[q]
    <3>1. CASE q[2] = <<>>
      <4>1. One(Ends(q)) = q[1]
        BY <3>1, EndsStay DEF One
      <4> QED BY <3>1, <4>1
    <3>2. CASE q[2] # <<>>
      <4>1. Dec(q) \in Pairs /\ Ends(q) = Ends(Dec(q))
        BY <3>2, DecTypes, EndsStep
      <4> QED BY <3>2, <4>1
    <3> QED BY <3>1, <3>2
  <2> QED BY <2>1
<1>2. Objects!RefDecs = CHOOSE f : f = body(f)
  BY DEF Objects!RefDecs, Dec, Dead, Pairs, Lists
<1> HIDE DEF F, body
<1>3. Objects!RefDecs = body(Objects!RefDecs)
  BY <1>1, <1>2
<1> QED BY <1>3 DEF body

-----------------------------------------------------------------------------
\* Who refers to whom; the places where objects of T are counted in such a
\* table, and how many they are.
Tables == [Objects!Object -> Lists]
Refs(h) == [d \in Objects!Object |-> Objects!Counted(h, d)]
PlacesOf(c, d, T) ==
  {q \in {d} \X DOMAIN c[d] : c[d][q[2]] \in T}
AllPlaces(c, T) == UNION {PlacesOf(c, d, T) : d \in Objects!Object}
Total(c, T) == Cardinality(AllPlaces(c, T))
In(T, s) == Cardinality({i \in DOMAIN s : s[i] \in T})

\* The places of one object in a table.
LEMMA PlacesOfOne ==
  ASSUME NEW c \in Tables, NEW d \in Objects!Object, NEW T
  PROVE  /\ IsFiniteSet(PlacesOf(c, d, T)) /\ Cardinality(PlacesOf(c, d, T)) = In(T, c[d])
         /\ In(T, c[d]) \in Nat
<1> DEFINE s == c[d]
           I == {i \in DOMAIN s : s[i] \in T}
           P == PlacesOf(c, d, T)
           f == [i \in I |-> <<d, i>>]
<1>1. DOMAIN s = 1 .. Len(s) /\ Len(s) \in Nat
  BY DEF Tables, Lists
<1>2. IsFiniteSet(I)
  BY <1>1, UpTo, FS_Subset
<1>3. \A i \in I : <<d, i>> \in P
  BY <1>1 DEF PlacesOf
<1>4. \A q \in P : q[2] \in I /\ q = <<d, q[2]>>
  BY <1>1 DEF PlacesOf
<1> HIDE DEF I, P
<1>5. f \in Bijection(I, P)
  BY <1>3, <1>4 DEF Bijection, Injection, Surjection, IsInjective
<1> HIDE DEF f
<1>6. ExistsBijection(I, P)
  BY <1>5 DEF ExistsBijection
<1>7. IsFiniteSet(P) /\ Cardinality(P) = Cardinality(I)
  BY <1>2, <1>6, FS_Bijection
<1>8. Cardinality(I) \in Nat
  BY <1>2, FS_CardinalityType
<1> QED BY <1>7, <1>8 DEF P, In, I

\* There are finitely many places.
LEMMA AllPlacesFinite ==
  ASSUME NEW c \in Tables, NEW T
  PROVE  IsFiniteSet(AllPlaces(c, T)) /\ Total(c, T) \in Nat
<1> DEFINE all == {PlacesOf(c, d, T) : d \in Objects!Object}
<1>1. IsFiniteSet(Objects!Object)
  BY UpTo, ObjectsAssumption DEF Objects!Object
<1>2. IsFiniteSet(all)
  <2> DEFINE f == [d \in Objects!Object |-> PlacesOf(c, d, T)]
  <2>1. f \in Surjection(Objects!Object, all)
    BY DEF Surjection
  <2> HIDE DEF f, all
  <2> QED BY <1>1, <2>1, FS_Surjection
<1>3. \A P \in all : IsFiniteSet(P)
  BY PlacesOfOne
<1> HIDE DEF all
<1>4. IsFiniteSet(UNION all)
  BY <1>2, <1>3, FS_UNION
<1> QED BY <1>4, FS_CardinalityType DEF all, AllPlaces, Total

\* The places of one object and of all others.
LEMMA TotalSplit ==
  ASSUME NEW c \in Tables, NEW d \in Objects!Object, NEW T
  PROVE  LET others == AllPlaces(c, T) \ PlacesOf(c, d, T)
         IN  /\ Cardinality(others) \in Nat
             /\ Total(c, T) = Cardinality(others) + In(T, c[d])
<1> DEFINE A == AllPlaces(c, T)
           P == PlacesOf(c, d, T)
<1>1. IsFiniteSet(A) /\ IsFiniteSet(P) /\ Cardinality(P) = In(T, c[d]) /\ P \subseteq A
  BY AllPlacesFinite, PlacesOfOne DEF AllPlaces
<1> HIDE DEF A, P
<1>2. A \cap P = P
  BY <1>1
<1>3. IsFiniteSet(A \ P) /\ Cardinality(A \ P) = Cardinality(A) - Cardinality(A \cap P)
  BY <1>1, FS_Difference
<1>4. Cardinality(A) \in Nat /\ Cardinality(P) \in Nat /\ Cardinality(A \ P) \in Nat
  BY <1>1, <1>3, FS_CardinalityType
<1>5. Cardinality(A \ P) = Cardinality(A) - Cardinality(P)
  BY <1>2, <1>3
<1>6. Cardinality(A) = Cardinality(A \ P) + In(T, c[d])
  BY <1>1, <1>4, <1>5
<1> QED BY <1>4, <1>6 DEF A, P, Total

\* Tables that differ in one object.
LEMMA TotalChanged ==
  ASSUME NEW c \in Tables, NEW b \in Tables, NEW d \in Objects!Object, NEW T,
         \A x \in Objects!Object \ {d} : b[x] = c[x]
  PROVE  Total(b, T) + In(T, c[d]) = Total(c, T) + In(T, b[d])
<1>1. AllPlaces(b, T) \ PlacesOf(b, d, T) = AllPlaces(c, T) \ PlacesOf(c, d, T)
  <2>1. \A x \in Objects!Object \ {d} : PlacesOf(b, x, T) = PlacesOf(c, x, T)
    BY DEF PlacesOf
  <2>2. \A x \in Objects!Object : \A f : \A q \in PlacesOf(f, x, T) : q[1] = x
    BY DEF PlacesOf
  <2>3. ASSUME NEW q, NEW u \in Tables, NEW v \in Tables,
               \A x \in Objects!Object \ {d} : PlacesOf(u, x, T) = PlacesOf(v, x, T),
               q \in AllPlaces(u, T) \ PlacesOf(u, d, T)
        PROVE  q \in AllPlaces(v, T) \ PlacesOf(v, d, T)
    <3>1. PICK x \in Objects!Object : q \in PlacesOf(u, x, T)
      BY <2>3 DEF AllPlaces
    <3>2. x # d /\ q \in PlacesOf(v, x, T) /\ q[1] = x
      BY <2>2, <2>3, <3>1
    <3>3. q \notin PlacesOf(v, d, T)
      BY <2>2, <3>2
    <3> QED BY <3>2, <3>3 DEF AllPlaces
  <2> QED BY <2>1, <2>3
<1>2. In(T, c[d]) \in Nat /\ In(T, b[d]) \in Nat
  BY PlacesOfOne
<1> DEFINE o == Cardinality(AllPlaces(c, T) \ PlacesOf(c, d, T))
<1>3. o \in Nat /\ Total(c, T) = o + In(T, c[d])
  BY TotalSplit
<1>4. Total(b, T) = o + In(T, b[d])
  BY <1>1, TotalSplit
<1> HIDE DEF o
<1> QED BY <1>2, <1>3, <1>4

\* Every item of a list is an object.
LEMMA InWhole == ASSUME NEW s \in Lists PROVE In(Objects!Object, s) = Len(s) /\ Len(s) \in Nat
<1>1. {i \in DOMAIN s : s[i] \in Objects!Object} = 1 .. Len(s) /\ Len(s) \in Nat
  BY DEF Lists
<1> QED BY <1>1, UpTo DEF In

\* How often one object is in a list.
LEMMA InOne == ASSUME NEW s \in Lists, NEW x PROVE In({x}, s) = Occurs(x, s) /\ Occurs(x, s) \in Nat
<1>1. {i \in DOMAIN s : s[i] \in {x}} = {i \in DOMAIN s : s[i] = x}
  OBVIOUS
<1>2. In({x}, s) = Occurs(x, s)
  BY <1>1 DEF In, Occurs
<1> QED BY <1>2, Counted DEF Lists

\* How often objects of T are counted in a heap.
Number(h, T) == Total(Refs(h), T)

\* The references of a heap are a table.
LEMMA RefsTypes ==
  ASSUME NEW h \in Objects!Heap
  PROVE  Refs(h) \in Tables /\ \A d \in Objects!Object : Refs(h)[d] = Objects!Counted(h, d)
BY CountedTypes DEF Refs, Tables

\* How many references there are is a number.
LEMMA NumberTypes == \A h \in Objects!Heap : \A T : Number(h, T) \in Nat
BY RefsTypes, AllPlacesFinite DEF Number

\* Heaps that differ in what one object refers to.
LEMMA NumberChanged ==
  ASSUME NEW h \in Objects!Heap, NEW g \in Objects!Heap, NEW d \in Objects!Object, NEW T,
         \A x \in Objects!Object \ {d} : Objects!Counted(g, x) = Objects!Counted(h, x)
  PROVE  Number(g, T) + In(T, Objects!Counted(h, d)) = Number(h, T) + In(T, Objects!Counted(g, d))
<1>1. /\ Refs(h) \in Tables /\ Refs(g) \in Tables
      /\ \A x \in Objects!Object : Refs(h)[x] = Objects!Counted(h, x) /\ Refs(g)[x] = Objects!Counted(g, x)
  BY RefsTypes
<1>2. Total(Refs(g), T) + In(T, Refs(h)[d]) = Total(Refs(h), T) + In(T, Refs(g)[d])
  BY <1>1, TotalChanged
<1> QED BY <1>1, <1>2 DEF Number

\* Heaps that have the same references.
LEMMA SameRefs ==
  ASSUME NEW h, NEW g, NEW T,
         \A x \in Objects!Object : Objects!Counted(g, x) = Objects!Counted(h, x)
  PROVE  Number(g, T) = Number(h, T)
<1>1. Refs(g) = Refs(h)
  BY DEF Refs
<1> QED BY <1>1 DEF Number

-----------------------------------------------------------------------------
\* Every refDec() takes one reference from the heap and the list.
Weight(p) == Number(p[1], Objects!Object) + Len(p[2])

\* The weight goes down by one.
LEMMA Decreases ==
  ASSUME NEW p \in Pairs, p[2] # <<>>
  PROVE  Weight(p) \in Nat /\ Weight(Dec(p)) = Weight(p) - 1
<1> DEFINE h == p[1]
           o == Head(p[2])
           g == Dec(p)[1]
           all == Objects!Object
<1>1. /\ h \in Objects!Heap /\ o \in Objects!Object /\ Tail(p[2]) \in Lists
      /\ Len(p[2]) \in Nat /\ Len(Tail(p[2])) = Len(p[2]) - 1 /\ h[o].count \in Nat
  <2>1. p[1] \in Objects!Heap /\ p[2] \in Lists
    BY HeapTypes
  <2>2. /\ o \in Objects!Object /\ Tail(p[2]) \in Lists
        /\ Len(p[2]) \in Nat /\ Len(Tail(p[2])) = Len(p[2]) - 1
    BY <2>1 DEF Lists
  <2> HIDE DEF o
  <2> QED BY <2>1, <2>2, HeapTypes
<1>2. Number(h, all) \in Nat /\ g \in Objects!Heap
  BY <1>1, NumberTypes, DecTypes, HeapTypes
<1>3. CASE h[o].count > 1
  <2>1. g = [h EXCEPT ![o].count = @ - 1] /\ Dec(p)[2] = Tail(p[2])
    BY <1>3 DEF Dec
  <2>2. \A x \in all : g[x].param = h[x].param /\ g[x].list = h[x].list
    <3>1. h[o].count > 0
      BY <1>1, <1>3
    <3> QED BY <1>1, <2>1, <3>1, OneLess
  <2>3. \A x \in all : Objects!Counted(g, x) = Objects!Counted(h, x)
    BY <2>2 DEF Objects!Counted
  <2>4. Number(g, all) = Number(h, all)
    <3> HIDE DEF g, h
    <3> QED BY <2>3, SameRefs
  <2> HIDE DEF g, h
  <2> QED BY <1>1, <1>2, <2>1, <2>4 DEF Weight, g, h
<1>4. CASE ~(h[o].count > 1)
  <2>1. g = [h EXCEPT ![o] = Dead] /\ Dec(p)[2] = Objects!Counted(h, o) \o Tail(p[2])
    BY <1>4 DEF Dec
  <2>2. \A x \in all : g[x] = IF x = o THEN Dead ELSE h[x]
    <3> HIDE DEF h, o, g
    <3> QED BY <1>1, <2>1, HeapChanged, Changes
  <2>3. \A x \in all \ {o} : Objects!Counted(g, x) = Objects!Counted(h, x)
    BY <2>2 DEF Objects!Counted
  <2>4. Objects!Counted(g, o) = <<>>
    <3>1. g[o].param = None /\ g[o].list = <<>>
      BY <1>1, <2>2 DEF Dead
    <3> HIDE DEF g, o
    <3> QED BY <1>1, <1>2, <3>1, DeadCounts
  <2>5. In(all, Objects!Counted(h, o)) = Len(Objects!Counted(h, o)) /\ Len(Objects!Counted(h, o)) \in Nat
    BY <1>1, CountedTypes, InWhole
  <2>6. In(all, <<>>) = 0
    BY InWhole, HeapTypes
  <2>7. Number(g, all) + Len(Objects!Counted(h, o)) = Number(h, all) + 0
    <3> HIDE DEF g, h, o
    <3> QED BY <1>1, <1>2, <2>3, <2>4, <2>5, <2>6, NumberChanged
  <2>8. Len(Dec(p)[2]) = Len(Objects!Counted(h, o)) + Len(Tail(p[2]))
    BY <1>1, <2>1, CountedTypes DEF Lists
  <2>9. Number(g, all) \in Nat
    BY <1>2, NumberTypes
  <2> DEFINE c == Len(Objects!Counted(h, o))
  <2> HIDE DEF g, h, o, c
  <2>10. /\ Number(g, all) + c = Number(h, all) + 0 /\ c \in Nat
         /\ Len(Dec(p)[2]) = c + Len(Tail(p[2]))
    BY <2>5, <2>7, <2>8 DEF c
  <2>11. Weight(p) = Number(h, all) + Len(p[2]) /\ Weight(Dec(p)) = Number(g, all) + Len(Dec(p)[2])
    BY DEF Weight, g, h
  <2> QED BY <1>1, <1>2, <2>9, <2>10, <2>11
<1> QED BY <1>3, <1>4

\* A set of numbers has a least element.
LEMMA Least == ASSUME NEW T \in SUBSET Nat, T # {} PROVE \E x \in T : \A y \in T : y >= x
<1> DEFINE W == {0 .. k : k \in T}
<1>1. W \subseteq FiniteSubsetsOf(Nat) /\ W # {}
  <2>1. \A k \in T : IsFiniteSet(0 .. k) /\ 0 .. k \subseteq Nat
    <3> SUFFICES ASSUME NEW k \in T PROVE IsFiniteSet(0 .. k)
      OBVIOUS
    <3> QED BY FS_Interval, 0 \in Int, k \in Int
  <2> QED BY <2>1 DEF FiniteSubsetsOf
<1>2. PICK w \in W : \A v \in W : <<v, w>> \notin StrictSubsetOrdering(Nat)
  BY <1>1, FS_StrictSubsetOrderingWellFounded, WFMin
<1>3. PICK x \in T : w = 0 .. x
  BY <1>2
<1>4. ASSUME NEW y \in T, y < x
      PROVE FALSE
  <2>1. 0 .. y \in W /\ 0 .. y \subseteq Nat /\ w \subseteq Nat /\ 0 .. y \subseteq w
    BY <1>3, <1>4
  <2>2. x \in w /\ x \notin 0 .. y
    BY <1>3, <1>4
  <2> HIDE DEF W
  <2> QED BY <2>1, <2>2, <1>2 DEF StrictSubsetOrdering
<1>5. \A y \in T : y >= x
  BY <1>4
<1> QED BY <1>5

\* What every refDec() keeps holds in the end.
LEMMA RefDecsEnd ==
  ASSUME NEW S \in SUBSET Pairs, \A p \in S : p[2] # <<>> => Dec(p) \in S, NEW p \in S
  PROVE  <<Objects!RefDecs[p], <<>>>> \in S
<1> DEFINE Bad == {q \in S : <<Objects!RefDecs[q], <<>>>> \notin S}
           weights == {n \in Nat : \E q \in Bad : Weight(q) = n}
<1>1. ASSUME NEW q \in Bad PROVE q[2] # <<>> /\ Dec(q) \in Bad
  <2>1. q \in Pairs /\ q = <<q[1], q[2]>>
    BY HeapTypes
  <2>2. q[2] # <<>>
    <3>1. q[2] = <<>> => Objects!RefDecs[q] = q[1]
      BY <2>1, RefDecsUnfold
    <3> QED BY <2>1, <3>1
  <2>3. Objects!RefDecs[q] = Objects!RefDecs[Dec(q)]
    BY <2>1, <2>2, RefDecsUnfold
  <2> QED BY <2>2, <2>3
<1> HIDE DEF Bad
<1>2. \A q \in Bad : Weight(q) \in Nat /\ Weight(Dec(q)) = Weight(q) - 1 /\ Dec(q) \in Bad
  <2>1. \A q \in Bad : q \in Pairs
    BY DEF Bad
  <2> QED BY <1>1, <2>1, Decreases
<1>3. ASSUME weights # {} PROVE FALSE
  <2>1. PICK n \in weights : \A m \in weights : m >= n
    <3> HIDE DEF weights
    <3>1. weights \in SUBSET Nat
      BY DEF weights
    <3> QED BY <1>3, <3>1, Least
  <2>2. PICK q \in Bad : Weight(q) = n
    OBVIOUS
  <2>3. Weight(Dec(q)) \in weights /\ Weight(Dec(q)) = n - 1
    BY <1>2, <2>2
  <2> QED BY <2>1, <2>3
<1>4. Bad = {}
  BY <1>2, <1>3
<1> QED BY <1>4 DEF Bad

-----------------------------------------------------------------------------
\* Every count is what is held outside (ext), what is about to be given back
\* (os), and what other objects hold.
Balanced(h, os, ext) == \A x \in Objects!Object :
  h[x].count = ext[x] + Occurs(x, os) + Number(h, {x})

\* An object that does not exist refers to nothing.
DeadEmpty(h) == \A x \in Objects!Object : h[x].count = 0 => h[x] = Dead

\* Objects have been given back, and those that are left are unchanged.
Faded(h, g) == \A x \in Objects!Object :
  /\ g[x].count <= h[x].count
  /\ g[x] = Dead \/ (g[x].param = h[x].param /\ g[x].list = h[x].list)

\* References go down, and to objects that have been created.
Below(x, d) == kind[x] # None /\ kind[d] # None /\ Objects!Height[kind[x]] < Objects!Height[kind[d]]
Lower(h) == \A d \in Objects!Object :
  /\ h[d].param \in Objects!Object => Below(h[d].param, d)
  /\ kind[d] = "lights" \/ \A i \in DOMAIN h[d].list : Below(h[d].list[i], d)
Unborn(h) == \A x \in Objects!Object : kind[x] = None => h[x].count = 0
Shape(h) == h \in Objects!Heap /\ DeadEmpty(h) /\ Lower(h) /\ Unborn(h)

Outside == [Objects!Object -> Nat]

\* The references of one object are among all.
LEMMA NumberOf ==
  ASSUME NEW h \in Objects!Heap, NEW x \in Objects!Object
  PROVE  /\ Number(h, {x}) \in Nat
         /\ \A d \in Objects!Object : /\ Occurs(x, Objects!Counted(h, d)) <= Number(h, {x})
                                      /\ Occurs(x, Objects!Counted(h, d)) \in Nat
<1>1. Number(h, {x}) \in Nat
  BY NumberTypes
<1>2. ASSUME NEW d \in Objects!Object
      PROVE  /\ Occurs(x, Objects!Counted(h, d)) <= Number(h, {x})
             /\ Occurs(x, Objects!Counted(h, d)) \in Nat
  <2>1. In({x}, Objects!Counted(h, d)) = Occurs(x, Objects!Counted(h, d)) /\ Occurs(x, Objects!Counted(h, d)) \in Nat
    BY CountedTypes, InOne
  <2> DEFINE o == Cardinality(AllPlaces(Refs(h), {x}) \ PlacesOf(Refs(h), d, {x}))
  <2>2. o \in Nat /\ Number(h, {x}) = o + In({x}, Objects!Counted(h, d))
    <3>1. o \in Nat /\ Total(Refs(h), {x}) = o + In({x}, Refs(h)[d]) /\ Refs(h)[d] = Objects!Counted(h, d)
      BY RefsTypes, TotalSplit
    <3> HIDE DEF o
    <3> QED BY <3>1 DEF Number
  <2> HIDE DEF o
  <2> QED BY <2>1, <2>2
<1> QED BY <1>1, <1>2

\* Heaps that differ in what one object refers to, for the references to x.
LEMMA NumberChangedOf ==
  ASSUME NEW h \in Objects!Heap, NEW g \in Objects!Heap, NEW d \in Objects!Object, NEW x \in Objects!Object,
         \A y \in Objects!Object \ {d} : Objects!Counted(g, y) = Objects!Counted(h, y)
  PROVE  Number(g, {x}) + Occurs(x, Objects!Counted(h, d)) = Number(h, {x}) + Occurs(x, Objects!Counted(g, d))
<1>1. /\ In({x}, Objects!Counted(h, d)) = Occurs(x, Objects!Counted(h, d))
      /\ In({x}, Objects!Counted(g, d)) = Occurs(x, Objects!Counted(g, d))
  BY CountedTypes, InOne
<1> QED BY <1>1, NumberChanged

\* Heaps with the same parameters and lists.
LEMMA SameNumber ==
  ASSUME NEW h, NEW g, NEW T,
         \A x \in Objects!Object : g[x].param = h[x].param /\ g[x].list = h[x].list
  PROVE  Number(g, T) = Number(h, T) /\ \A x \in Objects!Object : Objects!Counted(g, x) = Objects!Counted(h, x)
<1>1. \A x \in Objects!Object : Objects!Counted(g, x) = Objects!Counted(h, x)
  BY DEF Objects!Counted
<1> QED BY <1>1, SameRefs

\* One refDec() keeps the balance.
LEMMA DecBalanced ==
  ASSUME NEW p \in Pairs, p[2] # <<>>, NEW ext \in Outside,
         Balanced(p[1], p[2], ext), DeadEmpty(p[1])
  PROVE  /\ Balanced(Dec(p)[1], Dec(p)[2], ext) /\ DeadEmpty(Dec(p)[1]) /\ Faded(p[1], Dec(p)[1])
<1> DEFINE h == p[1]
           o == Head(p[2])
           g == Dec(p)[1]
           gs == Dec(p)[2]
           t == Tail(p[2])
<1>1. h \in Objects!Heap /\ p[2] \in Lists /\ Dec(p) \in Pairs /\ g \in Objects!Heap /\ gs \in Lists
  BY HeapTypes, DecTypes
<1>2. /\ o \in Objects!Object /\ t \in Lists
      /\ \A x : Occurs(x, p[2]) = Same(x, o) + Occurs(x, t)
  BY <1>1, OccursTail, SameIs DEF Lists
<1>3. \A x \in Objects!Object : /\ h[x].count \in Nat /\ ext[x] \in Nat /\ Occurs(x, t) \in Nat
                                /\ Number(h, {x}) \in Nat /\ Number(g, {x}) \in Nat
                                /\ Same(x, o) \in Nat
  BY <1>1, <1>2, SameIs, HeapTypes, NumberOf, Counted DEF Lists, Outside
<1>4. \A x \in Objects!Object : h[x].count = ext[x] + Same(x, o) + Occurs(x, t) + Number(h, {x})
  <2> SUFFICES ASSUME NEW x \in Objects!Object
               PROVE  h[x].count = ext[x] + Same(x, o) + Occurs(x, t) + Number(h, {x})
    OBVIOUS
  <2>1. h[x].count = ext[x] + Occurs(x, p[2]) + Number(h, {x})
    BY DEF Balanced
  <2>2. Occurs(x, p[2]) = Same(x, o) + Occurs(x, t)
    BY <1>2
  <2>3. ext[x] \in Nat /\ Same(x, o) \in Nat /\ Occurs(x, t) \in Nat /\ Number(h, {x}) \in Nat
    BY <1>3
  <2> HIDE DEF h, o, t
  <2> QED BY <2>1, <2>2, <2>3
<1>5. CASE h[o].count > 1
  <2>1. g = [h EXCEPT ![o].count = @ - 1] /\ gs = t
    BY <1>5 DEF Dec
  <2>2. \A x \in Objects!Object : /\ g[x].count = h[x].count - Same(x, o)
                                  /\ g[x].param = h[x].param /\ g[x].list = h[x].list
    <3>1. h[o].count > 0
      <4>1. h[o].count \in Nat
        BY <1>2, <1>3
      <4>2. \A n \in Nat : n > 1 => n > 0
        OBVIOUS
      <4> HIDE DEF h, o
      <4> QED BY <4>1, <4>2, <1>5
    <3> DEFINE e == [h EXCEPT ![o].count = @ - 1]
    <3> HIDE DEF h, o
    <3>2. h \in Objects!Heap /\ o \in Objects!Object
      BY <1>1, <1>2
    <3>3. \A x \in Objects!Object : /\ e[x].count = h[x].count - Same(x, o)
                                    /\ e[x].param = h[x].param /\ e[x].list = h[x].list
      BY <3>1, <3>2, OneLess
    <3> HIDE DEF g, e
    <3>4. g = e
      BY <2>1 DEF e
    <3> QED BY <3>3, <3>4
  <2>3. \A x \in Objects!Object : Number(g, {x}) = Number(h, {x})
    <3> HIDE DEF g, h, o
    <3> QED BY <2>2, SameNumber
  <2>4. Balanced(g, gs, ext)
    <3> HIDE DEF g, h, o, t, gs
    <3> SUFFICES ASSUME NEW x \in Objects!Object
                 PROVE  g[x].count = ext[x] + Occurs(x, gs) + Number(g, {x})
      BY DEF Balanced
    <3>1. /\ h[x].count = ext[x] + Same(x, o) + Occurs(x, t) + Number(h, {x})
          /\ g[x].count = h[x].count - Same(x, o) /\ Number(g, {x}) = Number(h, {x}) /\ gs = t
      BY <1>4, <2>1, <2>2, <2>3
    <3>2. ext[x] \in Nat /\ Same(x, o) \in Nat /\ Occurs(x, t) \in Nat /\ Number(h, {x}) \in Nat
      BY <1>3
    <3> QED BY <3>1, <3>2
  <2>5. DeadEmpty(g)
    <3> SUFFICES ASSUME NEW x \in Objects!Object, g[x].count = 0 PROVE g[x] = Dead
      BY DEF DeadEmpty
    <3>1. x # o /\ h[x].count = 0
      <4>1. g[x].count = h[x].count - Same(x, o) /\ h[x].count \in Nat /\ h[o].count \in Nat
        BY <1>2, <1>3, <2>2
      <4>2. (x = o => Same(x, o) = 1) /\ (x # o => Same(x, o) = 0)
        BY SameIs
      <4> HIDE DEF g, h, o
      <4>3. x # o
        BY <4>1, <4>2, <1>5
      <4> QED BY <4>1, <4>2, <4>3
    <3>2. h[x] = Dead
      BY <3>1 DEF DeadEmpty
    <3> HIDE DEF g, h
    <3> QED BY <1>1, <2>2, <3>1, <3>2, HeapTypes DEF Dead
  <2>6. Faded(h, g)
    <3> HIDE DEF g, h, o
    <3> SUFFICES ASSUME NEW x \in Objects!Object PROVE g[x].count <= h[x].count
      BY <2>2 DEF Faded
    <3>1. g[x].count = h[x].count - Same(x, o) /\ h[x].count \in Nat /\ Same(x, o) \in Nat
      BY <1>3, <2>2
    <3> QED BY <3>1
  <2> QED BY <2>4, <2>5, <2>6
<1>6. CASE ~(h[o].count > 1)
  <2> DEFINE c == Objects!Counted(h, o)
  <2>1. g = [h EXCEPT ![o] = Dead] /\ gs = c \o t
    BY <1>6 DEF Dec
  <2>2. \A x \in Objects!Object : g[x] = IF x = o THEN Dead ELSE h[x]
    <3> HIDE DEF h, o, g
    <3> QED BY <1>1, <1>2, <2>1, HeapChanged, Changes
  <2>3. c \in Lists /\ \A x \in Objects!Object : Occurs(x, c) \in Nat /\ Occurs(x, gs) = Occurs(x, c) + Occurs(x, t)
    <3>1. c \in Lists
      BY <1>1, <1>2, CountedTypes
    <3> HIDE DEF c, h, o, t, g, gs
    <3> QED BY <1>2, <2>1, <3>1, OccursBoth, Counted DEF Lists
  <2>4. Objects!Counted(g, o) = <<>>
    <3>1. g[o].param = None /\ g[o].list = <<>>
      BY <1>2, <2>2 DEF Dead
    <3> HIDE DEF g, o
    <3> QED BY <1>1, <1>2, <3>1, DeadCounts
  <2>5. \A x \in Objects!Object \ {o} : Objects!Counted(g, x) = Objects!Counted(h, x)
    <3> HIDE DEF g, h, o
    <3> QED BY <2>2 DEF Objects!Counted
  <2>6. \A x \in Objects!Object : Number(g, {x}) + Occurs(x, c) = Number(h, {x})
    <3> SUFFICES ASSUME NEW x \in Objects!Object PROVE Number(g, {x}) + Occurs(x, c) = Number(h, {x})
      OBVIOUS
    <3>1. Number(g, {x}) + Occurs(x, c) = Number(h, {x}) + Occurs(x, Objects!Counted(g, o))
      <4> HIDE DEF g, h, o
      <4> QED BY <1>1, <1>2, <2>5, NumberChangedOf
    <3>2. Occurs(x, Objects!Counted(g, o)) = 0
      BY <2>4, OccursNone
    <3> HIDE DEF g, h, o, c
    <3> QED BY <1>3, <3>1, <3>2
  <2>7. ext[o] = 0 /\ Occurs(o, t) = 0 /\ Number(h, {o}) = 0
    <3> HIDE DEF g, h, o, c, t
    <3>1. h[o].count = ext[o] + 1 + Occurs(o, t) + Number(h, {o})
      BY <1>2, <1>4, SameIs
    <3> QED BY <1>2, <1>3, <1>6, <3>1
  <2>8. Balanced(g, gs, ext)
    <3> SUFFICES ASSUME NEW x \in Objects!Object
                 PROVE  g[x].count = ext[x] + Occurs(x, gs) + Number(g, {x})
      BY DEF Balanced
    <3> HIDE DEF g, h, o, c, t, gs
    <3>0. /\ Number(g, {x}) + Occurs(x, c) = Number(h, {x}) /\ Occurs(x, gs) = Occurs(x, c) + Occurs(x, t)
          /\ Occurs(x, c) \in Nat /\ Occurs(x, t) \in Nat /\ Number(g, {x}) \in Nat /\ Number(h, {x}) \in Nat
          /\ ext[x] \in Nat
      BY <1>3, <2>3, <2>6
    <3>1. CASE x = o
      <4>1. g[x].count = 0
        BY <2>2, <3>1 DEF Dead
      <4>2. ext[x] = 0 /\ Occurs(x, t) = 0 /\ Number(h, {x}) = 0
        BY <2>7, <3>1
      <4> QED BY <3>0, <4>1, <4>2
    <3>2. CASE x # o
      <4>1. g[x] = h[x] /\ Same(x, o) = 0
        BY <2>2, <3>2, SameIs
      <4>2. h[x].count = ext[x] + Same(x, o) + Occurs(x, t) + Number(h, {x})
        BY <1>4
      <4> QED BY <3>0, <4>1, <4>2
    <3> QED BY <3>1, <3>2
  <2>9. DeadEmpty(g)
    <3> SUFFICES ASSUME NEW x \in Objects!Object, g[x].count = 0 PROVE g[x] = Dead
      BY DEF DeadEmpty
    <3>1. x # o => h[x] = Dead
      BY <2>2 DEF DeadEmpty
    <3> HIDE DEF g, h, o
    <3> QED BY <2>2, <3>1
  <2>10. Faded(h, g)
    <3> HIDE DEF g, h, o
    <3>1. Dead.count = 0
      BY DEF Dead
    <3> SUFFICES ASSUME NEW x \in Objects!Object
                 PROVE  g[x].count <= h[x].count /\ (g[x] = Dead \/ g[x] = h[x])
      BY DEF Faded
    <3>2. h[x].count \in Nat /\ g[x] = IF x = o THEN Dead ELSE h[x]
      BY <1>3, <2>2
    <3> QED BY <3>1, <3>2
  <2> QED BY <2>8, <2>9, <2>10
<1> QED BY <1>5, <1>6

\* What has been given back stays so.
LEMMA FadedFurther ==
  ASSUME NEW a \in Objects!Heap, NEW b \in Objects!Heap, NEW c \in Objects!Heap, Faded(a, b), Faded(b, c)
  PROVE  Faded(a, c)
<1> SUFFICES ASSUME NEW x \in Objects!Object
             PROVE  /\ c[x].count <= a[x].count
                    /\ c[x] = Dead \/ (c[x].param = a[x].param /\ c[x].list = a[x].list)
  BY DEF Faded
<1>1. /\ c[x].count <= b[x].count /\ b[x].count <= a[x].count
      /\ c[x] = Dead \/ (c[x].param = b[x].param /\ c[x].list = b[x].list)
      /\ b[x] = Dead \/ (b[x].param = a[x].param /\ b[x].list = a[x].list)
  BY DEF Faded
<1>2. /\ c[x].count \in Nat /\ b[x].count \in Nat /\ a[x].count \in Nat
      /\ c[x] = [count |-> c[x].count, param |-> c[x].param, list |-> c[x].list]
  BY HeapTypes
<1>3. c[x].count <= a[x].count
  BY <1>1, <1>2
<1>4. ASSUME b[x] = Dead, c[x].param = b[x].param, c[x].list = b[x].list PROVE c[x] = Dead
  <2>1. b[x].count = 0 /\ c[x].param = None /\ c[x].list = <<>>
    BY <1>4 DEF Dead
  <2>2. c[x].count = 0
    BY <1>1, <1>2, <2>1
  <2> QED BY <1>2, <2>1, <2>2 DEF Dead
<1> QED BY <1>1, <1>3, <1>4

\* An object that stays refers to what it referred to, one that goes to nothing.
LEMMA FadedCounted ==
  ASSUME NEW h \in Objects!Heap, NEW g \in Objects!Heap, Faded(h, g), NEW x \in Objects!Object
  PROVE  Objects!Counted(g, x) \in {<<>>, Objects!Counted(h, x)}
<1>1. CASE g[x] = Dead
  <2>1. g[x].param = None /\ g[x].list = <<>>
    BY <1>1 DEF Dead
  <2> QED BY <2>1, DeadCounts
<1>2. CASE g[x].param = h[x].param /\ g[x].list = h[x].list
  BY <1>2 DEF Objects!Counted
<1> QED BY <1>1, <1>2 DEF Faded

\* refDec() of objects that are accounted for.
LEMMA RefDecBalanced ==
  ASSUME NEW h, Shape(h), NEW os \in Lists, NEW ext \in Outside, Balanced(h, os, ext)
  PROVE  LET g == Objects!RefDec(h, os)
         IN  /\ Shape(g) /\ Balanced(g, <<>>, ext) /\ Faded(h, g)
             /\ \A x \in Objects!Object :
                  ext[x] > 0 => g[x].count > 0 /\ g[x].param = h[x].param /\ g[x].list = h[x].list
<1> DEFINE g == Objects!RefDec(h, os)
           S == {p \in Pairs : Balanced(p[1], p[2], ext) /\ DeadEmpty(p[1]) /\ Faded(h, p[1])}
<1>0. h \in Objects!Heap /\ <<h, os>> \in Pairs
  BY DEF Pairs, Shape
<1>1. <<h, os>> \in S
  <2>1. Faded(h, h)
    <3>1. \A x \in Objects!Object : h[x].count \in Nat
      BY <1>0, HeapTypes
    <3> QED BY <3>1 DEF Faded
  <2> QED BY <1>0, <2>1 DEF Shape
<1>2. ASSUME NEW p \in S, p[2] # <<>> PROVE Dec(p) \in S
  <2>1. p \in Pairs /\ p[1] \in Objects!Heap /\ Balanced(p[1], p[2], ext) /\ DeadEmpty(p[1]) /\ Faded(h, p[1])
    BY HeapTypes
  <2>2. Dec(p) \in Pairs /\ Dec(p)[1] \in Objects!Heap
    BY <1>2, <2>1, DecTypes, HeapTypes
  <2>3. Balanced(Dec(p)[1], Dec(p)[2], ext) /\ DeadEmpty(Dec(p)[1]) /\ Faded(p[1], Dec(p)[1])
    BY <1>2, <2>1, DecBalanced
  <2>4. Faded(h, Dec(p)[1])
    BY <1>0, <2>1, <2>2, <2>3, FadedFurther
  <2> QED BY <2>2, <2>3, <2>4
<1> HIDE DEF S
<1>3. <<g, <<>>>> \in S
  <2>1. S \in SUBSET Pairs
    BY DEF S
  <2>2. <<Objects!RefDecs[<<h, os>>], <<>>>> \in S
    BY <1>1, <1>2, <2>1, RefDecsEnd
  <2> QED BY <2>2 DEF Objects!RefDec
<1> HIDE DEF g
<1>4. g \in Objects!Heap /\ Balanced(g, <<>>, ext) /\ DeadEmpty(g) /\ Faded(h, g)
  BY <1>3 DEF S, Pairs
<1>5. Lower(g)
  <2> SUFFICES ASSUME NEW d \in Objects!Object
               PROVE  /\ g[d].param \in Objects!Object => Below(g[d].param, d)
                      /\ kind[d] = "lights" \/ \A i \in DOMAIN g[d].list : Below(g[d].list[i], d)
    BY DEF Lower
  <2>1. CASE g[d] = Dead
    <3>1. g[d].param = None /\ DOMAIN g[d].list = {}
      BY <2>1 DEF Dead
    <3> QED BY <3>1, NoneAssumption
  <2>2. CASE g[d].param = h[d].param /\ g[d].list = h[d].list
    BY <2>2 DEF Lower, Shape
  <2> QED BY <1>4, <2>1, <2>2 DEF Faded
<1>6. Unborn(g)
  <2> SUFFICES ASSUME NEW x \in Objects!Object, kind[x] = None PROVE g[x].count = 0
    BY DEF Unborn
  <2>1. h[x].count = 0 /\ g[x].count <= h[x].count /\ g[x].count \in Nat
    BY <1>4, HeapTypes DEF Shape, Unborn, Faded
  <2> QED BY <2>1
<1>7. ASSUME NEW x \in Objects!Object, ext[x] > 0
      PROVE  g[x].count > 0 /\ g[x].param = h[x].param /\ g[x].list = h[x].list
  <2>1. g[x].count = ext[x] + Occurs(x, <<>>) + Number(g, {x}) /\ Occurs(x, <<>>) = 0
    BY <1>4, OccursNone DEF Balanced
  <2>2. Number(g, {x}) \in Nat /\ ext[x] \in Nat
    BY <1>4, NumberOf DEF Outside
  <2>3. g[x].count > 0
    BY <1>7, <2>1, <2>2
  <2>4. g[x] # Dead
    BY <2>3 DEF Dead
  <2> QED BY <1>4, <2>3, <2>4 DEF Faded
<1>8. Shape(g)
  BY <1>4, <1>5, <1>6 DEF Shape
<1> QED BY <1>4, <1>7, <1>8 DEF g

-----------------------------------------------------------------------------
\* What is held outside of a heap: an object the application keeps, and what
\* has been lost.
Ext(kept, l) == [x \in Objects!Object |-> (IF x \in kept THEN 1 ELSE 0) + l[x]]
Sound(h, kept, l) ==
  Shape(h) /\ kept \subseteq Objects!Object /\ l \in Outside /\ Balanced(h, <<>>, Ext(kept, l))

ObjectTypes ==
  /\ kind \in [Objects!Object -> DOMAIN Objects!Height \cup {None}]
  /\ masterParam \in [Objects!Object -> {None, Plain}]
  /\ \A x \in Objects!Object : kind[x] = None => masterParam[x] = None
  /\ readded \in BOOLEAN

\* The two devices hold the same parameters of what the application keeps,
\* and a worker has lost at least what the local device has.
SameParams ==
  /\ \A o \in app : localHeap[o].param = heap[o].param
  /\ \A x \in Objects!Object : leakedLocal[x] <= leaked[x]

ObjectInv ==
  /\ ObjectTypes /\ Sound(localHeap, app, leakedLocal) /\ Sound(heap, app, leaked)
  /\ SameParams /\ Objects!WorkersAgree /\ Objects!MasterKnows

-----------------------------------------------------------------------------
\* How often an object is counted in the list of another.
Listed(o, s, x) == IF kind[o] = "lights" THEN 0 ELSE Occurs(x, s)

\* What an object refers to: its list and its parameter.
LEMMA CountedSplit ==
  ASSUME NEW h \in Objects!Heap, NEW o \in Objects!Object, NEW x \in Objects!Object
  PROVE  /\ Occurs(x, Objects!Counted(h, o)) = Listed(o, h[o].list, x) + Same(x, h[o].param)
         /\ Listed(o, h[o].list, x) \in Nat
<1> DEFINE s == IF kind[o] = "lights" THEN <<>> ELSE h[o].list
           t == IF h[o].param \in Objects!Object THEN <<h[o].param>> ELSE <<>>
<1>1. s \in Lists /\ t \in Lists
  <2>1. h[o].param \in Objects!Object => <<h[o].param>> \in Lists
    BY DEF Lists
  <2> QED BY <2>1, HeapTypes
<1>2. Objects!Counted(h, o) = s \o t
  BY DEF Objects!Counted
<1>3. Occurs(x, s) = Listed(o, h[o].list, x) /\ Occurs(x, s) \in Nat
  <2>1. Occurs(x, <<>>) = 0
    BY OccursNone
  <2>2. Occurs(x, s) = Listed(o, h[o].list, x)
    BY <2>1 DEF Listed
  <2> HIDE DEF s
  <2> QED BY <1>1, <2>2, Counted DEF Lists
<1>4. Occurs(x, t) = Same(x, h[o].param)
  <2>1. CASE h[o].param \in Objects!Object
    <3>1. Occurs(x, <<h[o].param>>) = Holds(h[o].param = x)
      BY OccursOne
    <3>2. Holds(h[o].param = x) = Same(x, h[o].param)
      BY SameIs
    <3> QED BY <2>1, <3>1, <3>2
  <2>2. CASE h[o].param \notin Objects!Object
    <3>1. Occurs(x, <<>>) = 0 /\ x # h[o].param
      BY <2>2, OccursNone
    <3> QED BY <2>2, <3>1, SameIs
  <2> QED BY <2>1, <2>2
<1> HIDE DEF s, t
<1>5. Occurs(x, s \o t) = Occurs(x, s) + Occurs(x, t)
  BY <1>1, OccursBoth DEF Lists
<1> QED BY <1>2, <1>3, <1>4, <1>5

\* refInc()
LEMMA Incremented ==
  ASSUME NEW h, Shape(h), NEW v \in Objects!Object, h[v].count > 0
  PROVE  LET g == Objects!RefInc(h, v)
         IN  /\ Shape(g)
             /\ \A x \in Objects!Object :
                  /\ g[x].count = h[x].count + Same(x, v) /\ g[x].param = h[x].param /\ g[x].list = h[x].list
                  /\ Number(g, {x}) = Number(h, {x})
<1> DEFINE r == [count |-> h[v].count + 1, param |-> h[v].param, list |-> h[v].list]
           g == [h EXCEPT ![v] = r]
<1>1. h \in Objects!Heap /\ \A x \in Objects!Object : h[x] \in Records /\ h[x].count \in Nat
  BY Changes, HeapTypes DEF Shape
<1>2. Objects!RefInc(h, v) = g
  <2>1. [h[v] EXCEPT !.count = h[v].count + 1] = r
    BY <1>1 DEF Records
  <2>2. Objects!RefInc(h, v) = [h EXCEPT ![v] = [h[v] EXCEPT !.count = h[v].count + 1]]
    BY <1>1 DEF Objects!Heap, Objects!RefInc
  <2> HIDE DEF r
  <2> QED BY <2>1, <2>2
<1>3. r \in Records
  <2>1. h[v].count \in Nat /\ h[v].param \in Objects!Object \cup {None, Plain, Null} /\ h[v].list \in Lists
    BY <1>1, HeapTypes
  <2>2. h[v].count + 1 \in Nat
    BY <2>1
  <2> QED BY <2>1, <2>2, Changes
<1>4. g \in Objects!Heap /\ \A x \in Objects!Object : g[x] = IF x = v THEN r ELSE h[x]
  <2> HIDE DEF r
  <2> QED BY <1>1, <1>3, HeapChanged
<1> HIDE DEF g
<1>5. \A x \in Objects!Object :
        g[x].count = h[x].count + Same(x, v) /\ g[x].param = h[x].param /\ g[x].list = h[x].list
  <2> SUFFICES ASSUME NEW x \in Objects!Object
               PROVE  g[x].count = h[x].count + Same(x, v) /\ g[x].param = h[x].param /\ g[x].list = h[x].list
    OBVIOUS
  <2>1. CASE x = v
    <3>1. g[x] = r /\ Same(x, v) = 1
      BY <1>4, <2>1, SameIs
    <3> QED BY <2>1, <3>1
  <2>2. CASE x # v
    <3>1. g[x] = h[x] /\ Same(x, v) = 0 /\ h[x].count \in Nat
      BY <1>1, <1>4, <2>2, SameIs
    <3> QED BY <3>1
  <2> QED BY <2>1, <2>2
<1>6. \A x \in Objects!Object : Number(g, {x}) = Number(h, {x})
  BY <1>5, SameNumber
<1>7. Shape(g)
  <2>1. DeadEmpty(g)
    <3> SUFFICES ASSUME NEW x \in Objects!Object, g[x].count = 0 PROVE g[x] = Dead
      BY DEF DeadEmpty
    <3>1. CASE x = v
      <4>1. r.count = h[v].count + 1 /\ h[v].count \in Nat /\ g[x] = r
        BY <1>1, <1>4, <3>1
      <4> HIDE DEF r
      <4> QED BY <4>1
    <3>2. CASE x # v
      <4>1. g[x] = h[x]
        BY <1>4, <3>2
      <4> QED BY <4>1 DEF Shape, DeadEmpty
    <3> QED BY <3>1, <3>2
  <2>2. Lower(g)
    BY <1>5 DEF Shape, Lower
  <2>3. Unborn(g)
    <3> SUFFICES ASSUME NEW x \in Objects!Object, kind[x] = None PROVE g[x].count = 0
      BY DEF Unborn
    <3>1. h[x].count = 0
      BY DEF Shape, Unborn
    <3>2. g[x] = h[x]
      BY <1>1, <1>4, <3>1
    <3> QED BY <3>1, <3>2
  <2> QED BY <1>4, <2>1, <2>2, <2>3 DEF Shape
<1> QED BY <1>2, <1>5, <1>6, <1>7

\* An object gets another parameter or list.
Edit(h, o, w, s) == [h EXCEPT ![o] = [count |-> h[o].count, param |-> w, list |-> s]]

\* What o may refer to, as a parameter and in its list.
MayHold(o, w, s) ==
  /\ w \in Objects!Object \cup {None, Plain, Null} /\ s \in Lists
  /\ w \in Objects!Object => Below(w, o)
  /\ kind[o] = "lights" \/ \A i \in DOMAIN s : Below(s[i], o)

\* The references of g are those of h with another parameter and list of o.
Changed(h, o, w, s, g) ==
  /\ g[o].param = w /\ g[o].list = s
  /\ \A x \in Objects!Object :
       /\ g[x].count = h[x].count /\ (x # o => g[x] = h[x])
       /\ Number(g, {x}) + Listed(o, h[o].list, x) + Same(x, h[o].param)
            = Number(h, {x}) + Listed(o, s, x) + Same(x, w)
       /\ Listed(o, s, x) \in Nat /\ Listed(o, h[o].list, x) \in Nat
       /\ Number(g, {x}) \in Nat /\ Number(h, {x}) \in Nat

\* Such an edit changes the references as it changes the parameter and the list.
LEMMA Edited ==
  ASSUME NEW h, Shape(h), NEW o \in Objects!Object, h[o].count > 0,
         NEW w, NEW s, MayHold(o, w, s)
  PROVE  Shape(Edit(h, o, w, s)) /\ Changed(h, o, w, s, Edit(h, o, w, s))
<1> DEFINE r == [count |-> h[o].count, param |-> w, list |-> s]
           g == Edit(h, o, w, s)
<1>0. /\ w \in Objects!Object \cup {None, Plain, Null} /\ s \in Lists
      /\ w \in Objects!Object => Below(w, o)
      /\ kind[o] = "lights" \/ \A i \in DOMAIN s : Below(s[i], o)
  BY DEF MayHold
<1>1. h \in Objects!Heap /\ h[o].count \in Nat /\ DeadEmpty(h) /\ Lower(h) /\ Unborn(h)
  BY HeapTypes DEF Shape
<1>2. r \in Records
  BY <1>0, <1>1, Changes
<1>3. g \in Objects!Heap /\ \A x \in Objects!Object : g[x] = IF x = o THEN r ELSE h[x]
  <2>1. g = [h EXCEPT ![o] = r]
    BY DEF Edit
  <2> HIDE DEF r, g
  <2>2. /\ [h EXCEPT ![o] = r] \in Objects!Heap
        /\ \A x \in Objects!Object : [h EXCEPT ![o] = r][x] = IF x = o THEN r ELSE h[x]
    BY <1>1, <1>2, HeapChanged
  <2> QED BY <2>1, <2>2
<1> HIDE DEF g
<1>4. g[o].count = h[o].count /\ g[o].param = w /\ g[o].list = s
  BY <1>3
<1> HIDE DEF r
<1>5. \A x \in Objects!Object : g[x].count = h[x].count /\ (x # o => g[x] = h[x])
  BY <1>3, <1>4
<1>6. Shape(g)
  <2>1. DeadEmpty(g)
    <3> SUFFICES ASSUME NEW x \in Objects!Object, g[x].count = 0 PROVE g[x] = Dead
      BY DEF DeadEmpty
    <3>1. x # o
      BY <1>1, <1>4
    <3>2. g[x] = h[x]
      BY <1>5, <3>1
    <3> QED BY <1>1, <3>2 DEF DeadEmpty
  <2>2. Lower(g)
    <3> SUFFICES ASSUME NEW d \in Objects!Object
                 PROVE  /\ g[d].param \in Objects!Object => Below(g[d].param, d)
                        /\ kind[d] = "lights" \/ \A i \in DOMAIN g[d].list : Below(g[d].list[i], d)
      BY DEF Lower
    <3>1. CASE d = o
      BY <1>0, <1>4, <3>1
    <3>2. CASE d # o
      BY <1>1, <1>5, <3>2 DEF Lower
    <3> QED BY <3>1, <3>2
  <2>3. Unborn(g)
    BY <1>1, <1>5 DEF Unborn
  <2> QED BY <1>3, <2>1, <2>2, <2>3 DEF Shape
<1>7. ASSUME NEW x \in Objects!Object
      PROVE  /\ Number(g, {x}) + Listed(o, h[o].list, x) + Same(x, h[o].param)
                  = Number(h, {x}) + Listed(o, s, x) + Same(x, w)
             /\ Listed(o, s, x) \in Nat /\ Listed(o, h[o].list, x) \in Nat
             /\ Number(g, {x}) \in Nat /\ Number(h, {x}) \in Nat
  <2>1. \A y \in Objects!Object \ {o} : Objects!Counted(g, y) = Objects!Counted(h, y)
    BY <1>5 DEF Objects!Counted
  <2>2. Number(g, {x}) + Occurs(x, Objects!Counted(h, o)) = Number(h, {x}) + Occurs(x, Objects!Counted(g, o))
    BY <1>1, <1>3, <2>1, NumberChangedOf
  <2>3. /\ Occurs(x, Objects!Counted(h, o)) = Listed(o, h[o].list, x) + Same(x, h[o].param)
        /\ Listed(o, h[o].list, x) \in Nat
    BY <1>1, CountedSplit
  <2>4. Occurs(x, Objects!Counted(g, o)) = Listed(o, s, x) + Same(x, w) /\ Listed(o, s, x) \in Nat
    <3>1. /\ Occurs(x, Objects!Counted(g, o)) = Listed(o, g[o].list, x) + Same(x, g[o].param)
          /\ Listed(o, g[o].list, x) \in Nat
      BY <1>3, CountedSplit
    <3> QED BY <1>4, <3>1
  <2>5. Number(g, {x}) \in Nat /\ Number(h, {x}) \in Nat /\ Same(x, w) \in Nat /\ Same(x, h[o].param) \in Nat
    BY <1>1, <1>3, NumberTypes, SameIs
  <2> QED BY <2>2, <2>3, <2>4, <2>5
<1>8. Changed(h, o, w, s, g)
  BY <1>4, <1>5, <1>7 DEF Changed
<1> QED BY <1>6, <1>8 DEF g

\* Another parameter is an edit.
LEMMA EditParam ==
  ASSUME NEW h \in Objects!Heap, NEW o \in Objects!Object, NEW w
  PROVE  [h EXCEPT ![o].param = w] = Edit(h, o, w, h[o].list)
<1>1. [h[o] EXCEPT !.param = w] = [count |-> h[o].count, param |-> w, list |-> h[o].list]
  <2>1. h[o] \in Records
    BY Changes
  <2> QED BY <2>1 DEF Records
<1>2. [h EXCEPT ![o].param = w] = [h EXCEPT ![o] = [h[o] EXCEPT !.param = w]]
  BY DEF Objects!Heap
<1> QED BY <1>1, <1>2 DEF Edit

\* Another list is an edit.
LEMMA EditList ==
  ASSUME NEW h \in Objects!Heap, NEW o \in Objects!Object, NEW s
  PROVE  [h EXCEPT ![o].list = s] = Edit(h, o, h[o].param, s)
<1>1. [h[o] EXCEPT !.list = s] = [count |-> h[o].count, param |-> h[o].param, list |-> s]
  <2>1. h[o] \in Records
    BY Changes
  <2> QED BY <2>1 DEF Records
<1>2. [h EXCEPT ![o].list = s] = [h EXCEPT ![o] = [h[o] EXCEPT !.list = s]]
  BY DEF Objects!Heap
<1> QED BY <1>1, <1>2 DEF Edit

-----------------------------------------------------------------------------
\* What is held outside, in numbers.
LEMMA ExtTypes ==
  ASSUME NEW kept, NEW l \in Outside
  PROVE  /\ Ext(kept, l) \in Outside
         /\ \A x \in Objects!Object : l[x] \in Nat /\ Ext(kept, l)[x] \in Nat
         /\ \A x \in Objects!Object : x \in kept => (Ext(kept, l)[x] = 1 + l[x] /\ Ext(kept, l)[x] > 0)
         /\ \A x \in Objects!Object : x \notin kept => Ext(kept, l)[x] = l[x]
<1>1. \A x \in Objects!Object : l[x] \in Nat
  BY DEF Outside
<1>2. \A x \in Objects!Object : (IF x \in kept THEN 1 ELSE 0) + l[x] \in Nat
  BY <1>1
<1>3. Ext(kept, l) \in Outside
  BY <1>2 DEF Ext, Outside
<1>4. \A x \in Objects!Object : Ext(kept, l)[x] = (IF x \in kept THEN 1 ELSE 0) + l[x]
  BY DEF Ext
<1>5. ASSUME NEW x \in Objects!Object, x \in kept
      PROVE  Ext(kept, l)[x] = 1 + l[x] /\ Ext(kept, l)[x] > 0
  <2>1. Ext(kept, l)[x] = 1 + l[x] /\ l[x] \in Nat
    BY <1>1, <1>4, <1>5
  <2> QED BY <2>1
<1>6. ASSUME NEW x \in Objects!Object, x \notin kept PROVE Ext(kept, l)[x] = l[x]
  <2>1. Ext(kept, l)[x] = 0 + l[x] /\ l[x] \in Nat
    BY <1>1, <1>4, <1>6
  <2> QED BY <2>1
<1>7. \A x \in Objects!Object : Ext(kept, l)[x] \in Nat
  BY <1>3 DEF Outside
<1> QED BY <1>1, <1>3, <1>5, <1>6, <1>7

\* What the application keeps exists.
LEMMA Alive ==
  ASSUME NEW h, NEW kept, NEW l, Sound(h, kept, l), NEW o \in kept
  PROVE  /\ o \in Objects!Object /\ h[o].count > 0 /\ h[o].count \in Nat /\ kind[o] # None
         /\ h[o].param \in Objects!Object \cup {None, Plain, Null} /\ h[o].list \in Lists
         /\ MayHold(o, h[o].param, h[o].list)
<1>1. /\ o \in Objects!Object /\ h \in Objects!Heap /\ Lower(h) /\ Unborn(h) /\ l \in Outside
      /\ Balanced(h, <<>>, Ext(kept, l))
  BY DEF Sound, Shape
<1>2. h[o].count = Ext(kept, l)[o] + Occurs(o, <<>>) + Number(h, {o}) /\ Occurs(o, <<>>) = 0
  BY <1>1, OccursNone DEF Balanced
<1>3. Ext(kept, l)[o] > 0 /\ Ext(kept, l)[o] \in Nat /\ Number(h, {o}) \in Nat
  <2>1. Ext(kept, l)[o] > 0 /\ Ext(kept, l)[o] \in Nat
    BY <1>1, ExtTypes
  <2> QED BY <1>1, <2>1, NumberTypes
<1>4. h[o].count > 0 /\ h[o].count \in Nat
  BY <1>2, <1>3
<1>5. kind[o] # None
  BY <1>1, <1>4 DEF Unborn
<1>6. h[o].param \in Objects!Object \cup {None, Plain, Null} /\ h[o].list \in Lists
  BY <1>1, HeapTypes
<1>7. MayHold(o, h[o].param, h[o].list)
  BY <1>1, <1>6 DEF Lower, MayHold
<1> QED BY <1>1, <1>4, <1>5, <1>6, <1>7

\* What an object refers to exists.
LEMMA ReferredAlive ==
  ASSUME NEW h, NEW os, NEW ext \in Outside, Shape(h), Balanced(h, os, ext), os \in Lists,
         NEW o \in Objects!Object, NEW i \in DOMAIN Objects!Counted(h, o)
  PROVE  Objects!Counted(h, o)[i] \in Objects!Object /\ h[Objects!Counted(h, o)[i]].count > 0
<1> DEFINE x == Objects!Counted(h, o)[i]
<1>1. h \in Objects!Heap /\ Objects!Counted(h, o) \in Lists
  BY CountedTypes DEF Shape
<1>2. x \in Objects!Object /\ i \in 1 .. Len(Objects!Counted(h, o))
  BY <1>1 DEF Lists
<1>3. Occurs(x, Objects!Counted(h, o)) # 0
  BY <1>1, <1>2, OccursIn DEF Lists
<1> HIDE DEF x
<1>4. /\ Occurs(x, Objects!Counted(h, o)) \in Nat /\ Occurs(x, Objects!Counted(h, o)) <= Number(h, {x})
      /\ Number(h, {x}) \in Nat
  BY <1>1, <1>2, NumberOf
<1>5. h[x].count = ext[x] + Occurs(x, os) + Number(h, {x}) /\ ext[x] \in Nat /\ Occurs(x, os) \in Nat
  BY <1>2, Counted DEF Balanced, Outside, Lists
<1>6. h[x].count > 0
  BY <1>3, <1>4, <1>5
<1> QED BY <1>2, <1>6 DEF x

\* refDec() of what is accounted for leaves a sound heap.
LEMMA GivenBack ==
  ASSUME NEW h, Shape(h), NEW os \in Lists, NEW kept \in SUBSET Objects!Object, NEW l \in Outside,
         Balanced(h, os, Ext(kept, l))
  PROVE  LET g == Objects!RefDec(h, os)
         IN  /\ Sound(g, kept, l) /\ Faded(h, g)
             /\ \A x \in kept : g[x].param = h[x].param /\ g[x].list = h[x].list
<1>1. Ext(kept, l) \in Outside /\ \A x \in kept : x \in Objects!Object /\ Ext(kept, l)[x] > 0
  <2>1. Ext(kept, l) \in Outside
    BY ExtTypes
  <2>2. \A x \in Objects!Object : x \in kept => Ext(kept, l)[x] > 0
    BY ExtTypes
  <2> QED BY <2>1, <2>2
<1> QED BY <1>1, RefDecBalanced DEF Sound

-----------------------------------------------------------------------------
\* The calls, on one heap.

\* The count of an object of a sound heap.
LEMMA CountIs ==
  ASSUME NEW h, NEW kept, NEW l, Sound(h, kept, l), NEW x \in Objects!Object
  PROVE  /\ h[x].count = Ext(kept, l)[x] + Number(h, {x})
         /\ Ext(kept, l)[x] \in Nat /\ Number(h, {x}) \in Nat /\ h[x].count \in Nat
<1>1. h \in Objects!Heap /\ l \in Outside /\ Balanced(h, <<>>, Ext(kept, l))
  BY DEF Sound, Shape
<1>2. h[x].count = Ext(kept, l)[x] + Occurs(x, <<>>) + Number(h, {x}) /\ Occurs(x, <<>>) = 0
  BY <1>1, OccursNone DEF Balanced
<1>3. Ext(kept, l)[x] \in Nat
  BY <1>1, ExtTypes
<1>4. Number(h, {x}) \in Nat /\ h[x].count \in Nat
  BY <1>1, NumberTypes, HeapTypes
<1> QED BY <1>2, <1>3, <1>4

\* The same, of all objects.
LEMMA CountsAre ==
  ASSUME NEW h, NEW kept, NEW l, Sound(h, kept, l)
  PROVE  \A x \in Objects!Object : h[x].count = Ext(kept, l)[x] + Number(h, {x})
<1> SUFFICES ASSUME NEW x \in Objects!Object PROVE h[x].count = Ext(kept, l)[x] + Number(h, {x})
  OBVIOUS
<1> QED BY CountIs

\* A heap with such counts is sound.
LEMMA SoundIs ==
  ASSUME NEW h, Shape(h), NEW kept \in SUBSET Objects!Object, NEW l \in Outside,
         \A x \in Objects!Object : h[x].count = Ext(kept, l)[x] + Number(h, {x})
  PROVE  Sound(h, kept, l)
<1>1. Balanced(h, <<>>, Ext(kept, l))
  <2> SUFFICES ASSUME NEW x \in Objects!Object
               PROVE  h[x].count = Ext(kept, l)[x] + Occurs(x, <<>>) + Number(h, {x})
    BY DEF Balanced
  <2>1. Ext(kept, l)[x] \in Nat
    BY ExtTypes
  <2>2. Number(h, {x}) \in Nat /\ Occurs(x, <<>>) = 0
    BY NumberTypes, OccursNone DEF Shape
  <2> QED BY <2>1, <2>2
<1> QED BY <1>1 DEF Sound

\* Param::set of an object
LEMMA ObjectSet ==
  ASSUME NEW h, NEW kept, NEW l, Sound(h, kept, l), NEW o \in kept, NEW v \in kept, Below(v, o)
  PROVE  LET g == Objects!SetParam(h, o, v)
         IN  /\ Sound(g, kept, l) /\ g[o].param = v
             /\ \A x \in kept \ {o} : g[x].param = h[x].param
<1> DEFINE e == Objects!RefInc(h, v)
           s == Edit(e, o, v, e[o].list)
           old == h[o].param
<1>1. /\ Shape(h) /\ h \in Objects!Heap /\ kept \in SUBSET Objects!Object /\ l \in Outside
      /\ o \in Objects!Object /\ v \in Objects!Object /\ h[v].count > 0 /\ h[o].count > 0
      /\ old \in Objects!Object \cup {None, Plain, Null}
      /\ MayHold(o, old, h[o].list) /\ h[o].list \in Lists
      /\ h[o].count \in Nat /\ h[v].count \in Nat
  BY Alive DEF Sound, Shape
<1>2. /\ Shape(e) /\ e \in Objects!Heap
      /\ \A x \in Objects!Object :
           /\ e[x].count = h[x].count + Same(x, v) /\ e[x].param = h[x].param /\ e[x].list = h[x].list
           /\ Number(e, {x}) = Number(h, {x})
  <2> HIDE DEF e
  <2>1. Shape(e) /\ \A x \in Objects!Object :
           /\ e[x].count = h[x].count + Same(x, v) /\ e[x].param = h[x].param /\ e[x].list = h[x].list
           /\ Number(e, {x}) = Number(h, {x})
    BY <1>1, Incremented DEF e
  <2> QED BY <2>1 DEF Shape
<1> HIDE DEF e
<1>3. e[o].count > 0
  <2>1. e[o].count = h[o].count + Same(o, v) /\ Same(o, v) \in Nat
    BY <1>1, <1>2, SameIs
  <2> QED BY <1>1, <2>1
<1>4. MayHold(o, v, e[o].list) /\ e[o].param = old
  BY <1>1, <1>2 DEF MayHold
<1>5. Shape(s) /\ Changed(e, o, v, e[o].list, s)
  BY <1>1, <1>2, <1>3, <1>4, Edited
<1>6. [e EXCEPT ![o].param = v] = s
  BY <1>1, <1>2, EditParam
<1> HIDE DEF s
<1>7. \A x \in Objects!Object :
        /\ s[x].count = Ext(kept, l)[x] + Same(x, old) + Number(s, {x})
        /\ Number(s, {x}) \in Nat /\ Same(x, old) \in Nat /\ Ext(kept, l)[x] \in Nat
  <2> SUFFICES ASSUME NEW x \in Objects!Object
               PROVE  /\ s[x].count = Ext(kept, l)[x] + Same(x, old) + Number(s, {x})
                      /\ Number(s, {x}) \in Nat /\ Same(x, old) \in Nat /\ Ext(kept, l)[x] \in Nat
    OBVIOUS
  <2>1. /\ h[x].count = Ext(kept, l)[x] + Number(h, {x})
        /\ Ext(kept, l)[x] \in Nat /\ Number(h, {x}) \in Nat
    BY CountIs
  <2>2. Number(s, {x}) \in Nat /\ Same(x, old) \in Nat /\ Same(x, v) \in Nat
    BY <1>5, NumberTypes, SameIs DEF Shape
  <2>3. s[x].count = h[x].count + Same(x, v)
    BY <1>2, <1>5 DEF Changed
  <2>4. /\ Number(s, {x}) + Listed(o, e[o].list, x) + Same(x, old)
             = Number(h, {x}) + Listed(o, e[o].list, x) + Same(x, v)
        /\ Listed(o, e[o].list, x) \in Nat
    BY <1>2, <1>4, <1>5 DEF Changed
  <2> HIDE DEF old
  <2> QED BY <2>1, <2>2, <2>3, <2>4
<1>8. \A x \in Objects!Object \ {o} : s[x].param = h[x].param
  BY <1>2, <1>5 DEF Changed
<1>9. CASE old \in Objects!Object
  <2>1. Objects!SetParam(h, o, v) = Objects!RefDec(s, <<old>>)
    BY <1>1, <1>6, <1>9, NoneAssumption DEF Objects!SetParam, e
  <2>2. Balanced(s, <<old>>, Ext(kept, l))
    <3> SUFFICES ASSUME NEW x \in Objects!Object
                 PROVE  s[x].count = Ext(kept, l)[x] + Occurs(x, <<old>>) + Number(s, {x})
      BY DEF Balanced
    <3>1. Occurs(x, <<old>>) = Same(x, old)
      BY OccursOne, SameIs
    <3> QED BY <1>7, <3>1
  <2>3. <<old>> \in Lists
    BY <1>9 DEF Lists
  <2>4. /\ Sound(Objects!RefDec(s, <<old>>), kept, l)
        /\ \A x \in kept : Objects!RefDec(s, <<old>>)[x].param = s[x].param
    BY <1>1, <1>5, <2>2, <2>3, GivenBack
  <2> QED BY <1>1, <1>5, <1>8, <2>1, <2>4 DEF Changed
<1>10. CASE old \notin Objects!Object
  <2>1. Objects!SetParam(h, o, v) = s
    BY <1>1, <1>6, <1>10 DEF Objects!SetParam, e
  <2>2. \A x \in Objects!Object : s[x].count = Ext(kept, l)[x] + Number(s, {x})
    <3> SUFFICES ASSUME NEW x \in Objects!Object PROVE s[x].count = Ext(kept, l)[x] + Number(s, {x})
      OBVIOUS
    <3>1. Same(x, old) = 0
      BY <1>10, SameIs
    <3>2. s[x].count = Ext(kept, l)[x] + Same(x, old) + Number(s, {x})
          /\ Number(s, {x}) \in Nat /\ Ext(kept, l)[x] \in Nat
      BY <1>7
    <3> QED BY <3>1, <3>2
  <2>3. Sound(s, kept, l)
    BY <1>1, <1>5, <2>2, SoundIs
  <2> QED BY <1>1, <1>5, <1>8, <2>1, <2>3 DEF Changed
<1> QED BY <1>9, <1>10

\* One more count of p is lost.
LEMMA Leaks ==
  ASSUME NEW l \in Outside, NEW p \in Objects!Object \cup {None, Plain, Null}
  PROVE  /\ Objects!Leak(l, p) \in Outside
         /\ \A x \in Objects!Object : Objects!Leak(l, p)[x] = l[x] + Same(x, p) /\ l[x] \in Nat
<1>1. CASE p \in Objects!Object
  <2>1. Objects!Leak(l, p) = [l EXCEPT ![p] = @ + 1]
    BY <1>1 DEF Objects!Leak
  <2>2. \A x \in Objects!Object : l[x] \in Nat
    BY DEF Outside
  <2>3. [l EXCEPT ![p] = @ + 1] \in Outside
    BY <1>1, <2>2 DEF Outside
  <2>4. \A x \in Objects!Object : [l EXCEPT ![p] = @ + 1][x] = IF x = p THEN l[x] + 1 ELSE l[x]
    BY <1>1 DEF Outside
  <2> SUFFICES ASSUME NEW x \in Objects!Object PROVE Objects!Leak(l, p)[x] = l[x] + Same(x, p)
    BY <2>1, <2>2, <2>3
  <2>5. CASE x = p
    BY <2>1, <2>4, <2>5, SameIs
  <2>6. CASE x # p
    <3>1. Same(x, p) = 0 /\ Objects!Leak(l, p)[x] = l[x] /\ l[x] \in Nat
      BY <2>1, <2>2, <2>4, <2>6, SameIs
    <3> QED BY <3>1
  <2> QED BY <2>5, <2>6
<1>2. CASE p \notin Objects!Object
  <2>1. Objects!Leak(l, p) = l
    BY <1>2 DEF Objects!Leak
  <2>2. \A x \in Objects!Object : l[x] \in Nat /\ Same(x, p) = 0
    BY <1>2, SameIs DEF Outside
  <2>3. \A x \in Objects!Object : l[x] = l[x] + Same(x, p)
    BY <2>2
  <2> QED BY <2>1, <2>2, <2>3
<1> QED BY <1>1, <1>2

\* What a parameter becomes that is not an object; the count of the object it
\* was is lost.
Put(h, o, w) == [h EXCEPT ![o].param = w]

\* the parameters that are not objects
Others == {None, Plain, Null}

\* It keeps the balance when the count is lost.
LEMMA ParamLost ==
  ASSUME NEW h, NEW kept, NEW l, Sound(h, kept, l), NEW o \in kept, NEW w \in Others
  PROVE  /\ Sound(Put(h, o, w), kept, Objects!Leak(l, h[o].param)) /\ Put(h, o, w)[o].param = w
         /\ \A x \in kept \ {o} : Put(h, o, w)[x].param = h[x].param
         /\ Shape(Put(h, o, w))
         /\ \A x \in Objects!Object : Put(h, o, w)[x].count = h[x].count
         /\ \A x \in Objects!Object : Number(Put(h, o, w), {x}) + Same(x, h[o].param) = Number(h, {x})
<1> DEFINE g == Put(h, o, w)
           old == h[o].param
           m == Objects!Leak(l, old)
<1>1. /\ Shape(h) /\ h \in Objects!Heap /\ kept \in SUBSET Objects!Object /\ l \in Outside
      /\ o \in Objects!Object /\ h[o].count > 0 /\ h[o].list \in Lists
      /\ old \in Objects!Object \cup {None, Plain, Null}
      /\ MayHold(o, old, h[o].list)
  BY Alive DEF Sound, Shape
<1>2. w \notin Objects!Object /\ w \in {None, Plain, Null}
  BY NoneAssumption DEF Others
<1>3. g = Edit(h, o, w, h[o].list)
  BY <1>1, EditParam DEF Put
<1>4. Shape(g) /\ Changed(h, o, w, h[o].list, g)
  <2>1. MayHold(o, w, h[o].list)
    BY <1>1, <1>2 DEF MayHold
  <2> HIDE DEF g
  <2> QED BY <1>1, <1>3, <2>1, Edited
<1> HIDE DEF g
<1>5. \A x \in Objects!Object : Number(g, {x}) + Same(x, old) = Number(h, {x})
  <2> SUFFICES ASSUME NEW x \in Objects!Object PROVE Number(g, {x}) + Same(x, old) = Number(h, {x})
    OBVIOUS
  <2>1. Same(x, w) = 0 /\ Same(x, old) \in Nat
    BY <1>2, SameIs
  <2>2. Number(g, {x}) \in Nat /\ Number(h, {x}) \in Nat
    BY <1>1, <1>4, NumberTypes DEF Shape
  <2>3. /\ Number(g, {x}) + Listed(o, h[o].list, x) + Same(x, old)
             = Number(h, {x}) + Listed(o, h[o].list, x) + Same(x, w)
        /\ Listed(o, h[o].list, x) \in Nat
    BY <1>4 DEF Changed
  <2> HIDE DEF old
  <2> QED BY <2>1, <2>2, <2>3
<1>6. m \in Outside /\ \A x \in Objects!Object : m[x] = l[x] + Same(x, old)
  BY <1>1, Leaks
<1> HIDE DEF m
<1>7. \A x \in Objects!Object : g[x].count = Ext(kept, m)[x] + Number(g, {x})
  <2> SUFFICES ASSUME NEW x \in Objects!Object PROVE g[x].count = Ext(kept, m)[x] + Number(g, {x})
    OBVIOUS
  <2>1. /\ h[x].count = Ext(kept, l)[x] + Number(h, {x})
        /\ Ext(kept, l)[x] \in Nat /\ Number(h, {x}) \in Nat
    BY CountIs
  <2>2. Number(g, {x}) \in Nat /\ Same(x, old) \in Nat /\ l[x] \in Nat
    BY <1>1, <1>4, NumberTypes, SameIs DEF Shape, Outside
  <2>3. Ext(kept, m)[x] = Ext(kept, l)[x] + Same(x, old)
    <3>1. x \in kept => Ext(kept, m)[x] = 1 + m[x] /\ Ext(kept, l)[x] = 1 + l[x]
      BY <1>1, <1>6, ExtTypes
    <3>2. x \notin kept => Ext(kept, m)[x] = m[x] /\ Ext(kept, l)[x] = l[x]
      BY <1>1, <1>6, ExtTypes
    <3>3. m[x] = l[x] + Same(x, old)
      BY <1>6
    <3> HIDE DEF old
    <3> QED BY <2>2, <3>1, <3>2, <3>3
  <2>4. Number(g, {x}) + Same(x, old) = Number(h, {x}) /\ g[x].count = h[x].count
    BY <1>4, <1>5 DEF Changed
  <2> HIDE DEF old
  <2> QED BY <2>1, <2>2, <2>3, <2>4
<1>8. Sound(g, kept, m)
  BY <1>1, <1>4, <1>6, <1>7, SoundIs
<1>9. \A x \in kept \ {o} : g[x].param = h[x].param
  BY <1>1, <1>4 DEF Changed
<1> QED BY <1>4, <1>5, <1>8, <1>9 DEF g, m, Changed

\* Heaps are equal when their records are.
LEMMA SameHeap ==
  ASSUME NEW g \in Objects!Heap, NEW h \in Objects!Heap,
         \A x \in Objects!Object : g[x].count = h[x].count /\ g[x].param = h[x].param /\ g[x].list = h[x].list
  PROVE  g = h
<1>1. \A x \in Objects!Object : g[x] = h[x]
  BY HeapTypes
<1> QED BY <1>1 DEF Objects!Heap

\* A heap without the parameter of one object.
Clear(h, o) == Put(h, o, None)

\* Only the parameter of the object changes.
LEMMA Cleared ==
  ASSUME NEW h \in Objects!Heap, NEW o \in Objects!Object
  PROVE  /\ Clear(h, o) \in Objects!Heap /\ Clear(h, o)[o].param = None
         /\ \A x \in Objects!Object : /\ Clear(h, o)[x].count = h[x].count /\ Clear(h, o)[x].list = h[x].list
                                      /\ x # o => Clear(h, o)[x] = h[x]
<1> DEFINE r == [count |-> h[o].count, param |-> None, list |-> h[o].list]
<1>1. Clear(h, o) = [h EXCEPT ![o] = r]
  <2>1. Clear(h, o) = Edit(h, o, None, h[o].list)
    BY EditParam DEF Clear, Put
  <2> QED BY <2>1 DEF Edit
<1>2. r \in Records /\ r.count = h[o].count /\ r.list = h[o].list /\ r.param = None
  BY HeapTypes, Changes
<1> HIDE DEF r
<1>3. /\ [h EXCEPT ![o] = r] \in Objects!Heap
      /\ \A x \in Objects!Object : [h EXCEPT ![o] = r][x] = IF x = o THEN r ELSE h[x]
  BY <1>2, HeapChanged
<1> QED BY <1>1, <1>2, <1>3

\* One refDec() does to a heap without a parameter of an object that stays
\* what it does to the heap with it.
LEMMA DecCleared ==
  ASSUME NEW p \in Pairs, p[2] # <<>>, NEW o \in Objects!Object, NEW ext \in Outside, ext[o] > 0,
         Balanced(Clear(p[1], o), p[2], ext)
  PROVE  /\ <<Clear(p[1], o), p[2]>> \in Pairs
         /\ Dec(<<Clear(p[1], o), p[2]>>) = <<Clear(Dec(p)[1], o), Dec(p)[2]>>
<1> DEFINE h == p[1]
           os == p[2]
           c == Clear(h, o)
           v == Head(os)
           g == Dec(p)[1]
           gc == Clear(g, o)
           d == Dec(<<c, os>>)[1]
<1>1. /\ h \in Objects!Heap /\ os \in Lists /\ g \in Objects!Heap /\ c \in Objects!Heap
      /\ <<c, os>> \in Pairs /\ gc \in Objects!Heap /\ d \in Objects!Heap /\ v \in Objects!Object
      /\ h[v].count \in Nat
  <2>1. h \in Objects!Heap /\ os \in Lists /\ Dec(p) \in Pairs /\ g \in Objects!Heap
    BY HeapTypes, DecTypes
  <2> HIDE DEF h, os, g
  <2>2. c \in Objects!Heap /\ gc \in Objects!Heap
    BY <2>1, Cleared
  <2> HIDE DEF c
  <2>3. <<c, os>> \in Pairs
    BY <2>1, <2>2 DEF Pairs
  <2>4. Dec(<<c, os>>) \in Pairs
    BY <2>3, DecTypes DEF os
  <2>5. d \in Objects!Heap
    BY <2>4, HeapTypes
  <2>6. v \in Objects!Object
    BY <2>1 DEF Lists, os
  <2> HIDE DEF v
  <2> QED BY <2>1, <2>2, <2>3, <2>5, <2>6, HeapTypes
<1>2. /\ c[o].param = None
      /\ \A x \in Objects!Object : /\ c[x].count = h[x].count /\ c[x].list = h[x].list
                                   /\ x # o => c[x] = h[x]
  <2> HIDE DEF h
  <2> QED BY <1>1, Cleared
<1>3. /\ gc[o].param = None
      /\ \A x \in Objects!Object : /\ gc[x].count = g[x].count /\ gc[x].list = g[x].list
                                   /\ x # o => gc[x] = g[x]
  <2> HIDE DEF g
  <2> QED BY <1>1, Cleared
<1> HIDE DEF h, os, c, v, g, gc, d
<1>4. v = o => h[v].count > 1
  <2> SUFFICES ASSUME v = o PROVE h[o].count > 1
    OBVIOUS
  <2>1. c[o].count = ext[o] + Occurs(o, os) + Number(c, {o})
    BY DEF Balanced, c, os, h
  <2>2. Occurs(o, os) = Holds(v = o) + Occurs(o, Tail(os)) /\ Tail(os) \in Lists
    BY <1>1, OccursTail DEF Lists, os, v
  <2>3. Holds(v = o) = Same(v, o) /\ Same(v, o) = 1
    BY SameIs
  <2>4. Number(c, {o}) \in Nat /\ ext[o] \in Nat
    BY <1>1, NumberTypes DEF Outside
  <2>5. Occurs(o, Tail(os)) \in Nat
    BY <2>2, Counted DEF Lists
  <2>6. c[o].count = h[o].count
    BY <1>2
  <2>7. Occurs(o, os) = 1 + Occurs(o, Tail(os))
    BY <2>2, <2>3
  <2> QED BY <2>1, <2>4, <2>5, <2>6, <2>7
<1>5. CASE h[v].count > 1
  <2>1. g = [h EXCEPT ![v].count = @ - 1] /\ Dec(p)[2] = Tail(os)
    BY <1>5 DEF Dec, g, h, v, os
  <2>2. c[v].count = h[v].count
    BY <1>1, <1>2
  <2>3. c[v].count > 1 /\ c[v].count > 0 /\ h[v].count > 0
    BY <1>1, <1>5, <2>2
  <2>4. d = [c EXCEPT ![v].count = @ - 1] /\ Dec(<<c, os>>) = <<d, Tail(os)>>
    BY <2>3 DEF Dec, d, v
  <2>5. \A x \in Objects!Object :
          g[x].count = h[x].count - Same(x, v) /\ g[x].param = h[x].param /\ g[x].list = h[x].list
    <3>1. h \in Objects!Heap /\ v \in Objects!Object /\ h[v].count > 0
      BY <1>1, <2>3
    <3>2. \A x \in Objects!Object :
            /\ [h EXCEPT ![v].count = @ - 1][x].count = h[x].count - Same(x, v)
            /\ [h EXCEPT ![v].count = @ - 1][x].param = h[x].param
            /\ [h EXCEPT ![v].count = @ - 1][x].list = h[x].list
      BY <3>1, OneLess
    <3> QED BY <2>1, <3>2
  <2>6. \A x \in Objects!Object :
          d[x].count = c[x].count - Same(x, v) /\ d[x].param = c[x].param /\ d[x].list = c[x].list
    <3>1. c \in Objects!Heap /\ v \in Objects!Object /\ c[v].count > 0
      BY <1>1, <2>3
    <3>2. \A x \in Objects!Object :
            /\ [c EXCEPT ![v].count = @ - 1][x].count = c[x].count - Same(x, v)
            /\ [c EXCEPT ![v].count = @ - 1][x].param = c[x].param
            /\ [c EXCEPT ![v].count = @ - 1][x].list = c[x].list
      BY <3>1, OneLess
    <3> QED BY <2>4, <3>2
  <2>7. ASSUME NEW x \in Objects!Object
        PROVE  d[x].count = gc[x].count /\ d[x].param = gc[x].param /\ d[x].list = gc[x].list
    <3>1. d[x].count = gc[x].count /\ d[x].list = gc[x].list
      BY <1>2, <1>3, <2>5, <2>6
    <3>2. CASE x = o
      BY <1>2, <1>3, <2>6, <3>1, <3>2
    <3>3. CASE x # o
      BY <1>2, <1>3, <2>5, <2>6, <3>1, <3>3
    <3> QED BY <3>2, <3>3
  <2>8. d = gc
    BY <1>1, <2>7, SameHeap
  <2> QED BY <1>1, <2>1, <2>4, <2>8 DEF c, d, gc, g, os, h
<1>6. CASE ~(h[v].count > 1)
  <2>1. g = [h EXCEPT ![v] = Dead] /\ Dec(p)[2] = Objects!Counted(h, v) \o Tail(os)
    BY <1>6 DEF Dec, g, h, v, os
  <2>2. v # o
    BY <1>4, <1>6
  <2>3. c[v] = h[v] /\ ~(c[v].count > 1)
    BY <1>1, <1>2, <1>6, <2>2
  <2>4. d = [c EXCEPT ![v] = Dead] /\ Dec(<<c, os>>) = <<d, Objects!Counted(c, v) \o Tail(os)>>
    BY <2>3 DEF Dec, d, v
  <2>5. Objects!Counted(c, v) = Objects!Counted(h, v)
    BY <2>3 DEF Objects!Counted
  <2>6. \A x \in Objects!Object : g[x] = IF x = v THEN Dead ELSE h[x]
    BY <1>1, <2>1, HeapChanged, Changes
  <2>7. \A x \in Objects!Object : d[x] = IF x = v THEN Dead ELSE c[x]
    BY <1>1, <2>4, HeapChanged, Changes
  <2>8. ASSUME NEW x \in Objects!Object
        PROVE  d[x].count = gc[x].count /\ d[x].param = gc[x].param /\ d[x].list = gc[x].list
    <3>1. CASE x = v
      BY <1>3, <2>2, <2>6, <2>7, <3>1
    <3>2. CASE x = o
      <4>1. d[x] = c[x] /\ g[x] = h[x]
        BY <2>2, <2>6, <2>7, <3>2
      <4> QED BY <1>2, <1>3, <4>1, <3>2
    <3>3. CASE x # v /\ x # o
      <4>1. d[x] = c[x] /\ g[x] = h[x] /\ c[x] = h[x] /\ gc[x] = g[x]
        BY <1>2, <1>3, <2>6, <2>7, <3>3
      <4> QED BY <4>1
    <3> QED BY <3>1, <3>2, <3>3
  <2>9. d = gc
    BY <1>1, <2>8, SameHeap
  <2> QED BY <1>1, <2>1, <2>4, <2>5, <2>9 DEF c, d, gc, g, os, h
<1> QED BY <1>5, <1>6

\* The order of refDec() and of removing the parameter does not matter.
LEMMA ClearedLater ==
  ASSUME NEW h \in Objects!Heap, NEW os \in Lists, NEW o \in Objects!Object,
         NEW ext \in Outside, ext[o] > 0, Balanced(Clear(h, o), os, ext), DeadEmpty(Clear(h, o))
  PROVE  Clear(Objects!RefDec(h, os), o) = Objects!RefDec(Clear(h, o), os)
<1> DEFINE end == Objects!RefDecs[<<Clear(h, o), os>>]
           S == {p \in Pairs : /\ Balanced(Clear(p[1], o), p[2], ext) /\ DeadEmpty(Clear(p[1], o))
                               /\ Objects!RefDecs[<<Clear(p[1], o), p[2]>>] = end}
           g == Objects!RefDecs[<<h, os>>]
<1>1. <<h, os>> \in S
  BY DEF Pairs
<1>2. ASSUME NEW p \in S, p[2] # <<>> PROVE Dec(p) \in S
  <2> DEFINE q == <<Clear(p[1], o), p[2]>>
  <2>1. p \in Pairs /\ Balanced(Clear(p[1], o), p[2], ext) /\ DeadEmpty(Clear(p[1], o)) /\ Objects!RefDecs[q] = end
    OBVIOUS
  <2>2. q \in Pairs /\ Dec(q) = <<Clear(Dec(p)[1], o), Dec(p)[2]>>
    BY <1>2, <2>1, DecCleared
  <2>3. q[1] = Clear(p[1], o) /\ q[2] = p[2]
    OBVIOUS
  <2>4. Dec(p) \in Pairs
    BY <1>2, <2>1, DecTypes
  <2> HIDE DEF q, end, S
  <2>5. Balanced(Dec(q)[1], Dec(q)[2], ext) /\ DeadEmpty(Dec(q)[1])
    <3>1. Balanced(q[1], q[2], ext) /\ DeadEmpty(q[1]) /\ q[2] # <<>>
      BY <1>2, <2>1, <2>3
    <3> QED BY <2>2, <3>1, DecBalanced
  <2>6. Objects!RefDecs[q] = Objects!RefDecs[Dec(q)]
    BY <1>2, <2>2, <2>3, RefDecsUnfold
  <2>7. /\ Balanced(Clear(Dec(p)[1], o), Dec(p)[2], ext) /\ DeadEmpty(Clear(Dec(p)[1], o))
        /\ Objects!RefDecs[<<Clear(Dec(p)[1], o), Dec(p)[2]>>] = end
    BY <2>1, <2>2, <2>5, <2>6
  <2> QED BY <2>4, <2>7 DEF S
<1> HIDE DEF S
<1>3. <<g, <<>>>> \in S
  <2>1. S \in SUBSET Pairs
    BY DEF S
  <2> QED BY <1>1, <1>2, <2>1, RefDecsEnd
<1> HIDE DEF g, end
<1>4. g \in Objects!Heap /\ Objects!RefDecs[<<Clear(g, o), <<>>>>] = end
  BY <1>3 DEF S, Pairs
<1>5. Objects!RefDecs[<<Clear(g, o), <<>>>>] = Clear(g, o)
  <2>1. Clear(g, o) \in Objects!Heap
    BY <1>4, Cleared
  <2>2. <<Clear(g, o), <<>>>> \in Pairs
    BY <2>1, HeapTypes DEF Pairs
  <2> QED BY <2>2, RefDecsUnfold
<1> QED BY <1>4, <1>5 DEF g, end, Objects!RefDec

\* Without its parameter, which is to be given back, an object leaves the heap
\* balanced.
LEMMA ClearedBalanced ==
  ASSUME NEW h, NEW kept, NEW l, Sound(h, kept, l), NEW o \in kept
  PROVE  /\ Shape(Clear(h, o)) /\ Clear(h, o)[o].param = None
         /\ \A x \in kept \ {o} : Clear(h, o)[x].param = h[x].param
         /\ Balanced(Clear(h, o), <<h[o].param>>, Ext(kept, l))
<1> DEFINE old == h[o].param
           c == Clear(h, o)
<1>1. kept \in SUBSET Objects!Object /\ l \in Outside /\ h \in Objects!Heap
  BY DEF Sound, Shape
<1>2. /\ Shape(c) /\ c[o].param = None /\ \A x \in kept \ {o} : c[x].param = h[x].param
      /\ \A x \in Objects!Object : c[x].count = h[x].count
      /\ \A x \in Objects!Object : Number(c, {x}) + Same(x, old) = Number(h, {x})
  <2>0. None \in Others
    BY DEF Others
  <2>1. c = Put(h, o, None)
    BY DEF Clear
  <2> HIDE DEF c
  <2>2. /\ Put(h, o, None)[o].param = None
        /\ \A x \in kept \ {o} : Put(h, o, None)[x].param = h[x].param
        /\ Shape(Put(h, o, None))
        /\ \A x \in Objects!Object : Put(h, o, None)[x].count = h[x].count
        /\ \A x \in Objects!Object : Number(Put(h, o, None), {x}) + Same(x, h[o].param) = Number(h, {x})
    BY <2>0, ParamLost
  <2> QED BY <2>1, <2>2
<1>0. \A x \in Objects!Object : h[x].count = Ext(kept, l)[x] + Number(h, {x})
  BY CountsAre
<1> HIDE DEF c
<1>3. Balanced(c, <<old>>, Ext(kept, l))
  <2> SUFFICES ASSUME NEW x \in Objects!Object
               PROVE  c[x].count = Ext(kept, l)[x] + Occurs(x, <<old>>) + Number(c, {x})
    BY DEF Balanced
  <2>1. h[x].count = Ext(kept, l)[x] + Number(h, {x})
    BY <1>0
  <2>2. Occurs(x, <<old>>) = Same(x, old) /\ Same(x, old) \in Nat
    BY OccursOne, SameIs
  <2>3. c[x].count = h[x].count /\ Number(c, {x}) + Same(x, old) = Number(h, {x})
    BY <1>2
  <2>4. Number(c, {x}) \in Nat
    BY <1>2, NumberTypes DEF Shape
  <2>5. Ext(kept, l)[x] \in Nat /\ Number(h, {x}) \in Nat
    BY <1>1, ExtTypes, NumberTypes
  <2> HIDE DEF old
  <2> QED BY <2>1, <2>2, <2>3, <2>4, <2>5
<1> QED BY <1>2, <1>3 DEF c

\* ISPCDevice::removeParam gives the object back, then removes the parameter.
LEMMA ParamGivenBack ==
  ASSUME NEW h, NEW kept, NEW l, Sound(h, kept, l), NEW o \in kept, h[o].param \in Objects!Object
  PROVE  LET g == Clear(Objects!RefDec(h, <<h[o].param>>), o)
         IN  /\ Sound(g, kept, l) /\ g[o].param = None
             /\ \A x \in kept \ {o} : g[x].param = h[x].param
<1> DEFINE old == h[o].param
           c == Clear(h, o)
           g == Objects!RefDec(c, <<old>>)
<1>1. /\ h \in Objects!Heap /\ kept \in SUBSET Objects!Object /\ l \in Outside /\ o \in Objects!Object
      /\ <<old>> \in Lists
  BY DEF Sound, Shape, Lists
<1>2. /\ Shape(c) /\ c[o].param = None /\ \A x \in kept \ {o} : c[x].param = h[x].param
      /\ Balanced(c, <<old>>, Ext(kept, l))
  BY ClearedBalanced
<1> HIDE DEF c
<1>4. Sound(g, kept, l) /\ \A x \in kept : g[x].param = c[x].param
  BY <1>1, <1>2, GivenBack
<1>5. Clear(Objects!RefDec(h, <<old>>), o) = g
  <2>1. Ext(kept, l) \in Outside
    BY <1>1, ExtTypes
  <2>2. Ext(kept, l)[o] > 0
    BY <1>1, ExtTypes
  <2>3. DeadEmpty(c)
    BY <1>2 DEF Shape
  <2> HIDE DEF old
  <2> QED BY <1>1, <1>2, <2>1, <2>2, <2>3, ClearedLater DEF c
<1> HIDE DEF g
<1>6. g[o].param = None /\ \A x \in kept \ {o} : g[x].param = h[x].param
  BY <1>1, <1>2, <1>4
<1> QED BY <1>4, <1>5, <1>6

\* An object gets another list.
List(h, o, s) == [h EXCEPT ![o].list = s]

\* Some counts have gone up.
Grown(h, e) == \A x \in Objects!Object :
  /\ e[x].param = h[x].param /\ e[x].list = h[x].list /\ Number(e, {x}) = Number(h, {x})
  /\ e[x].count \in Nat /\ e[x].count >= h[x].count

\* What was in the list or was counted is in the list s or to be given back.
Moved(h, e, o, s, os) == \A x \in Objects!Object :
  Occurs(x, s) + Occurs(x, os) + h[x].count = Occurs(x, h[o].list) + e[x].count

\* Such a list keeps the balance.
LEMMA Relisted ==
  ASSUME NEW h, NEW kept, NEW l, Sound(h, kept, l), NEW o \in kept, kind[o] # "lights",
         NEW e, Shape(e), Grown(h, e), NEW s, NEW os \in Lists, MayHold(o, h[o].param, s), Moved(h, e, o, s, os)
  PROVE  /\ Shape(List(e, o, s)) /\ Balanced(List(e, o, s), os, Ext(kept, l))
         /\ \A x \in Objects!Object : List(e, o, s)[x].param = h[x].param
<1> DEFINE k == List(e, o, s)
           old == h[o].param
           was == h[o].list
<1>1. /\ h \in Objects!Heap /\ e \in Objects!Heap /\ kept \in SUBSET Objects!Object /\ l \in Outside
      /\ o \in Objects!Object /\ h[o].count > 0 /\ was \in Lists /\ s \in Lists /\ h[o].count \in Nat
  BY Alive DEF Sound, Shape, MayHold
<1>2. e[o].param = old /\ e[o].list = was /\ e[o].count > 0
  <2>1. e[o].param = old /\ e[o].list = was /\ e[o].count \in Nat /\ e[o].count >= h[o].count
    BY <1>1 DEF Grown
  <2> QED BY <1>1, <2>1
<1>3. k = Edit(e, o, old, s)
  <2>1. [e EXCEPT ![o].list = s] = Edit(e, o, e[o].param, s)
    BY <1>1, EditList
  <2> QED BY <1>2, <2>1 DEF List
<1>4. Shape(k) /\ Changed(e, o, old, s, k)
  <2> HIDE DEF k, old
  <2>1. MayHold(o, old, s)
    BY DEF old
  <2> QED BY <1>1, <1>2, <1>3, <2>1, Edited
<1> HIDE DEF k
<1>5. \A x \in Objects!Object : k[x].param = h[x].param
  <2>1. \A x \in Objects!Object : e[x].param = h[x].param
    BY DEF Grown
  <2>2. k[o].param = old /\ \A x \in Objects!Object : x # o => k[x] = e[x]
    BY <1>4 DEF Changed
  <2> QED BY <2>1, <2>2
<1>6. Balanced(k, os, Ext(kept, l))
  <2> SUFFICES ASSUME NEW x \in Objects!Object
               PROVE  k[x].count = Ext(kept, l)[x] + Occurs(x, os) + Number(k, {x})
    BY DEF Balanced
  <2>1. h[x].count = Ext(kept, l)[x] + Number(h, {x}) /\ h[x].count \in Nat /\ Ext(kept, l)[x] \in Nat
    BY CountIs
  <2>2. Number(k, {x}) + Listed(o, e[o].list, x) + Same(x, e[o].param)
          = Number(e, {x}) + Listed(o, s, x) + Same(x, old)
        /\ k[x].count = e[x].count
    BY <1>4 DEF Changed
  <2>3. Listed(o, e[o].list, x) = Occurs(x, was) /\ Listed(o, s, x) = Occurs(x, s)
    BY <1>2 DEF Listed
  <2>4. Occurs(x, was) \in Nat /\ Occurs(x, s) \in Nat /\ Occurs(x, os) \in Nat /\ Same(x, old) \in Nat
    BY <1>1, Counted, SameIs DEF Lists
  <2>5. Number(k, {x}) \in Nat /\ Number(e, {x}) = Number(h, {x}) /\ Number(h, {x}) \in Nat
        /\ e[x].count \in Nat
    BY <1>1, <1>4, NumberTypes DEF Shape, Grown
  <2>6. Occurs(x, s) + Occurs(x, os) + h[x].count = Occurs(x, was) + e[x].count
    BY DEF Moved
  <2>7. Number(k, {x}) + Occurs(x, was) = Number(h, {x}) + Occurs(x, s)
    <3>1. Number(k, {x}) + Occurs(x, was) + Same(x, old) = Number(h, {x}) + Occurs(x, s) + Same(x, old)
      BY <1>2, <2>2, <2>3, <2>5
    <3> HIDE DEF old, was
    <3> QED BY <2>4, <2>5, <3>1
  <2> HIDE DEF old, was
  <2> QED BY <2>1, <2>2, <2>4, <2>5, <2>6, <2>7
<1> QED BY <1>4, <1>5, <1>6 DEF k

\* refInc() of an object that exists
LEMMA RefIncGrown ==
  ASSUME NEW h, Shape(h), NEW v \in Objects!Object, h[v].count > 0
  PROVE  /\ Shape(Objects!RefInc(h, v)) /\ Grown(h, Objects!RefInc(h, v))
         /\ \A x \in Objects!Object : Objects!RefInc(h, v)[x].count = h[x].count + Same(x, v)
<1> DEFINE e == Objects!RefInc(h, v)
<1>1. Shape(e) /\ \A x \in Objects!Object :
           /\ e[x].count = h[x].count + Same(x, v) /\ e[x].param = h[x].param /\ e[x].list = h[x].list
           /\ Number(e, {x}) = Number(h, {x})
  BY Incremented
<1> HIDE DEF e
<1>2. ASSUME NEW x \in Objects!Object PROVE e[x].count \in Nat /\ e[x].count >= h[x].count
  <2>1. h[x].count \in Nat /\ Same(x, v) \in Nat /\ e[x].count = h[x].count + Same(x, v)
    BY <1>1, HeapTypes, SameIs DEF Shape
  <2> QED BY <2>1
<1>3. Grown(h, e)
  BY <1>1, <1>2 DEF Grown
<1> QED BY <1>1, <1>3 DEF e

\* Ref<>: an object is added to a list
LEMMA Pushed ==
  ASSUME NEW h, NEW kept, NEW l, Sound(h, kept, l), NEW o \in kept, NEW v \in kept,
         kind[o] # "lights", Below(v, o)
  PROVE  /\ Sound(Objects!Push(h, o, v), kept, l)
         /\ \A x \in kept : Objects!Push(h, o, v)[x].param = h[x].param
<1> DEFINE e == Objects!RefInc(h, v)
           s == Append(h[o].list, v)
<1>1. /\ Shape(h) /\ h \in Objects!Heap /\ kept \in SUBSET Objects!Object /\ l \in Outside
      /\ o \in Objects!Object /\ v \in Objects!Object /\ h[v].count > 0 /\ h[o].list \in Lists
      /\ MayHold(o, h[o].param, h[o].list)
  BY Alive DEF Sound, Shape
<1>2. Shape(e) /\ Grown(h, e) /\ \A x \in Objects!Object : e[x].count = h[x].count + Same(x, v)
  BY <1>1, RefIncGrown
<1>3. s \in Lists /\ \A i \in DOMAIN s : s[i] = v \/ (i \in DOMAIN h[o].list /\ s[i] = h[o].list[i])
  BY <1>1 DEF Lists
<1>4. MayHold(o, h[o].param, s)
  <2>1. /\ h[o].param \in Objects!Object \cup {None, Plain, Null}
        /\ h[o].param \in Objects!Object => Below(h[o].param, o)
        /\ \A i \in DOMAIN h[o].list : Below(h[o].list[i], o)
    BY <1>1 DEF MayHold
  <2>2. \A i \in DOMAIN s : Below(s[i], o)
    BY <1>3, <2>1
  <2> HIDE DEF s
  <2> QED BY <1>3, <2>1, <2>2 DEF MayHold
<1>5. ASSUME NEW x \in Objects!Object
      PROVE  Occurs(x, s) + Occurs(x, <<>>) + h[x].count = Occurs(x, h[o].list) + e[x].count
  <2>1. Occurs(x, s) = Occurs(x, h[o].list) + Holds(v = x) /\ Occurs(x, <<>>) = 0
    BY <1>1, OccursAppend, OccursNone DEF Lists
  <2>2. Holds(v = x) = Same(x, v) /\ Same(x, v) \in Nat
    BY SameIs
  <2>3. Occurs(x, h[o].list) \in Nat /\ h[x].count \in Nat
    BY <1>1, Counted, HeapTypes DEF Lists
  <2>4. e[x].count = h[x].count + Same(x, v)
    BY <1>2
  <2> HIDE DEF s, e
  <2> QED BY <2>1, <2>2, <2>3, <2>4
<1>6. Objects!Push(h, o, v) = List(e, o, s)
  <2>1. e \in Objects!Heap /\ e[o].list = h[o].list
    BY <1>1, <1>2 DEF Shape, Grown
  <2> HIDE DEF e
  <2>2. [e EXCEPT ![o].list = Append(@, v)] = [e EXCEPT ![o].list = Append(e[o].list, v)]
    BY <1>1, <2>1 DEF Objects!Heap
  <2> QED BY <2>1, <2>2 DEF Objects!Push, List, e
<1> HIDE DEF e, s
<1>7. <<>> \in Lists
  BY HeapTypes
<1>9. Moved(h, e, o, s, <<>>)
  BY <1>5 DEF Moved
<1>8. /\ Shape(List(e, o, s)) /\ Balanced(List(e, o, s), <<>>, Ext(kept, l))
      /\ \A x \in Objects!Object : List(e, o, s)[x].param = h[x].param
  BY <1>2, <1>4, <1>7, <1>9, Relisted
<1> QED BY <1>1, <1>6, <1>8 DEF Sound

\* std::find_if: the first of a list.
LEMMA FirstRemoved ==
  ASSUME NEW s \in Lists, NEW v \in ToSet(s)
  PROVE  \E k \in 1 .. Len(s) : /\ s[k] = v /\ \A j \in 1 .. k - 1 : s[j] # v
                                /\ Objects!RemoveFirst(s, v) = RemoveAt(s, k)
<1> DEFINE I == {i \in 1 .. Len(s) : s[i] = v}
<1>1. DOMAIN s = 1 .. Len(s) /\ Len(s) \in Nat
  BY DEF Lists
<1>2. I # {} /\ I \in SUBSET Nat /\ \E i \in 1 .. Len(s) : s[i] = v
  BY <1>1 DEF ToSet
<1>3. PICK k \in I : \A i \in I : i >= k
  <2> HIDE DEF I
  <2> QED BY <1>2, Least
<1>4. Min(I) = k
  <2>1. I \in SUBSET Nat
    BY <1>2
  <2> HIDE DEF I
  <2>2. k \in Nat /\ \A y \in I : k =< y
    BY <1>3, <2>1
  <2>3. \A x \in I : (\A y \in I : x =< y) => x = k
    BY <2>1, <2>2
  <2> QED BY <2>2, <2>3 DEF Min
<1>5. Objects!RemoveFirst(s, v) = Objects!RemoveAt(s, Min(I))
  <2>1. I # {} /\ \E i \in 1 .. Len(s) : s[i] = v
    BY <1>2
  <2>2. Objects!RemoveFirst(s, v) = Objects!RemoveAt(s, IF I # {} THEN Min(I) ELSE 0)
    BY <2>1 DEF Objects!RemoveFirst, Objects!SelectInSeq, Objects!Min, Min
  <2> HIDE DEF I
  <2> QED BY <2>1, <2>2
<1>6. Objects!RemoveAt(s, k) = RemoveAt(s, k)
  BY DEF Objects!RemoveAt, RemoveAt
<1>7. s[k] = v /\ k \in 1 .. Len(s)
  BY <1>3
<1>8. \A j \in 1 .. k - 1 : s[j] # v
  BY <1>1, <1>3
<1> QED BY <1>4, <1>5, <1>6, <1>7, <1>8

\* The items of a list that refer down still do when one is removed.
LEMMA RemovedIn ==
  ASSUME NEW s \in Lists, NEW k \in 1 .. Len(s)
  PROVE  /\ RemoveAt(s, k) \in Lists
         /\ \A i \in DOMAIN RemoveAt(s, k) : \E j \in DOMAIN s : RemoveAt(s, k)[i] = s[j]
<1> DEFINE r == RemoveAt(s, k)
<1>1. r \in Lists
  BY OccursRemoved DEF Lists
<1>2. ASSUME NEW i \in DOMAIN r PROVE \E j \in DOMAIN s : r[i] = s[j]
  <2> DEFINE x == r[i]
  <2>1. /\ Occurs(x, s) = Occurs(x, r) + Holds(s[k] = x)
        /\ Occurs(x, r) \in Nat /\ Holds(s[k] = x) \in Nat
    <3> HIDE DEF x
    <3>1. Occurs(x, s) = Occurs(x, r) + Holds(s[k] = x)
      BY OccursRemoved DEF Lists
    <3>2. Holds(s[k] = x) \in Nat
      BY DEF Holds
    <3> HIDE DEF r
    <3> QED BY <1>1, <3>1, <3>2, Counted DEF Lists
  <2>2. Occurs(x, r) # 0
    <3> HIDE DEF r
    <3>1. i \in 1 .. Len(r)
      BY <1>1, <1>2 DEF Lists
    <3> QED BY <1>1, <3>1, OccursIn DEF Lists
  <2>3. Occurs(x, s) # 0
    <3> HIDE DEF x, r
    <3> QED BY <2>1, <2>2
  <2> HIDE DEF x
  <2>4. \E j \in 1 .. Len(s) : s[j] = x
    BY <2>3, OccursIn DEF Lists
  <2>5. DOMAIN s = 1 .. Len(s)
    BY DEF Lists
  <2> QED BY <2>4, <2>5 DEF x
<1> QED BY <1>1, <1>2

\* A heap has grown by nothing.
LEMMA GrownSelf == ASSUME NEW h \in Objects!Heap PROVE Grown(h, h)
<1> SUFFICES ASSUME NEW x \in Objects!Object PROVE h[x].count \in Nat /\ h[x].count >= h[x].count
  BY DEF Grown
<1>1. h[x].count \in Nat
  BY HeapTypes
<1> QED BY <1>1

\* An object that is counted once more takes the place of others in a list.
LEMMA Replaced ==
  ASSUME NEW h, NEW kept, NEW l, Sound(h, kept, l), NEW o \in kept, kind[o] # "lights",
         NEW e, Shape(e), Grown(h, e), NEW s, NEW os \in Lists, MayHold(o, h[o].param, s),
         Moved(h, e, o, s, os)
  PROVE  /\ Sound(Objects!RefDec(List(e, o, s), os), kept, l)
         /\ \A x \in kept : Objects!RefDec(List(e, o, s), os)[x].param = h[x].param
<1> DEFINE k == List(e, o, s)
<1>1. Shape(k) /\ Balanced(k, os, Ext(kept, l)) /\ \A x \in Objects!Object : k[x].param = h[x].param
  BY Relisted
<1> HIDE DEF k
<1>2. kept \in SUBSET Objects!Object /\ l \in Outside
  BY DEF Sound
<1>3. /\ Sound(Objects!RefDec(k, os), kept, l)
      /\ \A x \in kept : Objects!RefDec(k, os)[x].param = k[x].param
  BY <1>1, <1>2, GivenBack
<1> QED BY <1>1, <1>2, <1>3 DEF k

\* std::find_if and erase
LEMMA Erased ==
  ASSUME NEW h, NEW kept, NEW l, Sound(h, kept, l), NEW o \in kept, NEW v \in kept, kind[o] # "lights"
  PROVE  /\ Sound(Objects!Erase(h, o, v), kept, l)
         /\ \A x \in kept : Objects!Erase(h, o, v)[x].param = h[x].param
<1> DEFINE was == h[o].list
<1>1. /\ Shape(h) /\ h \in Objects!Heap /\ kept \in SUBSET Objects!Object /\ l \in Outside
      /\ o \in Objects!Object /\ v \in Objects!Object /\ was \in Lists
      /\ MayHold(o, h[o].param, was)
  BY Alive DEF Sound, Shape
<1>2. Objects!ToSet(was) = ToSet(was)
  BY DEF Objects!ToSet, ToSet
<1>3. CASE v \notin ToSet(was)
  BY <1>2, <1>3 DEF Objects!Erase
<1>4. CASE v \in ToSet(was)
  <2>1. PICK k \in 1 .. Len(was) : was[k] = v /\ Objects!RemoveFirst(was, v) = RemoveAt(was, k)
    BY <1>1, <1>4, FirstRemoved
  <2> DEFINE s == RemoveAt(was, k)
  <2>2. s \in Lists /\ \A i \in DOMAIN s : \E j \in DOMAIN was : s[i] = was[j]
    BY <1>1, RemovedIn
  <2>3. ASSUME NEW x \in Objects!Object
        PROVE  Occurs(x, s) + Occurs(x, <<v>>) + h[x].count = Occurs(x, was) + h[x].count
    <3>1. Occurs(x, was) = Occurs(x, s) + Holds(was[k] = x)
      <4> HIDE DEF was
      <4> QED BY <1>1, OccursRemoved DEF Lists
    <3>2. Occurs(x, <<v>>) = Holds(v = x) /\ Holds(v = x) \in Nat
      BY OccursOne DEF Holds
    <3>3. Occurs(x, s) \in Nat /\ h[x].count \in Nat
      <4> HIDE DEF s
      <4> QED BY <1>1, <2>2, Counted, HeapTypes DEF Lists
    <3>4. Occurs(x, was) = Occurs(x, s) + Holds(v = x)
      BY <2>1, <3>1
    <3> HIDE DEF s, was
    <3> QED BY <3>2, <3>3, <3>4
  <2>4. Objects!Erase(h, o, v) = Objects!RefDec(List(h, o, s), <<v>>)
    <3>1. [h EXCEPT ![o].list = Objects!RemoveFirst(@, v)] = [h EXCEPT ![o].list = Objects!RemoveFirst(was, v)]
      BY <1>1 DEF Objects!Heap
    <3> HIDE DEF was
    <3>2. [h EXCEPT ![o].list = Objects!RemoveFirst(@, v)] = List(h, o, s)
      BY <2>1, <3>1 DEF List
    <3> HIDE DEF s
    <3> QED BY <1>2, <1>4, <3>2 DEF Objects!Erase, was
  <2> HIDE DEF s
  <2>5. MayHold(o, h[o].param, s)
    <3>1. \A i \in DOMAIN s : kind[o] # "lights" => Below(s[i], o)
      BY <1>1, <2>2 DEF MayHold
    <3> QED BY <1>1, <2>2, <3>1 DEF MayHold
  <2>6. Moved(h, h, o, s, <<v>>) /\ <<v>> \in Lists /\ Grown(h, h)
    <3>1. <<v>> \in Lists /\ Grown(h, h)
      BY <1>1, GrownSelf DEF Lists
    <3> QED BY <2>3, <3>1 DEF Moved
  <2>7. /\ Sound(Objects!RefDec(List(h, o, s), <<v>>), kept, l)
        /\ \A x \in kept : Objects!RefDec(List(h, o, s), <<v>>)[x].param = h[x].param
    <3> HIDE DEF was
    <3> QED BY <1>1, <2>5, <2>6, Replaced
  <2> QED BY <2>4, <2>7
<1> QED BY <1>3, <1>4

\* Geometry::setMaterial
WithMaterial(h, o, v) ==
  Objects!RefDec([Objects!RefInc(h, v) EXCEPT ![o].list = <<v>>], h[o].list)

\* The material takes the place of the one before.
LEMMA MaterialSet ==
  ASSUME NEW h, NEW kept, NEW l, Sound(h, kept, l), NEW o \in kept, NEW v \in kept,
         kind[o] # "lights", Below(v, o)
  PROVE  /\ Sound(WithMaterial(h, o, v), kept, l)
         /\ \A x \in kept : WithMaterial(h, o, v)[x].param = h[x].param
<1> DEFINE e == Objects!RefInc(h, v)
           s == <<v>>
           was == h[o].list
<1>1. /\ Shape(h) /\ h \in Objects!Heap /\ kept \in SUBSET Objects!Object /\ l \in Outside
      /\ o \in Objects!Object /\ v \in Objects!Object /\ h[v].count > 0 /\ was \in Lists
      /\ MayHold(o, h[o].param, was)
  BY Alive DEF Sound, Shape
<1>2. Shape(e) /\ Grown(h, e) /\ \A x \in Objects!Object : e[x].count = h[x].count + Same(x, v)
  BY <1>1, RefIncGrown
<1>3. s \in Lists /\ \A i \in DOMAIN s : s[i] = v
  BY <1>1 DEF Lists
<1>4. MayHold(o, h[o].param, s)
  <2>1. \A i \in DOMAIN s : Below(s[i], o)
    BY <1>3
  <2> HIDE DEF s
  <2> QED BY <1>1, <1>3, <2>1 DEF MayHold
<1>5. ASSUME NEW x \in Objects!Object
      PROVE  Occurs(x, s) + Occurs(x, was) + h[x].count = Occurs(x, was) + e[x].count
  <2>1. Occurs(x, s) = Holds(v = x)
    BY OccursOne
  <2>2. Holds(v = x) = Same(x, v) /\ Same(x, v) \in Nat
    BY SameIs
  <2>3. Occurs(x, was) \in Nat /\ h[x].count \in Nat
    BY <1>1, Counted, HeapTypes DEF Lists
  <2>4. e[x].count = h[x].count + Same(x, v)
    BY <1>2
  <2> HIDE DEF s, e, was
  <2> QED BY <2>1, <2>2, <2>3, <2>4
<1>6. Moved(h, e, o, s, was)
  BY <1>5 DEF Moved
<1>7. WithMaterial(h, o, v) = Objects!RefDec(List(e, o, s), was)
  BY DEF WithMaterial, List
<1> HIDE DEF e, s, was
<1>8. /\ Sound(Objects!RefDec(List(e, o, s), was), kept, l)
      /\ \A x \in kept : Objects!RefDec(List(e, o, s), was)[x].param = h[x].param
  BY <1>1, <1>2, <1>4, <1>6, Replaced
<1> QED BY <1>7, <1>8

\* freeObject
LEMMA Released ==
  ASSUME NEW h, NEW kept, NEW l, Sound(h, kept, l), NEW o \in kept
  PROVE  /\ Sound(Objects!RefDec(h, <<o>>), kept \ {o}, l)
         /\ \A x \in kept \ {o} : Objects!RefDec(h, <<o>>)[x].param = h[x].param
<1> DEFINE rest == kept \ {o}
           os == <<o>>
<1>1. /\ Shape(h) /\ h \in Objects!Heap /\ rest \in SUBSET Objects!Object /\ l \in Outside
      /\ o \in Objects!Object /\ os \in Lists
  BY Alive DEF Sound, Shape, Lists
<1>2. Balanced(h, os, Ext(rest, l))
  <2> SUFFICES ASSUME NEW x \in Objects!Object
               PROVE  h[x].count = Ext(rest, l)[x] + Occurs(x, os) + Number(h, {x})
    BY DEF Balanced
  <2>1. h[x].count = Ext(kept, l)[x] + Number(h, {x}) /\ Number(h, {x}) \in Nat
    BY CountIs
  <2>2. Occurs(x, os) = Same(x, o)
    BY OccursOne, SameIs
  <2>3. Ext(kept, l)[x] = Ext(rest, l)[x] + Same(x, o) /\ Ext(rest, l)[x] \in Nat /\ Same(x, o) \in Nat
    <3>1. l[x] \in Nat /\ Ext(rest, l)[x] \in Nat /\ Same(x, o) \in Nat
      BY <1>1, ExtTypes, SameIs
    <3>2. /\ x \in kept => Ext(kept, l)[x] = 1 + l[x]
          /\ x \notin kept => Ext(kept, l)[x] = l[x]
      BY <1>1, ExtTypes
    <3>3. /\ x \in rest => Ext(rest, l)[x] = 1 + l[x]
          /\ x \notin rest => Ext(rest, l)[x] = l[x]
      <4> HIDE DEF rest
      <4> QED BY <1>1, ExtTypes
    <3>4. CASE x = o
      <4>1. Same(x, o) = 1 /\ Ext(kept, l)[x] = 1 + l[x] /\ Ext(rest, l)[x] = l[x]
        BY <3>2, <3>3, <3>4, SameIs
      <4> HIDE DEF rest
      <4> QED BY <3>1, <4>1
    <3>5. CASE x # o
      <4>1. Same(x, o) = 0 /\ Ext(kept, l)[x] = Ext(rest, l)[x]
        BY <3>2, <3>3, <3>5, SameIs
      <4> HIDE DEF rest
      <4> QED BY <3>1, <4>1
    <3> QED BY <3>4, <3>5
  <2> HIDE DEF rest, os
  <2> QED BY <2>1, <2>2, <2>3
<1> HIDE DEF rest, os
<1>3. Sound(Objects!RefDec(h, os), rest, l) /\ \A x \in rest : Objects!RefDec(h, os)[x].param = h[x].param
  BY <1>1, <1>2, GivenBack
<1> QED BY <1>3 DEF rest, os

\* Only the list of the object changes.
LEMMA ListIs ==
  ASSUME NEW h \in Objects!Heap, NEW o \in Objects!Object, NEW s \in Lists
  PROVE  /\ List(h, o, s) \in Objects!Heap /\ List(h, o, s)[o].list = s
         /\ \A x \in Objects!Object : /\ List(h, o, s)[x].count = h[x].count
                                      /\ List(h, o, s)[x].param = h[x].param
         /\ \A x \in Objects!Object : x # o => List(h, o, s)[x].list = h[x].list
<1> DEFINE r == [count |-> h[o].count, param |-> h[o].param, list |-> s]
<1>1. List(h, o, s) = [h EXCEPT ![o] = r]
  <2>1. List(h, o, s) = Edit(h, o, h[o].param, s)
    BY EditList DEF List
  <2> QED BY <2>1 DEF Edit
<1>2. r \in Records /\ r.count = h[o].count /\ r.param = h[o].param /\ r.list = s
  BY HeapTypes, Changes
<1> HIDE DEF r
<1>3. /\ [h EXCEPT ![o] = r] \in Objects!Heap
      /\ \A x \in Objects!Object : [h EXCEPT ![o] = r][x] = IF x = o THEN r ELSE h[x]
  BY <1>2, HeapChanged
<1> QED BY <1>1, <1>2, <1>3

\* A volume that is not in a model is added by RemoveVolume::run and erased.
LEMMA EraseAfterPush ==
  ASSUME NEW h, NEW kept, NEW l, Sound(h, kept, l), NEW o \in kept, NEW v \in kept,
         v \notin ToSet(h[o].list)
  PROVE  Objects!Erase(Objects!Push(h, o, v), o, v) = h
<1> DEFINE e == Objects!RefInc(h, v)
           was == h[o].list
           s == Append(was, v)
           p == Objects!Push(h, o, v)
           k == List(p, o, was)
<1>1. /\ Shape(h) /\ h \in Objects!Heap /\ o \in Objects!Object /\ v \in Objects!Object
      /\ h[v].count > 0 /\ was \in Lists
  BY Alive DEF Sound, Shape
<1>2. /\ e \in Objects!Heap
      /\ \A x \in Objects!Object : /\ e[x].count = h[x].count + Same(x, v)
                                   /\ e[x].param = h[x].param /\ e[x].list = h[x].list
  <2>1. Shape(e) /\ Grown(h, e) /\ \A x \in Objects!Object : e[x].count = h[x].count + Same(x, v)
    BY <1>1, RefIncGrown
  <2> HIDE DEF e
  <2> QED BY <2>1 DEF Shape, Grown
<1>3. s \in Lists /\ Len(s) = Len(was) + 1 /\ Len(was) \in Nat /\ s[Len(was) + 1] = v
      /\ \A i \in 1 .. Len(was) : s[i] = was[i]
  BY <1>1 DEF Lists
<1>4. p = List(e, o, s)
  <2> HIDE DEF e
  <2>1. [e EXCEPT ![o].list = Append(@, v)] = [e EXCEPT ![o].list = Append(e[o].list, v)]
    BY <1>1, <1>2 DEF Objects!Heap
  <2>2. e[o].list = was
    BY <1>1, <1>2
  <2> QED BY <2>1, <2>2 DEF Objects!Push, List, e
<1> HIDE DEF e, s, p
<1>5. /\ p \in Objects!Heap /\ p[o].list = s
      /\ \A x \in Objects!Object : p[x].count = e[x].count /\ p[x].param = e[x].param
      /\ \A x \in Objects!Object : x # o => p[x].list = e[x].list
  <2>1. e \in Objects!Heap /\ o \in Objects!Object /\ s \in Lists
    BY <1>1, <1>2, <1>3
  <2>2. /\ List(e, o, s) \in Objects!Heap /\ List(e, o, s)[o].list = s
        /\ \A x \in Objects!Object : /\ List(e, o, s)[x].count = e[x].count
                                     /\ List(e, o, s)[x].param = e[x].param
        /\ \A x \in Objects!Object : x # o => List(e, o, s)[x].list = e[x].list
    BY <2>1, ListIs
  <2> QED BY <1>4, <2>2
<1>6. v \in ToSet(s)
  <2>1. DOMAIN s = 1 .. Len(s)
    BY <1>3 DEF Lists
  <2> QED BY <1>3, <2>1 DEF ToSet
<1>7. Objects!RemoveFirst(s, v) = was
  <2>1. PICK i \in 1 .. Len(s) : s[i] = v /\ Objects!RemoveFirst(s, v) = RemoveAt(s, i)
    BY <1>3, <1>6, FirstRemoved
  <2>2. \A j \in 1 .. Len(was) : was[j] # v
    BY <1>1 DEF ToSet, Lists
  <2>3. i = Len(was) + 1
    <3>1. i \in 1 .. Len(was) \/ i = Len(was) + 1
      BY <1>3
    <3> HIDE DEF was
    <3> QED BY <1>3, <2>1, <2>2, <3>1
  <2>4. RemoveAt(s, Len(was) + 1) = was
    <3> HIDE DEF was
    <3>1. SubSeq(s, 1, (Len(was) + 1) - 1) = was
      BY <1>1, <1>3 DEF Lists
    <3>2. SubSeq(s, (Len(was) + 1) + 1, Len(s)) = <<>>
      BY <1>1, <1>3 DEF Lists
    <3>3. was \o <<>> = was
      BY <1>1 DEF Lists
    <3> QED BY <3>1, <3>2, <3>3 DEF RemoveAt
  <2> QED BY <2>1, <2>3, <2>4
<1>8. Objects!Erase(p, o, v) = Objects!RefDec(k, <<v>>)
  <2>1. [p EXCEPT ![o].list = Objects!RemoveFirst(@, v)] = [p EXCEPT ![o].list = Objects!RemoveFirst(s, v)]
    BY <1>1, <1>5 DEF Objects!Heap
  <2>2. [p EXCEPT ![o].list = Objects!RemoveFirst(@, v)] = k
    BY <1>7, <2>1 DEF List
  <2>3. v \in Objects!ToSet(p[o].list)
    BY <1>5, <1>6 DEF Objects!ToSet, ToSet
  <2> HIDE DEF k
  <2> QED BY <2>2, <2>3 DEF Objects!Erase
<1>9. /\ k \in Objects!Heap
      /\ \A x \in Objects!Object : /\ k[x].count = h[x].count + Same(x, v)
                                   /\ k[x].param = h[x].param /\ k[x].list = h[x].list
  <2>1. /\ k \in Objects!Heap /\ k[o].list = was
        /\ \A x \in Objects!Object : k[x].count = p[x].count /\ k[x].param = p[x].param
        /\ \A x \in Objects!Object : x # o => k[x].list = p[x].list
    <3> HIDE DEF was
    <3> QED BY <1>1, <1>5, ListIs
  <2> HIDE DEF k
  <2> QED BY <1>2, <1>5, <2>1
<1> HIDE DEF k, was
<1>10. k[v].count > 1 /\ k[v].count > 0
  <2>1. k[v].count = h[v].count + Same(v, v) /\ Same(v, v) = 1 /\ h[v].count \in Nat
    <3>1. v \in Objects!Object /\ h \in Objects!Heap
      BY <1>1
    <3>2. Same(v, v) = 1
      BY <3>1, SameIs
    <3>3. h[v].count \in Nat
      BY <3>1, HeapTypes
    <3>4. k[v].count = h[v].count + Same(v, v)
      BY <3>1, <1>9
    <3> QED BY <3>2, <3>3, <3>4
  <2> QED BY <1>1, <2>1
<1> DEFINE b == [k EXCEPT ![v].count = @ - 1]
<1>11. Objects!RefDec(k, <<v>>) = b
  <2>0. <<v>> \in Lists
    BY <1>1 DEF Lists
  <2>1. <<k, <<v>>>> \in Pairs
    BY <1>9, <2>0 DEF Pairs
  <2>2. Dec(<<k, <<v>>>>) = <<b, <<>>>>
    BY <1>10 DEF Dec
  <2>3. b \in Objects!Heap
    BY <1>1, <1>9, <1>10, OneLess
  <2> HIDE DEF b
  <2>4. <<b, <<>>>> \in Pairs
    BY <2>3, HeapTypes DEF Pairs
  <2>5. Objects!RefDecs[<<k, <<v>>>>] = Objects!RefDecs[<<b, <<>>>>]
    BY <2>1, <2>2, RefDecsUnfold
  <2>6. Objects!RefDecs[<<b, <<>>>>] = b
    BY <2>4, RefDecsUnfold
  <2> QED BY <2>5, <2>6 DEF Objects!RefDec
<1>12. b = h
  <2>1. b \in Objects!Heap /\ \A x \in Objects!Object :
           /\ b[x].count = k[x].count - Same(x, v)
           /\ b[x].param = k[x].param
           /\ b[x].list = k[x].list
    BY <1>1, <1>9, <1>10, OneLess
  <2> HIDE DEF b
  <2>2. ASSUME NEW x \in Objects!Object
        PROVE  b[x].count = h[x].count /\ b[x].param = h[x].param /\ b[x].list = h[x].list
    <3>1. h[x].count \in Nat /\ Same(x, v) \in Nat
      BY <1>1, HeapTypes, SameIs
    <3>2. b[x].count = k[x].count - Same(x, v) /\ k[x].count = h[x].count + Same(x, v)
      BY <1>9, <2>1
    <3>3. b[x].count = h[x].count
      BY <3>1, <3>2
    <3> QED BY <1>9, <2>1, <3>3
  <2> QED BY <1>1, <2>1, <2>2, SameHeap
<1> QED BY <1>8, <1>11, <1>12 DEF p

-----------------------------------------------------------------------------
(* A new object: Sound with the kinds as a parameter.                      *)

RefsOf(K, h) == [d \in Objects!Object |->
  (IF K[d] = "lights" THEN <<>> ELSE h[d].list)
    \o (IF h[d].param \in Objects!Object THEN <<h[d].param>> ELSE <<>>)]
BelowOf(K, x, d) == K[x] # None /\ K[d] # None /\ Objects!Height[K[x]] < Objects!Height[K[d]]
LowerOf(K, h) == \A d \in Objects!Object :
  /\ h[d].param \in Objects!Object => BelowOf(K, h[d].param, d)
  /\ K[d] = "lights" \/ \A i \in DOMAIN h[d].list : BelowOf(K, h[d].list[i], d)
Settled(K, h, kept, l) ==
  /\ h \in Objects!Heap /\ DeadEmpty(h) /\ kept \subseteq Objects!Object /\ l \in Outside
  /\ LowerOf(K, h)
  /\ \A x \in Objects!Object : K[x] = None => h[x].count = 0
  /\ \A x \in Objects!Object :
       h[x].count = Ext(kept, l)[x] + Occurs(x, <<>>) + Total(RefsOf(K, h), {x})

\* The references of a heap are a table, whatever the kinds are.
LEMMA RefsOfTypes ==
  ASSUME NEW K, NEW h \in Objects!Heap
  PROVE  RefsOf(K, h) \in Tables
<1> SUFFICES ASSUME NEW d \in Objects!Object
             PROVE  (IF K[d] = "lights" THEN <<>> ELSE h[d].list)
                      \o (IF h[d].param \in Objects!Object THEN <<h[d].param>> ELSE <<>>) \in Lists
  BY DEF RefsOf, Tables
<1>1. h[d].list \in Lists /\ h[d].param \in Objects!Object => <<h[d].param>> \in Lists
  BY HeapTypes DEF Lists
<1>2. <<>> \in Lists
  BY HeapTypes
<1>3. \A s, t \in Lists : s \o t \in Lists
  BY DEF Lists
<1> QED BY <1>1, <1>2, <1>3, HeapTypes

\* What the constructor counts of the items of an array of kind k.
Items(k, s, x) == IF k = "lights" THEN 0 ELSE Occurs(x, s)

\* The object n is made, of kind k and with the list s.
Made(h, g, n, k, s) ==
  /\ g \in Objects!Heap /\ g[n] = [count |-> 1, param |-> None, list |-> s]
  /\ \A x \in Objects!Object : x # n =>
       /\ g[x].count = h[x].count + Items(k, s, x)
       /\ g[x].param = h[x].param
       /\ g[x].list = h[x].list

\* A heap stays sound when an object is made.
LEMMA Born ==
  ASSUME NEW K \in [Objects!Object -> DOMAIN Objects!Height \cup {None}], NEW h, NEW kept, NEW l,
         Settled(K, h, kept, l), NEW n \in Objects!Object, K[n] = None,
         NEW k \in DOMAIN Objects!Height, NEW s \in Lists,
         \A i \in DOMAIN s : s[i] \in kept,
         k = "lights" \/ \A i \in DOMAIN s : Objects!Height[K[s[i]]] < Objects!Height[k],
         NEW g, Made(h, g, n, k, s)
  PROVE  Settled([K EXCEPT ![n] = k], g, kept \cup {n}, l)
<1> DEFINE M == [K EXCEPT ![n] = k]
           T == RefsOf(K, h)
           U == RefsOf(M, g)
           all == kept \cup {n}
<1>1. /\ h \in Objects!Heap /\ g \in Objects!Heap /\ T \in Tables /\ U \in Tables
      /\ kept \subseteq Objects!Object /\ l \in Outside /\ all \subseteq Objects!Object
  BY RefsOfTypes DEF Settled, Made
<1>2. /\ M[n] = k /\ k # None /\ \A x \in Objects!Object : x # n => M[x] = K[x]
      /\ \A x \in Objects!Object : K[x] # None => x # n
  BY NoneAssumption
<1>3. ASSUME NEW x \in Objects!Object
      PROVE  /\ h[x].count = Ext(kept, l)[x] + Total(T, {x})
             /\ h[x].count \in Nat /\ Ext(kept, l)[x] \in Nat /\ Total(T, {x}) \in Nat /\ l[x] \in Nat
             /\ Total(U, {x}) \in Nat /\ Items(k, s, x) \in Nat
  <2>1. h[x].count = Ext(kept, l)[x] + Occurs(x, <<>>) + Total(T, {x}) /\ Occurs(x, <<>>) = 0
    BY OccursNone DEF Settled
  <2> HIDE DEF T, U
  <2>2. h[x].count \in Nat /\ Ext(kept, l)[x] \in Nat /\ Total(T, {x}) \in Nat /\ l[x] \in Nat
        /\ Total(U, {x}) \in Nat
    BY <1>1, HeapTypes, ExtTypes, AllPlacesFinite
  <2>3. Items(k, s, x) \in Nat
    <3>1. Occurs(x, s) \in Nat
      BY Counted DEF Lists
    <3> QED BY <3>1 DEF Items
  <2> QED BY <2>1, <2>2, <2>3
<1> HIDE DEF M
<1>4. h[n].count = 0 /\ h[n] = Dead /\ n \notin kept /\ l[n] = 0 /\ Total(T, {n}) = 0
  <2>1. h[n].count = 0
    BY DEF Settled
  <2>2. h[n] = Dead
    BY <2>1 DEF Settled, DeadEmpty
  <2>3. Ext(kept, l)[n] = 0 /\ Total(T, {n}) = 0
    <3> HIDE DEF T, U
    <3>1. /\ h[n].count = Ext(kept, l)[n] + Total(T, {n})
          /\ Ext(kept, l)[n] \in Nat /\ Total(T, {n}) \in Nat
      BY <1>3
    <3> QED BY <2>1, <3>1
  <2>4. n \notin kept
    BY <1>1, <2>3, ExtTypes
  <2>5. l[n] = 0
    BY <1>1, <2>3, <2>4, ExtTypes
  <2> QED BY <2>1, <2>2, <2>3, <2>4, <2>5
<1>5. T[n] = <<>> /\ U[n] = IF k = "lights" THEN <<>> ELSE s
  <2>1. h[n].list = <<>> /\ h[n].param = None /\ g[n].list = s /\ g[n].param = None
    BY <1>4 DEF Made, Dead
  <2>2. None \notin Objects!Object
    BY NoneAssumption
  <2>3. <<>> \o <<>> = <<>> /\ s \o <<>> = s
    BY DEF Lists
  <2> QED BY <1>2, <2>1, <2>2, <2>3 DEF RefsOf
<1>6. \A d \in Objects!Object \ {n} : U[d] = T[d]
  BY <1>2 DEF RefsOf, Made
<1>7. ASSUME NEW x \in Objects!Object PROVE Total(U, {x}) = Total(T, {x}) + Items(k, s, x)
  <2>1. Total(U, {x}) + In({x}, T[n]) = Total(T, {x}) + In({x}, U[n])
    <3> HIDE DEF T, U
    <3> QED BY <1>1, <1>6, TotalChanged
  <2>2. In({x}, <<>>) = 0
    <3>1. <<>> \in Lists
      BY HeapTypes
    <3> QED BY <3>1, InOne, OccursNone
  <2>3. In({x}, U[n]) = Items(k, s, x)
    <3>1. In({x}, s) = Occurs(x, s)
      BY InOne
    <3>2. CASE k = "lights"
      BY <1>5, <2>2, <3>2 DEF Items
    <3>3. CASE k # "lights"
      BY <1>5, <3>1, <3>3 DEF Items
    <3> QED BY <3>2, <3>3
  <2> HIDE DEF T, U
  <2>4. Total(U, {x}) \in Nat /\ Total(T, {x}) \in Nat /\ Items(k, s, x) \in Nat
    BY <1>3
  <2>5. In({x}, T[n]) = 0
    BY <1>5, <2>2
  <2> QED BY <2>1, <2>3, <2>4, <2>5
<1> HIDE DEF T, U
<1>8. ASSUME NEW x \in Objects!Object, x \notin kept PROVE Items(k, s, x) = 0
  <2>1. \A i \in 1 .. Len(s) : s[i] # x
    <3>1. DOMAIN s = 1 .. Len(s)
      BY DEF Lists
    <3> QED BY <1>8, <3>1
  <2>2. Occurs(x, s) = 0
    BY <2>1, OccursIn DEF Lists
  <2> QED BY <2>2 DEF Items
<1>9. ASSUME NEW x \in kept PROVE h[x].count > 0 /\ K[x] # None
  <2>1. Ext(kept, l)[x] > 0 /\ x \in Objects!Object
    BY <1>1, ExtTypes
  <2>2. h[x].count > 0
    <3>1. /\ h[x].count = Ext(kept, l)[x] + Total(T, {x})
          /\ Ext(kept, l)[x] \in Nat /\ Total(T, {x}) \in Nat
      BY <1>3, <2>1
    <3> QED BY <2>1, <3>1
  <2>3. K[x] = None => h[x].count = 0
    BY <2>1 DEF Settled
  <2> QED BY <2>2, <2>3
<1>10. DeadEmpty(g)
  <2> SUFFICES ASSUME NEW x \in Objects!Object, g[x].count = 0 PROVE g[x] = Dead
    BY DEF DeadEmpty
  <2>1. x # n
    BY DEF Made
  <2>2. h[x].count = 0 /\ g[x].param = h[x].param /\ g[x].list = h[x].list
    <3>1. g[x].count = h[x].count + Items(k, s, x) /\ g[x].param = h[x].param /\ g[x].list = h[x].list
      BY <2>1 DEF Made
    <3>2. h[x].count \in Nat /\ Items(k, s, x) \in Nat
      BY <1>3
    <3> QED BY <3>1, <3>2
  <2>3. h[x] = Dead
    BY <2>2 DEF Settled, DeadEmpty
  <2>4. g[x].param = None /\ g[x].list = <<>>
    BY <2>2, <2>3 DEF Dead
  <2>5. g[x] = [count |-> g[x].count, param |-> g[x].param, list |-> g[x].list]
    BY <1>1, HeapTypes
  <2> QED BY <2>4, <2>5 DEF Dead
<1>11. LowerOf(M, g)
  <2>1. \A x, d \in Objects!Object : BelowOf(K, x, d) => BelowOf(M, x, d)
    BY <1>2 DEF BelowOf
  <2> SUFFICES ASSUME NEW d \in Objects!Object
               PROVE  /\ g[d].param \in Objects!Object => BelowOf(M, g[d].param, d)
                      /\ M[d] = "lights" \/ \A i \in DOMAIN g[d].list : BelowOf(M, g[d].list[i], d)
    BY DEF LowerOf
  <2>2. CASE d # n
    <3>1. g[d].param = h[d].param /\ g[d].list = h[d].list /\ M[d] = K[d]
      BY <1>2, <2>2 DEF Made
    <3>2. /\ h[d].param \in Objects!Object => BelowOf(K, h[d].param, d)
          /\ K[d] = "lights" \/ \A i \in DOMAIN h[d].list : BelowOf(K, h[d].list[i], d)
      BY DEF Settled, LowerOf
    <3>3. \A i \in DOMAIN h[d].list : h[d].list[i] \in Objects!Object
      <4>1. h[d].list \in Lists
        BY <1>1, HeapTypes
      <4> QED BY <4>1 DEF Lists
    <3> QED BY <2>1, <3>1, <3>2, <3>3
  <2>3. CASE d = n
    <3>1. g[d].param = None /\ g[d].list = s /\ M[d] = k
      BY <1>2, <2>3 DEF Made
    <3>2. ASSUME k # "lights", NEW i \in DOMAIN s PROVE BelowOf(M, s[i], d)
      <4>1. s[i] \in kept /\ s[i] \in Objects!Object /\ K[s[i]] # None /\ M[s[i]] = K[s[i]]
        BY <1>1, <1>2, <1>9
      <4>2. Objects!Height[K[s[i]]] < Objects!Height[k]
        BY <3>2
      <4> QED BY <1>2, <3>1, <4>1, <4>2 DEF BelowOf
    <3> QED BY <3>1, <3>2, NoneAssumption
  <2> QED BY <2>2, <2>3
<1>12. ASSUME NEW x \in Objects!Object, M[x] = None PROVE g[x].count = 0
  <2>1. x # n /\ K[x] = None
    BY <1>2, <1>12
  <2>2. h[x].count = 0 /\ x \notin kept
    BY <1>9, <2>1 DEF Settled
  <2>3. g[x].count = h[x].count + Items(k, s, x)
    BY <2>1 DEF Made
  <2> QED BY <1>8, <2>2, <2>3
<1>13. ASSUME NEW x \in Objects!Object
       PROVE  g[x].count = Ext(all, l)[x] + Occurs(x, <<>>) + Total(U, {x})
  <2>1. Occurs(x, <<>>) = 0
    BY OccursNone
  <2>2. CASE x = n
    <3>1. Items(k, s, n) = 0
      BY <1>4, <1>8
    <3>2. Total(U, {n}) = 0
      BY <1>4, <1>7, <3>1
    <3>3. Ext(all, l)[n] = 1 + l[n]
      BY <1>1, ExtTypes
    <3>4. g[n].count = 1
      BY DEF Made
    <3> QED BY <1>4, <2>1, <2>2, <3>2, <3>3, <3>4
  <2>3. CASE x # n
    <3>1. g[x].count = h[x].count + Items(k, s, x)
      BY <2>3 DEF Made
    <3>2. Ext(all, l)[x] = Ext(kept, l)[x]
      <4>1. x \in kept => Ext(kept, l)[x] = 1 + l[x] /\ Ext(all, l)[x] = 1 + l[x]
        BY <1>1, ExtTypes
      <4>2. x \notin kept => Ext(kept, l)[x] = l[x] /\ Ext(all, l)[x] = l[x]
        BY <1>1, <2>3, ExtTypes
      <4> QED BY <4>1, <4>2
    <3> HIDE DEF all
    <3>3. /\ h[x].count = Ext(kept, l)[x] + Total(T, {x}) /\ Ext(kept, l)[x] \in Nat
          /\ Total(T, {x}) \in Nat /\ Items(k, s, x) \in Nat
      BY <1>3
    <3>4. Total(U, {x}) = Total(T, {x}) + Items(k, s, x)
      BY <1>7
    <3> QED BY <2>1, <3>1, <3>2, <3>3, <3>4
  <2> QED BY <2>2, <2>3
<1> HIDE DEF all
<1>14. Settled(M, g, all, l)
  BY <1>1, <1>10, <1>11, <1>12, <1>13 DEF Settled, U
<1> QED BY <1>14 DEF M, all

\* refInc() of a new object
LEMMA NewMade ==
  ASSUME NEW h \in Objects!Heap, NEW n \in Objects!Object, h[n] = Dead, NEW k
  PROVE  Made(h, Objects!RefInc(h, n), n, k, <<>>)
<1> DEFINE r == [count |-> 1, param |-> None, list |-> <<>>]
           g == [h EXCEPT ![n] = r]
<1>1. Objects!RefInc(h, n) = g
  <2>1. [h EXCEPT ![n].count = @ + 1] = [h EXCEPT ![n] = [h[n] EXCEPT !.count = h[n].count + 1]]
    BY DEF Objects!Heap
  <2>2. [h[n] EXCEPT !.count = h[n].count + 1] = r
    BY DEF Dead
  <2> HIDE DEF r
  <2> QED BY <2>1, <2>2 DEF Objects!RefInc
<1>2. r \in Records
  BY HeapTypes, Changes
<1> HIDE DEF g
<1>3. g \in Objects!Heap /\ \A x \in Objects!Object : g[x] = IF x = n THEN r ELSE h[x]
  <2> HIDE DEF r
  <2> QED BY <1>2, HeapChanged DEF g
<1>4. ASSUME NEW x \in Objects!Object, x # n
      PROVE  /\ g[x].count = h[x].count + Items(k, <<>>, x)
             /\ g[x].param = h[x].param /\ g[x].list = h[x].list
  <2>1. Items(k, <<>>, x) = 0
    BY OccursNone DEF Items
  <2>2. g[x] = h[x] /\ h[x].count \in Nat
    BY <1>3, <1>4, HeapTypes
  <2> QED BY <2>1, <2>2
<1>5. Made(h, g, n, k, <<>>)
  BY <1>3, <1>4 DEF Made
<1> QED BY <1>1, <1>5

\* The constructor of Data
Created(k, h, n, s) ==
  [(IF k = "objects" THEN Objects!RefIncs(h, s) ELSE h) EXCEPT ![n].count = 1, ![n].list = s]

\* It makes an array that counts its items, or does not.
LEMMA DataMade ==
  ASSUME NEW h \in Objects!Heap, NEW n \in Objects!Object, h[n] = Dead,
         NEW k \in {"lights", "objects"}, NEW s \in Lists, \A i \in DOMAIN s : s[i] # n
  PROVE  Made(h, Created(k, h, n, s), n, k, s)
<1> DEFINE e == IF k = "objects" THEN Objects!RefIncs(h, s) ELSE h
           r == [count |-> 1, param |-> None, list |-> s]
           g == [e EXCEPT ![n] = r]
<1>1. ASSUME NEW x \in Objects!Object
      PROVE  /\ e[x] \in Records
             /\ e[x].count = h[x].count + Items(k, s, x)
             /\ e[x].param = h[x].param /\ e[x].list = h[x].list
  <2>1. /\ h[x] = [count |-> h[x].count, param |-> h[x].param, list |-> h[x].list]
        /\ h[x].count \in Nat /\ Occurs(x, s) \in Nat /\ h[x] \in Records
        /\ h[x].param \in Objects!Object \cup {None, Plain, Null} /\ h[x].list \in Lists
    BY HeapTypes, Changes, Counted DEF Lists
  <2>2. CASE k = "objects"
    <3>6. \A S : Objects!Cardinality(S) = Cardinality(S)
      BY DEF Objects!Cardinality, Cardinality
    <3>1. e[x] = [h[x] EXCEPT !.count = h[x].count + Occurs(x, s)]
      <4>1. e[x] = [h[x] EXCEPT !.count = h[x].count + Objects!Cardinality({i \in DOMAIN s : s[i] = x})]
        BY <2>2 DEF Objects!RefIncs
      <4> HIDE DEF e
      <4> QED BY <3>6, <4>1 DEF Occurs
    <3>2. e[x] = [count |-> h[x].count + Occurs(x, s), param |-> h[x].param, list |-> h[x].list]
      BY <2>1, <3>1 DEF Records
    <3>3. h[x].count + Occurs(x, s) \in Nat
      BY <2>1
    <3>4. e[x] \in Records
      BY <2>1, <3>2, <3>3, Changes
    <3>5. Items(k, s, x) = Occurs(x, s)
      BY <2>2 DEF Items
    <3> QED BY <3>2, <3>4, <3>5
  <2>3. CASE k = "lights"
    <3>1. e[x] = h[x] /\ Items(k, s, x) = 0
      BY <2>3 DEF Items
    <3> QED BY <2>1, <3>1
  <2> QED BY <2>2, <2>3
<1>2. e \in Objects!Heap
  <2>1. DOMAIN e = Objects!Object /\ e = [x \in Objects!Object |-> e[x]]
    BY DEF Objects!RefIncs, Objects!Heap
  <2>2. Objects!Heap = [Objects!Object -> Records]
    BY DEF Objects!Heap, Records, Lists
  <2> HIDE DEF e
  <2> QED BY <1>1, <2>1, <2>2
<1>3. e[n].param = None
  <2>1. e[n].param = h[n].param
    BY <1>1
  <2> QED BY <2>1 DEF Dead
<1> HIDE DEF e
<1>4. r \in Records
  BY HeapTypes, Changes
<1>5. Created(k, h, n, s) = g
  <2>1. Created(k, h, n, s) = [e EXCEPT ![n].count = 1, ![n].list = s]
    BY DEF Created, e
  <2>2. e[n] \in Records
    BY <1>2, Changes
  <2>3. [[e[n] EXCEPT !.count = 1] EXCEPT !.list = s] = r
    <3> DEFINE q == [e[n] EXCEPT !.count = 1]
    <3>1. q = [count |-> 1, param |-> e[n].param, list |-> e[n].list]
      BY <2>2 DEF Records
    <3>2. q \in Records /\ q.count = 1 /\ q.param = None
      BY <1>3, <2>2, <3>1, Changes
    <3> HIDE DEF q
    <3>3. [q EXCEPT !.list = s] = [count |-> q.count, param |-> q.param, list |-> s]
      BY <3>2 DEF Records
    <3> QED BY <3>2, <3>3 DEF q
  <2>4. [e EXCEPT ![n].count = 1, ![n].list = s] = [e EXCEPT ![n] = [[e[n] EXCEPT !.count = 1] EXCEPT !.list = s]]
    BY <1>2 DEF Objects!Heap
  <2> HIDE DEF r
  <2> QED BY <2>1, <2>3, <2>4
<1> HIDE DEF g
<1>6. g \in Objects!Heap /\ \A x \in Objects!Object : g[x] = IF x = n THEN r ELSE e[x]
  <2> HIDE DEF r
  <2> QED BY <1>2, <1>4, HeapChanged DEF g
<1>7. Made(h, g, n, k, s)
  BY <1>1, <1>6 DEF Made
<1> QED BY <1>5, <1>7

\* The next handle has not been used.
LEMMA Fresh ==
  ASSUME Objects!MayCreate
  PROVE  Objects!fresh \in Objects!Object /\ kind[Objects!fresh] = None
<1> DEFINE I == {o \in Objects!Object : kind[o] = None}
<1>1. I # {} /\ I \in SUBSET Nat
  BY DEF Objects!MayCreate, Objects!Object
<1>2. PICK n \in I : \A o \in I : o >= n
  <2> HIDE DEF I
  <2> QED BY <1>1, Least
<1>3. \A p \in 1 .. n - 1 : kind[p] # None
  BY <1>2, ObjectsAssumption DEF Objects!Object
<1> QED BY <1>2, <1>3 DEF Objects!fresh

\* A sound heap, in the kinds of the state.
LEMMA SettledNow ==
  ASSUME NEW h, NEW kept, NEW l, Sound(h, kept, l)
  PROVE  Settled(kind, h, kept, l)
<1>1. Refs(h) = RefsOf(kind, h)
  BY DEF Refs, RefsOf, Objects!Counted
<1>2. LowerOf(kind, h)
  BY DEF Sound, Shape, Lower, LowerOf, Below, BelowOf
<1>3. \A x \in Objects!Object :
        h[x].count = Ext(kept, l)[x] + Occurs(x, <<>>) + Total(RefsOf(kind, h), {x})
  BY <1>1 DEF Sound, Balanced, Number
<1> QED BY <1>2, <1>3 DEF Sound, Shape, Unborn, Settled

\* The next heap of a worker is sound in the next kinds.
LEMMA WorkerSettled ==
  ASSUME Settled(kind', heap', app', leaked') PROVE Sound(heap, app, leaked)'
<1>1. Refs(heap)' = RefsOf(kind', heap')
  BY DEF Refs, RefsOf, Objects!Counted
<1>2. Lower(heap)'
  BY DEF Settled, Lower, LowerOf, Below, BelowOf
<1>3. Balanced(heap, <<>>, Ext(app, leaked))'
  BY <1>1 DEF Settled, Balanced, Number
<1> QED BY <1>2, <1>3 DEF Sound, Shape, Unborn, Settled

\* The next heap of the local device is sound in the next kinds.
LEMMA LocalSettled ==
  ASSUME Settled(kind', localHeap', app', leakedLocal') PROVE Sound(localHeap, app, leakedLocal)'
<1>1. Refs(localHeap)' = RefsOf(kind', localHeap')
  BY DEF Refs, RefsOf, Objects!Counted
<1>2. Lower(localHeap)'
  BY DEF Settled, Lower, LowerOf, Below, BelowOf
<1>3. Balanced(localHeap, <<>>, Ext(app, leakedLocal))'
  BY <1>1 DEF Settled, Balanced, Number
<1> QED BY <1>2, <1>3 DEF Sound, Shape, Unborn, Settled

\* What the calls do to a heap while the objects keep their kinds.
LEMMA SoundNext ==
  ASSUME kind' = kind, Sound(localHeap', app', leakedLocal'), Sound(heap', app', leaked')
  PROVE  Sound(localHeap, app, leakedLocal)' /\ Sound(heap, app, leaked)'
<1>1. Settled(kind, localHeap', app', leakedLocal') /\ Settled(kind, heap', app', leaked')
  BY SettledNow
<1>2. Settled(kind', localHeap', app', leakedLocal') /\ Settled(kind', heap', app', leaked')
  BY <1>1
<1> QED BY <1>2, WorkerSettled, LocalSettled

-----------------------------------------------------------------------------
(* Every call keeps the invariant.                                         *)

\* Calls that lose no count.
LEMMA QuietKept ==
  ASSUME ObjectInv, kind' = kind, leakedLocal' = leakedLocal, leaked' = leaked, app' \subseteq app,
         readded' \in BOOLEAN, readded => readded',
         Sound(localHeap', app', leakedLocal), Sound(heap', app', leaked),
         \A x \in app' : localHeap'[x].param = heap'[x].param,
         \A x \in app' : \/ heap'[x].param = heap[x].param \/ ~Objects!OnMaster(x)
                         \/ heap'[x].param \in Objects!Object \cup {Null},
         masterParam' \in [Objects!Object -> {None, Plain}],
         \A x \in Objects!Object : masterParam'[x] = masterParam[x] \/ (masterParam'[x] = None /\ x \notin app'),
         heap = localHeap /\ ~readded' => heap' = localHeap'
  PROVE  ObjectInv'
<1>1. Sound(localHeap, app, leakedLocal)' /\ Sound(heap, app, leaked)'
  <2>1. Sound(localHeap', app', leakedLocal') /\ Sound(heap', app', leaked')
    OBVIOUS
  <2> QED BY <2>1, SoundNext
<1>2. ObjectTypes'
  BY DEF ObjectInv, ObjectTypes
<1>3. SameParams'
  BY DEF ObjectInv, SameParams
<1>4. Objects!WorkersAgree'
  BY DEF ObjectInv, Objects!WorkersAgree
<1>5. Objects!MasterKnows'
  <2> SUFFICES ASSUME NEW o \in app'
               PROVE  /\ Objects!OnMaster(o)' /\ heap'[o].param = Plain => masterParam'[o] = Plain
                      /\ Objects!OnMaster(o)' /\ heap'[o].param = None => masterParam'[o] = None
    BY DEF Objects!MasterKnows
  <2>1. o \in app /\ o \in Objects!Object
    BY DEF ObjectInv, Sound
  <2>2. /\ Objects!OnMaster(o) /\ heap[o].param = Plain => masterParam[o] = Plain
        /\ Objects!OnMaster(o) /\ heap[o].param = None => masterParam[o] = None
    BY <2>1 DEF ObjectInv, Objects!MasterKnows
  <2>3. Objects!OnMaster(o)' <=> Objects!OnMaster(o)
    BY DEF Objects!OnMaster
  <2>4. masterParam'[o] = masterParam[o]
    BY <2>1
  <2>5. heap'[o].param = heap[o].param \/ ~Objects!OnMaster(o) \/ heap'[o].param \notin {None, Plain}
    BY NoneAssumption
  <2> QED BY <2>2, <2>3, <2>4, <2>5
<1> QED BY <1>1, <1>2, <1>3, <1>4, <1>5 DEF ObjectInv

\* What the invariant says of what the application keeps.
LEMMA KeptFacts ==
  ASSUME ObjectInv
  PROVE  /\ Sound(localHeap, app, leakedLocal) /\ Sound(heap, app, leaked)
         /\ app \subseteq Objects!Object /\ readded \in BOOLEAN
         /\ masterParam \in [Objects!Object -> {None, Plain}]
         /\ \A x \in app : localHeap[x].param = heap[x].param /\ kind[x] # None
<1>1. Sound(heap, app, leaked)
  BY DEF ObjectInv
<1>2. \A x \in app : kind[x] # None
  <2> SUFFICES ASSUME NEW x \in app PROVE kind[x] # None
    OBVIOUS
  <2> QED BY <1>1, Alive
<1> QED BY <1>2 DEF ObjectInv, ObjectTypes, SameParams, Sound

\* SetParam<OSPObject>::run
LEMMA SetObjectKept ==
  ASSUME ObjectInv, NEW o, NEW v, Objects!SetObject(o, v)
  PROVE  ObjectInv'
<1> DEFINE g == Objects!SetParam(heap, o, v)
           gl == Objects!SetParam(localHeap, o, v)
<1>1. /\ o \in app /\ v \in app /\ heap' = g /\ localHeap' = gl
      /\ Objects!Height[kind[v]] < Objects!Height[kind[o]]
      /\ UNCHANGED <<kind, app, masterParam, leakedLocal, leaked, readded>>
  BY DEF Objects!SetObject
<1>2. Below(v, o)
  BY <1>1, KeptFacts DEF Below
<1>3. Sound(g, app, leaked) /\ g[o].param = v /\ \A x \in app \ {o} : g[x].param = heap[x].param
  BY <1>1, <1>2, KeptFacts, ObjectSet
<1>4. Sound(gl, app, leakedLocal) /\ gl[o].param = v /\ \A x \in app \ {o} : gl[x].param = localHeap[x].param
  BY <1>1, <1>2, KeptFacts, ObjectSet
<1>5. heap = localHeap => g = gl
  OBVIOUS
<1> HIDE DEF g, gl
<1> QED BY <1>1, <1>3, <1>4, <1>5, KeptFacts, QuietKept

\* Param::set of a null pointer gives back the object that the parameter was.
LEMMA ParamNulled ==
  ASSUME NEW h, NEW kept, NEW l, Sound(h, kept, l), NEW o \in kept, NEW w \in Others, w # Plain
  PROVE  LET g == Objects!SetParam(h, o, w)
         IN  /\ Sound(g, kept, l) /\ g[o].param = w
             /\ \A x \in kept \ {o} : g[x].param = h[x].param
<1> DEFINE s == Put(h, o, w)
           old == h[o].param
<1>1. /\ kept \in SUBSET Objects!Object /\ l \in Outside /\ o \in Objects!Object
      /\ \A x \in Objects!Object : h[x].count = Ext(kept, l)[x] + Number(h, {x})
  BY CountsAre, Alive DEF Sound
<1>2. /\ Sound(s, kept, Objects!Leak(l, old)) /\ s[o].param = w
      /\ \A x \in kept \ {o} : s[x].param = h[x].param
      /\ Shape(s)
      /\ \A x \in Objects!Object : s[x].count = h[x].count
      /\ \A x \in Objects!Object : Number(s, {x}) + Same(x, old) = Number(h, {x})
  BY ParamLost
<1>3. Objects!SetParam(h, o, w) = IF old \in Objects!Object THEN Objects!RefDec(s, <<old>>) ELSE s
  BY NoneAssumption DEF Objects!SetParam, Put, Others
<1> HIDE DEF s
<1>4. CASE old \in Objects!Object
  <2>1. Balanced(s, <<old>>, Ext(kept, l))
    <3> SUFFICES ASSUME NEW x \in Objects!Object
                 PROVE  s[x].count = Ext(kept, l)[x] + Occurs(x, <<old>>) + Number(s, {x})
      BY DEF Balanced
    <3>1. h[x].count = Ext(kept, l)[x] + Number(h, {x}) /\ s[x].count = h[x].count
          /\ Number(s, {x}) + Same(x, old) = Number(h, {x})
      BY <1>1, <1>2
    <3>2. Occurs(x, <<old>>) = Same(x, old) /\ Same(x, old) \in Nat
      BY OccursOne, SameIs
    <3>3. Number(s, {x}) \in Nat /\ Ext(kept, l)[x] \in Nat
      BY <1>1, <1>2, NumberTypes, ExtTypes DEF Shape
    <3> HIDE DEF old
    <3> QED BY <3>1, <3>2, <3>3
  <2>2. <<old>> \in Lists
    BY <1>4 DEF Lists
  <2>3. /\ Sound(Objects!RefDec(s, <<old>>), kept, l)
        /\ \A x \in kept : Objects!RefDec(s, <<old>>)[x].param = s[x].param
    <3> HIDE DEF old
    <3> QED BY <1>1, <1>2, <2>1, <2>2, GivenBack
  <2> HIDE DEF old
  <2> QED BY <1>2, <1>3, <1>4, <2>3
<1>5. CASE old \notin Objects!Object
  <2>1. Objects!Leak(l, old) = l
    BY <1>5 DEF Objects!Leak
  <2> HIDE DEF old
  <2> QED BY <1>2, <1>3, <1>5, <2>1
<1> QED BY <1>4, <1>5

\* SetParam<OSPObject>::run of no object
LEMMA SetNullKept ==
  ASSUME ObjectInv, NEW o \in app, Objects!SetNull(o)
  PROVE  ObjectInv'
<1> DEFINE w == Objects!Nothing(o)
           g == Objects!SetParam(heap, o, w)
           gl == Objects!SetParam(localHeap, o, w)
<1>1. /\ heap' = g /\ localHeap' = gl
      /\ UNCHANGED <<kind, app, masterParam, leakedLocal, leaked, readded>>
  BY DEF Objects!SetNull
<1>2. w \in Others /\ w # Plain /\ (w = Null \/ ~Objects!OnMaster(o))
  BY NoneAssumption DEF Objects!Nothing, Others
<1>3. Sound(localHeap, app, leakedLocal) /\ Sound(heap, app, leaked)
  BY KeptFacts
<1> HIDE DEF w
<1>4. Sound(g, app, leaked) /\ g[o].param = w /\ \A x \in app \ {o} : g[x].param = heap[x].param
  BY <1>2, <1>3, ParamNulled
<1>5. Sound(gl, app, leakedLocal) /\ gl[o].param = w /\ \A x \in app \ {o} : gl[x].param = localHeap[x].param
  BY <1>2, <1>3, ParamNulled
<1>6. heap = localHeap => g = gl
  OBVIOUS
<1> HIDE DEF g, gl
<1> QED BY <1>1, <1>2, <1>4, <1>5, <1>6, KeptFacts, QuietKept

\* The parameters are as they were.
LEMMA ParamsKept ==
  ASSUME ObjectInv, kind' = kind, leakedLocal' = leakedLocal, leaked' = leaked, app' \subseteq app,
         readded' \in BOOLEAN, readded => readded',
         Sound(localHeap', app', leakedLocal), Sound(heap', app', leaked),
         \A x \in app' : localHeap'[x].param = localHeap[x].param,
         \A x \in app' : heap'[x].param = heap[x].param,
         masterParam' \in [Objects!Object -> {None, Plain}],
         \A x \in Objects!Object : masterParam'[x] = masterParam[x] \/ (masterParam'[x] = None /\ x \notin app'),
         heap = localHeap /\ ~readded' => heap' = localHeap'
  PROVE  ObjectInv'
<1>1. \A x \in app' : localHeap'[x].param = heap'[x].param
  BY KeptFacts
<1> QED BY <1>1, QuietKept

\* The heights of what a model and a geometry refer to.
LEMMA Heights ==
  /\ Objects!Height["model"] = 2 /\ Objects!Height["geometry"] = 1
  /\ Objects!Height["volume"] = 1 /\ Objects!Height["light"] = 0
BY DEF Objects!Height

\* A model is above its geometries and volumes.
LEMMA ModelAbove ==
  ASSUME NEW m, NEW v, kind[m] = "model", kind[v] \in {"geometry", "volume"}, kind[m] # None, kind[v] # None
  PROVE  Below(v, m)
BY Heights DEF Below

\* A geometry is above its material.
LEMMA GeometryAbove ==
  ASSUME NEW g, NEW v, kind[g] = "geometry", kind[v] = "light", kind[g] # None, kind[v] # None
  PROVE  Below(v, g)
BY Heights DEF Below

\* AddGeometry::run, AddVolume::run
LEMMA AddToKept ==
  ASSUME ObjectInv, NEW m, NEW v, Objects!AddTo(m, v)
  PROVE  ObjectInv'
<1> DEFINE g == Objects!Push(heap, m, v)
           gl == Objects!Push(localHeap, m, v)
<1>1. /\ m \in app /\ v \in app /\ heap' = g /\ localHeap' = gl
      /\ kind[m] = "model" /\ kind[v] \in {"geometry", "volume"}
      /\ UNCHANGED <<kind, app, masterParam, leakedLocal, leaked, readded>>
  BY DEF Objects!AddTo
<1>2. Below(v, m) /\ kind[m] # "lights"
  BY <1>1, KeptFacts, ModelAbove
<1>3. Sound(g, app, leaked) /\ \A x \in app : g[x].param = heap[x].param
  BY <1>1, <1>2, KeptFacts, Pushed
<1>4. Sound(gl, app, leakedLocal) /\ \A x \in app : gl[x].param = localHeap[x].param
  BY <1>1, <1>2, KeptFacts, Pushed
<1>5. heap = localHeap => g = gl
  OBVIOUS
<1> HIDE DEF g, gl
<1> QED BY <1>1, <1>3, <1>4, <1>5, KeptFacts, ParamsKept

\* RemoveGeometry::run, RemoveVolume::run
LEMMA RemoveFromKept ==
  ASSUME ObjectInv, NEW m, NEW v, Objects!RemoveFrom(m, v)
  PROVE  ObjectInv'
<1> DEFINE e == IF kind[v] = "volume" THEN Objects!Push(heap, m, v) ELSE heap
           g == Objects!Erase(e, m, v)
           gl == Objects!Erase(localHeap, m, v)
<1>1. /\ m \in app /\ v \in app /\ heap' = g /\ localHeap' = gl
      /\ kind[m] = "model" /\ kind[v] \in {"geometry", "volume"}
      /\ readded' = (readded \/ (kind[v] = "volume" /\ v \in Objects!ToSet(heap[m].list)))
      /\ UNCHANGED <<kind, app, masterParam, leakedLocal, leaked>>
  BY DEF Objects!RemoveFrom
<1>2. Below(v, m) /\ kind[m] # "lights"
  BY <1>1, KeptFacts, ModelAbove
<1>3. Sound(e, app, leaked) /\ \A x \in app : e[x].param = heap[x].param
  <2>1. Sound(Objects!Push(heap, m, v), app, leaked)
        /\ \A x \in app : Objects!Push(heap, m, v)[x].param = heap[x].param
    BY <1>1, <1>2, KeptFacts, Pushed
  <2> QED BY <2>1, KeptFacts
<1>4. heap = localHeap /\ ~readded' => g = gl
  <2> SUFFICES ASSUME heap = localHeap, ~readded' PROVE g = gl
    OBVIOUS
  <2>1. CASE kind[v] # "volume"
    BY <2>1
  <2>2. CASE kind[v] = "volume"
    <3>1. v \notin ToSet(heap[m].list) /\ v \notin Objects!ToSet(heap[m].list)
      BY <1>1, <2>2 DEF Objects!ToSet, ToSet
    <3>2. Objects!Erase(Objects!Push(heap, m, v), m, v) = heap
      BY <1>1, <3>1, KeptFacts, EraseAfterPush
    <3>3. gl = heap
      BY <3>1 DEF Objects!Erase
    <3> QED BY <2>2, <3>2, <3>3
  <2> QED BY <2>1, <2>2
<1> HIDE DEF e
<1>5. Sound(g, app, leaked) /\ \A x \in app : g[x].param = e[x].param
  BY <1>1, <1>2, <1>3, Erased
<1>6. Sound(gl, app, leakedLocal) /\ \A x \in app : gl[x].param = localHeap[x].param
  BY <1>1, <1>2, KeptFacts, Erased
<1>7. readded' \in BOOLEAN /\ (readded => readded')
  BY <1>1, KeptFacts
<1> HIDE DEF g, gl
<1> QED BY <1>1, <1>3, <1>4, <1>5, <1>6, <1>7, KeptFacts, ParamsKept

\* SetMaterial::run
LEMMA SetMaterialKept ==
  ASSUME ObjectInv, NEW o, NEW v, Objects!SetMaterial(o, v)
  PROVE  ObjectInv'
<1> DEFINE g == WithMaterial(heap, o, v)
           gl == WithMaterial(localHeap, o, v)
<1>1. /\ o \in app /\ v \in app /\ heap' = g /\ localHeap' = gl
      /\ kind[o] = "geometry" /\ kind[v] = "light"
      /\ UNCHANGED <<kind, app, masterParam, leakedLocal, leaked, readded>>
  BY DEF Objects!SetMaterial, WithMaterial
<1>2. Below(v, o) /\ kind[o] # "lights"
  BY <1>1, KeptFacts, GeometryAbove
<1>3. Sound(g, app, leaked) /\ \A x \in app : g[x].param = heap[x].param
  BY <1>1, <1>2, KeptFacts, MaterialSet
<1>4. Sound(gl, app, leakedLocal) /\ \A x \in app : gl[x].param = localHeap[x].param
  BY <1>1, <1>2, KeptFacts, MaterialSet
<1>5. heap = localHeap => g = gl
  OBVIOUS
<1> HIDE DEF g, gl
<1> QED BY <1>1, <1>3, <1>4, <1>5, KeptFacts, ParamsKept

\* CommandRelease::run
LEMMA ReleaseKept ==
  ASSUME ObjectInv, NEW o, Objects!Release(o)
  PROVE  ObjectInv'
<1> DEFINE g == Objects!RefDec(heap, <<o>>)
           gl == Objects!RefDec(localHeap, <<o>>)
<1>1. /\ o \in app /\ heap' = g /\ localHeap' = gl /\ app' = app \ {o}
      /\ masterParam' = [masterParam EXCEPT ![o] = None]
      /\ UNCHANGED <<kind, leakedLocal, leaked, readded>>
  BY DEF Objects!Release
<1>3. Sound(g, app \ {o}, leaked) /\ \A x \in app \ {o} : g[x].param = heap[x].param
  BY <1>1, KeptFacts, Released
<1>4. Sound(gl, app \ {o}, leakedLocal) /\ \A x \in app \ {o} : gl[x].param = localHeap[x].param
  BY <1>1, KeptFacts, Released
<1>5. heap = localHeap => g = gl
  OBVIOUS
<1>6. /\ masterParam' \in [Objects!Object -> {None, Plain}]
      /\ \A x \in Objects!Object :
           masterParam'[x] = masterParam[x] \/ (masterParam'[x] = None /\ x \notin app \ {o})
  BY <1>1, KeptFacts
<1> HIDE DEF g, gl
<1> QED BY <1>1, <1>3, <1>4, <1>5, <1>6, KeptFacts, ParamsKept

\* What the devices have lost stays comparable.
LEMMA LeaksAgree ==
  ASSUME NEW a \in Outside, NEW b \in Outside, NEW p \in Objects!Object \cup {None, Plain, Null},
         \A x \in Objects!Object : a[x] <= b[x]
  PROVE  /\ \A x \in Objects!Object : Objects!Leak(a, p)[x] <= Objects!Leak(b, p)[x]
         /\ \A x \in Objects!Object : a[x] <= Objects!Leak(b, p)[x]
         /\ Objects!Leak(b, p) = Objects!Leak(a, p) => b = a
         /\ p \in Objects!Object => Objects!Leak(b, p) # a
<1>1. /\ \A x \in Objects!Object : Objects!Leak(a, p)[x] = a[x] + Same(x, p)
      /\ \A x \in Objects!Object : Objects!Leak(b, p)[x] = b[x] + Same(x, p)
  BY Leaks
<1>2. \A x \in Objects!Object : a[x] \in Nat /\ b[x] \in Nat /\ Same(x, p) \in Nat
  BY SameIs DEF Outside
<1>3. ASSUME NEW x \in Objects!Object
      PROVE  /\ Objects!Leak(a, p)[x] <= Objects!Leak(b, p)[x] /\ a[x] <= Objects!Leak(b, p)[x]
             /\ Objects!Leak(b, p)[x] = Objects!Leak(a, p)[x] => b[x] = a[x]
  <2>1. /\ Objects!Leak(a, p)[x] = a[x] + Same(x, p) /\ Objects!Leak(b, p)[x] = b[x] + Same(x, p)
        /\ a[x] \in Nat /\ b[x] \in Nat /\ Same(x, p) \in Nat /\ a[x] <= b[x]
    BY <1>1, <1>2
  <2> QED BY <2>1
<1>4. ASSUME Objects!Leak(b, p) = Objects!Leak(a, p) PROVE b = a
  <2>1. \A x \in Objects!Object : b[x] = a[x]
    BY <1>3, <1>4
  <2> QED BY <2>1 DEF Outside
<1>5. ASSUME p \in Objects!Object PROVE Objects!Leak(b, p) # a
  <2>1. Objects!Leak(b, p)[p] = b[p] + 1 /\ a[p] \in Nat /\ b[p] \in Nat /\ a[p] <= b[p]
    BY <1>1, <1>2, <1>5, SameIs
  <2>2. Objects!Leak(b, p)[p] # a[p]
    BY <2>1
  <2> QED BY <2>2
<1> QED BY <1>3, <1>4, <1>5

\* The master learns of a parameter that is not an object.
LEMMA MasterLearns ==
  ASSUME ObjectInv, kind' = kind, app' = app, readded' = readded, NEW o \in app, NEW w \in {None, Plain},
         masterParam' = IF Objects!OnMaster(o) THEN [masterParam EXCEPT ![o] = w] ELSE masterParam,
         heap'[o].param = w, \A x \in app \ {o} : heap'[x].param = heap[x].param
  PROVE  ObjectTypes' /\ Objects!MasterKnows'
<1>1. o \in Objects!Object /\ kind[o] # None /\ app \subseteq Objects!Object
      /\ masterParam \in [Objects!Object -> {None, Plain}]
  BY KeptFacts
<1>2. \A x \in Objects!Object : x # o \/ ~Objects!OnMaster(o) => masterParam'[x] = masterParam[x]
  BY <1>1
<1>3. Objects!OnMaster(o) => masterParam'[o] = w
  BY <1>1
<1>4. masterParam' \in [Objects!Object -> {None, Plain}]
  BY <1>1
<1>5. ObjectTypes'
  <2>1. \A x \in Objects!Object : kind[x] = None => masterParam'[x] = None
    <3>1. \A x \in Objects!Object : kind[x] = None => masterParam[x] = None /\ x # o
      BY <1>1 DEF ObjectInv, ObjectTypes
    <3> QED BY <1>2, <3>1
  <2> QED BY <1>4, <2>1 DEF ObjectInv, ObjectTypes
<1>6. Objects!MasterKnows'
  <2> SUFFICES ASSUME NEW x \in app'
               PROVE  /\ Objects!OnMaster(x)' /\ heap'[x].param = Plain => masterParam'[x] = Plain
                      /\ Objects!OnMaster(x)' /\ heap'[x].param = None => masterParam'[x] = None
    BY DEF Objects!MasterKnows
  <2>1. /\ Objects!OnMaster(x) /\ heap[x].param = Plain => masterParam[x] = Plain
        /\ Objects!OnMaster(x) /\ heap[x].param = None => masterParam[x] = None
    BY DEF ObjectInv, Objects!MasterKnows
  <2>2. Objects!OnMaster(x)' <=> Objects!OnMaster(x)
    BY DEF Objects!OnMaster
  <2>3. CASE x = o
    BY <1>3, <2>2, <2>3
  <2>4. CASE x # o
    <3>1. masterParam'[x] = masterParam[x] /\ heap'[x].param = heap[x].param
      BY <1>1, <1>2, <2>4
    <3> QED BY <2>1, <2>2, <3>1
  <2> QED BY <2>3, <2>4
<1> QED BY <1>5, <1>6

\* SetParam::run of a value
LEMMA SetPlainKept ==
  ASSUME ObjectInv, NEW o \in app, Objects!SetPlain(o)
  PROVE  ObjectInv'
<1> DEFINE g == Put(heap, o, Plain)
           gl == Put(localHeap, o, Plain)
           old == heap[o].param
           m == Objects!Leak(leaked, old)
           ml == Objects!Leak(leakedLocal, old)
<1>1. /\ Sound(localHeap, app, leakedLocal) /\ Sound(heap, app, leaked) /\ localHeap[o].param = old
      /\ old \in Objects!Object \cup {None, Plain, Null} /\ leaked \in Outside /\ leakedLocal \in Outside
      /\ \A x \in Objects!Object : leakedLocal[x] <= leaked[x]
  BY KeptFacts, Alive DEF Sound, ObjectInv, SameParams
<1>2. \A h : Objects!SetParam(h, o, Plain) = Put(h, o, Plain)
  BY NoneAssumption DEF Objects!SetParam, Put
<1>0. Plain \in Others
  BY DEF Others
<1>3. /\ heap' = g /\ localHeap' = gl /\ leaked' = m /\ leakedLocal' = ml
      /\ masterParam' = IF Objects!OnMaster(o) THEN [masterParam EXCEPT ![o] = Plain] ELSE masterParam
      /\ UNCHANGED <<kind, app, readded>>
  BY <1>1, <1>2 DEF Objects!SetPlain
<1>4. Sound(g, app, m) /\ g[o].param = Plain /\ \A x \in app \ {o} : g[x].param = heap[x].param
  BY <1>0, <1>1, ParamLost
<1>5. Sound(gl, app, ml) /\ gl[o].param = Plain /\ \A x \in app \ {o} : gl[x].param = localHeap[x].param
  BY <1>0, <1>1, ParamLost
<1>6. heap = localHeap => g = gl
  OBVIOUS
<1>7. (\A x \in Objects!Object : ml[x] <= m[x]) /\ (m = ml => leaked = leakedLocal)
  <2> HIDE DEF old
  <2> QED BY <1>1, LeaksAgree
<1> HIDE DEF g, gl, m, ml, old
<1>8. Sound(localHeap, app, leakedLocal)' /\ Sound(heap, app, leaked)'
  <2>1. Sound(localHeap', app', leakedLocal') /\ Sound(heap', app', leaked')
    BY <1>3, <1>4, <1>5
  <2> QED BY <1>3, <2>1, SoundNext
<1>9. SameParams'
  <2>1. \A x \in app : gl[x].param = g[x].param
    BY <1>4, <1>5, KeptFacts
  <2> QED BY <1>3, <1>7, <2>1 DEF SameParams
<1>10. Objects!WorkersAgree'
  BY <1>3, <1>6, <1>7 DEF ObjectInv, Objects!WorkersAgree
<1>11. ObjectTypes' /\ Objects!MasterKnows'
  <2>1. heap'[o].param = Plain /\ \A x \in app \ {o} : heap'[x].param = heap[x].param
    BY <1>3, <1>4
  <2> QED BY <1>3, <2>1, MasterLearns
<1> QED BY <1>8, <1>9, <1>10, <1>11 DEF ObjectInv

\* RemoveParam::run
LEMMA RemoveParamKept ==
  ASSUME ObjectInv, NEW o \in app, Objects!RemoveParam(o)
  PROVE  ObjectInv'
<1> DEFINE old == heap[o].param
           g == Put(heap, o, None)
           gl == Clear(IF old \in Objects!Object THEN Objects!RefDec(localHeap, <<old>>) ELSE localHeap, o)
           m == Objects!Leak(leaked, old)
<1>0. None \in Others
  BY DEF Others
<1>1. /\ Sound(localHeap, app, leakedLocal) /\ Sound(heap, app, leaked) /\ localHeap[o].param = old
      /\ old \in Objects!Object \cup {None, Plain, Null} /\ leaked \in Outside /\ leakedLocal \in Outside
      /\ \A x \in Objects!Object : leakedLocal[x] <= leaked[x]
  BY KeptFacts, Alive DEF Sound, ObjectInv, SameParams
<1>3. /\ heap' = g /\ localHeap' = gl /\ leaked' = m /\ leakedLocal' = leakedLocal
      /\ masterParam' = IF Objects!OnMaster(o) THEN [masterParam EXCEPT ![o] = None] ELSE masterParam
      /\ UNCHANGED <<kind, app, readded>>
  BY <1>1 DEF Objects!RemoveParam, Put, Clear
<1>4. Sound(g, app, m) /\ g[o].param = None /\ \A x \in app \ {o} : g[x].param = heap[x].param
  BY <1>0, <1>1, ParamLost
<1>5. Sound(gl, app, leakedLocal) /\ gl[o].param = None /\ \A x \in app \ {o} : gl[x].param = localHeap[x].param
  <2>1. CASE old \in Objects!Object
    <3> DEFINE b == Clear(Objects!RefDec(localHeap, <<localHeap[o].param>>), o)
    <3>1. Sound(b, app, leakedLocal) /\ b[o].param = None
          /\ \A x \in app \ {o} : b[x].param = localHeap[x].param
      BY <1>1, <2>1, ParamGivenBack
    <3>2. gl = b
      BY <1>1, <2>1
    <3> HIDE DEF gl, b
    <3> QED BY <3>1, <3>2
  <2>2. CASE old \notin Objects!Object
    <3> DEFINE b == Put(localHeap, o, None)
    <3>1. Sound(b, app, Objects!Leak(leakedLocal, localHeap[o].param)) /\ b[o].param = None
          /\ \A x \in app \ {o} : b[x].param = localHeap[x].param
      BY <1>0, <1>1, ParamLost
    <3>2. gl = b /\ Objects!Leak(leakedLocal, localHeap[o].param) = leakedLocal
      BY <1>1, <2>2 DEF Clear, Objects!Leak
    <3> HIDE DEF gl, b
    <3> QED BY <3>1, <3>2
  <2> QED BY <2>1, <2>2
<1>6. m = leakedLocal => (heap = localHeap => g = gl) /\ leaked = leakedLocal
  <2>1. old \in Objects!Object => m # leakedLocal
    <3> HIDE DEF old
    <3> QED BY <1>1, LeaksAgree
  <2>2. old \notin Objects!Object => m = leaked /\ gl = Put(localHeap, o, None)
    BY DEF Objects!Leak, Clear
  <2> HIDE DEF gl, m, old
  <2> QED BY <2>1, <2>2
<1>7. \A x \in Objects!Object : leakedLocal[x] <= m[x]
  <2> HIDE DEF old
  <2> QED BY <1>1, LeaksAgree
<1> HIDE DEF g, gl, m, old
<1>8. Sound(localHeap, app, leakedLocal)' /\ Sound(heap, app, leaked)'
  <2>1. Sound(localHeap', app', leakedLocal') /\ Sound(heap', app', leaked')
    BY <1>3, <1>4, <1>5
  <2> QED BY <1>3, <2>1, SoundNext
<1>9. SameParams'
  <2>1. \A x \in app : gl[x].param = g[x].param
    BY <1>4, <1>5, KeptFacts
  <2> QED BY <1>3, <1>7, <2>1 DEF SameParams
<1>10. Objects!WorkersAgree'
  BY <1>3, <1>6 DEF ObjectInv, Objects!WorkersAgree
<1>11. ObjectTypes' /\ Objects!MasterKnows'
  <2>1. heap'[o].param = None /\ \A x \in app \ {o} : heap'[x].param = heap[x].param
    BY <1>3, <1>4
  <2> QED BY <1>3, <2>1, MasterLearns
<1> QED BY <1>8, <1>9, <1>10, <1>11 DEF ObjectInv

\* An object is made in both devices.
LEMMA MadeKept ==
  ASSUME ObjectInv, Objects!MayCreate, NEW k \in DOMAIN Objects!Height, NEW s \in Lists,
         \A i \in DOMAIN s : s[i] \in app,
         k = "lights" \/ \A i \in DOMAIN s : Objects!Height[kind[s[i]]] < Objects!Height[k],
         kind' = [kind EXCEPT ![Objects!fresh] = k], app' = app \cup {Objects!fresh},
         Made(localHeap, localHeap', Objects!fresh, k, s), Made(heap, heap', Objects!fresh, k, s),
         UNCHANGED <<masterParam, leakedLocal, leaked, readded>>,
         heap = localHeap => heap' = localHeap'
  PROVE  ObjectInv'
<1> DEFINE n == Objects!fresh
<1>1. n \in Objects!Object /\ kind[n] = None
  BY Fresh
<1>2. /\ kind \in [Objects!Object -> DOMAIN Objects!Height \cup {None}]
      /\ masterParam[n] = None /\ k # None /\ n \notin app /\ app \subseteq Objects!Object
  BY <1>1, KeptFacts, NoneAssumption DEF ObjectInv, ObjectTypes
<1> HIDE DEF n
<1>3. /\ kind' = [kind EXCEPT ![n] = k] /\ app' = app \cup {n}
      /\ Made(localHeap, localHeap', n, k, s) /\ Made(heap, heap', n, k, s)
  BY DEF n
<1>4. Settled(kind, localHeap, app, leakedLocal) /\ Settled(kind, heap, app, leaked)
  BY KeptFacts, SettledNow
<1>5. /\ Settled([kind EXCEPT ![n] = k], localHeap', app \cup {n}, leakedLocal)
      /\ Settled([kind EXCEPT ![n] = k], heap', app \cup {n}, leaked)
  <2>1. Settled([kind EXCEPT ![n] = k], localHeap', app \cup {n}, leakedLocal)
    BY <1>1, <1>2, <1>3, <1>4, Born
  <2>2. Settled([kind EXCEPT ![n] = k], heap', app \cup {n}, leaked)
    BY <1>1, <1>2, <1>3, <1>4, Born
  <2> QED BY <2>1, <2>2
<1>6. Settled(kind', localHeap', app', leakedLocal') /\ Settled(kind', heap', app', leaked')
  BY <1>3, <1>5
<1>7. Sound(localHeap, app, leakedLocal)' /\ Sound(heap, app, leaked)'
  BY <1>6, WorkerSettled, LocalSettled
<1>8. /\ localHeap'[n].param = None /\ heap'[n].param = None
      /\ \A x \in app : /\ x # n /\ x \in Objects!Object
                        /\ localHeap'[x].param = localHeap[x].param
                        /\ heap'[x].param = heap[x].param
  BY <1>2, <1>3 DEF Made
<1>9. kind'[n] = k /\ \A x \in Objects!Object : x # n => kind'[x] = kind[x]
  BY <1>1, <1>2, <1>3
<1>10. ObjectTypes'
  <2>1. kind' \in [Objects!Object -> DOMAIN Objects!Height \cup {None}]
    BY <1>1, <1>2, <1>3
  <2>2. \A x \in Objects!Object : kind'[x] = None => masterParam[x] = None
    BY <1>2, <1>9 DEF ObjectInv, ObjectTypes
  <2> QED BY <2>1, <2>2 DEF ObjectInv, ObjectTypes
<1>11. SameParams'
  <2>1. \A x \in app' : localHeap'[x].param = heap'[x].param
    BY <1>3, <1>8, KeptFacts
  <2> QED BY <2>1 DEF ObjectInv, SameParams
<1>12. Objects!WorkersAgree'
  BY DEF ObjectInv, Objects!WorkersAgree
<1>13. Objects!MasterKnows'
  <2> SUFFICES ASSUME NEW x \in app'
               PROVE  /\ Objects!OnMaster(x)' /\ heap'[x].param = Plain => masterParam'[x] = Plain
                      /\ Objects!OnMaster(x)' /\ heap'[x].param = None => masterParam'[x] = None
    BY DEF Objects!MasterKnows
  <2>1. CASE x = n
    BY <1>2, <1>8, <2>1, NoneAssumption
  <2>2. CASE x # n
    <3>1. x \in app /\ heap'[x].param = heap[x].param /\ kind'[x] = kind[x] /\ masterParam'[x] = masterParam[x]
      BY <1>3, <1>8, <1>9, <2>2
    <3>2. /\ Objects!OnMaster(x) /\ heap[x].param = Plain => masterParam[x] = Plain
          /\ Objects!OnMaster(x) /\ heap[x].param = None => masterParam[x] = None
      BY <3>1 DEF ObjectInv, Objects!MasterKnows
    <3>3. Objects!OnMaster(x)' <=> Objects!OnMaster(x)
      BY <3>1 DEF Objects!OnMaster
    <3> QED BY <3>1, <3>2, <3>3
  <2> QED BY <2>1, <2>2
<1> QED BY <1>7, <1>10, <1>11, <1>12, <1>13 DEF ObjectInv

\* Nobody has the new object, and it is empty.
LEMMA FreshDead ==
  ASSUME ObjectInv, Objects!MayCreate
  PROVE  /\ localHeap \in Objects!Heap /\ heap \in Objects!Heap /\ Objects!fresh \in Objects!Object
         /\ localHeap[Objects!fresh] = Dead /\ heap[Objects!fresh] = Dead /\ Objects!fresh \notin app
<1>1. Objects!fresh \in Objects!Object /\ kind[Objects!fresh] = None
  BY Fresh
<1>2. Shape(localHeap) /\ Shape(heap)
  BY KeptFacts DEF Sound
<1>3. Objects!fresh \notin app
  BY <1>1, KeptFacts
<1> QED BY <1>1, <1>2, <1>3 DEF Shape, Unborn, DeadEmpty

\* NewObjectT::run
LEMMA NewKept ==
  ASSUME ObjectInv, NEW k \in {"renderer", "model", "geometry", "volume", "light"}, Objects!New(k)
  PROVE  ObjectInv'
<1>1. /\ Objects!MayCreate
      /\ kind' = [kind EXCEPT ![Objects!fresh] = k] /\ app' = app \cup {Objects!fresh}
      /\ localHeap' = Objects!RefInc(localHeap, Objects!fresh)
      /\ heap' = Objects!RefInc(heap, Objects!fresh)
      /\ UNCHANGED <<masterParam, leakedLocal, leaked, readded>>
  BY DEF Objects!New
<1>2. k \in DOMAIN Objects!Height
  BY DEF Objects!Height
<1>3. <<>> \in Lists /\ DOMAIN <<>> = {}
  BY HeapTypes
<1>4. /\ Made(localHeap, localHeap', Objects!fresh, k, <<>>)
      /\ Made(heap, heap', Objects!fresh, k, <<>>)
  <2>1. Made(localHeap, Objects!RefInc(localHeap, Objects!fresh), Objects!fresh, k, <<>>)
    BY <1>1, FreshDead, NewMade
  <2>2. Made(heap, Objects!RefInc(heap, Objects!fresh), Objects!fresh, k, <<>>)
    BY <1>1, FreshDead, NewMade
  <2> QED BY <1>1, <2>1, <2>2
<1>5. heap = localHeap => heap' = localHeap'
  BY <1>1
<1> QED BY <1>1, <1>2, <1>3, <1>4, <1>5, MadeKept

\* NewData::run
LEMMA NewDataKept ==
  ASSUME ObjectInv, NEW k \in {"lights", "objects"}, NEW n \in Nat,
         NEW items \in [1 .. n -> {o \in app : kind[o] = "light"}], Objects!NewData(k, items)
  PROVE  ObjectInv'
<1>1. /\ Objects!MayCreate
      /\ kind' = [kind EXCEPT ![Objects!fresh] = k] /\ app' = app \cup {Objects!fresh}
      /\ localHeap' = Created(k, localHeap, Objects!fresh, items)
      /\ heap' = Created(k, heap, Objects!fresh, items)
      /\ UNCHANGED <<masterParam, leakedLocal, leaked, readded>>
  BY DEF Objects!NewData, Created
<1>2. k \in DOMAIN Objects!Height
  BY DEF Objects!Height
<1>3. items \in Lists /\ \A i \in DOMAIN items : items[i] \in app /\ kind[items[i]] = "light"
  <2>1. app \subseteq Objects!Object
    BY KeptFacts
  <2> QED BY <2>1 DEF Lists
<1>4. \A i \in DOMAIN items : items[i] # Objects!fresh
  BY <1>1, <1>3, FreshDead
<1>5. /\ Made(localHeap, localHeap', Objects!fresh, k, items)
      /\ Made(heap, heap', Objects!fresh, k, items)
  <2>1. Made(localHeap, Created(k, localHeap, Objects!fresh, items), Objects!fresh, k, items)
    BY <1>1, <1>3, <1>4, FreshDead, DataMade
  <2>2. Made(heap, Created(k, heap, Objects!fresh, items), Objects!fresh, k, items)
    BY <1>1, <1>3, <1>4, FreshDead, DataMade
  <2> QED BY <1>1, <2>1, <2>2
<1>6. k = "lights" \/ \A i \in DOMAIN items : Objects!Height[kind[items[i]]] < Objects!Height[k]
  <2>1. Objects!Height["light"] = 0 /\ Objects!Height["objects"] = 1
    BY DEF Objects!Height
  <2> QED BY <1>3, <2>1
<1>7. heap = localHeap => heap' = localHeap'
  BY <1>1
<1> QED BY <1>1, <1>2, <1>3, <1>5, <1>6, <1>7, MadeKept

\* Every call keeps the invariant.
LEMMA ObjectKept == ASSUME ObjectInv, Objects!Next PROVE ObjectInv'
<1>1. ASSUME NEW k \in {"renderer", "model", "geometry", "volume", "light"}, Objects!New(k) PROVE ObjectInv'
  BY <1>1, NewKept
<1>2. ASSUME NEW k \in {"lights", "objects"}, NEW n \in 1 .. MaxListed,
             NEW items \in [1 .. n -> {o \in app : kind[o] = "light"}], Objects!NewData(k, items)
      PROVE  ObjectInv'
  <2>1. n \in Nat
    BY ObjectsAssumption
  <2> QED BY <1>2, <2>1, NewDataKept
<1>3. ASSUME NEW o \in app, NEW v \in app,
             \/ Objects!SetObject(o, v) \/ Objects!AddTo(o, v)
             \/ Objects!RemoveFrom(o, v) \/ Objects!SetMaterial(o, v)
      PROVE  ObjectInv'
  BY <1>3, SetObjectKept, AddToKept, RemoveFromKept, SetMaterialKept
<1>4. ASSUME NEW o \in app,
             Objects!SetNull(o) \/ Objects!SetPlain(o) \/ Objects!RemoveParam(o) \/ Objects!Release(o)
      PROVE  ObjectInv'
  BY <1>4, SetNullKept, SetPlainKept, RemoveParamKept, ReleaseKept
<1> QED BY <1>1, <1>2, <1>3, <1>4 DEF Objects!Next

\* So does a step of another part.
LEMMA ObjectStutter == ASSUME ObjectInv, UNCHANGED objectVars PROVE ObjectInv'
<1>1. /\ kind' = kind /\ app' = app /\ localHeap' = localHeap /\ heap' = heap /\ masterParam' = masterParam
      /\ leakedLocal' = leakedLocal /\ leaked' = leaked /\ readded' = readded
  BY DEF objectVars
<1> QED BY <1>1, KeptFacts, ParamsKept

\* It holds before the first call.
LEMMA ObjectStart == ASSUME Objects!Init PROVE ObjectInv
<1> DEFINE none == [o \in Objects!Object |-> 0]
<1>1. /\ kind = [o \in Objects!Object |-> None] /\ app = {}
      /\ heap = [o \in Objects!Object |-> Dead] /\ localHeap = heap
      /\ masterParam = [o \in Objects!Object |-> None]
      /\ leakedLocal = none /\ leaked = none /\ readded = FALSE
  BY DEF Objects!Init, Dead
<1>2. heap \in Objects!Heap /\ \A x \in Objects!Object : heap[x] = Dead
  <2>1. Objects!Heap = [Objects!Object -> Records]
    BY DEF Objects!Heap, Records, Lists
  <2> QED BY <1>1, <2>1, Changes
<1>3. Shape(heap)
  <2>1. DeadEmpty(heap) /\ Unborn(heap)
    BY <1>2 DEF DeadEmpty, Unborn, Dead
  <2>2. Lower(heap)
    <3> SUFFICES ASSUME NEW d \in Objects!Object
                 PROVE  /\ heap[d].param \in Objects!Object => Below(heap[d].param, d)
                        /\ kind[d] = "lights" \/ \A i \in DOMAIN heap[d].list : Below(heap[d].list[i], d)
      BY DEF Lower
    <3>1. heap[d].param = None /\ DOMAIN heap[d].list = {}
      BY <1>2 DEF Dead
    <3> QED BY <3>1, NoneAssumption
  <2> QED BY <1>2, <2>1, <2>2 DEF Shape
<1>4. none \in Outside /\ {} \in SUBSET Objects!Object
  BY DEF Outside
<1>5. \A x \in Objects!Object : heap[x].count = Ext({}, none)[x] + Number(heap, {x})
  <2> SUFFICES ASSUME NEW x \in Objects!Object PROVE heap[x].count = Ext({}, none)[x] + Number(heap, {x})
    OBVIOUS
  <2>1. Ext({}, none)[x] = 0
    <3>1. none[x] = 0
      OBVIOUS
    <3> HIDE DEF none
    <3> QED BY <1>4, <3>1, ExtTypes
  <2>2. Number(heap, {x}) = 0
    <3>1. \A d \in Objects!Object : Refs(heap)[d] = <<>>
      BY <1>2, DeadCounts DEF Refs, Dead
    <3>2. AllPlaces(Refs(heap), {x}) = {}
      BY <3>1 DEF AllPlaces, PlacesOf
    <3> QED BY <3>2, FS_EmptySet DEF Number, Total
  <2>3. heap[x].count = 0
    BY <1>2 DEF Dead
  <2> QED BY <2>1, <2>2, <2>3
<1>6. Sound(heap, {}, none)
  <2> HIDE DEF none
  <2> QED BY <1>3, <1>4, <1>5, SoundIs
<1>7. Sound(heap, app, leaked) /\ Sound(localHeap, app, leakedLocal)
  BY <1>1, <1>6
<1>8. ObjectTypes
  BY <1>1 DEF ObjectTypes
<1>9. SameParams
  BY <1>1 DEF SameParams
<1>10. Objects!WorkersAgree /\ Objects!MasterKnows
  BY <1>1 DEF Objects!WorkersAgree, Objects!MasterKnows
<1> QED BY <1>7, <1>8, <1>9, <1>10 DEF ObjectInv

\* The invariant of the objects holds in every state.
THEOREM ObjectInvariance == OffloadSpec => []ObjectInv
<1>1. OffloadInit => ObjectInv
  BY ObjectStart DEF OffloadInit
<1>2. [OffloadNext]_<<part, vars, streamVars, objectVars>> => Objects!Next \/ UNCHANGED objectVars
  BY DEF OffloadNext
<1>3. ObjectInv /\ [OffloadNext]_<<part, vars, streamVars, objectVars>> => ObjectInv'
  BY <1>2, ObjectKept, ObjectStutter
<1> QED BY <1>1, <1>3, PTL DEF OffloadSpec

-----------------------------------------------------------------------------
(* What exists is what is needed.                                          *)

\* What an object refers to is below it.
LEMMA CountedBelow ==
  ASSUME NEW h \in Objects!Heap, Lower(h), NEW d \in Objects!Object, NEW i \in DOMAIN Objects!Counted(h, d)
  PROVE  Below(Objects!Counted(h, d)[i], d)
<1> DEFINE s == IF kind[d] = "lights" THEN <<>> ELSE h[d].list
           t == IF h[d].param \in Objects!Object THEN <<h[d].param>> ELSE <<>>
<1>1. s \in Lists /\ t \in Lists
  <2>1. h[d].param \in Objects!Object => <<h[d].param>> \in Lists
    BY DEF Lists
  <2> QED BY <2>1, HeapTypes
<1>2. Objects!Counted(h, d) = s \o t
  BY DEF Objects!Counted
<1>3. \A j \in 1 .. Len(s) : Below(s[j], d)
  <2>1. DOMAIN s = 1 .. Len(s)
    <3> HIDE DEF s
    <3> QED BY <1>1 DEF Lists
  <2> QED BY <2>1 DEF Lower
<1>4. \A j \in 1 .. Len(t) : Below(t[j], d)
  <2>1. ASSUME NEW j \in 1 .. Len(t) PROVE Below(t[j], d)
    <3>1. h[d].param \in Objects!Object /\ t = <<h[d].param>> /\ j = 1
      OBVIOUS
    <3> QED BY <3>1 DEF Lower
  <2> QED BY <2>1
<1> HIDE DEF s, t
<1>5. /\ i \in 1 .. Len(s) + Len(t) /\ Len(s) \in Nat /\ Len(t) \in Nat
      /\ (s \o t)[i] = IF i <= Len(s) THEN s[i] ELSE t[i - Len(s)]
  BY <1>1, <1>2 DEF Lists
<1> QED BY <1>2, <1>3, <1>4, <1>5

\* Of an object that is counted there is an object that refers to it.
LEMMA NumberWitness ==
  ASSUME NEW h \in Objects!Heap, NEW x \in Objects!Object, Number(h, {x}) # 0
  PROVE  \E d \in Objects!Object : \E i \in DOMAIN Objects!Counted(h, d) : Objects!Counted(h, d)[i] = x
<1>1. Refs(h) \in Tables /\ \A d \in Objects!Object : Refs(h)[d] = Objects!Counted(h, d)
  BY RefsTypes
<1>2. AllPlaces(Refs(h), {x}) # {}
  BY <1>1, AllPlacesFinite, FS_EmptySet DEF Number, Total
<1>3. PICK d \in Objects!Object : PlacesOf(Refs(h), d, {x}) # {}
  BY <1>2 DEF AllPlaces
<1>4. PICK q \in {d} \X DOMAIN Refs(h)[d] : Refs(h)[d][q[2]] = x
  BY <1>3 DEF PlacesOf
<1> QED BY <1>1, <1>4

Roots(kept, l) == kept \cup {o \in Objects!Object : l[o] > 0}

\* In a sound heap what exists is what can be reached: what is counted inside is
\* counted by an object above it, so from every object that exists a way up ends
\* at one that is held outside.
LEMMA ExistsIsReached ==
  ASSUME NEW h, NEW kept, NEW l, Sound(h, kept, l), ObjectTypes
  PROVE  Objects!Exists(h) = Objects!Reach(h, Roots(kept, l))
<1> DEFINE roots == Roots(kept, l)
           E == Objects!Exists(h)
           closed == {R \in SUBSET Objects!Object :
                        roots \subseteq R /\ \A o \in R : Objects!ToSet(Objects!Counted(h, o)) \subseteq R}
<1>1. /\ Shape(h) /\ h \in Objects!Heap /\ Lower(h) /\ DeadEmpty(h) /\ Unborn(h)
      /\ kept \subseteq Objects!Object /\ l \in Outside /\ Balanced(h, <<>>, Ext(kept, l))
  BY DEF Sound, Shape
<1>2. Objects!Reach(h, roots) = {o \in Objects!Object : \A R \in closed : o \in R}
  BY DEF Objects!Reach
<1>3. E = {o \in Objects!Object : h[o].count > 0}
  BY DEF Objects!Exists
<1>4. \A x : x \in roots <=> x \in kept \/ (x \in Objects!Object /\ l[x] > 0)
  BY DEF Roots
<1>5. \A s : Objects!ToSet(s) = {s[i] : i \in DOMAIN s}
  BY DEF Objects!ToSet
<1> HIDE DEF roots, E
<1>6. ASSUME NEW x \in Objects!Object
      PROVE  /\ h[x].count = Ext(kept, l)[x] + Number(h, {x})
             /\ Ext(kept, l)[x] \in Nat /\ Number(h, {x}) \in Nat /\ h[x].count \in Nat
             /\ x \in roots <=> Ext(kept, l)[x] > 0
  <2>1. /\ h[x].count = Ext(kept, l)[x] + Number(h, {x})
        /\ Ext(kept, l)[x] \in Nat /\ Number(h, {x}) \in Nat /\ h[x].count \in Nat
    BY CountIs
  <2>2. x \in kept => Ext(kept, l)[x] > 0
    BY <1>1, ExtTypes
  <2>3. x \notin kept => Ext(kept, l)[x] = l[x]
    BY <1>1, ExtTypes
  <2> QED BY <1>4, <2>1, <2>2, <2>3
<1>7. E \in closed
  <2>1. roots \subseteq E
    <3> SUFFICES ASSUME NEW x \in roots PROVE x \in E
      OBVIOUS
    <3>1. x \in Objects!Object
      BY <1>1, <1>4
    <3>2. Ext(kept, l)[x] > 0 /\ h[x].count = Ext(kept, l)[x] + Number(h, {x})
          /\ Ext(kept, l)[x] \in Nat /\ Number(h, {x}) \in Nat
      BY <1>6, <3>1
    <3>3. h[x].count > 0
      BY <3>2
    <3> QED BY <1>3, <3>1, <3>3
  <2>2. ASSUME NEW o \in E PROVE Objects!ToSet(Objects!Counted(h, o)) \subseteq E
    <3> SUFFICES ASSUME NEW i \in DOMAIN Objects!Counted(h, o) PROVE Objects!Counted(h, o)[i] \in E
      BY <1>5
    <3>1. Ext(kept, l) \in Outside /\ <<>> \in Lists /\ o \in Objects!Object
      BY <1>1, <1>3, ExtTypes, HeapTypes
    <3>2. Objects!Counted(h, o)[i] \in Objects!Object /\ h[Objects!Counted(h, o)[i]].count > 0
      BY <1>1, <3>1, ReferredAlive
    <3> QED BY <1>3, <3>2
  <2> QED BY <1>3, <2>1, <2>2
<1>8. ASSUME NEW R \in closed PROVE E \subseteq R
  <2> DEFINE Bad == E \ R
             T == {n \in Nat : \E x \in Bad : 3 - Objects!Height[kind[x]] = n}
  <2>1. ASSUME NEW x \in Bad
        PROVE  \E d \in Bad : Below(x, d)
    <3>1. x \in Objects!Object /\ h[x].count > 0 /\ x \notin R /\ x \notin roots
      BY <1>3
    <3>2. Number(h, {x}) # 0
      <4>1. /\ h[x].count = Ext(kept, l)[x] + Number(h, {x})
            /\ Ext(kept, l)[x] \in Nat /\ Number(h, {x}) \in Nat /\ h[x].count \in Nat
            /\ ~(Ext(kept, l)[x] > 0)
        BY <1>6, <3>1
      <4> QED BY <3>1, <4>1
    <3>3. PICK d \in Objects!Object : \E i \in DOMAIN Objects!Counted(h, d) : Objects!Counted(h, d)[i] = x
      BY <1>1, <3>1, <3>2, NumberWitness
    <3>4. PICK i \in DOMAIN Objects!Counted(h, d) : Objects!Counted(h, d)[i] = x
      BY <3>3
    <3>5. Below(x, d)
      BY <1>1, <3>4, CountedBelow
    <3>6. h[d].count > 0
      <4> SUFFICES ASSUME ~(h[d].count > 0) PROVE FALSE
        OBVIOUS
      <4>4. h[d].count \in Nat
        BY <1>6
      <4>1. h[d].count = 0
        BY <4>4
      <4>2. h[d].param = None /\ h[d].list = <<>>
        BY <1>1, <4>1 DEF DeadEmpty, Dead
      <4>3. Objects!Counted(h, d) = <<>>
        BY <1>1, <4>2, DeadCounts
      <4> QED BY <3>4, <4>3
    <3>7. d \notin R
      <4>1. x \in Objects!ToSet(Objects!Counted(h, d))
        BY <1>5, <3>4
      <4> QED BY <1>8, <3>1, <4>1
    <3> QED BY <1>3, <3>5, <3>6, <3>7
  <2>2. ASSUME NEW x \in Bad PROVE Objects!Height[kind[x]] \in 0 .. 3
    <3>1. x \in Objects!Object /\ h[x].count > 0
      BY <1>3
    <3>2. kind[x] # None
      BY <1>1, <3>1 DEF Unborn
    <3>3. kind[x] \in DOMAIN Objects!Height
      BY <3>1, <3>2 DEF ObjectTypes
    <3> QED BY <3>3 DEF Objects!Height
  <2> HIDE DEF Bad
  <2>3. ASSUME T # {} PROVE FALSE
    <3>1. PICK n \in T : \A m \in T : m >= n
      <4> HIDE DEF T
      <4>1. T \in SUBSET Nat
        BY DEF T
      <4> QED BY <2>3, <4>1, Least
    <3>2. PICK x \in Bad : 3 - Objects!Height[kind[x]] = n
      OBVIOUS
    <3>3. PICK d \in Bad : Below(x, d)
      BY <2>1, <3>2
    <3>4. /\ Objects!Height[kind[x]] < Objects!Height[kind[d]]
          /\ Objects!Height[kind[x]] \in 0 .. 3 /\ Objects!Height[kind[d]] \in 0 .. 3
      BY <2>2, <3>2, <3>3 DEF Below
    <3>5. 3 - Objects!Height[kind[d]] \in T
      BY <3>3, <3>4
    <3> QED BY <3>1, <3>2, <3>4, <3>5
  <2>4. Bad = {}
    <3>1. ASSUME NEW x \in Bad PROVE FALSE
      <4>1. 3 - Objects!Height[kind[x]] \in Nat
        BY <2>2, <3>1
      <4> QED BY <2>3, <4>1
    <3> QED BY <3>1
  <2> QED BY <2>4 DEF Bad
<1> HIDE DEF closed
<1>9. E \subseteq Objects!Object
  BY <1>3
<1> QED BY <1>2, <1>7, <1>8, <1>9 DEF roots, E

\* What an existing object refers to exists, unless it is an item of an array of
\* lights that the application has released: what it counts exists because of
\* that, and what the application keeps exists anyway.
LEMMA ExistingRefers ==
  ASSUME NEW h, NEW l, Sound(h, app, l)
  PROVE  Objects!NothingDangles(h)
<1> SUFFICES ASSUME NEW o \in Objects!Exists(h)
             PROVE  /\ h[o].param \in Objects!Object => h[o].param \in Objects!Exists(h)
                    /\ \A v \in Objects!ToSet(h[o].list) :
                         v \in Objects!Exists(h) \/ (kind[o] = "lights" /\ v \notin app)
  BY DEF Objects!NothingDangles
<1>1. /\ o \in Objects!Object /\ h \in Objects!Heap /\ Shape(h) /\ app \in SUBSET Objects!Object
      /\ l \in Outside /\ Balanced(h, <<>>, Ext(app, l)) /\ Ext(app, l) \in Outside /\ <<>> \in Lists
      /\ h[o].list \in Lists
  <2>1. o \in Objects!Object /\ h \in Objects!Heap /\ Shape(h) /\ app \in SUBSET Objects!Object
        /\ l \in Outside /\ Balanced(h, <<>>, Ext(app, l))
    BY DEF Sound, Shape, Objects!Exists
  <2> QED BY <2>1, ExtTypes, HeapTypes
<1> DEFINE s == IF kind[o] = "lights" THEN <<>> ELSE h[o].list
           t == IF h[o].param \in Objects!Object THEN <<h[o].param>> ELSE <<>>
<1>2. Objects!Counted(h, o) = s \o t
  BY DEF Objects!Counted
<1>3. s \in Lists /\ t \in Lists
  <2>1. h[o].param \in Objects!Object => <<h[o].param>> \in Lists
    BY DEF Lists
  <2> QED BY <1>1, <2>1
<1>4. ASSUME NEW i \in DOMAIN (s \o t) PROVE (s \o t)[i] \in Objects!Exists(h)
  <2>1. i \in DOMAIN Objects!Counted(h, o)
    BY <1>2
  <2>2. Objects!Counted(h, o)[i] \in Objects!Object /\ h[Objects!Counted(h, o)[i]].count > 0
    BY <1>1, <2>1, ReferredAlive
  <2> QED BY <1>2, <2>2 DEF Objects!Exists
<1>5. ASSUME h[o].param \in Objects!Object PROVE h[o].param \in Objects!Exists(h)
  <2>1. t = <<h[o].param>>
    BY <1>5
  <2>2. Len(t) = 1 /\ t[1] = h[o].param
    BY <2>1
  <2> HIDE DEF s, t
  <2>3. Len(s) + 1 \in DOMAIN (s \o t) /\ (s \o t)[Len(s) + 1] = t[1]
    <3>1. /\ Len(s) \in Nat /\ DOMAIN (s \o t) = 1 .. Len(s) + Len(t)
          /\ \A i \in 1 .. Len(s) + Len(t) : (s \o t)[i] = IF i <= Len(s) THEN s[i] ELSE t[i - Len(s)]
      BY <1>3 DEF Lists
    <3>2. Len(s) + 1 \in 1 .. Len(s) + Len(t) /\ ~(Len(s) + 1 <= Len(s)) /\ Len(s) + 1 - Len(s) = 1
      BY <2>2, <3>1
    <3> QED BY <3>1, <3>2
  <2> QED BY <1>4, <2>2, <2>3
<1>6. ASSUME NEW v \in Objects!ToSet(h[o].list)
      PROVE  v \in Objects!Exists(h) \/ (kind[o] = "lights" /\ v \notin app)
  <2>1. CASE kind[o] # "lights"
    <3>1. s = h[o].list
      BY <2>1
    <3>2. PICK i \in DOMAIN h[o].list : v = h[o].list[i]
      BY DEF Objects!ToSet
    <3> HIDE DEF s, t
    <3>3. i \in DOMAIN (s \o t) /\ (s \o t)[i] = v
      BY <1>3, <3>1, <3>2 DEF Lists
    <3> QED BY <1>4, <3>3
  <2>2. CASE v \in app
    <3>1. v \in Objects!Object /\ h[v].count > 0
      BY <2>2, Alive
    <3> QED BY <3>1 DEF Objects!Exists
  <2> QED BY <2>1, <2>2
<1> QED BY <1>5, <1>6

\* Objects that the application or another object needs exist, but for items of
\* arrays of lights, and no others.
THEOREM ObjectsLiveUnlessUncounted == OffloadSpec => []LivesUnlessUncounted
<1>1. ASSUME ObjectInv PROVE LivesUnlessUncounted
  <2>1. Objects!TypeOK
    <3>1. localHeap \in Objects!Heap /\ heap \in Objects!Heap
      BY <1>1, KeptFacts DEF Sound, Shape
    <3>2. ASSUME NEW h \in {localHeap, heap}, NEW o \in Objects!Object
          PROVE  /\ h[o].count \in Nat /\ h[o].param \in Objects!Object \cup {None, Plain, Null}
                 /\ h[o].list \in Seq(Objects!Object)
      BY <3>1, HeapTypes DEF Lists
    <3> QED BY <1>1, <3>2, KeptFacts DEF Objects!TypeOK
  <2>2. ObjectTypes
    BY <1>1 DEF ObjectInv
  <2>3. Objects!Exists(localHeap) = Objects!Reach(localHeap, Roots(app, leakedLocal))
    BY <1>1, <2>2, KeptFacts, ExistsIsReached
  <2>4. Objects!Exists(heap) = Objects!Reach(heap, Roots(app, leaked))
    BY <1>1, <2>2, KeptFacts, ExistsIsReached
  <2>5. Objects!NothingDangles(localHeap) /\ Objects!NothingDangles(heap)
    BY <1>1, KeptFacts, ExistingRefers
  <2>6. Objects!OnlyNeeded(localHeap, leakedLocal) /\ Objects!OnlyNeeded(heap, leaked)
    BY <2>3, <2>4 DEF Objects!OnlyNeeded, Roots
  <2>7. Objects!LivesUnlessUncounted
    <3> SUFFICES ASSUME NEW d \in {<<localHeap, leakedLocal>>, <<heap, leaked>>}
                 PROVE  Objects!NothingDangles(d[1]) /\ Objects!OnlyNeeded(d[1], d[2])
      BY DEF Objects!LivesUnlessUncounted
    <3>1. CASE d = <<localHeap, leakedLocal>>
      BY <2>5, <2>6, <3>1
    <3>2. CASE d = <<heap, leaked>>
      BY <2>5, <2>6, <3>2
    <3> QED BY <3>1, <3>2
  <2> QED BY <2>1, <2>7 DEF LivesUnlessUncounted
<1> QED BY <1>1, ObjectInvariance, PTL

\* The worker has the objects of the local device, and the master the
\* parameters it answers from.
THEOREM DevicesStayAgreed == OffloadSpec => []DevicesAgree
<1>1. ObjectInv => DevicesAgree
  BY DEF ObjectInv, DevicesAgree
<1> QED BY <1>1, ObjectInvariance, PTL

\* A count is what it counts: one for the application, what nobody takes back,
\* and one for every reference of a parameter, a list or an array.
CountsExact == \A o \in Objects!Object :
  /\ localHeap[o].count = (IF o \in app THEN 1 ELSE 0) + leakedLocal[o] + Number(localHeap, {o})
  /\ heap[o].count = (IF o \in app THEN 1 ELSE 0) + leaked[o] + Number(heap, {o})

\* So no call counts an object once too often or gives it back once too often
\* (RefCount::refInc, refDec), on either device.
THEOREM CountsStayExact == OffloadSpec => []CountsExact
<1>1. ASSUME ObjectInv PROVE CountsExact
  <2> SUFFICES ASSUME NEW o \in Objects!Object
               PROVE  /\ localHeap[o].count = Ext(app, leakedLocal)[o] + Number(localHeap, {o})
                      /\ heap[o].count = Ext(app, leaked)[o] + Number(heap, {o})
    BY DEF CountsExact, Ext
  <2>1. Sound(localHeap, app, leakedLocal) /\ Sound(heap, app, leaked)
    BY <1>1 DEF ObjectInv
  <2>2. localHeap[o].count = Ext(app, leakedLocal)[o] + Number(localHeap, {o})
    BY <2>1, CountsAre
  <2>3. heap[o].count = Ext(app, leaked)[o] + Number(heap, {o})
    BY <2>1, CountsAre
  <2> QED BY <2>2, <2>3
<1> QED BY <1>1, ObjectInvariance, PTL
=============================================================================
