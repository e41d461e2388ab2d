----------------------- MODULE DistributedFrame_proofs -----------------------
(***************************************************************************)
(* Frames on any number of ranks, with any number of tiles rendered by any *)
(* ranks.                                                                  *)
(*                                                                         *)
(* The ranks make the same collective calls: what a rank calls next is a   *)
(* function of the calls it has made (Follow), and what that function looks*)
(* at in a broadcast is the same on all ranks, since it is the master's.   *)
(*                                                                         *)
(* If the owner of a tile renders a part of it (OwnersRender), no message  *)
(* outlives its frame and no frame is closed twice.  The calls made locate *)
(* each rank against all the others (FramesCounted, RanksInOrder), and with*)
(* it every tile message that is on its way (MessagesFollow).  The same    *)
(* calls say which tiles each rank gives to the gather the master assembles*)
(* (GathersAreWhole), so that the ranks together are a FrameService.       *)
(***************************************************************************)
EXTENDS DistributedFrame, FiniteSetTheorems, TLAPS

Kind  == {"barrier", "bcastErrors", "bcastReport", "ibarrier",
          "bcastCancelled", "gather"}
Bcast == {"bcastErrors", "bcastReport", "bcastCancelled"}
Data  == (SUBSET Tile) \cup BOOLEAN \cup (SUBSET (Tile \X (1..MaxFrame)))

CallRecord == [kind : Kind, data : Data]

\* The kind of the call that follows the first n calls of c.
Follow(c, n) ==
  IF n = 0 THEN "barrier"
  ELSE CASE c[n].kind = "barrier"        -> "bcastErrors"
         [] c[n].kind = "bcastErrors"    -> "bcastReport"
         [] c[n].kind = "bcastReport"    -> "ibarrier"
         [] c[n].kind = "ibarrier"       -> IF n > 1 /\ c[n-1].data = TRUE
                                              THEN "bcastCancelled" ELSE "gather"
         [] c[n].kind = "bcastCancelled" -> IF c[n].data = TRUE
                                              THEN "barrier" ELSE "gather"
         [] c[n].kind = "gather"         -> "barrier"

\* The call a rank makes next, from where its main thread is.
NextCall(r) ==
  CASE pc[r] \in {"idle", "assemble", "end"} -> "barrier"
    [] pc[r] \in {"barrier", "start"}        -> "bcastErrors"
    [] pc[r] \in {"check", "close", "begin"} -> "bcastReport"
    [] pc[r] \in {"render", "wait"}          -> "ibarrier"
    [] pc[r] \in {"ibarrier", "stop"}        -> IF Reports(r) = TRUE
                                                  THEN "bcastCancelled"
                                                  ELSE "gather"
    [] pc[r] = "cancel"                      -> "bcastCancelled"
    [] pc[r] = "gather"                      -> "gather"

CallsTyped == calls \in [Rank -> Seq(CallRecord)] /\ pc \in [Rank -> PC]

\* A rank's calls are a path of Follow ...
CallsFollow ==
  \A r \in Rank : \A n \in 0 .. Len(calls[r]) - 1 :
    calls[r][n+1].kind = Follow(calls[r], n)

\* ... that its program counter continues.
PcFollows ==
  \A r \in Rank :
    /\ NextCall(r) = Follow(calls[r], Len(calls[r]))
    /\ pc[r] \in {"ibarrier", "stop"} =>
         Len(calls[r]) > 0 /\ calls[r][Len(calls[r])].kind = "ibarrier"

\* A broadcast has given every rank the master's data.
BcastAgrees ==
  \A r \in Rank : \A n \in 1 .. Len(calls[r]) :
    calls[r][n].kind \in Bcast =>
      n <= Len(calls[Master]) /\ calls[Master][n].data = calls[r][n].data

\* The data of a broadcast is what its receivers take it for.
BcastTyped ==
  \A r \in Rank : \A n \in 1 .. Len(calls[r]) :
    calls[r][n].kind = "bcastErrors" => calls[r][n].data \in SUBSET Tile

CallInv == CallsTyped /\ CallsFollow /\ PcFollows /\ BcastAgrees /\ BcastTyped
             /\ CallsMatch

-----------------------------------------------------------------------------
\* Each call on record has a kind and data.
LEMMA CallIsTyped ==
  ASSUME CallsTyped, NEW r \in Rank, NEW n \in 1 .. Len(calls[r])
  PROVE  calls[r][n].kind \in Kind /\ calls[r][n].data \in Data
<1>1. calls[r] \in Seq(CallRecord)
  BY DEF CallsTyped
<1>2. calls[r][n] \in CallRecord
  BY <1>1
<1>3. QED
  BY <1>2 DEF CallRecord

\* Ranks that have both made n calls agree on the next one.
LEMMA FollowAgrees ==
  ASSUME CallInv, NEW r \in Rank, NEW s \in Rank, NEW n \in Nat,
         n <= Len(calls[r]), n <= Len(calls[s])
  PROVE  Follow(calls[r], n) = Follow(calls[s], n)
<1>1. CASE n = 0
  BY <1>1 DEF Follow
<1>2. CASE n > 0
  <2>1. /\ Len(calls[r]) \in Nat /\ Len(calls[s]) \in Nat
        /\ n \in 1 .. Len(calls[r]) /\ n \in 1 .. Len(calls[s])
    BY <1>2 DEF CallInv, CallsTyped
  <2>2. calls[r][n].kind = calls[s][n].kind
    BY <2>1 DEF CallInv, CallsMatch
  <2>3. CASE calls[r][n].kind = "ibarrier"
    <3>1. /\ calls[r][n].kind = Follow(calls[r], n-1)
          /\ calls[s][n].kind = Follow(calls[s], n-1)
      <4>1. n-1 \in 0 .. Len(calls[r]) - 1 /\ n-1 \in 0 .. Len(calls[s]) - 1
            /\ (n-1)+1 = n
        BY <2>1
      <4>2. QED
        BY <4>1 DEF CallInv, CallsFollow
    <3>2. n-1 > 0 /\ calls[r][n-1].kind = "bcastReport"
                  /\ calls[s][n-1].kind = "bcastReport"
      <4>1. n-1 # 0
        BY <3>1, <2>3 DEF Follow
      <4>2. n-1 \in 1 .. Len(calls[r]) /\ n-1 \in 1 .. Len(calls[s])
        BY <4>1, <2>1
      <4>3. calls[r][n-1].kind \in Kind /\ calls[s][n-1].kind \in Kind
        BY <4>2, CallIsTyped DEF CallInv
      <4>4. calls[r][n-1].kind = "bcastReport"
        BY <3>1, <2>3, <4>1, <4>3 DEF Follow, Kind
      <4>5. calls[s][n-1].kind = "bcastReport"
        BY <3>1, <2>2, <2>3, <4>1, <4>3 DEF Follow, Kind
      <4>6. QED
        BY <4>2, <4>4, <4>5
    <3>3. calls[r][n-1].data = calls[s][n-1].data
      <4>1. n-1 \in 1 .. Len(calls[r]) /\ n-1 \in 1 .. Len(calls[s])
        BY <3>2, <2>1
      <4>2. QED
        BY <4>1, <3>2 DEF CallInv, BcastAgrees, Bcast
    <3>4. QED
      BY <1>2, <2>2, <2>3, <3>3 DEF Follow
  <2>4. CASE calls[r][n].kind = "bcastCancelled"
    <3>1. calls[r][n].data = calls[s][n].data
      BY <2>1, <2>2, <2>4 DEF CallInv, BcastAgrees, Bcast
    <3>2. QED
      BY <1>2, <2>2, <2>4, <3>1 DEF Follow
  <2>5. CASE calls[r][n].kind \notin {"ibarrier", "bcastCancelled"}
    BY <1>2, <2>2, <2>5 DEF Follow
  <2>6. QED
    BY <2>3, <2>4, <2>5
<1>3. QED
  BY <1>1, <1>2

\* One more call changes nothing about the calls before it.
LEMMA AppendCall ==
  ASSUME NEW c \in Seq(CallRecord), NEW x \in CallRecord
  PROVE  /\ Append(c, x) \in Seq(CallRecord)
         /\ Len(c) \in Nat
         /\ Len(Append(c, x)) = Len(c) + 1
         /\ Append(c, x)[Len(c) + 1] = x
         /\ \A n \in 1 .. Len(c) : Append(c, x)[n] = c[n]
         /\ \A n \in 0 .. Len(c) : Follow(Append(c, x), n) = Follow(c, n)
<1>1. /\ Append(c, x) \in Seq(CallRecord)
      /\ Len(c) \in Nat
      /\ Len(Append(c, x)) = Len(c) + 1
      /\ Append(c, x)[Len(c) + 1] = x
      /\ \A n \in 1 .. Len(c) : Append(c, x)[n] = c[n]
  OBVIOUS
<1>2. ASSUME NEW n \in 0 .. Len(c)
      PROVE  Follow(Append(c, x), n) = Follow(c, n)
  <2>1. CASE n = 0
    BY <2>1 DEF Follow
  <2>2. CASE n = 1
    <3>1. Append(c, x)[n] = c[n]
      BY <1>1, <2>2
    <3>2. QED
      BY <2>2, <3>1 DEF Follow
  <2>3. CASE n > 1
    <3>1. n \in 1 .. Len(c) /\ n-1 \in 1 .. Len(c)
      BY <1>1, <2>3
    <3>2. Append(c, x)[n] = c[n] /\ Append(c, x)[n-1] = c[n-1]
      BY <1>1, <3>1
    <3>3. QED
      BY <3>2 DEF Follow
  <2>4. QED
    BY <1>1, <2>1, <2>2, <2>3
<1>3. QED
  BY <1>1, <1>2

\* Where the main thread goes after a call.
Lands(l, kind, data) ==
  /\ kind = "barrier" => l = "barrier"
  /\ kind = "bcastErrors" => l = "check"
  /\ kind = "bcastReport" => l = "render"
  /\ kind = "ibarrier" => l = "ibarrier"
  /\ kind = "bcastCancelled" =>
       l = IF data = TRUE THEN "end" ELSE "gather"
  /\ kind = "gather" => l \in {"assemble", "end"}

\* A collective call that is due, with the master's data if it is a broadcast
\* and the rank is not the master.
LEMMA CallStep ==
  ASSUME CallInv, NEW r \in Rank, NEW kind \in Kind, NEW data \in Data,
         NEW l \in PC,
         Call(r, kind, data), Goto(r, l), Lands(l, kind, data),
         kind = NextCall(r),
         kind \in Bcast => r = Master \/ (BcastReady(r) /\ data = FromMaster(r)),
         kind = "bcastErrors" => data \in SUBSET Tile
  PROVE  CallInv'
<1> DEFINE x == [kind |-> kind, data |-> data]
           k == Len(calls[r])
<1>1. x \in CallRecord /\ x.kind = kind /\ x.data = data
  BY DEF CallRecord
<1>2. /\ calls'[r] = Append(calls[r], x)
      /\ \A s \in Rank : s # r => calls'[s] = calls[s]
      /\ calls' \in [Rank -> Seq(CallRecord)]
      /\ pc' \in [Rank -> PC]
      /\ pc'[r] = l /\ \A s \in Rank : s # r => pc'[s] = pc[s]
  <2>1. calls[r] \in Seq(CallRecord) /\ Append(calls[r], x) \in Seq(CallRecord)
    BY <1>1 DEF CallInv, CallsTyped
  <2>2. QED
    BY <2>1 DEF CallInv, CallsTyped, Call, Goto
<1>3. /\ k \in Nat /\ Len(calls'[r]) = k + 1 /\ calls'[r][k + 1] = x
      /\ \A n \in 1 .. k : calls'[r][n] = calls[r][n]
      /\ \A n \in 0 .. k : Follow(calls'[r], n) = Follow(calls[r], n)
  <2>1. calls[r] \in Seq(CallRecord)
    BY DEF CallInv, CallsTyped
  <2>2. QED
    BY <1>1, <1>2, <2>1, AppendCall
<1>4. kind = Follow(calls[r], k)
  BY DEF CallInv, PcFollows
<1>5. \A s \in Rank : Len(calls[s]) \in Nat /\ Len(calls'[s]) \in Nat
                       /\ Len(calls[s]) <= Len(calls'[s])
                       /\ \A n \in 1 .. Len(calls[s]) : calls'[s][n] = calls[s][n]
  <2>1. ASSUME NEW s \in Rank
        PROVE  Len(calls[s]) \in Nat /\ Len(calls'[s]) \in Nat
    <3>1. calls[s] \in Seq(CallRecord) /\ calls'[s] \in Seq(CallRecord)
      BY <1>2 DEF CallInv, CallsTyped
    <3>2. QED
      BY <3>1
  <2>2. ASSUME NEW s \in Rank
        PROVE  Len(calls[s]) <= Len(calls'[s])
               /\ \A n \in 1 .. Len(calls[s]) : calls'[s][n] = calls[s][n]
    <3>1. CASE s = r
      BY <1>3, <3>1
    <3>2. CASE s # r
      BY <1>2, <2>1, <3>2
    <3>3. QED
      BY <3>1, <3>2
  <2>3. QED
    BY <2>1, <2>2
<1>6. CallsTyped'
  BY <1>2 DEF CallsTyped
<1>7. CallsFollow'
  <2>1. ASSUME NEW s \in Rank, NEW n \in 0 .. Len(calls'[s]) - 1
        PROVE  calls'[s][n+1].kind = Follow(calls'[s], n)
    <3>1. CASE s # r
      BY <1>2, <3>1 DEF CallInv, CallsFollow
    <3>2. CASE s = r /\ n = k
      BY <1>1, <1>3, <1>4, <3>2
    <3>3. CASE s = r /\ n < k
      <4>1. n \in 0 .. k-1 /\ n+1 \in 1 .. k /\ n \in 0 .. k
        BY <1>3, <3>3
      <4>2. calls[r][n+1].kind = Follow(calls[r], n)
        BY <4>1 DEF CallInv, CallsFollow
      <4>3. QED
        BY <1>3, <3>3, <4>1, <4>2
    <3>4. QED
      BY <1>3, <3>1, <3>2, <3>3
  <2>2. QED
    BY <2>1 DEF CallsFollow
<1>8. BcastAgrees'
  <2>1. ASSUME NEW s \in Rank, NEW n \in 1 .. Len(calls'[s]),
               calls'[s][n].kind \in Bcast
        PROVE  n <= Len(calls'[Master]) /\ calls'[Master][n].data = calls'[s][n].data
    <3>1. Master \in Rank
      BY RankAssumption DEF Master, Rank
    <3>2. CASE n \in 1 .. Len(calls[s])
      <4>1. calls'[s][n] = calls[s][n]
        BY <1>5, <3>2
      <4>2. n <= Len(calls[Master]) /\ calls[Master][n].data = calls[s][n].data
        BY <2>1, <3>2, <4>1 DEF CallInv, BcastAgrees
      <4>3. QED
        BY <1>5, <3>1, <3>2, <4>1, <4>2
    <3>3. CASE n \notin 1 .. Len(calls[s])
      <4>1. s = r /\ n = k + 1
        BY <1>2, <1>3, <3>3
      <4>2. calls'[s][n].kind = kind /\ calls'[s][n].data = data
        BY <1>1, <1>3, <4>1
      <4>3. CASE r = Master
        BY <1>3, <4>1, <4>3
      <4>4. CASE r # Master
        <5>1. Len(calls[Master]) > k /\ data = calls[Master][k + 1].data
          BY <2>1, <4>2, <4>4 DEF BcastReady, FromMaster
        <5>2. calls'[Master] = calls[Master]
          BY <1>2, <3>1, <4>4
        <5>3. QED
          BY <1>3, <1>5, <3>1, <4>1, <4>2, <5>1, <5>2
      <4>5. QED
        BY <4>3, <4>4
    <3>4. QED
      BY <3>2, <3>3
  <2>2. QED
    BY <2>1 DEF BcastAgrees
<1>9. BcastTyped'
  <2>1. ASSUME NEW s \in Rank, NEW n \in 1 .. Len(calls'[s]),
               calls'[s][n].kind = "bcastErrors"
        PROVE  calls'[s][n].data \in SUBSET Tile
    <3>1. CASE n \in 1 .. Len(calls[s])
      BY <1>5, <2>1, <3>1 DEF CallInv, BcastTyped
    <3>2. CASE n \notin 1 .. Len(calls[s])
      <4>1. s = r /\ n = k + 1
        BY <1>2, <1>3, <3>2
      <4>2. QED
        BY <1>1, <1>3, <2>1, <4>1
    <3>3. QED
      BY <3>1, <3>2
  <2>2. QED
    BY <2>1 DEF BcastTyped
<1>10. CallsMatch'
  <2>1. ASSUME NEW s \in Rank, s # r, k + 1 <= Len(calls[s])
        PROVE  calls[s][k + 1].kind = kind
    <3>1. k \in 0 .. Len(calls[s]) - 1 /\ k <= Len(calls[s])
      BY <1>3, <1>5, <2>1
    <3>2. calls[s][k + 1].kind = Follow(calls[s], k)
      BY <3>1 DEF CallInv, CallsFollow
    <3>3. Follow(calls[s], k) = Follow(calls[r], k)
      BY <1>3, <3>1, FollowAgrees
    <3>4. QED
      BY <1>4, <3>2, <3>3
  <2>2. ASSUME NEW s \in Rank, NEW q \in Rank, NEW n \in 1 .. Len(calls'[s]),
               n <= Len(calls'[q])
        PROVE  calls'[s][n].kind = calls'[q][n].kind
    <3>1. CASE n \in 1 .. Len(calls[s]) /\ n \in 1 .. Len(calls[q])
      <4>1. calls[s][n].kind = calls[q][n].kind
        BY <1>5, <3>1 DEF CallInv, CallsMatch
      <4>2. QED
        BY <1>5, <3>1, <4>1
    <3>2. CASE n \notin 1 .. Len(calls[s])
      <4>1. s = r /\ n = k + 1
        BY <1>2, <1>3, <3>2
      <4>2. CASE q = r
        BY <4>1, <4>2
      <4>3. CASE q # r
        BY <1>1, <1>2, <1>3, <2>1, <2>2, <4>1, <4>3
      <4>4. QED
        BY <4>2, <4>3
    <3>3. CASE n \notin 1 .. Len(calls[q])
      <4>1. q = r /\ n = k + 1
        BY <1>2, <1>3, <1>5, <2>2, <3>3
      <4>2. CASE s = r
        BY <4>1, <4>2
      <4>3. CASE s # r
        BY <1>1, <1>2, <1>3, <2>1, <2>2, <4>1, <4>3
      <4>4. QED
        BY <4>2, <4>3
    <3>4. QED
      BY <3>1, <3>2, <3>3
  <2>3. QED
    BY <2>2 DEF CallsMatch
<1>11. PcFollows'
  <2>1. ASSUME NEW s \in Rank, s # r
        PROVE  /\ NextCall(s)' = Follow(calls'[s], Len(calls'[s]))
               /\ pc'[s] \in {"ibarrier", "stop"} =>
                    Len(calls'[s]) > 0 /\ calls'[s][Len(calls'[s])].kind = "ibarrier"
    <3>1. pc'[s] = pc[s] /\ calls'[s] = calls[s]
      BY <1>2, <2>1
    <3>2. NextCall(s)' = NextCall(s)
      BY <3>1 DEF NextCall, Reports
    <3>3. QED
      BY <3>1, <3>2 DEF CallInv, PcFollows
  <2>2. calls'[r][k+1].kind = kind /\ calls'[r][k+1].data = data /\ k + 1 # 0
    BY <1>1, <1>3
  <2>3. pc'[r] \in {"ibarrier", "stop"} => kind = "ibarrier"
    BY <1>2 DEF Lands, Kind
  <2>4. NextCall(r)' = Follow(calls'[r], k + 1)
    <3>1. CASE kind = "ibarrier"
      <4>1. k # 0
        BY <1>4, <3>1 DEF Follow
      <4>2. k + 1 > 1 /\ (k + 1) - 1 = k
        BY <1>3, <4>1
      <4>3. Follow(calls'[r], k + 1) =
              IF calls'[r][k].data = TRUE THEN "bcastCancelled" ELSE "gather"
        BY <2>2, <3>1, <4>2 DEF Follow
      <4>4. Reports(r)' = calls'[r][k].data
        BY <1>3, <4>2 DEF Reports
      <4>5. QED
        BY <1>2, <3>1, <4>3, <4>4 DEF NextCall, Lands
    <3>2. CASE kind # "ibarrier"
      BY <1>2, <2>2, <3>2 DEF Follow, NextCall, Lands, Kind
    <3>3. QED
      BY <3>1, <3>2
  <2>5. QED
    BY <1>3, <2>1, <2>2, <2>3, <2>4 DEF PcFollows
<1>12. QED
  BY <1>6, <1>7, <1>8, <1>9, <1>10, <1>11 DEF CallInv

\* A step of the main thread between two calls.
LEMMA SilentStep ==
  ASSUME CallInv, NEW r \in Rank, NEW l \in PC, UNCHANGED calls, Goto(r, l),
         NextCall(r)' = NextCall(r),
         l \in {"ibarrier", "stop"} => pc[r] \in {"ibarrier", "stop"}
  PROVE  CallInv'
<1>1. /\ pc' \in [Rank -> PC]
      /\ pc'[r] = l /\ \A s \in Rank : s # r => pc'[s] = pc[s]
  BY DEF CallInv, CallsTyped, Goto
<1>2. \A s \in Rank : NextCall(s)' = NextCall(s)
  BY <1>1 DEF NextCall, Reports
<1>3. PcFollows'
  BY <1>1, <1>2 DEF CallInv, PcFollows
<1>4. QED
  BY <1>1, <1>3 DEF CallInv, CallsTyped, CallsFollow, BcastAgrees, BcastTyped,
                    CallsMatch

\* A step of a task or of the message layer.
LEMMA OtherStep ==
  ASSUME CallInv, UNCHANGED <<pc, calls>>
  PROVE  CallInv'
<1>1. PcFollows'
  BY DEF CallInv, PcFollows, NextCall, Reports
<1>2. CallsMatch'
  BY DEF CallInv, CallsMatch
<1>3. QED
  BY <1>1, <1>2 DEF CallInv, CallsTyped, CallsFollow, BcastAgrees, BcastTyped

LEMMA InitCallInv == Init => CallInv
<1> SUFFICES ASSUME Init
             PROVE  CallInv
  OBVIOUS
<1>1. CallsTyped
  BY DEF Init, CallsTyped, PC
<1>2. \A r \in Rank : calls[r] = <<>> /\ Len(calls[r]) = 0 /\ pc[r] = "idle"
  BY DEF Init
<1>3. PcFollows
  BY <1>2 DEF PcFollows, NextCall, Follow
<1>4. QED
  BY <1>1, <1>2, <1>3 DEF CallInv, CallsFollow, BcastAgrees, BcastTyped, CallsMatch

-----------------------------------------------------------------------------
\* Who owns a tile is a rank, and a rank owns finitely many.
LEMMA OwnerIsRank ==
  /\ Master \in Rank
  /\ \A t \in Tile : OwnerOf(t) \in Rank
  /\ IsFiniteSet(Tile)
<1>1. Master \in Rank
  BY RankAssumption DEF Master, Rank
<1>2. ASSUME NEW t \in Tile
      PROVE  OwnerOf(t) \in Rank
  <2>1. t \in Nat
    BY RankAssumption DEF Tile
  <2>2. CASE MasterIsAWorker
    <3>1. NumRanks \in Nat /\ NumRanks > 0
      BY RankAssumption
    <3>2. t % NumRanks \in 0 .. NumRanks-1
      BY <2>1, <3>1
    <3>3. QED
      BY <2>2, <3>2 DEF OwnerOf, Rank
  <2>3. CASE ~MasterIsAWorker
    <3>1. NumRanks \in Nat /\ NumRanks-1 \in Nat /\ NumRanks-1 > 0
      BY <2>3, RankAssumption
    <3>2. t % (NumRanks-1) \in 0 .. (NumRanks-1)-1
      BY <2>1, <3>1
    <3>3. (t % (NumRanks-1)) + 1 \in 0 .. NumRanks-1
      BY <3>1, <3>2
    <3>4. QED
      BY <2>3, <3>3 DEF OwnerOf, Rank
  <2>4. QED
    BY <2>2, <2>3
<1>3. IsFiniteSet(Tile)
  BY RankAssumption, FS_Interval DEF Tile
<1>4. QED
  BY <1>1, <1>2, <1>3

\* The data of the master's call that a rank takes up is of the kind it takes
\* it for.
LEMMA FromMasterTyped ==
  ASSUME CallInv, NEW r \in Rank, r # Master, BcastReady(r)
  PROVE  /\ FromMaster(r) \in Data
         /\ pc[r] = "start" => FromMaster(r) \in SUBSET Tile
<1> DEFINE k == Len(calls[r])
<1>1. Master \in Rank
  BY OwnerIsRank
<1>2. k \in Nat /\ Len(calls[Master]) \in Nat /\ k < Len(calls[Master])
  <2>1. calls[r] \in Seq(CallRecord) /\ calls[Master] \in Seq(CallRecord)
    BY <1>1 DEF CallInv, CallsTyped
  <2>2. QED
    BY <2>1 DEF BcastReady
<1>3. k + 1 \in 1 .. Len(calls[Master]) /\ k \in 0 .. Len(calls[Master]) - 1
  BY <1>2
<1>4. FromMaster(r) \in Data
  BY <1>1, <1>3, CallIsTyped DEF CallInv, FromMaster
<1>5. ASSUME pc[r] = "start"
      PROVE  FromMaster(r) \in SUBSET Tile
  <2>1. Follow(calls[r], k) = "bcastErrors"
    BY <1>5 DEF CallInv, PcFollows, NextCall
  <2>2. Follow(calls[Master], k) = Follow(calls[r], k)
    BY <1>1, <1>2, FollowAgrees
  <2>3. calls[Master][k + 1].kind = Follow(calls[Master], k)
    BY <1>1, <1>3 DEF CallInv, CallsFollow
  <2>4. QED
    BY <1>1, <1>3, <2>1, <2>2, <2>3 DEF CallInv, BcastTyped, FromMaster
<1>6. QED
  BY <1>4, <1>5

-----------------------------------------------------------------------------
\* Every step keeps the invariant of the calls.
LEMMA NextCallInv ==
  ASSUME CallInv, TypeOK, [Next]_vars
  PROVE  CallInv'
<1>1. ASSUME NEW r \in Rank, EnterBarrier(r)
      PROVE  CallInv'
  <2>1. {} \in Data /\ "barrier" \in Kind /\ "barrier" \in PC
    BY DEF Data, Kind, PC
  <2>2. Call(r, "barrier", {}) /\ Goto(r, "barrier") /\ "barrier" = NextCall(r)
    BY <1>1 DEF EnterBarrier, NextCall
  <2>3. Lands("barrier", "barrier", {}) /\ "barrier" \notin Bcast
    BY DEF Lands, Bcast
  <2>4. QED
    BY <2>1, <2>2, <2>3, CallStep
<1>2. ASSUME NEW r \in Rank, StartNewFrame(r)
      PROVE  CallInv'
  <2> DEFINE conv == IF r = Master THEN converged[r] ELSE FromMaster(r)
  <2>1. BcastReady(r) /\ Call(r, "bcastErrors", conv) /\ Goto(r, "check")
        /\ pc[r] = "start"
    BY <1>2 DEF StartNewFrame
  <2>2. conv \in SUBSET Tile
    BY <2>1, FromMasterTyped DEF TypeOK
  <2>3. conv \in Data /\ "bcastErrors" \in Kind /\ "check" \in PC
    BY <2>2 DEF Data, Kind, PC
  <2>4. "bcastErrors" = NextCall(r) /\ Lands("check", "bcastErrors", conv)
    BY <2>1 DEF NextCall, Lands
  <2>5. r = Master \/ (BcastReady(r) /\ conv = FromMaster(r))
    BY <2>1
  <2> HIDE DEF conv
  <2>6. QED
    BY <2>1, <2>2, <2>3, <2>4, <2>5, CallStep
<1>3. ASSUME NEW r \in Rank, BeginFrame(r)
      PROVE  CallInv'
  <2>1. PICK report \in IF r = Master THEN {FALSE, CanCancel} ELSE {FromMaster(r)} :
          Call(r, "bcastReport", report)
    BY <1>3 DEF BeginFrame
  <2>2. BcastReady(r) /\ Goto(r, "render") /\ pc[r] = "begin"
    BY <1>3 DEF BeginFrame
  <2>3. report \in Data
    <3>1. CASE r = Master
      <4>1. report \in {FALSE, CanCancel}
        BY <2>1, <3>1
      <4>2. FALSE \in BOOLEAN /\ CanCancel \in BOOLEAN
        BY RankAssumption
      <4>3. report \in BOOLEAN
        BY <4>1, <4>2, Zenon
      <4>4. QED
        BY <4>3, Zenon DEF Data
    <3>2. CASE r # Master
      BY <2>1, <2>2, <3>2, FromMasterTyped
    <3>3. QED
      BY <3>1, <3>2
  <2>4. "bcastReport" \in Kind /\ "render" \in PC
        /\ Lands("render", "bcastReport", report) /\ "bcastReport" = NextCall(r)
    BY <2>2 DEF Kind, PC, Lands, NextCall
  <2>5. r = Master \/ (BcastReady(r) /\ report = FromMaster(r))
    BY <2>1, <2>2
  <2>6. QED
    BY <2>1, <2>2, <2>3, <2>4, <2>5, CallStep
<1>4. ASSUME NEW r \in Rank, EnterIbarrier(r)
      PROVE  CallInv'
  <2>1. {} \in Data /\ "ibarrier" \in Kind /\ "ibarrier" \in PC
    BY DEF Data, Kind, PC
  <2>2. Call(r, "ibarrier", {}) /\ Goto(r, "ibarrier") /\ "ibarrier" = NextCall(r)
    BY <1>4 DEF EnterIbarrier, NextCall
  <2>3. Lands("ibarrier", "ibarrier", {}) /\ "ibarrier" \notin Bcast
    BY DEF Lands, Bcast
  <2>4. QED
    BY <2>1, <2>2, <2>3, CallStep
<1>5. ASSUME NEW r \in Rank, BcastCancelled(r)
      PROVE  CallInv'
  <2>1. PICK cancelled \in IF r = Master THEN BOOLEAN ELSE {FromMaster(r)} :
          /\ Call(r, "bcastCancelled", cancelled)
          /\ Goto(r, IF cancelled THEN "end" ELSE "gather")
    BY <1>5 DEF BcastCancelled
  <2> DEFINE l == IF cancelled THEN "end" ELSE "gather"
  <2>2. BcastReady(r) /\ pc[r] = "cancel"
    BY <1>5 DEF BcastCancelled
  <2>3. cancelled \in Data
    <3>1. CASE r = Master
      <4>1. cancelled \in BOOLEAN
        BY <2>1, <3>1
      <4>2. QED
        BY <4>1, Zenon DEF Data
    <3>2. CASE r # Master
      BY <2>1, <2>2, <3>2, FromMasterTyped
    <3>3. QED
      BY <3>1, <3>2
  <2>4. "bcastCancelled" \in Kind /\ l \in PC /\ "bcastCancelled" = NextCall(r)
    BY <2>2 DEF Kind, PC, NextCall
  <2>5. Lands(l, "bcastCancelled", cancelled)
    BY DEF Lands
  <2>6. r = Master \/ (BcastReady(r) /\ cancelled = FromMaster(r))
    BY <2>1, <2>2
  <2>7. Goto(r, l)
    BY <2>1
  <2> HIDE DEF l
  <2>8. QED
    BY <2>1, <2>3, <2>4, <2>5, <2>6, <2>7, CallStep
<1>6. ASSUME NEW r \in Rank, Gather(r)
      PROVE  CallInv'
  <2> DEFINE l == IF r = Master THEN "assemble" ELSE "end"
  <2>1. Call(r, "gather", gatherBuffer[r]) /\ Goto(r, l) /\ "gather" = NextCall(r)
    BY <1>6 DEF Gather, NextCall
  <2>2. gatherBuffer[r] \in Data /\ "gather" \in Kind /\ l \in PC
    <3>1. gatherBuffer[r] \in SUBSET (Tile \X (1..MaxFrame))
      BY DEF TypeOK
    <3>2. gatherBuffer[r] \in Data
      BY <3>1, Zenon DEF Data
    <3>3. QED
      BY <3>2 DEF Kind, PC
  <2>3. Lands(l, "gather", gatherBuffer[r]) /\ "gather" \notin Bcast
    BY DEF Lands, Bcast
  <2> HIDE DEF l
  <2>4. QED
    BY <2>1, <2>2, <2>3, CallStep
<1>7. ASSUME NEW r \in Rank, NEW l \in PC, Goto(r, l), UNCHANGED calls,
             \/ pc[r] = "barrier" /\ l = "start"
             \/ pc[r] = "check" /\ l \in {"close", "begin"}
             \/ pc[r] = "close" /\ l = "begin"
             \/ pc[r] = "render" /\ l = "wait"
             \/ pc[r] = "ibarrier" /\ l = "stop"
             \/ pc[r] = "stop" /\ l = IF Reports(r) THEN "cancel" ELSE "gather"
             \/ pc[r] = "assemble" /\ l = "end"
             \/ pc[r] = "end" /\ l = "idle"
      PROVE  CallInv'
  <2>1. pc'[r] = l /\ Reports(r)' = Reports(r)
    BY <1>7 DEF CallInv, CallsTyped, Goto, Reports
  <2>2. NextCall(r)' = NextCall(r)
    BY <1>7, <2>1 DEF NextCall
  <2>3. QED
    BY <1>7, <2>2, SilentStep
<1>8. ASSUME NEW r \in Rank, MainThread(r)
      PROVE  CallInv'
  <2>1. CASE LeaveBarrier(r)
    BY <1>7, <2>1 DEF LeaveBarrier, PC
  <2>2. CASE CheckComplete(r)
    BY <1>7, <2>2 DEF CheckComplete, PC
  <2>3. CASE CloseAtStart(r)
    BY <1>7, <2>3 DEF CloseAtStart, PC
  <2>4. CASE RenderingDone(r)
    BY <1>7, <2>4 DEF RenderingDone, PC
  <2>5. CASE LeaveIbarrier(r)
    BY <1>7, <2>5 DEF LeaveIbarrier, PC
  <2>6. CASE StopMessaging(r)
    BY <1>7, <2>6 DEF StopMessaging, PC
  <2>7. CASE EndFrame(r)
    BY <1>7, <2>7 DEF EndFrame, PC
  <2>8. CASE r = Master /\ Assemble
    BY <1>7, <2>8 DEF Assemble, PC
  <2>9. QED
    BY <1>1, <1>2, <1>3, <1>4, <1>5, <1>6, <1>8, <2>1, <2>2, <2>3, <2>4, <2>5,
       <2>6, <2>7, <2>8 DEF MainThread
<1>9. CASE UNCHANGED <<pc, calls>>
  BY <1>9, OtherStep
<1>10. ASSUME Next, ~ \E r \in Rank : MainThread(r)
       PROVE  UNCHANGED <<pc, calls>>
  BY <1>10 DEF Next, Clear, RenderTile, Receive, Incoming, ProcessMessage,
               StoreTile, CountTile, CloseByTask, main
<1>11. QED
  BY <1>8, <1>9, <1>10 DEF vars, main

-----------------------------------------------------------------------------
(***************************************************************************)
(* The type invariant: it needs that a rank that handles tiles has started *)
(* a frame, and the types of what a rank takes from the master.            *)
(***************************************************************************)
Started(r) == frame[r] >= 1

FrameInv ==
  /\ \A r \in Rank : pc[r] \notin {"idle", "barrier", "start"} => Started(r)
  /\ \A r \in Rank : pc[r] \in {"barrier", "start"} => frame[r] < MaxFrame
  /\ \A r \in Rank : messaging[r] => Started(r)
  /\ \A m \in inbox \cup tasks : Started(OwnerOf(m.tile))
  /\ \A r \in Rank : \A m \in delayed[r] : Started(OwnerOf(m.tile))
  /\ \A t \in Tile : stage[t] # "open" => Started(OwnerOf(t))

IInv == CallInv /\ TypeOK /\ FrameInv

LEMMA InitIInv == Init => IInv
<1> SUFFICES ASSUME Init
             PROVE  IInv
  OBVIOUS
<1>1. CallInv
  BY InitCallInv
<1>2. 0 \in 0 .. MaxFrame /\ 0 \in Nat
  BY FrameAssumption
<1>3. TypeOK
  BY <1>2 DEF Init, TypeOK, PC
<1>4. FrameInv
  BY OwnerIsRank DEF Init, FrameInv
<1>5. QED
  BY <1>1, <1>3, <1>4 DEF IInv

\* A step that leaves the frame numbers alone keeps FrameInv if no tile, and
\* no rank, is new to a frame.
LEMMA ProcessPartTyped ==
  ASSUME TypeOK, FrameInv, NEW t \in Tile, NEW q \in Rank, NEW f \in 1..MaxFrame,
         Started(OwnerOf(t)), ProcessPart(t, q, f), UNCHANGED frame
  PROVE  /\ parts' \in [Tile -> SUBSET (Rank \X (1..MaxFrame))]
         /\ stage' \in [Tile -> {"open", "final", "stored", "counted"}]
         /\ \A u \in Tile : stage'[u] # "open" => Started(OwnerOf(u))
         /\ UNCHANGED <<completed, gatherBuffer>>
<1>1. parts' \in [Tile -> SUBSET (Rank \X (1..MaxFrame))]
  BY DEF ProcessPart, TypeOK
<1>2. stage' = stage \/ stage' = [stage EXCEPT ![t] = "final"]
  BY DEF ProcessPart
<1>3. stage' \in [Tile -> {"open", "final", "stored", "counted"}]
  BY <1>2 DEF TypeOK
<1>4. \A u \in Tile : stage'[u] # "open" => Started(OwnerOf(u))
  BY <1>2 DEF TypeOK, FrameInv
<1>5. QED
  BY <1>1, <1>3, <1>4 DEF ProcessPart

LEMMA MainThreadTyped ==
  ASSUME IInv, NEW r \in Rank, MainThread(r)
  PROVE  TypeOK' /\ FrameInv'
<1> USE DEF IInv
<1>1. CASE EnterBarrier(r)
  BY <1>1, FrameAssumption DEF EnterBarrier, Goto, Call, TypeOK, FrameInv, Started, PC,
       flags, tiles, msgs
<1>2. CASE LeaveBarrier(r)
  BY <1>2 DEF LeaveBarrier, Goto, TypeOK, FrameInv, Started, PC, flags, tiles, msgs
<1>3. CASE StartNewFrame(r)
  <2> DEFINE conv == IF r = Master THEN converged[r] ELSE FromMaster(r)
  <2>1. conv \in SUBSET Tile
    BY <1>3, FromMasterTyped DEF StartNewFrame, TypeOK
  <2>2. Cardinality(MyTiles(r) \cap conv) \in Nat
    <3>1. IsFiniteSet(MyTiles(r) \cap conv)
      BY OwnerIsRank, FS_Subset DEF MyTiles
    <3>2. QED
      BY <3>1, FS_CardinalityType
  <2>3. /\ converged' = [converged EXCEPT ![r] = conv]
        /\ todo' = [todo EXCEPT ![r] = {t \in Tile \ conv : r \in Renderers[t]}]
        /\ completed' = [completed EXCEPT ![r] = Cardinality(MyTiles(r) \cap conv)]
        /\ Call(r, "bcastErrors", conv)
    BY <1>3 DEF StartNewFrame
  <2>4. /\ frame' = [frame EXCEPT ![r] = @ + 1]
        /\ frame[r] \in 0 .. MaxFrame /\ frame[r] < MaxFrame
    BY <1>3 DEF StartNewFrame, TypeOK, FrameInv
  <2>5. frame' \in [Rank -> 0 .. MaxFrame] /\ Started(r)'
        /\ \A s \in Rank : Started(s) => Started(s)'
    BY <2>4, FrameAssumption DEF TypeOK, Started
  <2> HIDE DEF conv
  <2>6. /\ pc' = [pc EXCEPT ![r] = "check"]
        /\ parts' = [t \in Tile |-> IF OwnerOf(t) = r THEN {} ELSE parts[t]]
        /\ stage' = [t \in Tile |-> IF OwnerOf(t) = r THEN "open" ELSE stage[t]]
        /\ gatherBuffer' = [gatherBuffer EXCEPT ![r] = {}]
        /\ frameIsDone' = [frameIsDone EXCEPT ![r] = FALSE]
        /\ frameIsActive' = [frameIsActive EXCEPT ![r] = TRUE]
        /\ tasks' = tasks \cup delayed[r]
        /\ delayed' = [delayed EXCEPT ![r] = {}]
        /\ messaging' = [messaging EXCEPT ![r] = TRUE]
        /\ UNCHANGED <<closers, net, inbox, image, staleClose>>
    BY <1>3 DEF StartNewFrame, Goto
  <2>7. TypeOK'
    <3>1. pc' \in [Rank -> PC]
      BY <2>6 DEF TypeOK, PC
    <3>2. converged' \in [Rank -> SUBSET Tile] /\ todo' \in [Rank -> SUBSET Tile]
          /\ completed' \in [Rank -> Nat]
      BY <2>1, <2>2, <2>3 DEF TypeOK
    <3>3. parts' \in [Tile -> SUBSET (Rank \X (1..MaxFrame))]
          /\ stage' \in [Tile -> {"open", "final", "stored", "counted"}]
      BY <2>6 DEF TypeOK
    <3>4. DOMAIN calls' = Rank
      BY <2>3 DEF Call, TypeOK
    <3>5. tasks' \in SUBSET Message /\ delayed' \in [Rank -> SUBSET Message]
      BY <2>6 DEF TypeOK
    <3>6. frameIsActive' \in [Rank -> BOOLEAN] /\ frameIsDone' \in [Rank -> BOOLEAN]
          /\ messaging' \in [Rank -> BOOLEAN]
          /\ gatherBuffer' \in [Rank -> SUBSET (Tile \X (1..MaxFrame))]
      BY <2>6 DEF TypeOK
    <3>7. QED
      BY <2>5, <2>6, <3>1, <3>2, <3>3, <3>4, <3>5, <3>6 DEF TypeOK
  <2>8. FrameInv'
    <3>1. /\ \A s \in Rank : pc'[s] \notin {"idle", "barrier", "start"} => Started(s)'
          /\ \A s \in Rank : pc'[s] \in {"barrier", "start"} => frame'[s] < MaxFrame
          /\ \A s \in Rank : messaging'[s] => Started(s)'
      BY <2>4, <2>5, <2>6 DEF TypeOK, FrameInv
    <3>2. \A m \in inbox \cup tasks \cup delayed[r] : Started(OwnerOf(m.tile))'
      <4>1. ASSUME NEW m \in inbox \cup tasks \cup delayed[r]
            PROVE  Started(OwnerOf(m.tile))'
        <5>1. m.tile \in Tile
          BY DEF TypeOK, Message
        <5>2. OwnerOf(m.tile) \in Rank /\ Started(OwnerOf(m.tile))
          BY <5>1, OwnerIsRank DEF FrameInv
        <5>3. QED
          BY <2>5, <5>2
      <4>2. QED
        BY <4>1
    <3>3. \A s \in Rank : \A m \in delayed'[s] : Started(OwnerOf(m.tile))'
      <4>1. ASSUME NEW s \in Rank, NEW m \in delayed'[s]
            PROVE  Started(OwnerOf(m.tile))'
        <5>1. m \in delayed[s]
          BY <2>6 DEF TypeOK
        <5>2. m.tile \in Tile
          BY <5>1 DEF TypeOK, Message
        <5>3. OwnerOf(m.tile) \in Rank /\ Started(OwnerOf(m.tile))
          BY <5>1, <5>2, OwnerIsRank DEF FrameInv
        <5>4. QED
          BY <2>5, <5>3
      <4>2. QED
        BY <4>1
    <3>4. \A t \in Tile : stage'[t] # "open" => Started(OwnerOf(t))'
      BY <2>5, <2>6, OwnerIsRank DEF TypeOK, FrameInv
    <3>5. QED
      BY <2>6, <3>1, <3>2, <3>3, <3>4 DEF FrameInv
  <2>9. QED
    BY <2>7, <2>8
<1>4. CASE CheckComplete(r)
  BY <1>4 DEF CheckComplete, Goto, TypeOK, FrameInv, Started, PC, flags, tiles, msgs
<1>5. CASE CloseAtStart(r)
  BY <1>5 DEF CloseAtStart, Goto, TypeOK, FrameInv, Started, PC, tiles, msgs
<1>6. CASE BeginFrame(r)
  BY <1>6 DEF BeginFrame, Goto, Call, TypeOK, FrameInv, Started, PC, flags, tiles, msgs
<1>7. CASE RenderingDone(r)
  BY <1>7 DEF RenderingDone, Goto, TypeOK, FrameInv, Started, PC, tiles, msgs
<1>8. CASE EnterIbarrier(r)
  BY <1>8 DEF EnterIbarrier, Goto, Call, TypeOK, FrameInv, Started, PC, flags, tiles, msgs
<1>9. CASE LeaveIbarrier(r)
  BY <1>9 DEF LeaveIbarrier, Goto, TypeOK, FrameInv, Started, PC, tiles, msgs
<1>10. CASE StopMessaging(r)
  BY <1>10 DEF StopMessaging, Goto, TypeOK, FrameInv, Started, PC, flags, tiles
<1>11. CASE BcastCancelled(r)
  BY <1>11 DEF BcastCancelled, Goto, Call, TypeOK, FrameInv, Started, PC, flags, tiles,
       msgs
<1>12. CASE Gather(r)
  BY <1>12 DEF Gather, Goto, Call, TypeOK, FrameInv, Started, PC, flags, tiles, msgs
<1>13. CASE EndFrame(r)
  BY <1>13 DEF EndFrame, Goto, TypeOK, FrameInv, Started, PC, flags, tiles, msgs
<1>14. CASE r = Master /\ Assemble
  <2>1. image' \in [Tile -> 0..MaxFrame]
    <3> DEFINE G(t, f) == <<t, f>> \in Gathered(OwnerOf(t))
               new(t) == IF \E f \in 1..MaxFrame : G(t, f)
                           THEN CHOOSE f \in 1..MaxFrame : G(t, f) ELSE image[t]
    <3>1. image' = [t \in Tile |-> new(t)]
      BY <1>14 DEF Assemble
    <3> HIDE DEF G
    <3>2. ASSUME NEW t \in Tile
          PROVE  new(t) \in 0..MaxFrame
      <4>1. image[t] \in 0..MaxFrame
        BY DEF TypeOK
      <4>2. CASE \E f \in 1..MaxFrame : G(t, f)
        <5>1. (CHOOSE f \in 1..MaxFrame : G(t, f)) \in 1..MaxFrame
          BY <4>2
        <5>2. QED
          BY <4>2, <5>1, FrameAssumption
      <4>3. QED
        BY <4>1, <4>2
    <3>3. QED
      BY <3>1, <3>2
  <2>2. converged' \in [Rank -> SUBSET Tile] /\ pc' \in [Rank -> PC]
    BY <1>14 DEF Assemble, Goto, TypeOK, PC
  <2>3. UNCHANGED <<frame, calls, flags, todo, tiles, closers, msgs, staleClose>>
    BY <1>14 DEF Assemble
  <2>4. TypeOK'
    BY <2>1, <2>2, <2>3 DEF TypeOK, flags, tiles, msgs
  <2>5. pc[Master] = "assemble" /\ pc' = [pc EXCEPT ![Master] = "end"]
    BY <1>14 DEF Assemble, Goto
  <2>6. FrameInv'
    BY <2>3, <2>5 DEF FrameInv, TypeOK, Started, flags, tiles, msgs
  <2>7. QED
    BY <2>4, <2>6
<1>15. QED
  BY <1>1, <1>2, <1>3, <1>4, <1>5, <1>6, <1>7, <1>8, <1>9, <1>10, <1>11, <1>12,
     <1>13, <1>14 DEF MainThread

LEMMA NextTyped ==
  ASSUME IInv, [Next]_vars
  PROVE  TypeOK' /\ FrameInv'
<1> USE DEF IInv
<1>1. ASSUME NEW r \in Rank, Clear(r)
      PROVE  TypeOK' /\ FrameInv'
  BY <1>1 DEF Clear, TypeOK, FrameInv, Started, main, flags, tiles, msgs
<1>2. ASSUME NEW r \in Rank, NEW t \in Tile, RenderTile(r, t)
      PROVE  TypeOK' /\ FrameInv'
  <2>1. frame[r] \in 1..MaxFrame /\ Started(r)
    BY <1>2 DEF RenderTile, TypeOK, FrameInv, Started
  <2>2. todo' \in [Rank -> SUBSET Tile] /\ net' \in SUBSET Message
    <3>1. [tile |-> t, from |-> r, frame |-> frame[r]] \in Message
      BY <2>1 DEF Message
    <3>2. QED
      BY <1>2, <3>1 DEF RenderTile, TypeOK
  <2>3. CASE OwnerOf(t) = r
    <3>1. ProcessPart(t, r, frame[r]) /\ UNCHANGED frame
      BY <1>2, <2>3 DEF RenderTile, main
    <3>2. /\ parts' \in [Tile -> SUBSET (Rank \X (1..MaxFrame))]
          /\ stage' \in [Tile -> {"open", "final", "stored", "counted"}]
          /\ \A u \in Tile : stage'[u] # "open" => Started(OwnerOf(u))
          /\ UNCHANGED <<completed, gatherBuffer>>
      BY <2>1, <2>3, <3>1, ProcessPartTyped
    <3>3. QED
      BY <1>2, <2>2, <3>1, <3>2 DEF RenderTile, TypeOK, FrameInv, Started, main, flags
  <2>4. CASE OwnerOf(t) # r
    BY <1>2, <2>2, <2>4 DEF RenderTile, TypeOK, FrameInv, Started, main, flags, tiles
  <2>5. QED
    BY <2>3, <2>4
<1>3. ASSUME NEW m \in net, Receive(m)
      PROVE  TypeOK' /\ FrameInv'
  <2>1. m.tile \in Tile /\ OwnerOf(m.tile) \in Rank
    BY OwnerIsRank DEF TypeOK, Message
  <2>2. Started(OwnerOf(m.tile))
    BY <1>3, <2>1 DEF Receive, FrameInv
  <2>3. QED
    BY <1>3, <2>2 DEF Receive, TypeOK, FrameInv, Started, main, flags, tiles
<1>4. ASSUME NEW m \in inbox, Incoming(m)
      PROVE  TypeOK' /\ FrameInv'
  <2>1. m.tile \in Tile /\ OwnerOf(m.tile) \in Rank /\ Started(OwnerOf(m.tile))
    BY OwnerIsRank DEF TypeOK, Message, FrameInv
  <2>2. tasks' \in SUBSET Message /\ delayed' \in [Rank -> SUBSET Message]
        /\ inbox' \in SUBSET Message
    BY <1>4, <2>1 DEF Incoming, TypeOK
  <2>3. TypeOK'
    BY <1>4, <2>2 DEF Incoming, TypeOK, main, flags, tiles
  <2>4. UNCHANGED <<pc, frame, messaging, stage>>
    BY <1>4 DEF Incoming, main, tiles
  <2>5. \A n \in inbox' \cup tasks' : Started(OwnerOf(n.tile))
    BY <1>4, <2>1 DEF Incoming, FrameInv
  <2>6. \A r \in Rank : \A n \in delayed'[r] : Started(OwnerOf(n.tile))
    BY <1>4, <2>1 DEF Incoming, FrameInv, TypeOK
  <2>7. QED
    BY <2>3, <2>4, <2>5, <2>6 DEF FrameInv, Started
<1>5. ASSUME NEW m \in tasks, ProcessMessage(m)
      PROVE  TypeOK' /\ FrameInv'
  <2>1. m.tile \in Tile /\ m.from \in Rank /\ m.frame \in 1..MaxFrame
        /\ Started(OwnerOf(m.tile))
    BY DEF TypeOK, Message, FrameInv
  <2>2. ProcessPart(m.tile, m.from, m.frame) /\ UNCHANGED frame
    BY <1>5 DEF ProcessMessage, main
  <2>3. /\ parts' \in [Tile -> SUBSET (Rank \X (1..MaxFrame))]
        /\ stage' \in [Tile -> {"open", "final", "stored", "counted"}]
        /\ \A u \in Tile : stage'[u] # "open" => Started(OwnerOf(u))
        /\ UNCHANGED <<completed, gatherBuffer>>
    BY <2>1, <2>2, ProcessPartTyped
  <2>4. QED
    BY <1>5, <2>2, <2>3 DEF ProcessMessage, TypeOK, FrameInv, Started, main, flags
<1>6. ASSUME NEW t \in Tile, StoreTile(t) \/ CountTile(t)
      PROVE  TypeOK' /\ FrameInv'
  <2>1. OwnerOf(t) \in Rank /\ stage[t] # "open" /\ Started(OwnerOf(t))
    BY <1>6, OwnerIsRank DEF StoreTile, CountTile, FrameInv
  <2>2. frame[OwnerOf(t)] \in 1..MaxFrame
    BY <2>1 DEF TypeOK, Started
  <2>3. CASE StoreTile(t)
    <3>1. <<t, frame[OwnerOf(t)]>> \in Tile \X (1..MaxFrame)
      BY <2>2
    <3>2. gatherBuffer' \in [Rank -> SUBSET (Tile \X (1..MaxFrame))]
      BY <2>1, <2>3, <3>1 DEF StoreTile, TypeOK
    <3>3. QED
      BY <2>1, <2>3, <3>2 DEF StoreTile, TypeOK, FrameInv, Started, main, flags, msgs
  <2>4. CASE CountTile(t)
    <3>1. closers' \in [Rank -> SUBSET (1..MaxFrame)]
      BY <2>1, <2>2, <2>4 DEF CountTile, TypeOK
    <3>2. QED
      BY <2>1, <2>4, <3>1 DEF CountTile, TypeOK, FrameInv, Started, main, flags, msgs
  <2>5. QED
    BY <1>6, <2>3, <2>4
<1>7. ASSUME NEW r \in Rank, CloseByTask(r)
      PROVE  TypeOK' /\ FrameInv'
  <2>1. PICK f \in closers[r] :
          /\ closers' = [closers EXCEPT ![r] = @ \ {f}]
          /\ staleClose' = (staleClose \/ f < frame[r])
    BY <1>7 DEF CloseByTask
  <2>2. staleClose' \in BOOLEAN
    BY <2>1, Zenon
  <2>3. closers' \in [Rank -> SUBSET (1..MaxFrame)]
    BY <2>1 DEF TypeOK
  <2>4. QED
    BY <1>7, <2>2, <2>3 DEF CloseByTask, TypeOK, FrameInv, Started, main, tiles, msgs
<1>8. CASE UNCHANGED vars
  BY <1>8 DEF TypeOK, FrameInv, Started, vars, main, flags, tiles, msgs
<1>9. QED
  BY <1>1, <1>2, <1>3, <1>4, <1>5, <1>6, <1>7, <1>8, MainThreadTyped DEF Next

-----------------------------------------------------------------------------
\* The invariant of the calls and the types hold throughout.
THEOREM Invariance == Spec => []IInv
<1>1. Init => IInv
  BY InitIInv
<1>2. IInv /\ [Next]_vars => IInv'
  BY NextCallInv, NextTyped DEF IInv
<1>3. QED
  BY <1>1, <1>2, PTL DEF Spec

\* Every variable keeps its type, with any number of ranks, tiles and frames.
THEOREM TypeCorrect == Spec => []TypeOK
<1>1. IInv => TypeOK
  BY DEF IInv
<1>2. QED
  BY <1>1, Invariance, PTL

\* All ranks make the same collective calls in the same order: no broadcast of
\* waitUntilFinished is ever matched with one of another kind, and a frame
\* that is cancelled is cancelled on every rank.
THEOREM CollectivesMatch == Spec => []CallsMatch
<1>1. IInv => CallsMatch
  BY DEF IInv, CallInv
<1>2. QED
  BY <1>1, Invariance, PTL

-----------------------------------------------------------------------------
(***************************************************************************)
(* The life of a tile message, if the owner of a tile renders a part of it.*)
(***************************************************************************)

\* A rank does not complete a tile before it has rendered its own part.
OwnersRender == \A t \in Tile : OwnerOf(t) \in Renderers[t]

ToStart == {"barrier", "start"}
BeforeIbarrier == {"check", "close", "begin", "render", "wait"}
Active == BeforeIbarrier \cup {"ibarrier"}
InAFrame == Active \cup {"stop", "cancel", "gather", "assemble"}

CallsOf(r, kind) == {k \in 1 .. Len(calls[r]) : calls[r][k].kind = kind}

\* The frames whose barrier, and whose Ibarrier, a rank has entered.
Entered(r) == frame[r] + IF pc[r] \in ToStart THEN 1 ELSE 0
Finishing(r) == frame[r] - IF pc[r] \in BeforeIbarrier THEN 1 ELSE 0

\* The frame number counts the barriers.
FramesCounted == \A r \in Rank :
  /\ Cardinality(CallsOf(r, "barrier")) = Entered(r)
  /\ Cardinality(CallsOf(r, "ibarrier")) = Finishing(r)

\* Who has left a barrier has left it after everyone entered it.
RanksInOrder == \A r, s \in Rank :
  /\ frame[r] + (IF pc[r] = "start" THEN 1 ELSE 0) <= Entered(s)
  /\ frame[r] - (IF pc[r] \in Active THEN 1 ELSE 0) <= Finishing(s)

\* The tiles a rank takes for converged in a frame are those of the broadcast
\* after its last barrier.
ErrorsKnown == \A r \in Rank : pc[r] \in InAFrame =>
  \E k \in CallsOf(r, "barrier") :
    /\ \A j \in CallsOf(r, "barrier") : j <= k
    /\ k < Len(calls[r]) /\ calls[r][k+1].kind = "bcastErrors"
    /\ converged[r] = calls[r][k+1].data

-----------------------------------------------------------------------------
\* What a call adds to the calls of a kind.
LEMMA CallsOfFinite ==
  ASSUME CallInv, NEW r \in Rank, NEW k
  PROVE  IsFiniteSet(CallsOf(r, k)) /\ Cardinality(CallsOf(r, k)) \in Nat
<1>1. Len(calls[r]) \in Nat
  BY DEF CallInv, CallsTyped
<1>2. IsFiniteSet(1 .. Len(calls[r]))
  BY <1>1, FS_Interval, 1 \in Int
<1>3. QED
  BY <1>2, FS_Subset, FS_CardinalityType DEF CallsOf

LEMMA CountsCall ==
  ASSUME CallInv, NEW r \in Rank, NEW kind \in Kind, NEW data, Call(r, kind, data),
         NEW k
  PROVE  /\ \A s \in Rank : s # r => CallsOf(s, k)' = CallsOf(s, k)
         /\ k # kind => CallsOf(r, k)' = CallsOf(r, k)
         /\ k = kind =>
              /\ CallsOf(r, k)' = CallsOf(r, k) \cup {Len(calls[r]) + 1}
              /\ Cardinality(CallsOf(r, k)') = Cardinality(CallsOf(r, k)) + 1
<1> DEFINE n == Len(calls[r])
<1>1. /\ calls'[r] = Append(calls[r], [kind |-> kind, data |-> data])
      /\ \A s \in Rank : s # r => calls'[s] = calls[s]
      /\ calls[r] \in Seq(CallRecord)
  BY DEF Call, CallInv, CallsTyped
<1>2. /\ n \in Nat /\ Len(calls'[r]) = n + 1
      /\ calls'[r][n + 1].kind = kind
      /\ \A i \in 1 .. n : calls'[r][i] = calls[r][i]
  BY <1>1
<1>3. \A s \in Rank : s # r => CallsOf(s, k)' = CallsOf(s, k)
  BY <1>1 DEF CallsOf
<1>4. CallsOf(r, k)' = CallsOf(r, k) \cup (IF k = kind THEN {n + 1} ELSE {})
  BY <1>2 DEF CallsOf
<1>5. n + 1 \notin CallsOf(r, k)
  BY <1>2 DEF CallsOf
<1>6. k = kind => Cardinality(CallsOf(r, k)') = Cardinality(CallsOf(r, k)) + 1
  BY <1>4, <1>5, CallsOfFinite, FS_AddElement
<1>7. QED
  BY <1>3, <1>4, <1>6

\* Every step keeps the count of the barriers.
LEMMA NextCounted ==
  ASSUME IInv, FramesCounted, [Next]_vars
  PROVE  FramesCounted'
<1> DEFINE Counts(r) == /\ Cardinality(CallsOf(r, "barrier")) = Entered(r)
                        /\ Cardinality(CallsOf(r, "ibarrier")) = Finishing(r)
<1>1. /\ pc \in [Rank -> PC] /\ frame \in [Rank -> 0 .. MaxFrame] /\ CallInv
      /\ MaxFrame \in Nat
  BY FrameAssumption DEF IInv, TypeOK
<1>2. ASSUME NEW r \in Rank, NEW kind \in Kind, NEW data, Call(r, kind, data),
             \A s \in Rank : s # r => pc'[s] = pc[s] /\ frame'[s] = frame[s],
             Entered(r)' = Entered(r) + IF kind = "barrier" THEN 1 ELSE 0,
             Finishing(r)' = Finishing(r) + IF kind = "ibarrier" THEN 1 ELSE 0
      PROVE  FramesCounted'
  <2> SUFFICES ASSUME NEW s \in Rank
               PROVE  Counts(s)'
    BY DEF FramesCounted
  <2>1. Counts(s)
    BY DEF FramesCounted
  <2>2. CASE s # r
    <3>1. CallsOf(s, "barrier")' = CallsOf(s, "barrier")
          /\ CallsOf(s, "ibarrier")' = CallsOf(s, "ibarrier")
      BY <1>1, <1>2, <2>2, CountsCall
    <3>2. Entered(s)' = Entered(s) /\ Finishing(s)' = Finishing(s)
      BY <1>2, <2>2 DEF Entered, Finishing
    <3>3. QED
      BY <2>1, <3>1, <3>2
  <2>3. CASE s = r
    <3>1. Cardinality(CallsOf(r, "barrier")') =
            Cardinality(CallsOf(r, "barrier")) + IF kind = "barrier" THEN 1 ELSE 0
      BY <1>1, <1>2, CountsCall, CallsOfFinite
    <3>2. Cardinality(CallsOf(r, "ibarrier")') =
            Cardinality(CallsOf(r, "ibarrier")) + IF kind = "ibarrier" THEN 1 ELSE 0
      BY <1>1, <1>2, CountsCall, CallsOfFinite
    <3>3. QED
      BY <1>2, <2>1, <2>3, <3>1, <3>2
  <2>4. QED
    BY <2>2, <2>3
<1>3. ASSUME calls' = calls,
             \A s \in Rank : Entered(s)' = Entered(s) /\ Finishing(s)' = Finishing(s)
      PROVE  FramesCounted'
  BY <1>3 DEF FramesCounted, CallsOf
<1>4. ASSUME NEW r \in Rank, EnterBarrier(r)
      PROVE  FramesCounted'
  BY <1>1, <1>2, <1>4 DEF EnterBarrier, Goto, Entered, Finishing, ToStart, BeforeIbarrier, Kind
<1>5. ASSUME NEW r \in Rank, StartNewFrame(r)
      PROVE  FramesCounted'
  <2>1. /\ pc[r] = "start" /\ pc' = [pc EXCEPT ![r] = "check"]
        /\ frame' = [frame EXCEPT ![r] = @ + 1]
        /\ \E data : Call(r, "bcastErrors", data)
    BY <1>5 DEF StartNewFrame, Goto
  <2>2. QED
    BY <1>1, <1>2, <2>1 DEF Entered, Finishing, ToStart, BeforeIbarrier, Kind
<1>6. ASSUME NEW r \in Rank, BeginFrame(r)
      PROVE  FramesCounted'
  BY <1>1, <1>2, <1>6 DEF BeginFrame, Goto, Entered, Finishing, ToStart, BeforeIbarrier, Kind
<1>7. ASSUME NEW r \in Rank, EnterIbarrier(r)
      PROVE  FramesCounted'
  BY <1>1, <1>2, <1>7 DEF EnterIbarrier, Goto, Entered, Finishing, ToStart, BeforeIbarrier, Kind
<1>8. ASSUME NEW r \in Rank, BcastCancelled(r)
      PROVE  FramesCounted'
  <2>1. PICK c : Call(r, "bcastCancelled", c) /\ Goto(r, IF c THEN "end" ELSE "gather")
    BY <1>8 DEF BcastCancelled
  <2>2. pc[r] = "cancel" /\ frame' = frame
        /\ (pc' = [pc EXCEPT ![r] = "end"] \/ pc' = [pc EXCEPT ![r] = "gather"])
    BY <1>8, <2>1 DEF BcastCancelled, Goto
  <2>3. QED
    BY <1>1, <1>2, <2>1, <2>2 DEF Entered, Finishing, ToStart, BeforeIbarrier, Kind
<1>9. ASSUME NEW r \in Rank, Gather(r)
      PROVE  FramesCounted'
  <2>1. Call(r, "gather", gatherBuffer[r]) /\ pc[r] = "gather" /\ frame' = frame
        /\ (pc' = [pc EXCEPT ![r] = "end"] \/ pc' = [pc EXCEPT ![r] = "assemble"])
    BY <1>9 DEF Gather, Goto
  <2>2. QED
    BY <1>1, <1>2, <2>1 DEF Entered, Finishing, ToStart, BeforeIbarrier, Kind
<1>10. ASSUME NEW r \in Rank, LeaveBarrier(r) \/ CheckComplete(r) \/ CloseAtStart(r)
                \/ RenderingDone(r) \/ LeaveIbarrier(r) \/ StopMessaging(r) \/ EndFrame(r)
       PROVE  FramesCounted'
  BY <1>1, <1>3, <1>10 DEF LeaveBarrier, CheckComplete, CloseAtStart, RenderingDone,
     LeaveIbarrier, StopMessaging, EndFrame, Goto, Entered, Finishing, ToStart, BeforeIbarrier
<1>11. CASE Assemble
  BY <1>1, <1>3, <1>11, OwnerIsRank DEF Assemble, Goto, Entered, Finishing, ToStart, BeforeIbarrier
<1>12. CASE UNCHANGED <<pc, calls, frame>>
  BY <1>3, <1>12 DEF Entered, Finishing
<1>13. ASSUME Next, ~ \E r \in Rank : MainThread(r)
       PROVE  UNCHANGED <<pc, calls, frame>>
  BY <1>13 DEF Next, Clear, RenderTile, Receive, Incoming, ProcessMessage,
               StoreTile, CountTile, CloseByTask, main
<1>14. QED
  BY <1>4, <1>5, <1>6, <1>7, <1>8, <1>9, <1>10, <1>11, <1>12, <1>13
     DEF MainThread, vars, main


\* Whoever has made as many calls has entered as many barriers.
LEMMA CallsOrdered ==
  ASSUME CallInv, NEW r \in Rank, NEW s \in Rank, Len(calls[r]) <= Len(calls[s]), NEW k
  PROVE  /\ CallsOf(r, k) \subseteq CallsOf(s, k)
         /\ Cardinality(CallsOf(r, k)) <= Cardinality(CallsOf(s, k))
<1>1. Len(calls[r]) \in Nat /\ Len(calls[s]) \in Nat
  BY DEF CallInv, CallsTyped
<1>2. CallsOf(r, k) \subseteq CallsOf(s, k)
  BY <1>1 DEF CallInv, CallsMatch, CallsOf
<1>3. QED
  BY <1>2, CallsOfFinite, FS_Subset

\* A barrier lets nobody pass before everyone is there.
LEMMA NextInOrder ==
  ASSUME IInv, FramesCounted, RanksInOrder, [Next]_vars
  PROVE  RanksInOrder'
<1> DEFINE Passed(r) == frame[r] + (IF pc[r] = "start" THEN 1 ELSE 0)
           Ended(r) == frame[r] - (IF pc[r] \in Active THEN 1 ELSE 0)
<1>1. /\ pc \in [Rank -> PC] /\ frame \in [Rank -> 0 .. MaxFrame] /\ CallInv
      /\ MaxFrame \in Nat
  BY FrameAssumption DEF IInv, TypeOK
<1>2. \A r, s \in Rank : Passed(r) <= Entered(s) /\ Ended(r) <= Finishing(s)
  BY DEF RanksInOrder
<1>3. \A r \in Rank : /\ Passed(r) \in Int /\ Ended(r) \in Int
                      /\ Entered(r) \in Int /\ Finishing(r) \in Int
  BY <1>1 DEF Entered, Finishing
<1>4. ASSUME NEW r \in Rank,
             \A s \in Rank : s # r => pc'[s] = pc[s] /\ frame'[s] = frame[s],
             Passed(r)' = Passed(r), Ended(r)' = Ended(r),
             Entered(r)' = Entered(r) \/ Entered(r)' = Entered(r) + 1,
             Finishing(r)' = Finishing(r) \/ Finishing(r)' = Finishing(r) + 1
      PROVE  RanksInOrder'
  <2>1. \A s \in Rank : /\ Passed(s)' = Passed(s) /\ Ended(s)' = Ended(s)
                        /\ Entered(s)' >= Entered(s) /\ Finishing(s)' >= Finishing(s)
                        /\ Entered(s)' \in Int /\ Finishing(s)' \in Int
    <3> SUFFICES ASSUME NEW s \in Rank
                 PROVE  /\ Passed(s)' = Passed(s) /\ Ended(s)' = Ended(s)
                        /\ Entered(s)' >= Entered(s) /\ Finishing(s)' >= Finishing(s)
                        /\ Entered(s)' \in Int /\ Finishing(s)' \in Int
      OBVIOUS
    <3>1. CASE s = r
      BY <1>3, <1>4, <3>1
    <3>2. CASE s # r
      BY <1>3, <1>4, <3>2 DEF Entered, Finishing
    <3>3. QED
      BY <3>1, <3>2
  <2>2. \A s, u \in Rank : Passed(s)' <= Entered(u)' /\ Ended(s)' <= Finishing(u)'
    <3> HIDE DEF Passed, Ended
    <3> QED
      BY <1>2, <1>3, <2>1
  <2>3. QED
    BY <2>2 DEF RanksInOrder
<1>5. ASSUME NEW r \in Rank, LeaveBarrier(r)
      PROVE  RanksInOrder'
  <2>1. /\ pc[r] = "barrier" /\ pc' = [pc EXCEPT ![r] = "start"] /\ frame' = frame
        /\ \A s \in Rank : Len(calls[r]) <= Len(calls[s])
    BY <1>1, <1>5 DEF LeaveBarrier, Goto, AllCalled, CallInv, CallsTyped
  <2>2. \A s \in Rank : Entered(r) <= Entered(s)
    BY <1>1, <2>1, CallsOrdered DEF FramesCounted
  <2>3. Passed(r)' = Entered(r) /\ \A s \in Rank : /\ Ended(s)' = Ended(s)
                                                   /\ Entered(s)' = Entered(s)
                                                   /\ Finishing(s)' = Finishing(s)
                                                   /\ s # r => Passed(s)' = Passed(s)
    BY <1>1, <2>1 DEF Entered, Finishing, ToStart, BeforeIbarrier, Active
  <2>4. \A s, u \in Rank : Passed(s)' <= Entered(u)' /\ Ended(s)' <= Finishing(u)'
    <3> HIDE DEF Passed, Ended
    <3> QED
      BY <1>2, <2>2, <2>3
  <2>5. QED
    BY <2>4 DEF RanksInOrder
<1>6. ASSUME NEW r \in Rank, LeaveIbarrier(r)
      PROVE  RanksInOrder'
  <2>1. /\ pc[r] = "ibarrier" /\ pc' = [pc EXCEPT ![r] = "stop"] /\ frame' = frame
        /\ \A s \in Rank : Len(calls[r]) <= Len(calls[s])
    BY <1>1, <1>6 DEF LeaveIbarrier, Goto, AllCalled, CallInv, CallsTyped
  <2>2. \A s \in Rank : Finishing(r) <= Finishing(s)
    BY <1>1, <2>1, CallsOrdered DEF FramesCounted
  <2>3. Ended(r)' = Finishing(r) /\ \A s \in Rank : /\ Passed(s)' = Passed(s)
                                                    /\ Entered(s)' = Entered(s)
                                                    /\ Finishing(s)' = Finishing(s)
                                                    /\ s # r => Ended(s)' = Ended(s)
    BY <1>1, <2>1 DEF Entered, Finishing, ToStart, BeforeIbarrier, Active
  <2>4. \A s, u \in Rank : Passed(s)' <= Entered(u)' /\ Ended(s)' <= Finishing(u)'
    <3> HIDE DEF Passed, Ended
    <3> QED
      BY <1>2, <2>2, <2>3
  <2>5. QED
    BY <2>4 DEF RanksInOrder
<1> USE DEF Entered, Finishing, ToStart, BeforeIbarrier, Active, Goto
<1>7. ASSUME NEW r \in Rank, StartNewFrame(r)
      PROVE  RanksInOrder'
  <2>1. /\ pc[r] = "start" /\ pc' = [pc EXCEPT ![r] = "check"]
        /\ frame' = [frame EXCEPT ![r] = @ + 1]
    BY <1>7 DEF StartNewFrame
  <2>2. QED
    BY <1>1, <1>4, <2>1
<1>8. ASSUME NEW r \in Rank, BcastCancelled(r)
      PROVE  RanksInOrder'
  <2>1. pc[r] = "cancel" /\ frame' = frame
        /\ (pc' = [pc EXCEPT ![r] = "end"] \/ pc' = [pc EXCEPT ![r] = "gather"])
    BY <1>8 DEF BcastCancelled
  <2>2. QED
    BY <1>1, <1>4, <2>1
<1>9. ASSUME NEW r \in Rank, Gather(r) \/ StopMessaging(r) \/ CheckComplete(r)
      PROVE  RanksInOrder'
  <2>1. /\ pc[r] \in {"gather", "stop", "check"} /\ frame' = frame
        /\ \E l \in PC : pc' = [pc EXCEPT ![r] = l]
                           /\ (pc[r] = "check" => l \in {"close", "begin"})
                           /\ (pc[r] # "check" => l \in {"assemble", "end", "gather", "cancel"})
    BY <1>9 DEF Gather, StopMessaging, CheckComplete, PC
  <2>2. QED
    BY <1>1, <1>4, <2>1
<1>10. ASSUME NEW r \in Rank, EnterBarrier(r) \/ CloseAtStart(r) \/ BeginFrame(r)
                \/ RenderingDone(r) \/ EnterIbarrier(r) \/ EndFrame(r)
       PROVE  RanksInOrder'
  <2>1. /\ frame' = frame
        /\ \E l \in PC : /\ pc' = [pc EXCEPT ![r] = l]
                         /\ \/ pc[r] = "idle" /\ l = "barrier"
                            \/ pc[r] \in {"close", "begin", "render"}
                                 /\ l \in {"begin", "render", "wait"}
                            \/ pc[r] = "wait" /\ l = "ibarrier"
                            \/ pc[r] = "end" /\ l = "idle"
    BY <1>10 DEF EnterBarrier, CloseAtStart, BeginFrame, RenderingDone,
       EnterIbarrier, EndFrame, PC
  <2>2. QED
    BY <1>1, <1>4, <2>1
<1>11. CASE Assemble
  BY <1>1, <1>4, <1>11, OwnerIsRank DEF Assemble
<1>12. CASE UNCHANGED <<pc, frame>>
  BY <1>12 DEF RanksInOrder
<1>13. ASSUME Next, ~ \E r \in Rank : MainThread(r)
       PROVE  UNCHANGED <<pc, frame>>
  BY <1>13 DEF Next, Clear, RenderTile, Receive, Incoming, ProcessMessage,
               StoreTile, CountTile, CloseByTask, main
<1>14. QED
  BY <1>5, <1>6, <1>7, <1>8, <1>9, <1>10, <1>11, <1>12, <1>13 DEF MainThread, vars, main

\* Ranks in the same frame go by the same errors.
LEMMA SameErrors ==
  ASSUME IInv, FramesCounted, ErrorsKnown, NEW r \in Rank, NEW s \in Rank,
         pc[r] \in InAFrame, pc[s] \in InAFrame, frame[r] = frame[s]
  PROVE  converged[r] = converged[s]
<1>1. ASSUME NEW p \in Rank, NEW q \in Rank, pc[p] \in InAFrame, pc[q] \in InAFrame,
             frame[p] = frame[q], Len(calls[p]) <= Len(calls[q])
      PROVE  converged[p] = converged[q]
  <2> DEFINE B(u) == CallsOf(u, "barrier")
  <2>1. B(p) \subseteq B(q) /\ IsFiniteSet(B(q))
    BY <1>1, CallsOrdered, CallsOfFinite DEF IInv
  <2>2. Cardinality(B(p)) = Cardinality(B(q))
    BY <1>1 DEF FramesCounted, Entered, InAFrame, Active, BeforeIbarrier, ToStart
  <2>3. B(p) = B(q)
    BY <2>1, <2>2, FS_Subset
  <2>4. PICK k \in B(p) : /\ \A j \in B(p) : j <= k
                          /\ k < Len(calls[p]) /\ calls[p][k+1].kind = "bcastErrors"
                          /\ converged[p] = calls[p][k+1].data
    BY <1>1 DEF ErrorsKnown
  <2>5. PICK l \in B(q) : /\ \A j \in B(q) : j <= l
                          /\ l < Len(calls[q]) /\ calls[q][l+1].kind = "bcastErrors"
                          /\ converged[q] = calls[q][l+1].data
    BY <1>1 DEF ErrorsKnown
  <2>6. Len(calls[p]) \in Nat /\ Len(calls[q]) \in Nat
    BY DEF IInv, CallInv, CallsTyped
  <2>7. k = l /\ k \in Nat
    BY <2>3, <2>4, <2>5, <2>6 DEF CallsOf
  <2>8. k + 1 \in 1 .. Len(calls[p]) /\ k + 1 \in 1 .. Len(calls[q])
    BY <2>4, <2>5, <2>6, <2>7
  <2>9. calls[p][k+1].data = calls[q][k+1].data
    BY <2>4, <2>5, <2>7, <2>8 DEF IInv, CallInv, BcastAgrees, Bcast
  <2>10. QED
    BY <2>4, <2>5, <2>7, <2>9
<1>2. Len(calls[r]) \in Nat /\ Len(calls[s]) \in Nat
  BY DEF IInv, CallInv, CallsTyped
<1>3. Len(calls[r]) <= Len(calls[s]) \/ Len(calls[s]) <= Len(calls[r])
  BY <1>2
<1>4. QED
  BY <1>1, <1>3

\* The errors of a frame stay those of its broadcast.
LEMMA NextErrors ==
  ASSUME IInv, ErrorsKnown, [Next]_vars
  PROVE  ErrorsKnown'
<1> DEFINE Known(r) == \E k \in CallsOf(r, "barrier") :
             /\ \A j \in CallsOf(r, "barrier") : j <= k
             /\ k < Len(calls[r]) /\ calls[r][k+1].kind = "bcastErrors"
             /\ converged[r] = calls[r][k+1].data
<1>1. pc \in [Rank -> PC] /\ CallInv /\ converged \in [Rank -> SUBSET Tile]
  BY DEF IInv, TypeOK
<1>2. ASSUME NEW s \in Rank, pc[s] \in InAFrame, calls'[s] = calls[s],
             converged'[s] = converged[s]
      PROVE  Known(s)'
  <2>1. Known(s)
    BY <1>2 DEF ErrorsKnown
  <2>2. QED
    BY <1>2, <2>1 DEF CallsOf
<1>3. ASSUME NEW r \in Rank, NEW kind \in Kind \ {"barrier"}, NEW data,
             Call(r, kind, data), pc[r] \in InAFrame, UNCHANGED converged
      PROVE  Known(r)'
  <2>1. PICK k \in CallsOf(r, "barrier") :
             /\ \A j \in CallsOf(r, "barrier") : j <= k
             /\ k < Len(calls[r]) /\ calls[r][k+1].kind = "bcastErrors"
             /\ converged[r] = calls[r][k+1].data
    BY <1>3 DEF ErrorsKnown
  <2>2. CallsOf(r, "barrier")' = CallsOf(r, "barrier")
    BY <1>1, <1>3, CountsCall
  <2>3. /\ calls'[r] = Append(calls[r], [kind |-> kind, data |-> data])
        /\ calls[r] \in Seq(CallRecord)
    BY <1>1, <1>3 DEF Call, CallInv, CallsTyped
  <2>4. k \in Nat /\ k + 1 \in 1 .. Len(calls[r])
    BY <2>1, <2>3 DEF CallsOf
  <2>5. Len(calls'[r]) = Len(calls[r]) + 1 /\ calls'[r][k+1] = calls[r][k+1]
    BY <2>3, <2>4
  <2>6. k \in CallsOf(r, "barrier")' /\ \A j \in CallsOf(r, "barrier")' : j <= k
    BY <2>1, <2>2
  <2>7. Len(calls[r]) \in Nat
    BY <2>3
  <2>8. k < Len(calls'[r]) /\ calls'[r][k+1].kind = "bcastErrors"
    BY <2>1, <2>4, <2>5, <2>7
  <2>9. converged'[r] = calls'[r][k+1].data
    BY <1>3, <2>1, <2>5
  <2>10. QED
    BY <2>6, <2>8, <2>9
<1>4. ASSUME NEW r \in Rank, StartNewFrame(r)
      PROVE  Known(r)'
  <2> DEFINE n == Len(calls[r])
  <2>1. PICK conv : /\ Call(r, "bcastErrors", conv) /\ converged' = [converged EXCEPT ![r] = conv]
                    /\ pc[r] = "start"
    BY <1>4 DEF StartNewFrame
  <2>2. CallsOf(r, "barrier")' = CallsOf(r, "barrier")
    BY <1>1, <2>1, CountsCall DEF Kind
  <2>3. /\ calls'[r] = Append(calls[r], [kind |-> "bcastErrors", data |-> conv])
        /\ calls[r] \in Seq(CallRecord) /\ converged'[r] = conv
    BY <1>1, <2>1 DEF Call, CallInv, CallsTyped
  <2>4. Follow(calls[r], n) = "bcastErrors"
    BY <1>1, <2>1 DEF CallInv, PcFollows, NextCall
  <2>5. n \in Nat /\ n # 0
    BY <2>3, <2>4 DEF Follow
  <2>6. calls[r][n].kind \in Kind
    BY <1>1, <2>5, CallIsTyped DEF CallInv
  <2>7. calls[r][n].kind = "barrier"
    BY <2>4, <2>5, <2>6 DEF Follow, Kind
  <2>8. n \in CallsOf(r, "barrier") /\ \A j \in CallsOf(r, "barrier") : j <= n
    BY <2>5, <2>7 DEF CallsOf
  <2>9. /\ Len(calls'[r]) = n + 1
        /\ calls'[r][n+1] = [kind |-> "bcastErrors", data |-> conv]
    BY <2>3, <2>5
  <2>10. QED
    BY <2>2, <2>3, <2>5, <2>8, <2>9
<1>5. ASSUME NEW r \in Rank,
             \A s \in Rank : s # r => /\ pc'[s] = pc[s] /\ calls'[s] = calls[s]
                                      /\ converged'[s] = converged[s],
             pc'[r] \in InAFrame => Known(r)'
      PROVE  ErrorsKnown'
  <2> SUFFICES ASSUME NEW s \in Rank, pc'[s] \in InAFrame
               PROVE  Known(s)'
    BY DEF ErrorsKnown
  <2>1. CASE s = r
    BY <1>5, <2>1
  <2>2. CASE s # r
    BY <1>2, <1>5, <2>2
  <2>3. QED
    BY <2>1, <2>2
<1> HIDE DEF Known
<1> USE DEF InAFrame, Active, BeforeIbarrier, ToStart, Goto
<1>6. ASSUME NEW r \in Rank, EnterBarrier(r) \/ LeaveBarrier(r) \/ EndFrame(r)
      PROVE  ErrorsKnown'
  BY <1>1, <1>5, <1>6 DEF EnterBarrier, LeaveBarrier, EndFrame, Call, CallInv, CallsTyped
<1>7. ASSUME NEW r \in Rank, StartNewFrame(r)
      PROVE  ErrorsKnown'
  <2>1. \A s \in Rank : s # r => /\ pc'[s] = pc[s] /\ calls'[s] = calls[s]
                                 /\ converged'[s] = converged[s]
    BY <1>1, <1>7 DEF StartNewFrame, Call, CallInv, CallsTyped
  <2>2. QED
    BY <1>4, <1>5, <1>7, <2>1
<1>8. ASSUME NEW r \in Rank, CheckComplete(r) \/ CloseAtStart(r)
                \/ RenderingDone(r) \/ LeaveIbarrier(r) \/ StopMessaging(r)
      PROVE  ErrorsKnown'
  <2>1. /\ pc[r] \in InAFrame /\ UNCHANGED <<calls, converged>>
        /\ \A s \in Rank : s # r => pc'[s] = pc[s]
    BY <1>1, <1>8 DEF CheckComplete, CloseAtStart, RenderingDone, LeaveIbarrier, StopMessaging
  <2>2. QED
    BY <1>2, <1>5, <2>1
<1>9. ASSUME NEW r \in Rank, BeginFrame(r) \/ EnterIbarrier(r) \/ BcastCancelled(r) \/ Gather(r)
      PROVE  ErrorsKnown'
  <2>1. PICK kind \in Kind \ {"barrier"} : \E data : Call(r, kind, data)
    BY <1>9 DEF BeginFrame, EnterIbarrier, BcastCancelled, Gather, Kind
  <2>2. /\ pc[r] \in InAFrame /\ UNCHANGED converged
        /\ \A s \in Rank : s # r => pc'[s] = pc[s]
    BY <1>1, <1>9 DEF BeginFrame, EnterIbarrier, BcastCancelled, Gather
  <2>3. \A s \in Rank : s # r => calls'[s] = calls[s]
    BY <1>1, <2>1 DEF Call, CallInv, CallsTyped
  <2>4. QED
    BY <1>3, <1>5, <2>1, <2>2, <2>3
<1>10. CASE Assemble
  BY <1>1, <1>5, <1>10, OwnerIsRank DEF Assemble
<1>11. ASSUME NEW r \in Rank, Clear(r)
       PROVE  ErrorsKnown'
  BY <1>1, <1>5, <1>11 DEF Clear, main
<1>12. CASE UNCHANGED <<pc, calls, converged>>
  BY <1>2, <1>12 DEF ErrorsKnown, Known
<1>13. ASSUME Next, ~ \E r \in Rank : MainThread(r) \/ Clear(r)
       PROVE  UNCHANGED <<pc, calls, converged>>
  BY <1>13 DEF Next, RenderTile, Receive, Incoming, ProcessMessage,
               StoreTile, CountTile, CloseByTask, main
<1>14. QED
  BY <1>6, <1>7, <1>8, <1>9, <1>10, <1>11, <1>12, <1>13 DEF MainThread, vars, main


-----------------------------------------------------------------------------
\* What the flags and the tiles to render say of where a rank is.
FlagsFollow == \A r \in Rank :
  /\ frameIsActive[r] <=> pc[r] \in Active
  /\ messaging[r] <=> pc[r] \in Active \cup {"stop"}
  /\ delayed[r] = {}
  /\ pc[r] \notin BeforeIbarrier \ {"wait"} => todo[r] = {}
  /\ pc[r] \in InAFrame \ BeforeIbarrier => frameIsDone[r]

OnTheWay == net \cup inbox \cup tasks

\* A message is of the frame its sender is in, or about to leave, and that its
\* receiver is in, or about to start; its part of the tile is missed.
MessagesFollow ==
  /\ net \cap inbox = {} /\ (net \cup inbox) \cap tasks = {}
  /\ \A m \in OnTheWay :
       LET o == OwnerOf(m.tile) IN
       /\ m.from \in Renderers[m.tile] /\ m.frame = frame[m.from]
       /\ pc[m.from] \in {"render", "wait", "ibarrier"}
       /\ m.tile \notin converged[m.from]
       /\ <<m.from, m.frame>> \notin parts[m.tile]
       /\ \/ pc[o] \in ToStart /\ m.frame = frame[o] + 1 /\ m \in net
          \/ pc[o] \in BeforeIbarrier /\ m.frame = frame[o]

\* A part that is to be rendered is neither sent nor processed.
TodoFollows == \A r \in Rank :
  /\ \A t \in todo[r] :
       /\ r \in Renderers[t] /\ t \notin converged[r]
       /\ <<r, frame[r]>> \notin parts[t]
       /\ [tile |-> t, from |-> r, frame |-> frame[r]] \notin OnTheWay
  /\ pc[r] \in {"check", "close", "begin"} =>
       todo[r] = {t \in Tile \ converged[r] : r \in Renderers[t]}

\* The parts of a tile are of its owner's frame; it is completed with all of
\* them, and before the owner enters the Ibarrier.
PartsFollow == \A t \in Tile :
  LET o == OwnerOf(t) IN
  /\ parts[t] \subseteq Renderers[t] \X {frame[o]}
  /\ \A q \in Rank : <<q, frame[o]>> \in parts[t] => frame[o] <= frame[q]
  /\ stage[t] # "open" => parts[t] = Renderers[t] \X {frame[o]}
  /\ pc[o] \in InAFrame /\ parts[t] # {} => t \notin converged[o]
  /\ pc[o] \notin BeforeIbarrier => stage[t] \in {"open", "counted"}

Done(r) == {t \in MyTiles(r) : t \in converged[r] \/ stage[t] = "counted"}

\* The counter counts the tiles that are done; the frame is closed, or about
\* to be closed by the one task that counted the last tile, when all are.
DoneFollows == \A r \in Rank :
  /\ pc[r] \in InAFrame => completed[r] = Cardinality(Done(r))
  /\ pc[r] \in InAFrame /\ frameIsDone[r] => Done(r) = MyTiles(r)
  /\ pc[r] = "close" => Done(r) = MyTiles(r)
  /\ closers[r] # {} =>
       /\ closers[r] = {frame[r]} /\ pc[r] \in {"render", "wait"}
       /\ ~frameIsDone[r] /\ Done(r) = MyTiles(r) /\ MyTiles(r) # {}

FrameSteps == FramesCounted /\ RanksInOrder /\ ErrorsKnown /\ FlagsFollow

TileSteps == MessagesFollow /\ TodoFollows /\ PartsFollow /\ DoneFollows /\ NoStaleClose

WholeInv == IInv /\ FrameSteps /\ TileSteps

-----------------------------------------------------------------------------
\* The steps of a main thread but the start of a frame, and a clear.
Quiet(r) ==
  /\ UNCHANGED <<frame, todo, parts, stage, completed, closers, net, inbox, tasks,
                 delayed, staleClose>>
  /\ \A s \in Rank : s # r => /\ pc'[s] = pc[s] /\ converged'[s] = converged[s]
                              /\ frameIsDone'[s] = frameIsDone[s]
                              /\ frameIsActive'[s] = frameIsActive[s]
                              /\ messaging'[s] = messaging[s]
  /\ pc'[r] \in InAFrame => converged'[r] = converged[r]
  /\ pc'[r] \in Active => /\ frameIsActive'[r] = frameIsActive[r]
                          /\ messaging'[r] = messaging[r]
  /\ \/ /\ pc[r] \notin InAFrame /\ pc'[r] \notin InAFrame
        /\ pc[r] \in ToStart => pc'[r] \in ToStart
        /\ UNCHANGED <<frameIsDone, frameIsActive, messaging>>
     \/ /\ pc[r] \in {"cancel", "gather", "assemble"}
        /\ pc'[r] \in {"gather", "assemble", "end"}
        /\ UNCHANGED <<frameIsDone, frameIsActive, messaging>>
     \/ /\ pc[r] = "check" /\ UNCHANGED frameIsDone
        /\ pc'[r] = IF IsComplete(r, completed[r]) THEN "close" ELSE "begin"
     \/ pc[r] = "close" /\ pc'[r] = "begin" /\ frameIsDone'[r] = TRUE
     \/ pc[r] = "begin" /\ pc'[r] = "render" /\ UNCHANGED frameIsDone
     \/ /\ pc[r] = "render" /\ pc'[r] = "wait" /\ todo[r] = {}
        /\ \/ UNCHANGED frameIsDone
           \/ r = Master /\ ~MasterIsAWorker /\ frameIsDone'[r] = TRUE
     \/ pc[r] = "wait" /\ pc'[r] = "ibarrier" /\ frameIsDone[r] /\ UNCHANGED frameIsDone
     \/ /\ pc[r] = "ibarrier" /\ pc'[r] = "stop" /\ AllCalled(r)
        /\ frameIsActive'[r] = FALSE /\ UNCHANGED <<frameIsDone, messaging>>
     \/ /\ pc[r] = "stop" /\ pc'[r] \in {"cancel", "gather"}
        /\ messaging'[r] = FALSE /\ UNCHANGED <<frameIsDone, frameIsActive>>

LEMMA MainIsQuiet ==
  ASSUME IInv, NEW r \in Rank, MainThread(r) \/ Clear(r), ~StartNewFrame(r)
  PROVE  Quiet(r)
<1>1. /\ pc \in [Rank -> PC] /\ converged \in [Rank -> SUBSET Tile]
      /\ frameIsDone \in [Rank -> BOOLEAN] /\ frameIsActive \in [Rank -> BOOLEAN]
      /\ messaging \in [Rank -> BOOLEAN]
  BY DEF IInv, TypeOK
<1> USE <1>1 DEF Quiet, InAFrame, Active, BeforeIbarrier, ToStart, Goto, tiles, msgs, flags
<1>2. CASE EnterBarrier(r) \/ LeaveBarrier(r) \/ EndFrame(r)
  BY <1>2 DEF EnterBarrier, LeaveBarrier, EndFrame
<1>3. CASE CheckComplete(r)
  BY <1>3 DEF CheckComplete
<1>4. CASE CloseAtStart(r)
  BY <1>4 DEF CloseAtStart
<1>5. CASE BeginFrame(r)
  BY <1>5 DEF BeginFrame
<1>6. CASE RenderingDone(r)
  BY <1>6 DEF RenderingDone
<1>7. CASE EnterIbarrier(r)
  BY <1>7 DEF EnterIbarrier
<1>8. CASE LeaveIbarrier(r)
  BY <1>8 DEF LeaveIbarrier
<1>9. CASE StopMessaging(r)
  BY <1>9 DEF StopMessaging
<1>10. CASE BcastCancelled(r)
  <2>1. pc' = [pc EXCEPT ![r] = "end"] \/ pc' = [pc EXCEPT ![r] = "gather"]
    BY <1>10 DEF BcastCancelled
  <2>2. pc[r] = "cancel" /\ UNCHANGED <<frame, flags, converged, todo, tiles, closers, msgs, staleClose>>
    BY <1>10 DEF BcastCancelled
  <2>3. QED
    BY <2>1, <2>2
<1>11. CASE Gather(r)
  BY <1>11 DEF Gather
<1>12. CASE r = Master /\ Assemble
  BY <1>12 DEF Assemble
<1>13. CASE Clear(r)
  BY <1>13 DEF Clear, main
<1>14. QED
  BY <1>2, <1>3, <1>4, <1>5, <1>6, <1>7, <1>8, <1>9, <1>10, <1>11, <1>12, <1>13 DEF MainThread

\* Every step keeps the flags.
LEMMA NextFlags ==
  ASSUME IInv, FlagsFollow, MessagesFollow, [Next]_vars
  PROVE  FlagsFollow'
<1>1. /\ pc \in [Rank -> PC]
      /\ frameIsDone \in [Rank -> BOOLEAN] /\ frameIsActive \in [Rank -> BOOLEAN]
      /\ messaging \in [Rank -> BOOLEAN] /\ todo \in [Rank -> SUBSET Tile]
      /\ delayed \in [Rank -> SUBSET Message] /\ inbox \subseteq Message
  BY DEF IInv, TypeOK
<1> DEFINE Follows(r) ==
             /\ frameIsActive[r] <=> pc[r] \in Active
             /\ messaging[r] <=> pc[r] \in Active \cup {"stop"}
             /\ delayed[r] = {}
             /\ pc[r] \notin BeforeIbarrier \ {"wait"} => todo[r] = {}
             /\ pc[r] \in InAFrame \ BeforeIbarrier => frameIsDone[r]
<1>2. \A r \in Rank : Follows(r)
  BY DEF FlagsFollow
<1>3. ASSUME NEW r \in Rank, Quiet(r)
      PROVE  FlagsFollow'
  <2> SUFFICES ASSUME NEW s \in Rank
               PROVE  Follows(s)'
    BY DEF FlagsFollow
  <2>1. CASE s # r
    BY <1>2, <1>3, <2>1 DEF Quiet
  <2>2. CASE s = r
    <3> USE DEF InAFrame, Active, BeforeIbarrier, ToStart
    <3>1. Follows(r) /\ delayed' = delayed /\ todo' = todo
      BY <1>2, <1>3 DEF Quiet
    <3>2. frameIsActive'[r] <=> pc'[r] \in Active
      BY <1>3, <3>1 DEF Quiet
    <3>3. messaging'[r] <=> pc'[r] \in Active \cup {"stop"}
      BY <1>3, <3>1 DEF Quiet
    <3>4. pc'[r] \notin BeforeIbarrier \ {"wait"} => todo'[r] = {}
      BY <1>3, <3>1 DEF Quiet
    <3>5. pc'[r] \in InAFrame \ BeforeIbarrier => frameIsDone'[r]
      BY <1>3, <3>1 DEF Quiet
    <3>6. QED
      BY <2>2, <3>1, <3>2, <3>3, <3>4, <3>5
  <2>3. QED
    BY <2>1, <2>2
<1>4. ASSUME NEW r \in Rank, StartNewFrame(r)
      PROVE  FlagsFollow'
  BY <1>1, <1>2, <1>4 DEF StartNewFrame, Goto, FlagsFollow, InAFrame, Active, BeforeIbarrier
<1>5. ASSUME NEW r \in Rank, NEW t \in Tile, RenderTile(r, t)
      PROVE  FlagsFollow'
  <2>1. /\ todo' = [todo EXCEPT ![r] = @ \ {t}]
        /\ UNCHANGED <<pc, frameIsActive, frameIsDone, messaging, delayed>>
    BY <1>5 DEF RenderTile, main, flags
  <2>2. QED
    BY <1>1, <1>2, <2>1 DEF FlagsFollow
<1>6. ASSUME NEW m \in inbox, Incoming(m)
      PROVE  FlagsFollow'
  <2>1. frameIsActive[OwnerOf(m.tile)]
    <3>1. OwnerOf(m.tile) \in Rank
      BY <1>1, OwnerIsRank DEF Message
    <3>2. m \notin net
      BY DEF MessagesFollow
    <3>3. pc[OwnerOf(m.tile)] \in BeforeIbarrier
      BY <3>2 DEF MessagesFollow, OnTheWay
    <3>4. QED
      BY <1>2, <3>1, <3>3 DEF Active
  <2>2. UNCHANGED <<pc, todo, frameIsActive, frameIsDone, messaging, delayed>>
    BY <1>6, <2>1 DEF Incoming, main, flags
  <2>3. QED
    BY <2>2 DEF FlagsFollow
<1>7. ASSUME NEW r \in Rank, CloseByTask(r)
      PROVE  FlagsFollow'
  <2>1. /\ frameIsDone' = [frameIsDone EXCEPT ![r] = TRUE]
        /\ UNCHANGED <<pc, frameIsActive, messaging, delayed, todo>>
    BY <1>7 DEF CloseByTask, main, msgs
  <2>2. QED
    BY <1>1, <1>2, <2>1 DEF FlagsFollow
<1>8. CASE UNCHANGED <<pc, todo, frameIsActive, frameIsDone, messaging, delayed>>
  BY <1>8 DEF FlagsFollow
<1>9. ASSUME NEW t, NEW m, Receive(m) \/ ProcessMessage(m) \/ StoreTile(t) \/ CountTile(t)
      PROVE  UNCHANGED <<pc, todo, frameIsActive, frameIsDone, messaging, delayed>>
  BY <1>9 DEF Receive, ProcessMessage, StoreTile, CountTile, main, flags, msgs
<1>10. QED
  BY <1>3, <1>4, <1>5, <1>6, <1>7, <1>8, <1>9, MainIsQuiet DEF Next, vars, main, flags, msgs


\* A master that is no worker owns no tile.
LEMMA MasterOwnsNone == ~MasterIsAWorker => MyTiles(Master) = {}
<1> SUFFICES ASSUME ~MasterIsAWorker, NEW t \in Tile
             PROVE  OwnerOf(t) # Master
  BY DEF MyTiles
<1>1. t \in Nat /\ NumRanks - 1 \in Nat /\ NumRanks - 1 > 0
  BY RankAssumption DEF Tile
<1>2. t % (NumRanks-1) \in Nat
  BY <1>1
<1>3. QED
  BY <1>2 DEF OwnerOf, Master


-----------------------------------------------------------------------------
\* What a message, or a part still to be rendered, says of its tile.
LEMMA MessageTyped ==
  ASSUME IInv, NEW m \in OnTheWay
  PROVE  /\ m.tile \in Tile /\ m.from \in Rank /\ m.frame \in 1 .. MaxFrame
         /\ OwnerOf(m.tile) \in Rank /\ m.tile \in MyTiles(OwnerOf(m.tile))
         /\ m = [tile |-> m.tile, from |-> m.from, frame |-> m.frame]
<1>1. m \in Message
  BY DEF IInv, TypeOK, OnTheWay
<1>2. QED
  BY <1>1, OwnerIsRank DEF Message, MyTiles

LEMMA PartMissed ==
  ASSUME WholeInv, NEW t \in Tile, NEW q \in Rank, q \in Renderers[t],
         pc[q] \in InAFrame, pc[OwnerOf(t)] \in InAFrame, frame[q] = frame[OwnerOf(t)],
         t \notin converged[q], <<q, frame[q]>> \notin parts[t]
  PROVE  /\ t \notin converged[OwnerOf(t)] /\ stage[t] = "open"
         /\ t \notin Done(OwnerOf(t)) /\ Done(OwnerOf(t)) # MyTiles(OwnerOf(t))
         /\ ~frameIsDone[OwnerOf(t)] /\ closers[OwnerOf(t)] = {}
         /\ pc[OwnerOf(t)] \in BeforeIbarrier \ {"close"}
<1>1. OwnerOf(t) \in Rank /\ t \in MyTiles(OwnerOf(t))
  BY OwnerIsRank DEF MyTiles
<1>2. t \notin converged[OwnerOf(t)]
  BY <1>1, SameErrors DEF WholeInv, FrameSteps
<1>3. <<q, frame[OwnerOf(t)]>> \in Renderers[t] \X {frame[OwnerOf(t)]}
  OBVIOUS
<1>4. stage[t] = "open"
  BY <1>3 DEF WholeInv, TileSteps, PartsFollow
<1>5. t \notin Done(OwnerOf(t)) /\ Done(OwnerOf(t)) # MyTiles(OwnerOf(t))
  BY <1>1, <1>2, <1>4 DEF Done
<1>6. /\ ~frameIsDone[OwnerOf(t)] /\ closers[OwnerOf(t)] = {}
      /\ pc[OwnerOf(t)] # "close"
  BY <1>1, <1>5 DEF WholeInv, TileSteps, DoneFollows
<1>7. pc[OwnerOf(t)] \in BeforeIbarrier
  BY <1>1, <1>6 DEF WholeInv, FrameSteps, FlagsFollow
<1>8. QED
  BY <1>2, <1>4, <1>5, <1>6, <1>7

LEMMA MessageMissed ==
  ASSUME WholeInv, NEW m \in OnTheWay, pc[OwnerOf(m.tile)] \in InAFrame
  PROVE  LET t == m.tile IN
         /\ t \notin converged[OwnerOf(t)] /\ stage[t] = "open"
         /\ t \notin Done(OwnerOf(t)) /\ Done(OwnerOf(t)) # MyTiles(OwnerOf(t))
         /\ ~frameIsDone[OwnerOf(t)] /\ closers[OwnerOf(t)] = {}
         /\ pc[OwnerOf(t)] \in BeforeIbarrier \ {"close"}
<1>1. m.tile \in Tile /\ m.from \in Rank
  BY MessageTyped DEF WholeInv
<1>2. /\ m.from \in Renderers[m.tile] /\ m.frame = frame[m.from]
      /\ pc[m.from] \in InAFrame /\ m.tile \notin converged[m.from]
      /\ <<m.from, m.frame>> \notin parts[m.tile] /\ m.frame = frame[OwnerOf(m.tile)]
  BY DEF WholeInv, TileSteps, MessagesFollow, InAFrame, Active, BeforeIbarrier, ToStart
<1>3. QED
  BY <1>1, <1>2, PartMissed

\* Before it renders, nothing of a rank's own tiles is done.
LEMMA NothingStored ==
  ASSUME WholeInv, OwnersRender, NEW t \in Tile, stage[t] # "open",
         pc[OwnerOf(t)] \in InAFrame
  PROVE  pc[OwnerOf(t)] \notin {"check", "close", "begin"}
<1>1. OwnerOf(t) \in Rank
  BY OwnerIsRank
<1>2. SUFFICES ASSUME pc[OwnerOf(t)] \in {"check", "close", "begin"}
               PROVE  FALSE
  OBVIOUS
<1>3. parts[t] = Renderers[t] \X {frame[OwnerOf(t)]} /\ OwnerOf(t) \in Renderers[t]
  BY DEF OwnersRender, WholeInv, TileSteps, PartsFollow
<1>4. <<OwnerOf(t), frame[OwnerOf(t)]>> \in parts[t]
  BY <1>3
<1>5. t \notin converged[OwnerOf(t)]
  BY <1>4 DEF WholeInv, TileSteps, PartsFollow
<1>6. t \in todo[OwnerOf(t)]
  BY <1>1, <1>2, <1>3, <1>5 DEF WholeInv, TileSteps, TodoFollows
<1>7. QED
  BY <1>1, <1>4, <1>6 DEF WholeInv, TileSteps, TodoFollows

-----------------------------------------------------------------------------
\* The steps of a main thread keep the invariant of the tiles.
LEMMA QuietMessages ==
  ASSUME WholeInv, NEW r \in Rank, Quiet(r)
  PROVE  MessagesFollow'
<1> DEFINE Follows(m) ==
             LET o == OwnerOf(m.tile) IN
             /\ m.from \in Renderers[m.tile] /\ m.frame = frame[m.from]
             /\ pc[m.from] \in {"render", "wait", "ibarrier"}
             /\ m.tile \notin converged[m.from]
             /\ <<m.from, m.frame>> \notin parts[m.tile]
             /\ \/ pc[o] \in ToStart /\ m.frame = frame[o] + 1 /\ m \in net
                \/ pc[o] \in BeforeIbarrier /\ m.frame = frame[o]
<1>1. /\ UNCHANGED <<frame, parts, net, inbox, tasks>>
      /\ \A s \in Rank : s # r => pc'[s] = pc[s] /\ converged'[s] = converged[s]
  BY DEF Quiet
<1>2. OnTheWay' = OnTheWay
  BY <1>1 DEF OnTheWay
<1>3. ASSUME NEW m \in OnTheWay
      PROVE  Follows(m)'
  <2> DEFINE o == OwnerOf(m.tile)
  <2>1. Follows(m) /\ m.from \in Rank /\ o \in Rank /\ m.tile \in Tile
    BY MessageTyped DEF WholeInv, TileSteps, MessagesFollow
  <2>2. frame[o] \in Nat /\ frame[m.from] \in Nat
    BY <2>1, FrameAssumption DEF WholeInv, IInv, TypeOK
  <2>3. /\ pc'[m.from] \in {"render", "wait", "ibarrier"}
        /\ m.tile \notin converged'[m.from]
    <3>1. CASE m.from # r
      BY <1>1, <2>1, <3>1
    <3>2. CASE m.from = r /\ pc[r] = "ibarrier"
      <4>1. AllCalled(r)
        BY <3>2 DEF Quiet, InAFrame, Active, BeforeIbarrier, ToStart
      <4>2. Len(calls[r]) <= Len(calls[o])
        BY <2>1, <4>1 DEF AllCalled, WholeInv, IInv, CallInv, CallsTyped
      <4>3. Finishing(r) <= Finishing(o)
        BY <2>1, <4>2, CallsOrdered DEF WholeInv, FrameSteps, IInv, FramesCounted
      <4>4. QED
        BY <2>1, <2>2, <3>2, <4>3 DEF Finishing, BeforeIbarrier, ToStart
    <3>3. CASE m.from = r /\ pc[r] # "ibarrier"
      <4>1. pc[r] \in {"render", "wait"} /\ pc'[r] \in {"wait", "ibarrier"}
            /\ converged'[r] = converged[r]
        BY <2>1, <3>3 DEF Quiet, InAFrame, Active, BeforeIbarrier, ToStart
      <4>2. QED
        BY <2>1, <3>3, <4>1
    <3>4. QED
      BY <3>1, <3>2, <3>3
  <2>4. \/ pc[o] \in ToStart /\ pc'[o] \in ToStart
        \/ pc[o] \in BeforeIbarrier /\ pc'[o] \in BeforeIbarrier
    <3>1. CASE o # r
      BY <1>1, <2>1, <3>1
    <3>2. CASE o = r /\ pc[o] \in ToStart
      BY <3>2 DEF Quiet, InAFrame, Active, BeforeIbarrier, ToStart
    <3>3. CASE o = r /\ pc[o] \in BeforeIbarrier
      <4>1. ~frameIsDone[r]
        BY <3>3, MessageMissed DEF InAFrame, Active
      <4>2. QED
        BY <3>3, <4>1 DEF Quiet, InAFrame, Active, BeforeIbarrier, ToStart
    <3>4. QED
      BY <2>1, <3>1, <3>2, <3>3
  <2>5. QED
    BY <1>1, <2>1, <2>3, <2>4 DEF ToStart, BeforeIbarrier
<1>4. net' \cap inbox' = {} /\ (net' \cup inbox') \cap tasks' = {}
  BY <1>1 DEF WholeInv, TileSteps, MessagesFollow
<1>5. QED
  BY <1>2, <1>3, <1>4 DEF MessagesFollow

LEMMA QuietTodo ==
  ASSUME WholeInv, NEW r \in Rank, Quiet(r)
  PROVE  TodoFollows'
<1>1. /\ UNCHANGED <<frame, parts, todo, net, inbox, tasks>>
      /\ \A s \in Rank : s # r => pc'[s] = pc[s] /\ converged'[s] = converged[s]
  BY DEF Quiet
<1>2. OnTheWay' = OnTheWay /\ TodoFollows
  BY <1>1 DEF OnTheWay, WholeInv, TileSteps
<1>3. \A s \in Rank : pc'[s] \in {"check", "close", "begin"} =>
        pc[s] \in {"check", "close", "begin"} /\ converged'[s] = converged[s]
  BY <1>1 DEF Quiet, InAFrame, Active, BeforeIbarrier, ToStart
<1>4. \A s \in Rank : todo[s] # {} => converged'[s] = converged[s]
  <2> SUFFICES ASSUME NEW s \in Rank, todo[s] # {}, s = r
               PROVE  converged'[s] = converged[s]
    BY <1>1
  <2>1. pc[r] \in BeforeIbarrier \ {"wait"}
    BY DEF WholeInv, FrameSteps, FlagsFollow
  <2>2. pc'[r] \in InAFrame
    BY <2>1 DEF Quiet, InAFrame, Active, BeforeIbarrier, ToStart
  <2>3. QED
    BY <2>2 DEF Quiet
<1>5. QED
  BY <1>1, <1>2, <1>3, <1>4 DEF TodoFollows

LEMMA QuietParts ==
  ASSUME WholeInv, NEW r \in Rank, Quiet(r)
  PROVE  PartsFollow'
<1>1. /\ UNCHANGED <<frame, parts, stage>>
      /\ \A s \in Rank : s # r => pc'[s] = pc[s] /\ converged'[s] = converged[s]
  BY DEF Quiet
<1> SUFFICES ASSUME NEW t \in Tile
             PROVE  PartsFollow!(t)'
  BY DEF PartsFollow
<1>2. PartsFollow!(t)
  BY DEF WholeInv, TileSteps, PartsFollow
<1>3. OwnerOf(t) \in Rank
  BY OwnerIsRank
<1>4. pc'[OwnerOf(t)] \in InAFrame =>
        pc[OwnerOf(t)] \in InAFrame /\ converged'[OwnerOf(t)] = converged[OwnerOf(t)]
  BY <1>1, <1>3 DEF Quiet, InAFrame, Active, BeforeIbarrier, ToStart
<1>5. pc'[OwnerOf(t)] \notin BeforeIbarrier => stage[t] \in {"open", "counted"}
  <2>1. CASE pc[OwnerOf(t)] \notin BeforeIbarrier
    BY <1>2, <2>1
  <2>2. CASE pc[OwnerOf(t)] \in BeforeIbarrier /\ pc'[OwnerOf(t)] \notin BeforeIbarrier
    <3>1. OwnerOf(t) = r
      BY <1>1, <1>3, <2>2
    <3>2. frameIsDone[r] /\ pc[r] \in InAFrame
      BY <2>2, <3>1 DEF Quiet, InAFrame, Active, BeforeIbarrier, ToStart
    <3>3. t \in Done(r)
      BY <1>3, <3>1, <3>2 DEF WholeInv, TileSteps, DoneFollows, MyTiles
    <3>4. CASE stage[t] = "counted"
      BY <3>4
    <3>5. CASE t \in converged[r]
      <4>1. parts[t] = {}
        BY <1>2, <3>1, <3>2, <3>5
      <4>2. PICK q : q \in Renderers[t]
        BY RenderersAssumption
      <4>3. <<q, frame[OwnerOf(t)]>> \in Renderers[t] \X {frame[OwnerOf(t)]}
        BY <4>2
      <4>4. stage[t] = "open"
        BY <1>2, <4>1, <4>3
      <4>5. QED
        BY <4>4
    <3>6. QED
      BY <3>3, <3>4, <3>5 DEF Done
  <2>3. QED
    BY <2>1, <2>2
<1>6. QED
  BY <1>1, <1>2, <1>4, <1>5


LEMMA QuietDone ==
  ASSUME WholeInv, OwnersRender, NEW r \in Rank, Quiet(r)
  PROVE  DoneFollows'
<1>1. /\ UNCHANGED <<frame, stage, completed, closers>>
      /\ \A s \in Rank : s # r => /\ pc'[s] = pc[s] /\ converged'[s] = converged[s]
                                  /\ frameIsDone'[s] = frameIsDone[s]
  BY DEF Quiet
<1> SUFFICES ASSUME NEW s \in Rank
             PROVE  DoneFollows!(s)'
  BY DEF DoneFollows
<1>2. DoneFollows!(s)
  BY DEF WholeInv, TileSteps, DoneFollows
<1>3. CASE s # r
  <2>1. Done(s)' = Done(s) /\ MyTiles(s)' = MyTiles(s)
    BY <1>1, <1>3 DEF Done, MyTiles
  <2>2. QED
    BY <1>1, <1>2, <1>3, <2>1
<1>4. CASE s = r
  <2>1. pc'[r] \in InAFrame => pc[r] \in InAFrame /\ Done(r)' = Done(r)
    <3>1. pc'[r] \in InAFrame => pc[r] \in InAFrame /\ converged'[r] = converged[r]
      BY DEF Quiet, InAFrame, Active, BeforeIbarrier, ToStart
    <3>2. QED
      BY <1>1, <3>1 DEF Done
  <2>2. pc'[r] = "close" => Done(r) = MyTiles(r)
    <3>1. SUFFICES ASSUME pc'[r] = "close"
                   PROVE  Done(r) = MyTiles(r)
      OBVIOUS
    <3>2. pc[r] = "check" /\ IsComplete(r, completed[r])
      BY <3>1 DEF Quiet, InAFrame, Active, BeforeIbarrier, ToStart
    <3>3. /\ completed[r] = Cardinality(Done(r))
          /\ IsFiniteSet(MyTiles(r)) /\ Done(r) \subseteq MyTiles(r)
      BY <1>2, <1>4, <3>2, OwnerIsRank, FS_Subset
         DEF InAFrame, Active, BeforeIbarrier, Done, MyTiles
    <3>4. CASE r = Master /\ ~MasterIsAWorker
      BY <3>3, <3>4, MasterOwnsNone
    <3>5. CASE ~(r = Master /\ ~MasterIsAWorker)
      <4>1. Cardinality(Done(r)) = Cardinality(MyTiles(r))
        BY <3>2, <3>3, <3>5 DEF IsComplete
      <4>2. QED
        BY <3>3, <4>1, FS_Subset
    <3>6. QED
      BY <3>4, <3>5
  <2>3. pc'[r] \in InAFrame /\ frameIsDone'[r] => Done(r) = MyTiles(r)
    <3>1. SUFFICES ASSUME pc'[r] \in InAFrame, frameIsDone'[r]
                   PROVE  Done(r) = MyTiles(r)
      OBVIOUS
    <3>2. CASE frameIsDone[r]
      BY <1>2, <1>4, <2>1, <3>1, <3>2
    <3>3. CASE pc[r] = "close"
      BY <1>2, <1>4, <3>3
    <3>4. CASE r = Master /\ ~MasterIsAWorker
      BY <3>4, MasterOwnsNone DEF Done
    <3>5. QED
      BY <3>1, <3>2, <3>3, <3>4 DEF Quiet
  <2>4. closers[r] # {} => pc'[r] \in {"render", "wait"} /\ ~frameIsDone'[r]
    <3>1. SUFFICES ASSUME closers[r] # {}
                   PROVE  pc'[r] \in {"render", "wait"} /\ ~frameIsDone'[r]
      OBVIOUS
    <3>2. pc[r] \in {"render", "wait"} /\ ~frameIsDone[r] /\ MyTiles(r) # {}
      BY <1>2, <1>4, <3>1
    <3>3. ~(r = Master /\ ~MasterIsAWorker)
      BY <3>2, MasterOwnsNone
    <3>4. QED
      BY <3>2, <3>3 DEF Quiet, InAFrame, Active, BeforeIbarrier, ToStart
  <2>5. MyTiles(r)' = MyTiles(r) /\ pc'[r] \in {"render", "wait"} => pc'[r] \in InAFrame
    BY DEF MyTiles, InAFrame, Active, BeforeIbarrier
  <2>6. pc'[r] = "close" => pc'[r] \in InAFrame
    BY DEF InAFrame, Active, BeforeIbarrier
  <2>7. MyTiles(r)' = MyTiles(r)
    BY DEF MyTiles
  <2>8. closers[r] # {} => pc'[r] \in InAFrame
    BY <2>4 DEF InAFrame, Active, BeforeIbarrier
  <2>9. QED
    BY <1>1, <1>2, <1>4, <2>1, <2>2, <2>3, <2>4, <2>6, <2>7, <2>8
<1>5. QED
  BY <1>3, <1>4


-----------------------------------------------------------------------------
\* A tile is complete when it has a part of each of its renderers.
LEMMA AllParts ==
  ASSUME NEW R, IsFiniteSet(R), NEW f, NEW P \in SUBSET (R \X {f}),
         Cardinality(P) = Cardinality(R)
  PROVE  P = R \X {f}
<1>1. IsFiniteSet({f}) /\ Cardinality({f}) = 1
  BY FS_Singleton
<1>2. /\ IsFiniteSet(R \X {f})
      /\ Cardinality(R \X {f}) = Cardinality(R) * 1
  BY <1>1, FS_Product
<1>3. Cardinality(R) \in Nat
  BY FS_CardinalityType
<1>4. Cardinality(P) = Cardinality(R \X {f})
  BY <1>2, <1>3
<1>5. QED
  BY <1>2, <1>4, FS_Subset

LEMMA RenderersFinite == \A t \in Tile : IsFiniteSet(Renderers[t]) /\ Renderers[t] \subseteq Rank
<1>1. IsFiniteSet(Rank)
  BY RankAssumption, FS_Interval, 0 \in Int DEF Rank
<1>2. QED
  BY <1>1, RenderersAssumption, FS_Subset

\* One more part of a tile, that was missed before.
LEMMA ProcessStep ==
  ASSUME WholeInv, NEW t \in Tile, NEW q \in Rank, q \in Renderers[t],
         pc[q] \in InAFrame, pc[OwnerOf(t)] \in InAFrame, frame[q] = frame[OwnerOf(t)],
         t \notin converged[q], <<q, frame[q]>> \notin parts[t],
         ProcessPart(t, q, frame[q]),
         UNCHANGED <<pc, frame, converged, frameIsDone, closers>>
  PROVE  PartsFollow' /\ DoneFollows'
<1> DEFINE o == OwnerOf(t)
<1>1. /\ t \notin converged[o] /\ stage[t] = "open" /\ pc[o] \in BeforeIbarrier
  BY PartMissed
<1>2. /\ parts \in [Tile -> SUBSET (Rank \X (1..MaxFrame))]
      /\ stage \in [Tile -> {"open", "final", "stored", "counted"}]
  BY DEF WholeInv, IInv, TypeOK
<1>3. /\ parts' = [parts EXCEPT ![t] = @ \cup {<<q, frame[q]>>}]
      /\ stage' = IF Cardinality(parts'[t]) = Cardinality(Renderers[t])
                    THEN [stage EXCEPT ![t] = "final"] ELSE stage
      /\ completed' = completed
  BY DEF ProcessPart
<1>4. /\ parts'[t] = parts[t] \cup {<<q, frame[q]>>}
      /\ \A u \in Tile : u # t => parts'[u] = parts[u] /\ stage'[u] = stage[u]
      /\ stage'[t] \in {"open", "final"}
      /\ stage'[t] # "open" => Cardinality(parts'[t]) = Cardinality(Renderers[t])
  BY <1>1, <1>2, <1>3
<1>5. PartsFollow'
  <2> SUFFICES ASSUME NEW u \in Tile
               PROVE  PartsFollow!(u)'
    BY DEF PartsFollow
  <2>1. PartsFollow!(u)
    BY DEF WholeInv, TileSteps, PartsFollow
  <2>2. CASE u # t
    BY <1>4, <2>1, <2>2
  <2>3. CASE u = t
    <3>1. parts'[t] \subseteq Renderers[t] \X {frame[o]}
      BY <1>4, <2>1, <2>3
    <3>2. stage'[t] # "open" => parts'[t] = Renderers[t] \X {frame[o]}
      BY <1>4, <3>1, AllParts, RenderersFinite
    <3>3. \A p \in Rank : <<p, frame[o]>> \in parts'[t] => frame[o] <= frame[p]
      <4>1. frame[o] \in Nat
        BY OwnerIsRank, FrameAssumption DEF WholeInv, IInv, TypeOK
      <4>2. QED
        BY <1>4, <2>1, <2>3, <4>1
    <3>4. QED
      BY <1>1, <2>3, <3>1, <3>2, <3>3
  <2>4. QED
    BY <2>2, <2>3
<1>6. DoneFollows'
  <2>1. \A u \in Tile : (stage'[u] = "counted") <=> (stage[u] = "counted")
    BY <1>1, <1>4
  <2>2. \A s \in Rank : Done(s)' = Done(s) /\ MyTiles(s)' = MyTiles(s)
    BY <2>1 DEF Done, MyTiles
  <2>3. DoneFollows
    BY DEF WholeInv, TileSteps
  <2>4. QED
    BY <1>3, <2>2, <2>3 DEF DoneFollows
<1>7. QED
  BY <1>5, <1>6

\* A rendering task.
LEMMA RenderStep ==
  ASSUME WholeInv, NEW r \in Rank, NEW t \in Tile, RenderTile(r, t)
  PROVE  TileSteps'
<1> DEFINE o == OwnerOf(t)
           m0 == [tile |-> t, from |-> r, frame |-> frame[r]]
<1>1. /\ pc[r] = "render" /\ t \in todo[r] /\ todo' = [todo EXCEPT ![r] = @ \ {t}]
      /\ UNCHANGED <<pc, frame, converged, frameIsDone, closers, inbox, tasks, staleClose>>
  BY DEF RenderTile, main, flags
<1>2. /\ r \in Renderers[t] /\ t \notin converged[r] /\ <<r, frame[r]>> \notin parts[t]
      /\ m0 \notin OnTheWay
  BY <1>1 DEF WholeInv, TileSteps, TodoFollows
<1>3. o \in Rank /\ todo \in [Rank -> SUBSET Tile] /\ frame \in [Rank -> Nat]
      /\ parts \in [Tile -> SUBSET (Rank \X (1..MaxFrame))]
  BY OwnerIsRank, FrameAssumption DEF WholeInv, IInv, TypeOK
<1>4. \A s \in Rank : todo'[s] \subseteq todo[s] /\ (s # r => todo'[s] = todo[s])
  BY <1>1, <1>3
<1>5. pc[r] \in InAFrame /\ pc[r] \in Active
  BY <1>1 DEF InAFrame, Active, BeforeIbarrier
<1>6. CASE o = r
  <2>1. ProcessPart(t, r, frame[r]) /\ net' = net
    BY <1>6 DEF RenderTile
  <2>2. parts' = [parts EXCEPT ![t] = @ \cup {<<r, frame[r]>>}]
    BY <2>1 DEF ProcessPart
  <2>3. PartsFollow' /\ DoneFollows'
    BY <1>1, <1>2, <1>5, <1>6, <2>1, ProcessStep
  <2>4. OnTheWay' = OnTheWay
    BY <1>1, <2>1 DEF OnTheWay
  <2>5. MessagesFollow'
    <3>1. \A m \in OnTheWay : <<m.from, m.frame>> \notin parts'[m.tile]
      <4> SUFFICES ASSUME NEW m \in OnTheWay, m.tile = t, m.from = r, m.frame = frame[r]
                   PROVE  FALSE
        <5>1. \A m \in OnTheWay : m.tile \in Tile /\ <<m.from, m.frame>> \notin parts[m.tile]
          BY MessageTyped DEF WholeInv, TileSteps, MessagesFollow
        <5>2. QED
          BY <1>3, <2>2, <5>1
      <4>1. m = m0
        BY MessageTyped DEF WholeInv
      <4>2. QED
        BY <1>2, <4>1
    <3>2. QED
      BY <1>1, <2>1, <2>4, <3>1 DEF WholeInv, TileSteps, MessagesFollow
  <2>6. TodoFollows'
    <3>1. \A s \in Rank : \A u \in todo'[s] : <<s, frame[s]>> \notin parts'[u]
      <4> SUFFICES ASSUME NEW s \in Rank, NEW u \in todo'[s]
                   PROVE  <<s, frame[s]>> \notin parts'[u]
        OBVIOUS
      <4>1. u \in todo[s] /\ u \in Tile /\ <<s, frame[s]>> \notin parts[u] /\ ~(s = r /\ u = t)
        BY <1>1, <1>3, <1>4 DEF WholeInv, TileSteps, TodoFollows
      <4>2. QED
        BY <1>3, <2>2, <4>1
    <3>2. \A s \in Rank : pc[s] \in {"check", "close", "begin"} => todo'[s] = todo[s]
      BY <1>1, <1>4
    <3>3. QED
      BY <1>1, <1>4, <2>4, <3>1, <3>2 DEF WholeInv, TileSteps, TodoFollows
  <2>7. QED
    BY <1>1, <2>3, <2>5, <2>6 DEF WholeInv, TileSteps, NoStaleClose
<1>7. CASE o # r
  <2>1. /\ net' = net \cup {m0}
        /\ UNCHANGED <<parts, stage, completed>>
    BY <1>7 DEF RenderTile, tiles
  <2>2. OnTheWay' = OnTheWay \cup {m0}
    BY <1>1, <2>1 DEF OnTheWay
  <2>3. \/ pc[o] \in ToStart /\ frame[r] = frame[o] + 1
        \/ pc[o] \in BeforeIbarrier /\ frame[r] = frame[o]
    <3>1. /\ frame[r] <= Entered(o)
          /\ frame[o] - (IF pc[o] \in Active THEN 1 ELSE 0) <= frame[r] - 1
          /\ frame[o] + (IF pc[o] = "start" THEN 1 ELSE 0) <= frame[r]
      BY <1>1, <1>3 DEF WholeInv, FrameSteps, RanksInOrder, Entered, Finishing,
         ToStart, BeforeIbarrier
    <3>2. CASE pc[o] \in ToStart
      BY <1>3, <3>1, <3>2 DEF Entered, ToStart, Active, BeforeIbarrier
    <3>3. CASE pc[o] \notin ToStart
      <4>1. pc[o] \in Active /\ frame[r] = frame[o]
        BY <1>3, <3>1, <3>3 DEF Entered
      <4>2. pc[o] \in BeforeIbarrier
        BY <1>2, <1>5, <4>1, PartMissed DEF InAFrame
      <4>3. QED
        BY <4>1, <4>2
    <3>4. QED
      BY <3>2, <3>3
  <2>4. MessagesFollow'
    <3>1. net' \cap inbox' = {} /\ (net' \cup inbox') \cap tasks' = {}
      BY <1>1, <1>2, <2>1 DEF WholeInv, TileSteps, MessagesFollow, OnTheWay
    <3>2. QED
      BY <1>1, <1>2, <2>1, <2>2, <2>3, <3>1 DEF WholeInv, TileSteps, MessagesFollow
  <2>5. TodoFollows'
    <3>1. \A s \in Rank : \A u \in todo'[s] : [tile |-> u, from |-> s, frame |-> frame[s]] # m0
      <4> SUFFICES ASSUME NEW s \in Rank, NEW u \in todo'[s],
                          [tile |-> u, from |-> s, frame |-> frame[s]] = m0
                   PROVE  FALSE
        OBVIOUS
      <4>1. u = t /\ s = r
        OBVIOUS
      <4>2. QED
        BY <1>1, <1>3, <4>1
    <3>2. \A s \in Rank : pc[s] \in {"check", "close", "begin"} => todo'[s] = todo[s]
      BY <1>1, <1>4
    <3>3. QED
      BY <1>1, <1>4, <2>1, <2>2, <3>1, <3>2 DEF WholeInv, TileSteps, TodoFollows
  <2>6. PartsFollow'
    BY <1>1, <2>1 DEF WholeInv, TileSteps, PartsFollow
  <2>7. DoneFollows'
    BY <1>1, <2>1 DEF WholeInv, TileSteps, DoneFollows, Done, MyTiles
  <2>8. QED
    BY <1>1, <2>4, <2>5, <2>6, <2>7 DEF WholeInv, TileSteps, NoStaleClose
<1>8. QED
  BY <1>6, <1>7


\* The threads of the message layer.
LEMMA DeliverStep ==
  ASSUME WholeInv, NEW m, (m \in net /\ Receive(m)) \/ (m \in inbox /\ Incoming(m))
  PROVE  TileSteps'
<1>1. UNCHANGED <<pc, frame, converged, frameIsDone, closers, todo, parts, stage, completed,
                  staleClose>>
  BY DEF Receive, Incoming, main, flags, tiles
<1>2. m \in OnTheWay
  BY DEF OnTheWay
<1>3. OwnerOf(m.tile) \in Rank
  BY <1>2, MessageTyped DEF WholeInv
<1>4. /\ OnTheWay' = OnTheWay /\ net' = net \ {m}
      /\ net' \cap inbox' = {} /\ (net' \cup inbox') \cap tasks' = {}
      /\ m \in net => messaging[OwnerOf(m.tile)]
  <2>1. CASE m \in net /\ Receive(m)
    <3>1. /\ messaging[OwnerOf(m.tile)] /\ net' = net \ {m}
          /\ inbox' = inbox \cup {m} /\ tasks' = tasks
      BY <2>1 DEF Receive
    <3>2. QED
      BY <2>1, <3>1 DEF OnTheWay, WholeInv, TileSteps, MessagesFollow
  <2>2. CASE m \in inbox /\ Incoming(m)
    <3>1. m \notin net
      BY <2>2 DEF WholeInv, TileSteps, MessagesFollow
    <3>2. pc[OwnerOf(m.tile)] \in BeforeIbarrier
      BY <1>2, <3>1 DEF WholeInv, TileSteps, MessagesFollow
    <3>3. frameIsActive[OwnerOf(m.tile)]
      BY <1>3, <3>2 DEF WholeInv, FrameSteps, FlagsFollow, Active
    <3>4. tasks' = tasks \cup {m} /\ inbox' = inbox \ {m} /\ net' = net
      BY <2>2, <3>3 DEF Incoming
    <3>5. QED
      BY <2>2, <3>1, <3>4 DEF OnTheWay, WholeInv, TileSteps, MessagesFollow
  <2>3. QED
    BY <2>1, <2>2
<1>5. pc[OwnerOf(m.tile)] \notin ToStart
  <2>1. CASE m \in net
    BY <1>3, <1>4, <2>1 DEF WholeInv, FrameSteps, FlagsFollow, Active, BeforeIbarrier, ToStart
  <2>2. CASE m \notin net
    BY <1>2, <2>2 DEF WholeInv, TileSteps, MessagesFollow, BeforeIbarrier, ToStart
  <2>3. QED
    BY <2>1, <2>2
<1>6. MessagesFollow'
  BY <1>1, <1>4, <1>5 DEF WholeInv, TileSteps, MessagesFollow
<1>7. TodoFollows'
  BY <1>1, <1>4 DEF WholeInv, TileSteps, TodoFollows
<1>8. PartsFollow'
  BY <1>1 DEF WholeInv, TileSteps, PartsFollow
<1>9. DoneFollows'
  BY <1>1 DEF WholeInv, TileSteps, DoneFollows, Done, MyTiles
<1>10. QED
  BY <1>1, <1>6, <1>7, <1>8, <1>9 DEF WholeInv, TileSteps, NoStaleClose

\* A task that processes a message.
LEMMA ProcessMessageStep ==
  ASSUME WholeInv, NEW m \in tasks, ProcessMessage(m)
  PROVE  TileSteps'
<1>1. /\ UNCHANGED <<pc, frame, converged, frameIsDone, closers, todo, net, inbox, staleClose>>
      /\ tasks' = tasks \ {m} /\ ProcessPart(m.tile, m.from, m.frame)
  BY DEF ProcessMessage, main, flags
<1>2. /\ m \in OnTheWay /\ m.tile \in Tile /\ m.from \in Rank /\ OwnerOf(m.tile) \in Rank
      /\ m = [tile |-> m.tile, from |-> m.from, frame |-> m.frame]
  BY MessageTyped DEF OnTheWay, WholeInv
<1>3. m \notin net /\ m \notin inbox
  BY DEF WholeInv, TileSteps, MessagesFollow
<1>4. /\ m.from \in Renderers[m.tile] /\ m.frame = frame[m.from]
      /\ pc[m.from] \in {"render", "wait", "ibarrier"}
      /\ m.tile \notin converged[m.from] /\ <<m.from, m.frame>> \notin parts[m.tile]
      /\ pc[OwnerOf(m.tile)] \in BeforeIbarrier /\ m.frame = frame[OwnerOf(m.tile)]
  BY <1>2, <1>3 DEF WholeInv, TileSteps, MessagesFollow
<1>5. PartsFollow' /\ DoneFollows'
  BY <1>1, <1>2, <1>4, ProcessStep DEF InAFrame, Active, BeforeIbarrier
<1>6. /\ parts' = [parts EXCEPT ![m.tile] = @ \cup {<<m.from, m.frame>>}]
      /\ parts \in [Tile -> SUBSET (Rank \X (1..MaxFrame))]
  BY <1>1 DEF ProcessPart, WholeInv, IInv, TypeOK
<1>7. OnTheWay' = OnTheWay \ {m}
  BY <1>1, <1>3 DEF OnTheWay
<1>8. MessagesFollow'
  <2>1. \A n \in OnTheWay' : <<n.from, n.frame>> \notin parts'[n.tile]
    <3> SUFFICES ASSUME NEW n \in OnTheWay, n # m
                 PROVE  <<n.from, n.frame>> \notin parts'[n.tile]
      BY <1>7
    <3>1. /\ n.tile \in Tile /\ n = [tile |-> n.tile, from |-> n.from, frame |-> n.frame]
          /\ <<n.from, n.frame>> \notin parts[n.tile]
      BY MessageTyped DEF WholeInv, TileSteps, MessagesFollow
    <3>2. ~(n.tile = m.tile /\ n.from = m.from /\ n.frame = m.frame)
      BY <1>2, <3>1
    <3>3. QED
      BY <1>2, <1>6, <3>1, <3>2
  <2>2. net' \cap inbox' = {} /\ (net' \cup inbox') \cap tasks' = {}
    BY <1>1 DEF WholeInv, TileSteps, MessagesFollow
  <2>3. QED
    BY <1>1, <1>7, <2>1, <2>2 DEF WholeInv, TileSteps, MessagesFollow
<1>9. TodoFollows'
  <2>1. \A s \in Rank : \A u \in todo[s] : <<s, frame[s]>> \notin parts'[u]
    <3> SUFFICES ASSUME NEW s \in Rank, NEW u \in todo[s]
                 PROVE  <<s, frame[s]>> \notin parts'[u]
      OBVIOUS
    <3>1. /\ u \in Tile /\ <<s, frame[s]>> \notin parts[u]
          /\ [tile |-> u, from |-> s, frame |-> frame[s]] \notin OnTheWay
      BY DEF WholeInv, TileSteps, TodoFollows, IInv, TypeOK
    <3>2. ~(u = m.tile /\ s = m.from)
      BY <1>2, <1>4, <3>1
    <3>3. QED
      BY <1>2, <1>6, <3>1, <3>2
  <2>2. QED
    BY <1>1, <1>7, <2>1 DEF WholeInv, TileSteps, TodoFollows
<1>10. QED
  BY <1>1, <1>5, <1>8, <1>9 DEF WholeInv, TileSteps, NoStaleClose

\* A task that stores and counts a finished tile.
LEMMA StoreStep ==
  ASSUME WholeInv, NEW t \in Tile, StoreTile(t)
  PROVE  TileSteps'
<1>1. /\ stage[t] = "final" /\ stage' = [stage EXCEPT ![t] = "stored"]
      /\ UNCHANGED <<pc, frame, converged, frameIsDone, closers, todo, parts, completed,
                     net, inbox, tasks, staleClose>>
  BY DEF StoreTile, main, flags, msgs
<1>2. stage \in [Tile -> {"open", "final", "stored", "counted"}]
  BY DEF WholeInv, IInv, TypeOK
<1>3. /\ \A u \in Tile : (stage'[u] = "counted") <=> (stage[u] = "counted")
      /\ \A u \in Tile : (stage'[u] = "open") <=> (stage[u] = "open")
  BY <1>1, <1>2
<1>4. MessagesFollow' /\ TodoFollows'
  BY <1>1 DEF WholeInv, TileSteps, MessagesFollow, TodoFollows, OnTheWay
<1>5. PartsFollow'
  BY <1>1, <1>3 DEF WholeInv, TileSteps, PartsFollow
<1>6. DoneFollows'
  <2>1. \A s \in Rank : Done(s)' = Done(s) /\ MyTiles(s)' = MyTiles(s)
    BY <1>1, <1>3 DEF Done, MyTiles
  <2>2. QED
    BY <1>1, <2>1 DEF WholeInv, TileSteps, DoneFollows
<1>7. QED
  BY <1>1, <1>4, <1>5, <1>6 DEF WholeInv, TileSteps, NoStaleClose

LEMMA CountStep ==
  ASSUME WholeInv, OwnersRender, NEW t \in Tile, CountTile(t)
  PROVE  TileSteps'
<1> DEFINE o == OwnerOf(t)
<1>1. /\ stage[t] = "stored" /\ stage' = [stage EXCEPT ![t] = "counted"]
      /\ completed' = [completed EXCEPT ![o] = @ + 1]
      /\ closers' = IF IsComplete(o, completed[o] + 1)
                      THEN [closers EXCEPT ![o] = @ \cup {frame[o]}] ELSE closers
      /\ UNCHANGED <<pc, frame, converged, frameIsDone, todo, parts,
                     net, inbox, tasks, staleClose>>
  BY DEF CountTile, main, flags, msgs
<1>2. /\ stage \in [Tile -> {"open", "final", "stored", "counted"}]
      /\ completed \in [Rank -> Nat] /\ closers \in [Rank -> SUBSET (1..MaxFrame)]
      /\ o \in Rank /\ t \in MyTiles(o)
  BY OwnerIsRank DEF WholeInv, IInv, TypeOK, MyTiles
<1>3. pc[o] \in BeforeIbarrier /\ parts[t] = Renderers[t] \X {frame[o]}
  BY <1>1 DEF WholeInv, TileSteps, PartsFollow
<1>4. pc[o] \in {"render", "wait"} /\ pc[o] \in InAFrame
  BY <1>1, <1>3, NothingStored DEF InAFrame, Active, BeforeIbarrier
<1>5. t \notin converged[o] /\ t \notin Done(o)
  <2>1. <<o, frame[o]>> \in parts[t]
    BY <1>3 DEF OwnersRender
  <2>2. QED
    BY <1>1, <1>4, <2>1 DEF WholeInv, TileSteps, PartsFollow, Done
<1>6. closers[o] = {} /\ ~frameIsDone[o] /\ completed[o] = Cardinality(Done(o))
  BY <1>2, <1>4, <1>5 DEF WholeInv, TileSteps, DoneFollows
<1>7. /\ Done(o)' = Done(o) \cup {t}
      /\ \A s \in Rank : MyTiles(s)' = MyTiles(s)
      /\ \A s \in Rank : s # o => Done(s)' = Done(s)
  BY <1>1, <1>2 DEF Done, MyTiles
<1>8. /\ IsFiniteSet(MyTiles(o)) /\ IsFiniteSet(Done(o))
      /\ Cardinality(Done(o)') = completed[o] + 1 /\ Done(o)' \subseteq MyTiles(o)
  <2>1. IsFiniteSet(MyTiles(o)) /\ IsFiniteSet(Done(o)) /\ Done(o) \subseteq MyTiles(o)
    BY OwnerIsRank, FS_Subset DEF MyTiles, Done
  <2>2. QED
    BY <1>2, <1>5, <1>6, <1>7, <2>1, FS_AddElement
<1>9. IsComplete(o, completed[o] + 1) => Done(o)' = MyTiles(o)
  <2>1. ~(o = Master /\ ~MasterIsAWorker)
    BY <1>2, MasterOwnsNone
  <2>2. QED
    BY <1>8, <2>1, FS_Subset DEF IsComplete
<1>10. MessagesFollow' /\ TodoFollows'
  BY <1>1 DEF WholeInv, TileSteps, MessagesFollow, TodoFollows, OnTheWay
<1>11. PartsFollow'
  <2> SUFFICES ASSUME NEW u \in Tile
               PROVE  PartsFollow!(u)'
    BY DEF PartsFollow
  <2>1. PartsFollow!(u)
    BY DEF WholeInv, TileSteps, PartsFollow
  <2>2. QED
    BY <1>1, <1>2, <2>1
<1>12. DoneFollows'
  <2> SUFFICES ASSUME NEW s \in Rank
               PROVE  DoneFollows!(s)'
    BY DEF DoneFollows
  <2>1. DoneFollows!(s)
    BY DEF WholeInv, TileSteps, DoneFollows
  <2>2. CASE s # o
    <3>1. completed'[s] = completed[s] /\ closers'[s] = closers[s]
      BY <1>1, <1>2, <2>2
    <3>2. QED
      BY <1>1, <1>7, <2>1, <2>2, <3>1
  <2>3. CASE s = o
    <3>1. completed'[o] = Cardinality(Done(o)')
      BY <1>1, <1>2, <1>8
    <3>2. closers'[o] # {} => closers'[o] = {frame[o]} /\ Done(o)' = MyTiles(o)
      BY <1>1, <1>2, <1>6, <1>9
    <3>3. pc'[o] \in {"render", "wait"} /\ ~frameIsDone'[o] /\ frame'[o] = frame[o]
          /\ MyTiles(o)' = MyTiles(o) /\ MyTiles(o) # {} /\ pc'[o] # "close"
      BY <1>1, <1>2, <1>4, <1>6, <1>7
    <3>4. QED
      BY <2>3, <3>1, <3>2, <3>3
  <2>4. QED
    BY <2>2, <2>3
<1>13. QED
  BY <1>1, <1>10, <1>11, <1>12 DEF WholeInv, TileSteps, NoStaleClose

\* A task that closes the frame.
LEMMA CloseStep ==
  ASSUME WholeInv, NEW r \in Rank, CloseByTask(r)
  PROVE  TileSteps'
<1>1. PICK f \in closers[r] : /\ closers' = [closers EXCEPT ![r] = @ \ {f}]
                              /\ staleClose' = (staleClose \/ f < frame[r])
  BY DEF CloseByTask
<1>2. /\ frameIsDone' = [frameIsDone EXCEPT ![r] = TRUE]
      /\ UNCHANGED <<pc, frame, converged, todo, parts, stage, completed, net, inbox, tasks>>
  BY DEF CloseByTask, main, tiles, msgs
<1>3. /\ closers \in [Rank -> SUBSET (1..MaxFrame)] /\ frameIsDone \in [Rank -> BOOLEAN]
      /\ frame[r] \in Nat
  BY FrameAssumption DEF WholeInv, IInv, TypeOK
<1>4. closers[r] = {frame[r]} /\ f = frame[r] /\ Done(r) = MyTiles(r)
  BY <1>1 DEF WholeInv, TileSteps, DoneFollows
<1>5. NoStaleClose'
  <2>1. ~ (f < frame[r])
    BY <1>3, <1>4
  <2>2. staleClose = FALSE \/ ~ staleClose
    BY DEF WholeInv, TileSteps, NoStaleClose
  <2>3. ~ staleClose'
    BY <1>1, <2>1, <2>2
  <2>4. QED
    BY <2>3 DEF NoStaleClose
<1>6. MessagesFollow' /\ TodoFollows'
  BY <1>2 DEF WholeInv, TileSteps, MessagesFollow, TodoFollows, OnTheWay
<1>7. PartsFollow'
  BY <1>2 DEF WholeInv, TileSteps, PartsFollow
<1>8. DoneFollows'
  <2>1. \A s \in Rank : Done(s)' = Done(s) /\ MyTiles(s)' = MyTiles(s)
    BY <1>2 DEF Done, MyTiles
  <2>2. closers'[r] = {} /\ \A s \in Rank : s # r => /\ closers'[s] = closers[s]
                                                     /\ frameIsDone'[s] = frameIsDone[s]
    BY <1>1, <1>2, <1>3, <1>4
  <2>3. QED
    BY <1>2, <1>4, <2>1, <2>2 DEF WholeInv, TileSteps, DoneFollows
<1>9. QED
  BY <1>5, <1>6, <1>7, <1>8 DEF TileSteps

\* The start of a frame.
LEMMA StartStep ==
  ASSUME WholeInv, FrameSteps', IInv', NEW r \in Rank, StartNewFrame(r)
  PROVE  TileSteps'
<1>1. PICK conv : /\ converged' = [converged EXCEPT ![r] = conv]
                  /\ todo' = [todo EXCEPT ![r] = {t \in Tile \ conv : r \in Renderers[t]}]
                  /\ completed' = [completed EXCEPT ![r] = Cardinality(MyTiles(r) \cap conv)]
  BY DEF StartNewFrame
<1>2. /\ pc[r] = "start" /\ pc' = [pc EXCEPT ![r] = "check"]
      /\ frame' = [frame EXCEPT ![r] = @ + 1]
      /\ parts' = [t \in Tile |-> IF OwnerOf(t) = r THEN {} ELSE parts[t]]
      /\ stage' = [t \in Tile |-> IF OwnerOf(t) = r THEN "open" ELSE stage[t]]
      /\ frameIsDone' = [frameIsDone EXCEPT ![r] = FALSE]
      /\ tasks' = tasks \cup delayed[r]
      /\ UNCHANGED <<closers, net, inbox, staleClose>>
  BY DEF StartNewFrame, Goto
<1>3. /\ pc \in [Rank -> PC] /\ frame \in [Rank -> Nat]
      /\ converged \in [Rank -> SUBSET Tile] /\ todo \in [Rank -> SUBSET Tile]
      /\ parts \in [Tile -> SUBSET (Rank \X (1..MaxFrame))]
      /\ stage \in [Tile -> {"open", "final", "stored", "counted"}]
      /\ completed \in [Rank -> Nat] /\ frameIsDone \in [Rank -> BOOLEAN]
      /\ \A t \in Tile : OwnerOf(t) \in Rank
  BY FrameAssumption, OwnerIsRank DEF WholeInv, IInv, TypeOK
<1>4. tasks' = tasks /\ OnTheWay' = OnTheWay
  BY <1>2 DEF OnTheWay, WholeInv, FrameSteps, FlagsFollow
<1>5. \A s \in Rank : s # r => /\ pc'[s] = pc[s] /\ frame'[s] = frame[s]
                               /\ converged'[s] = converged[s] /\ todo'[s] = todo[s]
                               /\ completed'[s] = completed[s]
                               /\ frameIsDone'[s] = frameIsDone[s]
  BY <1>1, <1>2, <1>3
<1>6. /\ pc'[r] = "check" /\ frame'[r] = frame[r] + 1 /\ converged'[r] = conv
      /\ todo'[r] = {t \in Tile \ conv : r \in Renderers[t]}
      /\ completed'[r] = Cardinality(MyTiles(r) \cap conv) /\ ~frameIsDone'[r]
  BY <1>1, <1>2, <1>3
<1>7. /\ \A t \in Tile : OwnerOf(t) # r => parts'[t] = parts[t] /\ stage'[t] = stage[t]
      /\ \A t \in Tile : OwnerOf(t) = r => parts'[t] = {} /\ stage'[t] = "open"
  BY <1>2
<1>8. MessagesFollow'
  <2> SUFFICES ASSUME NEW m \in OnTheWay
               PROVE  LET o == OwnerOf(m.tile) IN
                      /\ m.from \in Renderers[m.tile] /\ m.frame = frame'[m.from]
                      /\ pc'[m.from] \in {"render", "wait", "ibarrier"}
                      /\ m.tile \notin converged'[m.from]
                      /\ <<m.from, m.frame>> \notin parts'[m.tile]
                      /\ \/ pc'[o] \in ToStart /\ m.frame = frame'[o] + 1 /\ m \in net'
                         \/ pc'[o] \in BeforeIbarrier /\ m.frame = frame'[o]
    BY <1>2, <1>4 DEF WholeInv, TileSteps, MessagesFollow
  <2> DEFINE o == OwnerOf(m.tile)
  <2>1. m.tile \in Tile /\ m.from \in Rank /\ o \in Rank
    BY MessageTyped DEF WholeInv
  <2>2. /\ m.from \in Renderers[m.tile] /\ m.frame = frame[m.from]
        /\ pc[m.from] \in {"render", "wait", "ibarrier"}
        /\ m.tile \notin converged[m.from]
        /\ <<m.from, m.frame>> \notin parts[m.tile]
        /\ \/ pc[o] \in ToStart /\ m.frame = frame[o] + 1 /\ m \in net
           \/ pc[o] \in BeforeIbarrier /\ m.frame = frame[o]
    BY DEF WholeInv, TileSteps, MessagesFollow
  <2>3. m.from # r
    BY <1>2, <2>2
  <2>4. <<m.from, m.frame>> \notin parts'[m.tile]
    BY <1>7, <2>1, <2>2
  <2>5. CASE o = r
    <3>1. m.frame = frame'[o] /\ pc'[o] \in BeforeIbarrier
      BY <1>2, <1>6, <2>2, <2>5 DEF BeforeIbarrier
    <3>2. QED
      BY <1>5, <2>1, <2>2, <2>3, <2>4, <3>1
  <2>6. CASE o # r
    BY <1>2, <1>5, <2>1, <2>2, <2>3, <2>4, <2>6
  <2>7. QED
    BY <2>5, <2>6
<1>9. TodoFollows'
  <2> SUFFICES ASSUME NEW s \in Rank
               PROVE  TodoFollows!(s)'
    BY DEF TodoFollows
  <2>1. TodoFollows!(s)
    BY DEF WholeInv, TileSteps, TodoFollows
  <2>2. CASE s # r
    <3>1. \A t \in todo[s] : parts'[t] \subseteq parts[t]
      BY <1>3, <1>7
    <3>2. QED
      BY <1>4, <1>5, <2>1, <2>2, <3>1
  <2>3. CASE s = r
    <3>1. ASSUME NEW t \in todo'[r]
          PROVE  /\ <<r, frame'[r]>> \notin parts'[t]
                 /\ [tile |-> t, from |-> r, frame |-> frame'[r]] \notin OnTheWay
      <4>1. t \in Tile
        BY <1>6
      <4>2. <<r, frame'[r]>> \notin parts'[t]
        <5>1. CASE OwnerOf(t) = r
          BY <1>7, <4>1, <5>1
        <5>2. CASE OwnerOf(t) # r
          <6>1. SUFFICES ASSUME <<r, frame[r] + 1>> \in parts[t]
                         PROVE  FALSE
            BY <1>6, <1>7, <4>1, <5>2
          <6>2. frame[OwnerOf(t)] = frame[r] + 1
            BY <4>1, <6>1 DEF WholeInv, TileSteps, PartsFollow
          <6>3. frame[OwnerOf(t)] <= frame[r]
            BY <4>1, <6>1, <6>2 DEF WholeInv, TileSteps, PartsFollow
          <6>4. QED
            BY <1>3, <6>2, <6>3
        <5>3. QED
          BY <5>1, <5>2
      <4>3. \A m \in OnTheWay : m.from # r
        BY <1>2 DEF WholeInv, TileSteps, MessagesFollow
      <4>4. QED
        BY <4>2, <4>3
    <3>2. QED
      BY <1>4, <1>6, <2>3, <3>1
  <2>4. QED
    BY <2>2, <2>3
<1>10. PartsFollow'
  <2> SUFFICES ASSUME NEW t \in Tile
               PROVE  PartsFollow!(t)'
    BY DEF PartsFollow
  <2>1. PartsFollow!(t) /\ OwnerOf(t) \in Rank
    BY <1>3 DEF WholeInv, TileSteps, PartsFollow
  <2>2. CASE OwnerOf(t) = r
    BY <1>7, <2>2
  <2>3. CASE OwnerOf(t) # r
    <3>1. \A q \in Rank : frame[q] <= frame'[q]
      BY <1>2, <1>3
    <3>2. frame'[OwnerOf(t)] = frame[OwnerOf(t)]
      BY <1>5, <2>1, <2>3
    <3>3. \A q \in Rank : <<q, frame[OwnerOf(t)]>> \in parts[t] => frame[OwnerOf(t)] <= frame'[q]
      <4>1. \A q \in Rank : frame'[q] \in Nat /\ frame[q] \in Nat
        BY <1>2, <1>3
      <4>2. QED
        BY <2>1, <3>1, <4>1
    <3>4. QED
      BY <1>5, <1>7, <2>1, <2>3, <3>2, <3>3
  <2>4. QED
    BY <2>2, <2>3
<1>11. DoneFollows'
  <2> SUFFICES ASSUME NEW s \in Rank
               PROVE  DoneFollows!(s)'
    BY DEF DoneFollows
  <2>1. DoneFollows!(s)
    BY DEF WholeInv, TileSteps, DoneFollows
  <2>2. CASE s # r
    <3>1. Done(s)' = Done(s) /\ MyTiles(s)' = MyTiles(s)
      BY <1>5, <1>7, <2>2 DEF Done, MyTiles
    <3>2. QED
      BY <1>2, <1>5, <2>1, <2>2, <3>1
  <2>3. CASE s = r
    <3>1. Done(r)' = MyTiles(r) \cap conv
      BY <1>6, <1>7 DEF Done, MyTiles
    <3>2. closers'[r] = {}
      BY <1>2, <2>1, <2>3
    <3>3. QED
      BY <1>6, <2>3, <3>1, <3>2
  <2>4. QED
    BY <2>2, <2>3
<1>12. QED
  BY <1>2, <1>8, <1>9, <1>10, <1>11 DEF WholeInv, TileSteps, NoStaleClose


-----------------------------------------------------------------------------
\* Before the first frame.
LEMMA InitWhole == Init => WholeInv
<1> SUFFICES ASSUME Init
             PROVE  WholeInv
  OBVIOUS
<1>1. IInv
  BY InitIInv
<1>2. \A r \in Rank : pc[r] = "idle" /\ frame[r] = 0 /\ calls[r] = <<>>
  BY DEF Init
<1>3. FramesCounted
  <2>1. \A r \in Rank : \A k : CallsOf(r, k) = {}
    BY <1>2 DEF CallsOf
  <2>2. \A r \in Rank : Entered(r) = 0 /\ Finishing(r) = 0
    BY <1>2 DEF Entered, Finishing, ToStart, BeforeIbarrier
  <2>3. \A r \in Rank : \A k : Cardinality(CallsOf(r, k)) = 0
    BY <2>1, FS_EmptySet
  <2>4. QED
    BY <1>2, <2>2, <2>3 DEF FramesCounted
<1>4. RanksInOrder
  BY <1>2 DEF RanksInOrder, Entered, Finishing, ToStart, Active, BeforeIbarrier
<1>5. ErrorsKnown /\ FlagsFollow
  BY <1>2 DEF Init, ErrorsKnown, FlagsFollow, InAFrame, Active, BeforeIbarrier
<1>6. MessagesFollow /\ TodoFollows
  BY DEF Init, MessagesFollow, OnTheWay, TodoFollows
<1>7. PartsFollow /\ DoneFollows
  BY OwnerIsRank DEF Init, PartsFollow, DoneFollows, InAFrame, Active, BeforeIbarrier
<1>8. NoStaleClose
  BY DEF Init, NoStaleClose
<1>9. QED
  BY <1>1, <1>3, <1>4, <1>5, <1>6, <1>7, <1>8 DEF WholeInv, FrameSteps, TileSteps

\* Every step keeps the whole invariant.
LEMMA NextWhole ==
  ASSUME WholeInv, OwnersRender, [Next]_vars
  PROVE  WholeInv'
<1>1. IInv'
  BY NextCallInv, NextTyped DEF WholeInv, IInv
<1>2. FrameSteps'
  BY NextCounted, NextInOrder, NextErrors, NextFlags DEF WholeInv, FrameSteps, TileSteps
<1>3. TileSteps'
  <2>1. ASSUME NEW r \in Rank, StartNewFrame(r)
        PROVE  TileSteps'
    BY <1>1, <1>2, <2>1, StartStep
  <2>2. ASSUME NEW r \in Rank, Quiet(r)
        PROVE  TileSteps'
    <3>1. NoStaleClose'
      BY <2>2 DEF WholeInv, TileSteps, NoStaleClose, Quiet
    <3>2. QED
      BY <2>2, <3>1, QuietMessages, QuietTodo, QuietParts, QuietDone DEF TileSteps
  <2>3. CASE UNCHANGED vars
    BY <2>3 DEF WholeInv, TileSteps, MessagesFollow, TodoFollows, PartsFollow, DoneFollows,
       NoStaleClose, Done, MyTiles, OnTheWay, vars, main, flags, tiles, msgs
  <2>4. QED
    BY <2>1, <2>2, <2>3, MainIsQuiet, RenderStep, DeliverStep, ProcessMessageStep, StoreStep,
       CountStep, CloseStep DEF Next, WholeInv
<1>4. QED
  BY <1>1, <1>2, <1>3 DEF WholeInv

\* If owners render, a frame's messages, parts and counters stay in it.
THEOREM WholeInvariance == ASSUME OwnersRender PROVE Spec => []WholeInv
<1>1. Init => WholeInv
  BY InitWhole
<1>2. WholeInv /\ [Next]_vars => WholeInv'
  BY NextWhole
<1>3. QED
  BY <1>1, <1>2, PTL DEF Spec

LEMMA WholeImplies ==
  WholeInv => NoStaleClose /\ DoneWhenComplete /\ MessagesInFrame
<1> SUFFICES ASSUME WholeInv
             PROVE  NoStaleClose /\ DoneWhenComplete /\ MessagesInFrame
  OBVIOUS
<1>1. NoStaleClose
  BY DEF WholeInv, TileSteps
<1>2. DoneWhenComplete
  <2> SUFFICES ASSUME NEW r \in Rank, pc[r] \in {"ibarrier", "stop", "cancel", "gather"},
                      NEW t \in MyTiles(r) \ converged[r]
               PROVE  stage[t] = "counted"
    BY DEF DoneWhenComplete
  <2>1. frameIsDone[r] /\ pc[r] \in InAFrame
    BY DEF WholeInv, FrameSteps, FlagsFollow, InAFrame, Active, BeforeIbarrier
  <2>2. t \in Done(r)
    BY <2>1 DEF WholeInv, TileSteps, DoneFollows
  <2>3. QED
    BY <2>2 DEF Done
<1>3. MessagesInFrame
  <2>1. ASSUME NEW m \in inbox \cup tasks
        PROVE  m.frame = frame[OwnerOf(m.tile)] /\ frameIsActive[OwnerOf(m.tile)]
    <3>1. m \in OnTheWay /\ m \notin net
      BY DEF OnTheWay, WholeInv, TileSteps, MessagesFollow
    <3>2. OwnerOf(m.tile) \in Rank
      BY <3>1, MessageTyped DEF WholeInv
    <3>3. QED
      BY <3>1, <3>2 DEF WholeInv, TileSteps, MessagesFollow, FrameSteps, FlagsFollow, Active
  <2>2. ASSUME NEW m \in net
        PROVE  m.frame = IF pc[OwnerOf(m.tile)] \in {"barrier", "start"}
                           THEN frame[OwnerOf(m.tile)] + 1 ELSE frame[OwnerOf(m.tile)]
    <3>1. m \in OnTheWay
      BY DEF OnTheWay
    <3>2. QED
      BY <3>1 DEF WholeInv, TileSteps, MessagesFollow, ToStart, BeforeIbarrier
  <2>3. QED
    BY <2>1, <2>2 DEF MessagesInFrame
<1>4. QED
  BY <1>1, <1>2, <1>3

\* No task closes a frame that is not its own (closeCurrentFrame): only one
\* task, or the start of the frame, finds the counter at the number of tiles.
THEOREM ClosedOnce == ASSUME OwnersRender PROVE Spec => []NoStaleClose
<1>1. QED
  BY WholeInvariance, WholeImplies, PTL

\* A rank that has left the wait of waitUntilFinished has completed its tiles.
THEOREM CompleteWhenDone == ASSUME OwnersRender PROVE Spec => []DoneWhenComplete
<1>1. QED
  BY WholeInvariance, WholeImplies, PTL

\* No tile message outlives its frame (DFB::incoming).
THEOREM MessagesStayInFrame == ASSUME OwnersRender PROVE Spec => []MessagesInFrame
<1>1. QED
  BY WholeInvariance, WholeImplies, PTL

-----------------------------------------------------------------------------
(***************************************************************************)
(* What the master gathers, and what the application sees of it.           *)
(***************************************************************************)

\* The gather buffer of a rank holds the tiles it has completed.
GatherBuffers == \A r \in Rank :
  gatherBuffer[r] = {<<t, frame[r]>> : t \in {u \in MyTiles(r) : stage[u] \in {"stored", "counted"}}}

\* The barriers a rank has entered by its k-th call.
BarriersTo(r, k) == {j \in CallsOf(r, "barrier") : j <= k}

\* A rank has given to a gather all tiles that had not converged when the
\* frame was started.
WholeGather(r, k) ==
  \E j \in BarriersTo(r, k) :
    /\ j < k /\ \A i \in BarriersTo(r, k) : i <= j
    /\ calls[r][k].data = {<<t, Cardinality(BarriersTo(r, k))>> : t \in MyTiles(r) \ calls[r][j+1].data}

GathersAreWhole == \A r \in Rank : \A k \in CallsOf(r, "gather") : WholeGather(r, k)

\* The master assembles what it has just gathered.
AssemblesGathered ==
  pc[Master] = "assemble" => Len(calls[Master]) \in CallsOf(Master, "gather")

ShownInv == WholeInv /\ GatherBuffers /\ GathersAreWhole /\ AssemblesGathered

-----------------------------------------------------------------------------
\* A part arrives at a tile that is not complete.
LEMMA PartsArriveOpen ==
  ASSUME WholeInv
  PROVE  /\ \A r \in Rank : \A t \in todo[r] : OwnerOf(t) = r => stage[t] = "open"
         /\ \A m \in tasks : stage[m.tile] = "open"
<1>1. ASSUME NEW r \in Rank, NEW t \in todo[r], OwnerOf(t) = r
      PROVE  stage[t] = "open"
  <2>1. t \in Tile /\ r \in Renderers[t] /\ <<r, frame[r]>> \notin parts[t]
    BY DEF WholeInv, IInv, TypeOK, TileSteps, TodoFollows
  <2>2. QED
    BY <1>1, <2>1 DEF WholeInv, TileSteps, PartsFollow
<1>2. ASSUME NEW m \in tasks
      PROVE  stage[m.tile] = "open"
  <2>1. m \in OnTheWay /\ m \notin net /\ m.tile \in Tile
    BY DEF OnTheWay, WholeInv, TileSteps, MessagesFollow, IInv, TypeOK, Message
  <2>2. /\ m.from \in Renderers[m.tile] /\ <<m.from, m.frame>> \notin parts[m.tile]
        /\ m.frame = frame[OwnerOf(m.tile)]
    BY <2>1 DEF WholeInv, TileSteps, MessagesFollow
  <2>3. QED
    BY <2>1, <2>2 DEF WholeInv, TileSteps, PartsFollow
<1>3. QED
  BY <1>1, <1>2

\* Every step keeps the gather buffers.
LEMMA NextBuffers ==
  ASSUME WholeInv, GatherBuffers, [Next]_vars
  PROVE  GatherBuffers'
<1> DEFINE Stored(r) == {<<t, frame[r]>> : t \in {u \in MyTiles(r) : stage[u] \in {"stored", "counted"}}}
<1>1. /\ gatherBuffer \in [Rank -> SUBSET (Tile \X (1..MaxFrame))]
      /\ stage \in [Tile -> {"open", "final", "stored", "counted"}]
      /\ frame \in [Rank -> 0 .. MaxFrame]
  BY DEF WholeInv, IInv, TypeOK
<1>2. \A r \in Rank : MyTiles(r) = {t \in Tile : OwnerOf(t) = r} /\ MyTiles(r)' = MyTiles(r)
  BY DEF MyTiles
<1>3. \A r \in Rank : gatherBuffer[r] = Stored(r)
  BY DEF GatherBuffers
<1>4. ASSUME UNCHANGED <<frame, gatherBuffer>>,
             \A t \in Tile : stage'[t] \in {"stored", "counted"} <=> stage[t] \in {"stored", "counted"}
      PROVE  GatherBuffers'
  BY <1>2, <1>3, <1>4 DEF GatherBuffers
<1>5. ASSUME NEW r \in Rank, StartNewFrame(r)
      PROVE  GatherBuffers'
  <2>1. /\ frame' = [frame EXCEPT ![r] = @ + 1]
        /\ stage' = [t \in Tile |-> IF OwnerOf(t) = r THEN "open" ELSE stage[t]]
        /\ gatherBuffer' = [gatherBuffer EXCEPT ![r] = {}]
    BY <1>5 DEF StartNewFrame
  <2> SUFFICES ASSUME NEW s \in Rank
               PROVE  gatherBuffer'[s] = Stored(s)'
    BY DEF GatherBuffers
  <2>2. CASE s = r
    <3>1. \A u \in MyTiles(s) : stage'[u] = "open"
      BY <1>2, <2>1, <2>2
    <3>2. Stored(s)' = {}
      BY <1>2, <3>1
    <3>3. QED
      BY <1>1, <2>1, <2>2, <3>2
  <2>3. CASE s # r
    <3>1. \A u \in MyTiles(s) : stage'[u] = stage[u]
      BY <1>2, <2>1, <2>3
    <3>2. frame'[s] = frame[s] /\ gatherBuffer'[s] = gatherBuffer[s]
      BY <1>1, <2>1, <2>3
    <3>3. QED
      BY <1>2, <1>3, <3>1, <3>2
  <2>4. QED
    BY <2>2, <2>3
<1>6. ASSUME NEW t \in Tile, NEW q, NEW f, ProcessPart(t, q, f), stage[t] = "open", frame' = frame
      PROVE  GatherBuffers'
  BY <1>1, <1>4, <1>6 DEF ProcessPart
<1>7. ASSUME NEW r \in Rank, NEW t \in Tile, RenderTile(r, t)
      PROVE  GatherBuffers'
  <2>1. t \in todo[r] /\ frame' = frame
    BY <1>7 DEF RenderTile, main
  <2>2. CASE OwnerOf(t) = r
    BY <1>6, <1>7, <2>1, <2>2, PartsArriveOpen DEF RenderTile
  <2>3. CASE OwnerOf(t) # r
    BY <1>4, <1>7, <2>1, <2>3 DEF RenderTile, tiles
  <2>4. QED
    BY <2>2, <2>3
<1>8. ASSUME NEW m \in tasks, ProcessMessage(m)
      PROVE  GatherBuffers'
  <2>1. frame' = frame /\ m.tile \in Tile
    BY <1>8 DEF ProcessMessage, main, WholeInv, IInv, TypeOK, Message
  <2>2. QED
    BY <1>6, <1>8, <2>1, PartsArriveOpen DEF ProcessMessage
<1>9. ASSUME NEW t \in Tile, StoreTile(t)
      PROVE  GatherBuffers'
  <2> DEFINE r == OwnerOf(t)
  <2>1. /\ stage' = [stage EXCEPT ![t] = "stored"] /\ frame' = frame
        /\ gatherBuffer' = [gatherBuffer EXCEPT ![r] = @ \cup {<<t, frame[r]>>}]
    BY <1>9 DEF StoreTile, main
  <2>2. r \in Rank
    BY OwnerIsRank
  <2> SUFFICES ASSUME NEW s \in Rank
               PROVE  gatherBuffer'[s] = Stored(s)'
    BY DEF GatherBuffers
  <2>3. CASE s = r
    <3>1. {u \in MyTiles(s) : stage'[u] \in {"stored", "counted"}} =
            {u \in MyTiles(s) : stage[u] \in {"stored", "counted"}} \cup {t}
      BY <1>1, <1>2, <2>1, <2>3
    <3>2. Stored(s)' = Stored(s) \cup {<<t, frame[r]>>}
      BY <1>2, <2>1, <2>3, <3>1
    <3>3. QED
      BY <1>1, <1>3, <2>1, <2>2, <2>3, <3>2
  <2>4. CASE s # r
    <3>1. \A u \in MyTiles(s) : stage'[u] = stage[u]
      BY <1>1, <1>2, <2>1, <2>4
    <3>2. QED
      BY <1>1, <1>2, <1>3, <2>1, <2>4, <3>1
  <2>5. QED
    BY <2>3, <2>4
<1>10. ASSUME NEW t \in Tile, CountTile(t)
       PROVE  GatherBuffers'
  BY <1>1, <1>4, <1>10 DEF CountTile, main
<1>11. CASE UNCHANGED <<frame, stage, gatherBuffer>>
  BY <1>4, <1>11
<1>12. ASSUME NEW r \in Rank, MainThread(r) \/ Clear(r) \/ CloseByTask(r), ~StartNewFrame(r)
       PROVE  UNCHANGED <<frame, stage, gatherBuffer>>
  BY <1>12 DEF MainThread, EnterBarrier, LeaveBarrier, CheckComplete, CloseAtStart, BeginFrame,
     RenderingDone, EnterIbarrier, LeaveIbarrier, StopMessaging, BcastCancelled, Gather, EndFrame,
     Assemble, Clear, CloseByTask, main, tiles
<1>13. ASSUME NEW m, Receive(m) \/ Incoming(m)
       PROVE  UNCHANGED <<frame, stage, gatherBuffer>>
  BY <1>13 DEF Receive, Incoming, main, tiles
<1>14. CASE UNCHANGED vars
  BY <1>11, <1>14 DEF vars, main, tiles
<1>15. QED
  BY <1>5, <1>7, <1>8, <1>9, <1>10, <1>11, <1>12, <1>13, <1>14 DEF Next

\* A call leaves what the gathers before it have been given.
LEMMA GathersKept ==
  ASSUME WholeInv, GathersAreWhole, NEW r \in Rank, NEW kind \in Kind, NEW data,
         Call(r, kind, data)
  PROVE  /\ \A s \in Rank : \A k \in CallsOf(s, "gather") :
              k \in CallsOf(s, "gather")' /\ WholeGather(s, k)'
         /\ kind # "gather" => GathersAreWhole'
         /\ kind = "gather" =>
              /\ CallsOf(r, "gather")' = CallsOf(r, "gather") \cup {Len(calls[r]) + 1}
              /\ \A s \in Rank : s # r => CallsOf(s, "gather")' = CallsOf(s, "gather")
<1> DEFINE n == Len(calls[r])
<1>0. CallInv
  BY DEF WholeInv, IInv
<1>1. /\ calls'[r] = Append(calls[r], [kind |-> kind, data |-> data])
      /\ \A s \in Rank : s # r => calls'[s] = calls[s]
      /\ \A s \in Rank : calls[s] \in Seq(CallRecord)
  BY <1>0 DEF Call, CallInv, CallsTyped
<1>2. /\ n \in Nat /\ Len(calls'[r]) = n + 1
      /\ \A i \in 1 .. n : calls'[r][i] = calls[r][i]
  BY <1>1
<1>3. \A s \in Rank : /\ Len(calls[s]) \in Nat /\ Len(calls'[s]) \in Nat
                      /\ Len(calls'[s]) >= Len(calls[s])
                      /\ \A i \in 1 .. Len(calls[s]) : calls'[s][i] = calls[s][i]
  <2> SUFFICES ASSUME NEW s \in Rank
               PROVE  /\ Len(calls[s]) \in Nat /\ Len(calls'[s]) \in Nat
                      /\ Len(calls'[s]) >= Len(calls[s])
                      /\ \A i \in 1 .. Len(calls[s]) : calls'[s][i] = calls[s][i]
    OBVIOUS
  <2>1. CASE s = r
    BY <1>2, <2>1
  <2>2. CASE s # r
    BY <1>1, <2>2
  <2>3. QED
    BY <2>1, <2>2
<1>4. ASSUME NEW s \in Rank, NEW k \in CallsOf(s, "gather")
      PROVE  k \in CallsOf(s, "gather")' /\ WholeGather(s, k)'
  <2>1. k \in 1 .. Len(calls[s]) /\ k \in 1 .. Len(calls'[s]) /\ calls'[s][k] = calls[s][k]
    BY <1>3 DEF CallsOf
  <2>2. BarriersTo(s, k)' = BarriersTo(s, k)
    BY <1>3, <2>1 DEF BarriersTo, CallsOf
  <2>3. MyTiles(s)' = MyTiles(s)
    BY DEF MyTiles
  <2>4. PICK j \in BarriersTo(s, k) :
          /\ j < k /\ \A i \in BarriersTo(s, k) : i <= j
          /\ calls[s][k].data = {<<t, Cardinality(BarriersTo(s, k))>> : t \in MyTiles(s) \ calls[s][j+1].data}
    BY DEF GathersAreWhole, WholeGather
  <2>5. calls'[s][j+1] = calls[s][j+1]
    BY <1>3, <2>1, <2>4 DEF BarriersTo, CallsOf
  <2>6. WholeGather(s, k)'
    BY <2>1, <2>2, <2>3, <2>4, <2>5 DEF WholeGather
  <2>7. QED
    BY <2>1, <2>6 DEF CallsOf
<1>5. /\ \A s \in Rank : s # r => CallsOf(s, "gather")' = CallsOf(s, "gather")
      /\ "gather" # kind => CallsOf(r, "gather")' = CallsOf(r, "gather")
      /\ "gather" = kind => CallsOf(r, "gather")' = CallsOf(r, "gather") \cup {Len(calls[r]) + 1}
  BY <1>0, CountsCall
<1>6. kind # "gather" => GathersAreWhole'
  BY <1>4, <1>5 DEF GathersAreWhole
<1>7. QED
  BY <1>4, <1>5, <1>6

LEMMA GatherWhole ==
  ASSUME WholeInv, GatherBuffers, GathersAreWhole, NEW r \in Rank, Gather(r)
  PROVE  GathersAreWhole'
<1>0. PICK k \in Nat : k = Len(calls[r]) + 1
  BY DEF WholeInv, IInv, CallInv, CallsTyped
<1>1. pc[r] = "gather" /\ Call(r, "gather", gatherBuffer[r])
  BY DEF Gather
<1>2. /\ Len(calls'[r]) = k /\ \A i \in 1 .. k - 1 : calls'[r][i] = calls[r][i]
      /\ calls'[r][k] = [kind |-> "gather", data |-> gatherBuffer[r]]
  BY <1>0, <1>1 DEF Call, WholeInv, IInv, CallInv, CallsTyped
<1>3. BarriersTo(r, k)' = CallsOf(r, "barrier")
  <2>1. CallsOf(r, "barrier")' = CallsOf(r, "barrier")
    BY <1>1, CountsCall DEF Kind, WholeInv, IInv
  <2>2. \A i \in CallsOf(r, "barrier") : i <= k
    BY <1>0 DEF CallsOf
  <2>3. QED
    BY <2>1, <2>2 DEF BarriersTo
<1>4. Cardinality(CallsOf(r, "barrier")) = frame[r]
  <2>1. Entered(r) = frame[r] + 0 /\ frame[r] \in Nat
    BY <1>1, FrameAssumption DEF Entered, ToStart, WholeInv, IInv, TypeOK
  <2>2. QED
    BY <2>1 DEF WholeInv, FrameSteps, FramesCounted
<1>5. PICK j \in CallsOf(r, "barrier") :
        /\ \A i \in CallsOf(r, "barrier") : i <= j
        /\ j < Len(calls[r]) /\ converged[r] = calls[r][j+1].data
  BY <1>1 DEF WholeInv, FrameSteps, ErrorsKnown, InAFrame
<1>6. {t \in MyTiles(r) : stage[t] \in {"stored", "counted"}} = MyTiles(r) \ converged[r]
  <2>1. Done(r) = MyTiles(r)
    BY <1>1 DEF WholeInv, TileSteps, DoneFollows, FrameSteps, FlagsFollow, InAFrame, Active, BeforeIbarrier
  <2>2. ASSUME NEW t \in MyTiles(r), t \notin converged[r]
        PROVE  stage[t] \in {"stored", "counted"}
    BY <2>1, <2>2 DEF Done
  <2>3. ASSUME NEW t \in MyTiles(r), stage[t] \in {"stored", "counted"}
        PROVE  t \notin converged[r]
    <3>1. t \in Tile /\ OwnerOf(t) = r
      BY DEF MyTiles
    <3>2. parts[t] = Renderers[t] \X {frame[r]} /\ Renderers[t] # {}
      BY <2>3, <3>1, RenderersAssumption DEF WholeInv, TileSteps, PartsFollow
    <3>3. parts[t] # {}
      <4>1. PICK q \in Renderers[t] : TRUE
        BY <3>2
      <4>2. <<q, frame[r]>> \in Renderers[t] \X {frame[r]}
        BY <4>1
      <4>3. QED
        BY <3>2, <4>2
    <3>4. pc[OwnerOf(t)] \in InAFrame
      BY <1>1, <3>1 DEF InAFrame
    <3>5. QED
      BY <3>1, <3>3, <3>4 DEF WholeInv, TileSteps, PartsFollow
  <2>4. QED
    BY <2>2, <2>3
<1>7. gatherBuffer[r] = {<<t, frame[r]>> : t \in MyTiles(r) \ converged[r]}
  BY <1>6 DEF GatherBuffers
<1>8. WholeGather(r, k)'
  <2>1. MyTiles(r)' = MyTiles(r)
    BY DEF MyTiles
  <2>2. j + 1 \in 1 .. k - 1 /\ j < k
    BY <1>0, <1>5 DEF CallsOf
  <2>3. calls'[r][j+1] = calls[r][j+1] /\ calls'[r][k].data = gatherBuffer[r]
    BY <1>2, <2>2
  <2>4. calls'[r][k].data = {<<t, Cardinality(BarriersTo(r, k)')>> : t \in MyTiles(r)' \ calls'[r][j+1].data}
    BY <1>3, <1>4, <1>5, <1>7, <2>1, <2>3
  <2>5. QED
    BY <1>3, <1>5, <2>2, <2>4 DEF WholeGather
<1>9. "gather" \in Kind
  BY DEF Kind
<1>10. /\ \A s \in Rank : s # r => CallsOf(s, "gather")' = CallsOf(s, "gather")
       /\ CallsOf(r, "gather")' = CallsOf(r, "gather") \cup {k}
       /\ \A s \in Rank : \A i \in CallsOf(s, "gather") : WholeGather(s, i)'
  BY <1>0, <1>1, <1>9, GathersKept
<1>11. SUFFICES ASSUME NEW s \in Rank, NEW i \in CallsOf(s, "gather")'
                PROVE  WholeGather(s, i)'
  BY DEF GathersAreWhole
<1>12. CASE s = r /\ i = k
  BY <1>8, <1>12
<1>13. CASE ~ (s = r /\ i = k)
  BY <1>10, <1>13
<1>14. QED
  BY <1>12, <1>13

\* Every step keeps what has been gathered.
LEMMA NextGathered ==
  ASSUME WholeInv, GatherBuffers, GathersAreWhole, AssemblesGathered, [Next]_vars
  PROVE  GathersAreWhole' /\ AssemblesGathered'
<1>1. pc \in [Rank -> PC] /\ Master \in Rank /\ CallInv
  BY OwnerIsRank DEF WholeInv, IInv, TypeOK
<1>2. ASSUME NEW r \in Rank, NEW kind \in Kind, NEW data, Call(r, kind, data), kind # "gather",
             NEW l, l # "assemble", Goto(r, l)
      PROVE  GathersAreWhole' /\ AssemblesGathered'
  <2>1. GathersAreWhole'
    BY <1>2, GathersKept
  <2>2. AssemblesGathered'
    <3>1. CASE r = Master
      BY <1>1, <1>2, <3>1 DEF Goto, AssemblesGathered
    <3>2. CASE r # Master
      <4>1. calls'[Master] = calls[Master] /\ pc'[Master] = pc[Master]
        BY <1>1, <1>2, <3>2 DEF Call, Goto, CallInv, CallsTyped
      <4>2. QED
        BY <4>1 DEF AssemblesGathered, CallsOf
    <3>3. QED
      BY <3>1, <3>2
  <2>3. QED
    BY <2>1, <2>2
<1>3. ASSUME NEW r \in Rank, Gather(r)
      PROVE  AssemblesGathered'
  <2>1. Call(r, "gather", gatherBuffer[r]) /\ pc' = [pc EXCEPT ![r] = IF r = Master THEN "assemble" ELSE "end"]
    BY <1>3 DEF Gather, Goto
  <2>2. CASE r = Master
    <3>1. Len(calls'[r]) = Len(calls[r]) + 1 /\ Len(calls[r]) \in Nat
      BY <1>1, <2>1 DEF Call, CallInv, CallsTyped
    <3>2. CallsOf(r, "gather")' = CallsOf(r, "gather") \cup {Len(calls[r]) + 1}
      BY <1>1, <2>1, CountsCall DEF Kind
    <3>3. QED
      BY <2>2, <3>1, <3>2 DEF AssemblesGathered
  <2>3. CASE r # Master
    <3>1. calls'[Master] = calls[Master] /\ pc'[Master] = pc[Master]
      BY <1>1, <2>1, <2>3 DEF Call, CallInv, CallsTyped
    <3>2. QED
      BY <3>1 DEF AssemblesGathered, CallsOf
  <2>4. QED
    BY <2>2, <2>3
<1>4. ASSUME calls' = calls, pc'[Master] = "assemble" => pc[Master] = "assemble"
      PROVE  GathersAreWhole' /\ AssemblesGathered'
  <2>1. GathersAreWhole'
    <3>1. \A s, kind : CallsOf(s, kind)' = CallsOf(s, kind)
      BY <1>4 DEF CallsOf
    <3>2. \A s, k : BarriersTo(s, k)' = BarriersTo(s, k)
      BY <3>1 DEF BarriersTo
    <3>3. \A s : MyTiles(s)' = MyTiles(s)
      BY DEF MyTiles
    <3>4. \A s, k : WholeGather(s, k) => WholeGather(s, k)'
      BY <1>4, <3>2, <3>3 DEF WholeGather
    <3>5. QED
      BY <3>1, <3>4 DEF GathersAreWhole
  <2>2. AssemblesGathered'
    BY <1>4 DEF AssemblesGathered, CallsOf
  <2>3. QED
    BY <2>1, <2>2
<1>5. ASSUME NEW r \in Rank, EnterBarrier(r) \/ StartNewFrame(r) \/ BeginFrame(r)
             \/ EnterIbarrier(r) \/ BcastCancelled(r)
      PROVE  \E kind \in Kind \ {"gather"}, l \in PC \ {"assemble"} : \E data :
               Call(r, kind, data) /\ Goto(r, l)
  <2>1. CASE EnterBarrier(r)
    BY <2>1 DEF EnterBarrier, Kind, PC
  <2>2. CASE StartNewFrame(r)
    BY <2>2 DEF StartNewFrame, Kind, PC
  <2>3. CASE BeginFrame(r)
    BY <2>3 DEF BeginFrame, Kind, PC
  <2>4. CASE EnterIbarrier(r)
    BY <2>4 DEF EnterIbarrier, Kind, PC
  <2>5. CASE BcastCancelled(r)
    BY <2>5 DEF BcastCancelled, Kind, PC
  <2>6. QED
    BY <1>5, <2>1, <2>2, <2>3, <2>4, <2>5
<1>6. ASSUME NEW r \in Rank, LeaveBarrier(r) \/ CheckComplete(r) \/ CloseAtStart(r) \/ RenderingDone(r)
             \/ LeaveIbarrier(r) \/ StopMessaging(r) \/ EndFrame(r) \/ Assemble \/ Clear(r)
             \/ CloseByTask(r)
      PROVE  calls' = calls /\ (pc'[Master] = "assemble" => pc[Master] = "assemble")
  BY <1>1, <1>6 DEF LeaveBarrier, CheckComplete, CloseAtStart, RenderingDone, LeaveIbarrier,
     StopMessaging, EndFrame, Assemble, Clear, CloseByTask, Goto, main
<1>7. ASSUME NEW r, NEW t, NEW m,
             RenderTile(r, t) \/ Receive(m) \/ Incoming(m) \/ ProcessMessage(m)
               \/ StoreTile(t) \/ CountTile(t) \/ UNCHANGED vars
      PROVE  UNCHANGED <<calls, pc>>
  BY <1>7 DEF RenderTile, Receive, Incoming, ProcessMessage, StoreTile, CountTile, vars, main
<1>8. ASSUME NEW r \in Rank, MainThread(r) \/ Clear(r) \/ CloseByTask(r)
      PROVE  GathersAreWhole' /\ AssemblesGathered'
  <2>1. CASE Gather(r)
    BY <1>3, <2>1, GatherWhole
  <2>2. CASE EnterBarrier(r) \/ StartNewFrame(r) \/ BeginFrame(r) \/ EnterIbarrier(r)
             \/ BcastCancelled(r)
    BY <1>2, <1>5, <2>2
  <2>3. CASE LeaveBarrier(r) \/ CheckComplete(r) \/ CloseAtStart(r) \/ RenderingDone(r)
             \/ LeaveIbarrier(r) \/ StopMessaging(r) \/ EndFrame(r) \/ Assemble \/ Clear(r)
             \/ CloseByTask(r)
    BY <1>4, <1>6, <2>3
  <2>4. QED
    BY <1>8, <2>1, <2>2, <2>3 DEF MainThread
<1>9. CASE UNCHANGED <<calls, pc>>
  BY <1>4, <1>9
<1>10. QED
  BY <1>7, <1>8, <1>9 DEF Next

-----------------------------------------------------------------------------
\* What the application sees of the frames of the master.
Shown == INSTANCE FrameService WITH
  inPlace <- FALSE, finished <- Finished, cancelled <- Cancelled,
  conv <- converged[Master], shown <- image

\* The calls that end a frame of the master.
Ends == {k \in 1..Len(calls[Master]) :
           \/ calls[Master][k].kind = "gather"
                /\ ~(pc[Master] = "assemble" /\ k = Len(calls[Master]))
           \/ calls[Master][k].kind = "bcastCancelled" /\ calls[Master][k].data}

LEMMA CancelledByEnds ==
  Cancelled <=> \E k \in Ends : calls[Master][k].kind = "bcastCancelled" /\ \A l \in Ends : l <= k
BY DEF Cancelled, Ends

\* Every rank gives to the gather that the master assembles the tiles that
\* had not converged in the master's frame.
LEMMA GatheredWhole ==
  ASSUME ShownInv, pc[Master] = "assemble", AllCalled(Master), NEW r \in Rank
  PROVE  Gathered(r) = {<<t, frame[Master]>> : t \in MyTiles(r) \ converged[Master]}
<1>1. PICK k : k = Len(calls[Master])
  OBVIOUS
<1>2. /\ k \in CallsOf(Master, "gather") /\ k \in 1 .. Len(calls[Master])
      /\ Master \in Rank /\ CallInv
  BY <1>1, OwnerIsRank DEF ShownInv, AssemblesGathered, CallsOf, WholeInv, IInv
<1>3. Len(calls[r]) \in Nat /\ k <= Len(calls[r]) /\ Len(calls[Master]) \in Nat
  BY <1>1, <1>2 DEF AllCalled, CallInv, CallsTyped
<1>4. \A i \in 1 .. k : i \in 1 .. Len(calls[r]) /\ calls[r][i].kind = calls[Master][i].kind
  BY <1>1, <1>2, <1>3 DEF CallInv, CallsMatch
<1>5. k \in CallsOf(r, "gather")
  BY <1>2, <1>4 DEF CallsOf
<1>6. BarriersTo(r, k) = CallsOf(Master, "barrier")
  BY <1>1, <1>3, <1>4 DEF BarriersTo, CallsOf
<1>7. Cardinality(CallsOf(Master, "barrier")) = frame[Master]
  <2>1. Entered(Master) = frame[Master] + 0 /\ frame[Master] \in Nat
    BY <1>2, FrameAssumption DEF Entered, ToStart, ShownInv, WholeInv, IInv, TypeOK
  <2>2. QED
    BY <1>2, <2>1 DEF ShownInv, WholeInv, FrameSteps, FramesCounted
<1>8. PICK j \in BarriersTo(r, k) :
        /\ j < k /\ \A i \in BarriersTo(r, k) : i <= j
        /\ calls[r][k].data = {<<t, Cardinality(BarriersTo(r, k))>> : t \in MyTiles(r) \ calls[r][j+1].data}
  BY <1>5 DEF ShownInv, GathersAreWhole, WholeGather
<1>9. PICK i \in CallsOf(Master, "barrier") :
        /\ \A l \in CallsOf(Master, "barrier") : l <= i
        /\ i < Len(calls[Master]) /\ calls[Master][i+1].kind = "bcastErrors"
        /\ converged[Master] = calls[Master][i+1].data
  BY <1>2 DEF ShownInv, WholeInv, FrameSteps, ErrorsKnown, InAFrame
<1>10. i = j /\ j \in Nat
  <2>1. i <= j /\ j <= i
    BY <1>6, <1>8, <1>9
  <2>2. i \in Nat /\ j \in Nat
    BY <1>2, <1>3, <1>6, <1>8, <1>9 DEF CallsOf
  <2>3. QED
    BY <2>1, <2>2
<1>11. j + 1 \in 1 .. Len(calls[r]) /\ calls[r][j+1].kind = "bcastErrors"
  <2>1. j + 1 \in 1 .. k
    BY <1>1, <1>2, <1>9, <1>10
  <2>2. QED
    BY <1>4, <1>9, <1>10, <2>1
<1>12. calls[r][j+1].data = calls[Master][j+1].data
  BY <1>2, <1>11 DEF CallInv, BcastAgrees, Bcast
<1>13. QED
  BY <1>1, <1>6, <1>7, <1>8, <1>9, <1>10, <1>12 DEF Gathered

\* The gather shows the frame.
LEMMA AssembleShows == ShownInv /\ Assemble => Shown!ShowFrame
<1> SUFFICES ASSUME ShownInv, Assemble
             PROVE  Shown!ShowFrame
  OBVIOUS
<1> DEFINE F == frame[Master]
<1>1. /\ pc[Master] = "assemble" /\ AllCalled(Master) /\ pc' = [pc EXCEPT ![Master] = "end"]
      /\ calls' = calls /\ frame' = frame
      /\ image' = [t \in Tile |->
                     IF \E f \in 1..MaxFrame : <<t, f>> \in Gathered(OwnerOf(t))
                       THEN CHOOSE f \in 1..MaxFrame : <<t, f>> \in Gathered(OwnerOf(t))
                       ELSE image[t]]
      /\ \E conv \in SUBSET Tile : converged' = [converged EXCEPT ![Master] = conv]
  BY DEF Assemble, Goto
<1>2. /\ Master \in Rank /\ pc \in [Rank -> PC] /\ converged \in [Rank -> SUBSET Tile]
      /\ image \in [Tile -> 0 .. MaxFrame] /\ calls \in [Rank -> Seq(CallRecord)]
      /\ F \in 1 .. MaxFrame
  <2>1. Master \in Rank /\ IInv
    BY OwnerIsRank DEF ShownInv, WholeInv
  <2>2. Started(Master)
    BY <1>1, <2>1 DEF IInv, FrameInv
  <2>3. pc \in [Rank -> PC] /\ converged \in [Rank -> SUBSET Tile] /\ image \in [Tile -> 0 .. MaxFrame]
        /\ frame[Master] \in 0 .. MaxFrame
    BY <2>1 DEF IInv, TypeOK
  <2>4. calls \in [Rank -> Seq(CallRecord)]
    BY <2>1 DEF IInv, CallInv, CallsTyped
  <2>5. QED
    BY <2>1, <2>2, <2>3, <2>4, FrameAssumption DEF Started
<1>3. Finished = F - 1 /\ Finished' = F
  BY <1>1, <1>2 DEF Finished
<1>4. \A t \in Tile : image'[t] = IF t \in converged[Master] THEN image[t] ELSE F
  <2> SUFFICES ASSUME NEW t \in Tile
               PROVE  image'[t] = IF t \in converged[Master] THEN image[t] ELSE F
    OBVIOUS
  <2>1. OwnerOf(t) \in Rank /\ t \in MyTiles(OwnerOf(t))
    BY OwnerIsRank DEF MyTiles
  <2>2. Gathered(OwnerOf(t)) = {<<u, F>> : u \in MyTiles(OwnerOf(t)) \ converged[Master]}
    BY <1>1, <2>1, GatheredWhole
  <2>3. CASE t \in converged[Master]
    <3>1. \A f : <<t, f>> \notin Gathered(OwnerOf(t))
      <4>1. \A u \in MyTiles(OwnerOf(t)) \ converged[Master] : \A f : <<t, f>> # <<u, F>>
        BY <2>3
      <4>2. QED
        BY <2>2, <4>1
    <3>2. QED
      BY <1>1, <2>3, <3>1
  <2>4. CASE t \notin converged[Master]
    <3>1. \A f : <<t, f>> \in Gathered(OwnerOf(t)) <=> f = F
      BY <2>1, <2>2, <2>4
    <3>2. (CHOOSE f \in 1..MaxFrame : <<t, f>> \in Gathered(OwnerOf(t))) = F
      BY <1>2, <3>1
    <3>3. QED
      BY <1>1, <1>2, <2>4, <3>1, <3>2
  <2>5. QED
    BY <2>3, <2>4
<1>5. Cancelled' = FALSE
  <2> DEFINE n == Len(calls[Master])
  <2>1. /\ n \in Nat /\ calls[Master][n].kind = "gather" /\ n \in 1 .. n
    BY <1>1, <1>2 DEF ShownInv, AssemblesGathered, CallsOf
  <2>2. pc'[Master] # "assemble" /\ calls'[Master] = calls[Master]
    BY <1>1, <1>2
  <2>3. n \in Ends' /\ \A k \in Ends' : k \in 1 .. n
    BY <2>1, <2>2 DEF Ends
  <2>4. ~ Cancelled'
    <3>1. SUFFICES ASSUME NEW k \in Ends', calls'[Master][k].kind = "bcastCancelled",
                          \A l \in Ends' : l <= k
                   PROVE  FALSE
      BY DEF Cancelled, Ends
    <3>2. k = n
      BY <2>1, <2>3, <3>1
    <3>3. QED
      BY <2>1, <2>2, <3>1, <3>2
  <2>5. QED
    BY <2>4 DEF Cancelled
<1>6. image' = [t \in DOMAIN image |-> IF t \in converged[Master] THEN image[t] ELSE Finished']
  BY <1>1, <1>2, <1>3, <1>4
<1>7. converged'[Master] \in SUBSET DOMAIN image
  BY <1>1, <1>2
<1>8. Finished' = Finished + 1
  BY <1>2, <1>3
<1>9. QED
  BY <1>5, <1>6, <1>7, <1>8 DEF Shown!ShowFrame

\* A step of another rank is not seen, nor one that leaves the master's calls.
LEMMA UnseenStep ==
  ASSUME image' = image, frame'[Master] = frame[Master], converged'[Master] = converged[Master],
         calls'[Master] = calls[Master], pc'[Master] = pc[Master]
  PROVE  UNCHANGED Shown!vars
<1>1. Finished' = Finished
  BY DEF Finished
<1>2. Cancelled' = Cancelled
  BY DEF Cancelled
<1>3. QED
  BY <1>1, <1>2 DEF Shown!vars

\* A call of the master that does not end its frame, or that it has still to
\* assemble, leaves how the last one ended.
LEMMA CancelledKept ==
  ASSUME CallInv, NEW kind \in Kind, NEW data, Call(Master, kind, data),
         pc[Master] # "assemble", pc'[Master] = "assemble" <=> kind = "gather",
         kind = "bcastCancelled" => data = FALSE
  PROVE  Cancelled' = Cancelled
<1>0. PICK n \in Nat : n = Len(calls[Master])
  BY OwnerIsRank DEF CallInv, CallsTyped
<1>1. /\ Len(calls'[Master]) = n + 1
      /\ \A i \in 1 .. n : calls'[Master][i] = calls[Master][i]
      /\ calls'[Master][n + 1] = [kind |-> kind, data |-> data]
  BY <1>0, OwnerIsRank DEF Call, CallInv, CallsTyped
<1>2. n + 1 \notin Ends'
  BY <1>1 DEF Ends
<1>3. \A k \in 1 .. n : k \in Ends' <=> k \in Ends
  BY <1>0, <1>1 DEF Ends
<1>4. Ends' = Ends
  <2>1. Ends \subseteq 1 .. n /\ Ends' \subseteq 1 .. n + 1
    BY <1>0, <1>1 DEF Ends
  <2>2. \A k \in 1 .. n + 1 : k \in 1 .. n \/ k = n + 1
    BY <1>0
  <2>3. \A k : k \in Ends' => k \in Ends
    BY <1>2, <1>3, <2>1, <2>2
  <2>4. \A k : k \in Ends => k \in Ends'
    BY <1>3, <2>1
  <2>5. QED
    BY <2>3, <2>4
<1>5. \A k \in Ends : calls'[Master][k] = calls[Master][k]
  BY <1>0, <1>1 DEF Ends
<1>6. Cancelled' <=> \E k \in Ends' : calls'[Master][k].kind = "bcastCancelled" /\ \A l \in Ends' : l <= k
  BY DEF Cancelled, Ends
<1>7. Cancelled' <=> Cancelled
  BY <1>4, <1>5, <1>6, CancelledByEnds
<1>8. QED
  BY <1>7 DEF Cancelled

\* The master's last broadcast cancels the frame, or leaves it to the gather.
LEMMA CancelShows ==
  ASSUME ShownInv, BcastCancelled(Master)
  PROVE  [Shown!CancelFrame]_(Shown!vars)
<1>1. PICK cancelled \in BOOLEAN :
        /\ Call(Master, "bcastCancelled", cancelled)
        /\ pc' = [pc EXCEPT ![Master] = IF cancelled THEN "end" ELSE "gather"]
  BY DEF BcastCancelled, Goto
<1>2. /\ pc[Master] = "cancel" /\ UNCHANGED <<frame, converged, image>>
  BY DEF BcastCancelled
<1>3. /\ Master \in Rank /\ pc \in [Rank -> PC] /\ frame[Master] \in Nat /\ CallInv
  BY OwnerIsRank, FrameAssumption DEF ShownInv, WholeInv, IInv, TypeOK
<1>4. CASE cancelled = FALSE
  <2>1. pc'[Master] = "gather"
    BY <1>1, <1>3, <1>4
  <2>2. Finished' = Finished
    BY <1>2, <2>1 DEF Finished
  <2>3. Cancelled' = Cancelled
    BY <1>1, <1>2, <1>3, <1>4, <2>1, CancelledKept DEF Kind
  <2>4. QED
    BY <1>2, <2>2, <2>3 DEF Shown!vars
<1>5. CASE cancelled = TRUE
  <2>1. pc'[Master] = "end"
    BY <1>1, <1>3, <1>5
  <2>2. Finished' = Finished + 1
    BY <1>2, <1>3, <2>1 DEF Finished
  <2>3. PICK n \in Nat : n = Len(calls[Master]) + 1
    BY <1>3 DEF CallInv, CallsTyped
  <2>4. Len(calls'[Master]) = n /\ calls'[Master][n] = [kind |-> "bcastCancelled", data |-> TRUE]
    BY <1>1, <1>3, <1>5, <2>3 DEF Call, CallInv, CallsTyped
  <2>5. n \in 1 .. n
    BY <1>3, <2>3 DEF CallInv, CallsTyped
  <2>6. n \in Ends' /\ \A l \in Ends' : l <= n
    BY <2>4, <2>5 DEF Ends
  <2>7. Cancelled'
    BY <2>4, <2>6 DEF Cancelled, Ends
  <2>8. Cancelled' = TRUE
    BY <2>7 DEF Cancelled
  <2>9. QED
    BY <1>2, <2>2, <2>8 DEF Shown!CancelFrame
<1>6. QED
  BY <1>1, <1>4, <1>5

\* The other steps of the master are not seen.
LEMMA MasterUnseen ==
  ASSUME ShownInv, MainThread(Master), ~Assemble, ~BcastCancelled(Master)
  PROVE  UNCHANGED Shown!vars
<1>1. /\ Master \in Rank /\ pc \in [Rank -> PC] /\ frame \in [Rank -> 0 .. MaxFrame] /\ CallInv
      /\ converged \in [Rank -> SUBSET Tile] /\ MaxFrame \in Nat
  BY OwnerIsRank, FrameAssumption DEF ShownInv, WholeInv, IInv, TypeOK
<1>2. image' = image /\ converged'[Master] = converged[Master]
  BY <1>1 DEF MainThread, EnterBarrier, LeaveBarrier, StartNewFrame, CheckComplete, CloseAtStart, BeginFrame,
     RenderingDone, EnterIbarrier, LeaveIbarrier, StopMessaging, Gather, EndFrame, main
<1>3. Finished' = Finished
  <2>1. CASE StartNewFrame(Master)
    <3>1. /\ pc[Master] = "start" /\ pc'[Master] = "check" /\ frame'[Master] = frame[Master] + 1
      BY <1>1, <2>1 DEF StartNewFrame, Goto
    <3>2. QED
      BY <1>1, <3>1 DEF Finished
  <2>2. CASE ~StartNewFrame(Master)
    <3>1. /\ frame' = frame
          /\ pc[Master] \in {"idle", "barrier", "start", "end"} <=>
               pc'[Master] \in {"idle", "barrier", "start", "end"}
      BY <1>1, <2>2 DEF MainThread, EnterBarrier, LeaveBarrier, CheckComplete, CloseAtStart, BeginFrame,
         RenderingDone, EnterIbarrier, LeaveIbarrier, StopMessaging, Gather, EndFrame, main, Goto
    <3>2. QED
      BY <3>1 DEF Finished
  <2>3. QED
    BY <2>1, <2>2
<1>4. Cancelled' = Cancelled
  <2>1. CASE Gather(Master)
    <3>1. /\ Call(Master, "gather", gatherBuffer[Master]) /\ pc[Master] = "gather" /\ pc'[Master] = "assemble"
      BY <1>1, <2>1 DEF Gather, Goto
    <3>2. QED
      BY <1>1, <3>1, CancelledKept DEF Kind
  <2>2. CASE EnterBarrier(Master) \/ StartNewFrame(Master) \/ BeginFrame(Master) \/ EnterIbarrier(Master)
    <3>1. \E kind \in {"barrier", "bcastErrors", "bcastReport", "ibarrier"} : \E data :
            /\ Call(Master, kind, data) /\ pc[Master] # "assemble" /\ pc'[Master] # "assemble"
      <4>1. CASE EnterBarrier(Master)
        BY <1>1, <4>1 DEF EnterBarrier, Goto
      <4>2. CASE StartNewFrame(Master)
        BY <1>1, <4>2 DEF StartNewFrame, Goto
      <4>3. CASE BeginFrame(Master)
        BY <1>1, <4>3 DEF BeginFrame, Goto
      <4>4. CASE EnterIbarrier(Master)
        BY <1>1, <4>4 DEF EnterIbarrier, Goto
      <4>5. QED
        BY <2>2, <4>1, <4>2, <4>3, <4>4
    <3>2. QED
      BY <1>1, <3>1, CancelledKept DEF Kind
  <2>3. CASE LeaveBarrier(Master) \/ CheckComplete(Master) \/ CloseAtStart(Master) \/ RenderingDone(Master)
             \/ LeaveIbarrier(Master) \/ StopMessaging(Master) \/ EndFrame(Master)
    <3>1. calls' = calls
      BY <2>3 DEF LeaveBarrier, CheckComplete, CloseAtStart, RenderingDone, LeaveIbarrier, StopMessaging,
         EndFrame, main
    <3>2. pc[Master] # "assemble" /\ pc'[Master] # "assemble"
      BY <1>1, <2>3 DEF LeaveBarrier, CheckComplete, CloseAtStart, RenderingDone, LeaveIbarrier, StopMessaging,
         EndFrame, Goto
    <3>3. QED
      BY <3>1, <3>2 DEF Cancelled
  <2>4. QED
    BY <2>1, <2>2, <2>3 DEF MainThread
<1>5. QED
  BY <1>2, <1>3, <1>4 DEF Shown!vars

LEMMA InitShown == Init => ShownInv /\ Shown!Init
<1> SUFFICES ASSUME Init
             PROVE  ShownInv /\ Shown!Init
  OBVIOUS
<1>1. \A r \in Rank : calls[r] = <<>> /\ pc[r] = "idle" /\ frame[r] = 0 /\ gatherBuffer[r] = {}
                      /\ converged[r] = {}
  BY DEF Init
<1>2. GatherBuffers
  BY <1>1 DEF Init, GatherBuffers, MyTiles
<1>3. \A r \in Rank : CallsOf(r, "gather") = {}
  BY <1>1 DEF CallsOf
<1>4. GathersAreWhole /\ AssemblesGathered
  BY <1>1, <1>3, OwnerIsRank DEF GathersAreWhole, AssemblesGathered
<1>5. Finished = 0 /\ converged[Master] = {}
  BY <1>1, OwnerIsRank DEF Finished
<1>6. Cancelled = FALSE
  BY <1>1, OwnerIsRank DEF Cancelled
<1>7. image = [t \in DOMAIN image |-> 0]
  BY DEF Init
<1>8. QED
  BY <1>2, <1>4, <1>5, <1>6, <1>7, InitWhole DEF ShownInv, Shown!Init

LEMMA NextShownInv ==
  ASSUME ShownInv, OwnersRender, [Next]_vars
  PROVE  ShownInv'
BY NextWhole, NextBuffers, NextGathered DEF ShownInv

\* Every step is one the application may see, or is not seen.
LEMMA NextShown ==
  ASSUME ShownInv, [Next]_vars
  PROVE  [Shown!Next]_(Shown!vars)
<1>1. Master \in Rank /\ pc \in [Rank -> PC] /\ frame \in [Rank -> 0 .. MaxFrame]
      /\ calls \in [Rank -> Seq(CallRecord)] /\ converged \in [Rank -> SUBSET Tile]
  BY OwnerIsRank DEF ShownInv, WholeInv, IInv, TypeOK, CallInv, CallsTyped
<1>2. CASE MainThread(Master)
  <2>1. CASE Assemble
    BY <2>1, AssembleShows DEF Shown!Next
  <2>2. CASE BcastCancelled(Master)
    BY <2>2, CancelShows DEF Shown!Next
  <2>3. CASE ~Assemble /\ ~BcastCancelled(Master)
    BY <1>2, <2>3, MasterUnseen
  <2>4. QED
    BY <2>1, <2>2, <2>3
<1>3. CASE Clear(Master)
  <2>1. /\ converged'[Master] = {} /\ UNCHANGED <<pc, frame, calls, image>>
    BY <1>1, <1>3 DEF Clear, main
  <2>2. Finished' = Finished /\ Cancelled' = Cancelled
    BY <2>1 DEF Finished, Cancelled
  <2>3. QED
    BY <2>1, <2>2 DEF Shown!Next, Shown!ClearFrame
<1>4. ASSUME NEW r \in Rank, r # Master, MainThread(r) \/ Clear(r)
      PROVE  UNCHANGED Shown!vars
  <2>1. /\ image' = image /\ frame'[Master] = frame[Master] /\ converged'[Master] = converged[Master]
        /\ calls'[Master] = calls[Master] /\ pc'[Master] = pc[Master]
    BY <1>1, <1>4 DEF MainThread, EnterBarrier, LeaveBarrier, StartNewFrame, CheckComplete, CloseAtStart,
       BeginFrame, RenderingDone, EnterIbarrier, LeaveIbarrier, StopMessaging, BcastCancelled, Gather, EndFrame,
       Clear, main, Goto, Call
  <2>2. QED
    BY <2>1, UnseenStep
<1>5. ASSUME NEW r, NEW t, NEW m,
             RenderTile(r, t) \/ Receive(m) \/ Incoming(m) \/ ProcessMessage(m)
               \/ StoreTile(t) \/ CountTile(t) \/ CloseByTask(r) \/ UNCHANGED vars
      PROVE  UNCHANGED Shown!vars
  <2>1. UNCHANGED <<pc, frame, calls, image, converged>>
    BY <1>5 DEF RenderTile, Receive, Incoming, ProcessMessage, StoreTile, CountTile, CloseByTask, vars, main
  <2>2. QED
    BY <2>1, UnseenStep
<1>6. QED
  BY <1>2, <1>3, <1>4, <1>5 DEF Next

LEMMA ShownInvariance == ASSUME OwnersRender PROVE Spec => []ShownInv
<1>1. Init => ShownInv
  BY InitShown
<1>2. ShownInv /\ [Next]_vars => ShownInv'
  BY NextShownInv
<1>3. QED
  BY <1>1, <1>2, PTL DEF Spec

\* The ranks together are a frame buffer: a frame is shown whole, with all its
\* tiles that had not converged and no others, or cancelled and not shown
\* (DistributedFrameBuffer.cpp, gatherFinalTiles).
THEOREM ShowsWholeFrames == ASSUME OwnersRender PROVE Spec => Shown!Spec
<1>1. Init => Shown!Init
  BY InitShown
<1>2. ShownInv /\ [Next]_vars => [Shown!Next]_(Shown!vars)
  BY NextShown
<1>3. QED
  BY <1>1, <1>2, ShownInvariance, PTL DEF Spec, Shown!Spec
=============================================================================
