------------------------ MODULE GenerationBroker_proofs ------------------------
(***************************************************************************)
(* The broker's four keys are consistent, its burst bound holds and it     *)
(* implements BrokerContract, for any jobs, workers and limits.            *)
(***************************************************************************)
EXTENDS GenerationBroker, SequenceTheorems, TLAPS

-----------------------------------------------------------------------------
(* The list commands, on a list that holds an id at most once.             *)

\* RPUSH of an id that is not in the list.
LEMMA RPush ==
    ASSUME NEW S, NEW s \in Seq(S), NEW x \in S
    PROVE  /\ Append(s, x) \in Seq(S)
           /\ ToSet(Append(s, x)) = ToSet(s) \cup {x}
           /\ IsInjective(s) /\ x \notin ToSet(s) => IsInjective(Append(s, x))
<1>1. /\ Append(s, x) \in Seq(S)
      /\ Len(Append(s, x)) = Len(s) + 1
      /\ \A i \in 1..Len(s) : Append(s, x)[i] = s[i]
      /\ Append(s, x)[Len(s) + 1] = x
  BY AppendProperties
<1>2. DOMAIN s = 1..Len(s) /\ DOMAIN Append(s, x) = 1..(Len(s) + 1) /\ Len(s) \in Nat
  BY <1>1
<1>3. ToSet(Append(s, x)) = ToSet(s) \cup {x}
  <2>1. ToSet(Append(s, x)) \subseteq ToSet(s) \cup {x}
    BY <1>1, <1>2, SMT DEF ToSet
  <2>2. ToSet(s) \cup {x} \subseteq ToSet(Append(s, x))
    BY <1>1, <1>2, SMT DEF ToSet
  <2> QED
    BY <2>1, <2>2
<1>4. IsInjective(s) /\ x \notin ToSet(s) => IsInjective(Append(s, x))
  BY <1>1, <1>2, SMT DEF ToSet, IsInjective
<1> QED
  BY <1>1, <1>3, <1>4

\* LPOP of a list that is not empty.
LEMMA LPop ==
    ASSUME NEW S, NEW s \in Seq(S), Len(s) > 0
    PROVE  /\ Head(s) \in S
           /\ Head(s) \in ToSet(s)
           /\ Tail(s) \in Seq(S)
           /\ IsInjective(s) => /\ ToSet(Tail(s)) = ToSet(s) \ {Head(s)}
                                /\ IsInjective(Tail(s))
<1>1. s # << >>
  BY SMT
<1>2. /\ Head(s) \in S
      /\ Tail(s) \in Seq(S)
      /\ Len(Tail(s)) = Len(s) - 1
      /\ \A i \in 1..Len(Tail(s)) : Tail(s)[i] = s[i + 1]
  BY <1>1, HeadTailProperties
<1>3. Head(s) = s[1]
  BY <1>1, SMT
<1>4. DOMAIN s = 1..Len(s) /\ DOMAIN Tail(s) = 1..(Len(s) - 1) /\ Len(s) \in Nat
  BY <1>2
<1>5. Head(s) \in ToSet(s)
  BY <1>3, <1>4, SMT DEF ToSet
<1>6. ASSUME IsInjective(s)
      PROVE  ToSet(Tail(s)) = ToSet(s) \ {Head(s)}
  <2>1. ToSet(Tail(s)) \subseteq ToSet(s) \ {Head(s)}
    BY <1>2, <1>3, <1>4, <1>6, SMT DEF ToSet, IsInjective
  <2>2. ASSUME NEW y \in ToSet(s) \ {Head(s)}
        PROVE  y \in ToSet(Tail(s))
    <3>1. PICK i \in 1..Len(s) : y = s[i]
      BY <1>4 DEF ToSet
    <3>2. i # 1 /\ i - 1 \in 1..(Len(s) - 1) /\ (i - 1) + 1 = i
      BY <2>2, <3>1, <1>3, <1>4, SMT
    <3>3. Tail(s)[i - 1] = y
      BY <1>2, <3>1, <3>2
    <3> QED
      BY <3>2, <3>3, <1>4 DEF ToSet
  <2> QED
    BY <2>1, <2>2
<1>7. IsInjective(s) => IsInjective(Tail(s))
  BY <1>2, <1>4, SMT DEF IsInjective
<1> QED
  BY <1>2, <1>5, <1>6, <1>7

\* LREM of an id.
LEMMA LRem ==
    ASSUME NEW S, NEW s \in Seq(S), NEW x
    PROVE  /\ Without(s, x) \in Seq(S)
           /\ IsInjective(s) => /\ ToSet(Without(s, x)) = ToSet(s) \ {x}
                                /\ IsInjective(Without(s, x))
<1>1. CASE x \notin ToSet(s)
  BY <1>1, Zenon DEF Without
<1>2. CASE x \in ToSet(s)
  <2> DEFINE k == CHOOSE i \in DOMAIN s : s[i] = x
             a == SubSeq(s, 1, k - 1)
             b == SubSeq(s, k + 1, Len(s))
  <2>1. k \in DOMAIN s /\ s[k] = x
    BY <1>2, Zenon DEF ToSet
  <2>2. Without(s, x) = a \o b
    BY <1>2, Zenon DEF Without, RemoveAt
  <2>3. DOMAIN s = 1..Len(s) /\ Len(s) \in Nat /\ k \in 1..Len(s)
    BY <2>1
  <2> HIDE DEF k, a, b
  <2>4. /\ a \in Seq(S)
        /\ Len(a) = k - 1
        /\ \A i \in 1..(k - 1) : a[i] = s[i]
    <3>1. \A i \in 1..(k - 1) : s[i] \in S
      BY <2>3
    <3>2. /\ a \in Seq(S)
          /\ Len(a) = IF 1 <= k - 1 THEN (k - 1) - 1 + 1 ELSE 0
          /\ \A i \in 1..((k - 1) - 1 + 1) : a[i] = s[1 + i - 1]
      BY <3>1, <2>3, SubSeqProperties DEF a
    <3> QED
      BY <3>2, <2>3
  <2>5. /\ b \in Seq(S)
        /\ Len(b) = Len(s) - k
        /\ \A i \in 1..(Len(s) - k) : b[i] = s[k + i]
    <3>1. \A i \in (k + 1)..Len(s) : s[i] \in S
      BY <2>3
    <3>2. /\ b \in Seq(S)
          /\ Len(b) = IF k + 1 <= Len(s) THEN Len(s) - (k + 1) + 1 ELSE 0
          /\ \A i \in 1..(Len(s) - (k + 1) + 1) : b[i] = s[(k + 1) + i - 1]
      BY <3>1, <2>3, SubSeqProperties DEF b
    <3>3. Len(b) = Len(s) - k
      <4> DEFINE n == Len(s)
      <4>1. Len(b) = IF k + 1 <= n THEN n - (k + 1) + 1 ELSE 0
        BY <3>2
      <4>2. n \in Nat /\ k \in 1..n
        BY <2>3
      <4> HIDE DEF n
      <4>3. Len(b) = n - k
        BY <4>1, <4>2
      <4> QED
        BY <4>3 DEF n
    <3>4. ASSUME NEW i \in 1..(Len(s) - k)
          PROVE  b[i] = s[k + i]
      <4>1. i \in 1..(Len(s) - (k + 1) + 1) /\ (k + 1) + i - 1 = k + i
        BY <2>3
      <4> QED
        BY <4>1, <3>2
    <3> QED
      BY <3>2, <3>3, <3>4
  <2> DEFINE t == a \o b
  <2> HIDE DEF t
  <2>6. /\ t \in Seq(S)
        /\ Len(t) = Len(s) - 1
        /\ \A i \in 1..(k - 1) : t[i] = s[i]
        /\ \A i \in k..(Len(s) - 1) : t[i] = s[i + 1]
    <3>0. /\ t \in Seq(S)
          /\ Len(t) = Len(a) + Len(b)
          /\ \A i \in 1..(Len(a) + Len(b)) : t[i] = IF i <= Len(a) THEN a[i] ELSE b[i - Len(a)]
      BY <2>4, <2>5, ConcatProperties DEF t
    <3>1. t \in Seq(S) /\ Len(t) = Len(s) - 1
      BY <3>0, <2>3, <2>4, <2>5
    <3>2. ASSUME NEW i \in 1..(k - 1)
          PROVE  t[i] = s[i]
      <4>1. i \in 1..(Len(a) + Len(b)) /\ i <= Len(a)
        BY <2>3, <2>4, <2>5
      <4>2. t[i] = a[i]
        BY <4>1, <3>0
      <4> QED
        BY <4>2, <2>4
    <3>3. ASSUME NEW i \in k..(Len(s) - 1)
          PROVE  t[i] = s[i + 1]
      <4>1. /\ i \in 1..(Len(a) + Len(b)) /\ ~(i <= Len(a))
            /\ i - Len(a) \in 1..(Len(s) - k)
            /\ k + (i - Len(a)) = i + 1
        BY <2>3, <2>4, <2>5
      <4>2. t[i] = b[i - Len(a)]
        BY <4>1, <3>0
      <4> QED
        BY <4>1, <4>2, <2>5
    <3> QED
      BY <3>1, <3>2, <3>3
  <2>7. DOMAIN t = 1..(Len(s) - 1)
    BY <2>6
  <2>8. ASSUME IsInjective(s)
        PROVE  ToSet(t) = ToSet(s) \ {x}
    <3>1. ToSet(t) \subseteq ToSet(s) \ {x}
      <4>1. ASSUME NEW i \in DOMAIN t
            PROVE  t[i] \in ToSet(s) \ {x}
        <5>1. CASE i < k
          BY <5>1, <4>1, <2>1, <2>3, <2>6, <2>7, <2>8, SMT DEF ToSet, IsInjective
        <5>2. CASE i >= k
          <6>1. i \in k..(Len(s) - 1) /\ i + 1 \in DOMAIN s /\ i + 1 # k
            BY <5>2, <4>1, <2>3, <2>7
          <6>2. t[i] = s[i + 1]
            BY <6>1, <2>6
          <6> QED
            BY <6>1, <6>2, <2>1, <2>3, <2>8 DEF ToSet, IsInjective
        <5> QED
          BY <5>1, <5>2, <4>1, <2>3, <2>7
      <4> QED
        BY <4>1 DEF ToSet
    <3>2. ASSUME NEW y \in ToSet(s) \ {x}
          PROVE  y \in ToSet(t)
      <4>1. PICK i \in 1..Len(s) : y = s[i]
        BY <2>3 DEF ToSet
      <4>2. i # k
        BY <4>1, <2>1, <3>2
      <4>3. CASE i < k
        <5>1. i \in 1..(k - 1) /\ i \in DOMAIN t
          BY <4>3, <2>3, <2>7
        <5> QED
          BY <5>1, <4>1, <2>6 DEF ToSet
      <4>4. CASE i > k
        <5>1. i - 1 \in k..(Len(s) - 1) /\ i - 1 \in DOMAIN t /\ (i - 1) + 1 = i
          BY <4>4, <2>3, <2>7
        <5> QED
          BY <5>1, <4>1, <2>6 DEF ToSet
      <4> QED
        BY <4>2, <4>3, <4>4, <2>3
    <3> QED
      BY <3>1, <3>2
  <2>9. ASSUME IsInjective(s)
        PROVE  IsInjective(t)
    <3>1. SUFFICES ASSUME NEW i \in DOMAIN t, NEW j \in DOMAIN t, t[i] = t[j]
                   PROVE  i = j
      BY Zenon DEF IsInjective
    <3> DEFINE from(n) == IF n < k THEN n ELSE n + 1
    <3>2. \A n \in DOMAIN t : from(n) \in DOMAIN s /\ t[n] = s[from(n)]
      BY <2>3, <2>6, <2>7
    <3>3. from(i) = from(j)
      BY <3>1, <3>2, <2>9, Zenon DEF IsInjective
    <3> QED
      BY <3>3, <3>1, <2>3, <2>7
  <2> QED
    BY <2>2, <2>6, <2>8, <2>9 DEF t
<1> QED
  BY <1>1, <1>2

-----------------------------------------------------------------------------
(* The scripts: each takes a consistent set of keys to a consistent one.   *)

KeysOK ==
    /\ queue \in [Lanes -> Seq(Jobs)]
    /\ queuedIndex \subseteq Jobs
    /\ claimedScore \in [Jobs -> {"none", "fresh", "stale"}]
    /\ claimedPriority \in [Jobs -> Lanes \cup {"none"}]

KeysInv == KeysOK /\ IndexMirrorsLanes /\ ClaimTablesAgree /\ NeverInTwoPlaces

\* SADD and RPUSH of an id that waits nowhere keep index and lanes in step.
LEMMA AddKeepsIndex ==
    ASSUME KeysOK, IndexMirrorsLanes, NEW j \in Jobs, NEW l \in Lanes,
           j \notin queuedIndex, AddToQueue(j, l)
    PROVE  /\ queue' \in [Lanes -> Seq(Jobs)]
           /\ queuedIndex' \subseteq Jobs
           /\ IndexMirrorsLanes'
           /\ \A m \in Lanes : ToSet(queue'[m]) = ToSet(queue[m]) \cup IF m = l THEN {j} ELSE {}
<1> DEFINE s == queue[l]
           t == Append(s, j)
<1>1. s \in Seq(Jobs)
  BY DEF KeysOK
<1>2. j \notin ToSet(s) /\ IsInjective(s)
  BY DEF IndexMirrorsLanes
<1>3. t \in Seq(Jobs) /\ ToSet(t) = ToSet(s) \cup {j} /\ IsInjective(t)
  BY <1>1, <1>2, RPush
<1>4. /\ queuedIndex' = queuedIndex \cup {j}
      /\ queue' = [queue EXCEPT ![l] = t]
  BY DEF AddToQueue
<1>5. /\ queue' \in [Lanes -> Seq(Jobs)]
      /\ queuedIndex' \subseteq Jobs
      /\ queue'[l] = t
      /\ \A m \in Lanes \ {l} : queue'[m] = queue[m]
  BY <1>3, <1>4 DEF KeysOK
<1> HIDE DEF t
<1>6. \A m \in Lanes : ToSet(queue'[m]) = IF m = l THEN ToSet(queue[m]) \cup {j} ELSE ToSet(queue[m])
  BY <1>3, <1>5
<1>7. ASSUME NEW i \in Jobs
      PROVE  i \in queuedIndex' <=> \E m \in Lanes : i \in ToSet(queue'[m])
  <2>1. i \in queuedIndex <=> \E m \in Lanes : i \in ToSet(queue[m])
    BY DEF IndexMirrorsLanes
  <2>2. CASE i = j
    <3>1. ToSet(queue'[l]) = ToSet(queue[l]) \cup {j}
      BY <1>6
    <3> QED
      BY <2>2, <3>1, <1>4, Zenon
  <2>3. CASE i # j
    <3>1. \A m \in Lanes : i \in ToSet(queue'[m]) <=> i \in ToSet(queue[m])
      BY <2>3, <1>6
    <3> QED
      BY <2>1, <2>3, <3>1, <1>4, Zenon
  <2> QED
    BY <2>2, <2>3
<1>8. \A m \in Lanes : IsInjective(queue'[m])
  BY <1>3, <1>5 DEF IndexMirrorsLanes
<1>9. \A m, n \in Lanes : m # n => ToSet(queue'[m]) \cap ToSet(queue'[n]) = {}
  <2>1. SUFFICES ASSUME NEW m \in Lanes, NEW n \in Lanes, m # n,
                        NEW x \in ToSet(queue'[m]), x \in ToSet(queue'[n])
                 PROVE  FALSE
    BY Zenon
  <2>2. \A k \in Lanes : j \notin ToSet(queue[k])
    BY DEF IndexMirrorsLanes
  <2>3. ToSet(queue[m]) \cap ToSet(queue[n]) = {}
    BY <2>1 DEF IndexMirrorsLanes
  <2> QED
    BY <2>1, <2>2, <2>3, <1>6
<1> QED
  BY <1>5, <1>6, <1>7, <1>8, <1>9 DEF IndexMirrorsLanes

\* Both claim entries of an id go together.
LEMMA DropKeepsClaims ==
    ASSUME KeysOK, ClaimTablesAgree, NEW j, DropClaim(j)
    PROVE  /\ claimedScore' \in [Jobs -> {"none", "fresh", "stale"}]
           /\ claimedPriority' \in [Jobs -> Lanes \cup {"none"}]
           /\ ClaimTablesAgree'
           /\ \A i \in Jobs : IsClaimed(i)' => IsClaimed(i) /\ i # j
  BY DEF KeysOK, ClaimTablesAgree, DropClaim, IsClaimed

LEMMA EnqueueKeeps ==
    ASSUME KeysInv, NEW j \in Jobs, NEW l \in Lanes, EnqueueScript(j, l)
    PROVE  KeysInv'
<1>1. /\ queue' \in [Lanes -> Seq(Jobs)]
      /\ queuedIndex' \subseteq Jobs
      /\ IndexMirrorsLanes'
  BY AddKeepsIndex DEF KeysInv, EnqueueScript
<1>2. queuedIndex' = queuedIndex \cup {j} /\ ~IsClaimed(j) /\ UNCHANGED <<claimedScore, claimedPriority>>
  BY DEF EnqueueScript, AddToQueue, IsClaimed
<1>3. KeysOK' /\ ClaimTablesAgree'
  BY <1>1, <1>2 DEF KeysInv, KeysOK, ClaimTablesAgree
<1>4. NeverInTwoPlaces'
  BY <1>2 DEF KeysInv, NeverInTwoPlaces, IsClaimed
<1> QED
  BY <1>1, <1>3, <1>4 DEF KeysInv

LEMMA ClaimKeeps ==
    ASSUME KeysInv, NEW l \in Lanes, ClaimNextScript(l)
    PROVE  /\ KeysInv'
           /\ Head(queue[l]) \in queuedIndex
           /\ Head(queue[l]) \in ToSet(queue[l])
           /\ \A m \in Lanes : ToSet(queue'[m]) \subseteq ToSet(queue[m])
<1> DEFINE s == queue[l]
           t == Tail(s)
           j == Head(s)
<1>1. s \in Seq(Jobs) /\ Len(s) > 0 /\ IsInjective(s)
  BY DEF KeysInv, KeysOK, ClaimNextScript, Waiting, IndexMirrorsLanes
<1>2. j \in Jobs /\ j \in ToSet(s) /\ t \in Seq(Jobs) /\ ToSet(t) = ToSet(s) \ {j} /\ IsInjective(t)
  BY <1>1, LPop
<1>3. /\ queue' = [queue EXCEPT ![l] = t]
      /\ queuedIndex' = queuedIndex \ {j}
      /\ claimedScore' = [claimedScore EXCEPT ![j] = "fresh"]
      /\ claimedPriority' = [claimedPriority EXCEPT ![j] = l]
  BY DEF ClaimNextScript
<1> HIDE DEF t, j
<1>4. KeysOK' /\ queue'[l] = t /\ \A m \in Lanes \ {l} : queue'[m] = queue[m]
  BY <1>2, <1>3 DEF KeysInv, KeysOK
<1>5. \A m \in Lanes : ToSet(queue'[m]) = ToSet(queue[m]) \ {j}
  BY <1>2, <1>4 DEF KeysInv, IndexMirrorsLanes
<1>6. IndexMirrorsLanes'
  <2>1. \A i \in Jobs : i \in queuedIndex' <=> \E m \in Lanes : i \in ToSet(queue'[m])
    BY <1>3, <1>5 DEF KeysInv, IndexMirrorsLanes
  <2>2. \A m \in Lanes : IsInjective(queue'[m])
    BY <1>2, <1>4 DEF KeysInv, IndexMirrorsLanes
  <2>3. \A m, n \in Lanes : m # n => ToSet(queue'[m]) \cap ToSet(queue'[n]) = {}
    BY <1>5 DEF KeysInv, IndexMirrorsLanes
  <2> QED
    BY <2>1, <2>2, <2>3 DEF IndexMirrorsLanes
<1>7. ClaimTablesAgree'
  BY <1>2, <1>3 DEF KeysInv, KeysOK, ClaimTablesAgree, Lanes
<1>8. NeverInTwoPlaces'
  BY <1>3 DEF KeysInv, KeysOK, NeverInTwoPlaces, IsClaimed
<1>9. j \in queuedIndex
  BY <1>2 DEF KeysInv, IndexMirrorsLanes
<1>10. j \in ToSet(queue[l]) /\ \A m \in Lanes : ToSet(queue'[m]) \subseteq ToSet(queue[m])
  BY <1>2, <1>5
<1> QED
  BY <1>4, <1>6, <1>7, <1>8, <1>9, <1>10 DEF KeysInv, j

LEMMA HeartbeatKeeps ==
    ASSUME KeysInv, NEW j \in Jobs, HeartbeatScript(j)
    PROVE  KeysInv'
  BY DEF KeysInv, KeysOK, IndexMirrorsLanes, ClaimTablesAgree, NeverInTwoPlaces,
         HeartbeatScript, IsClaimed

LEMMA CompleteKeeps ==
    ASSUME KeysInv, NEW j, CompletePipeline(j)
    PROVE  KeysInv'
<1>1. UNCHANGED <<queue, queuedIndex>>
  BY DEF CompletePipeline
<1> QED
  BY <1>1, DropKeepsClaims
  DEF KeysInv, KeysOK, IndexMirrorsLanes, NeverInTwoPlaces, CompletePipeline

LEMMA RequeueKeeps ==
    ASSUME KeysInv, NEW j \in Jobs, NEW l \in Lanes, RequeueScript(j, l)
    PROVE  KeysInv'
<1>1. /\ claimedScore' \in [Jobs -> {"none", "fresh", "stale"}]
      /\ claimedPriority' \in [Jobs -> Lanes \cup {"none"}]
      /\ ClaimTablesAgree'
      /\ \A i \in Jobs : IsClaimed(i)' => IsClaimed(i) /\ i # j
  BY DropKeepsClaims DEF KeysInv, RequeueScript
<1>2. CASE claimedScore[j] # "none" /\ j \notin queuedIndex
  <2>1. AddToQueue(j, l)
    BY <1>2 DEF RequeueScript
  <2>2. /\ queue' \in [Lanes -> Seq(Jobs)]
        /\ queuedIndex' \subseteq Jobs
        /\ IndexMirrorsLanes'
    BY <1>2, <2>1, AddKeepsIndex DEF KeysInv
  <2>3. queuedIndex' = queuedIndex \cup {j}
    BY <2>1 DEF AddToQueue
  <2> QED
    BY <1>1, <2>2, <2>3 DEF KeysInv, KeysOK, NeverInTwoPlaces
<1>3. CASE ~(claimedScore[j] # "none" /\ j \notin queuedIndex)
  <2>1. UNCHANGED <<queue, queuedIndex>>
    BY <1>3 DEF RequeueScript
  <2> QED
    BY <1>1, <2>1 DEF KeysInv, KeysOK, IndexMirrorsLanes, NeverInTwoPlaces
<1> QED
  BY <1>2, <1>3

LEMMA DiscardKeeps ==
    ASSUME KeysInv, NEW j, DiscardPipeline(j)
    PROVE  KeysInv' /\ \A m \in Lanes : ToSet(queue'[m]) \subseteq ToSet(queue[m])
<1>1. /\ queuedIndex' = queuedIndex \ {j}
      /\ queue' = [l \in Lanes |-> Without(queue[l], j)]
  BY DEF DiscardPipeline
<1>2. \A m \in Lanes : /\ queue'[m] = Without(queue[m], j)
                       /\ queue'[m] \in Seq(Jobs)
                       /\ ToSet(queue'[m]) = ToSet(queue[m]) \ {j}
                       /\ IsInjective(queue'[m])
  <2>1. SUFFICES ASSUME NEW m \in Lanes
                 PROVE  /\ queue'[m] = Without(queue[m], j)
                        /\ queue'[m] \in Seq(Jobs)
                        /\ ToSet(queue'[m]) = ToSet(queue[m]) \ {j}
                        /\ IsInjective(queue'[m])
    OBVIOUS
  <2>2. queue'[m] = Without(queue[m], j)
    BY <1>1
  <2>3. queue[m] \in Seq(Jobs) /\ IsInjective(queue[m])
    BY DEF KeysInv, KeysOK, IndexMirrorsLanes
  <2> QED
    BY <2>2, <2>3, LRem
<1>3. queue' \in [Lanes -> Seq(Jobs)] /\ queuedIndex' \subseteq Jobs
  BY <1>1, <1>2 DEF KeysInv, KeysOK
<1>4. /\ claimedScore' \in [Jobs -> {"none", "fresh", "stale"}]
      /\ claimedPriority' \in [Jobs -> Lanes \cup {"none"}]
      /\ ClaimTablesAgree'
      /\ \A i \in Jobs : IsClaimed(i)' => IsClaimed(i) /\ i # j
  BY DropKeepsClaims DEF KeysInv, DiscardPipeline
<1>5. IndexMirrorsLanes'
  <2>1. \A i \in Jobs : i \in queuedIndex' <=> \E m \in Lanes : i \in ToSet(queue'[m])
    BY <1>1, <1>2 DEF KeysInv, IndexMirrorsLanes
  <2>2. \A m, n \in Lanes : m # n => ToSet(queue'[m]) \cap ToSet(queue'[n]) = {}
    <3>1. \A m, n \in Lanes : m # n => ToSet(queue[m]) \cap ToSet(queue[n]) = {}
      BY DEF KeysInv, IndexMirrorsLanes
    <3>2. \A m \in Lanes : ToSet(queue'[m]) \subseteq ToSet(queue[m])
      BY <1>2
    <3> QED
      BY <3>1, <3>2, Zenon
  <2>3. \A m \in Lanes : IsInjective(queue'[m])
    BY <1>2
  <2> QED
    BY <2>1, <2>2, <2>3 DEF IndexMirrorsLanes
<1>6. NeverInTwoPlaces'
  BY <1>1, <1>4 DEF KeysInv, KeysOK, NeverInTwoPlaces
<1>7. KeysOK'
  BY <1>3, <1>4 DEF KeysOK
<1>8. \A m \in Lanes : ToSet(queue'[m]) \subseteq ToSet(queue[m])
  BY <1>2
<1> QED
  BY <1>4, <1>5, <1>6, <1>7, <1>8 DEF KeysInv

-----------------------------------------------------------------------------
(* The inductive invariant: consistent keys, well-formed loops that know   *)
(* the id they handle, and a streak that accounts for every overtaking.    *)

LoopsOK ==
    /\ active \in [Workers -> SUBSET Jobs]
    /\ phase \in [Workers -> Phases]
    /\ lane \in [Workers -> Lanes]
    /\ target \in [Workers -> Jobs \cup {NoJob}]
    /\ stale \in [Workers -> SUBSET Jobs]
    /\ \A w \in Workers : phase[w] \in {"accept", "requeue"} => target[w] \in Jobs

StreaksOK ==
    /\ streak \in [Workers -> 0..BurstLimit]
    /\ passing \in [Workers -> BOOLEAN]
    /\ overtaken \in [Workers -> Nat]
    /\ \A w \in Workers :
          /\ overtaken[w] <= streak[w]
          /\ passing[w] => phase[w] = "dequeue" /\ lane[w] = "priority" /\ streak[w] < BurstLimit

BrokerInv == KeysInv /\ LoopsOK /\ StreaksOK

\* Between calls a loop holds nothing.
LEMMA RestKeeps ==
    ASSUME LoopsOK, NEW w \in Workers, Rest(w), active' \in [Workers -> SUBSET Jobs]
    PROVE  LoopsOK'
  BY DEF LoopsOK, Rest, Phases, Lanes

\* Only a dequeue under way can be about to pass a standard job.
LEMMA OtherCallsPassNothing ==
    ASSUME StreaksOK, NEW w \in Workers, phase[w] # "dequeue", UNCHANGED dispatch,
           \A v \in Workers \ {w} : phase'[v] = phase[v] /\ lane'[v] = lane[v]
    PROVE  StreaksOK'
  BY DEF StreaksOK, dispatch

\* A call that raises hands nothing out: the streak stays, and so does the count.
LEMMA RaisingPassesNothing ==
    ASSUME StreaksOK, LoopsOK, NEW w \in Workers, Rest(w), UNCHANGED <<streak, overtaken>>,
           passing' = [passing EXCEPT ![w] = FALSE]
    PROVE  StreaksOK'
  BY DEF StreaksOK, LoopsOK, Rest

\* A call that returns counts a pick past a waiting standard job in both.
LEMMA ReturnIsCounted ==
    ASSUME StreaksOK, NEW w \in Workers, NEW l, passing[w] => l = "priority", Returns(w, l),
           \A v \in Workers \ {w} : phase'[v] = phase[v] /\ lane'[v] = lane[v]
    PROVE  StreaksOK'
<1>1. /\ BurstLimit \in Nat
      /\ streak[w] \in 0..BurstLimit
      /\ overtaken[w] \in Nat
      /\ overtaken[w] <= streak[w]
      /\ passing[w] => streak[w] < BurstLimit
  BY BrokerAssumption DEF BrokerAssumption, StreaksOK
<1>2. NextStreak(w, l) \in 0..BurstLimit /\ (passing[w] => NextStreak(w, l) = streak[w] + 1)
  BY <1>1, BrokerAssumption DEF NextStreak, BrokerAssumption
<1> DEFINE n == IF ~passing[w] THEN 0 ELSE IF overtaken[w] > BurstLimit THEN overtaken[w] ELSE overtaken[w] + 1
<1>3. n \in Nat /\ n <= NextStreak(w, l)
  BY <1>1, <1>2
<1>4. /\ streak' = [streak EXCEPT ![w] = NextStreak(w, l)]
      /\ overtaken' = [overtaken EXCEPT ![w] = n]
      /\ passing' = [passing EXCEPT ![w] = FALSE]
  BY DEF Returns
<1> HIDE DEF n
<1> QED
  BY <1>2, <1>3, <1>4 DEF StreaksOK

\* The lane choice passes a standard job only below the limit.
LEMMA ChoiceBelowLimit ==
    ASSUME StreaksOK, LoopsOK, NEW w \in Workers, ReadSizes(w)
    PROVE  StreaksOK'
<1> DEFINE l == ChooseLane(w)
<1>1. phase[w] = "idle" /\ ~passing[w]
  BY DEF ReadSizes, StreaksOK
<1>2. CASE l = "none"
  <2>1. Returns(w, l) /\ UNCHANGED <<phase, lane>>
    BY <1>2 DEF ReadSizes
  <2> QED
    BY <1>1, <2>1, ReturnIsCounted
<1>3. CASE l # "none"
  <2> DEFINE p == l = "priority" /\ Waiting("standard")
  <2>1. /\ streak[w] \in 0..BurstLimit /\ BurstLimit \in Nat
        /\ p => streak[w] < BurstLimit
    BY BrokerAssumption DEF BrokerAssumption, StreaksOK, ChooseLane
  <2>2. /\ phase' = [phase EXCEPT ![w] = "dequeue"]
        /\ lane' = [lane EXCEPT ![w] = l]
        /\ passing' = [passing EXCEPT ![w] = p]
        /\ UNCHANGED <<streak, overtaken>>
    BY <1>3, Zenon DEF ReadSizes
  <2>3. p \in BOOLEAN
    OBVIOUS
  <2>4. p => l = "priority"
    OBVIOUS
  <2> HIDE DEF p, l
  <2> QED
    BY <2>1, <2>2, <2>3, <2>4 DEF StreaksOK, LoopsOK
<1> QED
  BY <1>2, <1>3

LEMMA BrokerInit == Init => BrokerInv
<1> SUFFICES ASSUME Init PROVE BrokerInv
  OBVIOUS
<1>1. KeysOK
  BY DEF Init, KeysOK
<1>2. IndexMirrorsLanes
  BY DEF Init, IndexMirrorsLanes, ToSet, IsInjective, Lanes
<1>3. ClaimTablesAgree /\ NeverInTwoPlaces
  BY DEF Init, ClaimTablesAgree, NeverInTwoPlaces
<1>4. LoopsOK /\ StreaksOK
  BY BrokerAssumption DEF Init, LoopsOK, StreaksOK, Phases, Lanes, BrokerAssumption
<1> QED
  BY <1>1, <1>2, <1>3, <1>4 DEF BrokerInv, KeysInv

LEMMA BrokerStep == BrokerInv /\ [Next]_vars => BrokerInv'
<1> SUFFICES ASSUME BrokerInv, [Next]_vars PROVE BrokerInv'
  OBVIOUS
<1> USE DEF BrokerInv
<1>u. ASSUME UNCHANGED broker PROVE KeysInv'
  BY <1>u DEF broker, KeysInv, KeysOK, IndexMirrorsLanes, ClaimTablesAgree, NeverInTwoPlaces, IsClaimed
<1>l. ASSUME UNCHANGED <<active, progress>> PROVE LoopsOK'
  BY <1>l DEF progress, LoopsOK
<1>s. ASSUME UNCHANGED <<progress, dispatch>> PROVE StreaksOK'
  BY <1>s DEF progress, dispatch, StreaksOK
<1>o. ASSUME NEW w \in Workers, phase[w] # "dequeue", UNCHANGED dispatch,
             \A v \in Workers \ {w} : phase'[v] = phase[v] /\ lane'[v] = lane[v]
      PROVE  StreaksOK'
  BY <1>o, OtherCallsPassNothing
<1>r. ASSUME NEW w \in Workers, Rest(w)
      PROVE  \A v \in Workers \ {w} : phase'[v] = phase[v] /\ lane'[v] = lane[v]
  BY <1>r DEF Rest, LoopsOK
<1>1. ASSUME NEW j \in Jobs, Enqueue(j) PROVE BrokerInv'
  <2>1. LaneOf[j] \in Lanes
    BY BrokerAssumption DEF BrokerAssumption
  <2>2. KeysInv'
    BY <1>1, <2>1, EnqueueKeeps DEF Enqueue
  <2> QED
    BY <1>1, <2>2, <1>l, <1>s DEF Enqueue
<1>2. ASSUME NEW j \in Jobs, Discard(j) PROVE BrokerInv'
  BY <1>2, DiscardKeeps, <1>l, <1>s DEF Discard
<1>3. ASSUME NEW j \in Jobs, ClaimGoesStale(j) PROVE BrokerInv'
  <2>1. KeysInv'
    BY <1>3 DEF ClaimGoesStale, KeysInv, KeysOK, IndexMirrorsLanes, ClaimTablesAgree,
                NeverInTwoPlaces, IsClaimed
  <2> QED
    BY <1>3, <2>1, <1>l, <1>s DEF ClaimGoesStale
<1>4. ASSUME NEW w \in Workers, ReadSizes(w) PROVE BrokerInv'
  <2>1. KeysInv'
    BY <1>4, <1>u DEF ReadSizes
  <2>2. LoopsOK'
    BY <1>4 DEF ReadSizes, LoopsOK, Phases, Lanes, ChooseLane
  <2> QED
    BY <1>4, <2>1, <2>2, ChoiceBelowLimit
<1>5. ASSUME NEW w \in Workers, ClaimNext(w) PROVE BrokerInv'
  <2>1. KeysInv' /\ Head(queue[lane[w]]) \in Jobs
    BY <1>5, ClaimKeeps DEF ClaimNext, LoopsOK, KeysInv, KeysOK
  <2>2. LoopsOK'
    BY <1>5, <2>1 DEF ClaimNext, LoopsOK, Phases, Lanes
  <2>3. StreaksOK'
    BY <1>5, ReturnIsCounted DEF ClaimNext, StreaksOK, LoopsOK
  <2> QED
    BY <2>1, <2>2, <2>3
<1>6. ASSUME NEW w \in Workers, ClaimFindsNothing(w) PROVE BrokerInv'
  <2>1. StreaksOK'
    BY <1>6, <1>r, ReturnIsCounted DEF ClaimFindsNothing, StreaksOK
  <2> QED
    BY <1>6, <2>1, <1>u, RestKeeps DEF ClaimFindsNothing, LoopsOK
<1>18. ASSUME NEW w \in Workers, ClaimLost(w) PROVE BrokerInv'
  <2>1. KeysInv'
    BY <1>18, ClaimKeeps DEF ClaimLost, LoopsOK
  <2>2. LoopsOK'
    BY <1>18, RestKeeps DEF ClaimLost, LoopsOK
  <2> QED
    BY <1>18, <2>1, <2>2, RaisingPassesNothing DEF ClaimLost
<1>7. ASSUME NEW w \in Workers, Accept(w) PROVE BrokerInv'
  <2>1. active' \in [Workers -> SUBSET Jobs]
    BY <1>7 DEF Accept, LoopsOK
  <2> QED
    BY <1>7, <2>1, <1>u, <1>o, <1>r, RestKeeps DEF Accept
<1>8. ASSUME NEW w \in Workers, Refuse(w) PROVE BrokerInv'
  <2>1. KeysInv'
    BY <1>8, CompleteKeeps DEF Refuse
  <2> QED
    BY <1>8, <2>1, <1>o, <1>r, RestKeeps DEF Refuse, LoopsOK
<1>9. ASSUME NEW w \in Workers, ListStale(w) PROVE BrokerInv'
  <2>1. LoopsOK'
    BY <1>9 DEF ListStale, LoopsOK, Phases
  <2>2. StreaksOK'
    BY <1>9, <1>o DEF ListStale, LoopsOK
  <2> QED
    BY <1>9, <2>1, <2>2, <1>u DEF ListStale
<1>10. ASSUME NEW w \in Workers, ReadPriority(w) PROVE BrokerInv'
  <2>1. LoopsOK'
    <3>1. PICK j \in stale[w] :
             /\ target' = [target EXCEPT ![w] = j]
             /\ lane' = [lane EXCEPT ![w] =
                           IF claimedPriority[j] = "none" THEN "standard" ELSE claimedPriority[j]]
      BY <1>10, Zenon DEF ReadPriority
    <3>2. j \in Jobs /\ claimedPriority[j] \in Lanes \cup {"none"}
      BY DEF LoopsOK, KeysInv, KeysOK
    <3> QED
      BY <1>10, <3>1, <3>2 DEF ReadPriority, LoopsOK, Phases, Lanes
  <2>2. StreaksOK'
    <3>1. \A v \in Workers \ {w} : phase'[v] = phase[v] /\ lane'[v] = lane[v]
      BY <1>10 DEF ReadPriority, LoopsOK
    <3> QED
      BY <1>10, <3>1, <1>o DEF ReadPriority
  <2> QED
    BY <1>10, <2>1, <2>2, <1>u DEF ReadPriority
<1>11. ASSUME NEW w \in Workers, Requeue(w) PROVE BrokerInv'
  <2>1. KeysInv'
    BY <1>11, RequeueKeeps DEF Requeue, LoopsOK
  <2>2. LoopsOK'
    BY <1>11 DEF Requeue, LoopsOK, Phases, Lanes
  <2>3. StreaksOK'
    BY <1>11, <1>o DEF Requeue, LoopsOK
  <2> QED
    BY <2>1, <2>2, <2>3
<1>12. ASSUME NEW w \in Workers, NEW j \in Jobs, Heartbeat(w, j) PROVE BrokerInv'
  BY <1>12, HeartbeatKeeps, <1>l, <1>s DEF Heartbeat
<1>13. ASSUME NEW w \in Workers, NEW j \in Jobs, Complete(w, j) PROVE BrokerInv'
  <2>1. KeysInv'
    BY <1>13, CompleteKeeps DEF Complete
  <2>2. LoopsOK'
    BY <1>13 DEF Complete, LoopsOK, progress
  <2> QED
    BY <1>13, <2>1, <2>2, <1>s DEF Complete
<1>14. ASSUME NEW w \in Workers, NEW j \in Jobs, Abandon(w, j) PROVE BrokerInv'
  <2>1. LoopsOK'
    BY <1>14 DEF Abandon, LoopsOK, progress
  <2> QED
    BY <1>14, <2>1, <1>u, <1>s DEF Abandon
<1>15. ASSUME NEW w \in Workers, PassFails(w) PROVE BrokerInv'
  BY <1>15, <1>u, RestKeeps, RaisingPassesNothing DEF PassFails, LoopsOK
<1>16. ASSUME NEW w \in Workers, Crash(w) PROVE BrokerInv'
  <2>1. active' \in [Workers -> SUBSET Jobs]
    BY <1>16 DEF Crash, LoopsOK
  <2>2. StreaksOK'
    <3>1. \A v \in Workers \ {w} : phase'[v] = phase[v] /\ lane'[v] = lane[v]
      BY <1>16, <1>r DEF Crash
    <3> QED
      BY <1>16, <3>1, BrokerAssumption DEF Crash, StreaksOK, BrokerAssumption
  <2> QED
    BY <1>16, <2>1, <2>2, <1>u, RestKeeps DEF Crash
<1>17. CASE UNCHANGED vars
  BY <1>17, <1>u, <1>l, <1>s DEF vars
<1> QED
  BY <1>1, <1>2, <1>3, <1>4, <1>5, <1>6, <1>7, <1>8, <1>9, <1>10, <1>11, <1>12, <1>13,
     <1>14, <1>15, <1>16, <1>17, <1>18 DEF Next, JobStep, LoopStep, TaskStep

THEOREM BrokerInvariant == Spec => []BrokerInv
  BY BrokerInit, BrokerStep, PTL DEF Spec

-----------------------------------------------------------------------------
(* What follows from it.                                                   *)

\* Every variable of the broker and of the worker loops keeps its type.
THEOREM BrokerTypeCorrect == Spec => []TypeOK
<1>1. BrokerInv => TypeOK
  BY DEF BrokerInv, KeysInv, KeysOK, LoopsOK, StreaksOK, TypeOK
<1> QED
  BY <1>1, BrokerInvariant, PTL

\* The index mirrors the lanes and the claim tables agree, for any number of
\* jobs and workers (the scripts of generation_broker.py).
THEOREM BrokerKeysAgree == Spec => []KeysAgree
<1>1. BrokerInv => KeysAgree
  BY DEF BrokerInv, KeysInv, KeysAgree
<1> QED
  BY <1>1, BrokerInvariant, PTL

\* No job id is waiting and claimed at once, for any number of jobs and workers
\* (generation_broker.py:12-15).
THEOREM BrokerConsistent == Spec => []NeverInTwoPlaces
<1>1. BrokerInv => NeverInTwoPlaces
  BY DEF BrokerInv, KeysInv
<1> QED
  BY <1>1, BrokerInvariant, PTL

\* No worker is handed priority jobs past a waiting standard job more than BurstLimit
\* times in a row, whatever calls fail in between: the streak is stored only when the
\* call has returned (generation_service.py:489-494), and still bounds the picks.
THEOREM BurstBound == Spec => []BurstIsBounded
<1>1. BrokerInv => BurstIsBounded
  BY BrokerAssumption DEF BrokerInv, StreaksOK, BurstIsBounded, BrokerAssumption
<1> QED
  BY <1>1, BrokerInvariant, PTL

-----------------------------------------------------------------------------
(* One worker.  Its maintenance loop makes one call at a time, so nothing  *)
(* claims or beats an id while a recovery pass is under way: what the pass *)
(* has listed and read is still so when it acts on it.                     *)

OneWorker == \A v, w \in Workers : v = w

ClaimsKeepLane == \A j \in Jobs : claimedPriority[j] \in {"none", LaneOf[j]}

\* What the pass of w relies on: no listed claim is fresh again, and the lane
\* read for the id in hand is the one its job waits in.
PassHolds(w) ==
    /\ phase[w] \in {"recover", "requeue"} => \A j \in stale[w] : claimedScore[j] # "fresh"
    /\ phase[w] = "requeue" =>
          /\ target[w] \in stale[w]
          /\ claimedScore[target[w]] # "none" => lane[w] = LaneOf[target[w]]

PassesHold == \A w \in Workers : PassHolds(w)

SoloInv == BrokerInv /\ JobsKeepTheirLane /\ ClaimsKeepLane /\ PassesHold

\* The lanes lose ids only, and no claim is made or beaten.
LEMMA ClaimsShrink ==
    ASSUME SoloInv, LoopsOK', UNCHANGED progress,
           \A l \in Lanes : ToSet(queue'[l]) \subseteq ToSet(queue[l]),
           \A j \in Jobs : claimedPriority'[j] \in {"none", claimedPriority[j]},
           \A j \in Jobs : claimedScore[j] # "fresh" => claimedScore'[j] # "fresh",
           \A j \in Jobs : claimedScore[j] = "none" => claimedScore'[j] = "none"
    PROVE  (JobsKeepTheirLane /\ ClaimsKeepLane /\ PassesHold)'
<1>1. JobsKeepTheirLane' /\ ClaimsKeepLane'
  BY DEF SoloInv, JobsKeepTheirLane, ClaimsKeepLane
<1>2. ASSUME NEW w \in Workers PROVE PassHolds(w)'
  <2>1. PassHolds(w) /\ stale[w] \subseteq Jobs
    BY DEF SoloInv, PassesHold, BrokerInv, LoopsOK
  <2>2. UNCHANGED <<phase, lane, target, stale>>
    BY DEF progress
  <2> QED
    BY <2>1, <2>2 DEF PassHolds
<1> QED
  BY <1>1, <1>2 DEF PassesHold

\* The loop of the one worker is not in a recovery pass afterwards.
LEMMA NoPassAfter ==
    ASSUME OneWorker, NEW w \in Workers, phase'[w] \notin {"recover", "requeue"}
    PROVE  PassesHold'
  BY DEF OneWorker, PassesHold, PassHolds

LEMMA SoloInit == Init => SoloInv
<1>1. Init => JobsKeepTheirLane /\ ClaimsKeepLane /\ PassesHold
  BY DEF Init, JobsKeepTheirLane, ClaimsKeepLane, PassesHold, PassHolds, ToSet
<1> QED
  BY <1>1, BrokerInit DEF SoloInv

LEMMA SoloStep == ASSUME OneWorker PROVE SoloInv /\ [Next]_vars => SoloInv'
<1> SUFFICES ASSUME SoloInv, [Next]_vars
             PROVE  (JobsKeepTheirLane /\ ClaimsKeepLane /\ PassesHold)'
  BY BrokerStep DEF SoloInv
<1> DEFINE Goal == (JobsKeepTheirLane /\ ClaimsKeepLane /\ PassesHold)'
<1>0. /\ BrokerInv /\ KeysInv /\ KeysOK /\ LoopsOK /\ BrokerInv' /\ LoopsOK'
      /\ JobsKeepTheirLane /\ ClaimsKeepLane /\ PassesHold
  BY BrokerStep DEF SoloInv, BrokerInv, KeysInv
<1>b. ASSUME UNCHANGED broker PROVE (JobsKeepTheirLane /\ ClaimsKeepLane)'
  BY <1>0, <1>b DEF broker, JobsKeepTheirLane, ClaimsKeepLane
<1>1. ASSUME NEW j \in Jobs, Enqueue(j) PROVE Goal
  <2>1. /\ LaneOf[j] \in Lanes /\ EnqueueScript(j, LaneOf[j]) /\ UNCHANGED progress
        /\ UNCHANGED <<claimedScore, claimedPriority>>
    BY <1>1, BrokerAssumption DEF Enqueue, EnqueueScript, BrokerAssumption
  <2>2. \A m \in Lanes : ToSet(queue'[m]) = ToSet(queue[m]) \cup IF m = LaneOf[j] THEN {j} ELSE {}
    BY <1>0, <2>1, AddKeepsIndex DEF KeysInv, EnqueueScript
  <2>3. JobsKeepTheirLane' /\ ClaimsKeepLane'
    BY <1>0, <2>1, <2>2 DEF JobsKeepTheirLane, ClaimsKeepLane
  <2>4. PassesHold'
    BY <1>0, <2>1 DEF PassesHold, PassHolds, progress
  <2> QED
    BY <2>3, <2>4
<1>2. ASSUME NEW j \in Jobs, Discard(j) PROVE Goal
  <2>1. /\ DiscardPipeline(j) /\ DropClaim(j) /\ UNCHANGED progress
        /\ \A m \in Lanes : ToSet(queue'[m]) \subseteq ToSet(queue[m])
    BY <1>0, <1>2, DiscardKeeps DEF Discard, DiscardPipeline
  <2> QED
    BY <1>0, <2>1, ClaimsShrink DEF DropClaim, KeysOK, SoloInv
<1>3. ASSUME NEW j \in Jobs, ClaimGoesStale(j) PROVE Goal
  BY <1>0, <1>3, ClaimsShrink DEF ClaimGoesStale, KeysOK, SoloInv
<1>4. ASSUME NEW w \in Workers, ReadSizes(w) PROVE Goal
  <2>1. UNCHANGED broker /\ phase'[w] \in {"idle", "dequeue"}
    BY <1>0, <1>4 DEF ReadSizes, LoopsOK
  <2> QED
    BY <2>1, <1>b, NoPassAfter
<1>5. ASSUME NEW w \in Workers, ClaimNext(w) PROVE Goal
  <2> DEFINE l == lane[w]
             j == Head(queue[l])
  <2>1. l \in Lanes /\ ClaimNextScript(l) /\ phase'[w] = "accept"
    BY <1>0, <1>5 DEF ClaimNext, LoopsOK
  <2>2. j \in ToSet(queue[l]) /\ j \in Jobs /\ \A m \in Lanes : ToSet(queue'[m]) \subseteq ToSet(queue[m])
    BY <1>0, <2>1, ClaimKeeps DEF KeysOK
  <2>3. claimedPriority' = [claimedPriority EXCEPT ![j] = l]
    BY <2>1 DEF ClaimNextScript
  <2> HIDE DEF l, j
  <2>4. LaneOf[j] = l
    BY <1>0, <2>1, <2>2 DEF JobsKeepTheirLane
  <2>5. JobsKeepTheirLane' /\ ClaimsKeepLane'
    BY <1>0, <2>2, <2>3, <2>4 DEF JobsKeepTheirLane, ClaimsKeepLane, KeysOK
  <2> QED
    BY <2>1, <2>5, NoPassAfter
<1>16. ASSUME NEW w \in Workers, ClaimLost(w) PROVE Goal
  <2> DEFINE l == lane[w]
             j == Head(queue[l])
  <2>1. l \in Lanes /\ ClaimNextScript(l) /\ phase'[w] = "idle"
    BY <1>0, <1>16 DEF ClaimLost, Rest, LoopsOK
  <2>2. j \in ToSet(queue[l]) /\ j \in Jobs /\ \A m \in Lanes : ToSet(queue'[m]) \subseteq ToSet(queue[m])
    BY <1>0, <2>1, ClaimKeeps DEF KeysOK
  <2>3. claimedPriority' = [claimedPriority EXCEPT ![j] = l]
    BY <2>1 DEF ClaimNextScript
  <2> HIDE DEF l, j
  <2>4. LaneOf[j] = l
    BY <1>0, <2>1, <2>2 DEF JobsKeepTheirLane
  <2>5. JobsKeepTheirLane' /\ ClaimsKeepLane'
    BY <1>0, <2>2, <2>3, <2>4 DEF JobsKeepTheirLane, ClaimsKeepLane, KeysOK
  <2> QED
    BY <2>1, <2>5, NoPassAfter
<1>6. ASSUME NEW w \in Workers, ClaimFindsNothing(w) \/ Accept(w) \/ PassFails(w) \/ Crash(w) PROVE Goal
  <2>1. UNCHANGED broker /\ phase'[w] = "idle"
    BY <1>0, <1>6 DEF ClaimFindsNothing, Accept, PassFails, Crash, Rest, LoopsOK
  <2> QED
    BY <2>1, <1>b, NoPassAfter
<1>7. ASSUME NEW w \in Workers, Refuse(w) PROVE Goal
  <2>1. /\ DropClaim(target[w]) /\ UNCHANGED <<queue, queuedIndex>> /\ phase'[w] = "idle"
    BY <1>0, <1>7 DEF Refuse, CompletePipeline, Rest, LoopsOK
  <2>2. JobsKeepTheirLane' /\ ClaimsKeepLane'
    BY <1>0, <2>1 DEF DropClaim, JobsKeepTheirLane, ClaimsKeepLane, KeysOK
  <2> QED
    BY <2>1, <2>2, NoPassAfter
<1>8. ASSUME NEW w \in Workers, ListStale(w) PROVE Goal
  <2>1. /\ UNCHANGED broker /\ UNCHANGED <<claimedScore>>
        /\ stale'[w] = {j \in Jobs : claimedScore[j] = "stale"}
        /\ phase'[w] # "requeue"
    BY <1>0, <1>8 DEF ListStale, LoopsOK, broker
  <2>2. PassHolds(w)'
    BY <2>1 DEF PassHolds
  <2> QED
    BY <2>1, <2>2, <1>b DEF OneWorker, PassesHold
<1>9. ASSUME NEW w \in Workers, ReadPriority(w) PROVE Goal
  <2>1. PICK j \in stale[w] :
           /\ target' = [target EXCEPT ![w] = j]
           /\ lane' = [lane EXCEPT ![w] =
                         IF claimedPriority[j] = "none" THEN "standard" ELSE claimedPriority[j]]
    BY <1>9, Zenon DEF ReadPriority
  <2>2. /\ UNCHANGED broker /\ UNCHANGED <<claimedScore, claimedPriority, stale>>
        /\ phase[w] = "recover" /\ j \in Jobs
        /\ target'[w] = j
        /\ claimedPriority[j] # "none" => lane'[w] = claimedPriority[j]
    BY <1>0, <1>9, <2>1 DEF ReadPriority, LoopsOK, broker
  <2>3. claimedScore[j] # "none" => claimedPriority[j] # "none" /\ claimedPriority[j] = LaneOf[j]
    BY <1>0, <2>2 DEF KeysInv, ClaimTablesAgree, ClaimsKeepLane
  <2>4. PassHolds(w)'
    BY <1>0, <2>1, <2>2, <2>3 DEF PassHolds, PassesHold
  <2> QED
    BY <2>2, <2>4, <1>b DEF OneWorker, PassesHold
<1>10. ASSUME NEW w \in Workers, Requeue(w) PROVE Goal
  <2> DEFINE j == target[w]
  <2>1. /\ j \in Jobs /\ lane[w] \in Lanes /\ RequeueScript(j, lane[w])
        /\ stale'[w] \subseteq stale[w] /\ stale[w] \subseteq Jobs
        /\ phase[w] = "requeue" /\ phase'[w] # "requeue"
    BY <1>0, <1>10 DEF Requeue, LoopsOK
  <2>2. DropClaim(j) /\ (claimedScore[j] # "none" => lane[w] = LaneOf[j])
    BY <1>0, <2>1 DEF RequeueScript, PassesHold, PassHolds
  <2>3. \A l \in Lanes : ToSet(queue'[l]) \subseteq ToSet(queue[l]) \cup IF l = LaneOf[j] THEN {j} ELSE {}
    <3>1. CASE claimedScore[j] # "none" /\ j \notin queuedIndex
      BY <1>0, <2>1, <2>2, <3>1, AddKeepsIndex DEF RequeueScript, KeysInv
    <3>2. CASE ~(claimedScore[j] # "none" /\ j \notin queuedIndex)
      BY <2>1, <3>2 DEF RequeueScript
    <3> QED
      BY <3>1, <3>2
  <2>4. JobsKeepTheirLane'
    BY <1>0, <2>1, <2>3 DEF JobsKeepTheirLane
  <2>5. ClaimsKeepLane' /\ \A i \in Jobs : claimedScore[i] # "fresh" => claimedScore'[i] # "fresh"
    BY <1>0, <2>1, <2>2 DEF DropClaim, ClaimsKeepLane, KeysOK
  <2>6. PassHolds(w)'
    BY <1>0, <2>1, <2>5 DEF PassHolds, PassesHold
  <2> QED
    BY <2>4, <2>5, <2>6 DEF OneWorker, PassesHold
<1>11. ASSUME NEW w \in Workers, NEW j \in Jobs, Heartbeat(w, j) PROVE Goal
  <2>1. UNCHANGED <<queue, claimedPriority>> /\ phase'[w] = "idle"
    BY <1>0, <1>11 DEF Heartbeat, HeartbeatScript, progress, LoopsOK
  <2>2. JobsKeepTheirLane' /\ ClaimsKeepLane'
    BY <1>0, <2>1 DEF JobsKeepTheirLane, ClaimsKeepLane
  <2> QED
    BY <2>1, <2>2, NoPassAfter
<1>12. ASSUME NEW w \in Workers, NEW j \in Jobs, Complete(w, j) PROVE Goal
  <2>1. DropClaim(j) /\ UNCHANGED <<queue, queuedIndex>> /\ UNCHANGED progress
    BY <1>12 DEF Complete, CompletePipeline
  <2> QED
    BY <1>0, <2>1, ClaimsShrink DEF DropClaim, KeysOK, SoloInv
<1>13. ASSUME UNCHANGED <<broker, progress>> PROVE Goal
  BY <1>0, <1>13, ClaimsShrink DEF broker, SoloInv
<1>14. ASSUME NEW w \in Workers, NEW j \in Jobs, Abandon(w, j) PROVE Goal
  BY <1>13, <1>14 DEF Abandon
<1>15. CASE UNCHANGED vars
  BY <1>13, <1>15 DEF vars
<1> HIDE DEF Goal
<1> QED
  BY <1>1, <1>2, <1>3, <1>4, <1>5, <1>6, <1>7, <1>8, <1>9, <1>10, <1>11, <1>12, <1>14, <1>15, <1>16
  DEF Next, JobStep, LoopStep, TaskStep, Goal

LEMMA SoloInvariant == ASSUME OneWorker PROVE Spec => []SoloInv
  BY SoloInit, SoloStep, PTL DEF Spec

\* With one worker a job waits only in the lane its owner's plan bought, also
\* after requeue_stale_claims, which reads its lane before it puts it back.
THEOREM OneWorkerKeepsLanes == ASSUME OneWorker PROVE Spec => []JobsKeepTheirLane
<1>1. SoloInv => JobsKeepTheirLane
  BY DEF SoloInv
<1> QED
  BY <1>1, SoloInvariant, PTL

-----------------------------------------------------------------------------
(* The keys implement the promised broker.                                 *)

Place == [j \in Jobs |-> PlaceOf(j)]

\* One job moves along an edge of the contract and the others stay.
LEMMA OneJobMoves ==
    ASSUME NEW j \in Jobs,
           \A i \in Jobs \ {j} : PlaceOf(i)' = PlaceOf(i),
           \/ PlaceOf(j)' = PlaceOf(j)
           \/ PlaceOf(j) = "out" /\ PlaceOf(j)' = "queued"
           \/ PlaceOf(j) = "queued" /\ PlaceOf(j)' = "claimed"
           \/ PlaceOf(j) = "claimed" /\ PlaceOf(j)' = "queued"
           \/ PlaceOf(j)' = "out"
    PROVE  [Contract!Next]_Place
<1>1. Place' = [Place EXCEPT ![j] = PlaceOf(j)'] /\ Place[j] = PlaceOf(j)
  BY DEF Place
<1>2. PlaceOf(j) \in {"out", "queued", "claimed"}
  BY DEF PlaceOf
<1>3. CASE PlaceOf(j)' = PlaceOf(j)
  BY <1>1, <1>3 DEF Place
<1>4. CASE PlaceOf(j)' # PlaceOf(j)
  <2>1. \/ Contract!Enqueue(j) \/ Contract!Claim(j) \/ Contract!Recover(j)
        \/ Contract!Finish(j) \/ Contract!Discard(j)
    BY <1>1, <1>2, <1>4
    DEF Place, Contract!Enqueue, Contract!Claim, Contract!Recover, Contract!Finish,
        Contract!Discard, Contract!Move
  <2> QED
    BY <2>1 DEF Contract!Next
<1> QED
  BY <1>3, <1>4

\* Every step of the broker is a step of the contract or leaves it alone.
LEMMA StepImplements == BrokerInv /\ [Next]_vars => [Contract!Next]_Place
<1> SUFFICES ASSUME BrokerInv, [Next]_vars PROVE [Contract!Next]_Place
  OBVIOUS
<1> USE DEF BrokerInv, KeysInv
<1>u. ASSUME UNCHANGED broker PROVE [Contract!Next]_Place
  <2>1. \A i \in Jobs : PlaceOf(i)' = PlaceOf(i)
    BY <1>u DEF broker, PlaceOf
  <2> QED
    BY <2>1 DEF Place
<1>c. ASSUME NEW j \in Jobs, CompletePipeline(j) PROVE [Contract!Next]_Place
  <2>1. /\ \A i \in Jobs \ {j} : PlaceOf(i)' = PlaceOf(i)
        /\ PlaceOf(j)' = PlaceOf(j) \/ PlaceOf(j)' = "out"
    BY <1>c DEF CompletePipeline, DropClaim, PlaceOf, KeysOK
  <2> QED
    BY <2>1, OneJobMoves
<1>1. ASSUME NEW j \in Jobs, Enqueue(j) PROVE [Contract!Next]_Place
  <2>1. /\ \A i \in Jobs \ {j} : PlaceOf(i)' = PlaceOf(i)
        /\ PlaceOf(j) = "out" /\ PlaceOf(j)' = "queued"
    BY <1>1 DEF Enqueue, EnqueueScript, AddToQueue, PlaceOf
  <2> QED
    BY <2>1, OneJobMoves
<1>2. ASSUME NEW j \in Jobs, Discard(j) PROVE [Contract!Next]_Place
  <2>1. /\ \A i \in Jobs \ {j} : PlaceOf(i)' = PlaceOf(i)
        /\ PlaceOf(j)' = "out"
    BY <1>2 DEF Discard, DiscardPipeline, DropClaim, PlaceOf, KeysOK
  <2> QED
    BY <2>1, OneJobMoves
<1>3. ASSUME NEW j \in Jobs, ClaimGoesStale(j) PROVE [Contract!Next]_Place
  <2>1. \A i \in Jobs : PlaceOf(i)' = PlaceOf(i)
    BY <1>3 DEF ClaimGoesStale, PlaceOf, KeysOK
  <2> QED
    BY <2>1, OneJobMoves
<1>4. ASSUME NEW w \in Workers, ClaimNext(w) \/ ClaimLost(w) PROVE [Contract!Next]_Place
  <2>1. lane[w] \in Lanes /\ ClaimNextScript(lane[w])
    BY <1>4 DEF ClaimNext, ClaimLost, LoopsOK
  <2>2. Head(queue[lane[w]]) \in queuedIndex /\ Head(queue[lane[w]]) \in Jobs
    BY <2>1, ClaimKeeps DEF KeysOK
  <2>3. PICK j \in Jobs : j = Head(queue[lane[w]])
    BY <2>2
  <2>4. /\ j \in queuedIndex
        /\ queuedIndex' = queuedIndex \ {j}
        /\ claimedScore' = [claimedScore EXCEPT ![j] = "fresh"]
    BY <2>1, <2>2, <2>3 DEF ClaimNextScript
  <2>5. /\ \A i \in Jobs \ {j} : PlaceOf(i)' = PlaceOf(i)
        /\ PlaceOf(j) = "queued" /\ PlaceOf(j)' = "claimed"
    BY <2>4 DEF PlaceOf, KeysOK
  <2> QED
    BY <2>5, OneJobMoves
<1>5. ASSUME NEW w \in Workers, Refuse(w) PROVE [Contract!Next]_Place
  BY <1>5, <1>c DEF Refuse, LoopsOK
<1>6. ASSUME NEW w \in Workers, Requeue(w) PROVE [Contract!Next]_Place
  <2>1. PICK j \in Jobs : RequeueScript(j, lane[w])
    BY <1>6 DEF Requeue, LoopsOK
  <2>2. /\ \A i \in Jobs \ {j} : PlaceOf(i)' = PlaceOf(i)
        /\ \/ PlaceOf(j)' = PlaceOf(j)
           \/ PlaceOf(j) = "claimed" /\ PlaceOf(j)' = "queued"
    BY <2>1 DEF RequeueScript, DropClaim, AddToQueue, PlaceOf, KeysOK, NeverInTwoPlaces, IsClaimed
  <2> QED
    BY <2>1, <2>2, OneJobMoves
<1>7. ASSUME NEW w \in Workers, NEW j \in Jobs, Heartbeat(w, j) PROVE [Contract!Next]_Place
  <2>1. \A i \in Jobs : PlaceOf(i)' = PlaceOf(i)
    BY <1>7 DEF Heartbeat, HeartbeatScript, PlaceOf, IsClaimed, KeysOK, ClaimTablesAgree
  <2> QED
    BY <2>1 DEF Place
<1>8. ASSUME NEW w \in Workers, NEW j \in Jobs, Complete(w, j) PROVE [Contract!Next]_Place
  BY <1>8, <1>c DEF Complete
<1>9. ASSUME NEW w \in Workers,
             \/ ReadSizes(w) \/ ClaimFindsNothing(w) \/ Accept(w) \/ ListStale(w)
             \/ ReadPriority(w) \/ PassFails(w) \/ Crash(w) \/ \E j \in Jobs : Abandon(w, j)
      PROVE  [Contract!Next]_Place
  <2>1. UNCHANGED broker
    BY <1>9 DEF ReadSizes, ClaimFindsNothing, Accept, ListStale, ReadPriority, PassFails, Crash, Abandon
  <2> QED
    BY <2>1, <1>u
<1>10. CASE UNCHANGED vars
  BY <1>10, <1>u DEF vars
<1> QED
  BY <1>1, <1>2, <1>3, <1>4, <1>5, <1>6, <1>7, <1>8, <1>9, <1>10
  DEF Next, JobStep, LoopStep, TaskStep

\* The Redis broker, its failures and crashes included, implements the broker
\* that the docstring of generation_broker.py promises.
THEOREM BrokerImplementsContract == Spec => KeepsContract
<1>1. Init => Contract!Init
  BY DEF Init, Contract!Init, PlaceOf
<1>2. BrokerInv /\ [Next]_vars => [Contract!Next]_[j \in Jobs |-> PlaceOf(j)]
  BY StepImplements DEF Place
<1> QED
  BY <1>1, <1>2, BrokerInvariant, PTL DEF Spec, KeepsContract, Contract!Spec
=============================================================================
