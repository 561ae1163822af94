---------------------------- MODULE AccessProofs ----------------------------
(***************************************************************************)
(* What the token store and the token bucket keep true, for every number   *)
(* of processes, tokens, crashes and inodes, and every capacity and cost.  *)
(***************************************************************************)
EXTENDS Access, FiniteSetTheorems, TLAPS

-------------------------------------------------------------------------------
(***************************************************************************)
(* The bucket                                                              *)
(***************************************************************************)

\* What the meter shows and what the bucket would hold never exceed a full one.
BucketInv ==
  /\ bucket \in [Workers -> Buckets \cup {NoBucket}]
  /\ meter \in [Workers -> Nat]
  /\ \A w \in Workers : meter[w] + Refilled(Slot(w)) <= Full

LEMMA FullIsNat == Full \in Nat /\ Full >= Cost /\ Cost \in Nat \ {0}
<1>1. Capacity \in Nat /\ Capacity >= 1 /\ Cost \in Nat \ {0}
  BY BucketAssumption
<1>2. Capacity * Cost >= 1 * Cost /\ Capacity * Cost \in Nat
  BY <1>1
<1> QED BY <1>1, <1>2 DEF Full

LEMMA RefilledBounds ==
  ASSUME NEW b \in Buckets
  PROVE  Refilled(b) \in Nat /\ Refilled(b) <= Full /\ b.units <= Refilled(b)
BY FullIsNat DEF Refilled, Smaller, Buckets

LEMMA NewBucketIsFull == NewBucket \in Buckets /\ Refilled(NewBucket) = Full
BY FullIsNat DEF NewBucket, Refilled, Smaller, Buckets

\* A tick refills at most one unit.
LEMMA TickRefillsOne ==
  ASSUME NEW b \in Buckets
  PROVE  TickBucket(b) \in Buckets /\ Refilled(TickBucket(b)) <= Refilled(b) + 1
<1>1. b.units \in Nat /\ b.since \in Nat /\ b.units <= Full /\ b.since <= Full
  BY FullIsNat DEF Buckets
<1>2. TickBucket(b) = [units |-> b.units, since |-> Smaller(Full, b.since + 1)]
  BY DEF TickBucket, Buckets
<1> QED BY <1>1, <1>2, FullIsNat DEF Refilled, Smaller, Buckets

\* acquire() spends Cost units when it grants a slot, and none otherwise.
LEMMA AcquireSpends ==
  ASSUME NEW b \in Buckets
  PROVE  /\ Acquire(b) \in Buckets
         /\ Refilled(Acquire(b)) = IF Grants(b) THEN Refilled(b) - Cost ELSE Refilled(b)
BY FullIsNat, RefilledBounds DEF Acquire, Grants, Refilled, Smaller, Buckets

LEMMA SlotIsBucket ==
  ASSUME BucketInv, NEW w \in Workers
  PROVE  Slot(w) \in Buckets
BY NewBucketIsFull DEF BucketInv, Slot

LEMMA TickKeepsBuckets ==
  ASSUME BucketInv, Tick
  PROVE  BucketInv'
<1>1. /\ bucket' = [w \in Workers |->
                      IF bucket[w] = NoBucket THEN NoBucket ELSE TickBucket(bucket[w])]
      /\ meter' = [w \in Workers |-> IF meter[w] > 0 THEN meter[w] - 1 ELSE 0]
  BY DEF Tick
<1>2. ASSUME NEW w \in Workers
      PROVE  /\ bucket'[w] \in Buckets \cup {NoBucket} /\ meter'[w] \in Nat
             /\ meter'[w] + Refilled(Slot(w)') <= Full
  <2>1. meter[w] \in Nat /\ meter[w] + Refilled(Slot(w)) <= Full
    BY DEF BucketInv
  <2>2. meter'[w] = IF meter[w] > 0 THEN meter[w] - 1 ELSE 0
    BY <1>1
  <2>3. CASE bucket[w] = NoBucket
    <3>1. Slot(w) = NewBucket /\ Slot(w)' = NewBucket /\ bucket'[w] = NoBucket
      BY <1>1, <2>3 DEF Slot
    <3> QED BY <2>1, <2>2, <3>1, NewBucketIsFull, FullIsNat
  <2>4. CASE bucket[w] # NoBucket
    <3>1. bucket[w] \in Buckets /\ bucket'[w] = TickBucket(bucket[w])
      BY <1>1, <2>4 DEF BucketInv
    <3>2. /\ TickBucket(bucket[w]) \in Buckets
          /\ Refilled(TickBucket(bucket[w])) <= Refilled(bucket[w]) + 1
      BY <3>1, TickRefillsOne
    <3>3. Slot(w) = bucket[w] /\ Slot(w)' = TickBucket(bucket[w])
      BY <2>4, <3>1, <3>2, AccessAssumption DEF Slot
    <3>4. /\ Refilled(bucket[w]) \in Nat
          /\ Refilled(TickBucket(bucket[w])) \in Nat
          /\ Refilled(TickBucket(bucket[w])) <= Full
      BY <3>1, <3>2, RefilledBounds
    <3> QED BY <2>1, <2>2, <3>1, <3>2, <3>3, <3>4, FullIsNat
  <2> QED BY <2>3, <2>4
<1> QED BY <1>1, <1>2 DEF BucketInv

\* create_stream: the meter gains what the bucket loses.
LEMMA StreamKeepsBuckets ==
  ASSUME BucketInv, NEW w \in Workers, StreamServed(w)
  PROVE  BucketInv'
<1>1. CASE UNCHANGED bucketVars
  BY <1>1 DEF BucketInv, bucketVars, Slot
<1>2. CASE /\ bucket' = [bucket EXCEPT ![w] = Acquire(Slot(w))]
           /\ meter' = [meter EXCEPT ![w] = IF Grants(Slot(w)) THEN @ + Cost ELSE @]
  <2>1. Slot(w) \in Buckets
    BY SlotIsBucket
  <2>2. /\ Acquire(Slot(w)) \in Buckets
        /\ Refilled(Acquire(Slot(w))) =
             IF Grants(Slot(w)) THEN Refilled(Slot(w)) - Cost ELSE Refilled(Slot(w))
    BY <2>1, AcquireSpends
  <2>3. bucket'[w] = Acquire(Slot(w)) /\ Slot(w)' = Acquire(Slot(w))
    BY <1>2, <2>2, AccessAssumption DEF BucketInv, Slot
  <2>4. meter[w] \in Nat /\ meter[w] + Refilled(Slot(w)) <= Full /\ Refilled(Slot(w)) \in Nat
    BY <2>1, RefilledBounds DEF BucketInv
  <2>5. meter'[w] = IF Grants(Slot(w)) THEN meter[w] + Cost ELSE meter[w]
    BY <1>2 DEF BucketInv
  <2>6. meter'[w] \in Nat /\ meter'[w] + Refilled(Slot(w)') <= Full
    BY <2>2, <2>3, <2>4, <2>5, FullIsNat
  <2>7. \A v \in Workers \ {w} : bucket'[v] = bucket[v] /\ meter'[v] = meter[v]
    BY <1>2 DEF BucketInv
  <2>8. \A v \in Workers \ {w} : Slot(v)' = Slot(v)
    BY <2>7 DEF Slot
  <2>9. bucket' \in [Workers -> Buckets \cup {NoBucket}] /\ meter' \in [Workers -> Nat]
    BY <1>2, <2>2, <2>4, FullIsNat DEF BucketInv
  <2> QED BY <2>6, <2>7, <2>8, <2>9 DEF BucketInv
<1> QED BY <1>1, <1>2 DEF StreamServed

LEMMA BucketsKept == BucketInv /\ [Next]_vars => BucketInv'
<1> SUFFICES ASSUME BucketInv, [Next]_vars PROVE BucketInv'
  OBVIOUS
<1>1. CASE Tick
  BY <1>1, TickKeepsBuckets
<1>2. CASE \E w \in Workers : StreamServed(w)
  BY <1>2, StreamKeepsBuckets
<1>3. CASE UNCHANGED bucketVars
  BY <1>3 DEF BucketInv, bucketVars, Slot
<1> QED BY <1>1, <1>2, <1>3 DEF Next, vars, Request, AdminServed, OtherServed, CliRuns

\* However requests and pauses are spread, a label gets no more slots than a burst
\* of Capacity and the refill since (rate_limit.py acquire, create_stream).
THEOREM BurstIsBounded == Spec => []BurstBound
<1>1. Init => BucketInv
  BY NewBucketIsFull, FullIsNat DEF Init, BucketInv, Slot
<1>2. BucketInv => BurstBound
  <2> SUFFICES ASSUME BucketInv, NEW w \in Workers PROVE meter[w] <= Full
    BY DEF BurstBound
  <2>1. meter[w] \in Nat /\ meter[w] + Refilled(Slot(w)) <= Full /\ Refilled(Slot(w)) \in Nat
    BY SlotIsBucket, RefilledBounds DEF BucketInv
  <2> QED BY <2>1, FullIsNat
<1> QED BY <1>1, <1>2, BucketsKept, PTL DEF Spec

-------------------------------------------------------------------------------
(***************************************************************************)
(* The store                                                               *)
(***************************************************************************)

\* What is written nowhere any more: a firm token's record as a live one.
Clean ==
  \A t \in firm :
    /\ \A i \in Inodes : disk[i].data[t] # "live"
    /\ \A p \in Procs : copy[p][t] # "live"

\* A process has the temporary file open, and something to write, only between the
\* steps that say so.
Handles ==
  \A p \in Procs :
    /\ fd[p] \in Inodes <=> pc[p] \in {"opened", "written"}
    /\ copy[p] # NoData => pc[p] \in {"read", "opened"}

\* An operation is alone from its start to its end, or not at all.
Lone == \A p \in Procs : solo[p] => Busy(p) /\ Alone(p)

\* What a lone revocation has done so far.
LoneRevoke ==
  \A p \in Procs :
    solo[p] /\ op[p].kind = "revoke" =>
      /\ pc[p] \in {"read", "opened"} => copy[p][op[p].token] = "revoked"
      /\ pc[p] \in {"opened", "written"} => fd[p] = tmp
      /\ pc[p] = "written" => disk[fd[p]].data[op[p].token] = "revoked"

StoreInv == StoreTypeOK /\ Clean /\ Handles /\ Lone /\ LoneRevoke

LEMMA SizeBounds ==
  ASSUME NEW d \in Data
  PROVE  Size(d) \in 0..(Cardinality(Tokens) + 1)
<1> DEFINE S == {t \in Tokens : d[t] # "absent"}
<1>1. IsFiniteSet(S) /\ Cardinality(S) <= Cardinality(Tokens) /\ Cardinality(S) \in Nat
      /\ Cardinality(Tokens) \in Nat
  BY StoreAssumption, FS_Subset, FS_CardinalityType
<1> QED BY <1>1 DEF Size

LEMMA StoreConstants ==
  /\ NoTmp \notin Inodes /\ MaxCrashes \in Nat
  /\ NoData \in Data /\ \A t \in Tokens : NoData[t] = "absent"
  /\ Empty \in [data : Data, size : 0..(Cardinality(Tokens) + 1), whole : BOOLEAN]
  /\ Empty.data = NoData
<1>1. 0 \in 0..(Cardinality(Tokens) + 1)
  BY StoreAssumption, FS_CardinalityType
<1> QED BY <1>1, StoreAssumption DEF NoData, Data, Empty

\* Readers see the data of the file, or nothing.
LEMMA VisibleData ==
  ASSUME StoreInv
  PROVE  Visible \in Data /\ \A t \in firm : Visible[t] # "live"
<1>1. disk[path].data \in Data /\ firm \subseteq Tokens
  BY DEF StoreInv, StoreTypeOK
<1>2. \A t \in firm : disk[path].data[t] # "live"
  BY DEF StoreInv, StoreTypeOK, Clean
<1> QED BY <1>1, <1>2, StoreConstants DEF Visible, Parsed

LEMMA InitStore == StoreInit => StoreInv
<1> SUFFICES ASSUME StoreInit PROVE StoreInv
  OBVIOUS
<1>1. firm = {} /\ solo = [p \in Procs |-> FALSE] /\ fd = [p \in Procs |-> NoTmp]
      /\ pc = [p \in Procs |-> "idle"] /\ copy = [p \in Procs |-> NoData]
      /\ path \in Inodes /\ tmp = NoTmp /\ op = [p \in Procs |-> NoOp] /\ crashes = 0
  BY DEF StoreInit
<1>2. disk \in [Inodes -> [data : Data, size : 0..(Cardinality(Tokens) + 1), whole : BOOLEAN]]
  <2>1. PICK S \in SUBSET Tokens :
          LET d == [t \in Tokens |-> IF t \in S THEN "live" ELSE "absent"]
          IN  disk = [i \in Inodes |->
                        IF i = path THEN [data |-> d, size |-> Size(d), whole |-> TRUE]
                        ELSE Empty]
    BY DEF StoreInit
  <2> DEFINE d == [t \in Tokens |-> IF t \in S THEN "live" ELSE "absent"]
  <2>2. d \in Data
    BY DEF Data
  <2> HIDE DEF d
  <2>3. Size(d) \in 0..(Cardinality(Tokens) + 1)
    BY <2>2, SizeBounds
  <2>4. disk = [i \in Inodes |->
                  IF i = path THEN [data |-> d, size |-> Size(d), whole |-> TRUE] ELSE Empty]
    BY <2>1 DEF d
  <2> QED BY <2>2, <2>3, <2>4, StoreConstants
<1>3. StoreTypeOK
  BY <1>1, <1>2, StoreConstants DEF StoreTypeOK
<1> QED BY <1>1, <1>3, StoreConstants DEF StoreInv, Clean, Handles, Lone, LoneRevoke

\* An operation starts.
LEMMA ReadsKeepsStore ==
  ASSUME StoreInv, NEW p \in Procs, ~ Busy(p), NEW kind \in Kinds, NEW t \in Tokens,
         NEW d \in Data, \A u \in firm : d[u] # "live",
         kind = "revoke" => d[t] = "revoked", Reads(p, kind, t, d)
  PROVE  StoreInv'
<1> USE DEF StoreInv
<1>1. /\ pc' = [pc EXCEPT ![p] = "read"]
      /\ op' = [op EXCEPT ![p] = [kind |-> kind, token |-> t]]
      /\ copy' = [copy EXCEPT ![p] = d]
      /\ solo' = [q \in Procs |-> IF q = p THEN Alone(p) ELSE solo[q] /\ ~ Busy(q)]
      /\ UNCHANGED <<disk, path, tmp, fd, crashes, firm>>
  BY DEF Reads
<1>2. StoreTypeOK'
  <2>1. Alone(p) \in BOOLEAN /\ \A q \in Procs : (solo[q] /\ ~ Busy(q)) \in BOOLEAN
    BY DEF Alone
  <2>2. solo' \in [Procs -> BOOLEAN]
    BY <1>1, <2>1
  <2> QED BY <1>1, <2>2 DEF StoreTypeOK
<1>3. Clean'
  BY <1>1 DEF Clean, StoreTypeOK
<1>4. Handles'
  <2>1. pc[p] \notin {"opened", "written"}
    BY DEF Busy
  <2> QED BY <1>1, <2>1 DEF Handles, StoreTypeOK
<1>5. \A q \in Procs \ {p} : ~ solo'[q]
  BY <1>1 DEF Lone
<1>6. solo'[p] = Alone(p) /\ pc'[p] = "read" /\ \A q \in Procs \ {p} : pc'[q] = pc[q]
  BY <1>1 DEF StoreTypeOK
<1>7. Lone'
  <2>1. Alone(p) => Alone(p)'
    BY <1>6 DEF Alone, Busy
  <2>2. Busy(p)'
    BY <1>6 DEF Busy
  <2> QED BY <1>5, <1>6, <2>1, <2>2 DEF Lone
<1>8. LoneRevoke'
  BY <1>1, <1>5, <1>6 DEF LoneRevoke, StoreTypeOK
<1> QED BY <1>2, <1>3, <1>4, <1>7, <1>8

LEMMA MintKeepsStore ==
  ASSUME StoreInv, NEW p \in Procs, ~ Busy(p), Mint(p)
  PROVE  StoreInv'
<1>1. PICK t \in Tokens : t \notin firm /\ Reads(p, "mint", t, [Visible EXCEPT ![t] = "live"])
  BY DEF Mint
<1>2. /\ [Visible EXCEPT ![t] = "live"] \in Data
      /\ \A u \in firm : [Visible EXCEPT ![t] = "live"][u] # "live"
  BY <1>1, VisibleData DEF Data, StoreInv, StoreTypeOK
<1> QED BY <1>1, <1>2, ReadsKeepsStore DEF Kinds

LEMMA RevokeKeepsStore ==
  ASSUME StoreInv, NEW p \in Procs, ~ Busy(p), Revoke(p)
  PROVE  StoreInv'
<1>1. PICK t \in Tokens : Reads(p, "revoke", t, [Visible EXCEPT ![t] = "revoked"])
  BY DEF Revoke
<1>2. /\ [Visible EXCEPT ![t] = "revoked"] \in Data
      /\ [Visible EXCEPT ![t] = "revoked"][t] = "revoked"
      /\ \A u \in firm : [Visible EXCEPT ![t] = "revoked"][u] # "live"
  BY <1>1, VisibleData DEF Data, StoreInv, StoreTypeOK
<1> QED BY <1>1, <1>2, ReadsKeepsStore DEF Kinds

LEMMA VerifyKeepsStore ==
  ASSUME StoreInv, NEW p \in Procs, ~ Busy(p), NEW t \in Tokens, Verify(p, t)
  PROVE  StoreInv'
BY VisibleData, ReadsKeepsStore DEF Verify, Kinds

\* While p is at work nobody else is alone.
LEMMA OthersNotLone ==
  ASSUME StoreInv, NEW p \in Procs, Busy(p)
  PROVE  \A q \in Procs \ {p} : ~ solo[q]
BY DEF StoreInv, Lone, Alone

LEMMA OpenKeepsStore ==
  ASSUME StoreInv, NEW p \in Procs, OpenTmp(p)
  PROVE  StoreInv'
<1> USE DEF StoreInv
<1>1. /\ pc[p] = "read" /\ pc' = [pc EXCEPT ![p] = "opened"]
      /\ fd' = [fd EXCEPT ![p] = tmp']
      /\ disk' = IF tmp = NoTmp THEN [disk EXCEPT ![tmp'] = Empty] ELSE disk
      /\ UNCHANGED <<path, op, copy, crashes, solo, firm>>
  BY DEF OpenTmp
<1>2. tmp' \in Inodes
  <2>1. CASE tmp = NoTmp
    <3>1. tmp' \in Unused
      BY <2>1 DEF OpenTmp
    <3> QED BY <3>1 DEF Unused
  <2>2. CASE tmp # NoTmp
    BY <2>2 DEF OpenTmp, StoreTypeOK
  <2> QED BY <2>1, <2>2
<1>3. StoreTypeOK'
  BY <1>1, <1>2, StoreConstants DEF StoreTypeOK
<1>4. \A i \in Inodes : disk'[i] = disk[i] \/ disk'[i] = Empty
  BY <1>1, <1>2 DEF StoreTypeOK
<1>5. Clean'
  BY <1>1, <1>4, StoreConstants DEF Clean, StoreTypeOK
<1>6. pc'[p] = "opened" /\ fd'[p] = tmp'
      /\ \A q \in Procs \ {p} : pc'[q] = pc[q] /\ fd'[q] = fd[q]
  BY <1>1 DEF StoreTypeOK
<1>7. Handles'
  BY <1>1, <1>2, <1>6 DEF Handles
<1>8. \A q \in Procs : Busy(q)' <=> Busy(q)
  BY <1>1, <1>6 DEF Busy
<1>9. Lone'
  BY <1>1, <1>8 DEF Lone, Alone
<1>10. LoneRevoke'
  <2>1. \A q \in Procs \ {p} : ~ solo'[q]
    BY <1>1, OthersNotLone DEF Busy
  <2>2. solo[p] /\ op[p].kind = "revoke" => copy[p][op[p].token] = "revoked"
    BY <1>1 DEF LoneRevoke
  <2> QED BY <1>1, <1>6, <2>1, <2>2 DEF LoneRevoke
<1> QED BY <1>3, <1>5, <1>7, <1>9, <1>10

LEMMA WriteKeepsStore ==
  ASSUME StoreInv, NEW p \in Procs, WriteTmp(p)
  PROVE  StoreInv'
<1> USE DEF StoreInv
<1>1. PICK c \in Dumped(disk[fd[p]], copy[p]) : disk' = [disk EXCEPT ![fd[p]] = c]
  BY DEF WriteTmp
<1>2. /\ pc[p] = "opened" /\ pc' = [pc EXCEPT ![p] = "written"]
      /\ copy' = [copy EXCEPT ![p] = NoData]
      /\ UNCHANGED <<path, tmp, op, fd, crashes, solo, firm>>
  BY DEF WriteTmp
<1>3. fd[p] \in Inodes /\ copy[p] \in Data
  BY <1>2 DEF Handles, StoreTypeOK
<1>4. c.data = copy[p]
      /\ c \in [data : Data, size : 0..(Cardinality(Tokens) + 1), whole : BOOLEAN]
  <2>1. Size(copy[p]) \in 0..(Cardinality(Tokens) + 1)
        /\ disk[fd[p]].size \in 0..(Cardinality(Tokens) + 1)
    BY <1>3, SizeBounds DEF StoreTypeOK
  <2>2. PICK whole \in BOOLEAN :
          c = [data |-> copy[p],
               size |-> IF Size(copy[p]) >= disk[fd[p]].size THEN Size(copy[p])
                        ELSE disk[fd[p]].size,
               whole |-> whole]
    BY <1>1 DEF Dumped
  <2> QED BY <1>3, <2>1, <2>2
<1>5. StoreTypeOK'
  BY <1>1, <1>2, <1>3, <1>4, StoreConstants DEF StoreTypeOK
<1>6. disk'[fd[p]] = c /\ \A i \in Inodes \ {fd[p]} : disk'[i] = disk[i]
  BY <1>1, <1>3 DEF StoreTypeOK
<1>7. pc'[p] = "written" /\ copy'[p] = NoData
      /\ \A q \in Procs \ {p} : pc'[q] = pc[q] /\ copy'[q] = copy[q]
  BY <1>2 DEF StoreTypeOK
<1>8. Clean'
  <2> SUFFICES ASSUME NEW t \in firm
               PROVE  /\ \A i \in Inodes : disk'[i].data[t] # "live"
                      /\ \A q \in Procs : copy'[q][t] # "live"
    BY <1>2 DEF Clean
  <2>1. t \in Tokens /\ copy[p][t] # "live"
    BY DEF StoreTypeOK, Clean
  <2> QED BY <1>4, <1>6, <1>7, <2>1, StoreConstants DEF Clean
<1>9. Handles'
  BY <1>2, <1>7 DEF Handles
<1>10. Lone'
  <2>1. \A q \in Procs : Busy(q)' <=> Busy(q)
    BY <1>2, <1>7 DEF Busy
  <2> QED BY <1>2, <2>1 DEF Lone, Alone
<1>11. LoneRevoke'
  <2>1. \A q \in Procs \ {p} : ~ solo'[q]
    BY <1>2, OthersNotLone DEF Busy
  <2>2. solo[p] /\ op[p].kind = "revoke" =>
          copy[p][op[p].token] = "revoked" /\ fd[p] = tmp
    BY <1>2 DEF LoneRevoke
  <2> QED BY <1>2, <1>4, <1>6, <1>7, <2>1, <2>2 DEF LoneRevoke
<1> QED BY <1>5, <1>8, <1>9, <1>10, <1>11

\* An operation ends, one way or another.
LEMMA EndKeepsStore ==
  ASSUME StoreInv, NEW p \in Procs, Busy(p), NEW x \in {"idle", "accepted"},
         pc' = [pc EXCEPT ![p] = x], Forget(p), Frees,
         copy' = [copy EXCEPT ![p] = NoData], path' \in Inodes, tmp' \in {tmp, NoTmp},
         crashes' \in 0..MaxCrashes, firm' \subseteq Tokens,
         \A t \in firm' \ firm :
           /\ \A i \in Inodes : disk'[i].data[t] # "live"
           /\ \A q \in Procs : copy'[q][t] # "live"
  PROVE  StoreInv'
<1> USE DEF StoreInv
<1>1. /\ op' = [op EXCEPT ![p] = IF pc'[p] = "accepted" THEN @ ELSE NoOp]
      /\ fd' = [fd EXCEPT ![p] = NoTmp] /\ solo' = [solo EXCEPT ![p] = FALSE]
  BY DEF Forget
<1>2. /\ disk' \in [Inodes -> [data : Data, size : 0..(Cardinality(Tokens) + 1),
                               whole : BOOLEAN]]
      /\ \A i \in Inodes : disk'[i] = disk[i] \/ disk'[i] = Empty
  BY StoreConstants DEF Frees, StoreTypeOK
<1>3. StoreTypeOK'
  BY <1>1, <1>2, StoreConstants DEF StoreTypeOK
<1>4. /\ pc'[p] = x /\ fd'[p] = NoTmp /\ copy'[p] = NoData /\ ~ solo'[p]
      /\ \A q \in Procs \ {p} : /\ pc'[q] = pc[q] /\ fd'[q] = fd[q]
                               /\ copy'[q] = copy[q] /\ solo'[q] = solo[q]
  BY <1>1 DEF StoreTypeOK
<1>5. Clean'
  <2> SUFFICES ASSUME NEW t \in firm', t \in firm
               PROVE  /\ \A i \in Inodes : disk'[i].data[t] # "live"
                      /\ \A q \in Procs : copy'[q][t] # "live"
    BY DEF Clean
  <2>1. t \in Tokens
    OBVIOUS
  <2>2. \A q \in Procs : copy'[q][t] # "live"
    BY <1>4, <2>1, StoreConstants DEF Clean
  <2>3. \A i \in Inodes : disk'[i].data[t] # "live"
    BY <1>2, <2>1, StoreConstants DEF Clean
  <2> QED BY <2>2, <2>3
<1>6. Handles'
  BY <1>4, StoreConstants DEF Handles
<1>7. \A q \in Procs : ~ solo'[q]
  BY <1>4, OthersNotLone
<1>8. Lone' /\ LoneRevoke'
  BY <1>7 DEF Lone, LoneRevoke
<1> QED BY <1>3, <1>5, <1>6, <1>8

LEMMA RenameKeepsStore ==
  ASSUME StoreInv, NEW p \in Procs, Rename(p)
  PROVE  StoreInv'
<1> USE DEF StoreInv
<1>1. /\ pc[p] = "written" /\ tmp # NoTmp /\ path' = tmp /\ tmp' = NoTmp
      /\ firm' = IF op[p].kind = "revoke" /\ solo[p] THEN firm \cup {op[p].token} ELSE firm
      /\ Forget(p) /\ Frees /\ UNCHANGED <<copy, crashes>>
      /\ pc' = [pc EXCEPT ![p] = IF op[p].kind = "verify" THEN "accepted" ELSE "idle"]
  BY DEF Rename, Returns
<1>2. Busy(p) /\ path' \in Inodes /\ crashes' \in 0..MaxCrashes
  BY <1>1 DEF Busy, StoreTypeOK
<1>3. copy' = [copy EXCEPT ![p] = NoData]
  <2>1. copy[p] = NoData
    BY <1>1 DEF Handles
  <2> QED BY <1>1, <2>1 DEF StoreTypeOK
<1>4. op[p].kind = "revoke" => op[p].token \in Tokens
  BY DEF StoreTypeOK, NoOp
<1>5. firm' \subseteq Tokens
  BY <1>1, <1>4 DEF StoreTypeOK
<1>6. ASSUME NEW t \in firm' \ firm
      PROVE  /\ \A i \in Inodes : disk'[i].data[t] # "live"
             /\ \A q \in Procs : copy'[q][t] # "live"
  <2>1. t = op[p].token /\ op[p].kind = "revoke" /\ solo[p] /\ t \in Tokens
    BY <1>1, <1>4
  <2>2. fd[p] = tmp /\ disk[tmp].data[t] = "revoked"
    BY <1>1, <2>1 DEF LoneRevoke
  <2>3. \A q \in Procs \ {p} : ~ Busy(q)
    BY <2>1 DEF Lone, Alone
  <2>4. \A q \in Procs : copy'[q] = NoData
    BY <1>1, <1>3, <2>3 DEF Handles, Busy, StoreTypeOK
  <2>5. \A q \in Procs : fd'[q] \notin Inodes
    BY <1>1, <2>3, StoreConstants DEF Handles, Busy, Forget, StoreTypeOK
  <2>6. \A i \in Inodes : disk'[i] = Empty \/ i = tmp
    BY <1>1, <2>5, StoreConstants DEF Frees
  <2>7. tmp \in Inodes => disk'[tmp] = disk[tmp]
    BY <1>1 DEF Frees
  <2> QED BY <2>1, <2>2, <2>4, <2>6, <2>7, StoreConstants
<1> QED BY <1>1, <1>2, <1>3, <1>5, <1>6, EndKeepsStore

LEMMA RenameFailsKeepsStore ==
  ASSUME StoreInv, NEW p \in Procs, RenameFails(p)
  PROVE  StoreInv'
<1>1. /\ pc[p] = "written" /\ Forget(p) /\ Frees
      /\ UNCHANGED <<path, tmp, copy, crashes, firm>>
      /\ pc' = [pc EXCEPT ![p] = IF op[p].kind = "verify" THEN "accepted" ELSE "idle"]
  BY DEF RenameFails, Returns
<1>2. /\ Busy(p) /\ path' \in Inodes /\ crashes' \in 0..MaxCrashes
      /\ firm' \subseteq Tokens /\ tmp' = tmp
  BY <1>1 DEF Busy, StoreInv, StoreTypeOK
<1>3. copy' = [copy EXCEPT ![p] = NoData]
  <2>1. copy[p] = NoData
    BY <1>1 DEF StoreInv, Handles
  <2> QED BY <1>1, <2>1 DEF StoreInv, StoreTypeOK
<1> QED BY <1>1, <1>2, <1>3, EndKeepsStore

LEMMA CrashKeepsStore ==
  ASSUME StoreInv, NEW p \in Procs, Crash(p)
  PROVE  StoreInv'
<1>1. /\ Busy(p) /\ Forget(p) /\ Frees /\ UNCHANGED <<path, tmp, firm>>
      /\ pc' = [pc EXCEPT ![p] = "idle"] /\ copy' = [copy EXCEPT ![p] = NoData]
      /\ crashes < MaxCrashes /\ crashes' = crashes + 1
  BY DEF Crash
<1>2. path' \in Inodes /\ crashes' \in 0..MaxCrashes /\ firm' \subseteq Tokens
  BY <1>1, StoreConstants DEF StoreInv, StoreTypeOK
<1> QED BY <1>1, <1>2, EndKeepsStore

\* A handler ends: the operation before it has left nothing to do.
LEMMA RespondsKeepsStore ==
  ASSUME StoreInv, NEW p \in Procs, Responds(p)
  PROVE  StoreInv'
<1> USE DEF StoreInv
<1>1. /\ pc[p] = "accepted" /\ pc' = [pc EXCEPT ![p] = "idle"]
      /\ op' = [op EXCEPT ![p] = NoOp]
      /\ UNCHANGED <<disk, path, tmp, copy, fd, crashes, solo, firm>>
  BY DEF Responds
<1>2. ~ solo[p]
  BY <1>1 DEF Lone, Busy
<1>3. \A q \in Procs : Busy(q)' <=> Busy(q)
  BY <1>1 DEF Busy, StoreTypeOK
<1>4. StoreTypeOK' /\ Clean' /\ Handles'
  BY <1>1 DEF StoreTypeOK, Clean, Handles
<1>5. Lone'
  BY <1>1, <1>3 DEF Lone, Alone
<1>6. LoneRevoke'
  BY <1>1, <1>2 DEF LoneRevoke, StoreTypeOK
<1> QED BY <1>4, <1>5, <1>6

LEMMA StoreKept == StoreInv /\ [Next]_vars => StoreInv'
<1> SUFFICES ASSUME StoreInv, [Next]_vars PROVE StoreInv'
  OBVIOUS
<1>1. CASE \E p \in Procs : StoreStep(p)
  BY <1>1, OpenKeepsStore, WriteKeepsStore, RenameKeepsStore, RenameFailsKeepsStore,
     CrashKeepsStore DEF StoreStep
<1>2. ASSUME NEW w \in Workers, Request(w) \/ AdminServed(w) PROVE StoreInv'
  <2>1. w \in Procs /\ ~ Busy(w)
    BY <1>2 DEF Procs, Request, AdminServed, Busy
  <2> QED BY <1>2, <2>1, MintKeepsStore, RevokeKeepsStore, VerifyKeepsStore
          DEF Request, AdminServed
<1>3. ASSUME NEW w \in Workers, StreamServed(w) \/ OtherServed(w) PROVE StoreInv'
  BY <1>3, RespondsKeepsStore DEF StreamServed, OtherServed, Procs
<1>4. ASSUME NEW c \in Clis, CliRuns(c) PROVE StoreInv'
  <2>1. c \in Procs /\ ~ Busy(c)
    BY <1>4 DEF Procs, CliRuns, Busy
  <2> QED BY <1>4, <2>1, MintKeepsStore, RevokeKeepsStore DEF CliRuns
<1>5. CASE UNCHANGED storeVars
  BY <1>5 DEF storeVars, StoreInv, StoreTypeOK, Clean, Handles, Lone, LoneRevoke, Busy, Alone
<1> QED BY <1>1, <1>2, <1>3, <1>4, <1>5 DEF Next, Tick, vars

\* The store and the buckets keep their types (auth.py, rate_limit.py).
THEOREM AccessTypeCorrect == Spec => []TypeOK
<1>1. Init => StoreInv /\ BucketInv
  BY InitStore, NewBucketIsFull, FullIsNat DEF Init, BucketInv, Slot
<1>2. StoreInv /\ BucketInv => TypeOK
  BY DEF StoreInv, BucketInv, TypeOK
<1> QED BY <1>1, <1>2, StoreKept, BucketsKept, PTL DEF Spec

\* A revocation that nobody raced is for good: the token is never live in the file
\* again and nobody is about to write it back as a live one, whatever crashes and
\* races come later (auth.py revoke, _write, verify).
THEOREM RevocationsHold == Spec => []RevocationHolds
<1>1. Init => StoreInv
  BY InitStore DEF Init
<1>2. StoreInv => RevocationHolds
  BY VisibleData DEF StoreInv, Clean, RevocationHolds
<1> QED BY <1>1, <1>2, StoreKept, PTL DEF Spec

-------------------------------------------------------------------------------
(***************************************************************************)
(* Lone operations                                                         *)
(***************************************************************************)

\* Without a crash the temporary file exists only while somebody has it open.
Held == crashes = 0 /\ tmp # NoTmp => \E p \in Procs : fd[p] = tmp

\* What an operation that has the store to itself has done so far.
LoneWrites ==
  \A p \in Procs :
    solo[p] =>
      /\ pc[p] \in {"read", "opened"} => copy[p] = After(op[p], Visible)
      /\ pc[p] \in {"opened", "written"} => fd[p] = tmp
      /\ pc[p] = "opened" /\ crashes = 0 => disk[tmp].size = 0
      /\ pc[p] = "written" =>
           disk[tmp].data = After(op[p], Visible) /\ (crashes = 0 => disk[tmp].whole)

AtomicInv == StoreInv /\ tmp # path /\ Held /\ LoneWrites

LEMMA ReadsKeepsAtomic ==
  ASSUME AtomicInv, NEW p \in Procs, ~ Busy(p), NEW kind, NEW t, NEW d,
         d = After([kind |-> kind, token |-> t], Visible), Reads(p, kind, t, d)
  PROVE  tmp' # path' /\ Held' /\ LoneWrites'
<1>1. /\ UNCHANGED <<disk, path, tmp, fd, crashes, firm>> /\ Visible' = Visible
      /\ solo' = [q \in Procs |-> IF q = p THEN Alone(p) ELSE solo[q] /\ ~ Busy(q)]
  BY DEF Reads, Visible
<1>2. /\ pc'[p] = "read" /\ op'[p] = [kind |-> kind, token |-> t] /\ copy'[p] = d
  BY DEF Reads, AtomicInv, StoreInv, StoreTypeOK
<1>3. \A q \in Procs \ {p} : ~ solo'[q]
  BY <1>1 DEF AtomicInv, StoreInv, Lone
<1>4. LoneWrites'
  <2> SUFFICES ASSUME NEW q \in Procs, solo'[q]
               PROVE  /\ pc'[q] \in {"read", "opened"} => copy'[q] = After(op'[q], Visible')
                      /\ pc'[q] \notin {"opened", "written"}
    BY DEF LoneWrites
  <2>1. q = p
    BY <1>3
  <2> QED BY <1>1, <1>2, <2>1
<1> QED BY <1>1, <1>4 DEF AtomicInv, Held

\* What each operation sets out to write is what SoloIsAtomic says it should.
LEMMA OperationsKeepAtomic ==
  ASSUME AtomicInv, NEW p \in Procs, ~ Busy(p),
         Mint(p) \/ Revoke(p) \/ \E t \in Tokens : Verify(p, t)
  PROVE  tmp' # path' /\ Held' /\ LoneWrites'
<1>1. CASE Mint(p)
  <2>1. PICK t \in Tokens : Reads(p, "mint", t, [Visible EXCEPT ![t] = "live"])
    BY <1>1 DEF Mint
  <2>2. [Visible EXCEPT ![t] = "live"] = After([kind |-> "mint", token |-> t], Visible)
    BY DEF After
  <2> QED BY <2>1, <2>2, ReadsKeepsAtomic
<1>2. CASE Revoke(p)
  <2>1. PICK t \in Tokens : Reads(p, "revoke", t, [Visible EXCEPT ![t] = "revoked"])
    BY <1>2 DEF Revoke
  <2>2. [Visible EXCEPT ![t] = "revoked"] = After([kind |-> "revoke", token |-> t], Visible)
    BY DEF After
  <2> QED BY <2>1, <2>2, ReadsKeepsAtomic
<1>3. ASSUME NEW t \in Tokens, Verify(p, t)
      PROVE  tmp' # path' /\ Held' /\ LoneWrites'
  <2>1. Visible = After([kind |-> "verify", token |-> t], Visible)
    BY DEF After
  <2> QED BY <1>3, <2>1, ReadsKeepsAtomic DEF Verify
<1> QED BY <1>1, <1>2, <1>3

LEMMA OpenKeepsAtomic ==
  ASSUME AtomicInv, NEW p \in Procs, OpenTmp(p)
  PROVE  tmp' # path' /\ Held' /\ LoneWrites'
<1> USE DEF AtomicInv, StoreInv
<1>1. /\ pc[p] = "read" /\ pc'[p] = "opened" /\ fd'[p] = tmp'
      /\ \A q \in Procs \ {p} : fd'[q] = fd[q]
      /\ UNCHANGED <<path, op, copy, crashes, solo>>
  BY DEF OpenTmp, StoreTypeOK
<1>2. /\ tmp' \in Inodes /\ tmp' # path
      /\ tmp # NoTmp => tmp' = tmp /\ disk' = disk
      /\ tmp = NoTmp => disk' = [disk EXCEPT ![tmp'] = Empty]
  <2>1. CASE tmp = NoTmp
    <3>1. tmp' = CHOOSE i \in Unused : TRUE
      BY <2>1 DEF OpenTmp
    <3>2. Unused # {}
      BY <2>1 DEF OpenTmp
    <3>3. tmp' \in Unused
      BY <3>1, <3>2
    <3> QED BY <2>1, <3>3 DEF OpenTmp, Unused
  <2>2. CASE tmp # NoTmp
    BY <2>2 DEF OpenTmp, StoreTypeOK
  <2> QED BY <2>1, <2>2
<1>3. disk'[path] = disk[path] /\ (tmp = NoTmp => disk'[tmp'].size = 0)
  BY <1>2 DEF StoreTypeOK, Empty
<1>4. Visible' = Visible
  BY <1>1, <1>3 DEF Visible
<1>5. \A q \in Procs \ {p} : ~ solo[q]
  BY <1>1, OthersNotLone DEF Busy
<1>6. solo[p] /\ crashes = 0 => tmp = NoTmp
  <2> SUFFICES ASSUME solo[p], crashes = 0, tmp # NoTmp PROVE FALSE
    OBVIOUS
  <2>1. PICK q \in Procs : fd[q] = tmp
    BY DEF Held
  <2>2. tmp \in Inodes
    BY DEF StoreTypeOK
  <2>3. pc[q] \in {"opened", "written"}
    BY <2>1, <2>2 DEF Handles
  <2>4. q # p /\ Busy(q)
    BY <1>1, <2>3 DEF Busy
  <2> QED BY <2>4 DEF Lone, Alone
<1>7. LoneWrites'
  <2> SUFFICES ASSUME NEW q \in Procs, solo'[q]
               PROVE  /\ copy'[q] = After(op'[q], Visible') /\ fd'[q] = tmp'
                      /\ crashes' = 0 => disk'[tmp'].size = 0
                      /\ pc'[q] = "opened"
    BY DEF LoneWrites
  <2>1. q = p
    BY <1>1, <1>5
  <2> QED BY <1>1, <1>3, <1>4, <1>6, <2>1 DEF LoneWrites
<1> QED BY <1>1, <1>2, <1>7 DEF Held

LEMMA WriteKeepsAtomic ==
  ASSUME AtomicInv, NEW p \in Procs, WriteTmp(p)
  PROVE  tmp' # path' /\ Held' /\ LoneWrites'
<1> USE DEF AtomicInv, StoreInv
<1>1. /\ pc[p] = "opened" /\ pc'[p] = "written"
      /\ UNCHANGED <<path, tmp, op, fd, crashes, solo>>
  BY DEF WriteTmp, StoreTypeOK
<1>2. PICK c \in Dumped(disk[fd[p]], copy[p]) : disk' = [disk EXCEPT ![fd[p]] = c]
  BY DEF WriteTmp
<1>3. c.data = copy[p] /\ (Size(copy[p]) > disk[fd[p]].size => c.whole)
  <2> DEFINE z == disk[fd[p]].size
             Whole == IF Size(copy[p]) > z THEN {TRUE}
                      ELSE IF Size(copy[p]) < z THEN {FALSE} ELSE BOOLEAN
  <2>1. PICK w \in Whole :
          c = [data  |-> copy[p],
               size  |-> IF Size(copy[p]) >= z THEN Size(copy[p]) ELSE z,
               whole |-> w]
    BY Zenon DEF Dumped
  <2>2. c.data = copy[p] /\ c.whole = w
    BY <2>1
  <2>3. Size(copy[p]) > z => w = TRUE
    BY <2>1
  <2> QED BY <2>2, <2>3
<1>4. \A q \in Procs \ {p} : ~ solo[q]
  BY <1>1, OthersNotLone DEF Busy
<1>5. LoneWrites'
  <2> SUFFICES ASSUME solo[p]
               PROVE  /\ fd[p] = tmp
                      /\ disk'[tmp].data = After(op[p], Visible')
                      /\ crashes = 0 => disk'[tmp].whole
    BY <1>1, <1>4 DEF LoneWrites
  <2>1. /\ fd[p] = tmp /\ fd[p] \in Inodes /\ copy[p] = After(op[p], Visible)
        /\ crashes = 0 => disk[tmp].size = 0
    BY <1>1 DEF LoneWrites, Handles
  <2>2. disk'[tmp] = c /\ disk'[path] = disk[path]
    BY <1>2, <2>1 DEF StoreTypeOK
  <2>3. Visible' = Visible
    BY <1>1, <2>2 DEF Visible
  <2>4. Size(copy[p]) > 0
    <3>1. IsFiniteSet({t \in Tokens : copy[p][t] # "absent"})
      BY StoreAssumption, FS_Subset
    <3>2. Cardinality({t \in Tokens : copy[p][t] # "absent"}) \in Nat
      BY <3>1, FS_CardinalityType
    <3> QED BY <3>2 DEF Size
  <2> QED BY <1>3, <2>1, <2>2, <2>3, <2>4
<1> QED BY <1>1, <1>5 DEF Held

\* After the end of an operation nobody is alone with one.
LEMMA EndKeepsAtomic ==
  ASSUME AtomicInv, NEW p \in Procs, Rename(p) \/ RenameFails(p) \/ Crash(p)
  PROVE  tmp' # path' /\ Held' /\ LoneWrites'
<1> USE DEF AtomicInv, StoreInv
<1>1. Busy(p) /\ solo' = [solo EXCEPT ![p] = FALSE]
  BY DEF Rename, RenameFails, Crash, Returns, Forget, Busy
<1>2. \A q \in Procs : ~ solo'[q]
  BY <1>1, OthersNotLone DEF StoreTypeOK
<1>3. \/ path' = tmp /\ tmp # NoTmp /\ tmp' = NoTmp
      \/ path' = path /\ tmp' = tmp /\ tmp = NoTmp
      \/ path' = path /\ tmp' = tmp /\ crashes' = crashes + 1
  BY DEF Rename, RenameFails, Crash
<1>4. tmp' # path' /\ Held'
  BY <1>3 DEF Held, StoreTypeOK
<1> QED BY <1>2, <1>4 DEF LoneWrites

LEMMA RespondsKeepsAtomic ==
  ASSUME AtomicInv, NEW p \in Procs, Responds(p)
  PROVE  tmp' # path' /\ Held' /\ LoneWrites'
<1> USE DEF AtomicInv, StoreInv
<1>1. /\ pc[p] = "accepted"
      /\ \A q \in Procs \ {p} : pc'[q] = pc[q] /\ op'[q] = op[q]
      /\ UNCHANGED <<disk, path, tmp, copy, fd, crashes, solo, firm>> /\ Visible' = Visible
  BY DEF Responds, StoreTypeOK, Visible
<1>2. ~ solo[p]
  BY <1>1 DEF Lone, Busy
<1> QED BY <1>1, <1>2 DEF LoneWrites, Held

LEMMA AtomicKept == AtomicInv /\ [Next]_vars => AtomicInv'
<1> SUFFICES ASSUME AtomicInv, [Next]_vars PROVE tmp' # path' /\ Held' /\ LoneWrites'
  BY StoreKept DEF AtomicInv
<1>1. CASE \E p \in Procs : StoreStep(p)
  BY <1>1, OpenKeepsAtomic, WriteKeepsAtomic, EndKeepsAtomic DEF StoreStep
<1>2. ASSUME NEW w \in Workers, Request(w) \/ AdminServed(w)
      PROVE  tmp' # path' /\ Held' /\ LoneWrites'
  <2>1. w \in Procs /\ ~ Busy(w)
    BY <1>2 DEF Procs, Request, AdminServed, Busy
  <2> QED BY <1>2, <2>1, OperationsKeepAtomic DEF Request, AdminServed
<1>3. ASSUME NEW w \in Workers, StreamServed(w) \/ OtherServed(w)
      PROVE  tmp' # path' /\ Held' /\ LoneWrites'
  BY <1>3, RespondsKeepsAtomic DEF StreamServed, OtherServed, Procs
<1>4. ASSUME NEW c \in Clis, CliRuns(c)
      PROVE  tmp' # path' /\ Held' /\ LoneWrites'
  <2>1. c \in Procs /\ ~ Busy(c)
    BY <1>4 DEF Procs, CliRuns, Busy
  <2> QED BY <1>4, <2>1, OperationsKeepAtomic DEF CliRuns
<1>5. CASE UNCHANGED storeVars
  BY <1>5 DEF storeVars, AtomicInv, Held, LoneWrites, Visible
<1> QED BY <1>1, <1>2, <1>3, <1>4, <1>5 DEF Next, Tick, vars

LEMMA InitAtomic == Init => AtomicInv
<1> SUFFICES ASSUME Init PROVE AtomicInv
  OBVIOUS
<1>1. StoreInv
  BY InitStore DEF Init
<1>2. tmp = NoTmp /\ path \in Inodes /\ solo = [p \in Procs |-> FALSE]
  BY DEF Init, StoreInit
<1> QED BY <1>1, <1>2, StoreConstants DEF AtomicInv, Held, LoneWrites

\* Which steps end a process's operation.
LEMMA WhoFinishes ==
  ASSUME AtomicInv, [Next]_vars, NEW p \in Procs, Finishes(p)
  PROVE  Rename(p) \/ RenameFails(p)
<1>1. pc \in [Procs -> {"idle", "read", "opened", "written", "accepted"}]
  BY DEF AtomicInv, StoreInv, StoreTypeOK
<1>2. pc[p] = "written" /\ pc'[p] # pc[p] /\ crashes' = crashes /\ crashes \in Nat
  BY StoreConstants DEF Finishes, AtomicInv, StoreInv, StoreTypeOK
<1>3. CASE \E q \in Procs : StoreStep(q)
  <2>1. PICK q \in Procs : StoreStep(q)
    BY <1>3
  <2>2. \E x : pc' = [pc EXCEPT ![q] = x]
    BY <2>1 DEF StoreStep, OpenTmp, WriteTmp, Rename, RenameFails, Returns, Crash
  <2>3. q = p
    BY <1>1, <1>2, <2>2
  <2>4. ~ OpenTmp(p) /\ ~ WriteTmp(p) /\ ~ Crash(p)
    BY <1>2 DEF OpenTmp, WriteTmp, Crash
  <2> QED BY <2>1, <2>3, <2>4 DEF StoreStep
<1>4. CASE \E q \in Procs : \E x : pc[q] # "written" /\ pc' = [pc EXCEPT ![q] = x]
  BY <1>1, <1>2, <1>4
<1>5. CASE UNCHANGED storeVars
  BY <1>2, <1>5 DEF storeVars
<1>6. ASSUME NEW w \in Workers, \/ Request(w) \/ AdminServed(w) \/ StreamServed(w) \/ OtherServed(w)
      PROVE  \E q \in Procs : \E x : pc[q] # "written" /\ pc' = [pc EXCEPT ![q] = x]
  BY <1>6 DEF Request, AdminServed, StreamServed, OtherServed, Responds, Verify, Mint,
              Revoke, Reads, Procs
<1>7. ASSUME NEW c \in Clis, CliRuns(c)
      PROVE  \E q \in Procs : \E x : pc[q] # "written" /\ pc' = [pc EXCEPT ![q] = x]
  BY <1>7 DEF CliRuns, Mint, Revoke, Reads, Procs
<1> QED BY <1>3, <1>4, <1>5, <1>6, <1>7 DEF Next, Tick, vars

\* mint, revoke and verify are all or nothing when nobody else writes, and what they
\* leave is what they set out to write, if no crash left a longer temporary file
\* (auth.py _write).
THEOREM LoneOperationsAreAtomic == Spec => SoloIsAtomic
<1>1. ASSUME AtomicInv, [Next]_vars, NEW p \in Procs, Finishes(p), solo[p],
             crashes = 0 \/ disk[fd[p]].whole
      PROVE  Visible' = After(op[p], Visible)
  <2>1. /\ pc[p] = "written" /\ fd[p] = tmp /\ tmp \in Inodes
        /\ disk[tmp].data = After(op[p], Visible) /\ disk[tmp].whole
    BY <1>1 DEF Finishes, AtomicInv, LoneWrites, StoreInv, Handles
  <2>2. Rename(p)
    BY <1>1, <2>1, WhoFinishes, StoreConstants DEF RenameFails
  <2>3. path' = tmp /\ disk'[tmp] = disk[tmp]
    BY <2>1, <2>2 DEF Rename, Frees
  <2> QED BY <2>1, <2>3 DEF Visible, Parsed
<1>2. AtomicInv /\ [Next]_vars =>
        [\A p \in Procs :
           Finishes(p) /\ solo[p] /\ (crashes = 0 \/ disk[fd[p]].whole)
             => Visible' = After(op[p], Visible)]_storeVars
  BY <1>1
<1> QED BY <1>2, InitAtomic, AtomicKept, PTL DEF Spec, SoloIsAtomic

\* Until its rename a lone operation shows nothing of itself, and if it is killed it
\* never does: the file's inode is not the temporary one (auth.py _write).
THEOREM NothingShowsBeforeRename == Spec => UnseenUntilRename
<1> DEFINE Raced == \E p \in Procs : Busy(p) /\ ~ solo[p]
<1>1. ASSUME AtomicInv, NEW p \in Procs, StoreStep(p), path' = path, ~ Raced
      PROVE  Visible' = Visible
  <2>1. path \in Inodes /\ tmp # path
    BY <1>1 DEF AtomicInv, StoreInv, StoreTypeOK
  <2>2. CASE OpenTmp(p)
    <3>1. tmp' # path'
      BY <1>1, <2>2, OpenKeepsAtomic
    <3>2. disk'[path] = disk[path]
      BY <1>1, <2>1, <2>2, <3>1 DEF OpenTmp, AtomicInv, StoreInv, StoreTypeOK
    <3> QED BY <1>1, <3>2 DEF Visible
  <2>3. CASE WriteTmp(p)
    <3>1. pc[p] = "opened" /\ solo[p]
      BY <1>1, <2>3 DEF WriteTmp, Busy
    <3>2. fd[p] = tmp
      BY <1>1, <3>1 DEF AtomicInv, LoneWrites
    <3>3. disk'[path] = disk[path]
      BY <1>1, <2>1, <2>3, <3>2 DEF WriteTmp, AtomicInv, StoreInv, StoreTypeOK
    <3> QED BY <1>1, <3>3 DEF Visible
  <2>4. CASE Frees
    <3>1. disk'[path] = disk[path]
      BY <1>1, <2>1, <2>4 DEF Frees
    <3> QED BY <1>1, <3>1 DEF Visible
  <2> QED BY <1>1, <2>2, <2>3, <2>4 DEF StoreStep, Rename, RenameFails, Crash
<1>2. ASSUME ~ (\E p \in Procs : StoreStep(p)), [Next]_vars
      PROVE  Visible' = Visible
  <2>1. disk' = disk /\ path' = path
    BY <1>2 DEF Next, Tick, vars, storeVars, Request, AdminServed, StreamServed, OtherServed,
                Responds, CliRuns, Mint, Revoke, Verify, Reads
  <2> QED BY <2>1 DEF Visible
<1>3. AtomicInv /\ [Next]_vars =>
        [Visible' # Visible =>
           \/ path' # path
           \/ \E p \in Procs : Busy(p) /\ ~ solo[p]]_storeVars
  BY <1>1, <1>2
<1> QED BY <1>3, InitAtomic, AtomicKept, PTL DEF Spec, UnseenUntilRename
===============================================================================
