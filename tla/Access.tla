-------------------------------- MODULE Access --------------------------------
(***************************************************************************)
(* Who gets at the API (api_v1.py): every request is verified against the  *)
(* token store; an admin's may mint and revoke; one that creates a stream  *)
(* takes a slot from the token bucket its worker keeps for the label.  All *)
(* tokens that are not admins' carry one label here.  From verification to *)
(* the end of its handler a request of this kind does not suspend.         *)
(***************************************************************************)
EXTENDS TokenStore, TokenBucket

CONSTANT NoBucket   \* nobody with this label has created a stream yet

ASSUME AccessAssumption == NoBucket \notin Buckets

VARIABLES bucket,   \* _session_buckets of each worker, for the label
          meter     \* history: what a leaking meter shows of the slots granted

bucketVars == <<bucket, meter>>
vars == <<storeVars, bucketVars>>

TypeOK ==
  /\ StoreTypeOK
  /\ bucket \in [Workers -> Buckets \cup {NoBucket}]
  /\ meter \in [Workers -> Nat]

Init ==
  /\ StoreInit
  /\ bucket = [w \in Workers |-> NoBucket]
  /\ meter = [w \in Workers |-> 0]

\* A tick of the clock refills one unit, and the meter leaks one.
Tick ==
  /\ bucket' = [w \in Workers |-> IF bucket[w] = NoBucket THEN NoBucket ELSE TickBucket(bucket[w])]
  /\ meter' = [w \in Workers |-> IF meter[w] > 0 THEN meter[w] - 1 ELSE 0]
  /\ UNCHANGED storeVars

\* require_scopes, verify_query_token and the KCP hello: a bearer that is not in
\* the file, or is revoked there, ends the request with nothing changed.
Request(w) ==
  /\ pc[w] = "idle"
  /\ \E t \in Tokens : Verify(w, t)
  /\ UNCHANGED bucketVars

\* The handler ends: the other routes, and a 403 for a missing scope.
Responds(w) ==
  /\ pc[w] = "accepted"
  /\ pc' = [pc EXCEPT ![w] = "idle"]
  /\ op' = [op EXCEPT ![w] = NoOp]
  /\ UNCHANGED <<disk, path, tmp, copy, fd, crashes, solo, firm>>

\* The admin routes.
AdminServed(w) ==
  /\ pc[w] = "accepted" /\ op[w].token \in Admins
  /\ Mint(w) \/ Revoke(w)
  /\ UNCHANGED bucketVars

\* The slot is spent before the body is looked at.
Slot(w) == IF bucket[w] = NoBucket THEN NewBucket ELSE bucket[w]

\* create_stream: an admin's is not limited; another may be refused with 429.
StreamServed(w) ==
  /\ Responds(w)
  /\ IF op[w].token \in Admins
     THEN UNCHANGED bucketVars
     ELSE /\ bucket' = [bucket EXCEPT ![w] = Acquire(Slot(w))]
          /\ meter' = [meter EXCEPT ![w] = IF Grants(Slot(w)) THEN @ + Cost ELSE @]

OtherServed(w) == Responds(w) /\ UNCHANGED bucketVars

\* python -m rtva.auth mint, revoke.
CliRuns(c) ==
  /\ pc[c] = "idle"
  /\ Mint(c) \/ Revoke(c)
  /\ UNCHANGED bucketVars

Next ==
  \/ \E p \in Procs : StoreStep(p) /\ UNCHANGED bucketVars
  \/ \E w \in Workers : Request(w) \/ AdminServed(w) \/ StreamServed(w) \/ OtherServed(w)
  \/ \E c \in Clis : CliRuns(c)
  \/ Tick

Spec == Init /\ [][Next]_vars

-------------------------------------------------------------------------------
\* However requests and pauses are spread, a label gets no more than a burst of
\* Capacity sessions and one more for every Cost ticks: a meter that leaks at
\* the refill rate never shows more than the capacity.
BurstBound == \A w \in Workers : meter[w] <= Full
===============================================================================
