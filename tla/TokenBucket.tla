------------------------------ MODULE TokenBucket ------------------------------
(***************************************************************************)
(* The token bucket of rate_limit.py.  Time is counted in ticks in which   *)
(* one unit is refilled, and a session costs Cost units, so that with      *)
(* session_bucket_refill_per_sec = 0.1 and ticks of a second Cost is 10.   *)
(* A bucket is what the object holds: the units left when it was last      *)
(* looked at, and the ticks since then, counted up to the time in which    *)
(* any bucket fills.                                                       *)
(***************************************************************************)
EXTENDS Integers

CONSTANTS Capacity,   \* settings.session_bucket_capacity: sessions in a burst
          Cost        \* units per session

ASSUME BucketAssumption == Capacity \in Nat \ {0} /\ Cost \in Nat \ {0}

Full == Capacity * Cost

Smaller(a, b) == IF a <= b THEN a ELSE b

Buckets == [units : 0..Full, since : 0..Full]

NewBucket == [units |-> Full, since |-> 0]

TickBucket(b) == [b EXCEPT !.since = Smaller(Full, @ + 1)]

Refilled(b) == Smaller(Full, b.units + b.since)

Grants(b) == Refilled(b) >= Cost

\* Mutation: the time of the last look is kept, so ticks are refilled again.
AcquireKeepsTime(b) ==
  [b EXCEPT !.units = IF Grants(b) THEN Refilled(b) - Cost ELSE Refilled(b)]

\* acquire(): refill for the time since the last look, and spend if it suffices.
Acquire(b) ==
  [units |-> IF Grants(b) THEN Refilled(b) - Cost ELSE Refilled(b), since |-> 0]
===============================================================================
