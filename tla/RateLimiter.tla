---------------------------- MODULE RateLimiter ----------------------------
(***************************************************************************)
(* The Writer's per-key token bucket, internal/middleware/middleware.go.   *)
(*                                                                         *)
(* Allow reads the clock before it takes the mutex, so requests of one key *)
(* can update its bucket in another order than that of their timestamps,   *)
(* and a bucket's last can move back.                                      *)
(*                                                                         *)
(* The code's tokens are float64 and refill at rate per second.  Here time *)
(* passes in ticks and tokens are counted in a unit of which a request     *)
(* costs Cost and a tick brings Rate: a rate of 20 per second is Rate = 20 *)
(* and Cost = 1000 with ticks of a millisecond.  Rounding is left out.     *)
(* A rate of 0 disables the limiter: Allow returns true before it reads    *)
(* anything, and this module is about the limiter that is enabled.         *)
(***************************************************************************)
EXTENDS Integers

CONSTANTS
  Keys,       \* identities: API key ids, or client addresses
  Requests,   \* requests being handled, each by its own goroutine
  Rate,       \* units a tick brings
  Burst,      \* the ceiling of a bucket, in units
  Cost,       \* units a request costs
  MaxClock    \* bound on time

ASSUME RateAssumption ==
  /\ Keys # {}
  /\ Rate \in Nat \ {0}
  /\ Cost \in Nat \ {0}
  /\ Burst \in Nat /\ Burst >= Cost
  /\ MaxClock \in Nat

VARIABLES
  clock,     \* the monotonic clock
  buckets,   \* rl.buckets
  request,   \* where each request is in Middleware and Allow
  newest,    \* the latest timestamp that has reached each bucket
  spent,     \* what the admitted requests of each key have cost
  mark       \* spent and newest at some earlier time, chosen freely

vars == <<clock, buckets, request, newest, spent, mark>>

NoBucket == [known |-> FALSE, tokens |-> 0, last |-> 0]
NoRequest == [pc |-> "idle", key |-> CHOOSE k \in Keys : TRUE, now |-> 0]

Init ==
  /\ clock = 0
  /\ buckets = [k \in Keys |-> NoBucket]
  /\ request = [r \in Requests |-> NoRequest]
  /\ newest = [k \in Keys |-> 0]
  /\ spent = [k \in Keys |-> 0]
  /\ mark = [k \in Keys |-> [spent |-> 0, newest |-> 0]]

Tick ==
  /\ clock < MaxClock
  /\ clock' = clock + 1
  /\ UNCHANGED <<buckets, request, newest, spent, mark>>

\* Mutation: the timestamp is rounded up to the next tick.
\* Middleware picks the key, Allow reads time.Now() and waits for the mutex.
Arrive(r, k) ==
  /\ request[r].pc = "idle"
  /\ request' = [request EXCEPT ![r] = [pc |-> "waiting", key |-> k, now |-> clock]]
  /\ UNCHANGED <<clock, buckets, newest, spent, mark>>

Lesser(x, y) == IF x <= y THEN x ELSE y
Later(x, y) == IF x <= y THEN y ELSE x

\* Mutation: the refilled tokens are not capped.
RefilledUncapped(b, now) == b.tokens + (now - b.last) * Rate

\* b.tokens after the refill: elapsed is negative when now is before b.last.
Refilled(b, now) == Lesser(Burst, b.tokens + (now - b.last) * Rate)

\* Mutation: a request that is denied is charged all the same.
BucketCharged(b, now) ==
  [b EXCEPT !.tokens = Refilled(b, now) - Cost, !.last = now]

\* The bucket after the request, which is admitted if the tokens suffice.
Bucket(b, now) ==
  [b EXCEPT !.tokens = IF Refilled(b, now) >= Cost THEN Refilled(b, now) - Cost
                                                   ELSE Refilled(b, now),
            !.last = now]

\* A new caller starts with a full burst, minus this request.
FullBucket(now) == [known |-> TRUE, tokens |-> Burst - Cost, last |-> now]

\* Does Allow return true for a request with timestamp now?
Admits(b, now) == ~b.known \/ Refilled(b, now) >= Cost

Done(r) == request' = [request EXCEPT ![r] = NoRequest]

\* The first request of a key.
AllowNew(r) ==
  LET k == request[r].key  now == request[r].now IN
  /\ request[r].pc = "waiting"
  /\ ~buckets[k].known
  /\ buckets' = [buckets EXCEPT ![k] = FullBucket(now)]
  /\ newest' = [newest EXCEPT ![k] = now]
  /\ spent' = [spent EXCEPT ![k] = Cost]
  /\ mark' = [mark EXCEPT ![k] = [spent |-> 0, newest |-> now]]
  /\ Done(r)
  /\ UNCHANGED clock

\* A request of a known key: admitted, or answered 429.
AllowKnown(r) ==
  LET k == request[r].key  now == request[r].now IN
  /\ request[r].pc = "waiting"
  /\ buckets[k].known
  /\ buckets' = [buckets EXCEPT ![k] = Bucket(@, now)]
  /\ newest' = [newest EXCEPT ![k] = Later(@, now)]
  /\ spent' = [spent EXCEPT ![k] =
                 IF Admits(buckets[k], now) THEN @ + Cost ELSE @]
  /\ Done(r)
  /\ UNCHANGED <<clock, mark>>

\* Not a step of the code: an observer starts a new window for key k.
Mark(k) ==
  /\ buckets[k].known
  /\ mark' = [mark EXCEPT ![k] = [spent |-> spent[k], newest |-> newest[k]]]
  /\ UNCHANGED <<clock, buckets, request, newest, spent>>

Next ==
  \/ Tick
  \/ \E r \in Requests, k \in Keys : Arrive(r, k)
  \/ \E r \in Requests : AllowNew(r) \/ AllowKnown(r)
  \/ \E k \in Keys : Mark(k)

Spec == Init /\ [][Next]_vars

-----------------------------------------------------------------------------
\* Types, and no timestamp is ahead of the clock.
TypeOK ==
  /\ clock \in Nat
  /\ buckets \in [Keys -> [known : BOOLEAN, tokens : Int, last : Nat]]
  /\ request \in [Requests -> [pc : {"idle", "waiting"}, key : Keys, now : Nat]]
  /\ newest \in [Keys -> Nat]
  /\ spent \in [Keys -> Nat]
  /\ mark \in [Keys -> [spent : Nat, newest : Nat]]
  /\ \A r \in Requests : request[r].now <= clock

\* The rate limit: in every window, what a key's admitted requests cost is at
\* most the burst plus what the window's length refills.  It holds although
\* Allow reads the clock before the mutex and elapsed may be negative.
WindowBound ==
  \A k \in Keys :
    buckets[k].known =>
      spent[k] - mark[k].spent <= Burst + Rate * (newest[k] - mark[k].newest)

\* A key that paces itself is served: a request is denied only if its
\* timestamp is less than the refill time of one request after the latest one
\* that reached the bucket.  Requests that reach the bucket late with an
\* older timestamp do not take from those that come after.
PacedIsServed ==
  [][\A r \in Requests :
       LET k == request[r].key  now == request[r].now IN
       (request[r].pc = "waiting" /\ request'[r].pc = "idle"
        /\ ~Admits(buckets[k], now))
       => Rate * (now - newest[k]) < Cost]_vars

=============================================================================
