------------------------- MODULE RateLimiterProofs -------------------------
(***************************************************************************)
(* The rate limit and the service guarantee of RateLimiter, for every      *)
(* rate, burst and cost and any number of keys and requests.               *)
(***************************************************************************)
EXTENDS RateLimiter, TLAPS

\* What t ticks bring.
Refill(t) == Rate * t

\* The facts about products that the proofs use; Refill is not expanded below.
LEMMA RefillInt ==
  ASSUME NEW t \in Int
  PROVE  Refill(t) \in Int
BY RateAssumption DEF Refill

LEMMA RefillMinus ==
  ASSUME NEW t \in Int, NEW u \in Int
  PROVE  /\ Rate * (t - u) = Refill(t) - Refill(u)
         /\ (t - u) * Rate = Refill(t) - Refill(u)
<1>1. Rate \in Int
  BY RateAssumption
<1> QED BY <1>1 DEF Refill

LEMMA RefillMonotone ==
  ASSUME NEW t \in Int, NEW u \in Int, t <= u
  PROVE  Refill(t) <= Refill(u)
<1>1. Rate \in Int /\ Rate > 0
  BY RateAssumption
<1> QED BY <1>1 DEF Refill

\* The tokens of a known bucket, seen at the newest timestamp that reached it:
\* never below zero and never above the burst; and what the window admitted
\* was paid from the burst and the refill up to the bucket's last.
BucketInv(k) ==
  buckets[k].known =>
    /\ 0 <= buckets[k].tokens + Refill(newest[k]) - Refill(buckets[k].last)
    /\ buckets[k].tokens + Refill(newest[k]) - Refill(buckets[k].last) <= Burst
    /\ spent[k] - mark[k].spent + buckets[k].tokens - Refill(buckets[k].last)
         <= Burst - Refill(mark[k].newest)

Inv == TypeOK /\ \A k \in Keys : BucketInv(k)

LEMMA InvInit == Init => Inv
<1> SUFFICES ASSUME Init PROVE Inv
  OBVIOUS
<1>1. NoRequest \in [pc : {"idle", "waiting"}, key : Keys, now : Nat] /\ NoRequest.now = 0
  BY RateAssumption DEF NoRequest
<1>2. NoBucket \in [known : BOOLEAN, tokens : Int, last : Nat] /\ NoBucket.known = FALSE
  BY DEF NoBucket
<1>3. TypeOK
  BY <1>1, <1>2 DEF Init, TypeOK
<1>4. \A k \in Keys : BucketInv(k)
  BY <1>2 DEF Init, BucketInv
<1> QED BY <1>3, <1>4 DEF Inv

\* The arithmetic of one request at a known bucket.
LEMMA BucketStep ==
  ASSUME NEW b \in [known : BOOLEAN, tokens : Int, last : Nat],
         NEW now \in Nat, NEW new \in Nat,
         0 <= b.tokens + Refill(new) - Refill(b.last),
         b.tokens + Refill(new) - Refill(b.last) <= Burst
  PROVE  LET c == Bucket(b, now)
             latest == Later(new, now)
             paid == IF Refilled(b, now) >= Cost THEN Cost ELSE 0
         IN /\ c \in [known : BOOLEAN, tokens : Int, last : Nat]
            /\ c.known = b.known /\ latest \in Nat
            /\ 0 <= c.tokens + Refill(latest) - Refill(c.last)
            /\ c.tokens + Refill(latest) - Refill(c.last) <= Burst
            /\ paid + c.tokens - Refill(c.last) <= b.tokens - Refill(b.last)
            /\ Refilled(b, now) < Cost => Refill(now) - Refill(new) < Cost
<1> DEFINE raw == b.tokens + Refill(now) - Refill(b.last)
           full == Refilled(b, now)
           left == IF full >= Cost THEN full - Cost ELSE full
           latest == Later(new, now)
           c == Bucket(b, now)
<1>0. /\ Burst \in Int /\ Cost \in Int /\ Cost > 0 /\ Burst >= Cost
      /\ b.tokens \in Int /\ b.last \in Nat /\ b.known \in BOOLEAN
  BY RateAssumption
<1>1. /\ Refill(now) \in Int /\ Refill(new) \in Int /\ Refill(b.last) \in Int
      /\ (now - b.last) * Rate = Refill(now) - Refill(b.last)
      /\ now <= new => Refill(now) <= Refill(new)
      /\ new <= now => Refill(new) <= Refill(now)
  <2>1. now \in Int /\ new \in Int /\ b.last \in Int
    BY <1>0
  <2>2. Refill(now) \in Int /\ Refill(new) \in Int /\ Refill(b.last) \in Int
    BY <2>1, RefillInt
  <2>3. (now - b.last) * Rate = Refill(now) - Refill(b.last)
    BY <2>1, RefillMinus
  <2>4. /\ now <= new => Refill(now) <= Refill(new)
        /\ new <= now => Refill(new) <= Refill(now)
    BY <2>1, RefillMonotone
  <2> QED BY <2>2, <2>3, <2>4
<1>2. full = (IF Burst <= raw THEN Burst ELSE raw) /\ raw \in Int
  BY <1>0, <1>1 DEF Refilled, Lesser
<1>3. /\ latest = (IF new <= now THEN now ELSE new) /\ latest \in Nat
      /\ Refill(latest) = (IF new <= now THEN Refill(now) ELSE Refill(new))
  BY DEF Later
<1>4. /\ c.tokens = left /\ c.last = now /\ c.known = b.known
      /\ c = [known |-> b.known, tokens |-> left, last |-> now]
  <2>1. c = [b EXCEPT !.tokens = left, !.last = now]
    BY DEF Bucket
  <2> HIDE DEF left, c
  <2> QED BY <2>1
<1> HIDE DEF c, latest, full
<1>5. left \in Int
  BY <1>0, <1>2
<1>6. c \in [known : BOOLEAN, tokens : Int, last : Nat]
  BY <1>0, <1>4, <1>5
<1>7. 0 <= left + Refill(latest) - Refill(now)
  BY <1>0, <1>1, <1>2, <1>3
<1>8. left + Refill(latest) - Refill(now) <= Burst
  BY <1>0, <1>1, <1>2, <1>3
<1>9. (IF full >= Cost THEN Cost ELSE 0) + left - Refill(now)
         <= b.tokens - Refill(b.last)
  BY <1>0, <1>1, <1>2
<1>10. full < Cost => Refill(now) - Refill(new) < Cost
  BY <1>0, <1>1, <1>2
<1> QED BY <1>3, <1>4, <1>6, <1>7, <1>8, <1>9, <1>10 DEF c, latest, full

LEMMA InvNext == Inv /\ [Next]_vars => Inv'
<1> SUFFICES ASSUME Inv, [Next]_vars PROVE Inv'
  OBVIOUS
<1> DEFINE B == [known : BOOLEAN, tokens : Int, last : Nat]
           Q == [pc : {"idle", "waiting"}, key : Keys, now : Nat]
<1>0. /\ clock \in Nat /\ buckets \in [Keys -> B] /\ request \in [Requests -> Q]
      /\ newest \in [Keys -> Nat] /\ spent \in [Keys -> Nat]
      /\ mark \in [Keys -> [spent : Nat, newest : Nat]]
      /\ \A r \in Requests : request[r].now <= clock
      /\ \A k \in Keys : BucketInv(k)
  BY DEF Inv, TypeOK
<1>1. Burst \in Nat /\ Cost \in Nat /\ Burst >= Cost
  BY RateAssumption
<1>2. NoRequest \in Q /\ NoRequest.now = 0
  BY RateAssumption DEF NoRequest
<1>3. CASE UNCHANGED vars
  BY <1>0, <1>3 DEF vars, Inv, TypeOK, BucketInv
<1>4. CASE Tick
  <2>1. UNCHANGED <<buckets, request, newest, spent, mark>> /\ clock' = clock + 1
    BY <1>4 DEF Tick
  <2>2. TypeOK'
    BY <1>0, <2>1 DEF TypeOK
  <2> QED BY <1>0, <2>1, <2>2 DEF Inv, BucketInv
<1>5. ASSUME NEW r \in Requests, NEW k \in Keys, Arrive(r, k) PROVE Inv'
  <2>1. /\ UNCHANGED <<clock, buckets, newest, spent, mark>>
        /\ request' = [request EXCEPT ![r] = [pc |-> "waiting", key |-> k, now |-> clock]]
    BY <1>5 DEF Arrive
  <2>2. TypeOK'
    BY <1>0, <2>1 DEF TypeOK
  <2> QED BY <1>0, <2>1, <2>2 DEF Inv, BucketInv
<1>6. ASSUME NEW r \in Requests, Done(r)
      PROVE  /\ request' \in [Requests -> Q]
             /\ UNCHANGED clock => \A q \in Requests : request'[q].now <= clock'
  BY <1>0, <1>2, <1>6 DEF Done
<1>7. ASSUME NEW r \in Requests, AllowNew(r) PROVE Inv'
  <2> DEFINE k == request[r].key
             now == request[r].now
  <2>1. k \in Keys /\ now \in Nat /\ Refill(now) \in Int
    BY <1>0, RefillInt
  <2>2. /\ buckets' = [buckets EXCEPT ![k] = FullBucket(now)]
        /\ newest' = [newest EXCEPT ![k] = now]
        /\ spent' = [spent EXCEPT ![k] = Cost]
        /\ mark' = [mark EXCEPT ![k] = [spent |-> 0, newest |-> now]]
        /\ UNCHANGED clock /\ Done(r)
    BY <1>7 DEF AllowNew
  <2>3. /\ FullBucket(now) \in B /\ FullBucket(now).tokens = Burst - Cost
        /\ FullBucket(now).last = now
    BY <1>1, <2>1 DEF FullBucket
  <2> HIDE DEF k, now, B, Q
  <2>4. TypeOK'
    BY <1>0, <1>1, <1>6, <2>1, <2>2, <2>3 DEF TypeOK, B, Q
  <2>5. ASSUME NEW j \in Keys PROVE BucketInv(j)'
    <3>1. CASE j # k
      BY <1>0, <2>2, <3>1 DEF BucketInv
    <3>2. CASE j = k
      BY <1>0, <1>1, <2>1, <2>2, <2>3, <3>2 DEF BucketInv
    <3> QED BY <3>1, <3>2
  <2> QED BY <2>4, <2>5 DEF Inv
<1>8. ASSUME NEW r \in Requests, AllowKnown(r) PROVE Inv'
  <2> DEFINE k == request[r].key
             now == request[r].now
             b == buckets[k]
             paid == IF Refilled(b, now) >= Cost THEN Cost ELSE 0
  <2>1. k \in Keys /\ now \in Nat /\ b \in B /\ b.known /\ newest[k] \in Nat
    BY <1>0, <1>8 DEF AllowKnown
  <2>2. /\ 0 <= b.tokens + Refill(newest[k]) - Refill(b.last)
        /\ b.tokens + Refill(newest[k]) - Refill(b.last) <= Burst
        /\ spent[k] - mark[k].spent + b.tokens - Refill(b.last)
             <= Burst - Refill(mark[k].newest)
    BY <1>0, <2>1 DEF BucketInv
  <2>3. /\ buckets' = [buckets EXCEPT ![k] = Bucket(b, now)]
        /\ newest' = [newest EXCEPT ![k] = Later(newest[k], now)]
        /\ UNCHANGED <<clock, mark>> /\ Done(r)
    BY <1>8 DEF AllowKnown
  <2>4. spent' = [spent EXCEPT ![k] = spent[k] + paid]
    <3>1. Admits(b, now) <=> Refilled(b, now) >= Cost
      BY <2>1 DEF Admits
    <3>2. spent' = [spent EXCEPT ![k] = IF Admits(b, now) THEN spent[k] + Cost
                                                         ELSE spent[k]]
      BY <1>8 DEF AllowKnown
    <3>3. spent[k] + 0 = spent[k]
      BY <1>0, <2>1
    <3> HIDE DEF k, b, now
    <3> QED BY <3>1, <3>2, <3>3
  <2>5. paid \in Nat
    BY <1>1
  <2> HIDE DEF k, now, b
  <2>6. /\ Bucket(b, now) \in B /\ Later(newest[k], now) \in Nat
        /\ 0 <= Bucket(b, now).tokens + Refill(Later(newest[k], now))
                  - Refill(Bucket(b, now).last)
        /\ Bucket(b, now).tokens + Refill(Later(newest[k], now))
             - Refill(Bucket(b, now).last) <= Burst
        /\ paid + Bucket(b, now).tokens - Refill(Bucket(b, now).last)
             <= b.tokens - Refill(b.last)
    BY <2>1, <2>2, BucketStep
  <2> HIDE DEF paid, B, Q
  <2>7. TypeOK'
    BY <1>0, <1>6, <2>1, <2>3, <2>4, <2>5, <2>6 DEF TypeOK, B, Q
  <2>8. ASSUME NEW j \in Keys PROVE BucketInv(j)'
    <3>1. CASE j # k
      BY <1>0, <2>3, <2>4, <3>1 DEF BucketInv
    <3>2. CASE j = k
      <4>1. /\ buckets'[j] = Bucket(b, now) /\ newest'[j] = Later(newest[k], now)
            /\ spent'[j] = spent[k] + paid /\ mark'[j] = mark[k]
        BY <1>0, <2>1, <2>3, <2>4, <3>2
      <4>2. /\ spent[k] \in Int /\ mark[k].spent \in Int /\ paid \in Int
            /\ Refill(mark[k].newest) \in Int
            /\ b.tokens \in Int /\ Refill(b.last) \in Int
            /\ Bucket(b, now).tokens \in Int /\ Refill(Bucket(b, now).last) \in Int
        BY <1>0, <2>1, <2>5, <2>6, RefillInt DEF B
      <4>3. (spent[k] + paid) - mark[k].spent + Bucket(b, now).tokens
              - Refill(Bucket(b, now).last) <= Burst - Refill(mark[k].newest)
        BY <1>1, <2>2, <2>6, <4>2
      <4>4. /\ 0 <= buckets'[j].tokens + Refill(newest'[j]) - Refill(buckets'[j].last)
            /\ buckets'[j].tokens + Refill(newest'[j]) - Refill(buckets'[j].last)
                 <= Burst
        BY <2>6, <4>1
      <4>5. spent'[j] - mark'[j].spent + buckets'[j].tokens
              - Refill(buckets'[j].last) <= Burst - Refill(mark'[j].newest)
        BY <4>1, <4>3
      <4> QED BY <4>4, <4>5 DEF BucketInv
    <3> QED BY <3>1, <3>2
  <2> QED BY <2>7, <2>8 DEF Inv
<1>9. ASSUME NEW k \in Keys, Mark(k) PROVE Inv'
  <2>1. /\ mark' = [mark EXCEPT ![k] = [spent |-> spent[k], newest |-> newest[k]]]
        /\ UNCHANGED <<clock, buckets, request, newest, spent>> /\ buckets[k].known
    BY <1>9 DEF Mark
  <2>2. TypeOK'
    BY <1>0, <2>1 DEF TypeOK
  <2>3. ASSUME NEW j \in Keys PROVE BucketInv(j)'
    <3>1. CASE j # k
      BY <1>0, <2>1, <3>1 DEF BucketInv
    <3>2. CASE j = k
      <4>1. mark'[j].spent = spent[k] /\ mark'[j].newest = newest[k]
        BY <1>0, <2>1, <3>2
      <4>2. /\ buckets[k].tokens \in Int /\ Refill(newest[k]) \in Int
            /\ Refill(buckets[k].last) \in Int /\ spent[k] \in Int
        BY <1>0, RefillInt
      <4> QED BY <1>0, <1>1, <2>1, <3>2, <4>1, <4>2 DEF BucketInv
    <3> QED BY <3>1, <3>2
  <2> QED BY <2>2, <2>3 DEF Inv
<1> QED BY <1>3, <1>4, <1>5, <1>7, <1>8, <1>9 DEF Next

\* Timestamps never run ahead of the clock, and everything keeps its type.
THEOREM LimiterTypes == Spec => []TypeOK
<1>1. Inv => TypeOK
  BY DEF Inv
<1> QED BY <1>1, InvInit, InvNext, PTL DEF Spec

\* The rate limit holds in every window, for requests in any order.
THEOREM LimitHolds == Spec => []WindowBound
<1>1. Inv => WindowBound
  <2> SUFFICES ASSUME Inv, NEW k \in Keys, buckets[k].known
               PROVE  spent[k] - mark[k].spent
                        <= Burst + Rate * (newest[k] - mark[k].newest)
    BY DEF WindowBound
  <2>1. /\ newest[k] \in Int /\ mark[k].newest \in Int /\ spent[k] \in Int
        /\ mark[k].spent \in Int /\ buckets[k].tokens \in Int
        /\ buckets[k].last \in Int /\ Burst \in Int
    BY RateAssumption DEF Inv, TypeOK
  <2>2. /\ Refill(newest[k]) \in Int /\ Refill(mark[k].newest) \in Int
        /\ Refill(buckets[k].last) \in Int
    BY <2>1, RefillInt
  <2>3. Rate * (newest[k] - mark[k].newest) = Refill(newest[k]) - Refill(mark[k].newest)
    BY <2>1, RefillMinus
  <2>4. /\ 0 <= buckets[k].tokens + Refill(newest[k]) - Refill(buckets[k].last)
        /\ spent[k] - mark[k].spent + buckets[k].tokens - Refill(buckets[k].last)
             <= Burst - Refill(mark[k].newest)
    BY DEF Inv, BucketInv
  <2>5. spent[k] - mark[k].spent
          <= Burst + (Refill(newest[k]) - Refill(mark[k].newest))
    BY <2>1, <2>2, <2>4
  <2> QED BY <2>3, <2>5
<1> QED BY <1>1, InvInit, InvNext, PTL DEF Spec

\* A key that leaves the refill time of one request between its requests is
\* never denied, whatever order its requests reach the bucket in.
THEOREM PacedKeysAreServed == Spec => PacedIsServed
<1>1. ASSUME Inv, NEW r \in Requests, request[r].pc = "waiting",
             ~Admits(buckets[request[r].key], request[r].now)
      PROVE  Rate * (request[r].now - newest[request[r].key]) < Cost
  <2> DEFINE k == request[r].key
             now == request[r].now
             b == buckets[k]
  <2>1. /\ k \in Keys /\ now \in Nat /\ newest[k] \in Nat
        /\ b \in [known : BOOLEAN, tokens : Int, last : Nat]
    BY <1>1 DEF Inv, TypeOK
  <2>2. b.known /\ ~(Refilled(b, now) >= Cost)
    BY <1>1 DEF Admits
  <2>3. /\ 0 <= b.tokens + Refill(newest[k]) - Refill(b.last)
        /\ b.tokens + Refill(newest[k]) - Refill(b.last) <= Burst
    BY <1>1, <2>1, <2>2 DEF Inv, BucketInv
  <2>4. Refilled(b, now) \in Int /\ Cost \in Int
    <3>1. Burst \in Int /\ Cost \in Int /\ Rate \in Int
      BY RateAssumption
    <3>2. b.tokens + (now - b.last) * Rate \in Int
      BY <2>1, <3>1
    <3> QED BY <3>1, <3>2 DEF Refilled, Lesser
  <2> HIDE DEF k, now, b
  <2>5. Refill(now) - Refill(newest[k]) < Cost
    BY <2>1, <2>2, <2>3, <2>4, BucketStep
  <2>6. Rate * (now - newest[k]) = Refill(now) - Refill(newest[k])
    <3>1. now \in Int /\ newest[k] \in Int
      BY <2>1
    <3> QED BY <3>1, RefillMinus
  <2> QED BY <2>5, <2>6 DEF k, now
<1>2. Inv /\ [Next]_vars =>
        [\A r \in Requests :
           LET k == request[r].key  now == request[r].now IN
           (request[r].pc = "waiting" /\ request'[r].pc = "idle"
            /\ ~Admits(buckets[k], now))
           => Rate * (now - newest[k]) < Cost]_vars
  BY <1>1
<1> QED BY <1>2, InvInit, InvNext, PTL DEF Spec, PacedIsServed
=============================================================================
