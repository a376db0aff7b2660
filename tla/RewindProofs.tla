--------------------------- MODULE RewindProofs ---------------------------
(***************************************************************************)
(* Proofs about the rolling segments of buffered mode, for every window,   *)
(* checkout interval and length of a recording: the rewind reaches back    *)
(* far enough, and it does not grow.                                       *)
(***************************************************************************)
EXTENDS RecorderProofs, SequenceTheorems, WellFoundedInduction

\* A non-empty set of naturals has a least element.
LEMMA LeastNatural ==
  ASSUME NEW T, T \subseteq Nat, T # {}
  PROVE  \E m \in T : \A k \in T : m <= k
<1> DEFINE R == OpToRel(<, Nat)
<1>1. PICK m \in T : \A k \in T : ~(<<k, m>> \in R)
  <2> HIDE DEF R
  <2>1. IsWellFoundedOn(R, Nat)
    BY NatLessThanWellFounded DEF R
  <2> QED
    BY <2>1, WFMin
<1>2. \A k \in T : ~(k < m)
  BY <1>1 DEF OpToRel
<1> QED
  BY <1>2

Event == [id : Nat, type : Nat, timestamp : Int]
Segment == Seq(Event) \ {<<>>}

\* What a segment holds came before the next one was opened, and before now.
Ordered(segs) ==
  /\ segs \in Seq(Segment)
  /\ \A k \in 1 .. Len(segs) : \A j \in 1 .. Len(segs[k]) :
       /\ segs[k][j].timestamp <= now
       /\ \A l \in (k + 1) .. Len(segs) : segs[k][j].timestamp <= segs[l][1].timestamp

Held(segs, e) == \E k \in 1 .. Len(segs) : \E j \in 1 .. Len(segs[k]) : segs[k][j] = e

Bounded(segs) ==
  Len(segs) >= 3 => segs[2][1].timestamp > segs[Len(segs)][1].timestamp - BufferMs

\* The first event of a segment.
LEMMA HeadTyped ==
  ASSUME NEW seg \in Segment
  PROVE  /\ Len(seg) \in Nat \ {0} /\ DOMAIN seg = 1 .. Len(seg)
         /\ \A j \in 1 .. Len(seg) : seg[j] \in Event /\ seg[j].timestamp \in Int
         /\ seg[1] \in Event /\ seg[1].timestamp \in Int
<1>1. seg \in Seq(Event) /\ seg # <<>>
  BY DEF Segment
<1>2. Len(seg) \in Nat \ {0} /\ DOMAIN seg = 1 .. Len(seg)
  BY <1>1, EmptySeq, LenProperties
<1>3. \A j \in 1 .. Len(seg) : seg[j] \in Event
  BY <1>1, <1>2, ElementOfSeq
<1>4. \A e \in Event : e.timestamp \in Int
  BY DEF Event
<1> QED
  BY <1>2, <1>3, <1>4

\* The loop of pruneSegments stops somewhere.
LEMMA FirstKeptExists ==
  ASSUME now \in Int, BufferMs \in Nat, NEW segs, segs \in Seq(Segment), segs # <<>>
  PROVE  /\ FirstKept(segs) \in 1 .. Len(segs)
         /\ FirstKept(segs) = Len(segs) \/ segs[FirstKept(segs) + 1][1].timestamp > now - BufferMs
         /\ \A j \in 1 .. (FirstKept(segs) - 1) : segs[j + 1][1].timestamp <= now - BufferMs
<1> DEFINE T == {i \in 1 .. Len(segs) :
                   i = Len(segs) \/ segs[i + 1][1].timestamp > now - BufferMs}
           P(i) == /\ i = Len(segs) \/ segs[i + 1][1].timestamp > now - BufferMs
                   /\ \A j \in 1 .. (i - 1) : segs[j + 1][1].timestamp <= now - BufferMs
<1>0. Len(segs) \in Nat \ {0} /\ DOMAIN segs = 1 .. Len(segs)
  BY EmptySeq, LenProperties
<1>1. Len(segs) \in T /\ T \subseteq Nat
  BY <1>0
<1> HIDE DEF T
<1>2. T \subseteq 1 .. Len(segs)
  BY DEF T
<1>3. PICK m \in 1 .. Len(segs) : m \in T /\ \A k \in T : m <= k
  BY <1>1, <1>2, LeastNatural
<1>4. \A k \in 1 .. Len(segs) : segs[k][1].timestamp \in Int
  BY <1>0, ElementOfSeq, HeadTyped
<1>5. m \in 1 .. Len(segs) /\ P(m)
  <2>1. m = Len(segs) \/ segs[m + 1][1].timestamp > now - BufferMs
    BY <1>3 DEF T
  <2>2. ASSUME NEW j \in 1 .. (m - 1) PROVE segs[j + 1][1].timestamp <= now - BufferMs
    <3>1. j \in 1 .. Len(segs) /\ j # Len(segs) /\ j + 1 \in 1 .. Len(segs) /\ ~(m <= j)
      <4>1. \A n \in Nat : \A b \in 1 .. n : \A a \in 1 .. (b - 1) :
              a \in 1 .. n /\ a # n /\ a + 1 \in 1 .. n /\ ~(b <= a)
        OBVIOUS
      <4>2. Len(segs) \in Nat
        BY <1>0
      <4> QED
        BY <4>1, <4>2, Zenon
    <3>2. j \notin T
      BY <3>1, <1>3
    <3>3. ~(segs[j + 1][1].timestamp > now - BufferMs)
      BY <3>1, <3>2 DEF T
    <3>4. segs[j + 1][1].timestamp \in Int
      BY <3>1, <1>4
    <3> QED
      BY <3>3, <3>4
  <2> QED
    BY <2>1, <2>2
<1>6. FirstKept(segs) = CHOOSE i \in 1 .. Len(segs) : P(i)
  BY <1>0 DEF FirstKept
<1> HIDE DEF P
<1>7. FirstKept(segs) \in 1 .. Len(segs) /\ P(FirstKept(segs))
  BY <1>5, <1>6
<1> QED
  BY <1>7 DEF P

\* The segments of an ordered sequence.
LEMMA SegmentTyped ==
  ASSUME NEW segs, segs \in Seq(Segment)
  PROVE  /\ Len(segs) \in Nat
         /\ \A k \in 1 .. Len(segs) :
              /\ segs[k] \in Segment /\ Len(segs[k]) \in Nat \ {0}
              /\ segs[k][1].timestamp \in Int
              /\ \A j \in 1 .. Len(segs[k]) : segs[k][j].timestamp \in Int
BY ElementOfSeq, LenProperties, HeadTyped

\* pruneSegments drops nothing of the window, keeps the last segment, and of
\* what it keeps only the first segment was opened before the window.
LEMMA PruneKeeps ==
  ASSUME now \in Int, BufferMs \in Nat, NEW segs, Ordered(segs), segs # <<>>
  PROVE  /\ Ordered(pruneSegments(segs))
         /\ Len(pruneSegments(segs)) \in Nat \ {0}
         /\ pruneSegments(segs)[Len(pruneSegments(segs))] = segs[Len(segs)]
         /\ \A e : Held(segs, e) /\ e.timestamp > now - BufferMs => Held(pruneSegments(segs), e)
         /\ Len(pruneSegments(segs)) >= 2 =>
              pruneSegments(segs)[2][1].timestamp > now - BufferMs
<1> DEFINE p == pruneSegments(segs)
           n == Len(segs)
           f == FirstKept(segs)
<1>1. segs \in Seq(Segment) /\ n \in Nat \ {0}
  BY EmptySeq, LenProperties DEF Ordered
<1>2. /\ f \in 1 .. n
      /\ f = n \/ segs[f + 1][1].timestamp > now - BufferMs
      /\ \A j \in 1 .. (f - 1) : segs[j + 1][1].timestamp <= now - BufferMs
  BY <1>1, FirstKeptExists
<1>3. /\ p \in Seq(Segment) /\ Len(p) = n - f + 1
      /\ \A i \in 1 .. (n - f + 1) : p[i] = segs[f + i - 1]
  <2> HIDE DEF n, f
  <2>1. p = SubSeq(segs, f, n)
    BY DEF pruneSegments, n, f
  <2>2. f \in 1 .. n + 1 /\ n \in f - 1 .. Len(segs)
    BY <1>1, <1>2 DEF n
  <2> QED
    BY <1>1, <1>2, <2>1, <2>2, SubSeqProperties DEF n
<1> HIDE DEF p, n, f
<1>4. \A i \in 1 .. Len(p) : f + i - 1 \in f .. n /\ f + i - 1 \in 1 .. n /\ p[i] = segs[f + i - 1]
  BY <1>1, <1>2, <1>3
<1>5. \A k \in f .. n : k - f + 1 \in 1 .. Len(p) /\ p[k - f + 1] = segs[k]
  <2> TAKE k \in f .. n
  <2>1. k - f + 1 \in 1 .. (n - f + 1) /\ f + (k - f + 1) - 1 = k
    BY <1>1, <1>2
  <2>2. p[k - f + 1] = segs[f + (k - f + 1) - 1]
    BY <2>1, <1>3, Zenon
  <2> QED
    BY <2>1, <2>2, <1>3, Zenon
<1>6. Len(p) \in Nat \ {0} /\ p[Len(p)] = segs[n]
  <2>1. n - f + 1 \in Nat \ {0} /\ n \in f .. n
    BY <1>1, <1>2
  <2> QED
    BY <2>1, <1>3, <1>5, Zenon
<1>7. Ordered(p)
  <2> SUFFICES ASSUME NEW k \in 1 .. Len(p), NEW j \in 1 .. Len(p[k])
               PROVE  /\ p[k][j].timestamp <= now
                      /\ \A l \in (k + 1) .. Len(p) : p[k][j].timestamp <= p[l][1].timestamp
    BY <1>3 DEF Ordered
  <2>1. f + k - 1 \in 1 .. n /\ p[k] = segs[f + k - 1]
    BY <1>4
  <2>2. p[k][j].timestamp <= now
    BY <2>1 DEF Ordered, n
  <2>3. ASSUME NEW l \in (k + 1) .. Len(p) PROVE p[k][j].timestamp <= p[l][1].timestamp
    <3>1. l \in 1 .. Len(p)
      BY <1>6
    <3>2. f + l - 1 \in 1 .. n /\ p[l] = segs[f + l - 1]
      BY <1>4, <3>1
    <3>3. f + l - 1 \in (f + k - 1) + 1 .. n
      BY <1>1, <1>2, <2>1, <3>1, <3>2, <1>6
    <3> QED
      BY <2>1, <3>2, <3>3 DEF Ordered, n
  <2> QED
    BY <2>2, <2>3
<1>8. ASSUME NEW e, Held(segs, e), e.timestamp > now - BufferMs PROVE Held(p, e)
  <2>1. PICK k \in 1 .. n : \E j \in 1 .. Len(segs[k]) : segs[k][j] = e
    BY <1>8 DEF Held, n
  <2>2. PICK j \in 1 .. Len(segs[k]) : segs[k][j] = e
    BY <2>1
  <2>3. CASE k \in f .. n
    BY <2>2, <2>3, <1>5 DEF Held
  <2>4. CASE k \notin f .. n
    <3>1. f \in (k + 1) .. n /\ f - 1 \in 1 .. (f - 1) /\ (f - 1) + 1 = f
      BY <2>4, <1>1, <1>2
    <3>2. e.timestamp <= segs[f][1].timestamp
      BY <3>1, <2>2 DEF Ordered, n
    <3>3. segs[f][1].timestamp <= now - BufferMs
      BY <3>1, <1>2
    <3>4. e.timestamp \in Int /\ segs[f][1].timestamp \in Int
      BY <1>1, <1>2, <2>2, SegmentTyped DEF n
    <3> QED
      BY <3>2, <3>3, <3>4, <1>8
  <2> QED
    BY <2>3, <2>4
<1>9. Len(p) >= 2 => p[2][1].timestamp > now - BufferMs
  <2> HAVE Len(p) >= 2
  <2>1. f # n /\ 2 \in 1 .. Len(p) /\ f + 2 - 1 = f + 1
    BY <1>1, <1>2, <1>3
  <2> QED
    BY <2>1, <1>2, <1>4
<1> QED
  BY <1>6, <1>7, <1>8, <1>9 DEF p, n

\* A checkout, or the first event, opens a segment.
LEMMA OpenKeeps ==
  ASSUME now \in Int, NEW segs, Ordered(segs), NEW e \in Event, e.timestamp = now
  PROVE  /\ Ordered(Append(segs, <<e>>)) /\ Append(segs, <<e>>) # <<>>
         /\ Append(segs, <<e>>)[Len(Append(segs, <<e>>))] = <<e>>
         /\ Held(Append(segs, <<e>>), e)
         /\ \A d : Held(segs, d) => Held(Append(segs, <<e>>), d)
<1> DEFINE q == Append(segs, <<e>>)
           n == Len(segs)
<1>1. segs \in Seq(Segment) /\ n \in Nat
  BY LenProperties DEF Ordered
<1>2. <<e>> \in Segment /\ Len(<<e>>) = 1 /\ <<e>>[1] = e
  BY DEF Segment
<1>3. /\ q \in Seq(Segment) /\ q # <<>> /\ Len(q) = n + 1
      /\ \A i \in 1 .. n : q[i] = segs[i]
      /\ q[n + 1] = <<e>>
  <2> HIDE DEF n
  <2> QED
    BY <1>1, <1>2, AppendProperties DEF n
<1> HIDE DEF q, n
<1>4. \A k \in 1 .. Len(q) : k \in 1 .. n \/ k = n + 1
  BY <1>1, <1>3
<1>5. n + 1 \in 1 .. Len(q) /\ \A k \in 1 .. n : k \in 1 .. Len(q)
  BY <1>1, <1>3
<1>6. Ordered(q)
  <2> SUFFICES ASSUME NEW k \in 1 .. Len(q), NEW j \in 1 .. Len(q[k])
               PROVE  /\ q[k][j].timestamp <= now
                      /\ \A l \in (k + 1) .. Len(q) : q[k][j].timestamp <= q[l][1].timestamp
    BY <1>3 DEF Ordered
  <2>1. CASE k = n + 1
    BY <2>1, <1>1, <1>2, <1>3
  <2>2. CASE k \in 1 .. n
    <3>1. j \in 1 .. Len(segs[k]) /\ q[k] = segs[k]
      BY <2>2, <1>3
    <3>2. q[k][j].timestamp <= now
      BY <3>1, <2>2 DEF Ordered, n
    <3>3. ASSUME NEW l \in (k + 1) .. Len(q) PROVE q[k][j].timestamp <= q[l][1].timestamp
      <4>1. CASE l \in (k + 1) .. n
        <5>1. q[l] = segs[l]
          BY <4>1, <2>2, <1>1, <1>3
        <5> QED
          BY <3>1, <4>1, <2>2, <5>1 DEF Ordered, n
      <4>2. CASE l = n + 1
        BY <4>2, <3>2, <1>2, <1>3
      <4> QED
        BY <4>1, <4>2, <2>2, <1>1, <1>3
    <3> QED
      BY <3>2, <3>3
  <2> QED
    BY <2>1, <2>2, <1>4
<1>7. Held(q, e)
  <2>1. 1 \in 1 .. Len(q[n + 1]) /\ q[n + 1][1] = e
    BY <1>2, <1>3
  <2> QED
    BY <2>1, <1>5 DEF Held
<1>8. \A d : Held(segs, d) => Held(q, d)
  BY <1>3, <1>5 DEF Held, n
<1> QED
  BY <1>3, <1>6, <1>7, <1>8 DEF q

\* Any other event goes to the end of the last segment.
LEMMA ExtendKeeps ==
  ASSUME now \in Int, BufferMs \in Nat, NEW segs, Ordered(segs), segs # <<>>,
         NEW e \in Event, e.timestamp = now
  PROVE  /\ Ordered([segs EXCEPT ![Len(segs)] = Append(@, e)])
         /\ Held([segs EXCEPT ![Len(segs)] = Append(@, e)], e)
         /\ \A d : Held(segs, d) => Held([segs EXCEPT ![Len(segs)] = Append(@, e)], d)
         /\ Bounded(segs) => Bounded([segs EXCEPT ![Len(segs)] = Append(@, e)])
<1> DEFINE n == Len(segs)
           a == Append(segs[n], e)
           r == [segs EXCEPT ![n] = a]
<1>1. segs \in Seq(Segment) /\ n \in Nat \ {0} /\ n \in 1 .. n /\ DOMAIN segs = 1 .. n
  BY EmptySeq, LenProperties DEF Ordered
<1>2. segs[n] \in Segment /\ segs[n] \in Seq(Event) /\ Len(segs[n]) \in Nat \ {0}
  BY <1>1, SegmentTyped DEF Segment
<1>3. /\ a \in Segment /\ Len(a) = Len(segs[n]) + 1 /\ a[Len(segs[n]) + 1] = e
      /\ \A i \in 1 .. Len(segs[n]) : a[i] = segs[n][i]
  <2>1. a \in Seq(Event) /\ a # <<>>
    BY <1>2, AppendProperties
  <2> QED
    BY <1>2, <2>1, AppendProperties DEF Segment
<1> HIDE DEF a
<1>4. r \in Seq(Segment) /\ Len(r) = n /\ \A i \in 1 .. n : r[i] = IF i = n THEN a ELSE segs[i]
  <2>1. r \in Seq(Segment) /\ Len(r) = Len(segs)
    BY <1>1, <1>3, ExceptSeq
  <2>2. \A i \in 1 .. n : r[i] = IF i = n THEN a ELSE segs[i]
    BY <1>1
  <2> QED
    BY <2>1, <2>2
<1>5. r = [segs EXCEPT ![Len(segs)] = Append(@, e)]
  BY DEF a
<1> HIDE DEF r, n
<1>6. \A i \in 1 .. n : r[i][1] = segs[i][1]
  BY <1>2, <1>3, <1>4
<1>7. Ordered(r)
  <2> SUFFICES ASSUME NEW k \in 1 .. n, NEW j \in 1 .. Len(r[k])
               PROVE  /\ r[k][j].timestamp <= now
                      /\ \A l \in (k + 1) .. n : r[k][j].timestamp <= r[l][1].timestamp
    BY <1>4 DEF Ordered
  <2>1. CASE k = n
    <3>1. r[k] = a /\ (j \in 1 .. Len(segs[n]) \/ j = Len(segs[n]) + 1)
      BY <2>1, <1>2, <1>3, <1>4
    <3>2. r[k][j].timestamp <= now
      BY <3>1, <1>1, <1>3 DEF Ordered, n
    <3>3. (k + 1) .. n = {}
      BY <2>1, <1>1
    <3> QED
      BY <3>2, <3>3
  <2>2. CASE k # n
    <3>1. r[k] = segs[k]
      BY <2>2, <1>4
    <3>2. \A l \in (k + 1) .. n : l \in 1 .. n
      BY <1>1
    <3> QED
      BY <3>1, <3>2, <1>6 DEF Ordered, n
  <2> QED
    BY <2>1, <2>2
<1>8. Held(r, e)
  <2>1. Len(segs[n]) + 1 \in 1 .. Len(r[n]) /\ r[n][Len(segs[n]) + 1] = e
    BY <1>1, <1>2, <1>3, <1>4
  <2> QED
    BY <2>1, <1>1, <1>4 DEF Held
<1>9. ASSUME NEW d, Held(segs, d) PROVE Held(r, d)
  <2>1. PICK k \in 1 .. n : \E j \in 1 .. Len(segs[k]) : segs[k][j] = d
    BY <1>9 DEF Held, n
  <2>2. PICK j \in 1 .. Len(segs[k]) : segs[k][j] = d
    BY <2>1
  <2>3. j \in 1 .. Len(r[k]) /\ r[k][j] = d
    BY <2>2, <1>2, <1>3, <1>4
  <2> QED
    BY <2>3, <1>4 DEF Held
<1>10. Bounded(segs) => Bounded(r)
  <2>1. n >= 3 => 2 \in 1 .. n
    BY <1>1
  <2> QED
    BY <2>1, <1>1, <1>4, <1>6 DEF Bounded, n
<1> QED
  BY <1>5, <1>7, <1>8, <1>9, <1>10

\* What the segments owe the events emitted.
Covers(segs, es) ==
  \A i \in 1 .. Len(es) : es[i].timestamp > now - BufferMs => Held(segs, es[i])

Rewind(segs, es) == es \in Seq(Event) /\ Ordered(segs) /\ Bounded(segs) /\ Covers(segs, es)

\* The emit callback keeps the rewind in order.
LEMMA EmitKeeps ==
  ASSUME now \in Int, BufferMs \in Nat, NEW segs, NEW es, Rewind(segs, es),
         NEW e \in Event, e.timestamp = now, NEW flag
  PROVE  Rewind(EmitBuffered(segs, e, flag), Append(es, e))
<1> DEFINE r == EmitBuffered(segs, e, flag)
<1>a. es \in Seq(Event) /\ Ordered(segs) /\ Bounded(segs) /\ Covers(segs, es)
  BY DEF Rewind
<1>1. /\ Ordered(r) /\ Bounded(r)
      /\ e.timestamp > now - BufferMs => Held(r, e)
      /\ \A d : Held(segs, d) /\ d.timestamp > now - BufferMs => Held(r, d)
  <2>1. CASE flag \/ segs = <<>>
    <3> DEFINE q == Append(segs, <<e>>)
    <3>1. r = pruneSegments(q)
      BY <2>1 DEF EmitBuffered
    <3>2. Ordered(q) /\ q # <<>> /\ q[Len(q)] = <<e>> /\ Held(q, e) /\ \A d : Held(segs, d) => Held(q, d)
      BY <1>a, OpenKeeps
    <3> HIDE DEF q
    <3>3. /\ Ordered(r) /\ Len(r) \in Nat \ {0} /\ r[Len(r)] = <<e>>
          /\ \A d : Held(q, d) /\ d.timestamp > now - BufferMs => Held(r, d)
          /\ Len(r) >= 2 => r[2][1].timestamp > now - BufferMs
      <4> HIDE DEF r
      <4> QED
        BY <3>1, <3>2, PruneKeeps
    <3> HIDE DEF r
    <3>4. <<e>>[1].timestamp = now
      OBVIOUS
    <3>5. Bounded(r)
      BY <3>3, <3>4 DEF Bounded
    <3> QED
      BY <3>2, <3>3, <3>5
  <2>2. CASE ~(flag \/ segs = <<>>)
    <3>1. r = [segs EXCEPT ![Len(segs)] = Append(@, e)]
      BY <2>2 DEF EmitBuffered
    <3> HIDE DEF r
    <3> QED
      BY <3>1, <2>2, <1>a, ExtendKeeps
  <2> QED
    BY <2>1, <2>2
<1> HIDE DEF r
<1>2. /\ Append(es, e) \in Seq(Event) /\ Len(Append(es, e)) = Len(es) + 1
      /\ \A i \in 1 .. Len(es) : Append(es, e)[i] = es[i]
      /\ Append(es, e)[Len(es) + 1] = e
  BY <1>a, AppendProperties
<1>3. \A i \in 1 .. Len(Append(es, e)) : i \in 1 .. Len(es) \/ i = Len(es) + 1
  BY <1>a, <1>2, LenProperties
<1>4. Covers(r, Append(es, e))
  BY <1>a, <1>1, <1>2, <1>3 DEF Covers
<1> QED
  BY <1>1, <1>2, <1>4 DEF Rewind, r

RewindInv ==
  /\ now \in Nat /\ count \in Nat
  /\ emitted \in Seq(Event)
  /\ Ordered(segments) /\ Bounded(segments)
  /\ config # NoConfig /\ isBuffered => Covers(segments, emitted)

\* What rrweb emits is an event dated now.
LEMMA RawEventTyped ==
  ASSUME now \in Nat, NEW i \in Nat, NEW type \in Nat
  PROVE  RawEvent(i, type) \in Event /\ RawEvent(i, type).timestamp = now
BY DEF RawEvent, Event

\* Time makes events old, never young.
LEMMA TickKeeps ==
  ASSUME RewindInv, BufferMs \in Nat, Tick
  PROVE  RewindInv'
<1>1. now \in Nat /\ now' = now + 1 /\ UNCHANGED <<config, segments, emitted, count>>
  BY DEF Tick, RewindInv
<1>2. Ordered(segments)'
  <2>1. /\ segments \in Seq(Segment)
        /\ \A k \in 1 .. Len(segments) : \A j \in 1 .. Len(segments[k]) :
             segments[k][j].timestamp \in Int
    BY SegmentTyped DEF RewindInv, Ordered
  <2>2. \A k \in 1 .. Len(segments) : \A j \in 1 .. Len(segments[k]) :
          segments[k][j].timestamp <= now'
    BY <1>1, <2>1 DEF RewindInv, Ordered
  <2> QED
    BY <1>1, <2>1, <2>2 DEF RewindInv, Ordered
<1>3. ASSUME Covers(segments, emitted), NEW i \in 1 .. Len(emitted),
             emitted[i].timestamp > now' - BufferMs
      PROVE  Held(segments, emitted[i])
  <2>1. emitted[i].timestamp \in Int
    <3>1. emitted \in Seq(Event)
      BY DEF RewindInv
    <3>2. emitted[i] \in Event
      BY <3>1, ElementOfSeq
    <3> QED
      BY <3>2 DEF Event
  <2>2. emitted[i].timestamp > now - BufferMs
    <3>1. \A t \in Int : \A n, b \in Nat : t > (n + 1) - b => t > n - b
      OBVIOUS
    <3>2. emitted[i].timestamp > (now + 1) - BufferMs
      BY <1>1, <1>3, Zenon
    <3> QED
      BY <1>1, <2>1, <3>1, <3>2, Zenon
  <2> QED
    BY <1>3, <2>2 DEF Covers
<1>4. (config # NoConfig /\ isBuffered => Covers(segments, emitted))'
  <2>1. SUFFICES ASSUME config # NoConfig, isBuffered PROVE Covers(segments, emitted)'
    BY <1>1 DEF isBuffered
  <2>2. Covers(segments, emitted)
    BY <2>1 DEF RewindInv
  <2>3. \A i \in 1 .. Len(emitted') : emitted'[i].timestamp > now' - BufferMs =>
          Held(segments, emitted[i])'
    BY <1>1, <1>3, <2>2 DEF Held
  <2> QED
    BY <2>3 DEF Covers, Held
<1>5. Bounded(segments)'
  BY <1>1 DEF RewindInv, Bounded
<1> QED
  BY <1>1, <1>2, <1>4, <1>5 DEF RewindInv

\* Steps that emit nothing and keep time, segments and mode, or start afresh.
LEMMA RewindKept ==
  ASSUME RewindInv, UNCHANGED <<now, count, emitted, segments>>,
         config' # NoConfig => config # NoConfig /\ config'.mode = config.mode
  PROVE  RewindInv'
BY DEF RewindInv, Ordered, Bounded, Covers, Held, isBuffered

\* A new recording, and a page without one, has nothing to cover.
LEMMA RewindFresh ==
  ASSUME RewindInv, UNCHANGED <<now, count>>, segments' = <<>>, emitted' = <<>>
  PROVE  RewindInv'
<1>1. Ordered(segments)' /\ Bounded(segments)' /\ emitted' \in Seq(Event)
  BY DEF Ordered, Bounded
<1>2. Covers(segments, emitted)'
  BY DEF Covers
<1> QED
  BY <1>1, <1>2 DEF RewindInv

\* Steps that emit in buffered mode.
LEMMA RewindEmits ==
  ASSUME RewindInv, UNCHANGED now, count' \in Nat, Rewind(segments', emitted')
  PROVE  RewindInv'
BY DEF RewindInv, Rewind, Ordered, Bounded, Covers, Held

\* Steps that emit in always mode, where there are no segments.
LEMMA RewindStreams ==
  ASSUME RewindInv, UNCHANGED <<now, config, segments>>, ~isBuffered, count' \in Nat,
         emitted' \in Seq(Event)
  PROVE  RewindInv'
BY DEF RewindInv, Ordered, Bounded, isBuffered

\* Two events emitted at once are two events emitted in turn.
LEMMA ConcatEvents ==
  ASSUME NEW s \in Seq(Event), NEW a \in Event, NEW b \in Event
  PROVE  s \o <<a, b>> = Append(Append(s, a), b) /\ s \o <<a, b>> \in Seq(Event)
OBVIOUS

\* So are three.
LEMMA ConcatThreeEvents ==
  ASSUME NEW s \in Seq(Event), NEW a \in Event, NEW b \in Event, NEW c \in Event
  PROVE  s \o <<a, b, c>> = Append(Append(Append(s, a), b), c)
OBVIOUS

\* A Meta event and a snapshot, wherever the flag puts them.
LEMMA SnapshotKeeps ==
  ASSUME RewindInv, BufferMs \in Nat, config # NoConfig, NEW flag, Snapshot(flag), UNCHANGED <<now, config>>
  PROVE  RewindInv'
<1> DEFINE meta == RawEvent(count + 1, Meta)
           full == RawEvent(count + 2, FullSnapshot)
<1>1. now \in Nat /\ count \in Nat /\ count' \in Nat /\ now \in Int /\ emitted \in Seq(Event)
  BY DEF RewindInv, Snapshot
<1>2. meta \in Event /\ meta.timestamp = now /\ full \in Event /\ full.timestamp = now
  <2>1. count + 1 \in Nat /\ count + 2 \in Nat /\ Meta \in Nat /\ FullSnapshot \in Nat
    BY <1>1 DEF Meta, FullSnapshot
  <2> QED
    BY <1>1, <2>1, RawEventTyped
<1>3. emitted' = emitted \o <<meta, full>>
  BY DEF Snapshot
<1>4. CASE isBuffered
  <2>1. segments' = EmitBuffered(EmitBuffered(segments, meta, FALSE), full, flag)
    BY <1>4 DEF Snapshot
  <2> HIDE DEF meta, full
  <2>2. Rewind(segments, emitted)
    BY <1>4 DEF RewindInv, Rewind
  <2>3. Rewind(EmitBuffered(segments, meta, FALSE), Append(emitted, meta))
    BY <1>1, <1>2, <2>2, EmitKeeps
  <2>4. Rewind(segments', Append(Append(emitted, meta), full))
    BY <1>1, <1>2, <2>1, <2>3, EmitKeeps
  <2>5. Rewind(segments', emitted')
    BY <1>1, <1>2, <1>3, <2>4, ConcatEvents
  <2> QED
    BY <1>1, <2>5, RewindEmits
<1>5. CASE ~isBuffered
  <2>1. UNCHANGED segments
    BY <1>5 DEF Snapshot
  <2> HIDE DEF meta, full
  <2>2. emitted' \in Seq(Event)
    BY <1>1, <1>2, <1>3, ConcatEvents
  <2> QED
    BY <1>1, <1>5, <2>1, <2>2, RewindStreams
<1> QED
  BY <1>4, <1>5

\* An event without a checkout keeps RewindInv.
LEMMA ActivityKeeps ==
  ASSUME RewindInv, BufferMs \in Nat, config # NoConfig, NEW type \in {Incremental, Plugin}, Activity(type)
  PROVE  RewindInv'
<1> DEFINE e == RawEvent(count + 1, type)
<1>1. /\ now \in Nat /\ count \in Nat /\ count' \in Nat /\ now \in Int /\ emitted \in Seq(Event)
      /\ UNCHANGED <<now, config>>
  BY DEF RewindInv, Activity
<1>2. e \in Event /\ e.timestamp = now
  <2>1. count + 1 \in Nat /\ type \in Nat
    BY <1>1 DEF Incremental, Plugin
  <2> QED
    BY <1>1, <2>1, RawEventTyped
<1>3. emitted' = Append(emitted, e)
  BY DEF Activity
<1>4. CASE isBuffered
  <2>1. segments' = EmitBuffered(segments, e, FALSE)
    BY <1>4 DEF Activity
  <2> HIDE DEF e
  <2>2. Rewind(segments, emitted)
    BY <1>4 DEF RewindInv, Rewind
  <2>3. Rewind(segments', emitted')
    BY <1>1, <1>2, <1>3, <2>1, <2>2, EmitKeeps
  <2> QED
    BY <1>1, <2>3, RewindEmits
<1>5. CASE ~isBuffered
  <2>1. UNCHANGED segments
    BY <1>5 DEF Activity
  <2> HIDE DEF e
  <2>2. emitted' \in Seq(Event)
    BY <1>1, <1>2, <1>3, AppendProperties
  <2> QED
    BY <1>1, <1>5, <2>1, <2>2, RewindStreams
<1> QED
  BY <1>4, <1>5

\* An event that makes rrweb take a checkout keeps RewindInv.
LEMMA CheckoutKeeps ==
  ASSUME RewindInv, BufferMs \in Nat, config # NoConfig, NEW flag, ActivityWithCheckout(flag)
  PROVE  RewindInv'
<1> DEFINE e == RawEvent(count + 1, Incremental)
           meta == RawEvent(count + 2, Meta)
           full == RawEvent(count + 3, FullSnapshot)
<1>1. /\ now \in Nat /\ count \in Nat /\ count' \in Nat /\ now \in Int /\ emitted \in Seq(Event)
      /\ UNCHANGED <<now, config>> /\ isBuffered
  BY DEF RewindInv, ActivityWithCheckout, CheckoutDue
<1>2. /\ e \in Event /\ e.timestamp = now
      /\ meta \in Event /\ meta.timestamp = now
      /\ full \in Event /\ full.timestamp = now
  <2>1. /\ count + 1 \in Nat /\ count + 2 \in Nat /\ count + 3 \in Nat
        /\ Incremental \in Nat /\ Meta \in Nat /\ FullSnapshot \in Nat
    BY <1>1 DEF Incremental, Meta, FullSnapshot
  <2> QED
    BY <1>1, <2>1, RawEventTyped
<1>3. /\ emitted' = emitted \o <<e, meta, full>>
      /\ segments' = EmitBuffered(EmitBuffered(EmitBuffered(segments, e, FALSE), meta, TRUE), full, flag)
  BY DEF ActivityWithCheckout
<1> HIDE DEF e, meta, full
<1>4. Rewind(segments, emitted)
  BY <1>1 DEF RewindInv, Rewind
<1>5. Rewind(EmitBuffered(segments, e, FALSE), Append(emitted, e))
  BY <1>1, <1>2, <1>4, EmitKeeps
<1>6. Rewind(EmitBuffered(EmitBuffered(segments, e, FALSE), meta, TRUE), Append(Append(emitted, e), meta))
  BY <1>1, <1>2, <1>5, EmitKeeps
<1>7. Rewind(segments', Append(Append(Append(emitted, e), meta), full))
  BY <1>1, <1>2, <1>3, <1>6, EmitKeeps
<1>8. Rewind(segments', emitted')
  BY <1>1, <1>2, <1>3, <1>7, ConcatThreeEvents
<1> QED
  BY <1>1, <1>8, RewindEmits

\* Every step keeps RewindInv.
LEMMA RewindStep == RecorderAssumption /\ CleanInv /\ RewindInv /\ [Next]_vars => RewindInv'
<1> SUFFICES ASSUME RecorderAssumption, CleanInv, RewindInv, [Next]_vars PROVE RewindInv'
  OBVIOUS
<1>a. config = NoConfig => listeners = {} /\ rrweb = "off" /\ segments = <<>>
  BY DEF CleanInv, StopCleansUp
<1>b. BufferMs \in Nat
  BY DEF RecorderAssumption
<1>1. CASE UNCHANGED vars
  BY <1>1, RewindKept DEF vars
<1>2. ASSUME NEW c \in Configs, init(c) PROVE RewindInv'
  BY <1>2, <1>a, RewindFresh DEF init
<1>3. CASE PageReady
  BY <1>3, <1>a, <1>b, SnapshotKeeps DEF PageReady
<1>4. ASSUME NEW type \in {Incremental, Plugin}, Activity(type) PROVE RewindInv'
  <2>1. config # NoConfig
    BY <1>4, <1>a DEF Activity
  <2> QED
    BY <1>4, <1>b, <2>1, ActivityKeeps
<1>5. ASSUME NEW flag \in BOOLEAN, ActivityWithCheckout(flag) PROVE RewindInv'
  <2>1. config # NoConfig
    BY <1>5, <1>a DEF ActivityWithCheckout
  <2> QED
    BY <1>5, <1>b, <2>1, CheckoutKeeps
<1>6. ASSUME NEW i \in Identifiers, identify(i) PROVE RewindInv'
  <2>1. config \in BatRewindConfig
    BY <1>6 DEF identify, CleanInv, Shape
  <2>2. config'.mode = config.mode
    BY <1>6, <2>1 DEF identify, BatRewindConfig
  <2> QED
    BY <1>6, <2>2, RewindKept DEF identify
<1>7. ASSUME NEW o, Uploads(o) PROVE RewindInv'
  BY <1>7, RewindKept DEF Uploads
<1>8. CASE report \/ onError \/ FlushTimer \/ onVisibilityChange
  BY <1>8, <1>7 DEF report, onError, FlushTimer, onVisibilityChange
<1>9. CASE stop
  <2>1. Ordered(segments)' /\ Bounded(segments)'
    BY <1>9 DEF stop, Ordered, Bounded
  <2> QED
    BY <1>9, <2>1 DEF stop, RewindInv
<1>10. ASSUME NEW mode \in StorageModes, NextPage(mode) PROVE RewindInv'
  BY <1>10, RewindFresh DEF NextPage
<1>11. CASE Tick
  BY <1>11, <1>b, TickKeeps
<1> QED
  BY <1>1, <1>2, <1>3, <1>4, <1>5, <1>6, <1>8, <1>9, <1>10, <1>11 DEF Next

\* CleanInv and RewindInv hold throughout.
LEMMA RewindInvariant == Spec => [](CleanInv /\ RewindInv)
<1>1. Init => CleanInv /\ RewindInv
  BY DEF Init, CleanInv, Shape, OutShape, FreshOut, StopCleansUp, RewindInv, Ordered, Bounded
<1>2. RecorderAssumption
  BY RecorderAssumption
<1>3. CleanInv /\ RewindInv /\ [Next]_vars => (CleanInv /\ RewindInv)'
  BY <1>2, CleanStep, RewindStep
<1> QED
  BY <1>1, <1>3, PTL DEF Spec

\* In buffered mode every event of the last BufferMs is still held, whatever
\* pruneSegments dropped: for every window, checkout interval and recording.
THEOREM RewindCoversAlways == Spec => []RewindCovers
<1>1. RewindInv => RewindCovers
  <2> SUFFICES ASSUME RewindInv, config # NoConfig, isBuffered, NEW i \in DOMAIN emitted,
                      emitted[i].timestamp > now - BufferMs
               PROVE  \E k \in DOMAIN segments : \E j \in DOMAIN segments[k] :
                        segments[k][j] = emitted[i]
    BY DEF RewindCovers
  <2>1. Covers(segments, emitted) /\ emitted \in Seq(Event) /\ segments \in Seq(Segment)
    BY DEF RewindInv, Ordered
  <2>2. i \in 1 .. Len(emitted)
    BY <2>1, LenProperties
  <2>3. Held(segments, emitted[i])
    BY <2>1, <2>2 DEF Covers
  <2>4. DOMAIN segments = 1 .. Len(segments)
    BY <2>1, LenProperties
  <2>5. \A k \in 1 .. Len(segments) : DOMAIN segments[k] = 1 .. Len(segments[k])
    BY <2>1, SegmentTyped, HeadTyped
  <2> QED
    BY <2>3, <2>4, <2>5 DEF Held
<1> QED
  BY <1>1, RewindInvariant, PTL

\* The rewind does not grow with the session: of what is older than the window
\* when a segment opens, pruneSegments keeps one segment.
THEOREM RewindBoundedAlways == Spec => []RewindBounded
<1>1. RewindInv => RewindBounded
  BY DEF RewindInv, RewindBounded, Bounded, Last
<1> QED
  BY <1>1, RewindInvariant, PTL
=============================================================================
