-------------------------- MODULE RecorderProofs --------------------------
(***************************************************************************)
(* Proofs about the recorder, for every set of configurations, storage     *)
(* behaviour and number of page loads: nothing of a recording outlives it, *)
(* and a session keeps its share token.                                    *)
(***************************************************************************)
EXTENDS Recorder, TLAPS

---------------------------------------------------------------------------
(* Nothing of a recording outlives it.                                     *)

OutShape(o) ==
  /\ DOMAIN o = {"buffer", "firstSnapshot", "clientMetaSent", "sent"}
  /\ o = [f \in DOMAIN o |-> o[f]]

\* The shape of the variables that the other invariants talk about.
Shape ==
  /\ config \in BatRewindConfig \cup {NoConfig}
  /\ OutShape(out)

\* upload leaves the buffer alone and keeps the shape of out.
LEMMA UploadShape ==
  ASSUME NEW o, OutShape(o), NEW es, NEW trigger, NEW keepalive
  PROVE  /\ OutShape(upload(o, es, trigger, keepalive))
         /\ upload(o, es, trigger, keepalive).buffer = o.buffer
BY DEF upload, OutShape

\* flush empties the buffer.
LEMMA FlushShape ==
  ASSUME NEW o, OutShape(o), NEW keepalive
  PROVE  OutShape(flush(o, keepalive)) /\ flush(o, keepalive).buffer = <<>>
<1> DEFINE u == upload(o, o.buffer, "stream", keepalive)
<1>1. OutShape(u)
  BY UploadShape
<1> HIDE DEF u
<1>2. OutShape([u EXCEPT !.buffer = <<>>]) /\ [u EXCEPT !.buffer = <<>>].buffer = <<>>
  BY <1>1 DEF OutShape
<1> QED
  BY <1>2 DEF flush, u

\* uploadBuffer leaves the buffer of the other mode alone.
LEMMA UploadBufferShape ==
  ASSUME NEW o, OutShape(o), NEW trigger, NEW keepalive
  PROVE  /\ OutShape(uploadBuffer(o, trigger, keepalive))
         /\ uploadBuffer(o, trigger, keepalive).buffer = o.buffer
BY UploadShape DEF uploadBuffer

\* The emit callback of always mode keeps the shape of out.
LEMMA EmitAlwaysShape ==
  ASSUME NEW o, OutShape(o), NEW e
  PROVE  OutShape(EmitAlways(o, e))
<1>1. OutShape([o EXCEPT !.firstSnapshot = FALSE]) /\ OutShape([o EXCEPT !.buffer = Append(@, e)])
  BY DEF OutShape
<1> QED
  BY <1>1, UploadShape, FlushShape DEF EmitAlways

CleanInv == Shape /\ StopCleansUp

\* The steps that only upload keep CleanInv if what they make of out has its
\* shape and, in buffered mode, its buffer.
LEMMA UploadsClean ==
  ASSUME CleanInv, NEW o, OutShape(o), config # NoConfig, isBuffered => o.buffer = out.buffer,
         Uploads(o)
  PROVE  CleanInv'
BY DEF CleanInv, Shape, OutShape, StopCleansUp, Uploads, Emits, isBuffered, ListenersOf

\* Every step keeps CleanInv.
LEMMA CleanStep == RecorderAssumption /\ CleanInv /\ [Next]_vars => CleanInv'
<1> SUFFICES ASSUME RecorderAssumption, CleanInv, [Next]_vars PROVE CleanInv'
  OBVIOUS
<1> USE DEF CleanInv
<1>a. OutShape(out)
  BY DEF Shape
<1>b. config = NoConfig => listeners = {} /\ rrweb = "off"
  BY DEF StopCleansUp
<1>1. CASE UNCHANGED vars
  BY <1>1 DEF vars, Shape, OutShape, StopCleansUp, isBuffered, ListenersOf
<1>2. ASSUME NEW c \in Configs, init(c) PROVE CleanInv'
  <2>1. c \in BatRewindConfig /\ c # NoConfig
    BY DEF RecorderAssumption, BatRewindConfig, NoConfig
  <2>2. out'.buffer = <<>> /\ OutShape(out')
    BY <1>2, <1>a DEF init, OutShape, StopCleansUp
  <2>3. segments' = <<>> /\ listeners' = ListenersOf(c)
    BY <1>2 DEF init, StopCleansUp
  <2> QED
    BY <1>2, <2>1, <2>2, <2>3 DEF init, Shape, StopCleansUp, ListenersOf, isBuffered
<1>3. ASSUME rrweb # "off", Snapshot(FALSE), rrweb' = "on", UNCHANGED <<config, session, listeners>>
      PROVE  CleanInv'
  <2>1. config # NoConfig
    BY <1>3, <1>b
  <2>2. CASE isBuffered
    BY <1>3, <2>1, <2>2 DEF Snapshot, Shape, OutShape, StopCleansUp, isBuffered, ListenersOf
  <2>3. CASE ~isBuffered
    <3>1. OutShape(out') /\ UNCHANGED segments
      BY <1>3, <2>3, <1>a, EmitAlwaysShape DEF Snapshot, Emits
    <3> QED
      BY <1>3, <2>1, <2>3, <3>1 DEF Shape, StopCleansUp, isBuffered, ListenersOf
  <2> QED
    BY <2>2, <2>3
<1>4. CASE PageReady
  BY <1>4, <1>3 DEF PageReady
<1>5. ASSUME NEW type \in {Incremental, Plugin}, Activity(type) PROVE CleanInv'
  <2>1. config # NoConfig
    BY <1>5, <1>b DEF Activity
  <2>2. CASE isBuffered
    BY <1>5, <2>1, <2>2 DEF Activity, Shape, OutShape, StopCleansUp, isBuffered, ListenersOf
  <2>3. CASE ~isBuffered
    <3>1. OutShape(out') /\ UNCHANGED segments
      BY <1>5, <2>3, <1>a, EmitAlwaysShape DEF Activity, Emits
    <3> QED
      BY <1>5, <2>1, <2>3, <3>1 DEF Activity, Shape, StopCleansUp, isBuffered, ListenersOf
  <2> QED
    BY <2>2, <2>3
<1>6. ASSUME NEW flag \in BOOLEAN, ActivityWithCheckout(flag) PROVE CleanInv'
  <2>1. config # NoConfig
    BY <1>6, <1>b DEF ActivityWithCheckout
  <2> QED
    BY <1>6, <2>1 DEF ActivityWithCheckout, CheckoutDue, Shape, OutShape, StopCleansUp,
                      isBuffered, ListenersOf
<1>7. ASSUME NEW i \in Identifiers, identify(i) PROVE CleanInv'
  <2>1. config \in BatRewindConfig
    BY <1>7 DEF identify, Shape
  <2>2. /\ config' \in BatRewindConfig /\ config' # NoConfig
        /\ config'.mode = config.mode /\ ListenersOf(config') = ListenersOf(config)
    BY <1>7, <2>1 DEF identify, BatRewindConfig, NoConfig, ListenersOf
  <2> QED
    BY <1>7, <2>2 DEF identify, Shape, OutShape, StopCleansUp, isBuffered
<1>8. CASE report
  <2>1. CASE isBuffered
    BY <1>8, <2>1, <1>a, UploadBufferShape, UploadsClean DEF report
  <2>2. CASE ~isBuffered
    BY <1>8, <2>2, <1>a, FlushShape, UploadsClean DEF report
  <2> QED
    BY <2>1, <2>2
<1>9. CASE onError
  <2>1. config # NoConfig
    BY <1>9, <1>b DEF onError
  <2> QED
    BY <1>9, <2>1, <1>a, UploadBufferShape, UploadsClean DEF onError
<1>10. CASE FlushTimer
  <2>1. config # NoConfig
    BY <1>10, <1>b DEF FlushTimer
  <2>2. isBuffered => out.buffer = <<>>
    BY <2>1 DEF StopCleansUp
  <2> QED
    BY <1>10, <2>1, <2>2, <1>a, FlushShape, UploadsClean DEF FlushTimer
<1>11. CASE onVisibilityChange
  <2>1. config # NoConfig
    BY <1>11, <1>b DEF onVisibilityChange
  <2>2. isBuffered => out.buffer = <<>>
    BY <2>1 DEF StopCleansUp
  <2> QED
    BY <1>11, <2>1, <2>2, <1>a, FlushShape, UploadsClean DEF onVisibilityChange
<1>12. CASE stop
  <2>1. OutShape(IF isBuffered THEN out ELSE flush(out, FALSE))
    BY <1>a, FlushShape
  <2>2. OutShape(out') /\ out'.buffer = <<>>
    BY <1>12, <2>1 DEF stop, Emits, OutShape
  <2> QED
    BY <1>12, <2>2 DEF stop, Shape, StopCleansUp
<1>13. ASSUME NEW mode \in StorageModes, NextPage(mode) PROVE CleanInv'
  BY <1>13 DEF NextPage, FreshOut, Shape, OutShape, StopCleansUp
<1>14. CASE Tick
  BY <1>14 DEF Tick, Shape, OutShape, StopCleansUp, isBuffered, ListenersOf
<1> QED
  BY <1>1, <1>2, <1>4, <1>5, <1>6, <1>7, <1>8, <1>9, <1>10, <1>11, <1>12, <1>13, <1>14 DEF Next

\* Nothing of one recording outlives it, in any order of init, stop, uploads and
\* page loads: listeners, interval, recorder and buffers are those of the current
\* configuration (stop).
THEOREM StopCleansUpAlways == Spec => []StopCleansUp
<1>1. Init => CleanInv
  BY DEF Init, CleanInv, Shape, OutShape, FreshOut, StopCleansUp
<1>2. RecorderAssumption
  BY RecorderAssumption
<1>3. CleanInv /\ [Next]_vars => CleanInv'
  BY <1>2, CleanStep
<1>4. CleanInv => StopCleansUp
  BY DEF CleanInv
<1> QED
  BY <1>1, <1>3, <1>4, PTL DEF Spec

---------------------------------------------------------------------------
(* A session keeps its share token.                                        *)

\* The handles in use: the current one and those of the batches sent.
Used == links \cup {session}

\* No two handles in use disagree, and none disagrees with the stored session,
\* which has a token once its id is in use.
TokenInv ==
  /\ fresh \in Nat /\ storage.id \in Nat /\ storage.shareToken \in Nat
  /\ storage.id <= fresh
  /\ Used \subseteq [id : Nat, shareToken : Nat]
  /\ \A a \in Used : a.id <= fresh
  /\ config # NoConfig => session.id # 0
  /\ \A a \in links : a.id # 0
  /\ \A a, b \in Used : a.id = b.id => a.shareToken = b.shareToken
  /\ \A a \in Used : a.id # 0 /\ a.id = storage.id =>
       a.shareToken = storage.shareToken /\ storage.shareToken # 0

\* All steps but init use no handle that was not in use.
LEMMA TokenKept ==
  ASSUME TokenInv, UNCHANGED <<storage, fresh>>,
         links' = links \/ (config # NoConfig /\ links' = links \cup {session}),
         session' = session \/ session' = NoSession,
         config' # NoConfig => session' = session /\ config # NoConfig
  PROVE  TokenInv'
<1>1. \A a \in Used' : a \in Used \/ a = NoSession
  BY DEF Used
<1>2. \A a \in links' : a \in Used /\ a.id # 0
  BY DEF Used, TokenInv
<1>3. NoSession \in [id : Nat, shareToken : Nat] /\ NoSession.id = 0 /\ NoSession.shareToken = 0
  BY DEF NoSession
<1>4. \A a, b \in Used' : a.id = b.id => a.shareToken = b.shareToken
  <2> SUFFICES ASSUME NEW a \in Used', NEW b \in Used', a.id = b.id
               PROVE  a.shareToken = b.shareToken
    OBVIOUS
  <2>1. CASE a \in Used /\ b \in Used
    BY <2>1 DEF TokenInv
  <2>2. CASE a \in links' /\ b = NoSession
    BY <2>2, <1>2, <1>3
  <2>3. CASE b \in links' /\ a = NoSession
    BY <2>3, <1>2, <1>3
  <2>4. CASE a = session' /\ b = session'
    BY <2>4
  <2> QED
    BY <1>1, <1>2, <2>1, <2>2, <2>3, <2>4 DEF Used
<1>5. \A a \in Used' : a \in [id : Nat, shareToken : Nat] /\ a.id <= fresh
  BY <1>1, <1>3 DEF TokenInv
<1>6. \A a \in Used' : a.id # 0 /\ a.id = storage.id =>
        a.shareToken = storage.shareToken /\ storage.shareToken # 0
  BY <1>1, <1>3 DEF TokenInv
<1>7. config' # NoConfig => session'.id # 0
  BY DEF TokenInv
<1> QED
  BY <1>2, <1>4, <1>5, <1>6, <1>7 DEF TokenInv

\* init takes up the stored session or a new one.
LEMMA TokenInit ==
  ASSUME TokenInv, NEW c, init(c)
  PROVE  TokenInv'
<1> DEFINE h == session'
<1>1. CASE Resumes
  <2>1. /\ storage.id # 0 /\ h = [id |-> storage.id, shareToken |-> h.shareToken]
        /\ storage.shareToken # 0 => h.shareToken = storage.shareToken /\ fresh' = fresh
        /\ storage.shareToken = 0 => h.shareToken = fresh + 1 /\ fresh' = fresh + 1
        /\ storage'.id = h.id /\ storage'.shareToken = h.shareToken
        /\ links' = links
    BY <1>1 DEF init, getOrCreateSession, StoreSession, Resumes
  <2>2. /\ h \in [id : Nat, shareToken : Nat] /\ h.id = storage.id /\ h.shareToken # 0
        /\ fresh' \in Nat /\ fresh <= fresh' /\ h.id <= fresh'
    BY <2>1 DEF TokenInv
  <2>3. \A a \in links : a.id = h.id => a.shareToken = h.shareToken
    BY <2>1, <2>2 DEF TokenInv, Used
  <2> HIDE DEF h
  <2>4. Used' = links \cup {h}
    BY <2>1 DEF Used, h
  <2>5. \A a \in links : a \in [id : Nat, shareToken : Nat] /\ a.id <= fresh' /\ a.id # 0
    BY <2>2 DEF TokenInv, Used
  <2>6. \A a, b \in links : a.id = b.id => a.shareToken = b.shareToken
    BY DEF TokenInv, Used
  <2> QED
    BY <2>1, <2>2, <2>3, <2>4, <2>5, <2>6 DEF TokenInv, h
<1>2. CASE ~Resumes
  <2>1. /\ h = [id |-> fresh + 1, shareToken |-> fresh + 2] /\ fresh' = fresh + 2
        /\ \/ storage'.id = h.id /\ storage'.shareToken = h.shareToken
           \/ storage' = storage
        /\ links' = links
    BY <1>2 DEF init, getOrCreateSession, StoreSession
  <2>2. /\ h \in [id : Nat, shareToken : Nat] /\ h.id = fresh + 1 /\ h.shareToken = fresh + 2
        /\ fresh' \in Nat
    BY <2>1 DEF TokenInv
  <2>3. \A a \in links : a.id # h.id
    BY <2>2 DEF TokenInv, Used
  <2> HIDE DEF h
  <2>4. Used' = links \cup {h}
    BY <2>1 DEF Used, h
  <2>5. \A a \in links : a \in [id : Nat, shareToken : Nat] /\ a.id <= fresh' /\ a.id # 0
    BY <2>1 DEF TokenInv, Used
  <2>6. \A a, b \in links : a.id = b.id => a.shareToken = b.shareToken
    BY DEF TokenInv, Used
  <2>7. \A a \in links : a.id = storage.id =>
          a.shareToken = storage.shareToken /\ storage.shareToken # 0
    BY DEF TokenInv, Used
  <2>8. storage.id \in Nat /\ storage.shareToken \in Nat /\ storage.id <= fresh /\ fresh \in Nat
    BY DEF TokenInv
  <2>9. h.id # 0 /\ h.id # storage.id /\ h.shareToken # 0 /\ h.id <= fresh' /\ storage.id <= fresh'
    BY <2>1, <2>2, <2>8
  <2>10. \A a, b \in Used' : a.id = b.id => a.shareToken = b.shareToken
    BY <2>3, <2>4, <2>6
  <2>11. \A a \in Used' : a \in [id : Nat, shareToken : Nat] /\ a.id <= fresh'
    BY <2>2, <2>4, <2>5, <2>9
  <2>12. /\ storage'.id \in Nat /\ storage'.shareToken \in Nat /\ storage'.id <= fresh'
         /\ \A a \in Used' : a.id # 0 /\ a.id = storage'.id =>
              a.shareToken = storage'.shareToken /\ storage'.shareToken # 0
    <3>1. CASE storage' = storage
      BY <3>1, <2>4, <2>7, <2>8, <2>9
    <3>2. CASE storage'.id = h.id /\ storage'.shareToken = h.shareToken
      BY <3>2, <2>2, <2>3, <2>4, <2>9
    <3> QED
      BY <2>1, <3>1, <3>2
  <2>13. session' = h /\ links' = links
    BY <2>1 DEF h
  <2> QED
    BY <2>2, <2>5, <2>9, <2>10, <2>11, <2>12, <2>13 DEF TokenInv
<1> QED
  BY <1>1, <1>2

\* Every step keeps TokenInv.
LEMMA TokenStep == CleanInv /\ TokenInv /\ [Next]_vars => TokenInv'
<1> SUFFICES ASSUME CleanInv, TokenInv, [Next]_vars PROVE TokenInv'
  OBVIOUS
<1>a. config = NoConfig => listeners = {} /\ rrweb = "off"
  BY DEF CleanInv, StopCleansUp
<1>1. CASE UNCHANGED vars
  BY <1>1, TokenKept DEF vars
<1>2. ASSUME NEW c \in Configs, init(c) PROVE TokenInv'
  BY <1>2, TokenInit
<1>3. CASE PageReady
  BY <1>3, <1>a, TokenKept DEF PageReady, Snapshot, Emits
<1>4. ASSUME NEW type \in {Incremental, Plugin}, Activity(type) PROVE TokenInv'
  BY <1>4, <1>a, TokenKept DEF Activity, Emits
<1>5. ASSUME NEW flag \in BOOLEAN, ActivityWithCheckout(flag) PROVE TokenInv'
  BY <1>5, TokenKept DEF ActivityWithCheckout
<1>6. ASSUME NEW i \in Identifiers, identify(i) PROVE TokenInv'
  BY <1>6, TokenKept DEF identify
<1>7. ASSUME NEW o, config # NoConfig, Uploads(o) PROVE TokenInv'
  BY <1>7, TokenKept DEF Uploads, Emits
<1>8. CASE report
  BY <1>8, <1>7 DEF report
<1>9. CASE onError
  BY <1>9, <1>7, <1>a DEF onError
<1>10. CASE FlushTimer
  BY <1>10, <1>7, <1>a DEF FlushTimer
<1>11. CASE onVisibilityChange
  BY <1>11, <1>7, <1>a DEF onVisibilityChange
<1>12. CASE stop
  BY <1>12, TokenKept DEF stop, Emits
<1>13. ASSUME NEW mode \in StorageModes, NextPage(mode) PROVE TokenInv'
  BY <1>13, TokenKept DEF NextPage
<1>14. CASE Tick
  BY <1>14, TokenKept DEF Tick
<1> QED
  BY <1>1, <1>2, <1>3, <1>4, <1>5, <1>6, <1>8, <1>9, <1>10, <1>11, <1>12, <1>13, <1>14 DEF Next

\* No two batches of one session carry different share tokens, over any number of
\* page loads, with a storage that works on some of them and fails on others
\* (getOrCreateSession).
THEOREM TokenPerSessionAlways == Spec => []TokenPerSession
<1>1. Init => CleanInv /\ TokenInv
  BY DEF Init, CleanInv, Shape, OutShape, FreshOut, StopCleansUp, TokenInv, Used, Nothing, NoSession
<1>2. RecorderAssumption
  BY RecorderAssumption
<1>3. CleanInv /\ TokenInv /\ [Next]_vars => CleanInv' /\ TokenInv'
  BY <1>2, CleanStep, TokenStep
<1>4. TokenInv => TokenPerSession
  BY DEF TokenInv, TokenPerSession, Used
<1> QED
  BY <1>1, <1>3, <1>4, PTL DEF Spec
=============================================================================
