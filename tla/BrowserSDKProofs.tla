------------------------- MODULE BrowserSDKProofs -------------------------
(***************************************************************************)
(* Proofs about the SDK with its widget: it implements the recorder, so    *)
(* what is proved of the recorder holds for it, and its toast and button   *)
(* keep to their timer.                                                    *)
(***************************************************************************)
EXTENDS BrowserSDK, RewindProofs

\* Each step of the SDK is a step of the recorder or leaves it alone.
LEMMA SDKStepIsRecorderStep == [SDKNext]_sdkVars => [Next]_vars
<1> SUFFICES ASSUME [SDKNext]_sdkVars PROVE [Next]_vars
  OBVIOUS
<1>1. CASE UNCHANGED sdkVars
  BY <1>1 DEF sdkVars
<1>2. CASE \E c \in Configs : initWithWidget(c)
  BY <1>2 DEF initWithWidget, Next
<1>3. CASE RecorderStep
  BY <1>3 DEF RecorderStep, Next
<1>4. CASE ClickWidget
  BY <1>4 DEF ClickWidget, Next
<1>5. CASE \E t \in timers : ToastTimer(t)
  BY <1>5 DEF ToastTimer
<1>6. CASE stopWithWidget
  BY <1>6 DEF stopWithWidget, Next
<1>7. CASE \E mode \in StorageModes : NextPageWithWidget(mode)
  BY <1>7 DEF NextPageWithWidget, Next
<1> QED
  BY <1>1, <1>2, <1>3, <1>4, <1>5, <1>6, <1>7 DEF SDKNext

\* Whatever the widget does, the recorder takes one of its own steps or none:
\* the SDK with its widget implements the recorder.
THEOREM SDKImplementsRecorder == SDKSpec => ImplementsRecorder
<1>1. SDKInit => Init
  BY DEF SDKInit
<1>2. [SDKNext]_sdkVars => [Next]_vars
  BY SDKStepIsRecorderStep
<1> QED
  BY <1>1, <1>2, PTL DEF SDKSpec, ImplementsRecorder, Spec

\* What the recorder promises, the SDK with its widget promises: the rewind
\* reaches back far enough and does not grow, a session keeps its share token,
\* and stop() leaves nothing behind.
THEOREM SDKKeepsRecorderPromises ==
  SDKSpec => [](RewindCovers /\ RewindBounded /\ TokenPerSession /\ StopCleansUp)
<1>1. SDKSpec => Spec
  BY SDKImplementsRecorder DEF ImplementsRecorder
<1> QED
  BY <1>1, RewindCoversAlways, RewindBoundedAlways, TokenPerSessionAlways, StopCleansUpAlways, PTL

---------------------------------------------------------------------------
(* The toast and the button.                                               *)

WidgetShape(w) == DOMAIN w = {"mounted", "toast", "hidden"} /\ w = [f \in DOMAIN w |-> w[f]]
TimerShape(t) == DOMAIN t = {"due", "live"} /\ t = [f \in DOMAIN t |-> t[f]]

\* The timers that close over a mounted widget are exactly the one that will take
\* away the toast shown; with no toast there is none.
WidgetInv ==
  /\ widget = NoWidget \/ WidgetShape(widget)
  /\ widget.mounted \in BOOLEAN
  /\ widget.mounted => config # NoConfig /\ widget.hidden \in BOOLEAN
  /\ \A t \in timers : TimerShape(t) /\ t.live \in BOOLEAN
  /\ \A t \in timers : t.live => /\ widget.mounted /\ widget.hidden
                                 /\ t.due = widget.toast.shownAt + ToastMs
  /\ widget.mounted /\ widget.hidden => \E t \in timers : t.live
  /\ widget.mounted /\ ~widget.hidden => widget.toast = NoToast

\* What unmount does to a timer.
LEMMA TimerExcept ==
  ASSUME NEW t, TimerShape(t)
  PROVE  TimerShape([t EXCEPT !.live = FALSE]) /\ [t EXCEPT !.live = FALSE].live = FALSE
BY DEF TimerShape

\* A timer is its due time and whether it is live.
LEMMA TimerEqual ==
  ASSUME NEW t, NEW u, TimerShape(t), TimerShape(u), t.due = u.due, t.live = u.live
  PROVE  t = u
BY DEF TimerShape

\* Every step keeps WidgetInv.
LEMMA WidgetStep == CleanInv /\ WidgetInv /\ [SDKNext]_sdkVars => WidgetInv'
<1> SUFFICES ASSUME CleanInv, WidgetInv, [SDKNext]_sdkVars PROVE WidgetInv'
  OBVIOUS
<1>1. ASSUME UNCHANGED <<widget, timers>>, config # NoConfig => config' # NoConfig
      PROVE  WidgetInv'
  BY <1>1 DEF WidgetInv
<1>2. CASE UNCHANGED sdkVars
  BY <1>2, <1>1 DEF sdkVars, vars
<1>3. ASSUME NEW c \in Configs, initWithWidget(c) PROVE WidgetInv'
  <2>1. config = NoConfig /\ config' = c /\ timers' = timers /\ ~widget.mounted
    BY <1>3 DEF initWithWidget, init, WidgetInv
  <2>2. c # NoConfig
    BY RecorderAssumption DEF RecorderAssumption, BatRewindConfig, NoConfig
  <2>3. CASE c.showWidget
    <3>1. /\ widget' = [mounted |-> TRUE, toast |-> NoToast, hidden |-> FALSE]
          /\ \A t \in timers : ~t.live
      BY <1>3, <2>1, <2>3 DEF initWithWidget, mountWidget, WidgetInv
    <3>2. WidgetShape(widget')
      BY <3>1 DEF WidgetShape
    <3> QED
      BY <2>1, <2>2, <3>1, <3>2 DEF WidgetInv
  <2>4. CASE ~c.showWidget
    BY <1>3, <2>1, <2>2, <2>4, <1>1 DEF initWithWidget
  <2> QED
    BY <2>3, <2>4
<1>4. CASE RecorderStep
  <2>1. ASSUME NEW i \in Identifiers, identify(i) PROVE config' # NoConfig
    <3>1. config \in BatRewindConfig
      BY <2>1 DEF identify, CleanInv, Shape
    <3> QED
      BY <2>1, <3>1 DEF identify, BatRewindConfig, NoConfig
  <2>2. config # NoConfig => config' # NoConfig
    BY <1>4, <2>1 DEF RecorderStep, PageReady, Activity, ActivityWithCheckout, report, onError,
                      FlushTimer, onVisibilityChange, Uploads, Tick
  <2> QED
    BY <1>4, <2>2, <1>1 DEF RecorderStep
<1>5. CASE ClickWidget
  <2> DEFINE t0 == [due |-> now + ToastMs, live |-> TRUE]
             toast == [shareToken |-> session.shareToken, shownAt |-> now]
  <2>1. /\ widget.mounted /\ ~widget.hidden /\ config' = config
        /\ widget' = [widget EXCEPT !.toast = toast, !.hidden = TRUE]
        /\ timers' = timers \cup {t0}
    BY <1>5 DEF ClickWidget, showToast, report, Uploads
  <2>2. WidgetShape(widget') /\ widget'.mounted /\ widget'.toast = toast /\ widget'.hidden
    <3>1. WidgetShape(widget)
      BY <2>1 DEF WidgetInv, NoWidget
    <3> HIDE DEF toast
    <3>2. WidgetShape(widget') /\ widget'.mounted = widget.mounted /\ widget'.toast = toast /\ widget'.hidden = TRUE
      BY <2>1, <3>1 DEF WidgetShape
    <3> QED
      BY <2>1, <3>2
  <2>3. \A t \in timers : ~t.live
    BY <2>1 DEF WidgetInv
  <2>4. t0 \in timers' /\ t0.live /\ t0.due = widget'.toast.shownAt + ToastMs
    BY <2>1, <2>2
  <2>5. \A t \in timers' : TimerShape(t) /\ t.live \in BOOLEAN
    <3>1. TimerShape(t0) /\ t0.live \in BOOLEAN
      BY DEF TimerShape
    <3>2. \A t \in timers : TimerShape(t) /\ t.live \in BOOLEAN
      BY DEF WidgetInv
    <3> HIDE DEF t0
    <3> QED
      BY <2>1, <3>1, <3>2, Zenon
  <2>6. \A t \in timers' : t.live => t = t0
    BY <2>1, <2>3
  <2> QED
    BY <2>1, <2>2, <2>4, <2>5, <2>6 DEF WidgetInv
<1>6. ASSUME NEW t \in timers, ToastTimer(t) PROVE WidgetInv'
  <2>1. config' = config /\ timers' = timers \ {t}
    BY <1>6 DEF ToastTimer, vars
  <2>2. CASE t.live
    <3>1. widget.mounted /\ widget.hidden /\ t.due = widget.toast.shownAt + ToastMs
      BY <2>2 DEF WidgetInv
    <3>2. /\ WidgetShape(widget') /\ widget'.mounted /\ widget'.toast = NoToast
          /\ widget'.hidden = FALSE
      <4>1. WidgetShape(widget)
        BY <3>1 DEF WidgetInv, NoWidget
      <4>2. widget' = [widget EXCEPT !.toast = NoToast, !.hidden = FALSE]
        BY <1>6, <2>2 DEF ToastTimer
      <4>3. /\ WidgetShape(widget') /\ widget'.mounted = widget.mounted /\ widget'.toast = NoToast
            /\ widget'.hidden = FALSE
        BY <4>1, <4>2 DEF WidgetShape
      <4> QED
        BY <3>1, <4>3
    <3>3. \A u \in timers' : ~u.live
      BY <2>1, <2>2, <3>1, TimerEqual DEF WidgetInv
    <3> QED
      BY <2>1, <3>1, <3>2, <3>3 DEF WidgetInv
  <2>3. CASE ~t.live
    <3>1. widget' = widget
      BY <1>6, <2>3 DEF ToastTimer
    <3> QED
      BY <2>1, <2>3, <3>1 DEF WidgetInv
  <2> QED
    BY <2>2, <2>3 DEF WidgetInv
<1>7. CASE stopWithWidget
  <2>1. widget' = NoWidget /\ timers' = {[t EXCEPT !.live = FALSE] : t \in timers}
    BY <1>7 DEF stopWithWidget, unmount
  <2>2. \A t \in timers : TimerShape(t)
    BY DEF WidgetInv
  <2>3. \A u \in timers' : TimerShape(u) /\ u.live = FALSE
    BY <2>1, <2>2, TimerExcept
  <2> QED
    BY <2>1, <2>3 DEF WidgetInv, NoWidget
<1>8. ASSUME NEW mode \in StorageModes, NextPageWithWidget(mode) PROVE WidgetInv'
  BY <1>8 DEF NextPageWithWidget, WidgetInv, NoWidget
<1> QED
  BY <1>2, <1>3, <1>4, <1>5, <1>6, <1>7, <1>8 DEF SDKNext

\* CleanInv and WidgetInv hold throughout.
LEMMA WidgetInvariant == SDKSpec => [](CleanInv /\ WidgetInv)
<1>1. SDKInit => CleanInv /\ WidgetInv
  BY DEF SDKInit, Init, CleanInv, Shape, OutShape, FreshOut, StopCleansUp, WidgetInv, NoWidget
<1>2. [SDKNext]_sdkVars => [Next]_vars
  BY SDKStepIsRecorderStep
<1>3. RecorderAssumption
  BY RecorderAssumption
<1>4. CleanInv /\ WidgetInv /\ [SDKNext]_sdkVars => (CleanInv /\ WidgetInv)'
  BY <1>2, <1>3, CleanStep, WidgetStep
<1> QED
  BY <1>1, <1>4, PTL DEF SDKSpec

\* The button is hidden only while a timer that will show it again is pending.
THEOREM ButtonComesBackAlways == SDKSpec => []ButtonComesBack
<1>1. WidgetInv => ButtonComesBack
  BY DEF WidgetInv, ButtonComesBack
<1> QED
  BY <1>1, WidgetInvariant, PTL

\* A toast of a mounted widget is taken away by its own timer and no other, so it
\* stays its ToastMs.
THEOREM ToastStaysAlways == SDKSpec => ToastStays
<1> DEFINE Stays == widget.mounted /\ widget'.mounted /\ widget.toast # NoToast
                      /\ widget'.toast # widget.toast
                    => now >= widget.toast.shownAt + ToastMs
<1>1. WidgetInv /\ [SDKNext]_sdkVars => [Stays]_sdkVars
  <2> SUFFICES ASSUME WidgetInv, SDKNext, widget.mounted, widget'.mounted,
                      widget.toast # NoToast, widget'.toast # widget.toast
               PROVE  now >= widget.toast.shownAt + ToastMs
    BY DEF sdkVars
  <2>1. config # NoConfig /\ widget.hidden
    BY DEF WidgetInv
  <2>2. ASSUME NEW t \in timers, ToastTimer(t) PROVE now >= widget.toast.shownAt + ToastMs
    BY <2>2 DEF ToastTimer, WidgetInv
  <2>3. ~RecorderStep /\ ~ClickWidget /\ ~stopWithWidget
    BY <2>1 DEF RecorderStep, ClickWidget, stopWithWidget, unmount, NoWidget
  <2>4. ~(\E c \in Configs : initWithWidget(c)) /\ ~(\E m \in StorageModes : NextPageWithWidget(m))
    BY <2>1 DEF initWithWidget, init, NextPageWithWidget, NoWidget
  <2> QED
    BY <2>2, <2>3, <2>4 DEF SDKNext
<1> QED
  BY <1>1, WidgetInvariant, PTL DEF SDKSpec, ToastStays
=============================================================================
