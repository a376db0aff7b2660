---------------------------- MODULE BrowserSDK ----------------------------
(***************************************************************************)
(* The browser SDK with its "Report issue" widget (widget.ts): init mounts *)
(* the widget, stop unmounts it, a click reports and shows a toast with    *)
(* the share link for ToastMs.  The timer that takes the toast away is     *)
(* never cancelled: it outlives the toast's widget when stop() unmounts it.*)
(***************************************************************************)
EXTENDS Recorder

CONSTANT ToastMs   \* how long the toast stays

ASSUME ToastAssumption == ToastMs \in Nat

VARIABLES
  widget,   \* NoWidget, or the toast shown (or NoToast) and whether the button is hidden
  timers    \* pending timers; a live one closes over the mounted widget

sdkVars == <<vars, widget, timers>>

NoWidget == [mounted |-> FALSE]
NoToast == [shareToken |-> 0]

mountWidget == widget' = [mounted |-> TRUE, toast |-> NoToast, hidden |-> FALSE]

unmount == /\ widget' = NoWidget
           /\ timers' = {[t EXCEPT !.live = FALSE] : t \in timers}

showToastWithButton(token) ==
  /\ widget' = [widget EXCEPT !.toast = [shareToken |-> token, shownAt |-> now]]
  /\ timers' = timers \cup {[due |-> now + ToastMs, live |-> TRUE]}

showToast(token) ==
  /\ widget' = [widget EXCEPT !.toast = [shareToken |-> token, shownAt |-> now],
                              !.hidden = TRUE]
  /\ timers' = timers \cup {[due |-> now + ToastMs, live |-> TRUE]}

\* A click on the visible button.
ClickWidget ==
  /\ widget.mounted /\ ~widget.hidden
  /\ report
  /\ showToast(session.shareToken)

ToastTimerHidden(t) ==
  /\ now >= t.due
  /\ timers' = timers \ {t}
  /\ widget' = IF t.live THEN [widget EXCEPT !.toast = NoToast] ELSE widget
  /\ UNCHANGED vars

ToastTimer(t) ==
  /\ now >= t.due
  /\ timers' = timers \ {t}
  /\ widget' = IF t.live THEN [widget EXCEPT !.toast = NoToast, !.hidden = FALSE]
                         ELSE widget
  /\ UNCHANGED vars

initWithWidget(c) ==
  /\ init(c)
  /\ IF c.showWidget THEN mountWidget ELSE UNCHANGED widget
  /\ UNCHANGED timers

stopWithWidget == stop /\ unmount

NextPageWithWidget(mode) == NextPage(mode) /\ widget' = NoWidget /\ timers' = {}

\* The steps of the recorder that the widget takes no part in.
RecorderStep ==
  /\ \/ PageReady
     \/ \E type \in {Incremental, Plugin} : Activity(type)
     \/ \E flag \in BOOLEAN : ActivityWithCheckout(flag)
     \/ \E i \in Identifiers : identify(i)
     \/ report
     \/ onError
     \/ FlushTimer
     \/ onVisibilityChange
     \/ Tick
  /\ UNCHANGED <<widget, timers>>

SDKInit == Init /\ widget = NoWidget /\ timers = {}

SDKNext ==
  \/ \E c \in Configs : initWithWidget(c)
  \/ RecorderStep
  \/ ClickWidget
  \/ \E t \in timers : ToastTimer(t)
  \/ stopWithWidget
  \/ \E mode \in StorageModes : NextPageWithWidget(mode)

SDKSpec == SDKInit /\ [][SDKNext]_sdkVars

---------------------------------------------------------------------------
(* Properties.                                                             *)

\* The SDK with its widget records as the SDK without it: whatever the widget
\* does, the recorder takes a step of its own (onReport is report) or none.
ImplementsRecorder == Spec

\* A toast stays its ToastMs: no timer left over from an earlier toast, or from a
\* widget that stop() unmounted, takes away the toast of a mounted widget early
\* (showToast hides the button, so that its timer is the only one).
ToastStays ==
  [][widget.mounted /\ widget'.mounted /\ widget.toast # NoToast
       /\ widget'.toast # widget.toast
     => now >= widget.toast.shownAt + ToastMs]_sdkVars

\* The button comes back: it is hidden only while a timer that will show it again
\* is pending, so a user can always report again (setTimeout in showToast).
ButtonComesBack ==
  widget.mounted /\ widget.hidden => \E t \in timers : t.live
=============================================================================
