--------------------------- MODULE MCBrowserSDK ---------------------------
(* Instances of BrowserSDK for TLC. *)
EXTENDS BrowserSDK

\* The defaults of each mode, and buffered mode with every option turned off.
Defaults(mode) ==
  [mode |-> mode, captureConsole |-> FALSE, captureOnError |-> TRUE,
   captureClientMetadata |-> TRUE, showWidget |-> TRUE, identifier |-> "anonymous"]

MCConfigs ==
  {[Defaults("buffered") EXCEPT !.captureConsole = TRUE],
   Defaults("always"),
   [Defaults("buffered") EXCEPT !.captureOnError = FALSE,
      !.captureClientMetadata = FALSE, !.showWidget = FALSE]}

\* Long recordings are explored in the first session of a tab with a working
\* storage; with another session, a failing storage, a change of user or a toast
\* in play, short ones are enough.
Plain ==
  /\ fresh <= 3 /\ storage.id # 1 /\ storageMode = "ok"
  /\ config = NoConfig \/ config.identifier = "anonymous"
  /\ timers = {}

Focus ==
  /\ ~Plain => count <= 2
  /\ config.mode = "always" \/ Len(out.sent) > 1 => count <= 5
=============================================================================
