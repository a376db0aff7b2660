----------------------------- MODULE Dashboard -----------------------------
(***************************************************************************)
(* A browser tab with the dashboard (packages/dashboard) and the reader    *)
(* API it talks to.  The tab's memory (route, query cache, calls on their  *)
(* way, the player) is lost on a hard navigation; the login token is in    *)
(* localStorage, shared with other tabs.                                   *)
(*                                                                         *)
(* React Query is external and modelled from how queries/sessions.ts uses  *)
(* it: one call per query key at a time; mounting a component refetches    *)
(* its queries (staleTime is 0) or joins the call already on its way;      *)
(* invalidation fetches the queries of mounted components again, and joins *)
(* a first fetch that is still on its way.                                 *)
(***************************************************************************)
EXTENDS Integers, Sequences, FiniteSets, SequencesExt

CONSTANTS
  SessionIds,                \* recorded sessions
  Owner,                     \* whose session it is
  Identifiers,               \* users that the list is filtered by
  Urls,                      \* addresses the application is opened at
  LIMIT,                     \* rows per page of the session list
  MaxPage,                   \* bound on the page number
  MaxRetry,                  \* times a failing query is tried again
  SdkToken,                  \* the share token the SDK made for a session, or 0
  MaxTokens, MaxEvents, MaxLogins, MaxActs   \* bounds

ASSUME DashboardAssumption ==
  /\ DOMAIN Owner = SessionIds /\ SdkToken \in [SessionIds -> 0 .. 1]
  /\ LIMIT \in Nat \ {0} /\ MaxPage \in Nat \ {0} /\ MaxRetry \in Nat

VARIABLES
  tab,      \* the memory of the tab
  auth,     \* the token in localStorage, 0 if there is none
  logins,   \* tokens issued so far
  lapsed,   \* tokens that expired by the clock of the browser
  dead,     \* tokens the server no longer accepts
  srv,      \* the server's database
  share,    \* CreateShareToken calls in progress, of this tab and of another
  clip,     \* the session and share token last copied
  wrote,    \* history: the version in which this tab last changed what a query shows
  clash,    \* history: sessions whose share token was overwritten
  acts      \* how many times the user acted, or something happened to them

vars == <<tab, auth, logins, lapsed, dead, srv, share, clip, wrote, clash, acts>>

---------------------------------------------------------------------------
(* Routes and the queries their components observe.  A session list is     *)
(* keyed by its filters.                                                   *)

All == ""                    \* no filter
Login == <<"login">>
Overview == <<"overview">>
List(identifier, page) == <<"sessions", identifier, page>>
Player(id) == <<"player", id>>
Share(token) == <<"share", token>>

Routes ==
  {Login, Overview}
    \cup {List(i, p) : i \in Identifiers \cup {All}, p \in 1 .. MaxPage}
    \cup {Player(s) : s \in SessionIds} \cup Urls

AppRoute(r) == r[1] \in {"overview", "sessions", "player"}
ReplayPage(r) == r[1] \in {"player", "share"}

SessionKey(r) == IF r[1] = "player" THEN <<"session", r[2]>> ELSE <<"public-session", r[2]>>
EventsKey(r) ==
  IF r[1] = "player" THEN <<"session-events", r[2]>> ELSE <<"public-session-events", r[2]>>

Observed(r) ==
  (IF AppRoute(r) THEN {<<"failed-ingest">>} ELSE {})
    \cup (CASE r[1] = "overview" -> {<<"stats">>}
            [] r[1] = "sessions" -> {r}
            [] ReplayPage(r) -> {SessionKey(r), EventsKey(r)}
            [] OTHER -> {})

Keys == UNION {Observed(r) : r \in Routes}
Mutations == {<<"login">>, <<"retry-all">>} \cup {<<"delete", s>> : s \in SessionIds}
                \cup {<<"share-link", s>> : s \in SessionIds}

---------------------------------------------------------------------------
(* The reader API: what a query is answered.                               *)

Matching(identifier) == SelectSeq(srv.list, LAMBDA s : identifier \in {All, Owner[s]})

ListPageOneMore(identifier, page) ==
  LET m == Matching(identifier)
      offset == (page - 1) * LIMIT
  IN  [rows |-> SubSeq(m, offset + 1, IF offset + LIMIT < Len(m) THEN offset + LIMIT + 1 ELSE Len(m)),
       n |-> Len(m)]

ListPage(identifier, page) ==
  LET m == Matching(identifier)
      offset == (page - 1) * LIMIT
  IN  [rows |-> SubSeq(m, offset + 1, IF offset + LIMIT < Len(m) THEN offset + LIMIT ELSE Len(m)),
       n |-> Len(m)]

Shared(token) == {s \in ToSet(srv.list) : srv.share[s] = token}

Public(k) == k[1] \in {"public-session", "public-session-events"}

\* Whether a query finds what it asks for; the events of a session that does
\* not exist are an empty list.
Found(k) ==
  /\ k[1] = "session" => k[2] \in ToSet(srv.list)
  /\ Public(k) => Shared(k[2]) # {}

\* An answer is rows of sessions and a number: of failed batches, of sessions in
\* all, or of events.
Data(rows, n) == [rows |-> rows, n |-> n]
NoVal == Data(<<>>, 0)

Answer(k) ==
  CASE k[1] = "stats" -> Data(srv.list, srv.failed)
    [] k[1] = "failed-ingest" -> Data(<<>>, srv.failed)
    [] k[1] = "sessions" -> ListPage(k[2], k[3])
    [] k[1] = "session" -> Data(<<k[2]>>, 0)
    [] k[1] = "session-events" -> Data(<<>>, srv.events[k[2]])
    [] k[1] = "public-session" -> Data(SetToSeq(Shared(k[2])), 0)
    [] OTHER -> Data(<<>>, srv.events[CHOOSE s \in Shared(k[2]) : TRUE])

Authorized(token) == token # 0 /\ token \notin dead

---------------------------------------------------------------------------
(* The tab.  A call or a datum is raced if it may be older than a change   *)
(* this tab made.                                                          *)

NoData == [ver |-> -1, raced |-> FALSE, error |-> FALSE, val |-> NoVal]
Idle == [status |-> "idle", token |-> 0, tries |-> 0, raced |-> FALSE, ver |-> 0, val |-> NoVal]
Sent(token) == [Idle EXCEPT !.status = "sent", !.token = token]

Has(t, k) == t.cache[k].ver >= 0
InFlight(t, k) == t.calls[k].status # "idle"
isLoading(t, k) == ~Has(t, k) /\ InFlight(t, k)
isError(t, k) == t.cache[k].error /\ ~isLoading(t, k)

\* What the player page and the shared page show.
Events(t) == IF Has(t, EventsKey(t.route)) THEN t.cache[EventsKey(t.route)].val.n ELSE 0

PlayerPage(t) ==
  IF isLoading(t, SessionKey(t.route)) \/ isLoading(t, EventsKey(t.route)) THEN "skeleton"
  ELSE IF ~Has(t, SessionKey(t.route)) THEN "not found"
  ELSE IF Events(t) = 0 THEN "no events" ELSE "replay"

PublicReplayPage(t) ==
  IF isError(t, SessionKey(t.route)) THEN "invalid link"
  ELSE IF isLoading(t, SessionKey(t.route)) \/ isLoading(t, EventsKey(t.route)) THEN "skeleton"
  ELSE IF Events(t) = 0 THEN "no events" ELSE "replay"

View(t) == IF t.route[1] = "player" THEN PlayerPage(t) ELSE PublicReplayPage(t)

\* The effect of both pages that makes the player: it runs when the list of
\* events changed since the last render, and does nothing while the player's
\* element is not on the page.
PlayerEffectOnce(t) ==
  IF ~ReplayPage(t.route) THEN [t EXCEPT !.player = 0, !.deps = -1]
  ELSE [t EXCEPT !.deps = Events(t),
                 !.player = IF View(t) # "replay" THEN 0
                            ELSE IF t.player = 0 /\ Events(t) # t.deps THEN Events(t) ELSE t.player]

PlayerEffect(t) ==
  IF ~ReplayPage(t.route) THEN [t EXCEPT !.player = 0, !.deps = -1]
  ELSE [t EXCEPT !.deps = Events(t),
                 !.player = IF View(t) # "replay" THEN 0
                            ELSE IF Events(t) # t.deps THEN Events(t) ELSE t.player]

\* There are events to play and nowhere to put the player.
Unplaced(t) ==
  ReplayPage(t.route) /\ Events(t) # 0 /\ View(t) # "replay"

\* Components mount: their queries are fetched, or join the call on its way.
Mount(t, r, token) ==
  LET new == {k \in Observed(r) \ Observed(t.route) : ~InFlight(t, k)}
      u == [t EXCEPT !.route = r,
                     !.calls = [k \in DOMAIN @ |-> IF k \in new THEN Sent(token) ELSE @[k]],
                     !.deps = IF r = t.route THEN @ ELSE -1]
  IN  PlayerEffect([u EXCEPT !.late = (r = t.route /\ @) \/ Unplaced(u)])

EmptyTab == [route |-> Login, cache |-> [k \in Keys |-> NoData],
             calls |-> [k \in Keys \cup Mutations |-> Idle], player |-> 0, deps |-> -1,
             late |-> FALSE]

\* What the user does and what happens to them (acts of others, expiry, calls
\* that fail) is bounded in all; what the application does by itself is not.
Act ==
  /\ acts < MaxActs
  /\ acts' = acts + 1

---------------------------------------------------------------------------
(* Signing in and out, and the guards of the routes (lib/auth.ts).         *)

isAuthenticated == auth # 0 /\ auth \notin lapsed

Allowed(r) == IF AppRoute(r) /\ ~isAuthenticated THEN Login ELSE r
AuthAfter(r) == IF AppRoute(r) /\ ~isAuthenticated THEN 0 ELSE auth

\* Navigation within the application runs the guards; memory is kept.
Navigate(t, r) ==
  /\ tab' = Mount(t, Allowed(r), AuthAfter(r))
  /\ auth' = AuthAfter(r)

\* The call of the login form.  A wrong password is one of its failures.
handleSubmit ==
  /\ tab.route = Login /\ ~InFlight(tab, <<"login">>)
  /\ logins < MaxLogins
  /\ tab' = [tab EXCEPT !.calls[<<"login">>] = Sent(0)]
  /\ UNCHANGED <<auth, logins, lapsed, dead, srv, share, clip, wrote, clash, acts>>

\* The server issues a token, and the rest of handleSubmit stores it and goes to
\* the overview, whose guard looks at it.
LoginServed ==
  /\ tab.calls[<<"login">>].status = "sent"
  /\ logins' = logins + 1
  /\ tab' = [tab EXCEPT !.calls[<<"login">>].status = "ok", !.calls[<<"login">>].token = logins + 1]
  /\ UNCHANGED <<auth, lapsed, dead, srv, share, clip, wrote, clash, acts>>

LoggedIn(k) ==
  LET token == tab.calls[k].token
      t == [tab EXCEPT !.calls[k] = Idle]
  IN  /\ k = <<"login">>
      /\ auth' = IF token \in lapsed THEN 0 ELSE token
      /\ tab' = Mount(t, IF token \in lapsed THEN Login ELSE Overview, auth')

handleLogout ==
  /\ Act /\ AppRoute(tab.route)
  /\ auth' = 0
  /\ tab' = Mount(tab, Login, 0)
  /\ UNCHANGED <<logins, lapsed, dead, srv, share, clip, wrote, clash>>

\* Another tab signs out.
OtherTabLogsOut ==
  /\ Act /\ auth # 0
  /\ auth' = 0
  /\ UNCHANGED <<tab, logins, lapsed, dead, srv, share, clip, wrote, clash>>

\* The token expires; the two clocks need not agree on when.
Expire ==
  /\ Act
  /\ \/ lapsed' = 1 .. logins /\ lapsed' # lapsed /\ UNCHANGED dead
     \/ dead' = 1 .. logins /\ dead' # dead /\ UNCHANGED lapsed
  /\ UNCHANGED <<tab, auth, logins, srv, share, clip, wrote, clash>>

---------------------------------------------------------------------------
(* Moving about.                                                           *)

Go(r) ==
  /\ Act
  /\ Navigate(tab, r)
  /\ UNCHANGED <<logins, lapsed, dead, srv, share, clip, wrote, clash>>

Sidebar == AppRoute(tab.route) /\ \E r \in {Overview, List(All, 1)} : r # tab.route /\ Go(r)

\* The session list: rows, filters (clearing them is filtering by nothing), and
\* pages while there is more than one.
OnList == tab.route[1] = "sessions"
sessions == IF Has(tab, tab.route) THEN tab.cache[tab.route].val.rows ELSE <<>>
total == IF Has(tab, tab.route) THEN tab.cache[tab.route].val.n ELSE 0
Pages(n) == (n + LIMIT - 1) \div LIMIT
totalPages == Pages(total)
page == tab.route[3]

OpenRow == OnList /\ \E s \in ToSet(sessions) : Go(Player(s))

applyFilters ==
  OnList /\ \E i \in Identifiers \cup {All} : List(i, 1) # tab.route /\ Go(List(i, 1))

PaginationPrevious ==
  /\ OnList /\ totalPages > 1 /\ page > 1
  /\ Go(List(tab.route[2], page - 1))

PaginationNext ==
  /\ OnList /\ totalPages > 1 /\ page < totalPages /\ page < MaxPage
  /\ Go(List(tab.route[2], page + 1))

\* The recent sessions of the overview, and the way back from the player.
OpenRecent ==
  /\ tab.route = Overview /\ Has(tab, <<"stats">>)
  /\ \E s \in ToSet(tab.cache[<<"stats">>].val.rows) : Go(Player(s))

BackToSessions ==
  /\ tab.route[1] = "player" /\ View(tab) \in {"replay", "no events"}
  /\ Go(List(All, 1))

\* From a shared replay to the full one, offered to those signed in.
OpenDebugView ==
  /\ tab.route[1] = "share" /\ isAuthenticated
  /\ View(tab) \in {"replay", "no events"} /\ Has(tab, SessionKey(tab.route))
  /\ Go(Player(tab.cache[SessionKey(tab.route)].val.rows[1]))

---------------------------------------------------------------------------
(* Queries (queries/sessions.ts, lib/api.ts).                              *)

SetCall(t, k, c) == [t EXCEPT !.calls[k] = c]

Fetched(t, ks) ==
  PlayerEffect([t EXCEPT !.calls = [k \in DOMAIN @ |->
    IF k \in ks /\ ~InFlight(t, k) THEN Sent(auth) ELSE @[k]]])

\* refetchInterval of the statistics and of the banner.
Poll(k) ==
  /\ k[1] \in {"stats", "failed-ingest"} /\ k \in Observed(tab.route) /\ ~InFlight(tab, k)
  /\ tab' = Fetched(tab, {k})
  /\ UNCHANGED <<auth, logins, lapsed, dead, srv, share, clip, wrote, clash, acts>>

\* The window gets the focus back: all queries on the page are fetched.
Focus ==
  /\ Act
  /\ tab' = Fetched(tab, Observed(tab.route))
  /\ UNCHANGED <<auth, logins, lapsed, dead, srv, share, clip, wrote, clash>>

\* The server answers a query.
Serve(k) ==
  LET c == tab.calls[k]
  IN  /\ c.status = "sent"
      /\ tab' = SetCall(tab, k,
           IF ~Public(k) /\ ~Authorized(c.token) THEN [c EXCEPT !.status = "401"]
           ELSE IF ~Found(k) THEN [c EXCEPT !.status = "error"]
           ELSE [c EXCEPT !.status = "ok", !.val = Answer(k), !.ver = srv.ver])
      /\ UNCHANGED <<auth, logins, lapsed, dead, srv, share, clip, wrote, clash, acts>>

\* A call fails: no connection, a 500, or an answer lost on its way back.
Fail(k) ==
  /\ tab.calls[k].status \in {"sent", "ok"}
  /\ Act
  /\ tab' = SetCall(tab, k, [tab.calls[k] EXCEPT !.status = "error", !.val = NoVal])
  /\ UNCHANGED <<auth, logins, lapsed, dead, srv, share, clip, wrote, clash>>

\* fetchWithAuth on a 401: the token goes and so does the application.
UnauthorizedStays == auth' = 0 /\ tab' = [EmptyTab EXCEPT !.route = tab.route]

Unauthorized == auth' = 0 /\ tab' = EmptyTab

\* A new outcome is rendered.  The shared page asks isAuthenticated each time,
\* which takes away a token that expired.
Render(t) ==
  /\ tab' = PlayerEffect([t EXCEPT !.late = @ \/ Unplaced(t)])
  /\ auth' = IF t.route[1] = "share" /\ ~isAuthenticated THEN 0 ELSE auth

\* A failing query is tried again a few times before it is given up.
QueryErrorOneMore(k) ==
  LET c == tab.calls[k]
  IN  Render(IF c.tries <= MaxRetry
             THEN SetCall(tab, k, [Sent(auth) EXCEPT !.tries = c.tries + 1])
             ELSE [SetCall(tab, k, Idle) EXCEPT !.cache[k].error = TRUE])

QueryError(k) ==
  LET c == tab.calls[k]
  IN  Render(IF c.tries < MaxRetry
             THEN SetCall(tab, k, [Sent(auth) EXCEPT !.tries = c.tries + 1])
             ELSE [SetCall(tab, k, Idle) EXCEPT !.cache[k].error = TRUE])

QueryData(k) ==
  LET c == tab.calls[k]
  IN  Render([SetCall(tab, k, Idle) EXCEPT
                !.cache[k] = [ver |-> c.ver, raced |-> c.raced, error |-> FALSE, val |-> c.val]])

Deliver(k) ==
  /\ \/ tab.calls[k].status = "401" /\ Unauthorized
     \/ tab.calls[k].status = "error" /\ QueryError(k)
     \/ tab.calls[k].status = "ok" /\ QueryData(k)
  /\ UNCHANGED <<logins, lapsed, dead, srv, share, clip, wrote, clash, acts>>

---------------------------------------------------------------------------
(* What the server does to its data.                                       *)

\* A batch is stored: more events, a session at the top of the list (the upsert
\* writes started_at each time), and the share token of the SDK if the batch
\* carries one.
Ingested(d, s, token) ==
  [d EXCEPT !.list = <<s>> \o SelectSeq(@, LAMBDA x : x # s),
            !.events[s] = @ + 1,
            !.share[s] = IF token # 0 THEN token ELSE @,
            !.ver = @ + 1]

DeleteSession(d, s) ==
  IF s \notin ToSet(d.list) THEN d
  ELSE [d EXCEPT !.list = SelectSeq(@, LAMBDA x : x # s), !.events[s] = 0,
                 !.share[s] = 0, !.ver = @ + 1]

\* Sessions whose share token may be replaced: a token arrives with a batch
\* when another was given out, or is being made.
Clashes(s, token) ==
  IF /\ token # 0
     /\ srv.share[s] \notin {0, token} \/ \E c \in DOMAIN share : share[c].id = s
  THEN {s} ELSE {}

Ingest(s) ==
  /\ Act /\ srv.events[s] < MaxEvents
  /\ \E token \in {0, SdkToken[s]} :
        srv' = Ingested(srv, s, token) /\ clash' = clash \cup Clashes(s, token)
  /\ UNCHANGED <<tab, auth, logins, lapsed, dead, share, clip, wrote>>

\* The retention purge, or another user of the dashboard.
DeleteElsewhere(s) ==
  /\ Act /\ s \in ToSet(srv.list)
  /\ srv' = DeleteSession(srv, s)
  /\ clash' = clash \cup {s}
  /\ UNCHANGED <<tab, auth, logins, lapsed, dead, share, clip, wrote>>

SaveFailed ==
  /\ Act
  /\ srv' = [srv EXCEPT !.failed = @ + 1, !.ver = @ + 1]
  /\ UNCHANGED <<tab, auth, logins, lapsed, dead, share, clip, wrote, clash>>

---------------------------------------------------------------------------
(* Mutations: the buttons, the handlers of the API, and what the tab does  *)
(* with the outcome.                                                       *)

\* A button is disabled while its mutation is on its way.  (A page left and
\* opened again has a new button; its second call is beyond the bounds.)
Mutate(k) ==
  /\ Act /\ ~InFlight(tab, k)
  /\ tab' = SetCall(tab, k, Sent(auth))
  /\ UNCHANGED <<auth, logins, lapsed, dead, srv, share, clip, wrote, clash>>

OnPlayer(s) == tab.route = Player(s) /\ View(tab) \in {"replay", "no events"}

handleShare(s) == OnPlayer(s) /\ Mutate(<<"share-link", s>>)

handleDelete(s) == OnPlayer(s) /\ Mutate(<<"delete", s>>)

FailedIngestBanner ==
  /\ AppRoute(tab.route) /\ Has(tab, <<"failed-ingest">>)
  /\ tab.cache[<<"failed-ingest">>].val.n > 0
  /\ Mutate(<<"retry-all">>)

Reply(k, n, ver) ==
  tab' = SetCall(tab, k, [tab.calls[k] EXCEPT !.status = "ok", !.val = Data(<<>>, n), !.ver = ver])

Refuse(k) ==
  /\ tab.calls[k].status = "sent" /\ k # <<"login">> /\ ~Authorized(tab.calls[k].token)
  /\ tab' = [tab EXCEPT !.calls[k].status = "401"]
  /\ UNCHANGED <<auth, logins, lapsed, dead, srv, share, clip, wrote, clash, acts>>

Admitted(k) == tab.calls[k].status = "sent" /\ Authorized(tab.calls[k].token)

Delete(s) ==
  LET k == <<"delete", s>>
  IN  /\ Admitted(k)
      /\ srv' = DeleteSession(srv, s)
      /\ Reply(k, 0, srv'.ver)
      /\ clash' = clash \cup {s}
      /\ UNCHANGED <<auth, logins, lapsed, dead, share, clip, wrote, acts>>

\* Every batch that failed is tried again; those that succeed are stored.
RetryAll ==
  LET k == <<"retry-all">>
  IN  /\ Admitted(k)
      /\ \/ UNCHANGED srv
         \/ \E n \in 0 .. srv.failed - 1, s \in SessionIds :
               /\ srv.events[s] < MaxEvents
               /\ srv' = [Ingested(srv, s, 0) EXCEPT !.failed = n]
      /\ Reply(k, 0, srv'.ver)
      /\ UNCHANGED <<auth, logins, lapsed, dead, share, clip, wrote, clash, acts>>

\* CreateShareToken first reads the session, and makes a token if it has none.
\* Caller "tab" is the Share button here, "other" the one of somebody else.
Answered(c, k, n) == IF c = "tab" THEN Reply(k, n, srv.ver) ELSE UNCHANGED tab

MakeToken(c, s) ==
  /\ s \in ToSet(srv.list) /\ srv.tokens < MaxTokens
  /\ srv' = [srv EXCEPT !.tokens = @ + 1]
  /\ share' = [share EXCEPT ![c] = [id |-> s, token |-> srv.tokens + 1]]
  /\ clash' = clash \cup {s2 \in {s} : \E d \in DOMAIN share : share[d].id = s2}
  /\ tab' = IF c = "tab" THEN [tab EXCEPT !.calls[<<"share-link", s>>].status = "made"] ELSE tab

ExistingOrNewAlways(c, s) == MakeToken(c, s)

ExistingOrNew(c, s) ==
  \/ srv.share[s] = 0 /\ MakeToken(c, s)
  \/ /\ s \in ToSet(srv.list) /\ srv.share[s] # 0
     /\ Answered(c, <<"share-link", s>>, srv.share[s])
     /\ UNCHANGED <<srv, share, clash>>

CreateShareToken(c, s) ==
  LET k == <<"share-link", s>>
  IN  /\ share[c].id = "" /\ (IF c = "tab" THEN Admitted(k) /\ UNCHANGED acts ELSE Act)
      /\ \/ ExistingOrNew(c, s)
         \/ /\ s \notin ToSet(srv.list) /\ c = "tab"
            /\ tab' = [tab EXCEPT !.calls[k].status = "error"]
            /\ UNCHANGED <<srv, share, clash>>
      /\ UNCHANGED <<auth, logins, lapsed, dead, clip, wrote>>

\* Then it stores the token; a session deleted meanwhile is not an error.
SetShareToken(c) ==
  LET s == share[c].id
      k == <<"share-link", s>>
  IN  /\ s # ""
      /\ srv' = IF s \in ToSet(srv.list) THEN [srv EXCEPT !.share[s] = share[c].token] ELSE srv
      /\ share' = [share EXCEPT ![c] = [id |-> "", token |-> 0]]
      /\ IF c = "tab" /\ tab.calls[k].status = "made" THEN Reply(k, share[c].token, srv.ver)
                                                    ELSE UNCHANGED tab
      /\ UNCHANGED <<auth, logins, lapsed, dead, clip, wrote, clash, acts>>

\* Which queries a success invalidates, per mutation.
InvalidatesBanner(k) ==
  CASE k[1] = "delete" -> {"sessions", "stats"}
    [] k[1] = "retry-all" -> {"failed-ingest"}
    [] OTHER -> {}

Invalidates(k) ==
  CASE k[1] = "delete" -> {"sessions", "stats"}
    [] k[1] = "retry-all" -> {"failed-ingest", "sessions"}
    [] OTHER -> {}

\* Which queries show what a mutation changed.
Affected(k) ==
  CASE k[1] = "delete" -> {q \in Keys : q[1] \in {"sessions", "stats"}}
                             \cup {<<"session", k[2]>>, <<"session-events", k[2]>>}
    [] k[1] = "retry-all" -> {q \in Keys : ~Public(q)}
    [] OTHER -> {}

\* What Retry all changes and the code leaves as it is on an open page, until
\* the interval, the focus or the next visit fetches it.
LeftAlone(k) ==
  IF k[1] = "retry-all" THEN {"stats", "session", "session-events"} ELSE {}

\* invalidateQueries: the observed queries are fetched again, in place of a call on
\* its way; but a query without data is left to its first call, and so are the
\* calls of pages that are not open.
Invalidate(t, prefixes) ==
  {q \in Observed(t.route) : q[1] \in prefixes /\ (Has(t, q) \/ ~InFlight(t, q))}

Invalidated(k) ==
  LET again == Invalidate(tab, Invalidates(k))
      left == {q \in Observed(tab.route) : q[1] \in LeftAlone(k)}
  IN  [tab EXCEPT
         !.calls = [q \in DOMAIN @ |->
             IF q = k THEN Idle
             ELSE IF q \in again THEN Sent(auth)
             ELSE IF q \in Affected(k) THEN [@[q] EXCEPT !.raced = InFlight(tab, q)] ELSE @[q]],
         !.cache = [q \in DOMAIN @ |-> IF q \in left THEN [@[q] EXCEPT !.raced = TRUE] ELSE @[q]]]

MutationData(k) ==
  wrote' = [q \in Keys |-> IF q \in Affected(k) THEN tab.calls[k].ver ELSE wrote[q]]

\* The rest of handleDelete: wherever the user is by now, they are taken to the
\* list.  The rest of handleShare: the link goes to the clipboard, unless the
\* browser refuses.
Deleted(k) ==
  /\ k[1] = "delete" /\ MutationData(k)
  /\ Navigate(Invalidated(k), List(All, 1))
  /\ UNCHANGED clip

LinkCopied(k) ==
  /\ k[1] = "share-link" /\ MutationData(k)
  /\ clip' \in {clip, [id |-> k[2], token |-> tab.calls[k].val.n]}
  /\ tab' = Invalidated(k) /\ UNCHANGED auth

Retried(k) ==
  /\ k[1] = "retry-all" /\ MutationData(k)
  /\ tab' = Invalidated(k) /\ UNCHANGED <<auth, clip>>

\* The outcome of a mutation: it is never tried again by itself.
DeliverMutation(k) ==
  /\ \/ tab.calls[k].status = "401" /\ Unauthorized /\ UNCHANGED <<clip, wrote>>
     \/ /\ tab.calls[k].status = "error" /\ tab' = SetCall(tab, k, Idle)
        /\ UNCHANGED <<auth, clip, wrote>>
     \/ tab.calls[k].status = "ok" /\ (Deleted(k) \/ LinkCopied(k) \/ Retried(k))
     \/ tab.calls[k].status = "ok" /\ LoggedIn(k) /\ UNCHANGED <<clip, wrote>>
  /\ UNCHANGED <<logins, lapsed, dead, srv, share, clash, acts>>

---------------------------------------------------------------------------
\* The application is opened at an address, with the token of an earlier visit
\* or without one.
Init ==
  /\ auth \in 0 .. 1 /\ logins = auth /\ lapsed = {} /\ dead = {}
  /\ \E r \in Urls : tab = Mount(EmptyTab, Allowed(r), AuthAfter(r))
  /\ srv = [list |-> SetToSeq(SessionIds), events |-> [s \in SessionIds |-> 1], failed |-> 1,
            share |-> SdkToken, tokens |-> 1, ver |-> 0]
  /\ share = [c \in {"tab", "other"} |-> [id |-> "", token |-> 0]]
  /\ clip = [id |-> "", token |-> 0]
  /\ wrote = [q \in Keys |-> 0]
  /\ clash = {} /\ acts = 0

User ==
  \/ handleSubmit \/ handleLogout \/ OtherTabLogsOut
  \/ BackToSessions \/ OpenDebugView \/ PaginationPrevious \/ PaginationNext
  \/ OpenRow \/ OpenRecent \/ Sidebar \/ applyFilters
  \/ Focus \/ FailedIngestBanner
  \/ \E s \in SessionIds : handleShare(s) \/ handleDelete(s)

Api ==
  \/ \E k \in Keys : Poll(k) \/ Serve(k) \/ Deliver(k)
  \/ \E k \in Keys \cup Mutations : Fail(k)
  \/ \E k \in Mutations : Refuse(k) \/ DeliverMutation(k)
  \/ \E s \in SessionIds, c \in {"tab", "other"} : CreateShareToken(c, s)
  \/ \E c \in {"tab", "other"} : SetShareToken(c)
  \/ RetryAll \/ LoginServed

Server ==
  \/ \E s \in SessionIds : Delete(s) \/ Ingest(s) \/ DeleteElsewhere(s)
  \/ SaveFailed \/ Expire

Next == User \/ Api \/ Server

Spec == Init /\ [][Next]_vars

\* The interval of a polled query goes off while its page is open, its call is
\* answered or fails, and the outcome arrives: while there is such a step to take,
\* the call does not stay as it is.  Nothing else needs to be fair.
Polled == {<<"stats">>, <<"failed-ingest">>}

Due(k) == k \in Observed(tab.route) \/ InFlight(tab, k)
MovesOn(k) == tab'.calls[k] # tab.calls[k]

FairSpec == Spec /\ \A k \in Polled : []<>~Due(k) \/ []<><<MovesOn(k)>>_vars

---------------------------------------------------------------------------
(* Properties.                                                             *)

Statuses == {"idle", "sent", "made", "401", "error", "ok"}

\* Routes, calls and counters stay within their sets, and only the calls of a
\* share link are ever half done.
TypeOK ==
  /\ tab.route \in Routes /\ auth \in 0 .. logins /\ logins \in 0 .. MaxLogins
  /\ lapsed \subseteq 1 .. logins /\ dead \subseteq 1 .. logins
  /\ \A k \in Keys \cup Mutations :
        /\ tab.calls[k].status \in Statuses /\ tab.calls[k].token \in 0 .. MaxLogins
        /\ tab.calls[k].tries \in 0 .. MaxRetry /\ tab.calls[k].raced \in BOOLEAN
        /\ tab.calls[k].status = "made" => k[1] = "share-link"
  /\ ToSet(srv.list) \subseteq SessionIds /\ IsInjective(srv.list)
  /\ srv.share \in [SessionIds -> 0 .. MaxTokens]
  /\ clip.id \in SessionIds \cup {""} /\ clash \subseteq SessionIds

\* sessions_.$id.tsx, share.$token.tsx: the player never shows an outdated
\* recording.  What is playing is what was last fetched, and it is missing only
\* on a page whose events were there before the page had a place for it.
PlayerIsCurrent ==
  (ReplayPage(tab.route) /\ View(tab) = "replay") =>
    \/ tab.player = Events(tab)
    \/ tab.player = 0 /\ tab.late

\* The docs promise more: a page that shows the replay shows it playing.
ReplayShown ==
  (ReplayPage(tab.route) /\ View(tab) = "replay") => tab.player = Events(tab)

\* queries/sessions.ts: once a deletion or a retry succeeded and the queries on
\* the page have settled, they show data from after it: the deleted session is in no
\* list, no statistics and on no page of its own.  Excepted is what the code does
\* not fetch again: a call that React Query does not restart, because its query
\* has no data yet or its page is not open, and what Retry all leaves alone.
ReadYourWrites ==
  \A q \in Observed(tab.route) :
    (/\ Has(tab, q) /\ ~InFlight(tab, q)
     /\ ~tab.cache[q].raced /\ ~tab.cache[q].error)
      => tab.cache[q].ver >= wrote[q]


\* service.go, CreateShareToken: a link that was copied opens the session it
\* was copied for, as long as that session was not deleted and no two tokens
\* were on their way to it at once.
CopiedLinkOpens ==
  (clip.id # "" /\ clip.id \notin clash) => Shared(clip.token) = {clip.id}

\* lib/api.ts, failed-ingest-banner.tsx, index.tsx: a tab in the application whose
\* login is no longer good, or whose banner or statistics are outdated, catches up
\* whatever calls are lost: the polls bring what is in the database, or are refused
\* and take the tab out of the application.
PolledShown ==
  \A k \in Polled \cap Observed(tab.route) : Has(tab, k) /\ tab.cache[k].val = Answer(k)

TabCatchesUp == []<>(~AppRoute(tab.route) \/ (Authorized(auth) /\ PolledShown))

============================================================================
