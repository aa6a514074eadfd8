# Cour, verified: TLA+ models, TLC runs and TLAPS proofs

Cour is an anime tracker with a social side: lists, threads, friends, and watch
parties in which several people follow one shared clock.  The backend is Go
(`src/backend`), the site Next.js (`src/web`).  This directory holds the TLA+
modules that model the parts in which several actors meet - processes on the
server, and on the site the requests of a page, its cache, other tabs and other
people - the TLC configurations that check them on small instances, and TLAPS
proofs for every size: of the live fan-out, the party gateway, the shared clock,
the lifecycle of parties, imports, the web session, the party client, the thread
client and the thirteen pages on which the viewer writes something.

Paths are relative to `src/backend/internal` unless they start with `web`,
`queries` or `migrations`.

## 1. Inventory

### Processes and what they share

| actor | runs | shares |
|---|---|---|
| API process (several) | HTTP handlers, one Hub for threads, one Hub for parties, one session per party socket | Postgres, Redis keys, Redis pub/sub |
| worker process (several) | asynq tasks: imports, catalog sync, sweeps, notifications | Postgres, Redis keys, the asynq queues |
| Postgres | rows, transactions at READ COMMITTED, partial unique indexes | all |
| Redis | pub/sub (at most once), sorted sets for presence, a hash for the clock, a capped list for chat | all |
| browser tab (several) | pages over a query cache (TanStack Query), REST calls, one SSE stream per open thread, one WebSocket per party | with other tabs: the refresh cookie and local storage; with the API: REST, frames |

### Components

**Live fan-out hub** (`realtime/hub.go`).
State: per process, a map room -> subscriber channels, one Redis subscription.
Operations: Subscribe, its cleanup, receive/dispatch, Publish, presence counts.
Hard: cleanup against dispatch (a send on a closed channel panics the process),
slow readers, lost Redis connections.  Correct when: nothing is sent on a closed
channel, a slow reader holds up nobody, streams carry their room's events in
order, gaps have a cause, presence counts are right.  *Modelled.*

**Thread event stream** (`httpapi/discussions.go`, StreamThreadEvents).
State: the running handler of each reader.  Operations: open (subscribe), read
loop, deferred cleanup.  Correct when what a reader is shown is a subsequence of
what the thread published.  *Modelled, without pings and the REST handlers.*

**Watch-party gateway** (`realtime/party.go`, `close.go`).
State: a session per socket (room, channel, sync goroutine), the Redis presence
set, the row's `closed_at`.  Operations: join, leave, heartbeat, clock
operations, chat, reaction, the forward goroutine, the leave it starts after
`party.closed`, teardown, the sweep of stale members, CloseParty.  Hard: the
read loop, one forward goroutine per join and detached leaves act on one
session; presence is updated by several commands of several processes; processes
die; Redis commands fail one at a time.  Correct when a session has at most one
subscription, presence converges to who is connected, no one is told a room is
closed that is not, and everyone in a closed room is let go.
*Membership and presence modelled; chat is in PartyClient.*

**Watch-party shared clock** (`realtime/clock.go`, clockOp and syncLoop of
`realtime/party.go`, the clock frames in `web/lib/parties.ts`).
State: an anchor (position, playing, at) in Redis, a copy in every client.
Operations: play, pause, seek (load, transform, save, broadcast), the sync loop of
every socket, the state frame of a join.  Hard: nothing locks the anchor between
load and save; broadcasts, syncs and state frames of different ages race to the
client, which takes each as current.  Correct when a member is only ever shown a
clock the room had, and ends with the last one stored.  *Modelled, without the
key's TTL and CloseParty's DEL.*

**Watch-party lifecycle** (`parties/service.go`, `queries/parties.sql`).
State: `watch_parties` rows.  Operations: Create (close the host's open room and
insert the new one), Close, CloseByID.  Hard: concurrent Creates under READ
COMMITTED, lock waits.  Correct when a host has one open room and no two
transactions wait for each other.  *Modelled.*

**Idle-party sweeper** (`jobs/jobs.go` CloseIdleParties, `realtime/close.go`).
State: the list of one pass.  Hard: it decides on two stores read apart, fails on
single rooms, dies half-way.  Correct when every abandoned room is closed in the
end and no room in use is.  *Modelled.*

**List imports** (`imports/*`, `queries/imports.sql`, `jobs/jobs.go`
handleImportProcess).  State: `import_jobs.status`, the asynq task, list rows.
Operations: start/supersede, process, retry, final failure, commit, reopen.
Hard: the status column is all that worker, retries, commits and new imports
share, and the clean-ups run under contexts that may be dead.  Correct when the
rows reach the list at most once, one import per user is live, queued jobs are
processed.  *Modelled; parsing, matching and conversion of rows left out.*

**Import pages** (`web/app/settings/import/*`, `web/lib/hooks/use-import.ts`).
State: the job's id in the browser's storage, the query of that job, the form,
the preview's decisions.  Hard: starts and applies whose answers come after the
form has gone, polling that must outlive them, another tab, a list that changes
between preview and apply.  Correct when nothing waits for ever, no job is
forgotten and the summary counts what will be written.  *Modelled.*

**Web party client** (`web/lib/hooks/use-party.ts`, `web/lib/parties.ts`,
`web/app/parties/[id]/*`).  State: one effect per visit with its socket, timers
and flags, the folded room, the screen.  Hard: an effect awaits a refresh and may
be left meanwhile; a snapshot, events that raced it and the three commands of a
chat line; refusals that are final and losses that are not.  Correct when nothing
outlives its visit, the chat is the room's, the pill tells the truth and the page
comes back.  *Modelled, without reaction bursts and layout.*

**Web thread client** (`web/lib/hooks/use-thread-events.ts`,
`web/components/discussions/*`, `web/lib/thread-texture.ts`).  State: the pages of
comments cached, the stream, the pill, the composer, the shield, the sorts, the
reactions.  Hard: events merged into pages that a fetch served earlier replaces;
events published out of order; a stream that is down while one polls.  Correct
when the cache is what a fetch would return unless an event was lost, everything
loaded is drawn, and nothing is unblurred or lost unasked.  *Modelled, without
mentions and links in bodies.*

**Sessions** (`auth/service.go`, `auth/tokens.go`, `web/lib/api/client.ts`,
`web/lib/auth/session.tsx`).  State: rotating refresh tokens in families, the
cookie, one access token and status per tab.  Hard: tabs refresh one cookie,
answers are lost or late, a sign-out or a password reset runs beside a refresh.
Correct when a family that ended stays ended, a tab is not taken for a thief over
its own refreshes, header and token agree.  *Modelled, without registration's
checks and mailed tokens.*

**List tracker** (`lists/service.go`, `web/lib/hooks/use-list.ts`,
`web/lib/episodes.ts` and the controls on them).  State: a row per show, a
favourite; the cached entry, list and heart.  Hard: several controls write one
row from what each last read; optimistic hearts overlap.  Correct when screens
settle on what is stored and a tap never takes progress back unseen.  *Modelled
for one show, without the activity log.*

**Friends and messages** (`social/friends.go`, `social/messages.go`,
`web/lib/hooks/use-social.ts`, `web/app/friends/*`, `web/app/messages/*`).  State:
requests, friendships, follows; messages and read pointers; cached relations,
bubbles and badges.  Hard: two people press opposite or equal verbs at once, each
a sequence of statements; messages are marked read by pointer.  Correct when
friends both asked, and what counts as read was seen.  *Modelled, without the
feed, suggestions, recommendations and search.*

**Notifications** (`notify/notify.go`, `web/components/notifications/bell.tsx`,
`web/app/notifications/*`).  Correct when the badge counts what is unread.
*Bell, panel and page modelled; the making of notifications is not.*

**Reviews and profiles** (`reviews/service.go`, `web/components/reviews/*`,
`web/app/users/[username]/*`).  State: reviews and votes; forms and buttons that
run ahead of the server; pages of a library read one by one.  Correct when a vote
counts once, a review is not replaced unseen, and every matching show is within
reach.  *Modelled, without moderation and profile editing.*

**Home and hubs** (`web/lib/home.ts`, `web/lib/threads-hub.ts`,
`web/lib/hooks/use-parties.ts`, `web/lib/seasonal.ts`, `web/app/welcome/*`).
State: what the server rendered, the tab's own reads, sorts and filters, a clock
that goes on.  Correct when the views of one collection lose none of it.
*Modelled.*

Not modelled, in the order of the plan (section 8): catalog sync, the making of
notifications, the activity log, mentions.  Not planned: scoring formulas
(discovery, pulse, badges: numeric and recomputed from scratch), single-statement
updates (moderation, profile editing), cache-aside reads, routing, configuration,
mail, generated code, marketing and static pages.  Every one is listed with its
files under `components` in PROJECT.json, and every place in the code that is hard
to test, modelled or not, under `hazards`.

### How the components interact

* A handler that writes a comment calls Hub.Publish after its commit; Redis hands
  the event to every process; each Hub offers it to its own readers.
* A party socket subscribes to the party Hub; joins, leaves, heartbeats, chat and
  clock operations of its read loop are published on the same bus.
* The REST close and the sweeper close the row first (Postgres) and then call
  CloseParty (Redis: publish `party.closed`, delete the keys).  Create closes the
  previous row and never calls CloseParty.
* The sweeper reads presence written by joins and heartbeats.
* An import request queues a task after its commit; the worker and the commit
  request meet only in `import_jobs.status`, which the importer's page polls.
* Every REST call of a tab goes through one client, which attaches the access
  token, refreshes it once for all callers when it is refused, and repeats the
  call.
* On the site, a write's answer is put into the query cache or has queries read
  again; pages meet only in that cache.

## 2. Modules

    Hub              the fan-out registry (no specification of its own)
      HubFeed        EXTENDS Hub: thread streams; implements LossyFeed
        MCHubFeed    instance for TLC
      PartyGateway   EXTENDS Hub: sessions and presence over the party bus
        MCPartyGateway
        PartyGatewayProofs  theorems and proofs
    LossyFeed        what a live stream promises
    ImportJobs       the import state machine; implements ImportOutcome
      MCImportJobs
    ImportOutcome    what an import promises
    ServerProofs     EXTENDS HubFeed, ImportJobs: theorems and proofs of both
    PartyClock       clock.go's arithmetic; host tabs, sync loops, members
    PartyLifecycle   rows, Create's transactions, the sweep
    PartyProofs      EXTENDS PartyClock, PartyLifecycle: theorems and proofs of both
    ThreadClient     one reader's cached thread under stream, fetches and polling
      ThreadClientProofs  theorems and proofs
    WebAuth          tabs, cookie, refresh tokens
      WebAuthProofs  theorems and proofs
    PartyClient      a party page's visits, sockets and chat
      PartyClientProofs  theorems and proofs
    WebPages         the pages the viewer writes on, side by side, an INSTANCE of each:
      Tracker Heart ImportFlow ImportPreview Onboarding
      ThreadRoom SpoilerShield ReactionBar
      Friendship Conversation Notifications HelpfulVote ReviewComposer
      ListPageProofs, SocialPageProofs  theorems and proofs
      MCWebPages     EXTENDS WebPages with the pages that show a collection:
        EpisodeRail ThreadTexture ThreadSorts PartyRoom PartyLobby
        ThreadsHub Evening Library Seasonal

ServerProofs and PartyProofs each hold two parts that share no state.  ImportJobs and
PartyLifecycle therefore have prefixed names (`ImportSpec`, `LifeSpec`) where the
others have `Init`, `Next`, `Spec`, `TypeOK`.

In each module a small group of definitions is introduced as a *fault*: a
mutated form of an action (a dropped guard, a forgotten step) that stands in for
it when the properties are tested for being able to fail.  They take no part in
any specification.  Where a fault of a page names a property of that page, the
conjunction of WebPages or MCWebPages that contains it notices too.

Where a component's constants can be written in a configuration, its run is of
the component itself (PartyClock, PartyLifecycle, ThreadClient, WebAuth,
PartyClient); the other components have an MC module that gives the constants
their values.

### Hub

| model | code |
|---|---|
| `wire[i]` | messages between Redis and process i's receive goroutine (external; order and at-most-once delivery of Redis pub/sub) |
| `rooms[i][r]` | `Hub.rooms` |
| `chan[c]` | the channel made by Subscribe: free, open or closed, with its buffer |
| `Subscribe`, `Cleanup` | one step each: both hold `h.mu` throughout |
| `Receive`, `Dispatch`, `Offer` | receive/dispatch under `h.mu`; the select with a default branch |
| `Publish` | PUBLISH; an error is logged and changes nothing |
| `Lose` | a dropped Redis connection |

### HubFeed

`where`, `last` and `shown` are what the stream handler and its response hold:
the thread it serves, the newest comment and the newest count it wrote.  Comments
are numbered per thread so that order and gaps are visible; that number is the
only payload.  `missed` is a history variable: which kinds of event this stream
was denied, by a full buffer or by a lost connection.  A newer presence count
that fits heals a missed one; a comment that was missed stays missed.

### PartyGateway

One session is a read loop that handles one frame at a time (`job`: the step it
has reached in a join or a heartbeat), one forward goroutine per join (`fwd`), and
leaves (`leaver`: index 0 run by the read loop, index j started by forward j).
Steps are split where the code does a Redis or Postgres command, releases the
session's lock or hands over to another goroutine:

| action | code |
|---|---|
| `JoinGate`, `JoinRefused` | join's check of the row |
| `LeaveTake`, `LeaveCleanup`, `LeaveRemove`, `LeavePublish` | leave: swap the session's fields under `s.mu` (374-384), clean up after the unlock (385-386), ZREM, publish member.left |
| `JoinSubscribe` | the session enters the room, subscribes, starts forward |
| `Touch`, `SweepRemove`, `SweepPublish`, `ReadMembers` | touchPresence: ZADD and the scan, ZREM of stale members, publications, ZRANGE |
| `TouchFails`, `TouchBreaks`, `LeaveRemoveFails`, `ClosePartyFails` | a Redis command fails (`RedisFails` names which may: "touch", "leave", "close"); what the code then skips |
| `SendState`, `AnnounceJoined` | the snapshot frame, member.joined if the member was new |
| `Forward`, `ForwardEnds` | the relay loop, its self-echo filter and what it does on party.closed |
| `CloseRow`, `CloseParty`, `Supersede` | REST close or sweep, row first; Create's silent close |
| `Age`, `Expire` | presenceTTL passes for one score; presenceKeyTTL for the whole key |
| `Crash` | a process dies: no teardown, its sockets and wire are gone |

Between `LeaveTake` and `LeaveCleanup` the session is in no room and its old
subscription is still open: a join of the read loop may subscribe again beside a
detached leave, and the leave may have taken the room of that newer join.  Who holds
which subscription then is what `MembershipCoherent` says.

`view` folds the frames the client has received as `web/lib/parties.ts` does
(`Fold` is applyFrame's cases for the bus events; the state frame replaces).
Presence scores are abstracted to absent, fresh and stale, which is all the code
tells apart.

### PartyClock

Its first part is `clock.go` as operators over integer seconds: `PositionAt`,
`Clamp`, `Synced`, `Play`, `Pause`, `Seek`.  NaN and fractions of a second are left
out; the duration may be unknown, as in the code.  The second part uses them:

| model | code |
|---|---|
| `stored`, `Loaded` | the clock hash; loadClock, which pauses a room without one at 0 |
| `saved` | history variable: every anchor ever stored |
| `ClockOpLoad`, `ClockOpTransform`, `ClockOpSave`, `ClockOpPublish` | clockOp of a host's socket, a step per Redis command; the time is read after the load |
| `ClockOpFails` | saveClock's error, with or without effect; a failed load changes nothing |
| `JoinSubscribe`, `JoinLoad`, `SendState` | join: subscribed (and forward and syncLoop running) before the clock is loaded, the state frame last |
| `SyncLoad`, `SyncSend` | a turn of syncLoop: load, then send re-anchored at now |
| `Forward` | the relay of a clock frame |
| `Show`, `view` | applyFrame: the anchor and the time of its receipt, from which the client interpolates |

The bus is taken by the contract HubFeed implements: in order, possibly with
gaps.  A frame that reaches a client is stamped with its receipt, not with `at`,
so a clock frame that waited runs late by the time it waited.

### PartyLifecycle

A party stands for the one Create request of its host that may insert it, and
`tx[p]` is that request's transaction.  READ COMMITTED is
modelled where it matters: the UPDATE takes a snapshot of the host's open rows
(`CreateBegin`), waits for those another transaction has locked and re-reads them
(`CreateClosePrevious`), the INSERT waits for an uncommitted conflicting insert
and then violates the partial unique index if that one commits (`CreateInsert`).
Ages are counted in ticks that saturate just past IdleAfter.  `beat` is a history
variable, the true age of the newest heartbeat, against which the sweep's verdict
is compared.  Here a socket enters and is dropped in one step; PartyGateway has
the detail, and PartyLifecycle has what the gateway takes as given about rows.

### ImportJobs

`status` is the column; `task` the asynq task with its retry count; `create`,
`run` and `commit` the request, worker and commit that are under way.
`MarkImportJobProcessing`, `MarkImportJobCommitting` and the other updates are
guarded updates of one row, hence one step; between them anything may happen.
A commit carries `ctx`, whether its request's context still lives: `ClientGone`
may end it at any point and what runs after that fails.  asynq is external: a task
runs again after an error or an expired lease up to MaxRetry, then it is archived.

### ThreadClient

| model | code |
|---|---|
| `rows`, `unpublished` | the comments table; events of committed changes whose handler has yet to publish |
| `stream`, `es`, `degraded`, `missed` | the reader's SSE connection and useThreadEvents' state |
| `pages`, `fetch` | the infinite query's data and its fetch in flight, page by page |
| `Serve`, `Receive`, `FetchFails` | ListComments answers one page; the query takes it |
| `Merge` | mergeCreated, mergeDeleted, mergeReaction on all loaded pages |
| `StreamError`, `StreamOpen`, `Poll` | EventSource errors and returns; the interval while degraded |
| `OwnAnswered` | the reader's own post, deletion or reaction is answered and invalidates the query |
| `Comments`, `DisplayRoots`, `Drawn` | the flattened list and the tree drawn from it |

`gap` and `jumbled` are history variables that name the races the properties
except: news the cache lost, and a comment merged out of id order.  TanStack
Query is external: a fetch is started, served and taken in separate steps,
setQueryData does not stop it, a failure keeps the data.

### WebAuth

Each request is a step that sends it with the cookie or token of that moment,
steps in which the API serves it (`RefreshCheck`, `RefreshRotate` are the two
transactions' reads and writes of Service.Refresh), and a step in which its
answer arrives or is lost.  `tokens` is refresh_tokens in order of issue.
`rotatedBy` and `ended` are history variables.  A tab has one request in flight, a
tab in `Busy` two.

### PartyClient

`eff[v]` is the closure of visit v's effect (its flags, its retry and its
attempt), `sock[v]` its socket with the session at the other end; a visit that is
left keeps its record until all it started is over.  The API's side is a join
that subscribes, snapshots and answers, and `saying[u]`, a chat line between
INCR, RPUSH/LTRIM and PUBLISH.

### The pages

Each page module has the stored rows its API calls touch, the page's queries as
records of data and fetch, and its own state; a call is sent, served and
answered (or lost) in separate steps, and callbacks are part of the step in which
the answer arrives, with TanStack Query's rules: callbacks of the mutation fire
after the page has gone, callbacks of one call do not; an active query that is
invalidated is read again, an inactive one is marked.  Where the page rests on a
pure function (buckets of episodes, hours of an evening, sorts, filters, the URL's
parameters), the function is an operator, and its property is checked on every
input of a small set: such a page has as many initial states as inputs.

History variables (`causes`, `doubt`, `crossed`, `late`, ...) name the races under
which the code really does not keep the promise; each property holds without
them, and section 7 lists what they stand for.

| page module | promise |
|---|---|
| Tracker | `ScreensSettle`: with nothing in flight, entry, list and editor show the row; `TapRaises`: +1 and Watched never lower it |
| Heart | `HeartIsTrue`: the heart shows the favourite |
| EpisodeRail | `AllWithinReach`: each episode is in one range, the rail opens on the one it should, and the jumps agree with what is up next |
| ThreadRoom | `RoomIsHonest`: the pill counts what the reader was neither taken to nor told of; no text is sent twice |
| SpoilerShield | `BlurHolds`: what may spoil is blurred until asked for |
| ThreadTexture | `StripAddsUp`, `RateIsCovered` |
| ThreadSorts, ReactionBar | `SortsAreWhole`; `BarIsHonest`: counts and own marks are the stored ones |
| ImportFlow | `SpinnersEnd`, `NothingStranded` |
| ImportPreview | `SummaryIsHonest`: on an unchanged list the summary promises no less than Apply does, and nothing left out is written |
| Onboarding | `SeedIsHonest`: the toast counts what was written |
| Friendship | `ConsentIsMutual`: friends both last asked to be |
| Conversation, Notifications | `ReadIsCleared`, `BellIsHonest` |
| HelpfulVote, ReviewComposer | `VoteIsHonest`, `ReviewIsKept` |
| PartyRoom, PartyLobby | `RoomShowsRoom`, `LobbyIsHonest` |
| ThreadsHub, Evening, Library, Seasonal | `HubIsHonest`, `EveningIsHonest`, `LibraryIsHonest`, `ChartIsWhole`: views of one collection lose none of it |

MCWebPages opens one page per behaviour.  The pages share no state there, so this
is the union of twenty-two checks with one set of bounds, not a product: TLC
reads the page's variables from slots `s1` ... `s13`.

`WebPages` has the thirteen pages with calls of their own, `PagesInit` and `PagesNext`.
`PagesSpec` sets them among any others: a page that is none of theirs may do what it
likes with the slots, as long as it stays the page it is.  MCWebPages' `Spec` is such
a case (each of its nine pages leaves `page` unchanged), so what is proved of
`PagesSpec` holds of what `web_pages` checks.

## 3. Runs

| run | instance | shows |
|---|---|---|
| `hub_feed` | 1 process, 2 threads, 2 readers, buffer 2, 2 comments a thread, presence on | types; no send on a closed channel; a reader denied nothing has every comment from its first on, and counts are right (`StreamHonest`); fan-out never waits for a reader; HubFeed implements LossyFeed |
| `party_presence` | 2 users on 2 processes, 1 room, ages, crashes, a failing ZREM, no bus delivery | types; `PresenceConverges`: a crashed member, or one whose leave failed in Redis, disappears, and a connected member that was swept is listed again |
| `party_close` | 1 socket joining twice, 2 rooms, one closed by its host or superseded, heartbeats and CloseRoom failing | `MembershipCoherent`: every open subscription has one holder, the session or the one leave that took it, and no closed frame comes before its row; no ghosts in an open room; a buffered party.closed ends the membership whatever the read loop does |
| `party_lifecycle` | 1 host making 2 rooms, 1 guest, sweeps | types; one open room per host; `RoomsEnd`: every Create ends, abandoned rooms close |
| `party_clock` | 2 host tabs with 2 frames of play, pause and seek (one beyond the end), 1 member, 2 seconds, an episode of 2 s, Redis failing | types; the member is always shown a clock the room had; a member that stays ends with the clock stored last |
| `import_jobs` | 1 user, 2 jobs, 2 workers, 2 commits, 2 retries, 2 worker deaths, API crashes | types; `ImportsExclusive`: one live import, rows applied at most once; queued jobs are processed; ImportJobs implements ImportOutcome |
| `thread_client` | 3 ids, 1 posted before, pages of 1, 2 changes, 1 event on its way, 1 lost connection, 1 failed fetch | types; the cache is what is committed unless an event was lost; all that is loaded is drawn; polling catches up |
| `web_auth` | 2 tabs, 2 requests, 1 lost answer or reload | types; ended families stay ended; reuse is another tab's or a lost answer's doing; status follows token; no caller waits for ever |
| `party_client` | 2 speakers, 3 lines, cap 2, 2 visits, 1 fault, 3 frames on their way | types; no orphans; the chat shows the room; the pill is true; the page comes back |
| `web_pages` | 22 pages (bounds below) | types; `ListsHonest`, `ViewsAgree`, `ThreadHonest`, `SocialHonest`: the promises of the table above; `TapsRaise` |
| `party_join`, `import_commit` | smallest instance with the case | each refutes one sentence of the code's comments (section 7) |

### Bounds, and why they are enough

* `BufferCap` is 1 or 2 for subscriberBuffer's 32: the code distinguishes full
  from not full, and 2 also lets two kinds of event share a buffer.  With
  `MaxSent` 2 comments and the presence counts in between, buffers fill.
* `hub_feed` has one process because processes share nothing but Redis's order;
  the proofs cover any number.  Two readers are what it takes for one to come, go
  or stall while the other watches.
* `WireCap` bounds undelivered events of the party bus; a publish against a full
  wire counts as one that failed, which the code allows at any time.  In
  `party_presence` it is 0: no event ever arrives, so presence is shown to heal
  from the sorted set alone, and the state space has room for crashes.  In
  `party_close` CloseParty waits for room on the wire, since its publication is
  in one transaction with the DEL; `ClosePartyFails` covers its failure.
* `party_close`: `MaxJoins` 2 and two rooms are the fewest with which the detached
  leave of a closed room runs beside the join of another and takes it; `MaxCloses`
  1 lets one of the two close.  `party_presence` has one socket a user: a third
  socket, a second tab of one user, is beyond the time of a run.
* `party_clock`: one member, because members influence neither each other nor the
  clock; two frames, the fewest with which two tabs race; buffer 1, so that a
  second broadcast is dropped while the first waits.  2 s let a clock run into the
  end and be relayed, synced and loaded at three different times.  The safety
  properties are proved for all values.
* Ages: PresenceTTL 1 and IdleAfter 2 ticks keep the order of 45 s and 15 min; the
  code only compares against each.
* `MaxRetry` 2 for taskMaxRetry's 5 leaves a first, a middle and a last attempt;
  `MaxDeaths` 2 lets both workers die.
* Two jobs, workers and commits are the fewest with which two of them can race.
* `thread_client`: pages of one comment, so that every reply crosses a page and
  every refetch takes several requests; two changes race each other, one event
  fills the stream, so a second is lost.
* `web_auth`: two tabs and two requests are the fewest with which one refresh
  overtakes a sign-in, a sign-out or another refresh; each tab may be a third
  caller through its own retried call.
* `party_client`: two visits, so that one may outlive the other; three lines in a
  chat capped at two, so that one falls out; one fault, because faults act
  through the socket, which each of them ends.
* `web_pages`: two shows, jobs, titles, friends or messages; one page of one row;
  as many calls as can overlap (two or three); one failed or lost call.  Pure
  functions see every boundary: ranges of 2 with episodes 1, 2, 3, 5 and 6, hours
  on both sides of the window, readouts around a minute, an hour and 100 hours,
  equal scores, absent scores and absent days.

Fault switches are constants: `Crashes`, `Ages`, `RedisFails` (in PartyGateway the
set of commands that may fail), `DbErrors`.  Each
run turns on those its question is about.  `DbErrors` is FALSE in all of them: with
TRUE, a worker that cannot read its own job on its last attempt calls Fail, whose
UPDATE has no status guard, and `ImportOutcomes` breaks; this is listed as a
hazard, and the runs assume the worker's reads of the job's row succeed.

Deadlock checking is off in every run: clients may all be gone, every room closed
and every job finished, and the bounded histories end.

## 4. Fairness

* Hub: only the receive goroutine (`Deliver`).  It is a goroutine that loops on a
  Go channel and never blocks on a reader.  Readers get no fairness.
* Gateway: a read loop that has a frame finishes it (`Handle`), forward goroutines
  run (`Relay`), connected clients heartbeat (HEARTBEAT_MS in
  `web/lib/parties.ts`), and a score nobody refreshes ages and its key
  expires.  There is none for joining, leaving, hanging up, closing or crashing.
* Clock: the goroutines of a socket run (a frame that was read is finished,
  forward relays, join goes on) and a sync loop whose ticker keeps firing loads
  and sends again: its errors do not go on for ever.  None for the host's frames,
  joining and leaving.
* Lifecycle: Postgres lets a statement go on that need not wait; time passes; the
  sweep is scheduled every five minutes.  `SweepCondemn` and `SweepCloseRow` are
  strongly fair: a sweep that fails on a room is tried again by later sweeps and
  does not fail on the same room for ever.
* Thread client: a fetch that was sent is served and taken (`Serve`, `Receive`), a
  committed change is published and delivered, an own call is answered, and the
  interval fires while the page is degraded (`Poll`); all weak.  None for the
  stream's return, posting or "Load older".
* Web session: a request that was sent is served and its answer arrives, each tab's
  refresh and each call on its own (`RefreshSteps`, `CallSteps`).  None for users,
  the clock or lost answers.
* Party client: the steps of each visit's connection (timer, refresh, open,
  authenticate, join, frames) are taken; faults are bounded, users and speakers
  have no fairness.
* Pages: none; their properties are safety properties of settled states.
* Imports: workers poll the queue and finish or fail what they took.  Commits,
  creates and crashes have none.

## 5. What is proved

ServerProofs proves of the streams, for every set of processes, threads and (finitely many)
readers, every buffer size of at least one, and any number of comments:

* `FeedTypeCorrect`: `Spec => []TypeOK`.  Includes that no buffer outgrows its
  bound.  Step by step over the actions; `OfferTyped` and `DispatchTyped` carry
  the argument about buffers, `PresenceEventTyped` that a count is a number.
* `FeedNeverSendsOnClosed`: `Spec => []NoSendOnClosed`.  NoSendOnClosed is not
  inductive: it says nothing of the handler that will run the cleanup.  The
  inductive invariant is `Streams`: a stream handler runs exactly while its
  channel is open, and the registry holds its reader in the handler's thread, on
  the reader's process, and nowhere else.  `StreamsStep` proves it preserved,
  `StreamsAlways` that it always holds, and the theorem follows.
* `FeedRefinesLossyFeed`: `Spec => FeedSpec`, the detailed model implements the
  abstract one.  The step that matters is ReadEvent: LossyFeed's Show demands a
  number above the last one shown and at most what the room has published.  That
  needs `Order`: every comment on a wire is numbered at most `sent` of its room and
  wires are ascending per room; a stream's buffer ascends, lies above what the
  reader was shown, and lies below every comment of its room still on the wire.
  `TailOrder`, `OfferOrder`, `TailWire` and `AppendWire` say what the sequence
  operations do to that order; `OrderStep` puts them together, action by action.

* `FeedStreamHonest`: `Spec => []StreamHonest`.  That a stream has no gap unless it
  was denied a comment rests on `NoGap`: what a wire still holds for a room runs up
  to the room's newest comment without a gap (`WireRuns`), what a buffer holds runs
  from what was shown up to what the wire holds unless a loss is on record, and a
  record starts with its stream (`MissedSinceOpen`).

Assumptions used there: `HubAssumption` (each reader is on one process, readers are
finitely many, the buffer has at least one slot) and `FeedAssumption` (NoRoom is
no thread).  TLC evaluates both in `hub_feed`.

PartyProofs proves of the clock, for every set of host tabs and members, every set of frames
and every episode length, known or not:

* `SyncShowsTheSame`: re-anchoring at t changes nothing of what the clock shows
  from t on, the clamps at both ends included, as the comment of clock.go's
  `synced` says.  By cases on whether it runs.
* `ClockTypeCorrect`: `Spec => []TypeOK`.  Every anchor stored, in flight or shown
  lies within the episode whatever the host sends; `ClampTyped`, `TransformTyped`
  and `SyncedTyped` carry it.
* `ClockShownWasReal`: `Spec => []ShownWasReal`.  Not inductive: it says nothing of
  what is on its way.  `InFlight` says that every anchor loaded, queued, about to
  be sent or about to be broadcast is one that was stored (or the paused zero of a
  room without a clock) and not from the future; `Shown` is ShownWasReal without
  its bounded horizon: each view shows what some stored anchor showed a constant
  time earlier.  A sync or state frame preserves it by `SyncedShown` (which rests
  on SyncShowsTheSame), a relayed frame by `RelayedShown`, any other step because
  stored anchors are never forgotten (`SavedGrows`).  `InFlightStep` and
  `ShownStep` put this together action by action.

Assumptions used: `ClockAssumption` (a duration is a natural number or unknown)
and `PartyClockAssumption` (frames carry an integer position or, for play and
pause, none).  TLC evaluates both in `party_clock`.

PartyGatewayProofs proves, for any processes, users, rooms, sockets and joins,
buffers and wires of any size, crashes and closes at any point:

* `GatewayTypeCorrect`: `Spec => []TypeOK`.  Inductive together with `JoinsCounted`: a
  join about to subscribe has a channel left, and a session in a room has used one,
  so that its leave finds the channel it closes.
* `GatewayMembershipCoherent`: `Spec => []MembershipCoherent`.  The inductive invariant
  is `Membership`.  `JoinsFromOutside`: a join subscribes from outside any room, and
  no leave of the read loop's own runs beside its work.  `OwnRegistry` and
  `SessionCoherent`: the registry half, that an open subscription is held by the
  session in the room of its newest join or by exactly one leave between its swap and
  its cleanup; `OneHolder` restates it one channel at a time, and `HolderStays` is what
  a step that touches neither keeps.  `ForwardsOnce`: a forward goroutine starts with
  its join, its detached leave at its end, so no leave takes a subscription twice.
  `ClosesKnown`: wherever word of a close is - in a call, on a wire, in a buffer, in
  a detached leave - some row is closed, and word that reaches the newest join is
  about the room it is in.
* `GatewayNoGhosts`: `Spec => []NoGhosts`, if `"leave" \notin RedisFails`.  It adds
  `WorksOnItsRoom`: the read loop works on the room its session is in, unless that
  room was closed or a late leave took it.  A ZREM that fails does leave a ghost,
  which only the heartbeats of others or the key's TTL remove (`PresenceHeals`, by
  TLC): the assumption cannot be dropped.

Most steps move one socket. `SocketSteps` says what any step is as one socket sees
it - it rests, passes its gate, beats, calls a leave, enters a room, works, dies, or
one of its leaves takes its room, cleans up or moves on, or a forward ends - and
each invariant is proved over those kinds instead of over the 31 actions. The
attempt to prove NoGhosts found it false as it stood: with two joins and two rooms,
the detached leave of a closed room (party.go:431) takes the room its socket has
joined since, whose heartbeat, already past its check, lists the user again.
`LateLeave` now says so in the property; it needs two joins and another room that
was closed, which `party_close` has: without the exception TLC refutes NoGhosts
there.

PartyProofs proves of the rows, for any parties, hosts and users:

* `LifecycleTypeCorrect`: `LifeSpec => []LifeTypeOK`.
* `LifecycleOneOpenPerHost`: `LifeSpec => []OneOpenPerHost`.  Inductive with `CommitsAlone`:
  a transaction about to commit is alone in that with its host, and has closed
  every open room of its host but its own - the unique index and its waits.
* `LifecycleClosedForGood`: no step opens a closed party again.  An action property of
  the row alone, which the runs do not check.

ServerProofs proves of imports, for any jobs, users, workers and requests, any number
of retries and deaths:

* `ImportTypeCorrect`: `ImportSpec => []ImportTypeOK`, with database errors too.
* `ImportsAreExclusive`: `ImportSpec => []ImportsExclusive` if `DbErrors` is FALSE.  The
  inductive invariant `JobsInv` says who holds a job: a worker runs a task nobody
  else runs, on a job it claimed (`RunsOwnTasks`); a Create has no task before its
  commit (`CreatesFresh`) and holds the previews it supersedes (`PreviewsHeld`); a
  commit past its claim is the only one of its job (`CommitsHold`); rows are applied
  from Apply on and never again (`AppliedWhen`); one import of a user is live
  (`OneActive`).
* `ImportsRefineOutcomes`: `ImportSpec => ImportOutcomes` if `DbErrors` is FALSE, step by step
  over the same invariant.

`DbErrors` stands for a worker that cannot read its own job's row on its last
attempt.  Fail's UPDATE then marks the job failed whatever its status is
(queries/imports.sql:29), and both statements are false: a job that is being
committed becomes failed beside its commit.  That is a hazard of the list, not
something to prove.

WebAuthProofs proves, for any tabs, requests, lost answers and reloads:

* `AuthTypeCorrect`: `Spec => []TypeOK`.  The bound on the number of tokens is the part
  that is not local.  `Paid`: the tokens, the refreshes that may still rotate and
  the requests that may still sign in or start a refresh are together at most the
  mounts, requests and losses so far.  `AccountsStep` gives each step its entry,
  `AccountsPaid` adds up.
* `AuthEndedStaysEnded`: `Spec => []EndedStaysEnded`.  Inductive with `NoneChecked` (no
  flight past its check presents a token of an ended family) and `Numbered`
  (families are numbered without a gap, so a sign-in's family is new).
* `AuthReuseIsForeign`: `Spec => ReuseIsForeign`.  Behind it: `Undelivered`, what a
  rotation or a sign-in has issued is known to nobody until its answer arrives and
  is issued to one only; and `LeftBehind`, a token that a tab rotated last is not
  what the tab presents, and is in the cookie only while that flight's answer is on
  its way.  A step is quiet, delivers a token, forsakes one, or issues one.
* `AuthStatusFollowsToken`: `Spec => StatusFollowsToken`, from the types alone.

Assumption used: `AuthAssumption` (tabs are finitely many, and none is called "lost",
the mark of an answer that never arrived).  TLC evaluates it in `web_auth`.  The
inductive invariants above and below were first checked by TLC, as invariants, on
the instances of the runs.

ThreadClientProofs proves, for any thread, page size and size of the channel, and any
number of changes, losses, failed fetches and posters:

* `ThreadTypeCorrect`: `Spec => []TypeOK`, by `Types`, which says it in full.
* `ThreadFreshUnlessGap`: `Spec => []FreshUnlessGap`, which speaks of a quiet page only.
  `Covers` says what holds of pages before all is quiet: every row from their last
  cursor on is held or its `created` event still comes, every comment held is its row
  as it is but for a field whose event still comes, and the cursor is the id of a
  comment held.  `Cached`: the cache covers the table unless a gap is on record.
  `Fetched`: so does what a fetch has read so far, unless it is tainted - which is why
  it may replace the cache.  `ServedIs` says what a keyset page is (the newest rows
  below the cursor, and a cursor exactly when rows are left), `FirstPage` and
  `NextPage` that pages read from cursor to cursor cover the table though it changed
  between the reads, `CoversAged` that a change committed now is made good by its
  event, `MergeCovers` that merging an event which nothing newer went before, and
  which is not out of order, delivers exactly what was due.

* `ThreadEveryCommentDrawn`: `Spec => []EveryCommentDrawn`.  `Arranged` is inductive with
  the above: unless an event came out of order, the pages are `Sorted` (newest first,
  each page below the one before, nothing twice, down to the cursor), so is what a
  fetch has read (even when it started from a jumbled cache, if it starts again from
  the first page), and every comment held is newer than its parent (`Rooted`).
  `NextSorted` and `MergeSorted` say what a further page and a merge do to that order.
  `FlatIs` then says that flattening keeps it, `JoinsInTurn` that groupReplies, in one pass
  over a list in which parents precede replies, decides on a reply when its turn
  comes and never again, and `DrawnIs` that nobody is left out: the oldest comment
  left out would have a parent that is drawn.

FlattenSeq and FoldLeft are recursive functions, so each is a CHOOSE over the solutions of an
equation: `FlatAtIs` and `FoldAtIs` show that the equation has a solution, after which
CHOOSE is one.  ServedPage numbers the rows by counting those above, and a CHOOSE takes the n-th.
That each number is taken (`RankTaken`), and that those solutions exist, need an
induction: `Smallest`, every set of naturals has a least element, stands in for it.

Assumption used: `ClientAssumption` (page size, channel and posters are at least one).
TLC evaluates it in `thread_client`.

PartyClientProofs proves, for any speakers, visits, chat lines and lost frames, and
any cap of the chat:

* `PartyClientTypeCorrect`: `Spec => []TypeOK`, by `Types`, which says it in full.
* `PartyClientNoOrphans`: `Spec => []NoOrphans`.  Inductive with `Effective`: a visit
  that is past was told to close, and all that may be left of it is a refresh, which
  looks at that flag before it opens anything.
* `PartyClientPillIsTrue`: `Spec => []PillIsTrue`.  `Told`: no frame on its way speaks of
  the end, as `closed` or as a refused join, before the row is closed.
* `PartyClientChatShowsRoom`: `Spec => []ChatShowsRoom`, which speaks of a settled page
  only.  `Covered` says what holds before it settles: of every message that is
  published and not lost, the page in the room has the text in its chat, or a frame
  of its own still comes, or a state frame comes that has it or is followed by its
  frame, and then no other state frame does; a join that holds a snapshot holds them
  all; a join that has not sent its state frame has none on the way.  `NothingTwice`
  gives the rest: a message is new to the backlog, and no list has one twice.
  `ShowsLess`, `ShowsSent`, `ShowsState` and `ShowsRead` say what fewer messages, a frame
  sent, the state frame sent and a frame read do to that claim.

Assumption used: `PartyClientAssumption` (the viewer is one of finitely many speakers,
the bounds are natural numbers).  TLC evaluates it in `party_client`.

ListPageProofs and SocialPageProofs prove of the pages, for any values of the bounds
and any catalogue, titles, comments and emoji:

* `ListsAreHonest`: `PagesSpec => []ListsHonest`, and `TapsDoRaise`: `PagesSpec => TapsRaise`,
  both from `ListsKeep`: `PagesSpec => []ListsInv`.
* `ThreadsAreHonest`: `PagesSpec => []ThreadHonest`, and `SocialIsHonest`: `PagesSpec =>
  []SocialHonest`, both from `SocialKeep`: `PagesSpec => []SocialInv`.

No promise of a page is inductive: each speaks of a page at rest and says nothing of
the calls that bring it there.  `ListsInv` and `SocialInv` are the invariants of the
open page, each in its page's module after the promise it carries:

| page | invariant | what it says of the calls under way |
|---|---|---|
| Tracker | `TrackerInv` | until something crosses: one mutation, its answer is the row, what was read is the row unless an answer is on its way; a tap nobody made early asks for more than the row has |
| Heart | `HeartInv` | until two toggles cross: the heart shows what the one on its way asks for, and a read that was served is true |
| ImportFlow | `FlowInv` | only the last job is live, a start that still answers its form answers with that one, no stored job is known to be gone |
| ImportPreview | `PreviewInv` | only rows for review lack a title; a row decided about, or being decided, is drawn |
| Onboarding | `SeedInv` | what is on the list was sent, what was answered well is on it, nothing is said before all is answered |
| ThreadRoom | `RoomInv` | unless repeated: one post at a time, and the draft is its text until it is answered |
| SpoilerShield | its `TypeOK` | - |
| ReactionBar | `BarInv` | of each emoji, the last count to come is the stored one, or all to come are late; what was read has the stored count and mark, or a count or answer is to come |
| Friendship | `FriendInv` | a request stands for one who wants it or is taking it back; whoever accepts saw the other's; a friendship one does not want is being ended |
| Conversation | `ConversationInv` | the bubbles are consecutive; what is shown is read unless a mark is on its way or failed; a badge not to be read again counts nothing read |
| Notifications | `BellInv` | with no answer pending the badge is what is unread, if nothing came since; what is read was drawn, or swept by "mark all" |
| HelpfulVote | `VoteInv` | the button's count has its own vote in it; a call asks for the opposite of what is stored |
| ReviewComposer | `ComposerInv` | one save at a time, of the open form; it replaces what the form started from; a query is the review until a save is accepted |

Each page has lemmas that its invariant holds at first (`...Init`), is kept by a
step (one per conjunct, split by action where it is disturbed) and implies the promise
(`...Holds`).  `ListsStep` and `SocialStep` put the pages together: a step of the
specification is one of the page that is open, or leaves a page of others alone.  A page's
`Cardinality` is a copy of its own to the prover; small lemmas (`RoomCard`) say that it is
the library's.

Assumption used: `PagesAssumption`, the assumptions of the thirteen pages: bounds are
natural numbers, page sizes are positive, titles and the catalogue are numbered, marked
comments are comments.  TLC evaluates it in `web_pages`.  Sets that are counted need no
such assumption: a list, a thread and the calls made so far are shown to be finite.
The proof of ReviewComposer needs a text to write (`MaxTexts` at least one).

Two things these proofs found in the models.  A CASE whose guards overlap is any of its
arms to the prover, though TLC takes the first: Notifications, PartyClient, ThreadsHub and
Evening had one, and now say which arm is meant.  And ReactionBar's types bounded the
reactions of others by one, which holds in the instance only; the bound is `Crowd`.

## 6. What is only model-checked

Liveness (FanOutNeverStalls, PresenceConverges, ClosedFrameDrops, ClocksAgree,
RoomsEnd, JobsAreProcessed, PollingKeepsUp, WaitsEnd, ComesBack) is out of the
prover's reach and stays with TLC.  Of the pages, two properties stay with it.
`ViewsAgree` is, but for the party's room and the lobby, about what folds, sorts and
filters compute from data; its proof needs an induction over lists (that a fold adds up,
that a sort is a permutation), which the provers cannot be given.  `TypeOK` of the twenty-two pages says in TLC's terms what the
invariants above say in full for thirteen of them.

Taken as given: a COMMIT's answer is reliable; pub/sub delivers in one order to
each subscriber; a process's pattern subscription is in place before it serves
(hub.go:105 does not wait for Redis to confirm it); a sorted-set command is atomic; asynq never runs one task twice at the same time while its
worker lives; API processes agree on the time.

## 7. Findings

Each is a run with one property that states a comment of the code, and that TLC
refutes.

1. `party_join` / NothingLostWhileJoining.  party.go:285-287 promises that nothing
   is lost between subscribing and the snapshot.  forward starts relaying before
   the state frame is sent, and that frame replaces the roster with members read
   earlier: a member.joined relayed in between is overwritten.
2. `import_commit` / FailedApplyReopens.  imports/service.go:227-228 says that a
   failed apply reopens the job.  Reopening uses the request's context; when that
   ended, the job stays 'committing', which blocks the user's imports.

Seen in the same way while modelling, and left as exceptions of the properties
concerned (a history variable, or a premise) with an entry under `hazards` for the
graver ones:

* party.go:429-431: forward starts a leave after party.closed, to leave the closed
  room; leave takes whatever room the session is in when it runs, so a socket that
  has re-joined elsewhere is dropped from the new room.
* party.go:381-386: between leave's unlock and its cleanup the session looks out of
  any room while its subscription is open, and its events may still be relayed beside
  those of the next join; every such subscription is cleaned up, which is what
  `MembershipCoherent` asks.
* parties/service.go:66-68 says that the unique index never fires; two Creates of
  one host at once make it fire, and the second is answered with an internal error.
* jobs.go:79-81 says the sweep looks at the last heartbeat, and at created_at for
  a room nobody ever joined; leave removes the last heartbeat, so a room older than
  15 minutes whose last member has just left is closed at once.
* jobs.go:129-132 says that a job is marked failed on its last retry; Fail uses the
  attempt's context, and after a timeout the job stays 'processing' for good.
* social/friends.go:66-67 says mutual intent is a friendship, not a second pending
  row; two people asking at once leave two crossing rows, and accept does not look
  at whether its request was still there.
* Lists: a read served before a write and taken after it overwrites what the write
  put into the cache (use-list.ts:63); a failed first read offers "Add to list"
  over a row (list-editor.tsx:54-69), and the editor writes all its fields from
  what it was opened with; overlapping favourite toggles roll back to what each saw.
* Threads: Ctrl+Enter posts while the button is dead (thread-view.tsx:492); text
  typed during a post is erased with it; use-thread-events.ts:67-68 takes an own
  reaction for refetched already, which a late count of 0 refutes: the viewer's
  mark is lost until the next read.  While the session is loading, or once the
  entry's read has failed, nothing is blurred.
* Threads, out of order: handlers publish after their commits, so comments merge out
  of id order, replies before parents, an old count after a new one.
* lib/threads-hub.ts:123-124 says that live rooms lead by presence, then recent
  comments; the code (155, `ThreadsHub` too) adds ten times the one to the other, so
  eleven recent comments outweigh a reader.
* Sessions: a refresh of which the answer comes after the tab has signed out leaves a
  token behind a signed-out header (lib/api/client.ts:38).
* Reviews: a form opened before the viewer's review was read replaces it; the
  answer of an earlier save closes a form opened since; a network error is silent.
* Library: the rows of one import share updated_at and the last ORDER BY has no
  tie-break (queries/profiles.sql:148), so pages repeat or miss shows.
* Imports: onStarted does not fire once the form has gone (import-start.tsx:36,45):
  the job runs unseen; the 404 of an old job empties the storage of a new one.
* Messages and notifications: marking moves past what was never shown
  (queries/messages.sql:20-43, queries/notifications.sql:22-24); a mark that failed
  is not repeated.
* An episode numbered 0 would be counted in the first range and shown in none
  (web/lib/episodes.ts:29, 54); the instance has none.
* Parties: two quick presses of the 10 s keys before the echo move once; a readout
  of 100 hours cannot be typed back; the query cache outlives a sign-out.

## 8. Plan

Done: Hub, HubFeed, LossyFeed; PartyGateway; PartyLifecycle; ImportJobs and
ImportOutcome; PartyClock; WebAuth; PartyClient; ThreadClient; the pages of WebPages;
the proofs of all of these; the other pages of MCWebPages, model-checked.

Next theorems: of PartyRoom and PartyLobby, whose promises need no induction over lists.

Next modules: `CatalogSync` (the backfill cursor under chained and duplicate tasks,
the delta watermark under its page cap), `Notify` (the aired high-water mark), and
the activity log against a reference definition.  No module uses RECURSIVE.

## 9. Running it

    tlc -config MCHubFeed.cfg MCHubFeed
    tlc -config MCPartyPresence.cfg MCPartyGateway      (also MCPartyClose, MCPartyJoin)
    tlc -config MCPartyLifecycle.cfg PartyLifecycle
    tlc -config MCImportJobs.cfg MCImportJobs           (also MCImportCommit)
    tlc -config MCPartyClock.cfg PartyClock
    tlc -config MCThreadClient.cfg ThreadClient
    tlc -config MCWebAuth.cfg WebAuth
    tlc -config MCPartyClient.cfg PartyClient
    tlc -config MCWebPages.cfg MCWebPages
    tlapm ServerProofs.tla       (and PartyProofs, PartyGatewayProofs,
                                  WebAuthProofs, PartyClientProofs,
                                  ThreadClientProofs, ListPageProofs,
                                  SocialPageProofs)

A passing run takes between half a minute and three minutes.  PROJECT.json names, for
every definition that models code, the lines it stands for (`map`), and for every
property a mutation of the model under which it fails (`mutants`).
