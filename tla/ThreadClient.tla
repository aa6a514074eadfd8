---------------------------- MODULE ThreadClient ----------------------------
(***************************************************************************)
(* One reader of one discussion thread: the paginated comment cache of the *)
(* page (React Query's infinite query), the SSE stream folded into it      *)
(* (lib/hooks/use-thread-events.ts) and the tree the page draws from it    *)
(* (components/discussions/thread-view.tsx, comment-item.tsx).             *)
(*                                                                         *)
(* The API is two facts: a GET returns one newest-first keyset page of     *)
(* what is committed when it is served, and a change is committed first    *)
(* and published later, by the handler of its own request, so that         *)
(* concurrent handlers publish in any order.  A published event reaches    *)
(* the reader in order or not at all (LossyFeed).  Bodies, authors and     *)
(* emoji are left out: a comment is its id, its parent, its tombstone and  *)
(* one reaction count.                                                     *)
(***************************************************************************)
EXTENDS Naturals, Sequences, FiniteSets, SequencesExt

CONSTANTS
    MaxId,      \* ids 1 .. MaxId may be posted (bound)
    Posted,     \* ids 1 .. Posted are there when the page opens
    Posters,    \* how many posts may be between taking an id and committing it
    PageSize,   \* comments per GET
    MaxChanges, \* posts, deletions and reactions (bound)
    MaxStream,  \* events on their way to this reader; more are dropped
    MaxFails,   \* failed fetches (bound)
    MaxDrops,   \* lost connections (bound)
    OwnKinds    \* which changes the reader makes too: kinds of events (bound)

ASSUME ClientAssumption ==
    /\ MaxId \in Nat /\ Posted \in 0 .. MaxId /\ PageSize \in Nat \ {0}
    /\ Posters \in Nat \ {0} /\ MaxStream \in Nat \ {0}
    /\ OwnKinds \subseteq {"created", "deleted", "reaction"}
    /\ MaxChanges \in Nat /\ MaxFails \in Nat /\ MaxDrops \in Nat

VARIABLES
    rows,         \* the comments table: id -> [parent, deleted, count]
    changes,      \* posts, deletions and reactions so far
    unpublished,  \* events of changes committed and not yet published
    own,          \* the reader's own call in flight, as its event, or NoEvent
    stream,       \* events on their way to the reader
    es,           \* the EventSource: "connecting", "open" or "down"
    degraded,     \* useThreadEvents' state: poll while TRUE
    missed,       \* missedWhileDown
    drops,        \* connections lost so far
    pages,        \* the query's data; <<>> is undefined
    fetch,        \* the fetch in flight, or NoFetch
    fails,        \* failed fetches so far
    gap,          \* history: news the cache lost and no refetch brought back
    jumbled       \* history: a comment was merged out of id order

vars == <<rows, changes, unpublished, own, stream, es, degraded, missed, drops,
          pages, fetch, fails, gap, jumbled>>
server == <<rows, changes, unpublished>>
connection == <<es, degraded, missed, drops>>

Ids == 1 .. MaxId
Comment(p) == [parent |-> p, deleted |-> FALSE, count |-> 0]
NoEvent == [kind |-> "none", id |-> 0, count |-> 0]
Event == [kind : {"created", "deleted", "reaction"}, id : Ids, count : 0 .. 1]
Held == [id : Ids, parent : 0 .. MaxId, deleted : BOOLEAN, count : 0 .. 1]
Page == [items : Seq(Held), cursor : 0 .. MaxId]
NoPage == [items |-> <<>>, cursor |-> MaxId + 1]

(* A page as the API serves it: the newest PageSize rows below a cursor    *)
(* (0: none), and the id of its oldest row if there are older ones.        *)
ServedPage(before) ==
    LET below == {i \in DOMAIN rows : before = 0 \/ i < before}
        Rank(i) == Cardinality({j \in below : j >= i})
        row(n) == CHOOSE i \in below : Rank(i) = n
        size == IF Cardinality(below) < PageSize THEN Cardinality(below) ELSE PageSize
    IN  [items |-> [n \in 1 .. size |->
                       [id |-> row(n), parent |-> rows[row(n)].parent,
                        deleted |-> rows[row(n)].deleted, count |-> rows[row(n)].count]],
         cursor |-> IF size < Cardinality(below) THEN row(size) ELSE 0]

-----------------------------------------------------------------------------
(* Folding events into the cache.                                          *)

Ids_(page) == {page.items[n].id : n \in DOMAIN page.items}
Loaded(ps) == UNION {Ids_(ps[k]) : k \in DOMAIN ps}

(* The same change to one comment wherever a page holds it; a page that    *)
(* does not is left alone.                                                 *)
MapPages(ps, i, new) ==
    [k \in DOMAIN ps |-> [ps[k] EXCEPT !.items =
        [n \in DOMAIN ps[k].items |->
            IF ps[k].items[n].id = i THEN new[ps[k].items[n]] ELSE ps[k].items[n]]]]

(* The event shows the comment as it was when it was posted.               *)
MergeCreated(ps, c) ==
    IF ps = <<>> THEN ps
    ELSE IF c.id \in Loaded(ps) THEN MapPages(ps, c.id, [old \in Held |-> c])
    ELSE [ps EXCEPT ![1].items = <<c>> \o @]

(* A fault FreshUnlessGap must notice: only the newest page is searched.   *)
MergeDeletedNewest(ps, i) ==
    [k \in DOMAIN ps |-> IF k > 1 THEN ps[k]
        ELSE MapPages(ps, i, [c \in Held |-> [c EXCEPT !.deleted = TRUE]])[k]]

MergeDeleted(ps, i) == MapPages(ps, i, [c \in Held |-> [c EXCEPT !.deleted = TRUE]])
MergeReaction(ps, i, n) == MapPages(ps, i, [c \in Held |-> [c EXCEPT !.count = n]])

Merge(ps, e) ==
    CASE e.kind = "created" -> MergeCreated(ps,
            [id |-> e.id, parent |-> rows[e.id].parent, deleted |-> FALSE, count |-> 0])
      [] e.kind = "deleted" -> MergeDeleted(ps, e.id)
      [] e.kind = "reaction" -> MergeReaction(ps, e.id, e.count)

-----------------------------------------------------------------------------
(* The query.                                                              *)

NoFetch == [kind |-> "none", got |-> <<>>, want |-> 0, answer |-> NoPage, tainted |-> FALSE]
Refetch(ps) == [kind |-> "pages", got |-> <<>>, want |-> IF ps = <<>> THEN 1 ELSE Len(ps),
                answer |-> NoPage, tainted |-> FALSE]

(* Only the next page is asked for; the pages held now are kept as they    *)
(* are now.                                                                *)
FetchMore(ps) == [kind |-> "more", got |-> ps, want |-> Len(ps) + 1,
                  answer |-> NoPage, tainted |-> FALSE]

InFlight == fetch.kind # "none"

(* Something the fetch will write over the cache has been read already.    *)
HasRead == InFlight /\ (fetch.got # <<>> \/ fetch.answer # NoPage)

(* invalidateQueries: a running refetch is cancelled and started afresh,   *)
(* except the first load, which it joins.                                  *)
Invalidated == IF pages = <<>> /\ InFlight THEN fetch ELSE Refetch(pages)

Init ==
    /\ rows \in {f \in [1 .. Posted -> {Comment(p) : p \in 0 .. Posted}] :
                    \A i \in 1 .. Posted : f[i].parent < i}
    /\ changes = 0 /\ unpublished = {} /\ own = NoEvent /\ stream = <<>>
    /\ es = "connecting" /\ degraded = FALSE /\ missed = FALSE /\ drops = 0
    /\ pages = <<>> /\ fetch = Refetch(<<>>) /\ fails = 0
    /\ gap = TRUE /\ jumbled = FALSE

(* The API reads one page of the fetch under way.                          *)
Serve ==
    /\ InFlight /\ fetch.answer = NoPage
    /\ fetch' = [fetch EXCEPT !.answer =
                    ServedPage(IF fetch.got = <<>> THEN 0 ELSE Last(fetch.got).cursor)]
    /\ UNCHANGED <<server, own, stream, connection, pages, fails, gap, jumbled>>

(* Its answer arrives: the next page is asked for while more were held, or *)
(* what was fetched replaces the cache, whatever was merged meanwhile.     *)
Receive ==
    /\ InFlight /\ fetch.answer # NoPage
    /\ LET got == Append(fetch.got, fetch.answer)
           done == Len(got) >= fetch.want \/ fetch.answer.cursor = 0
       IN  IF done
           THEN /\ pages' = got
                /\ fetch' = NoFetch
                /\ gap' = (fetch.tainted \/ (fetch.kind = "more" /\ gap))
                /\ jumbled' = (fetch.kind = "more" /\ jumbled)
           ELSE /\ fetch' = [fetch EXCEPT !.got = got, !.answer = NoPage]
                /\ UNCHANGED <<pages, gap, jumbled>>
    /\ UNCHANGED <<server, own, stream, connection, fails>>

(* The fetch fails, retry included; the data it would have replaced stays. *)
FetchFails ==
    /\ InFlight /\ fails < MaxFails
    /\ fetch' = NoFetch /\ fails' = fails + 1
    /\ UNCHANGED <<server, own, stream, connection, pages, gap, jumbled>>

HasNextPage == pages # <<>> /\ Last(pages).cursor # 0

(* "Load older comments": cancels a refetch under way.                     *)
LoadOlder ==
    /\ HasNextPage /\ fetch.kind # "more"
    /\ fetch' = FetchMore(pages)
    /\ UNCHANGED <<server, own, stream, connection, pages, fails, gap, jumbled>>

(* A fault PollingKeepsUp must notice: only what is cached is polled.      *)
PollCached ==
    /\ degraded /\ ~InFlight /\ pages # <<>>
    /\ fetch' = Refetch(pages)
    /\ UNCHANGED <<server, own, stream, connection, pages, fails, gap, jumbled>>

(* The 15 s refetchInterval; it joins a fetch that is under way.           *)
Poll ==
    /\ degraded /\ ~InFlight
    /\ fetch' = Refetch(pages)
    /\ UNCHANGED <<server, own, stream, connection, pages, fails, gap, jumbled>>

-----------------------------------------------------------------------------
(* The API, and the reader's own calls to it.                              *)

(* A change is committed, for the reader (mine) or for anybody else.       *)
Commit(e, mine) ==
    /\ changes < MaxChanges /\ changes' = changes + 1
    /\ unpublished' = unpublished \cup {e}
    /\ mine => own = NoEvent /\ e.kind \in OwnKinds
    /\ own' = IF mine THEN e ELSE own
    /\ UNCHANGED <<stream, connection, pages, fetch, fails, gap, jumbled>>

(* A reply needs a live parent in the thread.                              *)
Post(mine) ==
    \E i \in Ids \ DOMAIN rows, p \in {0} \cup DOMAIN rows :
        /\ Cardinality({j \in Ids \ DOMAIN rows : j < i}) < Posters
        /\ p < i /\ (p # 0 => ~rows[p].deleted)
        /\ rows' = [j \in DOMAIN rows \cup {i} |-> IF j = i THEN Comment(p) ELSE rows[j]]
        /\ Commit([kind |-> "created", id |-> i, count |-> 0], mine)

RemoveComment(mine) ==
    \E i \in DOMAIN rows :
        /\ ~rows[i].deleted
        /\ rows' = [rows EXCEPT ![i].deleted = TRUE]
        /\ Commit([kind |-> "deleted", id |-> i, count |-> 0], mine)

(* A reaction is added or taken back; the event carries the new count.     *)
React(mine) ==
    \E i \in DOMAIN rows :
        /\ ~rows[i].deleted
        /\ rows' = [rows EXCEPT ![i].count = 1 - @]
        /\ Commit([kind |-> "reaction", id |-> i, count |-> 1 - rows[i].count], mine)

(* The answer to the reader's own call, sent after its event: refresh().   *)
OwnAnswered ==
    /\ own # NoEvent /\ own \notin unpublished
    /\ own' = NoEvent
    /\ fetch' = Invalidated
    /\ UNCHANGED <<server, stream, connection, pages, fails, gap, jumbled>>

-----------------------------------------------------------------------------
(* The stream.                                                             *)

(* News is lost to the cache until a fetch that reads after this.          *)
Loses ==
    /\ gap' = TRUE
    /\ fetch' = [fetch EXCEPT !.tainted = @ \/ HasRead]

(* A fault TypeOK must notice: the channel takes whatever comes.           *)
PublishUnbounded ==
    \E e \in unpublished :
        /\ unpublished' = unpublished \ {e}
        /\ stream' = Append(stream, e)
        /\ UNCHANGED <<rows, changes, own, connection, pages, fetch, fails, gap, jumbled>>

(* An event is published: to this reader if it is subscribed and its       *)
(* channel has room.                                                       *)
Publish ==
    \E e \in unpublished :
        /\ unpublished' = unpublished \ {e}
        /\ IF es = "open" /\ Len(stream) < MaxStream
           THEN stream' = Append(stream, e) /\ UNCHANGED <<gap, fetch>>
           ELSE Loses /\ UNCHANGED stream
        /\ UNCHANGED <<rows, changes, own, connection, pages, fails, jumbled>>

(* News about one comment still to come, in one of the two ways it changes.*)
Coming(kind, i) ==
    \E e \in unpublished \cup {stream[n] : n \in 2 .. Len(stream)} : e.kind = kind /\ e.id = i

(* The event was overtaken: newer news of its comment has gone before it.  *)
Overtaken(e) ==
    \/ e.kind = "created" /\ rows[e.id].deleted /\ ~Coming("deleted", e.id)
    \/ e.kind # "deleted" /\ rows[e.id].count # e.count /\ ~Coming("reaction", e.id)

(* A comment that is not the newest is put first all the same.             *)
OutOfOrder(e) ==
    /\ e.kind = "created" /\ pages # <<>> /\ e.id \notin Loaded(pages)
    /\ \E i \in Loaded(pages) : i > e.id

Deliver ==
    /\ stream # <<>>
    /\ LET e == Head(stream)
       IN  /\ pages' = Merge(pages, e)
           /\ jumbled' = (jumbled \/ OutOfOrder(e))
           /\ IF pages = <<>> \/ HasRead \/ Overtaken(e) \/ OutOfOrder(e)
              THEN Loses ELSE UNCHANGED <<gap, fetch>>
    /\ stream' = Tail(stream)
    /\ UNCHANGED <<server, own, connection, fails>>

(* The connection is lost, with what was on its way.                       *)
StreamError ==
    /\ es # "down" /\ drops < MaxDrops
    /\ es' = "down" /\ degraded' = TRUE /\ missed' = TRUE /\ drops' = drops + 1
    /\ stream' = <<>>
    /\ IF stream # <<>> THEN Loses ELSE UNCHANGED <<gap, fetch>>
    /\ UNCHANGED <<server, own, pages, fails, jumbled>>

StreamOpen ==
    /\ es # "open"
    /\ es' = "open" /\ degraded' = FALSE /\ missed' = FALSE
    /\ fetch' = IF missed THEN Invalidated ELSE fetch
    /\ UNCHANGED <<server, own, stream, drops, pages, fails, gap, jumbled>>

Next ==
    \/ Serve \/ Receive \/ FetchFails \/ LoadOlder \/ Poll
    \/ \E mine \in BOOLEAN : Post(mine) \/ RemoveComment(mine) \/ React(mine)
    \/ OwnAnswered \/ Publish \/ Deliver \/ StreamError \/ StreamOpen

(* The API answers and publishes; the browser delivers, polls and runs its *)
(* requests.  Connections, users and failures owe nothing.                 *)
Spec ==
    /\ Init /\ [][Next]_vars
    /\ WF_vars(Serve) /\ WF_vars(Receive) /\ WF_vars(Poll)
    /\ WF_vars(Publish) /\ WF_vars(Deliver) /\ WF_vars(OwnAnswered)

-----------------------------------------------------------------------------
(* What the page draws.                                                    *)

(* The flattened pages reversed: arrival order, if the pages are sorted.   *)
Comments == Reverse(FlattenSeq([k \in DOMAIN pages |-> pages[k].items]))

(* A fault EveryCommentDrawn must notice: only real roots are drawn.       *)
RealRoots(cs) == {c \in {cs[n] : n \in DOMAIN cs} : c.parent = 0}

(* Comments with no parent, or with one that is not loaded.                *)
DisplayRoots(cs) ==
    LET loaded == {cs[n].id : n \in DOMAIN cs}
    IN  {c \in {cs[n] : n \in DOMAIN cs} : c.parent = 0 \/ c.parent \notin loaded}

(* groupReplies in one pass: a reply joins the groups below r if its       *)
(* parent is r or has joined before it.  Drawing a reply groups what is    *)
(* below it again, in the same order, and leaves nothing more out.         *)
Below(cs, r) ==
    FoldLeft(LAMBDA in, c : IF c.parent # 0 /\ (c.parent = r \/ c.parent \in in)
                            THEN in \cup {c.id} ELSE in,
             {}, cs)

Drawn(cs) == UNION {{c.id} \cup Below(cs, c.id) : c \in DisplayRoots(cs)}

-----------------------------------------------------------------------------
(* Properties.                                                             *)

(* Type invariant.                                                         *)
TypeOK ==
    /\ DOMAIN rows \subseteq Ids
    /\ \A i \in DOMAIN rows : rows[i] \in [parent : 0 .. MaxId, deleted : BOOLEAN, count : 0 .. 1]
    /\ changes \in 0 .. MaxChanges /\ unpublished \subseteq Event
    /\ own \in Event \cup {NoEvent}
    /\ stream \in Seq(Event) /\ Len(stream) <= MaxStream
    /\ es \in {"connecting", "open", "down"}
    /\ degraded \in BOOLEAN /\ missed \in BOOLEAN /\ drops \in 0 .. MaxDrops
    /\ \A k \in DOMAIN pages : pages[k] \in Page
    /\ fetch.kind \in {"none", "pages", "more"} /\ fetch.tainted \in BOOLEAN
    /\ fails \in 0 .. MaxFails /\ gap \in BOOLEAN /\ jumbled \in BOOLEAN

IdsOf(cs) == [n \in DOMAIN cs |-> cs[n].id]
Ascending(ids) == \A m, n \in DOMAIN ids : m < n => ids[m] < ids[n]

(* The cache says what a fresh fetch of the same extent would: every       *)
(* comment from the oldest one held on, as it is now, and a cursor when    *)
(* there are older ones.                                                   *)
UpToDate ==
    LET held == Loaded(pages)
        covered == IF Last(pages).cursor = 0 THEN DOMAIN rows
                   ELSE {i \in DOMAIN rows : i >= Last(pages).cursor}
    IN  /\ pages # <<>> /\ held = covered
        /\ \A k \in DOMAIN pages : \A n \in DOMAIN pages[k].items :
              LET c == pages[k].items[n] IN
              rows[c.id] = [parent |-> c.parent, deleted |-> c.deleted, count |-> c.count]

(* Nothing is on its way to the page.                                      *)
Quiet == unpublished = {} /\ stream = <<>> /\ ~InFlight

(* Merging events into the cache keeps it as fresh as a fetch              *)
(* (use-thread-events.ts: "the live view and a fresh REST fetch stay       *)
(* byte-identical"), except after one of the ways counted as a gap: news   *)
(* published while the stream was not open or its channel was full, merged *)
(* before the first page arrived, overwritten by a fetch that had read     *)
(* before it, or published after newer news.                               *)
FreshUnlessGap == Quiet /\ ~gap => UpToDate

(* The pages flatten to strictly descending ids, nothing twice, through    *)
(* live merges, refetches and older pages, unless a comment was merged     *)
(* after a newer one; and then the tree draws every loaded comment, with   *)
(* its parent loaded or not (thread-view.tsx: "it would silently vanish"). *)
EveryCommentDrawn ==
    ~jumbled => Ascending(IdsOf(Comments)) /\ Drawn(Comments) = Loaded(pages)

(* While the stream is down the page polls: it catches up with what is     *)
(* committed, or the stream comes back (thread-view.tsx: "poll so the      *)
(* thread still moves").                                                   *)
PollingKeepsUp == degraded ~> (UpToDate \/ ~degraded)
=============================================================================
