------------------------------ MODULE Tracker ------------------------------
(***************************************************************************)
(* One show on a viewer's list, in one tab (lib/hooks/use-list.ts and the  *)
(* controls built on it): the show's page with its editor and its rail of  *)
(* episodes, and the list page with its +1.                                *)
(*                                                                         *)
(* Each page shows a cached query.  A query is asked, served and answered  *)
(* in separate steps; so is a mutation, whose answer writes the show's     *)
(* entry and invalidates the list.                                         *)
(***************************************************************************)
EXTENDS Naturals, FiniteSets, FiniteSetsExt

CONSTANTS
    Total,      \* episodes of the show
    MaxMade,    \* mutations made (bound)
    MaxVisits,  \* changes of page (bound)
    MaxFails    \* calls that fail (bound)

(* What is assumed of them.                                                *)
TrackerAssumption == Total \in Nat \ {0} /\ MaxMade \in Nat
                  /\ MaxVisits \in Nat /\ MaxFails \in Nat

VARIABLES
    row,        \* list_entries: the viewer's row for the show
    query,      \* the tab's queries: the show's entry, its row in the list
    muts,       \* mutations in flight
    view,       \* the page on screen: "show" or "list"
    form,       \* the editor's form
    causes,     \* history: "early", a press on a screen that was being read
                \* again or was never read; "crossed", an answer that was
                \* lost or two calls that may have crossed
    visits,     \* changes of page so far
    made,       \* mutations made so far
    failed      \* calls failed so far

vars == <<row, query, muts, view, form, causes, visits, made, failed>>

Statuses == {"none", "planning", "watching", "completed"}   \* "none": not on the list
Entry(s, p) == [status |-> s, progress |-> p]
Entries == [status : Statuses, progress : 0 .. Total]
NotListed == Entry("none", 0)

(* A query: its data, its fetch with the answer once it is served, and     *)
(* whether it was invalidated.                                             *)
Pages == {"show", "list"}
Unread == [has |-> FALSE, data |-> NotListed, fetch |-> "none", answer |-> NotListed,
           stale |-> FALSE]
Asked(q) == [q EXCEPT !.fetch = IF @ = "none" THEN "asked" ELSE @]
Written(q, v) == [q EXCEPT !.has = TRUE, !.data = v, !.stale = FALSE]
Idle(q) == [q EXCEPT !.fetch = "none", !.answer = NotListed]

(* Invalidating a query restarts the fetch of a mounted one.               *)
Invalidated(q, mounted) ==
    IF mounted THEN [Asked(Idle(q)) EXCEPT !.stale = TRUE] ELSE [q EXCEPT !.stale = TRUE]

ClosedForm == [open |-> FALSE, entry |-> NotListed, confirm |-> FALSE, edited |-> FALSE]

(* resolveEntry: progress is clamped, watching all is completing.          *)
Resolved(body) ==
    LET most == Min({body.progress, Total})
        status == IF body.status = "watching" /\ most = Total THEN "completed" ELSE body.status
    IN  Entry(status, IF status = "completed" THEN Total ELSE most)

Init ==
    /\ row \in {NotListed, Entry("planning", 0), Entry("watching", 0)}
    /\ query = [p \in Pages |-> IF p = "list" THEN Asked(Unread) ELSE Unread]
    /\ muts = {} /\ view = "list" /\ form = ClosedForm
    /\ causes = {} /\ visits = 0 /\ made = 0 /\ failed = 0

-----------------------------------------------------------------------------
(* The controls.                                                           *)

(* A button is dead while its own component's mutation is in flight.       *)
Pending(src, kind) == \E m \in muts : m.src = src /\ m.kind = kind /\ m.mounted

(* One more mutation; doubt is what may be wrong with what it rests on.    *)
Send(kind, src, body, doubt) ==
    /\ made < MaxMade /\ made' = made + 1
    /\ causes' = causes \cup doubt \cup (IF muts = {} THEN {} ELSE {"crossed"})
    /\ muts' = muts \cup {[id |-> made, kind |-> kind, src |-> src, mounted |-> TRUE,
                           at |-> "sent", body |-> body]}

(* Going to the other page: the controls of this one are gone, what they   *)
(* sent is not.  A query that is fresh enough is not asked again, one that *)
(* was invalidated is.                                                     *)
Navigate ==
    /\ visits < MaxVisits /\ visits' = visits + 1
    /\ view' = IF view = "list" THEN "show" ELSE "list"
    /\ \/ query' = [query EXCEPT ![view'] = Asked(@)]
       \/ query[view'].has /\ ~query[view'].stale /\ UNCHANGED query
    /\ muts' = {[m EXCEPT !.mounted = FALSE] : m \in muts}
    /\ form' = ClosedForm
    /\ UNCHANGED <<row, causes, made, failed>>

(* A press on a screen that is being read again, or was never read.        *)
Early == IF query[view].stale \/ query[view].fetch # "none" THEN {"early"} ELSE {}
Blind == IF query[view].has THEN {} ELSE {"early"}

(* ListRow's and ContinueCard's +1, for a show being watched.              *)
PlusOne ==
    LET shown == query["list"].data
    IN  /\ view = "list" /\ shown.status = "watching" /\ shown.progress < Total
        /\ ~Pending("row", "upsert")
        /\ Send("upsert", "row", Entry("watching", shown.progress + 1), Early)
        /\ UNCHANGED <<row, query, view, form, visits, failed>>

(* The rail's Watched, on the episode that is up next (markWatched).       *)
Watched ==
    LET shown == query["show"].data
    IN  /\ view = "show" /\ ~form.open /\ ~Pending("rail", "upsert")
        /\ shown.status # "none" /\ shown.progress < Total
        /\ Send("upsert", "rail",
                Entry(IF shown.status = "planning" THEN "watching" ELSE shown.status,
                      shown.progress + 1), Early)
        /\ UNCHANGED <<row, query, view, form, visits, failed>>

(* The editor waits for the first read to settle, one way or the other; it *)
(* is seeded when it opens, and not again.                                 *)
OpenEditor ==
    /\ view = "show" /\ ~form.open
    /\ query["show"].has \/ query["show"].fetch = "none"
    /\ form' = [ClosedForm EXCEPT !.open = TRUE,
                  !.entry = IF query["show"].data = NotListed
                            THEN Entry("watching", 0) ELSE query["show"].data]
    /\ UNCHANGED <<row, query, muts, view, causes, visits, made, failed>>

DismissEditor ==
    /\ form.open /\ form' = ClosedForm
    /\ muts' = {IF m.src = "editor" THEN [m EXCEPT !.mounted = FALSE] ELSE m : m \in muts}
    /\ UNCHANGED <<row, query, view, causes, visits, made, failed>>

(* Changing a field, once per form (bound).                                *)
EditField ==
    /\ form.open /\ ~form.edited
    /\ \E f \in [status : {"watching", "completed"}] \cup [progress : 0 .. Total] :
         form' = [form EXCEPT !.edited = TRUE,
                    !.entry = [k \in DOMAIN @ |-> IF k \in DOMAIN f THEN f[k] ELSE @[k]]]
    /\ UNCHANGED <<row, query, muts, view, causes, visits, made, failed>>

Save ==
    /\ form.open /\ ~Pending("editor", "upsert")
    /\ Send("upsert", "editor", form.entry, Blind)
    /\ UNCHANGED <<row, query, view, form, visits, failed>>

(* Remove asks twice.                                                      *)
Remove ==
    /\ form.open /\ query["show"].data # NotListed /\ ~Pending("editor", "delete")
    /\ \/ ~form.confirm /\ form' = [form EXCEPT !.confirm = TRUE] /\ UNCHANGED <<muts, made, causes>>
       \/ form.confirm /\ Send("delete", "editor", NotListed, {}) /\ UNCHANGED form
    /\ UNCHANGED <<row, query, view, visits, failed>>

-----------------------------------------------------------------------------
(* The API, and its answers.                                               *)

ServeQuery(p) ==
    /\ query[p].fetch = "asked"
    /\ query' = [query EXCEPT ![p].fetch = "served", ![p].answer = row]
    /\ UNCHANGED <<row, muts, view, form, causes, visits, made, failed>>

QueryAnswered(p) ==
    /\ query[p].fetch = "served"
    /\ query' = [query EXCEPT ![p] = Idle(Written(@, @.answer))]
    /\ UNCHANGED <<row, muts, view, form, causes, visits, made, failed>>

QueryFails(p) ==
    /\ query[p].fetch # "none" /\ failed < MaxFails /\ failed' = failed + 1
    /\ query' = [query EXCEPT ![p] = Idle(@)]
    /\ causes' = causes \cup {"crossed"}
    /\ UNCHANGED <<row, muts, view, form, visits, made>>

(* A mutation takes effect at the API.                                     *)
ServeMutation(m) ==
    LET entry == IF m.kind = "delete" THEN NotListed ELSE Resolved(m.body)
    IN  /\ m.at = "sent"
        /\ row' = entry
        /\ muts' = (muts \ {m}) \cup {[m EXCEPT !.at = "served", !.body = entry]}
        /\ UNCHANGED <<query, view, form, causes, visits, made, failed>>

(* Writing a query, or invalidating one that is not on screen, leaves its  *)
(* fetch to arrive after, with what it read before.                        *)
Raced == IF query["show"].fetch # "none" \/ (query["list"].fetch # "none" /\ view # "list")
         THEN {"crossed"} ELSE {}

(* A fault ScreensSettle must notice: only an upsert's answer is kept.     *)
MutationAnsweredUpsertsOnly(m) ==
    /\ m.at = "served" /\ muts' = muts \ {m}
    /\ query' = [query EXCEPT !["show"] = IF m.kind = "delete" THEN @ ELSE Written(@, m.body),
                              !["list"] = Invalidated(@, view = "list")]
    /\ causes' = causes \cup Raced
    /\ form' = IF m.src = "editor" /\ m.mounted THEN ClosedForm ELSE form
    /\ UNCHANGED <<row, view, visits, made, failed>>

(* A fault TapsRaise must notice: the list is not invalidated.             *)
MutationAnsweredEntryOnly(m) ==
    /\ m.at = "served" /\ muts' = muts \ {m}
    /\ query' = [query EXCEPT !["show"] = Written(@, m.body)]
    /\ causes' = causes \cup Raced
    /\ form' = IF m.src = "editor" /\ m.mounted THEN ClosedForm ELSE form
    /\ UNCHANGED <<row, view, visits, made, failed>>

(* onSuccess of an upsert or a delete; the editor's dialog closes.         *)
MutationAnswered(m) ==
    /\ m.at = "served" /\ muts' = muts \ {m}
    /\ query' = [query EXCEPT !["show"] = Written(@, m.body),
                              !["list"] = Invalidated(@, view = "list")]
    /\ causes' = causes \cup Raced
    /\ form' = IF m.src = "editor" /\ m.mounted THEN ClosedForm ELSE form
    /\ UNCHANGED <<row, view, visits, made, failed>>

(* A mutation that fails, before or after it took effect: only a toast.    *)
MutationFails(m) ==
    /\ failed < MaxFails /\ failed' = failed + 1
    /\ muts' = muts \ {m}
    /\ causes' = causes \cup (IF m.at = "served" THEN {"crossed"} ELSE {})
    /\ UNCHANGED <<row, query, view, form, visits, made>>

Next ==
    \/ Navigate \/ PlusOne \/ Watched
    \/ OpenEditor \/ DismissEditor \/ EditField \/ Save \/ Remove
    \/ \E p \in Pages : ServeQuery(p) \/ QueryAnswered(p) \/ QueryFails(p)
    \/ \E m \in muts : ServeMutation(m) \/ MutationAnswered(m) \/ MutationFails(m)

Spec == Init /\ [][Next]_vars

-----------------------------------------------------------------------------
(* Every variable has its type, and no two mutations share an id.          *)
TypeOK ==
    /\ row \in Entries /\ view \in Pages
    /\ \A p \in Pages : query[p].data \in Entries
    /\ form.open \in BOOLEAN /\ form.entry \in Entries
    /\ Cardinality({m.id : m \in muts}) = Cardinality(muts)

(* Nothing in flight for what is on screen.                                *)
Quiet == muts = {} /\ query[view].fetch = "none" /\ ~query[view].stale

(* What is on screen is what the API holds once nothing is in flight,      *)
(* unless an answer was lost, a fetch crossed a write it does not follow,  *)
(* or two mutations were in flight at once.                                *)
ScreensSettle ==
    Quiet /\ query[view].has /\ "crossed" \notin causes => query[view].data = row

(* A tap on +1 or Watched lowers the progress of a show only after a press *)
(* on a screen that was being read again, or where screens may not settle. *)
TapRaises ==
    \A m \in muts : m.src \in {"row", "rail"} /\ ServeMutation(m) =>
        row'.progress >= row.progress \/ causes # {}

TapsRaise == [][TapRaises]_vars

-----------------------------------------------------------------------------
(* What every step keeps: no query has data it never read, a mutation has  *)
(* an id of its own, and until something crosses there is one at most, its *)
(* answer is what is stored, and without an answer on its way what the     *)
(* screens have read and what is being read is what is stored.  A tap that *)
(* nobody made early asks for more than what is stored.                    *)
AnyQuery == [has : BOOLEAN, data : Entries, fetch : {"none", "asked", "served"},
             answer : Entries, stale : BOOLEAN]
AnyMutation == [id : Nat, kind : {"upsert", "delete"}, src : {"row", "rail", "editor"},
                mounted : BOOLEAN, at : {"sent", "served"}, body : Entries]

TrackerTypes ==
    /\ row \in Entries /\ view \in Pages
    /\ query \in [Pages -> AnyQuery]
    /\ muts \subseteq AnyMutation
    /\ form \in [open : BOOLEAN, entry : Entries, confirm : BOOLEAN, edited : BOOLEAN]
    /\ made \in Nat

NothingMadeUp == \A p \in Pages : ~query[p].has => query[p].data = NotListed
OwnIds ==
    /\ \A m \in muts : m.id < made
    /\ \A m, n \in muts : m.id = n.id => m = n

OneMutation == \A m, n \in muts : m = n
AnswerIsStored == \A m \in muts : m.at = "served" => m.body = row
ReadIsStored ==
    (\A m \in muts : m.at = "sent") =>
        \A p \in Pages :
          /\ query[p].has /\ ~query[p].stale => query[p].data = row
          /\ query[p].fetch = "served" => query[p].answer = row

TapsAskMore ==
    causes = {} =>
        \A m \in muts : m.at = "sent" /\ m.src \in {"row", "rail"} =>
            m.kind = "upsert" /\ m.body.progress >= row.progress

TrackerInv ==
    /\ TrackerTypes /\ NothingMadeUp /\ OwnIds /\ TapsAskMore
    /\ "crossed" \notin causes => OneMutation /\ AnswerIsStored /\ ReadIsStored
=============================================================================
