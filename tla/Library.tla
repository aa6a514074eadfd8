------------------------------ MODULE Library ------------------------------
(***************************************************************************)
(* A profile's library: the statistics, which are clicks into the list     *)
(* below (app/users/[username]/profile-view.tsx), the tabs and chips that  *)
(* narrow it, and the pages that are read one after another                *)
(* (library-section.tsx, lib/profile.ts).                                  *)
(*                                                                         *)
(* Of the filters, the score and the year stand for all four: the genre    *)
(* and the format do what the score does.                                  *)
(***************************************************************************)
EXTENDS Integers, Sequences, SequencesExt

CONSTANTS
    Listable,   \* shows the owner may have on the list, numbers
    YearOf,     \* the year each premiered
    PerPage,    \* per_page
    MaxEvents   \* clicks, changes of an entry and failed reads (bound)

(* What is assumed of them.                                                *)
LibraryAssumption ==
    /\ Listable \subseteq Nat /\ YearOf \in [Listable -> Nat] /\ PerPage \in Nat \ {0}
    /\ MaxEvents \in Nat

VARIABLES
    order,      \* the shows on the list, the one changed last first
    imported,   \* those of one import, not changed since: one updated_at
    entry,      \* each show's status and score, as stored
    filter,     \* the filter in use
    sortBy,     \* the sort in use
    promise,    \* how many shows the tab or statistic clicked says there are
    pages,      \* the query cache: the pages read of each filter and sort
    reads,      \* reads in flight: [key, upTo, got]
    failed,     \* keys whose last read failed
    touches,    \* changes so far
    events      \* clicks, changes and failures so far

shelf == <<order, imported, entry, touches>>
choice == <<filter, sortBy, promise>>
libraryVars == <<shelf, choice, pages, reads, failed, events>>

None == -1
Best == 10                      \* the one score that is given
Statuses == {"watching", "completed"}
Entries == [status : Statuses, score : {None, Best}]
Filters == [status : Statuses \cup {"all"}, score : {None, Best},
            year : {None} \cup {YearOf[s] : s \in Listable}]
Sorts == {"updated", "score"}
Key == <<filter, sortBy>>

Count(P(_)) == Len(SelectSeq(order, P))
TabCount(st) == Count(LAMBDA s : st \in {"all", entry[s].status})
Histogram(n) == Count(LAMBDA s : entry[s].score = n)
SeasonSpread(y) == Count(LAMBDA s : entry[s].status = "completed" /\ YearOf[s] = y)
HasFilters(f) == f.score # None \/ f.year # None

(* The database's orders: rows of one updated_at come in any, each time.   *)
ByUpdated ==
    {o \in SetToSeqs(ToSet(order)) :
        \A i, j \in DOMAIN o :
            i < j /\ ~{o[i], o[j]} \subseteq imported
              => \E k, l \in DOMAIN order : k < l /\ order[k] = o[i] /\ order[l] = o[j]}
InOrder(by, o) ==
    IF by = "updated" THEN o
    ELSE SelectSeq(o, LAMBDA s : entry[s].score # None)
            \o SelectSeq(o, LAMBDA s : entry[s].score = None)

Matches(f, s) ==
    /\ f.status \in {"all", entry[s].status}
    /\ f.score \in {None, entry[s].score} /\ f.year \in {None, YearOf[s]}

(* One page: rows, the count that only rows carry, and what the list was   *)
(* when it was read.                                                       *)
PublicList(key, n, o) ==
    LET all == SelectSeq(InOrder(key[2], o), LAMBDA s : Matches(key[1], s))
        rows == SelectSeq([i \in 1 .. PerPage |-> (n - 1) * PerPage + i],
                          LAMBDA i : i <= Len(all))
    IN  [page |-> n, rows |-> [i \in DOMAIN rows |-> all[rows[i]]],
         total |-> IF rows = <<>> THEN 0 ELSE Len(all), at |-> touches]

(* A fault ViewsAgree must notice: the last page is never asked for.       *)
NextButLast(p) == IF (p.page + 1) * PerPage < p.total THEN p.page + 1 ELSE None

NextListPage(p) == IF p.page * PerPage < p.total THEN p.page + 1 ELSE None

-----------------------------------------------------------------------------
(* What the section shows.                                                 *)

Read == IF Key \in DOMAIN pages THEN pages[Key] ELSE <<>>
Drawn == FlattenSeq([i \in DOMAIN Read |-> Read[i].rows])
MatchTotal == Read[1].total
View ==
    IF order = <<>> THEN "empty"
    ELSE IF Key \in failed THEN "error"
    ELSE IF Read = <<>> THEN "pending"
    ELSE IF Drawn = <<>> THEN "nothing" ELSE "wall"
Reading(k) == \E r \in reads : r.key = k
HasNextPage == Read # <<>> /\ NextListPage(Last(Read)) # None

-----------------------------------------------------------------------------
(* Reads.                                                                  *)

Start(k) == [key |-> k, upTo |-> 1, got |-> <<>>]

(* A filter or a sort without pages is read; one with pages is read again  *)
(* if they are old.                                                        *)
Opened(k) ==
    IF k \in DOMAIN pages THEN {{}, {[Start(k) EXCEPT !.upTo = Len(pages[k])]}}
    ELSE {{Start(k)}}

Init ==
    /\ entry \in [Listable -> Entries] /\ order \in {<<>>, SetToSortSeq(Listable, <)}
    /\ imported \in {{}, ToSet(order)}
    /\ filter = [status |-> IF TabCount("watching") > 0 \/ TabCount("completed") = 0
                              THEN "watching" ELSE "completed",
                 score |-> None, year |-> None]
    /\ sortBy = "updated" /\ promise = TabCount(filter.status)
    /\ pages = <<>> /\ failed = {}
    /\ reads = IF order = <<>> THEN {} ELSE {Start(Key)}
    /\ touches = 0 /\ events = 0

(* The next of the pages a read is to bring: after the last, or when there *)
(* is no next, all of them become the cache's.                             *)
Serve ==
    /\ \E r \in reads, o \in ByUpdated :
         LET got == Append(r.got, PublicList(r.key, Len(r.got) + 1, o))
             more == Len(got) < r.upTo /\ NextListPage(Last(got)) # None
         IN  /\ reads' = (reads \ {r}) \cup IF more THEN {[r EXCEPT !.got = got]} ELSE {}
             /\ IF more THEN UNCHANGED <<pages, failed>>
                ELSE /\ pages' = [k \in DOMAIN pages \cup {r.key} |->
                                     IF k = r.key THEN got ELSE pages[k]]
                     /\ failed' = failed \ {r.key}
    /\ UNCHANGED <<shelf, choice, events>>

(* An error keeps the pages, and hides them.                               *)
ReadFails ==
    /\ events < MaxEvents /\ events' = events + 1
    /\ \E r \in reads : reads' = reads \ {r} /\ failed' = failed \cup {r.key}
    /\ UNCHANGED <<shelf, choice, pages>>

(* "Show more", dead while it loads; it replaces a read of old pages.      *)
ShowMore ==
    /\ View = "wall" /\ HasNextPage
    /\ ~\E r \in reads : r.key = Key /\ r.upTo > Len(Read)
    /\ reads' = {r \in reads : r.key # Key}
                  \cup {[key |-> Key, upTo |-> Len(Read) + 1, got |-> Read]}
    /\ UNCHANGED <<shelf, choice, pages, failed, events>>

(* The window comes back to the front: a failed or an old read is repeated *)
(* (without pages its error is gone at once).                              *)
Refocus ==
    /\ order # <<>> /\ ~Reading(Key) /\ (Key \in failed \/ touches > 0)
    /\ \E rs \in Opened(Key) : rs # {} /\ reads' = reads \cup rs
    /\ failed' = IF Read = <<>> THEN failed \ {Key} ELSE failed
    /\ UNCHANGED <<shelf, choice, pages, events>>

-----------------------------------------------------------------------------
(* Clicks.                                                                 *)

Choose(f, by, n) ==
    /\ order # <<>> /\ events < MaxEvents /\ events' = events + 1
    /\ filter' = f /\ sortBy' = by /\ promise' = n
    /\ IF Reading(<<f, by>>) \/ Key' = Key THEN UNCHANGED <<reads, failed>>
       ELSE /\ \E rs \in Opened(<<f, by>>) : reads' = reads \cup rs
            /\ failed' = IF <<f, by>> \in DOMAIN pages THEN failed ELSE failed \ {<<f, by>>}
    /\ UNCHANGED <<shelf, pages>>

PickTab ==
    \E st \in Statuses \cup {"all"} :
        Choose([filter EXCEPT !.status = st], sortBy,
               IF HasFilters(filter) THEN None ELSE TabCount(st))
PickSort == \E by \in Sorts : Choose(filter, by, promise)
ClearChip ==
    \/ filter.score # None /\ Choose([filter EXCEPT !.score = None], sortBy, None)
    \/ filter.year # None /\ Choose([filter EXCEPT !.year = None], sortBy, None)

(* A fault ViewsAgree must notice: the click lands on the tab in use.      *)
WidenNot(f) == f

(* A statistic's click widens to every status.                             *)
Widen(f) == [f EXCEPT !.status = "all"]

(* A bar of the histogram, and a year, which counted completed shows only. *)
(* Another filter stays on: then the count is of more than what is shown.  *)
JumpToLibrary ==
    \/ \E s \in ToSet(order) : entry[s].score = Best
         /\ Choose([Widen(filter) EXCEPT !.score = Best], sortBy,
                   IF filter.year # None THEN None ELSE Histogram(Best))
    \/ \E s \in ToSet(order) : entry[s].status = "completed"
         /\ Choose([Widen(filter) EXCEPT !.year = YearOf[s], !.status = "completed"], sortBy,
                   IF filter.score # None THEN None ELSE SeasonSpread(YearOf[s]))

(* The owner changes an entry, elsewhere.                                  *)
Touch ==
    /\ events < MaxEvents /\ events' = events + 1 /\ touches' = touches + 1
    /\ \E s \in ToSet(order), e \in Entries :
         /\ entry' = [entry EXCEPT ![s] = e] /\ imported' = imported \ {s}
         /\ order' = <<s>> \o SelectSeq(order, LAMBDA x : x # s)
    /\ UNCHANGED <<choice, pages, reads, failed>>

Next == Serve \/ ReadFails \/ ShowMore \/ Refocus \/ PickTab \/ PickSort \/ ClearChip
          \/ JumpToLibrary \/ Touch

Spec == Init /\ [][Next]_libraryVars

-----------------------------------------------------------------------------
(* Every variable has its type.                                            *)
TypeOK ==
    /\ entry \in [Listable -> Entries] /\ ToSet(order) \subseteq Listable
    /\ IsInjective(order) /\ imported \subseteq ToSet(order)
    /\ filter \in Filters /\ sortBy \in Sorts /\ promise \in Nat \cup {None}
    /\ \A k \in DOMAIN pages : k \in Filters \X Sorts /\ pages[k] # <<>>
    /\ \A r \in reads : r.key \in Filters \X Sorts /\ Len(r.got) < r.upTo
    /\ failed \subseteq Filters \X Sorts
    /\ touches <= events /\ events <= MaxEvents

(* Pages read since the list last changed show no show twice, and all that *)
(* match once there is no next page, unless the rows are of one import;    *)
(* and a tab or a statistic shows as many as it says, until a change.      *)
LibraryIsHonest ==
    View \in {"wall", "nothing"} /\ (\A i \in DOMAIN Read : Read[i].at = touches) =>
        /\ touches = 0 /\ promise # None => MatchTotal = promise
        /\ imported = {} =>
             /\ IsInjective(Drawn)
             /\ ~HasNextPage => ToSet(Drawn) = {s \in ToSet(order) : Matches(filter, s)}
=============================================================================
