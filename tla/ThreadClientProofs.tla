------------------------- MODULE ThreadClientProofs -------------------------
(***************************************************************************)
(* The comment cache of one reader, for any thread, any size of page and   *)
(* any number of changes, losses and fetches: what its variables hold      *)
(* (TypeOK), that it is as fresh as a fetch unless news was lost to it     *)
(* (FreshUnlessGap), and that every comment in it is drawn                 *)
(* (EveryCommentDrawn).                                                    *)
(***************************************************************************)
EXTENDS ThreadClient, Integers, FiniteSetTheorems, NaturalsInduction, WellFoundedInduction, TLAPS

(* What the variables hold, in full.                                       *)
Row == [parent : 0 .. MaxId, deleted : BOOLEAN, count : 0 .. 1]
Fetches == [kind : {"none", "pages", "more"}, got : Seq(Page), want : Nat,
            answer : Page \cup {NoPage}, tainted : BOOLEAN]

ServerTypes ==
    /\ DOMAIN rows \subseteq Ids /\ rows \in [DOMAIN rows -> Row]
    /\ changes \in 0 .. MaxChanges /\ unpublished \subseteq Event
    /\ own \in Event \cup {NoEvent}
StreamTypes ==
    /\ stream \in Seq(Event) /\ Len(stream) <= MaxStream
    /\ es \in {"connecting", "open", "down"}
    /\ degraded \in BOOLEAN /\ missed \in BOOLEAN /\ drops \in 0 .. MaxDrops
CacheTypes ==
    /\ pages \in Seq(Page) /\ fetch \in Fetches
    /\ fails \in 0 .. MaxFails /\ gap \in BOOLEAN /\ jumbled \in BOOLEAN
Types == ServerTypes /\ StreamTypes /\ CacheTypes

(* Events still to come, each about a row as it is.                        *)
News == unpublished \cup {stream[n] : n \in 1 .. Len(stream)}
NewsTrue ==
    \A e \in News :
        /\ e.id \in DOMAIN rows
        /\ e.kind = "deleted" => rows[e.id].deleted
        /\ e.kind = "created" => e.count = 0

(* A copy of a comment is as its row in r is, but for what the news in nw  *)
(* will change.                                                            *)
Due(nw, kind, i) == \E e \in nw : e.kind = kind /\ e.id = i
Honest(c, r, nw) ==
    /\ c.id \in DOMAIN r /\ c.parent = r[c.id].parent
    /\ c.deleted = r[c.id].deleted \/ Due(nw, "deleted", c.id)
    /\ c.count = r[c.id].count \/ Due(nw, "reaction", c.id)

(* Pages that hold every row from their last cursor on, but for news.      *)
Holds(ps, i) == \E k \in 1 .. Len(ps) : \E n \in 1 .. Len(ps[k].items) : ps[k].items[n].id = i
Covers(ps, r, nw) ==
    /\ ps # <<>>
    /\ \A k \in 1 .. Len(ps) : \A n \in 1 .. Len(ps[k].items) : Honest(ps[k].items[n], r, nw)
    /\ \A i \in DOMAIN r : i >= ps[Len(ps)].cursor => Holds(ps, i) \/ Due(nw, "created", i)
    /\ \A i \in Ids : Holds(ps, i) => i >= ps[Len(ps)].cursor
    /\ ps[Len(ps)].cursor # 0 => Holds(ps, ps[Len(ps)].cursor)

(* What a fetch has read so far goes from cursor to cursor.                *)
HasGot == IF fetch.answer = NoPage THEN fetch.got ELSE Append(fetch.got, fetch.answer)
Asking == InFlight /\ fetch.got # <<>> => fetch.got[Len(fetch.got)].cursor # 0
Fetched == HasRead /\ ~fetch.tainted /\ (fetch.kind = "more" => ~gap) => Covers(HasGot, rows, News)
Cached == ~gap => Covers(pages, rows, News)

Inv == Types /\ NewsTrue /\ Asking /\ Fetched /\ Cached
----------------------------------------------------------------------------
(* Sets of numbers: the smallest, the largest, and the n-th from the top.  *)
Less == {ss \in Nat \X Nat : ss[1] < ss[2]}

LEMMA Smallest ==
    ASSUME NEW T, T \subseteq Nat, T # {}
    PROVE  \E x \in T : \A y \in T : x <= y
  <1>1. IsWellFoundedOn(Less, Nat)
    BY NatLessThanWellFounded DEF OpToRel, Less
  <1>2. PICK x \in T : \A y \in T : <<y, x>> \notin Less
    BY <1>1, WFMin
  <1>3. \A y \in T : ~(y < x)
    BY <1>2 DEF Less
  <1>4. \A y \in T : y \in Nat /\ x \in Nat
    OBVIOUS
  <1>5. QED
    BY <1>3, <1>4

LEMMA Largest ==
    ASSUME NEW N \in Nat, NEW T, T \subseteq 1 .. N, T # {}
    PROVE  \E x \in T : \A y \in T : y <= x
  <1> DEFINE D == {N - y : y \in T}
  <1>1. D \subseteq Nat /\ D # {}
    <2>1. \A y \in T : N - y \in Nat
      OBVIOUS
    <2>2. QED
      BY <2>1
  <1>2. PICK d \in D : \A e \in D : d <= e
    <2> HIDE DEF D
    <2>1. QED
      BY <1>1, Smallest
  <1>3. PICK x \in T : d = N - x
    OBVIOUS
  <1>4. \A y \in T : N - x <= N - y
    BY <1>2, <1>3
  <1> HIDE DEF D
  <1>5. \A y \in T : y \in 1 .. N
    OBVIOUS
  <1>6. \A y \in T : y <= x
    BY <1>4, <1>5
  <1>7. QED
    BY <1>6

Rank(B, i) == Cardinality({j \in B : j >= i})

LEMMA Finite ==
    ASSUME NEW N \in Nat, NEW B, B \subseteq 1 .. N
    PROVE  IsFiniteSet(B) /\ Cardinality(B) \in Nat
  <1>1. IsFiniteSet(1 .. N)
    BY FS_Interval
  <1>2. QED
    BY <1>1, FS_Subset, FS_CardinalityType

LEMMA RankIs ==
    ASSUME NEW N \in Nat, NEW B, B \subseteq 1 .. N, NEW i \in B
    PROVE  /\ Rank(B, i) \in 1 .. Cardinality(B)
           /\ \A j \in B : i < j => Rank(B, j) < Rank(B, i)
  <1> DEFINE U(j) == {k \in B : k >= j}
  <1>1. \A j \in B : U(j) \subseteq B /\ j \in U(j) /\ (i < j => U(j) \subseteq U(i) /\ U(j) # U(i))
    <2>1. \A j \in B : j \in Int
      OBVIOUS
    <2>2. \A j \in B : U(j) \subseteq B /\ j \in U(j)
      BY <2>1
    <2>3. ASSUME NEW j \in B, i < j
          PROVE  U(j) \subseteq U(i) /\ i \notin U(j) /\ i \in U(i)
      <3>1. \A k \in B : k >= j => k >= i
        BY <2>1, <2>3
      <3>2. ~(i >= j) /\ i >= i
        BY <2>1, <2>3
      <3>3. QED
        BY <3>1, <3>2
    <2> HIDE DEF U
    <2>4. QED
      BY <2>2, <2>3
  <1>2. \A j : Rank(B, j) = Cardinality(U(j))
    BY DEF Rank
  <1>3. IsFiniteSet(B) /\ Cardinality(B) \in Nat
    BY Finite
  <1> HIDE DEF U
  <1>4. \A j \in B : /\ IsFiniteSet(U(j)) /\ Cardinality(U(j)) \in Nat
                     /\ Cardinality(U(j)) <= Cardinality(B) /\ Cardinality(U(j)) # 0
    <2> SUFFICES ASSUME NEW j \in B
                 PROVE  /\ IsFiniteSet(U(j)) /\ Cardinality(U(j)) \in Nat
                        /\ Cardinality(U(j)) <= Cardinality(B) /\ Cardinality(U(j)) # 0
      OBVIOUS
    <2>1. IsFiniteSet(U(j)) /\ Cardinality(U(j)) <= Cardinality(B)
      BY <1>1, <1>3, FS_Subset
    <2>2. Cardinality(U(j)) \in Nat
      BY <2>1, FS_CardinalityType
    <2>3. U(j) # {}
      BY <1>1
    <2>4. Cardinality(U(j)) # 0
      BY <2>1, <2>3, FS_EmptySet
    <2>5. QED
      BY <2>1, <2>2, <2>4
  <1>5. ASSUME NEW j \in B, i < j
        PROVE  Cardinality(U(j)) < Cardinality(U(i))
    <2>1. Cardinality(U(j)) <= Cardinality(U(i)) /\ Cardinality(U(i)) # Cardinality(U(j))
      BY <1>1, <1>4, <1>5, FS_Subset
    <2>2. QED
      BY <1>4, <2>1
  <1>6. QED
    BY <1>2, <1>3, <1>4, <1>5

LEMMA RankTaken ==
    ASSUME NEW N \in Nat, NEW B, B \subseteq 1 .. N, NEW n \in 1 .. Cardinality(B)
    PROVE  \E i \in B : Rank(B, i) = n
  <1> DEFINE Free == {m \in 1 .. Cardinality(B) : \A i \in B : Rank(B, i) # m}
  <1>1. IsFiniteSet(B) /\ Cardinality(B) \in Nat
    BY Finite
  <1>2. SUFFICES ASSUME Free # {} PROVE FALSE
    OBVIOUS
  <1>3. Free \subseteq Nat
    OBVIOUS
  <1>4. PICK m \in Free : \A k \in Free : m <= k
    <2> HIDE DEF Free
    <2>1. QED
      BY <1>2, <1>3, Smallest
  <1>5. m \in 1 .. Cardinality(B) /\ \A i \in B : Rank(B, i) # m
    OBVIOUS
  <1>6. CASE m = 1
    <2>1. B # {}
      BY <1>1, <1>5, FS_EmptySet
    <2>2. PICK x \in B : \A y \in B : y <= x
      BY <2>1, Largest
    <2>3. {j \in B : j >= x} = {x}
      <3>1. \A y \in B : y \in Int
        OBVIOUS
      <3>2. \A y \in B : y >= x <=> y = x
        BY <2>2, <3>1
      <3>3. QED
        BY <3>2
    <2>4. Rank(B, x) = 1
      BY <2>3, FS_Singleton DEF Rank
    <2>5. QED
      BY <1>5, <1>6, <2>4
  <1>7. CASE m # 1
    <2>1. m - 1 \in 1 .. Cardinality(B) /\ m - 1 \notin Free
      BY <1>1, <1>4, <1>5, <1>7
    <2>2. PICK i \in B : Rank(B, i) = m - 1
      BY <2>1
    <2> DEFINE U == {j \in B : j >= i}
               L == {j \in B : j < i}
    <2>3. IsFiniteSet(U) /\ Cardinality(U) = m - 1
      BY <1>1, <2>2, FS_Subset DEF Rank
    <2>4. L # {}
      <3>1. SUFFICES ASSUME L = {} PROVE FALSE
        OBVIOUS
      <3>2. U = B
        <4>1. \A j \in B : j \in Int /\ ~(j < i)
          BY <3>1
        <4>2. \A j \in B : j >= i
          BY <4>1
        <4>3. QED
          BY <4>2
      <3>3. QED
        BY <1>1, <1>5, <2>3, <3>2
    <2>5. PICK x \in L : \A y \in L : y <= x
      <3>1. L \subseteq 1 .. N
        OBVIOUS
      <3> HIDE DEF L
      <3>2. QED
        BY <2>4, <3>1, Largest
    <2>6. {j \in B : j >= x} = U \cup {x} /\ x \notin U
      <3>1. \A j \in B : j \in Int
        OBVIOUS
      <3>2. x \in B /\ x < i /\ \A j \in B : j < i => j <= x
        BY <2>5
      <3>3. \A j \in B : j >= x <=> j >= i \/ j = x
        BY <3>1, <3>2
      <3>4. ~(x >= i)
        BY <3>1, <3>2
      <3>5. QED
        BY <3>2, <3>3, <3>4
    <2>7. Cardinality(U \cup {x}) = (m - 1) + 1
      <3> HIDE DEF U
      <3>1. QED
        BY <2>3, <2>6, FS_AddElement
    <2>8. Rank(B, x) = m
      BY <1>5, <2>6, <2>7 DEF Rank
    <2>9. QED
      BY <1>5, <2>8
  <1>8. QED
    BY <1>6, <1>7

----------------------------------------------------------------------------
(* What the API serves: the newest rows below the cursor, as they are.     *)
Under(before) == {i \in DOMAIN rows : before = 0 \/ i < before}
Nth(B, n) == CHOOSE i \in B : Rank(B, i) = n
Extent(B) == IF Cardinality(B) < PageSize THEN Cardinality(B) ELSE PageSize
Falls(F) == \A m, n \in 1 .. Len(F) : m < n => F[n].id < F[m].id
Copy(i) == [id |-> i, parent |-> rows[i].parent, deleted |-> rows[i].deleted, count |-> rows[i].count]

LEMMA ExtentIs ==
    ASSUME NEW B, B \subseteq Ids
    PROVE  /\ Extent(B) \in 0 .. Cardinality(B) /\ Cardinality(B) \in Nat
           /\ \A n \in 1 .. Extent(B) : Nth(B, n) \in B /\ Rank(B, Nth(B, n)) = n
           /\ Extent(B) < Cardinality(B) =>
                 /\ Extent(B) >= 1
                 /\ \A i \in B : i >= Nth(B, Extent(B)) <=> Rank(B, i) <= Extent(B)
           /\ \A i \in B : Rank(B, i) \in 1 .. Cardinality(B) /\ Nth(B, Rank(B, i)) = i
           /\ \A m, n \in 1 .. Extent(B) : m < n => Nth(B, n) < Nth(B, m)
  <1>1. MaxId \in Nat /\ PageSize \in Nat /\ PageSize >= 1
    BY ClientAssumption
  <1>2. B \subseteq 1 .. MaxId
    BY DEF Ids
  <1>3. Cardinality(B) \in Nat
    BY <1>1, <1>2, Finite
  <1>4. /\ Extent(B) \in 0 .. Cardinality(B)
        /\ Extent(B) < Cardinality(B) => Extent(B) >= 1
    BY <1>1, <1>3 DEF Extent
  <1>5. \A n \in 1 .. Cardinality(B) : \E i \in B : Rank(B, i) = n
    BY <1>1, <1>2, RankTaken
  <1>6. \A n \in 1 .. Cardinality(B) : Nth(B, n) \in B /\ Rank(B, Nth(B, n)) = n
    BY <1>5 DEF Nth
  <1>7. \A i, j \in B : Rank(B, i) \in 1 .. Cardinality(B) /\ (i < j => Rank(B, j) < Rank(B, i))
    BY <1>1, <1>2, RankIs
  <1>8. \A i \in B : i \in Int
    BY <1>2
  <1>9. \A i, j \in B : i >= j <=> Rank(B, i) <= Rank(B, j)
    BY <1>3, <1>7, <1>8
  <1>10. \A i, j \in B : Rank(B, i) = Rank(B, j) => i = j
    BY <1>3, <1>7, <1>8
  <1>11. \A i \in B : Nth(B, Rank(B, i)) = i
    BY <1>6, <1>7, <1>10
  <1>12. \A n \in 1 .. Extent(B) : n \in 1 .. Cardinality(B)
    BY <1>3, <1>4
  <1>13. Extent(B) < Cardinality(B) =>
            \A i \in B : i >= Nth(B, Extent(B)) <=> Rank(B, i) <= Extent(B)
    <2>1. SUFFICES ASSUME Extent(B) < Cardinality(B)
                   PROVE  \A i \in B : i >= Nth(B, Extent(B)) <=> Rank(B, i) <= Extent(B)
      OBVIOUS
    <2>2. Extent(B) \in 1 .. Cardinality(B)
      BY <1>3, <1>4, <2>1
    <2>3. QED
      BY <1>6, <1>9, <2>2
  <1>14. ASSUME NEW m \in 1 .. Extent(B), NEW n \in 1 .. Extent(B), m < n
         PROVE  Nth(B, n) < Nth(B, m)
    <2>1. /\ Nth(B, m) \in B /\ Rank(B, Nth(B, m)) = m
          /\ Nth(B, n) \in B /\ Rank(B, Nth(B, n)) = n
      BY <1>6, <1>12
    <2>2. ~(n <= m)
      BY <1>14
    <2>3. ~(Nth(B, n) >= Nth(B, m))
      BY <1>9, <2>1, <2>2
    <2>4. QED
      BY <1>8, <2>1, <2>3
  <1>15. QED
    BY <1>3, <1>4, <1>6, <1>7, <1>11, <1>12, <1>13, <1>14

LEMMA ServedIs ==
    ASSUME ServerTypes, NEW before \in 0 .. MaxId
    PROVE  LET p == ServedPage(before)
           IN  /\ p \in Page /\ p # NoPage
               /\ \A n \in 1 .. Len(p.items) :
                     p.items[n].id \in Under(before) /\ p.items[n] = Copy(p.items[n].id)
               /\ \A i \in Under(before) :
                     i >= p.cursor <=> \E n \in 1 .. Len(p.items) : p.items[n].id = i
               /\ p.cursor # 0 => p.cursor \in Under(before)
               /\ Falls(p.items)
  <1> DEFINE B == Under(before)
             size == Extent(B)
             items == [n \in 1 .. size |-> Copy(Nth(B, n))]
             cursor == IF size < Cardinality(B) THEN Nth(B, size) ELSE 0
             p == ServedPage(before)
  <1>1. p = [items |-> items, cursor |-> cursor]
    BY DEF ServedPage, Under, Extent, Nth, Rank, Copy
  <1>2. p.items = items /\ p.cursor = cursor
    BY <1>1
  <1>3. B \subseteq Ids /\ B \subseteq DOMAIN rows /\ MaxId \in Nat
    BY ClientAssumption DEF ServerTypes, Under
  <1>4. \A i \in B : i \in 1 .. MaxId
    BY <1>3 DEF Ids
  <1> HIDE DEF B
  <1>5. /\ size \in 0 .. Cardinality(B) /\ Cardinality(B) \in Nat
        /\ \A n \in 1 .. size : Nth(B, n) \in B /\ Rank(B, Nth(B, n)) = n
        /\ size < Cardinality(B) =>
              size >= 1 /\ \A i \in B : i >= Nth(B, size) <=> Rank(B, i) <= size
        /\ \A i \in B : Rank(B, i) \in 1 .. Cardinality(B) /\ Nth(B, Rank(B, i)) = i
        /\ \A m, n \in 1 .. size : m < n => Nth(B, n) < Nth(B, m)
    BY <1>3, ExtentIs
  <1> HIDE DEF size
  <1>6. \A i \in B : Copy(i) \in Held /\ Copy(i).id = i
    <2>1. \A i \in B : rows[i] \in Row /\ i \in Ids
      BY <1>3 DEF ServerTypes
    <2>2. QED
      BY <2>1 DEF Copy, Row, Held
  <1>7. \A n \in 1 .. size : items[n] = Copy(Nth(B, n)) /\ items[n].id = Nth(B, n)
    BY <1>5, <1>6
  <1>8. items \in Seq(Held) /\ Len(items) = size
    <2>1. size \in Nat
      BY <1>5
    <2>2. items \in [1 .. size -> Held]
      BY <1>5, <1>6
    <2> HIDE DEF items
    <2>3. QED
      BY <2>1, <2>2
  <1>9. cursor \in 0 .. MaxId /\ (cursor # 0 => cursor \in B)
    <2>1. CASE size < Cardinality(B)
      <3>1. size \in 1 .. size
        BY <1>5, <2>1
      <3>2. Nth(B, size) \in B
        BY <1>5, <3>1
      <3>3. QED
        BY <1>3, <1>4, <2>1, <3>2
    <2>2. CASE ~(size < Cardinality(B))
      BY <1>3, <2>2
    <2>3. QED
      BY <2>1, <2>2
  <1>10. \A i \in B : i >= cursor <=> \E n \in 1 .. size : Nth(B, n) = i
    <2>1. ASSUME NEW i \in B
          PROVE  Rank(B, i) <= size <=> \E n \in 1 .. size : Nth(B, n) = i
      BY <1>5
    <2>2. CASE size < Cardinality(B)
      BY <1>5, <2>1, <2>2
    <2>3. CASE ~(size < Cardinality(B))
      <3>1. \A i \in B : Rank(B, i) <= size
        BY <1>5, <2>3
      <3>2. \A i \in B : i >= cursor
        BY <1>4, <2>3
      <3>3. QED
        BY <2>1, <3>1, <3>2
    <2>4. QED
      BY <2>2, <2>3
  <1>11. \A i \in B : i >= cursor <=> \E n \in 1 .. size : items[n].id = i
    BY <1>7, <1>10
  <1>12. \A n \in 1 .. size : items[n].id \in B /\ items[n] = Copy(items[n].id)
    BY <1>5, <1>7
  <1>13. Falls(items)
    BY <1>5, <1>7, <1>8 DEF Falls
  <1> HIDE DEF items, cursor
  <1>14. p \in Page
    BY <1>1, <1>8, <1>9 DEF Page
  <1>15. p # NoPage
    <2>1. NoPage.cursor = MaxId + 1
      BY DEF NoPage
    <2>2. QED
      BY <1>2, <1>3, <1>9, <2>1
  <1> HIDE DEF p
  <1>16. QED
    BY <1>2, <1>8, <1>9, <1>11, <1>12, <1>13, <1>14, <1>15 DEF p, B

----------------------------------------------------------------------------
(* What an event does to the pages: it joins the newest one, or changes    *)
(* every copy of its comment where it is.                                  *)
LEMMA LoadedIs ==
    ASSUME NEW ps \in Seq(Page), NEW i
    PROVE  i \in Loaded(ps) <=> Holds(ps, i)
  <1>1. DOMAIN ps = 1 .. Len(ps) /\ \A k \in 1 .. Len(ps) : ps[k] \in Page
    OBVIOUS
  <1>2. \A k \in 1 .. Len(ps) : DOMAIN ps[k].items = 1 .. Len(ps[k].items)
    BY <1>1 DEF Page
  <1>3. QED
    BY <1>1, <1>2 DEF Loaded, Ids_, Holds

Fresh(e) == [id |-> e.id, parent |-> rows[e.id].parent, deleted |-> FALSE, count |-> 0]
After(c, e) ==
    IF c.id # e.id THEN c
    ELSE CASE e.kind = "created" -> Fresh(e)
           [] e.kind = "deleted" -> [c EXCEPT !.deleted = TRUE]
           [] e.kind = "reaction" -> [c EXCEPT !.count = e.count]
Put(p, c) == [p EXCEPT !.items = <<c>> \o p.items]
Changed(ps, qs, i, new) ==
    /\ Len(qs) = Len(ps)
    /\ \A k \in 1 .. Len(ps) :
          /\ qs[k].cursor = ps[k].cursor /\ Len(qs[k].items) = Len(ps[k].items)
          /\ \A n \in 1 .. Len(ps[k].items) :
                qs[k].items[n] = IF ps[k].items[n].id = i THEN new[ps[k].items[n]]
                                 ELSE ps[k].items[n]

LEMMA MapIs ==
    ASSUME NEW ps \in Seq(Page), NEW i, NEW new \in [Held -> Held]
    PROVE  MapPages(ps, i, new) \in Seq(Page) /\ Changed(ps, MapPages(ps, i, new), i, new)
  <1> DEFINE list(k) == [n \in DOMAIN ps[k].items |->
                            IF ps[k].items[n].id = i THEN new[ps[k].items[n]] ELSE ps[k].items[n]]
             page(k) == [ps[k] EXCEPT !.items = list(k)]
             qs == [k \in DOMAIN ps |-> page(k)]
  <1>1. MapPages(ps, i, new) = qs
    BY DEF MapPages
  <1>2. DOMAIN ps = 1 .. Len(ps) /\ Len(ps) \in Nat /\ \A k \in 1 .. Len(ps) : ps[k] \in Page
    OBVIOUS
  <1>3. ASSUME NEW k \in 1 .. Len(ps)
        PROVE  /\ list(k) \in Seq(Held) /\ Len(list(k)) = Len(ps[k].items)
               /\ \A n \in 1 .. Len(ps[k].items) :
                     list(k)[n] = IF ps[k].items[n].id = i THEN new[ps[k].items[n]]
                                  ELSE ps[k].items[n]
    <2>1. ps[k].items \in Seq(Held)
      BY <1>2, <1>3 DEF Page
    <2>2. DOMAIN ps[k].items = 1 .. Len(ps[k].items) /\ Len(ps[k].items) \in Nat
          /\ \A n \in 1 .. Len(ps[k].items) : ps[k].items[n] \in Held
      BY <2>1
    <2>3. list(k) \in [1 .. Len(ps[k].items) -> Held]
      BY <2>2
    <2>4. \A n \in 1 .. Len(ps[k].items) :
             list(k)[n] = IF ps[k].items[n].id = i THEN new[ps[k].items[n]] ELSE ps[k].items[n]
      BY <2>2
    <2> HIDE DEF list
    <2>5. QED
      BY <2>2, <2>3, <2>4
  <1> HIDE DEF list
  <1>4. ASSUME NEW k \in 1 .. Len(ps)
        PROVE  page(k) \in Page /\ page(k).items = list(k) /\ page(k).cursor = ps[k].cursor
    BY <1>2, <1>3 DEF Page
  <1> HIDE DEF page
  <1>5. qs \in [1 .. Len(ps) -> Page] /\ \A k \in 1 .. Len(ps) : qs[k] = page(k)
    BY <1>2, <1>4
  <1> HIDE DEF qs
  <1>6. qs \in Seq(Page) /\ Len(qs) = Len(ps)
    BY <1>2, <1>5
  <1>7. Changed(ps, qs, i, new)
    BY <1>3, <1>4, <1>5, <1>6 DEF Changed
  <1>8. QED
    BY <1>1, <1>6, <1>7

LEMMA PutIs ==
    ASSUME NEW p \in Page, NEW c \in Held
    PROVE  /\ Put(p, c) \in Page /\ Put(p, c).cursor = p.cursor
           /\ Len(Put(p, c).items) = Len(p.items) + 1 /\ Put(p, c).items[1] = c
           /\ \A n \in 1 .. Len(p.items) : Put(p, c).items[n + 1] = p.items[n]
           /\ \A n \in 1 .. Len(p.items) + 1 :
                 n = 1 \/ (n - 1 \in 1 .. Len(p.items) /\ Put(p, c).items[n] = p.items[n - 1])
  <1> DEFINE l == <<c>> \o p.items
  <1>1. p.items \in Seq(Held) /\ p.cursor \in 0 .. MaxId
    BY DEF Page
  <1>2. /\ l \in Seq(Held) /\ Len(l) = Len(p.items) + 1 /\ l[1] = c
        /\ \A n \in 1 .. Len(p.items) : l[n + 1] = p.items[n]
        /\ \A n \in 1 .. Len(p.items) + 1 :
              n = 1 \/ (n - 1 \in 1 .. Len(p.items) /\ l[n] = p.items[n - 1])
    BY <1>1
  <1>3. Put(p, c) = [p EXCEPT !.items = l]
    BY DEF Put
  <1> HIDE DEF l
  <1>4. Put(p, c) \in Page /\ Put(p, c).items = l /\ Put(p, c).cursor = p.cursor
    BY <1>1, <1>2, <1>3 DEF Page
  <1>5. QED
    BY <1>2, <1>4

LEMMA AppendTyped ==
    ASSUME NEW ps \in Seq(Page), NEW p \in Page
    PROVE  Append(ps, p) \in Seq(Page)
  OBVIOUS

LEMMA AppendHolds ==
    ASSUME NEW ps \in Seq(Page), NEW p \in Page
    PROVE  \A i : Holds(Append(ps, p), i) <=>
                      Holds(ps, i) \/ \E n \in 1 .. Len(p.items) : p.items[n].id = i
  <1> PICK qs \in Seq(Page) : qs = Append(ps, p)
    BY AppendTyped
  <1>1. /\ Len(qs) \in 1 .. Len(qs) /\ qs[Len(qs)] = p
        /\ \A k \in 1 .. Len(ps) : k \in 1 .. Len(qs) /\ qs[k] = ps[k]
        /\ \A k \in 1 .. Len(qs) : k \in 1 .. Len(ps) \/ k = Len(qs)
    OBVIOUS
  <1>2. ASSUME NEW i, Holds(qs, i)
        PROVE  Holds(ps, i) \/ \E n \in 1 .. Len(p.items) : p.items[n].id = i
    BY <1>1, <1>2 DEF Holds
  <1>3. ASSUME NEW i, Holds(ps, i)
        PROVE  Holds(qs, i)
    BY <1>1, <1>3 DEF Holds
  <1>4. ASSUME NEW i, \E n \in 1 .. Len(p.items) : p.items[n].id = i
        PROVE  Holds(qs, i)
    BY <1>1, <1>4 DEF Holds
  <1>5. QED
    BY <1>2, <1>3, <1>4

LEMMA SameHolds ==
    ASSUME NEW ps, NEW qs, Len(qs) = Len(ps),
           \A k \in 1 .. Len(ps) : Len(qs[k].items) = Len(ps[k].items),
           \A k \in 1 .. Len(ps) : \A n \in 1 .. Len(ps[k].items) :
               qs[k].items[n].id = ps[k].items[n].id
    PROVE  \A i : Holds(qs, i) <=> Holds(ps, i)
  <1>1. ASSUME NEW i, Holds(ps, i)
        PROVE  Holds(qs, i)
    <2>1. PICK k \in 1 .. Len(ps) : \E m \in 1 .. Len(ps[k].items) : ps[k].items[m].id = i
      BY <1>1 DEF Holds
    <2>2. PICK n \in 1 .. Len(ps[k].items) : ps[k].items[n].id = i
      BY <2>1
    <2>3. k \in 1 .. Len(qs) /\ n \in 1 .. Len(qs[k].items) /\ qs[k].items[n].id = i
      BY <2>2
    <2>4. QED
      BY <2>3 DEF Holds
  <1>2. ASSUME NEW i, Holds(qs, i)
        PROVE  Holds(ps, i)
    <2>1. PICK k \in 1 .. Len(ps) : \E m \in 1 .. Len(qs[k].items) : qs[k].items[m].id = i
      BY <1>2 DEF Holds
    <2>2. PICK n \in 1 .. Len(ps[k].items) : qs[k].items[n].id = i
      BY <2>1
    <2>3. ps[k].items[n].id = i
      BY <2>2
    <2>4. QED
      BY <2>3 DEF Holds
  <1>3. QED
    BY <1>1, <1>2

LEMMA PutHolds ==
    ASSUME NEW ps \in Seq(Page), ps # <<>>, NEW c \in Held
    PROVE  \A i : Holds([ps EXCEPT ![1] = Put(ps[1], c)], i) <=> Holds(ps, i) \/ i = c.id
  <1> PICK qs : qs = [ps EXCEPT ![1] = Put(ps[1], c)]
    OBVIOUS
  <1>1. 1 \in 1 .. Len(ps) /\ ps[1] \in Page
    OBVIOUS
  <1>2. PICK q \in Page : q = Put(ps[1], c)
    BY <1>1, PutIs
  <1>3. Len(ps[1].items) \in Nat
    <2>1. ps[1].items \in Seq(Held)
      BY <1>1 DEF Page
    <2>2. QED
      BY <2>1
  <1>4. /\ Len(q.items) = Len(ps[1].items) + 1 /\ q.items[1] = c
        /\ \A n \in 1 .. Len(ps[1].items) : q.items[n + 1] = ps[1].items[n]
        /\ \A n \in 1 .. Len(ps[1].items) + 1 :
              n = 1 \/ (n - 1 \in 1 .. Len(ps[1].items) /\ q.items[n] = ps[1].items[n - 1])
    BY <1>1, <1>2, PutIs
  <1>5. Len(qs) = Len(ps) /\ qs[1] = q /\ \A k \in 1 .. Len(ps) : k # 1 => qs[k] = ps[k]
    BY <1>1, <1>2
  <1>6. ASSUME NEW i, Holds(ps, i)
        PROVE  Holds(qs, i)
    <2>1. PICK k \in 1 .. Len(ps) : \E m \in 1 .. Len(ps[k].items) : ps[k].items[m].id = i
      BY <1>6 DEF Holds
    <2>2. PICK n \in 1 .. Len(ps[k].items) : ps[k].items[n].id = i
      BY <2>1
    <2>3. CASE k = 1
      <3>1. n \in 1 .. Len(ps[1].items) /\ ps[1].items[n].id = i
        BY <2>2, <2>3
      <3>2. n + 1 \in 1 .. Len(ps[1].items) + 1
        BY <1>3, <3>1
      <3>3. n + 1 \in 1 .. Len(q.items) /\ q.items[n + 1].id = i
        BY <1>4, <3>1, <3>2
      <3>4. QED
        BY <1>1, <1>5, <3>3 DEF Holds
    <2>4. CASE k # 1
      BY <1>5, <2>2, <2>4 DEF Holds
    <2>5. QED
      BY <2>3, <2>4
  <1>7. Holds(qs, c.id)
    <2>1. 1 \in 1 .. Len(q.items)
      BY <1>3, <1>4
    <2>2. QED
      BY <1>1, <1>4, <1>5, <2>1 DEF Holds
  <1>8. ASSUME NEW i, Holds(qs, i)
        PROVE  Holds(ps, i) \/ i = c.id
    <2>1. PICK k \in 1 .. Len(ps) : \E m \in 1 .. Len(qs[k].items) : qs[k].items[m].id = i
      BY <1>5, <1>8 DEF Holds
    <2>2. PICK n \in 1 .. Len(qs[k].items) : qs[k].items[n].id = i
      BY <2>1
    <2>3. CASE k = 1
      <3>1. n \in 1 .. Len(ps[1].items) + 1 /\ q.items[n].id = i
        BY <1>4, <1>5, <2>2, <2>3
      <3>2. CASE n = 1
        BY <1>4, <3>1, <3>2
      <3>3. CASE n # 1
        <4>1. n - 1 \in 1 .. Len(ps[1].items) /\ ps[1].items[n - 1].id = i
          BY <1>4, <3>1, <3>3
        <4>2. QED
          BY <1>1, <4>1 DEF Holds
      <3>4. QED
        BY <3>2, <3>3
    <2>4. CASE k # 1
      BY <1>5, <2>2, <2>4 DEF Holds
    <2>5. QED
      BY <2>3, <2>4
  <1>9. QED
    BY <1>6, <1>7, <1>8

LEMMA FreshHeld ==
    ASSUME ServerTypes, NEW e \in Event, e.id \in DOMAIN rows
    PROVE  Fresh(e) \in Held /\ Fresh(e).id = e.id
  <1>1. rows[e.id] \in Row /\ e.id \in Ids
    BY DEF ServerTypes
  <1>2. QED
    BY <1>1 DEF Fresh, Held, Row

LEMMA AfterKeeps ==
    ASSUME NEW c \in Held, NEW e \in Event
    PROVE  /\ After(c, e).id = c.id
           /\ c.id # e.id \/ e.kind # "created" => After(c, e).parent = c.parent
  <1>1. CASE c.id # e.id
    BY <1>1 DEF After
  <1>2. CASE c.id = e.id /\ e.kind = "created"
    BY <1>2 DEF After, Fresh
  <1>3. CASE c.id = e.id /\ e.kind = "deleted"
    BY <1>3 DEF After, Held
  <1>4. CASE c.id = e.id /\ e.kind = "reaction"
    BY <1>4 DEF After, Held
  <1>5. QED
    BY <1>1, <1>2, <1>3, <1>4 DEF Event

LEMMA MergeIs ==
    ASSUME ServerTypes, NEW ps \in Seq(Page), NEW e \in Event, e.id \in DOMAIN rows
    PROVE  /\ Merge(ps, e) \in Seq(Page)
           /\ \/ /\ e.kind = "created" /\ ps # <<>> /\ e.id \notin Loaded(ps)
                 /\ Merge(ps, e) = [ps EXCEPT ![1] = Put(ps[1], Fresh(e))]
              \/ /\ e.kind = "created" => ps = <<>> \/ e.id \in Loaded(ps)
                 /\ Len(Merge(ps, e)) = Len(ps)
                 /\ \A k \in 1 .. Len(ps) :
                       /\ Merge(ps, e)[k].cursor = ps[k].cursor
                       /\ Len(Merge(ps, e)[k].items) = Len(ps[k].items)
                       /\ \A n \in 1 .. Len(ps[k].items) :
                             Merge(ps, e)[k].items[n] = After(ps[k].items[n], e)
  <1> DEFINE Same(qs) == /\ Len(qs) = Len(ps)
                         /\ \A k \in 1 .. Len(ps) :
                               /\ qs[k].cursor = ps[k].cursor
                               /\ Len(qs[k].items) = Len(ps[k].items)
                               /\ \A n \in 1 .. Len(ps[k].items) :
                                     qs[k].items[n] = After(ps[k].items[n], e)
  <1>1. Fresh(e) \in Held /\ Fresh(e).id = e.id
    BY FreshHeld
  <1>2. \A k \in 1 .. Len(ps) : \A n \in 1 .. Len(ps[k].items) : ps[k].items[n] \in Held
    <2>1. \A k \in 1 .. Len(ps) : ps[k] \in Page
      OBVIOUS
    <2>2. \A k \in 1 .. Len(ps) : ps[k].items \in Seq(Held)
      BY <2>1 DEF Page
    <2>3. QED
      BY <2>2
  <1>3. ASSUME NEW new \in [Held -> Held],
               \A c \in Held : After(c, e) = IF c.id = e.id THEN new[c] ELSE c
        PROVE  MapPages(ps, e.id, new) \in Seq(Page) /\ Same(MapPages(ps, e.id, new))
    <2>1. MapPages(ps, e.id, new) \in Seq(Page)
          /\ Changed(ps, MapPages(ps, e.id, new), e.id, new)
      BY MapIs
    <2>2. PICK qs \in Seq(Page) : qs = MapPages(ps, e.id, new)
      BY <2>1
    <2>3. Same(qs)
      BY <1>2, <1>3, <2>1, <2>2 DEF Changed
    <2>4. QED
      BY <2>2, <2>3
  <1>4. CASE e.kind = "created"
    <2>1. Merge(ps, e) = MergeCreated(ps, Fresh(e))
      BY <1>4 DEF Merge, Fresh
    <2>2. CASE ps = <<>>
      <3>1. Merge(ps, e) = ps
        BY <2>1, <2>2 DEF MergeCreated
      <3>2. Same(ps)
        BY <2>2
      <3> HIDE DEF Same
      <3>3. Merge(ps, e) \in Seq(Page) /\ Same(Merge(ps, e))
        BY <3>1, <3>2
      <3>4. QED
        BY <2>2, <3>3 DEF Same
    <2>3. CASE ps # <<>> /\ e.id \in Loaded(ps)
      <3> DEFINE new == [old \in Held |-> Fresh(e)]
      <3>1. Merge(ps, e) = MapPages(ps, e.id, new)
        BY <1>1, <2>1, <2>3 DEF MergeCreated
      <3>2. new \in [Held -> Held] /\ \A c \in Held : After(c, e) = IF c.id = e.id THEN new[c] ELSE c
        BY <1>1, <1>4 DEF After
      <3> HIDE DEF new, Same
      <3>3. MapPages(ps, e.id, new) \in Seq(Page) /\ Same(MapPages(ps, e.id, new))
        BY <1>3, <3>2
      <3>4. Merge(ps, e) \in Seq(Page) /\ Same(Merge(ps, e))
        BY <3>1, <3>3
      <3>5. QED
        BY <2>3, <3>4 DEF Same
    <2>4. CASE ps # <<>> /\ e.id \notin Loaded(ps)
      <3>1. Merge(ps, e) = [ps EXCEPT ![1] = Put(ps[1], Fresh(e))]
        BY <1>1, <2>1, <2>4 DEF MergeCreated, Put
      <3>2. 1 \in 1 .. Len(ps) /\ ps[1] \in Page
        BY <2>4
      <3>3. PICK q \in Page : q = Put(ps[1], Fresh(e))
        BY <1>1, <3>2, PutIs
      <3>4. [ps EXCEPT ![1] = q] \in Seq(Page)
        BY <3>2
      <3>5. QED
        BY <1>4, <2>4, <3>1, <3>3, <3>4
    <2>5. QED
      BY <2>2, <2>3, <2>4
  <1>5. CASE e.kind = "deleted"
    <2> DEFINE new == [c \in Held |-> [c EXCEPT !.deleted = TRUE]]
    <2>1. Merge(ps, e) = MapPages(ps, e.id, new)
      BY <1>5 DEF Merge, MergeDeleted
    <2>2. new \in [Held -> Held] /\ \A c \in Held : After(c, e) = IF c.id = e.id THEN new[c] ELSE c
      <3>1. \A c \in Held : [c EXCEPT !.deleted = TRUE] \in Held
        BY DEF Held
      <3>2. QED
        BY <1>5, <3>1 DEF After
    <2> HIDE DEF new, Same
    <2>3. MapPages(ps, e.id, new) \in Seq(Page) /\ Same(MapPages(ps, e.id, new))
      BY <1>3, <2>2
    <2>4. Merge(ps, e) \in Seq(Page) /\ Same(Merge(ps, e))
      BY <2>1, <2>3
    <2>5. QED
      BY <1>5, <2>4 DEF Same
  <1>6. CASE e.kind = "reaction"
    <2> DEFINE new == [c \in Held |-> [c EXCEPT !.count = e.count]]
    <2>1. Merge(ps, e) = MapPages(ps, e.id, new)
      BY <1>6 DEF Merge, MergeReaction
    <2>2. new \in [Held -> Held] /\ \A c \in Held : After(c, e) = IF c.id = e.id THEN new[c] ELSE c
      <3>1. e.count \in 0 .. 1
        BY DEF Event
      <3>2. \A c \in Held : [c EXCEPT !.count = e.count] \in Held
        BY <3>1 DEF Held
      <3>3. QED
        BY <1>6, <3>2 DEF After
    <2> HIDE DEF new, Same
    <2>3. MapPages(ps, e.id, new) \in Seq(Page) /\ Same(MapPages(ps, e.id, new))
      BY <1>3, <2>2
    <2>4. Merge(ps, e) \in Seq(Page) /\ Same(Merge(ps, e))
      BY <2>1, <2>3
    <2>5. QED
      BY <1>6, <2>4 DEF Same
  <1>7. QED
    BY <1>4, <1>5, <1>6 DEF Event

----------------------------------------------------------------------------
(* The types.                                                              *)
LEMMA FetchTyped ==
    ASSUME NEW f \in Fetches, NEW ps \in Seq(Page), NEW p \in Page
    PROVE  /\ [f EXCEPT !.answer = p] \in Fetches
           /\ [f EXCEPT !.got = ps, !.answer = NoPage] \in Fetches
           /\ \A b \in BOOLEAN : [f EXCEPT !.tainted = b] \in Fetches
           /\ NoFetch \in Fetches /\ Refetch(ps) \in Fetches /\ FetchMore(ps) \in Fetches
  <1>1. <<>> \in Seq(Page) /\ Len(ps) \in Nat /\ Len(ps) + 1 \in Nat /\ NoPage \in {NoPage}
    OBVIOUS
  <1>2. NoFetch \in Fetches
    BY <1>1 DEF NoFetch, Fetches
  <1>3. Refetch(ps) \in Fetches
    BY <1>1 DEF Refetch, Fetches
  <1>4. FetchMore(ps) \in Fetches
    BY <1>1 DEF FetchMore, Fetches
  <1>5. QED
    BY <1>2, <1>3, <1>4 DEF Fetches

LEMMA LosesTyped ==
    ASSUME CacheTypes, Loses
    PROVE  gap' = TRUE /\ fetch' \in Fetches
  <1>1. fetch' = [fetch EXCEPT !.tainted = fetch.tainted \/ HasRead]
    BY DEF Loses
  <1>2. fetch \in Fetches /\ (fetch.tainted \/ HasRead) \in BOOLEAN
    BY DEF CacheTypes, Fetches
  <1>3. <<>> \in Seq(Page)
    OBVIOUS
  <1>4. fetch' \in Fetches
    BY <1>1, <1>2 DEF Fetches
  <1>5. QED
    BY <1>4 DEF Loses

LEMMA InvalidatedTyped ==
    ASSUME CacheTypes
    PROVE  Invalidated \in Fetches
  <1>1. Refetch(pages) \in Fetches
    <2>1. pages \in Seq(Page) /\ Len(pages) \in Nat
      BY DEF CacheTypes
    <2>2. QED
      BY <2>1 DEF Refetch, Fetches
  <1>2. QED
    BY <1>1 DEF Invalidated, CacheTypes

(* What is asked for is below a cursor.                                    *)
LEMMA ServeIs ==
    ASSUME CacheTypes, Serve
    PROVE  \E before \in 0 .. MaxId :
              /\ before = IF fetch.got = <<>> THEN 0 ELSE fetch.got[Len(fetch.got)].cursor
              /\ fetch' = [fetch EXCEPT !.answer = ServedPage(before)]
  <1>1. fetch.got \in Seq(Page)
    BY DEF CacheTypes, Fetches
  <1>2. Last(fetch.got) = fetch.got[Len(fetch.got)]
    BY DEF Last
  <1>3. CASE fetch.got = <<>>
    BY <1>3, ClientAssumption DEF Serve
  <1>4. CASE fetch.got # <<>>
    <2>1. fetch.got[Len(fetch.got)] \in Page
      BY <1>1, <1>4
    <2>2. fetch.got[Len(fetch.got)].cursor \in 0 .. MaxId
      BY <2>1 DEF Page
    <2>3. QED
      BY <1>2, <1>4, <2>2 DEF Serve
  <1>5. QED
    BY <1>3, <1>4

LEMMA CommitIs ==
    ASSUME ServerTypes, NEW mine \in BOOLEAN,
           Post(mine) \/ RemoveComment(mine) \/ React(mine)
    PROVE  \E e \in Event :
              /\ e.id \in DOMAIN rows' /\ Commit(e, mine)
              /\ rows' \in [DOMAIN rows' -> Row] /\ DOMAIN rows' \subseteq Ids
              /\ DOMAIN rows \subseteq DOMAIN rows'
              /\ e.kind = "created" =>
                    /\ e.count = 0 /\ DOMAIN rows' = DOMAIN rows \cup {e.id}
                    /\ e.id \notin DOMAIN rows /\ \A j \in DOMAIN rows : rows'[j] = rows[j]
              /\ e.kind = "deleted" =>
                    /\ DOMAIN rows' = DOMAIN rows
                    /\ rows' = [rows EXCEPT ![e.id].deleted = TRUE]
              /\ e.kind = "reaction" =>
                    /\ DOMAIN rows' = DOMAIN rows
                    /\ rows' = [rows EXCEPT ![e.id].count = e.count]
  <1>1. /\ DOMAIN rows \subseteq Ids /\ rows \in [DOMAIN rows -> Row] /\ MaxId \in Nat
        /\ \A i \in DOMAIN rows : rows[i] \in Row
    BY ClientAssumption DEF ServerTypes
  <1>2. CASE Post(mine)
    <2>1. PICK i \in Ids \ DOMAIN rows, p \in {0} \cup DOMAIN rows :
             /\ p < i
             /\ rows' = [j \in DOMAIN rows \cup {i} |-> IF j = i THEN Comment(p) ELSE rows[j]]
             /\ Commit([kind |-> "created", id |-> i, count |-> 0], mine)
      BY <1>2 DEF Post
    <2>2. Comment(p) \in Row
      <3>1. p \in 0 .. MaxId
        BY <1>1, <2>1 DEF Ids
      <3>2. QED
        BY <3>1 DEF Comment, Row
    <2>3. DOMAIN rows' = DOMAIN rows \cup {i} /\ rows' \in [DOMAIN rows' -> Row]
          /\ \A j \in DOMAIN rows : rows'[j] = rows[j]
      BY <1>1, <2>1, <2>2
    <2>4. PICK e \in Event : e = [kind |-> "created", id |-> i, count |-> 0]
      <3>1. i \in Ids /\ 0 \in 0 .. 1
        BY <2>1
      <3>2. QED
        BY <3>1 DEF Event
    <2>5. e.kind = "created" /\ e.id = i /\ e.count = 0 /\ Commit(e, mine)
      BY <2>1, <2>4
    <2>6. QED
      BY <1>1, <2>1, <2>3, <2>5
  <1>3. CASE RemoveComment(mine)
    <2>1. PICK i \in DOMAIN rows :
             /\ rows' = [rows EXCEPT ![i].deleted = TRUE]
             /\ Commit([kind |-> "deleted", id |-> i, count |-> 0], mine)
      BY <1>3 DEF RemoveComment
    <2>2. [rows[i] EXCEPT !.deleted = TRUE] \in Row
      BY <1>1 DEF Row
    <2>3. DOMAIN rows' = DOMAIN rows /\ rows' \in [DOMAIN rows -> Row]
      BY <1>1, <2>1, <2>2
    <2>4. PICK e \in Event : e = [kind |-> "deleted", id |-> i, count |-> 0]
      <3>1. i \in Ids /\ 0 \in 0 .. 1
        BY <1>1
      <3>2. QED
        BY <3>1 DEF Event
    <2>5. e.kind = "deleted" /\ e.id = i /\ Commit(e, mine)
      BY <2>1, <2>4
    <2>6. QED
      BY <1>1, <2>1, <2>3, <2>5
  <1>4. CASE React(mine)
    <2>1. PICK i \in DOMAIN rows :
             /\ rows' = [rows EXCEPT ![i].count = 1 - rows[i].count]
             /\ Commit([kind |-> "reaction", id |-> i, count |-> 1 - rows[i].count], mine)
      BY <1>4 DEF React
    <2>2. 1 - rows[i].count \in 0 .. 1
      <3>1. rows[i].count \in 0 .. 1
        BY <1>1 DEF Row
      <3>2. QED
        BY <3>1
    <2>3. PICK n \in 0 .. 1 : n = 1 - rows[i].count
      BY <2>2
    <2>4. [rows[i] EXCEPT !.count = n] \in Row
      BY <1>1 DEF Row
    <2>5. rows' = [rows EXCEPT ![i].count = n]
      BY <2>1, <2>3
    <2>6. DOMAIN rows' = DOMAIN rows /\ rows' \in [DOMAIN rows -> Row]
      BY <1>1, <2>4, <2>5
    <2>7. PICK e \in Event : e = [kind |-> "reaction", id |-> i, count |-> n]
      <3>1. i \in Ids
        BY <1>1
      <3>2. QED
        BY <3>1 DEF Event
    <2>8. e.kind = "reaction" /\ e.id = i /\ e.count = n /\ Commit(e, mine)
      BY <2>1, <2>3, <2>7
    <2>9. QED
      BY <1>1, <2>5, <2>6, <2>8
  <1>5. QED
    BY <1>2, <1>3, <1>4

----------------------------------------------------------------------------
(* News: what each step adds to it or takes from it.                       *)
LEMMA DeliverIs ==
    ASSUME Types, NewsTrue, Deliver
    PROVE  \E e \in Event :
              /\ e = Head(stream) /\ e \in News /\ e.id \in DOMAIN rows
              /\ e.kind = "created" => e.count = 0
              /\ e.kind = "deleted" => rows[e.id].deleted
              /\ stream' = Tail(stream) /\ stream' \in Seq(Event) /\ Len(stream') <= MaxStream
              /\ News' = unpublished \cup {stream[n] : n \in 2 .. Len(stream)}
              /\ News' \subseteq News
  <1>1. stream \in Seq(Event) /\ stream # <<>> /\ Len(stream) <= MaxStream /\ MaxStream \in Nat
    BY ClientAssumption DEF Types, StreamTypes, Deliver
  <1>2. 1 \in 1 .. Len(stream) /\ Head(stream) = stream[1] /\ stream[1] \in Event
    BY <1>1
  <1>3. PICK e \in Event : e = stream[1]
    BY <1>2
  <1>4. e \in News
    BY <1>2, <1>3 DEF News
  <1>5. stream' = Tail(stream) /\ unpublished' = unpublished
    BY DEF Deliver, server
  <1>6. /\ stream' \in Seq(Event) /\ Len(stream') = Len(stream) - 1
        /\ \A n \in 1 .. Len(stream') : n + 1 \in 2 .. Len(stream) /\ stream'[n] = stream[n + 1]
        /\ \A n \in 2 .. Len(stream) : n - 1 \in 1 .. Len(stream') /\ stream'[n - 1] = stream[n]
    BY <1>1, <1>5
  <1>7. {stream'[n] : n \in 1 .. Len(stream')} = {stream[n] : n \in 2 .. Len(stream)}
    <2>1. {stream'[n] : n \in 1 .. Len(stream')} \subseteq {stream[n] : n \in 2 .. Len(stream)}
      BY <1>6
    <2>2. {stream[n] : n \in 2 .. Len(stream)} \subseteq {stream'[n] : n \in 1 .. Len(stream')}
      BY <1>6
    <2>3. QED
      BY <2>1, <2>2
  <1>8. News' = unpublished \cup {stream[n] : n \in 2 .. Len(stream)}
    BY <1>5, <1>7 DEF News
  <1>9. {stream[n] : n \in 2 .. Len(stream)} \subseteq {stream[n] : n \in 1 .. Len(stream)}
    <2>1. 2 .. Len(stream) \subseteq 1 .. Len(stream)
      BY <1>1
    <2>2. QED
      BY <2>1
  <1>10. News' \subseteq News
    BY <1>8, <1>9 DEF News
  <1>11. Len(stream') <= MaxStream
    BY <1>1, <1>6
  <1>12. QED
    BY <1>2, <1>3, <1>4, <1>5, <1>6, <1>8, <1>10, <1>11 DEF NewsTrue

LEMMA PublishIs ==
    ASSUME Types, Publish
    PROVE  /\ \/ /\ News' = News /\ UNCHANGED <<gap, fetch>>
                 /\ stream' \in Seq(Event) /\ Len(stream') <= MaxStream
              \/ News' \subseteq News /\ Loses /\ UNCHANGED stream
           /\ unpublished' \subseteq unpublished
  <1>1. stream \in Seq(Event) /\ unpublished \subseteq Event /\ MaxStream \in Nat
    BY ClientAssumption DEF Types, StreamTypes, ServerTypes
  <1>2. PICK e \in unpublished :
           /\ unpublished' = unpublished \ {e}
           /\ IF es = "open" /\ Len(stream) < MaxStream
              THEN stream' = Append(stream, e) /\ UNCHANGED <<gap, fetch>>
              ELSE Loses /\ UNCHANGED stream
    BY DEF Publish
  <1>3. CASE es = "open" /\ Len(stream) < MaxStream
    <2>1. stream' = Append(stream, e) /\ UNCHANGED <<gap, fetch>> /\ e \in Event
      BY <1>1, <1>2, <1>3
    <2>2. /\ stream' \in Seq(Event) /\ Len(stream') = Len(stream) + 1
          /\ \A n \in 1 .. Len(stream) : stream'[n] = stream[n]
          /\ stream'[Len(stream) + 1] = e
      BY <1>1, <2>1
    <2>3. {stream'[n] : n \in 1 .. Len(stream')} = {stream[n] : n \in 1 .. Len(stream)} \cup {e}
      <3>1. \A n : n \in 1 .. Len(stream') <=> n \in 1 .. Len(stream) \/ n = Len(stream) + 1
        BY <1>1, <2>2
      <3>2. QED
        BY <2>2, <3>1
    <2>4. News' = News
      BY <1>2, <2>3 DEF News
    <2>5. Len(stream') <= MaxStream
      BY <1>1, <1>3, <2>2
    <2>6. QED
      BY <1>2, <2>1, <2>2, <2>4, <2>5
  <1>4. CASE ~(es = "open" /\ Len(stream) < MaxStream)
    BY <1>2, <1>4 DEF News
  <1>5. QED
    BY <1>3, <1>4

LEMMA ErrorIs ==
    ASSUME Types, StreamError
    PROVE  /\ News' \subseteq News /\ stream' = <<>>
           /\ \/ News' = News /\ UNCHANGED <<gap, fetch>>
              \/ Loses
  <1>1. stream' = <<>> /\ unpublished' = unpublished
    BY DEF StreamError, server
  <1>2. News' = unpublished
    <2>1. {stream'[n] : n \in 1 .. Len(stream')} = {}
      BY <1>1
    <2>2. QED
      BY <1>1, <2>1 DEF News
  <1>3. CASE stream = <<>>
    <2>1. {stream[n] : n \in 1 .. Len(stream)} = {}
      BY <1>3
    <2>2. News = unpublished
      BY <2>1 DEF News
    <2>3. QED
      BY <1>1, <1>2, <1>3, <2>2 DEF StreamError
  <1>4. CASE stream # <<>>
    BY <1>1, <1>2, <1>4 DEF StreamError, News
  <1>5. QED
    BY <1>3, <1>4

----------------------------------------------------------------------------
(* The types: one step of the cache, then of everything.                   *)
LEMMA DeliverTyped ==
    ASSUME Types, NewsTrue, Deliver
    PROVE  CacheTypes'
  <1>1. PICK e \in Event : e = Head(stream) /\ e.id \in DOMAIN rows
    BY DeliverIs
  <1>2. ServerTypes /\ CacheTypes /\ pages \in Seq(Page) /\ fetch \in Fetches
        /\ gap \in BOOLEAN /\ jumbled \in BOOLEAN
    BY DEF Types, CacheTypes
  <1>3. Merge(pages, e) \in Seq(Page)
    BY <1>1, <1>2, MergeIs
  <1>4. /\ pages' = Merge(pages, e)
        /\ jumbled' = (jumbled \/ OutOfOrder(e))
        /\ Loses \/ UNCHANGED <<gap, fetch>>
        /\ UNCHANGED fails
    BY <1>1 DEF Deliver
  <1>5. gap' \in BOOLEAN /\ fetch' \in Fetches
    BY <1>2, <1>4, LosesTyped
  <1>6. jumbled' \in BOOLEAN
    BY <1>4
  <1>7. QED
    BY <1>2, <1>3, <1>4, <1>5, <1>6 DEF CacheTypes

LEMMA ReceiveIs ==
    ASSUME Types, Receive
    PROVE  \E got \in Seq(Page) :
              /\ fetch.got \in Seq(Page) /\ fetch.answer \in Page
              /\ got = Append(fetch.got, fetch.answer) /\ got # <<>>
              /\ Len(got) = Len(fetch.got) + 1 /\ got[Len(got)] = fetch.answer
              /\ \/ /\ pages' = got /\ fetch' = NoFetch
                    /\ gap' = (fetch.tainted \/ (fetch.kind = "more" /\ gap))
                    /\ jumbled' = (fetch.kind = "more" /\ jumbled)
                 \/ /\ fetch.answer.cursor # 0
                    /\ fetch' = [fetch EXCEPT !.got = got, !.answer = NoPage]
                    /\ UNCHANGED <<pages, gap, jumbled>>
  <1>1. fetch \in Fetches /\ fetch.answer # NoPage
    BY DEF Types, CacheTypes, Receive
  <1>2. fetch.got \in Seq(Page) /\ fetch.answer \in Page
    BY <1>1 DEF Fetches
  <1>3. PICK got \in Seq(Page) : got = Append(fetch.got, fetch.answer)
    <2>1. Append(fetch.got, fetch.answer) \in Seq(Page)
      BY <1>2, AppendTyped
    <2>2. QED
      BY <2>1
  <1>4. got # <<>> /\ Len(got) = Len(fetch.got) + 1 /\ got[Len(got)] = fetch.answer
    BY <1>2, <1>3
  <1>5. \/ /\ pages' = got /\ fetch' = NoFetch
           /\ gap' = (fetch.tainted \/ (fetch.kind = "more" /\ gap))
           /\ jumbled' = (fetch.kind = "more" /\ jumbled)
        \/ /\ fetch.answer.cursor # 0
           /\ fetch' = [fetch EXCEPT !.got = got, !.answer = NoPage]
           /\ UNCHANGED <<pages, gap, jumbled>>
    BY <1>3 DEF Receive
  <1>6. QED
    BY <1>2, <1>3, <1>4, <1>5

LEMMA CacheTyped ==
    ASSUME Types, NewsTrue, Next
    PROVE  CacheTypes'
  <1>1. /\ ServerTypes /\ CacheTypes /\ pages \in Seq(Page) /\ fetch \in Fetches
        /\ fails \in 0 .. MaxFails /\ gap \in BOOLEAN /\ jumbled \in BOOLEAN /\ MaxFails \in Nat
    BY ClientAssumption DEF Types, CacheTypes
  <1>2. ASSUME UNCHANGED <<pages, fails, jumbled>>, Loses \/ UNCHANGED <<gap, fetch>>
        PROVE  CacheTypes'
    BY <1>1, <1>2, LosesTyped DEF CacheTypes
  <1>3. ASSUME UNCHANGED <<pages, fails, gap, jumbled>>, fetch' \in Fetches
        PROVE  CacheTypes'
    BY <1>1, <1>3 DEF CacheTypes
  <1>4. CASE Serve
    <2>1. PICK before \in 0 .. MaxId : fetch' = [fetch EXCEPT !.answer = ServedPage(before)]
      BY <1>1, <1>4, ServeIs
    <2>2. PICK p \in Page : p = ServedPage(before)
      BY <1>1, ServedIs
    <2>3. fetch' \in Fetches
      BY <1>1, <2>1, <2>2, FetchTyped
    <2>4. QED
      BY <1>3, <1>4, <2>3 DEF Serve
  <1>5. CASE Receive
    <2>1. PICK got \in Seq(Page) :
             \/ /\ pages' = got /\ fetch' = NoFetch
                /\ gap' = (fetch.tainted \/ (fetch.kind = "more" /\ gap))
                /\ jumbled' = (fetch.kind = "more" /\ jumbled)
             \/ /\ fetch' = [fetch EXCEPT !.got = got, !.answer = NoPage]
                /\ UNCHANGED <<pages, gap, jumbled>>
      BY <1>5, ReceiveIs
    <2>2. fetch' \in Fetches
      <3>1. PICK p : p \in Page
        <4>1. fetch.answer \in Page
          BY <1>5, ReceiveIs
        <4>2. QED
          BY <4>1
      <3>2. QED
        BY <1>1, <2>1, <3>1, FetchTyped
    <2>3. UNCHANGED fails
      BY <1>5 DEF Receive
    <2>4. fetch.tainted \in BOOLEAN
      BY <1>1 DEF Fetches
    <2>5. pages' \in Seq(Page) /\ gap' \in BOOLEAN /\ jumbled' \in BOOLEAN
      BY <1>1, <2>1, <2>4
    <2>6. QED
      BY <1>1, <2>2, <2>3, <2>5 DEF CacheTypes
  <1>6. NoFetch \in Fetches /\ Refetch(pages) \in Fetches /\ FetchMore(pages) \in Fetches
    <2>1. [items |-> <<>>, cursor |-> 0] \in Page
      <3>1. <<>> \in Seq(Held) /\ 0 \in 0 .. MaxId
        BY ClientAssumption
      <3>2. QED
        BY <3>1 DEF Page
    <2>2. QED
      BY <1>1, <2>1, FetchTyped
  <1>7. CASE FetchFails
    <2>1. fails' \in 0 .. MaxFails
      BY <1>1, <1>7 DEF FetchFails
    <2>2. fetch' \in Fetches /\ UNCHANGED <<pages, gap, jumbled>>
      BY <1>6, <1>7 DEF FetchFails
    <2>3. QED
      BY <1>1, <2>1, <2>2 DEF CacheTypes
  <1>8. CASE LoadOlder
    BY <1>3, <1>6, <1>8 DEF LoadOlder
  <1>9. CASE Poll
    BY <1>3, <1>6, <1>9 DEF Poll
  <1>10. CASE OwnAnswered
    BY <1>1, <1>3, <1>10, InvalidatedTyped DEF OwnAnswered
  <1>11. CASE Publish
    <2>1. Loses \/ UNCHANGED <<gap, fetch>>
      BY <1>11, PublishIs
    <2>2. QED
      BY <1>2, <1>11, <2>1 DEF Publish
  <1>12. CASE Deliver
    BY <1>12, DeliverTyped
  <1>13. CASE StreamError
    <2>1. Loses \/ UNCHANGED <<gap, fetch>>
      BY <1>13, ErrorIs
    <2>2. QED
      BY <1>2, <1>13, <2>1 DEF StreamError
  <1>14. CASE StreamOpen
    <2>1. fetch' \in Fetches
      BY <1>1, <1>14, InvalidatedTyped DEF StreamOpen
    <2>2. QED
      BY <1>3, <1>14, <2>1 DEF StreamOpen
  <1>15. ASSUME NEW mine \in BOOLEAN, Post(mine) \/ RemoveComment(mine) \/ React(mine)
         PROVE  CacheTypes'
    <2>1. PICK e : Commit(e, mine)
      BY <1>1, <1>15, CommitIs
    <2>2. QED
      BY <1>1, <1>3, <2>1 DEF Commit
  <1>16. QED
    BY <1>4, <1>5, <1>7, <1>8, <1>9, <1>10, <1>11, <1>12, <1>13, <1>14, <1>15 DEF Next

LEMMA ServerTyped ==
    ASSUME Types, Next
    PROVE  ServerTypes'
  <1>1. /\ ServerTypes /\ changes \in 0 .. MaxChanges /\ MaxChanges \in Nat
        /\ unpublished \subseteq Event /\ own \in Event \cup {NoEvent}
    BY ClientAssumption DEF Types, ServerTypes
  <1>2. ASSUME UNCHANGED <<rows, changes>>, unpublished' \subseteq unpublished,
               own' \in {own, NoEvent}
        PROVE  ServerTypes'
    BY <1>1, <1>2 DEF ServerTypes
  <1>3. ASSUME NEW mine \in BOOLEAN, Post(mine) \/ RemoveComment(mine) \/ React(mine)
        PROVE  ServerTypes'
    <2>1. PICK e \in Event : /\ Commit(e, mine) /\ rows' \in [DOMAIN rows' -> Row]
                             /\ DOMAIN rows' \subseteq Ids
      BY <1>1, <1>3, CommitIs
    <2>2. changes' \in 0 .. MaxChanges
      BY <1>1, <2>1 DEF Commit
    <2>3. unpublished' \subseteq Event /\ own' \in Event \cup {NoEvent}
      BY <1>1, <2>1 DEF Commit
    <2>4. QED
      BY <2>1, <2>2, <2>3 DEF ServerTypes
  <1>4. CASE Publish
    <2>1. unpublished' \subseteq unpublished
      BY <1>4, PublishIs
    <2>2. QED
      BY <1>2, <1>4, <2>1 DEF Publish
  <1>5. CASE Serve \/ Receive \/ FetchFails \/ LoadOlder \/ Poll
    BY <1>2, <1>5 DEF Serve, Receive, FetchFails, LoadOlder, Poll, server
  <1>6. CASE OwnAnswered \/ Deliver \/ StreamError \/ StreamOpen
    BY <1>2, <1>6 DEF OwnAnswered, Deliver, StreamError, StreamOpen, server
  <1>7. QED
    BY <1>3, <1>4, <1>5, <1>6 DEF Next

LEMMA StreamTyped ==
    ASSUME Types, NewsTrue, Next
    PROVE  StreamTypes'
  <1>1. /\ StreamTypes /\ stream \in Seq(Event) /\ Len(stream) <= MaxStream
        /\ drops \in 0 .. MaxDrops /\ MaxDrops \in Nat /\ MaxStream \in Nat
    BY ClientAssumption DEF Types, StreamTypes
  <1>2. ASSUME UNCHANGED <<stream, connection>>
        PROVE  StreamTypes'
    BY <1>1, <1>2 DEF StreamTypes, connection
  <1>3. ASSUME UNCHANGED connection, stream' \in Seq(Event), Len(stream') <= MaxStream
        PROVE  StreamTypes'
    BY <1>1, <1>3 DEF StreamTypes, connection
  <1>4. ASSUME NEW mine \in BOOLEAN, Post(mine) \/ RemoveComment(mine) \/ React(mine)
        PROVE  StreamTypes'
    <2>1. PICK e : Commit(e, mine)
      BY <1>4, CommitIs DEF Types
    <2>2. QED
      BY <1>2, <2>1 DEF Commit
  <1>5. CASE Publish
    <2>1. stream' \in Seq(Event) /\ Len(stream') <= MaxStream
      BY <1>1, <1>5, PublishIs
    <2>2. UNCHANGED connection
      BY <1>5 DEF Publish, connection
    <2>3. QED
      BY <1>3, <2>1, <2>2
  <1>6. CASE Deliver
    <2>1. stream' \in Seq(Event) /\ Len(stream') <= MaxStream
      BY <1>6, DeliverIs
    <2>2. QED
      BY <1>3, <1>6, <2>1 DEF Deliver
  <1>7. CASE Serve \/ Receive \/ FetchFails \/ LoadOlder \/ Poll
    BY <1>2, <1>7 DEF Serve, Receive, FetchFails, LoadOlder, Poll
  <1>8. CASE OwnAnswered
    BY <1>2, <1>8 DEF OwnAnswered
  <1>9. CASE StreamError
    <2>1. drops' \in 0 .. MaxDrops
      BY <1>1, <1>9 DEF StreamError
    <2>2. stream' \in Seq(Event) /\ Len(stream') <= MaxStream
      BY <1>1, <1>9 DEF StreamError
    <2>3. QED
      BY <1>9, <2>1, <2>2 DEF StreamError, StreamTypes
  <1>10. CASE StreamOpen
    BY <1>1, <1>10 DEF StreamOpen, StreamTypes
  <1>11. QED
    BY <1>4, <1>5, <1>6, <1>7, <1>8, <1>9, <1>10 DEF Next

----------------------------------------------------------------------------
(* Time passes for the rows: what changes is news.                         *)
Aged(r, s, nw, mw) ==
    /\ nw \subseteq mw /\ DOMAIN r \subseteq DOMAIN s
    /\ \A i \in DOMAIN r :
          /\ s[i].parent = r[i].parent
          /\ s[i].deleted = r[i].deleted \/ Due(mw, "deleted", i)
          /\ s[i].count = r[i].count \/ Due(mw, "reaction", i)
    /\ \A i \in DOMAIN s : i \in DOMAIN r \/ Due(mw, "created", i)

LEMMA CoversAged ==
    ASSUME NEW ps, NEW r, NEW s, NEW nw, NEW mw, Aged(r, s, nw, mw), Covers(ps, r, nw)
    PROVE  Covers(ps, s, mw)
  <1>1. \A kind, i : Due(nw, kind, i) => Due(mw, kind, i)
    BY DEF Aged, Due
  <1>2. \A c : Honest(c, r, nw) => Honest(c, s, mw)
    BY <1>1 DEF Aged, Honest
  <1>3. \A i \in DOMAIN s : i >= ps[Len(ps)].cursor => Holds(ps, i) \/ Due(mw, "created", i)
    BY <1>1 DEF Aged, Covers
  <1>4. QED
    BY <1>2, <1>3 DEF Covers

LEMMA CommitAges ==
    ASSUME Types, NewsTrue, NEW mine \in BOOLEAN,
           Post(mine) \/ RemoveComment(mine) \/ React(mine)
    PROVE  /\ Aged(rows, rows', News, News') /\ NewsTrue'
           /\ UNCHANGED <<pages, fetch, gap>>
  <1>1. ServerTypes /\ rows \in [DOMAIN rows -> Row]
    BY DEF Types, ServerTypes
  <1>2. PICK e \in Event :
              /\ e.id \in DOMAIN rows' /\ Commit(e, mine)
              /\ DOMAIN rows \subseteq DOMAIN rows'
              /\ e.kind = "created" =>
                    /\ e.count = 0 /\ DOMAIN rows' = DOMAIN rows \cup {e.id}
                    /\ e.id \notin DOMAIN rows /\ \A j \in DOMAIN rows : rows'[j] = rows[j]
              /\ e.kind = "deleted" =>
                    /\ DOMAIN rows' = DOMAIN rows
                    /\ rows' = [rows EXCEPT ![e.id].deleted = TRUE]
              /\ e.kind = "reaction" =>
                    /\ DOMAIN rows' = DOMAIN rows
                    /\ rows' = [rows EXCEPT ![e.id].count = e.count]
    BY <1>1, CommitIs
  <1>3. News' = News \cup {e} /\ UNCHANGED <<pages, fetch, gap>>
    BY <1>2 DEF Commit, News
  <1>4. \A kind, i : Due(News', kind, i) <=> Due(News, kind, i) \/ (e.kind = kind /\ e.id = i)
    BY <1>3 DEF Due
  <1>5. /\ \A i \in DOMAIN rows :
              /\ rows'[i].parent = rows[i].parent
              /\ rows'[i].deleted = rows[i].deleted \/ (e.kind = "deleted" /\ e.id = i)
              /\ rows'[i].count = rows[i].count \/ (e.kind = "reaction" /\ e.id = i)
              /\ rows[i].deleted => rows'[i].deleted
        /\ \A i \in DOMAIN rows' : i \in DOMAIN rows \/ (e.kind = "created" /\ e.id = i)
        /\ e.kind = "deleted" => rows'[e.id].deleted
    <2>1. \A i \in DOMAIN rows : rows[i] \in Row
      BY <1>1
    <2>2. CASE e.kind = "created"
      BY <1>2, <2>2
    <2>3. CASE e.kind = "deleted"
      <3>1. DOMAIN rows' = DOMAIN rows /\ e.id \in DOMAIN rows
            /\ rows'[e.id] = [rows[e.id] EXCEPT !.deleted = TRUE]
            /\ \A i \in DOMAIN rows : i # e.id => rows'[i] = rows[i]
        BY <1>2, <2>3
      <3>2. rows'[e.id].deleted /\ rows'[e.id].parent = rows[e.id].parent
            /\ rows'[e.id].count = rows[e.id].count
        BY <2>1, <3>1 DEF Row
      <3>3. QED
        BY <2>3, <3>1, <3>2
    <2>4. CASE e.kind = "reaction"
      <3>1. DOMAIN rows' = DOMAIN rows /\ e.id \in DOMAIN rows
            /\ rows'[e.id] = [rows[e.id] EXCEPT !.count = e.count]
            /\ \A i \in DOMAIN rows : i # e.id => rows'[i] = rows[i]
        BY <1>2, <2>4
      <3>2. rows'[e.id].deleted = rows[e.id].deleted /\ rows'[e.id].parent = rows[e.id].parent
        BY <2>1, <3>1 DEF Row
      <3>3. QED
        BY <2>4, <3>1, <3>2
    <2>5. QED
      BY <2>2, <2>3, <2>4 DEF Event
  <1>6. Aged(rows, rows', News, News')
    BY <1>2, <1>3, <1>4, <1>5 DEF Aged
  <1>7. \A f \in News' : /\ f.id \in DOMAIN rows'
                         /\ f.kind = "deleted" => rows'[f.id].deleted
                         /\ f.kind = "created" => f.count = 0
    BY <1>2, <1>3, <1>5 DEF NewsTrue
  <1>8. QED
    BY <1>3, <1>6, <1>7 DEF NewsTrue

(* Every other step leaves the rows alone.                                 *)
LEMMA SameAged ==
    ASSUME NEW r, NEW nw
    PROVE  Aged(r, r, nw, nw)
  BY DEF Aged

LEMMA StepIs ==
    ASSUME Types, NewsTrue, Next
    PROVE  \/ (Serve \/ Receive \/ LoadOlder) /\ UNCHANGED rows /\ News' = News
           \/ Deliver /\ UNCHANGED rows /\ News' \subseteq News
           \/ Loses /\ UNCHANGED <<rows, pages>> /\ News' \subseteq News
           \/ /\ Aged(rows, rows', News, News') /\ NewsTrue' /\ UNCHANGED <<pages, gap>>
              /\ fetch' \in {fetch, NoFetch, Refetch(pages)}
  <1> DEFINE Still == UNCHANGED rows /\ News' = News
             Plain == /\ Aged(rows, rows', News, News') /\ NewsTrue' /\ UNCHANGED <<pages, gap>>
                      /\ fetch' \in {fetch, NoFetch, Refetch(pages)}
  <1>1. ASSUME Still, UNCHANGED <<pages, gap>>, fetch' \in {fetch, NoFetch, Refetch(pages)}
        PROVE  Plain
    <2>1. Aged(rows, rows', News, News')
      BY <1>1, SameAged
    <2>2. NewsTrue'
      BY <1>1 DEF NewsTrue
    <2>3. QED
      BY <1>1, <2>1, <2>2
  <1>2. ASSUME UNCHANGED <<rows, unpublished, stream>>
        PROVE  Still
    BY <1>2 DEF News
  <1> HIDE DEF Plain, Still
  <1>3. CASE Serve \/ Receive \/ LoadOlder
    <2>1. UNCHANGED <<rows, unpublished, stream>>
      BY <1>3 DEF Serve, Receive, LoadOlder, server
    <2>2. QED
      BY <1>2, <1>3, <2>1 DEF Still
  <1>4. CASE FetchFails \/ Poll
    <2>1. UNCHANGED <<rows, unpublished, stream>>
      BY <1>4 DEF FetchFails, Poll, server
    <2>2. UNCHANGED <<pages, gap>> /\ fetch' \in {fetch, NoFetch, Refetch(pages)}
      BY <1>4 DEF FetchFails, Poll
    <2>3. QED
      BY <1>1, <1>2, <2>1, <2>2 DEF Plain
  <1>5. CASE OwnAnswered \/ StreamOpen
    <2>1. UNCHANGED <<rows, unpublished, stream>>
      BY <1>5 DEF OwnAnswered, StreamOpen, server
    <2>2. UNCHANGED <<pages, gap>> /\ fetch' \in {fetch, NoFetch, Refetch(pages)}
      BY <1>5 DEF OwnAnswered, StreamOpen, Invalidated
    <2>3. QED
      BY <1>1, <1>2, <2>1, <2>2 DEF Plain
  <1>6. CASE Deliver
    <2>1. News' \subseteq News
      BY <1>6, DeliverIs
    <2>2. QED
      BY <1>6, <2>1 DEF Deliver, server
  <1>7. CASE Publish
    <2>1. UNCHANGED <<rows, pages>>
      BY <1>7 DEF Publish
    <2>2. \/ News' = News /\ UNCHANGED <<gap, fetch>>
          \/ News' \subseteq News /\ Loses
      BY <1>7, PublishIs
    <2>3. QED
      BY <1>1, <2>1, <2>2 DEF Plain, Still
  <1>8. CASE StreamError
    <2>1. UNCHANGED <<rows, pages>>
      BY <1>8 DEF StreamError, server
    <2>2. \/ News' = News /\ UNCHANGED <<gap, fetch>>
          \/ News' \subseteq News /\ Loses
      BY <1>8, ErrorIs
    <2>3. QED
      BY <1>1, <2>1, <2>2 DEF Plain, Still
  <1>9. ASSUME NEW mine \in BOOLEAN, Post(mine) \/ RemoveComment(mine) \/ React(mine)
        PROVE  Plain
    BY <1>9, CommitAges DEF Plain
  <1>10. QED
    BY <1>3, <1>4, <1>5, <1>6, <1>7, <1>8, <1>9 DEF Next, Plain

LEMMA NewsTrueStep ==
    ASSUME Types, NewsTrue, Next
    PROVE  NewsTrue'
  <1>1. ASSUME UNCHANGED rows, News' \subseteq News
        PROVE  NewsTrue'
    BY <1>1 DEF NewsTrue
  <1>2. QED
    BY <1>1, StepIs

----------------------------------------------------------------------------
(* What a fetch has read covers the rows it goes down to.                  *)
LEMMA CopyHonest ==
    ASSUME ServerTypes, NEW i \in DOMAIN rows, NEW nw
    PROVE  Copy(i).id = i /\ Honest(Copy(i), rows, nw)
  BY DEF Copy, Honest

LEMMA FirstPage ==
    ASSUME ServerTypes, NEW p \in Page, p = ServedPage(0), NEW nw
    PROVE  Covers(<<p>>, rows, nw)
  <1>1. DOMAIN rows \subseteq Ids /\ MaxId \in Nat /\ 0 \in 0 .. MaxId
    BY ClientAssumption DEF ServerTypes
  <1>2. /\ \A n \in 1 .. Len(p.items) :
               p.items[n].id \in Under(0) /\ p.items[n] = Copy(p.items[n].id)
        /\ \A i \in Under(0) :
               i >= p.cursor <=> \E n \in 1 .. Len(p.items) : p.items[n].id = i
        /\ p.cursor # 0 => p.cursor \in Under(0)
    BY <1>1, ServedIs
  <1>3. Under(0) = DOMAIN rows
    BY DEF Under
  <1> DEFINE ps == <<p>>
  <1>4. ps # <<>> /\ Len(ps) = 1 /\ ps[1] = p /\ 1 \in 1 .. Len(ps) /\ \A k \in 1 .. Len(ps) : k = 1
    OBVIOUS
  <1> HIDE DEF ps
  <1>5. \A i : Holds(ps, i) <=> \E n \in 1 .. Len(p.items) : p.items[n].id = i
    BY <1>4 DEF Holds
  <1>6. \A n \in 1 .. Len(p.items) : Honest(p.items[n], rows, nw)
    BY <1>2, <1>3, CopyHonest
  <1>7. \A i : Holds(ps, i) => i \in DOMAIN rows
    BY <1>2, <1>3, <1>5
  <1>8. \A i \in Ids : i \in Int
    BY <1>1 DEF Ids
  <1>9. p.cursor # 0 => p.cursor \in DOMAIN rows /\ p.cursor >= p.cursor
    BY <1>1, <1>2, <1>3, <1>8
  <1>10. p.cursor # 0 => Holds(ps, p.cursor)
    BY <1>2, <1>3, <1>5, <1>9
  <1>11. Covers(ps, rows, nw)
    BY <1>2, <1>3, <1>4, <1>5, <1>6, <1>7, <1>10 DEF Covers
  <1>12. QED
    BY <1>11 DEF ps

LEMMA NextPage ==
    ASSUME ServerTypes, NEW ps \in Seq(Page), NEW nw, Covers(ps, rows, nw),
           ps[Len(ps)].cursor # 0,
           NEW p \in Page, p = ServedPage(ps[Len(ps)].cursor)
    PROVE  Covers(Append(ps, p), rows, nw)
  <1>1. DOMAIN rows \subseteq Ids /\ MaxId \in Nat
    BY ClientAssumption DEF ServerTypes
  <1>2. ps # <<>> /\ Len(ps) \in 1 .. Len(ps) /\ Len(ps) \in Nat
    BY DEF Covers
  <1>3. PICK c \in 1 .. MaxId : c = ps[Len(ps)].cursor
    <2>1. ps[Len(ps)] \in Page
      BY <1>2
    <2>2. ps[Len(ps)].cursor \in 0 .. MaxId
      BY <2>1 DEF Page
    <2>3. QED
      BY <1>1, <2>2
  <1>4. /\ \A n \in 1 .. Len(p.items) :
               p.items[n].id \in Under(c) /\ p.items[n] = Copy(p.items[n].id)
        /\ \A i \in Under(c) :
               i >= p.cursor <=> \E n \in 1 .. Len(p.items) : p.items[n].id = i
        /\ p.cursor # 0 => p.cursor \in Under(c)
    <2>1. c \in 0 .. MaxId
      BY <1>1, <1>3
    <2>2. QED
      BY <1>3, <2>1, ServedIs
  <1>5. \A i : i \in Under(c) <=> i \in DOMAIN rows /\ i < c
    BY <1>1, <1>3 DEF Under
  <1>6. PICK qs \in Seq(Page) : qs = Append(ps, p)
    BY AppendTyped
  <1>7. /\ qs # <<>> /\ Len(qs) = Len(ps) + 1 /\ Len(qs) \in 1 .. Len(qs) /\ qs[Len(qs)] = p
        /\ \A k \in 1 .. Len(ps) : k \in 1 .. Len(qs) /\ qs[k] = ps[k]
        /\ \A k \in 1 .. Len(qs) : k \in 1 .. Len(ps) \/ k = Len(qs)
    BY <1>2, <1>6
  <1>8. \A i : Holds(qs, i) <=> Holds(ps, i) \/ \E n \in 1 .. Len(p.items) : p.items[n].id = i
    BY <1>6, AppendHolds
  <1>9. \A k \in 1 .. Len(qs) : \A n \in 1 .. Len(qs[k].items) : Honest(qs[k].items[n], rows, nw)
    <2>1. \A n \in 1 .. Len(p.items) : Honest(p.items[n], rows, nw)
      BY <1>4, <1>5, CopyHonest
    <2>2. QED
      BY <1>7, <2>1 DEF Covers
  <1>10. p.cursor \in 0 .. MaxId /\ (p.cursor # 0 => p.cursor < c)
    BY <1>4, <1>5 DEF Page
  <1>11. \A i \in Ids : i \in 1 .. MaxId
    BY DEF Ids
  <1>12. ASSUME NEW i \in DOMAIN rows, i >= p.cursor
         PROVE  Holds(qs, i) \/ Due(nw, "created", i)
    <2>1. CASE i >= c
      BY <1>3, <1>8, <2>1 DEF Covers
    <2>2. CASE ~(i >= c)
      <3>1. i < c
        BY <1>1, <1>3, <1>11, <2>2
      <3>2. QED
        BY <1>4, <1>5, <1>8, <1>12, <3>1
    <2>3. QED
      BY <2>1, <2>2
  <1>13. ASSUME NEW i \in Ids, Holds(qs, i)
         PROVE  i >= p.cursor
    <2>1. CASE Holds(ps, i)
      <3>1. i >= c
        BY <1>3, <2>1 DEF Covers
      <3>2. QED
        BY <1>1, <1>3, <1>10, <1>11, <3>1
    <2>2. CASE \E n \in 1 .. Len(p.items) : p.items[n].id = i
      BY <1>4, <2>2
    <2>3. QED
      BY <1>8, <1>13, <2>1, <2>2
  <1>14. p.cursor # 0 => Holds(qs, p.cursor)
    <2>1. p.cursor # 0 => p.cursor >= p.cursor
      BY <1>10, <1>1
    <2>2. QED
      BY <1>4, <1>8, <2>1
  <1>15. QED
    BY <1>6, <1>7, <1>9, <1>12, <1>13, <1>14 DEF Covers

(* What a step does to the fetch.                                          *)
LEMMA ServeFetches ==
    ASSUME Types, Serve
    PROVE  \E p \in Page, before \in 0 .. MaxId :
              /\ p = ServedPage(before) /\ p # NoPage
              /\ before = IF fetch.got = <<>> THEN 0 ELSE fetch.got[Len(fetch.got)].cursor
              /\ InFlight /\ fetch.answer = NoPage
              /\ fetch'.got = fetch.got /\ fetch'.answer = p /\ fetch'.kind = fetch.kind
              /\ fetch'.tainted = fetch.tainted
              /\ UNCHANGED <<pages, gap>>
  <1>1. ServerTypes /\ CacheTypes /\ fetch \in Fetches
    BY DEF Types, CacheTypes
  <1>2. PICK before \in 0 .. MaxId :
           /\ before = IF fetch.got = <<>> THEN 0 ELSE fetch.got[Len(fetch.got)].cursor
           /\ fetch' = [fetch EXCEPT !.answer = ServedPage(before)]
    BY <1>1, ServeIs
  <1>3. PICK p \in Page : p = ServedPage(before) /\ p # NoPage
    BY <1>1, ServedIs
  <1>4. fetch' = [fetch EXCEPT !.answer = p]
    BY <1>2, <1>3
  <1>5. fetch'.got = fetch.got /\ fetch'.answer = p /\ fetch'.kind = fetch.kind
        /\ fetch'.tainted = fetch.tainted
    BY <1>1, <1>4 DEF Fetches
  <1>6. InFlight /\ fetch.answer = NoPage /\ UNCHANGED <<pages, gap>>
    BY DEF Serve
  <1>7. QED
    BY <1>2, <1>3, <1>5, <1>6

LEMMA LosesFetches ==
    ASSUME Types, Loses
    PROVE  /\ gap' = TRUE /\ fetch'.tainted = (fetch.tainted \/ HasRead)
           /\ fetch'.got = fetch.got /\ fetch'.answer = fetch.answer /\ fetch'.kind = fetch.kind
           /\ HasRead' <=> HasRead
           /\ InFlight' <=> InFlight
  <1>1. fetch \in Fetches
    BY DEF Types, CacheTypes
  <1>2. PICK b \in BOOLEAN : b = (fetch.tainted \/ HasRead)
    OBVIOUS
  <1>3. gap' = TRUE /\ fetch' = [fetch EXCEPT !.tainted = b]
    BY <1>2 DEF Loses
  <1>4. /\ fetch'.tainted = b /\ fetch'.got = fetch.got /\ fetch'.answer = fetch.answer
        /\ fetch'.kind = fetch.kind
    BY <1>1, <1>3 DEF Fetches
  <1>5. QED
    BY <1>2, <1>3, <1>4 DEF HasRead, InFlight

LEMMA AskingStep ==
    ASSUME Types, NewsTrue, Asking, Next
    PROVE  Asking'
  <1>1. CASE Serve
    <2>1. InFlight /\ fetch'.got = fetch.got
      BY <1>1, ServeFetches
    <2>2. QED
      BY <2>1 DEF Asking
  <1>2. CASE Receive
    <2>1. PICK got \in Seq(Page) :
              /\ got[Len(got)] = fetch.answer
              /\ \/ fetch' = NoFetch
                 \/ /\ fetch.answer.cursor # 0
                    /\ fetch' = [fetch EXCEPT !.got = got, !.answer = NoPage]
      BY <1>2, ReceiveIs
    <2>2. fetch \in Fetches
      BY DEF Types, CacheTypes
    <2>3. CASE fetch' = NoFetch
      BY <2>3 DEF Asking, InFlight, NoFetch
    <2>4. CASE fetch.answer.cursor # 0 /\ fetch' = [fetch EXCEPT !.got = got, !.answer = NoPage]
      <3>1. fetch'.got = got
        BY <2>2, <2>4 DEF Fetches
      <3>2. QED
        BY <2>1, <2>4, <3>1 DEF Asking
    <2>5. QED
      BY <2>1, <2>3, <2>4
  <1>3. CASE LoadOlder
    <2>1. fetch'.got = pages /\ pages[Len(pages)].cursor # 0
      BY <1>3 DEF LoadOlder, FetchMore, HasNextPage, Last
    <2>2. QED
      BY <2>1 DEF Asking
  <1>4. CASE Loses
    BY <1>4, LosesFetches DEF Asking
  <1>5. CASE fetch' = fetch
    BY <1>5 DEF Asking, InFlight
  <1>6. CASE fetch' = NoFetch
    BY <1>6 DEF Asking, InFlight, NoFetch
  <1>7. CASE fetch' = Refetch(pages)
    BY <1>7 DEF Asking, Refetch
  <1>8. CASE Deliver
    BY <1>4, <1>5, <1>8 DEF Deliver
  <1>9. QED
    BY <1>1, <1>2, <1>3, <1>4, <1>5, <1>6, <1>7, <1>8, StepIs

----------------------------------------------------------------------------
(* Merging an event that was not overtaken and is not out of order tells   *)
(* the cache exactly what was due.                                         *)
LEMMA FreshHonest ==
    ASSUME ServerTypes, NEW e \in Event, e.id \in DOMAIN rows, e.kind = "created", NEW mw,
           ~rows[e.id].deleted \/ Due(mw, "deleted", e.id),
           rows[e.id].count = e.count \/ Due(mw, "reaction", e.id),
           e.count = 0
    PROVE  Honest(Fresh(e), rows, mw) /\ Fresh(e).id = e.id
  <1>1. rows[e.id].deleted \in BOOLEAN
    <2>1. rows[e.id] \in Row
      BY DEF ServerTypes
    <2>2. QED
      BY <2>1 DEF Row
  <1>2. /\ Fresh(e).id = e.id /\ Fresh(e).parent = rows[e.id].parent
        /\ Fresh(e).deleted = FALSE /\ Fresh(e).count = 0
    BY DEF Fresh
  <1>3. QED
    BY <1>1, <1>2 DEF Honest

LEMMA AfterHonest ==
    ASSUME ServerTypes, NEW e \in Event, e.id \in DOMAIN rows, NEW nw, NEW mw,
           nw \subseteq mw \cup {e},
           e.kind = "deleted" => rows[e.id].deleted,
           e.kind = "created" => e.count = 0,
           e.kind = "created" => ~rows[e.id].deleted \/ Due(mw, "deleted", e.id),
           e.kind # "deleted" => rows[e.id].count = e.count \/ Due(mw, "reaction", e.id),
           NEW c \in Held, Honest(c, rows, nw)
    PROVE  Honest(After(c, e), rows, mw) /\ After(c, e).id = c.id
  <1>1. \A kind, i : Due(nw, kind, i) => Due(mw, kind, i) \/ (e.kind = kind /\ e.id = i)
    BY DEF Due
  <1>2. CASE c.id # e.id
    BY <1>1, <1>2 DEF After, Honest
  <1>3. CASE c.id = e.id /\ e.kind = "created"
    <2>1. After(c, e) = Fresh(e)
      BY <1>3 DEF After
    <2>2. QED
      BY <1>3, <2>1, FreshHonest
  <1>4. CASE c.id = e.id /\ e.kind = "deleted"
    <2>1. After(c, e) = [c EXCEPT !.deleted = TRUE]
      BY <1>4 DEF After
    <2>2. /\ After(c, e).id = c.id /\ After(c, e).parent = c.parent
          /\ After(c, e).deleted = TRUE /\ After(c, e).count = c.count
      BY <2>1 DEF Held
    <2>3. rows[e.id].deleted = TRUE
      <3>1. rows[e.id] \in Row
        BY DEF ServerTypes
      <3>2. QED
        BY <1>4, <3>1 DEF Row
    <2>4. QED
      BY <1>1, <1>4, <2>2, <2>3 DEF Honest
  <1>5. CASE c.id = e.id /\ e.kind = "reaction"
    <2>1. After(c, e) = [c EXCEPT !.count = e.count]
      BY <1>5 DEF After
    <2>2. /\ After(c, e).id = c.id /\ After(c, e).parent = c.parent
          /\ After(c, e).deleted = c.deleted /\ After(c, e).count = e.count
      BY <2>1 DEF Held
    <2>3. QED
      BY <1>1, <1>5, <2>2 DEF Honest
  <1>6. QED
    BY <1>2, <1>3, <1>4, <1>5 DEF Event

LEMMA MergeCovers ==
    ASSUME ServerTypes, NEW ps \in Seq(Page), NEW e \in Event, e.id \in DOMAIN rows,
           NEW nw, NEW mw, nw \subseteq mw \cup {e},
           e.kind = "deleted" => rows[e.id].deleted,
           e.kind = "created" => e.count = 0,
           e.kind = "created" => ~rows[e.id].deleted \/ Due(mw, "deleted", e.id),
           e.kind # "deleted" => rows[e.id].count = e.count \/ Due(mw, "reaction", e.id),
           e.kind = "created" /\ e.id \notin Loaded(ps) => \A i \in Loaded(ps) : ~(i > e.id),
           Covers(ps, rows, nw)
    PROVE  Covers(Merge(ps, e), rows, mw)
  <1>1. PICK qs \in Seq(Page) : qs = Merge(ps, e)
    BY MergeIs
  <1>2. ps # <<>> /\ 1 \in 1 .. Len(ps) /\ Len(ps) \in 1 .. Len(ps) /\ Len(ps) \in Nat
        /\ \A k \in 1 .. Len(ps) : ps[k] \in Page
    BY DEF Covers
  <1>3. \A k \in 1 .. Len(ps) : ps[k].items \in Seq(Held) /\ ps[k].cursor \in 0 .. MaxId
    BY <1>2 DEF Page
  <1>4. \A k \in 1 .. Len(ps) : /\ Len(ps[k].items) \in Nat
                                /\ \A n \in 1 .. Len(ps[k].items) : ps[k].items[n] \in Held
    BY <1>3
  <1>5. \A kind, i : Due(nw, kind, i) => Due(mw, kind, i) \/ (e.kind = kind /\ e.id = i)
    BY DEF Due
  <1>6. e.id \in Ids /\ MaxId \in Nat /\ DOMAIN rows \subseteq Ids /\ \A i \in Ids : i \in 1 .. MaxId
    BY ClientAssumption DEF ServerTypes, Ids
  <1>7. \A i : i \in Loaded(ps) <=> Holds(ps, i)
    BY LoadedIs
  <1>8. CASE /\ e.kind = "created" /\ e.id \notin Loaded(ps)
             /\ qs = [ps EXCEPT ![1] = Put(ps[1], Fresh(e))]
    <2>1. Honest(Fresh(e), rows, mw) /\ Fresh(e).id = e.id
      BY <1>8, FreshHonest
    <2>2. Fresh(e) \in Held
      <3>1. rows[e.id] \in Row
        BY DEF ServerTypes
      <3>2. QED
        BY <1>6, <3>1 DEF Fresh, Held, Row
    <2>3. PICK q \in Page : q = Put(ps[1], Fresh(e))
      BY <1>2, <2>2, PutIs
    <2>4. /\ q.cursor = ps[1].cursor
          /\ Len(q.items) = Len(ps[1].items) + 1 /\ q.items[1] = Fresh(e)
          /\ \A n \in 1 .. Len(ps[1].items) : q.items[n + 1] = ps[1].items[n]
          /\ \A n \in 1 .. Len(ps[1].items) + 1 :
                n = 1 \/ (n - 1 \in 1 .. Len(ps[1].items) /\ q.items[n] = ps[1].items[n - 1])
      BY <1>2, <2>2, <2>3, PutIs
    <2>5. qs = [ps EXCEPT ![1] = q]
      BY <1>8, <2>3
    <2>6. qs # <<>> /\ Len(qs) = Len(ps) /\ qs[1] = q
          /\ \A k \in 1 .. Len(ps) : k # 1 => qs[k] = ps[k]
      BY <1>2, <2>5
    <2>7. qs[Len(qs)].cursor = ps[Len(ps)].cursor
      BY <2>4, <2>6, <1>2
    <2>8. \A k \in 1 .. Len(ps) : \A n \in 1 .. Len(ps[k].items) :
             Honest(ps[k].items[n], rows, mw)
      <3>1. ASSUME NEW k \in 1 .. Len(ps), NEW n \in 1 .. Len(ps[k].items)
            PROVE  Honest(ps[k].items[n], rows, nw) /\ ps[k].items[n].id # e.id
        BY <1>7, <1>8 DEF Covers, Holds
      <3>2. \A c : Honest(c, rows, nw) /\ c.id # e.id => Honest(c, rows, mw)
        BY <1>5 DEF Honest
      <3>3. QED
        BY <3>1, <3>2
    <2>9. \A k \in 1 .. Len(qs) : \A n \in 1 .. Len(qs[k].items) : Honest(qs[k].items[n], rows, mw)
      <3>1. ASSUME NEW n \in 1 .. Len(q.items)
            PROVE  Honest(q.items[n], rows, mw)
        BY <1>2, <2>1, <2>4, <2>8
      <3>2. QED
        BY <2>6, <2>8, <3>1
    <2>10. \A i : Holds(qs, i) <=> Holds(ps, i) \/ i = e.id
      <3>1. \A i : Holds([ps EXCEPT ![1] = Put(ps[1], Fresh(e))], i) <=>
                       Holds(ps, i) \/ i = Fresh(e).id
        BY <1>2, <2>2, PutHolds
      <3>2. QED
        BY <1>8, <2>1, <3>1
    <2>11. \A i \in DOMAIN rows : i >= qs[Len(qs)].cursor => Holds(qs, i) \/ Due(mw, "created", i)
      BY <1>5, <2>7, <2>10 DEF Covers
    <2>12. ps[Len(ps)].cursor # 0 => Holds(ps, ps[Len(ps)].cursor)
      BY DEF Covers
    <2>13. e.id >= ps[Len(ps)].cursor
      <3>1. ps[Len(ps)].cursor \in 0 .. MaxId
        BY <1>2, <1>3
      <3>2. ps[Len(ps)].cursor # 0 => ~(ps[Len(ps)].cursor > e.id)
        BY <1>7, <1>8, <2>12
      <3>3. QED
        BY <1>6, <3>1, <3>2
    <2>14. \A i \in Ids : Holds(qs, i) => i >= qs[Len(qs)].cursor
      BY <2>7, <2>10, <2>13 DEF Covers
    <2>15. QED
      BY <1>1, <2>6, <2>7, <2>9, <2>10, <2>11, <2>12, <2>14 DEF Covers
  <1>9. CASE /\ e.kind = "created" => ps = <<>> \/ e.id \in Loaded(ps)
             /\ Len(qs) = Len(ps)
             /\ \A k \in 1 .. Len(ps) :
                   /\ qs[k].cursor = ps[k].cursor
                   /\ Len(qs[k].items) = Len(ps[k].items)
                   /\ \A n \in 1 .. Len(ps[k].items) : qs[k].items[n] = After(ps[k].items[n], e)
    <2>1. ASSUME NEW k \in 1 .. Len(ps), NEW n \in 1 .. Len(ps[k].items)
          PROVE  Honest(qs[k].items[n], rows, mw) /\ qs[k].items[n].id = ps[k].items[n].id
      <3>1. ps[k].items[n] \in Held /\ Honest(ps[k].items[n], rows, nw)
        BY <1>4 DEF Covers
      <3>2. /\ Honest(After(ps[k].items[n], e), rows, mw)
            /\ After(ps[k].items[n], e).id = ps[k].items[n].id
        BY <3>1, AfterHonest
      <3>3. qs[k].items[n] = After(ps[k].items[n], e)
        BY <1>9
      <3>4. QED
        BY <3>2, <3>3
    <2>2. \A i : Holds(qs, i) <=> Holds(ps, i)
      <3>1. Len(qs) = Len(ps) /\ \A k \in 1 .. Len(ps) : Len(qs[k].items) = Len(ps[k].items)
        BY <1>9
      <3>2. \A k \in 1 .. Len(ps) : \A n \in 1 .. Len(ps[k].items) :
               qs[k].items[n].id = ps[k].items[n].id
        BY <2>1
      <3>3. QED
        BY <3>1, <3>2, SameHolds
    <2>3. qs # <<>> /\ qs[Len(qs)].cursor = ps[Len(ps)].cursor
      BY <1>2, <1>9
    <2>4. \A k \in 1 .. Len(qs) : \A n \in 1 .. Len(qs[k].items) : Honest(qs[k].items[n], rows, mw)
      BY <1>9, <2>1
    <2>5. \A i \in DOMAIN rows : i >= qs[Len(qs)].cursor => Holds(qs, i) \/ Due(mw, "created", i)
      BY <1>2, <1>5, <1>7, <1>9, <2>2, <2>3 DEF Covers
    <2>6. QED
      BY <1>1, <2>2, <2>3, <2>4, <2>5 DEF Covers
  <1>10. QED
    BY <1>1, <1>8, <1>9, MergeIs

----------------------------------------------------------------------------
(* What the cache and the fetch cover, through every step.                 *)
LEMMA HasGotIs ==
    ASSUME fetch.answer # NoPage
    PROVE  HasGot = Append(fetch.got, fetch.answer)
  BY DEF HasGot

LEMMA DeliverCovers ==
    ASSUME Types, NewsTrue, Cached, Deliver, ~gap'
    PROVE  Covers(pages', rows', News') /\ fetch' = fetch /\ ~HasRead
  <1>1. PICK e \in Event :
              /\ e = Head(stream) /\ e.id \in DOMAIN rows
              /\ e.kind = "created" => e.count = 0
              /\ e.kind = "deleted" => rows[e.id].deleted
              /\ News' = unpublished \cup {stream[n] : n \in 2 .. Len(stream)}
    BY DeliverIs
  <1>2. /\ pages' = Merge(pages, e)
        /\ pages # <<>> /\ ~HasRead /\ ~Overtaken(e) /\ ~OutOfOrder(e)
        /\ UNCHANGED <<gap, fetch, rows, unpublished>>
    BY <1>1 DEF Deliver, Loses, server
  <1>3. ServerTypes /\ pages \in Seq(Page) /\ stream \in Seq(Event) /\ stream # <<>>
    BY DEF Types, CacheTypes, StreamTypes, Deliver
  <1>4. Covers(pages, rows, News)
    BY <1>2 DEF Cached
  <1>5. PICK mw : mw = unpublished \cup {stream[n] : n \in 2 .. Len(stream)}
    OBVIOUS
  <1>6. News \subseteq mw \cup {e}
    <2>1. \A n \in 1 .. Len(stream) : n = 1 \/ n \in 2 .. Len(stream)
      BY <1>3
    <2>2. stream[1] = e
      BY <1>1, <1>3
    <2>3. QED
      BY <1>5, <2>1, <2>2 DEF News
  <1>7. \A kind, i : Coming(kind, i) <=> Due(mw, kind, i)
    BY <1>5 DEF Coming, Due
  <1>8. /\ e.kind = "created" => ~rows[e.id].deleted \/ Due(mw, "deleted", e.id)
        /\ e.kind # "deleted" => rows[e.id].count = e.count \/ Due(mw, "reaction", e.id)
    BY <1>2, <1>7 DEF Overtaken
  <1>9. e.kind = "created" /\ e.id \notin Loaded(pages) => \A i \in Loaded(pages) : ~(i > e.id)
    BY <1>2 DEF OutOfOrder
  <1>10. PICK nw : nw = News
    OBVIOUS
  <1>11. Covers(Merge(pages, e), rows, mw)
    BY <1>1, <1>3, <1>4, <1>6, <1>8, <1>9, <1>10, MergeCovers
  <1>12. News' = mw
    BY <1>1, <1>5
  <1>13. QED
    BY <1>2, <1>11, <1>12

LEMMA CachedStep ==
    ASSUME Types, NewsTrue, Fetched, Cached, Next
    PROVE  Cached'
  <1>1. SUFFICES ASSUME ~gap'
                 PROVE  Covers(pages', rows', News')
    BY DEF Cached
  <1>2. CASE Deliver
    BY <1>1, <1>2, DeliverCovers
  <1>3. CASE Loses
    BY <1>1, <1>3 DEF Loses
  <1>4. CASE Aged(rows, rows', News, News') /\ UNCHANGED <<pages, gap>>
    <2>1. Covers(pages, rows, News)
      BY <1>1, <1>4 DEF Cached
    <2>2. QED
      BY <1>4, <2>1, CoversAged
  <1>5. CASE UNCHANGED <<rows, pages, gap>> /\ News' = News
    BY <1>1, <1>5 DEF Cached
  <1>6. CASE Receive /\ UNCHANGED rows /\ News' = News
    <2>1. PICK got \in Seq(Page) :
              /\ got = Append(fetch.got, fetch.answer)
              /\ \/ /\ pages' = got /\ fetch' = NoFetch
                    /\ gap' = (fetch.tainted \/ (fetch.kind = "more" /\ gap))
                 \/ UNCHANGED <<pages, gap>>
      BY <1>6, ReceiveIs
    <2>2. CASE UNCHANGED <<pages, gap>>
      BY <1>5, <1>6, <2>2
    <2>3. CASE pages' = got /\ gap' = (fetch.tainted \/ (fetch.kind = "more" /\ gap))
      <3>1. fetch.answer # NoPage /\ HasRead
        BY <1>6 DEF Receive, HasRead
      <3>2. HasGot = got
        BY <2>1, <3>1, HasGotIs
      <3>3. ~fetch.tainted /\ (fetch.kind = "more" => ~gap)
        BY <1>1, <2>3
      <3>4. Covers(got, rows, News)
        BY <3>1, <3>2, <3>3 DEF Fetched
      <3>5. QED
        BY <1>6, <2>3, <3>4
    <2>4. QED
      BY <2>1, <2>2, <2>3
  <1>7. CASE (Serve \/ LoadOlder) /\ UNCHANGED rows /\ News' = News
    <2>1. UNCHANGED <<pages, gap>>
      BY <1>7 DEF Serve, LoadOlder
    <2>2. QED
      BY <1>5, <1>7, <2>1
  <1>8. QED
    BY <1>2, <1>3, <1>4, <1>6, <1>7, StepIs

LEMMA FetchedStep ==
    ASSUME Types, NewsTrue, Asking, Fetched, Cached, Next
    PROVE  Fetched'
  <1>1. SUFFICES ASSUME HasRead', ~fetch'.tainted, fetch'.kind = "more" => ~gap'
                 PROVE  Covers(HasGot', rows', News')
    BY DEF Fetched
  <1>2. ASSUME fetch' = fetch
        PROVE  HasRead /\ HasGot' = HasGot /\ ~fetch.tainted /\ fetch.kind = fetch'.kind
    BY <1>1, <1>2 DEF HasRead, HasGot, InFlight
  <1>3. CASE Loses
    BY <1>1, <1>3, LosesFetches
  <1>4. CASE Deliver
    <2>1. CASE Loses
      BY <1>3, <2>1
    <2>2. CASE UNCHANGED <<gap, fetch>> /\ ~HasRead
      BY <1>2, <2>2
    <2>3. QED
      BY <1>4, <2>1, <2>2 DEF Deliver
  <1>5. CASE fetch' = NoFetch
    BY <1>1, <1>5 DEF NoFetch, HasRead, InFlight
  <1>6. CASE fetch' = Refetch(pages)
    BY <1>1, <1>6 DEF Refetch, HasRead, InFlight
  <1>7. CASE fetch' = fetch /\ Aged(rows, rows', News, News') /\ UNCHANGED gap
    <2>1. Covers(HasGot, rows, News)
      BY <1>1, <1>2, <1>7 DEF Fetched
    <2>2. Covers(HasGot, rows', News')
      BY <1>7, <2>1, CoversAged
    <2>3. QED
      BY <1>2, <1>7, <2>2
  <1>8. CASE Receive /\ UNCHANGED rows /\ News' = News
    <2>1. PICK got \in Seq(Page) :
              /\ got = Append(fetch.got, fetch.answer)
              /\ \/ fetch' = NoFetch
                 \/ /\ fetch' = [fetch EXCEPT !.got = got, !.answer = NoPage]
                    /\ UNCHANGED <<pages, gap>>
      BY <1>8, ReceiveIs
    <2>2. CASE fetch' = NoFetch
      BY <1>5, <2>2
    <2>3. CASE fetch' = [fetch EXCEPT !.got = got, !.answer = NoPage] /\ UNCHANGED gap
      <3>1. fetch \in Fetches
        BY DEF Types, CacheTypes
      <3>2. /\ fetch'.got = got /\ fetch'.answer = NoPage
            /\ fetch'.kind = fetch.kind /\ fetch'.tainted = fetch.tainted
        BY <2>3, <3>1 DEF Fetches
      <3>3. fetch.answer # NoPage /\ HasRead
        BY <1>8 DEF Receive, HasRead
      <3>4. HasGot = got
        BY <2>1, <3>3, HasGotIs
      <3>5. HasGot' = got
        BY <3>2 DEF HasGot
      <3>6. Covers(HasGot, rows, News)
        BY <1>1, <2>3, <3>2, <3>3 DEF Fetched
      <3>7. QED
        BY <1>8, <3>4, <3>5, <3>6
    <2>4. QED
      BY <2>1, <2>2, <2>3
  <1>9. CASE LoadOlder /\ UNCHANGED rows /\ News' = News
    <2>1. fetch' = FetchMore(pages) /\ UNCHANGED <<pages, gap>>
      BY <1>9 DEF LoadOlder
    <2>2. fetch'.kind = "more" /\ fetch'.got = pages /\ fetch'.answer = NoPage
      BY <2>1 DEF FetchMore
    <2>3. HasGot' = pages
      BY <2>2 DEF HasGot
    <2>4. Covers(pages, rows, News)
      BY <1>1, <2>1, <2>2 DEF Cached
    <2>5. QED
      BY <1>9, <2>3, <2>4
  <1>10. CASE Serve /\ UNCHANGED rows /\ News' = News
    <2>1. PICK p \in Page, before \in 0 .. MaxId :
              /\ p = ServedPage(before) /\ p # NoPage
              /\ before = IF fetch.got = <<>> THEN 0 ELSE fetch.got[Len(fetch.got)].cursor
              /\ InFlight /\ fetch.answer = NoPage
              /\ fetch'.got = fetch.got /\ fetch'.answer = p /\ fetch'.kind = fetch.kind
              /\ fetch'.tainted = fetch.tainted
              /\ UNCHANGED <<pages, gap>>
      BY <1>10, ServeFetches
    <2>2. HasGot' = Append(fetch.got, p)
      BY <2>1 DEF HasGot
    <2>3. ServerTypes /\ fetch.got \in Seq(Page)
      BY DEF Types, CacheTypes, Fetches
    <2>4. PICK nw : nw = News
      OBVIOUS
    <2>5. CASE fetch.got = <<>>
      <3>1. HasGot' = <<p>>
        BY <2>2, <2>5
      <3>2. Covers(<<p>>, rows, nw)
        BY <2>1, <2>3, <2>5, FirstPage
      <3>3. QED
        BY <1>10, <2>4, <3>1, <3>2
    <2>6. CASE fetch.got # <<>>
      <3>1. HasRead /\ HasGot = fetch.got
        BY <2>1, <2>6 DEF HasRead, HasGot
      <3>2. Covers(fetch.got, rows, News)
        BY <1>1, <2>1, <3>1 DEF Fetched
      <3>3. fetch.got[Len(fetch.got)].cursor # 0
        BY <2>1, <2>6 DEF Asking
      <3>4. p = ServedPage(fetch.got[Len(fetch.got)].cursor)
        BY <2>1, <2>6
      <3>5. Covers(Append(fetch.got, p), rows, nw)
        BY <2>3, <2>4, <3>2, <3>3, <3>4, NextPage
      <3>6. QED
        BY <1>10, <2>2, <2>4, <3>5
    <2>7. QED
      BY <2>5, <2>6
  <1>11. QED
    BY <1>3, <1>4, <1>5, <1>6, <1>7, <1>8, <1>9, <1>10, StepIs

----------------------------------------------------------------------------
LEMMA InitInv == Init => Inv
  <1>1. SUFFICES ASSUME Init PROVE Inv
    OBVIOUS
  <1>2. /\ MaxId \in Nat /\ Posted \in 0 .. MaxId /\ MaxChanges \in Nat /\ MaxStream \in Nat
        /\ MaxDrops \in Nat /\ MaxFails \in Nat
    BY ClientAssumption
  <1>3. ServerTypes
    <2>1. rows \in [1 .. Posted -> {Comment(p) : p \in 0 .. Posted}]
      BY <1>1 DEF Init
    <2>2. {Comment(p) : p \in 0 .. Posted} \subseteq Row
      <3>1. \A p \in 0 .. Posted : p \in 0 .. MaxId /\ 0 \in 0 .. 1
        BY <1>2
      <3>2. \A p \in 0 .. Posted : Comment(p) \in Row
        BY <3>1 DEF Comment, Row
      <3>3. QED
        BY <3>2
    <2>3. DOMAIN rows = 1 .. Posted /\ rows \in [DOMAIN rows -> Row]
      BY <2>1, <2>2
    <2>4. DOMAIN rows \subseteq Ids
      BY <1>2, <2>3 DEF Ids
    <2>5. changes \in 0 .. MaxChanges /\ unpublished \subseteq Event /\ own \in {NoEvent}
      BY <1>1, <1>2 DEF Init
    <2>6. QED
      BY <2>3, <2>4, <2>5 DEF ServerTypes
  <1>4. StreamTypes
    <2>1. stream = <<>> /\ es = "connecting" /\ degraded = FALSE /\ missed = FALSE /\ drops = 0
      BY <1>1 DEF Init
    <2>2. stream \in Seq(Event) /\ Len(stream) <= MaxStream
      BY <1>2, <2>1
    <2>3. drops \in 0 .. MaxDrops
      BY <1>2, <2>1
    <2>4. QED
      BY <2>1, <2>2, <2>3 DEF StreamTypes
  <1>5. CacheTypes
    <2>1. <<>> \in Seq(Page)
      OBVIOUS
    <2>2. Refetch(<<>>) \in Fetches
      BY <2>1 DEF Refetch, Fetches
    <2>3. pages \in Seq(Page) /\ fetch \in Fetches /\ gap = TRUE /\ jumbled = FALSE /\ fails = 0
      BY <1>1, <2>1, <2>2 DEF Init
    <2>4. fails \in 0 .. MaxFails
      BY <1>2, <2>3
    <2>5. QED
      BY <2>3, <2>4 DEF CacheTypes
  <1>6. NewsTrue
    <2>1. unpublished = {} /\ stream = <<>>
      BY <1>1 DEF Init
    <2>2. News = {}
      BY <2>1 DEF News
    <2>3. QED
      BY <2>2 DEF NewsTrue
  <1>7. fetch.got = <<>> /\ fetch.answer = NoPage /\ gap
    BY <1>1 DEF Init, Refetch
  <1>8. QED
    BY <1>3, <1>4, <1>5, <1>6, <1>7 DEF Inv, Types, Asking, Fetched, Cached, HasRead

LEMMA InvStep == Inv /\ [Next]_vars => Inv'
  <1>1. SUFFICES ASSUME Inv, [Next]_vars PROVE Inv'
    OBVIOUS
  <1>2. CASE Next
    <2>1. Types'
      BY <1>1, <1>2, ServerTyped, StreamTyped, CacheTyped DEF Inv, Types
    <2>2. NewsTrue' /\ Asking'
      BY <1>1, <1>2, NewsTrueStep, AskingStep DEF Inv
    <2>3. Fetched' /\ Cached'
      BY <1>1, <1>2, FetchedStep, CachedStep DEF Inv
    <2>4. QED
      BY <2>1, <2>2, <2>3 DEF Inv
  <1>3. CASE UNCHANGED vars
    <2>1. /\ UNCHANGED <<rows, changes, unpublished, own, stream, es, degraded, missed, drops>>
          /\ UNCHANGED <<pages, fetch, fails, gap, jumbled>>
      BY <1>3 DEF vars
    <2>2. Types'
      BY <1>1, <2>1 DEF Inv, Types, ServerTypes, StreamTypes, CacheTypes
    <2>3. News' = News /\ HasGot' = HasGot /\ (HasRead' <=> HasRead) /\ (InFlight' <=> InFlight)
      BY <2>1 DEF News, HasGot, HasRead, InFlight
    <2>4. NewsTrue' /\ Asking' /\ Fetched' /\ Cached'
      BY <1>1, <2>1, <2>3 DEF Inv, NewsTrue, Asking, Fetched, Cached
    <2>5. QED
      BY <2>2, <2>4 DEF Inv
  <1>4. QED
    BY <1>1, <1>2, <1>3

LEMMA Invariance == Spec => []Inv
  BY InitInv, InvStep, PTL DEF Spec

(* Type correctness: the table, the stream's channel, the connection and   *)
(* the query hold what they should through any interleaving of commits,    *)
(* publications, fetches and losses; the channel never holds more than the *)
(* hub gives it.                                                           *)
THEOREM ThreadTypeCorrect == Spec => []TypeOK
  <1>1. ASSUME Inv PROVE TypeOK
    <2>1. /\ DOMAIN rows \subseteq Ids /\ \A i \in DOMAIN rows : rows[i] \in Row
          /\ changes \in 0 .. MaxChanges /\ unpublished \subseteq Event
          /\ own \in Event \cup {NoEvent}
      BY <1>1 DEF Inv, Types, ServerTypes
    <2>2. \A k \in DOMAIN pages : pages[k] \in Page
      BY <1>1 DEF Inv, Types, CacheTypes
    <2>3. fetch.kind \in {"none", "pages", "more"} /\ fetch.tainted \in BOOLEAN
      BY <1>1 DEF Inv, Types, CacheTypes, Fetches
    <2>4. QED
      BY <1>1, <2>1, <2>2, <2>3 DEF Inv, Types, StreamTypes, CacheTypes, TypeOK, Row
  <1>2. QED
    BY <1>1, Invariance, PTL

(* Folding the live events into the cache keeps it what a fresh fetch of   *)
(* the same extent would return (use-thread-events.ts), for any page size  *)
(* and any order in which handlers publish, posts are taken and committed, *)
(* fetches are started, read, answered, cancelled or fail: once nothing is *)
(* on its way, only a loss counted as a gap can have left it stale.        *)
THEOREM ThreadFreshUnlessGap == Spec => []FreshUnlessGap
  <1>1. ASSUME Inv PROVE FreshUnlessGap
    <2>1. SUFFICES ASSUME Quiet, ~gap PROVE UpToDate
      BY DEF FreshUnlessGap
    <2>2. ServerTypes /\ pages \in Seq(Page)
      BY <1>1 DEF Inv, Types, CacheTypes
    <2>3. News = {}
      BY <2>1 DEF Quiet, News
    <2>4. Covers(pages, rows, {})
      BY <1>1, <2>1, <2>3 DEF Inv, Cached
    <2>5. PICK last \in 0 .. MaxId : last = pages[Len(pages)].cursor
      <3>1. pages # <<>>
        BY <2>4 DEF Covers
      <3>2. pages[Len(pages)] \in Page
        BY <2>2, <3>1
      <3>3. QED
        BY <3>2 DEF Page
    <2>6. Last(pages).cursor = last
      BY <2>5 DEF Last
    <2>7. /\ pages # <<>>
          /\ \A k \in 1 .. Len(pages) : \A n \in 1 .. Len(pages[k].items) :
                Honest(pages[k].items[n], rows, {})
          /\ \A i \in DOMAIN rows : i >= last => Holds(pages, i)
          /\ \A i \in Ids : Holds(pages, i) => i >= last
      BY <2>4, <2>5 DEF Covers, Due
    <2>8. \A i : Holds(pages, i) => i \in DOMAIN rows
      BY <2>7 DEF Holds, Honest
    <2>9. \A i \in DOMAIN rows : i \in Ids /\ i >= 0
      BY <2>2, ClientAssumption DEF ServerTypes, Ids
    <2>10. Loaded(pages) = {i \in DOMAIN rows : i >= last}
      BY <2>2, <2>7, <2>8, <2>9, LoadedIs
    <2>11. Loaded(pages) = IF last = 0 THEN DOMAIN rows ELSE {i \in DOMAIN rows : i >= last}
      BY <2>9, <2>10
    <2>12. DOMAIN pages = 1 .. Len(pages)
           /\ \A k \in 1 .. Len(pages) : DOMAIN pages[k].items = 1 .. Len(pages[k].items)
      <3>1. \A k \in 1 .. Len(pages) : pages[k] \in Page
        BY <2>2
      <3>2. QED
        BY <2>2, <3>1 DEF Page
    <2>13. ASSUME NEW c, Honest(c, rows, {})
           PROVE  rows[c.id] = [parent |-> c.parent, deleted |-> c.deleted, count |-> c.count]
      <3>1. c.id \in DOMAIN rows /\ c.parent = rows[c.id].parent
            /\ c.deleted = rows[c.id].deleted /\ c.count = rows[c.id].count
        BY <2>13 DEF Honest, Due
      <3>2. rows[c.id] \in Row
        BY <2>2, <3>1 DEF ServerTypes
      <3>3. QED
        BY <3>1, <3>2 DEF Row
    <2>14. QED
      BY <2>6, <2>7, <2>11, <2>12, <2>13 DEF UpToDate
  <1>2. QED
    BY <1>1, Invariance, PTL
----------------------------------------------------------------------------
(* Recursion over the pages, and over the comments, is resolved by hand:   *)
(* the equation has a solution, and CHOOSE takes one.                      *)
FlatStep(ss, f, i) == IF i = 1 THEN ss[i] ELSE f[i - 1] \o ss[i]
FlatAt(ss) == CHOOSE f : f = [i \in 1 .. Len(ss) |-> FlatStep(ss, f, i)]

LEMMA FlattenIs ==
    ASSUME NEW ss, Len(ss) # 0
    PROVE  FlattenSeq(ss) = FlatAt(ss)[Len(ss)]
  BY DEF FlattenSeq, FlatAt, FlatStep

LEMMA FlatAtIs ==
    ASSUME NEW ss, Len(ss) \in Nat
    PROVE  FlatAt(ss) = [i \in 1 .. Len(ss) |-> FlatStep(ss, FlatAt(ss), i)]
  <1> DEFINE Solves(f, n) == f = [i \in 1 .. n |-> FlatStep(ss, f, i)]
             Bad == {n \in 0 .. Len(ss) : ~(\E f : Solves(f, n))}
  <1>1. Bad = {}
    <2>1. SUFFICES ASSUME Bad # {} PROVE FALSE
      OBVIOUS
    <2>2. Bad \subseteq Nat
      OBVIOUS
    <2>3. PICK m \in Bad : \A k \in Bad : m <= k
      <3> HIDE DEF Bad
      <3>1. QED
        BY <2>1, <2>2, Smallest
    <2>4. m \in 0 .. Len(ss) /\ ~(\E f : Solves(f, m))
      OBVIOUS
    <2>5. CASE m = 0
      <3>1. Solves([i \in 1 .. 0 |-> i], 0)
        OBVIOUS
      <3>2. QED
        BY <2>4, <2>5, <3>1
    <2>6. CASE m # 0
      <3>1. m - 1 \in 0 .. Len(ss) /\ m - 1 \notin Bad
        <4>1. m - 1 \in 0 .. Len(ss) /\ m - 1 \in Int /\ ~(m <= m - 1)
          BY <2>4, <2>6
        <4> HIDE DEF Bad
        <4>2. QED
          BY <2>3, <4>1
      <3>2. PICK f : Solves(f, m - 1)
        BY <3>1
      <3> DEFINE v == FlatStep(ss, f, m)
                 g == [i \in 1 .. m |-> IF i = m THEN v ELSE f[i]]
      <3>3. \A i \in 1 .. m : i = m \/ i \in 1 .. (m - 1)
        BY <2>4
      <3>4. \A i \in 1 .. m : i # 1 => g[i - 1] = f[i - 1]
        <4>1. \A i \in 1 .. m : i # 1 => i - 1 \in 1 .. m /\ i - 1 # m
          BY <2>4
        <4>2. QED
          BY <4>1
      <3>5. \A i \in 1 .. m : FlatStep(ss, g, i) = FlatStep(ss, f, i)
        BY <3>4 DEF FlatStep
      <3>6. \A i \in 1 .. (m - 1) : f[i] = FlatStep(ss, f, i)
        BY <3>2
      <3>7. \A i \in 1 .. m : g[i] = FlatStep(ss, g, i)
        <4> HIDE DEF v
        <4>1. \A i \in 1 .. m : g[i] = IF i = m THEN v ELSE f[i]
          OBVIOUS
        <4> HIDE DEF g
        <4>2. QED
          BY <3>3, <3>5, <3>6, <4>1 DEF v
      <3>8. g = [i \in 1 .. m |-> g[i]]
        OBVIOUS
      <3> HIDE DEF g
      <3>9. Solves(g, m)
        BY <3>7, <3>8
      <3>10. QED
        BY <2>4, <3>9
    <2>7. QED
      BY <2>5, <2>6
  <1>2. Len(ss) \in 0 .. Len(ss)
    OBVIOUS
  <1>3. \E f : Solves(f, Len(ss))
    BY <1>1, <1>2
  <1>4. QED
    BY <1>3 DEF FlatAt

Grown(in, c, r) == IF c.parent # 0 /\ (c.parent = r \/ c.parent \in in) THEN in \cup {c.id} ELSE in
FoldStep(cs, r, f, s) == IF s = {} THEN {} ELSE Grown(f[s \ {Max(s)}], cs[Max(s)], r)
FoldAt(cs, r) == CHOOSE f : f = [s \in SUBSET DOMAIN cs |-> FoldStep(cs, r, f, s)]

LEMMA BelowIs ==
    ASSUME NEW cs, NEW r
    PROVE  Below(cs, r) = FoldAt(cs, r)[DOMAIN cs]
  BY DEF Below, FoldLeft, MapThenFoldSet, FoldAt, FoldStep, Grown

LEMMA MaxIs ==
    ASSUME NEW N \in Nat, NEW s, s \subseteq 1 .. N, s # {}
    PROVE  Max(s) \in s /\ \A y \in s : y <= Max(s)
  <1>1. PICK x \in s : \A y \in s : y <= x
    BY Largest
  <1>2. \A y \in s : x >= y
    BY <1>1
  <1>3. Max(s) \in s /\ \A y \in s : Max(s) >= y
    BY <1>2 DEF Max
  <1>4. QED
    BY <1>3

LEMMA FoldAtIs ==
    ASSUME NEW cs, NEW N \in Nat, DOMAIN cs = 1 .. N, NEW r
    PROVE  \A s \in SUBSET (1 .. N) : FoldAt(cs, r)[s] = FoldStep(cs, r, FoldAt(cs, r), s)
  <1> DEFINE Solves(f, n) == f = [s \in SUBSET (1 .. n) |-> FoldStep(cs, r, f, s)]
             Bad == {n \in 0 .. N : ~(\E f : Solves(f, n))}
  <1>1. Bad = {}
    <2>1. SUFFICES ASSUME Bad # {} PROVE FALSE
      OBVIOUS
    <2>2. Bad \subseteq Nat
      OBVIOUS
    <2>3. PICK m \in Bad : \A k \in Bad : m <= k
      <3> HIDE DEF Bad
      <3>1. QED
        BY <2>1, <2>2, Smallest
    <2>4. m \in 0 .. N /\ ~(\E f : Solves(f, m))
      OBVIOUS
    <2>5. CASE m = 0
      <3> DEFINE g == [s \in SUBSET (1 .. 0) |-> {}]
      <3>1. \A s \in SUBSET (1 .. 0) : s = {}
        OBVIOUS
      <3>2. \A s \in SUBSET (1 .. 0) : FoldStep(cs, r, g, s) = {}
        BY <3>1 DEF FoldStep
      <3>3. Solves(g, 0)
        <4>1. g = [s \in SUBSET (1 .. 0) |-> {}]
          OBVIOUS
        <4> HIDE DEF g
        <4>2. QED
          BY <3>2, <4>1
      <3>4. QED
        BY <2>4, <2>5, <3>3
    <2>6. CASE m # 0
      <3>1. m - 1 \in 0 .. N /\ m - 1 \notin Bad
        <4>1. m - 1 \in 0 .. N /\ m - 1 \in Int /\ ~(m <= m - 1)
          BY <2>4, <2>6
        <4> HIDE DEF Bad
        <4>2. QED
          BY <2>3, <4>1
      <3>2. PICK f : Solves(f, m - 1)
        BY <3>1
      <3>3. \A s \in SUBSET (1 .. (m - 1)) : f[s] = FoldStep(cs, r, f, s)
        BY <3>2
      <3> DEFINE g == [s \in SUBSET (1 .. m) |->
                          IF s \in SUBSET (1 .. (m - 1)) THEN f[s] ELSE FoldStep(cs, r, f, s)]
      <3>4. \A s \in SUBSET (1 .. m) : g[s] = FoldStep(cs, r, f, s)
        BY <3>3
      <3>5. \A s \in SUBSET (1 .. m) : s # {} =>
               s \ {Max(s)} \in SUBSET (1 .. (m - 1)) /\ s \ {Max(s)} \in SUBSET (1 .. m)
        <4>1. ASSUME NEW s \in SUBSET (1 .. m), s # {}, NEW y \in s \ {Max(s)}
              PROVE  y \in 1 .. (m - 1)
          <5>1. m \in Nat
            BY <2>4
          <5>2. Max(s) \in s /\ y <= Max(s)
            BY <4>1, <5>1, MaxIs
          <5>3. y \in 1 .. m /\ Max(s) \in 1 .. m /\ y # Max(s)
            BY <4>1, <5>2
          <5>4. QED
            BY <5>1, <5>2, <5>3
        <4>2. QED
          BY <4>1
      <3>6. \A s \in SUBSET (1 .. m) : s # {} => g[s \ {Max(s)}] = f[s \ {Max(s)}]
        <4>1. \A s \in SUBSET (1 .. m) : s \in SUBSET (1 .. (m - 1)) => g[s] = f[s]
          OBVIOUS
        <4> HIDE DEF g
        <4>2. QED
          BY <3>5, <4>1
      <3>7. g = [s \in SUBSET (1 .. m) |-> g[s]]
        OBVIOUS
      <3> HIDE DEF g
      <3>8. \A s \in SUBSET (1 .. m) : g[s] = FoldStep(cs, r, g, s)
        BY <3>4, <3>6 DEF FoldStep
      <3>9. Solves(g, m)
        BY <3>7, <3>8
      <3>10. QED
        BY <2>4, <3>9
    <2>7. QED
      BY <2>5, <2>6
  <1>2. N \in 0 .. N
    OBVIOUS
  <1>3. \E f : Solves(f, N)
    BY <1>1, <1>2
  <1>4. Solves(FoldAt(cs, r), N)
    BY <1>3 DEF FoldAt
  <1>5. QED
    BY <1>4

(* What flattening returns: all the elements and no other, in order.       *)
Flat(ss, n, F) ==
    /\ F \in Seq(Held)
    /\ \A j \in 1 .. Len(F) : \E k \in 1 .. n : \E m \in 1 .. Len(ss[k]) : F[j] = ss[k][m]
    /\ \A k \in 1 .. n : \A m \in 1 .. Len(ss[k]) : \E j \in 1 .. Len(F) : F[j] = ss[k][m]
AllFall(ss) ==
    /\ \A k \in 1 .. Len(ss) : Falls(ss[k])
    /\ \A k, l \in 1 .. Len(ss) : k < l =>
          \A m \in 1 .. Len(ss[k]) : \A n \in 1 .. Len(ss[l]) : ss[l][n].id < ss[k][m].id

LEMMA ConcatIs ==
    ASSUME NEW s \in Seq(Held), NEW t \in Seq(Held)
    PROVE  /\ s \o t \in Seq(Held) /\ Len(s \o t) = Len(s) + Len(t)
           /\ Len(s) \in Nat /\ Len(t) \in Nat
           /\ \A j \in 1 .. Len(s) : (s \o t)[j] = s[j]
           /\ \A j \in 1 .. Len(t) : (s \o t)[Len(s) + j] = t[j]
           /\ \A j \in 1 .. Len(s) + Len(t) :
                 j \in 1 .. Len(s) \/ \E i \in 1 .. Len(t) : j = Len(s) + i
  <1>1. Len(s) \in Nat /\ Len(t) \in Nat
    OBVIOUS
  <1>2. ASSUME NEW j \in 1 .. Len(s) + Len(t)
        PROVE  j \in 1 .. Len(s) \/ \E i \in 1 .. Len(t) : j = Len(s) + i
    <2>1. CASE j <= Len(s)
      BY <1>1, <2>1
    <2>2. CASE ~(j <= Len(s))
      <3>1. j - Len(s) \in 1 .. Len(t) /\ j = Len(s) + (j - Len(s))
        BY <1>1, <2>2
      <3>2. QED
        BY <3>1
    <2>3. QED
      BY <2>1, <2>2
  <1>3. \A j \in 1 .. Len(t) : (s \o t)[Len(s) + j] = t[j]
    OBVIOUS
  <1>4. s \o t \in Seq(Held) /\ Len(s \o t) = Len(s) + Len(t)
        /\ \A j \in 1 .. Len(s) : (s \o t)[j] = s[j]
    OBVIOUS
  <1>5. QED
    BY <1>1, <1>2, <1>3, <1>4

LEMMA FlatGrows ==
    ASSUME NEW ss \in Seq(Seq(Held)), NEW n \in 1 .. Len(ss), n # 1, NEW F, Flat(ss, n - 1, F)
    PROVE  /\ Flat(ss, n, F \o ss[n])
           /\ AllFall(ss) /\ Falls(F) => Falls(F \o ss[n])
  <1>1. PICK t \in Seq(Held) : t = ss[n]
    OBVIOUS
  <1>2. F \in Seq(Held)
    BY DEF Flat
  <1>3. PICK G \in Seq(Held) : G = F \o t
    BY <1>2, ConcatIs
  <1>4. /\ Len(G) = Len(F) + Len(t) /\ Len(F) \in Nat /\ Len(t) \in Nat
        /\ \A j \in 1 .. Len(F) : G[j] = F[j]
        /\ \A j \in 1 .. Len(t) : G[Len(F) + j] = t[j]
        /\ \A j \in 1 .. Len(G) : j \in 1 .. Len(F) \/ \E i \in 1 .. Len(t) : j = Len(F) + i
    <2>1. Len(G) = Len(F) + Len(t) /\ Len(F) \in Nat /\ Len(t) \in Nat
      BY <1>2, <1>3, ConcatIs
    <2>2. \A j \in 1 .. Len(F) : G[j] = F[j]
      BY <1>2, <1>3, ConcatIs
    <2>3. \A j \in 1 .. Len(t) : G[Len(F) + j] = t[j]
      BY <1>2, <1>3, ConcatIs
    <2>4. \A j \in 1 .. Len(F) + Len(t) :
             j \in 1 .. Len(F) \/ \E i \in 1 .. Len(t) : j = Len(F) + i
      BY <1>2, ConcatIs
    <2>5. QED
      BY <2>1, <2>2, <2>3, <2>4
  <1>5. \A k : k \in 1 .. n <=> k \in 1 .. (n - 1) \/ k = n
    OBVIOUS
  <1>6. \A k \in 1 .. (n - 1) : k \in 1 .. Len(ss) /\ k < n
    OBVIOUS
  <1>7. ASSUME NEW j \in 1 .. Len(G)
        PROVE  \E k \in 1 .. n : \E m \in 1 .. Len(ss[k]) : G[j] = ss[k][m]
    <2>1. CASE j \in 1 .. Len(F)
      <3>1. PICK k \in 1 .. (n - 1) : \E m \in 1 .. Len(ss[k]) : F[j] = ss[k][m]
        BY <2>1 DEF Flat
      <3>2. k \in 1 .. n /\ G[j] = F[j]
        BY <1>4, <1>5, <2>1
      <3>3. QED
        BY <3>1, <3>2
    <2>2. CASE \E i \in 1 .. Len(t) : j = Len(F) + i
      BY <1>1, <1>4, <1>5, <2>2
    <2>3. QED
      BY <1>4, <2>1, <2>2
  <1>8. \A j \in 1 .. Len(F) : j \in 1 .. Len(G)
    BY <1>4
  <1>9. \A j \in 1 .. Len(t) : Len(F) + j \in 1 .. Len(G)
    BY <1>4
  <1>10. ASSUME NEW k \in 1 .. n, NEW m \in 1 .. Len(ss[k])
         PROVE  \E j \in 1 .. Len(G) : G[j] = ss[k][m]
    <2>1. CASE k = n
      BY <1>1, <1>4, <1>9, <2>1
    <2>2. CASE k \in 1 .. (n - 1)
      <3>1. PICK j \in 1 .. Len(F) : F[j] = ss[k][m]
        BY <2>2 DEF Flat
      <3>2. QED
        BY <1>4, <1>8, <3>1
    <2>3. QED
      BY <1>5, <2>1, <2>2
  <1>11. ASSUME AllFall(ss), Falls(F)
         PROVE  Falls(G)
    <2>1. Falls(t)
      BY <1>1, <1>11 DEF AllFall
    <2>2. \A i \in 1 .. Len(F) : \A j \in 1 .. Len(t) : t[j].id < F[i].id
      <3>1. ASSUME NEW i \in 1 .. Len(F), NEW j \in 1 .. Len(t)
            PROVE  t[j].id < F[i].id
        <4>1. PICK k \in 1 .. (n - 1) : \E m \in 1 .. Len(ss[k]) : F[i] = ss[k][m]
          BY DEF Flat
        <4>2. k \in 1 .. Len(ss) /\ k < n
          BY <1>6
        <4>3. QED
          BY <1>1, <1>11, <4>1, <4>2 DEF AllFall
      <3>2. QED
        BY <3>1
    <2>3. ASSUME NEW i \in 1 .. Len(G), NEW j \in 1 .. Len(G), i < j
          PROVE  G[j].id < G[i].id
      <3>1. CASE i \in 1 .. Len(F) /\ j \in 1 .. Len(F)
        BY <1>4, <1>11, <2>3, <3>1 DEF Falls
      <3>2. CASE i \in 1 .. Len(F) /\ \E b \in 1 .. Len(t) : j = Len(F) + b
        BY <1>4, <2>2, <3>2
      <3>3. CASE j \in 1 .. Len(F) /\ \E a \in 1 .. Len(t) : i = Len(F) + a
        BY <1>4, <2>3, <3>3
      <3>4. CASE (\E a \in 1 .. Len(t) : i = Len(F) + a) /\ (\E b \in 1 .. Len(t) : j = Len(F) + b)
        <4>1. PICK a \in 1 .. Len(t) : i = Len(F) + a
          BY <3>4
        <4>2. PICK b \in 1 .. Len(t) : j = Len(F) + b
          BY <3>4
        <4>3. a < b
          BY <1>4, <2>3, <4>1, <4>2
        <4>4. QED
          BY <1>4, <2>1, <4>1, <4>2, <4>3 DEF Falls
      <3>5. QED
        BY <1>4, <3>1, <3>2, <3>3, <3>4
    <2>4. QED
      BY <2>3 DEF Falls
  <1>12. QED
    BY <1>1, <1>3, <1>7, <1>10, <1>11 DEF Flat

LEMMA FlatIs ==
    ASSUME NEW ss \in Seq(Seq(Held)), ss # <<>>
    PROVE  /\ Flat(ss, Len(ss), FlattenSeq(ss))
           /\ AllFall(ss) => Falls(FlattenSeq(ss))
  <1>1. Len(ss) \in Nat /\ Len(ss) # 0 /\ Len(ss) \in 1 .. Len(ss)
    OBVIOUS
  <1>2. PICK f : f = FlatAt(ss)
    OBVIOUS
  <1>3. \A i \in 1 .. Len(ss) : f[i] = FlatStep(ss, f, i)
    <2>1. f = [i \in 1 .. Len(ss) |-> FlatStep(ss, f, i)]
      BY <1>1, <1>2, FlatAtIs
    <2>2. QED
      BY <2>1
  <1> DEFINE Good(n) == Flat(ss, n, f[n]) /\ (AllFall(ss) => Falls(f[n]))
             Bad == {n \in 1 .. Len(ss) : ~Good(n)}
  <1>4. Bad = {}
    <2>1. SUFFICES ASSUME Bad # {} PROVE FALSE
      OBVIOUS
    <2>2. Bad \subseteq Nat
      OBVIOUS
    <2>3. PICK n \in Bad : \A k \in Bad : n <= k
      <3> HIDE DEF Bad
      <3>1. QED
        BY <2>1, <2>2, Smallest
    <2>4. n \in 1 .. Len(ss) /\ ~Good(n)
      OBVIOUS
    <2>5. CASE n = 1
      <3>1. f[1] = ss[1] /\ ss[1] \in Seq(Held)
        BY <1>1, <1>3, <2>4, <2>5 DEF FlatStep
      <3>2. Flat(ss, 1, ss[1])
        <4>1. \A k : k \in 1 .. 1 <=> k = 1
          OBVIOUS
        <4>2. /\ \A j \in 1 .. Len(ss[1]) : \E k \in 1 .. 1 : \E m \in 1 .. Len(ss[k]) : ss[1][j] = ss[k][m]
              /\ \A k \in 1 .. 1 : \A m \in 1 .. Len(ss[k]) : \E j \in 1 .. Len(ss[1]) : ss[1][j] = ss[k][m]
          BY <4>1
        <4>3. QED
          BY <3>1, <4>2 DEF Flat
      <3>3. AllFall(ss) => Falls(ss[1])
        BY <2>4, <2>5 DEF AllFall
      <3>4. QED
        BY <2>4, <2>5, <3>1, <3>2, <3>3
    <2>6. CASE n # 1
      <3>1. n - 1 \in 1 .. Len(ss) /\ n - 1 \notin Bad
        <4>1. n - 1 \in 1 .. Len(ss) /\ n - 1 \in Int /\ ~(n <= n - 1)
          BY <2>4, <2>6
        <4> HIDE DEF Bad
        <4>2. QED
          BY <2>3, <4>1
      <3>2. Flat(ss, n - 1, f[n - 1]) /\ (AllFall(ss) => Falls(f[n - 1]))
        BY <3>1
      <3>3. f[n] = f[n - 1] \o ss[n]
        BY <1>3, <2>4, <2>6 DEF FlatStep
      <3>4. Flat(ss, n, f[n]) /\ (AllFall(ss) => Falls(f[n]))
        BY <2>4, <2>6, <3>2, <3>3, FlatGrows
      <3>5. QED
        BY <2>4, <3>4
    <2>7. QED
      BY <2>5, <2>6
  <1>5. Good(Len(ss))
    BY <1>1, <1>4
  <1>6. QED
    BY <1>1, <1>2, <1>5, FlattenIs
----------------------------------------------------------------------------
(* The replies below r among the first n comments.                         *)
In(cs, r, n) == FoldAt(cs, r)[1 .. n]
Numbers(cs) ==
    /\ \A m, n \in 1 .. Len(cs) : m < n => cs[m].id < cs[n].id
    /\ \A n \in 1 .. Len(cs) : cs[n].parent < cs[n].id

LEMMA InIs ==
    ASSUME NEW cs \in Seq(Held), NEW r
    PROVE  /\ In(cs, r, 0) = {}
           /\ \A n \in 1 .. Len(cs) : In(cs, r, n) = Grown(In(cs, r, n - 1), cs[n], r)
           /\ Below(cs, r) = In(cs, r, Len(cs))
  <1>1. PICK N \in Nat : N = Len(cs) /\ DOMAIN cs = 1 .. N
    OBVIOUS
  <1>2. PICK f : f = FoldAt(cs, r)
    OBVIOUS
  <1>3. \A s \in SUBSET (1 .. N) : f[s] = FoldStep(cs, r, f, s)
    <2>1. DOMAIN cs = 1 .. N
      BY <1>1
    <2>2. \A s \in SUBSET (1 .. N) : FoldAt(cs, r)[s] = FoldStep(cs, r, FoldAt(cs, r), s)
      BY <2>1, FoldAtIs
    <2>3. QED
      BY <1>2, <2>2
  <1>4. f[1 .. 0] = {}
    <2>1. 1 .. 0 = {}
      OBVIOUS
    <2>2. QED
      BY <1>3, <2>1 DEF FoldStep
  <1>5. ASSUME NEW n \in 1 .. N
        PROVE  f[1 .. n] = Grown(f[1 .. (n - 1)], cs[n], r)
    <2>1. 1 .. n \subseteq 1 .. N /\ n \in 1 .. n /\ n \in Nat
      OBVIOUS
    <2>2. 1 .. n # {}
      BY <2>1
    <2>3. Max(1 .. n) = n
      <3>1. Max(1 .. n) \in 1 .. n /\ n <= Max(1 .. n)
        BY <2>1, <2>2, MaxIs
      <3>2. QED
        BY <2>1, <3>1
    <2>4. (1 .. n) \ {n} = 1 .. (n - 1)
      BY <2>1
    <2>5. f[1 .. n] = FoldStep(cs, r, f, 1 .. n)
      BY <1>3, <2>1
    <2>6. QED
      BY <2>2, <2>3, <2>4, <2>5 DEF FoldStep
  <1>6. Below(cs, r) = f[1 .. N]
    BY <1>1, <1>2, BelowIs
  <1>7. QED
    BY <1>1, <1>2, <1>4, <1>5, <1>6 DEF In

(* A reply joins when its turn comes, or never.                            *)
LEMMA JoinsInTurn ==
    ASSUME NEW cs \in Seq(Held), Numbers(cs), NEW r, NEW n \in 0 .. Len(cs)
    PROVE  /\ \A x \in In(cs, r, n) : \E j \in 1 .. n : cs[j].id = x
           /\ \A j \in 1 .. n : cs[j].id \in In(cs, r, n) <=> cs[j].id \in In(cs, r, j)
  <1> DEFINE Good(k) == /\ \A x \in In(cs, r, k) : \E j \in 1 .. k : cs[j].id = x
                        /\ \A j \in 1 .. k : cs[j].id \in In(cs, r, k) <=> cs[j].id \in In(cs, r, j)
             Bad == {k \in 0 .. Len(cs) : ~Good(k)}
  <1>1. Bad = {}
    <2>1. SUFFICES ASSUME Bad # {} PROVE FALSE
      OBVIOUS
    <2>2. Bad \subseteq Nat
      OBVIOUS
    <2>3. PICK m \in Bad : \A k \in Bad : m <= k
      <3> HIDE DEF Bad
      <3>1. QED
        BY <2>1, <2>2, Smallest
    <2>4. m \in 0 .. Len(cs) /\ ~Good(m)
      OBVIOUS
    <2>5. CASE m = 0
      <3>1. In(cs, r, 0) = {} /\ 1 .. 0 = {}
        BY InIs
      <3>2. QED
        BY <2>4, <2>5, <3>1
    <2>6. CASE m # 0
      <3>1. m \in 1 .. Len(cs) /\ m - 1 \in 0 .. Len(cs) /\ m - 1 \notin Bad
        <4>1. m \in 1 .. Len(cs) /\ m - 1 \in 0 .. Len(cs) /\ m - 1 \in Int /\ ~(m <= m - 1)
          BY <2>4, <2>6
        <4> HIDE DEF Bad
        <4>2. QED
          BY <2>3, <4>1
      <3>2. Good(m - 1)
        BY <3>1
      <3>3. /\ In(cs, r, m - 1) \subseteq In(cs, r, m)
            /\ In(cs, r, m) \subseteq In(cs, r, m - 1) \cup {cs[m].id}
        <4>1. In(cs, r, m) = Grown(In(cs, r, m - 1), cs[m], r)
          BY <3>1, InIs
        <4>2. QED
          BY <4>1 DEF Grown
      <3>4. \A j : j \in 1 .. m <=> j \in 1 .. (m - 1) \/ j = m
        BY <3>1
      <3>5. \A j \in 1 .. (m - 1) : cs[j].id # cs[m].id
        <4>1. ASSUME NEW j \in 1 .. (m - 1)
              PROVE  cs[j].id # cs[m].id
          <5>1. j \in 1 .. Len(cs) /\ j < m
            BY <3>1
          <5>2. cs[j].id < cs[m].id /\ cs[m] \in Held
            BY <3>1, <5>1 DEF Numbers
          <5>3. cs[m].id \in Ids
            BY <5>2 DEF Held
          <5>4. cs[m].id \in Int
            BY <5>3, ClientAssumption DEF Ids
          <5>5. QED
            BY <5>2, <5>4
        <4>2. QED
          BY <4>1
      <3>6. Good(m)
        <4>1. \A x \in In(cs, r, m) : \E j \in 1 .. m : cs[j].id = x
          BY <3>2, <3>3, <3>4
        <4>2. \A j \in 1 .. m : cs[j].id \in In(cs, r, m) <=> cs[j].id \in In(cs, r, j)
          BY <3>2, <3>3, <3>4, <3>5
        <4>3. QED
          BY <4>1, <4>2
      <3>7. QED
        BY <2>4, <3>6
    <2>7. QED
      BY <2>5, <2>6
  <1>2. QED
    BY <1>1

(* Every comment is drawn: it is a root, or below one.                     *)
LEMMA DrawnIs ==
    ASSUME NEW cs \in Seq(Held), Numbers(cs)
    PROVE  Drawn(cs) = {cs[n].id : n \in 1 .. Len(cs)}
  <1>1. DOMAIN cs = 1 .. Len(cs) /\ Len(cs) \in Nat /\ \A n \in 1 .. Len(cs) : cs[n] \in Held
    OBVIOUS
  <1>2. \A n \in 1 .. Len(cs) : cs[n].id \in Int /\ cs[n].parent \in Int
    <2>1. \A c \in Held : c.id \in Int /\ c.parent \in Int
      BY ClientAssumption DEF Held, Ids
    <2>2. QED
      BY <1>1, <2>1
  <1> DEFINE all == {cs[n].id : n \in 1 .. Len(cs)}
             Good(j) == \E c \in DisplayRoots(cs) : cs[j].id = c.id \/ cs[j].id \in In(cs, c.id, j)
             Bad == {j \in 1 .. Len(cs) : ~Good(j)}
  <1>3. Bad = {}
    <2>1. SUFFICES ASSUME Bad # {} PROVE FALSE
      OBVIOUS
    <2>2. Bad \subseteq Nat
      OBVIOUS
    <2>3. PICK j \in Bad : \A k \in Bad : j <= k
      <3> HIDE DEF Bad
      <3>1. QED
        BY <2>1, <2>2, Smallest
    <2>4. j \in 1 .. Len(cs) /\ ~Good(j)
      OBVIOUS
    <2>5. CASE cs[j].parent = 0 \/ cs[j].parent \notin all
      <3>1. cs[j] \in DisplayRoots(cs)
        BY <1>1, <2>4, <2>5 DEF DisplayRoots
      <3>2. QED
        BY <2>4, <3>1
    <2>6. CASE cs[j].parent # 0 /\ cs[j].parent \in all
      <3>1. PICK m \in 1 .. Len(cs) : cs[m].id = cs[j].parent
        BY <2>6
      <3>2. cs[m].id < cs[j].id
        BY <2>4, <3>1 DEF Numbers
      <3>3. m < j
        <4>1. ~(j < m) /\ m # j
          BY <1>2, <2>4, <3>1, <3>2 DEF Numbers
        <4>2. QED
          BY <2>4, <4>1
      <3>4. m \notin Bad
        <4>1. ~(j <= m)
          BY <2>4, <3>3
        <4> HIDE DEF Bad
        <4>2. QED
          BY <2>3, <4>1
      <3>5. PICK c \in DisplayRoots(cs) : cs[m].id = c.id \/ cs[m].id \in In(cs, c.id, m)
        BY <3>4
      <3>6. j - 1 \in 0 .. Len(cs) /\ m \in 1 .. (j - 1)
        BY <1>1, <2>4, <3>3
      <3>7. cs[m].id \in In(cs, c.id, m) => cs[m].id \in In(cs, c.id, j - 1)
        BY <3>6, JoinsInTurn
      <3>8. cs[j].id \in Grown(In(cs, c.id, j - 1), cs[j], c.id)
        BY <2>6, <3>1, <3>5, <3>7 DEF Grown
      <3>9. cs[j].id \in In(cs, c.id, j)
        BY <2>4, <3>8, InIs
      <3>10. QED
        BY <2>4, <3>9
    <2>7. QED
      BY <2>5, <2>6
  <1>4. Len(cs) \in 0 .. Len(cs)
    BY <1>1
  <1>5. ASSUME NEW j \in 1 .. Len(cs)
        PROVE  cs[j].id \in Drawn(cs)
    <2>1. PICK c \in DisplayRoots(cs) : cs[j].id = c.id \/ cs[j].id \in In(cs, c.id, j)
      BY <1>3
    <2>2. cs[j].id = c.id \/ cs[j].id \in Below(cs, c.id)
      BY <1>4, <2>1, JoinsInTurn, InIs
    <2>3. QED
      BY <2>1, <2>2 DEF Drawn
  <1>6. ASSUME NEW x \in Drawn(cs)
        PROVE  x \in all
    <2>1. PICK c \in DisplayRoots(cs) : x = c.id \/ x \in Below(cs, c.id)
      BY DEF Drawn
    <2>2. \E n \in 1 .. Len(cs) : c = cs[n]
      BY <1>1, <2>1 DEF DisplayRoots
    <2>3. x \in Below(cs, c.id) => \E n \in 1 .. Len(cs) : cs[n].id = x
      BY <1>4, JoinsInTurn, InIs
    <2>4. QED
      BY <2>1, <2>2, <2>3
  <1>7. QED
    BY <1>5, <1>6
----------------------------------------------------------------------------
(* The pages in order, newest first and nothing twice, down to the cursor; *)
(* parents are older than their replies.                                   *)
Sorted(ps) ==
    /\ \A k \in 1 .. Len(ps) : Falls(ps[k].items)
    /\ \A k, l \in 1 .. Len(ps) : k < l =>
          \A m \in 1 .. Len(ps[k].items) : \A n \in 1 .. Len(ps[l].items) :
              ps[l].items[n].id < ps[k].items[m].id
    /\ ps # <<>> =>
          /\ \A i \in Ids : Holds(ps, i) => i >= ps[Len(ps)].cursor
          /\ ps[Len(ps)].cursor # 0 => Holds(ps, ps[Len(ps)].cursor)
Rooted(ps) ==
    \A k \in 1 .. Len(ps) : \A n \in 1 .. Len(ps[k].items) :
        ps[k].items[n].parent < ps[k].items[n].id
RowsRooted == \A i \in DOMAIN rows : rows[i].parent < i

Arranged ==
    /\ RowsRooted /\ Rooted(pages) /\ Rooted(HasGot)
    /\ ~jumbled => Sorted(pages)
    /\ HasRead /\ (fetch.kind = "more" => ~jumbled) => Sorted(HasGot)

(* A page read at the cursor goes below all that is already there.         *)
LEMMA NextSorted ==
    ASSUME ServerTypes, NEW ps \in Seq(Page), Sorted(ps), NEW before \in 0 .. MaxId,
           before = IF ps = <<>> THEN 0 ELSE ps[Len(ps)].cursor,
           ps # <<>> => before # 0,
           NEW p \in Page, p = ServedPage(before)
    PROVE  Sorted(Append(ps, p))
  <1>1. DOMAIN rows \subseteq Ids /\ MaxId \in Nat /\ \A i \in Ids : i \in 1 .. MaxId
    BY ClientAssumption DEF ServerTypes, Ids
  <1>2. /\ \A n \in 1 .. Len(p.items) : p.items[n].id \in Under(before)
        /\ \A i \in Under(before) :
               i >= p.cursor <=> \E n \in 1 .. Len(p.items) : p.items[n].id = i
        /\ p.cursor # 0 => p.cursor \in Under(before)
        /\ Falls(p.items)
    BY ServedIs
  <1>3. \A i \in Under(before) : i \in Ids /\ i \in 1 .. MaxId /\ (ps # <<>> => i < before)
    BY <1>1 DEF Under
  <1>4. PICK qs \in Seq(Page) : qs = Append(ps, p)
    BY AppendTyped
  <1>5. /\ qs # <<>> /\ Len(qs) = Len(ps) + 1 /\ Len(qs) \in 1 .. Len(qs) /\ qs[Len(qs)] = p
        /\ Len(ps) \in Nat /\ \A k \in 1 .. Len(ps) : k \in 1 .. Len(qs) /\ qs[k] = ps[k]
        /\ \A k \in 1 .. Len(qs) : k \in 1 .. Len(ps) \/ k = Len(qs)
    BY <1>4
  <1>6. ASSUME NEW k \in 1 .. Len(ps), NEW m \in 1 .. Len(ps[k].items)
        PROVE  /\ ps[k].items[m].id \in 1 .. MaxId /\ Holds(ps, ps[k].items[m].id)
               /\ ps # <<>> /\ ps[k].items[m].id >= before
    <2>1. ps[k] \in Page /\ ps # <<>>
      OBVIOUS
    <2>2. ps[k].items \in Seq(Held)
      BY <2>1 DEF Page
    <2>3. ps[k].items[m] \in Held
      BY <2>2
    <2>4. ps[k].items[m].id \in Ids
      BY <2>3 DEF Held
    <2>5. Holds(ps, ps[k].items[m].id)
      BY DEF Holds
    <2>6. QED
      BY <1>1, <2>1, <2>4, <2>5 DEF Sorted
  <1>7. \A k \in 1 .. Len(qs) : Falls(qs[k].items)
    BY <1>2, <1>5 DEF Sorted
  <1>8. ASSUME NEW k \in 1 .. Len(qs), NEW l \in 1 .. Len(qs), k < l,
               NEW m \in 1 .. Len(qs[k].items), NEW n \in 1 .. Len(qs[l].items)
        PROVE  qs[l].items[n].id < qs[k].items[m].id
    <2>1. k \in 1 .. Len(ps) /\ qs[k] = ps[k]
      BY <1>5, <1>8
    <2>2. CASE l \in 1 .. Len(ps)
      BY <1>5, <1>8, <2>1, <2>2 DEF Sorted
    <2>3. CASE l = Len(qs)
      <3>1. qs[l].items[n].id \in Under(before)
        BY <1>2, <1>5, <2>3
      <3>2. qs[l].items[n].id < before /\ qs[l].items[n].id \in 1 .. MaxId
        BY <1>3, <1>6, <2>1, <3>1
      <3>3. qs[k].items[m].id >= before /\ qs[k].items[m].id \in 1 .. MaxId
        BY <1>6, <2>1
      <3>4. \A x, y \in 1 .. MaxId : x < before /\ y >= before => x < y
        BY <1>1
      <3>5. QED
        BY <3>2, <3>3, <3>4
    <2>4. QED
      BY <1>5, <2>2, <2>3
  <1>9. \A i : Holds(qs, i) <=> Holds(ps, i) \/ \E n \in 1 .. Len(p.items) : p.items[n].id = i
    BY <1>4, AppendHolds
  <1>10. p.cursor \in 0 .. MaxId
    BY DEF Page
  <1>11. ASSUME NEW i \in Ids, Holds(qs, i)
         PROVE  i >= p.cursor
    <2>1. CASE \E n \in 1 .. Len(p.items) : p.items[n].id = i
      BY <1>2, <2>1
    <2>2. CASE Holds(ps, i)
      <3>1. ps # <<>> /\ i >= before
        BY <1>6, <2>2 DEF Holds
      <3>2. p.cursor # 0 => p.cursor < before
        BY <1>2, <1>3, <3>1
      <3>3. QED
        BY <1>1, <1>10, <3>1, <3>2
    <2>3. QED
      BY <1>9, <1>11, <2>1, <2>2
  <1>12. p.cursor # 0 => Holds(qs, p.cursor)
    <2>1. p.cursor >= p.cursor
      BY <1>1, <1>10
    <2>2. QED
      BY <1>2, <1>9, <2>1
  <1>13. Sorted(qs)
    <2>1. \A k, l \in 1 .. Len(qs) : k < l =>
             \A m \in 1 .. Len(qs[k].items) : \A n \in 1 .. Len(qs[l].items) :
                 qs[l].items[n].id < qs[k].items[m].id
      BY <1>8
    <2>2. qs[Len(qs)].cursor = p.cursor
      BY <1>5
    <2>3. /\ \A i \in Ids : Holds(qs, i) => i >= qs[Len(qs)].cursor
          /\ qs[Len(qs)].cursor # 0 => Holds(qs, qs[Len(qs)].cursor)
      BY <1>11, <1>12, <2>2
    <2>4. QED
      BY <1>7, <2>1, <2>3 DEF Sorted
  <1>14. QED
    BY <1>4, <1>13

LEMMA NextRooted ==
    ASSUME ServerTypes, RowsRooted, NEW ps \in Seq(Page), Rooted(ps),
           NEW before \in 0 .. MaxId, NEW p \in Page, p = ServedPage(before)
    PROVE  Rooted(Append(ps, p))
  <1>1. ASSUME NEW n \in 1 .. Len(p.items)
        PROVE  p.items[n].parent < p.items[n].id
    <2>1. PICK i : i = p.items[n].id
      OBVIOUS
    <2>2. i \in Under(before) /\ p.items[n] = Copy(i)
      BY <2>1, ServedIs
    <2>3. i \in DOMAIN rows /\ Copy(i).parent = rows[i].parent
      BY <2>2 DEF Under, Copy
    <2>4. QED
      BY <2>1, <2>2, <2>3 DEF RowsRooted
  <1>2. PICK qs \in Seq(Page) : qs = Append(ps, p)
    BY AppendTyped
  <1>3. /\ qs[Len(qs)] = p /\ \A k \in 1 .. Len(ps) : qs[k] = ps[k]
        /\ \A k \in 1 .. Len(qs) : k \in 1 .. Len(ps) \/ k = Len(qs)
    BY <1>2
  <1>4. QED
    BY <1>1, <1>2, <1>3 DEF Rooted

(* An event changes no parent, and puts at the top only what is newer      *)
(* than everything loaded, unless it came out of order.                    *)
LEMMA MergeRooted ==
    ASSUME ServerTypes, RowsRooted, NEW ps \in Seq(Page), Rooted(ps),
           NEW e \in Event, e.id \in DOMAIN rows
    PROVE  Rooted(Merge(ps, e))
  <1>1. PICK qs \in Seq(Page) : qs = Merge(ps, e)
    BY MergeIs
  <1>2. Fresh(e).id = e.id /\ Fresh(e).parent < e.id
    BY DEF Fresh, RowsRooted
  <1>3. \A k \in 1 .. Len(ps) : ps[k] \in Page
    OBVIOUS
  <1>4. \A k \in 1 .. Len(ps) : \A n \in 1 .. Len(ps[k].items) : ps[k].items[n] \in Held
    <2>1. \A k \in 1 .. Len(ps) : ps[k].items \in Seq(Held)
      BY <1>3 DEF Page
    <2>2. QED
      BY <2>1
  <1>5. CASE ps # <<>> /\ qs = [ps EXCEPT ![1] = Put(ps[1], Fresh(e))]
    <2>1. 1 \in 1 .. Len(ps) /\ ps[1] \in Page
      BY <1>5
    <2>2. Fresh(e) \in Held
      BY FreshHeld
    <2>3. PICK q \in Page : q = Put(ps[1], Fresh(e))
      BY <2>1, <2>2, PutIs
    <2>4. Len(q.items) = Len(ps[1].items) + 1 /\ q.items[1] = Fresh(e)
      BY <2>1, <2>2, <2>3, PutIs
    <2>5. \A n \in 1 .. Len(ps[1].items) + 1 :
             n = 1 \/ (n - 1 \in 1 .. Len(ps[1].items) /\ q.items[n] = ps[1].items[n - 1])
      BY <2>1, <2>2, <2>3, PutIs
    <2>6. Len(qs) = Len(ps) /\ qs[1] = q /\ \A k \in 1 .. Len(ps) : k # 1 => qs[k] = ps[k]
      BY <1>5, <2>1, <2>3
    <2>7. \A n \in 1 .. Len(q.items) : q.items[n].parent < q.items[n].id
      BY <1>2, <2>1, <2>4, <2>5 DEF Rooted
    <2>8. Rooted(qs)
      BY <2>6, <2>7 DEF Rooted
    <2>9. QED
      BY <1>1, <2>8
  <1>6. CASE /\ Len(qs) = Len(ps)
             /\ \A k \in 1 .. Len(ps) :
                   /\ Len(qs[k].items) = Len(ps[k].items)
                   /\ \A n \in 1 .. Len(ps[k].items) : qs[k].items[n] = After(ps[k].items[n], e)
    <2>1. \A c \in Held : c.parent < c.id => After(c, e).parent < After(c, e).id
      <3>1. ASSUME NEW c \in Held, c.parent < c.id, c.id = e.id, e.kind = "created"
            PROVE  After(c, e).parent < After(c, e).id
        BY <1>2, <3>1 DEF After
      <3>2. ASSUME NEW c \in Held, c.parent < c.id, c.id # e.id \/ e.kind # "created"
            PROVE  After(c, e).parent < After(c, e).id
        BY <3>2, AfterKeeps
      <3>3. QED
        BY <3>1, <3>2
    <2>2. Rooted(qs)
      BY <1>4, <1>6, <2>1 DEF Rooted
    <2>3. QED
      BY <1>1, <2>2
  <1>7. QED
    BY <1>1, <1>5, <1>6, MergeIs

LEMMA MergeSorted ==
    ASSUME ServerTypes, NEW ps \in Seq(Page), Sorted(ps),
           NEW e \in Event, e.id \in DOMAIN rows,
           e.kind = "created" /\ e.id \notin Loaded(ps) => \A i \in Loaded(ps) : ~(i > e.id)
    PROVE  Sorted(Merge(ps, e))
  <1>1. PICK qs \in Seq(Page) : qs = Merge(ps, e)
    BY MergeIs
  <1>2. e.id \in Ids /\ MaxId \in Nat /\ \A i \in Ids : i \in 1 .. MaxId
    BY ClientAssumption DEF ServerTypes, Ids
  <1>3. \A k \in 1 .. Len(ps) : ps[k] \in Page
    OBVIOUS
  <1>4. \A k \in 1 .. Len(ps) : Len(ps[k].items) \in Nat
        /\ \A n \in 1 .. Len(ps[k].items) : ps[k].items[n] \in Held
    <2>1. \A k \in 1 .. Len(ps) : ps[k].items \in Seq(Held)
      BY <1>3 DEF Page
    <2>2. QED
      BY <2>1
  <1>5. \A i : i \in Loaded(ps) <=> Holds(ps, i)
    BY LoadedIs
  <1>6. CASE /\ e.kind = "created" /\ ps # <<>> /\ e.id \notin Loaded(ps)
             /\ qs = [ps EXCEPT ![1] = Put(ps[1], Fresh(e))]
    <2>1. 1 \in 1 .. Len(ps) /\ ps[1] \in Page /\ Len(ps) \in 1 .. Len(ps)
      BY <1>6
    <2>2. Fresh(e) \in Held /\ Fresh(e).id = e.id
      BY FreshHeld DEF Fresh
    <2>3. PICK q \in Page : q = Put(ps[1], Fresh(e))
      BY <2>1, <2>2, PutIs
    <2>4. Len(q.items) = Len(ps[1].items) + 1 /\ q.items[1] = Fresh(e) /\ q.cursor = ps[1].cursor
      BY <2>1, <2>2, <2>3, PutIs
    <2>5. \A n \in 1 .. Len(ps[1].items) + 1 :
             n = 1 \/ (n - 1 \in 1 .. Len(ps[1].items) /\ q.items[n] = ps[1].items[n - 1])
      BY <2>1, <2>2, <2>3, PutIs
    <2>6. qs # <<>> /\ Len(qs) = Len(ps) /\ qs[1] = q
          /\ \A k \in 1 .. Len(ps) : k # 1 => qs[k] = ps[k]
      BY <1>6, <2>1, <2>3
    <2>7. ASSUME NEW k \in 1 .. Len(ps), NEW n \in 1 .. Len(ps[k].items)
          PROVE  ps[k].items[n].id < e.id
      <3>1. Holds(ps, ps[k].items[n].id)
        BY DEF Holds
      <3>2. ~(ps[k].items[n].id > e.id) /\ ps[k].items[n].id # e.id
        BY <1>5, <1>6, <3>1
      <3>3. ps[k].items[n].id \in Ids
        BY <1>4 DEF Held
      <3>4. QED
        BY <1>2, <3>2, <3>3
    <2>8. \A i : Holds(qs, i) <=> Holds(ps, i) \/ i = e.id
      <3>1. \A i : Holds([ps EXCEPT ![1] = Put(ps[1], Fresh(e))], i) <=>
                       Holds(ps, i) \/ i = Fresh(e).id
        BY <1>6, <2>2, PutHolds
      <3>2. QED
        BY <1>6, <2>2, <3>1
    <2>9. ASSUME NEW m \in 1 .. Len(q.items), NEW n \in 1 .. Len(q.items), m < n
          PROVE  q.items[n].id < q.items[m].id
      <3>1. n # 1
        BY <2>9
      <3>2. n - 1 \in 1 .. Len(ps[1].items) /\ q.items[n] = ps[1].items[n - 1]
        BY <2>4, <2>5, <3>1
      <3>3. CASE m = 1
        BY <2>1, <2>2, <2>4, <2>7, <3>2, <3>3
      <3>4. CASE m # 1
        <4>1. m - 1 \in 1 .. Len(ps[1].items) /\ q.items[m] = ps[1].items[m - 1] /\ m - 1 < n - 1
          BY <2>4, <2>5, <2>9, <3>4
        <4>2. Falls(ps[1].items)
          BY <2>1 DEF Sorted
        <4>3. QED
          BY <3>2, <4>1, <4>2 DEF Falls
      <3>5. QED
        BY <3>3, <3>4
    <2>10. \A k \in 1 .. Len(qs) : Falls(qs[k].items)
      BY <2>6, <2>9 DEF Sorted, Falls
    <2>11. ASSUME NEW k \in 1 .. Len(qs), NEW l \in 1 .. Len(qs), k < l,
                  NEW m \in 1 .. Len(qs[k].items), NEW n \in 1 .. Len(qs[l].items)
           PROVE  qs[l].items[n].id < qs[k].items[m].id
      <3>1. l # 1 /\ qs[l] = ps[l]
        BY <2>6, <2>11
      <3>2. CASE k # 1
        BY <2>6, <2>11, <3>1, <3>2 DEF Sorted
      <3>3. CASE k = 1 /\ m = 1
        BY <2>2, <2>4, <2>6, <2>7, <3>1, <3>3
      <3>4. CASE k = 1 /\ m # 1
        <4>1. m - 1 \in 1 .. Len(ps[1].items) /\ qs[k].items[m] = ps[1].items[m - 1]
          BY <2>4, <2>5, <2>6, <3>4
        <4>2. \A a \in 1 .. Len(ps[1].items) : \A b \in 1 .. Len(ps[l].items) :
                 ps[l].items[b].id < ps[1].items[a].id
          BY <2>1, <2>6, <2>11, <3>4 DEF Sorted
        <4>3. QED
          BY <2>11, <3>1, <4>1, <4>2
      <3>5. QED
        BY <3>2, <3>3, <3>4
    <2>12. qs[Len(qs)].cursor = ps[Len(ps)].cursor
      BY <2>1, <2>4, <2>6
    <2>13. e.id >= ps[Len(ps)].cursor
      <3>1. ps[Len(ps)].cursor \in 0 .. MaxId
        BY <1>3, <2>1 DEF Page
      <3>2. ps[Len(ps)].cursor # 0 => ~(ps[Len(ps)].cursor > e.id)
        BY <1>5, <1>6 DEF Sorted
      <3>3. QED
        BY <1>2, <3>1, <3>2
    <2>14. Sorted(qs)
      BY <1>6, <2>6, <2>8, <2>10, <2>11, <2>12, <2>13 DEF Sorted
    <2>15. QED
      BY <1>1, <2>14
  <1>7. CASE /\ Len(qs) = Len(ps)
             /\ \A k \in 1 .. Len(ps) :
                   /\ qs[k].cursor = ps[k].cursor
                   /\ Len(qs[k].items) = Len(ps[k].items)
                   /\ \A n \in 1 .. Len(ps[k].items) : qs[k].items[n] = After(ps[k].items[n], e)
    <2>1. \A k \in 1 .. Len(ps) : \A n \in 1 .. Len(ps[k].items) :
             qs[k].items[n].id = ps[k].items[n].id
      BY <1>4, <1>7, AfterKeeps
    <2>2. \A i : Holds(qs, i) <=> Holds(ps, i)
      BY <1>7, <2>1, SameHolds
    <2>3. \A k \in 1 .. Len(qs) : Falls(qs[k].items)
      BY <1>7, <2>1 DEF Sorted, Falls
    <2>4. ASSUME NEW k \in 1 .. Len(qs), NEW l \in 1 .. Len(qs), k < l,
                 NEW m \in 1 .. Len(qs[k].items), NEW n \in 1 .. Len(qs[l].items)
          PROVE  qs[l].items[n].id < qs[k].items[m].id
      <3>1. /\ k \in 1 .. Len(ps) /\ l \in 1 .. Len(ps)
            /\ m \in 1 .. Len(ps[k].items) /\ n \in 1 .. Len(ps[l].items)
        BY <1>7
      <3>2. qs[k].items[m].id = ps[k].items[m].id /\ qs[l].items[n].id = ps[l].items[n].id
        BY <2>1, <3>1
      <3>3. ps[l].items[n].id < ps[k].items[m].id
        BY <2>4, <3>1 DEF Sorted
      <3>4. QED
        BY <3>2, <3>3
    <2>5. ps # <<>> <=> qs # <<>>
      BY <1>7
    <2>6. ps # <<>> => qs[Len(qs)].cursor = ps[Len(ps)].cursor
      <3>1. ps # <<>> => Len(ps) \in 1 .. Len(ps)
        OBVIOUS
      <3>2. QED
        BY <1>7, <3>1
    <2>7. Sorted(qs)
      BY <2>2, <2>3, <2>4, <2>5, <2>6 DEF Sorted
    <2>8. QED
      BY <1>1, <2>7
  <1>8. QED
    BY <1>1, <1>6, <1>7, MergeIs

LEMMA RowsRootedStep ==
    ASSUME Types, NewsTrue, RowsRooted, Next
    PROVE  RowsRooted'
  <1>1. CASE UNCHANGED rows
    BY <1>1 DEF RowsRooted
  <1>2. ASSUME NEW mine \in BOOLEAN, Post(mine) \/ RemoveComment(mine) \/ React(mine)
        PROVE  RowsRooted'
    <2>1. \A i \in DOMAIN rows : rows'[i].parent = rows[i].parent
      BY <1>2, CommitAges DEF Aged
    <2>2. CASE DOMAIN rows' = DOMAIN rows
      BY <2>1, <2>2 DEF RowsRooted
    <2>3. CASE Post(mine)
      <3>1. PICK i \in Ids \ DOMAIN rows, p \in {0} \cup DOMAIN rows :
               /\ p < i
               /\ rows' = [j \in DOMAIN rows \cup {i} |-> IF j = i THEN Comment(p) ELSE rows[j]]
        BY <2>3 DEF Post
      <3>2. DOMAIN rows' = DOMAIN rows \cup {i} /\ rows'[i].parent = p
        BY <3>1 DEF Comment
      <3>3. QED
        BY <2>1, <3>1, <3>2 DEF RowsRooted
    <2>4. CASE RemoveComment(mine) \/ React(mine)
      <3>1. DOMAIN rows' = DOMAIN rows
        BY <2>4 DEF RemoveComment, React
      <3>2. QED
        BY <2>2, <3>1
    <2>5. QED
      BY <1>2, <2>3, <2>4
  <1>3. CASE Serve \/ Receive \/ FetchFails \/ LoadOlder \/ Poll \/ OwnAnswered
    BY <1>1, <1>3 DEF Serve, Receive, FetchFails, LoadOlder, Poll, OwnAnswered, server
  <1>4. CASE Publish \/ Deliver \/ StreamError \/ StreamOpen
    BY <1>1, <1>4 DEF Publish, Deliver, StreamError, StreamOpen, server
  <1>5. QED
    BY <1>2, <1>3, <1>4 DEF Next

LEMMA JumbledIs ==
    ASSUME Types, Next
    PROVE  Receive \/ Deliver \/ UNCHANGED jumbled
  <1>1. ASSUME NEW mine \in BOOLEAN, Post(mine) \/ RemoveComment(mine) \/ React(mine)
        PROVE  UNCHANGED jumbled
    <2>1. PICK e : Commit(e, mine)
      BY <1>1, CommitIs DEF Types
    <2>2. QED
      BY <2>1 DEF Commit
  <1>2. CASE Serve \/ FetchFails \/ LoadOlder \/ Poll \/ OwnAnswered
    BY <1>2 DEF Serve, FetchFails, LoadOlder, Poll, OwnAnswered
  <1>3. CASE Publish \/ StreamError \/ StreamOpen
    BY <1>3 DEF Publish, StreamError, StreamOpen
  <1>4. QED
    BY <1>1, <1>2, <1>3 DEF Next

LEMMA FetchKept ==
    ASSUME Types, Loses \/ fetch' = fetch
    PROVE  HasGot' = HasGot /\ (HasRead' <=> HasRead) /\ fetch'.kind = fetch.kind
  <1>1. CASE Loses
    <2>1. /\ fetch'.got = fetch.got /\ fetch'.answer = fetch.answer /\ fetch'.kind = fetch.kind
          /\ HasRead' <=> HasRead
      BY <1>1, LosesFetches
    <2>2. QED
      BY <2>1 DEF HasGot
  <1>2. CASE fetch' = fetch
    BY <1>2 DEF HasGot, HasRead, InFlight
  <1>3. QED
    BY <1>1, <1>2

LEMMA FetchGone ==
    ASSUME fetch' = NoFetch \/ fetch' = Refetch(pages)
    PROVE  HasGot' = <<>> /\ ~HasRead'
  BY DEF HasGot, HasRead, InFlight, NoFetch, Refetch

LEMMA Nothing == Sorted(<<>>) /\ Rooted(<<>>) /\ \A i : ~Holds(<<>>, i)
  <1>1. Sorted(<<>>) /\ Rooted(<<>>)
    BY DEF Sorted, Rooted
  <1>2. \A i : ~Holds(<<>>, i)
    BY DEF Holds
  <1>3. QED
    BY <1>1, <1>2

LEMMA ArrangedStep ==
    ASSUME Types, NewsTrue, Asking, Arranged, Next
    PROVE  Arranged'
  <1>1. RowsRooted'
    BY RowsRootedStep DEF Arranged
  <1>2. ServerTypes /\ CacheTypes /\ fetch \in Fetches /\ pages \in Seq(Page)
    BY DEF Types, CacheTypes
  <1>3. fetch.got \in Seq(Page)
    BY <1>2 DEF Fetches
  <1>4. CASE Serve
    <2>1. PICK p \in Page, before \in 0 .. MaxId :
              /\ p = ServedPage(before) /\ p # NoPage
              /\ before = IF fetch.got = <<>> THEN 0 ELSE fetch.got[Len(fetch.got)].cursor
              /\ InFlight /\ fetch.answer = NoPage
              /\ fetch'.got = fetch.got /\ fetch'.answer = p /\ fetch'.kind = fetch.kind
              /\ UNCHANGED pages
      BY <1>4, ServeFetches
    <2>2. HasGot = fetch.got /\ HasGot' = Append(fetch.got, p) /\ UNCHANGED jumbled
      BY <1>4, <2>1 DEF HasGot, Serve
    <2>3. PICK ps \in Seq(Page) : ps = fetch.got
      BY <1>3
    <2>4. Rooted(Append(ps, p))
      BY <1>2, <2>1, <2>2, <2>3, NextRooted DEF Arranged
    <2>5. ASSUME fetch.kind = "more" => ~jumbled
          PROVE  Sorted(Append(ps, p))
      <3>1. Sorted(ps)
        <4>1. CASE ps = <<>>
          BY <4>1, Nothing
        <4>2. CASE ps # <<>>
          <5>1. HasRead
            BY <2>1, <2>3, <4>2 DEF HasRead
          <5>2. QED
            BY <2>2, <2>3, <2>5, <5>1 DEF Arranged
        <4>3. QED
          BY <4>1, <4>2
      <3>2. ps # <<>> => before # 0
        BY <2>1, <2>3 DEF Asking
      <3>3. before = IF ps = <<>> THEN 0 ELSE ps[Len(ps)].cursor
        BY <2>1, <2>3
      <3>4. QED
        BY <1>2, <2>1, <3>1, <3>2, <3>3, NextSorted
    <2>6. HasGot' = Append(ps, p)
      BY <2>2, <2>3
    <2>7. QED
      BY <1>1, <2>1, <2>2, <2>4, <2>5, <2>6 DEF Arranged
  <1>5. CASE Receive
    <2>1. PICK got \in Seq(Page) :
              /\ got = Append(fetch.got, fetch.answer)
              /\ \/ /\ pages' = got /\ fetch' = NoFetch
                    /\ jumbled' = (fetch.kind = "more" /\ jumbled)
                 \/ /\ fetch' = [fetch EXCEPT !.got = got, !.answer = NoPage]
                    /\ UNCHANGED <<pages, jumbled>>
      BY <1>5, ReceiveIs
    <2>2. HasGot = got /\ HasRead
      BY <1>5, <2>1 DEF HasGot, HasRead, Receive
    <2>3. Rooted(got) /\ ((fetch.kind = "more" => ~jumbled) => Sorted(got))
      BY <2>2 DEF Arranged
    <2>4. CASE pages' = got /\ fetch' = NoFetch /\ jumbled' = (fetch.kind = "more" /\ jumbled)
      <3>1. HasGot' = <<>> /\ ~HasRead'
        BY <2>4, FetchGone
      <3>2. QED
        BY <1>1, <2>3, <2>4, <3>1, Nothing DEF Arranged
    <2>5. CASE fetch' = [fetch EXCEPT !.got = got, !.answer = NoPage] /\ UNCHANGED <<pages, jumbled>>
      <3>1. fetch'.got = got /\ fetch'.answer = NoPage /\ fetch'.kind = fetch.kind
        BY <1>2, <2>5 DEF Fetches
      <3>2. HasGot' = got
        BY <3>1 DEF HasGot
      <3>3. QED
        BY <1>1, <2>3, <2>5, <3>1, <3>2 DEF Arranged
    <2>6. QED
      BY <2>1, <2>4, <2>5
  <1>6. CASE LoadOlder
    <2>1. fetch' = FetchMore(pages) /\ UNCHANGED <<pages, jumbled>>
      BY <1>6 DEF LoadOlder
    <2>2. fetch'.kind = "more" /\ HasGot' = pages
      BY <2>1 DEF FetchMore, HasGot
    <2>3. QED
      BY <1>1, <2>1, <2>2 DEF Arranged
  <1>7. CASE Deliver
    <2>1. PICK e \in Event : e = Head(stream) /\ e.id \in DOMAIN rows
      BY <1>7, DeliverIs
    <2>2. /\ pages' = Merge(pages, e) /\ jumbled' = (jumbled \/ OutOfOrder(e))
          /\ Loses \/ fetch' = fetch
      BY <1>7, <2>1 DEF Deliver
    <2>3. HasGot' = HasGot /\ (HasRead' <=> HasRead) /\ fetch'.kind = fetch.kind
      BY <2>2, FetchKept
    <2>4. Rooted(Merge(pages, e))
      BY <1>2, <2>1, MergeRooted DEF Arranged
    <2>5. ASSUME ~jumbled, ~OutOfOrder(e)
          PROVE  Sorted(Merge(pages, e))
      <3>1. pages = <<>> => \A i : i \notin Loaded(pages)
        <4>1. \A i : i \in Loaded(pages) <=> Holds(pages, i)
          BY <1>2, LoadedIs
        <4>2. QED
          BY <4>1, Nothing
      <3>2. e.kind = "created" /\ e.id \notin Loaded(pages) => \A i \in Loaded(pages) : ~(i > e.id)
        BY <2>5, <3>1 DEF OutOfOrder
      <3>3. Sorted(pages)
        BY <2>5 DEF Arranged
      <3>4. QED
        BY <1>2, <2>1, <3>2, <3>3, MergeSorted
    <2>6. QED
      BY <1>1, <2>2, <2>3, <2>4, <2>5 DEF Arranged
  <1>8. CASE UNCHANGED <<pages, jumbled>> /\ (Loses \/ fetch' = fetch)
    <2>1. HasGot' = HasGot /\ (HasRead' <=> HasRead) /\ fetch'.kind = fetch.kind
      BY <1>8, FetchKept
    <2>2. QED
      BY <1>1, <1>8, <2>1 DEF Arranged
  <1>9. CASE UNCHANGED <<pages, jumbled>> /\ (fetch' = NoFetch \/ fetch' = Refetch(pages))
    <2>1. HasGot' = <<>> /\ ~HasRead'
      BY <1>9, FetchGone
    <2>2. QED
      BY <1>1, <1>9, <2>1, Nothing DEF Arranged
  <1>10. QED
    BY <1>4, <1>5, <1>6, <1>7, <1>8, <1>9, JumbledIs, StepIs

LEMMA ArrangedInit == Init => Arranged
  <1>1. SUFFICES ASSUME Init PROVE Arranged
    OBVIOUS
  <1>2. RowsRooted
    BY <1>1 DEF Init, RowsRooted
  <1>3. pages = <<>> /\ fetch.got = <<>> /\ fetch.answer = NoPage
    BY <1>1 DEF Init, Refetch
  <1>4. HasGot = <<>> /\ ~HasRead
    BY <1>3 DEF HasGot, HasRead
  <1>5. QED
    BY <1>2, <1>3, <1>4, Nothing DEF Arranged

LEMMA Arrangement == Spec => []Arranged
  <1>1. Arranged /\ Inv /\ [Next]_vars => Arranged'
    <2>1. SUFFICES ASSUME Arranged, Inv, [Next]_vars PROVE Arranged'
      OBVIOUS
    <2>2. CASE Next
      BY <2>1, <2>2, ArrangedStep DEF Inv
    <2>3. CASE UNCHANGED vars
      <3>1. UNCHANGED <<rows, pages, fetch, jumbled>>
        BY <2>3 DEF vars
      <3>2. HasGot' = HasGot /\ (HasRead' <=> HasRead)
        BY <3>1 DEF HasGot, HasRead, InFlight
      <3>3. QED
        BY <2>1, <3>1, <3>2 DEF Arranged, RowsRooted
    <2>4. QED
      BY <2>1, <2>2, <2>3
  <1>2. QED
    BY <1>1, ArrangedInit, Invariance, PTL DEF Spec

----------------------------------------------------------------------------
LEMMA ReverseIs ==
    ASSUME NEW F \in Seq(Held), Falls(F)
    PROVE  /\ Reverse(F) \in Seq(Held) /\ Len(Reverse(F)) = Len(F)
           /\ \A n \in 1 .. Len(F) : \E m \in 1 .. Len(F) : Reverse(F)[n] = F[m]
           /\ \A m \in 1 .. Len(F) : \E n \in 1 .. Len(F) : Reverse(F)[n] = F[m]
           /\ \A m, n \in 1 .. Len(F) : m < n => Reverse(F)[m].id < Reverse(F)[n].id
  <1> DEFINE G == [i \in 1 .. Len(F) |-> F[(Len(F) - i) + 1]]
  <1>1. Reverse(F) = G
    BY DEF Reverse
  <1>2. Len(F) \in Nat /\ \A n \in 1 .. Len(F) : F[n] \in Held
    OBVIOUS
  <1>3. \A n \in 1 .. Len(F) : (Len(F) - n) + 1 \in 1 .. Len(F)
    BY <1>2
  <1>4. G \in [1 .. Len(F) -> Held] /\ \A n \in 1 .. Len(F) : G[n] = F[(Len(F) - n) + 1]
    BY <1>2, <1>3
  <1> HIDE DEF G
  <1>5. G \in Seq(Held) /\ Len(G) = Len(F)
    BY <1>2, <1>4
  <1>6. \A n \in 1 .. Len(F) : \E m \in 1 .. Len(F) : G[n] = F[m]
    BY <1>3, <1>4
  <1>7. ASSUME NEW m \in 1 .. Len(F)
        PROVE  \E n \in 1 .. Len(F) : G[n] = F[m]
    <2>1. PICK n \in 1 .. Len(F) : n = (Len(F) - m) + 1
      BY <1>3
    <2>2. (Len(F) - n) + 1 = m
      BY <1>2, <2>1
    <2>3. QED
      BY <1>4, <2>2
  <1>8. ASSUME NEW m \in 1 .. Len(F), NEW n \in 1 .. Len(F), m < n
        PROVE  G[m].id < G[n].id
    <2>1. PICK a \in 1 .. Len(F) : a = (Len(F) - m) + 1
      BY <1>3
    <2>2. PICK b \in 1 .. Len(F) : b = (Len(F) - n) + 1
      BY <1>3
    <2>3. b < a
      BY <1>2, <1>8, <2>1, <2>2
    <2>4. QED
      BY <1>4, <2>1, <2>2, <2>3 DEF Falls
  <1>9. QED
    BY <1>1, <1>5, <1>6, <1>7, <1>8

(* Drawing loses nobody (comment-item.tsx, groupReplies): while no event   *)
(* came out of order, the list the pages flatten into is in the order the  *)
(* comments were written, for any number of pages, so that one pass over it *)
(* groups every reply: a comment is drawn for every comment loaded, replies *)
(* to what is on a page not yet loaded among the roots.                    *)
THEOREM ThreadEveryCommentDrawn == Spec => []EveryCommentDrawn
  <1>1. ASSUME Inv, Arranged PROVE EveryCommentDrawn
    <2>1. SUFFICES ASSUME ~jumbled
                   PROVE  Ascending(IdsOf(Comments)) /\ Drawn(Comments) = Loaded(pages)
      BY DEF EveryCommentDrawn
    <2>2. pages \in Seq(Page) /\ Sorted(pages) /\ Rooted(pages)
      BY <1>1, <2>1 DEF Inv, Types, CacheTypes, Arranged
    <2>3. DOMAIN pages = 1 .. Len(pages) /\ Len(pages) \in Nat
          /\ \A k \in 1 .. Len(pages) : pages[k] \in Page
      BY <2>2
    <2>4. \A k \in 1 .. Len(pages) : pages[k].items \in Seq(Held)
      BY <2>3 DEF Page
    <2> DEFINE ss == [k \in DOMAIN pages |-> pages[k].items]
    <2>5. ss \in [1 .. Len(pages) -> Seq(Held)] /\ \A k \in 1 .. Len(pages) : ss[k] = pages[k].items
      BY <2>3, <2>4
    <2>6. Comments = Reverse(FlattenSeq(ss))
      BY DEF Comments
    <2> HIDE DEF ss
    <2>7. ss \in Seq(Seq(Held)) /\ Len(ss) = Len(pages)
      BY <2>3, <2>5
    <2>8. AllFall(ss)
      <3>1. \A k \in 1 .. Len(ss) : Falls(ss[k])
        BY <2>2, <2>5, <2>7 DEF Sorted
      <3>2. ASSUME NEW k \in 1 .. Len(ss), NEW l \in 1 .. Len(ss), k < l,
                   NEW m \in 1 .. Len(ss[k]), NEW n \in 1 .. Len(ss[l])
            PROVE  ss[l][n].id < ss[k][m].id
        <4>1. ss[k] = pages[k].items /\ ss[l] = pages[l].items
          BY <2>5, <2>7
        <4>2. QED
          BY <2>2, <2>7, <3>2, <4>1 DEF Sorted
      <3>3. QED
        BY <3>1, <3>2 DEF AllFall
    <2>9. PICK F : F = FlattenSeq(ss)
      OBVIOUS
    <2>10. Flat(ss, Len(ss), F) /\ Falls(F)
      <3>1. CASE ss = <<>>
        <4>1. F = <<>>
          BY <2>9, <3>1 DEF FlattenSeq
        <4>2. QED
          BY <3>1, <4>1 DEF Flat, Falls
      <3>2. CASE ss # <<>>
        BY <2>7, <2>8, <2>9, <3>2, FlatIs
      <3>3. QED
        BY <3>1, <3>2
    <2>11. F \in Seq(Held)
      BY <2>10 DEF Flat
    <2>12. PICK cs \in Seq(Held) : cs = Reverse(F)
      BY <2>10, <2>11, ReverseIs
    <2>13. /\ Len(cs) = Len(F)
           /\ \A n \in 1 .. Len(F) : \E m \in 1 .. Len(F) : cs[n] = F[m]
           /\ \A m \in 1 .. Len(F) : \E n \in 1 .. Len(F) : cs[n] = F[m]
           /\ \A m, n \in 1 .. Len(F) : m < n => cs[m].id < cs[n].id
      BY <2>10, <2>11, <2>12, ReverseIs
    <2>14. ASSUME NEW n \in 1 .. Len(cs)
           PROVE  cs[n].parent < cs[n].id /\ Holds(pages, cs[n].id)
      <3>1. PICK m \in 1 .. Len(F) : cs[n] = F[m]
        BY <2>13
      <3>2. PICK k \in 1 .. Len(pages) : \E j \in 1 .. Len(ss[k]) : F[m] = ss[k][j]
        BY <2>7, <2>10 DEF Flat
      <3>3. PICK j \in 1 .. Len(pages[k].items) : cs[n] = pages[k].items[j]
        BY <2>5, <3>1, <3>2
      <3>4. QED
        BY <2>2, <3>3 DEF Rooted, Holds
    <2>15. ASSUME NEW i, Holds(pages, i)
           PROVE  \E n \in 1 .. Len(cs) : cs[n].id = i
      <3>1. PICK k \in 1 .. Len(pages) : \E j \in 1 .. Len(pages[k].items) : pages[k].items[j].id = i
        BY <2>15 DEF Holds
      <3>2. PICK j \in 1 .. Len(ss[k]) : ss[k][j].id = i
        BY <2>5, <3>1
      <3>3. PICK m \in 1 .. Len(F) : F[m] = ss[k][j]
        BY <2>7, <2>10 DEF Flat
      <3>4. PICK n \in 1 .. Len(F) : cs[n] = F[m]
        BY <2>13
      <3>5. cs[n].id = i /\ n \in 1 .. Len(cs)
        BY <2>13, <3>2, <3>3, <3>4
      <3>6. QED
        BY <3>5
    <2>16. Numbers(cs)
      BY <2>13, <2>14 DEF Numbers
    <2>17. Drawn(cs) = Loaded(pages)
      <3>1. Drawn(cs) = {cs[n].id : n \in 1 .. Len(cs)}
        BY <2>16, DrawnIs
      <3>2. \A i : i \in Loaded(pages) <=> Holds(pages, i)
        BY <2>2, LoadedIs
      <3>3. QED
        BY <2>14, <2>15, <3>1, <3>2
    <2>18. Ascending(IdsOf(cs))
      <3>1. DOMAIN cs = 1 .. Len(cs)
        OBVIOUS
      <3>2. QED
        BY <2>13, <3>1 DEF Ascending, IdsOf
    <2>19. QED
      BY <2>6, <2>9, <2>12, <2>17, <2>18
  <1>2. QED
    BY <1>1, Invariance, Arrangement, PTL
=============================================================================
