--------------------------- MODULE ListPageProofs ---------------------------
(***************************************************************************)
(* Proofs about the pages the viewer's list is kept and filled with, for   *)
(* any values of their constants: the tracker, the favourite's heart, the  *)
(* import's flow and its preview, the first picks. Each has an invariant   *)
(* in its own module, shown here to hold at first, to be kept by every     *)
(* step and to imply what the page promises. A page's variables are slots  *)
(* of WebPages, so each part says which slot is which.                     *)
(***************************************************************************)
EXTENDS WebPages, FiniteSetTheorems, FunctionTheorems, TLAPS

(* Any set of numbers from 1 up to n is finite, with at most n members.    *)
LEMMA UpTo ==
    ASSUME NEW n \in Nat, NEW set, set \subseteq 1 .. n
    PROVE  IsFiniteSet(set) /\ Cardinality(set) \in 0 .. n
  <1>1. IsFiniteSet(1 .. n) /\ Cardinality(1 .. n) = n
    BY FS_Interval
  <1>2. IsFiniteSet(set) /\ Cardinality(set) <= n
    BY <1>1, FS_Subset
  <1>3. QED
    BY <1>2, FS_CardinalityType

-----------------------------------------------------------------------------
(* The list tracker (s1 row, s2 query, s3 muts, s4 view, s5 form, s6       *)
(* causes, s7 visits, s8 made, s9 failed).                                 *)

(* The bounds are numbers.                                                 *)
LEMMA TrackerBounds == Total \in Nat \ {0} /\ MaxMade \in Nat /\ MaxVisits \in Nat /\ MaxFails \in Nat
  BY PagesAssumption DEF T!TrackerAssumption

(* The row an upsert leaves is a row, and its progress is no less than was *)
(* asked for.                                                              *)
LEMMA TrackerResolves ==
    ASSUME NEW body \in T!Entries
    PROVE  T!Resolved(body) \in T!Entries /\ T!Resolved(body).progress >= body.progress
  <1>1. PICK s \in T!Statuses, p \in 0 .. Total : body = T!Entry(s, p)
    BY DEF T!Entries, T!Entry
  <1>2. body.status = s /\ body.progress = p
    BY <1>1 DEF T!Entry
  <1>3. T!Min({p, Total}) = p
    BY TrackerBounds DEF T!Min
  <1>4. PICK st \in T!Statuses :
          T!Resolved(body) = T!Entry(st, IF st = "completed" THEN Total ELSE p)
    BY <1>2, <1>3 DEF T!Resolved, T!Statuses
  <1>5. QED
    BY <1>2, <1>4, TrackerBounds DEF T!Entries, T!Entry

(* A query after any change of its fields is a query.                      *)
LEMMA TrackerQueries ==
    ASSUME NEW q \in T!AnyQuery, NEW v \in T!Entries, NEW b \in BOOLEAN
    PROVE  /\ T!Asked(q) \in T!AnyQuery /\ T!Asked(q).has = q.has /\ T!Asked(q).data = q.data
           /\ T!Asked(q).stale = q.stale /\ T!Asked(q).answer = q.answer
           /\ T!Asked(q).fetch = "served" => q.fetch = "served"
           /\ T!Idle(q) \in T!AnyQuery /\ T!Idle(q).has = q.has /\ T!Idle(q).data = q.data
           /\ T!Idle(q).stale = q.stale /\ T!Idle(q).fetch = "none"
           /\ T!Written(q, v) \in T!AnyQuery /\ T!Written(q, v).has /\ T!Written(q, v).data = v
           /\ T!Written(q, v).fetch = q.fetch /\ T!Written(q, v).answer = q.answer
           /\ T!Invalidated(q, b) \in T!AnyQuery /\ T!Invalidated(q, b).has = q.has
           /\ T!Invalidated(q, b).data = q.data /\ T!Invalidated(q, b).stale
           /\ T!Invalidated(q, b).fetch = IF b THEN "asked" ELSE q.fetch
           /\ ~b => T!Invalidated(q, b).answer = q.answer
  <1>0. T!NotListed \in T!Entries
    BY TrackerBounds DEF T!NotListed, T!Entry, T!Entries, T!Statuses
  <1>1. /\ T!Asked(q) \in T!AnyQuery /\ T!Asked(q).has = q.has /\ T!Asked(q).data = q.data
        /\ T!Asked(q).stale = q.stale /\ T!Asked(q).answer = q.answer
        /\ T!Asked(q).fetch = IF q.fetch = "none" THEN "asked" ELSE q.fetch
    BY DEF T!AnyQuery, T!Asked
  <1>2. /\ T!Idle(q) \in T!AnyQuery /\ T!Idle(q).has = q.has /\ T!Idle(q).data = q.data
        /\ T!Idle(q).stale = q.stale /\ T!Idle(q).fetch = "none"
    BY <1>0 DEF T!AnyQuery, T!Idle
  <1>3. /\ T!Written(q, v) \in T!AnyQuery /\ T!Written(q, v).has /\ T!Written(q, v).data = v
        /\ T!Written(q, v).fetch = q.fetch /\ T!Written(q, v).answer = q.answer
    BY DEF T!AnyQuery, T!Written
  <1>4. /\ T!Asked(T!Idle(q)) \in T!AnyQuery /\ T!Asked(T!Idle(q)).has = q.has
        /\ T!Asked(T!Idle(q)).data = q.data /\ T!Asked(T!Idle(q)).fetch = "asked"
    <2>1. PICK i \in T!AnyQuery : i = T!Idle(q) /\ i.has = q.has /\ i.data = q.data /\ i.fetch = "none"
      BY <1>2
    <2>2. /\ T!Asked(i) \in T!AnyQuery /\ T!Asked(i).has = q.has
          /\ T!Asked(i).data = q.data /\ T!Asked(i).fetch = "asked"
      BY <2>1 DEF T!AnyQuery, T!Asked
    <2>3. QED
      BY <2>1, <2>2
  <1>5. /\ T!Invalidated(q, b) \in T!AnyQuery /\ T!Invalidated(q, b).has = q.has
        /\ T!Invalidated(q, b).data = q.data /\ T!Invalidated(q, b).stale
        /\ T!Invalidated(q, b).fetch = IF b THEN "asked" ELSE q.fetch
        /\ ~b => T!Invalidated(q, b).answer = q.answer
    <2>1. CASE b
      <3>1. PICK i \in T!AnyQuery : i = T!Asked(T!Idle(q)) /\ i.has = q.has /\ i.data = q.data
                                    /\ i.fetch = "asked"
        BY <1>4
      <3>2. T!Invalidated(q, b) = [i EXCEPT !.stale = TRUE]
        BY <2>1, <3>1 DEF T!Invalidated
      <3>3. QED
        BY <2>1, <3>1, <3>2 DEF T!AnyQuery
    <2>2. CASE ~b
      BY <2>2 DEF T!AnyQuery, T!Invalidated
    <2>3. QED
      BY <2>1, <2>2
  <1>6. QED
    BY <1>1, <1>2, <1>3, <1>5

(* A query written to has what was written, and goes on as it was.         *)
LEMMA TrackerWritten ==
    ASSUME NEW q \in T!AnyQuery, NEW v \in T!Entries
    PROVE  /\ T!Written(q, v) \in T!AnyQuery /\ T!Written(q, v).has
           /\ T!Written(q, v).data = v /\ T!Written(q, v).fetch = q.fetch
  BY DEF T!Written, T!AnyQuery

(* Going away, or closing the editor, only takes controls off the screen.  *)
LEMMA TrackerUnmounts ==
    ASSUME T!TrackerTypes, T!Navigate \/ T!DismissEditor
    PROVE  /\ s3' \subseteq T!AnyMutation
           /\ \A n \in s3' : \E m \in s3 :
                /\ n.id = m.id /\ n.kind = m.kind /\ n.src = m.src /\ n.at = m.at /\ n.body = m.body
                /\ \A k \in s3' : k.id = m.id /\ (\A o \in s3 : o.id = m.id => o = m) => k = n
  <1>1. CASE T!Navigate
    <2>1. s3' = {[m EXCEPT !.mounted = FALSE] : m \in s3}
      BY <1>1 DEF T!Navigate
    <2>2. \A m \in s3 : LET n == [m EXCEPT !.mounted = FALSE]
                        IN  n \in T!AnyMutation /\ n.id = m.id /\ n.kind = m.kind /\ n.src = m.src
                            /\ n.at = m.at /\ n.body = m.body
      BY DEF T!TrackerTypes, T!AnyMutation
    <2>3. \A n \in s3' : \E m \in s3 : n = [m EXCEPT !.mounted = FALSE]
      BY <2>1
    <2>4. s3' \subseteq T!AnyMutation
      BY <2>2, <2>3
    <2>5. ASSUME NEW n \in s3'
          PROVE  \E m \in s3 :
                   /\ n.id = m.id /\ n.kind = m.kind /\ n.src = m.src /\ n.at = m.at /\ n.body = m.body
                   /\ \A k \in s3' : k.id = m.id /\ (\A o \in s3 : o.id = m.id => o = m) => k = n
      <3>1. PICK m \in s3 : n = [m EXCEPT !.mounted = FALSE]
        BY <2>3
      <3>2. ASSUME NEW k \in s3', k.id = m.id, \A o \in s3 : o.id = m.id => o = m
            PROVE  k = n
        <4>1. PICK o \in s3 : k = [o EXCEPT !.mounted = FALSE]
          BY <2>3
        <4>2. k.id = o.id
          BY <2>2, <4>1
        <4>3. QED
          BY <3>1, <3>2, <4>1, <4>2
      <3>3. QED
        BY <2>2, <3>1, <3>2
    <2>6. QED
      BY <2>4, <2>5
  <1>2. CASE T!DismissEditor
    <2>1. s3' = {IF m.src = "editor" THEN [m EXCEPT !.mounted = FALSE] ELSE m : m \in s3}
      BY <1>2 DEF T!DismissEditor
    <2>2. \A m \in s3 : LET n == IF m.src = "editor" THEN [m EXCEPT !.mounted = FALSE] ELSE m
                        IN  n \in T!AnyMutation /\ n.id = m.id /\ n.kind = m.kind /\ n.src = m.src
                            /\ n.at = m.at /\ n.body = m.body
      BY DEF T!TrackerTypes, T!AnyMutation
    <2>3. \A n \in s3' : \E m \in s3 : n = IF m.src = "editor" THEN [m EXCEPT !.mounted = FALSE] ELSE m
      BY <2>1
    <2>4. s3' \subseteq T!AnyMutation
      BY <2>2, <2>3
    <2>5. ASSUME NEW n \in s3'
          PROVE  \E m \in s3 :
                   /\ n.id = m.id /\ n.kind = m.kind /\ n.src = m.src /\ n.at = m.at /\ n.body = m.body
                   /\ \A k \in s3' : k.id = m.id /\ (\A o \in s3 : o.id = m.id => o = m) => k = n
      <3>1. PICK m \in s3 : n = IF m.src = "editor" THEN [m EXCEPT !.mounted = FALSE] ELSE m
        BY <2>3
      <3>2. ASSUME NEW k \in s3', k.id = m.id, \A o \in s3 : o.id = m.id => o = m
            PROVE  k = n
        <4>1. PICK o \in s3 : k = IF o.src = "editor" THEN [o EXCEPT !.mounted = FALSE] ELSE o
          BY <2>3
        <4>2. k.id = o.id
          BY <2>2, <4>1
        <4>3. QED
          BY <3>1, <3>2, <4>1, <4>2
      <3>3. QED
        BY <2>2, <3>1, <3>2
    <2>6. QED
      BY <2>4, <2>5
  <1>3. QED
    BY <1>1, <1>2

(* Sending one mutation: it has the types, its number is new, and it is    *)
(* the only one.                                                           *)
LEMMA TrackerSends ==
    ASSUME T!TrackerInv, NEW kind \in {"upsert", "delete"}, NEW src \in {"row", "rail", "editor"},
           NEW body \in T!Entries, NEW doubt \in SUBSET {"early"},
           T!Send(kind, src, body, doubt), UNCHANGED <<s1, s2>>
    PROVE  /\ s3' \subseteq T!AnyMutation /\ s8' \in Nat /\ T!OwnIds'
           /\ "crossed" \notin s6' =>
                s3 = {} /\ T!ReadIsStored /\ T!OneMutation' /\ T!AnswerIsStored' /\ T!ReadIsStored'
           /\ s6' = {} => s6 = {} /\ doubt = {} /\ s3 = {}
           /\ \A m \in s3' \ s3 : m.kind = kind /\ m.src = src /\ m.body = body
  <1>1. s3 \subseteq T!AnyMutation /\ s8 \in Nat /\ s8' = s8 + 1
    BY DEF T!TrackerInv, T!TrackerTypes, T!Send
  <1>2. PICK new : new = [id |-> s8, kind |-> kind, src |-> src, mounted |-> TRUE,
                          at |-> "sent", body |-> body]
    OBVIOUS
  <1>3. s3' = s3 \cup {new}
    BY <1>2 DEF T!Send
  <1>4. /\ new \in T!AnyMutation /\ new.id = s8 /\ new.at = "sent"
        /\ new.kind = kind /\ new.src = src /\ new.body = body
    BY <1>1, <1>2 DEF T!AnyMutation
  <1>5. T!OwnIds'
    <2>1. \A m \in s3 : m.id < s8 /\ m.id \in Nat
      BY <1>1 DEF T!TrackerInv, T!OwnIds, T!AnyMutation
    <2>2. \A m, n \in s3 : m.id = n.id => m = n
      BY DEF T!TrackerInv, T!OwnIds
    <2>3. \A m \in s3' : m.id < s8'
      BY <1>1, <1>3, <1>4, <2>1
    <2>4. \A m, n \in s3' : m.id = n.id => m = n
      BY <1>1, <1>3, <1>4, <2>1, <2>2
    <2>5. QED
      BY <2>3, <2>4 DEF T!OwnIds
  <1>6. ASSUME "crossed" \notin s6'
        PROVE  s3 = {} /\ T!ReadIsStored /\ T!OneMutation' /\ T!AnswerIsStored' /\ T!ReadIsStored'
    <2>1. s3 = {} /\ "crossed" \notin s6
      BY <1>6 DEF T!Send
    <2>2. T!ReadIsStored /\ s3' = {new}
      BY <1>3, <2>1 DEF T!TrackerInv
    <2>3. \A p \in T!Pages :
            /\ s2[p].has /\ ~s2[p].stale => s2[p].data = s1
            /\ s2[p].fetch = "served" => s2[p].answer = s1
      BY <2>1, <2>2 DEF T!ReadIsStored
    <2>4. T!ReadIsStored'
      BY <2>3 DEF T!ReadIsStored
    <2>5. T!OneMutation' /\ T!AnswerIsStored'
      BY <1>4, <2>2 DEF T!OneMutation, T!AnswerIsStored
    <2>6. QED
      BY <2>1, <2>2, <2>4, <2>5
  <1>7. s6' = {} => s6 = {} /\ doubt = {} /\ s3 = {}
    BY DEF T!Send
  <1>8. QED
    BY <1>1, <1>3, <1>4, <1>5, <1>6, <1>7

(* A tap on +1, on Watched or on an episode sends one that asks for more   *)
(* than is shown.                                                          *)
LEMMA TrackerTapped ==
    ASSUME T!TrackerInv, T!PlusOne \/ T!Watched
    PROVE  T!TrackerInv'
  <1> DEFINE q == s2[s4]
             entry == T!Entry(IF q.data.status = "planning" THEN "watching" ELSE q.data.status,
                              q.data.progress + 1)
             src == IF s4 = "list" THEN "row" ELSE "rail"
  <1>1. /\ s2 \in [T!Pages -> T!AnyQuery] /\ s4 \in T!Pages /\ T!NothingMadeUp
    BY DEF T!TrackerInv, T!TrackerTypes
  <1>2. q.data.status # "none" /\ q.data.progress < Total /\ q.data \in T!Entries
    BY <1>1 DEF T!PlusOne, T!Watched, T!Pages, T!AnyQuery
  <1>3. T!Send("upsert", src, entry, T!Early) /\ UNCHANGED <<s1, s2, s4, s5>>
    BY DEF T!PlusOne, T!Watched
  <1>4. entry \in T!Entries /\ entry.progress = q.data.progress + 1 /\ q.data.progress \in Nat
    BY <1>2, TrackerBounds DEF T!Entries, T!Entry, T!Statuses
  <1>5. T!Early \in SUBSET {"early"}
    BY DEF T!Early
  <1>6. PICK body \in T!Entries, from \in {"row", "rail", "editor"}, doubt \in SUBSET {"early"} :
          body = entry /\ from = src /\ doubt = T!Early
    BY <1>4, <1>5
  <1>7. T!Send("upsert", from, body, doubt)
    BY <1>3, <1>6
  <1> HIDE DEF entry, src
  <1>8. /\ s3' \subseteq T!AnyMutation /\ s8' \in Nat /\ T!OwnIds'
        /\ "crossed" \notin s6' =>
             s3 = {} /\ T!ReadIsStored /\ T!OneMutation' /\ T!AnswerIsStored' /\ T!ReadIsStored'
        /\ s6' = {} => s6 = {} /\ doubt = {} /\ s3 = {}
        /\ \A m \in s3' \ s3 : m.kind = "upsert" /\ m.src = from /\ m.body = body
    BY <1>3, <1>7, TrackerSends
  <1>9. T!TrackerTypes' /\ T!NothingMadeUp'
    BY <1>3, <1>8 DEF T!TrackerInv, T!TrackerTypes, T!NothingMadeUp
  <1>10. ASSUME s6' = {} PROVE \A m \in s3' : m.kind = "upsert" /\ m.body.progress >= s1'.progress
    <2>1. s3 = {} /\ doubt = {} /\ T!ReadIsStored
      BY <1>8, <1>10
    <2>2. ~q.stale /\ q.fetch = "none"
      BY <1>6, <2>1 DEF T!Early
    <2>3. q.has
      BY <1>1, <1>2 DEF T!NothingMadeUp, T!NotListed, T!Entry
    <2>4. q.data = s1
      BY <1>1, <2>1, <2>2, <2>3 DEF T!ReadIsStored
    <2>5. body.progress = s1.progress + 1 /\ s1.progress \in Nat
      BY <1>4, <1>6, <2>4
    <2>6. body.progress >= s1'.progress
      BY <1>3, <2>5
    <2>7. QED
      BY <1>8, <2>1, <2>6
  <1>11. T!TapsAskMore'
    BY <1>10 DEF T!TapsAskMore
  <1>12. QED
    BY <1>8, <1>9, <1>11 DEF T!TrackerInv

(* What the editor does keeps all of it.                                   *)
LEMMA TrackerEdited ==
    ASSUME T!TrackerInv, T!Save \/ T!Remove \/ T!OpenEditor \/ T!EditField
    PROVE  T!TrackerInv'
  <1>1. /\ s2 \in [T!Pages -> T!AnyQuery] /\ s4 \in T!Pages /\ s1 \in T!Entries /\ s8 \in Nat
        /\ s3 \subseteq T!AnyMutation
        /\ s5 \in [open : BOOLEAN, entry : T!Entries, confirm : BOOLEAN, edited : BOOLEAN]
        /\ T!NothingMadeUp /\ T!OwnIds /\ T!TapsAskMore
        /\ "crossed" \notin s6 => T!OneMutation /\ T!AnswerIsStored /\ T!ReadIsStored
    BY DEF T!TrackerInv, T!TrackerTypes
  <1>2. T!NotListed \in T!Entries /\ T!Entry("watching", 0) \in T!Entries
    BY TrackerBounds DEF T!NotListed, T!Entry, T!Entries, T!Statuses
  <1>3. UNCHANGED <<s1, s2, s4>>
    BY DEF T!Save, T!Remove, T!OpenEditor, T!EditField
  <1>4. ASSUME NEW kind \in {"upsert", "delete"}, NEW body \in T!Entries,
               NEW doubt \in SUBSET {"early"}, T!Send(kind, "editor", body, doubt), UNCHANGED s5
        PROVE  T!TrackerInv'
    <2>1. /\ s3' \subseteq T!AnyMutation /\ s8' \in Nat /\ T!OwnIds'
          /\ "crossed" \notin s6' => T!OneMutation' /\ T!AnswerIsStored' /\ T!ReadIsStored'
          /\ s6' = {} => s6 = {} /\ s3 = {}
          /\ \A m \in s3' \ s3 : m.src = "editor"
      BY <1>3, <1>4, TrackerSends
    <2>2. T!TapsAskMore'
      BY <2>1 DEF T!TapsAskMore
    <2>3. T!TrackerTypes' /\ T!NothingMadeUp'
      BY <1>1, <1>3, <1>4, <2>1 DEF T!TrackerTypes, T!NothingMadeUp
    <2>4. QED
      BY <2>1, <2>2, <2>3 DEF T!TrackerInv
  <1>5. CASE T!Save
    <2>1. PICK doubt \in SUBSET {"early"} : doubt = T!Blind
      BY DEF T!Blind
    <2>2. s5.entry \in T!Entries
      BY <1>1
    <2>3. T!Send("upsert", "editor", s5.entry, doubt) /\ UNCHANGED s5
      BY <1>5, <2>1 DEF T!Save
    <2>4. QED
      BY <1>4, <2>2, <2>3
  <1>6. CASE T!Send("delete", "editor", T!NotListed, {}) /\ UNCHANGED s5
    BY <1>2, <1>4, <1>6
  <1>7. CASE UNCHANGED <<s3, s6, s8>>
             /\ s5' \in [open : BOOLEAN, entry : T!Entries, confirm : BOOLEAN, edited : BOOLEAN]
    <2>1. T!OwnIds' /\ T!TapsAskMore' /\ T!NothingMadeUp' /\ T!TrackerTypes'
      BY <1>1, <1>3, <1>7 DEF T!OwnIds, T!TapsAskMore, T!NothingMadeUp, T!TrackerTypes
    <2>2. "crossed" \notin s6' => T!OneMutation' /\ T!AnswerIsStored' /\ T!ReadIsStored'
      BY <1>1, <1>3, <1>7 DEF T!OneMutation, T!AnswerIsStored, T!ReadIsStored
    <2>3. QED
      BY <2>1, <2>2 DEF T!TrackerInv
  <1>8. CASE T!OpenEditor
    <2>1. PICK e \in T!Entries : s5' = [T!ClosedForm EXCEPT !.open = TRUE, !.entry = e]
      <3>1. s2["show"].data \in T!Entries
        BY <1>1 DEF T!Pages, T!AnyQuery
      <3>2. QED
        BY <1>2, <1>8, <3>1 DEF T!OpenEditor
    <2>2. s5' \in [open : BOOLEAN, entry : T!Entries, confirm : BOOLEAN, edited : BOOLEAN]
      BY <2>1 DEF T!ClosedForm
    <2>3. QED
      BY <1>7, <1>8, <2>2 DEF T!OpenEditor
  <1>9. CASE T!EditField
    <2>1. PICK f \in [status : {"watching", "completed"}] \cup [progress : 0 .. Total] :
            s5' = [s5 EXCEPT !.edited = TRUE,
                     !.entry = [k \in DOMAIN @ |-> IF k \in DOMAIN f THEN f[k] ELSE @[k]]]
      BY <1>9 DEF T!EditField
    <2>2. PICK e \in T!Entries : e = s5.entry
      BY <1>1
    <2>3. PICK d : d = [k \in DOMAIN e |-> IF k \in DOMAIN f THEN f[k] ELSE e[k]]
      OBVIOUS
    <2>4. d \in T!Entries
      <3>1. DOMAIN e = {"status", "progress"} /\ e.status \in T!Statuses /\ e.progress \in 0 .. Total
        BY DEF T!Entries
      <3>2. CASE f \in [status : {"watching", "completed"}]
        <4>1. d.status \in T!Statuses /\ d.progress \in 0 .. Total /\ DOMAIN d = {"status", "progress"}
          BY <2>3, <3>1, <3>2 DEF T!Statuses
        <4>2. d = [status |-> d.status, progress |-> d.progress]
          BY <2>3, <3>1
        <4>3. QED
          BY <4>1, <4>2 DEF T!Entries
      <3>3. CASE f \in [progress : 0 .. Total]
        <4>1. d.status \in T!Statuses /\ d.progress \in 0 .. Total /\ DOMAIN d = {"status", "progress"}
          BY <2>3, <3>1, <3>3
        <4>2. d = [status |-> d.status, progress |-> d.progress]
          BY <2>3, <3>1
        <4>3. QED
          BY <4>1, <4>2 DEF T!Entries
      <3>4. QED
        BY <3>2, <3>3
    <2>5. s5' = [s5 EXCEPT !.edited = TRUE, !.entry = d]
      BY <1>1, <2>1, <2>2, <2>3
    <2>6. s5' \in [open : BOOLEAN, entry : T!Entries, confirm : BOOLEAN, edited : BOOLEAN]
      BY <1>1, <2>4, <2>5
    <2>7. QED
      BY <1>7, <1>9, <2>6 DEF T!EditField
  <1>10. CASE T!Remove
    <2>1. CASE s5' = [s5 EXCEPT !.confirm = TRUE] /\ UNCHANGED <<s3, s8, s6>>
      BY <1>1, <1>7, <2>1
    <2>2. QED
      BY <1>6, <1>10, <2>1 DEF T!Remove
  <1>11. QED
    BY <1>5, <1>8, <1>9, <1>10

(* Leaving a page and coming back to it, and mounting it.                  *)
LEMMA TrackerLeaves ==
    ASSUME T!TrackerInv, T!Navigate \/ T!DismissEditor
    PROVE  T!TrackerInv'
  <1>1. /\ s2 \in [T!Pages -> T!AnyQuery] /\ s4 \in T!Pages /\ s1 \in T!Entries /\ s8 \in Nat
        /\ T!NothingMadeUp /\ T!OwnIds /\ T!TapsAskMore /\ T!TrackerTypes
        /\ "crossed" \notin s6 => T!OneMutation /\ T!AnswerIsStored /\ T!ReadIsStored
    BY DEF T!TrackerInv, T!TrackerTypes
  <1>2. UNCHANGED <<s1, s6, s8>> /\ s5' = T!ClosedForm
    BY DEF T!Navigate, T!DismissEditor
  <1>3. T!NotListed \in T!Entries
    BY TrackerBounds DEF T!NotListed, T!Entry, T!Entries, T!Statuses
  <1>4. /\ s3' \subseteq T!AnyMutation
        /\ \A n \in s3' : \E m \in s3 :
             /\ n.id = m.id /\ n.kind = m.kind /\ n.src = m.src /\ n.at = m.at /\ n.body = m.body
             /\ \A k \in s3' : k.id = m.id /\ (\A o \in s3 : o.id = m.id => o = m) => k = n
    BY <1>1, TrackerUnmounts
  <1>5. T!OwnIds'
    <2>1. \A n \in s3' : n.id < s8'
      BY <1>1, <1>2, <1>4 DEF T!OwnIds
    <2>2. ASSUME NEW n \in s3', NEW k \in s3', k.id = n.id PROVE k = n
      <3>1. PICK m \in s3 : n.id = m.id
                            /\ ((\A o \in s3 : o.id = m.id => o = m) => k = n)
        BY <1>4, <2>2
      <3>2. QED
        BY <1>1, <3>1 DEF T!OwnIds
    <2>3. QED
      BY <2>1, <2>2 DEF T!OwnIds
  <1>6. s4' \in T!Pages
    BY <1>1 DEF T!Navigate, T!DismissEditor, T!Pages
  <1>7. /\ s2' \in [T!Pages -> T!AnyQuery]
        /\ \A p \in T!Pages : /\ s2'[p].has = s2[p].has /\ s2'[p].data = s2[p].data
                              /\ s2'[p].stale = s2[p].stale /\ s2'[p].answer = s2[p].answer
                              /\ s2'[p].fetch = "served" => s2[p].fetch = "served"
    <2>1. CASE s2' = s2
      BY <1>1, <2>1
    <2>2. CASE s2' = [s2 EXCEPT ![s4'] = T!Asked(@)]
      <3>1. PICK to \in T!Pages : to = s4'
        BY <1>6
      <3>2. PICK q \in T!AnyQuery : q = s2[to]
        BY <1>1
      <3>3. /\ T!Asked(q) \in T!AnyQuery /\ T!Asked(q).has = q.has /\ T!Asked(q).data = q.data
            /\ T!Asked(q).stale = q.stale /\ T!Asked(q).answer = q.answer
            /\ T!Asked(q).fetch = "served" => q.fetch = "served"
        BY <1>3, TrackerQueries
      <3>4. s2' = [s2 EXCEPT ![to] = T!Asked(q)]
        BY <2>2, <3>1, <3>2
      <3>5. QED
        BY <1>1, <3>2, <3>3, <3>4
    <2>3. QED
      BY <2>1, <2>2 DEF T!Navigate, T!DismissEditor
  <1>8. s5' \in [open : BOOLEAN, entry : T!Entries, confirm : BOOLEAN, edited : BOOLEAN]
    BY <1>2, <1>3 DEF T!ClosedForm
  <1>9. T!TrackerTypes' /\ T!NothingMadeUp'
    <2>1. T!TrackerTypes'
      BY <1>1, <1>2, <1>4, <1>6, <1>7, <1>8 DEF T!TrackerTypes
    <2>2. T!NothingMadeUp'
      <3>1. SUFFICES ASSUME NEW p \in T!Pages PROVE ~s2'[p].has => s2'[p].data = T!NotListed
        BY DEF T!NothingMadeUp
      <3>2. s2'[p].has = s2[p].has /\ s2'[p].data = s2[p].data
        BY <1>7, Zenon
      <3>3. ~s2[p].has => s2[p].data = T!NotListed
        BY <1>1 DEF T!NothingMadeUp
      <3>4. QED
        BY <3>2, <3>3, Zenon
    <2>3. QED
      BY <2>1, <2>2
  <1>10. T!TapsAskMore'
    BY <1>1, <1>2, <1>4 DEF T!TapsAskMore
  <1>11. ASSUME "crossed" \notin s6'
         PROVE  T!OneMutation' /\ T!AnswerIsStored' /\ T!ReadIsStored'
    <2>1. T!OneMutation /\ T!AnswerIsStored /\ T!ReadIsStored
      BY <1>1, <1>2, <1>11
    <2>2. T!AnswerIsStored'
      BY <1>2, <1>4, <2>1 DEF T!AnswerIsStored
    <2>3. T!OneMutation'
      <3>1. ASSUME NEW n \in s3', NEW k \in s3' PROVE n = k
        <4>1. PICK m \in s3, o \in s3 : n.id = m.id /\ k.id = o.id
          BY <1>4
        <4>2. n.id = k.id
          BY <2>1, <4>1 DEF T!OneMutation
        <4>3. QED
          BY <1>5, <4>2 DEF T!OwnIds
      <3>2. QED
        BY <3>1 DEF T!OneMutation
    <2>4. T!ReadIsStored'
      <3>1. ASSUME \A n \in s3' : n.at = "sent" PROVE \A m \in s3 : m.at = "sent"
        <4>1. ASSUME NEW m \in s3 PROVE \E n \in s3' : n.at = m.at
          <5>1. CASE T!Navigate
            <6>1. [m EXCEPT !.mounted = FALSE] \in s3'
              BY <5>1 DEF T!Navigate
            <6>2. [m EXCEPT !.mounted = FALSE].at = m.at
              BY <1>1 DEF T!TrackerTypes, T!AnyMutation
            <6>3. QED
              BY <6>1, <6>2
          <5>2. CASE T!DismissEditor
            <6>1. (IF m.src = "editor" THEN [m EXCEPT !.mounted = FALSE] ELSE m) \in s3'
              BY <5>2 DEF T!DismissEditor
            <6>2. [m EXCEPT !.mounted = FALSE].at = m.at
              BY <1>1 DEF T!TrackerTypes, T!AnyMutation
            <6>3. QED
              BY <6>1, <6>2
          <5>3. QED
            BY <5>1, <5>2
        <4>2. QED
          BY <3>1, <4>1
      <3>2. SUFFICES ASSUME \A n \in s3' : n.at = "sent", NEW p \in T!Pages
                     PROVE  /\ s2'[p].has /\ ~s2'[p].stale => s2'[p].data = s1
                            /\ s2'[p].fetch = "served" => s2'[p].answer = s1
        BY <1>2 DEF T!ReadIsStored
      <3>3. /\ s2[p].has /\ ~s2[p].stale => s2[p].data = s1
            /\ s2[p].fetch = "served" => s2[p].answer = s1
        BY <2>1, <3>1, <3>2 DEF T!ReadIsStored
      <3>4. /\ s2'[p].has = s2[p].has /\ s2'[p].data = s2[p].data
            /\ s2'[p].stale = s2[p].stale /\ s2'[p].answer = s2[p].answer
            /\ s2'[p].fetch = "served" => s2[p].fetch = "served"
        BY <1>7, Zenon
      <3>5. QED
        BY <3>3, <3>4, Zenon
    <2>5. QED
      BY <2>2, <2>3, <2>4
  <1>12. QED
    BY <1>5, <1>9, <1>10, <1>11 DEF T!TrackerInv

(* Asking, answering and losing the answer of a read.                      *)
LEMMA TrackerReads ==
    ASSUME T!TrackerInv, NEW p \in T!Pages, T!ServeQuery(p) \/ T!QueryAnswered(p) \/ T!QueryFails(p)
    PROVE  T!TrackerInv'
  <1>1. /\ s2 \in [T!Pages -> T!AnyQuery] /\ s1 \in T!Entries
        /\ T!NothingMadeUp /\ T!OwnIds /\ T!TapsAskMore /\ T!TrackerTypes
        /\ "crossed" \notin s6 => T!OneMutation /\ T!AnswerIsStored /\ T!ReadIsStored
    BY DEF T!TrackerInv, T!TrackerTypes
  <1>2. UNCHANGED <<s1, s3, s4, s5, s8>>
    BY DEF T!ServeQuery, T!QueryAnswered, T!QueryFails
  <1>3. T!OwnIds' /\ T!TapsAskMore'
    <2>1. s6' = {} => s6 = {}
      BY DEF T!ServeQuery, T!QueryAnswered, T!QueryFails
    <2>2. QED
      BY <1>1, <1>2, <2>1 DEF T!OwnIds, T!TapsAskMore
  <1>4. PICK q \in T!AnyQuery : q = s2[p]
    BY <1>1
  <1>5. q.data \in T!Entries /\ q.answer \in T!Entries
    BY DEF T!AnyQuery
  <1>6. ASSUME T!ServeQuery(p)
        PROVE  \E r \in T!AnyQuery :
                 /\ s2' = [s2 EXCEPT ![p] = r] /\ s6' = s6
                 /\ r.has = q.has /\ r.data = q.data /\ r.stale = q.stale /\ r.answer = s1
    <2>1. PICK r : r = [q EXCEPT !.fetch = "served", !.answer = s1]
      OBVIOUS
    <2>2. r \in T!AnyQuery /\ r.has = q.has /\ r.data = q.data /\ r.stale = q.stale /\ r.answer = s1
      BY <1>1, <2>1 DEF T!AnyQuery
    <2>3. s2' = [s2 EXCEPT ![p] = r] /\ s6' = s6
      BY <1>1, <1>4, <1>6, <2>1 DEF T!ServeQuery, T!AnyQuery
    <2>4. QED
      BY <2>2, <2>3
  <1>7. ASSUME T!QueryAnswered(p)
        PROVE  \E r \in T!AnyQuery :
                 /\ s2' = [s2 EXCEPT ![p] = r] /\ s6' = s6 /\ q.fetch = "served"
                 /\ r.has /\ r.data = q.answer /\ r.fetch = "none"
    <2>0. PICK v \in T!Entries, b \in BOOLEAN : v = q.answer
      BY <1>5
    <2>1. PICK w \in T!AnyQuery : w = T!Written(q, v) /\ w.has /\ w.data = q.answer
      BY <2>0, TrackerQueries
    <2>2. PICK r \in T!AnyQuery : r = T!Idle(w) /\ r.has = w.has /\ r.data = w.data /\ r.fetch = "none"
      BY <1>5, TrackerQueries
    <2>3. s2' = [s2 EXCEPT ![p] = r] /\ s6' = s6 /\ q.fetch = "served"
      BY <1>4, <1>7, <2>0, <2>1, <2>2 DEF T!QueryAnswered
    <2>4. QED
      BY <2>1, <2>2, <2>3
  <1>8. ASSUME T!QueryFails(p)
        PROVE  \E r \in T!AnyQuery :
                 /\ s2' = [s2 EXCEPT ![p] = r] /\ "crossed" \in s6'
                 /\ r.has = q.has /\ r.data = q.data
    <2>1. T!Idle(q) \in T!AnyQuery /\ T!Idle(q).has = q.has /\ T!Idle(q).data = q.data
      BY <1>5, TrackerQueries
    <2>2. s2' = [s2 EXCEPT ![p] = T!Idle(q)] /\ "crossed" \in s6'
      BY <1>4, <1>8 DEF T!QueryFails
    <2>3. QED
      BY <2>1, <2>2
  <1>9. PICK r \in T!AnyQuery :
          /\ s2' = [s2 EXCEPT ![p] = r]
          /\ \/ s6' = s6 /\ r.has = q.has /\ r.data = q.data /\ r.stale = q.stale /\ r.answer = s1
             \/ s6' = s6 /\ q.fetch = "served" /\ r.has /\ r.data = q.answer /\ r.fetch = "none"
             \/ "crossed" \in s6' /\ r.has = q.has /\ r.data = q.data
    BY <1>6, <1>7, <1>8
  <1>10. s2'[p] = r /\ (\A o \in T!Pages \ {p} : s2'[o] = s2[o]) /\ s2' \in [T!Pages -> T!AnyQuery]
    BY <1>1, <1>9
  <1>11. T!TrackerTypes' /\ T!NothingMadeUp'
    BY <1>1, <1>2, <1>4, <1>9, <1>10 DEF T!TrackerTypes, T!NothingMadeUp
  <1>12. ASSUME "crossed" \notin s6'
         PROVE  T!OneMutation' /\ T!AnswerIsStored' /\ T!ReadIsStored'
    <2>1. T!OneMutation /\ T!AnswerIsStored /\ T!ReadIsStored
      BY <1>1, <1>9, <1>12
    <2>2. T!OneMutation' /\ T!AnswerIsStored'
      BY <1>2, <2>1 DEF T!OneMutation, T!AnswerIsStored
    <2>3. T!ReadIsStored'
      <3>1. SUFFICES ASSUME \A m \in s3 : m.at = "sent", NEW o \in T!Pages
                     PROVE  /\ s2'[o].has /\ ~s2'[o].stale => s2'[o].data = s1
                            /\ s2'[o].fetch = "served" => s2'[o].answer = s1
        BY <1>2 DEF T!ReadIsStored
      <3>2. \A x \in T!Pages : /\ s2[x].has /\ ~s2[x].stale => s2[x].data = s1
                               /\ s2[x].fetch = "served" => s2[x].answer = s1
        BY <2>1, <3>1 DEF T!ReadIsStored
      <3>3. CASE o # p
        BY <1>10, <3>2, <3>3
      <3>4. CASE o = p
        BY <1>4, <1>9, <1>10, <1>12, <3>2, <3>4
      <3>5. QED
        BY <3>3, <3>4
    <2>4. QED
      BY <2>2, <2>3
  <1>13. QED
    BY <1>3, <1>11, <1>12 DEF T!TrackerInv

(* The server serves a mutation: the row becomes what its answer says.     *)
LEMMA TrackerServes ==
    ASSUME T!TrackerInv, NEW m \in s3, T!ServeMutation(m)
    PROVE  T!TrackerInv'
  <1>1. /\ s2 \in [T!Pages -> T!AnyQuery] /\ s1 \in T!Entries /\ s3 \subseteq T!AnyMutation
        /\ T!NothingMadeUp /\ T!OwnIds /\ T!TapsAskMore /\ T!TrackerTypes
        /\ "crossed" \notin s6 => T!OneMutation /\ T!AnswerIsStored /\ T!ReadIsStored
    BY DEF T!TrackerInv, T!TrackerTypes
  <1>2. T!NotListed \in T!Entries
    BY TrackerBounds DEF T!NotListed, T!Entry, T!Entries, T!Statuses
  <1>3. m.body \in T!Entries /\ m.id \in Nat
    BY <1>1 DEF T!AnyMutation
  <1>4. PICK entry \in T!Entries :
          entry = IF m.kind = "delete" THEN T!NotListed ELSE T!Resolved(m.body)
    BY <1>2, <1>3, TrackerResolves
  <1>5. PICK now : now = [m EXCEPT !.at = "served", !.body = entry]
    OBVIOUS
  <1>6. /\ s1' = entry /\ s3' = (s3 \ {m}) \cup {now} /\ m.at = "sent"
        /\ UNCHANGED <<s2, s4, s5, s6, s8>>
    BY <1>4, <1>5 DEF T!ServeMutation
  <1>7. now \in T!AnyMutation /\ now.id = m.id /\ now.at = "served" /\ now.body = entry /\ now.src = m.src
    BY <1>1, <1>5 DEF T!AnyMutation
  <1>8. T!TrackerTypes' /\ T!NothingMadeUp'
    BY <1>1, <1>6, <1>7 DEF T!TrackerTypes, T!NothingMadeUp
  <1>9. T!OwnIds'
    BY <1>1, <1>6, <1>7 DEF T!OwnIds
  <1>10. ASSUME "crossed" \notin s6'
         PROVE  /\ s3' = {now}
                /\ T!OneMutation' /\ T!AnswerIsStored' /\ T!ReadIsStored'
    <2>1. s3' = {now}
      BY <1>1, <1>6, <1>10 DEF T!OneMutation
    <2>2. QED
      BY <1>6, <1>7, <2>1 DEF T!OneMutation, T!AnswerIsStored, T!ReadIsStored
  <1>11. T!TapsAskMore'
    BY <1>7, <1>10 DEF T!TapsAskMore
  <1>12. QED
    BY <1>8, <1>9, <1>10, <1>11 DEF T!TrackerInv

(* The answer arrives and is put into the caches.                          *)
LEMMA TrackerAnswers ==
    ASSUME T!TrackerInv, NEW m \in s3, T!MutationAnswered(m)
    PROVE  T!TrackerInv'
  <1>1. /\ s2 \in [T!Pages -> T!AnyQuery] /\ s1 \in T!Entries /\ s3 \subseteq T!AnyMutation
        /\ s5 \in [open : BOOLEAN, entry : T!Entries, confirm : BOOLEAN, edited : BOOLEAN]
        /\ T!NothingMadeUp /\ T!OwnIds /\ T!TapsAskMore /\ T!TrackerTypes
        /\ "crossed" \notin s6 => T!OneMutation /\ T!AnswerIsStored /\ T!ReadIsStored
    BY DEF T!TrackerInv, T!TrackerTypes
  <1>2. T!NotListed \in T!Entries
    BY TrackerBounds DEF T!NotListed, T!Entry, T!Entries, T!Statuses
  <1>3. m.body \in T!Entries /\ m.at = "served"
    BY <1>1 DEF T!AnyMutation, T!MutationAnswered
  <1>4. s3' = s3 \ {m} /\ UNCHANGED <<s1, s4, s8>> /\ s6' = s6 \cup T!Raced
        /\ s5' \in {T!ClosedForm, s5}
    BY DEF T!MutationAnswered
  <1>5. PICK q \in T!AnyQuery, l \in T!AnyQuery, b \in BOOLEAN :
          q = s2["show"] /\ l = s2["list"] /\ b = (s4 = "list")
    BY <1>1 DEF T!Pages
  <1>6. PICK w \in T!AnyQuery :
          w = T!Written(q, m.body) /\ w.has /\ w.data = m.body /\ w.fetch = q.fetch
    <2>1. PICK v \in T!Entries : v = m.body
      BY <1>3
    <2>2. QED
      BY <2>1, TrackerWritten
  <1>7. PICK i \in T!AnyQuery :
          /\ i = T!Invalidated(l, b) /\ i.has = l.has /\ i.data = l.data /\ i.stale
          /\ i.fetch = IF b THEN "asked" ELSE l.fetch
    BY <1>2, TrackerQueries
  <1>8. s2' = [s2 EXCEPT !["show"] = w, !["list"] = i]
    BY <1>5, <1>6, <1>7 DEF T!MutationAnswered
  <1>9. s2'["show"] = w /\ s2'["list"] = i /\ s2' \in [T!Pages -> T!AnyQuery]
    BY <1>1, <1>8 DEF T!Pages
  <1>10. s5' \in [open : BOOLEAN, entry : T!Entries, confirm : BOOLEAN, edited : BOOLEAN]
    <2>1. T!ClosedForm \in [open : BOOLEAN, entry : T!Entries, confirm : BOOLEAN, edited : BOOLEAN]
      BY <1>2 DEF T!ClosedForm
    <2>2. QED
      BY <1>1, <1>4, <2>1
  <1>11. T!TrackerTypes'
    BY <1>1, <1>4, <1>9, <1>10 DEF T!TrackerTypes
  <1>12. T!NothingMadeUp' /\ T!OwnIds' /\ T!TapsAskMore'
    <2>1. T!NothingMadeUp'
      BY <1>1, <1>5, <1>6, <1>7, <1>9 DEF T!NothingMadeUp, T!Pages
    <2>2. T!OwnIds' /\ T!TapsAskMore'
      BY <1>1, <1>4 DEF T!OwnIds, T!TapsAskMore
    <2>3. QED
      BY <2>1, <2>2
  <1>13. ASSUME "crossed" \notin s6'
         PROVE  T!OneMutation' /\ T!AnswerIsStored' /\ T!ReadIsStored'
    <2>1. T!OneMutation /\ T!AnswerIsStored /\ T!Raced = {}
      BY <1>1, <1>4, <1>13 DEF T!Raced
    <2>2. s3' = {} /\ m.body = s1
      BY <1>3, <1>4, <2>1 DEF T!OneMutation, T!AnswerIsStored
    <2>3. q.fetch = "none" /\ (l.fetch = "none" \/ b)
      BY <1>5, <2>1 DEF T!Raced
    <2>4. T!ReadIsStored'
      BY <1>4, <1>6, <1>7, <1>9, <2>2, <2>3 DEF T!ReadIsStored, T!Pages
    <2>5. QED
      BY <2>2, <2>4 DEF T!OneMutation, T!AnswerIsStored
  <1>14. QED
    BY <1>11, <1>12, <1>13 DEF T!TrackerInv

(* A mutation that is refused or lost.                                     *)
LEMMA TrackerRefuses ==
    ASSUME T!TrackerInv, NEW m \in s3, T!MutationFails(m)
    PROVE  T!TrackerInv'
  <1>1. /\ s3 \subseteq T!AnyMutation
        /\ T!NothingMadeUp /\ T!OwnIds /\ T!TapsAskMore /\ T!TrackerTypes
        /\ "crossed" \notin s6 => T!OneMutation /\ T!AnswerIsStored /\ T!ReadIsStored
    BY DEF T!TrackerInv, T!TrackerTypes
  <1>2. s3' = s3 \ {m} /\ UNCHANGED <<s1, s2, s4, s5, s8>>
        /\ s6' = s6 \cup (IF m.at = "served" THEN {"crossed"} ELSE {})
    BY DEF T!MutationFails
  <1>3. T!TrackerTypes' /\ T!NothingMadeUp' /\ T!OwnIds' /\ T!TapsAskMore'
    BY <1>1, <1>2 DEF T!TrackerTypes, T!NothingMadeUp, T!OwnIds, T!TapsAskMore
  <1>4. ASSUME "crossed" \notin s6'
        PROVE  T!OneMutation' /\ T!AnswerIsStored' /\ T!ReadIsStored'
    <2>1. T!OneMutation /\ T!ReadIsStored /\ m.at = "sent"
      BY <1>1, <1>2, <1>4 DEF T!AnyMutation
    <2>2. s3 = {m} /\ s3' = {}
      BY <1>2, <2>1 DEF T!OneMutation
    <2>3. QED
      BY <1>2, <2>1, <2>2 DEF T!OneMutation, T!AnswerIsStored, T!ReadIsStored
  <1>5. QED
    BY <1>3, <1>4 DEF T!TrackerInv

(* Every step of the page keeps the invariant, ...                         *)
LEMMA TrackerStep ==
    ASSUME T!TrackerInv, T!Next
    PROVE  T!TrackerInv'
  BY TrackerTapped, TrackerEdited, TrackerLeaves, TrackerReads, TrackerServes, TrackerAnswers,
     TrackerRefuses DEF T!Next

(* ... it holds at first, ...                                              *)
LEMMA TrackerInit ==
    ASSUME T!Init
    PROVE  T!TrackerInv
  <1>1. T!NotListed \in T!Entries /\ s1 \in T!Entries
    BY TrackerBounds DEF T!Init, T!NotListed, T!Entry, T!Entries, T!Statuses
  <1>2. PICK q \in T!AnyQuery : q = T!Unread /\ ~q.has /\ q.data = T!NotListed /\ q.fetch = "none"
    <2>1. T!Unread \in T!AnyQuery
      BY <1>1 DEF T!Unread, T!AnyQuery
    <2>2. ~T!Unread.has /\ T!Unread.data = T!NotListed /\ T!Unread.fetch = "none"
      BY DEF T!Unread
    <2>3. QED
      BY <2>1, <2>2
  <1>3. T!Asked(q) \in T!AnyQuery /\ T!Asked(q).has = q.has /\ T!Asked(q).data = q.data
        /\ (T!Asked(q).fetch = "served" => q.fetch = "served")
    BY <1>1, TrackerQueries
  <1>4. \A p \in T!Pages : /\ s2[p] \in T!AnyQuery /\ ~s2[p].has /\ s2[p].data = T!NotListed
                           /\ s2[p].fetch # "served"
    BY <1>2, <1>3 DEF T!Init
  <1>5. s2 \in [T!Pages -> T!AnyQuery]
    BY <1>4 DEF T!Init
  <1>6. s5 \in [open : BOOLEAN, entry : T!Entries, confirm : BOOLEAN, edited : BOOLEAN]
    BY <1>1 DEF T!Init, T!ClosedForm
  <1>7. T!TrackerTypes
    BY <1>1, <1>5, <1>6 DEF T!Init, T!TrackerTypes, T!Pages
  <1>8. s3 = {}
    BY DEF T!Init
  <1>9. QED
    BY <1>4, <1>7, <1>8 DEF T!TrackerInv, T!NothingMadeUp, T!OwnIds, T!TapsAskMore, T!OneMutation,
       T!AnswerIsStored, T!ReadIsStored

(* ... a step of nothing keeps it, ...                                     *)
LEMMA TrackerStays ==
    ASSUME T!TrackerInv, UNCHANGED <<s1, s2, s3, s4, s5, s6, s7, s8, s9>>
    PROVE  T!TrackerInv'
  BY DEF T!TrackerInv, T!TrackerTypes, T!NothingMadeUp, T!OwnIds, T!TapsAskMore, T!OneMutation,
         T!AnswerIsStored, T!ReadIsStored

(* ... and it says what the screens promise.                               *)
LEMMA TrackerHolds ==
    ASSUME T!TrackerInv
    PROVE  T!TypeOK /\ T!ScreensSettle
  <1>1. T!TrackerTypes /\ T!OwnIds
    BY DEF T!TrackerInv
  <1>2. T!Cardinality({m.id : m \in s3}) = T!Cardinality(s3)
    <2> DEFINE ids == {m.id : m \in s3}
    <2>1. ids \subseteq 0 .. s8
      BY <1>1 DEF T!TrackerTypes, T!OwnIds, T!AnyMutation
    <2>2. IsFiniteSet(ids)
      <3>1. IsFiniteSet(0 .. s8)
        BY <1>1, FS_Interval DEF T!TrackerTypes
      <3>2. QED
        BY <2>1, <3>1, FS_Subset
    <2>3. ExistsBijection(ids, s3)
      <3> DEFINE f == [i \in ids |-> CHOOSE m \in s3 : m.id = i]
      <3>1. \A i \in ids : f[i] \in s3 /\ f[i].id = i
        OBVIOUS
      <3>2. \A m \in s3 : m.id \in ids /\ f[m.id] = m
        BY <1>1, <3>1 DEF T!OwnIds
      <3>3. f \in Bijection(ids, s3)
        <4>1. f \in [ids -> s3]
          BY <3>1
        <4>2. \A i, j \in ids : f[i] = f[j] => i = j
          BY <3>1
        <4>3. \A m \in s3 : \E i \in ids : f[i] = m
          BY <3>2
        <4> HIDE DEF f, ids
        <4>4. QED
          BY <4>1, <4>2, <4>3, Fun_IsBij
      <3>4. QED
        BY <3>3 DEF ExistsBijection
    <2>4. Cardinality(s3) = Cardinality(ids)
      BY <2>2, <2>3, FS_Bijection
    <2>5. \A set : T!Cardinality(set) = Cardinality(set)
      BY DEF T!Cardinality, Cardinality
    <2>6. QED
      BY <2>4, <2>5
  <1>3. T!TypeOK
    BY <1>1, <1>2 DEF T!TypeOK, T!TrackerTypes, T!AnyQuery
  <1>4. T!ScreensSettle
    <2>1. SUFFICES ASSUME s3 = {}, s2[s4].has, ~s2[s4].stale, "crossed" \notin s6
                   PROVE  s2[s4].data = s1
      BY DEF T!ScreensSettle, T!Quiet
    <2>2. QED
      BY <1>1, <2>1 DEF T!TrackerInv, T!TrackerTypes, T!ReadIsStored
  <1>5. QED
    BY <1>3, <1>4

(* A mutation a tap sent, served with no cause noted, raises the progress. *)
LEMMA TrackerTaps ==
    ASSUME T!TrackerInv
    PROVE  T!TapRaises
  <1>1. SUFFICES ASSUME NEW m \in s3, m.src \in {"row", "rail"}, T!ServeMutation(m), s6 = {}
                 PROVE  s1'.progress >= s1.progress
    BY DEF T!TapRaises
  <1>2. s1 \in T!Entries /\ m \in T!AnyMutation
    BY DEF T!TrackerInv, T!TrackerTypes
  <1>3. m.kind = "upsert" /\ m.body.progress >= s1.progress
    BY <1>1 DEF T!TrackerInv, T!TapsAskMore, T!ServeMutation
  <1>4. s1' = T!Resolved(m.body)
    BY <1>1, <1>3 DEF T!ServeMutation
  <1>5. PICK new \in T!Entries : new = s1' /\ new.progress >= m.body.progress
    BY <1>2, <1>4, TrackerResolves DEF T!AnyMutation
  <1>6. new.progress \in Nat /\ m.body.progress \in Nat /\ s1.progress \in Nat
    BY <1>2, TrackerBounds DEF T!AnyMutation, T!Entries
  <1>7. QED
    BY <1>3, <1>5, <1>6

-----------------------------------------------------------------------------
(* The favourite's heart (s1 fav, s2 heart, s3 toggles, s4 switch, s5      *)
(* saving, s6 crossed, s7 toggled, s8 refused).                            *)

(* A press sends one toggle and shows its guess; if nothing else was in    *)
(* flight, then the four facts hold of it.                                 *)
LEMMA HeartToggles ==
    ASSUME H!HeartInv, NEW next \in BOOLEAN, NEW by \in {"button", "editor"},
           H!Toggle(next, by), UNCHANGED s1
    PROVE  /\ s2' = [has |-> TRUE, data |-> next, fetch |-> "none", answer |-> FALSE]
           /\ s3' \subseteq [id : Nat, next : BOOLEAN, prev : BOOLEAN,
                             by : {"button", "editor"}, at : {"sent", "served"}]
           /\ s7' \in Nat /\ s6' \in BOOLEAN
           /\ ~s6' => H!OneToggle' /\ H!ReadIsTrue' /\ H!GuessIsShown' /\ H!ShownIsStored'
  <1>1. /\ s1 \in BOOLEAN /\ s6 \in BOOLEAN /\ s7 \in Nat
        /\ s2 \in [has : BOOLEAN, data : BOOLEAN, fetch : {"none", "asked", "served"}, answer : BOOLEAN]
        /\ s3 \subseteq [id : Nat, next : BOOLEAN, prev : BOOLEAN,
                         by : {"button", "editor"}, at : {"sent", "served"}]
    BY DEF H!HeartInv, H!HeartTypes, H!TypeOK
  <1>2. PICK new \in [id : Nat, next : BOOLEAN, prev : BOOLEAN,
                      by : {"button", "editor"}, at : {"sent", "served"}] :
          /\ s3' = s3 \cup {new}
          /\ new.next = next /\ new.prev = s2.data /\ new.at = "sent"
    <2>1. PICK prev \in BOOLEAN : prev = s2.data
      BY <1>1
    <2>2. PICK new : new = [id |-> s7, next |-> next, prev |-> prev, by |-> by, at |-> "sent"]
      OBVIOUS
    <2>3. s3' = s3 \cup {new}
      BY <2>1, <2>2 DEF H!Toggle
    <2>4. new \in [id : Nat, next : BOOLEAN, prev : BOOLEAN,
                   by : {"button", "editor"}, at : {"sent", "served"}]
      BY <1>1, <2>2
    <2>5. new.next = next /\ new.prev = prev /\ new.at = "sent"
      BY <2>2
    <2>6. QED
      BY <2>1, <2>3, <2>4, <2>5
  <1>3. s2' = [has |-> TRUE, data |-> next, fetch |-> "none", answer |-> FALSE]
    BY DEF H!Toggle, H!NoHeart
  <1>4. s2'.has /\ s2'.fetch = "none" /\ s2'.data = next
    BY <1>3
  <1>5. s7' \in Nat /\ s6' \in BOOLEAN
    BY <1>1 DEF H!Toggle
  <1>6. ASSUME ~s6'
        PROVE  H!OneToggle' /\ H!ReadIsTrue' /\ H!GuessIsShown' /\ H!ShownIsStored'
    <2>1. ~s6 /\ s3 = {} /\ s2.has
      BY <1>6 DEF H!Toggle
    <2>2. s2.data = s1
      BY <2>1 DEF H!HeartInv, H!ShownIsStored
    <2>3. s3' = {new}
      BY <1>2, <2>1
    <2>4. H!OneToggle' /\ H!ReadIsTrue'
      BY <1>4, <2>3 DEF H!OneToggle, H!ReadIsTrue
    <2>5. H!GuessIsShown' /\ H!ShownIsStored'
      BY <1>2, <1>4, <2>2, <2>3 DEF H!GuessIsShown, H!ShownIsStored
    <2>6. QED
      BY <2>4, <2>5
  <1>7. QED
    BY <1>1, <1>2, <1>3, <1>5, <1>6

(* Every step keeps the types.                                             *)
LEMMA HeartTypesStep ==
    ASSUME H!HeartInv, H!Next
    PROVE  H!HeartTypes'
  <1>1. /\ s1 \in BOOLEAN /\ s6 \in BOOLEAN /\ s7 \in Nat
        /\ s4 \in {"closed", "untouched", "on", "off"}
        /\ s5 \in {"no", "entry", "on", "off", "heart"}
        /\ s2 \in [has : BOOLEAN, data : BOOLEAN, fetch : {"none", "asked", "served"}, answer : BOOLEAN]
        /\ s3 \subseteq [id : Nat, next : BOOLEAN, prev : BOOLEAN,
                         by : {"button", "editor"}, at : {"sent", "served"}]
    BY DEF H!HeartInv, H!HeartTypes, H!TypeOK
  <1> USE DEF H!HeartTypes, H!TypeOK
  <1>2. CASE H!Reread \/ H!ServeRead \/ H!ReadArrives \/ H!ReadFails
    <2>1. s2' \in [has : BOOLEAN, data : BOOLEAN, fetch : {"none", "asked", "served"}, answer : BOOLEAN]
      BY <1>1, <1>2 DEF H!Reread, H!ServeRead, H!ReadArrives, H!ReadFails, H!NoHeart
    <2>2. UNCHANGED <<s1, s3, s4, s5, s7>>
      BY <1>2 DEF H!Reread, H!ServeRead, H!ReadArrives, H!ReadFails
    <2>3. s6' \in BOOLEAN
      BY <1>1, <1>2 DEF H!Reread, H!ServeRead, H!ReadArrives, H!ReadFails
    <2>4. QED
      BY <1>1, <2>1, <2>2, <2>3
  <1>3. CASE H!Press
    <2>1. PICK next \in BOOLEAN : next = ~s2.data
      BY <1>1
    <2>2. H!Toggle(next, "button") /\ UNCHANGED <<s1, s4, s5>>
      BY <1>3, <2>1 DEF H!Press
    <2>3. s2' = [has |-> TRUE, data |-> next, fetch |-> "none", answer |-> FALSE]
      BY <2>2, HeartToggles
    <2>4. s2' \in [has : BOOLEAN, data : BOOLEAN, fetch : {"none", "asked", "served"}, answer : BOOLEAN]
      BY <2>3
    <2>5. QED
      BY <1>1, <2>2, <2>4, HeartToggles
  <1>4. CASE H!OpenOrDismissEditor \/ H!Touch \/ H!Save
    BY <1>1, <1>4 DEF H!OpenOrDismissEditor, H!Touch, H!Save
  <1>5. CASE H!Saved
    <2>1. CASE s5 \in {"on", "off"} /\ s5' = "heart" /\ H!Toggle(s5 = "on", "editor")
               /\ UNCHANGED <<s4, s8>>
      <3>1. PICK next \in BOOLEAN : next = (s5 = "on")
        OBVIOUS
      <3>2. H!Toggle(next, "editor") /\ UNCHANGED <<s1, s4>> /\ s5' = "heart"
        BY <1>5, <2>1, <3>1 DEF H!Saved
      <3>3. s2' = [has |-> TRUE, data |-> next, fetch |-> "none", answer |-> FALSE]
        BY <3>2, HeartToggles
      <3>4. s2' \in [has : BOOLEAN, data : BOOLEAN, fetch : {"none", "asked", "served"}, answer : BOOLEAN]
        BY <3>3
      <3>5. QED
        BY <1>1, <3>2, <3>4, HeartToggles
    <2>2. CASE UNCHANGED <<s2, s3, s6, s7>> /\ s5' = "no" /\ s4' \in {"closed", s4}
      BY <1>1, <1>5, <2>2 DEF H!Saved
    <2>3. QED
      BY <1>5, <2>1, <2>2 DEF H!Saved
  <1>6. ASSUME NEW t \in s3, H!ServeToggle(t)
        PROVE  H!HeartTypes'
    BY <1>1, <1>6 DEF H!ServeToggle
  <1>7. ASSUME NEW t \in s3, H!ToggleArrives(t) \/ H!ToggleFails(t)
        PROVE  H!HeartTypes'
    <2>1. s3' \subseteq s3 /\ s5' \in {"no", s5} /\ s4' \in {"closed", s4} /\ s1' = s1 /\ s7' = s7
          /\ s6' \in BOOLEAN
      BY <1>1, <1>7 DEF H!ToggleArrives, H!ToggleFails, H!Done
    <2>2. s2' \in [has : BOOLEAN, data : BOOLEAN, fetch : {"none", "asked", "served"}, answer : BOOLEAN]
      BY <1>1, <1>7 DEF H!ToggleArrives, H!ToggleFails
    <2>3. QED
      BY <1>1, <2>1, <2>2
  <1>8. QED
    BY <1>2, <1>3, <1>4, <1>5, <1>6, <1>7 DEF H!Next

(* Every step keeps what is known while nothing was crossed.               *)
LEMMA HeartTruthStep ==
    ASSUME H!HeartInv, H!Next, ~s6'
    PROVE  H!OneToggle' /\ H!ReadIsTrue' /\ H!GuessIsShown' /\ H!ShownIsStored'
  <1>1. /\ s1 \in BOOLEAN /\ s6 \in BOOLEAN /\ s7 \in Nat
        /\ s2 \in [has : BOOLEAN, data : BOOLEAN, fetch : {"none", "asked", "served"}, answer : BOOLEAN]
        /\ s3 \subseteq [id : Nat, next : BOOLEAN, prev : BOOLEAN,
                         by : {"button", "editor"}, at : {"sent", "served"}]
    BY DEF H!HeartInv, H!HeartTypes, H!TypeOK
  <1>2. ASSUME ~s6
        PROVE  H!OneToggle /\ H!ReadIsTrue /\ H!GuessIsShown /\ H!ShownIsStored
    BY <1>2 DEF H!HeartInv
  <1>3. CASE UNCHANGED <<s1, s2, s3, s6>>
    BY <1>2, <1>3 DEF H!OneToggle, H!ReadIsTrue, H!GuessIsShown, H!ShownIsStored
  <1>4. CASE H!Reread
    <2>1. s2'.fetch = "asked" /\ s2'.has = s2.has /\ s2'.data = s2.data /\ UNCHANGED <<s1, s3, s6>>
      BY <1>1, <1>4 DEF H!Reread
    <2>2. QED
      BY <1>2, <2>1 DEF H!OneToggle, H!ReadIsTrue, H!GuessIsShown, H!ShownIsStored
  <1>5. CASE H!ServeRead
    <2>1. s2'.fetch = "served" /\ s2'.has = s2.has /\ s2'.data = s2.data /\ s2'.answer = s1
          /\ UNCHANGED <<s1, s3>>
      BY <1>1, <1>5 DEF H!ServeRead
    <2>2. ~s6 /\ \A t \in s3 : t.at # "sent"
      BY <1>5 DEF H!ServeRead
    <2>3. \A t \in s3 : t.at = "served"
      BY <1>1, <2>2
    <2>4. QED
      BY <1>2, <2>1, <2>2, <2>3 DEF H!OneToggle, H!ReadIsTrue, H!GuessIsShown, H!ShownIsStored
  <1>6. CASE H!ReadArrives
    <2>1. s2'.fetch = "none" /\ s2'.data = s2.answer /\ s2'.has /\ UNCHANGED <<s1, s3, s6>>
          /\ s2.fetch = "served"
      BY <1>1, <1>6 DEF H!ReadArrives, H!NoHeart
    <2>2. s2.answer = s1 /\ \A t \in s3 : t.at = "served"
      BY <1>2, <2>1 DEF H!ReadIsTrue
    <2>3. QED
      BY <1>2, <2>1, <2>2 DEF H!OneToggle, H!ReadIsTrue, H!GuessIsShown, H!ShownIsStored
  <1>7. CASE H!ReadFails
    <2>1. s2'.fetch = "none" /\ s2'.has = s2.has /\ s2'.data = s2.data /\ UNCHANGED <<s1, s3, s6>>
      BY <1>1, <1>7 DEF H!ReadFails
    <2>2. QED
      BY <1>2, <2>1 DEF H!OneToggle, H!ReadIsTrue, H!GuessIsShown, H!ShownIsStored
  <1>8. CASE H!Press
    <2>1. PICK next \in BOOLEAN : next = ~s2.data
      BY <1>1
    <2>2. H!Toggle(next, "button") /\ UNCHANGED s1
      BY <1>8, <2>1 DEF H!Press
    <2>3. QED
      BY <2>2, HeartToggles
  <1>9. CASE H!Saved
    <2>1. CASE s5 \in {"on", "off"} /\ s5' = "heart" /\ H!Toggle(s5 = "on", "editor")
               /\ UNCHANGED <<s4, s8>>
      <3>1. PICK next \in BOOLEAN : next = (s5 = "on")
        OBVIOUS
      <3>2. H!Toggle(next, "editor") /\ UNCHANGED s1
        BY <1>9, <2>1, <3>1 DEF H!Saved
      <3>3. QED
        BY <3>2, HeartToggles
    <2>2. QED
      BY <1>3, <1>9, <2>1 DEF H!Saved
  <1>10. ASSUME NEW t \in s3, H!ServeToggle(t)
         PROVE  H!OneToggle' /\ H!ReadIsTrue' /\ H!GuessIsShown' /\ H!ShownIsStored'
    <2>1. ~s6 /\ s2' = s2 /\ t.at = "sent" /\ s1' = t.next
      BY <1>10 DEF H!ServeToggle
    <2>2. s3 = {t} /\ s2.has /\ s2.data = t.next /\ s2.fetch # "served"
      BY <1>2, <2>1 DEF H!OneToggle, H!GuessIsShown, H!ReadIsTrue
    <2>3. PICK now \in s3' : s3' = {now} /\ now.at = "served"
      <3>1. PICK now : now = [t EXCEPT !.at = "served"]
        OBVIOUS
      <3>2. s3' = {now}
        BY <1>10, <2>2, <3>1 DEF H!ServeToggle
      <3>3. now.at = "served"
        BY <1>1, <3>1
      <3>4. QED
        BY <3>2, <3>3
    <2>4. QED
      BY <2>1, <2>2, <2>3 DEF H!OneToggle, H!ReadIsTrue, H!GuessIsShown, H!ShownIsStored
  <1>11. ASSUME NEW t \in s3, H!ToggleArrives(t)
         PROVE  H!OneToggle' /\ H!ReadIsTrue' /\ H!GuessIsShown' /\ H!ShownIsStored'
    <2>1. ~s6 /\ UNCHANGED <<s1, s2>> /\ t.at = "served" /\ s3' = s3 \ {t}
      BY <1>11 DEF H!ToggleArrives, H!Done
    <2>2. s3 = {t} /\ s3' = {}
      BY <1>2, <2>1 DEF H!OneToggle
    <2>3. s2.has => s2.data = s1
      BY <1>2, <2>1, <2>2 DEF H!ShownIsStored
    <2>4. s2.fetch = "served" => s2.answer = s1
      BY <1>2, <2>1 DEF H!ReadIsTrue
    <2>5. QED
      BY <2>1, <2>2, <2>3, <2>4 DEF H!OneToggle, H!ReadIsTrue, H!GuessIsShown, H!ShownIsStored
  <1>12. ASSUME NEW t \in s3, H!ToggleFails(t)
         PROVE  H!OneToggle' /\ H!ReadIsTrue' /\ H!GuessIsShown' /\ H!ShownIsStored'
    <2>1. ~s6 /\ s1' = s1 /\ t.at = "sent" /\ s3' = s3 \ {t}
      BY <1>1, <1>12 DEF H!ToggleFails, H!Done
    <2>2. s2'.data = t.prev /\ s2'.fetch = s2.fetch
      BY <1>1, <1>12 DEF H!ToggleFails
    <2>3. s3 = {t} /\ s3' = {} /\ t.prev = s1 /\ s2.fetch # "served"
      BY <1>2, <2>1 DEF H!OneToggle, H!GuessIsShown, H!ReadIsTrue
    <2>4. QED
      BY <2>1, <2>2, <2>3 DEF H!OneToggle, H!ReadIsTrue, H!GuessIsShown, H!ShownIsStored
  <1>13. CASE H!OpenOrDismissEditor \/ H!Touch \/ H!Save
    BY <1>3, <1>13 DEF H!OpenOrDismissEditor, H!Touch, H!Save
  <1>14. QED
    BY <1>4, <1>5, <1>6, <1>7, <1>8, <1>9, <1>10, <1>11, <1>12, <1>13 DEF H!Next

(* They hold at first, ...                                                 *)
LEMMA HeartInit ==
    ASSUME H!Init
    PROVE  H!HeartInv
  <1>1. s2 = [has |-> FALSE, data |-> FALSE, fetch |-> "asked", answer |-> FALSE]
    BY DEF H!Init, H!NoHeart
  <1>2. H!HeartTypes
    <2>1. s2 \in [has : BOOLEAN, data : BOOLEAN, fetch : {"none", "asked", "served"}, answer : BOOLEAN]
      BY <1>1
    <2>2. s1 \in BOOLEAN /\ s3 = {} /\ s4 = "closed" /\ s5 = "no" /\ s6 = FALSE /\ s7 = 0
      BY DEF H!Init
    <2>3. QED
      BY <2>1, <2>2 DEF H!HeartTypes, H!TypeOK
  <1>3. s3 = {} /\ ~s2.has /\ s2.fetch # "served"
    BY <1>1 DEF H!Init
  <1>4. QED
    BY <1>2, <1>3 DEF H!HeartInv, H!OneToggle, H!ReadIsTrue, H!GuessIsShown, H!ShownIsStored

(* ... every step keeps them, ...                                          *)
LEMMA HeartStep ==
    ASSUME H!HeartInv, H!Next
    PROVE  H!HeartInv'
  BY HeartTypesStep, HeartTruthStep DEF H!HeartInv

(* ... so does a step of nothing, ...                                      *)
LEMMA HeartStays ==
    ASSUME H!HeartInv, UNCHANGED <<s1, s2, s3, s4, s5, s6, s7, s8>>
    PROVE  H!HeartInv'
  BY DEF H!HeartInv, H!HeartTypes, H!TypeOK, H!OneToggle, H!ReadIsTrue, H!GuessIsShown,
         H!ShownIsStored

(* ... and they say what the page promises.                                *)
LEMMA HeartHolds ==
    ASSUME H!HeartInv
    PROVE  H!TypeOK /\ H!HeartIsTrue
  BY DEF H!HeartInv, H!HeartTypes, H!HeartIsTrue, H!ShownIsStored

-----------------------------------------------------------------------------
(* The import's flow (s1 jobs, s2 slot, s3 on, s4 read, s5 starting, s6    *)
(* applying, s7 mine, s8 lost).                                            *)

(* The bounds are numbers.                                                 *)
LEMMA FlowBounds == MaxJobs \in Nat /\ MaxLost \in Nat
  BY PagesAssumption DEF F!FlowAssumption

(* A new job is the last one, and no earlier one is live.                  *)
LEMMA FlowCreates ==
    ASSUME s1 \in Seq(F!Statuses), F!Create
    PROVE  /\ s1' \in Seq(F!Statuses) /\ Len(s1') = Len(s1) + 1 /\ Len(s1') <= MaxJobs
           /\ \A j \in 1 .. Len(s1) : s1'[j] \notin F!Live
  <1>1. PICK f : f = [j \in 1 .. Len(s1) |-> IF s1[j] = "ready" THEN "superseded" ELSE s1[j]]
    OBVIOUS
  <1>2. s1' = Append(f, "pending") /\ Len(s1) < MaxJobs
        /\ \A j \in 1 .. Len(s1) : s1[j] \notin F!Running
    BY <1>1 DEF F!Create, F!Job
  <1>3. f \in Seq(F!Statuses) /\ Len(f) = Len(s1)
    BY <1>1 DEF F!Statuses
  <1>4. s1' \in Seq(F!Statuses) /\ Len(s1') = Len(s1) + 1 /\ \A j \in 1 .. Len(s1) : s1'[j] = f[j]
    <2>1. "pending" \in F!Statuses
      BY DEF F!Statuses
    <2>2. QED
      BY <1>2, <1>3, <2>1
  <1>5. \A j \in 1 .. Len(s1) : f[j] \notin F!Live
    BY <1>1, <1>2 DEF F!Live, F!Running
  <1>6. QED
    BY <1>2, <1>4, <1>5, FlowBounds

(* A read after any change of its fields is a read.                        *)
LEMMA FlowReads ==
    ASSUME NEW q \in F!AnyRead, NEW d \in F!Answer, NEW f \in F!Answer \cup {"asked"}
    PROVE  /\ [q EXCEPT !.data = d] \in F!AnyRead /\ [q EXCEPT !.data = d].data = d
           /\ [q EXCEPT !.data = d].fetch = q.fetch
           /\ [q EXCEPT !.data = d, !.error = FALSE] \in F!AnyRead
           /\ [q EXCEPT !.data = d, !.error = FALSE].data = d
           /\ [q EXCEPT !.fetch = f] \in F!AnyRead /\ [q EXCEPT !.fetch = f].data = q.data
           /\ [q EXCEPT !.fetch = f, !.error = TRUE] \in F!AnyRead
           /\ [q EXCEPT !.fetch = f, !.error = TRUE].data = q.data
           /\ [q EXCEPT !.fetch = f, !.stale = TRUE] \in F!AnyRead
           /\ [q EXCEPT !.fetch = f, !.stale = TRUE].data = q.data
           /\ [q EXCEPT !.stale = TRUE] \in F!AnyRead /\ [q EXCEPT !.stale = TRUE].data = q.data
  BY DEF F!AnyRead

(* Which of the names are statuses and answers.                            *)
LEMMA FlowAnswers ==
    /\ F!Statuses \subseteq F!Answer /\ "none" \in F!Answer /\ "pending" \in F!Answer /\ "done" \in F!Answer
    /\ "done" \in F!Statuses /\ "committing" \in F!Statuses /\ "none" \notin F!Statuses
  BY DEF F!Answer, F!Statuses

(* Every step keeps the types, and answers name jobs there are.            *)
LEMMA FlowTypesStep ==
    ASSUME F!FlowInv, F!Next
    PROVE  F!FlowTypes' /\ F!AnswersNameJobs'
  <1>0. MaxJobs \in Nat
    BY FlowBounds
  <1>1. /\ s1 \in Seq(F!Statuses) /\ Len(s1) <= MaxJobs /\ Len(s1) \in Nat
        /\ s2 \in 0 .. Len(s1)
        /\ s4 \in [1 .. MaxJobs -> F!AnyRead]
        /\ s5 \in [at : F!Ats, job : 0 .. Len(s1), left : BOOLEAN]
        /\ s6 \in [at : F!Ats, job : 0 .. Len(s1)]
        /\ s7 \subseteq 1 .. Len(s1)
        /\ s5.at = "served" => s5.job # 0
        /\ s6.at # "no" => s6.job # 0
    BY DEF F!FlowInv, F!FlowTypes, F!AnswersNameJobs, F!NoJob
  <1>2. F!NotStarting \in [at : F!Ats, job : 0 .. Len(s1), left : BOOLEAN]
        /\ F!NotApplying \in [at : F!Ats, job : 0 .. Len(s1)]
        /\ F!NotStarting.at = "no" /\ F!NotApplying.at = "no"
    BY <1>1 DEF F!NotStarting, F!NotApplying, F!Ats, F!NoJob
  <1>3. F!Unread \in F!AnyRead
    BY DEF F!Unread, F!AnyRead, F!Answer
  (* A step that creates no job keeps the bounds. *)
  <1>4. ASSUME s1' \in Seq(F!Statuses), Len(s1') = Len(s1),
               s2' \in 0 .. Len(s1), s4' \in [1 .. MaxJobs -> F!AnyRead],
               s5' \in [at : F!Ats, job : 0 .. Len(s1), left : BOOLEAN],
               s6' \in [at : F!Ats, job : 0 .. Len(s1)], s7' \subseteq 1 .. Len(s1),
               s5'.at = "served" => s5'.job # 0, s6'.at # "no" => s6'.job # 0
        PROVE  F!FlowTypes' /\ F!AnswersNameJobs'
    BY <1>1, <1>4 DEF F!FlowTypes, F!AnswersNameJobs, F!NoJob
  <1>5. CASE F!Start
    <2>1. s5' \in [at : F!Ats, job : 0 .. Len(s1), left : BOOLEAN] /\ s5'.at = "sent"
      BY <1>5, <1>2 DEF F!Start, F!Ats, F!NotStarting
    <2>2. UNCHANGED <<s1, s2, s4, s6, s7>>
      BY <1>5 DEF F!Start
    <2>3. QED
      BY <1>1, <1>4, <2>1, <2>2
  <1>6. CASE F!ServeStart
    <2>1. CASE F!Create /\ s5' = [s5 EXCEPT !.at = "served", !.job = F!NextJob]
      <3>1. s1' \in Seq(F!Statuses) /\ Len(s1') = Len(s1) + 1 /\ Len(s1') <= MaxJobs
        BY <1>1, <2>1, FlowCreates
      <3>2. s5' \in [at : F!Ats, job : 0 .. Len(s1'), left : BOOLEAN] /\ s5'.at = "served"
            /\ s5'.job = Len(s1')
        <4>1. PICK n \in Nat : n = Len(s1')
          BY <1>1, <3>1
        <4>2. s5' = [s5 EXCEPT !.at = "served", !.job = n]
          BY <2>1, <3>1, <4>1 DEF F!NextJob
        <4>3. s5' \in [at : F!Ats, job : 0 .. n, left : BOOLEAN] /\ s5'.at = "served" /\ s5'.job = n
          <5>1. PICK b \in BOOLEAN : b = s5.left
            BY <1>1
          <5>2. s5' = [at |-> "served", job |-> n, left |-> b]
            BY <1>1, <4>2, <5>1
          <5>3. QED
            BY <4>1, <5>2 DEF F!Ats
        <4>4. QED
          BY <4>1, <4>3
      <3>3. UNCHANGED <<s2, s4, s6, s7>>
        BY <1>6 DEF F!ServeStart
      <3>4. s2' \in 0 .. Len(s1') /\ s7' \subseteq 1 .. Len(s1')
        BY <1>1, <3>1, <3>3
      <3>5. s6' \in [at : F!Ats, job : 0 .. Len(s1')] /\ (s6'.at # "no" => s6'.job # 0)
        BY <1>1, <3>1, <3>3
      <3>6. s5'.job # 0
        BY <1>1, <3>1, <3>2
      <3>7. QED
        BY <1>1, <3>1, <3>2, <3>3, <3>4, <3>5, <3>6 DEF F!FlowTypes, F!AnswersNameJobs, F!NoJob
    <2>2. CASE UNCHANGED s1 /\ s5' = [s5 EXCEPT !.at = "refused"]
      <3>1. s5' \in [at : F!Ats, job : 0 .. Len(s1), left : BOOLEAN] /\ s5'.at = "refused"
        BY <1>1, <2>2 DEF F!Ats
      <3>2. UNCHANGED <<s2, s4, s6, s7>>
        BY <1>6 DEF F!ServeStart
      <3>3. QED
        BY <1>1, <1>4, <2>2, <3>1, <3>2
    <2>3. QED
      BY <1>6, <2>1, <2>2 DEF F!ServeStart
  <1>7. CASE F!StartArrives
    <2>1. PICK n \in 1 .. Len(s1) : n = s5.job
      BY <1>1, <1>7 DEF F!StartArrives
    <2>2. s4' = [s4 EXCEPT ![n].data = "pending"] /\ s5' = F!NotStarting /\ UNCHANGED <<s1, s6>>
          /\ s2' \in {s2, n} /\ s7' \in {s7, s7 \cup {n}}
      BY <1>7, <2>1 DEF F!StartArrives
    <2>3. s4' \in [1 .. MaxJobs -> F!AnyRead]
      <3>1. n \in 1 .. MaxJobs /\ s4[n] \in F!AnyRead
        BY <1>0, <1>1
      <3>2. [s4[n] EXCEPT !.data = "pending"] \in F!AnyRead
        BY <3>1, FlowAnswers, FlowReads
      <3>3. QED
        BY <1>1, <2>2, <3>1, <3>2
    <2>4. s2' \in 0 .. Len(s1) /\ s7' \subseteq 1 .. Len(s1)
      BY <1>1, <2>2
    <2>5. QED
      BY <1>1, <1>2, <1>4, <2>2, <2>3, <2>4
  <1>8. CASE F!StartFails
    BY <1>1, <1>2, <1>4, <1>8 DEF F!StartFails
  <1>9. CASE F!Ask
    <2>1. s4' \in [1 .. MaxJobs -> F!AnyRead]
      <3>1. s4' = [s4 EXCEPT ![s2].fetch = "asked"]
        BY <1>9 DEF F!Ask
      <3>2. \A q \in F!AnyRead : [q EXCEPT !.fetch = "asked"] \in F!AnyRead
        BY FlowReads DEF F!Answer
      <3>3. QED
        BY <1>1, <3>1, <3>2
    <2>2. UNCHANGED <<s1, s2, s5, s6, s7>>
      BY <1>9 DEF F!Ask
    <2>3. QED
      BY <1>1, <1>4, <2>1, <2>2
  <1>10. CASE F!Apply
    <2>1. s2 # 0 /\ s6' = [at |-> "sent", job |-> s2] /\ UNCHANGED <<s1, s2, s4, s5, s7>>
      BY <1>10 DEF F!Apply, F!Screen, F!NoJob
    <2>2. s6' \in [at : F!Ats, job : 0 .. Len(s1)] /\ s6'.job # 0
      BY <1>1, <2>1 DEF F!Ats
    <2>3. QED
      BY <1>1, <1>4, <2>1, <2>2
  <1>11. CASE F!ServeApply
    <2>1. PICK n \in 1 .. Len(s1) : n = s6.job
      BY <1>1, <1>11 DEF F!ServeApply
    <2>2. s1' \in {s1, [s1 EXCEPT ![n] = "done"], [s1 EXCEPT ![n] = "committing"]}
      BY <1>11, <2>1 DEF F!ServeApply
    <2>3. s1' \in Seq(F!Statuses) /\ Len(s1') = Len(s1)
      <3>1. PICK s \in F!Statuses : s1' = s1 \/ s1' = [s1 EXCEPT ![n] = s]
        BY <2>2, FlowAnswers
      <3>2. QED
        BY <1>1, <3>1
    <2>4. s6' \in [at : F!Ats, job : 0 .. Len(s1)] /\ s6'.job # 0
      BY <1>1, <1>11, <2>1 DEF F!ServeApply, F!Ats
    <2>5. UNCHANGED <<s2, s4, s5, s7>>
      BY <1>11 DEF F!ServeApply
    <2>6. QED
      BY <1>1, <1>4, <2>3, <2>4, <2>5
  <1>12. CASE F!ApplyArrives
    <2>1. PICK n \in 1 .. Len(s1) : n = s6.job
      BY <1>1, <1>12 DEF F!ApplyArrives
    <2>2. s4' = [s4 EXCEPT ![n].data = "done", ![n].error = FALSE] /\ s6' = F!NotApplying
          /\ UNCHANGED <<s1, s2, s5, s7>>
      BY <1>12, <2>1 DEF F!ApplyArrives
    <2>3. s4' \in [1 .. MaxJobs -> F!AnyRead]
      <3>1. n \in 1 .. MaxJobs /\ s4[n] \in F!AnyRead
        BY <1>0, <1>1
      <3>2. [s4[n] EXCEPT !.data = "done", !.error = FALSE] \in F!AnyRead
        BY <3>1, FlowAnswers, FlowReads
      <3>3. QED
        BY <1>1, <2>2, <3>1, <3>2
    <2>4. QED
      BY <1>1, <1>2, <1>4, <2>2, <2>3
  <1>13. CASE F!ApplyFails
    <2>1. PICK n \in 1 .. Len(s1) : n = s6.job
      BY <1>1, <1>13 DEF F!ApplyFails
    <2>2. PICK r \in F!AnyRead : s4' = [s4 EXCEPT ![n] = r]
      <3>1. n \in 1 .. MaxJobs /\ s4[n] \in F!AnyRead
        BY <1>0, <1>1, <2>1
      <3>2. /\ [s4[n] EXCEPT !.fetch = "asked", !.stale = TRUE] \in F!AnyRead
            /\ [s4[n] EXCEPT !.stale = TRUE] \in F!AnyRead
        BY <3>1 DEF F!AnyRead
      <3>3. s4' = [s4 EXCEPT ![n] = [s4[n] EXCEPT !.fetch = "asked", !.stale = TRUE]]
            \/ s4' = [s4 EXCEPT ![n] = [s4[n] EXCEPT !.stale = TRUE]]
        BY <1>13, <2>1 DEF F!ApplyFails
      <3>4. QED
        BY <3>2, <3>3
    <2>3. s4' \in [1 .. MaxJobs -> F!AnyRead]
      BY <1>1, <2>2
    <2>4. UNCHANGED <<s1, s2, s5, s7>> /\ s6' = F!NotApplying
      BY <1>13 DEF F!ApplyFails
    <2>5. QED
      BY <1>1, <1>2, <1>4, <2>3, <2>4
  <1>14. CASE F!Reset
    <2>1. s2' = 0 /\ s7' \subseteq s7 /\ UNCHANGED <<s1, s4, s5, s6>>
      BY <1>14 DEF F!Reset, F!NoJob
    <2>2. QED
      BY <1>1, <1>4, <2>1
  <1>15. ASSUME F!FormGone
         PROVE  /\ s5' \in [at : F!Ats, job : 0 .. Len(s1), left : BOOLEAN]
                /\ s5'.at = s5.at /\ s5'.job = s5.job
    <2>1. PICK b \in BOOLEAN : b = (s5.left \/ s5.at # "no")
      OBVIOUS
    <2>2. s5' = [s5 EXCEPT !.left = b]
      BY <1>1, <1>15, <2>1 DEF F!FormGone
    <2>3. QED
      BY <1>1, <2>2
  <1>16. CASE F!Leave
    <2>1. F!FormGone /\ UNCHANGED <<s1, s2, s4, s6, s7>>
      BY <1>16 DEF F!Leave
    <2>2. QED
      BY <1>1, <1>4, <1>15, <2>1
  <1>17. CASE F!Return
    <2>1. CASE s4' = [j \in 1 .. MaxJobs |-> F!Unread] /\ s5' = F!NotStarting /\ s6' = F!NotApplying
      <3>1. UNCHANGED <<s1, s2, s7>>
        BY <1>17 DEF F!Return
      <3>2. s4' \in [1 .. MaxJobs -> F!AnyRead]
        BY <1>3, <2>1
      <3>3. QED
        BY <1>1, <1>2, <1>4, <2>1, <3>1, <3>2
    <2>2. ASSUME NEW old \in BOOLEAN,
                 s4' = [j \in 1 .. MaxJobs |->
                          IF j = s2 /\ s4[j].fetch = "none" /\ (old \/ s4[j].stale)
                          THEN [s4[j] EXCEPT !.fetch = "asked"] ELSE s4[j]],
                 UNCHANGED <<s5, s6>>
          PROVE  F!FlowTypes' /\ F!AnswersNameJobs'
      <3>1. \A j \in 1 .. MaxJobs : s4[j] \in F!AnyRead /\ [s4[j] EXCEPT !.fetch = "asked"] \in F!AnyRead
        BY <1>1 DEF F!AnyRead
      <3>2. s4' \in [1 .. MaxJobs -> F!AnyRead]
        BY <2>2, <3>1
      <3>3. UNCHANGED <<s1, s2, s7>>
        BY <1>17 DEF F!Return
      <3>4. QED
        BY <1>1, <1>4, <2>2, <3>2, <3>3
    <2>3. QED
      BY <1>17, <2>1, <2>2 DEF F!Return
  <1>18. CASE F!OtherTab
    <2>1. s7' = {} /\ UNCHANGED <<s4, s6>>
      BY <1>18 DEF F!OtherTab
    <2>2. CASE F!Create /\ s2' = F!NextJob /\ F!FormGone
      <3>1. s1' \in Seq(F!Statuses) /\ Len(s1') = Len(s1) + 1 /\ Len(s1') <= MaxJobs
        BY <1>1, <2>2, FlowCreates
      <3>2. s5' \in [at : F!Ats, job : 0 .. Len(s1'), left : BOOLEAN] /\ (s5'.at = "served" => s5'.job # 0)
        <4>1. s5' \in [at : F!Ats, job : 0 .. Len(s1), left : BOOLEAN] /\ s5'.at = s5.at /\ s5'.job = s5.job
          BY <1>15, <2>2
        <4>2. QED
          BY <1>1, <3>1, <4>1
      <3>3. s2' \in 0 .. Len(s1')
        BY <1>1, <2>2, <3>1 DEF F!NextJob
      <3>4. s6' \in [at : F!Ats, job : 0 .. Len(s1')] /\ (s6'.at # "no" => s6'.job # 0)
        BY <1>1, <2>1, <3>1
      <3>5. QED
        BY <1>1, <2>1, <3>1, <3>2, <3>3, <3>4 DEF F!FlowTypes, F!AnswersNameJobs, F!NoJob
    <2>3. CASE s2' = F!NoJob /\ UNCHANGED <<s1, s5>>
      BY <1>1, <1>4, <2>1, <2>3 DEF F!NoJob
    <2>4. QED
      BY <1>18, <2>2, <2>3 DEF F!OtherTab
  <1>19. ASSUME NEW j \in F!Job, F!ServeJob(j) \/ F!JobArrives(j) \/ F!JobFails(j) \/ F!JobMoves(j)
         PROVE  F!FlowTypes' /\ F!AnswersNameJobs'
    <2>1. j \in 1 .. Len(s1) /\ j \in 1 .. MaxJobs /\ s1[j] \in F!Statuses
      BY <1>0, <1>1 DEF F!Job
    <2>2. CASE F!ServeJob(j)
      <3>1. s4' = [s4 EXCEPT ![j].fetch = s1[j]] /\ UNCHANGED <<s1, s2, s5, s6, s7>>
        BY <2>2 DEF F!ServeJob
      <3>2. s4' \in [1 .. MaxJobs -> F!AnyRead]
        <4>1. s1[j] \in F!Answer /\ s4[j] \in F!AnyRead
          BY <1>1, <2>1, FlowAnswers
        <4>2. [s4[j] EXCEPT !.fetch = s1[j]] \in F!AnyRead
          BY <4>1, FlowReads
        <4>3. QED
          BY <1>1, <3>1, <4>2
      <3>3. QED
        BY <1>1, <1>4, <3>1, <3>2
    <2>3. CASE F!JobArrives(j)
      <3>1. PICK s \in F!Statuses : s = s4[j].fetch
        BY <2>3 DEF F!JobArrives
      <3>2. s4' = [s4 EXCEPT ![j] = [F!Unread EXCEPT !.data = s]] /\ UNCHANGED <<s1, s5, s6>>
            /\ s2' \in {0, s2} /\ s7' \subseteq s7
        BY <2>3, <3>1 DEF F!JobArrives, F!NoJob
      <3>3. [F!Unread EXCEPT !.data = s] \in F!AnyRead
        BY DEF F!Unread, F!AnyRead, F!Answer
      <3>4. s4' \in [1 .. MaxJobs -> F!AnyRead]
        BY <1>1, <3>2, <3>3
      <3>5. QED
        BY <1>1, <1>4, <3>2, <3>4
    <2>4. CASE F!JobFails(j)
      <3>1. s4' = [s4 EXCEPT ![j].fetch = "none", ![j].error = TRUE] /\ UNCHANGED <<s1, s2, s5, s6, s7>>
        BY <2>4 DEF F!JobFails
      <3>2. s4' \in [1 .. MaxJobs -> F!AnyRead]
        <4>1. [s4[j] EXCEPT !.fetch = "none", !.error = TRUE] \in F!AnyRead
          BY <1>1, <2>1, FlowAnswers, FlowReads
        <4>2. QED
          BY <1>1, <2>1, <3>1, <4>1
      <3>3. QED
        BY <1>1, <1>4, <3>1, <3>2
    <2>5. CASE F!JobMoves(j)
      <3>1. PICK s \in F!Statuses : s1' = [s1 EXCEPT ![j] = s]
        BY <2>5 DEF F!JobMoves
      <3>2. s1' \in Seq(F!Statuses) /\ Len(s1') = Len(s1)
        BY <1>1, <2>1, <3>1
      <3>3. UNCHANGED <<s2, s4, s5, s6, s7>>
        BY <2>5 DEF F!JobMoves
      <3>4. QED
        BY <1>1, <1>4, <3>2, <3>3
    <2>6. QED
      BY <1>19, <2>2, <2>3, <2>4, <2>5
  <1>20. QED
    BY <1>5, <1>6, <1>7, <1>8, <1>9, <1>10, <1>11, <1>12, <1>13, <1>14, <1>16, <1>17, <1>18, <1>19
    DEF F!Next

(* Every step keeps what was read of a job below what is stored of it.     *)
LEMMA FlowReadStep ==
    ASSUME F!FlowInv, F!Next, F!FlowTypes'
    PROVE  F!OnlyJobsAreRead' /\ F!StoredIsThere'
  <1>0. MaxJobs \in Nat
    BY FlowBounds
  <1>1. /\ s1 \in Seq(F!Statuses) /\ Len(s1) <= MaxJobs /\ Len(s1) \in Nat
        /\ s2 \in 0 .. Len(s1)
        /\ s4 \in [1 .. MaxJobs -> F!AnyRead]
        /\ s5.job \in 0 .. Len(s1) /\ s6.job \in 0 .. Len(s1)
        /\ s5.at = "served" => s5.job # 0
        /\ s6.at # "no" => s6.job # 0
        /\ s2 # 0 => s4[s2].data # "gone"
        /\ \A j \in 1 .. MaxJobs : j > Len(s1) => s4[j].data # "gone"
    BY DEF F!FlowInv, F!FlowTypes, F!AnswersNameJobs, F!NoJob, F!StoredIsThere, F!OnlyJobsAreRead
  (* A step that makes no query gone, and stores no other job. *)
  <1>2. ASSUME Len(s1') = Len(s1), s2' \in {0, s2},
               \A j \in 1 .. MaxJobs : s4'[j].data = s4[j].data \/ s4'[j].data # "gone"
        PROVE  F!OnlyJobsAreRead' /\ F!StoredIsThere'
    <2>1. F!OnlyJobsAreRead'
      BY <1>1, <1>2 DEF F!OnlyJobsAreRead
    <2>2. s2' # 0 => s2' \in 1 .. MaxJobs
      BY <1>0, <1>1, <1>2
    <2>3. F!StoredIsThere'
      BY <1>1, <1>2, <2>2 DEF F!StoredIsThere, F!NoJob
    <2>4. QED
      BY <2>1, <2>3
  <1>3. ASSUME F!Create, UNCHANGED s4, s2' \in {s2, F!NextJob}
        PROVE  F!OnlyJobsAreRead' /\ F!StoredIsThere'
    <2>1. Len(s1') = Len(s1) + 1 /\ Len(s1') <= MaxJobs
      BY <1>1, <1>3, FlowCreates
    <2>2. F!OnlyJobsAreRead'
      BY <1>1, <1>3, <2>1 DEF F!OnlyJobsAreRead
    <2>3. Len(s1) + 1 \in 1 .. MaxJobs /\ Len(s1) + 1 > Len(s1)
      BY <1>0, <1>1, <2>1
    <2>4. s4[Len(s1) + 1].data # "gone"
      BY <1>1, <2>3
    <2>5. F!StoredIsThere'
      BY <1>1, <1>3, <2>4 DEF F!StoredIsThere, F!NoJob, F!NextJob
    <2>6. QED
      BY <2>2, <2>5
  <1>4. CASE F!Start \/ F!StartFails \/ F!Apply \/ F!Leave
    BY <1>2, <1>4 DEF F!Start, F!StartFails, F!Apply, F!Leave
  <1>5. CASE F!ServeStart
    BY <1>2, <1>3, <1>5 DEF F!ServeStart
  <1>6. CASE F!StartArrives
    <2>1. PICK n \in 1 .. MaxJobs : n = s5.job /\ n <= Len(s1)
      BY <1>0, <1>1, <1>6 DEF F!StartArrives
    <2>2. s4' = [s4 EXCEPT ![n].data = "pending"] /\ UNCHANGED s1 /\ s2' \in {s2, n}
      BY <1>6, <2>1 DEF F!StartArrives
    <2>3. s4[n] \in F!AnyRead
      BY <1>1
    <2>4. [s4[n] EXCEPT !.data = "pending"].data = "pending"
      BY <2>3, FlowAnswers, FlowReads
    <2>5. s4'[n].data = "pending" /\ \A j \in 1 .. MaxJobs : j # n => s4'[j] = s4[j]
      BY <1>1, <2>2, <2>4
    <2>6. CASE s2' = s2
      BY <1>2, <2>2, <2>5, <2>6
    <2>7. CASE s2' = n
      BY <1>1, <2>1, <2>2, <2>5, <2>7 DEF F!OnlyJobsAreRead, F!StoredIsThere, F!NoJob
    <2>8. QED
      BY <2>2, <2>6, <2>7
  <1>7. CASE F!Ask
    <2>1. s2 \in 1 .. MaxJobs /\ s4' = [s4 EXCEPT ![s2].fetch = "asked"] /\ UNCHANGED <<s1, s2>>
      BY <1>0, <1>1, <1>7 DEF F!Ask, F!NoJob
    <2>2. [s4[s2] EXCEPT !.fetch = "asked"].data = s4[s2].data
      BY <1>1, <2>1, FlowAnswers, FlowReads
    <2>3. \A j \in 1 .. MaxJobs : s4'[j].data = s4[j].data
      BY <1>1, <2>1, <2>2
    <2>4. QED
      BY <1>2, <2>1, <2>3
  <1>8. CASE F!ServeApply
    <2>1. Len(s1') = Len(s1) /\ UNCHANGED <<s2, s4>>
      BY <1>1, <1>8 DEF F!ServeApply
    <2>2. QED
      BY <1>2, <2>1
  <1>9. CASE F!ApplyArrives
    <2>1. PICK n \in 1 .. MaxJobs : n = s6.job
      BY <1>0, <1>1, <1>9 DEF F!ApplyArrives
    <2>2. s4' = [s4 EXCEPT ![n].data = "done", ![n].error = FALSE] /\ UNCHANGED <<s1, s2>>
      BY <1>9, <2>1 DEF F!ApplyArrives
    <2>3. [s4[n] EXCEPT !.data = "done", !.error = FALSE].data = "done"
      <3>1. s4[n] \in F!AnyRead
        BY <1>1
      <3>2. QED
        BY <3>1, FlowAnswers, FlowReads
    <2>4. \A j \in 1 .. MaxJobs : s4'[j].data = s4[j].data \/ s4'[j].data # "gone"
      BY <1>1, <2>2, <2>3
    <2>5. QED
      BY <1>2, <2>2, <2>4
  <1>10. CASE F!ApplyFails
    <2>1. PICK n \in 1 .. MaxJobs : n = s6.job
      BY <1>0, <1>1, <1>10 DEF F!ApplyFails
    <2>2. /\ [s4[n] EXCEPT !.fetch = "asked", !.stale = TRUE].data = s4[n].data
          /\ [s4[n] EXCEPT !.stale = TRUE].data = s4[n].data
      BY <1>1, FlowAnswers, FlowReads
    <2>3. s4' = [s4 EXCEPT ![n] = [s4[n] EXCEPT !.fetch = "asked", !.stale = TRUE]]
          \/ s4' = [s4 EXCEPT ![n] = [s4[n] EXCEPT !.stale = TRUE]]
      BY <1>10, <2>1 DEF F!ApplyFails
    <2>4. \A j \in 1 .. MaxJobs : s4'[j].data = s4[j].data
      BY <1>1, <2>2, <2>3
    <2>5. UNCHANGED <<s1, s2>>
      BY <1>10 DEF F!ApplyFails
    <2>6. QED
      BY <1>2, <2>4, <2>5
  <1>11. CASE F!Reset
    BY <1>2, <1>11 DEF F!Reset, F!NoJob
  <1>12. CASE F!Return
    <2>1. UNCHANGED <<s1, s2>>
      BY <1>12 DEF F!Return
    <2>2. CASE s4' = [j \in 1 .. MaxJobs |-> F!Unread]
      BY <1>2, <2>1, <2>2 DEF F!Unread
    <2>3. ASSUME NEW old \in BOOLEAN,
                 s4' = [j \in 1 .. MaxJobs |->
                          IF j = s2 /\ s4[j].fetch = "none" /\ (old \/ s4[j].stale)
                          THEN [s4[j] EXCEPT !.fetch = "asked"] ELSE s4[j]]
          PROVE  F!OnlyJobsAreRead' /\ F!StoredIsThere'
      <3>1. \A j \in 1 .. MaxJobs : [s4[j] EXCEPT !.fetch = "asked"].data = s4[j].data
        BY <1>1, FlowAnswers, FlowReads
      <3>2. \A j \in 1 .. MaxJobs : s4'[j] = s4[j] \/ s4'[j] = [s4[j] EXCEPT !.fetch = "asked"]
        BY <2>3
      <3>3. \A j \in 1 .. MaxJobs : s4'[j].data = s4[j].data
        BY <3>1, <3>2
      <3>4. QED
        BY <1>2, <2>1, <3>3
    <2>4. QED
      BY <1>12, <2>2, <2>3 DEF F!Return
  <1>13. CASE F!OtherTab
    BY <1>2, <1>3, <1>13 DEF F!OtherTab, F!NoJob
  <1>14. ASSUME NEW j \in F!Job, F!ServeJob(j) \/ F!JobArrives(j) \/ F!JobFails(j) \/ F!JobMoves(j)
         PROVE  F!OnlyJobsAreRead' /\ F!StoredIsThere'
    <2>1. j \in 1 .. Len(s1) /\ j \in 1 .. MaxJobs /\ s4[j] \in F!AnyRead /\ s1[j] \in F!Statuses
      BY <1>0, <1>1 DEF F!Job
    <2>2. CASE F!ServeJob(j)
      <3>1. s4' = [s4 EXCEPT ![j].fetch = s1[j]] /\ UNCHANGED <<s1, s2>>
        BY <2>2 DEF F!ServeJob
      <3>2. [s4[j] EXCEPT !.fetch = s1[j]].data = s4[j].data
        BY <2>1, FlowAnswers, FlowReads
      <3>3. \A i \in 1 .. MaxJobs : s4'[i].data = s4[i].data
        BY <1>1, <3>1, <3>2
      <3>4. QED
        BY <1>2, <3>1, <3>3
    <2>3. CASE F!JobArrives(j)
      <3>1. PICK s \in F!Statuses : s = s4[j].fetch
        BY <2>3 DEF F!JobArrives
      <3>2. s4' = [s4 EXCEPT ![j] = [F!Unread EXCEPT !.data = s]] /\ UNCHANGED s1
            /\ s2' = IF s = "gone" THEN 0 ELSE s2
        BY <2>3, <3>1 DEF F!JobArrives, F!NoJob
      <3>3. [F!Unread EXCEPT !.data = s].data = s
        BY DEF F!Unread
      <3>4. s4'[j].data = s /\ \A i \in 1 .. MaxJobs : i # j => s4'[i] = s4[i]
        BY <1>1, <2>1, <3>2, <3>3
      <3>5. CASE s = "gone"
        BY <1>1, <2>1, <3>2, <3>4, <3>5 DEF F!OnlyJobsAreRead, F!StoredIsThere, F!NoJob
      <3>6. CASE s # "gone"
        BY <1>2, <3>2, <3>4, <3>6
      <3>7. QED
        BY <3>5, <3>6
    <2>4. CASE F!JobFails(j)
      <3>1. s4' = [s4 EXCEPT ![j].fetch = "none", ![j].error = TRUE] /\ UNCHANGED <<s1, s2>>
        BY <2>4 DEF F!JobFails
      <3>2. [s4[j] EXCEPT !.fetch = "none", !.error = TRUE].data = s4[j].data
        BY <2>1, FlowAnswers, FlowReads
      <3>3. \A i \in 1 .. MaxJobs : s4'[i].data = s4[i].data
        BY <1>1, <2>1, <3>1, <3>2
      <3>4. QED
        BY <1>2, <3>1, <3>3
    <2>5. CASE F!JobMoves(j)
      <3>1. Len(s1') = Len(s1) /\ UNCHANGED <<s2, s4>>
        BY <1>1, <2>5 DEF F!JobMoves
      <3>2. QED
        BY <1>2, <3>1
    <2>6. QED
      BY <1>14, <2>2, <2>3, <2>4, <2>5
  <1>15. QED
    BY <1>4, <1>5, <1>6, <1>7, <1>8, <1>9, <1>10, <1>11, <1>12, <1>13, <1>14 DEF F!Next

(* Every step leaves the last job the only live one, started by a call in  *)
(* flight or known to the page.                                            *)
LEMMA FlowLiveStep ==
    ASSUME F!FlowInv, F!Next, F!FlowTypes'
    PROVE  F!LastIsLive' /\ F!StartIsLast' /\ F!NothingStranded'
  <1>1. /\ s1 \in Seq(F!Statuses) /\ Len(s1) \in Nat
        /\ s2 \in 0 .. Len(s1) /\ s7 \subseteq 1 .. Len(s1)
        /\ s5.job \in 0 .. Len(s1) /\ s6.job \in 0 .. Len(s1)
        /\ s5.at = "served" => s5.job # 0
        /\ s6.at # "no" => s6.job # 0
        /\ \A j \in 1 .. Len(s1) : s1[j] \in F!Live => j = Len(s1)
        /\ s5.at = "served" /\ ~s5.left => s5.job = Len(s1)
        /\ \A j \in s7 : s1[j] \in F!Live => s2 = j
    BY DEF F!FlowInv, F!FlowTypes, F!AnswersNameJobs, F!NoJob, F!LastIsLive, F!StartIsLast,
       F!NothingStranded, F!Live
  <1>c. s5 \in [at : F!Ats, job : 0 .. Len(s1), left : BOOLEAN]
    BY DEF F!FlowInv, F!FlowTypes
  (* A step that makes no job live. *)
  <1>2. ASSUME Len(s1') = Len(s1), \A j \in 1 .. Len(s1) : s1'[j] \in F!Live => s1[j] \in F!Live,
               s5'.at = "served" /\ ~s5'.left => s5.at = "served" /\ ~s5.left /\ s5'.job = s5.job,
               s7' \subseteq s7, s2' = s2 \/ s2 \notin s7'
        PROVE  F!LastIsLive' /\ F!StartIsLast' /\ F!NothingStranded'
    <2>1. F!LastIsLive' /\ F!StartIsLast'
      BY <1>1, <1>2 DEF F!LastIsLive, F!StartIsLast
    <2>2. F!NothingStranded'
      BY <1>1, <1>2 DEF F!NothingStranded, F!Live
    <2>3. QED
      BY <2>1, <2>2
  <1>3. ASSUME F!Create, s7' \subseteq s7, s5'.at = "served" /\ ~s5'.left => s5'.job = F!NextJob
        PROVE  F!LastIsLive' /\ F!StartIsLast' /\ F!NothingStranded'
    <2>1. Len(s1') = Len(s1) + 1 /\ \A j \in 1 .. Len(s1) : s1'[j] \notin F!Live
      BY <1>1, <1>3, FlowCreates
    <2>2. F!LastIsLive' /\ F!StartIsLast'
      BY <1>1, <1>3, <2>1 DEF F!LastIsLive, F!StartIsLast, F!NextJob
    <2>3. F!NothingStranded'
      BY <1>1, <1>3, <2>1 DEF F!NothingStranded, F!Live
    <2>4. QED
      BY <2>2, <2>3
  <1>4. F!NotStarting.at # "served"
    BY DEF F!NotStarting
  <1>5. ASSUME F!FormGone
        PROVE  s5'.at = "served" => s5'.left
    <2>1. PICK b \in BOOLEAN : b = (s5.left \/ s5.at # "no")
      OBVIOUS
    <2>2. s5' = [s5 EXCEPT !.left = b]
      BY <1>c, <1>5, <2>1 DEF F!FormGone
    <2>3. s5'.at = s5.at /\ s5'.left = b
      BY <1>c, <2>2
    <2>4. QED
      BY <2>1, <2>3
  <1>6. CASE F!Start
    <2>1. s5'.at = "sent"
      BY <1>6 DEF F!Start, F!NotStarting
    <2>2. QED
      BY <1>2, <1>6, <2>1 DEF F!Start
  <1>7. CASE F!ServeStart
    <2>1. CASE F!Create /\ s5' = [s5 EXCEPT !.at = "served", !.job = F!NextJob]
      <3>1. s5'.job = F!NextJob
        BY <1>c, <2>1
      <3>2. QED
        BY <1>3, <1>7, <2>1, <3>1 DEF F!ServeStart
    <2>2. CASE UNCHANGED s1 /\ s5' = [s5 EXCEPT !.at = "refused"]
      <3>1. s5'.at = "refused"
        BY <1>c, <2>2
      <3>2. QED
        BY <1>2, <1>7, <2>2, <3>1 DEF F!ServeStart
    <2>3. QED
      BY <1>7, <2>1, <2>2 DEF F!ServeStart
  <1>8. CASE F!StartArrives
    <2>1. UNCHANGED s1 /\ s5'.at # "served" /\ s5.at = "served"
      BY <1>4, <1>8 DEF F!StartArrives
    <2>2. CASE s5.left
      BY <1>2, <1>8, <2>1, <2>2 DEF F!StartArrives
    <2>3. CASE ~s5.left
      <3>1. s5.job = Len(s1) /\ s2' = Len(s1) /\ s7' = s7 \cup {Len(s1)}
        BY <1>1, <1>8, <2>1, <2>3 DEF F!StartArrives
      <3>2. \A j \in s7' : s1'[j] \in F!Live => j = Len(s1)
        BY <1>1, <2>1, <3>1
      <3>3. F!NothingStranded'
        BY <3>1, <3>2 DEF F!NothingStranded, F!Live
      <3>4. F!LastIsLive' /\ F!StartIsLast'
        BY <1>1, <2>1 DEF F!LastIsLive, F!StartIsLast
      <3>5. QED
        BY <3>3, <3>4
    <2>4. QED
      BY <2>2, <2>3
  <1>9. CASE F!StartFails
    BY <1>2, <1>4, <1>9 DEF F!StartFails
  <1>10. CASE F!Ask \/ F!Apply \/ F!ApplyArrives \/ F!ApplyFails
    BY <1>2, <1>10 DEF F!Ask, F!Apply, F!ApplyArrives, F!ApplyFails
  <1>11. CASE F!ServeApply
    <2>1. UNCHANGED <<s2, s5, s7>>
      BY <1>11 DEF F!ServeApply
    <2>2. PICK n \in 1 .. Len(s1) : n = s6.job
      BY <1>1, <1>11 DEF F!ServeApply
    <2>3. s1' = s1 \/ (s1[n] = "ready" /\ \E s \in F!Statuses : s1' = [s1 EXCEPT ![n] = s])
      BY <1>11, <2>2, FlowAnswers DEF F!ServeApply
    <2>4. Len(s1') = Len(s1) /\ \A j \in 1 .. Len(s1) : s1'[j] \in F!Live => s1[j] \in F!Live
      BY <1>1, <2>3 DEF F!Live
    <2>5. QED
      BY <1>2, <2>1, <2>4
  <1>12. CASE F!Reset
    BY <1>2, <1>12 DEF F!Reset
  <1>13. CASE F!Leave
    BY <1>2, <1>5, <1>13 DEF F!Leave
  <1>14. CASE F!Return
    BY <1>2, <1>4, <1>14 DEF F!Return
  <1>15. CASE F!OtherTab
    <2>1. CASE F!Create /\ F!FormGone
      BY <1>3, <1>5, <1>15, <2>1 DEF F!OtherTab
    <2>2. CASE UNCHANGED <<s1, s5>>
      BY <1>2, <1>15, <2>2 DEF F!OtherTab
    <2>3. QED
      BY <1>15, <2>1, <2>2 DEF F!OtherTab
  <1>16. ASSUME NEW j \in F!Job, F!ServeJob(j) \/ F!JobArrives(j) \/ F!JobFails(j) \/ F!JobMoves(j)
         PROVE  F!LastIsLive' /\ F!StartIsLast' /\ F!NothingStranded'
    <2>1. CASE F!ServeJob(j) \/ F!JobFails(j)
      BY <1>2, <2>1 DEF F!ServeJob, F!JobFails
    <2>2. CASE F!JobArrives(j)
      BY <1>2, <2>2 DEF F!JobArrives
    <2>3. CASE F!JobMoves(j)
      <3>1. PICK s \in F!Statuses : s1' = [s1 EXCEPT ![j] = s] /\ (s \in F!Live => s1[j] \in F!Live)
        BY <2>3 DEF F!JobMoves, F!Live, F!Running
      <3>2. j \in 1 .. Len(s1)
        BY <1>1 DEF F!Job
      <3>3. Len(s1') = Len(s1) /\ \A i \in 1 .. Len(s1) : s1'[i] \in F!Live => s1[i] \in F!Live
        BY <1>1, <3>1, <3>2
      <3>4. QED
        BY <1>2, <2>3, <3>3 DEF F!JobMoves
    <2>4. QED
      BY <1>16, <2>1, <2>2, <2>3
  <1>17. QED
    BY <1>6, <1>7, <1>8, <1>9, <1>10, <1>11, <1>12, <1>13, <1>14, <1>15, <1>16 DEF F!Next

(* They hold at first, ...                                                 *)
LEMMA FlowInit ==
    ASSUME F!Init
    PROVE  F!FlowInv
  <1>1. F!Unread \in F!AnyRead /\ F!Unread.data = "none"
    BY DEF F!Unread, F!AnyRead, F!Answer
  <1>2. F!NotStarting \in [at : F!Ats, job : 0 .. 0, left : BOOLEAN]
        /\ F!NotApplying \in [at : F!Ats, job : 0 .. 0]
        /\ F!NotStarting.at = "no" /\ F!NotApplying.at = "no"
    BY DEF F!NotStarting, F!NotApplying, F!Ats, F!NoJob
  <1>3. s1 = <<>> /\ Len(s1) = 0 /\ s1 \in Seq(F!Statuses) /\ s2 = 0 /\ s7 = {}
        /\ s5 = F!NotStarting /\ s6 = F!NotApplying /\ s4 = [j \in 1 .. MaxJobs |-> F!Unread]
    BY DEF F!Init, F!NoJob
  <1>4. F!FlowTypes
    BY <1>1, <1>2, <1>3, FlowBounds DEF F!FlowTypes
  <1>5. QED
    BY <1>1, <1>2, <1>3, <1>4 DEF F!FlowInv, F!AnswersNameJobs, F!OnlyJobsAreRead, F!StoredIsThere,
       F!LastIsLive, F!StartIsLast, F!NothingStranded, F!NoJob

(* ... every step keeps them, ...                                          *)
LEMMA FlowStep ==
    ASSUME F!FlowInv, F!Next
    PROVE  F!FlowInv'
  BY FlowTypesStep, FlowReadStep, FlowLiveStep DEF F!FlowInv

(* ... so does a step of nothing, ...                                      *)
LEMMA FlowStays ==
    ASSUME F!FlowInv, UNCHANGED <<s1, s2, s3, s4, s5, s6, s7, s8>>
    PROVE  F!FlowInv'
  BY DEF F!FlowInv, F!FlowTypes, F!AnswersNameJobs, F!OnlyJobsAreRead, F!StoredIsThere,
         F!LastIsLive, F!StartIsLast, F!NothingStranded

(* ... and they say what the page promises.                                *)
LEMMA FlowHolds ==
    ASSUME F!FlowInv
    PROVE  F!TypeOK /\ F!SpinnersEnd /\ F!NothingStranded
  <1>1. F!FlowTypes /\ F!StoredIsThere /\ F!NothingStranded /\ MaxJobs \in Nat
    BY FlowBounds DEF F!FlowInv
  <1>2. F!TypeOK
    <2>1. \A j \in 1 .. MaxJobs : s4[j].data \in F!Answer
      BY <1>1 DEF F!FlowTypes, F!AnyRead
    <2>2. s5.at \in F!Ats /\ s6.at \in F!Ats
      BY <1>1 DEF F!FlowTypes
    <2>3. DOMAIN s1 = 1 .. Len(s1) /\ Len(s1) \in Nat /\ DOMAIN s4 = 1 .. MaxJobs
          /\ \A j \in 1 .. Len(s1) : s1[j] \in F!Statuses
      BY <1>1 DEF F!FlowTypes
    <2>4. s2 \in {0} \cup 1 .. Len(s1) /\ s7 \subseteq 1 .. Len(s1)
      BY <1>1, <2>3 DEF F!FlowTypes
    <2>5. QED
      BY <2>1, <2>2, <2>3, <2>4 DEF F!TypeOK, F!Job, F!NoJob, F!Answer, F!Ats
  <1>3. F!SpinnersEnd
    <2>1. SUFFICES ASSUME F!Screen \in {"skeleton", "spinner"}
                   PROVE  F!IsDue
      BY DEF F!SpinnersEnd
    <2>2. s2 # 0 /\ ~F!Shown.error
          /\ F!Screen = CASE F!Shown.data \in {"none", "gone"} -> "skeleton"
                          [] F!Shown.data \in {"pending", "processing", "committing"} -> "spinner"
                          [] F!Shown.data = "ready" -> "preview"
                          [] OTHER -> "outcome"
      BY <2>1 DEF F!Screen, F!NoJob
    <2>3. F!Shown.data # "gone"
      BY <1>1, <2>2 DEF F!StoredIsThere, F!Shown, F!NoJob
    <2>4. F!Shown.data = "none" \/ F!Shown.data \in {"pending", "processing", "committing"}
      BY <2>1, <2>2, <2>3
    <2>5. QED
      BY <2>4 DEF F!IsDue, F!IsActive
  <1>4. QED
    BY <1>1, <1>2, <1>3

-----------------------------------------------------------------------------
(* The import's preview (s1 rows, s2 list, s3 picks, s4 mode, s5 chunks,   *)
(* s6 picker, s7 found, s8 outcome).                                       *)

(* Titles are numbers above zero, and the bounds are numbers.              *)
LEMMA PreviewBounds == Titles \subseteq Nat \ {0} /\ MostRows \in Nat /\ Chunk \in Nat \ {0}
  BY PagesAssumption DEF P!PreviewAssumption

(* The page counts with the usual cardinality.                             *)
LEMMA PreviewCount == ASSUME NEW set PROVE P!Cardinality(set) = Cardinality(set)
  BY DEF P!Cardinality, Cardinality

(* Drawing more of a section leaves what was drawn of it. *)
LEMMA PreviewDrawn ==
    ASSUME P!PreviewTypes, UNCHANGED s1, s5' \in [P!Sections -> Nat],
           \A s \in P!Sections : s5[s] <= s5'[s]
    PROVE  P!OnScreen \subseteq P!OnScreen'
  <1>1. PICK n \in Nat : DOMAIN s1 = 1 .. n
    <2>1. PICK n \in 0 .. MostRows : s1 \in [1 .. n -> P!AnyRow]
      BY DEF P!PreviewTypes
    <2>2. DOMAIN s1 = 1 .. n /\ n \in Nat
      BY <2>1, PreviewBounds
    <2>3. QED
      BY <2>2
  <1>2. ASSUME NEW s \in P!Sections
        PROVE  P!Drawn(s) \subseteq {r \in P!Section(s) :
                                       P!Cardinality({q \in P!Section(s) : q < r}) < s5'[s]}
    <2>1. SUFFICES ASSUME NEW r \in P!Section(s), NEW c, c = P!Cardinality({q \in P!Section(s) : q < r}),
                          c < s5[s]
                   PROVE  c < s5'[s]
      BY DEF P!Drawn
    <2>2. {q \in P!Section(s) : q < r} \subseteq 1 .. n
      BY <1>1 DEF P!Section, P!Row
    <2>3. c \in Nat
      BY <2>1, <2>2, UpTo, PreviewCount
    <2>4. s5[s] \in Nat /\ s5'[s] \in Nat /\ s5[s] <= s5'[s]
      BY DEF P!PreviewTypes
    <2>5. QED
      BY <2>1, <2>3, <2>4
  <1>3. ASSUME NEW s \in P!Sections
        PROVE  P!Drawn(s)' = {r \in P!Section(s) :
                                P!Cardinality({q \in P!Section(s) : q < r}) < s5'[s]}
    BY DEF P!Drawn, P!Section, P!Row
  <1>4. "review" \in P!Sections /\ "matched" \in P!Sections
    BY DEF P!Sections
  <1>5. P!Drawn("review") \subseteq P!Drawn("review")'
    BY <1>2, <1>3, <1>4
  <1>6. P!Drawn("matched") \subseteq P!Drawn("matched")'
    BY <1>2, <1>3, <1>4
  <1>7. QED
    BY <1>5, <1>6 DEF P!OnScreen

(* Every step keeps the invariant, ...                                     *)
LEMMA PreviewStep ==
    ASSUME P!PreviewInv, P!Next
    PROVE  P!PreviewInv'
  <1>1. /\ P!PreviewTypes /\ P!OnlyReviewedLackTitles /\ P!PickedAreDrawn /\ P!PickerIsDrawn
        /\ s2 \subseteq Titles /\ s4 \in {"merge", "overwrite"} /\ s5 \in [P!Sections -> Nat]
        /\ s6 \in [row : 0 .. MostRows, typed : P!Words, q : P!Words]
        /\ s7 \in [of : P!Words, fetching : BOOLEAN]
    BY DEF P!PreviewInv, P!PreviewTypes
  <1>2. PICK n \in 0 .. MostRows : /\ s1 \in [1 .. n -> P!AnyRow]
                                   /\ s3 \in [1 .. n -> {P!Untouched, P!NoTitle} \cup Titles]
    BY <1>1 DEF P!PreviewTypes
  <1>3. P!Closed \in [row : 0 .. MostRows, typed : P!Words, q : P!Words]
        /\ P!NotFound \in [of : P!Words, fetching : BOOLEAN]
    BY PreviewBounds DEF P!Closed, P!NotFound, P!Words
  (* Once there are rows a step leaves them, and what is drawn. *)
  <1>4. ASSUME UNCHANGED s1, s5' \in [P!Sections -> Nat], \A s \in P!Sections : s5[s] <= s5'[s],
               s3' \in [1 .. n -> {P!Untouched, P!NoTitle} \cup Titles],
               \A r \in 1 .. n : s3'[r] = s3[r] \/ s3'[r] = P!Untouched \/ r \in P!OnScreen,
               s2' \subseteq Titles, s4' \in {"merge", "overwrite"},
               s6' \in [row : 0 .. MostRows, typed : P!Words, q : P!Words],
               s7' \in [of : P!Words, fetching : BOOLEAN],
               s6' = P!Closed \/ s6'.row \in P!OnScreen
        PROVE  P!PreviewInv'
    <2>1. P!OnScreen \subseteq P!OnScreen'
      BY <1>1, <1>4, PreviewDrawn
    <2>2. P!PreviewTypes'
      BY <1>2, <1>4 DEF P!PreviewTypes, P!AnyRow, P!Untouched, P!NoTitle
    <2>3. P!OnlyReviewedLackTitles'
      BY <1>1, <1>4 DEF P!OnlyReviewedLackTitles, P!Row
    <2>4. P!PickedAreDrawn'
      <3>1. \A r \in 1 .. n : s3[r] # P!Untouched => r \in P!OnScreen
        BY <1>1, <1>2 DEF P!PickedAreDrawn, P!Row
      <3>2. \A r \in 1 .. n : s3'[r] # P!Untouched => r \in P!OnScreen'
        BY <1>4, <2>1, <3>1
      <3>3. P!Row' = 1 .. n
        BY <1>2, <1>4 DEF P!Row
      <3>4. QED
        BY <3>2, <3>3 DEF P!PickedAreDrawn, P!Untouched
    <2>5. P!PickerIsDrawn'
      BY <1>4, <2>1 DEF P!PickerIsDrawn, P!Closed
    <2>6. QED
      BY <2>2, <2>3, <2>4, <2>5 DEF P!PreviewInv
  <1>5. CASE P!Preview
    <2>1. PICK m \in 1 .. MostRows, listed \in SUBSET Titles :
            /\ s2' = listed
            /\ s1' \in [1 .. m -> {P!RowOf(k, t, listed) : k \in {"id", "title", "review"}, t \in Titles}]
            /\ s3' = [r \in 1 .. m |-> P!Untouched]
      BY <1>5 DEF P!Preview
    <2>2. UNCHANGED <<s4, s5, s6, s7>> /\ s1 = <<>>
      BY <1>5 DEF P!Preview, P!NoRows
    <2>3. P!OnScreen = {}
      BY <2>2 DEF P!OnScreen, P!Drawn, P!Section, P!Row
    <2>4. s6 = P!Closed
      BY <1>1, <2>3 DEF P!PickerIsDrawn
    <2>5. ASSUME NEW k \in {"id", "title", "review"}, NEW t \in Titles
          PROVE  /\ P!RowOf(k, t, listed) \in P!AnyRow
                 /\ P!RowOf(k, t, listed).match = "review" <=> P!RowOf(k, t, listed).title = P!NoTitle
      <3>1. PICK b \in BOOLEAN : b = (k # "review" /\ t \in listed)
        OBVIOUS
      <3>2. t # 0
        BY PreviewBounds
      <3>3. P!RowOf(k, t, listed) = [match |-> k, title |-> IF k = "review" THEN 0 ELSE t, onList |-> b]
        BY <3>1 DEF P!RowOf, P!NoTitle
      <3>4. QED
        BY <3>2, <3>3 DEF P!AnyRow, P!NoTitle
    <2>6. \A r \in 1 .. m : s1'[r] \in P!AnyRow
                            /\ (s1'[r].match = "review" <=> s1'[r].title = P!NoTitle)
      BY <2>1, <2>5
    <2>7. s1' \in [1 .. m -> P!AnyRow] /\ m \in 0 .. MostRows
      BY <2>1, <2>6, PreviewBounds
    <2>8. s3' \in [1 .. m -> {P!Untouched, P!NoTitle} \cup Titles]
      BY <2>1
    <2>9. P!PreviewTypes'
      BY <1>1, <2>1, <2>2, <2>7, <2>8 DEF P!PreviewTypes, P!AnyRow, P!Untouched, P!NoTitle
    <2>10. P!OnlyReviewedLackTitles' /\ P!PickedAreDrawn'
      BY <2>1, <2>6, <2>7 DEF P!OnlyReviewedLackTitles, P!PickedAreDrawn, P!Row, P!NoTitle, P!Untouched
    <2>11. P!PickerIsDrawn'
      BY <2>2, <2>4 DEF P!PickerIsDrawn, P!Closed
    <2>12. QED
      BY <2>9, <2>10, <2>11 DEF P!PreviewInv
  <1>6. s6 = P!Closed \/ s6.row \in P!OnScreen
    BY <1>1 DEF P!PickerIsDrawn
  <1>7. \A s \in P!Sections : s5[s] <= s5[s]
    BY <1>1
  <1>8. CASE P!SetMode
    BY <1>1, <1>2, <1>4, <1>6, <1>7, <1>8 DEF P!SetMode
  <1>9. \A r \in P!OnScreen : r \in 1 .. n /\ r \in 0 .. MostRows
    BY <1>2, PreviewBounds DEF P!OnScreen, P!Drawn, P!Section, P!Row
  <1>10. CASE P!Type
    <2>1. PICK w \in P!Words : s6' = [s6 EXCEPT !.typed = w]
      BY <1>10 DEF P!Type
    <2>2. s6 # P!Closed /\ UNCHANGED <<s1, s2, s3, s4, s5, s7>>
      BY <1>10 DEF P!Type
    <2>3. s6' \in [row : 0 .. MostRows, typed : P!Words, q : P!Words] /\ s6'.row = s6.row
      BY <1>1, <2>1
    <2>4. QED
      BY <1>1, <1>2, <1>4, <1>6, <1>7, <2>2, <2>3
  <1>11. CASE P!Debounce
    <2>1. s6' = [s6 EXCEPT !.q = s6.typed] /\ s6 # P!Closed /\ UNCHANGED <<s1, s2, s3, s4, s5>>
      BY <1>11 DEF P!Debounce
    <2>2. PICK b \in BOOLEAN : b = (s6.typed # "")
      OBVIOUS
    <2>3. s7' = [s7 EXCEPT !.fetching = b]
      BY <1>11, <2>2 DEF P!Debounce
    <2>4. s6' \in [row : 0 .. MostRows, typed : P!Words, q : P!Words] /\ s6'.row = s6.row
      BY <1>1, <2>1
    <2>5. s7' \in [of : P!Words, fetching : BOOLEAN]
      BY <1>1, <2>3
    <2>6. QED
      BY <1>1, <1>2, <1>4, <1>6, <1>7, <2>1, <2>4, <2>5
  <1>12. CASE P!Found
    <2>1. s7' = [of |-> s6.q, fetching |-> FALSE] /\ UNCHANGED <<s1, s2, s3, s4, s5, s6>>
      BY <1>12 DEF P!Found
    <2>2. s7' \in [of : P!Words, fetching : BOOLEAN]
      BY <1>1, <2>1
    <2>3. QED
      BY <1>1, <1>2, <1>4, <1>6, <1>7, <2>1, <2>2
  <1>13. CASE P!ClosePicker
    BY <1>1, <1>2, <1>3, <1>4, <1>7, <1>13 DEF P!ClosePicker
  <1>14. CASE P!ListChanges
    <2>1. s2' \subseteq Titles /\ UNCHANGED <<s1, s3, s4, s5, s6, s7>>
      BY <1>1, <1>14 DEF P!ListChanges
    <2>2. QED
      BY <1>1, <1>2, <1>4, <1>6, <1>7, <2>1
  <1>15. CASE P!Apply
    <2>1. UNCHANGED <<s1, s2, s3, s4, s5, s6, s7>>
      BY <1>15 DEF P!Apply
    <2>2. QED
      BY <1>1, <1>2, <1>4, <1>6, <1>7, <2>1
  <1>16. ASSUME NEW s \in P!Sections, P!ShowMore(s) PROVE P!PreviewInv'
    <2>1. s5' = [s5 EXCEPT ![s] = @ + 2 * Chunk] /\ UNCHANGED <<s1, s2, s3, s4, s6, s7>>
      BY <1>16 DEF P!ShowMore
    <2>2. s5' \in [P!Sections -> Nat] /\ \A o \in P!Sections : s5[o] <= s5'[o]
      BY <1>1, <2>1, PreviewBounds
    <2>3. QED
      BY <1>1, <1>2, <1>4, <1>6, <2>1, <2>2
  <1>17. ASSUME NEW r \in 1 .. n, r \in P!OnScreen,
                NEW t \in {P!Untouched, P!NoTitle} \cup Titles, s3' = [s3 EXCEPT ![r] = t],
                UNCHANGED <<s1, s2, s4, s5>>,
                (UNCHANGED <<s6, s7>>) \/ (s6' = P!Closed /\ s7' = P!NotFound)
         PROVE  P!PreviewInv'
    <2>1. s3' \in [1 .. n -> {P!Untouched, P!NoTitle} \cup Titles]
          /\ \A q \in 1 .. n : s3'[q] = s3[q] \/ s3'[q] = P!Untouched \/ q \in P!OnScreen
      BY <1>2, <1>17
    <2>2. QED
      BY <1>1, <1>3, <1>4, <1>6, <1>7, <1>17, <2>1
  <1>18. ASSUME NEW r \in P!Row, P!Exclude(r) \/ P!ClearPick(r) PROVE P!PreviewInv'
    <2>1. r \in P!OnScreen /\ UNCHANGED <<s1, s2, s4, s5, s6, s7>>
      BY <1>18 DEF P!Exclude, P!ClearPick, P!OnScreen
    <2>2. PICK t \in {P!Untouched, P!NoTitle} \cup Titles : s3' = [s3 EXCEPT ![r] = t]
      BY <1>18 DEF P!Exclude, P!ClearPick
    <2>3. QED
      BY <1>9, <1>17, <2>1, <2>2
  <1>19. ASSUME NEW r \in P!Row, P!OpenPicker(r) PROVE P!PreviewInv'
    <2>1. r \in P!OnScreen /\ UNCHANGED <<s1, s2, s3, s4, s5>>
          /\ s6' = [row |-> r, typed |-> "a", q |-> "a"] /\ s7' = [of |-> "", fetching |-> TRUE]
      BY <1>19 DEF P!OpenPicker, P!OnScreen
    <2>2. s6' \in [row : 0 .. MostRows, typed : P!Words, q : P!Words] /\ s6'.row = r
          /\ s7' \in [of : P!Words, fetching : BOOLEAN]
      BY <1>9, <2>1 DEF P!Words
    <2>3. QED
      BY <1>1, <1>2, <1>4, <1>7, <2>1, <2>2
  <1>20. ASSUME NEW t \in Titles, P!Pick(t) PROVE P!PreviewInv'
    <2>1. s3' = [s3 EXCEPT ![s6.row] = t] /\ s6' = P!Closed /\ s7' = P!NotFound
          /\ UNCHANGED <<s1, s2, s4, s5>> /\ s6 # P!Closed
      BY <1>20 DEF P!Pick, P!Listing
    <2>2. PICK r \in 1 .. n : r = s6.row /\ r \in P!OnScreen
      BY <1>6, <1>9, <2>1
    <2>3. QED
      BY <1>17, <2>1, <2>2
  <1>21. QED
    BY <1>5, <1>8, <1>10, <1>11, <1>12, <1>13, <1>14, <1>15, <1>16, <1>18, <1>19, <1>20 DEF P!Next

(* ... it holds at first, ...                                              *)
LEMMA PreviewInit ==
    ASSUME P!Init
    PROVE  P!PreviewInv
  <1>1. s1 = <<>> /\ s3 = <<>> /\ s6 = P!Closed /\ s7 = P!NotFound /\ s2 = {} /\ s4 = "merge"
        /\ s5 = [s \in P!Sections |-> Chunk]
    BY DEF P!Init, P!NoRows
  <1>2. s1 \in [1 .. 0 -> P!AnyRow] /\ s3 \in [1 .. 0 -> {P!Untouched, P!NoTitle} \cup Titles]
        /\ 0 \in 0 .. MostRows
    BY <1>1, PreviewBounds
  <1>3. P!Closed \in [row : 0 .. MostRows, typed : P!Words, q : P!Words]
        /\ P!NotFound \in [of : P!Words, fetching : BOOLEAN]
    BY PreviewBounds DEF P!Closed, P!NotFound, P!Words
  <1>4. s5 \in [P!Sections -> Nat]
    BY <1>1, PreviewBounds
  <1>5. P!PreviewTypes
    BY <1>1, <1>2, <1>3, <1>4 DEF P!PreviewTypes
  <1>6. P!Row = {}
    BY <1>1 DEF P!Row
  <1>7. QED
    BY <1>1, <1>5, <1>6 DEF P!PreviewInv, P!OnlyReviewedLackTitles, P!PickedAreDrawn, P!PickerIsDrawn

(* ... and a step of nothing keeps it.                                     *)
LEMMA PreviewStays ==
    ASSUME P!PreviewInv, UNCHANGED <<s1, s2, s3, s4, s5, s6, s7, s8>>
    PROVE  P!PreviewInv'
  <1>1. \A s \in P!Sections : s5[s] <= s5'[s]
    BY DEF P!PreviewInv, P!PreviewTypes
  <1>2. P!OnScreen \subseteq P!OnScreen'
    BY <1>1, PreviewDrawn DEF P!PreviewInv, P!PreviewTypes
  <1>3. P!PreviewTypes' /\ P!OnlyReviewedLackTitles'
    BY DEF P!PreviewInv, P!PreviewTypes, P!OnlyReviewedLackTitles, P!Row, P!AnyRow, P!Untouched, P!NoTitle
  <1>4. P!PickedAreDrawn' /\ P!PickerIsDrawn'
    BY <1>2 DEF P!PreviewInv, P!PickedAreDrawn, P!PickerIsDrawn, P!Row, P!Untouched, P!Closed
  <1>5. QED
    BY <1>3, <1>4 DEF P!PreviewInv

(* Each row has one fate of the summary's, the one a commit gives it.      *)
LEMMA PreviewFates ==
    ASSUME NEW r \in P!Row
    PROVE  /\ P!Fate(r) \in {"excluded", "unresolved", "kept", "importing"}
           /\ P!Fate(r) = "excluded" <=> s3[r] = P!NoTitle
           /\ P!Fate(r) = "unresolved" <=> s3[r] = P!Untouched /\ s1[r].match = "review"
           /\ P!Fate(r) = "kept" <=> s3[r] = P!Untouched /\ s1[r].match # "review" /\ s4 = "merge"
                                     /\ s1[r].onList
           /\ P!Target(r) = IF s3[r] = P!Untouched THEN s1[r].title ELSE s3[r]
  <1>1. P!NoTitle # P!Untouched
    BY DEF P!NoTitle, P!Untouched
  <1>2. P!Target(r) = IF s3[r] = P!Untouched THEN s1[r].title ELSE s3[r]
    BY DEF P!Target, P!Resolutions
  <1>3. CASE s3[r] = P!NoTitle
    BY <1>1, <1>2, <1>3 DEF P!Fate
  <1>4. CASE s3[r] = P!Untouched /\ s1[r].match = "review"
    BY <1>1, <1>2, <1>4 DEF P!Fate
  <1>5. CASE s3[r] = P!Untouched /\ s1[r].match # "review" /\ s4 = "merge" /\ s1[r].onList
    BY <1>1, <1>2, <1>5 DEF P!Fate
  <1>6. CASE /\ s3[r] # P!NoTitle
             /\ ~(s3[r] = P!Untouched /\ s1[r].match = "review")
             /\ ~(s3[r] = P!Untouched /\ s1[r].match # "review" /\ s4 = "merge" /\ s1[r].onList)
    <2>1. P!Fate(r) = "importing"
      BY <1>6 DEF P!Fate
    <2>2. QED
      BY <1>2, <1>6, <2>1
  <1>7. QED
    BY <1>3, <1>4, <1>5, <1>6

(* So the summary counts what a commit writes.                             *)
LEMMA PreviewHolds ==
    ASSUME P!PreviewInv
    PROVE  P!TypeOK /\ P!SummaryIsHonest
  <1>1. P!PreviewTypes /\ P!OnlyReviewedLackTitles /\ P!PickedAreDrawn
    BY DEF P!PreviewInv
  <1>2. PICK n \in Nat : /\ P!Row = 1 .. n
                         /\ \A r \in 1 .. n : s3[r] \in {P!Untouched, P!NoTitle} \cup Titles
    <2>1. PICK n \in 0 .. MostRows : /\ s1 \in [1 .. n -> P!AnyRow]
                                     /\ s3 \in [1 .. n -> {P!Untouched, P!NoTitle} \cup Titles]
      BY <1>1 DEF P!PreviewTypes
    <2>2. n \in Nat
      BY PreviewBounds
    <2>3. QED
      BY <2>1, <2>2 DEF P!Row
  <1>3. P!TypeOK
    BY <1>1, <1>2 DEF P!TypeOK, P!PreviewTypes
  <1> DEFINE importing == {r \in P!Row : P!Fate(r) = "importing"}
             asSeen == \A r \in P!Row : s1[r].match # "review" => (s1[r].onList <=> s1[r].title \in s2)
             plain == \A r \in P!Row : P!Fate(r) = "importing" =>
                        /\ s3[r] # P!Untouched /\ s4 = "merge" => P!Target(r) \notin s2
                        /\ \A q \in P!Row \ {r} : P!Target(q) # P!Target(r)
  <1>4. \A r \in P!Row : P!Fate(r) \in {"excluded", "unresolved"} => r \notin P!Applied
    <2>1. SUFFICES ASSUME NEW r \in P!Row, P!Fate(r) \in {"excluded", "unresolved"}
                   PROVE  P!Target(r) = P!NoTitle
      BY DEF P!Applied
    <2>2. s3[r] = P!NoTitle \/ (s3[r] = P!Untouched /\ s1[r].title = P!NoTitle)
      BY <1>1, <2>1, PreviewFates DEF P!OnlyReviewedLackTitles
    <2>3. P!NoTitle # P!Untouched
      BY DEF P!NoTitle, P!Untouched
    <2>4. QED
      BY <2>2, <2>3, PreviewFates
  <1>5. asSeen => P!Applied \subseteq importing
    <2>1. SUFFICES ASSUME asSeen, NEW r \in P!Row, r \in P!Applied
                   PROVE  P!Fate(r) = "importing"
      BY DEF P!Applied
    <2>2. P!Fate(r) # "kept"
      <3>1. SUFFICES ASSUME s3[r] = P!Untouched, s1[r].match # "review", s4 = "merge", s1[r].onList
                     PROVE  FALSE
        BY PreviewFates
      <3>2. P!Target(r) \in s2
        BY <2>1, <3>1, PreviewFates
      <3>3. QED
        BY <2>1, <3>1, <3>2 DEF P!Applied
    <2>3. QED
      BY <1>4, <2>1, <2>2, PreviewFates
  <1>6. asSeen /\ plain => importing \subseteq P!Applied
    <2>1. SUFFICES ASSUME asSeen, plain, NEW r \in P!Row, P!Fate(r) = "importing"
                   PROVE  r \in P!Applied
      OBVIOUS
    <2>2. P!Target(r) # P!NoTitle
      <3>1. CASE s3[r] = P!Untouched
        <4>1. s1[r].match # "review"
          BY <2>1, <3>1, PreviewFates
        <4>2. QED
          BY <1>1, <3>1, <4>1, PreviewFates DEF P!OnlyReviewedLackTitles
      <3>2. CASE s3[r] # P!Untouched
        <4>1. s3[r] # P!NoTitle
          BY <2>1, PreviewFates
        <4>2. QED
          BY <3>2, <4>1, PreviewFates
      <3>3. QED
        BY <3>1, <3>2
    <2>3. ASSUME NEW q \in P!Row, q < r PROVE P!Target(q) # P!Target(r)
      <3>1. q # r
        BY <1>2, <2>3
      <3>2. QED
        BY <2>1, <3>1
    <2>4. ~(s4 = "merge" /\ P!Target(r) \in s2)
      <3>1. SUFFICES ASSUME s4 = "merge", s3[r] = P!Untouched PROVE P!Target(r) \notin s2
        BY <2>1
      <3>2. s1[r].match # "review" /\ ~s1[r].onList
        BY <2>1, <3>1, PreviewFates
      <3>3. QED
        BY <2>1, <3>1, <3>2, PreviewFates
    <2>5. QED
      BY <2>2, <2>3, <2>4 DEF P!Applied
  <1>7. asSeen => P!Cardinality(P!Applied) <= P!Count("importing")
    <2>1. SUFFICES ASSUME P!Applied \subseteq importing
                   PROVE  Cardinality(P!Applied) <= Cardinality(importing)
      BY <1>5, PreviewCount DEF P!Count
    <2>2. IsFiniteSet(importing)
      BY <1>2, UpTo
    <2>3. QED
      BY <2>1, <2>2, FS_Subset
  <1>8. asSeen /\ plain => P!Cardinality(P!Applied) = P!Count("importing")
    <2>1. SUFFICES ASSUME P!Applied = importing
                   PROVE  P!Cardinality(P!Applied) = P!Count("importing")
      BY <1>5, <1>6
    <2>2. QED
      BY <2>1 DEF P!Count
  <1>9. \A r \in P!Row : s3[r] # P!Untouched => r \in P!Drawn("review") \cup P!Drawn("matched")
    BY <1>1 DEF P!PickedAreDrawn, P!OnScreen
  <1>10. P!SummaryIsHonest
    BY <1>4, <1>7, <1>8, <1>9 DEF P!SummaryIsHonest
  <1>11. QED
    BY <1>3, <1>10

-----------------------------------------------------------------------------
(* The first picks (s1 onList, s3 typed, s4 query, s5 search, s6           *)
(* drawnFrom, s7 picked, s8 seed, s9 said, s10 at).                        *)

(* A search put at one text, and the others as they were.                  *)
LEMMA SeedSearch ==
    ASSUME NEW f \in [O!Texts -> O!AnySearch], NEW q \in O!Texts, NEW a \in O!AnySearch
    PROVE  /\ [f EXCEPT ![q] = a] \in [O!Texts -> O!AnySearch]
           /\ \A r \in O!Texts : [f EXCEPT ![q] = a][r] = IF r = q THEN a ELSE f[r]
  OBVIOUS

(* What matches a text is in the catalog.                                  *)
LEMMA SeedMatches == \A q \in O!Texts : O!Matches(q) \subseteq Catalog
  BY DEF O!Texts, O!Matches

(* Every step keeps the types, and answered searches keep their matches.   *)
LEMMA SeedTypesStep ==
    ASSUME O!SeedInv, O!Next
    PROVE  O!SeedTypes' /\ O!SearchesAnswered'
  <1>1. /\ s1 \subseteq Catalog /\ s3 \in O!Texts /\ s4 \in O!Texts /\ s6 \in O!Texts
        /\ s5 \in [O!Texts -> O!AnySearch]
        /\ s7 \subseteq Catalog /\ O!IsFiniteSet(s7)
        /\ s8 \in [on : BOOLEAN, sent : SUBSET Catalog, done : SUBSET Catalog, failed : SUBSET Catalog]
        /\ O!IsFiniteSet(s8.sent) /\ s10 \in {"welcome", "home"}
    BY DEF O!SeedInv, O!SeedTypes
  <1>2. /\ \A q \in O!Texts : s5[q].has => s5[q].at = "none" /\ s5[q].data = O!Matches(q)
        /\ s4 # "" /\ ~s5[s4].has => s5[s4].at \in {"asked", "failed"}
    BY DEF O!SeedInv, O!SearchesAnswered, O!Searching
  <1>3. ASSUME UNCHANGED <<s4, s5>>
        PROVE  O!SearchesAnswered'
    BY <1>2, <1>3 DEF O!SearchesAnswered, O!Searching
  <1>4. ASSUME UNCHANGED <<s1, s3, s4, s5, s6, s8>>, s10' \in {"welcome", "home"},
               s7' \subseteq Catalog, O!IsFiniteSet(s7)'
        PROVE  O!SeedTypes' /\ O!SearchesAnswered'
    BY <1>1, <1>3, <1>4 DEF O!SeedTypes
  <1>5. ASSUME UNCHANGED <<s3, s4, s5, s6, s7>>, s10' \in {"welcome", "home"}, s1' \subseteq Catalog,
               s8' \in [on : BOOLEAN, sent : SUBSET Catalog, done : SUBSET Catalog, failed : SUBSET Catalog],
               s8'.sent \in {s7, s8.sent}
        PROVE  O!SeedTypes' /\ O!SearchesAnswered'
    <2>1. O!IsFiniteSet(s8.sent)'
      <3>1. PICK set : set = s8'.sent /\ O!IsFiniteSet(set)
        BY <1>1, <1>5
      <3>2. QED
        BY <3>1 DEF O!IsFiniteSet
    <2>2. O!IsFiniteSet(s7)'
      BY <1>1, <1>5
    <2>3. QED
      BY <1>1, <1>3, <1>5, <2>1, <2>2 DEF O!SeedTypes
  <1>6. ASSUME UNCHANGED <<s1, s3, s7, s8, s10>>, s4' \in O!Texts, s6' \in O!Texts,
               s5' \in [O!Texts -> O!AnySearch]
        PROVE  O!SeedTypes'
    BY <1>1, <1>6 DEF O!SeedTypes
  <1>7. CASE O!SwitchTab \/ O!Skip
    BY <1>1, <1>4, <1>7 DEF O!SwitchTab, O!Skip
  <1>8. CASE O!TypeQuery
    <2>1. s3' \in O!Texts /\ UNCHANGED <<s1, s4, s5, s6, s7, s8, s10>>
      BY <1>8 DEF O!TypeQuery
    <2>2. QED
      BY <1>1, <1>3, <2>1 DEF O!SeedTypes
  <1>9. CASE O!Settle
    <2>1. /\ s4' = s3 /\ UNCHANGED <<s1, s3, s7, s8, s10>> /\ s6' \in {s3, s6}
          /\ s5' = IF s3 # "" /\ ~s5[s3].has THEN [s5 EXCEPT ![s3].at = "asked"] ELSE s5
      BY <1>9 DEF O!Settle
    <2>2. CASE s3 # "" /\ ~s5[s3].has
      <3>1. PICK a : a = [s5[s3] EXCEPT !.at = "asked"]
        OBVIOUS
      <3>2. s5[s3] \in O!AnySearch
        BY <1>1
      <3>3. a \in O!AnySearch /\ a.at = "asked" /\ ~a.has
        BY <2>2, <3>1, <3>2 DEF O!AnySearch
      <3>4. s5' = [s5 EXCEPT ![s3] = a]
        BY <2>1, <2>2, <3>1
      <3>5. /\ s5' \in [O!Texts -> O!AnySearch]
            /\ \A r \in O!Texts : s5'[r] = IF r = s3 THEN a ELSE s5[r]
        BY <1>1, <3>3, <3>4, SeedSearch
      <3>6. \A q \in O!Texts : s5'[q].has => s5'[q].at = "none" /\ s5'[q].data = O!Matches(q)
        BY <1>2, <3>3, <3>5
      <3>7. s5'[s4'].at = "asked"
        BY <1>1, <2>1, <3>3, <3>5
      <3>8. O!SearchesAnswered'
        BY <3>6, <3>7 DEF O!SearchesAnswered
      <3>9. QED
        BY <1>1, <1>6, <2>1, <3>5, <3>8
    <2>3. CASE ~(s3 # "" /\ ~s5[s3].has)
      <3>1. s5' = s5
        BY <2>1, <2>3
      <3>2. O!SearchesAnswered'
        BY <1>2, <2>1, <2>3, <3>1 DEF O!SearchesAnswered, O!Searching
      <3>3. QED
        BY <1>1, <1>6, <2>1, <3>1, <3>2
    <2>4. QED
      BY <2>2, <2>3
  <1>10. ASSUME NEW q \in O!Texts, O!SearchArrives(q)
         PROVE  O!SeedTypes' /\ O!SearchesAnswered'
    <2>1. PICK a : a = [at |-> "none", has |-> TRUE, data |-> O!Matches(q)]
      OBVIOUS
    <2>2. a \in O!AnySearch /\ a.at = "none" /\ a.has /\ a.data = O!Matches(q)
      BY <2>1, SeedMatches DEF O!AnySearch
    <2>3. /\ s5' = [s5 EXCEPT ![q] = a] /\ UNCHANGED <<s1, s3, s4, s7, s8, s10>> /\ s6' \in {q, s6}
      BY <1>10, <2>1 DEF O!SearchArrives
    <2>4. /\ s5' \in [O!Texts -> O!AnySearch]
          /\ \A r \in O!Texts : s5'[r] = IF r = q THEN a ELSE s5[r]
      BY <1>1, <2>2, <2>3, SeedSearch
    <2>5. \A r \in O!Texts : s5'[r].has => s5'[r].at = "none" /\ s5'[r].data = O!Matches(r)
      BY <1>2, <2>2, <2>4
    <2>6. s4' # "" /\ ~s5'[s4'].has => s5'[s4'].at \in {"asked", "failed"}
      BY <1>1, <1>2, <2>2, <2>3, <2>4
    <2>7. O!SearchesAnswered'
      BY <2>5, <2>6 DEF O!SearchesAnswered, O!Searching
    <2>8. QED
      BY <1>1, <1>6, <2>3, <2>4, <2>7
  <1>11. ASSUME NEW q \in O!Texts, O!SearchFails(q)
         PROVE  O!SeedTypes' /\ O!SearchesAnswered'
    <2>1. PICK a : a = [s5[q] EXCEPT !.at = "failed"]
      OBVIOUS
    <2>2. s5[q] \in O!AnySearch /\ s5[q].at = "asked" /\ ~s5[q].has
      BY <1>1, <1>2, <1>11 DEF O!SearchFails, O!AnySearch
    <2>3. a \in O!AnySearch /\ a.at = "failed" /\ ~a.has
      BY <2>1, <2>2 DEF O!AnySearch
    <2>4. s5' = [s5 EXCEPT ![q] = a] /\ UNCHANGED <<s1, s3, s4, s6, s7, s8, s10>>
      BY <1>11, <2>1 DEF O!SearchFails
    <2>5. /\ s5' \in [O!Texts -> O!AnySearch]
          /\ \A r \in O!Texts : s5'[r] = IF r = q THEN a ELSE s5[r]
      BY <1>1, <2>3, <2>4, SeedSearch
    <2>6. \A r \in O!Texts : s5'[r].has => s5'[r].at = "none" /\ s5'[r].data = O!Matches(r)
      BY <1>2, <2>3, <2>5
    <2>7. s4' # "" /\ ~s5'[s4'].has => s5'[s4'].at \in {"asked", "failed"}
      BY <1>1, <1>2, <2>3, <2>4, <2>5
    <2>8. O!SearchesAnswered'
      BY <2>6, <2>7 DEF O!SearchesAnswered, O!Searching
    <2>9. QED
      BY <1>1, <1>6, <2>4, <2>5, <2>8
  <1>12. CASE O!Toggle
    <2>1. PICK s \in O!PickerGrid.tiles : s7' = IF s \in s7 THEN s7 \ {s} ELSE s7 \cup {s}
      BY <1>12 DEF O!Toggle
    <2>2. s \in Catalog
      <3>1. s6 \in O!Texts /\ s5[s4] \in O!AnySearch /\ s5[s6] \in O!AnySearch
        BY <1>1
      <3>2. s5[s4].data \subseteq Catalog /\ s5[s6].data \subseteq Catalog
        BY <3>1 DEF O!AnySearch
      <3>3. O!Results \subseteq Catalog
        BY <3>2 DEF O!Results
      <3>4. O!Items \subseteq Catalog
        BY <3>3 DEF O!Items, O!Browse
      <3>5. O!PickerGrid.tiles \subseteq Catalog
        BY <3>4 DEF O!PickerGrid
      <3>6. QED
        BY <2>1, <3>5
    <2>3. IsFiniteSet(s7)
      BY <1>1 DEF O!IsFiniteSet, IsFiniteSet
    <2>4. IsFiniteSet(s7')
      BY <2>1, <2>3, FS_AddElement, FS_RemoveElement
    <2>5. O!IsFiniteSet(s7)'
      BY <2>4 DEF O!IsFiniteSet, IsFiniteSet
    <2>6. UNCHANGED <<s1, s3, s4, s5, s6, s8, s10>>
      BY <1>12 DEF O!Toggle
    <2>7. s7' \subseteq Catalog
      BY <1>1, <2>1, <2>2
    <2>8. QED
      BY <1>1, <1>4, <2>5, <2>6, <2>7
  <1>13. CASE O!Finish
    <2>1. s8' = [on |-> TRUE, sent |-> s7, done |-> {}, failed |-> {}]
          /\ UNCHANGED <<s1, s3, s4, s5, s6, s7, s10>>
      BY <1>13 DEF O!Finish, O!NoWrites
    <2>2. QED
      BY <1>1, <1>5, <2>1
  <1>14. ASSUME NEW s \in Catalog, O!WriteEntry(s) \/ O!WriteFails(s)
         PROVE  O!SeedTypes' /\ O!SearchesAnswered'
    <2>1. s8' \in [on : BOOLEAN, sent : SUBSET Catalog, done : SUBSET Catalog, failed : SUBSET Catalog]
          /\ s8'.sent = s8.sent
      BY <1>1, <1>14 DEF O!WriteEntry, O!WriteFails
    <2>2. s1' \subseteq Catalog /\ UNCHANGED <<s3, s4, s5, s6, s7, s10>>
      BY <1>1, <1>14 DEF O!WriteEntry, O!WriteFails
    <2>3. QED
      BY <1>1, <1>5, <2>1, <2>2
  <1>15. CASE O!Settled
    <2>1. s8' \in [on : BOOLEAN, sent : SUBSET Catalog, done : SUBSET Catalog, failed : SUBSET Catalog]
          /\ s8'.sent = s8.sent
      BY <1>1, <1>15 DEF O!Settled
    <2>2. s10' = "home" /\ UNCHANGED <<s1, s3, s4, s5, s6, s7>>
      BY <1>15 DEF O!Settled
    <2>3. QED
      BY <1>1, <1>5, <2>1, <2>2
  <1>16. QED
    BY <1>7, <1>8, <1>9, <1>10, <1>11, <1>12, <1>13, <1>14, <1>15 DEF O!Next

(* The counts of the writes and of the list are those of finite sets, the  *)
(* first no more than the second.                                          *)
LEMMA SeedCount ==
    ASSUME O!SeedInv
    PROVE  /\ IsFiniteSet(s8.sent) /\ IsFiniteSet(s8.done) /\ IsFiniteSet(s1)
           /\ O!Count(s8) = Cardinality(s8.done) /\ Cardinality(s8.done) \in Nat
           /\ Cardinality(s8.done) = 0 <=> s8.done = {}
           /\ O!Cardinality(s1) = Cardinality(s1) /\ Cardinality(s1) \in Nat
           /\ Cardinality(s8.done) <= Cardinality(s1)
  <1>1. s8.done \subseteq s1 /\ s1 \subseteq s8.sent /\ O!IsFiniteSet(s8.sent)
    BY DEF O!SeedInv, O!SeedTypes, O!WritesCounted
  <1>2. IsFiniteSet(s8.sent)
    BY <1>1 DEF O!IsFiniteSet, IsFiniteSet
  <1>3. IsFiniteSet(s1) /\ IsFiniteSet(s8.done) /\ Cardinality(s8.done) <= Cardinality(s1)
    BY <1>1, <1>2, FS_Subset
  <1>4. /\ O!Cardinality(s1) = Cardinality(s1)
        /\ O!Cardinality(s8.done) = Cardinality(s8.done)
    BY DEF O!Cardinality, Cardinality
  <1>5. O!Count(s8) = Cardinality(s8.done)
    BY <1>4 DEF O!Count
  <1>6. Cardinality(s8.done) = 0 <=> s8.done = {}
    BY <1>3, FS_EmptySet
  <1>7. QED
    BY <1>2, <1>3, <1>4, <1>5, <1>6, FS_CardinalityType

(* Every step keeps the writes counted.                                    *)
LEMMA SeedWritesStep ==
    ASSUME O!SeedInv, O!Next
    PROVE  O!WritesCounted'
  <1>1. /\ s8.done \subseteq s1 /\ s1 \subseteq s8.sent /\ s8.failed \subseteq s8.sent
        /\ s8.done \cap s8.failed = {}
        /\ s8.on => s10 = "welcome"
        /\ s10 = "welcome" => s9 = {}
        /\ s10 = "welcome" /\ ~s8.on => s8.sent = {}
        /\ s10 # "welcome" => s8.sent = s8.done \cup s8.failed
        /\ s10 # "welcome" => s9 = IF s8.done = {} THEN {} ELSE {O!Count(s8)}
    BY DEF O!SeedInv, O!WritesCounted, O!None, O!Open
  <1>2. /\ s8 \in [on : BOOLEAN, sent : SUBSET Catalog, done : SUBSET Catalog, failed : SUBSET Catalog]
        /\ s10 \in {"welcome", "home"}
    BY DEF O!SeedInv, O!SeedTypes
  <1>3. CASE UNCHANGED <<s1, s8, s9, s10>>
    <2>1. O!Count(s8)' = O!Count(s8)
      BY <1>3 DEF O!Count, O!Cardinality
    <2>2. QED
      BY <1>1, <1>3, <2>1 DEF O!WritesCounted, O!None, O!Open
  <1>4. CASE O!Finish
    <2>1. s8' = [on |-> TRUE, sent |-> s7, done |-> {}, failed |-> {}]
          /\ UNCHANGED <<s1, s9, s10>> /\ s10 = "welcome" /\ ~s8.on
      BY <1>4 DEF O!Finish, O!NoWrites, O!Open
    <2>2. s8'.on /\ s8'.sent = s7 /\ s8'.done = {} /\ s8'.failed = {}
      BY <2>1
    <2>3. s1' = {} /\ s9' = {} /\ s10' = "welcome"
      BY <1>1, <2>1
    <2>4. QED
      BY <2>2, <2>3 DEF O!WritesCounted, O!None, O!Open
  <1>5. ASSUME NEW s \in Catalog, O!WriteEntry(s)
        PROVE  O!WritesCounted'
    <2>1. s8.on /\ s \in s8.sent /\ s \notin s8.failed /\ s1' = s1 \cup {s} /\ UNCHANGED <<s9, s10>>
      BY <1>5 DEF O!WriteEntry, O!Pending
    <2>2. s8'.on = s8.on /\ s8'.sent = s8.sent /\ s8'.done = s8.done \cup {s} /\ s8'.failed = s8.failed
      BY <1>2, <1>5 DEF O!WriteEntry
    <2>3. s10 = "welcome" /\ s9 = {}
      BY <1>1, <2>1
    <2>4. s8'.done \subseteq s1' /\ s1' \subseteq s8'.sent /\ s8'.failed \subseteq s8'.sent
          /\ s8'.done \cap s8'.failed = {}
      BY <1>1, <2>1, <2>2
    <2>5. s8'.on /\ s10' = "welcome" /\ s9' = {}
      BY <2>1, <2>2, <2>3
    <2>6. QED
      BY <2>4, <2>5 DEF O!WritesCounted, O!None, O!Open
  <1>6. ASSUME NEW s \in Catalog, O!WriteFails(s)
        PROVE  O!WritesCounted'
    <2>1. s8.on /\ s \in s8.sent /\ s \notin s8.done /\ s1' \in {s1, s1 \cup {s}} /\ UNCHANGED <<s9, s10>>
      BY <1>6 DEF O!WriteFails, O!Pending
    <2>2. s8'.on = s8.on /\ s8'.sent = s8.sent /\ s8'.done = s8.done /\ s8'.failed = s8.failed \cup {s}
      BY <1>2, <1>6 DEF O!WriteFails
    <2>3. s10 = "welcome" /\ s9 = {}
      BY <1>1, <2>1
    <2>4. s8'.done \subseteq s1' /\ s1' \subseteq s8'.sent /\ s8'.failed \subseteq s8'.sent
          /\ s8'.done \cap s8'.failed = {}
      BY <1>1, <2>1, <2>2
    <2>5. s8'.on /\ s10' = "welcome" /\ s9' = {}
      BY <2>1, <2>2, <2>3
    <2>6. QED
      BY <2>4, <2>5 DEF O!WritesCounted, O!None, O!Open
  <1>7. CASE O!Settled
    <2>1. /\ s8.on /\ s8.sent \ (s8.done \cup s8.failed) = {} /\ s10' = "home" /\ s1' = s1
          /\ s8' = [s8 EXCEPT !.on = FALSE]
          /\ s9' = IF O!Count(s8) > 0 THEN {O!Count(s8)} ELSE s9
      BY <1>7 DEF O!Settled, O!Pending
    <2>2. ~s8'.on /\ s8'.sent = s8.sent /\ s8'.done = s8.done /\ s8'.failed = s8.failed
      BY <1>2, <2>1
    <2>3. s9 = {}
      BY <1>1, <2>1
    <2>4. O!Count(s8) > 0 <=> s8.done # {}
      BY SeedCount
    <2>5. O!Count(s8)' = O!Count(s8)
      BY <2>2 DEF O!Count, O!Cardinality
    <2>6. s9' = IF s8'.done = {} THEN {} ELSE {O!Count(s8)'}
      BY <2>1, <2>2, <2>3, <2>4, <2>5
    <2>7. s8'.sent = s8'.done \cup s8'.failed
      BY <1>1, <2>1, <2>2
    <2>8. QED
      BY <1>1, <2>1, <2>2, <2>6, <2>7 DEF O!WritesCounted, O!None, O!Open
  <1>8. CASE O!Skip
    <2>1. s10 = "welcome" /\ ~s8.on /\ s10' = "home" /\ UNCHANGED <<s1, s8, s9>>
      BY <1>8 DEF O!Skip, O!Open
    <2>2. s8.sent = {} /\ s8.done = {} /\ s8.failed = {} /\ s1 = {} /\ s9 = {}
      BY <1>1, <2>1
    <2>3. QED
      BY <2>1, <2>2 DEF O!WritesCounted, O!None, O!Open
  <1>9. CASE O!SwitchTab \/ O!TypeQuery \/ O!Settle \/ O!Toggle
    BY <1>3, <1>9 DEF O!SwitchTab, O!TypeQuery, O!Settle, O!Toggle
  <1>10. ASSUME NEW q \in O!Texts, O!SearchArrives(q) \/ O!SearchFails(q)
         PROVE  O!WritesCounted'
    BY <1>3, <1>10 DEF O!SearchArrives, O!SearchFails
  <1>11. QED
    BY <1>4, <1>5, <1>6, <1>7, <1>8, <1>9, <1>10 DEF O!Next

(* They hold at first, ...                                                 *)
LEMMA SeedInit ==
    ASSUME O!Init
    PROVE  O!SeedInv
  <1>1. /\ s1 = {} /\ s3 = "" /\ s4 = "" /\ s6 = "" /\ s7 = {} /\ s9 = {} /\ s10 = "welcome"
        /\ s8 = [on |-> FALSE, sent |-> {}, done |-> {}, failed |-> {}]
        /\ s5 = [q \in O!Texts |-> [at |-> "none", has |-> FALSE, data |-> {}]]
    BY DEF O!Init, O!NoWrites, O!Fresh, O!None
  <1>2. s5 \in [O!Texts -> O!AnySearch] /\ \A q \in O!Texts : ~s5[q].has
    BY <1>1 DEF O!AnySearch
  <1>3. s8 \in [on : BOOLEAN, sent : SUBSET Catalog, done : SUBSET Catalog, failed : SUBSET Catalog]
    BY <1>1
  <1>4. O!IsFiniteSet(s7) /\ O!IsFiniteSet(s8.sent)
    <2>1. IsFiniteSet({})
      BY FS_EmptySet
    <2>2. O!IsFiniteSet({})
      BY <2>1 DEF O!IsFiniteSet, IsFiniteSet
    <2>3. s8.sent = {}
      BY <1>1
    <2>4. QED
      BY <1>1, <2>2, <2>3
  <1>5. O!SeedTypes
    BY <1>1, <1>2, <1>3, <1>4 DEF O!SeedTypes, O!Texts
  <1>6. O!SearchesAnswered
    BY <1>1, <1>2 DEF O!SearchesAnswered, O!Searching
  <1>7. O!WritesCounted
    BY <1>1 DEF O!WritesCounted, O!Open, O!None
  <1>8. QED
    BY <1>5, <1>6, <1>7 DEF O!SeedInv

(* ... every step keeps them, ...                                          *)
LEMMA SeedStep ==
    ASSUME O!SeedInv, O!Next
    PROVE  O!SeedInv'
  BY SeedTypesStep, SeedWritesStep DEF O!SeedInv

(* ... so does a step of nothing, ...                                      *)
LEMMA SeedStays ==
    ASSUME O!SeedInv, UNCHANGED <<s1, s2, s3, s4, s5, s6, s7, s8, s9, s10, s11>>
    PROVE  O!SeedInv'
  <1>1. O!SeedTypes'
    BY DEF O!SeedInv, O!SeedTypes, O!IsFiniteSet
  <1>2. O!SearchesAnswered'
    BY DEF O!SeedInv, O!SearchesAnswered, O!Searching
  <1>3. O!WritesCounted'
    BY DEF O!SeedInv, O!WritesCounted, O!None, O!Open, O!Count, O!Cardinality
  <1>4. QED
    BY <1>1, <1>2, <1>3 DEF O!SeedInv

(* ... and they say what the page promises.                                *)
LEMMA SeedHolds ==
    ASSUME O!SeedInv
    PROVE  O!TypeOK /\ O!SeedIsHonest
  <1>1. /\ s8.done \subseteq s1 /\ s1 \subseteq s8.sent /\ s8.failed \subseteq s8.sent
        /\ s8.done \cap s8.failed = {}
        /\ s10 = "welcome" => s9 = {}
        /\ s10 # "welcome" => s8.sent = s8.done \cup s8.failed
        /\ s10 # "welcome" => s9 = IF s8.done = {} THEN {} ELSE {O!Count(s8)}
    BY DEF O!SeedInv, O!WritesCounted, O!None, O!Open
  <1>2. O!TypeOK
    BY DEF O!SeedInv, O!SeedTypes, O!TypeOK
  <1>3. \A n \in s9 : n <= O!Cardinality(s1) /\ (s8.failed = {} => n = O!Cardinality(s1))
    <2>1. SUFFICES ASSUME NEW n \in s9
                   PROVE  n <= O!Cardinality(s1) /\ (s8.failed = {} => n = O!Cardinality(s1))
      OBVIOUS
    <2>2. n = Cardinality(s8.done) /\ s8.sent = s8.done \cup s8.failed
      BY <1>1, <2>1, SeedCount
    <2>3. s8.failed = {} => s1 = s8.done
      BY <1>1, <2>2
    <2>4. QED
      BY <2>2, <2>3, SeedCount
  <1>4. s10 = "home" /\ s8.sent # {} /\ s9 = O!None => s8.failed = s8.sent
    <2>1. ASSUME s10 = "home", s9 = {}
          PROVE  s8.done = {}
      BY <1>1, <2>1
    <2>2. QED
      BY <1>1, <2>1 DEF O!None
  <1>5. /\ s4 \in O!Texts
        /\ s5[s4].has => s5[s4].data = O!Matches(s4)
        /\ s4 # "" /\ ~s5[s4].has => s5[s4].at \in {"asked", "failed"}
    BY DEF O!SeedInv, O!SeedTypes, O!SearchesAnswered, O!Searching
  <1>6. s5[s4].has => s5[s4].at = "none"
    BY <1>5 DEF O!SeedInv, O!SearchesAnswered
  <1>7. O!Searching /\ s5[s4].has => O!PickerGrid.tiles = O!Matches(s4)
    <2>1. ASSUME O!Searching, s5[s4].has
          PROVE  O!PickerGrid.tiles = O!Matches(s4)
      <3>1. ~O!Loading
        BY <1>6, <2>1 DEF O!Loading
      <3>2. O!Items = O!Matches(s4)
        BY <1>5, <2>1 DEF O!Items, O!Results
      <3>3. QED
        BY <3>1, <3>2 DEF O!PickerGrid
    <2>2. QED
      BY <2>1
  <1>8. O!PickerGrid.says = "no results" => O!Matches(s4) = {} \/ s5[s4].at = "failed"
    <2>1. ASSUME O!PickerGrid.says = "no results"
          PROVE  O!Matches(s4) = {} \/ s5[s4].at = "failed"
      <3>1. ~O!Loading /\ O!Items = {} /\ O!Searching
        BY <2>1 DEF O!PickerGrid
      <3>2. O!Results = {} /\ s5[s4].at # "asked" /\ s4 # ""
        BY <3>1 DEF O!Items, O!Loading, O!Searching
      <3>3. CASE s5[s4].has
        BY <1>5, <3>2, <3>3 DEF O!Results
      <3>4. CASE ~s5[s4].has
        BY <1>5, <3>2, <3>4
      <3>5. QED
        BY <3>3, <3>4
    <2>2. QED
      BY <2>1
  <1>9. s1 \subseteq s8.sent
    BY <1>1
  <1>10. QED
    BY <1>2, <1>3, <1>4, <1>7, <1>8, <1>9 DEF O!SeedIsHonest

-----------------------------------------------------------------------------
(* The pages together: the invariant of the one that is open holds at      *)
(* first, ...                                                              *)
LEMMA ListsBegin ==
    ASSUME PagesInit \/ page \notin Pages
    PROVE  ListsInv
  <1>1. CASE page = "tracker" /\ T!Init
    <2>1. T!TrackerInv
      BY <1>1, TrackerInit
    <2>2. QED
      BY <1>1, <2>1 DEF ListsInv
  <1>2. CASE page = "heart" /\ H!Init
    <2>1. H!HeartInv
      BY <1>2, HeartInit
    <2>2. QED
      BY <1>2, <2>1 DEF ListsInv
  <1>3. CASE page = "flow" /\ F!Init
    <2>1. F!FlowInv
      BY <1>3, FlowInit
    <2>2. QED
      BY <1>3, <2>1 DEF ListsInv
  <1>4. CASE page = "preview" /\ P!Init
    <2>1. P!PreviewInv
      BY <1>4, PreviewInit
    <2>2. QED
      BY <1>4, <2>1 DEF ListsInv
  <1>5. CASE page = "welcome" /\ O!Init
    <2>1. O!SeedInv
      BY <1>5, SeedInit
    <2>2. QED
      BY <1>5, <2>1 DEF ListsInv
  <1>6. CASE page \notin {"tracker", "heart", "flow", "preview", "welcome"}
    BY <1>6 DEF ListsInv
  <1>7. QED
    BY <1>1, <1>2, <1>3, <1>4, <1>5, <1>6 DEF PagesInit, Pages

(* ... every step of that page keeps it, and a step of another page leaves *)
(* these closed, ...                                                       *)
LEMMA ListsStep ==
    ASSUME ListsInv, PagesNext \/ (page \notin Pages /\ page' = page)
    PROVE  ListsInv'
  <1>1. CASE page = "tracker" /\ T!Next /\ page' = page
    <2>1. T!TrackerInv
      BY <1>1 DEF ListsInv
    <2>2. T!TrackerInv'
      BY <1>1, <2>1, TrackerStep
    <2>3. QED
      BY <1>1, <2>2 DEF ListsInv
  <1>2. CASE page = "heart" /\ H!Next /\ page' = page
    <2>1. H!HeartInv
      BY <1>2 DEF ListsInv
    <2>2. H!HeartInv'
      BY <1>2, <2>1, HeartStep
    <2>3. QED
      BY <1>2, <2>2 DEF ListsInv
  <1>3. CASE page = "flow" /\ F!Next /\ page' = page
    <2>1. F!FlowInv
      BY <1>3 DEF ListsInv
    <2>2. F!FlowInv'
      BY <1>3, <2>1, FlowStep
    <2>3. QED
      BY <1>3, <2>2 DEF ListsInv
  <1>4. CASE page = "preview" /\ P!Next /\ page' = page
    <2>1. P!PreviewInv
      BY <1>4 DEF ListsInv
    <2>2. P!PreviewInv'
      BY <1>4, <2>1, PreviewStep
    <2>3. QED
      BY <1>4, <2>2 DEF ListsInv
  <1>5. CASE page = "welcome" /\ O!Next /\ page' = page
    <2>1. O!SeedInv
      BY <1>5 DEF ListsInv
    <2>2. O!SeedInv'
      BY <1>5, <2>1, SeedStep
    <2>3. QED
      BY <1>5, <2>2 DEF ListsInv
  <1>6. CASE page' = page /\ page \notin {"tracker", "heart", "flow", "preview", "welcome"}
    BY <1>6 DEF ListsInv
  <1>7. QED
    BY <1>1, <1>2, <1>3, <1>4, <1>5, <1>6 DEF PagesNext, Pages

(* ... and so does a step that changes nothing.                            *)
LEMMA ListsStay ==
    ASSUME ListsInv, UNCHANGED allVars
    PROVE  ListsInv'
  <1>0. UNCHANGED <<page, s1, s2, s3, s4, s5, s6, s7, s8, s9, s10, s11, s12, s13>>
    BY DEF allVars
  <1>1. page = "tracker" => T!TrackerInv'
    BY <1>0, TrackerStays DEF ListsInv
  <1>2. page = "heart" => H!HeartInv'
    BY <1>0, HeartStays DEF ListsInv
  <1>3. page = "flow" => F!FlowInv'
    BY <1>0, FlowStays DEF ListsInv
  <1>4. page = "preview" => P!PreviewInv'
    BY <1>0, PreviewStays DEF ListsInv
  <1>5. page = "welcome" => O!SeedInv'
    BY <1>0, SeedStays DEF ListsInv
  <1>6. QED
    BY <1>0, <1>1, <1>2, <1>3, <1>4, <1>5 DEF ListsInv

(* So the open page keeps its invariant, whatever the others do.           *)
THEOREM ListsKeep == PagesSpec => []ListsInv
  <1>1. PagesInit \/ page \notin Pages => ListsInv
    BY ListsBegin
  <1>2. ListsInv /\ [PagesNext \/ (page \notin Pages /\ page' = page)]_allVars => ListsInv'
    BY ListsStep, ListsStay
  <1>3. QED
    BY <1>1, <1>2, PTL DEF PagesSpec

(* Once nothing is in flight the tracker's screens and the favourite's     *)
(* heart show what is stored; no import is waited for in vain or           *)
(* forgotten, its summary counts what a commit writes, and the first picks *)
(* are counted as they were written.                                       *)
THEOREM ListsAreHonest == PagesSpec => []ListsHonest
  <1>1. ASSUME ListsInv
        PROVE  ListsHonest
    <2>1. page = "tracker" => T!ScreensSettle
      BY <1>1, TrackerHolds DEF ListsInv
    <2>2. page = "heart" => H!HeartIsTrue
      BY <1>1, HeartHolds DEF ListsInv
    <2>3. page = "flow" => F!SpinnersEnd /\ F!NothingStranded
      BY <1>1, FlowHolds DEF ListsInv
    <2>4. page = "preview" => P!SummaryIsHonest
      BY <1>1, PreviewHolds DEF ListsInv
    <2>5. page = "welcome" => O!SeedIsHonest
      BY <1>1, SeedHolds DEF ListsInv
    <2>6. QED
      BY <2>1, <2>2, <2>3, <2>4, <2>5 DEF ListsHonest
  <1>2. ListsInv => ListsHonest
    BY <1>1
  <1>3. QED
    BY <1>2, ListsKeep, PTL

(* A tap on +1, on Watched or on an episode never lowers the progress,     *)
(* unless a cause was noted.                                               *)
THEOREM TapsDoRaise == PagesSpec => TapsRaise
  <1>1. ListsInv => (page = "tracker" => T!TapRaises)
    BY TrackerTaps DEF ListsInv
  <1>2. QED
    BY <1>1, ListsKeep, PTL DEF TapsRaise
=============================================================================
