-------------------------- MODULE SocialPageProofs --------------------------
(***************************************************************************)
(* Proofs about the pages on which viewers meet, for any values of their   *)
(* constants: a thread's room, its blur and its reactions, friends, a      *)
(* conversation, notifications, helpful votes and reviews. Each has an     *)
(* invariant in its own module, shown here to hold at first, to be kept by *)
(* every step and to imply what the page promises. A page's variables are  *)
(* slots of WebPages, so each part says which slot is which.               *)
(***************************************************************************)
EXTENDS WebPages, FiniteSetTheorems, FunctionTheorems, TLAPS

(* Any set of numbers from 1 up to n is finite, with at most n members.    *)
LEMMA UpTo ==
    ASSUME NEW n \in Nat, NEW set, set \subseteq 1 .. n
    PROVE  IsFiniteSet(set) /\ Cardinality(set) \in 0 .. n
  <1>1. IsFiniteSet(1 .. n) /\ Cardinality(1 .. n) = n
    BY FS_Interval
  <1>2. IsFiniteSet(set) /\ Cardinality(set) <= n
    BY <1>1, FS_Subset
  <1>3. QED
    BY <1>2, FS_CardinalityType

-----------------------------------------------------------------------------
(* A thread's room (s1 thread, s2 shown, s3 sort, s4 atEdge, s5 newCount,  *)
(* s6 unread, s7 draft, s8 typed, s9 posting, s10 posts, s11 repeated, s12 *)
(* sent, s13 fails).                                                       *)

(* The Cardinality ThreadRoom sees is the one the library proves about.    *)
LEMMA RoomCard ==
    ASSUME NEW set
    PROVE  R!Cardinality(set) = Cardinality(set)
  BY DEF R!Cardinality, Cardinality

(* Every step keeps the types.                                             *)
LEMMA RoomTypesStep ==
    ASSUME R!RoomTypes, R!Next
    PROVE  R!RoomTypes'
  <1> USE DEF R!RoomTypes, R!Shown, R!Sorts
  <1>1. CASE R!OtherPosts
    BY <1>1 DEF R!OtherPosts, R!writing
  <1>2. CASE R!Deliver
    <2>1. s2 < Len(s1) /\ s2' = s2 + 1 /\ s6' \in {s6, s6 \cup {s2 + 1}}
          /\ UNCHANGED <<s1, s3, s4, s7, s8, s9, s10, s11, s12>>
      BY <1>2 DEF R!Deliver, R!writing
    <2>2. s2' \in 0 .. Len(s1) /\ s6' \subseteq 1 .. s2'
      <3>1. s2 \in Nat /\ Len(s1) \in Nat /\ s6 \subseteq 1 .. s2
        OBVIOUS
      <3>2. s2' \in 0 .. Len(s1) /\ 1 .. s2 \subseteq 1 .. s2' /\ s2 + 1 \in 1 .. s2'
        BY <2>1, <3>1
      <3>3. QED
        BY <2>1, <3>1, <3>2
    <2>3. QED
      BY <2>1, <2>2
  <1>3. CASE R!Scroll \/ R!ChangeSort
    BY <1>3 DEF R!Scroll, R!ChangeSort, R!SeeEdge, R!writing
  <1>4. CASE R!ShowLatest
    BY <1>4 DEF R!ShowLatest, R!writing
  <1>5. CASE R!TypeText
    BY <1>5 DEF R!TypeText, R!reading
  <1>6. CASE R!TypeStamp \/ R!ReplyOrCancel
    <2>1. UNCHANGED <<s1, s2, s3, s4, s6, s8, s9, s10, s11, s12>>
      BY <1>6 DEF R!TypeStamp, R!ReplyOrCancel, R!reading
    <2>2. CASE R!TypeStamp
      BY <2>1, <2>2 DEF R!TypeStamp
    <2>3. CASE R!ReplyOrCancel
      BY <2>1, <2>3 DEF R!ReplyOrCancel
    <2>4. QED
      BY <1>6, <2>2, <2>3
  <1>7. ASSUME NEW by \in {"button", "keys"}, R!Post(by)
        PROVE  R!RoomTypes'
    <2>1. PICK p : /\ p = [n |-> s12, text |-> s7.text, stamped |-> s7.stamp = "good", at |-> "sent"]
                   /\ s10' = s10 \cup {p}
      BY <1>7 DEF R!Post
    <2>2. p \in [n : Nat, text : 1 .. s8, stamped : BOOLEAN, at : {"sent", "served"}]
      BY <1>7, <2>1 DEF R!Post
    <2>3. s11' \in BOOLEAN /\ s9' \in BOOLEAN /\ s12' \in Nat
      BY <1>7 DEF R!Post
    <2>4. QED
      BY <1>7, <2>1, <2>2, <2>3 DEF R!Post, R!reading
  <1>8. ASSUME NEW p \in s10, R!ServePost(p)
        PROVE  R!RoomTypes'
    <2>1. PICK now : now = [p EXCEPT !.at = "served"]
      OBVIOUS
    <2>2. PICK new : new = [by |-> "me", text |-> p.text, stamped |-> p.stamped]
      OBVIOUS
    <2>3. p \in [n : Nat, text : 1 .. s8, stamped : BOOLEAN, at : {"sent", "served"}]
      OBVIOUS
    <2>4. now \in [n : Nat, text : 1 .. s8, stamped : BOOLEAN, at : {"sent", "served"}]
      BY <2>1, <2>3
    <2>5. new \in [by : {"me", "other"}, text : Nat, stamped : BOOLEAN]
      BY <2>2, <2>3
    <2>6. s10' = (s10 \ {p}) \cup {now} /\ s1' = Append(s1, new)
          /\ UNCHANGED <<s2, s3, s4, s6, s7, s8, s9, s11, s12>>
      BY <1>8, <2>1, <2>2 DEF R!ServePost
    <2>7. s1' \in Seq([by : {"me", "other"}, text : Nat, stamped : BOOLEAN]) /\ Len(s1') = Len(s1) + 1
      BY <2>5, <2>6
    <2>8. s2' \in 0 .. Len(s1')
      BY <2>6, <2>7
    <2>9. \A q \in s10' : q \in [n : Nat, text : 1 .. s8, stamped : BOOLEAN, at : {"sent", "served"}]
      BY <2>4, <2>6
    <2>10. QED
      BY <2>6, <2>7, <2>8, <2>9
  <1>9. ASSUME NEW p \in s10, R!PostAnswered(p) \/ R!PostFails(p)
        PROVE  R!RoomTypes'
    <2>1. s7' \in [text : 0 .. s8, stamp : {"none", "good", "bad"}, reply : BOOLEAN]
      <3>1. CASE s7' = s7
        BY <3>1
      <3>2. CASE s7' = [text |-> 0, stamp |-> "none", reply |-> FALSE]
        BY <3>2
      <3>3. QED
        BY <1>9, <3>1, <3>2 DEF R!PostAnswered, R!PostFails, R!NoDraft
    <2>2. s11' \in BOOLEAN /\ s9' \in BOOLEAN /\ s10' \subseteq s10
      BY <1>9 DEF R!PostAnswered, R!PostFails
    <2>3. UNCHANGED <<R!reading, s8, s12>>
      BY <1>9 DEF R!PostAnswered, R!PostFails
    <2>4. QED
      BY <2>1, <2>2, <2>3 DEF R!reading
  <1>10. QED
    BY <1>1, <1>2, <1>3, <1>4, <1>5, <1>6, <1>7, <1>8, <1>9 DEF R!Next

(* Every step keeps the pill counting what is unread.                      *)
LEMMA RoomCountStep ==
    ASSUME R!RoomTypes, R!Counted, R!Next
    PROVE  R!Counted'
  <1>0. s5 = Cardinality(s6)
    BY RoomCard DEF R!Counted
  <1> SUFFICES s5' = Cardinality(s6')
    BY RoomCard DEF R!Counted
  <1>1. CASE UNCHANGED <<s5, s6>>
    BY <1>0, <1>1
  <1>2. CASE s5' = 0 /\ s6' = {}
    BY <1>2, FS_EmptySet
  <1>3. CASE R!Deliver
    <2>1. IsFiniteSet(s6) /\ s2 + 1 \notin s6
      <3>1. s2 \in Nat /\ s6 \subseteq 1 .. s2
        BY DEF R!RoomTypes, R!Shown
      <3>2. IsFiniteSet(s6)
        BY <3>1, UpTo
      <3>3. QED
        BY <3>1, <3>2
    <2>2. Cardinality(s6 \cup {s2 + 1}) = Cardinality(s6) + 1
      BY <2>1, FS_AddElement
    <2>3. QED
      BY <1>0, <1>1, <1>3, <2>2 DEF R!Deliver, R!Following
  <1>4. QED
    BY <1>1, <1>2, <1>3 DEF R!Next, R!OtherPosts, R!Scroll, R!ChangeSort, R!SeeEdge, R!ShowLatest,
       R!TypeText, R!TypeStamp, R!ReplyOrCancel, R!Post, R!ServePost, R!PostAnswered, R!PostFails, R!reading

(* Every step keeps a text on the thread once.                             *)
LEMMA RoomOnceStep ==
    ASSUME R!RoomTypes, R!OncePosted, R!Next
    PROVE  R!OncePosted'
  <1> SUFFICES ASSUME ~s11'
               PROVE  R!OncePosted'
    BY DEF R!OncePosted
  <1>1. CASE UNCHANGED R!writing /\ R!Mine' = R!Mine /\ \A i \in R!Mine : s1'[i] = s1[i]
    BY <1>1 DEF R!OncePosted, R!writing
  <1>2. CASE R!OtherPosts
    <2>1. R!Mine' = R!Mine /\ \A i \in R!Mine : s1'[i] = s1[i]
      BY <1>2 DEF R!OtherPosts, R!Mine, R!RoomTypes
    <2>2. QED
      BY <1>1, <1>2, <2>1 DEF R!OtherPosts, R!writing
  <1>3. CASE R!Deliver \/ R!Scroll \/ R!ChangeSort \/ R!ShowLatest
    BY <1>1, <1>3 DEF R!Deliver, R!Scroll, R!ChangeSort, R!ShowLatest, R!Mine
  <1>4. CASE R!TypeText
    BY <1>4 DEF R!TypeText, R!OncePosted, R!Mine, R!reading, R!RoomTypes
  <1>5. CASE R!TypeStamp \/ R!ReplyOrCancel
    <2>1. s7'.text = s7.text
      BY <1>5 DEF R!TypeStamp, R!ReplyOrCancel, R!RoomTypes
    <2>2. UNCHANGED <<s1, s8, s9, s10, s11>>
      BY <1>5 DEF R!TypeStamp, R!ReplyOrCancel, R!reading
    <2>3. QED
      BY <2>1, <2>2 DEF R!OncePosted, R!Mine
  <1>6. ASSUME NEW by \in {"button", "keys"}, R!Post(by)
        PROVE  R!OncePosted'
    <2>1. s10 = {} /\ ~s11
      BY <1>6 DEF R!Post, R!OncePosted
    <2>2. QED
      BY <1>6, <2>1 DEF R!Post, R!OncePosted, R!Mine, R!reading
  <1>7. ASSUME NEW p \in s10, R!ServePost(p)
        PROVE  R!OncePosted'
    <2>1. /\ ~s11 /\ p.at = "sent" /\ s10' = {[p EXCEPT !.at = "served"]}
          /\ \A i \in R!Mine : s1[i].text # p.text
      BY <1>7 DEF R!ServePost, R!OncePosted
    <2>2. [p EXCEPT !.at = "served"].at = "served" /\ [p EXCEPT !.at = "served"].text = p.text
          /\ p.text \in 1 .. s8
      BY DEF R!RoomTypes
    <2>3. R!Mine' = R!Mine \cup {Len(s1) + 1} /\ s1'[Len(s1) + 1].text = p.text
          /\ \A i \in R!Mine : s1'[i] = s1[i]
      BY <1>7 DEF R!ServePost, R!Mine, R!RoomTypes
    <2>4. PICK q : q = [p EXCEPT !.at = "served"]
      OBVIOUS
    <2>5. \A i, j \in R!Mine' : s1'[i].text = s1'[j].text => i = j
      BY <2>1, <2>3 DEF R!OncePosted
    <2>6. \A i \in R!Mine' : s1'[i].text \in 1 .. s8
      BY <2>1, <2>2, <2>3 DEF R!OncePosted
    <2>7. \A i \in R!Mine' : s1'[i].text = s7.text => q.text = s7.text
      BY <2>1, <2>2, <2>3, <2>4 DEF R!OncePosted
    <2>8. UNCHANGED <<s7, s8, s9, s11>> /\ s9
      BY <1>7, <2>1 DEF R!ServePost, R!OncePosted
    <2>9. s10' = {q} /\ q.at = "served"
      BY <2>1, <2>2, <2>4
    <2>10. QED
      BY <2>5, <2>6, <2>7, <2>8, <2>9 DEF R!OncePosted
  <1>8. ASSUME NEW p \in s10, R!PostAnswered(p)
        PROVE  R!OncePosted'
    BY <1>8 DEF R!PostAnswered, R!OncePosted, R!Mine, R!NoDraft, R!reading
  <1>9. ASSUME NEW p \in s10, R!PostFails(p)
        PROVE  R!OncePosted'
    <2>1. ~s11 /\ p.at # "served" /\ s10' = {}
      BY <1>9 DEF R!PostFails, R!OncePosted
    <2>2. QED
      BY <1>9, <2>1 DEF R!PostFails, R!OncePosted, R!Mine, R!reading
  <1>10. QED
    BY <1>2, <1>3, <1>4, <1>5, <1>6, <1>7, <1>8, <1>9 DEF R!Next

(* They hold at first, ...                                                 *)
LEMMA RoomInit ==
    ASSUME R!Init
    PROVE  R!RoomInv
  <1>2. R!RoomTypes
    <2>1. s7 \in [text : 0 .. s8, stamp : {"none", "good", "bad"}, reply : BOOLEAN]
      BY DEF R!Init, R!NoDraft
    <2>2. s6 \subseteq R!Shown /\ s2 \in 0 .. Len(s1)
      BY DEF R!Init, R!Shown
    <2>3. s1 \in Seq([by : {"me", "other"}, text : Nat, stamped : BOOLEAN])
      BY DEF R!Init
    <2>4. s10 = {} /\ s8 \in Nat /\ s12 \in Nat /\ s3 \in R!Sorts
      BY DEF R!Init, R!Sorts
    <2>5. s4 \in BOOLEAN /\ s9 \in BOOLEAN /\ s11 \in BOOLEAN
      BY DEF R!Init
    <2>6. QED
      BY <2>1, <2>2, <2>3, <2>4, <2>5 DEF R!RoomTypes
  <1>3. R!OncePosted
    BY DEF R!Init, R!OncePosted, R!Mine
  <1>4. R!Counted
    BY FS_EmptySet, RoomCard DEF R!Init, R!Counted
  <1>5. QED
    BY <1>2, <1>3, <1>4 DEF R!RoomInv

(* ... every step keeps them, ...                                          *)
LEMMA RoomStep ==
    ASSUME R!RoomInv, R!Next
    PROVE  R!RoomInv'
  <1>1. R!RoomTypes /\ R!Counted /\ R!OncePosted
    BY DEF R!RoomInv
  <1>2. R!RoomTypes' /\ R!Counted' /\ R!OncePosted'
    BY <1>1, RoomTypesStep, RoomCountStep, RoomOnceStep
  <1>3. QED
    BY <1>2 DEF R!RoomInv

(* ... so does a step of nothing, ...                                      *)
LEMMA RoomStays ==
    ASSUME R!RoomInv, UNCHANGED <<s1, s2, s3, s4, s5, s6, s7, s8, s9, s10, s11, s12, s13>>
    PROVE  R!RoomInv'
  <1>1. R!RoomTypes' = R!RoomTypes /\ R!OncePosted' = R!OncePosted
    BY DEF R!RoomTypes, R!Shown, R!OncePosted, R!Mine
  <1>2. R!Counted'
    BY DEF R!RoomInv, R!Counted, R!Cardinality
  <1>3. QED
    BY <1>1, <1>2 DEF R!RoomInv

(* ... and they say what the page promises.                                *)
LEMMA RoomHolds ==
    ASSUME R!RoomInv
    PROVE  R!TypeOK /\ R!RoomIsHonest
  <1> SUFFICES ASSUME R!RoomTypes, R!Counted, R!OncePosted
               PROVE  R!TypeOK /\ R!RoomIsHonest
    BY DEF R!RoomInv
  <1>1. s2 \in Nat /\ s6 \subseteq 1 .. s2
    BY DEF R!RoomTypes, R!Shown
  <1>2. Cardinality(s6) \in 0 .. s2
    BY <1>1, UpTo
  <1>3. s5 = Cardinality(s6) /\ R!Cardinality(s6) = Cardinality(s6)
    BY RoomCard DEF R!Counted
  <1>4. R!TypeOK
    BY <1>2, <1>3 DEF R!RoomTypes, R!TypeOK
  <1>5. ~s11 => \A i, j \in DOMAIN s1 :
          s1[i].by = "me" /\ s1[j].by = "me" /\ s1[i].text = s1[j].text => i = j
    BY DEF R!OncePosted, R!Mine
  <1>6. QED
    BY <1>3, <1>4, <1>5, Zenon DEF R!RoomIsHonest

-----------------------------------------------------------------------------
(* The spoiler shield (s1 session, s2 watched, s3 entry, s4 revealed, s5   *)
(* opened).                                                                *)

(* Every step keeps the types, ...                                         *)
LEMMA ShieldStep ==
    ASSUME S!TypeOK, S!Next
    PROVE  S!TypeOK'
  <1> USE DEF S!TypeOK
  <1>1. CASE S!SessionKnown
    BY <1>1 DEF S!SessionKnown
  <1>2. CASE S!EntryRead
    BY <1>2 DEF S!EntryRead
  <1>3. CASE S!MarkWatched
    <2>1. Episode \in 0 .. Episode
      BY PagesAssumption DEF S!ShieldAssumption
    <2>2. s2' \in S!AnyRow /\ s3' = s2'
      BY <1>3, <2>1 DEF S!MarkWatched, S!AnyRow
    <2>3. QED
      BY <1>3, <2>2 DEF S!MarkWatched
  <1>4. CASE S!ToggleShield
    BY <1>4 DEF S!ToggleShield
  <1>5. CASE S!OpenGuard
    BY <1>5 DEF S!OpenGuard
  <1>6. CASE S!SeenElsewhere
    BY <1>6 DEF S!SeenElsewhere
  <1>7. QED
    BY <1>1, <1>2, <1>3, <1>4, <1>5, <1>6 DEF S!Next

(* ... which hold at first, ...                                            *)
LEMMA ShieldInit ==
    ASSUME S!Init
    PROVE  S!TypeOK
  BY DEF S!Init, S!TypeOK

(* ... and a step of nothing keeps them.                                   *)
LEMMA ShieldStays ==
    ASSUME S!TypeOK, UNCHANGED <<s1, s2, s3, s4, s5>>
    PROVE  S!TypeOK'
  BY DEF S!TypeOK

(* No reachable set of rows lifts the blur too early: that follows from    *)
(* the types.                                                              *)
LEMMA ShieldHolds ==
    ASSUME S!TypeOK
    PROVE  S!BlurHolds
  <1>1. S!Behind(s2) => s2 # S!Failed
    BY DEF S!Behind, S!Failed, S!Row
  <1>2. QED
    BY <1>1 DEF S!BlurHolds, S!Quoted, S!Readable, S!Shield

-----------------------------------------------------------------------------
(* The reaction bar (s1 mine, s2 others, s3 shown, s4 reading, s5 counted, *)
(* s6 frames, s7 calls, s8 burst, s9 stale, s10 wasted, s11 taps, s12      *)
(* crowd).                                                                 *)

(* The page counts with the usual cardinality.                             *)
LEMMA BarCard ==
    ASSUME NEW set
    PROVE  Z!Cardinality(set) = Cardinality(set)
  BY DEF Z!Cardinality, Cardinality

(* The count of a reaction after an action that takes it.                  *)
LEMMA BarCountFor ==
    ASSUME s1 \subseteq Emoji, s2 \in [Emoji -> 0 .. Crowd], NEW e \in Emoji
    PROVE  Z!CountFor(e) \in 0 .. Crowd + 1 /\ (e \in s1 => Z!CountFor(e) > 0)
  <1>1. Crowd \in Nat
    BY PagesAssumption DEF Z!ReactionAssumption
  <1>2. s2[e] \in 0 .. Crowd
    OBVIOUS
  <1>3. QED
    BY <1>1, <1>2 DEF Z!CountFor, Z!One

(* What the server answers is a bar, with each reaction's count and mark.  *)
LEMMA BarReactions ==
    ASSUME s1 \subseteq Emoji, s2 \in [Emoji -> 0 .. Crowd]
    PROVE  /\ Z!Reactions \in Z!Bar
           /\ \A e \in Emoji : Z!Reactions[e].count = Z!CountFor(e) /\ Z!Reactions[e].mine = (e \in s1)
  BY BarCountFor DEF Z!Reactions, Z!Bar

(* Every step keeps the types.                                             *)
LEMMA BarTypesStep ==
    ASSUME Z!BarTypes, Z!Next
    PROVE  Z!BarTypes'
  <1>t. Crowd \in Nat /\ MaxTaps \in Nat /\ MaxCrowd \in Nat /\ MaxMishaps \in Nat
    BY PagesAssumption DEF Z!ReactionAssumption
  <1> USE DEF Z!BarTypes
  <1>o. Z!Overtaken \in {Z!NoRead, Z!AskRead} \cup [is : {"served"}, got : Z!Bar, late : BOOLEAN]
    BY DEF Z!Overtaken, Z!NoRead, Z!AskRead
  <1>1. ASSUME NEW e \in Emoji, NEW on \in BOOLEAN, NEW at \in {"chip", "picker"}, Z!React(e, on, at)
        PROVE  Z!BarTypes'
    <2>1. \A c \in s7 : [c EXCEPT !.sure = FALSE] \in Z!Call
      BY DEF Z!Call
    <2>0. PICK b \in BOOLEAN : b = (Z!Settled /\ on # s3[e].mine)
      BY DEF Z!Settled
    <2>2. PICK d : d = [no |-> s11', emoji |-> e, on |-> on, sure |-> b, is |-> "sent"]
      OBVIOUS
    <2>3. s11' \in 0 .. MaxTaps
      BY <1>t, <1>1 DEF Z!React
    <2>4. d \in Z!Call
      <3>1. s11' \in Nat
        BY <1>t, <2>3
      <3>2. QED
        BY <2>2, <3>1 DEF Z!Call
    <2>5. \A c \in s7' : c \in Z!Call
      BY <1>1, <2>0, <2>1, <2>2, <2>4 DEF Z!React
    <2>6. s8' = Z!NoBurst \/ s8'.at \in {"chip", "picker"}
      BY <1>1 DEF Z!React
    <2>7. QED
      BY <1>1, <2>3, <2>5, <2>6 DEF Z!React, Z!stored, Z!stream
  <1>2. CASE Z!PressChip \/ Z!Pick
    BY <1>1, <1>2 DEF Z!PressChip, Z!Pick, Z!Chips, Z!Bar
  <1>3. CASE Z!BurstEnds
    BY <1>3 DEF Z!BurstEnds, Z!stored, Z!stream
  <1>4. CASE Z!ServeReact
    <2>1. PICK c \in s7 :
            /\ c.is = "sent" /\ s7' = (s7 \ {c}) \cup {[c EXCEPT !.is = "counted"]}
            /\ s1' = IF c.on THEN s1 \cup {c.emoji} ELSE s1 \ {c.emoji}
            /\ Z!Counted(c.emoji, c.no)
            /\ s10' = (s10 \/ (c.sure /\ s1' = s1))
      BY <1>4 DEF Z!ServeReact
    <2>2. c \in Z!Call /\ [c EXCEPT !.is = "counted"] \in Z!Call
      BY DEF Z!Call
    <2>3. s1' \subseteq Emoji /\ s2' = s2 /\ c.emoji \in Emoji /\ c.no \in Nat
      BY <1>4, <2>1, <2>2 DEF Z!ServeReact, Z!Call
    <2>4. Z!CountFor(c.emoji)' \in 0 .. Crowd + 1
      <3>1. (c.emoji \in s1') \in BOOLEAN /\ s2[c.emoji] \in 0 .. Crowd
        BY <2>3
      <3>2. QED
        BY <1>t, <2>3, <3>1 DEF Z!CountFor, Z!One
    <2>5. s5' \in Seq(Z!Count)
      BY <2>1, <2>3, <2>4 DEF Z!Counted, Z!Count
    <2>6. s10' \in BOOLEAN
      BY <2>1, <2>2 DEF Z!Call
    <2>7. QED
      BY <1>4, <2>1, <2>2, <2>3, <2>5, <2>6 DEF Z!ServeReact, Z!screen
  <1>5. CASE Z!Publish
    <2>1. PICK i \in DOMAIN s5 :
            /\ s6' = Append(s6, s5[i])
            /\ s5' = [j \in 1 .. Len(s5) - 1 |->
                        IF j < i THEN [s5[j] EXCEPT !.late = TRUE] ELSE s5[j + 1]]
            /\ s7' = {IF c.no = s5[i].of /\ c.is = "counted" THEN [c EXCEPT !.is = "ok"]
                      ELSE c : c \in s7}
      BY <1>5 DEF Z!Publish
    <2>2. \A c \in s7' : c \in Z!Call
      <3>1. \A c \in s7 : [c EXCEPT !.is = "ok"] \in Z!Call
        BY DEF Z!Call
      <3>2. QED
        BY <2>1, <3>1
    <2>3. s5[i] \in Z!Count
      OBVIOUS
    <2>4. s5' \in Seq(Z!Count)
      <3>1. \A j \in 1 .. Len(s5) - 1 : s5[j] \in Z!Count /\ s5[j + 1] \in Z!Count
        OBVIOUS
      <3>2. \A j \in 1 .. Len(s5) - 1 : [s5[j] EXCEPT !.late = TRUE] \in Z!Count
        BY <3>1 DEF Z!Count
      <3>3. Len(s5) - 1 \in Nat
        OBVIOUS
      <3>4. QED
        BY <2>1, <3>1, <3>2, <3>3
    <2>5. QED
      BY <1>5, <2>1, <2>2, <2>3, <2>4 DEF Z!Publish, Z!stored, Z!screen
  <1>6. CASE Z!Answered
    BY <1>6 DEF Z!Answered, Z!stored, Z!screen, Z!stream, Z!NoRead, Z!AskRead
  <1>7. CASE Z!CallFails
    <2>1. \A c \in s7' : c \in Z!Call
      BY <1>7 DEF Z!CallFails, Z!Call
    <2>2. QED
      BY <1>t, <1>o, <1>7, <2>1 DEF Z!CallFails, Z!stored, Z!screen, Z!stream
  <1>8. CASE Z!ServeRead
    <2>1. Z!Reactions \in Z!Bar
      BY BarReactions
    <2>2. QED
      BY <1>8, <2>1 DEF Z!ServeRead, Z!stored, Z!screen, Z!stream
  <1>9. CASE Z!ReadArrives
    <2>1. s4 \in [is : {"served"}, got : Z!Bar, late : BOOLEAN]
      BY <1>9 DEF Z!ReadArrives, Z!NoRead, Z!AskRead
    <2>2. QED
      BY <1>9, <2>1 DEF Z!ReadArrives, Z!stored, Z!stream, Z!NoRead
  <1>10. CASE Z!ReadFails
    BY <1>t, <1>10 DEF Z!ReadFails, Z!stored, Z!screen, Z!stream
  <1>11. CASE Z!OthersReact
    <2>1. PICK e \in Emoji :
            /\ s2' \in {[s2 EXCEPT ![e] = n] : n \in {s2[e] - 1, s2[e] + 1}}
            /\ s2'[e] \in 0 .. Crowd /\ Z!Counted(e, 0)
      BY <1>11 DEF Z!OthersReact
    <2>2. s2' \in [Emoji -> 0 .. Crowd] /\ s1' = s1
      BY <1>11, <2>1 DEF Z!OthersReact
    <2>3. Z!CountFor(e)' \in 0 .. Crowd + 1
      <3>1. (e \in s1') \in BOOLEAN /\ s2'[e] \in 0 .. Crowd
        BY <2>1
      <3>2. QED
        BY <1>t, <3>1 DEF Z!CountFor, Z!One
    <2>4. s5' \in Seq(Z!Count)
      BY <2>1, <2>3 DEF Z!Counted, Z!Count
    <2>5. QED
      BY <1>t, <1>11, <2>2, <2>4 DEF Z!OthersReact, Z!screen
  <1>12. CASE Z!Deliver
    <2>1. Head(s6) \in Z!Count /\ Tail(s6) \in Seq(Z!Count)
      BY <1>12 DEF Z!Deliver
    <2>2. s3' \in Z!Bar
      BY <1>12, <2>1 DEF Z!Deliver, Z!Bar, Z!Merged, Z!Count
    <2>3. s9' \in BOOLEAN
      BY <1>12, <2>1 DEF Z!Deliver, Z!Count, Z!Bar
    <2>4. QED
      BY <1>o, <1>12, <2>1, <2>2, <2>3 DEF Z!Deliver, Z!stored
  <1>13. QED
    BY <1>2, <1>3, <1>4, <1>5, <1>6, <1>7, <1>8, <1>9, <1>10, <1>11, <1>12 DEF Z!Next

(* A count taken is the right one to come, and the other reactions' stay.  *)
LEMMA BarCounted ==
    ASSUME Z!BarTypes, NEW e \in Emoji, NEW no, Z!Counted(e, no), s6' = s6,
           \A f \in Emoji \ {e} : Z!CountFor(f)' = Z!CountFor(f)
    PROVE  /\ Z!RightToCome(e)'
           /\ \A f \in Emoji \ {e} : /\ Z!RightToCome(f) => Z!RightToCome(f)'
                                     /\ Z!AllLate(f) => Z!AllLate(f)'
  <1>1. PICK d : /\ d = [emoji |-> e, count |-> Z!CountFor(e)', of |-> no, late |-> FALSE]
                 /\ s5' = Append(s5, d) /\ d.emoji = e /\ d.count = Z!CountFor(e)'
    BY DEF Z!Counted
  <1>2. s5 \in Seq(Z!Count)
    BY DEF Z!BarTypes
  <1>3. PICK n \in Nat : n = Len(s5)
    BY <1>2
  <1>4. /\ DOMAIN s5' = 1 .. n + 1 /\ DOMAIN s5 = 1 .. n
        /\ s5'[n + 1] = d
        /\ \A k \in 1 .. n : s5'[k] = s5[k]
    BY <1>1, <1>2, <1>3
  <1>5. Z!RightAt(s5, n + 1, e)'
    BY <1>1, <1>4 DEF Z!RightAt, Z!LateAfter
  <1>6. \A k \in Nat, f \in Emoji \ {e} : Z!LateAfter(s5, k, f) => Z!LateAfter(s5, k, f)'
    BY <1>1, <1>4 DEF Z!LateAfter
  <1>7. \A k \in Nat, f \in Emoji \ {e} : Z!LateAfter(s6, k, f)' = Z!LateAfter(s6, k, f)
    BY DEF Z!LateAfter
  <1>8. \A f \in Emoji \ {e} : \A k \in DOMAIN s5 : Z!RightAt(s5, k, f) => Z!RightAt(s5, k, f)'
    BY <1>4, <1>6 DEF Z!RightAt
  <1>9. \A f \in Emoji \ {e} : \A k \in DOMAIN s6 : Z!RightAt(s6, k, f) => Z!RightAt(s6, k, f)'
    BY <1>7 DEF Z!RightAt, Z!BarTypes
  <1>10. Z!RightToCome(e)'
    BY <1>4, <1>5 DEF Z!RightToCome
  <1>11. \A f \in Emoji \ {e} : Z!RightToCome(f) => Z!RightToCome(f)'
    BY <1>4, <1>6, <1>8, <1>9 DEF Z!RightToCome
  <1>12. QED
    BY <1>6, <1>7, <1>10, <1>11 DEF Z!AllLate

(* Publishing marks late whatever it overtakes.                            *)
LEMMA BarPublished ==
    ASSUME Z!BarTypes, Z!Publish, NEW e \in Emoji
    PROVE  /\ Z!RightToCome(e) => Z!RightToCome(e)'
           /\ Z!AllLate(e) => Z!AllLate(e)'
  <1>1. s5 \in Seq(Z!Count) /\ s6 \in Seq(Z!Count)
    BY DEF Z!BarTypes
  <1>2. PICK i \in DOMAIN s5 :
          /\ s6' = Append(s6, s5[i])
          /\ s5' = [j \in 1 .. Len(s5) - 1 |->
                      IF j < i THEN [s5[j] EXCEPT !.late = TRUE] ELSE s5[j + 1]]
    BY DEF Z!Publish
  <1>3. PICK n \in Nat : n = Len(s5)
    BY <1>1
  <1>4. PICK m \in Nat : m = Len(s6)
    BY <1>1
  <1>5. /\ DOMAIN s5 = 1 .. n /\ i \in 1 .. n
        /\ DOMAIN s5' = 1 .. n - 1
        /\ DOMAIN s6 = 1 .. m /\ DOMAIN s6' = 1 .. m + 1 /\ s6'[m + 1] = s5[i]
        /\ \A k \in 1 .. m : s6'[k] = s6[k]
    BY <1>1, <1>2, <1>3, <1>4
  <1>6. \A j \in 1 .. n - 1 :
          /\ j < i => /\ s5'[j].emoji = s5[j].emoji /\ s5'[j].count = s5[j].count
                      /\ s5'[j].late = TRUE
          /\ j >= i => s5'[j] = s5[j + 1]
    <2>1. \A j \in 1 .. n : s5[j] \in Z!Count
      BY <1>1, <1>3
    <2>2. \A c \in Z!Count : /\ [c EXCEPT !.late = TRUE].emoji = c.emoji
                             /\ [c EXCEPT !.late = TRUE].count = c.count
                             /\ [c EXCEPT !.late = TRUE].late = TRUE
      BY DEF Z!Count
    <2>3. QED
      BY <1>2, <1>3, <1>5, <2>1, <2>2
  <1>7. Z!CountFor(e)' = Z!CountFor(e)
    BY DEF Z!Publish, Z!stored, Z!CountFor
  <1>8. ASSUME NEW k \in Nat, Z!LateAfter(s5, k, e)
        PROVE  k < i => Z!LateAfter(s5, k, e)'
    <2> SUFFICES ASSUME k < i, NEW l \in 1 .. n - 1, l > k, s5'[l].emoji = e
                 PROVE  s5'[l].late
      BY <1>5 DEF Z!LateAfter
    <2>1. CASE l < i
      BY <1>6, <2>1
    <2>2. CASE l >= i
      <3>1. s5'[l] = s5[l + 1] /\ l + 1 \in 1 .. n /\ l + 1 > k
        BY <1>6, <2>2
      <3>2. QED
        BY <1>5, <1>8, <3>1 DEF Z!LateAfter
    <2>3. QED
      BY <1>5, <2>1, <2>2
  <1>9. ASSUME NEW k \in Nat, Z!LateAfter(s5, k, e), k >= i
        PROVE  Z!LateAfter(s5, k - 1, e)'
    <2> SUFFICES ASSUME NEW l \in 1 .. n - 1, l > k - 1, s5'[l].emoji = e
                 PROVE  s5'[l].late
      BY <1>5 DEF Z!LateAfter
    <2>1. l >= i /\ l + 1 \in 1 .. n /\ l + 1 > k
      BY <1>5, <1>9
    <2>2. s5'[l] = s5[l + 1]
      BY <1>6, <2>1
    <2>3. QED
      BY <1>5, <1>9, <2>1, <2>2 DEF Z!LateAfter
  <1>10. ASSUME NEW k \in 1 .. n, Z!RightAt(s5, k, e)
         PROVE  Z!RightToCome(e)'
    <2>1. Z!LateAfter(s5, k, e)
      BY <1>10 DEF Z!RightAt
    <2>2. CASE k < i
      <3>1. Z!RightAt(s5, k, e)'
        BY <1>5, <1>6, <1>7, <1>8, <1>10, <2>1, <2>2 DEF Z!RightAt
      <3>2. QED
        BY <1>5, <2>2, <3>1 DEF Z!RightToCome
    <2>3. CASE k = i
      <3>1. Z!LateAfter(s5, 0, e)'
        BY <1>5, <1>6, <2>1, <2>3 DEF Z!LateAfter
      <3>2. Z!RightAt(s6, m + 1, e)'
        BY <1>5, <1>7, <1>10, <2>3 DEF Z!RightAt, Z!LateAfter
      <3>3. QED
        BY <1>5, <3>1, <3>2 DEF Z!RightToCome
    <2>4. CASE k > i
      <3>1. Z!RightAt(s5, k - 1, e)'
        BY <1>5, <1>6, <1>7, <1>9, <1>10, <2>1, <2>4 DEF Z!RightAt
      <3>2. QED
        BY <1>5, <2>4, <3>1 DEF Z!RightToCome
    <2>5. QED
      BY <1>5, <2>2, <2>3, <2>4
  <1>11. ASSUME Z!LateAfter(s5, 0, e), NEW k \in Nat, Z!LateAfter(s6, k, e)
         PROVE  Z!LateAfter(s5, 0, e)' /\ Z!LateAfter(s6, k, e)'
    <2>1. Z!LateAfter(s5, 0, e)'
      BY <1>5, <1>8, <1>11
    <2>2. s5[i].emoji = e => s5[i].late
      BY <1>5, <1>11 DEF Z!LateAfter
    <2>3. Z!LateAfter(s6, k, e)'
      BY <1>5, <1>11, <2>2 DEF Z!LateAfter
    <2>4. QED
      BY <2>1, <2>3
  <1>12. ASSUME Z!LateAfter(s5, 0, e), NEW k \in 1 .. m, Z!RightAt(s6, k, e)
         PROVE  Z!RightToCome(e)'
    <2>1. Z!LateAfter(s5, 0, e)' /\ Z!LateAfter(s6, k, e)'
      BY <1>11, <1>12 DEF Z!RightAt
    <2>2. Z!RightAt(s6, k, e)'
      BY <1>5, <1>7, <1>12, <2>1 DEF Z!RightAt
    <2>3. QED
      BY <1>5, <2>1, <2>2 DEF Z!RightToCome
  <1>13. Z!RightToCome(e) => Z!RightToCome(e)'
    BY <1>5, <1>10, <1>12 DEF Z!RightToCome
  <1>14. QED
    BY <1>11, <1>13 DEF Z!AllLate

(* A count delivered: the right one is still to come, or it was this one.  *)
LEMMA BarDelivered ==
    ASSUME Z!BarTypes, Z!Deliver, NEW e \in Emoji
    PROVE  /\ Z!CountFor(e)' = Z!CountFor(e)
           /\ Z!RightToCome(e) =>
                \/ Z!RightToCome(e)'
                \/ Head(s6).emoji = e /\ Head(s6).count = Z!CountFor(e) /\ Z!AllLate(e)'
           /\ Z!AllLate(e) => Z!AllLate(e)' /\ (Head(s6).emoji = e => Head(s6).late)
  <1>1. s5' = s5 /\ s6 \in Seq(Z!Count) /\ s6 # <<>> /\ s6' = Tail(s6) /\ Head(s6) = s6[1]
    BY DEF Z!BarTypes, Z!Deliver
  <1>2. PICK m \in Nat : m = Len(s6) - 1
    BY <1>1
  <1>3. DOMAIN s6 = 1 .. m + 1 /\ DOMAIN s6' = 1 .. m /\ \A k \in 1 .. m : s6'[k] = s6[k + 1]
    BY <1>1, <1>2
  <1>4. Z!CountFor(e)' = Z!CountFor(e)
    BY DEF Z!Deliver, Z!stored, Z!CountFor
  <1>5. \A k \in Nat : /\ Z!LateAfter(s5, k, e)' = Z!LateAfter(s5, k, e)
                       /\ Z!RightAt(s5, k, e)' = Z!RightAt(s5, k, e)
    BY <1>1, <1>4 DEF Z!LateAfter, Z!RightAt
  <1>6. ASSUME NEW k \in Nat, Z!LateAfter(s6, k, e)
        PROVE  /\ k = 0 => Z!LateAfter(s6, 0, e)'
               /\ k > 0 => Z!LateAfter(s6, k - 1, e)'
    <2>1. \A l \in 1 .. m + 1 : l > k /\ s6[l].emoji = e => s6[l].late
      BY <1>3, <1>6 DEF Z!LateAfter
    <2>2. \A l \in 1 .. m : l > k - 1 /\ s6'[l].emoji = e => s6'[l].late
      BY <1>3, <2>1
    <2>3. k = 0 => Z!LateAfter(s6, 0, e)'
      BY <1>3, <2>2 DEF Z!LateAfter
    <2>4. k > 0 => Z!LateAfter(s6, k - 1, e)'
      BY <1>3, <2>2 DEF Z!LateAfter
    <2>5. QED
      BY <2>3, <2>4
  <1>7. ASSUME NEW k \in 1 .. m + 1, Z!RightAt(s6, k, e), Z!LateAfter(s5, 0, e)
        PROVE  \/ Z!RightToCome(e)'
               \/ Head(s6).emoji = e /\ Head(s6).count = Z!CountFor(e) /\ Z!AllLate(e)'
    <2>1. Z!LateAfter(s6, k - 1, e)' /\ Z!LateAfter(s5, 0, e)'
      BY <1>5, <1>6, <1>7 DEF Z!RightAt
    <2>2. CASE k = 1
      BY <1>1, <1>7, <2>1, <2>2 DEF Z!RightAt, Z!AllLate
    <2>3. CASE k > 1
      <3>1. Z!RightAt(s6, k - 1, e)'
        BY <1>3, <1>4, <1>7, <2>1, <2>3 DEF Z!RightAt
      <3>2. QED
        BY <1>3, <2>1, <2>3, <3>1 DEF Z!RightToCome
    <2>4. QED
      BY <2>2, <2>3
  <1>8. ASSUME NEW k \in DOMAIN s5, Z!RightAt(s5, k, e)
        PROVE  Z!RightToCome(e)'
    <2>1. k \in Nat
      BY DEF Z!BarTypes
    <2>2. Z!RightAt(s5, k, e)' /\ k \in DOMAIN s5'
      BY <1>1, <1>5, <1>8, <2>1
    <2>3. QED
      BY <2>2 DEF Z!RightToCome
  <1>9. Z!AllLate(e) => Z!AllLate(e)'
    BY <1>5, <1>6 DEF Z!AllLate
  <1>10. Z!AllLate(e) => (Head(s6).emoji = e => Head(s6).late)
    BY <1>1, <1>3 DEF Z!AllLate, Z!LateAfter
  <1>11. Z!RightToCome(e) =>
                \/ Z!RightToCome(e)'
                \/ Head(s6).emoji = e /\ Head(s6).count = Z!CountFor(e) /\ Z!AllLate(e)'
    BY <1>3, <1>7, <1>8 DEF Z!RightToCome
  <1>12. QED
    BY <1>4, <1>9, <1>10, <1>11

(* What is still to come is the same while the stream and the counts are.  *)
LEMMA BarStill ==
    ASSUME UNCHANGED <<Z!stored, Z!stream>>, NEW e \in Emoji
    PROVE  /\ Z!CountFor(e)' = Z!CountFor(e)
           /\ Z!RightToCome(e)' = Z!RightToCome(e)
           /\ Z!AllLate(e)' = Z!AllLate(e)
  BY DEF Z!stored, Z!stream, Z!CountFor, Z!RightToCome, Z!RightAt, Z!LateAfter, Z!AllLate

(* What a step does to the counts to come, whichever it is.                *)
LEMMA BarCountsStep ==
    ASSUME Z!BarTypes, Z!Next, NEW e \in Emoji, Z!RightToCome(e) \/ Z!AllLate(e)
    PROVE  /\ Z!RightToCome(e)' \/ Z!AllLate(e)'
           /\ Z!RightToCome(e) => \/ Z!RightToCome(e)'
                                  \/ Z!Deliver /\ Head(s6).emoji = e /\ Head(s6).count = Z!CountFor(e)
           /\ Z!CountFor(e)' = Z!CountFor(e) \/ Z!RightToCome(e)'
  <1>1. CASE UNCHANGED <<Z!stored, Z!stream>>
    BY <1>1, BarStill
  <1>2. CASE Z!ServeReact
    <2>1. PICK c \in s7 :
            /\ s1' = IF c.on THEN s1 \cup {c.emoji} ELSE s1 \ {c.emoji}
            /\ Z!Counted(c.emoji, c.no)
      BY <1>2 DEF Z!ServeReact
    <2>2. c.emoji \in Emoji
      BY DEF Z!BarTypes, Z!Call
    <2>3. \A f \in Emoji \ {c.emoji} : Z!CountFor(f)' = Z!CountFor(f)
      BY <1>2, <2>1 DEF Z!ServeReact, Z!CountFor, Z!One
    <2>4. s6' = s6
      BY <1>2 DEF Z!ServeReact
    <2>5. QED
      BY <2>1, <2>2, <2>3, <2>4, BarCounted
  <1>3. CASE Z!OthersReact
    <2>1. PICK f \in Emoji :
            /\ s2' \in {[s2 EXCEPT ![f] = n] : n \in {s2[f] - 1, s2[f] + 1}}
            /\ Z!Counted(f, 0)
      BY <1>3 DEF Z!OthersReact
    <2>2. s1' = s1 /\ s6' = s6
      BY <1>3 DEF Z!OthersReact
    <2>3. \A g \in Emoji \ {f} : Z!CountFor(g)' = Z!CountFor(g)
      BY <2>1, <2>2 DEF Z!CountFor, Z!BarTypes
    <2>4. QED
      BY <2>1, <2>2, <2>3, BarCounted
  <1>4. CASE Z!Publish
    <2>1. Z!CountFor(e)' = Z!CountFor(e)
      BY <1>4 DEF Z!Publish, Z!stored, Z!CountFor
    <2>2. QED
      BY <1>4, <2>1, BarPublished
  <1>5. CASE Z!Deliver
    BY <1>5, BarDelivered
  <1>6. CASE Z!PressChip \/ Z!Pick
    BY <1>1, <1>6 DEF Z!PressChip, Z!Pick, Z!React
  <1>7. CASE Z!BurstEnds \/ Z!Answered \/ Z!CallFails \/ Z!ServeRead \/ Z!ReadArrives \/ Z!ReadFails
    BY <1>1, <1>7 DEF Z!BurstEnds, Z!Answered, Z!CallFails, Z!ServeRead, Z!ReadArrives, Z!ReadFails
  <1>8. QED
    BY <1>2, <1>3, <1>4, <1>5, <1>6, <1>7 DEF Z!Next

(* What a step does to the presses under way.                              *)
LEMMA BarMarksStep ==
    ASSUME Z!BarTypes, Z!Next, NEW e \in Emoji
    PROVE  \/ (Z!UnderWay(e) \/ (e \in s1') # (e \in s1)) => Z!UnderWay(e)'
           \/ Z!CallFails /\ s1' = s1
           \/ Z!Answered /\ s1' = s1 /\ s4' = Z!AskRead
  <1>1. CASE UNCHANGED <<s1, s7>>
    BY <1>1 DEF Z!UnderWay
  <1>2. CASE s1' = s1 /\ \A c \in s7 : [c EXCEPT !.sure = FALSE] \in s7'
    <2>1. \A c \in s7 : [c EXCEPT !.sure = FALSE].emoji = c.emoji /\ [c EXCEPT !.sure = FALSE].is = c.is
      BY DEF Z!BarTypes, Z!Call
    <2>2. QED
      BY <1>2, <2>1 DEF Z!UnderWay
  <1>3. CASE Z!PressChip \/ Z!Pick
    BY <1>2, <1>3 DEF Z!PressChip, Z!Pick, Z!React, Z!stored
  <1>4. CASE Z!ServeReact
    <2>1. PICK c \in s7 :
            /\ c.is = "sent" /\ s7' = (s7 \ {c}) \cup {[c EXCEPT !.is = "counted"]}
            /\ s1' = IF c.on THEN s1 \cup {c.emoji} ELSE s1 \ {c.emoji}
      BY <1>4 DEF Z!ServeReact
    <2>2. PICK d : d = [c EXCEPT !.is = "counted"]
      OBVIOUS
    <2>3. d.emoji = c.emoji /\ d.is = "counted" /\ d \in s7'
      BY <2>1, <2>2 DEF Z!BarTypes, Z!Call
    <2>4. CASE e = c.emoji
      BY <2>3, <2>4 DEF Z!UnderWay
    <2>5. CASE e # c.emoji
      BY <2>1, <2>5 DEF Z!UnderWay
    <2>6. QED
      BY <2>4, <2>5
  <1>5. CASE Z!Publish
    <2>1. PICK i \in DOMAIN s5 :
            s7' = {IF c.no = s5[i].of /\ c.is = "counted" THEN [c EXCEPT !.is = "ok"]
                      ELSE c : c \in s7}
      BY <1>5 DEF Z!Publish
    <2>2. ASSUME NEW c \in s7, c.emoji = e, c.is \in {"counted", "ok"}
          PROVE  \E d \in s7' : d.emoji = e /\ d.is \in {"counted", "ok"}
      <3>1. CASE c \in s7'
        BY <2>2, <3>1
      <3>2. CASE [c EXCEPT !.is = "ok"] \in s7'
        <4>1. [c EXCEPT !.is = "ok"].is = "ok" /\ [c EXCEPT !.is = "ok"].emoji = c.emoji
          BY DEF Z!BarTypes, Z!Call
        <4>2. QED
          BY <2>2, <3>2, <4>1
      <3>3. QED
        BY <2>1, <3>1, <3>2
    <2>3. s1' = s1
      BY <1>5 DEF Z!Publish, Z!stored
    <2>4. QED
      BY <2>2, <2>3 DEF Z!UnderWay
  <1>6. CASE Z!Answered
    BY <1>6 DEF Z!Answered, Z!UnderWay, Z!stored
  <1>7. CASE Z!CallFails
    BY <1>7 DEF Z!CallFails, Z!stored
  <1>8. CASE Z!OthersReact
    BY <1>1, <1>8 DEF Z!OthersReact
  <1>9. CASE Z!BurstEnds \/ Z!ServeRead \/ Z!ReadArrives \/ Z!ReadFails \/ Z!Deliver
    BY <1>1, <1>9 DEF Z!BurstEnds, Z!ServeRead, Z!ReadArrives, Z!ReadFails, Z!Deliver, Z!stored
  <1>10. QED
    BY <1>3, <1>4, <1>5, <1>6, <1>7, <1>8, <1>9 DEF Z!Next

(* What was read, or is shown, stays good unless a frame is merged, a call *)
(* fails or an answer asks for another read.                               *)
LEMMA BarGoodStays ==
    ASSUME Z!BarTypes, Z!CountsCome, Z!Next, NEW r, ~Z!Deliver, Z!CountsUp(r)
    PROVE  \A e \in Emoji : Z!RightToCome(e)' \/ r[e].count = Z!CountFor(e)'
  BY BarCountsStep DEF Z!CountsCome, Z!CountsUp

(* A viewer's marks survive a step that touches neither the bar nor the    *)
(* calls.                                                                  *)
LEMMA BarMarksStay ==
    ASSUME Z!BarTypes, Z!Next, NEW r, ~Z!CallFails, ~(Z!Answered /\ s4' = Z!AskRead), Z!MarksUp(r),
           r \in Z!Bar
    PROVE  \A e \in Emoji : Z!UnderWay(e)' \/ r[e].mine = (e \in s1')
  <1> SUFFICES ASSUME NEW e \in Emoji
               PROVE  Z!UnderWay(e)' \/ r[e].mine = (e \in s1')
    OBVIOUS
  <1>1. (Z!UnderWay(e) \/ (e \in s1') # (e \in s1)) => Z!UnderWay(e)'
    BY BarMarksStep
  <1>2. Z!UnderWay(e) \/ r[e].mine = (e \in s1)
    BY DEF Z!MarksUp
  <1>3. QED
    BY <1>1, <1>2

(* Every step keeps what a read brings back right.                         *)
LEMMA BarReadStep ==
    ASSUME Z!BarTypes, Z!CountsCome, Z!ReadIsGood, Z!Next
    PROVE  Z!ReadIsGood'
  <1>k. s4.is = "served" => s4 \in [is : {"served"}, got : Z!Bar, late : BOOLEAN]
    BY DEF Z!BarTypes, Z!NoRead, Z!AskRead
  <1>1. CASE s4' = s4 /\ ~Z!Deliver /\ ~Z!CallFails
    <2> SUFFICES ASSUME s4.is = "served"
                 PROVE  Z!ReadIsGood'
      BY <1>1 DEF Z!ReadIsGood
    <2>1. Z!Pressable(s4.got)'
      BY <1>1 DEF Z!ReadIsGood, Z!Pressable
    <2>2. ASSUME ~s4.late PROVE Z!CountsUp(s4.got)' /\ Z!MarksUp(s4.got)'
      <3>1. PICK r : r = s4.got
        OBVIOUS
      <3>2. Z!CountsUp(r) /\ Z!MarksUp(r)
        BY <2>2, <3>1 DEF Z!ReadIsGood
      <3>3. s4' # Z!AskRead /\ r \in Z!Bar
        BY <1>1, <1>k, <3>1 DEF Z!AskRead
      <3>4. \A e \in Emoji : Z!RightToCome(e)' \/ r[e].count = Z!CountFor(e)'
        BY <1>1, <3>2, BarGoodStays
      <3>5. \A e \in Emoji : Z!UnderWay(e)' \/ r[e].mine = (e \in s1')
        BY <1>1, <3>2, <3>3, BarMarksStay
      <3>6. s4'.got = r
        BY <1>1, <3>1
      <3>7. QED
        BY <3>4, <3>5, <3>6 DEF Z!CountsUp, Z!MarksUp
    <2>3. QED
      BY <1>1, <2>1, <2>2 DEF Z!ReadIsGood
  <1>2. CASE s4' = Z!Overtaken
    BY <1>k, <1>2 DEF Z!Overtaken, Z!ReadIsGood, Z!Pressable
  <1>3. CASE s4'.is # "served"
    BY <1>3 DEF Z!ReadIsGood
  <1>4. CASE Z!ServeRead
    <2>1. PICK r : r = Z!Reactions
      OBVIOUS
    <2>2. s4'.got = r /\ s4'.is = "served"
      BY <1>4, <2>1 DEF Z!ServeRead
    <2>3. \A e \in Emoji : r[e].count = Z!CountFor(e) /\ r[e].mine = (e \in s1)
      BY <2>1, BarReactions DEF Z!BarTypes
    <2>4. \A e \in Emoji : Z!CountFor(e)' = Z!CountFor(e) /\ s1' = s1
      BY <1>4 DEF Z!ServeRead, Z!stored, Z!CountFor
    <2>5. \A e \in Emoji : r[e].mine => r[e].count > 0
      BY <2>3, BarCountFor DEF Z!BarTypes
    <2>6. QED
      BY <2>2, <2>3, <2>4, <2>5 DEF Z!ReadIsGood, Z!Pressable, Z!CountsUp, Z!MarksUp
  <1>6. CASE Z!PressChip \/ Z!Pick \/ Z!BurstEnds \/ Z!ServeReact \/ Z!Publish \/ Z!OthersReact
    <2>1. s4' = s4
      BY <1>6 DEF Z!PressChip, Z!Pick, Z!React, Z!BurstEnds, Z!ServeReact, Z!Publish, Z!OthersReact
    <2>2. CASE Z!Deliver \/ Z!CallFails
      BY <1>2, <2>2 DEF Z!Deliver, Z!CallFails
    <2>3. QED
      BY <1>1, <2>1, <2>2
  <1>7. CASE Z!Answered
    <2>1. s4' = s4 \/ s4' = Z!AskRead
      BY <1>7 DEF Z!Answered
    <2>2. CASE Z!Deliver \/ Z!CallFails
      BY <1>2, <2>2 DEF Z!Deliver, Z!CallFails
    <2>3. QED
      BY <1>1, <1>3, <2>1, <2>2 DEF Z!AskRead
  <1>8. CASE Z!CallFails \/ Z!Deliver
    BY <1>2, <1>8 DEF Z!CallFails, Z!Deliver
  <1>9. CASE Z!ReadArrives \/ Z!ReadFails
    BY <1>3, <1>9 DEF Z!ReadArrives, Z!ReadFails, Z!NoRead
  <1>10. QED
    BY <1>4, <1>6, <1>7, <1>8, <1>9 DEF Z!Next

(* Every step keeps what is shown right, but for what is still to come.    *)
LEMMA BarShownStep ==
    ASSUME Z!BarTypes, Z!CountsCome, Z!ReadIsGood, Z!ShownIsGood, Z!Next
    PROVE  Z!ShownIsGood'
  <1>b. s3 \in Z!Bar /\ s6 \in Seq(Z!Count)
    BY DEF Z!BarTypes
  <1>1. CASE UNCHANGED <<s3, s4, s9>> /\ ~Z!Deliver /\ ~Z!CallFails
    <2>1. Z!Pressable(s3)'
      BY <1>1 DEF Z!ShownIsGood, Z!Pressable
    <2>2. ASSUME ~s9 PROVE Z!CountsUp(s3)' /\ (s4 = Z!NoRead => Z!MarksUp(s3)')
      <3>1. PICK r \in Z!Bar : r = s3
        BY <1>b
      <3>2. Z!CountsUp(r) /\ (s4 = Z!NoRead => Z!MarksUp(r))
        BY <2>2, <3>1 DEF Z!ShownIsGood
      <3>3. \A e \in Emoji : Z!RightToCome(e)' \/ r[e].count = Z!CountFor(e)'
        BY <1>1, <3>2, BarGoodStays
      <3>4. ASSUME s4 = Z!NoRead
            PROVE  \A e \in Emoji : Z!UnderWay(e)' \/ r[e].mine = (e \in s1')
        <4>1. s4' # Z!AskRead
          BY <1>1, <3>4 DEF Z!NoRead, Z!AskRead
        <4>2. QED
          BY <1>1, <3>2, <3>4, <4>1, BarMarksStay
      <3>5. QED
        BY <1>1, <3>1, <3>3, <3>4 DEF Z!CountsUp, Z!MarksUp
    <2>3. QED
      BY <1>1, <2>1, <2>2 DEF Z!ShownIsGood
  <1>2. CASE Z!Deliver
    <2>1. PICK h \in Z!Count : h = Head(s6)
      BY <1>2, <1>b DEF Z!Deliver
    <2>2. /\ s3' = [s3 EXCEPT ![h.emoji] = Z!Merged(s3[h.emoji], h.count)]
          /\ s9' = (s9 \/ h.late \/ (h.count = 0 /\ s3[h.emoji].mine))
          /\ s1' = s1
      BY <1>2, <2>1 DEF Z!Deliver, Z!stored
    <2>3. h.emoji \in Emoji /\ h.count \in 0 .. Crowd + 1 /\ h.late \in BOOLEAN /\ Crowd \in Nat
      BY <2>1, PagesAssumption DEF Z!Count, Z!ReactionAssumption
    <2>4. /\ s3'[h.emoji].count = h.count
          /\ s3'[h.emoji].mine = (s3[h.emoji].mine /\ h.count > 0)
          /\ \A e \in Emoji \ {h.emoji} : s3'[e] = s3[e]
      BY <1>b, <2>2, <2>3 DEF Z!Merged, Z!Bar
    <2>5. Z!Pressable(s3)'
      BY <2>4 DEF Z!ShownIsGood, Z!Pressable
    <2>6. ASSUME ~s9', NEW e \in Emoji
          PROVE  Z!RightToCome(e)' \/ s3'[e].count = Z!CountFor(e)'
      <3>1. Z!RightToCome(e) \/ s3[e].count = Z!CountFor(e)
        BY <2>2, <2>6 DEF Z!ShownIsGood, Z!CountsUp
      <3>2. Z!RightToCome(e) \/ Z!AllLate(e)
        BY DEF Z!CountsCome
      <3>3. ~h.late
        BY <2>2, <2>6
      <3>4. QED
        BY <1>2, <2>1, <2>4, <3>1, <3>2, <3>3, BarDelivered
    <2>7. ASSUME ~s9', s4' = Z!NoRead, NEW e \in Emoji
          PROVE  Z!UnderWay(e)' \/ s3'[e].mine = (e \in s1')
      <3>1. s4 = Z!NoRead /\ s7' = s7
        BY <1>2, <2>7 DEF Z!Deliver, Z!Overtaken, Z!NoRead
      <3>2. Z!UnderWay(e) \/ s3[e].mine = (e \in s1)
        BY <2>2, <2>7, <3>1 DEF Z!ShownIsGood, Z!MarksUp
      <3>3. s3'[e].mine = s3[e].mine
        BY <1>b, <2>2, <2>3, <2>4, <2>7 DEF Z!Bar
      <3>4. QED
        BY <2>2, <3>1, <3>2, <3>3 DEF Z!UnderWay
    <2>8. QED
      BY <2>5, <2>6, <2>7 DEF Z!ShownIsGood, Z!CountsUp, Z!MarksUp
  <1>3. CASE Z!CallFails \/ Z!ReadFails
    BY <1>3 DEF Z!CallFails, Z!ReadFails, Z!screen, Z!ShownIsGood, Z!Pressable
  <1>4. CASE Z!ServeRead
    <2>1. UNCHANGED <<s3, s9, s1, s2, s5, s6, s7>> /\ s4' # Z!NoRead
      BY <1>4 DEF Z!ServeRead, Z!stored, Z!screen, Z!stream, Z!NoRead
    <2>2. \A e \in Emoji : Z!RightToCome(e)' = Z!RightToCome(e) /\ Z!CountFor(e)' = Z!CountFor(e)
      BY <2>1, BarStill DEF Z!stored, Z!stream
    <2>3. QED
      BY <2>1, <2>2 DEF Z!ShownIsGood, Z!Pressable, Z!CountsUp
  <1>5. CASE Z!ReadArrives
    <2>1. s3' = s4.got /\ s9' = s4.late /\ s4.is = "served" /\ UNCHANGED <<s1, s2, s5, s6, s7>>
      BY <1>5 DEF Z!ReadArrives, Z!stored, Z!stream
    <2>2. \A e \in Emoji : Z!RightToCome(e)' = Z!RightToCome(e) /\ Z!CountFor(e)' = Z!CountFor(e)
      BY <2>1, BarStill DEF Z!stored, Z!stream
    <2>3. \A e \in Emoji : Z!UnderWay(e)' = Z!UnderWay(e)
      BY <2>1 DEF Z!UnderWay
    <2>4. QED
      BY <2>1, <2>2, <2>3 DEF Z!ReadIsGood, Z!ShownIsGood, Z!Pressable, Z!CountsUp, Z!MarksUp
  <1>6. CASE Z!Answered
    <2>1. UNCHANGED <<s3, s9, s1, s2, s5, s6>>
      BY <1>6 DEF Z!Answered, Z!stored, Z!screen, Z!stream
    <2>2. CASE s4' = s4 /\ ~Z!Deliver /\ ~Z!CallFails
      BY <1>1, <2>1, <2>2
    <2>3. CASE s4' = Z!AskRead
      <3>1. \A e \in Emoji : Z!RightToCome(e)' = Z!RightToCome(e) /\ Z!CountFor(e)' = Z!CountFor(e)
        BY <2>1, BarStill DEF Z!stored, Z!stream
      <3>2. s4' # Z!NoRead
        BY <2>3 DEF Z!AskRead, Z!NoRead
      <3>3. QED
        BY <2>1, <3>1, <3>2 DEF Z!ShownIsGood, Z!Pressable, Z!CountsUp
    <2>4. s4' = s4 \/ s4' = Z!AskRead
      BY <1>6 DEF Z!Answered
    <2>5. QED
      BY <1>2, <1>3, <2>2, <2>3, <2>4
  <1>7. CASE Z!PressChip \/ Z!Pick \/ Z!BurstEnds \/ Z!ServeReact \/ Z!Publish \/ Z!OthersReact
    <2>1. UNCHANGED <<s3, s4, s9>>
      BY <1>7 DEF Z!PressChip, Z!Pick, Z!React, Z!BurstEnds, Z!ServeReact, Z!Publish, Z!OthersReact, Z!screen
    <2>2. QED
      BY <1>1, <1>2, <1>3, <2>1
  <1>8. QED
    BY <1>2, <1>3, <1>4, <1>5, <1>6, <1>7 DEF Z!Next

(* A press made on a settled bar is alone until it is answered, and        *)
(* differs from what is stored until it is served.                         *)
LEMMA BarPressStep ==
    ASSUME Z!BarTypes, Z!CountsCome, Z!ShownIsGood, Z!NoPressWasted, Z!Next
    PROVE  Z!NoPressWasted'
  <1>1. ASSUME NEW e \in Emoji, NEW on \in BOOLEAN, NEW at, Z!React(e, on, at)
        PROVE  Z!NoPressWasted'
    <2>1. PICK b \in BOOLEAN : b = (Z!Settled /\ on # s3[e].mine)
      BY DEF Z!Settled
    <2>2. PICK d : d = [no |-> s11', emoji |-> e, on |-> on, sure |-> b, is |-> "sent"]
      OBVIOUS
    <2>3. s7' = {[c EXCEPT !.sure = FALSE] : c \in s7} \cup {d} /\ s10' = s10 /\ s1' = s1
      BY <1>1, <2>1, <2>2 DEF Z!React, Z!stored
    <2>4. \A c \in s7 : [c EXCEPT !.sure = FALSE].sure = FALSE
      BY DEF Z!BarTypes, Z!Call
    <2>5. d.sure = b /\ d.emoji = e /\ d.on = on
      BY <2>2
    <2>6. ASSUME b PROVE s7 = {} /\ on # (e \in s1)
      <3>1. s7 = {} /\ s4 = Z!NoRead /\ ~s9 /\ on # s3[e].mine
        BY <2>1, <2>6 DEF Z!Settled
      <3>2. Z!UnderWay(e) \/ s3[e].mine = (e \in s1)
        BY <3>1 DEF Z!ShownIsGood, Z!MarksUp
      <3>3. ~Z!UnderWay(e)
        BY <3>1 DEF Z!UnderWay
      <3>4. s3[e].mine \in BOOLEAN
        BY DEF Z!BarTypes, Z!Bar
      <3>5. QED
        BY <3>1, <3>2, <3>3, <3>4
    <2>7. QED
      BY <2>3, <2>4, <2>5, <2>6 DEF Z!NoPressWasted
  <1>2. CASE Z!PressChip \/ Z!Pick
    BY <1>1, <1>2 DEF Z!PressChip, Z!Pick, Z!Chips, Z!BarTypes, Z!Bar
  <1>3. CASE Z!ServeReact
    <2>1. PICK c \in s7 :
            /\ c.is = "sent" /\ s7' = (s7 \ {c}) \cup {[c EXCEPT !.is = "counted"]}
            /\ s1' = IF c.on THEN s1 \cup {c.emoji} ELSE s1 \ {c.emoji}
            /\ s10' = (s10 \/ (c.sure /\ s1' = s1))
      BY <1>3 DEF Z!ServeReact
    <2>2. PICK d : d = [c EXCEPT !.is = "counted"]
      OBVIOUS
    <2>3. d.sure = c.sure /\ d.is = "counted" /\ c.on \in BOOLEAN /\ c.sure \in BOOLEAN
      BY <2>2 DEF Z!BarTypes, Z!Call
    <2>4. s7' = (s7 \ {c}) \cup {d}
      BY <2>1, <2>2
    <2>5. c.sure => s1' # s1
      BY <2>1, <2>3 DEF Z!NoPressWasted
    <2>6. \A x \in s7 : x.sure => x = c /\ s7 = {c}
      BY DEF Z!NoPressWasted
    <2>7. \A x \in s7' : x.sure => s7' = {x} /\ x.is = "counted"
      BY <2>3, <2>4, <2>6
    <2>8. ~s10'
      BY <2>1, <2>5 DEF Z!NoPressWasted
    <2>9. QED
      BY <2>7, <2>8 DEF Z!NoPressWasted
  <1>4. CASE Z!Publish
    <2>1. PICK i \in DOMAIN s5 :
            s7' = {IF c.no = s5[i].of /\ c.is = "counted" THEN [c EXCEPT !.is = "ok"]
                      ELSE c : c \in s7}
      BY <1>4 DEF Z!Publish
    <2>2. s1' = s1 /\ s10' = s10
      BY <1>4 DEF Z!Publish, Z!stored
    <2>3. \A c \in s7 : /\ [c EXCEPT !.is = "ok"].sure = c.sure
                        /\ [c EXCEPT !.is = "ok"].is = "ok"
      BY DEF Z!BarTypes, Z!Call
    <2>4. ASSUME NEW x \in s7', x.sure
          PROVE  s7' = {x} /\ (x.is = "sent" => x.on # (x.emoji \in s1))
      <3>1. PICK c \in s7 : x = IF c.no = s5[i].of /\ c.is = "counted" THEN [c EXCEPT !.is = "ok"] ELSE c
        BY <2>1
      <3>2. c.sure /\ (x.is = "sent" => x = c)
        BY <2>3, <2>4, <3>1
      <3>3. s7 = {c} /\ (c.is = "sent" => c.on # (c.emoji \in s1))
        BY <3>2 DEF Z!NoPressWasted
      <3>4. s7' = {x}
        BY <2>1, <3>1, <3>3
      <3>5. QED
        BY <3>2, <3>3, <3>4
    <2>5. QED
      BY <2>2, <2>4 DEF Z!NoPressWasted
  <1>5. CASE Z!Answered
    <2>1. PICK c \in s7 : s7' = s7 \ {c}
      BY <1>5 DEF Z!Answered
    <2>2. s1' = s1 /\ s10' = s10
      BY <1>5 DEF Z!Answered, Z!stored
    <2>3. QED
      BY <2>1, <2>2 DEF Z!NoPressWasted
  <1>6. CASE Z!CallFails
    <2>1. PICK c \in s7 : s7' = (s7 \ {c}) \cup {[c EXCEPT !.is = "failed"]}
      BY <1>6 DEF Z!CallFails
    <2>2. s1' = s1 /\ s10' = s10
      BY <1>6 DEF Z!CallFails, Z!stored
    <2>3. [c EXCEPT !.is = "failed"].sure = c.sure /\ [c EXCEPT !.is = "failed"].is = "failed"
      BY DEF Z!BarTypes, Z!Call
    <2>4. PICK d : d = [c EXCEPT !.is = "failed"]
      OBVIOUS
    <2>5. \A x \in s7 : x.sure => (x = c /\ s7 = {c}) \/ s7 = {x}
      BY DEF Z!NoPressWasted
    <2>6. \A x \in s7' : x.sure => s7' = {x} /\ (x.is = "sent" => x.on # (x.emoji \in s1))
      BY <2>1, <2>3, <2>4, <2>5 DEF Z!NoPressWasted
    <2>7. QED
      BY <2>2, <2>6 DEF Z!NoPressWasted
  <1>7. CASE UNCHANGED <<s1, s7, s10>>
    BY <1>7 DEF Z!NoPressWasted
  <1>8. CASE Z!OthersReact \/ Z!BurstEnds \/ Z!ServeRead \/ Z!ReadArrives \/ Z!ReadFails \/ Z!Deliver
    BY <1>7, <1>8 DEF Z!OthersReact, Z!BurstEnds, Z!ServeRead, Z!ReadArrives, Z!ReadFails, Z!Deliver, Z!stored
  <1>9. QED
    BY <1>2, <1>3, <1>4, <1>5, <1>6, <1>8 DEF Z!Next

(* Numbers, and how many counts there may be.                              *)
LEMMA BarNumbersStep ==
    ASSUME Z!BarTypes, Z!Numbered, Z!Next
    PROVE  Z!Numbered'
  <1>n. s11 \in Nat
    BY PagesAssumption DEF Z!BarTypes, Z!ReactionAssumption
  <1>1. ASSUME NEW e, NEW on, NEW at, Z!React(e, on, at)
        PROVE  Z!Numbered'
    <2>0. PICK b \in BOOLEAN : b = (Z!Settled /\ on # s3[e].mine)
      BY DEF Z!Settled
    <2>1. PICK d : d = [no |-> s11', emoji |-> e, on |-> on, sure |-> b, is |-> "sent"]
      OBVIOUS
    <2>2. s7' = {[c EXCEPT !.sure = FALSE] : c \in s7} \cup {d} /\ s11' = s11 + 1
      BY <1>1, <2>0, <2>1 DEF Z!React
    <2>t. d.no = s11 + 1
      BY <2>1, <2>2
    <2>u. \A x \in s7' : x = d \/ \E c \in s7 : x = [c EXCEPT !.sure = FALSE] /\ x.no = c.no
      <3>1. \A c \in s7 : [c EXCEPT !.sure = FALSE].no = c.no
        BY DEF Z!BarTypes, Z!Call
      <3>2. QED
        BY <2>2, <3>1
    <2>n. \A c \in s7 : c.no \in 1 .. s11
      BY DEF Z!Numbered
    <2>3. \A c \in s7' : c.no \in 1 .. s11 + 1
      BY <1>n, <2>t, <2>u, <2>n
    <2>4. \A c \in s7 : c.no # d.no
      BY <1>n, <2>t, <2>n
    <2>5. \A x, y \in s7' : x.no = y.no => x = y
      <3> SUFFICES ASSUME NEW x \in s7', NEW y \in s7', x.no = y.no
                   PROVE  x = y
        OBVIOUS
      <3>1. x = d \/ \E c \in s7 : x = [c EXCEPT !.sure = FALSE] /\ x.no = c.no
        BY <2>u
      <3>2. y = d \/ \E c \in s7 : y = [c EXCEPT !.sure = FALSE] /\ y.no = c.no
        BY <2>u
      <3>3. \A p, q \in s7 : p.no = q.no => p = q
        BY DEF Z!Numbered
      <3>4. QED
        BY <2>4, <3>1, <3>2, <3>3, Zenon
    <2>6. QED
      BY <2>2, <2>3, <2>5 DEF Z!Numbered
  <1>2. CASE Z!PressChip \/ Z!Pick
    BY <1>1, <1>2 DEF Z!PressChip, Z!Pick
  <1>3. ASSUME NEW c \in s7, NEW d, d.no = c.no, s7' = (s7 \ {c}) \cup {d}, s11' = s11
        PROVE  Z!Numbered'
    BY <1>3 DEF Z!Numbered
  <1>4. CASE Z!ServeReact
    <2>1. PICK c \in s7 : s7' = (s7 \ {c}) \cup {[c EXCEPT !.is = "counted"]}
      BY <1>4 DEF Z!ServeReact
    <2>2. [c EXCEPT !.is = "counted"].no = c.no /\ s11' = s11
      BY <1>4 DEF Z!ServeReact, Z!BarTypes, Z!Call
    <2>3. QED
      BY <1>3, <2>1, <2>2
  <1>5. CASE Z!CallFails
    <2>1. PICK c \in s7 : s7' = (s7 \ {c}) \cup {[c EXCEPT !.is = "failed"]}
      BY <1>5 DEF Z!CallFails
    <2>2. [c EXCEPT !.is = "failed"].no = c.no /\ s11' = s11
      BY <1>5 DEF Z!CallFails, Z!BarTypes, Z!Call
    <2>3. QED
      BY <1>3, <2>1, <2>2
  <1>6. CASE Z!Publish
    <2>1. PICK i \in DOMAIN s5 :
            s7' = {IF c.no = s5[i].of /\ c.is = "counted" THEN [c EXCEPT !.is = "ok"]
                      ELSE c : c \in s7}
      BY <1>6 DEF Z!Publish
    <2>2. \A c \in s7 : [c EXCEPT !.is = "ok"].no = c.no
      BY DEF Z!BarTypes, Z!Call
    <2>3. s11' = s11
      BY <1>6 DEF Z!Publish
    <2>4. PICK settled : settled = [c \in s7 |-> IF c.no = s5[i].of /\ c.is = "counted" THEN [c EXCEPT !.is = "ok"]
                                     ELSE c]
      OBVIOUS
    <2>5. s7' = {settled[c] : c \in s7} /\ \A c \in s7 : settled[c].no = c.no
      BY <2>1, <2>2, <2>4
    <2>6. \A x \in s7' : \E c \in s7 : x = settled[c] /\ x.no = c.no
      BY <2>5
    <2>7. QED
      BY <2>3, <2>6 DEF Z!Numbered
  <1>7. CASE Z!Answered
    BY <1>7 DEF Z!Answered, Z!Numbered
  <1>8. CASE UNCHANGED <<s7, s11>>
    BY <1>8 DEF Z!Numbered
  <1>9. CASE Z!OthersReact \/ Z!BurstEnds \/ Z!ServeRead \/ Z!ReadArrives \/ Z!ReadFails \/ Z!Deliver
    BY <1>8, <1>9 DEF Z!OthersReact, Z!BurstEnds, Z!ServeRead, Z!ReadArrives, Z!ReadFails, Z!Deliver
  <1>10. QED
    BY <1>2, <1>4, <1>5, <1>6, <1>7, <1>9 DEF Z!Next

(* Every step keeps the frames bounded by the taps.                        *)
LEMMA BarBoundStep ==
    ASSUME Z!BarTypes, Z!Numbered, Z!CountsBound, Z!Next
    PROVE  Z!CountsBound'
  <1>t. s11 \in Nat /\ s12 \in Nat /\ s5 \in Seq(Z!Count) /\ s6 \in Seq(Z!Count)
    BY PagesAssumption DEF Z!BarTypes, Z!ReactionAssumption
  <1>l. Len(s5) \in Nat /\ Len(s6) \in Nat
    BY <1>t
  <1>s. IsFiniteSet(Z!Sent) /\ Cardinality(Z!Sent) \in Nat
    <2>1. Z!Sent \subseteq 1 .. s11
      BY DEF Z!Sent, Z!Numbered
    <2>2. IsFiniteSet(Z!Sent) /\ Cardinality(Z!Sent) \in 0 .. s11
      BY <1>t, <2>1, UpTo
    <2>3. QED
      BY <1>t, <2>2
  <1>b. Len(s6) + Len(s5) + Cardinality(Z!Sent) <= s11 + s12
    BY BarCard DEF Z!CountsBound
  <1>g. ASSUME NEW n \in Nat, Cardinality(Z!Sent') = n, Len(s6') + Len(s5') + n <= s11' + s12'
        PROVE  Z!CountsBound'
    BY <1>g, BarCard DEF Z!CountsBound
  <1>1. ASSUME Z!Sent' \subseteq Z!Sent, UNCHANGED <<s11, s12>>, Len(s6') + Len(s5') <= Len(s6) + Len(s5),
               s5' \in Seq(Z!Count), s6' \in Seq(Z!Count)
        PROVE  Z!CountsBound'
    <2>1. Cardinality(Z!Sent') <= Cardinality(Z!Sent) /\ Cardinality(Z!Sent') \in Nat
      BY <1>1, <1>s, FS_Subset, FS_CardinalityType
    <2>2. PICK n \in Nat : n = Cardinality(Z!Sent')
      BY <2>1
    <2>3. Len(s6') \in Nat /\ Len(s5') \in Nat
      BY <1>1
    <2>4. Len(s6') + Len(s5') + n <= s11' + s12'
      BY <1>t, <1>l, <1>s, <1>b, <1>1, <2>1, <2>2, <2>3
    <2>5. QED
      BY <1>g, <2>2, <2>4
  <1>2. CASE UNCHANGED <<s5, s6, s7, s11, s12>>
    BY <1>2, <1>1, <1>t DEF Z!Sent
  <1>3. CASE Z!PressChip \/ Z!Pick
    <2>1. s11' = s11 + 1 /\ UNCHANGED <<s5, s6, s12>>
      BY <1>3 DEF Z!PressChip, Z!Pick, Z!React, Z!stream
    <2>2. Z!Sent' = Z!Sent \cup {s11 + 1}
      <3>1. PICK e \in Emoji : \E at : \E on \in BOOLEAN : Z!React(e, on, at)
        BY <1>3 DEF Z!PressChip, Z!Pick, Z!Chips, Z!BarTypes, Z!Bar
      <3>2. PICK on \in BOOLEAN : \E at : Z!React(e, on, at)
        BY <3>1
      <3>3. PICK b \in BOOLEAN : b = (Z!Settled /\ on # s3[e].mine)
        BY DEF Z!Settled
      <3>4. PICK d : d = [no |-> s11', emoji |-> e, on |-> on, sure |-> b, is |-> "sent"]
        OBVIOUS
      <3>5. s7' = {[c EXCEPT !.sure = FALSE] : c \in s7} \cup {d}
        BY <3>2, <3>3, <3>4 DEF Z!React
      <3>6. d.no = s11 + 1 /\ d.is = "sent"
        BY <2>1, <3>4
      <3>7. PICK settled : settled = [c \in s7 |-> [c EXCEPT !.sure = FALSE]]
        OBVIOUS
      <3>8. s7' = {settled[c] : c \in s7} \cup {d} /\ \A c \in s7 : settled[c].no = c.no /\ settled[c].is = c.is
        BY <3>5, <3>7 DEF Z!BarTypes, Z!Call
      <3>9. QED
        BY <3>6, <3>8 DEF Z!Sent
    <2>3. Cardinality(Z!Sent') <= Cardinality(Z!Sent) + 1 /\ Cardinality(Z!Sent') \in Nat
      BY <1>s, <2>2, FS_AddElement
    <2>4. PICK n \in Nat : n = Cardinality(Z!Sent')
      BY <2>3
    <2>5. Len(s6') + Len(s5') + n <= s11' + s12'
      BY <1>t, <1>l, <1>s, <1>b, <2>1, <2>3, <2>4
    <2>6. QED
      BY <1>g, <2>4, <2>5
  <1>4. CASE Z!ServeReact
    <2>1. PICK c \in s7 :
            /\ c.is = "sent" /\ s7' = (s7 \ {c}) \cup {[c EXCEPT !.is = "counted"]}
            /\ Z!Counted(c.emoji, c.no)
      BY <1>4 DEF Z!ServeReact
    <2>2. UNCHANGED <<s6, s11, s12>> /\ Len(s5') = Len(s5) + 1
      BY <1>4, <1>t, <2>1 DEF Z!ServeReact, Z!Counted
    <2>3. PICK d : d = [c EXCEPT !.is = "counted"]
      OBVIOUS
    <2>4. d.is = "counted" /\ s7' = (s7 \ {c}) \cup {d}
      BY <2>1, <2>3 DEF Z!BarTypes, Z!Call
    <2>5. Z!Sent' = Z!Sent \ {c.no} /\ c.no \in Z!Sent
      BY <2>1, <2>4 DEF Z!Sent, Z!Numbered
    <2>6. Cardinality(Z!Sent') = Cardinality(Z!Sent) - 1
      BY <1>s, <2>5, FS_RemoveElement
    <2>7. Cardinality(Z!Sent') \in Nat
      BY <1>s, <2>5, FS_RemoveElement, FS_CardinalityType
    <2>8. PICK n \in Nat : n = Cardinality(Z!Sent')
      BY <2>7
    <2>9. Len(s6') + Len(s5') + n <= s11' + s12'
      BY <1>t, <1>l, <1>s, <1>b, <2>2, <2>6, <2>8
    <2>10. QED
      BY <1>g, <2>8, <2>9
  <1>5. CASE Z!Publish
    <2>0. s5' \in Seq(Z!Count) /\ s6' \in Seq(Z!Count)
      BY <1>5, BarTypesStep DEF Z!Next, Z!BarTypes
    <2>1. PICK i \in DOMAIN s5 :
            /\ s6' = Append(s6, s5[i])
            /\ s5' = [j \in 1 .. Len(s5) - 1 |->
                        IF j < i THEN [s5[j] EXCEPT !.late = TRUE] ELSE s5[j + 1]]
            /\ s7' = {IF c.no = s5[i].of /\ c.is = "counted" THEN [c EXCEPT !.is = "ok"]
                      ELSE c : c \in s7}
      BY <1>5 DEF Z!Publish
    <2>2. Len(s6') + Len(s5') <= Len(s6) + Len(s5)
      <3>1. Len(s6') = Len(s6) + 1
        BY <1>t, <2>1
      <3>2. Len(s5) - 1 \in Nat
        BY <1>t, <2>1
      <3>3. Len(s5') = Len(s5) - 1
        BY <2>0, <2>1, <3>2
      <3>4. QED
        BY <1>l, <3>1, <3>3
    <2>3. Z!Sent' \subseteq Z!Sent
      <3>1. \A c \in s7 : [c EXCEPT !.is = "ok"].is = "ok"
        BY DEF Z!BarTypes, Z!Call
      <3>2. \A x \in s7' : x.is = "sent" => x \in s7
        BY <2>1, <3>1
      <3>3. QED
        BY <3>2 DEF Z!Sent
    <2>4. UNCHANGED <<s11, s12>>
      BY <1>5 DEF Z!Publish
    <2>5. QED
      BY <1>1, <2>0, <2>2, <2>3, <2>4
  <1>6. CASE Z!Answered
    <2>1. UNCHANGED <<s5, s6, s11, s12>> /\ Z!Sent' \subseteq Z!Sent
      BY <1>6 DEF Z!Answered, Z!stream, Z!Sent
    <2>2. QED
      BY <1>t, <1>l, <1>1, <2>1
  <1>7. CASE Z!CallFails
    <2>1. PICK c \in s7 : s7' = (s7 \ {c}) \cup {[c EXCEPT !.is = "failed"]}
      BY <1>7 DEF Z!CallFails
    <2>2. [c EXCEPT !.is = "failed"].is = "failed" /\ UNCHANGED <<s5, s6, s11, s12>>
      BY <1>7 DEF Z!CallFails, Z!stream, Z!BarTypes, Z!Call
    <2>3. Z!Sent' \subseteq Z!Sent
      BY <2>1, <2>2 DEF Z!Sent
    <2>4. QED
      BY <1>t, <1>l, <1>1, <2>2, <2>3
  <1>8. CASE Z!OthersReact
    <2>1. /\ s6' = s6 /\ s11' = s11 /\ s12' = s12 + 1 /\ Z!Sent' = Z!Sent
          /\ Len(s5') = Len(s5) + 1
      BY <1>8, <1>t DEF Z!OthersReact, Z!Counted, Z!Sent
    <2>2. PICK n \in Nat : n = Cardinality(Z!Sent)
      BY <1>s
    <2>3. Len(s6') + Len(s5') + n <= s11' + s12'
      BY <1>t, <1>l, <1>b, <2>1, <2>2
    <2>4. QED
      BY <1>g, <2>1, <2>2, <2>3
  <1>9. CASE Z!Deliver
    <2>1. /\ UNCHANGED <<s5, s11, s12, s7>> /\ s6' = Tail(s6) /\ s6 # <<>>
      BY <1>9 DEF Z!Deliver
    <2>2. s6' \in Seq(Z!Count) /\ Len(s6') = Len(s6) - 1
      BY <1>t, <2>1
    <2>3. Z!Sent' = Z!Sent
      BY <2>1 DEF Z!Sent
    <2>4. QED
      BY <1>t, <1>l, <1>1, <2>1, <2>2, <2>3
  <1>10. CASE Z!BurstEnds \/ Z!ServeRead \/ Z!ReadArrives \/ Z!ReadFails
    BY <1>2, <1>10 DEF Z!BurstEnds, Z!ServeRead, Z!ReadArrives, Z!ReadFails, Z!stream
  <1>11. QED
    BY <1>3, <1>4, <1>5, <1>6, <1>7, <1>8, <1>9, <1>10 DEF Z!Next

(* They hold at first, ...                                                 *)
LEMMA BarInit ==
    ASSUME Z!Init
    PROVE  Z!BarInv
  <1>1. Z!Init
    OBVIOUS
  <1>2. s1 \subseteq Emoji /\ s2 \in [Emoji -> 0 .. Crowd] /\ s3 = Z!Reactions
    BY <1>1 DEF Z!Init
  <1>3. /\ s3 \in Z!Bar
        /\ \A e \in Emoji : s3[e].count = Z!CountFor(e) /\ s3[e].mine = (e \in s1)
    BY <1>2, BarReactions
  <1>4. Z!BarTypes
    <2>1. 0 \in 0 .. MaxTaps /\ 0 \in 0 .. MaxCrowd /\ 0 \in 0 .. MaxMishaps
      BY PagesAssumption DEF Z!ReactionAssumption
    <2>2. s11 \in 0 .. MaxTaps /\ s12 \in 0 .. MaxCrowd /\ s13 \in 0 .. MaxMishaps
      BY <1>1, <2>1 DEF Z!Init
    <2>3. s5 \in Seq(Z!Count) /\ s6 \in Seq(Z!Count) /\ s7 = {}
      BY <1>1 DEF Z!Init
    <2>4. s9 \in BOOLEAN /\ s10 \in BOOLEAN /\ s8 = Z!NoBurst /\ s4 = Z!NoRead
      BY <1>1 DEF Z!Init
    <2>5. QED
      BY <1>2, <1>3, <2>2, <2>3, <2>4 DEF Z!BarTypes
  <1>5. Z!Numbered /\ Z!NoPressWasted
    BY <1>1 DEF Z!Init, Z!Numbered, Z!NoPressWasted
  <1>6. Z!CountsBound
    <2>1. Z!Sent = {}
      BY <1>1 DEF Z!Init, Z!Sent
    <2>2. Z!Cardinality(Z!Sent) = 0
      BY <2>1, BarCard, FS_EmptySet
    <2>3. QED
      BY <1>1, <2>2 DEF Z!Init, Z!CountsBound
  <1>7. Z!CountsCome
    BY <1>1 DEF Z!Init, Z!CountsCome, Z!AllLate, Z!LateAfter
  <1>8. Z!ReadIsGood
    BY <1>1 DEF Z!Init, Z!ReadIsGood, Z!NoRead
  <1>9. Z!ShownIsGood
    BY <1>2, <1>3, BarCountFor DEF Z!ShownIsGood, Z!CountsUp, Z!MarksUp, Z!Pressable
  <1>10. QED
    BY <1>4, <1>5, <1>6, <1>7, <1>8, <1>9 DEF Z!BarInv

(* ... every step keeps them, ...                                          *)
LEMMA BarStep ==
    ASSUME Z!BarInv, Z!Next
    PROVE  Z!BarInv'
  <1>1. /\ Z!BarTypes /\ Z!Numbered /\ Z!CountsBound
        /\ Z!CountsCome /\ Z!ReadIsGood /\ Z!ShownIsGood /\ Z!NoPressWasted
    BY DEF Z!BarInv
  <1>2. Z!CountsCome'
    BY <1>1, BarCountsStep DEF Z!CountsCome
  <1>3. Z!BarTypes' /\ Z!Numbered' /\ Z!CountsBound'
    BY <1>1, BarTypesStep, BarNumbersStep, BarBoundStep
  <1>4. Z!ReadIsGood' /\ Z!ShownIsGood' /\ Z!NoPressWasted'
    BY <1>1, BarReadStep, BarShownStep, BarPressStep
  <1>5. QED
    BY <1>2, <1>3, <1>4 DEF Z!BarInv

(* ... so does a step of nothing, ...                                      *)
LEMMA BarStays ==
    ASSUME Z!BarInv, UNCHANGED <<s1, s2, s3, s4, s5, s6, s7, s8, s9, s10, s11, s12, s13>>
    PROVE  Z!BarInv'
  <1>1. /\ Z!BarTypes /\ Z!Numbered /\ Z!CountsBound
        /\ Z!CountsCome /\ Z!ReadIsGood /\ Z!ShownIsGood /\ Z!NoPressWasted
    BY DEF Z!BarInv
  <1>2. Z!BarTypes' /\ Z!Numbered' /\ Z!NoPressWasted'
    BY <1>1 DEF Z!BarTypes, Z!Numbered, Z!NoPressWasted
  <1>3. Z!Sent' = Z!Sent
    BY DEF Z!Sent
  <1>4. Z!CountsBound'
    BY <1>1, <1>3, BarCard DEF Z!CountsBound
  <1>5. \A e \in Emoji : /\ Z!CountFor(e)' = Z!CountFor(e)
                         /\ Z!RightToCome(e)' = Z!RightToCome(e)
                         /\ Z!AllLate(e)' = Z!AllLate(e)
                         /\ Z!UnderWay(e)' = Z!UnderWay(e)
    BY BarStill DEF Z!stored, Z!stream, Z!UnderWay
  <1>6. Z!CountsCome'
    BY <1>1, <1>5 DEF Z!CountsCome
  <1>7. Z!ReadIsGood'
    BY <1>1, <1>5 DEF Z!ReadIsGood, Z!Pressable, Z!CountsUp, Z!MarksUp
  <1>8. Z!ShownIsGood'
    BY <1>1, <1>5 DEF Z!ShownIsGood, Z!Pressable, Z!CountsUp, Z!MarksUp
  <1>9. QED
    BY <1>2, <1>4, <1>6, <1>7, <1>8 DEF Z!BarInv

(* ... and they say what the bar promises.                                 *)
LEMMA BarHolds ==
    ASSUME Z!BarInv
    PROVE  Z!TypeOK /\ Z!BarIsHonest
  <1> SUFFICES ASSUME Z!BarTypes, Z!Numbered, Z!CountsBound, Z!ShownIsGood, Z!NoPressWasted
               PROVE  Z!TypeOK /\ Z!BarIsHonest
    BY DEF Z!BarInv
  <1>1. Len(s6) + Len(s5) <= MaxTaps + MaxCrowd
    <2>1. Len(s6) \in Nat /\ Len(s5) \in Nat /\ s11 \in Nat
      BY PagesAssumption DEF Z!BarTypes, Z!ReactionAssumption
    <2>2. Z!Sent \subseteq 1 .. s11
      BY DEF Z!Sent, Z!Numbered
    <2>c. Cardinality(Z!Sent) \in 0 .. s11
      BY <2>1, <2>2, UpTo
    <2>3. PICK n \in Nat : n = Z!Cardinality(Z!Sent)
      BY <2>1, <2>c, BarCard
    <2>4. Len(s6) + Len(s5) + n <= s11 + s12
      BY <2>3 DEF Z!CountsBound
    <2>5. s11 \in 0 .. MaxTaps /\ s12 \in 0 .. MaxCrowd /\ MaxTaps \in Nat /\ MaxCrowd \in Nat
      BY PagesAssumption DEF Z!BarTypes, Z!ReactionAssumption
    <2>6. QED
      BY <2>1, <2>4, <2>5
  <1>2. Z!TypeOK
    <2>1. s11 <= MaxTaps /\ s12 <= MaxCrowd /\ s13 <= MaxMishaps
      BY PagesAssumption DEF Z!BarTypes, Z!ReactionAssumption
    <2>2. s4.is \in {"none", "asked", "served"}
      BY DEF Z!BarTypes, Z!NoRead, Z!AskRead
    <2>3. \A c \in s7 : c.emoji \in Emoji /\ c.is \in {"sent", "counted", "ok", "failed"}
      BY DEF Z!BarTypes, Z!Call
    <2>4. QED
      BY <1>1, <2>1, <2>2, <2>3 DEF Z!BarTypes, Z!TypeOK, Z!Bar
  <1>3. ASSUME Z!Settled PROVE s3 = Z!Reactions
    <2>1. s5 = <<>> /\ s6 = <<>> /\ s7 = {} /\ s4 = Z!NoRead /\ ~s9
      BY <1>3 DEF Z!Settled, Z!stream
    <2>2. \A e \in Emoji : s3[e].count = Z!CountFor(e)
      BY <2>1 DEF Z!ShownIsGood, Z!CountsUp, Z!RightToCome
    <2>3. \A e \in Emoji : s3[e].mine = (e \in s1)
      BY <2>1 DEF Z!ShownIsGood, Z!MarksUp, Z!UnderWay
    <2>4. s3 \in Z!Bar /\ Z!Reactions \in Z!Bar
      BY BarReactions DEF Z!BarTypes
    <2>5. \A e \in Emoji : Z!Reactions[e].count = Z!CountFor(e) /\ Z!Reactions[e].mine = (e \in s1)
      BY BarReactions DEF Z!BarTypes
    <2>6. \A e \in Emoji : s3[e] = Z!Reactions[e]
      <3> TAKE e \in Emoji
      <3>1. /\ s3[e] \in [count : 0 .. Crowd + 1, mine : BOOLEAN]
            /\ Z!Reactions[e] \in [count : 0 .. Crowd + 1, mine : BOOLEAN]
        BY <2>4 DEF Z!Bar
      <3>2. s3[e].count = Z!Reactions[e].count /\ s3[e].mine = Z!Reactions[e].mine
        BY <2>2, <2>3, <2>5
      <3>3. QED
        BY <3>1, <3>2
    <2>7. QED
      BY <2>4, <2>6 DEF Z!Bar
  <1>4. \A e \in Emoji : s3[e].mine => e \in Z!Chips
    BY DEF Z!ShownIsGood, Z!Pressable, Z!Chips
  <1>5. QED
    BY <1>2, <1>3, <1>4 DEF Z!BarIsHonest, Z!NoPressWasted

-----------------------------------------------------------------------------
(* Friends (s1 request, s2 friends, s3 follows, s4 call, s5 wants, s6      *)
(* relation, s7 overview, s8 asked, s9 pressed, s10 misses).               *)

(* There are the viewer and the peer, and each is the other's other.       *)
LEMMA FriendTwo ==
    /\ B!Me \in B!Pair /\ B!Peer \in B!Pair
    /\ \A u \in B!Pair : B!Other(u) \in B!Pair /\ B!Other(u) # u /\ B!Other(B!Other(u)) = u
    /\ \A u, v \in B!Pair : v = u \/ v = B!Other(u)
  BY DEF B!Pair, B!Me, B!Peer, B!Other

(* What one is to the other is one of the five standings.                  *)
LEMMA FriendStanding ==
    ASSUME NEW u
    PROVE  B!StandingOf(u) \in B!Standings
  BY DEF B!StandingOf, B!Standings

(* A step of one's verb.                                                   *)
LEMMA FriendAt ==
    ASSUME NEW c, c \in [B!Pair -> B!AnyCall], NEW u \in B!Pair,
           NEW at \in {"idle", "relation", "answered"} \cup B!Befriending \cup B!Unfriending
    PROVE  /\ [c EXCEPT ![u].at = at] \in [B!Pair -> B!AnyCall]
           /\ [c EXCEPT ![u].at = at][u].at = at
           /\ [c EXCEPT ![u].at = at][u].verb = c[u].verb
           /\ [c EXCEPT ![u].at = at][u].answer = c[u].answer
           /\ \A v \in B!Pair : v # u => [c EXCEPT ![u].at = at][v] = c[v]
  <1>1. PICK d \in B!AnyCall : d = [c[u] EXCEPT !.at = at]
    BY DEF B!AnyCall
  <1>2. [c EXCEPT ![u].at = at] = [c EXCEPT ![u] = d]
    BY <1>1
  <1>3. d.at = at /\ d.verb = c[u].verb /\ d.answer = c[u].answer
    BY <1>1 DEF B!AnyCall
  <1>4. QED
    BY <1>2, <1>3

(* Every step keeps the types.                                             *)
LEMMA FriendTypesStep ==
    ASSUME B!FriendTypes, B!VerbsAreTheirs, B!Next
    PROVE  B!FriendTypes'
  <1> USE DEF B!FriendTypes
  <1>1. ASSUME NEW u \in B!Pair, NEW verb \in {"befriend", "unfriend"}, NEW by \in {"row", "list", "add"},
               B!Send(u, verb, by), UNCHANGED <<s1, s2, s3, s6, s7, s8, s10>>
        PROVE  B!FriendTypes'
    <2>1. PICK d : d = [verb |-> verb, at |-> verb, by |-> by, answer |-> "none"]
      OBVIOUS
    <2>2. d \in B!AnyCall
      BY <2>1 DEF B!AnyCall, B!Befriending, B!Unfriending
    <2>3. s4' \in [B!Pair -> B!AnyCall]
      BY <1>1, <2>1, <2>2 DEF B!Send
    <2>4. s5' \in [by : [B!Pair -> BOOLEAN], crossed : BOOLEAN]
      <3>1. PICK b \in BOOLEAN : b = (verb = "befriend")
        OBVIOUS
      <3>2. PICK x \in BOOLEAN : x = (s5.crossed \/ {verb, s4[B!Other(u)].verb} = {"befriend", "unfriend"})
        OBVIOUS
      <3>3. s5' = [s5 EXCEPT !.by[u] = b, !.crossed = x]
        BY <1>1, <3>1, <3>2 DEF B!Send
      <3>4. QED
        BY <3>3
    <2>5. s9' \in Nat
      BY <1>1 DEF B!Send
    <2>6. QED
      BY <1>1, <2>3, <2>4, <2>5
  <1>2. CASE B!Press
    <2>1. PICK o \in B!Offered : B!Send(B!Me, o.verb, o.by)
      BY <1>2 DEF B!Press
    <2>2. o.verb \in {"befriend", "unfriend"} /\ o.by \in {"row", "list", "add"}
      BY DEF B!Offered, B!FriendAction
    <2>3. QED
      BY <1>1, <1>2, <2>1, <2>2, FriendTwo DEF B!Press
  <1>3. CASE B!PeerPress
    BY <1>1, <1>3, FriendTwo DEF B!PeerPress
  <1>4. ASSUME NEW u \in B!Pair, NEW at \in {"relation"} \cup B!Befriending \cup B!Unfriending, B!Step(u, at)
        PROVE  s4' \in [B!Pair -> B!AnyCall]
    BY <1>4, FriendAt DEF B!Step
  <1>5. ASSUME NEW u \in B!Pair,
               \/ B!LookForFriendship(u) \/ B!LookForRequest(u) \/ B!Accept(u) \/ B!Ask(u)
               \/ B!CancelOwn(u) \/ B!DeclineTheirs(u) \/ B!Part(u)
        PROVE  B!FriendTypes'
    <2>1. s4' \in [B!Pair -> B!AnyCall]
      BY <1>4, <1>5 DEF B!LookForFriendship, B!LookForRequest, B!Accept, B!Ask, B!CancelOwn,
         B!DeclineTheirs, B!Part, B!Befriending, B!Unfriending
    <2>2. s1' \in [B!Pair -> BOOLEAN] /\ s2' \in BOOLEAN /\ s3' \in [B!Pair -> BOOLEAN]
      BY <1>5 DEF B!LookForFriendship, B!LookForRequest, B!Accept, B!Ask, B!CancelOwn,
         B!DeclineTheirs, B!Part
    <2>3. UNCHANGED <<s5, s6, s7, s8, s9, s10>>
      BY <1>5 DEF B!LookForFriendship, B!LookForRequest, B!Accept, B!Ask, B!CancelOwn,
         B!DeclineTheirs, B!Part
    <2>4. QED
      BY <2>1, <2>2, <2>3
  <1>6. B!NoCall \in B!AnyCall
    BY DEF B!NoCall, B!AnyCall
  <1>7. ASSUME NEW u \in B!Pair, B!Relate(u)
        PROVE  B!FriendTypes'
    <2>1. PICK d : d = IF u = B!Me THEN [s4[u] EXCEPT !.at = "answered", !.answer = B!StandingOf(B!Me)]
                       ELSE B!NoCall
      OBVIOUS
    <2>2. d \in B!AnyCall
      <3>1. B!StandingOf(B!Me) \in B!Standings
        BY FriendStanding
      <3>2. [s4[u] EXCEPT !.at = "answered", !.answer = B!StandingOf(B!Me)] \in B!AnyCall
        <4>1. s4[u] \in B!AnyCall
          OBVIOUS
        <4>2. QED
          BY <3>1, <4>1 DEF B!AnyCall
      <3>3. QED
        BY <1>6, <2>1, <3>2
    <2>3. s4' = [s4 EXCEPT ![u] = d]
      BY <1>7, <2>1 DEF B!Relate
    <2>4. QED
      BY <1>7, <2>2, <2>3 DEF B!Relate
  <1>8. CASE B!VerbArrives
    <2>1. s4' \in [B!Pair -> B!AnyCall]
      BY <1>6, <1>8, FriendTwo DEF B!VerbArrives
    <2>2. s4[B!Me].answer \in B!Standings /\ s4[B!Me] \in B!AnyCall
      BY <1>8, FriendTwo DEF B!VerbArrives, B!VerbsAreTheirs
    <2>3. s6' \in B!AnyQuery
      BY <1>8, <2>2 DEF B!VerbArrives, B!AnyQuery
    <2>4. s7' \in B!AnyQuery
      BY <1>8 DEF B!VerbArrives, B!AnyQuery
    <2>5. s8' \in BOOLEAN
      BY <1>8 DEF B!VerbArrives
    <2>6. QED
      BY <1>8, <2>1, <2>3, <2>4, <2>5 DEF B!VerbArrives
  <1>9. CASE B!VerbFails
    BY <1>6, <1>9, FriendTwo DEF B!VerbFails
  <1>10. CASE B!ToggleFollow
    <2>1. [B!NoCall EXCEPT !.verb = "follow", !.at = "relation"] \in B!AnyCall
      BY DEF B!NoCall, B!AnyCall
    <2>2. s4' \in [B!Pair -> B!AnyCall]
      BY <1>10, <2>1, FriendTwo DEF B!ToggleFollow
    <2>3. s3' \in [B!Pair -> BOOLEAN] /\ s9' \in Nat
      <3>1. s3' = [s3 EXCEPT ![B!Me] = ~s3[B!Me]] /\ s9' = s9 + 1
        BY <1>10 DEF B!ToggleFollow
      <3>2. s3[B!Me] \in BOOLEAN
        BY FriendTwo
      <3>3. PICK b \in BOOLEAN : b = ~s3[B!Me]
        BY <3>2
      <3>4. s3' = [s3 EXCEPT ![B!Me] = b]
        BY <3>1, <3>3
      <3>5. s3' \in [B!Pair -> BOOLEAN]
        BY <3>4
      <3>6. s9' \in Nat
        BY <3>1
      <3>7. QED
        BY <3>5, <3>6
    <2>4. QED
      BY <1>10, <2>2, <2>3 DEF B!ToggleFollow
  <1>11. ASSUME NEW q \in B!AnyQuery
         PROVE  B!Read(q) \in B!AnyQuery /\ B!Served(q) \in B!AnyQuery /\ B!Arrived(q) \in B!AnyQuery
    <2>1. B!Read(q) \in B!AnyQuery /\ B!Arrived(q) \in B!AnyQuery
      BY DEF B!Read, B!Arrived, B!Blank, B!AnyQuery
    <2>2. B!Served(q) \in B!AnyQuery
      BY FriendStanding DEF B!Served, B!AnyQuery
    <2>3. QED
      BY <2>1, <2>2
  <1>12. CASE B!ReadRelation
    BY <1>11, <1>12 DEF B!ReadRelation
  <1>13. CASE B!ReadOverview
    BY <1>11, <1>13 DEF B!ReadOverview
  <1>14. QED
    BY <1>2, <1>3, <1>5, <1>7, <1>8, <1>9, <1>10, <1>12, <1>13 DEF B!Next

(* Every step keeps a call at the places of its own verb.                  *)
LEMMA FriendVerbsStep ==
    ASSUME B!FriendTypes, B!VerbsAreTheirs, B!Next
    PROVE  B!VerbsAreTheirs'
  <1>c. s4 \in [B!Pair -> B!AnyCall]
    BY DEF B!FriendTypes
  <1>g. ASSUME NEW u \in B!Pair, NEW d, s4' = [s4 EXCEPT ![u] = d],
               d.at \in B!Befriending => d.verb = "befriend",
               d.at \in B!Unfriending => d.verb = "unfriend",
               d.at = "answered" => d.answer \in B!Standings
        PROVE  B!VerbsAreTheirs'
    BY <1>c, <1>g DEF B!VerbsAreTheirs
  <1>1. ASSUME NEW u \in B!Pair, NEW verb \in {"befriend", "unfriend"}, NEW by, B!Send(u, verb, by)
        PROVE  B!VerbsAreTheirs'
    <2>1. PICK d : d = [verb |-> verb, at |-> verb, by |-> by, answer |-> "none"]
      OBVIOUS
    <2>2. s4' = [s4 EXCEPT ![u] = d] /\ d.at = verb /\ d.verb = verb
      BY <1>1, <2>1 DEF B!Send
    <2>3. QED
      BY <1>g, <2>2 DEF B!Befriending, B!Unfriending
  <1>2. CASE B!Press \/ B!PeerPress
    <2>1. \A o \in B!Offered : o.verb \in {"befriend", "unfriend"}
      BY DEF B!Offered, B!FriendAction
    <2>2. QED
      BY <1>1, <1>2, <2>1, FriendTwo DEF B!Press, B!PeerPress
  <1>4. ASSUME NEW u \in B!Pair, NEW at \in {"relation"} \cup B!Befriending \cup B!Unfriending, B!Step(u, at),
               at \in B!Befriending => s4[u].verb = "befriend",
               at \in B!Unfriending => s4[u].verb = "unfriend"
        PROVE  B!VerbsAreTheirs'
    <2>1. s4' = [s4 EXCEPT ![u].at = at]
      BY <1>4 DEF B!Step
    <2>2. s4'[u].at = at /\ s4'[u].verb = s4[u].verb /\ \A v \in B!Pair : v # u => s4'[v] = s4[v]
      BY <1>c, <2>1, FriendAt
    <2>3. at # "answered"
      BY DEF B!Befriending, B!Unfriending
    <2>4. QED
      BY <1>4, <2>2, <2>3 DEF B!VerbsAreTheirs
  <1>5. ASSUME NEW u \in B!Pair, B!LookForFriendship(u) \/ B!LookForRequest(u) \/ B!Accept(u) \/ B!Ask(u)
        PROVE  B!VerbsAreTheirs'
    <2>1. s4[u].verb = "befriend"
      BY <1>5 DEF B!LookForFriendship, B!LookForRequest, B!Accept, B!Ask, B!VerbsAreTheirs, B!Befriending
    <2>2. PICK at \in {"relation"} \cup B!Befriending : B!Step(u, at)
      BY <1>5 DEF B!LookForFriendship, B!LookForRequest, B!Accept, B!Ask, B!Befriending
    <2>3. at \notin B!Unfriending
      BY DEF B!Befriending, B!Unfriending
    <2>4. QED
      BY <1>4, <2>1, <2>2, <2>3
  <1>6. ASSUME NEW u \in B!Pair, B!CancelOwn(u) \/ B!DeclineTheirs(u) \/ B!Part(u)
        PROVE  B!VerbsAreTheirs'
    <2>1. s4[u].verb = "unfriend"
      BY <1>6 DEF B!CancelOwn, B!DeclineTheirs, B!Part, B!VerbsAreTheirs, B!Unfriending
    <2>2. PICK at \in {"relation"} \cup B!Unfriending : B!Step(u, at)
      BY <1>6 DEF B!CancelOwn, B!DeclineTheirs, B!Part, B!Unfriending
    <2>3. at \notin B!Befriending
      BY DEF B!Befriending, B!Unfriending
    <2>4. QED
      BY <1>4, <2>1, <2>2, <2>3
  <1>n. B!NoCall.at = "idle" /\ "idle" \notin B!Befriending \cup B!Unfriending
    BY DEF B!NoCall, B!Befriending, B!Unfriending
  <1>7. ASSUME NEW u \in B!Pair, B!Relate(u)
        PROVE  B!VerbsAreTheirs'
    <2>1. PICK d : d = IF u = B!Me THEN [s4[u] EXCEPT !.at = "answered", !.answer = B!StandingOf(B!Me)]
                       ELSE B!NoCall
      OBVIOUS
    <2>2. s4' = [s4 EXCEPT ![u] = d]
      BY <1>7, <2>1 DEF B!Relate
    <2>3. CASE u = B!Me
      <3>1. d.at = "answered" /\ d.answer = B!StandingOf(B!Me)
        BY <1>c, <2>1, <2>3 DEF B!AnyCall
      <3>2. QED
        BY <1>g, <2>2, <3>1, FriendStanding DEF B!Befriending, B!Unfriending
    <2>4. CASE u # B!Me
      BY <1>g, <1>n, <2>1, <2>2, <2>4
    <2>5. QED
      BY <2>3, <2>4
  <1>8. CASE B!VerbArrives \/ B!VerbFails
    BY <1>g, <1>n, <1>8, FriendTwo DEF B!VerbArrives, B!VerbFails
  <1>9. CASE B!ToggleFollow
    <2>1. PICK d : d = [B!NoCall EXCEPT !.verb = "follow", !.at = "relation"]
      OBVIOUS
    <2>2. d.at = "relation"
      BY <2>1 DEF B!NoCall
    <2>3. QED
      BY <1>g, <1>9, <2>1, <2>2, FriendTwo DEF B!ToggleFollow, B!Befriending, B!Unfriending
  <1>10. CASE B!ReadRelation \/ B!ReadOverview
    BY <1>10 DEF B!ReadRelation, B!ReadOverview, B!VerbsAreTheirs
  <1>11. QED
    BY <1>2, <1>5, <1>6, <1>7, <1>8, <1>9, <1>10 DEF B!Next

(* Every step keeps each request and each friendship meant by whoever made *)
(* it.                                                                     *)
LEMMA FriendMeantStep ==
    ASSUME B!FriendTypes, B!VerbsAreTheirs, B!AllMeant, B!Next
    PROVE  B!AllMeant'
  <1> SUFFICES ASSUME ~s5'.crossed, s10' = 0
               PROVE  B!AllMeant'
    BY DEF B!AllMeant
  <1>t. /\ s4 \in [B!Pair -> B!AnyCall] /\ s1 \in [B!Pair -> BOOLEAN] /\ s10 \in Nat
        /\ s5 \in [by : [B!Pair -> BOOLEAN], crossed : BOOLEAN]
    BY DEF B!FriendTypes
  <1>a. \A u \in B!Pair : /\ s4[u].at \in B!Befriending => s4[u].verb = "befriend"
                          /\ s4[u].at \in B!Unfriending => s4[u].verb = "unfriend"
    BY DEF B!VerbsAreTheirs
  <1>k. "befriend" \notin B!Unfriending /\ "unfriend" \in B!Unfriending /\ "decline" \in B!Unfriending
        /\ "part" \in B!Unfriending /\ "relation" \notin B!Unfriending /\ "accept" \in B!Befriending
        /\ "ask" \in B!Befriending /\ "look" \in B!Befriending /\ "befriend" \in B!Befriending
        /\ "look" \notin B!Unfriending /\ "accept" \notin B!Unfriending /\ "ask" \notin B!Unfriending
        /\ "idle" \notin B!Unfriending /\ "answered" \notin B!Unfriending
    BY DEF B!Befriending, B!Unfriending
  <1>i. ASSUME ~s5.crossed, s10 = 0
        PROVE  /\ \A u \in B!Pair :
                    /\ s4[u].verb = "befriend" => s5.by[u] /\ s4[B!Other(u)].verb # "unfriend"
                    /\ s4[u].verb = "unfriend" => ~s5.by[u]
                    /\ s1[u] => s5.by[u] \/ s4[u].at = "unfriend"
                    /\ s4[u].at = "accept" => s5.by[B!Other(u)]
               /\ s2 => \A u \in B!Pair : s5.by[u] \/ \E v \in B!Pair : s4[v].at \in B!Unfriending
    BY <1>i DEF B!AllMeant
  <1>1. ASSUME NEW u \in B!Pair, NEW verb \in {"befriend", "unfriend"}, NEW by, B!Send(u, verb, by),
               UNCHANGED <<s1, s2, s3, s6, s7, s8, s10>>
        PROVE  B!AllMeant'
    <2>1. PICK d : d = [verb |-> verb, at |-> verb, by |-> by, answer |-> "none"]
      OBVIOUS
    <2>2. PICK w \in B!Pair : w = B!Other(u) /\ w # u /\ B!Other(w) = u /\ \A v \in B!Pair : v = u \/ v = w
      BY FriendTwo
    <2>3. PICK b \in BOOLEAN : b = (verb = "befriend")
      OBVIOUS
    <2>4. PICK x \in BOOLEAN : x = (s5.crossed \/ {verb, s4[w].verb} = {"befriend", "unfriend"})
      OBVIOUS
    <2>5. s5' = [s5 EXCEPT !.by[u] = b, !.crossed = x]
      BY <1>1, <2>2, <2>3, <2>4 DEF B!Send
    <2>6. s5'.by[u] = b /\ s5'.by[w] = s5.by[w] /\ ~x
      BY <1>t, <2>2, <2>5
    <2>7. ~s5.crossed /\ s10 = 0 /\ ~(verb = "befriend" /\ s4[w].verb = "unfriend")
          /\ ~(verb = "unfriend" /\ s4[w].verb = "befriend")
      BY <1>1, <2>4, <2>6
    <2>8. /\ s4'[u] = d /\ s4'[w] = s4[w] /\ d.verb = verb /\ d.at = verb /\ s4[u] = B!NoCall
      BY <1>t, <1>1, <2>1, <2>2 DEF B!Send
    <2>9. s4[u].at = "idle" /\ s4[u].verb = "none"
      BY <2>8 DEF B!NoCall
    <2>10. ASSUME s2 PROVE \A v \in B!Pair : s5'.by[v] \/ \E z \in B!Pair : s4'[z].at \in B!Unfriending
      <3>1. CASE verb = "unfriend"
        BY <1>k, <2>8, <3>1
      <3>2. CASE verb = "befriend"
        <4>1. b = TRUE /\ s5'.by[u]
          BY <2>3, <2>6, <3>2
        <4>2. s5.by[w] \/ \E z \in B!Pair : s4[z].at \in B!Unfriending
          BY <1>i, <2>7, <2>10
        <4>3. \A z \in B!Pair : s4[z].at \in B!Unfriending => s4'[z].at \in B!Unfriending
          BY <1>k, <2>2, <2>8, <2>9
        <4>4. s5'.by[w] \/ \E z \in B!Pair : s4'[z].at \in B!Unfriending
          BY <2>6, <4>2, <4>3
        <4>5. QED
          BY <2>2, <4>1, <4>4
      <3>3. QED
        BY <3>1, <3>2
    <2>11. s1[u] => s5'.by[u] \/ s4'[u].at = "unfriend"
      BY <2>3, <2>6, <2>8
    <2>12. s1[w] => s5'.by[w] \/ s4'[w].at = "unfriend"
      BY <1>i, <2>6, <2>7, <2>8
    <2>13. /\ s4'[u].verb = "befriend" => s5'.by[u] /\ s4'[w].verb # "unfriend"
           /\ s4'[u].verb = "unfriend" => ~s5'.by[u]
           /\ s4'[u].at # "accept"
      BY <2>3, <2>6, <2>7, <2>8
    <2>14. /\ s4'[w].verb = "befriend" => s5'.by[w] /\ s4'[u].verb # "unfriend"
           /\ s4'[w].verb = "unfriend" => ~s5'.by[w]
      BY <1>i, <2>6, <2>7, <2>8
    <2>15. s4'[w].at = "accept" => s5'.by[u]
      BY <1>a, <1>k, <2>3, <2>6, <2>7, <2>8
    <2>16. s1' = s1 /\ s2' = s2
      BY <1>1
    <2>17. QED
      BY <2>2, <2>10, <2>11, <2>12, <2>13, <2>14, <2>15, <2>16 DEF B!AllMeant
  <1>2. CASE B!Press \/ B!PeerPress
    <2>1. \A o \in B!Offered : o.verb \in {"befriend", "unfriend"}
      BY DEF B!Offered, B!FriendAction
    <2>2. QED
      BY <1>1, <1>2, <2>1, FriendTwo DEF B!Press, B!PeerPress
  (* The other actions leave what the two want alone.                      *)
  <1>3. ASSUME s5' = s5, s10' = s10, NEW u \in B!Pair, NEW d, s4' = [s4 EXCEPT ![u] = d],
               d.verb = s4[u].verb \/ d.verb \in {"none", "follow"},
               s4[u].at = "unfriend" => ~s1'[u] \/ s5.by[u],
               d.at = "accept" => s5.by[B!Other(u)],
               \A v \in B!Pair : s1'[v] => s1[v] \/ s5.by[v],
               s2' => (s2 /\ (s4[u].at \in B!Unfriending => d.at \in B!Unfriending))
                      \/ \A v \in B!Pair : s5.by[v]
        PROVE  B!AllMeant'
    <2>1. PICK w \in B!Pair : w = B!Other(u) /\ w # u /\ B!Other(w) = u /\ \A v \in B!Pair : v = u \/ v = w
      BY FriendTwo
    <2>2. s4'[u] = d /\ s4'[w] = s4[w] /\ ~s5.crossed /\ s10 = 0
      BY <1>t, <1>3, <2>1
    <2>3. /\ s4'[u].verb = "befriend" => s5.by[u] /\ s4'[w].verb # "unfriend"
          /\ s4'[u].verb = "unfriend" => ~s5.by[u]
          /\ s4'[w].verb = "befriend" => s5.by[w] /\ s4'[u].verb # "unfriend"
          /\ s4'[w].verb = "unfriend" => ~s5.by[w]
      BY <1>i, <1>3, <2>1, <2>2
    <2>4. s1'[u] => s5.by[u] \/ s4'[u].at = "unfriend"
      BY <1>i, <1>3, <2>1, <2>2
    <2>5. s1'[w] => s5.by[w] \/ s4'[w].at = "unfriend"
      BY <1>i, <1>3, <2>1, <2>2
    <2>6. (s4'[u].at = "accept" => s5.by[w]) /\ (s4'[w].at = "accept" => s5.by[u])
      BY <1>i, <1>3, <2>1, <2>2
    <2>7. ASSUME s2' PROVE \A v \in B!Pair : s5.by[v] \/ \E z \in B!Pair : s4'[z].at \in B!Unfriending
      BY <1>i, <1>3, <2>1, <2>2, <2>7
    <2>8. QED
      BY <1>3, <2>1, <2>3, <2>4, <2>5, <2>6, <2>7 DEF B!AllMeant
  <1>4. ASSUME NEW u \in B!Pair, NEW at \in {"relation"} \cup B!Befriending \cup B!Unfriending,
               s10' = s10, B!Step(u, at)
        PROVE  \E d : s4' = [s4 EXCEPT ![u] = d] /\ d.at = at /\ d.verb = s4[u].verb
    <2>1. s4' = [s4 EXCEPT ![u].at = at]
      BY <1>4 DEF B!Step
    <2>2. s4' \in [B!Pair -> B!AnyCall] /\ s4'[u].at = at /\ s4'[u].verb = s4[u].verb
          /\ \A v \in B!Pair : v # u => s4'[v] = s4[v]
      BY <1>t, <2>1, FriendAt
    <2>3. s4' = [s4 EXCEPT ![u] = s4'[u]]
      BY <1>t, <2>2
    <2>4. QED
      BY <2>2, <2>3
  <1>5. ASSUME NEW u \in B!Pair, B!LookForFriendship(u) \/ B!LookForRequest(u)
        PROVE  B!AllMeant'
    <2>1. UNCHANGED <<s1, s2, s5, s10>> /\ s4[u].at \in {"befriend", "look"}
      BY <1>5 DEF B!LookForFriendship, B!LookForRequest
    <2>2. PICK at \in {"relation", "look", "accept", "ask"} :
            B!Step(u, at) /\ (at = "accept" => s1[B!Other(u)])
      BY <1>5 DEF B!LookForFriendship, B!LookForRequest
    <2>3. PICK d : s4' = [s4 EXCEPT ![u] = d] /\ d.at = at /\ d.verb = s4[u].verb
      BY <1>4, <1>k, <2>1, <2>2
    <2>4. B!Other(u) \in B!Pair /\ s4[u].verb = "befriend" /\ s4[u].at # "unfriend"
      BY <1>a, <1>k, <2>1, FriendTwo
    <2>5. s4[B!Other(u)].at # "unfriend"
      BY <1>a, <1>i, <1>k, <2>1, <2>4
    <2>6. d.at = "accept" => s5.by[B!Other(u)]
      BY <1>i, <2>1, <2>2, <2>3, <2>4, <2>5
    <2>7. s4[u].at \notin B!Unfriending
      BY <1>k, <2>1
    <2>8. QED
      BY <1>3, <2>1, <2>3, <2>4, <2>6, <2>7
  <1>6. ASSUME NEW u \in B!Pair, B!Accept(u)
        PROVE  B!AllMeant'
    <2>1. UNCHANGED <<s5, s10>> /\ s4[u].at = "accept" /\ B!Step(u, "relation")
          /\ s1' = [s1 EXCEPT ![B!Other(u)] = FALSE]
      BY <1>6 DEF B!Accept
    <2>2. PICK d : s4' = [s4 EXCEPT ![u] = d] /\ d.at = "relation" /\ d.verb = s4[u].verb
      BY <1>4, <2>1
    <2>3. s4[u].verb = "befriend" /\ s5.by[u] /\ s5.by[B!Other(u)]
      BY <1>a, <1>i, <1>k, <2>1
    <2>4. \A v \in B!Pair : s5.by[v]
      BY <2>3, FriendTwo
    <2>5. QED
      BY <1>3, <1>t, <2>1, <2>2, <2>4
  <1>7. ASSUME NEW u \in B!Pair, B!Ask(u)
        PROVE  B!AllMeant'
    <2>1. UNCHANGED <<s2, s5, s10>> /\ s4[u].at = "ask" /\ B!Step(u, "relation")
          /\ s1' = [s1 EXCEPT ![u] = TRUE]
      BY <1>7 DEF B!Ask
    <2>2. PICK d : s4' = [s4 EXCEPT ![u] = d] /\ d.at = "relation" /\ d.verb = s4[u].verb
      BY <1>4, <2>1
    <2>3. s4[u].verb = "befriend" /\ s5.by[u] /\ s4[u].at \notin B!Unfriending
      BY <1>a, <1>i, <1>k, <2>1
    <2>4. QED
      BY <1>3, <1>t, <2>1, <2>2, <2>3
  <1>8. ASSUME NEW u \in B!Pair, B!CancelOwn(u) \/ B!DeclineTheirs(u)
        PROVE  B!AllMeant'
    <2>1. UNCHANGED <<s2, s5, s10>>
      BY <1>8 DEF B!CancelOwn, B!DeclineTheirs
    <2>2. PICK at \in {"decline", "part"} : B!Step(u, at)
      BY <1>8 DEF B!CancelOwn, B!DeclineTheirs
    <2>3. PICK d : s4' = [s4 EXCEPT ![u] = d] /\ d.at = at /\ d.verb = s4[u].verb
      BY <1>4, <1>k, <2>1, <2>2
    <2>4. \A v \in B!Pair : s1'[v] => s1[v]
      BY <1>8, <1>t DEF B!CancelOwn, B!DeclineTheirs
    <2>5. s4[u].at = "unfriend" => ~s1'[u]
      BY <1>8, <1>t DEF B!CancelOwn, B!DeclineTheirs
    <2>6. QED
      BY <1>3, <1>k, <2>1, <2>3, <2>4, <2>5
  <1>9. ASSUME NEW u \in B!Pair, B!Part(u)
        PROVE  B!AllMeant'
    <2>1. UNCHANGED <<s1, s5, s10>> /\ s2' = FALSE /\ s4[u].at = "part" /\ B!Step(u, "relation")
      BY <1>9 DEF B!Part
    <2>2. PICK d : s4' = [s4 EXCEPT ![u] = d] /\ d.at = "relation" /\ d.verb = s4[u].verb
      BY <1>4, <2>1
    <2>3. QED
      BY <1>3, <2>1, <2>2
  <1>n. B!NoCall.at = "idle" /\ B!NoCall.verb = "none"
    BY DEF B!NoCall
  <1>10. ASSUME NEW u \in B!Pair, NEW d, s4' = [s4 EXCEPT ![u] = d], UNCHANGED <<s1, s2, s5, s10>>,
                d.verb = s4[u].verb \/ d.verb \in {"none", "follow"}, d.at # "accept",
                s4[u].at \notin B!Unfriending
         PROVE  B!AllMeant'
    <2>1. s4[u].at # "unfriend"
      BY <1>10, <1>k
    <2>2. QED
      BY <1>3, <1>10, <2>1
  <1>11. ASSUME NEW u \in B!Pair, B!Relate(u)
         PROVE  B!AllMeant'
    <2>1. PICK d : d = IF u = B!Me THEN [s4[u] EXCEPT !.at = "answered", !.answer = B!StandingOf(B!Me)]
                       ELSE B!NoCall
      OBVIOUS
    <2>2. s4' = [s4 EXCEPT ![u] = d] /\ s4[u].at = "relation" /\ UNCHANGED <<s1, s2, s5, s10>>
      BY <1>11, <2>1 DEF B!Relate
    <2>3. d.at # "accept" /\ (d.verb = s4[u].verb \/ d.verb = "none")
      BY <1>t, <1>n, <2>1 DEF B!AnyCall
    <2>4. QED
      BY <1>10, <1>k, <2>2, <2>3
  <1>12. CASE B!VerbArrives
    BY <1>10, <1>12, <1>k, <1>n, FriendTwo DEF B!VerbArrives
  <1>13. CASE B!VerbFails
    BY <1>13, <1>t DEF B!VerbFails
  <1>14. CASE B!ToggleFollow
    <2>1. PICK d : d = [B!NoCall EXCEPT !.verb = "follow", !.at = "relation"]
      OBVIOUS
    <2>2. d.at = "relation" /\ d.verb = "follow"
      BY <2>1 DEF B!NoCall
    <2>3. s4' = [s4 EXCEPT ![B!Me] = d] /\ s4[B!Me].at = "idle" /\ UNCHANGED <<s1, s2, s5, s10>>
      BY <1>14, <1>n, <2>1 DEF B!ToggleFollow
    <2>4. QED
      BY <1>10, <1>k, <2>2, <2>3, FriendTwo
  <1>15. CASE B!ReadRelation \/ B!ReadOverview
    BY <1>15 DEF B!ReadRelation, B!ReadOverview, B!AllMeant
  <1>16. QED
    BY <1>2, <1>5, <1>6, <1>7, <1>8, <1>9, <1>11, <1>12, <1>13, <1>14, <1>15 DEF B!Next

(* They hold at first, ...                                                 *)
LEMMA FriendInit ==
    ASSUME B!Init
    PROVE  B!FriendInv
  <1>1. B!NoCall \in B!AnyCall /\ B!Blank \in B!AnyQuery
    BY DEF B!NoCall, B!AnyCall, B!Blank, B!AnyQuery
  <1>2. B!FriendTypes
    BY <1>1 DEF B!Init, B!FriendTypes
  <1>3. B!NoCall.at = "idle" /\ B!NoCall.verb = "none"
    BY DEF B!NoCall
  <1>4. B!VerbsAreTheirs
    BY <1>3 DEF B!Init, B!VerbsAreTheirs, B!Befriending, B!Unfriending
  <1>5. \A u \in B!Pair : s4[u].at = "idle" /\ s4[u].verb = "none" /\ ~s1[u]
    BY <1>3 DEF B!Init
  <1>6. B!AllMeant
    BY <1>5 DEF B!Init, B!AllMeant
  <1>7. QED
    BY <1>2, <1>4, <1>6 DEF B!FriendInv

(* ... every step keeps them, ...                                          *)
LEMMA FriendStep ==
    ASSUME B!FriendInv, B!Next
    PROVE  B!FriendInv'
  BY FriendTypesStep, FriendVerbsStep, FriendMeantStep DEF B!FriendInv

(* ... so does a step of nothing, ...                                      *)
LEMMA FriendStays ==
    ASSUME B!FriendInv, UNCHANGED <<s1, s2, s3, s4, s5, s6, s7, s8, s9, s10>>
    PROVE  B!FriendInv'
  BY DEF B!FriendInv, B!FriendTypes, B!VerbsAreTheirs, B!AllMeant

(* ... and friends are friends by both their wills.                        *)
LEMMA FriendHolds ==
    ASSUME B!FriendInv
    PROVE  B!TypeOK /\ B!ConsentIsMutual
  <1> SUFFICES ASSUME B!FriendTypes, B!VerbsAreTheirs, B!AllMeant
               PROVE  B!TypeOK /\ B!ConsentIsMutual
    BY DEF B!FriendInv
  <1>1. B!TypeOK
    BY DEF B!TypeOK, B!FriendTypes, B!AnyQuery
  <1>2. ASSUME s2, ~s5.crossed, \A u \in B!Pair : s4[u].verb # "unfriend", s10 = 0
        PROVE  s5.by[B!Me] /\ s5.by[B!Peer]
    <2>1. \A u \in B!Pair : s4[u].at \notin B!Unfriending
      BY <1>2 DEF B!VerbsAreTheirs
    <2>2. QED
      BY <1>2, <2>1, FriendTwo DEF B!AllMeant
  <1>3. QED
    BY <1>1, <1>2 DEF B!ConsentIsMutual

-----------------------------------------------------------------------------
(* A conversation (s1 sender, s2 pointer, s3 bubbles, s4 visible, s5       *)
(* marks, s6 badge, s7 composer, s8 seen, s9 unsure).                      *)

(* The bounds are numbers, and a page holds a message.                     *)
LEMMA MessageBounds == PageSize \in Nat \ {0} /\ MaxMsgs \in Nat /\ MaxDrops \in Nat
  BY PagesAssumption DEF C!ConversationAssumption

(* The page counts with the usual cardinality.                             *)
LEMMA MessageCount == ASSUME NEW set PROVE C!Cardinality(set) = Cardinality(set)
  BY DEF C!Cardinality, Cardinality

(* The messages sent are numbered from one.                                *)
LEMMA MessageIds ==
    ASSUME s1 \in Seq({"me", "peer"})
    PROVE  C!Last \in Nat /\ C!Sent = 1 .. C!Last /\ (\A m \in 1 .. C!Last : s1[m] \in {"me", "peer"})
  BY DEF C!Last, C!Sent

(* The newest of a run of messages.                                        *)
LEMMA LatestOfRun ==
    ASSUME NEW a \in Nat, NEW b \in Nat, a <= b
    PROVE  C!LatestId(a .. b) = b
  <1>1. b \in a .. b /\ (\A n \in a .. b : n <= b)
    OBVIOUS
  <1>2. \A m \in a .. b : (\A n \in a .. b : n <= m) => m = b
    OBVIOUS
  <1>3. (CHOOSE m \in a .. b : \A n \in a .. b : n <= m) = b
    BY <1>1, <1>2
  <1>4. a .. b # {}
    BY <1>1
  <1>5. QED
    BY <1>3, <1>4 DEF C!LatestId

(* A page is a run, or nothing.                                            *)
LEMMA PageIsRun ==
    ASSUME C!ConversationTypes, NEW k \in Nat, NEW u \in 0 .. C!Last
    PROVE  LET set == {m \in C!Sent : m <= u /\ m > u - k}
           IN  set \subseteq 1 .. C!Last /\ (set # {} => \E a \in 1 .. C!Last : a <= u /\ set = a .. u)
  <1>1. C!Last \in Nat /\ C!Sent = 1 .. C!Last
    BY MessageIds DEF C!ConversationTypes
  <1>2. CASE u = 0 \/ k = 0
    BY <1>1, <1>2
  <1>3. CASE u # 0 /\ k # 0 /\ u <= k
    <2>1. {m \in C!Sent : m <= u /\ m > u - k} = 1 .. u
      BY <1>1, <1>3
    <2>2. QED
      BY <1>1, <1>3, <2>1
  <1>4. CASE u # 0 /\ k # 0 /\ u > k
    <2>1. {m \in C!Sent : m <= u /\ m > u - k} = (u - k + 1) .. u
      BY <1>1, <1>4
    <2>2. u - k + 1 \in 1 .. C!Last /\ u - k + 1 <= u
      BY <1>1, <1>4
    <2>3. QED
      BY <1>1, <2>1, <2>2
  <1>5. QED
    BY <1>1, <1>2, <1>3, <1>4

(* One more page below a run makes a longer run, of the same newest.       *)
LEMMA OlderExtends ==
    ASSUME C!ConversationTypes, NEW a \in 1 .. C!Last, NEW b \in 1 .. C!Last, a <= b, s3.has = a .. b
    PROVE  LET more == C!Messages(1, CHOOSE m \in 0 .. C!Last : m + 1 \in s3.has /\ m \notin s3.has)
           IN  more \subseteq 1 .. C!Last
               /\ (\E c \in 1 .. C!Last : c <= b /\ s3.has \cup more = c .. b)
  <1>n. C!Last \in Nat /\ C!Sent = 1 .. C!Last /\ PageSize \in Nat \ {0}
    BY MessageIds, MessageBounds DEF C!ConversationTypes
  <1>1. a - 1 \in 0 .. C!Last /\ (a - 1) + 1 \in s3.has /\ a - 1 \notin s3.has
    BY <1>n
  <1>2. \A m \in 0 .. C!Last : m + 1 \in s3.has /\ m \notin s3.has => m = a - 1
    BY <1>n
  <1>3. (CHOOSE m \in 0 .. C!Last : m + 1 \in s3.has /\ m \notin s3.has) = a - 1
    BY <1>1, <1>2
  <1>4. C!Messages(1, a - 1) = {m \in C!Sent : m <= a - 1 /\ m > a - 1 - PageSize}
    BY <1>n DEF C!Messages
  <1>5. PICK more : more = C!Messages(1, a - 1)
    OBVIOUS
  <1>6. C!Messages(1, CHOOSE m \in 0 .. C!Last : m + 1 \in s3.has /\ m \notin s3.has) = more
    BY <1>3, <1>5
  <1>7. more \subseteq 1 .. C!Last
    BY <1>n, <1>4, <1>5
  <1>8. \E c \in 1 .. C!Last : c <= b /\ s3.has \cup more = c .. b
    <2>1. CASE a - 1 <= PageSize
      <3>1. s3.has \cup more = 1 .. b
        BY <1>n, <1>4, <1>5, <2>1
      <3>2. 1 \in 1 .. C!Last /\ 1 <= b
        BY <1>n
      <3>3. QED
        BY <3>1, <3>2
    <2>2. CASE a - 1 > PageSize
      <3>1. s3.has \cup more = (a - PageSize) .. b
        BY <1>n, <1>4, <1>5, <2>2
      <3>2. a - PageSize \in 1 .. C!Last /\ a - PageSize <= b
        BY <1>n, <2>2
      <3>3. QED
        BY <3>1, <3>2
    <2>3. QED
      BY <1>n, <2>1, <2>2
  <1>9. QED
    BY <1>6, <1>7, <1>8

(* Every step keeps the types.                                             *)
LEMMA ConversationTypesStep ==
    ASSUME C!ConversationInv, C!Next
    PROVE  C!ConversationTypes'
  <1>n. C!Last \in Nat /\ C!Sent = 1 .. C!Last /\ MaxMsgs \in Nat /\ C!Last <= MaxMsgs
    BY MessageIds, MessageBounds DEF C!ConversationInv, C!ConversationTypes
  <1>t. C!ConversationTypes
    BY DEF C!ConversationInv
  <1>u. C!Unread \subseteq 1 .. C!Last /\ IsFiniteSet(C!Unread) /\ Cardinality(C!Unread) \in 0 .. MaxMsgs
    BY <1>n, UpTo DEF C!Unread
  <1>l. UNCHANGED s1 => C!Last' = C!Last
    BY DEF C!Last
  <1>1. CASE C!PeerSends
    <2>1. s1' \in Seq({"me", "peer"}) /\ C!Last' = C!Last + 1 /\ C!Last' <= MaxMsgs
      BY <1>n, <1>t, <1>1 DEF C!PeerSends, C!Last, C!ConversationTypes
    <2>2. 1 .. C!Last \subseteq 1 .. C!Last' /\ 0 .. C!Last \subseteq 0 .. C!Last'
      BY <1>n, <2>1
    <2>3. QED
      BY <1>t, <1>1, <2>1, <2>2 DEF C!PeerSends, C!ConversationTypes
  <1>2. CASE C!Poll
    BY <1>l, <1>t, <1>2 DEF C!Poll, C!ConversationTypes
  <1>3. CASE C!ServePages
    BY <1>n, <1>l, <1>t, <1>3 DEF C!ServePages, C!ConversationTypes
  <1>4. CASE C!LoadOlder
    <2>1. UNCHANGED <<s1, s2, s4, s5, s6, s7, s8, s9>> /\ C!Last' = C!Last
      BY <1>l, <1>4 DEF C!LoadOlder
    <2>2. s3' = [s3 EXCEPT !.fetch = [at |-> "older", upTo |-> 0]] /\ s3.has # {}
      BY <1>4 DEF C!LoadOlder
    <2>3. [at |-> "older", upTo |-> 0] \in [at : {"none", "asked", "served", "older"}, upTo : 0 .. C!Last]
      BY <1>n
    <2>4. s3' \in [has : SUBSET (1 .. C!Last), pages : Nat,
                   fetch : [at : {"none", "asked", "served", "older"}, upTo : 0 .. C!Last]]
      BY <1>t, <2>2, <2>3 DEF C!ConversationTypes
    <2>5. s3'.has # {}
      BY <1>t, <2>2 DEF C!ConversationTypes
    <2>6. QED
      BY <1>t, <2>1, <2>4, <2>5 DEF C!ConversationTypes
  <1>5. CASE C!OlderArrives
    <2>1. s3.has # {}
      BY <1>t, <1>5 DEF C!OlderArrives, C!ConversationTypes
    <2>2. PICK a \in 1 .. C!Last, b \in 1 .. C!Last : a <= b /\ s3.has = a .. b
      BY <2>1 DEF C!ConversationInv, C!Consecutive
    <2>3. PICK more \in SUBSET (1 .. C!Last) :
            s3' = [has |-> s3.has \cup more, pages |-> s3.pages + 1, fetch |-> C!NoFetch]
            /\ s8' \in {s8, s8 \cup more}
      BY <1>t, <1>5, <2>2, OlderExtends DEF C!OlderArrives
    <2>4. s3' \in [has : SUBSET (1 .. C!Last), pages : Nat,
                   fetch : [at : {"none", "asked", "served", "older"}, upTo : 0 .. C!Last]]
          /\ s3'.fetch.at # "older"
      <3>1. s3.has \cup more \in SUBSET (1 .. C!Last) /\ s3.pages + 1 \in Nat
        <4>1. s3.has \in SUBSET (1 .. C!Last)
          BY <1>t DEF C!ConversationTypes
        <4>2. s3.pages \in Nat
          BY <1>t DEF C!ConversationTypes
        <4>3. s3.has \cup more \in SUBSET (1 .. C!Last)
          BY <4>1
        <4>4. s3.pages + 1 \in Nat
          BY <4>2
        <4>5. QED
          BY <4>3, <4>4
      <3>2. C!NoFetch \in [at : {"none", "asked", "served", "older"}, upTo : 0 .. C!Last]
            /\ C!NoFetch.at = "none"
        BY <1>n DEF C!NoFetch
      <3>3. QED
        BY <2>3, <3>1, <3>2
    <2>5. s8' \subseteq 1 .. C!Last
      BY <1>t, <2>3 DEF C!ConversationTypes
    <2>6. QED
      BY <1>l, <1>t, <1>5, <2>4, <2>5 DEF C!OlderArrives, C!ConversationTypes
  <1>6. CASE C!BubblesArrive
    <2>1. s3.pages \in Nat /\ s3.fetch.upTo \in 0 .. C!Last
      BY <1>t DEF C!ConversationTypes
    <2>2. PICK k \in Nat : k = s3.pages * PageSize
      BY <2>1, MessageBounds
    <2>3. C!Messages(s3.pages, s3.fetch.upTo) \subseteq 1 .. C!Last
      BY <1>n, <2>1, <2>2 DEF C!Messages
    <2>4. s3' \in [has : SUBSET (1 .. C!Last), pages : Nat,
                   fetch : [at : {"none", "asked", "served", "older"}, upTo : 0 .. C!Last]]
          /\ s3'.fetch.at # "older"
      <3>1. s3' = [s3 EXCEPT !.has = C!Messages(s3.pages, s3.fetch.upTo), !.fetch = C!NoFetch]
        BY <1>6 DEF C!BubblesArrive
      <3>2. C!NoFetch \in [at : {"none", "asked", "served", "older"}, upTo : 0 .. C!Last]
            /\ C!NoFetch.at = "none"
        BY <1>n DEF C!NoFetch
      <3>3. s3 \in [has : SUBSET (1 .. C!Last), pages : Nat,
                    fetch : [at : {"none", "asked", "served", "older"}, upTo : 0 .. C!Last]]
        BY <1>t DEF C!ConversationTypes
      <3>4. QED
        BY <2>3, <3>1, <3>2, <3>3
    <2>5. s8' \subseteq 1 .. C!Last
      BY <1>t, <1>6, <2>3 DEF C!BubblesArrive, C!ConversationTypes
    <2>6. s5' \subseteq {"sent", "served"}
      BY <1>t, <1>6 DEF C!BubblesArrive, C!MarkNow, C!ConversationTypes
    <2>7. QED
      BY <1>l, <1>t, <1>6, <2>4, <2>5, <2>6 DEF C!BubblesArrive, C!ConversationTypes
  <1>7. CASE C!LookAway
    <2>1. s4' \in BOOLEAN
      BY <1>t, <1>7 DEF C!LookAway, C!ConversationTypes
    <2>2. QED
      BY <1>l, <1>t, <1>7, <2>1 DEF C!LookAway, C!ConversationTypes
  <1>8. CASE C!ServeMark
    <2>1. s9' \in [read : SUBSET (1 .. C!Last), mark : Nat]
      BY <1>u, <1>t, <1>8 DEF C!ServeMark, C!ConversationTypes
    <2>2. QED
      BY <1>n, <1>l, <1>t, <1>8, <2>1 DEF C!ServeMark, C!ConversationTypes
  <1>a. C!AskBadge => s6' \in [data : 0 .. MaxMsgs, fetch : {"none", "asked", "served"}, answer : 0 .. MaxMsgs]
    <2>1. 0 \in 0 .. MaxMsgs
      BY <1>n
    <2>2. s6 \in [data : 0 .. MaxMsgs, fetch : {"none", "asked", "served"}, answer : 0 .. MaxMsgs]
      BY <1>t DEF C!ConversationTypes
    <2>3. QED
      BY <2>1, <2>2 DEF C!AskBadge
  <1>9. CASE C!MarkArrives
    BY <1>l, <1>t, <1>a, <1>9 DEF C!MarkArrives, C!ConversationTypes
  <1>10. CASE C!MarkFails
    <2>1. s9' \in [read : SUBSET (1 .. C!Last), mark : Nat]
      BY <1>t, <1>10 DEF C!MarkFails, C!ConversationTypes
    <2>2. QED
      BY <1>l, <1>t, <1>10, <2>1 DEF C!MarkFails, C!ConversationTypes
  <1>11. CASE C!PollBadge
    <2>1. s6' \in [data : 0 .. MaxMsgs, fetch : {"none", "asked", "served"}, answer : 0 .. MaxMsgs]
      <3>1. C!Cardinality(C!Unread) \in 0 .. MaxMsgs /\ 0 \in 0 .. MaxMsgs
        BY <1>n, <1>u, MessageCount
      <3>2. QED
        <4>1. s6 \in [data : 0 .. MaxMsgs, fetch : {"none", "asked", "served"}, answer : 0 .. MaxMsgs]
          BY <1>t DEF C!ConversationTypes
        <4>2. PICK k \in 0 .. MaxMsgs : k = C!Cardinality(C!Unread)
          BY <3>1
        <4>3. \/ s6' = [s6 EXCEPT !.fetch = "asked"]
              \/ s6' = [s6 EXCEPT !.fetch = "served", !.answer = k]
              \/ s6' = [data |-> s6.answer, fetch |-> "none", answer |-> 0]
          BY <1>11, <4>2 DEF C!PollBadge
        <4>4. CASE s6' = [s6 EXCEPT !.fetch = "asked"]
          BY <4>1, <4>4
        <4>5. CASE s6' = [s6 EXCEPT !.fetch = "served", !.answer = k]
          BY <4>1, <4>5
        <4>6. CASE s6' = [data |-> s6.answer, fetch |-> "none", answer |-> 0]
          BY <3>1, <4>1, <4>6
        <4>7. QED
          BY <4>3, <4>4, <4>5, <4>6
    <2>2. QED
      BY <1>l, <1>t, <1>11, <2>1 DEF C!PollBadge, C!ConversationTypes
  <1>12. CASE C!Submit
    BY <1>l, <1>t, <1>12 DEF C!Submit, C!ConversationTypes
  <1>13. CASE C!ServeSend
    <2>1. s1' \in Seq({"me", "peer"}) /\ C!Last' = C!Last + 1 /\ C!Last' <= MaxMsgs
      BY <1>n, <1>t, <1>13 DEF C!ServeSend, C!Last, C!ConversationTypes
    <2>2. 1 .. C!Last \subseteq 1 .. C!Last' /\ 0 .. C!Last \subseteq 0 .. C!Last'
      BY <1>n, <2>1
    <2>3. s9' \in [read : SUBSET (1 .. C!Last'), mark : Nat]
      BY <1>u, <1>t, <1>13, <2>2 DEF C!ServeSend, C!ConversationTypes
    <2>4. s2' \in 0 .. C!Last'
      BY <1>n, <1>13, <2>1 DEF C!ServeSend
    <2>5. QED
      BY <1>t, <1>13, <2>1, <2>2, <2>3, <2>4 DEF C!ServeSend, C!ConversationTypes
  <1>14. CASE C!SendArrives
    <2>1. s3' \in [has : SUBSET (1 .. C!Last), pages : Nat,
                   fetch : [at : {"none", "asked", "served", "older"}, upTo : 0 .. C!Last]]
          /\ s3'.fetch.at # "older"
      BY <1>n, <1>t, <1>14 DEF C!SendArrives, C!ConversationTypes
    <2>2. QED
      BY <1>l, <1>t, <1>a, <1>14, <2>1 DEF C!SendArrives, C!ConversationTypes
  <1>15. CASE C!SendFails
    BY <1>l, <1>t, <1>15 DEF C!SendFails, C!ConversationTypes
  <1>16. QED
    BY <1>1, <1>2, <1>3, <1>4, <1>5, <1>6, <1>7, <1>8, <1>9, <1>10, <1>11, <1>12, <1>13, <1>14, <1>15
    DEF C!Next

(* What the newest of the bubbles says of them: shown by the viewer, or    *)
(* read.                                                                   *)
LEMMA NewestTells ==
    ASSUME C!ConversationTypes, C!OwnAreRead, NEW held \in SUBSET (1 .. C!Last), ~C!FromPeer(held),
           held # {} => \E a, b \in 1 .. C!Last : a <= b /\ held = a .. b
    PROVE  \A m \in held : m <= s2
  <1>n. C!Last \in Nat /\ s2 \in Nat /\ (\A m \in 1 .. C!Last : s1[m] \in {"me", "peer"})
    BY MessageIds DEF C!ConversationTypes
  <1>1. CASE held = {}
    BY <1>1
  <1>2. CASE held # {}
    <2>1. PICK a \in 1 .. C!Last, b \in 1 .. C!Last : a <= b /\ held = a .. b
      BY <1>2
    <2>2. C!LatestId(held) = b
      BY <1>n, <2>1, LatestOfRun
    <2>3. s1[b] = "me"
      BY <1>n, <1>2, <2>2 DEF C!FromPeer
    <2>4. b <= s2
      BY <2>3 DEF C!OwnAreRead
    <2>5. QED
      BY <1>n, <2>1, <2>4
  <1>3. QED
    BY <1>1, <1>2

(* Every step keeps the bubbles a run, and what is shown read.             *)
LEMMA ConversationShownStep ==
    ASSUME C!ConversationInv, C!Next
    PROVE  C!Consecutive' /\ C!OwnAreRead' /\ C!ShownAreRead' /\ C!ReadWereSeen'
  <1>t. C!ConversationTypes /\ C!Consecutive /\ C!OwnAreRead /\ C!ShownAreRead /\ C!ReadWereSeen
    BY DEF C!ConversationInv
  <1>n. C!Last \in Nat /\ C!Sent = 1 .. C!Last /\ s2 \in 0 .. C!Last /\ s3.has \in SUBSET (1 .. C!Last)
        /\ (\A m \in 1 .. C!Last : s1[m] \in {"me", "peer"})
    BY <1>t, MessageIds DEF C!ConversationTypes
  <1>l. UNCHANGED s1 => C!Last' = C!Last /\ C!Sent' = C!Sent
    BY DEF C!Last, C!Sent
  <1> USE DEF C!Consecutive, C!OwnAreRead, C!ShownAreRead, C!ReadWereSeen
  <1>1. CASE C!PeerSends
    <2>1. C!Last' = C!Last + 1 /\ (\A m \in 1 .. C!Last : s1'[m] = s1[m]) /\ s1'[C!Last + 1] = "peer"
      BY <1>n, <1>t, <1>1 DEF C!PeerSends, C!Last, C!ConversationTypes
    <2>2. UNCHANGED <<s2, s3, s4, s5, s8, s9>>
      BY <1>1 DEF C!PeerSends
    <2>3. 1 .. C!Last \subseteq 1 .. C!Last' /\ (\A m \in 1 .. C!Last' : m \in 1 .. C!Last \/ m = C!Last + 1)
      BY <1>n, <2>1
    <2>4. C!Consecutive' /\ C!ShownAreRead'
      BY <1>t, <2>2, <2>3
    <2>5. C!OwnAreRead'
      BY <1>t, <2>1, <2>2, <2>3
    <2>6. C!ReadWereSeen'
      BY <1>n, <1>t, <2>1, <2>2, <2>3
    <2>7. QED
      BY <2>4, <2>5, <2>6
  <1>2. CASE C!Poll \/ C!ServePages \/ C!LoadOlder
    <2>1. s3'.has = s3.has
      BY <1>2, <1>t DEF C!Poll, C!ServePages, C!LoadOlder, C!ConversationTypes
    <2>2. QED
      BY <1>l, <1>t, <1>2, <2>1 DEF C!Poll, C!ServePages, C!LoadOlder
  <1>5. CASE C!OlderArrives
    <2>1. s3.has # {}
      BY <1>t, <1>5 DEF C!OlderArrives, C!ConversationTypes
    <2>2. PICK a \in 1 .. C!Last, b \in 1 .. C!Last : a <= b /\ s3.has = a .. b
      BY <1>t, <2>1
    <2>3. PICK c \in 1 .. C!Last : c <= b /\ s3'.has = c .. b
      BY <1>t, <1>5, <2>2, OlderExtends DEF C!OlderArrives
    <2>4. C!Consecutive'
      BY <1>l, <1>5, <2>3 DEF C!OlderArrives
    <2>5. s8 \subseteq s8'
      BY <1>5 DEF C!OlderArrives
    <2>6. b \in s3.has
      BY <1>n, <2>2
    <2>7. b <= s2 => \A m \in s3'.has : m <= s2
      BY <1>n, <2>3
    <2>8. C!ShownAreRead'
      BY <1>t, <1>5, <2>6, <2>7 DEF C!OlderArrives
    <2>9. QED
      BY <1>l, <1>t, <1>5, <2>4, <2>5, <2>8 DEF C!OlderArrives
  <1>6. CASE C!BubblesArrive
    <2>1. s3.pages \in Nat /\ s3.fetch.upTo \in 0 .. C!Last
      BY <1>t DEF C!ConversationTypes
    <2>2. PICK k \in Nat : k = s3.pages * PageSize
      BY <2>1, MessageBounds
    <2>3. PICK held : held = C!Messages(s3.pages, s3.fetch.upTo)
      OBVIOUS
    <2>4. held \subseteq 1 .. C!Last
          /\ (held # {} => \E a \in 1 .. C!Last : a <= s3.fetch.upTo /\ held = a .. s3.fetch.upTo)
      BY <1>t, <2>1, <2>2, <2>3, PageIsRun DEF C!Messages
    <2>5. held # {} => \E a, b \in 1 .. C!Last : a <= b /\ held = a .. b
      BY <1>n, <2>1, <2>4
    <2>6. s3'.has = held
      BY <1>t, <1>6, <2>3 DEF C!BubblesArrive, C!ConversationTypes
    <2>7. C!Consecutive'
      BY <1>l, <1>6, <2>5, <2>6 DEF C!BubblesArrive
    <2>8. s8 \subseteq s8'
      BY <1>6 DEF C!BubblesArrive
    <2>9. C!ShownAreRead'
      <3>1. SUFFICES ASSUME s4, s9.mark = 0, "sent" \notin s5'
                     PROVE  \A m \in held : m <= s2
        BY <1>6, <2>6 DEF C!BubblesArrive
      <3>2. CASE ~C!FromPeer(held)
        BY <1>t, <2>4, <2>5, <3>2, NewestTells
      <3>3. CASE C!FromPeer(held)
        <4>1. C!LatestId(held) = C!LatestId(s3.has) /\ "sent" \notin s5
          BY <1>6, <2>3, <3>1, <3>3 DEF C!BubblesArrive, C!MarkNow
        <4>2. PICK a \in 1 .. C!Last, b \in 1 .. C!Last : a <= b /\ held = a .. b
          BY <2>5, <3>3 DEF C!FromPeer
        <4>3. C!LatestId(held) = b /\ b # 0
          BY <1>n, <4>2, LatestOfRun
        <4>4. s3.has # {}
          BY <4>1, <4>3 DEF C!LatestId
        <4>5. PICK c \in 1 .. C!Last, d \in 1 .. C!Last : c <= d /\ s3.has = c .. d
          BY <1>t, <4>4
        <4>6. C!LatestId(s3.has) = d
          BY <1>n, <4>5, LatestOfRun
        <4>7. b \in s3.has
          <5>1. b = d
            BY <4>1, <4>3, <4>6
          <5>a. d \in c .. d
            BY <1>n, <4>5
          <5>2. QED
            BY <4>5, <5>1, <5>a
        <4>8. b <= s2
          BY <1>t, <3>1, <4>1, <4>7
        <4>9. QED
          BY <1>n, <4>2, <4>8
      <3>4. QED
        BY <3>2, <3>3
    <2>10. QED
      BY <1>l, <1>t, <1>6, <2>7, <2>8, <2>9 DEF C!BubblesArrive
  <1>7. CASE C!LookAway
    <2>1. s8 \subseteq s8' /\ s5 \subseteq s5'
      BY <1>7 DEF C!LookAway
    <2>2. C!ShownAreRead'
      <3>1. SUFFICES ASSUME s4', s9.mark = 0, "sent" \notin s5'
                     PROVE  \A m \in s3.has : m <= s2
        BY <1>7 DEF C!LookAway
      <3>2. ~s4 /\ ~C!FromPeer(s3.has)
        BY <1>t, <1>7, <3>1 DEF C!LookAway, C!ConversationTypes
      <3>3. QED
        BY <1>n, <1>t, <3>2, NewestTells
    <2>3. QED
      BY <1>l, <1>t, <1>7, <2>1, <2>2 DEF C!LookAway
  <1>8. CASE C!ServeMark
    <2>1. s2' = C!Last /\ s9'.read = s9.read \cup (C!Unread \ s8) /\ s9'.mark = s9.mark
      BY <1>t, <1>8 DEF C!ServeMark, C!ConversationTypes
    <2>2. C!ReadWereSeen'
      BY <1>n, <1>l, <1>t, <1>8, <2>1 DEF C!ServeMark, C!Unread
    <2>3. QED
      BY <1>n, <1>l, <1>t, <1>8, <2>1, <2>2 DEF C!ServeMark
  <1>9. CASE C!MarkArrives
    BY <1>l, <1>t, <1>9 DEF C!MarkArrives
  <1>10. CASE C!MarkFails
    <2>1. s9'.read = s9.read /\ s9'.mark # 0
      BY <1>t, <1>10 DEF C!MarkFails, C!ConversationTypes
    <2>2. QED
      BY <1>l, <1>t, <1>10, <2>1 DEF C!MarkFails
  <1>11. CASE C!PollBadge \/ C!Submit \/ C!SendFails
    BY <1>l, <1>t, <1>11 DEF C!PollBadge, C!Submit, C!SendFails
  <1>13. CASE C!ServeSend
    <2>1. C!Last' = C!Last + 1 /\ (\A m \in 1 .. C!Last : s1'[m] = s1[m]) /\ s1'[C!Last + 1] = "me"
      BY <1>n, <1>t, <1>13 DEF C!ServeSend, C!Last, C!ConversationTypes
    <2>2. s2' = C!Last + 1 /\ s9'.read = s9.read \cup (C!Unread \ s8) /\ s9'.mark = s9.mark
      BY <1>t, <1>13 DEF C!ServeSend, C!ConversationTypes
    <2>a. 1 .. C!Last \subseteq 1 .. C!Last' /\ (\A m \in 1 .. C!Last' : m \in 1 .. C!Last \/ m = C!Last + 1)
      BY <1>n, <2>1
    <2>b. UNCHANGED <<s3, s4, s5, s8>>
      BY <1>13 DEF C!ServeSend
    <2>3. C!ReadWereSeen'
      <3>1. SUFFICES ASSUME NEW m \in 1 .. C!Last', s1'[m] = "peer"
                     PROVE  m \in s8 \cup s9'.read
        BY <2>b
      <3>2. m \in 1 .. C!Last /\ s1[m] = "peer"
        BY <2>1, <2>a, <3>1
      <3>3. m > s2 => m \in C!Unread
        BY <1>n, <3>2 DEF C!Unread
      <3>4. QED
        BY <1>n, <1>t, <2>2, <3>2, <3>3
    <2>4. C!Consecutive'
      BY <1>t, <2>a, <2>b
    <2>5. C!OwnAreRead' /\ C!ShownAreRead'
      BY <1>n, <1>t, <2>1, <2>2, <2>a, <2>b
    <2>6. QED
      BY <2>3, <2>4, <2>5
  <1>14. CASE C!SendArrives
    <2>1. s3'.has = s3.has
      BY <1>t, <1>14 DEF C!SendArrives, C!ConversationTypes
    <2>2. QED
      BY <1>l, <1>t, <1>14, <2>1 DEF C!SendArrives
  <1>15. QED
    BY <1>1, <1>2, <1>5, <1>6, <1>7, <1>8, <1>9, <1>10, <1>11, <1>13, <1>14 DEF C!Next

(* More messages of the peer's only add to what is unread.                 *)
LEMMA BadgeCountsStep ==
    ASSUME C!ConversationInv, C!Next
    PROVE  C!BadgeCounts'
  <1>t. C!ConversationTypes /\ C!BadgeCounts
    BY DEF C!ConversationInv
  <1>n. C!Last \in Nat /\ C!Sent = 1 .. C!Last /\ s2 \in 0 .. C!Last
        /\ (\A m \in 1 .. C!Last : s1[m] \in {"me", "peer"})
    BY <1>t, MessageIds DEF C!ConversationTypes
  <1>u. UNCHANGED <<s1, s2>> => C!Unread' = C!Unread
    BY DEF C!Unread, C!Sent
  <1> USE DEF C!BadgeCounts
  <1>1. CASE C!PeerSends
    <2>1. C!Last' = C!Last + 1 /\ (\A m \in 1 .. C!Last : s1'[m] = s1[m]) /\ C!Sent' = 1 .. C!Last'
      BY <1>n, <1>t, <1>1 DEF C!PeerSends, C!Last, C!Sent, C!ConversationTypes
    <2>a. C!Unread' = {m \in 1 .. C!Last' : m > s2 /\ s1'[m] = "peer"}
      BY <1>1, <2>1 DEF C!PeerSends, C!Unread
    <2>b. 1 .. C!Last \subseteq 1 .. C!Last' /\ C!Last' \in Nat
      BY <1>n, <2>1
    <2>2. C!Unread \subseteq C!Unread' /\ C!Unread' \subseteq 1 .. C!Last'
      BY <1>n, <2>1, <2>a, <2>b DEF C!Unread
    <2>c. PICK n, U : n \in Nat /\ n = C!Last' /\ U = C!Unread'
      BY <2>b
    <2>d. IsFiniteSet(U) /\ Cardinality(U) \in 0 .. n
      BY <2>2, <2>c, UpTo
    <2>3. IsFiniteSet(C!Unread') /\ Cardinality(C!Unread') \in Nat
      BY <2>c, <2>d
    <2>4. Cardinality(C!Unread) <= Cardinality(C!Unread') /\ Cardinality(C!Unread) \in Nat
      BY <2>2, <2>3, FS_Subset, FS_CardinalityType
    <2>5. s6.data \in Nat /\ s6.answer \in Nat
      BY <1>t, MessageBounds DEF C!ConversationTypes
    <2>6. C!Cardinality(C!Unread) = Cardinality(C!Unread) /\ C!Cardinality(C!Unread') = Cardinality(C!Unread')
      BY MessageCount
    <2>7. UNCHANGED <<s5, s6, s7, s9>>
      BY <1>1 DEF C!PeerSends
    <2>8. QED
      BY <1>t, <2>3, <2>4, <2>5, <2>6, <2>7
  <1>2. CASE C!Poll \/ C!ServePages \/ C!LoadOlder \/ C!OlderArrives
    BY <1>u, <1>t, <1>2 DEF C!Poll, C!ServePages, C!LoadOlder, C!OlderArrives
  <1>3. CASE C!BubblesArrive
    BY <1>u, <1>t, <1>3 DEF C!BubblesArrive, C!MarkNow
  <1>4. CASE C!LookAway
    BY <1>u, <1>t, <1>4 DEF C!LookAway
  <1>5. CASE C!ServeMark
    BY <1>5 DEF C!ServeMark
  <1>6. CASE C!MarkArrives
    <2>1. s6'.fetch = "asked"
      BY <1>t, <1>6 DEF C!MarkArrives, C!AskBadge, C!ConversationTypes
    <2>2. QED
      BY <2>1
  <1>7. CASE C!MarkFails
    <2>1. s9'.mark # 0
      BY <1>t, <1>7 DEF C!MarkFails, C!ConversationTypes
    <2>2. QED
      BY <2>1
  <1>8. CASE C!PollBadge
    <2>1. CASE s6.fetch = "none" /\ s6' = [s6 EXCEPT !.fetch = "asked"]
      BY <1>t, <2>1 DEF C!ConversationTypes
    <2>2. CASE s6.fetch = "asked" /\ s6' = [s6 EXCEPT !.fetch = "served", !.answer = C!Cardinality(C!Unread)]
      <3>1. C!Unread \subseteq 1 .. C!Last
        BY <1>n DEF C!Unread
      <3>2. C!Cardinality(C!Unread) \in Nat
        <4>1. Cardinality(C!Unread) \in 0 .. C!Last
          BY <1>n, <3>1, UpTo
        <4>2. QED
          BY <1>n, <4>1, MessageCount
      <3>3. s6'.fetch = "served" /\ s6'.answer = C!Cardinality(C!Unread)
        BY <1>t, <2>2 DEF C!ConversationTypes
      <3>4. C!Unread' = C!Unread
        BY <1>u, <1>8 DEF C!PollBadge
      <3>5. QED
        BY <3>2, <3>3, <3>4
    <2>3. CASE s6.fetch = "served" /\ s6' = [data |-> s6.answer, fetch |-> "none", answer |-> 0]
      BY <1>u, <1>t, <1>8, <2>3 DEF C!PollBadge
    <2>4. QED
      BY <1>8, <2>1, <2>2, <2>3 DEF C!PollBadge
  <1>9. CASE C!Submit \/ C!SendFails
    BY <1>u, <1>t, <1>9 DEF C!Submit, C!SendFails
  <1>10. CASE C!ServeSend
    BY <1>10 DEF C!ServeSend
  <1>11. CASE C!SendArrives
    <2>1. s6'.fetch = "asked"
      BY <1>t, <1>11 DEF C!SendArrives, C!AskBadge, C!ConversationTypes
    <2>2. QED
      BY <2>1
  <1>12. QED
    BY <1>1, <1>2, <1>3, <1>4, <1>5, <1>6, <1>7, <1>8, <1>9, <1>10, <1>11 DEF C!Next

(* They hold at first, ...                                                 *)
LEMMA ConversationInit ==
    ASSUME C!Init
    PROVE  C!ConversationInv
  <1>1. C!Last = 0 /\ s1 \in Seq({"me", "peer"})
    BY DEF C!Init, C!Last
  <1>2. C!ConversationTypes
    BY <1>1, MessageBounds DEF C!Init, C!NoFetch, C!ConversationTypes
  <1>3. C!Consecutive /\ C!OwnAreRead /\ C!ShownAreRead /\ C!ReadWereSeen
    BY <1>1 DEF C!Init, C!Consecutive, C!OwnAreRead, C!ShownAreRead, C!ReadWereSeen
  <1>4. C!Unread = {}
    BY <1>1 DEF C!Unread, C!Sent, C!Last
  <1>5. C!Cardinality(C!Unread) = 0
    BY <1>4, MessageCount, FS_EmptySet
  <1>6. C!BadgeCounts
    BY <1>5 DEF C!Init, C!BadgeCounts
  <1>7. QED
    BY <1>2, <1>3, <1>6 DEF C!ConversationInv

(* ... every step keeps them, ...                                          *)
LEMMA ConversationStep ==
    ASSUME C!ConversationInv, C!Next
    PROVE  C!ConversationInv'
  BY ConversationTypesStep, ConversationShownStep, BadgeCountsStep DEF C!ConversationInv

(* ... so does a step of nothing, ...                                      *)
LEMMA ConversationStays ==
    ASSUME C!ConversationInv, UNCHANGED <<s1, s2, s3, s4, s5, s6, s7, s8, s9>>
    PROVE  C!ConversationInv'
  <1>1. C!Unread' = C!Unread /\ C!Last' = C!Last /\ C!Sent' = C!Sent
    BY DEF C!Unread, C!Last, C!Sent
  <1>2. C!ConversationTypes'
    BY <1>1 DEF C!ConversationInv, C!ConversationTypes
  <1>3. QED
    BY <1>1, <1>2 DEF C!ConversationInv, C!Consecutive, C!OwnAreRead, C!ShownAreRead,
                      C!ReadWereSeen, C!BadgeCounts

(* ... and they say what the conversation promises.                        *)
LEMMA ConversationHolds ==
    ASSUME C!ConversationInv
    PROVE  C!TypeOK /\ C!ReadIsCleared
  <1>t. C!ConversationTypes /\ C!Consecutive /\ C!OwnAreRead /\ C!ShownAreRead /\ C!ReadWereSeen
        /\ C!BadgeCounts
    BY DEF C!ConversationInv
  <1>n. C!Last \in Nat /\ C!Sent = 1 .. C!Last /\ s2 \in 0 .. C!Last
        /\ (\A m \in 1 .. C!Last : s1[m] \in {"me", "peer"})
    BY <1>t, MessageIds DEF C!ConversationTypes
  <1>1. C!TypeOK
    BY <1>n, <1>t DEF C!TypeOK, C!ConversationTypes
  <1>2. s3.has # {} => s3.has = {m \in C!Sent : m <= C!LatestId(s3.has) /\ \E b \in s3.has : b <= m}
    <2>1. SUFFICES ASSUME s3.has # {}
                   PROVE  s3.has = {m \in C!Sent : m <= C!LatestId(s3.has) /\ \E b \in s3.has : b <= m}
      OBVIOUS
    <2>2. PICK a \in 1 .. C!Last, b \in 1 .. C!Last : a <= b /\ s3.has = a .. b
      BY <1>t, <2>1 DEF C!Consecutive
    <2>3. C!LatestId(s3.has) = b /\ a \in s3.has
      BY <1>n, <2>2, LatestOfRun
    <2>4. \A m \in C!Sent : (m <= b /\ \E x \in s3.has : x <= m) <=> m \in a .. b
      <3>1. SUFFICES ASSUME NEW m \in 1 .. C!Last
                     PROVE  (m <= b /\ \E x \in s3.has : x <= m) <=> m \in a .. b
        BY <1>n
      <3>2. \A x \in s3.has : a <= x /\ x \in Nat
        BY <1>n, <2>2
      <3>3. (\E x \in s3.has : x <= m) => a <= m
        BY <1>n, <2>2, <3>2
      <3>4. a <= m => \E x \in s3.has : x <= m
        BY <2>3
      <3>5. QED
        BY <1>n, <2>2, <3>3, <3>4
    <2>5. a .. b \subseteq C!Sent
      BY <1>n
    <2>6. QED
      BY <2>2, <2>3, <2>4, <2>5
  <1>3. ASSUME s4, s5 = {}, s9.mark = 0
        PROVE  C!Unread \cap s3.has = {}
               /\ (s6.fetch = "none" /\ s7 = "no" =>
                     s6.data <= C!Cardinality({m \in C!Sent \ s3.has : s1[m] = "peer"}))
    <2>1. \A m \in s3.has : m <= s2
      BY <1>t, <1>3 DEF C!ShownAreRead
    <2>2. C!Unread \cap s3.has = {} /\ C!Unread \subseteq {m \in C!Sent \ s3.has : s1[m] = "peer"}
      BY <1>n, <2>1 DEF C!Unread
    <2>3. IsFiniteSet({m \in C!Sent \ s3.has : s1[m] = "peer"})
          /\ Cardinality({m \in C!Sent \ s3.has : s1[m] = "peer"}) \in Nat
      BY <1>n, UpTo
    <2>4. Cardinality(C!Unread) <= Cardinality({m \in C!Sent \ s3.has : s1[m] = "peer"})
          /\ Cardinality(C!Unread) \in Nat
      BY <2>2, <2>3, FS_Subset, FS_CardinalityType
    <2>5. s6.fetch = "none" /\ s7 = "no" => s6.data <= Cardinality(C!Unread) /\ s6.data \in Nat
      BY <1>t, <1>3, MessageBounds, MessageCount DEF C!BadgeCounts, C!ConversationTypes
    <2>6. QED
      BY <2>2, <2>3, <2>4, <2>5, MessageCount
  <1>4. \A m \in C!Sent : s1[m] = "peer" /\ m <= s2 => m \in s8 \cup s9.read
    BY <1>n, <1>t DEF C!ReadWereSeen
  <1>5. QED
    BY <1>1, <1>2, <1>3, <1>4 DEF C!ReadIsCleared

-----------------------------------------------------------------------------
(* Notifications (s1 notes, s2 query, s3 surface, s4 shown, s5 marks, s6   *)
(* drawn, s7 swept, s8 doubt, s9 marked).                                  *)

(* The bounds are numbers.                                                 *)
LEMMA BellBounds == PanelLimit \in Nat /\ MaxNotes \in Nat /\ MaxMarks \in Nat /\ MaxLosses \in Nat
  BY PagesAssumption DEF N!NotificationsAssumption

(* The helpers' queries are queries.                                       *)
LEMMA QueryShapes ==
    ASSUME NEW q \in N!AnyQuery
    PROVE  /\ N!NoQuery \in N!AnyQuery /\ N!Ask(q) \in N!AnyQuery /\ N!Again(q) \in N!AnyQuery
           /\ [q EXCEPT !.stale = TRUE] \in N!AnyQuery
           /\ N!Ask(q).at # "none" /\ N!Again(q).at = "asked"
           /\ N!Ask(q).data = q.data /\ N!Again(q).data = q.data
           /\ N!Ask(q).answer = q.answer
           /\ (N!Ask(q).at = "served" => q.at = "served")
  <1>1. N!Nothing \in N!Served
    BY DEF N!Nothing, N!Served
  <1>2. N!NoQuery \in N!AnyQuery
    BY <1>1 DEF N!NoQuery, N!AnyQuery
  <1>3. N!Again(q) \in N!AnyQuery /\ N!Again(q).at = "asked" /\ N!Again(q).data = q.data
    BY <1>1 DEF N!Again, N!AnyQuery
  <1>4. [q EXCEPT !.stale = TRUE] \in N!AnyQuery
    BY DEF N!AnyQuery
  <1>5. CASE q.at = "none"
    <2>1. N!Ask(q) = [q EXCEPT !.at = "asked"]
      BY <1>5 DEF N!Ask
    <2>2. QED
      BY <1>2, <1>3, <1>4, <2>1 DEF N!AnyQuery
  <1>6. CASE q.at # "none"
    <2>1. N!Ask(q) = [q EXCEPT !.at = q.at]
      BY <1>6 DEF N!Ask
    <2>2. QED
      BY <1>2, <1>3, <1>4, <1>6, <2>1 DEF N!AnyQuery
  <1>7. QED
    BY <1>5, <1>6

(* What the API answers is of the notifications there are.                 *)
LEMMA AnswerShapes ==
    ASSUME NEW name
    PROVE  /\ N!Answer(name) \in N!Served
           /\ N!Answer(name).read = N!Answer(name).ids \ N!Unread
           /\ N!Answer("badge").ids = N!Unread
  <1>1. N!Unread \subseteq N!Notes /\ N!Topmost(N!Notes) \subseteq N!Notes
    BY DEF N!Unread, N!Topmost
  <1>2. PICK ids : N!Answer(name) = [ids |-> ids, read |-> ids \ N!Unread] /\ ids \subseteq N!Notes
    <2>1. CASE name = "badge"
      BY <1>1, <2>1 DEF N!Answer
    <2>2. CASE name = "list" /\ s3 = "panel"
      BY <1>1, <2>2 DEF N!Answer
    <2>3. CASE name # "badge" /\ ~(name = "list" /\ s3 = "panel")
      BY <2>3 DEF N!Answer
    <2>4. QED
      BY <2>1, <2>2, <2>3
  <1>3. N!Answer("badge") = [ids |-> N!Unread, read |-> N!Unread \ N!Unread]
    BY DEF N!Answer
  <1>4. QED
    BY <1>2, <1>3 DEF N!Served

(* A step that changes no notification.                                    *)
LEMMA SameNotes ==
    ASSUME UNCHANGED s1
    PROVE  /\ N!Notes' = N!Notes /\ N!Unread' = N!Unread /\ N!AnyQuery' = N!AnyQuery
           /\ N!AnyMark' = N!AnyMark
  BY DEF N!Notes, N!Unread, N!AnyQuery, N!AnyMark, N!Served

(* One that changes some: more of them, some of them read.                 *)
LEMMA MoreNotes ==
    ASSUME N!Notes \subseteq N!Notes'
    PROVE  N!AnyQuery \subseteq N!AnyQuery' /\ N!AnyMark \subseteq N!AnyMark'
  <1>1. N!Served \subseteq N!Served'
    BY DEF N!Served
  <1>2. N!AnyMark \subseteq N!AnyMark'
    BY DEF N!AnyMark
  <1>3. N!AnyQuery \subseteq N!AnyQuery'
    BY <1>1 DEF N!AnyQuery
  <1>4. QED
    BY <1>2, <1>3

(* A new note is unread and the newest.                                    *)
LEMMA NotifyNotes ==
    ASSUME N!BellTypes, N!Notify
    PROVE  /\ s1' \in Seq(BOOLEAN) /\ N!Notes \subseteq N!Notes'
           /\ (\A set \in SUBSET N!Notes : set \ N!Unread' = set \ N!Unread)
           /\ N!Notes' \ N!Unread' = N!Notes \ N!Unread
  <1>1. s1 \in Seq(BOOLEAN) /\ s1' = Append(s1, FALSE) /\ Len(s1) \in Nat
    BY DEF N!BellTypes, N!Notify
  <1>2. s1' \in Seq(BOOLEAN) /\ Len(s1') = Len(s1) + 1 /\ (\A n \in 1 .. Len(s1) : s1'[n] = s1[n])
        /\ s1'[Len(s1) + 1] = FALSE
    BY <1>1
  <1>3. N!Notes = 1 .. Len(s1) /\ N!Notes' = 1 .. (Len(s1) + 1)
    BY <1>2 DEF N!Notes
  <1>4. \A n \in N!Notes : n \in N!Unread' <=> n \in N!Unread
    BY <1>1, <1>2, <1>3 DEF N!Unread
  <1>5. Len(s1) + 1 \in N!Unread'
    BY <1>1, <1>2, <1>3 DEF N!Unread
  <1>6. N!Notes \subseteq N!Notes' /\ (\A n \in N!Notes' : n \in N!Notes \/ n = Len(s1) + 1)
    BY <1>1, <1>3
  <1>7. QED
    BY <1>2, <1>4, <1>5, <1>6

(* Marking notes read leaves the others as they were.                      *)
LEMMA MarkNotes ==
    ASSUME N!BellTypes, NEW now, s1' = [n \in N!Notes |-> s1[n] \/ n \in now]
    PROVE  s1' \in Seq(BOOLEAN) /\ N!Notes' = N!Notes /\ N!Notes' \ N!Unread' \subseteq (N!Notes \ N!Unread) \cup (N!Notes \cap now)
  <1>1. s1 \in Seq(BOOLEAN) /\ N!Notes = 1 .. Len(s1) /\ Len(s1) \in Nat
    BY DEF N!BellTypes, N!Notes
  <1>2. PICK k \in Nat : k = Len(s1)
    BY <1>1
  <1>3. \A n \in 1 .. k : (s1[n] \/ n \in now) \in BOOLEAN
    OBVIOUS
  <1>4. s1' \in [1 .. k -> BOOLEAN]
    BY <1>1, <1>2, <1>3
  <1>5. s1' \in Seq(BOOLEAN) /\ Len(s1') = k
    BY <1>4
  <1>6. N!Notes' = N!Notes
    BY <1>1, <1>2, <1>5 DEF N!Notes
  <1>7. \A n \in N!Notes : s1'[n] <=> (s1[n] \/ n \in now)
    OBVIOUS
  <1>8. ASSUME NEW n \in N!Notes', n \notin N!Unread'
        PROVE  n \in N!Notes /\ (n \notin N!Unread \/ n \in now)
    <2>1. n \in N!Notes /\ s1'[n]
      BY <1>6, <1>8 DEF N!Unread
    <2>2. s1[n] \/ n \in now
      BY <1>7, <2>1
    <2>3. QED
      BY <2>1, <2>2 DEF N!Unread
  <1>9. QED
    BY <1>5, <1>6, <1>8

(* Every step keeps the types.                                             *)
LEMMA BellTypesStep ==
    ASSUME N!BellTypes, N!Next
    PROVE  N!BellTypes'
  <1>q. s2 \in [N!Queries -> N!AnyQuery] /\ s2["badge"] \in N!AnyQuery /\ s2["list"] \in N!AnyQuery
    BY DEF N!BellTypes, N!Queries
  <1>n. \A q \in N!AnyQuery : N!NoQuery \in N!AnyQuery /\ N!Ask(q) \in N!AnyQuery
                             /\ N!Again(q) \in N!AnyQuery /\ [q EXCEPT !.stale = TRUE] \in N!AnyQuery
    BY QueryShapes
  <1>t. /\ s1 \in Seq(BOOLEAN) /\ s3 \in N!Surfaces /\ s4 \in BOOLEAN /\ s5 \subseteq N!AnyMark
        /\ s6 \subseteq N!Notes /\ s7 \subseteq N!Notes /\ s9 \in Nat /\ s10 \in Nat
        /\ s8 \in [late : BOOLEAN, lost : BOOLEAN, crossed : BOOLEAN]
    BY DEF N!BellTypes
  <1>s. \A name \in N!Queries : s2[name].data.ids \subseteq N!Notes /\ s2[name].answer.ids \subseteq N!Notes
    BY <1>q DEF N!AnyQuery, N!Served
  <1>k. ASSUME UNCHANGED s1, s2' \in [N!Queries -> N!AnyQuery], s3' \in N!Surfaces, s4' \in BOOLEAN,
               s5' \subseteq N!AnyMark, s6' \subseteq N!Notes, s7' \subseteq N!Notes, s9' \in Nat,
               s10' \in Nat, s8' \in [late : BOOLEAN, lost : BOOLEAN, crossed : BOOLEAN]
        PROVE  N!BellTypes'
    <2>1. N!Notes' = N!Notes /\ N!AnyQuery' = N!AnyQuery /\ N!AnyMark' = N!AnyMark
      BY <1>k, SameNotes
    <2>2. QED
      BY <1>k, <1>t, <2>1 DEF N!BellTypes
  <1>1. CASE N!Notify
    <2>1. s1' \in Seq(BOOLEAN) /\ N!Notes \subseteq N!Notes'
      BY <1>1, NotifyNotes
    <2>2. N!AnyQuery \subseteq N!AnyQuery' /\ N!AnyMark \subseteq N!AnyMark'
      BY <2>1, MoreNotes
    <2>3. s8' \in [late : BOOLEAN, lost : BOOLEAN, crossed : BOOLEAN]
      BY <1>t, <1>1 DEF N!Notify
    <2>4. s2' \in [N!Queries -> N!AnyQuery']
      BY <1>q, <1>1, <2>2 DEF N!Notify
    <2>5. QED
      BY <1>t, <1>1, <2>1, <2>2, <2>3, <2>4 DEF N!Notify, N!BellTypes
  <1>2. CASE N!Show
    <2>1. s2' \in [N!Queries -> N!AnyQuery]
      <3>1. s2' = s2 \/ (\E q \in N!AnyQuery : s2' = [s2 EXCEPT !["list"] = q])
        BY <1>q, <1>n, <1>2 DEF N!Show
      <3>2. QED
        BY <1>q, <3>1
    <2>2. s6' \subseteq N!Notes
      BY <1>t, <1>s, <1>2 DEF N!Show, N!Queries
    <2>3. s3' \in N!Surfaces
      BY <1>t, <1>2 DEF N!Show
    <2>4. QED
      BY <1>k, <1>t, <1>2, <2>1, <2>2, <2>3 DEF N!Show
  <1>3. CASE N!Hide
    BY <1>k, <1>q, <1>t, <1>3 DEF N!Hide
  <1>4. CASE N!Poll
    <2>1. \E q \in N!AnyQuery : s2' = [s2 EXCEPT !["badge"] = q]
      BY <1>q, <1>n, <1>4 DEF N!Poll
    <2>2. s2' \in [N!Queries -> N!AnyQuery]
      BY <1>q, <2>1
    <2>3. QED
      BY <1>k, <1>t, <1>4, <2>2 DEF N!Poll
  <1>5. ASSUME NEW ids \in SUBSET N!Notes, N!Send(ids)
        PROVE  s5' \subseteq N!AnyMark /\ s9' \in Nat
    BY <1>t, <1>5 DEF N!Send, N!AnyMark
  <1>6. CASE N!Follow
    <2>1. PICK n \in s2["list"].data.ids : N!Send({n})
      BY <1>6 DEF N!Follow
    <2>2. {n} \in SUBSET N!Notes
      BY <1>s, <2>1 DEF N!Queries
    <2>3. s5' \subseteq N!AnyMark /\ s9' \in Nat
      BY <1>5, <2>1, <2>2
    <2>4. QED
      BY <1>k, <1>q, <1>t, <1>6, <2>3 DEF N!Follow
  <1>7. CASE N!MarkAll
    <2>1. s5' \subseteq N!AnyMark /\ s9' \in Nat
      BY <1>5, <1>7 DEF N!MarkAll
    <2>2. QED
      BY <1>k, <1>q, <1>t, <1>7, <2>1 DEF N!MarkAll
  <1>8. CASE N!CallFails
    <2>1. s8' \in [late : BOOLEAN, lost : BOOLEAN, crossed : BOOLEAN]
      BY <1>t, <1>8 DEF N!CallFails
    <2>2. s5' \subseteq N!AnyMark
      BY <1>t, <1>8 DEF N!CallFails
    <2>3. s2' \in [N!Queries -> N!AnyQuery]
      <3>1. CASE UNCHANGED s2
        BY <1>q, <3>1
      <3>2. CASE \E name \in N!Queries : s2' = [s2 EXCEPT ![name].at = "none", ![name].answer = N!Nothing]
        <4>1. PICK name \in N!Queries : s2' = [s2 EXCEPT ![name].at = "none", ![name].answer = N!Nothing]
          BY <3>2
        <4>2. PICK q \in N!AnyQuery : q = s2[name]
          BY <1>q
        <4>3. [q EXCEPT !.at = "none", !.answer = N!Nothing] \in N!AnyQuery
          BY DEF N!AnyQuery, N!Served, N!Nothing
        <4>4. s2' = [s2 EXCEPT ![name] = [q EXCEPT !.at = "none", !.answer = N!Nothing]]
          BY <1>q, <4>1, <4>2
        <4>5. QED
          BY <1>q, <4>3, <4>4
      <3>3. QED
        BY <1>8, <3>1, <3>2 DEF N!CallFails
    <2>4. s10' \in Nat
      BY <1>t, <1>8 DEF N!CallFails
    <2>5. QED
      BY <1>k, <1>t, <1>8, <2>1, <2>2, <2>3, <2>4 DEF N!CallFails
  <1>9. ASSUME NEW name \in N!Queries, N!Serve(name)
        PROVE  N!BellTypes'
    <2>1. s8' \in [late : BOOLEAN, lost : BOOLEAN, crossed : BOOLEAN]
      <3>1. PICK b \in BOOLEAN : b = (s8.late /\ name # "badge")
        BY <1>t
      <3>2. s8' = [s8 EXCEPT !.late = b]
        BY <1>9, <3>1 DEF N!Serve
      <3>3. QED
        BY <1>t, <3>2
    <2>2. PICK q \in N!AnyQuery : q = s2[name]
      BY <1>q
    <2>3. [q EXCEPT !.at = "served", !.answer = N!Answer(name)] \in N!AnyQuery
      BY AnswerShapes DEF N!AnyQuery
    <2>4. s2' = [s2 EXCEPT ![name] = [q EXCEPT !.at = "served", !.answer = N!Answer(name)]]
      BY <1>q, <1>9, <2>2 DEF N!Serve
    <2>5. s2' \in [N!Queries -> N!AnyQuery]
      BY <1>q, <2>3, <2>4
    <2>6. QED
      BY <1>k, <1>t, <1>9, <2>1, <2>5 DEF N!Serve
  <1>10. ASSUME NEW name \in N!Queries, N!Arrive(name)
         PROVE  N!BellTypes'
    <2>1. s2[name].answer \in N!Served /\ N!NoQuery \in N!AnyQuery
      BY <1>q, <1>n DEF N!AnyQuery
    <2>2. [N!NoQuery EXCEPT !.has = TRUE, !.data = s2[name].answer] \in N!AnyQuery
      BY <2>1 DEF N!AnyQuery
    <2>3. s2' \in [N!Queries -> N!AnyQuery]
      BY <1>q, <1>10, <2>2 DEF N!Arrive
    <2>4. s6' \subseteq N!Notes
      BY <1>t, <1>s, <1>10 DEF N!Arrive
    <2>5. QED
      BY <1>k, <1>t, <1>10, <2>3, <2>4 DEF N!Arrive
  <1>11. ASSUME NEW m \in s5, N!ServeMark(m)
         PROVE  N!BellTypes'
    <2>1. PICK now : /\ s1' = [n \in N!Notes |-> s1[n] \/ n \in now]
                     /\ now \in {N!Unread, m.ids}
                     /\ s7' \in {s7, s7 \cup (now \ s6)}
      BY <1>11 DEF N!ServeMark
    <2>2. m \in N!AnyMark
      BY <1>t, <1>11
    <2>3. now \subseteq N!Notes
      BY <2>1, <2>2 DEF N!Unread, N!AnyMark
    <2>4. [m EXCEPT !.at = "served"] \in N!AnyMark
      BY <2>2 DEF N!AnyMark
    <2>5. s5' \subseteq N!AnyMark
      BY <1>t, <1>11, <2>4 DEF N!ServeMark
    <2>6. s1' \in Seq(BOOLEAN) /\ N!Notes' = N!Notes
      BY <2>1, MarkNotes
    <2>7. N!AnyQuery \subseteq N!AnyQuery' /\ N!AnyMark \subseteq N!AnyMark'
      BY <2>6, MoreNotes
    <2>8. s2' \in [N!Queries -> N!AnyQuery']
      BY <1>q, <1>11, <2>7 DEF N!ServeMark
    <2>9. s7' \subseteq N!Notes'
      BY <1>t, <2>1, <2>3, <2>6
    <2>10. QED
      BY <1>t, <1>11, <2>5, <2>6, <2>7, <2>8, <2>9 DEF N!ServeMark, N!BellTypes
  <1>12. ASSUME NEW m \in s5, N!MarkArrives(m)
         PROVE  N!BellTypes'
    <2>1. s8' \in [late : BOOLEAN, lost : BOOLEAN, crossed : BOOLEAN]
      <3>1. PICK b \in BOOLEAN : b = (s8.crossed \/ (~s4 /\ s2["list"].at # "none"))
        BY <1>t
      <3>2. s8' = [s8 EXCEPT !.crossed = b]
        BY <1>12, <3>1 DEF N!MarkArrives
      <3>3. QED
        BY <1>t, <3>2
    <2>2. s2' \in [N!Queries -> N!AnyQuery]
      <3>1. s2' = [name \in N!Queries |-> IF N!Active(name) THEN N!Again(s2[name])
                                          ELSE [s2[name] EXCEPT !.stale = TRUE]]
        BY <1>12 DEF N!MarkArrives, N!Invalidate
      <3>2. \A name \in N!Queries : N!Again(s2[name]) \in N!AnyQuery
                                   /\ [s2[name] EXCEPT !.stale = TRUE] \in N!AnyQuery
        BY <1>q, <1>n
      <3>3. QED
        BY <3>1, <3>2
    <2>3. s10' \in Nat
      BY <1>t, <1>12 DEF N!MarkArrives
    <2>4. s5' \subseteq N!AnyMark
      BY <1>t, <1>12 DEF N!MarkArrives
    <2>5. QED
      BY <1>k, <1>t, <1>12, <2>1, <2>2, <2>3, <2>4 DEF N!MarkArrives
  <1>13. QED
    BY <1>1, <1>2, <1>3, <1>4, <1>6, <1>7, <1>8, <1>9, <1>10, <1>11, <1>12 DEF N!Next

(* Nothing is pending before a step that neither serves a mark nor loses   *)
(* a call, if nothing is after it.                                         *)
LEMMA BellQueriesStep ==
    ASSUME N!BellInv, N!Next
    PROVE  N!BadgeIsUnread' /\ N!ListIsFresh'
  <1>t. N!BellTypes /\ N!BadgeIsUnread /\ N!ListIsFresh
    BY DEF N!BellInv
  <1>q. s2 \in [N!Queries -> N!AnyQuery] /\ s2["badge"] \in N!AnyQuery /\ s2["list"] \in N!AnyQuery
        /\ s8 \in [late : BOOLEAN, lost : BOOLEAN, crossed : BOOLEAN] /\ "badge" \in N!Queries
        /\ "list" \in N!Queries /\ "badge" # "list"
    BY DEF N!BellInv, N!BellTypes, N!Queries
  <1>a. \A q \in N!AnyQuery :
          /\ N!Ask(q).at # "none" /\ N!Again(q).at = "asked"
          /\ N!Ask(q).data = q.data /\ N!Again(q).data = q.data
          /\ N!Ask(q).answer = q.answer
          /\ (N!Ask(q).at = "served" => q.at = "served")
    BY QueryShapes
  <1>1. CASE N!Notify
    <2>1. s8'.late /\ s8'.lost = s8.lost /\ s8'.crossed = s8.crossed
      BY <1>q, <1>1 DEF N!Notify
    <2>2. UNCHANGED <<s2, s4, s5>>
      BY <1>1 DEF N!Notify
    <2>3. N!BadgeIsUnread'
      BY <2>1 DEF N!BadgeIsUnread
    <2>4. \A set \in SUBSET N!Notes : set \ N!Unread' = set \ N!Unread
      BY <1>t, <1>1, NotifyNotes
    <2>5. s2["list"].data.ids \in SUBSET N!Notes /\ s2["list"].answer.ids \in SUBSET N!Notes
      BY <1>q DEF N!AnyQuery, N!Served
    <2>6. s2["list"].data.ids \ N!Unread' = s2["list"].data.ids \ N!Unread
          /\ s2["list"].answer.ids \ N!Unread' = s2["list"].answer.ids \ N!Unread
      BY <2>4, <2>5
    <2>7. N!ListIsFresh'
      BY <1>t, <2>1, <2>2, <2>6 DEF N!ListIsFresh, N!NothingPending
    <2>8. QED
      BY <2>3, <2>7
  <1>2. CASE N!Show
    <2>1. UNCHANGED <<s1, s5, s8>> /\ s2'["badge"] = s2["badge"] /\ s4' = TRUE
      BY <1>q, <1>2 DEF N!Show
    <2>2. N!Unread' = N!Unread
      BY <2>1, SameNotes
    <2>3. N!BadgeIsUnread'
      BY <1>t, <2>1, <2>2 DEF N!BadgeIsUnread, N!NothingPending
    <2>4. CASE s2'["list"] = N!Ask(s2["list"])
      <3>1. s2'["list"].at # "none" /\ s2'["list"].answer = s2["list"].answer
            /\ (s2'["list"].at = "served" => s2["list"].at = "served")
        BY <1>q, <2>4, <1>a
      <3>2. QED
        BY <1>t, <2>1, <2>2, <2>3, <3>1 DEF N!ListIsFresh, N!NothingPending
    <2>5. CASE s2'["list"] = N!Ask(N!NoQuery)
      <3>1. s2'["list"].at = "asked"
        BY <2>5 DEF N!Ask, N!NoQuery
      <3>2. QED
        BY <2>3, <3>1 DEF N!ListIsFresh
    <2>6. CASE s2["list"].has /\ ~s2["list"].stale /\ UNCHANGED s2
      BY <1>t, <2>1, <2>2, <2>3, <2>6 DEF N!ListIsFresh, N!NothingPending
    <2>7. QED
      BY <1>q, <1>2, <2>4, <2>5, <2>6 DEF N!Show
  <1>3. CASE N!Hide
    <2>1. UNCHANGED <<s1, s2, s5, s8>> /\ s4
      BY <1>3 DEF N!Hide
    <2>2. N!Unread' = N!Unread
      BY <2>1, SameNotes
    <2>3. QED
      BY <1>t, <2>1, <2>2 DEF N!BadgeIsUnread, N!ListIsFresh, N!NothingPending
  <1>4. CASE N!Poll
    <2>1. UNCHANGED <<s1, s4, s5, s8>> /\ s2'["list"] = s2["list"] /\ s2'["badge"] = N!Ask(s2["badge"])
          /\ s2["badge"].at = "none"
      BY <1>q, <1>4 DEF N!Poll
    <2>2. N!Unread' = N!Unread
      BY <2>1, SameNotes
    <2>3. s2'["badge"].at # "none" /\ s2'["badge"].at # "served"
      BY <1>q, <2>1, <1>a
    <2>4. QED
      BY <1>t, <2>1, <2>2, <2>3 DEF N!BadgeIsUnread, N!ListIsFresh, N!NothingPending
  <1>5. CASE N!Follow \/ N!MarkAll
    <2>1. UNCHANGED <<s1, s2, s8>> /\ s4 /\ (s4' => s4)
      BY <1>5 DEF N!Follow, N!MarkAll
    <2>2. s5 \subseteq s5'
      BY <1>5 DEF N!Follow, N!MarkAll, N!Send
    <2>3. N!Unread' = N!Unread
      BY <2>1, SameNotes
    <2>4. QED
      BY <1>t, <2>1, <2>2, <2>3 DEF N!BadgeIsUnread, N!ListIsFresh, N!NothingPending
  <1>6. CASE N!CallFails
    <2>1. s8'.lost
      BY <1>q, <1>6 DEF N!CallFails
    <2>2. QED
      BY <2>1 DEF N!BadgeIsUnread, N!ListIsFresh, N!NothingPending
  <1>7. ASSUME NEW name \in N!Queries, N!Serve(name)
        PROVE  N!BadgeIsUnread' /\ N!ListIsFresh'
    <2>1. UNCHANGED <<s1, s4, s5>> /\ s8'.lost = s8.lost /\ s8'.crossed = s8.crossed
      BY <1>q, <1>7 DEF N!Serve
    <2>2. N!Unread' = N!Unread
      BY <2>1, SameNotes
    <2>3. s2'[name].at = "served" /\ s2'[name].answer = N!Answer(name)
      BY <1>q, <1>7 DEF N!Serve, N!AnyQuery
    <2>4. N!Answer(name).read = N!Answer(name).ids \ N!Unread /\ (name = "badge" => N!Answer(name).ids = N!Unread)
      BY AnswerShapes
    <2>5. CASE name = "badge"
      <3>1. s2'["list"] = s2["list"]
        BY <1>q, <1>7, <2>5 DEF N!Serve
      <3>2. QED
        BY <1>t, <2>1, <2>2, <2>3, <2>4, <2>5, <3>1 DEF N!BadgeIsUnread, N!ListIsFresh, N!NothingPending
    <2>6. CASE name = "list"
      <3>1. s2'["badge"] = s2["badge"] /\ s8'.late = s8.late
        <4>1. s8.late \in BOOLEAN
          BY <1>q
        <4>2. s8'.late = (s8.late /\ name # "badge")
          BY <1>q, <1>7 DEF N!Serve
        <4>3. s2'["badge"] = s2["badge"]
          BY <1>q, <1>7, <2>6 DEF N!Serve
        <4>4. QED
          BY <2>6, <4>1, <4>2, <4>3
      <3>2. QED
        BY <1>t, <2>1, <2>2, <2>3, <2>4, <2>6, <3>1 DEF N!BadgeIsUnread, N!ListIsFresh, N!NothingPending
    <2>7. QED
      BY <2>5, <2>6 DEF N!Queries
  <1>8. ASSUME NEW name \in N!Queries, N!Arrive(name)
        PROVE  N!BadgeIsUnread' /\ N!ListIsFresh'
    <2>1. UNCHANGED <<s1, s4, s5, s8>> /\ s2[name].at = "served"
      BY <1>8 DEF N!Arrive
    <2>2. N!Unread' = N!Unread
      BY <2>1, SameNotes
    <2>3. s2'[name].at = "none" /\ s2'[name].data = s2[name].answer
      BY <1>q, <1>8 DEF N!Arrive, N!NoQuery
    <2>4. \A other \in N!Queries : other # name => s2'[other] = s2[other]
      BY <1>q, <1>8 DEF N!Arrive
    <2>5. CASE name = "badge"
      BY <1>q, <1>t, <2>1, <2>2, <2>3, <2>4, <2>5 DEF N!BadgeIsUnread, N!ListIsFresh, N!NothingPending
    <2>6. CASE name = "list"
      BY <1>q, <1>t, <2>1, <2>2, <2>3, <2>4, <2>6 DEF N!BadgeIsUnread, N!ListIsFresh, N!NothingPending
    <2>7. QED
      BY <2>5, <2>6 DEF N!Queries
  <1>9. ASSUME NEW m \in s5, N!ServeMark(m)
        PROVE  N!BadgeIsUnread' /\ N!ListIsFresh'
    <2>1. [m EXCEPT !.at = "served"] \in s5'
      BY <1>9 DEF N!ServeMark
    <2>2. [m EXCEPT !.at = "served"].at = "served"
      BY <1>9, <1>t DEF N!BellTypes, N!AnyMark
    <2>3. QED
      BY <2>1, <2>2 DEF N!BadgeIsUnread, N!ListIsFresh, N!NothingPending
  <1>10. ASSUME NEW m \in s5, N!MarkArrives(m)
         PROVE  N!BadgeIsUnread' /\ N!ListIsFresh'
    <2>1. s2'["badge"] = N!Again(s2["badge"])
          /\ s2'["list"] = IF s4 THEN N!Again(s2["list"]) ELSE [s2["list"] EXCEPT !.stale = TRUE]
      BY <1>q, <1>10 DEF N!MarkArrives, N!Invalidate, N!Active
    <2>2. s2'["badge"].at = "asked"
      BY <1>q, <2>1, <1>a
    <2>3. N!BadgeIsUnread'
      BY <2>2 DEF N!BadgeIsUnread
    <2>4. CASE s4
      <3>1. s2'["list"].at = "asked"
        BY <1>q, <2>1, <2>4, <1>a
      <3>2. QED
        BY <2>3, <3>1 DEF N!ListIsFresh
    <2>5. CASE ~s4 /\ s2["list"].at = "none"
      <3>1. s2'["list"].at = "none" /\ s2'["list"].stale
        BY <1>q, <2>1, <2>5 DEF N!AnyQuery
      <3>2. ~s4'
        BY <1>10, <2>5 DEF N!MarkArrives
      <3>3. QED
        BY <2>3, <3>1, <3>2 DEF N!ListIsFresh
    <2>6. CASE ~s4 /\ s2["list"].at # "none"
      <3>1. s8'.crossed
        BY <1>q, <1>10, <2>6 DEF N!MarkArrives
      <3>2. QED
        BY <2>3, <3>1 DEF N!ListIsFresh
    <2>7. QED
      BY <2>4, <2>5, <2>6
  <1>11. QED
    BY <1>1, <1>2, <1>3, <1>4, <1>5, <1>6, <1>7, <1>8, <1>9, <1>10 DEF N!Next

(* Every step keeps what was marked read drawn before.                     *)
LEMMA ReadWasDrawnStep ==
    ASSUME N!BellInv, N!Next
    PROVE  N!ReadWasDrawn'
  <1>t. N!BellTypes /\ N!ReadWasDrawn
    BY DEF N!BellInv
  <1>q. s2 \in [N!Queries -> N!AnyQuery] /\ s2["badge"] \in N!AnyQuery /\ s2["list"] \in N!AnyQuery
        /\ "badge" \in N!Queries /\ "list" \in N!Queries /\ "badge" # "list" /\ s5 \subseteq N!AnyMark
    BY DEF N!BellInv, N!BellTypes, N!Queries
  <1>a. \A q \in N!AnyQuery :
          /\ N!Ask(q).at # "none" /\ N!Again(q).at = "asked"
          /\ N!Ask(q).data = q.data /\ N!Again(q).data = q.data
          /\ N!Ask(q).answer = q.answer
          /\ (N!Ask(q).at = "served" => q.at = "served")
    BY QueryShapes
  <1>k. ASSUME UNCHANGED <<s1, s7>>, s6 \subseteq s6',
               s4' => s2'["list"].data.ids \subseteq s6',
               \A m \in s5' : m.ids \subseteq s6'
        PROVE  N!ReadWasDrawn'
    <2>1. N!Notes' = N!Notes /\ N!Unread' = N!Unread
      BY <1>k, SameNotes
    <2>2. QED
      BY <1>k, <1>t, <2>1 DEF N!ReadWasDrawn
  <1>1. CASE N!Notify
    <2>1. N!Notes' \ N!Unread' = N!Notes \ N!Unread
      BY <1>t, <1>1, NotifyNotes
    <2>2. QED
      BY <1>t, <1>1, <2>1 DEF N!Notify, N!ReadWasDrawn
  <1>2. CASE N!Show
    <2>1. UNCHANGED <<s1, s5, s7>> /\ s6 \subseteq s6'
      BY <1>2 DEF N!Show
    <2>2. s2'["list"].data.ids \subseteq s6'
      <3>1. CASE ~s4 /\ s6' = s6 \cup s2["list"].data.ids /\ (s2' = [s2 EXCEPT !["list"] = N!Ask(@)] \/ UNCHANGED s2)
        <4>1. s2'["list"].data = s2["list"].data
          BY <1>q, <3>1, <1>a
        <4>2. QED
          BY <3>1, <4>1
      <3>2. CASE s2' = [s2 EXCEPT !["list"] = N!Ask(N!NoQuery)]
        BY <1>q, <3>2 DEF N!Ask, N!NoQuery, N!Nothing
      <3>3. QED
        BY <1>2, <3>1, <3>2 DEF N!Show
    <2>3. QED
      BY <1>k, <1>t, <2>1, <2>2 DEF N!ReadWasDrawn
  <1>3. CASE N!Hide
    BY <1>k, <1>t, <1>3 DEF N!Hide, N!ReadWasDrawn
  <1>4. CASE N!Poll
    <2>1. s2'["list"] = s2["list"]
      BY <1>q, <1>4 DEF N!Poll
    <2>2. QED
      BY <1>k, <1>t, <1>4, <2>1 DEF N!Poll, N!ReadWasDrawn
  <1>5. CASE N!Follow
    <2>1. PICK n \in s2["list"].data.ids : N!Send({n})
      BY <1>5 DEF N!Follow
    <2>2. n \in s6
      BY <1>t, <1>5, <2>1 DEF N!Follow, N!ReadWasDrawn
    <2>3. \A m \in s5' : m \in s5 \/ m.ids = {n}
      BY <2>1 DEF N!Send
    <2>4. \A m \in s5' : m.ids \subseteq s6
      BY <1>t, <2>2, <2>3 DEF N!ReadWasDrawn
    <2>5. QED
      BY <1>k, <1>5, <2>4 DEF N!Follow
  <1>6. CASE N!MarkAll
    <2>1. \A m \in s5' : m \in s5 \/ m.ids = {}
      BY <1>6 DEF N!MarkAll, N!Send
    <2>2. QED
      BY <1>k, <1>t, <1>6, <2>1 DEF N!MarkAll, N!ReadWasDrawn
  <1>7. CASE N!CallFails
    <2>1. s2'["list"].data = s2["list"].data
      <3>1. CASE UNCHANGED s2
        BY <3>1
      <3>2. CASE \E name \in N!Queries : s2' = [s2 EXCEPT ![name].at = "none", ![name].answer = N!Nothing]
        <4>1. PICK name \in N!Queries : s2' = [s2 EXCEPT ![name].at = "none", ![name].answer = N!Nothing]
          BY <3>2
        <4>2. CASE name = "list"
          BY <1>q, <4>1, <4>2 DEF N!AnyQuery
        <4>3. CASE name # "list"
          BY <1>q, <4>1, <4>3
        <4>4. QED
          BY <4>2, <4>3
      <3>3. QED
        BY <1>7, <3>1, <3>2 DEF N!CallFails
    <2>2. s5' \subseteq s5
      BY <1>7 DEF N!CallFails
    <2>3. QED
      BY <1>k, <1>t, <1>7, <2>1, <2>2 DEF N!CallFails, N!ReadWasDrawn
  <1>8. ASSUME NEW name \in N!Queries, N!Serve(name)
        PROVE  N!ReadWasDrawn'
    <2>1. s2'["list"].data = s2["list"].data
      BY <1>q, <1>8 DEF N!Serve, N!AnyQuery
    <2>2. QED
      BY <1>k, <1>t, <1>8, <2>1 DEF N!Serve, N!ReadWasDrawn
  <1>9. ASSUME NEW name \in N!Queries, N!Arrive(name)
        PROVE  N!ReadWasDrawn'
    <2>1. UNCHANGED <<s1, s4, s5, s7>> /\ s6 \subseteq s6'
      BY <1>9 DEF N!Arrive
    <2>2. s4 => s2'["list"].data.ids \subseteq s6'
      <3>1. CASE name = "list"
        <4>1. s2'["list"].data = s2["list"].answer
          BY <1>q, <1>9, <3>1 DEF N!Arrive, N!NoQuery
        <4>2. s4 => s6' = s6 \cup s2["list"].answer.ids
          BY <1>9, <3>1 DEF N!Arrive
        <4>3. QED
          BY <4>1, <4>2
      <3>2. CASE name # "list"
        <4>1. s2'["list"] = s2["list"]
          BY <1>q, <1>9, <3>2 DEF N!Arrive
        <4>2. QED
          BY <1>t, <2>1, <4>1 DEF N!ReadWasDrawn
      <3>3. QED
        BY <3>1, <3>2
    <2>3. QED
      BY <1>k, <1>t, <2>1, <2>2 DEF N!ReadWasDrawn
  <1>10. ASSUME NEW m \in s5, N!ServeMark(m)
         PROVE  N!ReadWasDrawn'
    <2>1. PICK now : /\ s1' = [n \in N!Notes |-> s1[n] \/ n \in now]
                     /\ (m.ids # {} => now = m.ids /\ s7' = s7)
                     /\ (m.ids = {} => now = N!Unread /\ s7' = s7 \cup (now \ s6))
      BY <1>10 DEF N!ServeMark
    <2>2. now \subseteq s6 \cup s7' /\ s7 \subseteq s7'
      BY <1>t, <1>10, <2>1 DEF N!ReadWasDrawn
    <2>3. N!Notes' \ N!Unread' \subseteq (N!Notes \ N!Unread) \cup now
      BY <1>t, <2>1, MarkNotes
    <2>4. [m EXCEPT !.at = "served"].ids = m.ids
      BY <1>q, <1>10 DEF N!AnyMark
    <2>5. \A x \in s5' : x.ids \subseteq s6
      BY <1>t, <1>10, <2>4 DEF N!ServeMark, N!ReadWasDrawn
    <2>6. QED
      BY <1>t, <1>10, <2>2, <2>3, <2>5 DEF N!ServeMark, N!ReadWasDrawn
  <1>11. ASSUME NEW m \in s5, N!MarkArrives(m)
         PROVE  N!ReadWasDrawn'
    <2>1. s2'["list"] = IF s4 THEN N!Again(s2["list"]) ELSE [s2["list"] EXCEPT !.stale = TRUE]
      BY <1>q, <1>11 DEF N!MarkArrives, N!Invalidate, N!Active
    <2>2. s2'["list"].data = s2["list"].data
      BY <1>q, <2>1, <1>a DEF N!AnyQuery
    <2>3. QED
      BY <1>k, <1>t, <1>11, <2>2 DEF N!MarkArrives, N!ReadWasDrawn
  <1>12. QED
    BY <1>1, <1>2, <1>3, <1>4, <1>5, <1>6, <1>7, <1>8, <1>9, <1>10, <1>11 DEF N!Next

(* They hold at first, ...                                                 *)
LEMMA BellInit ==
    ASSUME N!Init
    PROVE  N!BellInv
  <1>1. s1 = <<FALSE>> /\ s1 \in Seq(BOOLEAN) /\ Len(s1) = 1 /\ s1[1] = FALSE
    BY DEF N!Init
  <1>2. N!Notes = 1 .. 1 /\ N!Unread = N!Notes
    <2>1. N!Notes = 1 .. 1
      BY <1>1 DEF N!Notes
    <2>2. QED
      <3>1. \A n \in N!Notes : ~s1[n]
        <4>1. \A n \in 1 .. 1 : n = 1
          OBVIOUS
        <4>2. QED
          BY <1>1, <2>1, <4>1
      <3>2. QED
        BY <2>1, <3>1 DEF N!Unread
  <1>3. N!NoQuery \in N!AnyQuery /\ N!Ask(N!NoQuery) \in N!AnyQuery
    <2>1. N!NoQuery \in N!AnyQuery
      BY DEF N!NoQuery, N!AnyQuery, N!Served, N!Nothing
    <2>2. QED
      BY <2>1, QueryShapes
  <1>4. s2 = [q \in N!Queries |-> IF q = "badge" THEN N!Ask(N!NoQuery) ELSE N!NoQuery]
    BY DEF N!Init
  <1>5. s2 \in [N!Queries -> N!AnyQuery]
    BY <1>3, <1>4
  <1>6. N!BellTypes
    BY <1>1, <1>5 DEF N!Init, N!BellTypes, N!Surfaces
  <1>7. s2["badge"].at = "asked" /\ s2["list"].at = "none" /\ ~s2["list"].has /\ ~s4
    BY <1>4 DEF N!Init, N!Queries, N!Ask, N!NoQuery
  <1>8. N!BadgeIsUnread /\ N!ListIsFresh
    BY <1>7 DEF N!BadgeIsUnread, N!ListIsFresh
  <1>9. N!ReadWasDrawn
    BY <1>2 DEF N!Init, N!ReadWasDrawn
  <1>10. QED
    BY <1>6, <1>8, <1>9 DEF N!BellInv

(* ... every step keeps them, ...                                          *)
LEMMA BellStep ==
    ASSUME N!BellInv, N!Next
    PROVE  N!BellInv'
  BY BellTypesStep, BellQueriesStep, ReadWasDrawnStep DEF N!BellInv

(* ... so does a step of nothing, ...                                      *)
LEMMA BellStays ==
    ASSUME N!BellInv, UNCHANGED <<s1, s2, s3, s4, s5, s6, s7, s8, s9, s10>>
    PROVE  N!BellInv'
  <1>1. N!Notes' = N!Notes /\ N!Unread' = N!Unread /\ N!AnyQuery' = N!AnyQuery
        /\ N!AnyMark' = N!AnyMark
    BY SameNotes
  <1>2. N!BellTypes'
    BY <1>1 DEF N!BellInv, N!BellTypes
  <1>3. N!BadgeIsUnread' /\ N!ListIsFresh'
    BY <1>1 DEF N!BellInv, N!BadgeIsUnread, N!ListIsFresh, N!NothingPending
  <1>4. N!ReadWasDrawn'
    BY <1>1 DEF N!BellInv, N!ReadWasDrawn
  <1>5. QED
    BY <1>2, <1>3, <1>4 DEF N!BellInv

(* ... and they say what the bell promises.                                *)
LEMMA BellHolds ==
    ASSUME N!BellInv
    PROVE  N!TypeOK /\ N!BellIsHonest
  <1>1. N!TypeOK
    BY DEF N!BellInv, N!BellTypes, N!TypeOK, N!AnyQuery, N!Served
  <1>2. s5 = {} /\ ~s8.lost => N!NothingPending
    BY DEF N!NothingPending
  <1>3. N!BellIsHonest
    BY <1>2 DEF N!BellInv, N!BadgeIsUnread, N!ListIsFresh, N!ReadWasDrawn, N!BellIsHonest
  <1>4. QED
    BY <1>1, <1>3

-----------------------------------------------------------------------------
(* A helpful vote (s1 mineStored, s2 countStored, s3 voted, s4 count, s5   *)
(* busy, s6 call, s7 wanted, s8 lost, s9 pushes, s10 broken).              *)

(* Every step keeps the invariant, ...                                     *)
LEMMA VoteStep ==
    ASSUME K!VoteInv, K!Next
    PROVE  K!VoteInv'
  <1>t. Voters \in Nat /\ MaxPushes \in Nat /\ MaxBroken \in Nat
    BY PagesAssumption DEF K!VoteAssumption
  <1> USE DEF K!VoteInv, K!Counts, K!One
  <1>1. CASE K!Toggle
    <2>1. s6 = K!None /\ (~s8 => s3 = s1)
      BY <1>1 DEF K!Toggle, K!CallIs
    <2>2. s6' = K!Asked /\ s5' /\ s3' = s7' /\ s3' = ~s3 /\ UNCHANGED <<s1, s8>>
      BY <1>1 DEF K!Toggle, K!stored
    <2>3. K!CallIs'
      BY <2>1, <2>2 DEF K!CallIs
    <2>4. s9' \in 0 .. MaxPushes
      BY <1>t, <1>1 DEF K!Toggle
    <2>5. s4' \in Int /\ s4' - K!One(s3)' \in 0 .. Voters
      <3>1. CASE s3
        BY <1>t, <1>1, <2>2, <3>1 DEF K!Toggle
      <3>2. CASE ~s3
        <4>1. s4' = s4 + 1 /\ K!One(s3)' = 1 /\ K!One(s3) = 0
          BY <1>1, <2>2, <3>2 DEF K!Toggle
        <4>2. s4 \in 0 .. Voters
          BY <4>1
        <4>3. QED
          BY <1>t, <4>1, <4>2
      <3>3. QED
        BY <3>1, <3>2
    <2>6. QED
      BY <1>1, <2>2, <2>3, <2>4, <2>5 DEF K!Toggle, K!stored
  <1>2. CASE K!SetHelpful
    <2>1. s5 /\ s3 = s7
      BY <1>2 DEF K!SetHelpful, K!CallIs, K!Asked, K!None
    <2>2. s2' \in Int /\ s2' - K!One(s1') \in 0 .. Voters /\ s1' = s7
      BY <1>2 DEF K!SetHelpful
    <2>3. s6'.is = "ok" /\ s6'.voted = s7 /\ s6'.count = s2'
      BY <1>2 DEF K!SetHelpful
    <2>4. K!CallIs'
      BY <1>2, <2>1, <2>2, <2>3 DEF K!SetHelpful, K!CallIs, K!button
    <2>5. QED
      BY <1>2, <2>2, <2>4 DEF K!SetHelpful, K!button
  <1>3. CASE K!Refused
    <2>1. s5 /\ s3 = s7 /\ (~s8 => s1 # s7)
      BY <1>3 DEF K!Refused, K!CallIs, K!Asked, K!None
    <2>2. s10' \in 0 .. MaxBroken
      BY <1>t, <1>3 DEF K!Refused
    <2>3. QED
      BY <1>3, <2>1, <2>2 DEF K!Refused, K!CallIs, K!button, K!stored
  <1>4. CASE K!AnswerLost
    <2>1. s5 /\ s3 = s7
      BY <1>4 DEF K!AnswerLost, K!CallIs, K!None
    <2>2. s10' \in 0 .. MaxBroken
      BY <1>t, <1>4 DEF K!AnswerLost
    <2>3. QED
      BY <1>4, <2>1, <2>2 DEF K!AnswerLost, K!CallIs, K!button, K!stored
  <1>5. CASE K!Answered
    <2>1. CASE s6.is = "ok"
      <3>1. s6.voted = s7 /\ s1 = s7 /\ s6.count - K!One(s7) \in 0 .. Voters /\ s6.count \in Int
        BY <2>1 DEF K!CallIs, K!None, K!Asked
      <3>2. s3' = s7 /\ s4' = s6.count /\ s8' = FALSE
        BY <1>5, <2>1, <3>1 DEF K!Answered
      <3>3. K!CallIs'
        BY <1>5, <3>1, <3>2 DEF K!Answered, K!CallIs, K!stored
      <3>4. QED
        BY <1>5, <3>1, <3>2, <3>3 DEF K!Answered, K!stored
    <2>2. CASE s6.is # "ok"
      <3>1. s6.is = "failed"
        BY <1>5, <2>2 DEF K!Answered
      <3>2. s3 = s7 /\ (~s8 => s1 # s7)
        BY <3>1 DEF K!CallIs, K!None, K!Asked
      <3>3. s3' = ~s7 /\ s4' = s4 + (IF s7 THEN -1 ELSE 1) /\ s8' = s8
        BY <1>5, <2>2 DEF K!Answered, K!RollBack
      <3>4. K!CallIs'
        BY <1>5, <3>2, <3>3 DEF K!Answered, K!CallIs, K!stored
      <3>5. s4' \in Int /\ s4' - K!One(s3)' \in 0 .. Voters
        <4>1. CASE s7
          <5>1. s4' = s4 - 1 /\ K!One(s3)' = 0 /\ K!One(s3) = 1
            BY <3>2, <3>3, <4>1
          <5>2. s4 - 1 \in 0 .. Voters
            BY <5>1
          <5>3. QED
            BY <1>t, <5>1, <5>2
        <4>2. CASE ~s7
          BY <1>t, <3>2, <3>3, <4>2
        <4>3. QED
          BY <4>1, <4>2
      <3>6. QED
        BY <1>5, <3>3, <3>4, <3>5 DEF K!Answered, K!stored
    <2>3. QED
      BY <2>1, <2>2
  <1>6. CASE K!OthersVote
    <2>1. s2' \in Int
      BY <1>6 DEF K!OthersVote
    <2>2. K!CallIs'
      BY <1>6 DEF K!OthersVote, K!CallIs, K!button
    <2>3. QED
      BY <1>6, <2>1, <2>2 DEF K!OthersVote, K!button
  <1>7. QED
    BY <1>1, <1>2, <1>3, <1>4, <1>5, <1>6 DEF K!Next

(* ... it holds at first, ...                                              *)
LEMMA VoteInit ==
    ASSUME K!Init
    PROVE  K!VoteInv
  <1>1. Voters \in Nat /\ MaxPushes \in Nat /\ MaxBroken \in Nat
    BY PagesAssumption DEF K!VoteAssumption
  <1>2. s1 \in BOOLEAN /\ s2 \in Int /\ s2 - K!One(s1) \in 0 .. Voters
    BY <1>1 DEF K!Init, K!One
  <1>3. s3 = s1 /\ s4 = s2 /\ s5 = FALSE /\ s6 = K!None /\ s7 = FALSE /\ s8 = FALSE /\ s9 = 0 /\ s10 = 0
    BY DEF K!Init
  <1>4. K!CallIs
    BY <1>3 DEF K!CallIs
  <1>5. s9 \in 0 .. MaxPushes /\ s10 \in 0 .. MaxBroken /\ s4 - K!One(s3) \in 0 .. Voters
    BY <1>1, <1>2, <1>3
  <1>6. QED
    BY <1>2, <1>3, <1>4, <1>5 DEF K!VoteInv, K!Counts

(* ... a step of nothing keeps it, ...                                     *)
LEMMA VoteStays ==
    ASSUME K!VoteInv, UNCHANGED <<s1, s2, s3, s4, s5, s6, s7, s8, s9, s10>>
    PROVE  K!VoteInv'
  BY DEF K!VoteInv, K!CallIs, K!Counts, K!One

(* ... and it says what the button promises.                               *)
LEMMA VoteHolds ==
    ASSUME K!VoteInv
    PROVE  K!TypeOK /\ K!VoteIsHonest
  <1>t. Voters \in Nat /\ MaxPushes \in Nat /\ MaxBroken \in Nat
    BY PagesAssumption DEF K!VoteAssumption
  <1> USE DEF K!VoteInv, K!Counts, K!One
  <1>1. s6.is \in {"none", "asked", "ok", "failed"}
    BY DEF K!CallIs, K!None, K!Asked
  <1>2. s2 \in 0 .. Voters + 1 /\ s4 \in -1 .. Voters + 2
    BY <1>t
  <1>3. s9 <= MaxPushes /\ s10 <= MaxBroken
    BY <1>t
  <1>4. ~s5 => (~s8 => s3 = s1)
    BY DEF K!CallIs
  <1>5. QED
    BY <1>1, <1>2, <1>3, <1>4 DEF K!TypeOK, K!VoteIsHonest

-----------------------------------------------------------------------------
(* The review composer (s1 review, s2 mine, s3 reading, s4 form, s5 saves, *)
(* s6 forms, s7 texts, s8 errors, s9 unseen, s10 gone, s11 blindly, s12    *)
(* early).                                                                 *)

(* The bounds are numbers, and there is a text.                            *)
LEMMA ReviewAssumed == MaxTexts \in Nat \ {0} /\ MaxForms \in Nat /\ MaxErrors \in Nat
  BY PagesAssumption DEF M!ComposerAssumption

(* Every step keeps the types.                                             *)
LEMMA ReviewTypesStep ==
    ASSUME M!ComposerTypes, M!Next
    PROVE  M!ComposerTypes'
  <1> USE ReviewAssumed DEF M!ComposerTypes
  <1>1. CASE M!ServeMine \/ M!MineArrives \/ M!MineFails \/ M!Refocus
    BY <1>1 DEF M!ServeMine, M!MineArrives, M!MineFails, M!Refocus, M!past
  <1>2. CASE M!Open
    <2>1. M!Existing \in 0 .. MaxTexts
      BY DEF M!Existing
    <2>2. s6' \in 1 .. MaxForms
      BY <1>2 DEF M!Open
    <2>3. s4' \in [no : 1 .. MaxForms, seed : 0 .. MaxTexts, text : 0 .. MaxTexts, saving : BOOLEAN]
      BY <1>2, <2>1, <2>2 DEF M!Open
    <2>4. s11' \in BOOLEAN /\ s12' \in BOOLEAN
      BY <1>2 DEF M!Open
    <2>5. QED
      BY <1>2, <2>2, <2>3, <2>4 DEF M!Open, M!query
  <1>3. CASE M!Type
    <2>1. s7' \in 0 .. MaxTexts
      BY <1>3 DEF M!Type
    <2>2. s4' \in [no : 1 .. MaxForms, seed : 0 .. MaxTexts, text : 0 .. MaxTexts, saving : BOOLEAN]
      BY <1>3, <2>1 DEF M!Type
    <2>3. s12' \in BOOLEAN
      BY <1>3 DEF M!Type
    <2>4. QED
      BY <1>3, <2>1, <2>2, <2>3 DEF M!Type, M!query
  <1>4. CASE M!Dismiss
    BY <1>4 DEF M!Dismiss, M!query, M!past
  <1>5. CASE M!Save
    <2>1. s4 \in [no : 1 .. MaxForms, seed : 0 .. MaxTexts, text : 0 .. MaxTexts, saving : BOOLEAN]
      BY <1>5 DEF M!Save, M!Closed
    <2>2. s4' \in [no : 1 .. MaxForms, seed : 0 .. MaxTexts, text : 0 .. MaxTexts, saving : BOOLEAN]
      BY <1>5, <2>1 DEF M!Save
    <2>3. [form |-> s4.no, seed |-> s4.seed, text |-> s4.text, is |-> "sent"] \in M!Saved
      BY <2>1 DEF M!Saved
    <2>4. \A s \in s5' : s \in M!Saved
      BY <1>5, <2>3 DEF M!Save
    <2>5. QED
      BY <1>5, <2>2, <2>4 DEF M!Save, M!query, M!past
  <1>6. CASE M!Upsert
    <2>1. PICK s \in s5 : /\ s1' = s.text /\ s5' = (s5 \ {s}) \cup {[s EXCEPT !.is = "ok"]}
                          /\ s9' = (s9 \/ s1 \notin {0, s.seed, s.text})
      BY <1>6 DEF M!Upsert
    <2>2. [s EXCEPT !.is = "ok"] \in M!Saved /\ s1' \in 0 .. MaxTexts
      BY <2>1 DEF M!Saved
    <2>3. QED
      BY <1>6, <2>1, <2>2 DEF M!Upsert, M!query
  <1>7. CASE M!SaveAnswered
    <2>1. PICK s \in s5 :
            /\ s5' = s5 \ {s} /\ s4' = M!FormAfter(s)
            /\ s10' = (s10 \/ (s4' = M!Closed /\ s4.text # s4.seed
                               /\ ~(s.is = "ok" /\ s4.text = s.text)))
            /\ s3' = IF s.is = "ok" THEN M!Asked ELSE s3
      BY <1>7 DEF M!SaveAnswered
    <2>2. s.form \in 1 .. MaxForms
      BY DEF M!Saved
    <2>3. \/ s4' = M!Closed
          \/ s4' \in [no : 1 .. MaxForms, seed : 0 .. MaxTexts, text : 0 .. MaxTexts, saving : BOOLEAN]
      <3>1. CASE s4 = M!Closed
        BY <2>1, <2>2, <3>1 DEF M!FormAfter, M!Closed
      <3>2. CASE s4 # M!Closed
        BY <2>1, <3>2 DEF M!FormAfter
      <3>3. QED
        BY <3>1, <3>2
    <2>4. QED
      BY <1>7, <2>1, <2>3 DEF M!SaveAnswered
  <1>8. CASE M!SaveFails
    <2>1. PICK s \in s5 : s5' = (s5 \ {s}) \cup {[s EXCEPT !.is = "failed"]}
      BY <1>8 DEF M!SaveFails
    <2>2. [s EXCEPT !.is = "failed"] \in M!Saved
      BY DEF M!Saved
    <2>3. QED
      BY <1>8, <2>1, <2>2 DEF M!SaveFails, M!query, M!past
  <1>9. QED
    BY <1>1, <1>2, <1>3, <1>4, <1>5, <1>6, <1>7, <1>8 DEF M!Next

(* Every step keeps the viewer's review as it was read last.               *)
LEMMA ReviewFreshStep ==
    ASSUME M!ComposerTypes, M!QueryIsFresh, M!Next
    PROVE  M!QueryIsFresh'
  <1> USE DEF M!ComposerTypes, M!NoRead, M!Asked, M!Pending, M!Failed
  <1> SUFFICES ASSUME s8' = 0
               PROVE  M!QueryIsFresh'
    BY DEF M!QueryIsFresh
  <1>0. s8 = 0 /\ ~M!MineFails /\ ~M!SaveFails
    BY ReviewAssumed DEF M!Next, M!ServeMine, M!MineArrives, M!MineFails, M!Refocus, M!Open, M!Type, M!Dismiss,
       M!Save, M!Upsert, M!SaveAnswered, M!SaveFails
  <1>i. /\ s2 # M!Failed /\ \A s \in s5 : s.is # "failed"
        /\ M!Fresh /\ s3 \notin {M!NoRead, M!Asked} => s3 = s1
        /\ M!Fresh /\ s3 = M!NoRead /\ s2 # M!Pending => s2 = s1
    BY <1>0 DEF M!QueryIsFresh
  <1>1. CASE M!ServeMine \/ M!MineArrives \/ M!Refocus
    BY <1>0, <1>1, <1>i, ReviewAssumed DEF M!ServeMine, M!MineArrives, M!Refocus, M!QueryIsFresh, M!Fresh
  <1>2. CASE M!Open \/ M!Type \/ M!Dismiss
    BY <1>0, <1>2, <1>i DEF M!Open, M!Type, M!Dismiss, M!QueryIsFresh, M!Fresh, M!query
  <1>3. CASE M!Save
    BY <1>0, <1>3, <1>i DEF M!Save, M!QueryIsFresh, M!Fresh, M!query
  <1>4. CASE M!Upsert
    <2>1. PICK s \in s5 : s5' = (s5 \ {s}) \cup {[s EXCEPT !.is = "ok"]}
      BY <1>4 DEF M!Upsert
    <2>2. [s EXCEPT !.is = "ok"].is = "ok"
      BY DEF M!Saved
    <2>3. ~M!Fresh' /\ \A t \in s5' : t.is # "failed"
      BY <1>i, <2>1, <2>2 DEF M!Fresh
    <2>4. s2' = s2
      BY <1>4 DEF M!Upsert, M!query
    <2>5. QED
      BY <1>i, <2>3, <2>4 DEF M!QueryIsFresh
  <1>5. CASE M!SaveAnswered
    <2>1. PICK s \in s5 : s.is # "sent" /\ s5' = s5 \ {s} /\ s3' = IF s.is = "ok" THEN M!Asked ELSE s3
      BY <1>5 DEF M!SaveAnswered
    <2>2. s.is = "ok"
      BY <1>i, <2>1 DEF M!Saved
    <2>3. s3' = M!Asked /\ s2' = s2
      BY <1>5, <2>1, <2>2 DEF M!SaveAnswered
    <2>4. QED
      BY <1>i, <2>1, <2>3 DEF M!QueryIsFresh
  <1>6. QED
    BY <1>0, <1>1, <1>2, <1>3, <1>4, <1>5 DEF M!Next

(* Every step keeps one save under way.                                    *)
LEMMA ReviewOneStep ==
    ASSUME M!ComposerTypes, M!OneSave, M!Next
    PROVE  M!OneSave'
  <1> SUFFICES ASSUME ~s12'
               PROVE  M!OneSave'
    BY DEF M!OneSave
  <1>1. CASE M!Open \/ M!Type
    BY <1>1 DEF M!Open, M!Type, M!OneSave
  <1>2. ~M!Open /\ ~M!Type => ~s12
    BY DEF M!Next, M!ServeMine, M!MineArrives, M!MineFails, M!Refocus, M!Open, M!Type, M!Dismiss,
       M!Save, M!Upsert, M!SaveAnswered, M!SaveFails, M!past
  <1>3. CASE UNCHANGED <<s4, s5, s12>>
    BY <1>3 DEF M!OneSave
  <1>4. CASE M!ServeMine \/ M!MineArrives \/ M!MineFails \/ M!Refocus
    BY <1>3, <1>4 DEF M!ServeMine, M!MineArrives, M!MineFails, M!Refocus, M!past
  <1>5. CASE M!Dismiss
    BY <1>5 DEF M!Dismiss, M!OneSave, M!past
  <1>6. CASE M!Save
    <2>1. ~s12
      BY <1>6 DEF M!Save, M!past
    <2>2. s4 # M!Closed /\ s5 = {}
      BY <1>6, <2>1 DEF M!Save, M!OneSave, M!Closed
    <2>3. s4 \in [no : 1 .. MaxForms, seed : 0 .. MaxTexts, text : 0 .. MaxTexts, saving : BOOLEAN]
      BY <2>2 DEF M!ComposerTypes
    <2>4. s4'.saving /\ s4'.no = s4.no /\ s4'.text = s4.text
      BY <1>6, <2>3 DEF M!Save
    <2>5. QED
      BY <1>6, <2>2, <2>4 DEF M!Save, M!OneSave
  <1>7. ASSUME NEW s \in s5, NEW t, t.form = s.form, t.text = s.text, s5' = (s5 \ {s}) \cup {t},
               UNCHANGED <<s4, s12>>
        PROVE  M!OneSave'
    BY <1>7 DEF M!OneSave
  <1>8. CASE M!Upsert
    <2>1. PICK s \in s5 : s5' = (s5 \ {s}) \cup {[s EXCEPT !.is = "ok"]}
      BY <1>8 DEF M!Upsert
    <2>2. [s EXCEPT !.is = "ok"].form = s.form /\ [s EXCEPT !.is = "ok"].text = s.text
      BY DEF M!ComposerTypes, M!Saved
    <2>3. QED
      BY <1>7, <1>8, <2>1, <2>2 DEF M!Upsert
  <1>9. CASE M!SaveFails
    <2>1. PICK s \in s5 : s5' = (s5 \ {s}) \cup {[s EXCEPT !.is = "failed"]}
      BY <1>9 DEF M!SaveFails
    <2>2. [s EXCEPT !.is = "failed"].form = s.form /\ [s EXCEPT !.is = "failed"].text = s.text
      BY DEF M!ComposerTypes, M!Saved
    <2>3. QED
      BY <1>7, <1>9, <2>1, <2>2 DEF M!SaveFails, M!past
  <1>10. CASE M!SaveAnswered
    <2>1. s5' = {}
      BY <1>10 DEF M!SaveAnswered, M!OneSave
    <2>2. QED
      BY <2>1 DEF M!OneSave
  <1>11. QED
    BY <1>1, <1>4, <1>5, <1>6, <1>8, <1>9, <1>10 DEF M!Next

(* Every step keeps a form replacing the review it was opened on.          *)
LEMMA ReviewSeedStep ==
    ASSUME M!ComposerTypes, M!QueryIsFresh, M!OneSave, M!ReplacesItsSeed, M!Next
    PROVE  M!ReplacesItsSeed'
  <1> SUFFICES ASSUME ~s12', ~s11', s8' = 0
               PROVE  M!ReplacesItsSeed'
    BY DEF M!ReplacesItsSeed
  <1>0. s8 = 0 /\ ~M!MineFails /\ ~M!SaveFails /\ ~s12 /\ ~s11
    BY ReviewAssumed DEF M!Next, M!ServeMine, M!MineArrives, M!MineFails, M!Refocus, M!Open, M!Type, M!Dismiss,
       M!Save, M!Upsert, M!SaveAnswered, M!SaveFails, M!past, M!ComposerTypes
  <1>i. /\ s4 # M!Closed /\ s5 = {} => s4.seed = s1
        /\ \A s \in s5 : s.is = "sent" => s.seed = s1
    BY <1>0 DEF M!ReplacesItsSeed
  <1>1. CASE M!ServeMine \/ M!MineArrives \/ M!Refocus
    BY <1>i, <1>1 DEF M!ServeMine, M!MineArrives, M!Refocus, M!ReplacesItsSeed
  <1>2. CASE M!Open
    <2>1. s5 = {} /\ s2 \notin {M!Pending, M!Failed} /\ s3 = M!NoRead
      BY <1>2 DEF M!Open
    <2>2. s2 = s1
      BY <1>0, <2>1 DEF M!QueryIsFresh, M!Fresh
    <2>3. s4'.seed = s1 /\ s5' = {} /\ s1' = s1
      BY <1>2, <2>1, <2>2 DEF M!Open, M!Existing
    <2>4. QED
      BY <2>3 DEF M!ReplacesItsSeed
  <1>3. CASE M!Type
    <2>1. s4 # M!Closed /\ s4'.seed = s4.seed /\ UNCHANGED <<s1, s5>>
      BY <1>3 DEF M!Type, M!ComposerTypes
    <2>2. QED
      BY <1>i, <2>1 DEF M!ReplacesItsSeed
  <1>4. CASE M!Dismiss
    BY <1>i, <1>4 DEF M!Dismiss, M!ReplacesItsSeed
  <1>5. CASE M!Save
    <2>1. s4 # M!Closed /\ s5 = {}
      BY <1>0, <1>5 DEF M!Save, M!OneSave, M!Closed
    <2>2. PICK t : t = [form |-> s4.no, seed |-> s4.seed, text |-> s4.text, is |-> "sent"]
      OBVIOUS
    <2>3. s5' = {t} /\ s1' = s1 /\ t.seed = s4.seed
      BY <1>5, <2>1, <2>2 DEF M!Save
    <2>4. QED
      BY <1>i, <2>1, <2>3 DEF M!ReplacesItsSeed
  <1>6. CASE M!Upsert
    <2>1. PICK s \in s5 : s5' = (s5 \ {s}) \cup {[s EXCEPT !.is = "ok"]}
      BY <1>6 DEF M!Upsert
    <2>2. [s EXCEPT !.is = "ok"].is = "ok"
      BY DEF M!ComposerTypes, M!Saved
    <2>3. \A t \in s5' : t.is = "ok"
      BY <1>0, <2>1, <2>2 DEF M!OneSave
    <2>4. s5' # {}
      BY <2>1
    <2>5. QED
      BY <2>3, <2>4 DEF M!ReplacesItsSeed
  <1>7. CASE M!SaveAnswered
    <2>1. PICK s \in s5 : s.is # "sent" /\ s5' = s5 \ {s} /\ s4' = M!FormAfter(s)
      BY <1>7 DEF M!SaveAnswered
    <2>2. s.is = "ok"
      BY <1>0, <2>1 DEF M!QueryIsFresh, M!ComposerTypes, M!Saved
    <2>3. s4' = M!Closed /\ s5' = {}
      BY <1>0, <2>1, <2>2 DEF M!FormAfter, M!OneSave
    <2>4. QED
      BY <2>3 DEF M!ReplacesItsSeed
  <1>8. QED
    BY <1>0, <1>1, <1>2, <1>3, <1>4, <1>5, <1>6, <1>7 DEF M!Next

(* Every step that replaces a review unseen notes why.                     *)
LEMMA ReviewPastStep ==
    ASSUME M!ComposerInv, M!Next
    PROVE  (s9' => s11' \/ s12' \/ s8' > 0) /\ (s10' => s12')
  <1>0. /\ M!ComposerTypes /\ M!OneSave /\ M!ReplacesItsSeed
        /\ s9 => s11 \/ s12 \/ s8 > 0
        /\ s10 => s12
    BY DEF M!ComposerInv
  <1>1. (s11 => s11') /\ (s12 => s12') /\ (s8 > 0 => s8' > 0)
    BY <1>0, ReviewAssumed DEF M!Next, M!ServeMine, M!MineArrives, M!MineFails, M!Refocus, M!Open, M!Type, M!Dismiss,
       M!Save, M!Upsert, M!SaveAnswered, M!SaveFails, M!past, M!ComposerTypes
  <1>2. CASE M!Upsert
    <2>1. PICK s \in s5 : s.is = "sent" /\ s9' = (s9 \/ s1 \notin {0, s.seed, s.text})
      BY <1>2 DEF M!Upsert
    <2>2. ~s12 /\ ~s11 /\ s8 = 0 => s.seed = s1
      BY <1>0, <2>1 DEF M!ReplacesItsSeed
    <2>3. s8 \in Nat /\ s10' = s10
      BY <1>0, <1>2, ReviewAssumed DEF M!ComposerTypes, M!Upsert
    <2>4. s9' => s11' \/ s12' \/ s8' > 0
      <3>1. CASE s9
        BY <1>0, <1>1, <3>1
      <3>2. CASE ~s9
        <4>1. s9' => s1 # s.seed
          BY <2>1, <3>2
        <4>2. s8 # 0 => s8 > 0
          BY <2>3
        <4>3. QED
          BY <1>1, <2>2, <4>1, <4>2
      <3>3. QED
        BY <3>1, <3>2
    <2>5. QED
      BY <1>0, <1>1, <2>3, <2>4
  <1>3. CASE M!SaveAnswered
    <2>1. PICK s \in s5 :
            /\ s.is # "sent" /\ s4' = M!FormAfter(s)
            /\ s10' = (s10 \/ (s4' = M!Closed /\ s4.text # s4.seed
                               /\ ~(s.is = "ok" /\ s4.text = s.text)))
      BY <1>3 DEF M!SaveAnswered
    <2>2. s9' = s9 /\ s12' = s12
      BY <1>3 DEF M!SaveAnswered
    <2>3. ASSUME ~s12, s4' = M!Closed, s4.text # s4.seed
          PROVE  s.is = "ok" /\ s4.text = s.text
      <3>1. s4 # M!Closed
        BY <2>3 DEF M!Closed
      <3>2. s4.text = s.text /\ s4.no \in 1 .. MaxForms
        BY <1>0, <2>3, <3>1 DEF M!OneSave, M!ComposerTypes
      <3>3. s.is # "ok" => s4'.no \in 1 .. MaxForms
        BY <1>0, <2>1, <3>1, <3>2 DEF M!FormAfter, M!ComposerTypes
      <3>4. s4'.no = 0
        BY <2>3 DEF M!Closed
      <3>5. QED
        BY <3>2, <3>3, <3>4
    <2>4. s10' => s12
      BY <1>0, <2>1, <2>3
    <2>5. QED
      BY <1>0, <1>1, <2>2, <2>4
  <1>4. CASE UNCHANGED <<s9, s10>>
    BY <1>0, <1>1, <1>4
  <1>5. QED
    BY <1>2, <1>3, <1>4 DEF M!Next, M!ServeMine, M!MineArrives, M!MineFails, M!Refocus, M!Open, M!Type, M!Dismiss,
       M!Save, M!SaveFails, M!past

(* They hold at first, ...                                                 *)
LEMMA ReviewInit ==
    ASSUME M!Init
    PROVE  M!ComposerInv
  <1>1. s1 \in 0 .. MaxTexts /\ s7 \in 0 .. MaxTexts /\ s8 \in 0 .. MaxErrors /\ s6 \in 0 .. MaxForms
    BY ReviewAssumed DEF M!Init
  <1>2. M!ComposerTypes
    BY <1>1 DEF M!Init, M!ComposerTypes
  <1>3. M!QueryIsFresh /\ M!OneSave /\ M!ReplacesItsSeed
    BY DEF M!Init, M!QueryIsFresh, M!OneSave, M!ReplacesItsSeed, M!Pending, M!Failed, M!NoRead, M!Asked
  <1>4. QED
    BY <1>2, <1>3 DEF M!Init, M!ComposerInv

(* ... every step keeps them, ...                                          *)
LEMMA ReviewStep ==
    ASSUME M!ComposerInv, M!Next
    PROVE  M!ComposerInv'
  <1>1. M!ComposerTypes /\ M!QueryIsFresh /\ M!OneSave /\ M!ReplacesItsSeed
    BY DEF M!ComposerInv
  <1>2. M!ComposerTypes' /\ M!QueryIsFresh' /\ M!OneSave' /\ M!ReplacesItsSeed'
    BY <1>1, ReviewTypesStep, ReviewFreshStep, ReviewOneStep, ReviewSeedStep
  <1>3. QED
    BY <1>2, ReviewPastStep DEF M!ComposerInv

(* ... so does a step of nothing, ...                                      *)
LEMMA ReviewStays ==
    ASSUME M!ComposerInv, UNCHANGED <<s1, s2, s3, s4, s5, s6, s7, s8, s9, s10, s11, s12>>
    PROVE  M!ComposerInv'
  BY DEF M!ComposerInv, M!ComposerTypes, M!QueryIsFresh, M!Fresh, M!OneSave, M!ReplacesItsSeed

(* ... and they say what the composer promises.                            *)
LEMMA ReviewHolds ==
    ASSUME M!ComposerInv
    PROVE  M!TypeOK /\ M!ReviewIsKept
  <1>1. /\ M!ComposerTypes /\ M!QueryIsFresh
        /\ s9 => s11 \/ s12 \/ s8 > 0
        /\ s10 => s12
    BY DEF M!ComposerInv
  <1>2. s4 \in [no : 0 .. MaxForms, seed : 0 .. MaxTexts, text : 0 .. MaxTexts, saving : BOOLEAN]
    <2>1. CASE s4 = M!Closed
      BY <2>1, ReviewAssumed DEF M!Closed
    <2>2. CASE s4 # M!Closed
      BY <1>1, <2>2, ReviewAssumed DEF M!ComposerTypes
    <2>3. QED
      BY <2>1, <2>2
  <1>3. \A s \in s5 : s.form \in 1 .. MaxForms /\ s.is \in {"sent", "ok", "failed"}
    BY <1>1 DEF M!ComposerTypes, M!Saved
  <1>4. s7 <= MaxTexts /\ s8 <= MaxErrors
    BY <1>1, ReviewAssumed DEF M!ComposerTypes
  <1>5. M!TypeOK
    BY <1>1, <1>2, <1>3, <1>4 DEF M!TypeOK, M!ComposerTypes
  <1>6. s5 = {} /\ s3 = M!NoRead /\ s8 = 0 /\ s2 # M!Pending => s2 = s1
    BY <1>1 DEF M!QueryIsFresh, M!Fresh
  <1>7. QED
    BY <1>1, <1>5, <1>6 DEF M!ReviewIsKept

-----------------------------------------------------------------------------
(* The pages together: the invariant of the one that is open holds at      *)
(* first, ...                                                              *)
LEMMA SocialBegin ==
    ASSUME PagesInit \/ page \notin Pages
    PROVE  SocialInv
  <1>1. CASE page = "room" /\ R!Init
    <2>1. R!RoomInv
      BY <1>1, RoomInit
    <2>2. QED
      BY <1>1, <2>1 DEF SocialInv
  <1>2. CASE page = "shield" /\ S!Init
    <2>1. S!TypeOK
      BY <1>2, ShieldInit
    <2>2. QED
      BY <1>2, <2>1 DEF SocialInv
  <1>3. CASE page = "reactions" /\ Z!Init
    <2>1. Z!BarInv
      BY <1>3, BarInit
    <2>2. QED
      BY <1>3, <2>1 DEF SocialInv
  <1>4. CASE page = "friends" /\ B!Init
    <2>1. B!FriendInv
      BY <1>4, FriendInit
    <2>2. QED
      BY <1>4, <2>1 DEF SocialInv
  <1>5. CASE page = "messages" /\ C!Init
    <2>1. C!ConversationInv
      BY <1>5, ConversationInit
    <2>2. QED
      BY <1>5, <2>1 DEF SocialInv
  <1>6. CASE page = "bell" /\ N!Init
    <2>1. N!BellInv
      BY <1>6, BellInit
    <2>2. QED
      BY <1>6, <2>1 DEF SocialInv
  <1>7. CASE page = "vote" /\ K!Init
    <2>1. K!VoteInv
      BY <1>7, VoteInit
    <2>2. QED
      BY <1>7, <2>1 DEF SocialInv
  <1>8. CASE page = "review" /\ M!Init
    <2>1. M!ComposerInv
      BY <1>8, ReviewInit
    <2>2. QED
      BY <1>8, <2>1 DEF SocialInv
  <1>9. CASE page \notin {"room", "shield", "reactions", "friends", "messages",
                       "bell", "vote", "review"}
    BY <1>9 DEF SocialInv
  <1>10. QED
    BY <1>1, <1>2, <1>3, <1>4, <1>5, <1>6, <1>7, <1>8, <1>9 DEF PagesInit, Pages

(* ... every step of that page keeps it, and a step of another page leaves *)
(* these closed, ...                                                       *)
LEMMA SocialStep ==
    ASSUME SocialInv, PagesNext \/ (page \notin Pages /\ page' = page)
    PROVE  SocialInv'
  <1>1. CASE page = "room" /\ R!Next /\ page' = page
    <2>1. R!RoomInv
      BY <1>1 DEF SocialInv
    <2>2. R!RoomInv'
      BY <1>1, <2>1, RoomStep
    <2>3. QED
      BY <1>1, <2>2 DEF SocialInv
  <1>2. CASE page = "shield" /\ S!Next /\ page' = page
    <2>1. S!TypeOK
      BY <1>2 DEF SocialInv
    <2>2. S!TypeOK'
      BY <1>2, <2>1, ShieldStep
    <2>3. QED
      BY <1>2, <2>2 DEF SocialInv
  <1>3. CASE page = "reactions" /\ Z!Next /\ page' = page
    <2>1. Z!BarInv
      BY <1>3 DEF SocialInv
    <2>2. Z!BarInv'
      BY <1>3, <2>1, BarStep
    <2>3. QED
      BY <1>3, <2>2 DEF SocialInv
  <1>4. CASE page = "friends" /\ B!Next /\ page' = page
    <2>1. B!FriendInv
      BY <1>4 DEF SocialInv
    <2>2. B!FriendInv'
      BY <1>4, <2>1, FriendStep
    <2>3. QED
      BY <1>4, <2>2 DEF SocialInv
  <1>5. CASE page = "messages" /\ C!Next /\ page' = page
    <2>1. C!ConversationInv
      BY <1>5 DEF SocialInv
    <2>2. C!ConversationInv'
      BY <1>5, <2>1, ConversationStep
    <2>3. QED
      BY <1>5, <2>2 DEF SocialInv
  <1>6. CASE page = "bell" /\ N!Next /\ page' = page
    <2>1. N!BellInv
      BY <1>6 DEF SocialInv
    <2>2. N!BellInv'
      BY <1>6, <2>1, BellStep
    <2>3. QED
      BY <1>6, <2>2 DEF SocialInv
  <1>7. CASE page = "vote" /\ K!Next /\ page' = page
    <2>1. K!VoteInv
      BY <1>7 DEF SocialInv
    <2>2. K!VoteInv'
      BY <1>7, <2>1, VoteStep
    <2>3. QED
      BY <1>7, <2>2 DEF SocialInv
  <1>8. CASE page = "review" /\ M!Next /\ page' = page
    <2>1. M!ComposerInv
      BY <1>8 DEF SocialInv
    <2>2. M!ComposerInv'
      BY <1>8, <2>1, ReviewStep
    <2>3. QED
      BY <1>8, <2>2 DEF SocialInv
  <1>9. CASE page' = page /\ page \notin {"room", "shield", "reactions", "friends", "messages",
                       "bell", "vote", "review"}
    BY <1>9 DEF SocialInv
  <1>10. QED
    BY <1>1, <1>2, <1>3, <1>4, <1>5, <1>6, <1>7, <1>8, <1>9 DEF PagesNext, Pages

(* ... and so does a step that changes nothing.                            *)
LEMMA SocialStay ==
    ASSUME SocialInv, UNCHANGED allVars
    PROVE  SocialInv'
  <1>0. UNCHANGED <<page, s1, s2, s3, s4, s5, s6, s7, s8, s9, s10, s11, s12, s13>>
    BY DEF allVars
  <1>1. page = "room" => R!RoomInv'
    BY <1>0, RoomStays DEF SocialInv
  <1>2. page = "shield" => S!TypeOK'
    BY <1>0, ShieldStays DEF SocialInv
  <1>3. page = "reactions" => Z!BarInv'
    BY <1>0, BarStays DEF SocialInv
  <1>4. page = "friends" => B!FriendInv'
    BY <1>0, FriendStays DEF SocialInv
  <1>5. page = "messages" => C!ConversationInv'
    BY <1>0, ConversationStays DEF SocialInv
  <1>6. page = "bell" => N!BellInv'
    BY <1>0, BellStays DEF SocialInv
  <1>7. page = "vote" => K!VoteInv'
    BY <1>0, VoteStays DEF SocialInv
  <1>8. page = "review" => M!ComposerInv'
    BY <1>0, ReviewStays DEF SocialInv
  <1>9. QED
    BY <1>0, <1>1, <1>2, <1>3, <1>4, <1>5, <1>6, <1>7, <1>8 DEF SocialInv

(* So the open page keeps its invariant, whatever the others do.           *)
THEOREM SocialKeep == PagesSpec => []SocialInv
  <1>1. PagesInit \/ page \notin Pages => SocialInv
    BY SocialBegin
  <1>2. SocialInv /\ [PagesNext \/ (page \notin Pages /\ page' = page)]_allVars => SocialInv'
    BY SocialStep, SocialStay
  <1>3. QED
    BY <1>1, <1>2, PTL DEF PagesSpec

(* A thread's pill counts the comments held back and a text is posted      *)
(* once, the blur is lifted by nothing but a progress that is known, and   *)
(* the reactions settle on what is stored.                                 *)
THEOREM ThreadsAreHonest == PagesSpec => []ThreadHonest
  <1>1. ASSUME SocialInv
        PROVE  ThreadHonest
    <2>1. page = "room" => R!RoomIsHonest
      BY <1>1, RoomHolds DEF SocialInv
    <2>2. page = "shield" => S!BlurHolds
      BY <1>1, ShieldHolds DEF SocialInv
    <2>3. page = "reactions" => Z!BarIsHonest
      BY <1>1, BarHolds DEF SocialInv
    <2>4. QED
      BY <2>1, <2>2, <2>3 DEF ThreadHonest
  <1>2. SocialInv => ThreadHonest
    BY <1>1
  <1>3. QED
    BY <1>2, SocialKeep, PTL

(* Friends are friends by both their wills, what is shown counts as read,  *)
(* the bell counts what is unread, a helpful vote counts once, and no      *)
(* review is replaced unseen.                                              *)
THEOREM SocialIsHonest == PagesSpec => []SocialHonest
  <1>1. ASSUME SocialInv
        PROVE  SocialHonest
    <2>1. page = "friends" => B!ConsentIsMutual
      BY <1>1, FriendHolds DEF SocialInv
    <2>2. page = "messages" => C!ReadIsCleared
      BY <1>1, ConversationHolds DEF SocialInv
    <2>3. page = "bell" => N!BellIsHonest
      BY <1>1, BellHolds DEF SocialInv
    <2>4. page = "vote" => K!VoteIsHonest
      BY <1>1, VoteHolds DEF SocialInv
    <2>5. page = "review" => M!ReviewIsKept
      BY <1>1, ReviewHolds DEF SocialInv
    <2>6. QED
      BY <2>1, <2>2, <2>3, <2>4, <2>5 DEF SocialHonest
  <1>2. SocialInv => SocialHonest
    BY <1>1
  <1>3. QED
    BY <1>2, SocialKeep, PTL
=============================================================================
