---------------------------- MODULE ThreadRoom ----------------------------
(***************************************************************************)
(* What a reader of a thread sees and does while comments stream in        *)
(* (components/discussions/thread-view.tsx): the "N new" pill, the edge    *)
(* where comments arrive, the sorts, and the composer.  Which comments are *)
(* loaded is ThreadClient's matter.                                        *)
(***************************************************************************)
EXTENDS Naturals, Sequences, FiniteSets

CONSTANTS
    Others,     \* comments that other people write (bound)
    Drafts,     \* texts the reader writes (bound)
    Sends,      \* posts the reader makes (bound)
    Refusals    \* posts that fail, or whose answer is lost (bound)

(* What is assumed of them.                                                *)
RoomAssumption == Others \in Nat /\ Drafts \in Nat /\ Sends \in Nat /\ Refusals \in Nat

VARIABLES
    thread,     \* the thread's comments in order: [by, text, stamped]
    shown,      \* how many of them the stream has delivered
    sort,       \* the sort in use
    atEdge,     \* atAnchorRef: the arrival edge is in view
    newCount,   \* the pill's count
    unread,     \* history: comments of others the reader was not taken to
                \* and has not been told of since
    draft,      \* the composer: its text (0 is none), its stamp, and
                \* whether it replies to a comment
    typed,      \* texts written so far
    posting,    \* the button's "Posting..."
    posts,      \* posts in flight: [text, stamped, at]
    repeated,   \* history: the keyboard posted while the button was dead, or
                \* an answer was lost
    sent,       \* posts made so far
    fails       \* posts failed so far

roomVars == <<thread, shown, sort, atEdge, newCount, unread, draft, typed, posting, posts,
              repeated, sent, fails>>
reading == <<thread, shown, sort, atEdge, newCount, unread>>
writing == <<draft, typed, posting, posts, repeated, sent, fails>>

Sorts == {"newest", "oldest", "top", "timeline"}
NoDraft == [text |-> 0, stamp |-> "none", reply |-> FALSE]
Shown == 1 .. shown

Init ==
    /\ thread = <<>> /\ shown = 0 /\ sort = "newest" /\ atEdge = TRUE
    /\ newCount = 0 /\ unread = {}
    /\ draft = NoDraft /\ typed = 0 /\ posting = FALSE /\ posts = {}
    /\ repeated = FALSE /\ sent = 0 /\ fails = 0

-----------------------------------------------------------------------------
(* The stream.                                                             *)

OtherPosts ==
    /\ Cardinality({i \in DOMAIN thread : thread[i].by = "other"}) < Others
    /\ thread' = Append(thread, [by |-> "other", text |-> 0, stamped |-> FALSE])
    /\ UNCHANGED <<shown, sort, atEdge, newCount, unread, writing>>

(* A fault RoomIsHonest must notice: whoever is at the edge is following.  *)
FollowingAnySort == atEdge

(* In the date sorts a reader at the edge watches comments stream in.      *)
Following == sort \in {"newest", "oldest"} /\ atEdge

(* onCreated: your own comment is jumped to, and so is the next one of a   *)
(* reader who is following; any other is counted.                          *)
Deliver ==
    LET mine == thread[shown + 1].by = "me"
    IN  /\ shown < Len(thread) /\ shown' = shown + 1
        /\ newCount' = IF mine \/ Following THEN newCount ELSE newCount + 1
        /\ unread' = IF mine \/ (sort \in {"newest", "oldest"} /\ atEdge) THEN unread
                     ELSE unread \cup {shown + 1}
        /\ UNCHANGED <<thread, sort, atEdge, writing>>

(* The edge comes into view or leaves it; in view, the pill is cleared.    *)
SeeEdge(inView) ==
    /\ atEdge' = inView
    /\ newCount' = IF inView THEN 0 ELSE newCount
    /\ unread' = IF inView THEN {} ELSE unread

Scroll == SeeEdge(~atEdge) /\ UNCHANGED <<thread, shown, sort, writing>>

(* Another sort has its edge elsewhere; Timeline is offered when something *)
(* loaded is stamped.                                                      *)
ChangeSort ==
    /\ sort' \in Sorts \ {sort}
    /\ sort' = "timeline" => \E i \in Shown : thread[i].stamped
    /\ \E inView \in BOOLEAN : SeeEdge(inView)
    /\ UNCHANGED <<thread, shown, writing>>

(* The pill: to the comment delivered last, wherever it sorted.            *)
ShowLatest ==
    /\ newCount > 0 /\ newCount' = 0 /\ unread' = {}
    /\ UNCHANGED <<thread, shown, sort, atEdge, writing>>

-----------------------------------------------------------------------------
(* The composer.                                                           *)

TypeText ==
    /\ typed < Drafts /\ typed' = typed + 1 /\ draft' = [draft EXCEPT !.text = typed + 1]
    /\ UNCHANGED <<reading, posting, posts, repeated, sent, fails>>

(* The stamp's field is there unless the draft is a reply.                 *)
TypeStamp ==
    /\ ~draft.reply /\ \E s \in {"none", "good", "bad"} : draft' = [draft EXCEPT !.stamp = s]
    /\ UNCHANGED <<reading, typed, posting, posts, repeated, sent, fails>>

ReplyOrCancel ==
    /\ draft.reply \/ shown > 0
    /\ draft' = [draft EXCEPT !.reply = ~@]
    /\ UNCHANGED <<reading, typed, posting, posts, repeated, sent, fails>>

(* post: a stamp that cannot be read stops it, shown or not.  The button   *)
(* is dead while a post is in flight, Ctrl+Enter is not.                   *)
Post(by) ==
    /\ draft.text # 0 /\ draft.stamp # "bad"
    /\ by = "button" => ~posting
    /\ sent < Sends /\ sent' = sent + 1 /\ posting' = TRUE
    /\ posts' = posts \cup {[n |-> sent, text |-> draft.text,
                             stamped |-> draft.stamp = "good", at |-> "sent"]}
    /\ repeated' = (repeated \/ (by = "keys" /\ posting))
    /\ UNCHANGED <<reading, draft, typed, fails>>

ServePost(p) ==
    /\ p.at = "sent" /\ posts' = (posts \ {p}) \cup {[p EXCEPT !.at = "served"]}
    /\ thread' = Append(thread, [by |-> "me", text |-> p.text, stamped |-> p.stamped])
    /\ UNCHANGED <<shown, sort, atEdge, newCount, unread, draft, typed, posting, repeated, sent, fails>>

(* The composer is emptied, whatever it holds by then; the button is alive *)
(* again, whatever else is in flight.                                      *)
PostAnswered(p) ==
    /\ p.at = "served" /\ posts' = posts \ {p} /\ posting' = FALSE
    /\ draft' = NoDraft
    /\ UNCHANGED <<reading, typed, repeated, sent, fails>>

(* A refusal, or an answer that is lost: the draft stays.                  *)
PostFails(p) ==
    /\ fails < Refusals /\ fails' = fails + 1
    /\ posts' = posts \ {p} /\ posting' = FALSE
    /\ repeated' = (repeated \/ p.at = "served")
    /\ UNCHANGED <<reading, draft, typed, sent>>

Next ==
    \/ OtherPosts \/ Deliver \/ Scroll \/ ChangeSort \/ ShowLatest
    \/ TypeText \/ TypeStamp \/ ReplyOrCancel
    \/ \E by \in {"button", "keys"} : Post(by)
    \/ \E p \in posts : ServePost(p) \/ PostAnswered(p) \/ PostFails(p)

Spec == Init /\ [][Next]_roomVars

-----------------------------------------------------------------------------
(* Every variable has its type, and the pill counts delivered comments.    *)
TypeOK ==
    /\ shown \in 0 .. Len(thread) /\ sort \in Sorts
    /\ newCount \in 0 .. shown /\ unread \subseteq Shown
    /\ draft.text \in 0 .. typed /\ draft.reply \in BOOLEAN

(* The pill is up exactly when there are comments the reader was neither   *)
(* taken to nor told of; and a text is on the thread twice only if the     *)
(* keyboard posted while a post was in flight, or an answer was lost.      *)
RoomIsHonest ==
    /\ newCount = Cardinality(unread)
    /\ ~repeated => \A i, j \in DOMAIN thread :
          thread[i].by = "me" /\ thread[j].by = "me" /\ thread[i].text = thread[j].text => i = j

(* What the variables hold, in full.                                       *)
RoomTypes ==
    /\ thread \in Seq([by : {"me", "other"}, text : Nat, stamped : BOOLEAN])
    /\ shown \in 0 .. Len(thread) /\ sort \in Sorts /\ atEdge \in BOOLEAN /\ unread \subseteq Shown
    /\ typed \in Nat /\ draft \in [text : 0 .. typed, stamp : {"none", "good", "bad"}, reply : BOOLEAN]
    /\ \A p \in posts : p \in [n : Nat, text : 1 .. typed, stamped : BOOLEAN, at : {"sent", "served"}]
    /\ sent \in Nat /\ posting \in BOOLEAN /\ repeated \in BOOLEAN

(* Why a text is on the thread once: one post at a time is in flight, and  *)
(* the draft is a text that is there only until that post is answered.     *)
Mine == {i \in DOMAIN thread : thread[i].by = "me"}
OncePosted ==
    ~repeated =>
        /\ \A p, q \in posts : p = q
        /\ posts # {} => posting
        /\ \A i, j \in Mine : thread[i].text = thread[j].text => i = j
        /\ \A i \in Mine : thread[i].text \in 1 .. typed
        /\ \A i \in Mine : thread[i].text = draft.text =>
              \E p \in posts : p.at = "served" /\ p.text = draft.text
        /\ \A p \in posts : p.at = "sent" => \A i \in Mine : thread[i].text # p.text
Counted == newCount = Cardinality(unread)
RoomInv == RoomTypes /\ Counted /\ OncePosted
=============================================================================
