------------------------------ MODULE WebPages ------------------------------
(***************************************************************************)
(* The pages on which the viewer writes something: a show on the list and  *)
(* the ways onto it, a thread's room, its blur and its reactions, friends, *)
(* messages, notifications, votes and reviews.  They share no state with   *)
(* one another and are set side by side: a behaviour opens one of them and *)
(* stays on it.  A page has the slots it has variables for and leaves the  *)
(* others unused.                                                          *)
(***************************************************************************)
EXTENDS Integers, Sequences, FiniteSets
CONSTANTS
    Total, MaxMade, MaxVisits, MaxFails, MaxToggles, MaxRefusals, Others,
    Drafts, Sends, Refusals, Comments, Marked, Episode, MaxJobs, MaxLost,
    Titles, MostRows, Chunk, MaxVerbs, MaxMisses, PageSize, MaxMsgs,
    MaxDrops, PanelLimit, MaxNotes, MaxMarks, MaxLosses, Catalog, MaxTyping,
    MaxPicks, MaxMissed, Voters, MaxPushes, MaxBroken, MaxTexts, MaxForms,
    MaxErrors, Emoji, Crowd, MaxTaps, MaxCrowd, MaxMishaps

VARIABLES
    page,   \* the page that is open
    s1, s2, s3, s4, s5, s6, s7, s8, s9, s10, s11, s12, s13

allVars == <<page, s1, s2, s3, s4, s5, s6, s7, s8, s9, s10, s11, s12, s13>>

T == INSTANCE Tracker WITH
    row <- s1, query <- s2, muts <- s3, view <- s4, form <- s5, causes <- s6,
    visits <- s7, made <- s8, failed <- s9
H == INSTANCE Heart WITH
    fav <- s1, heart <- s2, toggles <- s3, switch <- s4, saving <- s5,
    crossed <- s6, toggled <- s7, refused <- s8
R == INSTANCE ThreadRoom WITH
    thread <- s1, shown <- s2, sort <- s3, atEdge <- s4, newCount <- s5,
    unread <- s6, draft <- s7, typed <- s8, posting <- s9, posts <- s10,
    repeated <- s11, sent <- s12, fails <- s13
S == INSTANCE SpoilerShield WITH
    session <- s1, watched <- s2, entry <- s3, revealed <- s4, opened <- s5
F == INSTANCE ImportFlow WITH
    jobs <- s1, slot <- s2, on <- s3, read <- s4, starting <- s5,
    applying <- s6, mine <- s7, lost <- s8
P == INSTANCE ImportPreview WITH
    rows <- s1, list <- s2, picks <- s3, mode <- s4, chunks <- s5,
    picker <- s6, found <- s7, outcome <- s8
B == INSTANCE Friendship WITH
    request <- s1, friends <- s2, follows <- s3, call <- s4, wants <- s5,
    relation <- s6, overview <- s7, asked <- s8, pressed <- s9, misses <- s10
C == INSTANCE Conversation WITH
    sender <- s1, pointer <- s2, bubbles <- s3, visible <- s4, marks <- s5,
    badge <- s6, composer <- s7, seen <- s8, unsure <- s9
N == INSTANCE Notifications WITH
    notes <- s1, query <- s2, surface <- s3, shown <- s4, marks <- s5,
    drawn <- s6, swept <- s7, doubt <- s8, marked <- s9, losses <- s10
O == INSTANCE Onboarding WITH
    onList <- s1, tab <- s2, typed <- s3, query <- s4, search <- s5,
    drawnFrom <- s6, picked <- s7, seed <- s8, said <- s9, at <- s10,
    spent <- s11
K == INSTANCE HelpfulVote WITH
    mineStored <- s1, countStored <- s2, voted <- s3, count <- s4, busy <- s5,
    call <- s6, wanted <- s7, lost <- s8, pushes <- s9, broken <- s10
M == INSTANCE ReviewComposer WITH
    review <- s1, mine <- s2, reading <- s3, form <- s4, saves <- s5,
    forms <- s6, texts <- s7, errors <- s8, unseen <- s9, gone <- s10,
    blindly <- s11, early <- s12
Z == INSTANCE ReactionBar WITH
    mine <- s1, others <- s2, shown <- s3, reading <- s4, counted <- s5,
    frames <- s6, calls <- s7, burst <- s8, stale <- s9, wasted <- s10,
    taps <- s11, crowd <- s12, mishaps <- s13

ASSUME PagesAssumption ==
    /\ T!TrackerAssumption
    /\ H!HeartAssumption
    /\ R!RoomAssumption
    /\ S!ShieldAssumption
    /\ F!FlowAssumption
    /\ P!PreviewAssumption
    /\ B!FriendAssumption
    /\ C!ConversationAssumption
    /\ N!NotificationsAssumption
    /\ O!OnboardingAssumption
    /\ K!VoteAssumption
    /\ M!ComposerAssumption
    /\ Z!ReactionAssumption

Unused == "unused"

PagesInit ==
    \/ page = "tracker" /\ T!Init
          /\ s10 = Unused /\ s11 = Unused /\ s12 = Unused /\ s13 = Unused
    \/ page = "heart" /\ H!Init
          /\ s9 = Unused /\ s10 = Unused /\ s11 = Unused /\ s12 = Unused
          /\ s13 = Unused
    \/ page = "room" /\ R!Init
    \/ page = "shield" /\ S!Init
          /\ s6 = Unused /\ s7 = Unused /\ s8 = Unused /\ s9 = Unused
          /\ s10 = Unused /\ s11 = Unused /\ s12 = Unused /\ s13 = Unused
    \/ page = "flow" /\ F!Init
          /\ s9 = Unused /\ s10 = Unused /\ s11 = Unused /\ s12 = Unused
          /\ s13 = Unused
    \/ page = "preview" /\ P!Init
          /\ s9 = Unused /\ s10 = Unused /\ s11 = Unused /\ s12 = Unused
          /\ s13 = Unused
    \/ page = "friends" /\ B!Init
          /\ s11 = Unused /\ s12 = Unused /\ s13 = Unused
    \/ page = "messages" /\ C!Init
          /\ s10 = Unused /\ s11 = Unused /\ s12 = Unused /\ s13 = Unused
    \/ page = "bell" /\ N!Init
          /\ s11 = Unused /\ s12 = Unused /\ s13 = Unused
    \/ page = "welcome" /\ O!Init
          /\ s12 = Unused /\ s13 = Unused
    \/ page = "vote" /\ K!Init
          /\ s11 = Unused /\ s12 = Unused /\ s13 = Unused
    \/ page = "review" /\ M!Init
          /\ s13 = Unused
    \/ page = "reactions" /\ Z!Init

PagesNext ==
    \/ page = "tracker" /\ T!Next /\ UNCHANGED <<page, s10, s11, s12, s13>>
    \/ page = "heart" /\ H!Next /\ UNCHANGED <<page, s9, s10, s11, s12, s13>>
    \/ page = "room" /\ R!Next /\ UNCHANGED <<page>>
    \/ page = "shield" /\ S!Next /\ UNCHANGED <<page, s6, s7, s8, s9, s10,
                                                s11, s12, s13>>
    \/ page = "flow" /\ F!Next /\ UNCHANGED <<page, s9, s10, s11, s12, s13>>
    \/ page = "preview" /\ P!Next /\ UNCHANGED <<page, s9, s10, s11, s12, s13>>
    \/ page = "friends" /\ B!Next /\ UNCHANGED <<page, s11, s12, s13>>
    \/ page = "messages" /\ C!Next /\ UNCHANGED <<page, s10, s11, s12, s13>>
    \/ page = "bell" /\ N!Next /\ UNCHANGED <<page, s11, s12, s13>>
    \/ page = "welcome" /\ O!Next /\ UNCHANGED <<page, s12, s13>>
    \/ page = "vote" /\ K!Next /\ UNCHANGED <<page, s11, s12, s13>>
    \/ page = "review" /\ M!Next /\ UNCHANGED <<page, s13>>
    \/ page = "reactions" /\ Z!Next /\ UNCHANGED <<page>>

(* These pages among any others, which may do what they like with the      *)
(* slots but stay themselves.                                              *)
Pages == {"tracker", "heart", "room", "shield", "flow", "preview", "friends",
          "messages", "bell", "welcome", "vote", "review", "reactions"}

PagesSpec ==
    /\ PagesInit \/ page \notin Pages
    /\ [][PagesNext \/ (page \notin Pages /\ page' = page)]_allVars

-----------------------------------------------------------------------------
(* Every page's variables have their types.                                *)
PagesTypeOK ==
    /\ page = "tracker" => T!TypeOK
    /\ page = "heart" => H!TypeOK
    /\ page = "room" => R!TypeOK
    /\ page = "shield" => S!TypeOK
    /\ page = "flow" => F!TypeOK
    /\ page = "preview" => P!TypeOK
    /\ page = "friends" => B!TypeOK
    /\ page = "messages" => C!TypeOK
    /\ page = "bell" => N!TypeOK
    /\ page = "welcome" => O!TypeOK
    /\ page = "vote" => K!TypeOK
    /\ page = "review" => M!TypeOK
    /\ page = "reactions" => Z!TypeOK

(* The viewer's list: what a page shows of it once nothing is in flight is *)
(* what is stored (the tracker's ways of raising an episode, its list and  *)
(* its editor, the favourite's heart); and the ways onto it say what they  *)
(* did: no import waits for ever or is forgotten, its summary counts what  *)
(* a commit writes, and the first picks are counted as they were written.  *)
ListsHonest ==
    /\ page = "tracker" => T!ScreensSettle
    /\ page = "heart" => H!HeartIsTrue
    /\ page = "flow" => F!SpinnersEnd /\ F!NothingStranded
    /\ page = "preview" => P!SummaryIsHonest
    /\ page = "welcome" => O!SeedIsHonest

(* A thread's page says what it has: the pill, the composer, the blur and  *)
(* the reactions below a comment.                                          *)
ThreadHonest ==
    /\ page = "room" => R!RoomIsHonest
    /\ page = "shield" => S!BlurHolds
    /\ page = "reactions" => Z!BarIsHonest

(* Friends are friends by both their wills, what was read counts as read,  *)
(* the bell counts what is not, a helpful vote counts once, and a review   *)
(* is not replaced unseen.                                                 *)
SocialHonest ==
    /\ page = "friends" => B!ConsentIsMutual
    /\ page = "messages" => C!ReadIsCleared
    /\ page = "bell" => N!BellIsHonest
    /\ page = "vote" => K!VoteIsHonest
    /\ page = "review" => M!ReviewIsKept

(* A tap on +1 or Watched lowers the progress of a show only after a press *)
(* on a screen that was being read again, or where screens may not settle. *)
TapsRaise == [][page = "tracker" => T!TapRaises]_allVars

(* What these rest on: the invariant of the page that is open.             *)
ListsInv ==
    /\ page = "tracker" => T!TrackerInv
    /\ page = "heart" => H!HeartInv
    /\ page = "flow" => F!FlowInv
    /\ page = "preview" => P!PreviewInv
    /\ page = "welcome" => O!SeedInv

SocialInv ==
    /\ page = "room" => R!RoomInv
    /\ page = "shield" => S!TypeOK
    /\ page = "reactions" => Z!BarInv
    /\ page = "friends" => B!FriendInv
    /\ page = "messages" => C!ConversationInv
    /\ page = "bell" => N!BellInv
    /\ page = "vote" => K!VoteInv
    /\ page = "review" => M!ComposerInv
=============================================================================
