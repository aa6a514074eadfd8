---------------------------- MODULE HelpfulVote ----------------------------
(***************************************************************************)
(* The "Helpful" button of a review (components/reviews/review-card.tsx):  *)
(* it flips before the server has answered, takes the answer's word, and   *)
(* flips back when there is none.  The server counts in                    *)
(* internal/reviews/service.go.                                            *)
(***************************************************************************)
EXTENDS Integers

CONSTANTS
    Voters,     \* other people who may vote (how many)
    MaxPushes,  \* presses of the button (bound)
    MaxBroken   \* calls refused, or whose answer is lost (bound)

(* What is assumed of them.                                                *)
VoteAssumption == Voters \in Nat /\ MaxPushes \in Nat /\ MaxBroken \in Nat

VARIABLES
    mineStored, \* the viewer's vote, as stored
    countStored,\* helpful_count, as stored
    voted,      \* the button: its state,
    count,      \* its count,
    busy,       \* and whether it is disabled
    call,       \* the call: "none", "asked", or what the server answered
    wanted,     \* the vote it asks for
    lost,       \* history: an answer was lost after the server had counted
    pushes, broken

stored == <<mineStored, countStored>>
button == <<voted, count, busy>>
voteVars == <<stored, button, call, wanted, lost, pushes, broken>>

None == [is |-> "none"]
Asked == [is |-> "asked"]
One(v) == IF v THEN 1 ELSE 0

(* The button starts as the list it is drawn from was read.                *)
Init ==
    /\ mineStored \in BOOLEAN /\ countStored \in One(mineStored) .. Voters + One(mineStored)
    /\ voted = mineStored /\ count = countStored /\ busy = FALSE
    /\ call = None /\ wanted = FALSE /\ lost = FALSE /\ pushes = 0 /\ broken = 0

(* The optimistic flip.  The button is dead until its call has ended.      *)
Toggle ==
    /\ ~busy /\ pushes < MaxPushes /\ pushes' = pushes + 1
    /\ busy' = TRUE /\ wanted' = ~voted /\ call' = Asked
    /\ voted' = ~voted /\ count' = count + IF voted THEN -1 ELSE 1
    /\ UNCHANGED <<stored, lost, broken>>

(* A fault TypeOK must notice: a vote that is there is counted again.      *)
SetHelpfulTwice ==
    /\ call = Asked /\ mineStored' = wanted
    /\ countStored' = countStored + IF wanted THEN 1 ELSE -1
    /\ call' = [is |-> "ok", voted |-> wanted, count |-> countStored']
    /\ UNCHANGED <<button, wanted, lost, pushes, broken>>

(* The server counts a vote that was not there, and only that.             *)
SetHelpful ==
    /\ call = Asked /\ mineStored' = wanted
    /\ countStored' = countStored + One(wanted) - One(mineStored)
    /\ call' = [is |-> "ok", voted |-> wanted, count |-> countStored']
    /\ UNCHANGED <<button, wanted, lost, pushes, broken>>

(* A fault SocialHonest must notice: the count is not put back.            *)
RollBackHalf == voted' = ~wanted /\ UNCHANGED count

RollBack == voted' = ~wanted /\ count' = count + IF wanted THEN -1 ELSE 1

Refused ==
    /\ call = Asked /\ broken < MaxBroken /\ broken' = broken + 1
    /\ call' = [is |-> "failed"] /\ UNCHANGED <<stored, button, wanted, lost, pushes>>

AnswerLost ==
    /\ call.is = "ok" /\ broken < MaxBroken /\ broken' = broken + 1
    /\ call' = [is |-> "failed"] /\ lost' = TRUE
    /\ UNCHANGED <<stored, button, wanted, pushes>>

(* The answer is authoritative.                                            *)
Answered ==
    /\ call.is \in {"ok", "failed"} /\ busy' = FALSE /\ call' = None
    /\ IF call.is = "ok" THEN voted' = call.voted /\ count' = call.count /\ lost' = FALSE
       ELSE RollBack /\ UNCHANGED lost
    /\ UNCHANGED <<stored, wanted, pushes, broken>>

OthersVote ==
    /\ countStored' \in {countStored - 1, countStored + 1}
    /\ countStored' - One(mineStored) \in 0 .. Voters
    /\ UNCHANGED <<mineStored, button, call, wanted, lost, pushes, broken>>

Next == Toggle \/ SetHelpful \/ Refused \/ AnswerLost \/ Answered \/ OthersVote

Spec == Init /\ [][Next]_voteVars

-----------------------------------------------------------------------------
(* Every variable has its type.                                            *)
TypeOK ==
    /\ mineStored \in BOOLEAN /\ countStored \in 0 .. Voters + 1
    /\ voted \in BOOLEAN /\ count \in -1 .. Voters + 2 /\ busy \in BOOLEAN
    /\ call.is \in {"none", "asked", "ok", "failed"} /\ wanted \in BOOLEAN /\ lost \in BOOLEAN
    /\ pushes <= MaxPushes /\ broken <= MaxBroken

(* A button at rest shows the viewer's vote as it is stored, unless an     *)
(* answer was lost and not pressed again since; its count has that vote in *)
(* it, and what the others have is what they had once: none of theirs is   *)
(* counted twice; and the stored count is never short of the votes.        *)
VoteIsHonest ==
    /\ countStored - One(mineStored) \in 0 .. Voters
    /\ ~busy => /\ ~lost => voted = mineStored
                /\ count - One(voted) \in 0 .. Voters

(* Why it is: the button's count has its own vote in it, whoever flipped   *)
(* it, and a press asks for the opposite of what is stored, unless an      *)
(* answer was lost.                                                        *)
Counts == 0 .. Voters
CallIs ==
    \/ call = None /\ ~busy /\ (~lost => voted = mineStored)
    \/ /\ busy /\ voted = wanted
       /\ \/ call = Asked /\ (~lost => mineStored # wanted)
          \/ call = [is |-> "failed"] /\ (~lost => mineStored # wanted)
          \/ /\ call.is = "ok" /\ call.voted = wanted /\ mineStored = wanted
             /\ call.count - One(wanted) \in Counts /\ call.count \in Int
VoteInv ==
    /\ mineStored \in BOOLEAN /\ voted \in BOOLEAN /\ busy \in BOOLEAN /\ wanted \in BOOLEAN
    /\ lost \in BOOLEAN /\ countStored \in Int /\ count \in Int
    /\ pushes \in 0 .. MaxPushes /\ broken \in 0 .. MaxBroken
    /\ countStored - One(mineStored) \in Counts /\ count - One(voted) \in Counts
    /\ CallIs
=============================================================================
