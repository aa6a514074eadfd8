--------------------------- MODULE PartyLifecycle ---------------------------
(***************************************************************************)
(* The life of a watch party's row and of its presence set: Create's       *)
(* transaction under READ COMMITTED with the one-open-per-host index       *)
(* (internal/parties/service.go, queries/parties.sql), the host's close    *)
(* and the worker's idle sweep (internal/jobs/jobs.go), and what heartbeats*)
(* leave in Redis for the sweep to read.                                   *)
(*                                                                         *)
(* Time is kept as ages in sweep-sized units, saturating at Top.  Sockets  *)
(* enter and are dropped in one step here; PartyGateway has the detail.    *)
(***************************************************************************)
EXTENDS Naturals, FiniteSets

CONSTANTS
    Hosts,
    Creates,        \* tells the Create requests of a host apart
    Users,
    PresenceTTL,    \* presenceTTL (45 s)
    IdleAfter       \* partyIdleAfter (15 min)

ASSUME LifecycleAssumption ==
    /\ PresenceTTL \in Nat /\ IdleAfter \in Nat /\ PresenceTTL < IdleAfter

(* The rows that may come to be: one for each Create of each host.         *)
Parties == Hosts \X Creates
HostOf == [p \in Parties |-> p[1]]

VARIABLES
    row,        \* committed rows
    tx,         \* tx[p]: the Create transaction that inserts p
    made,       \* made[p]: age of the row's created_at
    inside,     \* inside[p]: users with a socket in the room
    score,      \* score[p][u]: age of u's score in the presence set, or Unlisted
    beat,       \* beat[p]: age of the newest heartbeat ever made (history variable)
    closing,    \* closing[p]: CloseParty calls of host requests that are about to run
    sweep       \* the sweeper's task

lifeVars == <<row, tx, made, inside, score, beat, closing, sweep>>

Top == IdleAfter + 1
Unlisted == Top + 1

NoTx == [at |-> "none", seen |-> {}, mine |-> {}]
NoSweep == [at |-> "off", todo |-> {}]

LifeInit ==
    /\ row = [p \in Parties |-> "none"]
    /\ tx = [p \in Parties |-> NoTx]
    /\ made = [p \in Parties |-> 0]
    /\ inside = [p \in Parties |-> {}]
    /\ score = [p \in Parties |-> [u \in Users |-> Unlisted]]
    /\ beat = [p \in Parties |-> Top]
    /\ closing = [p \in Parties |-> FALSE]
    /\ sweep = NoSweep

liveVars == <<made, inside, score, beat>>

----------------------------------------------------------------------------
(* Create.  Rows a transaction has closed but not committed are locked.    *)
SameHost(p) == {q \in Parties : HostOf[q] = HostOf[p]}
Locked(q) == \E p \in Parties : q \in tx[p].mine
Open(q) == row[q] = "open"

(* The UPDATE takes its statement snapshot: the host's open rows.          *)
CreateBegin(p) ==
    /\ tx[p] = NoTx /\ row[p] = "none"
    /\ tx' = [tx EXCEPT ![p] = [@ EXCEPT !.at = "update", !.seen = {q \in SameHost(p) : Open(q)}]]
    /\ UNCHANGED <<row, closing, sweep, liveVars>>

(* It waits for locked rows and skips those closed meanwhile.              *)
CreateClosePrevious(p) ==
    /\ tx[p].at = "update"
    /\ \A q \in tx[p].seen : ~Locked(q)
    /\ tx' = [tx EXCEPT ![p] = [at |-> "insert", seen |-> {}, mine |-> {q \in tx[p].seen : Open(q)}]]
    /\ UNCHANGED <<row, closing, sweep, liveVars>>

(* Faults the properties must notice: no unique index, and an insert that  *)
(* waits for every other transaction of the host.                          *)
CreateInsertUnchecked(p) ==
    /\ tx[p].at = "insert"
    /\ tx' = [tx EXCEPT ![p].at = "commit"]
    /\ UNCHANGED <<row, closing, sweep, liveVars>>

CreateInsertWaits(p) ==
    /\ tx[p].at = "insert"
    /\ \A q \in SameHost(p) \ {p} : tx[q].at \notin {"update", "insert", "commit"}
    /\ tx' = [tx EXCEPT ![p].at = "commit"]
    /\ UNCHANGED <<row, closing, sweep, liveVars>>

(* The INSERT waits for an uncommitted open row of the host; a committed   *)
(* one this transaction did not close violates the unique index.           *)
CreateInsert(p) ==
    LET others == SameHost(p) \ {p}
        conflict == \E q \in others \ tx[p].mine : Open(q)
    IN  /\ tx[p].at = "insert"
        /\ \A q \in others : tx[q].at # "commit"
        /\ tx' = [tx EXCEPT ![p] = IF conflict THEN [NoTx EXCEPT !.at = "violated"]
                                               ELSE [@ EXCEPT !.at = "commit"]]
        /\ UNCHANGED <<row, closing, sweep, liveVars>>

CreateCommit(p) ==
    /\ tx[p].at = "commit"
    /\ row' = [q \in Parties |-> IF q = p THEN "open"
                                 ELSE IF q \in tx[p].mine THEN "closed" ELSE row[q]]
    /\ tx' = [tx EXCEPT ![p] = [NoTx EXCEPT !.at = "done"]]
    /\ made' = [made EXCEPT ![p] = 0]
    /\ UNCHANGED <<inside, score, beat, closing, sweep>>

(* The request is cancelled, or the process dies: the transaction rolls    *)
(* back.                                                                   *)
CreateAbort(p) ==
    /\ tx[p].at \in {"update", "insert", "commit"}
    /\ tx' = [tx EXCEPT ![p] = [NoTx EXCEPT !.at = "aborted"]]
    /\ UNCHANGED <<row, closing, sweep, liveVars>>

----------------------------------------------------------------------------
Listed(p) == {u \in Users : score[p][u] # Unlisted}

(* A join or a heartbeat: the user's score is now, stale members go.       *)
Touch(p, u) ==
    /\ score' = [score EXCEPT ![p] = [v \in Users |->
                    IF v = u THEN 0 ELSE IF @[v] > PresenceTTL THEN Unlisted ELSE @[v]]]
    /\ beat' = [beat EXCEPT ![p] = 0]

Enter(p, u) ==
    /\ Open(p)
    /\ u \notin inside[p]
    /\ inside' = [inside EXCEPT ![p] = @ \cup {u}]
    /\ Touch(p, u)
    /\ UNCHANGED <<row, tx, made, closing, sweep>>

Heartbeat(p, u) ==
    /\ u \in inside[p]
    /\ Touch(p, u)
    /\ UNCHANGED <<row, tx, made, inside, closing, sweep>>

(* An explicit leave or a dropped socket; a dying process leaves the score *)
(* behind.                                                                 *)
Exit(p, u) ==
    /\ u \in inside[p]
    /\ inside' = [inside EXCEPT ![p] = @ \ {u}]
    /\ score' \in {[score EXCEPT ![p][u] = Unlisted], score}
    /\ UNCHANGED <<row, tx, made, beat, closing, sweep>>

Older(a) == IF a < Top THEN a + 1 ELSE a

TimePasses ==
    /\ made' = [p \in Parties |-> Older(made[p])]
    /\ beat' = [p \in Parties |-> Older(beat[p])]
    /\ score' = [p \in Parties |-> [u \in Users |-> Older(score[p][u])]]
    /\ UNCHANGED <<row, tx, inside, closing, sweep>>

----------------------------------------------------------------------------
(* CloseParty: DEL of the live state, and everybody is dropped.            *)
DropLive(p) ==
    /\ score' = [score EXCEPT ![p] = [u \in Users |-> Unlisted]]
    /\ inside' = [inside EXCEPT ![p] = {}]

(* The host's request closes the row if it is open, waiting for a Create   *)
(* that has it locked, and goes on to the live state in any case.          *)
HostClose(p) ==
    /\ row[p] # "none" /\ ~Locked(p)
    /\ ~closing[p]
    /\ row' = [row EXCEPT ![p] = "closed"]
    /\ closing' = [closing EXCEPT ![p] = TRUE]
    /\ UNCHANGED <<tx, sweep, liveVars>>

(* A Redis error, or the end of the process, leaves the live state alone.  *)
HostCloseLive(p) ==
    /\ closing[p]
    /\ closing' = [closing EXCEPT ![p] = FALSE]
    /\ DropLive(p) \/ UNCHANGED <<score, inside>>
    /\ UNCHANGED <<row, tx, made, beat, sweep>>

(* The sweep lists the open rows once and then takes one after another.    *)
SweepList ==
    /\ sweep.at = "off"
    /\ \E p \in Parties : Open(p)
    /\ sweep' = [at |-> "next", todo |-> {p \in Parties : Open(p)}]
    /\ UNCHANGED <<row, tx, closing, liveVars>>

MinOf(S) == CHOOSE a \in S : \A b \in S : a <= b

(* A fault AbandonedRoomsClose must notice: a room nobody ever joined has  *)
(* no last heartbeat, and is taken for a room seen just now.               *)
LastSeenNow(p) == IF Listed(p) = {} THEN 0 ELSE MinOf({score[p][u] : u \in Listed(p)})

(* LastSeen of a room: the newest score, or created_at when nobody is      *)
(* listed.                                                                 *)
LastSeen(p) == IF Listed(p) = {} THEN made[p] ELSE MinOf({score[p][u] : u \in Listed(p)})

AfterSweepOf(p) ==
    LET rest == sweep.todo \ {p}
    IN  IF rest = {} THEN NoSweep ELSE [at |-> "next", todo |-> rest]

SweepSpare(p) ==
    /\ sweep.at = "next" /\ p \in sweep.todo
    /\ LastSeen(p) <= IdleAfter
    /\ sweep' = AfterSweepOf(p)
    /\ UNCHANGED <<row, tx, closing, liveVars>>

(* A fault LifeTypeOK must notice: a verdict loses the rest of the list.   *)
SweepCondemnForgets(p) ==
    /\ sweep.at = "next" /\ p \in sweep.todo
    /\ LastSeen(p) > IdleAfter
    /\ sweep' = [at |-> "close", party |-> p]
    /\ UNCHANGED <<row, tx, closing, liveVars>>

SweepCondemn(p) ==
    /\ sweep.at = "next" /\ p \in sweep.todo
    /\ LastSeen(p) > IdleAfter
    /\ sweep' = [at |-> "close", todo |-> sweep.todo, party |-> p]
    /\ UNCHANGED <<row, tx, closing, liveVars>>

(* CloseByID closes the row if it is still open; the live side follows     *)
(* only then.                                                              *)
SweepCloseRow(p) ==
    /\ sweep.at = "close" /\ sweep.party = p
    /\ ~Locked(p)
    /\ IF Open(p)
       THEN /\ row' = [row EXCEPT ![p] = "closed"]
            /\ sweep' = [sweep EXCEPT !.at = "live"]
       ELSE /\ sweep' = AfterSweepOf(p)
            /\ UNCHANGED row
    /\ UNCHANGED <<tx, closing, liveVars>>

SweepCloseLive(p) ==
    /\ sweep.at = "live" /\ sweep.party = p
    /\ sweep' = AfterSweepOf(p)
    /\ DropLive(p) \/ UNCHANGED <<score, inside>>
    /\ UNCHANGED <<row, tx, made, beat, closing>>

(* A database or Redis error on one room, or the worker dying mid-sweep.   *)
SweepSkip(p) ==
    /\ \/ sweep.at = "next" /\ p \in sweep.todo
       \/ sweep.at = "close" /\ sweep.party = p
    /\ sweep' = AfterSweepOf(p)
    /\ UNCHANGED <<row, tx, closing, liveVars>>

SweepDies ==
    /\ sweep # NoSweep
    /\ sweep' = NoSweep
    /\ UNCHANGED <<row, tx, closing, liveVars>>

----------------------------------------------------------------------------
Create(p) ==
    \/ CreateBegin(p) \/ CreateClosePrevious(p) \/ CreateInsert(p)
    \/ CreateCommit(p) \/ CreateAbort(p)

Sweep(p) ==
    \/ SweepSpare(p) \/ SweepCondemn(p) \/ SweepCloseRow(p) \/ SweepCloseLive(p)

LifeNext ==
    \/ TimePasses \/ SweepList \/ SweepDies
    \/ \E p \in Parties :
          \/ Create(p) \/ HostClose(p) \/ HostCloseLive(p) \/ Sweep(p) \/ SweepSkip(p)
          \/ \E u \in Users : Enter(p, u) \/ Heartbeat(p, u) \/ Exit(p, u)

LifeSpec == LifeInit /\ [][LifeNext]_lifeVars

(* The database lets a statement that need not wait proceed; the sweep is  *)
(* scheduled every five minutes and a sweep that failed runs again.        *)
LifeFairness ==
    /\ WF_lifeVars(TimePasses) /\ WF_lifeVars(SweepList)
    /\ \A p \in Parties :
          /\ WF_lifeVars(CreateClosePrevious(p) \/ CreateInsert(p) \/ CreateCommit(p))
          /\ WF_lifeVars(SweepSpare(p)) /\ SF_lifeVars(SweepCondemn(p)) /\ SF_lifeVars(SweepCloseRow(p))
          /\ WF_lifeVars(SweepCloseLive(p))

LifeFairSpec == LifeSpec /\ LifeFairness

----------------------------------------------------------------------------
LifeTypeOK ==
    /\ row \in [Parties -> {"none", "open", "closed"}]
    /\ tx \in [Parties ->
          [at : {"none", "update", "insert", "commit", "done", "violated", "aborted"},
           seen : SUBSET Parties, mine : SUBSET Parties]]
    /\ made \in [Parties -> 0..Top]
    /\ beat \in [Parties -> 0..Top]
    /\ inside \in [Parties -> SUBSET Users]
    /\ score \in [Parties -> [Users -> 0..Unlisted]]
    /\ closing \in [Parties -> BOOLEAN]
    /\ \/ sweep = NoSweep
       \/ sweep \in [at : {"next"}, todo : SUBSET Parties]
       \/ sweep \in [at : {"close", "live"}, todo : SUBSET Parties, party : Parties]

(* A host has at most one open room, whatever Creates, closes and sweeps   *)
(* run at the same time and wherever they are cut short.                   *)
OneOpenPerHost ==
    \A p, q \in Parties : Open(p) /\ Open(q) /\ HostOf[p] = HostOf[q] => p = q

(* Concurrent Creates of one host never wait for each other in a circle:   *)
(* each ends, with a room or an error.                                     *)
CreateEnds ==
    \A p \in Parties : tx[p].at = "update" ~> tx[p].at \in {"done", "violated", "aborted"}

(* An open room that stays empty is closed in the end, through sweeps that *)
(* die half-way or skip a room.                                            *)
AbandonedRoomsClose ==
    \A p \in Parties : Open(p) ~> row[p] = "closed" \/ inside[p] # {}

(* Neither a Create nor an abandoned room waits for ever.                  *)
RoomsEnd == CreateEnds /\ AbandonedRoomsClose
=============================================================================
