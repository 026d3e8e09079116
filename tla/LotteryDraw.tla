---------------------------- MODULE LotteryDraw ----------------------------
(***************************************************************************)
(* The lottery's life from draft to archive, and its draw                  *)
(* (modules/lottery/lottery.service.ts, modules/draw/draw.service.ts),     *)
(* beside the ticket sale of TicketSales and the imports of Imports.  The  *)
(* lottery's client and its other sessions work at desks: a desk is a slot *)
(* for one request in flight, like the request slots of the sale.          *)
(***************************************************************************)
EXTENDS Imports, Sequences

CONSTANTS
    Desks,         \* slots for concurrent requests of the lottery's client
    Draws,         \* ids of LotteryDraw rows that may be created
    Prizes,        \* LotteryPrize rows
    PrizeSlots     \* the prizes by rank, each as often as its quantity

ASSUME DrawAssumption ==
    /\ IsFiniteSet(Desks)
    /\ Prizes # {}
    /\ PrizeSlots \in Seq(Prizes)

VARIABLES
    draws,         \* LotteryDraw rows: their drawMethod
    winners,       \* LotteryWinner rows
    desk           \* in-flight handlers of the lottery's client

drawVars == <<draws, winners, desk>>
allVars  == <<vars, drawVars>>

-----------------------------------------------------------------------------
DrawMethod == {"RANDOM_SYSTEM", "MANUAL"}

AwardRow  == [prize : Prizes, ticket : Tickets, buyer : Buyers \cup {null}]
WinnerRow == [draw : Draws, prize : Prizes, ticket : Tickets,
              buyer : Buyers \cup {null}, published : BOOLEAN]

DeskPcs == {"idle", "publish", "archive", "delete", "draw_check", "draw_select",
            "draw_commit", "results_select", "results_commit"}

(* awards: the winners a draw is about to record.  locked: the winners whose *)
(* rows publishResults has updated and not yet committed, by their ticket.   *)
DeskRow == [pc : DeskPcs, method : DrawMethod, awards : SUBSET AwardRow,
            locked : SUBSET Tickets]

(* The rows of the draw have their types.                                    *)
DrawTypeOK ==
    /\ draws \in [Draws -> DrawMethod \cup {"none"}]
    /\ winners \subseteq WinnerRow
    /\ desk \in [Desks -> DeskRow]

AtRest == [pc |-> "idle", method |-> "MANUAL", awards |-> {}, locked |-> {}]

(* createLottery makes a draft. *)
DrawInit ==
    /\ Start
    /\ lottery = NewLottery("DRAFT")
    /\ draws = [i \in Draws |-> "none"]
    /\ winners = {}
    /\ desk = [d \in Desks |-> AtRest]

-----------------------------------------------------------------------------
sale == <<now, ticket, resv, job, pay, audit, task, faults, crashes>>

Drawn  == {i \in Draws : draws[i] # "none"}
Won    == {w.ticket : w \in winners}

(* At most one draw has been recorded. *)
OneDraw == \A i, j \in Drawn : i = j

Step(d, pc)   == desk' = [desk EXCEPT ![d].pc = pc]
Leave(d)      == desk' = [desk EXCEPT ![d] = AtRest]

(* A request on a free desk reads the lottery and finds a status it accepts. *)
Finds(d, statuses) ==
    /\ desk[d].pc = "idle"
    /\ ~lottery.deleted /\ lottery.status \in statuses

(* The second statement of a life-cycle operation: the status is written by  *)
(* id alone.                                                                 *)
SetStatus(d, status) ==
    /\ lottery' = [lottery EXCEPT !.status = status]
    /\ Leave(d)
    /\ UNCHANGED <<sale, draws, winners>>

-----------------------------------------------------------------------------
(* publishLottery, archiveLottery, deleteLottery *)

LifeCycleRead(d) ==
    /\ \/ Finds(d, {"DRAFT"}) /\ (Step(d, "publish") \/ Step(d, "delete"))
       \/ Finds(d, {"COMPLETED"}) /\ Step(d, "archive")
    /\ UNCHANGED <<sale, lottery, draws, winners>>

PublishLottery(d) == desk[d].pc = "publish" /\ SetStatus(d, "PUBLISHED")
ArchiveLottery(d) == desk[d].pc = "archive" /\ SetStatus(d, "ARCHIVED")

DeleteLottery(d) ==
    /\ desk[d].pc = "delete"
    /\ lottery' = [lottery EXCEPT !.deleted = TRUE]
    /\ Leave(d)
    /\ UNCHANGED <<sale, draws, winners>>

-----------------------------------------------------------------------------
(* executeDraw and manualDraw *)

DrawRead(d) ==
    /\ Finds(d, {"CLOSED"})
    /\ \E m \in DrawMethod :
        desk' = [desk EXCEPT ![d].pc = "draw_check", ![d].method = m]
    /\ UNCHANGED <<sale, lottery, draws, winners>>

(* The search for an earlier draw.  Variant: it is left out.                 *)
AlreadyDrawn_NotAsked == FALSE
AlreadyDrawn == Drawn # {}

DrawCheck(d) ==
    /\ desk[d].pc = "draw_check"
    /\ IF AlreadyDrawn THEN Leave(d) ELSE Step(d, "draw_select")
    /\ UNCHANGED <<sale, lottery, draws, winners>>

(* The tickets a system draw shuffles.  Variant: the SELECT without its      *)
(* status condition.                                                         *)
Drawable_AnyStatus == Tickets
Drawable == {t \in Tickets : ticket[t].status = "SOLD"}

(* The head of the shuffled list: as many tickets as there are prizes, or    *)
(* all of them, in any order.                                                *)
Shuffles(S) ==
    LET n == IF Cardinality(S) < Len(PrizeSlots) THEN Cardinality(S) ELSE Len(PrizeSlots)
    IN  {f \in [1..n -> S] : \A i, j \in 1..n : f[i] = f[j] => i = j}

Awards(order) ==
    {[prize |-> PrizeSlots[i], ticket |-> order[i], buyer |-> ticket[order[i]].buyer]
        : i \in DOMAIN order}

(* Nothing to draw, or nothing to win.  Variant: it is not asked.            *)
NothingToDraw_NotAsked == FALSE
NothingToDraw == Drawable = {} \/ PrizeSlots = <<>>

(* executeDraw reads the sold tickets before its transaction; prizes go to   *)
(* the shuffled tickets in rank order until either runs out.                 *)
ExecuteSelect(d) ==
    /\ desk[d].pc = "draw_select" /\ desk[d].method = "RANDOM_SYSTEM"
    /\ IF NothingToDraw
       THEN Leave(d)
       ELSE \E order \in Shuffles(Drawable) :
              desk' = [desk EXCEPT ![d].pc = "draw_commit", ![d].awards = Awards(order)]
    /\ UNCHANGED <<sale, lottery, draws, winners>>

(* manualDraw records the tickets and prizes it is given, whatever the       *)
(* tickets' status.                                                          *)
ManualSelect(d) ==
    /\ desk[d].pc = "draw_select" /\ desk[d].method = "MANUAL"
    /\ \E entries \in SUBSET (Prizes \X Tickets) :
        desk' = [desk EXCEPT ![d].pc = "draw_commit",
                   ![d].awards = {[prize |-> e[1], ticket |-> e[2],
                                   buyer |-> ticket[e[2]].buyer] : e \in entries}]
    /\ UNCHANGED <<sale, lottery, draws, winners>>

(* The unique index on lottery_winners.ticketId: no ticket of the awards has *)
(* won before or wins twice now.  Variant: a schema without the index.       *)
UniqueWinners_Missing(awards) == TRUE
UniqueWinners(awards) ==
    /\ \A a \in awards : a.ticket \notin Won
    /\ \A a, b \in awards : a.ticket = b.ticket => a = b

DrawCommit(d) ==
    /\ desk[d].pc = "draw_commit" /\ UniqueWinners(desk[d].awards)
    /\ \E i \in Draws \ Drawn :
        /\ draws' = [draws EXCEPT ![i] = desk[d].method]
        /\ winners' = winners \cup
             {[draw |-> i, prize |-> a.prize, ticket |-> a.ticket,
               buyer |-> a.buyer, published |-> FALSE] : a \in desk[d].awards}
    /\ lottery' = [lottery EXCEPT !.status = "DRAWING"]
    /\ Leave(d)
    /\ UNCHANGED sale

DrawRefused(d) ==
    /\ desk[d].pc = "draw_commit" /\ ~UniqueWinners(desk[d].awards)
    /\ Leave(d)
    /\ UNCHANGED <<sale, lottery, draws, winners>>

-----------------------------------------------------------------------------
(* publishResults *)

(* The status publishResults asks for.  Variant: a closed lottery will do.   *)
Publishable_Closed == {"CLOSED", "DRAWING"}
Publishable == {"DRAWING"}

ResultsRead(d) ==
    /\ Finds(d, Publishable)
    /\ Step(d, "results_select")
    /\ UNCHANGED <<sale, lottery, draws, winners>>

(* updateMany on the winners there are, the first statement of the           *)
(* transaction: a draw that commits before the second one adds winners it    *)
(* has not seen.                                                             *)
ResultsSelect(d) ==
    /\ desk[d].pc = "results_select"
    /\ desk' = [desk EXCEPT ![d].pc = "results_commit", ![d].locked = Won]
    /\ UNCHANGED <<sale, lottery, draws, winners>>

ResultsCommit(d) ==
    /\ desk[d].pc = "results_commit"
    /\ winners' = {[w EXCEPT !.published = @ \/ w.ticket \in desk[d].locked]
                     : w \in winners}
    /\ lottery' = [lottery EXCEPT !.status = "COMPLETED"]
    /\ Leave(d)
    /\ UNCHANGED <<sale, draws>>

-----------------------------------------------------------------------------
(* A database call of the handler at desk d fails. *)
DeskThrows(d) ==
    /\ desk[d].pc # "idle" /\ faults < MaxFaults
    /\ faults' = faults + 1
    /\ Leave(d)
    /\ UNCHANGED <<now, lottery, ticket, resv, job, pay, audit, task, crashes,
                   draws, winners>>

Desk(d) ==
    \/ LifeCycleRead(d) \/ PublishLottery(d) \/ ArchiveLottery(d) \/ DeleteLottery(d)
    \/ DrawRead(d) \/ DrawCheck(d) \/ ExecuteSelect(d) \/ ManualSelect(d)
    \/ DrawCommit(d) \/ DrawRefused(d)
    \/ ResultsRead(d) \/ ResultsSelect(d) \/ ResultsCommit(d) \/ DeskThrows(d)

(* A restart of the process takes the desks' handlers with it. *)
Restart == Crash /\ desk' = [d \in Desks |-> AtRest] /\ UNCHANGED <<draws, winners>>

(* The sale of TicketSales and the desks. *)
SaleDrawNext ==
    \/ /\ \/ \E q \in Tasks : Begin(q) \/ Continue(q) \/ ExpireRead(q) \/ Fail(q)
          \/ Tick
       /\ UNCHANGED drawVars
    \/ Restart
    \/ \E d \in Desks : Desk(d)

(* An import asks no lottery's status: it may come before, during and after  *)
(* the draw.                                                                 *)
ImportRow(q) == (ImportRead(q) \/ BulkRead(q) \/ ImportContinue(q)) /\ UNCHANGED drawVars

DrawNext == SaleDrawNext \/ \E q \in Requests : ImportRow(q)

DrawSpec == DrawInit /\ [][DrawNext]_allVars

-----------------------------------------------------------------------------
(* Properties *)

(* No ticket wins twice, in one draw or in two that run at once ("each       *)
(* winner is unique across prizes", draw.service.ts:20).                     *)
NoTicketWinsTwice ==
    \A w1, w2 \in winners : w1.ticket = w2.ticket => w1 = w2

(* The winner of a system draw is a buyer with an approved payment, although *)
(* the sold tickets were read before the draw is recorded, and reviews and   *)
(* imports, which take sold tickets too, go on meanwhile                     *)
(* (draw.service.ts:43-46, 69-97; payment.service.ts:1258-1289).  Nothing is *)
(* claimed of a manual draw: it takes tickets of any status                  *)
(* (draw.service.ts:241-255), and an import writes the buyer into a          *)
(* PENDING_PAYMENT ticket before the payment is approved.                    *)
WinnersHavePaid ==
    \A w \in winners :
        draws[w.draw] = "RANDOM_SYSTEM" =>
            \E p \in Pays : pay[p].approved /\ pay[p].buyer = w.buyer

(* A lottery is DRAWING, COMPLETED or ARCHIVED only with a draw, and a       *)
(* system draw has a winner (draw.service.ts:48-50, 140-142).                *)
ResultsComeFromADraw ==
    /\ lottery.status \in {"DRAWING", "COMPLETED", "ARCHIVED"} => Drawn # {}
    /\ \A i \in Drawn : draws[i] = "RANDOM_SYSTEM" => \E w \in winners : w.draw = i

(* Unless two draws overlapped, a completed or archived lottery has all its  *)
(* winners published, whatever overtook publishResults between its           *)
(* statements (draw.service.ts:135-154).                                     *)
CompletedResultsArePublished ==
    OneDraw /\ lottery.status \in {"COMPLETED", "ARCHIVED"} =>
        \A w \in winners : w.published

(* Only requests that overlap can both draw: a desk that comes after a       *)
(* recorded draw is turned away, also when a stale PUBLISHED or SELLING has  *)
(* let the lottery be closed again (draw.service.ts:36-40, 212-215;          *)
(* lottery.service.ts:265; ticket.service.ts:119).                           *)
LateDrawsAreRefused == Cardinality(Drawn) <= Cardinality(Desks)

(* "Immutable: once drawn, results cannot be changed" (draw.service.ts:18):  *)
(* once a draw is recorded no winner comes or goes.                          *)
ResultsAreFinal == [][Drawn # {} => Won' = Won]_allVars
=============================================================================
