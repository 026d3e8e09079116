------------------------- MODULE LotteryDrawProofs -------------------------
(***************************************************************************)
(* Theorems about LotteryDraw for every number of tickets, buyers, desks   *)
(* and draws: what the sale guarantees still holds beside the draw, and    *)
(* what the draw adds.                                                     *)
(***************************************************************************)
EXTENDS LotteryDraw, ImportsProofs, SaleLedgerProofs

-----------------------------------------------------------------------------
(* Two kinds of steps *)

(* A step of the sale or of an import, or the restart: the draw's rows stay, *)
(* and the desks stay or are cleared.                                        *)
SaleSide ==
    /\ [ImportNext]_vars
    /\ UNCHANGED <<draws, winners>>
    /\ UNCHANGED desk \/ desk' = [d \in Desks |-> AtRest]

LEMMA SaleStepKinds ==
    ASSUME [SaleDrawNext]_allVars
    PROVE  ([Next]_vars /\ SaleSide) \/ \E d \in Desks : Desk(d)
<1>0. [Next]_vars => [ImportNext]_vars BY DEF ImportNext
<1>1. CASE UNCHANGED allVars BY <1>1 DEF allVars, drawVars, SaleSide
<1>2. CASE /\ \/ \E q \in Tasks : Begin(q) \/ Continue(q) \/ ExpireRead(q) \/ Fail(q)
              \/ Tick
           /\ UNCHANGED drawVars
  BY <1>0, <1>2 DEF Next, drawVars, SaleSide
<1>3. CASE Restart BY <1>0, <1>3 DEF Restart, Next, SaleSide
<1> QED BY <1>1, <1>2, <1>3 DEF SaleDrawNext

LEMMA StepKinds ==
    ASSUME [DrawNext]_allVars
    PROVE  SaleSide \/ \E d \in Desks : Desk(d)
<1>1. CASE [SaleDrawNext]_allVars BY <1>1, SaleStepKinds
<1>2. ASSUME NEW q \in Requests, ImportRow(q) PROVE SaleSide
  BY <1>2 DEF ImportRow, ImportNext, drawVars, SaleSide
<1> QED BY <1>1, <1>2 DEF DrawNext

(* A desk leaves the rows of the sale alone, but for the lottery's status.   *)
LEMMA DeskLeavesTheSale ==
    ASSUME NEW d \in Desks, Desk(d)
    PROVE  /\ UNCHANGED <<now, ticket, resv, job, pay, audit, task, crashes>>
           /\ UNCHANGED faults \/ faults' = faults + 1
           /\ \/ UNCHANGED lottery
              \/ lottery' = [lottery EXCEPT !.deleted = TRUE]
              \/ \E st \in LotteryStatus : lottery' = [lottery EXCEPT !.status = st]
<1>1. CASE LifeCycleRead(d) \/ DrawRead(d) \/ DrawCheck(d) \/ ExecuteSelect(d)
             \/ ManualSelect(d) \/ DrawRefused(d) \/ ResultsRead(d) \/ ResultsSelect(d)
  BY <1>1 DEF LifeCycleRead, DrawRead, DrawCheck, ExecuteSelect, ManualSelect,
     DrawRefused, ResultsRead, ResultsSelect, sale
<1>2. CASE PublishLottery(d) \/ ArchiveLottery(d)
  BY <1>2 DEF PublishLottery, ArchiveLottery, SetStatus, sale, LotteryStatus
<1>3. CASE DeleteLottery(d) BY <1>3 DEF DeleteLottery, sale
<1>4. CASE DrawCommit(d) BY <1>4 DEF DrawCommit, sale, LotteryStatus
<1>5. CASE ResultsCommit(d) BY <1>5 DEF ResultsCommit, sale, LotteryStatus
<1>6. CASE DeskThrows(d) BY <1>6 DEF DeskThrows
<1> QED BY <1>1, <1>2, <1>3, <1>4, <1>5, <1>6 DEF Desk

-----------------------------------------------------------------------------
(* The sale beside the draw *)

LEMMA SaleTypeStep == ASSUME TypeOK, [DrawNext]_allVars PROVE TypeOK'
<1>1. CASE SaleSide BY <1>1, ImportTypeStep DEF SaleSide
<1>2. ASSUME NEW d \in Desks, Desk(d) PROVE TypeOK'
  <2>1. lottery' \in LotteryRow
    BY <1>2, DeskLeavesTheSale DEF TypeOK, LotteryRow
  <2>2. faults' \in Nat BY <1>2, DeskLeavesTheSale DEF TypeOK
  <2> QED BY <1>2, <2>1, <2>2, DeskLeavesTheSale DEF TypeOK
<1> QED BY <1>1, <1>2, StepKinds

LEMMA SaleApprovalStep ==
    ASSUME TypeOK, ApprovalInv, [DrawNext]_allVars
    PROVE  ApprovalInv'
<1>1. CASE SaleSide BY <1>1, ImportApprovalStep DEF SaleSide
<1>2. ASSUME NEW d \in Desks, Desk(d) PROVE ApprovalInv'
  <2>1. UNCHANGED <<ticket, pay, audit, task>> BY <1>2, DeskLeavesTheSale
  <2> QED BY <2>1 DEF ApprovalInv, ApprovedExist, ActsOnPayment,
          SoldTicketsBelongToThePayer, DecisionsRestOnApproval
<1> QED BY <1>1, <1>2, StepKinds

LEMMA DrawStart == DrawInit => TypeOK /\ ApprovalInv
BY TypeStart, ApprovalStart DEF DrawInit, NewLottery, LotteryRow, LotteryStatus

(* Drawing, publishing and archiving beside the sale and its imports take no *)
(* sold ticket from its payer and let no review act without an approval.     *)
THEOREM SaleIsSafeBesideTheDraw ==
    DrawSpec => [](TypeOK /\ SoldTicketsBelongToThePayer /\ DecisionsRestOnApproval)
<1>1. ApprovalInv => SoldTicketsBelongToThePayer /\ DecisionsRestOnApproval
  BY DEF ApprovalInv
<1> QED BY <1>1, DrawStart, SaleTypeStep, SaleApprovalStep, PTL DEF DrawSpec

(* The reservations, the idempotency keys and the expiry jobs of the sale.   *)
SaleRowsInv == TicketsFollowTheirReservation /\ OneRowPerIdempotencyKey /\ JobInv

LEMMA SaleRowsStep ==
    ASSUME TypeOK, SaleRowsInv, [DrawNext]_allVars PROVE SaleRowsInv'
<1>1. CASE SaleSide
  BY <1>1, ImportHoldStep, ImportKeysKept, ImportJobStep DEF SaleSide, SaleRowsInv
<1>2. ASSUME NEW d \in Desks, Desk(d) PROVE SaleRowsInv'
  <2>1. UNCHANGED <<now, ticket, resv, job, pay, task>> BY <1>2, DeskLeavesTheSale
  <2> QED BY <2>1 DEF SaleRowsInv, TicketsFollowTheirReservation, OneRowPerIdempotencyKey,
          JobInv, JobAwaits, ExpiryIsSoon, OpenResv
<1> QED BY <1>1, <1>2, StepKinds

(* No draw, and no change of the lottery's status, strands a held ticket,    *)
(* doubles a keyed row or leaves a reservation without its job.              *)
THEOREM HoldsAreSafeBesideTheDraw ==
    DrawSpec => [](/\ TicketsFollowTheirReservation /\ OneRowPerIdempotencyKey
                   /\ ExpiryJobOutlivesTheHold)
<1>1. DrawInit => SaleRowsInv
  <2>1. Start => TicketsFollowTheirReservation /\ OneRowPerIdempotencyKey
    BY DEF Start, NewTicket, NoResv, NoPay, TicketsFollowTheirReservation,
       OneRowPerIdempotencyKey
  <2> QED BY <2>1, JobStart DEF DrawInit, SaleRowsInv
<1>2. TypeOK /\ SaleRowsInv => ExpiryJobOutlivesTheHold
  BY JobsAwaitTheHold DEF SaleRowsInv
<1>3. SaleRowsInv => TicketsFollowTheirReservation /\ OneRowPerIdempotencyKey
  BY DEF SaleRowsInv
<1> QED BY <1>1, <1>2, <1>3, DrawStart, SaleTypeStep, SaleRowsStep, PTL DEF DrawSpec

(* The sale with the draw beside it still implements the ledger: a draw      *)
(* neither approves, sells nor gives back, and closing, drawing or deleting  *)
(* the lottery under a handler about to sell changes nothing of what it      *)
(* sells, and to whom.  The imports are left out: they sell by ticket id     *)
(* alone, also a ticket that another payment has bought meanwhile.           *)
THEOREM SaleBesideTheDrawImplementsLedger ==
    DrawInit /\ [][SaleDrawNext]_allVars => ImplementsLedger
<1>0. [SaleDrawNext]_allVars => [DrawNext]_allVars BY DEF DrawNext
<1>1. DrawInit => Ledger!LedgerInit
  BY DEF DrawInit, Start, NewTicket, NoPay, Ledger!LedgerInit
<1>2. ASSUME TypeOK, ApprovalInv, [SaleDrawNext]_allVars
      PROVE  [Ledger!LedgerNext]_(Ledger!ledger)
  <2>1. CASE [Next]_vars BY <1>2, <2>1, LedgerStep
  <2>2. ASSUME NEW d \in Desks, Desk(d) PROVE UNCHANGED Ledger!ledger
    <3>1. UNCHANGED <<ticket, pay, audit>> BY <2>2, DeskLeavesTheSale
    <3> QED BY <3>1, NothingLedgered
  <2> QED BY <1>2, <2>1, <2>2, SaleStepKinds
<1> QED
  BY <1>0, <1>1, <1>2, DrawStart, SaleTypeStep, SaleApprovalStep, PTL
  DEF ImplementsLedger, Ledger!LedgerSpec

-----------------------------------------------------------------------------
(* Types *)

LEMMA AtRestType == AtRest \in DeskRow
BY DEF AtRest, DeskRow, DeskPcs, DrawMethod

(* The columns of a desk, and what writing some of them leaves.              *)
LEMMA DeskWrites ==
    ASSUME DrawTypeOK, NEW d \in Desks, NEW rec \in DeskRow,
           desk' = [desk EXCEPT ![d] = rec]
    PROVE  desk' \in [Desks -> DeskRow]
BY DEF DrawTypeOK

LEMMA DeskMoves ==
    ASSUME DrawTypeOK, NEW d \in Desks,
           \/ Leave(d)
           \/ \E pc \in DeskPcs : Step(d, pc)
    PROVE  desk' \in [Desks -> DeskRow]
<1>1. CASE Leave(d) BY <1>1, AtRestType, DeskWrites DEF Leave
<1>2. ASSUME NEW pc \in DeskPcs, Step(d, pc) PROVE desk' \in [Desks -> DeskRow]
  BY <1>2 DEF Step, DrawTypeOK, DeskRow
<1> QED BY <1>1, <1>2

LEMMA DeskTakes ==
    ASSUME DrawTypeOK, NEW d \in Desks, NEW awards \in SUBSET AwardRow,
           desk' = [desk EXCEPT ![d].pc = "draw_commit", ![d].awards = awards]
    PROVE  desk' \in [Desks -> DeskRow]
<1>1. desk[d] \in DeskRow BY DEF DrawTypeOK
<1>2. [desk[d] EXCEPT !.pc = "draw_commit", !.awards = awards] \in DeskRow
  BY <1>1 DEF DeskRow, DeskPcs
<1>3. desk' = [desk EXCEPT ![d] = [desk[d] EXCEPT !.pc = "draw_commit",
                                                  !.awards = awards]]
  BY DEF DrawTypeOK
<1> QED BY <1>2, <1>3, DeskWrites

LEMMA AwardsType ==
    ASSUME TypeOK, NEW order \in Shuffles(Drawable)
    PROVE  Awards(order) \subseteq AwardRow
<1>1. ASSUME NEW i \in DOMAIN order
      PROVE  PrizeSlots[i] \in Prizes /\ order[i] \in Tickets
  <2>1. PICK n \in Nat : n <= Len(PrizeSlots) /\ order \in [1..n -> Drawable]
    <3>1. PrizeSlots \in Seq(Prizes) BY DrawAssumption DEF DrawAssumption
    <3>2. IsFiniteSet(Drawable)
      BY FS_Subset, StoreAssumption DEF StoreAssumption, Drawable
    <3>3. Cardinality(Drawable) \in Nat BY <3>2, FS_CardinalityType
    <3>4. Len(PrizeSlots) \in Nat BY <3>1
    <3> QED BY <3>3, <3>4 DEF Shuffles
  <2> QED BY <1>1, <2>1, DrawAssumption DEF DrawAssumption, Drawable
<1>2. ASSUME NEW i \in DOMAIN order
      PROVE  [prize |-> PrizeSlots[i], ticket |-> order[i],
              buyer |-> ticket[order[i]].buyer] \in AwardRow
  BY <1>1, <1>2 DEF AwardRow, TypeOK, TicketRow
<1> QED BY <1>2 DEF Awards

LEMMA DrawTypeStep ==
    ASSUME TypeOK, DrawTypeOK, [DrawNext]_allVars
    PROVE  DrawTypeOK'
<1>1. CASE SaleSide
  <2>1. desk' \in [Desks -> DeskRow]
    BY <1>1, AtRestType DEF SaleSide, DrawTypeOK
  <2> QED BY <1>1, <2>1 DEF SaleSide, DrawTypeOK
<1>2. ASSUME NEW d \in Desks, Desk(d) PROVE DrawTypeOK'
  <2>1. CASE LifeCycleRead(d) \/ PublishLottery(d) \/ ArchiveLottery(d)
             \/ DeleteLottery(d) \/ DrawCheck(d) \/ DrawRefused(d)
             \/ ResultsRead(d) \/ DeskThrows(d)
    <3>1. UNCHANGED <<draws, winners>>
      BY <2>1 DEF LifeCycleRead, PublishLottery, ArchiveLottery, SetStatus,
         DeleteLottery, DrawCheck, DrawRefused, ResultsRead, DeskThrows
    <3>2. Leave(d) \/ \E pc \in DeskPcs : Step(d, pc)
      BY <2>1 DEF LifeCycleRead, PublishLottery, ArchiveLottery, SetStatus,
         DeleteLottery, DrawCheck, DrawRefused, ResultsRead, DeskThrows, DeskPcs
    <3> QED BY <3>1, <3>2, DeskMoves DEF DrawTypeOK
  <2>2. CASE DrawRead(d)
    <3>1. PICK m \in DrawMethod :
            desk' = [desk EXCEPT ![d].pc = "draw_check", ![d].method = m]
      BY <2>2 DEF DrawRead
    <3>2. desk[d] \in DeskRow BY DEF DrawTypeOK
    <3>3. [desk[d] EXCEPT !.pc = "draw_check", !.method = m] \in DeskRow
      BY <3>2 DEF DeskRow, DeskPcs
    <3>4. desk' = [desk EXCEPT ![d] = [desk[d] EXCEPT !.pc = "draw_check",
                                                      !.method = m]]
      BY <3>1 DEF DrawTypeOK
    <3>5. desk' \in [Desks -> DeskRow] BY <3>3, <3>4, DeskWrites
    <3> QED BY <2>2, <3>5 DEF DrawRead, DrawTypeOK
  <2>3. CASE ExecuteSelect(d)
    <3>1. UNCHANGED <<draws, winners>> BY <2>3 DEF ExecuteSelect
    <3>2. CASE Leave(d) BY <3>1, <3>2, DeskMoves DEF DrawTypeOK
    <3>3. ASSUME NEW order \in Shuffles(Drawable),
                 desk' = [desk EXCEPT ![d].pc = "draw_commit",
                                      ![d].awards = Awards(order)]
          PROVE  DrawTypeOK'
      <4>1. desk' \in [Desks -> DeskRow] BY <3>3, AwardsType, DeskTakes
      <4> QED BY <3>1, <4>1 DEF DrawTypeOK
    <3> QED BY <2>3, <3>2, <3>3 DEF ExecuteSelect
  <2>4. CASE ManualSelect(d)
    <3>1. UNCHANGED <<draws, winners>> BY <2>4 DEF ManualSelect
    <3>2. PICK entries \in SUBSET (Prizes \X Tickets) :
            desk' = [desk EXCEPT ![d].pc = "draw_commit",
                       ![d].awards = {[prize |-> e[1], ticket |-> e[2],
                                       buyer |-> ticket[e[2]].buyer] : e \in entries}]
      BY <2>4 DEF ManualSelect
    <3>3. ASSUME NEW e \in Prizes \X Tickets
          PROVE  [prize |-> e[1], ticket |-> e[2], buyer |-> ticket[e[2]].buyer]
                   \in AwardRow
      <4>1. e[1] \in Prizes /\ e[2] \in Tickets OBVIOUS
      <4>2. ticket[e[2]].buyer \in Buyers \cup {null} BY <4>1 DEF TypeOK, TicketRow
      <4> QED BY <4>1, <4>2 DEF AwardRow
    <3>4. {[prize |-> e[1], ticket |-> e[2], buyer |-> ticket[e[2]].buyer]
             : e \in entries} \in SUBSET AwardRow
      BY <3>3
    <3>5. desk' \in [Desks -> DeskRow] BY <3>2, <3>4, DeskTakes
    <3> QED BY <3>1, <3>5 DEF DrawTypeOK
  <2>5. CASE DrawCommit(d)
    <3>1. desk' \in [Desks -> DeskRow] BY <2>5, DeskMoves DEF DrawCommit
    <3>2. draws' \in [Draws -> DrawMethod \cup {"none"}]
      <4>1. desk[d].method \in DrawMethod BY DEF DrawTypeOK, DeskRow
      <4>2. PICK i \in Draws : draws' = [draws EXCEPT ![i] = desk[d].method]
        BY <2>5 DEF DrawCommit
      <4> QED BY <4>1, <4>2 DEF DrawTypeOK
    <3>3. winners' \subseteq WinnerRow
      <4>1. PICK i \in Draws :
              winners' = winners \cup
                 {[draw |-> i, prize |-> a.prize, ticket |-> a.ticket,
                   buyer |-> a.buyer, published |-> FALSE] : a \in desk[d].awards}
        BY <2>5 DEF DrawCommit
      <4>2. desk[d].awards \subseteq AwardRow BY DEF DrawTypeOK, DeskRow
      <4>3. ASSUME NEW a \in AwardRow
            PROVE  [draw |-> i, prize |-> a.prize, ticket |-> a.ticket,
                    buyer |-> a.buyer, published |-> FALSE] \in WinnerRow
        BY DEF AwardRow, WinnerRow
      <4> QED BY <4>1, <4>2, <4>3 DEF DrawTypeOK
    <3> QED BY <3>1, <3>2, <3>3 DEF DrawTypeOK
  <2>6. CASE ResultsSelect(d)
    <3>1. Won \subseteq Tickets BY DEF Won, DrawTypeOK, WinnerRow
    <3>2. desk[d] \in DeskRow BY DEF DrawTypeOK
    <3>3. [desk[d] EXCEPT !.pc = "results_commit", !.locked = Won] \in DeskRow
      BY <3>1, <3>2 DEF DeskRow, DeskPcs
    <3>4. desk' = [desk EXCEPT ![d] = [desk[d] EXCEPT !.pc = "results_commit",
                                                      !.locked = Won]]
      BY <2>6 DEF ResultsSelect, DrawTypeOK
    <3>5. desk' \in [Desks -> DeskRow] BY <3>3, <3>4, DeskWrites
    <3> QED BY <2>6, <3>5 DEF ResultsSelect, DrawTypeOK
  <2>7. CASE ResultsCommit(d)
    <3>1. desk' \in [Desks -> DeskRow] BY <2>7, DeskMoves DEF ResultsCommit
    <3>2. winners' \subseteq WinnerRow
      BY <2>7 DEF ResultsCommit, DrawTypeOK, WinnerRow
    <3> QED BY <2>7, <3>1, <3>2 DEF ResultsCommit, DrawTypeOK
  <2> QED BY <1>2, <2>1, <2>2, <2>3, <2>4, <2>5, <2>6, <2>7 DEF Desk
<1> QED BY <1>1, <1>2, StepKinds

LEMMA DrawTypeInit == DrawInit => DrawTypeOK
BY AtRestType DEF DrawInit, DrawTypeOK

(* Draws, winners and the requests at the desks have their types.            *)
THEOREM DrawTypeCorrect == DrawSpec => []DrawTypeOK
BY DrawStart, DrawTypeInit, DrawTypeStep, SaleTypeStep, PTL DEF DrawSpec

-----------------------------------------------------------------------------
(* No ticket wins twice *)

LEMMA WinnersStep ==
    ASSUME DrawTypeOK, NoTicketWinsTwice, [DrawNext]_allVars
    PROVE  NoTicketWinsTwice'
<1>1. CASE UNCHANGED winners BY <1>1 DEF NoTicketWinsTwice
<1>2. ASSUME NEW d \in Desks, DrawCommit(d) PROVE NoTicketWinsTwice'
  <2>1. PICK i \in Draws :
          winners' = winners \cup
             {[draw |-> i, prize |-> a.prize, ticket |-> a.ticket,
               buyer |-> a.buyer, published |-> FALSE] : a \in desk[d].awards}
    BY <1>2 DEF DrawCommit
  <2>2. /\ \A a \in desk[d].awards : \A w \in winners : w.ticket # a.ticket
        /\ \A a, b \in desk[d].awards : a.ticket = b.ticket => a = b
    BY <1>2 DEF DrawCommit, UniqueWinners, Won
  <2>3. ASSUME NEW w \in winners', w \notin winners
        PROVE  \E a \in desk[d].awards :
                 /\ w = [draw |-> i, prize |-> a.prize, ticket |-> a.ticket,
                         buyer |-> a.buyer, published |-> FALSE]
                 /\ w.ticket = a.ticket
    BY <2>1, <2>3
  <2>4. ASSUME NEW w1 \in winners', NEW w2 \in winners', w1.ticket = w2.ticket
        PROVE  w1 = w2
    <3>1. CASE w1 \in winners /\ w2 \in winners
      BY <2>4, <3>1 DEF NoTicketWinsTwice
    <3>2. CASE w1 \notin winners /\ w2 \notin winners
      <4>1. PICK a1 \in desk[d].awards :
              /\ w1 = [draw |-> i, prize |-> a1.prize, ticket |-> a1.ticket,
                       buyer |-> a1.buyer, published |-> FALSE]
              /\ w1.ticket = a1.ticket
        BY <2>3, <3>2
      <4>2. PICK a2 \in desk[d].awards :
              /\ w2 = [draw |-> i, prize |-> a2.prize, ticket |-> a2.ticket,
                       buyer |-> a2.buyer, published |-> FALSE]
              /\ w2.ticket = a2.ticket
        BY <2>3, <3>2
      <4>3. a1 = a2 BY <2>2, <2>4, <4>1, <4>2
      <4> QED BY <4>1, <4>2, <4>3
    <3>3. CASE ~(w1 \in winners <=> w2 \in winners)
      BY <2>2, <2>3, <2>4, <3>3
    <3> QED BY <3>1, <3>2, <3>3
  <2> QED BY <2>4 DEF NoTicketWinsTwice
<1>3. ASSUME NEW d \in Desks, ResultsCommit(d) PROVE NoTicketWinsTwice'
  <2>1. winners' = {[w EXCEPT !.published = @ \/ w.ticket \in desk[d].locked]
                      : w \in winners}
    BY <1>3 DEF ResultsCommit
  <2>2. \A w \in winners : w \in WinnerRow BY DEF DrawTypeOK
  <2>3. ASSUME NEW w1 \in winners', NEW w2 \in winners', w1.ticket = w2.ticket
        PROVE  w1 = w2
    <3>1. PICK v1 \in winners :
            w1 = [v1 EXCEPT !.published = @ \/ v1.ticket \in desk[d].locked]
      BY <2>1
    <3>2. PICK v2 \in winners :
            w2 = [v2 EXCEPT !.published = @ \/ v2.ticket \in desk[d].locked]
      BY <2>1
    <3>3. v1.ticket = v2.ticket BY <2>2, <2>3, <3>1, <3>2 DEF WinnerRow
    <3>4. v1 = v2 BY <3>3 DEF NoTicketWinsTwice
    <3> QED BY <3>1, <3>2, <3>4
  <2> QED BY <2>3 DEF NoTicketWinsTwice
<1>4. ASSUME NEW d \in Desks, Desk(d) PROVE NoTicketWinsTwice'
  <2>1. CASE UNCHANGED winners BY <1>1, <2>1
  <2>2. CASE ~UNCHANGED winners
    <3>1. DrawCommit(d) \/ ResultsCommit(d)
      BY <1>4, <2>2 DEF Desk, LifeCycleRead, PublishLottery, ArchiveLottery, SetStatus,
         DeleteLottery, DrawRead, DrawCheck, ExecuteSelect, ManualSelect, DrawRefused,
         ResultsRead, ResultsSelect, DeskThrows
    <3> QED BY <1>2, <1>3, <3>1
  <2> QED BY <2>1, <2>2
<1> QED BY <1>1, <1>4, StepKinds DEF SaleSide

(* However two draws overlap, a ticket wins at most one prize.               *)
THEOREM TicketsWinOnce == DrawSpec => []NoTicketWinsTwice
<1>1. DrawInit => NoTicketWinsTwice BY DEF DrawInit, NoTicketWinsTwice
<1> QED BY <1>1, DrawTypeCorrect, WinnersStep, PTL DEF DrawSpec

-----------------------------------------------------------------------------
(* What a desk's step leaves *)

LEMMA OtherDesks ==
    ASSUME DrawTypeOK, NEW d \in Desks, Desk(d), NEW e \in Desks, e # d
    PROVE  desk'[e] = desk[e]
<1>1. CASE LifeCycleRead(d) \/ PublishLottery(d) \/ ArchiveLottery(d)
           \/ DeleteLottery(d) \/ DrawCheck(d) \/ DrawRefused(d) \/ DrawCommit(d)
           \/ ResultsRead(d) \/ ResultsCommit(d) \/ DeskThrows(d)
  BY <1>1 DEF LifeCycleRead, PublishLottery, ArchiveLottery, SetStatus, DeleteLottery,
     DrawCheck, DrawRefused, DrawCommit, ResultsRead, ResultsCommit, DeskThrows,
     Step, Leave, DrawTypeOK
<1>2. CASE DrawRead(d) BY <1>2 DEF DrawRead, DrawTypeOK
<1>3. CASE ExecuteSelect(d) BY <1>3 DEF ExecuteSelect, Leave, DrawTypeOK
<1>4. CASE ManualSelect(d) BY <1>4 DEF ManualSelect, DrawTypeOK
<1>5. CASE ResultsSelect(d) BY <1>5 DEF ResultsSelect, DrawTypeOK
<1> QED BY <1>1, <1>2, <1>3, <1>4, <1>5 DEF Desk

(* Only recording a draw and publishing touch the draws and the winners.     *)
LEMMA RowsOfTheDraw ==
    ASSUME NEW d \in Desks, Desk(d), ~DrawCommit(d), ~ResultsCommit(d)
    PROVE  UNCHANGED <<draws, winners>>
BY DEF Desk, LifeCycleRead, PublishLottery, ArchiveLottery, SetStatus, DeleteLottery,
   DrawRead, DrawCheck, ExecuteSelect, ManualSelect, DrawRefused, ResultsRead,
   ResultsSelect, DeskThrows

(* A desk whose request is answered is idle. *)
LEMMA LeaveIsIdle ==
    ASSUME DrawTypeOK, NEW d \in Desks, Leave(d)
    PROVE  desk'[d].pc = "idle"
BY DEF Leave, AtRest, DrawTypeOK

-----------------------------------------------------------------------------
(* Winners have paid *)

(* Buyer b has an approved payment. *)
Paid(b) == \E p \in Pays : pay[p].approved /\ pay[p].buyer = b

(* The winners a system draw is about to record are buyers who have paid.    *)
AwardsPaid(d) ==
    desk[d].pc = "draw_commit" /\ desk[d].method = "RANDOM_SYSTEM" =>
        \A a \in desk[d].awards : Paid(a.buyer)

WinnersOfDraws == \A w \in winners : w.draw \in Drawn

(* The inductive invariant.  The draw copies buyers it read earlier, so      *)
(* WinnersHavePaid needs the same of the winners in hand.                    *)
PayersInv ==
    /\ \A d \in Desks : AwardsPaid(d)
    /\ WinnersOfDraws
    /\ WinnersHavePaid

(* Once a buyer has paid, he has paid. *)
LEMMA PaidIsKept ==
    ASSUME ApprovalInv, PaymentsAreKept, NEW b, Paid(b)
    PROVE  Paid(b)'
<1>1. PICK p \in Pays : pay[p].approved /\ pay[p].buyer = b BY DEF Paid
<1>2. pay[p].exists BY <1>1 DEF ApprovalInv, ApprovedExist
<1>3. pay'[p].approved /\ pay'[p].buyer = b BY <1>1, <1>2 DEF PaymentsAreKept
<1> QED BY <1>3 DEF Paid

LEMMA SoldIsPaid ==
    ASSUME TypeOK, ApprovalInv, NEW t \in Tickets, ticket[t].status = "SOLD"
    PROVE  Paid(ticket[t].buyer)
<1>1. /\ ticket[t].pay # null /\ pay[ticket[t].pay].approved
      /\ ticket[t].buyer = pay[ticket[t].pay].buyer
  BY DEF ApprovalInv, SoldTicketsBelongToThePayer
<1>2. ticket[t].pay \in Pays BY <1>1 DEF TypeOK, TicketRow
<1> QED BY <1>1, <1>2 DEF Paid

(* Payments are kept beside the draw as well. *)
LEMMA PaymentsKeptBesideTheDraw ==
    ASSUME TypeOK, [DrawNext]_allVars PROVE PaymentsAreKept
<1>1. CASE SaleSide
  BY <1>1, PaymentsKeptStep, ImportsKeepPayments, ImportStepKinds DEF SaleSide
<1>2. ASSUME NEW d \in Desks, Desk(d) PROVE PaymentsAreKept
  <2>1. UNCHANGED pay BY <1>2, DeskLeavesTheSale
  <2> QED BY <2>1 DEF PaymentsAreKept
<1> QED BY <1>1, <1>2, StepKinds

(* The winners a desk has in hand stay paid for, and those it picks are.     *)
LEMMA AwardsPaidStep ==
    ASSUME TypeOK, DrawTypeOK, ApprovalInv, PayersInv, [DrawNext]_allVars,
           NEW e \in Desks
    PROVE  AwardsPaid(e)'
<1>0. PaymentsAreKept BY PaymentsKeptBesideTheDraw
<1>1. ASSUME desk'[e] = desk[e] PROVE AwardsPaid(e)'
  <2>1. ASSUME NEW b, Paid(b) PROVE Paid(b)' BY <1>0, <2>1, PaidIsKept
  <2> QED BY <1>1, <2>1 DEF PayersInv, AwardsPaid
<1>2. ASSUME desk'[e].pc # "draw_commit" PROVE AwardsPaid(e)'
  BY <1>2 DEF AwardsPaid
<1>3. CASE SaleSide
  BY <1>1, <1>2, <1>3 DEF SaleSide, AtRest
<1>4. ASSUME NEW d \in Desks, Desk(d) PROVE AwardsPaid(e)'
  <2>1. CASE d # e BY <1>1, <1>4, <2>1, OtherDesks
  <2>2. CASE ExecuteSelect(e)
    <3>1. UNCHANGED pay BY <2>2 DEF ExecuteSelect, sale
    <3>2. CASE Leave(e) BY <1>2, <3>2, LeaveIsIdle
    <3>3. ASSUME NEW order \in Shuffles(Drawable),
                 desk' = [desk EXCEPT ![e].pc = "draw_commit",
                                      ![e].awards = Awards(order)]
          PROVE  AwardsPaid(e)'
      <4>1. desk'[e].awards = Awards(order) BY <3>3 DEF DrawTypeOK, DeskRow
      <4>2. ASSUME NEW i \in DOMAIN order PROVE Paid(ticket[order[i]].buyer)
        <5>1. order[i] \in Drawable BY DEF Shuffles
        <5> QED BY <5>1, SoldIsPaid DEF Drawable
      <4>3. \A a \in Awards(order) : Paid(a.buyer) BY <4>2 DEF Awards
      <4> QED BY <3>1, <4>1, <4>3 DEF AwardsPaid, Paid
    <3> QED BY <2>2, <3>2, <3>3 DEF ExecuteSelect
  <2>3. CASE ManualSelect(e)
    <3>1. desk'[e].method = "MANUAL"
      BY <2>3 DEF ManualSelect, DrawTypeOK, DeskRow
    <3> QED BY <3>1 DEF AwardsPaid
  <2>4. CASE LifeCycleRead(e) \/ PublishLottery(e) \/ ArchiveLottery(e)
             \/ DeleteLottery(e) \/ DrawRead(e) \/ DrawCheck(e) \/ DrawCommit(e)
             \/ DrawRefused(e) \/ ResultsRead(e) \/ ResultsSelect(e)
             \/ ResultsCommit(e) \/ DeskThrows(e)
    <3>1. \/ Leave(e)
          \/ \E pc \in DeskPcs \ {"draw_commit"} : Step(e, pc)
          \/ desk'[e].pc # "draw_commit"
      BY <2>4 DEF LifeCycleRead, PublishLottery, ArchiveLottery, SetStatus,
         DeleteLottery, DrawRead, DrawCheck, DrawCommit, DrawRefused, ResultsRead,
         ResultsSelect, ResultsCommit, DeskThrows, DeskPcs, DrawTypeOK, DeskRow
    <3>2. desk'[e].pc # "draw_commit"
      BY <3>1, LeaveIsIdle DEF Step, DrawTypeOK, DeskRow
    <3> QED BY <1>2, <3>2
  <2> QED BY <1>4, <2>1, <2>2, <2>3, <2>4 DEF Desk
<1> QED BY <1>3, <1>4, StepKinds

(* What recording a draw does to draws and winners: an unused id, and one    *)
(* winner for each award in hand.                                            *)
LEMMA DrawIsRecorded ==
    ASSUME DrawTypeOK, NEW d \in Desks, DrawCommit(d)
    PROVE  \E i \in Draws :
             /\ i \notin Drawn /\ Drawn' = Drawn \cup {i}
             /\ draws'[i] = desk[d].method
             /\ \A j \in Draws : j # i => draws'[j] = draws[j]
             /\ winners' = winners \cup
                  {[draw |-> i, prize |-> a.prize, ticket |-> a.ticket,
                    buyer |-> a.buyer, published |-> FALSE] : a \in desk[d].awards}
<1>1. PICK i \in Draws \ Drawn :
        /\ draws' = [draws EXCEPT ![i] = desk[d].method]
        /\ winners' = winners \cup
             {[draw |-> i, prize |-> a.prize, ticket |-> a.ticket,
               buyer |-> a.buyer, published |-> FALSE] : a \in desk[d].awards}
  BY DEF DrawCommit
<1>2. desk[d].method # "none" BY DEF DrawTypeOK, DeskRow, DrawMethod
<1>3. draws'[i] = desk[d].method /\ \A j \in Draws : j # i => draws'[j] = draws[j]
  BY <1>1 DEF DrawTypeOK
<1>4. Drawn' = Drawn \cup {i} BY <1>1, <1>2, <1>3 DEF Drawn
<1> QED BY <1>1, <1>3, <1>4

(* What publishing does: the winners, some more of them published.           *)
LEMMA ResultsArePublished ==
    ASSUME DrawTypeOK, NEW d \in Desks, ResultsCommit(d), NEW w \in winners'
    PROVE  \E v \in winners :
             /\ w.draw = v.draw /\ w.buyer = v.buyer /\ w.ticket = v.ticket
             /\ w.published = (v.published \/ v.ticket \in desk[d].locked)
<1>1. PICK v \in winners :
        w = [v EXCEPT !.published = @ \/ v.ticket \in desk[d].locked]
  BY DEF ResultsCommit
<1>2. v \in WinnerRow BY DEF DrawTypeOK
<1> QED BY <1>1, <1>2 DEF WinnerRow

LEMMA WinnersPaidStep ==
    ASSUME TypeOK, DrawTypeOK, ApprovalInv, PayersInv, [DrawNext]_allVars
    PROVE  WinnersOfDraws' /\ WinnersHavePaid'
<1>0. PaymentsAreKept BY PaymentsKeptBesideTheDraw
<1>a. ASSUME NEW b, Paid(b) PROVE Paid(b)' BY <1>0, <1>a, PaidIsKept DEF PayersInv
<1>b. \A w \in winners : /\ w.draw \in Drawn
                         /\ draws[w.draw] = "RANDOM_SYSTEM" => Paid(w.buyer)
  BY DEF PayersInv, WinnersOfDraws, WinnersHavePaid, Paid
<1>c. ASSUME \A w \in winners' :
                /\ w.draw \in Drawn'
                /\ draws'[w.draw] = "RANDOM_SYSTEM" => Paid(w.buyer)
      PROVE  WinnersOfDraws' /\ WinnersHavePaid'
  <2>1. ASSUME NEW w \in winners', draws'[w.draw] = "RANDOM_SYSTEM"
        PROVE  \E p \in Pays : pay'[p].approved /\ pay'[p].buyer = w.buyer
    <3>1. Paid(w.buyer) BY <1>c, <2>1
    <3>2. PICK p \in Pays : pay[p].approved /\ pay[p].buyer = w.buyer BY <3>1 DEF Paid
    <3>3. pay[p].exists BY <3>2 DEF ApprovalInv, ApprovedExist
    <3> QED BY <1>0, <3>2, <3>3 DEF PaymentsAreKept
  <2> QED BY <1>c, <2>1 DEF WinnersOfDraws, WinnersHavePaid
<1>1. CASE UNCHANGED <<draws, winners>>
  <2>1. Drawn' = Drawn BY <1>1 DEF Drawn
  <2> QED BY <1>1, <1>b, <1>c, <2>1
<1>2. ASSUME NEW d \in Desks, DrawCommit(d) PROVE WinnersOfDraws' /\ WinnersHavePaid'
  <2>1. PICK i \in Draws :
          /\ i \notin Drawn /\ Drawn' = Drawn \cup {i}
          /\ draws'[i] = desk[d].method
          /\ \A j \in Draws : j # i => draws'[j] = draws[j]
          /\ winners' = winners \cup
               {[draw |-> i, prize |-> a.prize, ticket |-> a.ticket,
                 buyer |-> a.buyer, published |-> FALSE] : a \in desk[d].awards}
    BY <1>2, DrawIsRecorded
  <2>2. desk[d].method = "RANDOM_SYSTEM" => \A a \in desk[d].awards : Paid(a.buyer)
    BY <1>2 DEF DrawCommit, PayersInv, AwardsPaid
  <2>3. ASSUME NEW w \in winners'
        PROVE  /\ w.draw \in Drawn'
               /\ draws'[w.draw] = "RANDOM_SYSTEM" => Paid(w.buyer)
    <3>1. CASE w \in winners
      <4>1. w.draw \in Drawn /\ w.draw # i /\ w.draw \in Draws
        BY <1>b, <2>1, <3>1 DEF Drawn
      <4> QED BY <1>b, <2>1, <3>1, <4>1
    <3>2. CASE w \notin winners
      <4>1. PICK a \in desk[d].awards :
              w = [draw |-> i, prize |-> a.prize, ticket |-> a.ticket,
                   buyer |-> a.buyer, published |-> FALSE]
        BY <2>1, <3>2
      <4>2. w.draw = i /\ w.buyer = a.buyer BY <4>1
      <4> QED BY <2>1, <2>2, <4>2
    <3> QED BY <3>1, <3>2
  <2> QED BY <1>c, <2>3
<1>3. ASSUME NEW d \in Desks, ResultsCommit(d) PROVE WinnersOfDraws' /\ WinnersHavePaid'
  <2>1. UNCHANGED draws /\ Drawn' = Drawn BY <1>3 DEF ResultsCommit, Drawn
  <2> QED BY <1>3, <1>b, <1>c, <2>1, ResultsArePublished
<1>4. ASSUME NEW d \in Desks, Desk(d) PROVE WinnersOfDraws' /\ WinnersHavePaid'
  BY <1>1, <1>2, <1>3, <1>4, RowsOfTheDraw
<1>5. CASE SaleSide BY <1>1, <1>5 DEF SaleSide
<1> QED BY <1>4, <1>5, StepKinds

LEMMA PayersStep ==
    ASSUME TypeOK, DrawTypeOK, ApprovalInv, PayersInv, [DrawNext]_allVars
    PROVE  PayersInv'
<1>2. (\A d \in Desks : AwardsPaid(d))' BY AwardsPaidStep
<1> QED BY <1>2, WinnersPaidStep DEF PayersInv

(* Whoever wins a system draw has an approved payment, whatever reviews,     *)
(* releases and imports went on while the draw was made.                     *)
THEOREM OnlyPayersWin == DrawSpec => []WinnersHavePaid
<1>1. DrawInit => PayersInv
  BY DEF DrawInit, Start, NewTicket, AtRest, PayersInv, AwardsPaid,
     WinnersOfDraws, WinnersHavePaid
<1>2. PayersInv => WinnersHavePaid BY DEF PayersInv
<1> QED BY <1>1, <1>2, DrawStart, DrawTypeInit, SaleTypeStep, SaleApprovalStep,
           DrawTypeStep, PayersStep, PTL DEF DrawSpec

-----------------------------------------------------------------------------
(* Results come from a draw and are published *)

(* What desk d has found out is still so: a system draw in hand has a        *)
(* winner, results are published or archived after a draw, and a desk that   *)
(* has updated or found published all the winners there were has seen all    *)
(* there are, as long as there is one draw.                                  *)
DeskKnows(d) ==
    /\ desk[d].pc = "draw_commit" /\ desk[d].method = "RANDOM_SYSTEM" =>
         desk[d].awards # {}
    /\ desk[d].pc \in {"results_select", "results_commit", "archive"} => Drawn # {}
    /\ desk[d].pc = "results_commit" /\ OneDraw => Won \subseteq desk[d].locked
    /\ desk[d].pc = "archive" /\ OneDraw => \A w \in winners : w.published

(* The inductive invariant. *)
ResultsInv ==
    /\ \A d \in Desks : DeskKnows(d)
    /\ ResultsComeFromADraw
    /\ CompletedResultsArePublished

(* A sale's step leaves the lottery's status or makes it SELLING or CLOSED. *)
LEMMA SaleMovesTheLottery ==
    ASSUME TypeOK, [ImportNext]_vars
    PROVE  lottery'.status \in {lottery.status, "SELLING", "CLOSED"}
<1>1. CASE UNCHANGED lottery BY <1>1
<1>2. ASSUME NEW q \in Tasks, NEW chosen, StoreReservation(q, chosen)
      PROVE  lottery'.status \in {lottery.status, "SELLING", "CLOSED"}
  <2>1. lottery' \in {lottery, [lottery EXCEPT !.status = "SELLING"]}
    BY <1>2 DEF StoreReservation
  <2> QED BY <2>1 DEF TypeOK, LotteryRow
<1>3. ASSUME NEW q \in Tasks, FinalizeTx(q) \/ CloseWrite(q)
      PROVE  lottery'.status \in {lottery.status, "SELLING", "CLOSED"}
  BY <1>3 DEF FinalizeTx, CloseWrite, TypeOK, LotteryRow
<1>4. ASSUME NEW q \in Tasks,
             \/ SelectManually(q) \/ ReserveRefused(q) \/ CancelRead(q) \/ CancelTx(q)
             \/ ConfirmRead(q) \/ ConfirmTx(q) \/ FinalizeRead(q)
             \/ CreatePayment(q) \/ CreatePaymentRefused(q) \/ DuplicateSlipCheck(q)
             \/ StoreSlip(q) \/ VerifySlip(q) \/ StoreVerdict(q) \/ ApproveWrite(q)
             \/ RejectWrite(q) \/ RejectRelease(q) \/ WriteAudit(q)
             \/ RefundWrite(q) \/ UnderReviewWrite(q) \/ DeleteWrite(q)
             \/ RestoreWrite(q)
      PROVE  UNCHANGED lottery
  BY <1>4 DEF SelectManually, ReserveRefused, CancelRead, CancelTx, ConfirmRead,
     ConfirmTx, FinalizeRead, CreatePayment, CreatePaymentRefused, DuplicateSlipCheck,
     StoreSlip, VerifySlip, StoreVerdict, ApproveWrite, RejectWrite, RejectRelease,
     WriteAudit, RefundWrite, UnderReviewWrite, DeleteWrite, RestoreWrite, rows
<1>5. ASSUME NEW q \in Tasks, Begin(q) \/ ExpireRead(q) \/ Fail(q)
      PROVE  UNCHANGED lottery
  BY <1>5 DEF Begin, ReserveRead, CancelRequest, InitiateRead, UploadRead, ApproveRead,
     RejectRead, RefundRead, UnderReviewRead, DeleteRead, RestoreRead, CloseRead,
     Review, ExpireRead, Fail, ReserveCommitFails, Throws, rows
<1>6. ASSUME NEW q \in Tasks, Continue(q)
      PROVE  lottery'.status \in {lottery.status, "SELLING", "CLOSED"}
  <2>1. CASE ReserveManually(q) \/ ReserveRandomly(q)
    BY <1>2, <2>1 DEF ReserveManually, ReserveRandomly
  <2>2. CASE FinalizeTx(q) \/ CloseWrite(q) BY <1>3, <2>2
  <2>3. CASE ~(ReserveManually(q) \/ ReserveRandomly(q) \/ FinalizeTx(q) \/ CloseWrite(q))
    BY <1>4, <1>6, <2>3 DEF Continue
  <2> QED BY <2>1, <2>2, <2>3
<1>7. CASE Tick \/ Crash \/ UNCHANGED vars
  BY <1>7 DEF Tick, Crash, rows, vars
<1>8. ASSUME NEW q \in Tasks, Imported(q)
      PROVE  lottery'.status = lottery.status
  <2>1. CASE ImportCreate(q) \/ BulkCreate(q) BY <2>1, CreationWrites
  <2>2. CASE BulkTx(q) BY <2>2 DEF BulkTx, TypeOK, LotteryRow
  <2>3. CASE ~(ImportCreate(q) \/ BulkCreate(q) \/ BulkTx(q))
    BY <1>8, <2>3 DEF Imported, ImportContinue, ImportRead, BulkRead, ImportListed,
       ImportCount, ImportPick, ImportAssign, ImportSubmit, ImportApprove, BulkPick,
       BulkShort, rows
  <2> QED BY <2>1, <2>2, <2>3
<1> QED BY <1>1, <1>5, <1>6, <1>7, <1>8, ImportStepKinds DEF Next

(* Draws are never removed; while there is one, no winner is added and none  *)
(* is taken back.                                                            *)
LEMMA DrawnGrows ==
    ASSUME DrawTypeOK, [DrawNext]_allVars
    PROVE  /\ Drawn \subseteq Drawn'
           /\ Drawn # {} /\ OneDraw' => OneDraw /\ Won' \subseteq Won
           /\ (\A w \in winners : w.published) /\ Drawn # {} /\ OneDraw' =>
                \A w \in winners' : w.published
<1>1. CASE UNCHANGED <<draws, winners>> BY <1>1 DEF Drawn, Won, OneDraw
<1>2. ASSUME NEW d \in Desks, DrawCommit(d)
      PROVE  Drawn \subseteq Drawn' /\ (Drawn # {} => ~OneDraw')
  BY <1>2, DrawIsRecorded DEF OneDraw
<1>3. ASSUME NEW d \in Desks, ResultsCommit(d)
      PROVE  /\ Drawn' = Drawn /\ Won' \subseteq Won
             /\ (\A w \in winners : w.published) => \A w \in winners' : w.published
  <2>1. Drawn' = Drawn BY <1>3 DEF ResultsCommit, Drawn
  <2>2. ASSUME NEW w \in winners'
        PROVE  \E v \in winners :
                 w.ticket = v.ticket /\ (v.published => w.published)
    BY <1>3, ResultsArePublished
  <2> QED BY <2>1, <2>2 DEF Won
<1>4. ASSUME NEW d \in Desks, Desk(d), ~DrawCommit(d), ~ResultsCommit(d)
      PROVE  UNCHANGED <<draws, winners>>
  BY <1>4, RowsOfTheDraw
<1>5. Drawn \subseteq Drawn' BY <1>1, <1>2, <1>3, <1>4, StepKinds DEF SaleSide
<1>6. OneDraw' => OneDraw BY <1>5 DEF OneDraw
<1> QED BY <1>1, <1>2, <1>3, <1>4, <1>5, <1>6, StepKinds DEF SaleSide

(* A shuffle of something for something gives a winner. *)
LEMMA AwardsNotEmpty ==
    ASSUME TypeOK, ~NothingToDraw, NEW order \in Shuffles(Drawable)
    PROVE  Awards(order) # {}
<1>1. IsFiniteSet(Drawable)
  BY FS_Subset, StoreAssumption DEF StoreAssumption, Drawable
<1>2. Cardinality(Drawable) \in Nat /\ Cardinality(Drawable) # 0
  BY <1>1, FS_CardinalityType, FS_EmptySet DEF NothingToDraw
<1>3. Len(PrizeSlots) \in Nat /\ Len(PrizeSlots) # 0
  BY DrawAssumption DEF DrawAssumption, NothingToDraw
<1>4. 1 \in DOMAIN order BY <1>2, <1>3 DEF Shuffles
<1> QED BY <1>4 DEF Awards

LEMMA DeskKnowsStep ==
    ASSUME TypeOK, DrawTypeOK, ResultsInv, [DrawNext]_allVars, NEW e \in Desks
    PROVE  DeskKnows(e)'
<1>1. ASSUME desk'[e] = desk[e] PROVE DeskKnows(e)'
  <2>1. DeskKnows(e) BY DEF ResultsInv
  <2> QED BY <1>1, <2>1, DrawnGrows DEF DeskKnows
<1>2. ASSUME desk'[e].pc \notin {"draw_commit", "results_select", "results_commit",
                                 "archive"}
      PROVE  DeskKnows(e)'
  BY <1>2 DEF DeskKnows
<1>3. CASE SaleSide BY <1>1, <1>2, <1>3 DEF SaleSide, AtRest
<1>4. ASSUME NEW d \in Desks, Desk(d) PROVE DeskKnows(e)'
  <2>1. CASE d # e BY <1>1, <1>4, <2>1, OtherDesks
  <2>2. CASE ExecuteSelect(e)
    <3>1. CASE Leave(e) BY <1>2, <3>1, LeaveIsIdle
    <3>2. ASSUME NEW order \in Shuffles(Drawable), ~NothingToDraw,
                 desk' = [desk EXCEPT ![e].pc = "draw_commit",
                                      ![e].awards = Awards(order)]
          PROVE  DeskKnows(e)'
      <4>1. desk'[e].awards = Awards(order) /\ desk'[e].pc = "draw_commit"
        BY <3>2 DEF DrawTypeOK, DeskRow
      <4> QED BY <3>2, <4>1, AwardsNotEmpty DEF DeskKnows
    <3> QED BY <2>2, <3>1, <3>2 DEF ExecuteSelect
  <2>3. CASE ManualSelect(e)
    <3>1. desk'[e].method = "MANUAL" /\ desk'[e].pc = "draw_commit"
      BY <2>3 DEF ManualSelect, DrawTypeOK, DeskRow
    <3> QED BY <3>1 DEF DeskKnows
  <2>4. CASE ResultsRead(e)
    <3>1. desk'[e].pc = "results_select" /\ Drawn' = Drawn
      BY <2>4 DEF ResultsRead, Step, Drawn, DrawTypeOK, DeskRow
    <3>2. Drawn # {}
      BY <2>4 DEF ResultsRead, Finds, Publishable, ResultsInv, ResultsComeFromADraw
    <3> QED BY <3>1, <3>2 DEF DeskKnows
  <2>5. CASE ResultsSelect(e)
    <3>1. /\ desk[e].pc = "results_select" /\ desk'[e].pc = "results_commit"
          /\ desk'[e].locked = Won
      BY <2>5 DEF ResultsSelect, DrawTypeOK, DeskRow
    <3>2. Drawn' = Drawn /\ Won' = Won BY <2>5 DEF ResultsSelect, Drawn, Won
    <3>3. Drawn # {} BY <3>1 DEF ResultsInv, DeskKnows
    <3> QED BY <3>1, <3>2, <3>3 DEF DeskKnows
  <2>6. CASE LifeCycleRead(e)
    <3>1. UNCHANGED <<draws, winners>> BY <2>6 DEF LifeCycleRead
    <3>2. \/ desk'[e].pc \in {"publish", "delete"}
          \/ desk'[e].pc = "archive" /\ lottery.status = "COMPLETED"
      BY <2>6 DEF LifeCycleRead, Finds, Step, DrawTypeOK, DeskRow
    <3>3. ASSUME desk'[e].pc = "archive", lottery.status = "COMPLETED"
          PROVE  DeskKnows(e)'
      <4>1. Drawn # {} BY <3>3 DEF ResultsInv, ResultsComeFromADraw
      <4>2. OneDraw => \A w \in winners : w.published
        BY <3>3 DEF ResultsInv, CompletedResultsArePublished
      <4>3. Drawn' = Drawn /\ (OneDraw' => OneDraw) BY <3>1, <4>1, DrawnGrows DEF Drawn
      <4> QED BY <3>1, <3>3, <4>1, <4>2, <4>3 DEF DeskKnows
    <3> QED BY <1>2, <3>2, <3>3
  <2>7. CASE PublishLottery(e) \/ ArchiveLottery(e) \/ DeleteLottery(e)
             \/ DrawCheck(e) \/ DrawRead(e) \/ DrawCommit(e) \/ DrawRefused(e)
             \/ ResultsCommit(e) \/ DeskThrows(e)
    <3>1. \/ Leave(e) \/ Step(e, "draw_select")
          \/ desk'[e].pc = "draw_check"
      BY <2>7 DEF PublishLottery, ArchiveLottery, SetStatus, DeleteLottery, DrawCheck,
         DrawRead, DrawCommit, DrawRefused, ResultsCommit, DeskThrows, DrawTypeOK, DeskRow
    <3>2. desk'[e].pc \in {"idle", "draw_select", "draw_check"}
      BY <3>1, LeaveIsIdle DEF Step, DrawTypeOK, DeskRow
    <3> QED BY <1>2, <3>2
  <2> QED BY <1>4, <2>1, <2>2, <2>3, <2>4, <2>5, <2>6, <2>7 DEF Desk
<1> QED BY <1>3, <1>4, StepKinds

LEMMA ResultsStep ==
    ASSUME TypeOK, DrawTypeOK, WinnersOfDraws, ResultsInv, [DrawNext]_allVars
    PROVE  ResultsComeFromADraw' /\ CompletedResultsArePublished'
<1>1. ASSUME UNCHANGED <<draws, winners>>,
             lottery'.status \in {lottery.status, "SELLING", "CLOSED", "PUBLISHED"}
      PROVE  ResultsComeFromADraw' /\ CompletedResultsArePublished'
  <2>1. Drawn' = Drawn /\ (OneDraw' <=> OneDraw) BY <1>1 DEF Drawn, OneDraw
  <2> QED BY <1>1, <2>1 DEF ResultsInv, ResultsComeFromADraw, CompletedResultsArePublished
<1>2. CASE SaleSide BY <1>1, <1>2, SaleMovesTheLottery DEF SaleSide
<1>3. ASSUME NEW d \in Desks, DrawCommit(d)
      PROVE  ResultsComeFromADraw' /\ CompletedResultsArePublished'
  <2>1. PICK i \in Draws :
          /\ i \notin Drawn /\ Drawn' = Drawn \cup {i}
          /\ draws'[i] = desk[d].method
          /\ \A j \in Draws : j # i => draws'[j] = draws[j]
          /\ winners' = winners \cup
               {[draw |-> i, prize |-> a.prize, ticket |-> a.ticket,
                 buyer |-> a.buyer, published |-> FALSE] : a \in desk[d].awards}
    BY <1>3, DrawIsRecorded
  <2>2. lottery'.status = "DRAWING" BY <1>3 DEF DrawCommit, TypeOK, LotteryRow
  <2>3. ASSUME draws'[i] = "RANDOM_SYSTEM" PROVE \E w \in winners' : w.draw = i
    <3>1. PICK a \in desk[d].awards : TRUE
      BY <1>3, <2>1, <2>3 DEF DrawCommit, ResultsInv, DeskKnows
    <3> DEFINE w == [draw |-> i, prize |-> a.prize, ticket |-> a.ticket,
                     buyer |-> a.buyer, published |-> FALSE]
    <3>2. w \in winners' /\ w.draw = i BY <2>1
    <3> QED BY <3>2
  <2>4. ASSUME NEW j \in Drawn, draws'[j] = "RANDOM_SYSTEM"
        PROVE  \E w \in winners' : w.draw = j
    <3>1. draws[j] = "RANDOM_SYSTEM" BY <2>1, <2>4 DEF Drawn
    <3> QED BY <2>1, <3>1 DEF ResultsInv, ResultsComeFromADraw
  <2> QED BY <2>1, <2>2, <2>3, <2>4 DEF ResultsComeFromADraw, CompletedResultsArePublished
<1>4. ASSUME NEW d \in Desks, ResultsCommit(d)
      PROVE  ResultsComeFromADraw' /\ CompletedResultsArePublished'
  <2>1. UNCHANGED draws /\ Drawn' = Drawn /\ (OneDraw' <=> OneDraw)
    BY <1>4 DEF ResultsCommit, Drawn, OneDraw
  <2>2. Drawn # {} /\ (OneDraw => Won \subseteq desk[d].locked)
    BY <1>4 DEF ResultsCommit, ResultsInv, DeskKnows
  <2>3. ASSUME NEW v \in winners PROVE \E w \in winners' : w.draw = v.draw
    <3>1. v \in WinnerRow BY DEF DrawTypeOK
    <3> DEFINE w == [v EXCEPT !.published = @ \/ v.ticket \in desk[d].locked]
    <3>2. w \in winners' BY <1>4 DEF ResultsCommit
    <3>3. w.draw = v.draw BY <3>1 DEF WinnerRow
    <3> QED BY <3>2, <3>3
  <2>4. ASSUME OneDraw, NEW w \in winners' PROVE w.published
    <3>1. PICK v \in winners : w.published = (v.published \/ v.ticket \in desk[d].locked)
      BY <1>4, ResultsArePublished
    <3>2. v.ticket \in Won BY DEF Won
    <3> QED BY <2>2, <2>4, <3>1, <3>2
  <2> QED BY <2>1, <2>2, <2>3, <2>4
      DEF ResultsInv, ResultsComeFromADraw, CompletedResultsArePublished
<1>5. ASSUME NEW d \in Desks, ArchiveLottery(d)
      PROVE  ResultsComeFromADraw' /\ CompletedResultsArePublished'
  <2>1. UNCHANGED <<draws, winners>> /\ Drawn' = Drawn /\ (OneDraw' <=> OneDraw)
    BY <1>5 DEF ArchiveLottery, SetStatus, Drawn, OneDraw
  <2>2. Drawn # {} /\ (OneDraw => \A w \in winners : w.published)
    BY <1>5 DEF ArchiveLottery, ResultsInv, DeskKnows
  <2> QED BY <2>1, <2>2 DEF ResultsInv, ResultsComeFromADraw, CompletedResultsArePublished
<1>6. ASSUME NEW d \in Desks, Desk(d)
      PROVE  ResultsComeFromADraw' /\ CompletedResultsArePublished'
  <2>1. CASE DrawCommit(d) \/ ResultsCommit(d) \/ ArchiveLottery(d)
    BY <1>3, <1>4, <1>5, <2>1
  <2>2. CASE ~(DrawCommit(d) \/ ResultsCommit(d) \/ ArchiveLottery(d))
    <3>1. UNCHANGED <<draws, winners>> BY <1>6, <2>2, RowsOfTheDraw
    <3>2. lottery'.status \in {lottery.status, "PUBLISHED"}
      BY <1>6, <2>2 DEF Desk, LifeCycleRead, PublishLottery, SetStatus, DeleteLottery,
         DrawRead, DrawCheck, ExecuteSelect, ManualSelect, DrawRefused, ResultsRead,
         ResultsSelect, DeskThrows, TypeOK, LotteryRow
    <3> QED BY <1>1, <3>1, <3>2
  <2> QED BY <2>1, <2>2
<1> QED BY <1>2, <1>6, StepKinds

LEMMA ResultsInvariant == DrawSpec => []ResultsInv
<1>1. DrawInit => PayersInv /\ ResultsInv
  BY DEF DrawInit, Start, NewTicket, NewLottery, AtRest, PayersInv,
     AwardsPaid, WinnersOfDraws, WinnersHavePaid, ResultsInv, DeskKnows, Drawn,
     ResultsComeFromADraw, CompletedResultsArePublished
<1>2. ASSUME TypeOK, DrawTypeOK, PayersInv, ResultsInv, [DrawNext]_allVars
      PROVE  ResultsInv'
  <2>1. (\A d \in Desks : DeskKnows(d))' BY <1>2, DeskKnowsStep
  <2>2. ResultsComeFromADraw' /\ CompletedResultsArePublished'
    BY <1>2, ResultsStep DEF PayersInv
  <2> QED BY <2>1, <2>2 DEF ResultsInv
<1> QED BY <1>1, <1>2, DrawStart, DrawTypeInit, SaleTypeStep, SaleApprovalStep,
           DrawTypeStep, PayersStep, PTL DEF DrawSpec

(* A lottery is drawing, completed or archived only after a draw, and every  *)
(* system draw has a winner.                                                 *)
THEOREM DrawsComeFirst == DrawSpec => []ResultsComeFromADraw
<1>1. ResultsInv => ResultsComeFromADraw BY DEF ResultsInv
<1> QED BY <1>1, ResultsInvariant, PTL

(* With one draw, completing and archiving a lottery leave no winner         *)
(* unpublished.                                                              *)
THEOREM NoWinnerIsForgotten == DrawSpec => []CompletedResultsArePublished
<1>1. ResultsInv => CompletedResultsArePublished BY DEF ResultsInv
<1> QED BY <1>1, ResultsInvariant, PTL

-----------------------------------------------------------------------------
(* Late draws are refused *)

(* The desks that have found no earlier draw and may still record one. *)
Racing == {d \in Desks : desk[d].pc \in {"draw_select", "draw_commit"}}

(* The inductive invariant: a desk that records a draw stops racing, and     *)
(* none starts to race once a draw is recorded.                              *)
RaceInv ==
    /\ IsFiniteSet(Drawn)
    /\ Cardinality(Drawn) + Cardinality(Racing) <= Cardinality(Desks)

LEMMA RacingIsFinite ==
    /\ Cardinality(Desks) \in Nat
    /\ IsFiniteSet(Racing) /\ Cardinality(Racing) \in Nat
    /\ Cardinality(Racing) <= Cardinality(Desks)
<1>1. IsFiniteSet(Desks) BY DrawAssumption DEF DrawAssumption
<1>2. Racing \in SUBSET Desks BY DEF Racing
<1> QED BY <1>1, <1>2, FS_Subset, FS_CardinalityType

(* A desk begins to race only when no draw is recorded. *)
LEMMA RaceBegins ==
    ASSUME DrawTypeOK, NEW d \in Desks, Desk(d), d \in Racing', d \notin Racing
    PROVE  Drawn = {}
<1>1. desk'[d].pc \in {"draw_select", "draw_commit"} BY DEF Racing
<1>2. CASE \/ ExecuteSelect(d) \/ ManualSelect(d)
  BY <1>2 DEF ExecuteSelect, ManualSelect, Racing
<1>3. CASE DrawCheck(d)
  <2>1. ~Leave(d) BY <1>1, LeaveIsIdle
  <2> QED BY <1>3, <2>1 DEF DrawCheck, AlreadyDrawn
<1>4. CASE PublishLottery(d) \/ ArchiveLottery(d) \/ DeleteLottery(d) \/ DrawCommit(d)
           \/ DrawRefused(d) \/ ResultsCommit(d) \/ DeskThrows(d)
  <2>1. Leave(d)
    BY <1>4 DEF PublishLottery, ArchiveLottery, SetStatus, DeleteLottery, DrawCommit,
       DrawRefused, ResultsCommit, DeskThrows
  <2> QED BY <1>1, <2>1, LeaveIsIdle
<1>5. CASE LifeCycleRead(d) \/ ResultsRead(d)
  <2>1. PICK pc \in {"publish", "delete", "archive", "results_select"} : Step(d, pc)
    BY <1>5 DEF LifeCycleRead, ResultsRead
  <2>2. desk'[d].pc = pc BY <2>1 DEF Step, DrawTypeOK, DeskRow
  <2> QED BY <1>1, <2>2
<1>6. CASE DrawRead(d)
  <2>1. desk'[d].pc = "draw_check" BY <1>6 DEF DrawRead, DrawTypeOK, DeskRow
  <2> QED BY <1>1, <2>1
<1>7. CASE ResultsSelect(d)
  <2>1. desk'[d].pc = "results_commit" BY <1>7 DEF ResultsSelect, DrawTypeOK, DeskRow
  <2> QED BY <1>1, <2>1
<1> QED BY <1>2, <1>3, <1>4, <1>5, <1>6, <1>7 DEF Desk

LEMMA RaceStep ==
    ASSUME DrawTypeOK, RaceInv, [DrawNext]_allVars PROVE RaceInv'
<1>0. Cardinality(Drawn) \in Nat BY FS_CardinalityType DEF RaceInv
<1>1. ASSUME Drawn' = Drawn, Racing' \subseteq Racing PROVE RaceInv'
  <2>1. Cardinality(Racing') <= Cardinality(Racing) /\ Cardinality(Racing') \in Nat
    <3>1. Racing' \in SUBSET Racing BY <1>1
    <3> QED BY <3>1, RacingIsFinite, FS_Subset, FS_CardinalityType
  <2> QED BY <1>0, <1>1, <2>1, RacingIsFinite DEF RaceInv
<1>2. CASE SaleSide
  <2>1. Racing' \subseteq Racing BY <1>2 DEF SaleSide, AtRest, Racing
  <2> QED BY <1>1, <1>2, <2>1 DEF SaleSide, Drawn
<1>3. ASSUME NEW d \in Desks, DrawCommit(d) PROVE RaceInv'
  <2>1. PICK i : i \notin Drawn /\ Drawn' = Drawn \cup {i} BY <1>3, DrawIsRecorded
  <2>2. IsFiniteSet(Drawn') /\ Cardinality(Drawn') = Cardinality(Drawn) + 1
    BY <2>1, FS_AddElement DEF RaceInv
  <2>3. d \in Racing /\ Racing' = Racing \ {d}
    <3>1. d \in Racing BY <1>3 DEF DrawCommit, Racing
    <3>2. desk'[d].pc = "idle" BY <1>3, LeaveIsIdle DEF DrawCommit
    <3>3. \A e \in Desks : e # d => desk'[e] = desk[e] BY <1>3, OtherDesks DEF Desk
    <3> QED BY <3>1, <3>2, <3>3 DEF Racing
  <2>4. Cardinality(Racing') = Cardinality(Racing) - 1
    BY <2>3, RacingIsFinite, FS_RemoveElement
  <2> QED BY <1>0, <2>2, <2>4, RacingIsFinite DEF RaceInv
<1>4. ASSUME NEW d \in Desks, Desk(d), ~DrawCommit(d) PROVE RaceInv'
  <2>1. Drawn' = Drawn
    <3>1. UNCHANGED draws BY <1>4, RowsOfTheDraw DEF ResultsCommit
    <3> QED BY <3>1 DEF Drawn
  <2>2. \A e \in Desks : e # d => desk'[e] = desk[e] BY <1>4, OtherDesks
  <2>3. CASE Racing' \subseteq Racing BY <1>1, <2>1, <2>3
  <2>4. CASE ~(Racing' \subseteq Racing)
    <3>1. d \in Racing' /\ d \notin Racing BY <2>2, <2>4 DEF Racing
    <3>2. Drawn = {} BY <1>4, <3>1, RaceBegins
    <3>3. Cardinality(Racing') <= Cardinality(Desks) /\ Cardinality(Racing') \in Nat
      <4>1. Racing' \in SUBSET Desks BY DEF Racing
      <4>2. IsFiniteSet(Desks) BY DrawAssumption DEF DrawAssumption
      <4> QED BY <4>1, <4>2, FS_Subset, FS_CardinalityType
    <3> QED BY <2>1, <3>2, <3>3, FS_EmptySet, RacingIsFinite DEF RaceInv
  <2> QED BY <2>3, <2>4
<1> QED BY <1>2, <1>3, <1>4, StepKinds

LEMMA RaceInvariant == DrawSpec => []RaceInv
<1>1. DrawInit => RaceInv
  <2> SUFFICES ASSUME DrawInit PROVE RaceInv OBVIOUS
  <2>1. Drawn = {} /\ Racing = {} BY DEF DrawInit, Drawn, AtRest, Racing
  <2> QED BY <2>1, FS_EmptySet, RacingIsFinite DEF RaceInv
<1> QED BY <1>1, RaceStep, DrawTypeCorrect, PTL DEF DrawSpec

(* At most one draw is recorded for each request that can be in flight, for  *)
(* every number of them and however often the lottery is reopened, closed    *)
(* and drawn again.                                                          *)
THEOREM LateDrawsAreTurnedAway == DrawSpec => []LateDrawsAreRefused
<1>1. RaceInv => LateDrawsAreRefused
  BY RacingIsFinite, FS_CardinalityType DEF RaceInv, LateDrawsAreRefused
<1> QED BY <1>1, RaceInvariant, PTL

(* Where the client's requests do not overlap, results are final: only two   *)
(* draws in flight at once add winners to a recorded draw.                   *)
THEOREM LoneDrawsAreFinal ==
    ASSUME Cardinality(Desks) = 1 PROVE DrawSpec => ResultsAreFinal
<1> DEFINE Final == Drawn # {} => Won' = Won
<1>1. ASSUME DrawTypeOK, RaceInv, [DrawNext]_allVars PROVE Final
  <2>1. ASSUME NEW d \in Desks, DrawCommit(d), Drawn # {} PROVE FALSE
    <3>1. d \in Racing BY <2>1 DEF DrawCommit, Racing
    <3>2. Cardinality(Racing) # 0 /\ Cardinality(Drawn) # 0
      BY <2>1, <3>1, <1>1, RacingIsFinite, FS_EmptySet DEF RaceInv
    <3>3. Cardinality(Drawn) \in Nat BY <1>1, FS_CardinalityType DEF RaceInv
    <3> QED BY <1>1, <3>2, <3>3, RacingIsFinite DEF RaceInv
  <2>2. ASSUME NEW d \in Desks, ResultsCommit(d) PROVE Won' = Won
    <3>1. Won' \subseteq Won BY <1>1, <2>2, ResultsArePublished DEF Won
    <3>2. ASSUME NEW v \in winners PROVE v.ticket \in Won'
      <4>1. v \in WinnerRow BY <1>1 DEF DrawTypeOK
      <4> DEFINE w == [v EXCEPT !.published = @ \/ v.ticket \in desk[d].locked]
      <4>2. w \in winners' BY <2>2 DEF ResultsCommit
      <4>3. w.ticket = v.ticket BY <4>1 DEF WinnerRow
      <4> QED BY <4>2, <4>3 DEF Won
    <3> QED BY <3>1, <3>2 DEF Won
  <2>3. ASSUME UNCHANGED winners PROVE Won' = Won BY <2>3 DEF Won
  <2> QED BY <1>1, <2>1, <2>2, <2>3, RowsOfTheDraw, StepKinds DEF SaleSide
<1>2. DrawTypeOK /\ RaceInv /\ [DrawNext]_allVars => [Final]_allVars BY <1>1
<1> QED BY <1>2, DrawTypeCorrect, RaceInvariant, PTL DEF DrawSpec, ResultsAreFinal
=============================================================================
