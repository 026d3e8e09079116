----------------------------- MODULE Catalogue -----------------------------
(***************************************************************************)
(* What an operator edits of one lottery: creation with its pre-generated  *)
(* tickets, the ticket range, prizes, publication and the rest of the life *)
(* cycle, images, banner and logo (modules/lottery/lottery.service.ts), on *)
(* top of the files of FileService (modules/files/file.service.ts).  The   *)
(* sale itself is TicketSales, the draw LotteryDraw; of their handlers     *)
(* this module keeps how they read and write the lottery's status.         *)
(***************************************************************************)
EXTENDS Integers, FiniteSets

CONSTANTS
    Files, Images, Prizes, null,
    Owners,        \* clients; the platform's bank accounts have no owner
    Banks, BankNames, BankAccounts, Exports,
    Contains,      \* pairs <<n, m>> of bank names: n contains m, case aside
    Starts, Totals,    \* dto.ticketStart, dto.totalTickets
    BatchSize,     \* BATCH_SIZE of preGenerateTickets
    MaxImages,     \* MAX_IMAGES of addImage
    Requests,      \* slots for concurrent handlers
    OfficeOps,     \* the handlers called in this instance
    MaxRequests,   \* bound: handlers called
    MaxFaults      \* bound: database calls that fail

CatalogueOps == {"create", "edit", "addPrize", "deletePrize", "publish", "close",
                 "archive", "delete", "addImage", "deleteImage", "banner", "logo",
                 "reserve", "draw", "results"}
AccountOps == {"addAccount", "dropAccount", "moveAccount"}
AllOfficeOps == CatalogueOps \cup AccountOps \cup {"export"}

ASSUME CatalogueAssumption ==
    /\ Starts \subseteq Nat /\ Totals \subseteq Nat \ {0}
    /\ {BatchSize, MaxImages} \subseteq Nat \ {0}
    /\ {MaxRequests, MaxFaults} \subseteq Nat
    /\ null \notin Files \cup Images \cup Prizes \cup Owners \cup Banks \cup
                   BankNames \cup BankAccounts \cup Exports \cup Int
    /\ Contains \subseteq BankNames \X BankNames /\ \A n \in BankNames : <<n, n>> \in Contains
    /\ OfficeOps \subseteq AllOfficeOps
    /\ IsFiniteSet(Requests)

VARIABLES
    lot,       \* the Lottery row
    numbers,   \* LotteryTicket.ticketNumber of its tickets
    prizes,    \* its LotteryPrize rows
    image,     \* LotteryImage rows: the file each shows, or null if there is none
    logo,      \* client.logo
    disk,      \* files written below uploads/
    files,     \* File rows
    req,       \* in-flight handlers
    requests,  \* number of handlers called so far
    faults,    \* number of failed database calls so far
    late,      \* history: the last edit of the range had not read the one before
    edited     \* history: the range was edited

catalogueRows == <<lot, numbers, prizes, image, logo, disk, files>>
history == <<late, edited>>
catalogueVars == <<catalogueRows, req, requests, faults, history>>

-----------------------------------------------------------------------------
(* Rows *)

LifeCycle == <<"NONE", "DRAFT", "PUBLISHED", "SELLING", "CLOSED", "DRAWING",
               "COMPLETED", "ARCHIVED">>
LotStatus == {LifeCycle[i] : i \in DOMAIN LifeCycle}
Rank(status) == CHOOSE i \in DOMAIN LifeCycle : LifeCycle[i] = status

(* NONE: the row has not been created. *)
LotRow == [status : LotStatus, deleted : BOOLEAN, start : Nat, total : Nat,
           end : Int, banner : Files \cup {null}]

ReqPcs == {"idle", "create_tx", "edit_write", "prize_write", "prize_delete",
           "publish_count", "publish_write", "close_write", "archive_write",
           "sell_write", "draw_write", "results_write", "delete_write", "upload",
           "image_create", "image_delete", "banner_write", "logo_write", "bank_create",
           "default_unset", "account_create", "account_drop", "account_move",
           "export_enqueue"}

(* stale: since this handler read them, another edit of the range was stored *)
(* (of an edit), or a prize was deleted (of a publication that has counted). *)
ReqRow == [pc : ReqPcs, op : AllOfficeOps \cup {"none"}, seen : LotStatus,
           start : Nat \cup {null}, total : Nat \cup {null}, end : Int,
           item : Files \cup Images \cup Prizes \cup BankAccounts \cup Exports \cup {null},
           owner : Owners \cup {null}, bank : Banks \cup {null},
           name : BankNames \cup {null}, default : BOOLEAN, stale : BOOLEAN]

NoReq == [pc |-> "idle", op |-> "none", seen |-> "NONE", start |-> null, total |-> null,
          end |-> 0, item |-> null, owner |-> null, bank |-> null, name |-> null,
          default |-> FALSE, stale |-> FALSE]

CatalogueInit ==
    /\ lot = [status |-> "NONE", deleted |-> FALSE, start |-> 0, total |-> 0,
              end |-> -1, banner |-> null]
    /\ numbers = {}
    /\ prizes = {}
    /\ image = [i \in Images |-> null]
    /\ logo = null
    /\ disk = {}
    /\ files = {}
    /\ req = [q \in Requests |-> NoReq]
    /\ requests = 0
    /\ faults = 0
    /\ late = FALSE /\ edited = FALSE

-----------------------------------------------------------------------------
(* Handlers *)

At(q, pc) == req[q].pc = pc

Begins(q, op, rec) ==
    /\ At(q, "idle") /\ op \in OfficeOps
    /\ req' = [req EXCEPT ![q] = [rec EXCEPT !.op = op]]
    /\ UNCHANGED <<faults, history>>

Takes(q, op, rec) ==
    /\ requests < MaxRequests /\ requests' = requests + 1
    /\ Begins(q, op, rec)

Move(q, rec) == req' = [req EXCEPT ![q] = rec] /\ UNCHANGED <<requests, faults>>
Step(q, pc)  == Move(q, [req[q] EXCEPT !.pc = pc]) /\ UNCHANGED history
Answer(q)    == Move(q, NoReq) /\ UNCHANGED history

(* A row gets an id no other row has; which one does not matter.             *)
Fresh(ids, used) == CHOOSE id \in ids \ used : TRUE
Free(ids, used)  == ids \ used # {}

(* getLottery, and the lookups of the image handlers. *)
Found == lot.status # "NONE" /\ ~lot.deleted

(* A handler that reads the lottery and goes on only in one of statuses.     *)
Guarded(q, op, pc, statuses) ==
    /\ Found /\ lot.status \in statuses
    /\ Takes(q, op, [NoReq EXCEPT !.pc = pc, !.seen = lot.status])
    /\ UNCHANGED catalogueRows

-----------------------------------------------------------------------------
(* createLottery and preGenerateTickets *)

(* The numbers of batch b, and those of all batches. *)
BatchNumbers(b, start, total) ==
    start + b * BatchSize ..
        (IF start + (b + 1) * BatchSize - 1 < start + total - 1
         THEN start + (b + 1) * BatchSize - 1 ELSE start + total - 1)

Batches(total) == (total + BatchSize - 1) \div BatchSize

Generated(start, total) ==
    UNION {BatchNumbers(b, start, total) : b \in 0 .. Batches(total) - 1}

(* The subscription is validated (Subscriptions) and the range with it.  One *)
(* lottery is created: another row would be another instance.                *)
CreateRead(q) ==
    /\ lot.status = "NONE" /\ \A p \in Requests : ~At(p, "create_tx")
    /\ \E s \in Starts, n \in Totals :
        Takes(q, "create", [NoReq EXCEPT !.pc = "create_tx", !.start = s, !.total = n])
    /\ UNCHANGED catalogueRows

(* One transaction: the row, the prizes of the request, the tickets.         *)
CreateTx(q) ==
    /\ At(q, "create_tx")
    /\ LET s == req[q].start
           n == req[q].total
       IN /\ lot' = [lot EXCEPT !.status = "DRAFT", !.start = s, !.total = n,
                                !.end = s + n - 1]
          /\ numbers' = Generated(s, n)
    /\ prizes' \in {{}} \cup {{p} : p \in Prizes}
    /\ Answer(q)
    /\ UNCHANGED <<image, logo, disk, files>>

-----------------------------------------------------------------------------
(* updateLottery *)

Chosen(value, current) == IF value = null THEN current ELSE value

(* dto.ticketEnd is left out: when it is given, the width check admits only  *)
(* the number computed here.  Variant: the end is computed from the width.   *)
NewEnd_TooFar(s, n) == Chosen(s, lot.start) + Chosen(n, lot.total)
NewEnd(s, n) == Chosen(s, lot.start) + Chosen(n, lot.total) - 1

EditRead(q) ==
    /\ Found /\ lot.status \in {"DRAFT", "PUBLISHED", "SELLING"}
    /\ \E s \in Starts \cup {null}, n \in Totals \cup {null} :
        Takes(q, "edit", [NoReq EXCEPT !.pc = "edit_write", !.seen = lot.status,
                                       !.start = s, !.total = n, !.end = NewEnd(s, n)])
    /\ UNCHANGED catalogueRows

(* ticketEnd is written also by an edit that names no range; the tickets     *)
(* stay as they were generated.                                              *)
EditWrite(q) ==
    /\ At(q, "edit_write")
    /\ lot' = [lot EXCEPT !.start = Chosen(req[q].start, @),
                          !.total = Chosen(req[q].total, @), !.end = req[q].end]
    /\ req' = [p \in Requests |->
                 IF p = q THEN NoReq
                 ELSE [req[p] EXCEPT !.stale = @ \/ At(p, "edit_write")]]
    /\ late' = req[q].stale
    /\ edited' = TRUE
    /\ UNCHANGED <<numbers, prizes, image, logo, disk, files, requests, faults>>

-----------------------------------------------------------------------------
(* Prizes *)

AddPrizeRead(q) == Guarded(q, "addPrize", "prize_write", LotStatus)

AddPrizeWrite(q) ==
    /\ At(q, "prize_write")
    /\ Free(Prizes, prizes)
    /\ prizes' = prizes \cup {Fresh(Prizes, prizes)}
    /\ Answer(q)
    /\ UNCHANGED <<lot, numbers, image, logo, disk, files>>

(* Neither the lottery's status nor the prize's lottery is asked for.        *)
DeletePrizeRead(q) ==
    /\ Found
    /\ \E p \in prizes : Takes(q, "deletePrize",
                               [NoReq EXCEPT !.pc = "prize_delete", !.item = p])
    /\ UNCHANGED catalogueRows

DeletePrizeWrite(q) ==
    /\ At(q, "prize_delete")
    /\ prizes' = prizes \ {req[q].item}
    /\ req' = [p \in Requests |->
                 IF p = q THEN NoReq
                 ELSE [req[p] EXCEPT !.stale = @ \/ (At(p, "publish_write") /\ req[q].item \in prizes)]]
    /\ UNCHANGED <<lot, numbers, image, logo, disk, files, requests, faults, history>>

-----------------------------------------------------------------------------
(* The life cycle *)

PublishRead(q) == Guarded(q, "publish", "publish_count", {"DRAFT"})

(* Variant: the count is not asked for. *)
HasPrizes_Unasked == TRUE
HasPrizes == prizes # {}

PublishCount(q) ==
    /\ At(q, "publish_count")
    /\ IF HasPrizes THEN Step(q, "publish_write") ELSE Answer(q)
    /\ UNCHANGED catalogueRows

(* closeLottery's guard.  Variant: a drawn lottery may be closed too.        *)
Closable_Drawn == {"SELLING", "PUBLISHED", "COMPLETED"}
Closable == {"SELLING", "PUBLISHED"}

CloseRead(q)   == Guarded(q, "close", "close_write", Closable)
ArchiveRead(q) == Guarded(q, "archive", "archive_write", {"COMPLETED"})
DeleteRead(q)  == Guarded(q, "delete", "delete_write", {"DRAFT"})

(* The status is written by id alone, whatever it is by now.                 *)
StatusWrite(q, pc, status) ==
    /\ At(q, pc)
    /\ lot' = [lot EXCEPT !.status = status]
    /\ Answer(q)
    /\ UNCHANGED <<numbers, prizes, image, logo, disk, files>>

PublishWrite(q) == StatusWrite(q, "publish_write", "PUBLISHED")
CloseWrite(q)   == StatusWrite(q, "close_write", "CLOSED")
ArchiveWrite(q) == StatusWrite(q, "archive_write", "ARCHIVED")

DeleteWrite(q) ==
    /\ At(q, "delete_write")
    /\ lot' = [lot EXCEPT !.deleted = TRUE]
    /\ Answer(q)
    /\ UNCHANGED <<numbers, prizes, image, logo, disk, files>>

(* reserveTickets, executeDraw and manualDraw, publishResults: each reads    *)
(* the lottery before its transaction, which writes the next status by id.   *)
(* They are not counted by MaxRequests.  A reservation that read SELLING     *)
(* does not write the lottery.                                               *)
SaleRead(q, op, pc, status) ==
    /\ Found /\ lot.status = status
    /\ Begins(q, op, [NoReq EXCEPT !.pc = pc, !.seen = status])
    /\ UNCHANGED <<catalogueRows, requests>>

ReserveRead(q) == SaleRead(q, "reserve", "sell_write", "PUBLISHED")
DrawRead(q)    == SaleRead(q, "draw", "draw_write", "CLOSED")
ResultsRead(q) == SaleRead(q, "results", "results_write", "DRAWING")

ReserveWrite(q) == StatusWrite(q, "sell_write", "SELLING")
DrawWrite(q)    == StatusWrite(q, "draw_write", "DRAWING")
ResultsWrite(q) == StatusWrite(q, "results_write", "COMPLETED")

-----------------------------------------------------------------------------
(* Files: uploadFile, and the handlers that upload *)

(* What uploadFile has done when its INSERT fails or the process stops: the  *)
(* bytes are on the disk.  Variant: the row is written before the bytes.     *)
LeftOver_RowFirst(f) == [onDisk |-> {}, inTable |-> {f}]
LeftOver(f) == [onDisk |-> {f}, inTable |-> {}]

(* Validation, the bytes, the File row; the handler goes on with its id.     *)
UploadStore(q) ==
    /\ At(q, "upload") /\ Free(Files, disk \cup files)
    /\ LET f == Fresh(Files, disk \cup files) IN
        /\ disk' = disk \cup {f}
        /\ files' = files \cup {f}
        /\ Move(q, [req[q] EXCEPT !.item = f,
                      !.pc = CASE req[q].op = "addImage" -> "image_create"
                               [] req[q].op = "banner"   -> "banner_write"
                               [] req[q].op = "logo"     -> "logo_write"])
    /\ UNCHANGED <<lot, numbers, prizes, image, logo, history>>

UploadFails(q) ==
    /\ At(q, "upload") /\ Free(Files, disk \cup files)
    /\ faults < MaxFaults /\ faults' = faults + 1
    /\ LET f == Fresh(Files, disk \cup files) IN
        /\ disk' = disk \cup LeftOver(f).onDisk
        /\ files' = files \cup LeftOver(f).inTable
    /\ req' = [req EXCEPT ![q] = NoReq]
    /\ UNCHANGED <<lot, numbers, prizes, image, logo, requests, history>>

Shown == {i \in Images : image[i] # null}

(* addImage's guard.  Variant: one too many is let through.                  *)
RoomForImage_OneMore == Cardinality(Shown) <= MaxImages
RoomForImage == Cardinality(Shown) < MaxImages

AddImageRead(q) ==
    /\ Found /\ RoomForImage
    /\ Takes(q, "addImage", [NoReq EXCEPT !.pc = "upload"])
    /\ UNCHANGED catalogueRows

AddImageCreate(q) ==
    /\ At(q, "image_create")
    /\ Free(Images, Shown)
    /\ image' = [image EXCEPT ![Fresh(Images, Shown)] = req[q].item]
    /\ Answer(q)
    /\ UNCHANGED <<lot, numbers, prizes, logo, disk, files>>

(* The file of a deleted image stays; a second deletion throws.              *)
DeleteImageRead(q) ==
    /\ Found
    /\ \E i \in Shown : Takes(q, "deleteImage",
                              [NoReq EXCEPT !.pc = "image_delete", !.item = i])
    /\ UNCHANGED catalogueRows

DeleteImageWrite(q) ==
    /\ At(q, "image_delete")
    /\ image' = [image EXCEPT ![req[q].item] = null]
    /\ Answer(q)
    /\ UNCHANGED <<lot, numbers, prizes, logo, disk, files>>

BannerRead(q) == Guarded(q, "banner", "upload", LotStatus)

BannerWrite(q) ==
    /\ At(q, "banner_write")
    /\ lot' = [lot EXCEPT !.banner = req[q].item]
    /\ Answer(q)
    /\ UNCHANGED <<numbers, prizes, image, logo, disk, files>>

LogoRead(q) == Takes(q, "logo", [NoReq EXCEPT !.pc = "upload"]) /\ UNCHANGED catalogueRows

LogoWrite(q) ==
    /\ At(q, "logo_write")
    /\ logo' = req[q].item
    /\ Answer(q)
    /\ UNCHANGED <<lot, numbers, prizes, image, disk, files>>

-----------------------------------------------------------------------------
CatalogueBegin(q) ==
    \/ CreateRead(q) \/ EditRead(q) \/ AddPrizeRead(q) \/ DeletePrizeRead(q)
    \/ PublishRead(q) \/ CloseRead(q) \/ ArchiveRead(q) \/ DeleteRead(q)
    \/ ReserveRead(q) \/ DrawRead(q) \/ ResultsRead(q)
    \/ AddImageRead(q) \/ DeleteImageRead(q) \/ BannerRead(q) \/ LogoRead(q)

CatalogueContinue(q) ==
    \/ CreateTx(q) \/ EditWrite(q) \/ AddPrizeWrite(q) \/ DeletePrizeWrite(q)
    \/ PublishCount(q) \/ PublishWrite(q) \/ CloseWrite(q) \/ ArchiveWrite(q)
    \/ ReserveWrite(q) \/ DrawWrite(q) \/ ResultsWrite(q)
    \/ DeleteWrite(q) \/ UploadStore(q) \/ UploadFails(q) \/ AddImageCreate(q)
    \/ DeleteImageWrite(q) \/ BannerWrite(q) \/ LogoWrite(q)

-----------------------------------------------------------------------------
(* Properties *)

(* Concurrent uploads pass MAX_IMAGES by at most one image for every other   *)
(* handler: the images are counted, the file is stored, and only then is the *)
(* image created (lottery.service.ts:325-339).                               *)
ImagesExceedTheMaximumByOverlapOnly ==
    Cardinality(Shown) < MaxImages + Cardinality(Requests)

(* What the portal shows can be downloaded: every image, banner and logo has *)
(* its File row and every File row its bytes, although an upload may fail    *)
(* between the two and the handler before it has used the file               *)
(* (file.service.ts:71-97, lottery.service.ts:297-344).                      *)
ShownFilesAreStored ==
    /\ files \subseteq disk
    /\ ({image[i] : i \in Images} \cup {lot.banner, logo}) \ {null} \subseteq files

(* ticketEnd stays the last number of the range as long as an edit has read  *)
(* what the edit before it wrote, also when it changes one bound and the     *)
(* other stays as it is; before the first edit the generated tickets are     *)
(* exactly that range, each number in one batch (lottery.service.ts:94-103,  *)
(* 151-180, 230-252).                                                        *)
RangeIsConsistent ==
    /\ ~late => lot.end = lot.start + lot.total - 1
    /\ ~edited => numbers = lot.start .. lot.end

(* A lottery is published without a prize only when deletePrize, which asks  *)
(* for no status, ran between publishLottery's count of the prizes and its   *)
(* write; publishLottery does not exclude that (lottery.service.ts:254-269,  *)
(* 394-397).                                                                 *)
UnprizedPublicationsWereOvertaken ==
    [][lot'.status = "PUBLISHED" /\ lot.status # "PUBLISHED" /\ prizes = {}
       => \E q \in Requests : /\ At(q, "publish_write") /\ req'[q].pc = "idle"
                              /\ req[q].stale]_catalogueVars

(* A lottery goes back in its life cycle, or is deleted after it was         *)
(* published, only by a handler that read its status before it changed:      *)
(* nobody who reads CLOSED, DRAWING or COMPLETED reopens the sale, but a     *)
(* reservation, a publication or a draw that read its status earlier can     *)
(* (lottery.service.ts:254-293, ticket.service.ts:117-124,                   *)
(* draw.service.ts:26-29, 127-131, 135-154, 205-213, 260-263).               *)
OnlyLateWritersUndoTheLifeCycle ==
    [][(\/ Rank(lot'.status) < Rank(lot.status)
        \/ lot'.deleted /\ ~lot.deleted /\ lot.status # "DRAFT")
       => \E q \in Requests : /\ req[q].pc # "idle" /\ req'[q].pc = "idle"
                              /\ req[q].seen # lot.status]_catalogueVars
=============================================================================
