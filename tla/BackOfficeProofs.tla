-------------------------- MODULE BackOfficeProofs --------------------------
(***************************************************************************)
(* The safety of the back office for every value of the constants: any     *)
(* numbers of requests and workers at once, files, images, accounts and    *)
(* exports, any batch size and limits.                                     *)
(***************************************************************************)
EXTENDS BackOffice, FiniteSetTheorems, TLAPS

-----------------------------------------------------------------------------
(* What a request in flight knows.                                           *)

Known(rec) ==
    /\ rec \in ReqRow
    /\ rec.pc = "create_tx" => rec.start \in Nat /\ rec.total \in Nat \ {0}
    /\ rec.pc \in {"publish_count", "publish_write", "delete_write"} => rec.seen = "DRAFT"
    /\ rec.pc = "close_write" => rec.seen \in Closable
    /\ rec.pc = "sell_write" => rec.seen = "PUBLISHED"
    /\ rec.pc = "draw_write" => rec.seen = "CLOSED"
    /\ rec.pc = "results_write" => rec.seen = "DRAWING"
    /\ rec.pc = "upload" => rec.op \in {"addImage", "banner", "logo"}
    /\ rec.pc \in {"image_create", "banner_write", "logo_write"} => rec.item \in Files
    /\ rec.pc = "image_create" => rec.op = "addImage"
    /\ rec.pc = "export_enqueue" => rec.item \in Exports
    /\ rec.pc \in {"default_unset", "account_create", "account_move"} => rec.bank \in Banks
    /\ rec.pc = "bank_create" => rec.name \in BankNames

(* The types, with what the slots know and a worker holds. *)
OfficeTypes ==
    /\ OfficeTypeOK
    /\ \A q \in Requests : Known(req[q])
    /\ \A w \in Workers : worker[w].pc # "idle" => worker[w].export \in Exports

(* Handlers of a lottery that exists. *)
FoundPcs == {"edit_write", "prize_write", "prize_delete", "publish_count", "publish_write",
             "close_write", "archive_write", "sell_write", "draw_write", "results_write",
             "delete_write"}

(* What holds of a record when a request puts it into its slot. *)
Entry(rec) ==
    /\ rec.pc \notin {"idle", "publish_write", "image_create", "banner_write", "logo_write"}
    /\ rec.pc = "create_tx" => lot.status = "NONE" /\ \A p \in Requests : ~At(p, "create_tx")
    /\ rec.pc \in FoundPcs => lot.status # "NONE"
    /\ rec.pc = "edit_write" => rec.end = NewEnd(rec.start, rec.total)
    /\ rec.pc = "upload" /\ rec.op = "addImage" => RoomForImage
    /\ rec.pc = "bank_create" => Named(rec.name) = {}
    /\ rec.pc = "account_create" => ~rec.default
    /\ rec.pc = "export_enqueue" => export[rec.item] = "NONE"

Enters(q, rec) ==
    /\ At(q, "idle") /\ req' = [req EXCEPT ![q] = rec]
    /\ Known(rec) /\ Entry(rec)
    /\ requests' \in {requests, requests + 1}
    /\ UNCHANGED <<catalogueRows, faults, history, bank, account, job, worker, crashes>>
    /\ IF rec.pc = "export_enqueue"
       THEN export' = [export EXCEPT ![rec.item] = "PENDING"]
       ELSE export' = export

LEMMA StatusFacts ==
    LotStatus = {"NONE", "DRAFT", "PUBLISHED", "SELLING", "CLOSED", "DRAWING", "COMPLETED",
                 "ARCHIVED"}
<1>1. DOMAIN LifeCycle = 1..8 BY DEF LifeCycle
<1>2. 1..8 = {1, 2, 3, 4, 5, 6, 7, 8} OBVIOUS
<1>3. LotStatus = {LifeCycle[1], LifeCycle[2], LifeCycle[3], LifeCycle[4], LifeCycle[5],
                   LifeCycle[6], LifeCycle[7], LifeCycle[8]}
  BY <1>1, <1>2 DEF LotStatus
<1> QED BY <1>3 DEF LifeCycle

LEMMA NoReqIsKnown == Known(NoReq) /\ NoReq.pc = "idle"
<1>1. NoReq \in ReqRow BY StatusFacts DEF NoReq, ReqRow, ReqPcs
<1> QED BY <1>1 DEF Known, NoReq

(* A record keeps its type when a column is written. *)
LEMMA RecordsTyped ==
    ASSUME NEW rec \in ReqRow
    PROVE  /\ \A pc \in ReqPcs : [rec EXCEPT !.pc = pc] \in ReqRow
           /\ \A op \in AllOfficeOps : [rec EXCEPT !.op = op] \in ReqRow
           /\ \A s \in LotStatus : [rec EXCEPT !.seen = s] \in ReqRow
           /\ \A n \in Nat \cup {null} : [rec EXCEPT !.start = n] \in ReqRow
           /\ \A n \in Nat \cup {null} : [rec EXCEPT !.total = n] \in ReqRow
           /\ \A n \in Int : [rec EXCEPT !.end = n] \in ReqRow
           /\ \A i \in Files \cup Images \cup Prizes \cup BankAccounts \cup Exports \cup {null} :
                [rec EXCEPT !.item = i] \in ReqRow
           /\ \A o \in Owners \cup {null} : [rec EXCEPT !.owner = o] \in ReqRow
           /\ \A b \in Banks : [rec EXCEPT !.bank = b] \in ReqRow
           /\ \A n \in BankNames : [rec EXCEPT !.name = n] \in ReqRow
           /\ \A d \in BOOLEAN : [rec EXCEPT !.default = d] \in ReqRow
           /\ \A d \in BOOLEAN : [rec EXCEPT !.stale = d] \in ReqRow
BY DEF ReqRow

LEMMA FreshFacts ==
    ASSUME NEW ids, NEW used, Free(ids, used)
    PROVE  Fresh(ids, used) \in ids \ used
BY DEF Free, Fresh

(* A handler that has read the lottery. *)
LEMMA GuardedEnters ==
    ASSUME OfficeTypes, NEW q \in Requests, NEW op \in AllOfficeOps,
           NEW pc \in FoundPcs \cup {"upload"}, NEW statuses,
           \/ Guarded(q, op, pc, statuses)
           \/ \E s : SaleRead(q, op, pc, s) /\ statuses = {s},
           UNCHANGED officeRows,
           pc # "edit_write", pc # "publish_write",
           pc \in {"publish_count", "delete_write"} => statuses = {"DRAFT"},
           pc = "close_write" => statuses = Closable,
           pc = "sell_write" => statuses = {"PUBLISHED"},
           pc = "draw_write" => statuses = {"CLOSED"},
           pc = "results_write" => statuses = {"DRAWING"},
           pc = "upload" => op \in {"banner", "logo"}
    PROVE  \E rec : Enters(q, rec)
<1> DEFINE rec == [NoReq EXCEPT !.pc = pc, !.seen = lot.status, !.op = op]
<1>1. /\ rec.pc = pc /\ rec.seen = lot.status /\ rec.op = op /\ rec.start = null
      /\ rec.total = null /\ rec.end = 0 /\ rec.item = null /\ rec.owner = null
      /\ rec.bank = null /\ rec.name = null /\ ~rec.default /\ ~rec.stale
  BY DEF NoReq
<1>2. lot.status \in LotStatus BY DEF OfficeTypes, OfficeTypeOK, LotRow
<1>3. rec \in ReqRow
  <2>1. pc \in ReqPcs BY DEF ReqPcs, FoundPcs
  <2> QED BY <1>2, <2>1, NoReqIsKnown, RecordsTyped DEF Known
<1>4. lot.status # "NONE" /\ lot.status \in statuses BY DEF Guarded, SaleRead, Found
<1>5. Known(rec) BY <1>1, <1>3, <1>4 DEF Known, FoundPcs
<1>6. Entry(rec) BY <1>1, <1>4 DEF Entry, FoundPcs, Closable
<1>7. At(q, "idle") /\ req' = [req EXCEPT ![q] = rec] /\ requests' \in {requests, requests + 1}
  BY DEF Guarded, SaleRead, Takes, Begins, NoReq
<1>8. UNCHANGED <<catalogueRows, faults, history, bank, account, export, job, worker, crashes>>
  BY DEF Guarded, SaleRead, Takes, Begins, officeRows
<1> QED BY <1>1, <1>5, <1>6, <1>7, <1>8 DEF Enters, FoundPcs

(* A handler that starts without a guard on the lottery's status. *)
LEMMA TakesEnters ==
    ASSUME OfficeTypes, NEW q \in Requests, NEW op \in AllOfficeOps, NEW rec,
           Takes(q, op, rec), UNCHANGED <<catalogueRows, bank, account, job, worker, crashes>>,
           rec \in ReqRow,
           Known([rec EXCEPT !.op = op]), Entry([rec EXCEPT !.op = op]),
           IF rec.pc = "export_enqueue"
           THEN export' = [export EXCEPT ![rec.item] = "PENDING"]
           ELSE export' = export
    PROVE  \E r : Enters(q, r)
<1> DEFINE r == [rec EXCEPT !.op = op]
<1>1. r.pc = rec.pc /\ r.item = rec.item BY DEF ReqRow
<1>2. At(q, "idle") /\ req' = [req EXCEPT ![q] = r] /\ requests' = requests + 1
      /\ UNCHANGED <<faults, history>>
  BY DEF Takes, Begins
<1> HIDE DEF r
<1> QED BY <1>1, <1>2 DEF Enters, r

LEMMA CatalogueEnters ==
    ASSUME OfficeTypes, CatalogueAssumption, NEW q \in Requests, CatalogueBegin(q), UNCHANGED officeRows
    PROVE  \E rec : Enters(q, rec)
<1>0. UNCHANGED <<bank, account, export, job, worker, crashes>> BY DEF officeRows
<1>n. NoReq \in ReqRow BY NoReqIsKnown DEF Known
<1>1. CASE CreateRead(q)
  <2>1. PICK s \in Starts, n \in Totals :
          Takes(q, "create", [NoReq EXCEPT !.pc = "create_tx", !.start = s, !.total = n])
    BY <1>1 DEF CreateRead
  <2> DEFINE rec == [NoReq EXCEPT !.pc = "create_tx", !.start = s, !.total = n]
             r == [rec EXCEPT !.op = "create"]
  <2>2. s \in Nat /\ n \in Nat \ {0} BY DEF CatalogueAssumption
  <2>3. "create_tx" \in ReqPcs /\ "create" \in AllOfficeOps BY DEF ReqPcs, AllOfficeOps, CatalogueOps
  <2>4. rec \in ReqRow /\ r \in ReqRow BY <1>n, <2>2, <2>3, RecordsTyped
  <2>5. rec.pc = "create_tx" /\ r.pc = "create_tx" /\ r.start = s /\ r.total = n BY DEF NoReq
  <2>6. Known(r) BY <2>2, <2>4, <2>5 DEF Known
  <2>7. Entry(r) BY <1>1, <2>5 DEF Entry, CreateRead, FoundPcs
  <2>8. UNCHANGED catalogueRows BY <1>1 DEF CreateRead
  <2> HIDE DEF rec
  <2> QED BY <1>0, <2>1, <2>3, <2>4, <2>5, <2>6, <2>7, <2>8, TakesEnters DEF rec
<1>2. CASE EditRead(q)
  <2>1. PICK s \in Starts \cup {null}, n \in Totals \cup {null} :
          Takes(q, "edit", [NoReq EXCEPT !.pc = "edit_write", !.seen = lot.status,
                                       !.start = s, !.total = n, !.end = NewEnd(s, n)])
    BY <1>2 DEF EditRead
  <2> DEFINE rec == [NoReq EXCEPT !.pc = "edit_write", !.seen = lot.status,
                                  !.start = s, !.total = n, !.end = NewEnd(s, n)]
             r == [rec EXCEPT !.op = "edit"]
  <2>2. s \in Nat \cup {null} /\ n \in Nat \cup {null} BY DEF CatalogueAssumption
  <2>3. "edit_write" \in ReqPcs /\ "edit" \in AllOfficeOps BY DEF ReqPcs, AllOfficeOps, CatalogueOps
  <2>4. lot.status \in LotStatus /\ lot.start \in Nat /\ lot.total \in Nat
    BY DEF OfficeTypes, OfficeTypeOK, LotRow
  <2>5. NewEnd(s, n) \in Int BY <2>2, <2>4 DEF NewEnd, Chosen
  <2>6. rec \in ReqRow /\ r \in ReqRow BY <1>n, <2>2, <2>3, <2>4, <2>5, RecordsTyped
  <2>7. rec.pc = "edit_write" /\ r.pc = "edit_write" /\ r.start = s /\ r.total = n /\ r.end = NewEnd(s, n)
    BY DEF NoReq
  <2>8. Known(r) BY <2>6, <2>7 DEF Known
  <2>9. Entry(r) BY <1>2, <2>7 DEF Entry, EditRead, Found
  <2>10. UNCHANGED catalogueRows BY <1>2 DEF EditRead
  <2> HIDE DEF rec
  <2> QED BY <1>0, <2>1, <2>3, <2>6, <2>7, <2>8, <2>9, <2>10, TakesEnters DEF rec
<1>3. CASE AddPrizeRead(q)
  <2>1. "addPrize" \in AllOfficeOps BY DEF AllOfficeOps, CatalogueOps
  <2> QED BY <1>3, <2>1, GuardedEnters DEF AddPrizeRead, FoundPcs
<1>4. CASE DeletePrizeRead(q)
  <2>1. PICK p \in prizes : Takes(q, "deletePrize",
                               [NoReq EXCEPT !.pc = "prize_delete", !.item = p])
    BY <1>4 DEF DeletePrizeRead
  <2> DEFINE rec == [NoReq EXCEPT !.pc = "prize_delete", !.item = p]
             r == [rec EXCEPT !.op = "deletePrize"]
  <2>2. p \in Prizes BY DEF OfficeTypes, OfficeTypeOK
  <2>3. "prize_delete" \in ReqPcs /\ "deletePrize" \in AllOfficeOps
    BY DEF ReqPcs, AllOfficeOps, CatalogueOps
  <2>4. rec \in ReqRow /\ r \in ReqRow BY <1>n, <2>2, <2>3, RecordsTyped
  <2>5. rec.pc = "prize_delete" /\ r.pc = "prize_delete" BY DEF NoReq
  <2>6. Known(r) BY <2>4, <2>5 DEF Known
  <2>7. Entry(r) BY <1>4, <2>5 DEF Entry, DeletePrizeRead, Found
  <2>8. UNCHANGED catalogueRows BY <1>4 DEF DeletePrizeRead
  <2> HIDE DEF rec
  <2> QED BY <1>0, <2>1, <2>3, <2>4, <2>5, <2>6, <2>7, <2>8, TakesEnters DEF rec
<1>5. CASE PublishRead(q)
  <2>1. "publish" \in AllOfficeOps BY DEF AllOfficeOps, CatalogueOps
  <2> QED BY <1>5, <2>1, GuardedEnters DEF PublishRead, FoundPcs
<1>6. CASE CloseRead(q)
  <2>1. "close" \in AllOfficeOps BY DEF AllOfficeOps, CatalogueOps
  <2> QED BY <1>6, <2>1, GuardedEnters DEF CloseRead, FoundPcs
<1>7. CASE ArchiveRead(q)
  <2>1. "archive" \in AllOfficeOps BY DEF AllOfficeOps, CatalogueOps
  <2> QED BY <1>7, <2>1, GuardedEnters DEF ArchiveRead, FoundPcs
<1>8. CASE DeleteRead(q)
  <2>1. "delete" \in AllOfficeOps BY DEF AllOfficeOps, CatalogueOps
  <2> QED BY <1>8, <2>1, GuardedEnters DEF DeleteRead, FoundPcs
<1>9. CASE AddImageRead(q)
  <2> DEFINE rec == [NoReq EXCEPT !.pc = "upload"]
             r == [rec EXCEPT !.op = "addImage"]
  <2>3. "upload" \in ReqPcs /\ "addImage" \in AllOfficeOps
    BY DEF ReqPcs, AllOfficeOps, CatalogueOps
  <2>4. rec \in ReqRow /\ r \in ReqRow BY <1>n, <2>3, RecordsTyped
  <2>5. rec.pc = "upload" /\ r.pc = "upload" /\ r.op = "addImage" BY DEF NoReq
  <2>6. Known(r) BY <2>4, <2>5 DEF Known
  <2>7. Entry(r) BY <1>9, <2>5 DEF Entry, AddImageRead, FoundPcs
  <2>8. Takes(q, "addImage", rec) /\ UNCHANGED catalogueRows BY <1>9 DEF AddImageRead
  <2> HIDE DEF rec
  <2> QED BY <1>0, <2>3, <2>4, <2>5, <2>6, <2>7, <2>8, TakesEnters
<1>10. CASE DeleteImageRead(q)
  <2>1. PICK i \in Shown : Takes(q, "deleteImage",
                              [NoReq EXCEPT !.pc = "image_delete", !.item = i])
    BY <1>10 DEF DeleteImageRead
  <2> DEFINE rec == [NoReq EXCEPT !.pc = "image_delete", !.item = i]
             r == [rec EXCEPT !.op = "deleteImage"]
  <2>2. i \in Images BY DEF Shown
  <2>3. "image_delete" \in ReqPcs /\ "deleteImage" \in AllOfficeOps
    BY DEF ReqPcs, AllOfficeOps, CatalogueOps
  <2>4. rec \in ReqRow /\ r \in ReqRow BY <1>n, <2>2, <2>3, RecordsTyped
  <2>5. rec.pc = "image_delete" /\ r.pc = "image_delete" BY DEF NoReq
  <2>6. Known(r) BY <2>4, <2>5 DEF Known
  <2>7. Entry(r) BY <2>5 DEF Entry, FoundPcs
  <2>8. UNCHANGED catalogueRows BY <1>10 DEF DeleteImageRead
  <2> HIDE DEF rec
  <2> QED BY <1>0, <2>1, <2>3, <2>4, <2>5, <2>6, <2>7, <2>8, TakesEnters DEF rec
<1>11. CASE BannerRead(q)
  <2>1. "banner" \in AllOfficeOps BY DEF AllOfficeOps, CatalogueOps
  <2> QED BY <1>11, <2>1, GuardedEnters DEF BannerRead, FoundPcs
<1>12. CASE LogoRead(q)
  <2> DEFINE rec == [NoReq EXCEPT !.pc = "upload"]
             r == [rec EXCEPT !.op = "logo"]
  <2>3. "upload" \in ReqPcs /\ "logo" \in AllOfficeOps
    BY DEF ReqPcs, AllOfficeOps, CatalogueOps
  <2>4. rec \in ReqRow /\ r \in ReqRow BY <1>n, <2>3, RecordsTyped
  <2>5. rec.pc = "upload" /\ r.pc = "upload" /\ r.op = "logo" BY DEF NoReq
  <2>6. Known(r) BY <2>4, <2>5 DEF Known
  <2>7. Entry(r) BY <2>5 DEF Entry, FoundPcs
  <2>8. Takes(q, "logo", rec) /\ UNCHANGED catalogueRows BY <1>12 DEF LogoRead
  <2> HIDE DEF rec
  <2> QED BY <1>0, <2>3, <2>4, <2>5, <2>6, <2>7, <2>8, TakesEnters
<1>13. CASE ReserveRead(q)
  <2>1. "reserve" \in AllOfficeOps BY DEF AllOfficeOps, CatalogueOps
  <2> QED BY <1>13, <2>1, GuardedEnters DEF ReserveRead, FoundPcs
<1>14. CASE DrawRead(q)
  <2>1. "draw" \in AllOfficeOps BY DEF AllOfficeOps, CatalogueOps
  <2> QED BY <1>14, <2>1, GuardedEnters DEF DrawRead, FoundPcs
<1>15. CASE ResultsRead(q)
  <2>1. "results" \in AllOfficeOps BY DEF AllOfficeOps, CatalogueOps
  <2> QED BY <1>15, <2>1, GuardedEnters DEF ResultsRead, FoundPcs
<1> QED BY <1>1, <1>2, <1>3, <1>4, <1>5, <1>6, <1>7, <1>8, <1>9, <1>10, <1>11, <1>12,
           <1>13, <1>14, <1>15
        DEF CatalogueBegin

(* The record of a request that has found, or created, its bank. *)
LEMMA WithBankIsKnown ==
    ASSUME NEW rec \in ReqRow, NEW b \in Banks
    PROVE  /\ Known(WithBank(rec, b))
           /\ WithBank(rec, b).pc \in {"account_move", "default_unset", "account_create"}
           /\ WithBank(rec, b).pc = "account_create" => ~WithBank(rec, b).default
           /\ WithBank(rec, b).op = rec.op
<1>1. WithBank(rec, b).pc \in {"account_move", "default_unset", "account_create"}
      /\ WithBank(rec, b).bank = b
      /\ WithBank(rec, b).op = rec.op
      /\ (WithBank(rec, b).pc = "account_create" => ~WithBank(rec, b).default)
  BY DEF WithBank, ReqRow
<1>2. {"account_move", "default_unset", "account_create"} \subseteq ReqPcs BY DEF ReqPcs
<1>3. [rec EXCEPT !.bank = b] \in ReqRow BY RecordsTyped
<1>4. PICK pc \in {"account_move", "default_unset", "account_create"} :
        WithBank(rec, b) = [[rec EXCEPT !.bank = b] EXCEPT !.pc = pc]
  BY DEF WithBank
<1>5. WithBank(rec, b) \in ReqRow
  <2> DEFINE r == [rec EXCEPT !.bank = b]
  <2>1. r \in ReqRow /\ WithBank(rec, b) = [r EXCEPT !.pc = pc] BY <1>3, <1>4
  <2> HIDE DEF r
  <2>2. pc \in ReqPcs BY <1>2
  <2> QED BY <2>1, <2>2, RecordsTyped
<1> QED BY <1>1, <1>5 DEF Known

LEMMA FindBankEnters ==
    ASSUME OfficeTypes, CatalogueAssumption, NEW q \in Requests, NEW op \in AccountOps,
           NEW owner \in Owners \cup {null}, NEW item \in BankAccounts \cup {null},
           NEW name \in BankNames, NEW default \in BOOLEAN,
           FindBank(q, op, owner, item, name, default)
    PROVE  \E rec : Enters(q, rec)
<1> DEFINE rec == [NoReq EXCEPT !.pc = "bank_create", !.op = op, !.owner = owner,
                                !.item = item, !.name = name, !.default = default]
<1>n. NoReq \in ReqRow BY NoReqIsKnown DEF Known
<1>0. UNCHANGED <<catalogueRows, bank, account, export, job, worker, crashes>>
  BY DEF FindBank, officeRows
<1>1. op \in AllOfficeOps BY DEF AllOfficeOps
<1>2. "bank_create" \in ReqPcs BY DEF ReqPcs
<1>3. rec \in ReqRow
  <2>1. [NoReq EXCEPT !.pc = "bank_create", !.op = op, !.owner = owner] \in ReqRow
    BY <1>n, <1>1, <1>2, RecordsTyped
  <2>2. [NoReq EXCEPT !.pc = "bank_create", !.op = op, !.owner = owner, !.item = item] \in ReqRow
    BY <2>1, RecordsTyped
  <2> QED BY <2>2, RecordsTyped
<1>4. rec.pc = "bank_create" /\ rec.op = op /\ rec.name = name BY DEF NoReq
<1> HIDE DEF rec
<1>5. [rec EXCEPT !.op = op] = rec BY <1>3, <1>4 DEF ReqRow
<1>6. CASE Lookup(owner, name) = {} /\ Takes(q, op, rec)
  <2>1. Known(rec) BY <1>3, <1>4 DEF Known
  <2>n. Named(name) = {} BY <1>6 DEF Lookup, Named, CatalogueAssumption
  <2>2. Entry(rec) BY <1>4, <2>n DEF Entry, FoundPcs
  <2> QED BY <1>0, <1>1, <1>3, <1>4, <1>5, <1>6, <2>1, <2>2, TakesEnters
<1>7. ASSUME NEW b \in Lookup(owner, name), Takes(q, op, WithBank(rec, b))
      PROVE  \E r : Enters(q, r)
  <2>0. b \in Banks BY <1>7 DEF Lookup, Named
  <2> DEFINE r == WithBank(rec, b)
  <2>1. /\ Known(r) /\ r.pc \in {"account_move", "default_unset", "account_create"}
        /\ (r.pc = "account_create" => ~r.default) /\ r.op = op
    BY <1>3, <1>4, <2>0, WithBankIsKnown
  <2>2. r \in ReqRow BY <2>1 DEF Known
  <2>3. [r EXCEPT !.op = op] = r BY <2>1, <2>2 DEF ReqRow
  <2>4. Takes(q, op, r) BY <1>7
  <2> HIDE DEF r
  <2>5. Entry(r) BY <2>1 DEF Entry, FoundPcs
  <2> QED BY <1>0, <1>1, <2>1, <2>2, <2>3, <2>4, <2>5, TakesEnters
<1> QED BY <1>6, <1>7 DEF FindBank, rec

LEMMA OfficeEnters ==
    ASSUME OfficeTypes, CatalogueAssumption, NEW q \in Requests, OfficeBegin(q)
    PROVE  \E rec : Enters(q, rec)
<1>n. NoReq \in ReqRow BY NoReqIsKnown DEF Known
<1>1. CASE AddAccountRead(q)
  <2>1. "addAccount" \in AccountOps BY DEF AccountOps
  <2>2. PICK name \in BankNames, owner \in Owners \cup {null}, default \in BOOLEAN :
          FindBank(q, "addAccount", owner, null, name, default)
    BY <1>1 DEF AddAccountRead
  <2> QED BY <2>1, <2>2, FindBankEnters
<1>2. CASE MoveAccountRead(q)
  <2>1. "moveAccount" \in AccountOps BY DEF AccountOps
  <2>2. PICK name \in BankNames, a \in Accounts :
          FindBank(q, "moveAccount", null, a, name, FALSE)
    BY <1>2 DEF MoveAccountRead
  <2>3. a \in BankAccounts BY DEF Accounts
  <2> QED BY <2>1, <2>2, <2>3, FindBankEnters
<1>3. CASE DropAccountRead(q)
  <2>1. PICK a \in Accounts :
          Takes(q, "dropAccount", [NoReq EXCEPT !.pc = "account_drop", !.item = a])
    BY <1>3 DEF DropAccountRead
  <2> DEFINE rec == [NoReq EXCEPT !.pc = "account_drop", !.item = a]
             r == [rec EXCEPT !.op = "dropAccount"]
  <2>2. a \in BankAccounts BY DEF Accounts
  <2>3. "account_drop" \in ReqPcs /\ "dropAccount" \in AllOfficeOps
    BY DEF ReqPcs, AllOfficeOps, AccountOps
  <2>4. rec \in ReqRow /\ r \in ReqRow BY <1>n, <2>2, <2>3, RecordsTyped
  <2>5. rec.pc = "account_drop" /\ r.pc = "account_drop" BY DEF NoReq
  <2>6. Known(r) BY <2>4, <2>5 DEF Known
  <2>7. Entry(r) BY <2>5 DEF Entry, FoundPcs
  <2>8. UNCHANGED <<catalogueRows, bank, account, export, job, worker, crashes>>
    BY <1>3 DEF DropAccountRead, officeRows
  <2> HIDE DEF rec
  <2> QED BY <2>1, <2>3, <2>4, <2>5, <2>6, <2>7, <2>8, TakesEnters DEF rec
<1>4. CASE RequestExport(q)
  <2>1. PICK e \in Exports :
          /\ export[e] = "NONE"
          /\ export' = [export EXCEPT ![e] = "PENDING"]
          /\ Takes(q, "export", [NoReq EXCEPT !.pc = "export_enqueue", !.item = e])
    BY <1>4 DEF RequestExport
  <2> DEFINE rec == [NoReq EXCEPT !.pc = "export_enqueue", !.item = e]
             r == [rec EXCEPT !.op = "export"]
  <2>3. "export_enqueue" \in ReqPcs /\ "export" \in AllOfficeOps BY DEF ReqPcs, AllOfficeOps
  <2>4. rec \in ReqRow /\ r \in ReqRow BY <1>n, <2>3, RecordsTyped
  <2>5. /\ rec.pc = "export_enqueue" /\ r.pc = "export_enqueue"
        /\ rec.item = e /\ r.item = e
    BY DEF NoReq
  <2>6. Known(r) BY <2>4, <2>5 DEF Known
  <2>7. Entry(r) BY <2>1, <2>5 DEF Entry, FoundPcs
  <2>8. UNCHANGED <<catalogueRows, bank, account, job, worker, crashes>>
    BY <1>4 DEF RequestExport
  <2> HIDE DEF rec
  <2> QED BY <2>1, <2>3, <2>4, <2>5, <2>6, <2>7, <2>8, TakesEnters DEF rec
<1> QED BY <1>1, <1>2, <1>3, <1>4 DEF OfficeBegin

(* How the record of a request in flight moves on. *)
Passed(q, rec) ==
    \/ rec = NoReq
    \/ At(q, "publish_count") /\ rec.pc = "publish_write" /\ HasPrizes
    \/ At(q, "upload") /\ rec.pc \in {"image_create", "banner_write", "logo_write"}
         /\ rec.op = req[q].op /\ rec.item \in files'
    \/ At(q, "bank_create") /\ rec.pc \in {"account_move", "default_unset", "account_create"}
         /\ (rec.pc = "account_create" => ~rec.default)
    \/ At(q, "default_unset") /\ rec.pc = "account_create"
         /\ rec.owner = req[q].owner /\ rec.default = req[q].default

(* Another request's record stays as it is, but for its history. *)
Kept(p) == \E b \in BOOLEAN : req'[p] = [req[p] EXCEPT !.stale = b]

Continues(q, rec) ==
    /\ ~At(q, "idle")
    /\ Known(rec) /\ Passed(q, rec)
    /\ req' \in [Requests -> ReqRow] /\ req'[q] = rec
    /\ \A p \in Requests \ {q} : Kept(p)

LEMMA KeptFacts ==
    ASSUME OfficeTypes, NEW p \in Requests, Kept(p)
    PROVE  /\ req'[p].pc = req[p].pc /\ req'[p].op = req[p].op /\ req'[p].seen = req[p].seen
           /\ req'[p].start = req[p].start /\ req'[p].total = req[p].total
           /\ req'[p].end = req[p].end /\ req'[p].item = req[p].item
           /\ req'[p].owner = req[p].owner /\ req'[p].bank = req[p].bank
           /\ req'[p].name = req[p].name /\ req'[p].default = req[p].default
           /\ Known(req'[p])
<1>1. Known(req[p]) BY DEF OfficeTypes
<1>2. req[p] \in ReqRow BY <1>1 DEF Known
<1>3. PICK b \in BOOLEAN : req'[p] = [req[p] EXCEPT !.stale = b] BY DEF Kept
<1>4. /\ req'[p].pc = req[p].pc /\ req'[p].op = req[p].op /\ req'[p].seen = req[p].seen
      /\ req'[p].start = req[p].start /\ req'[p].total = req[p].total
      /\ req'[p].end = req[p].end /\ req'[p].item = req[p].item
      /\ req'[p].owner = req[p].owner /\ req'[p].bank = req[p].bank
      /\ req'[p].name = req[p].name /\ req'[p].default = req[p].default
      /\ req'[p] \in ReqRow
  BY <1>2, <1>3 DEF ReqRow
<1> QED BY <1>1, <1>4 DEF Known

LEMMA SlotContinues ==
    ASSUME OfficeTypes, NEW q \in Requests, NEW rec, ~At(q, "idle"), Known(rec), Passed(q, rec),
           req' = [req EXCEPT ![q] = rec]
    PROVE  Continues(q, rec)
<1>1. req \in [Requests -> ReqRow] BY DEF OfficeTypes, OfficeTypeOK
<1>2. rec \in ReqRow BY DEF Known
<1>3. req' \in [Requests -> ReqRow] /\ req'[q] = rec BY <1>1, <1>2
<1>4. ASSUME NEW p \in Requests \ {q} PROVE Kept(p)
  <2>1. req'[p] = req[p] /\ req[p] \in ReqRow BY <1>1
  <2>2. req[p].stale \in BOOLEAN /\ req[p] = [req[p] EXCEPT !.stale = req[p].stale]
    BY <2>1 DEF ReqRow
  <2> QED BY <2>1, <2>2 DEF Kept
<1> QED BY <1>3, <1>4 DEF Continues

LEMMA AnswerContinues ==
    ASSUME OfficeTypes, NEW q \in Requests, ~At(q, "idle"), req' = [req EXCEPT ![q] = NoReq]
    PROVE  Continues(q, NoReq)
<1>1. Passed(q, NoReq) BY DEF Passed
<1> QED BY <1>1, NoReqIsKnown, SlotContinues

LEMMA CatalogueContinues ==
    ASSUME OfficeTypes, NEW q \in Requests, CatalogueContinue(q)
    PROVE  \E rec : Continues(q, rec)
<1>t. Known(req[q]) /\ req[q] \in ReqRow BY DEF OfficeTypes, Known
<1>f. req \in [Requests -> ReqRow] BY DEF OfficeTypes, OfficeTypeOK
<1>1. CASE \/ CreateTx(q) \/ AddPrizeWrite(q)
           \/ PublishWrite(q) \/ CloseWrite(q) \/ ArchiveWrite(q) \/ DeleteWrite(q)
           \/ ReserveWrite(q) \/ DrawWrite(q) \/ ResultsWrite(q)
           \/ UploadFails(q) \/ AddImageCreate(q) \/ DeleteImageWrite(q)
           \/ BannerWrite(q) \/ LogoWrite(q)
  <2>1. ~At(q, "idle") /\ req' = [req EXCEPT ![q] = NoReq]
    BY <1>1 DEF CreateTx, AddPrizeWrite, PublishWrite, CloseWrite,
       ArchiveWrite, ReserveWrite, DrawWrite, ResultsWrite, DeleteWrite, UploadFails, AddImageCreate, DeleteImageWrite,
       BannerWrite, LogoWrite, StatusWrite, Answer, Move, At
  <2> QED BY <2>1, AnswerContinues
<1>2. CASE EditWrite(q) \/ DeletePrizeWrite(q)
  <2>1. ~At(q, "idle") BY <1>2 DEF EditWrite, DeletePrizeWrite, At
  <2>2. /\ DOMAIN req' = Requests /\ req' = [p \in Requests |-> req'[p]]
        /\ req'[q] = NoReq
        /\ \A p \in Requests \ {q} :
             \E b \in BOOLEAN : req'[p] = [req[p] EXCEPT !.stale = req[p].stale \/ b]
    <3>1. CASE EditWrite(q)
      <4>1. req' = [p \in Requests |->
                     IF p = q THEN NoReq
                     ELSE [req[p] EXCEPT !.stale = req[p].stale \/ At(p, "edit_write")]]
        BY <3>1 DEF EditWrite
      <4>2. \A p : At(p, "edit_write") \in BOOLEAN BY DEF At
      <4> QED BY <4>1, <4>2
    <3>2. CASE DeletePrizeWrite(q)
      <4> DEFINE Late(p) == At(p, "publish_write") /\ req[q].item \in prizes
      <4>1. req' = [p \in Requests |->
                     IF p = q THEN NoReq ELSE [req[p] EXCEPT !.stale = req[p].stale \/ Late(p)]]
        BY <3>2 DEF DeletePrizeWrite
      <4>2. \A p : Late(p) \in BOOLEAN BY DEF At
      <4> HIDE DEF Late
      <4> QED BY <4>1, <4>2
    <3> QED BY <1>2, <3>1, <3>2
  <2>3. ASSUME NEW p \in Requests \ {q} PROVE Kept(p) /\ req'[p] \in ReqRow
    <3>1. PICK b \in BOOLEAN : req'[p] = [req[p] EXCEPT !.stale = req[p].stale \/ b] BY <2>2
    <3>2. req[p] \in ReqRow BY <1>f
    <3>3. req[p].stale \/ b \in BOOLEAN OBVIOUS
    <3> QED BY <3>1, <3>2, <3>3, RecordsTyped DEF Kept
  <2>5. req' \in [Requests -> ReqRow]
    <3>1. \A p \in Requests : req'[p] \in ReqRow
      BY <2>2, <2>3, NoReqIsKnown DEF Known
    <3> QED BY <2>2, <3>1
  <2>6. Passed(q, NoReq) BY DEF Passed
  <2> QED BY <2>1, <2>2, <2>3, <2>5, <2>6, NoReqIsKnown DEF Continues
<1>3. CASE PublishCount(q)
  <2>0. At(q, "publish_count") /\ ~At(q, "idle") BY <1>3 DEF PublishCount, At
  <2>1. CASE ~HasPrizes
    <3>1. req' = [req EXCEPT ![q] = NoReq] BY <1>3, <2>1 DEF PublishCount, Answer, Move
    <3> QED BY <2>0, <3>1, AnswerContinues
  <2>2. CASE HasPrizes
    <3> DEFINE rec == [req[q] EXCEPT !.pc = "publish_write"]
    <3>1. req' = [req EXCEPT ![q] = rec] BY <1>3, <2>2 DEF PublishCount, Step, Move
    <3>2. "publish_write" \in ReqPcs BY DEF ReqPcs
    <3>3. rec \in ReqRow BY <1>t, <3>2, RecordsTyped
    <3>4. rec.pc = "publish_write" /\ rec.seen = req[q].seen BY <1>t DEF ReqRow
    <3>5. Known(rec) BY <1>t, <2>0, <3>3, <3>4 DEF Known, At
    <3>6. Passed(q, rec) BY <2>0, <2>2, <3>4 DEF Passed
    <3> QED BY <2>0, <3>1, <3>5, <3>6, SlotContinues
  <2> QED BY <2>1, <2>2
<1>4. CASE UploadStore(q)
  <2> DEFINE f == Fresh(Files, disk \cup files)
             pc == CASE req[q].op = "addImage" -> "image_create"
                     [] req[q].op = "banner"   -> "banner_write"
                     [] req[q].op = "logo"     -> "logo_write"
             rec == [req[q] EXCEPT !.item = f, !.pc = pc]
  <2>0. At(q, "upload") /\ ~At(q, "idle") BY <1>4 DEF UploadStore, At
  <2>1. f \in Files BY <1>4, FreshFacts DEF UploadStore
  <2>2. f \in files' /\ req' = [req EXCEPT ![q] = rec] BY <1>4 DEF UploadStore, Move
  <2>3. req[q].op \in {"addImage", "banner", "logo"} BY <1>t, <2>0 DEF Known, At
  <2>4. pc \in {"image_create", "banner_write", "logo_write"}
        /\ (pc = "image_create" => req[q].op = "addImage")
    BY <2>3
  <2> HIDE DEF f, pc
  <2>5. pc \in ReqPcs BY <2>4 DEF ReqPcs
  <2>6. rec \in ReqRow
    <3>1. [req[q] EXCEPT !.item = f] \in ReqRow BY <1>t, <2>1, RecordsTyped
    <3> QED BY <2>5, <3>1, RecordsTyped
  <2>7. rec.pc = pc /\ rec.item = f /\ rec.op = req[q].op BY <1>t DEF ReqRow
  <2> HIDE DEF rec
  <2>8. Known(rec) BY <2>1, <2>4, <2>6, <2>7 DEF Known
  <2>9. Passed(q, rec) BY <2>0, <2>2, <2>4, <2>7 DEF Passed
  <2> QED BY <2>0, <2>2, <2>8, <2>9, SlotContinues
<1> QED BY <1>1, <1>2, <1>3, <1>4 DEF CatalogueContinue

LEMMA OfficeContinues ==
    ASSUME OfficeTypes, NEW q \in Requests, OfficeContinue(q)
    PROVE  \E rec : Continues(q, rec)
<1>t. Known(req[q]) /\ req[q] \in ReqRow BY DEF OfficeTypes, Known
<1>1. CASE CreateAccount(q) \/ DropAccountWrite(q) \/ MoveAccountWrite(q) \/ AccountGone(q)
           \/ EnqueueExport(q) \/ RequestFails(q)
  <2>1. ~At(q, "idle") /\ req' = [req EXCEPT ![q] = NoReq]
    BY <1>1 DEF CreateAccount, DropAccountWrite, MoveAccountWrite, AccountGone,
       EnqueueExport, RequestFails, Answer, Move, At
  <2> QED BY <2>1, AnswerContinues
<1>2. CASE CreateBank(q)
  <2> DEFINE b == Fresh(Named(null), {})
             rec == WithBank(req[q], b)
  <2>0. At(q, "bank_create") /\ ~At(q, "idle") BY <1>2 DEF CreateBank, At
  <2>1. b \in Named(null)
    <3>1. Free(Named(null), {}) BY <1>2 DEF CreateBank, Free
    <3> QED BY <3>1, FreshFacts
  <2>2. b \in Banks BY <2>1 DEF Named
  <2>3. req' = [req EXCEPT ![q] = rec] BY <1>2 DEF CreateBank, Move
  <2> HIDE DEF b
  <2>4. /\ Known(rec) /\ rec.pc \in {"account_move", "default_unset", "account_create"}
        /\ (rec.pc = "account_create" => ~rec.default)
    BY <1>t, <2>2, WithBankIsKnown
  <2> HIDE DEF rec
  <2>5. Passed(q, rec) BY <2>0, <2>4 DEF Passed
  <2> QED BY <2>0, <2>3, <2>4, <2>5, SlotContinues
<1>3. CASE UnsetDefaults(q)
  <2> DEFINE rec == [req[q] EXCEPT !.pc = "account_create"]
  <2>0. At(q, "default_unset") /\ ~At(q, "idle") BY <1>3 DEF UnsetDefaults, At
  <2>1. req' = [req EXCEPT ![q] = rec] BY <1>3 DEF UnsetDefaults, Step, Move
  <2>2. "account_create" \in ReqPcs BY DEF ReqPcs
  <2>3. rec \in ReqRow BY <1>t, <2>2, RecordsTyped
  <2>4. rec.pc = "account_create" /\ rec.bank = req[q].bank /\ rec.owner = req[q].owner
        /\ rec.default = req[q].default
    BY <1>t DEF ReqRow
  <2> HIDE DEF rec
  <2>5. Known(rec) BY <1>t, <2>0, <2>3, <2>4 DEF Known, At
  <2>6. Passed(q, rec) BY <2>0, <2>4 DEF Passed
  <2> QED BY <2>0, <2>1, <2>5, <2>6, SlotContinues
<1> QED BY <1>1, <1>2, <1>3 DEF OfficeContinue

-----------------------------------------------------------------------------
(* Types *)

CatalogueTypes ==
    /\ lot \in LotRow /\ numbers \subseteq Nat /\ prizes \subseteq Prizes
    /\ image \in [Images -> Files \cup {null}] /\ logo \in Files \cup {null}
    /\ disk \subseteq Files /\ files \subseteq Files

CountTypes ==
    /\ requests \in Nat /\ faults \in Nat /\ crashes \in Nat
    /\ late \in BOOLEAN /\ edited \in BOOLEAN

AccountTypes ==
    /\ bank \in [Banks -> BankNames \cup {null}]
    /\ account \in [BankAccounts -> AccountRow \cup {NoAccount}]

QueueTypes ==
    /\ export \in [Exports -> ExportStatus \cup {"NONE"}]
    /\ job \in [Exports -> JobRow] /\ worker \in [Workers -> WorkerRow]
    /\ \A w \in Workers : worker[w].pc # "idle" => worker[w].export \in Exports

SlotTypes == req \in [Requests -> ReqRow] /\ \A q \in Requests : Known(req[q])

LEMMA TypesSplit ==
    /\ OfficeTypes <=> CatalogueTypes /\ CountTypes /\ AccountTypes /\ QueueTypes /\ SlotTypes
    /\ OfficeTypes' <=> (CatalogueTypes /\ CountTypes /\ AccountTypes /\ QueueTypes /\ SlotTypes)'
BY DEF OfficeTypes, OfficeTypeOK, CatalogueTypes, CountTypes, AccountTypes, QueueTypes, SlotTypes

LEMMA TypesInit == ASSUME CatalogueAssumption, OfficeInit PROVE OfficeTypes
<1>1. CatalogueTypes
  <2>1. lot \in LotRow BY StatusFacts DEF OfficeInit, CatalogueInit, LotRow
  <2> QED BY <2>1 DEF OfficeInit, CatalogueInit, CatalogueTypes
<1>2. CountTypes BY DEF OfficeInit, CatalogueInit, CountTypes
<1>3. AccountTypes BY DEF OfficeInit, AccountTypes
<1>4. QueueTypes
  <2>1. NoJob \in JobRow BY DEF NoJob, JobRow
  <2>2. NoWork \in WorkerRow /\ NoWork.pc = "idle" BY DEF NoWork, WorkerRow
  <2> QED BY <2>1, <2>2 DEF OfficeInit, QueueTypes
<1>5. SlotTypes BY NoReqIsKnown DEF OfficeInit, CatalogueInit, SlotTypes, Known
<1> QED BY <1>1, <1>2, <1>3, <1>4, <1>5, TypesSplit

LEMMA GeneratedAreNumbers ==
    ASSUME CatalogueAssumption, NEW s \in Nat, NEW n \in Nat \ {0}
    PROVE  Generated(s, n) \subseteq Nat
<1>1. SUFFICES ASSUME NEW b \in 0 .. Batches(n) - 1, NEW x \in BatchNumbers(b, s, n)
               PROVE  x \in Nat
  BY DEF Generated
<1>2. BatchSize \in Nat \ {0} BY DEF CatalogueAssumption
<1>3. Batches(n) \in Int BY <1>2 DEF Batches
<1>4. b \in Nat BY <1>3
<1>5. b * BatchSize \in Nat /\ (b + 1) * BatchSize \in Nat BY <1>2, <1>4
<1> HIDE DEF Batches
<1>6. CASE s + (b + 1) * BatchSize - 1 < s + n - 1
  <2>1. x \in s + b * BatchSize .. s + (b + 1) * BatchSize - 1 BY <1>6 DEF BatchNumbers
  <2> QED BY <1>5, <2>1
<1>7. CASE ~(s + (b + 1) * BatchSize - 1 < s + n - 1)
  <2>1. x \in s + b * BatchSize .. s + n - 1 BY <1>7 DEF BatchNumbers
  <2> QED BY <1>5, <2>1
<1> QED BY <1>6, <1>7

LEMMA EntersTypes ==
    ASSUME OfficeTypes, NEW q \in Requests, NEW rec, Enters(q, rec)
    PROVE  OfficeTypes'
<1>1. CatalogueTypes' BY TypesSplit DEF Enters, CatalogueTypes, catalogueRows
<1>2. CountTypes' BY TypesSplit DEF Enters, CountTypes, history
<1>3. AccountTypes' BY TypesSplit DEF Enters, AccountTypes
<1>4. QueueTypes'
  <2>1. rec.pc = "export_enqueue" => rec.item \in Exports BY DEF Enters, Known
  <2>2. QueueTypes BY TypesSplit
  <2>3. export' \in [Exports -> ExportStatus \cup {"NONE"}]
    BY <2>1, <2>2 DEF Enters, QueueTypes, ExportStatus
  <2> QED BY <2>2, <2>3 DEF Enters, QueueTypes
<1>5. SlotTypes'
  <2>1. SlotTypes BY TypesSplit
  <2> QED BY <2>1 DEF Enters, SlotTypes, Known
<1> QED BY <1>1, <1>2, <1>3, <1>4, <1>5, TypesSplit

LEMMA ContinuesSlotTypes ==
    ASSUME OfficeTypes, NEW q \in Requests, NEW rec, Continues(q, rec)
    PROVE  SlotTypes'
<1>1. \A p \in Requests \ {q} : Known(req'[p]) BY KeptFacts DEF Continues
<1> QED BY <1>1 DEF Continues, SlotTypes

LEMMA LotRowsTyped ==
    ASSUME NEW l \in LotRow
    PROVE  /\ \A s \in LotStatus : [l EXCEPT !.status = s] \in LotRow
           /\ \A d \in BOOLEAN : [l EXCEPT !.deleted = d] \in LotRow
           /\ \A n \in Nat : [l EXCEPT !.start = n] \in LotRow
           /\ \A n \in Nat : [l EXCEPT !.total = n] \in LotRow
           /\ \A n \in Int : [l EXCEPT !.end = n] \in LotRow
           /\ \A f \in Files : [l EXCEPT !.banner = f] \in LotRow
BY DEF LotRow

LEMMA CatalogueStepTypes ==
    ASSUME OfficeTypes, CatalogueAssumption, NEW q \in Requests, CatalogueContinue(q)
    PROVE  CatalogueTypes'
<1>0. CatalogueTypes /\ Known(req[q]) BY TypesSplit DEF SlotTypes
<1>r. req[q] \in ReqRow BY <1>0 DEF Known
<1> USE DEF CatalogueTypes
<1>1. CASE CreateTx(q)
  <2> DEFINE s == req[q].start
             n == req[q].total
  <2>1. s \in Nat /\ n \in Nat \ {0} BY <1>0, <1>1 DEF CreateTx, At, Known
  <2>2. lot' = [lot EXCEPT !.status = "DRAFT", !.start = s, !.total = n, !.end = s + n - 1]
        /\ numbers' = Generated(s, n)
    BY <1>1 DEF CreateTx
  <2> HIDE DEF s, n
  <2>3. lot' \in LotRow
    <3>1. [lot EXCEPT !.status = "DRAFT", !.start = s] \in LotRow
      BY <1>0, <2>1, LotRowsTyped, StatusFacts
    <3>2. [lot EXCEPT !.status = "DRAFT", !.start = s, !.total = n] \in LotRow
      BY <2>1, <3>1, LotRowsTyped
    <3>3. s + n - 1 \in Int BY <2>1
    <3> QED BY <2>2, <3>2, <3>3, LotRowsTyped
  <2>4. numbers' \subseteq Nat BY <2>1, <2>2, GeneratedAreNumbers
  <2>5. prizes' \subseteq Prizes BY <1>1 DEF CreateTx
  <2> QED BY <1>0, <1>1, <2>3, <2>4, <2>5 DEF CreateTx
<1>2. CASE EditWrite(q)
  <2>1. Chosen(req[q].start, lot.start) \in Nat /\ Chosen(req[q].total, lot.total) \in Nat
        /\ req[q].end \in Int
    BY <1>0, <1>r DEF Chosen, ReqRow, LotRow
  <2>2. lot' = [lot EXCEPT !.start = Chosen(req[q].start, lot.start),
                           !.total = Chosen(req[q].total, lot.total), !.end = req[q].end]
    BY <1>2 DEF EditWrite
  <2>3. lot' \in LotRow BY <1>0, <2>1, <2>2 DEF LotRow
  <2> QED BY <1>0, <1>2, <2>3 DEF EditWrite
<1>3. CASE AddPrizeWrite(q) BY <1>0, <1>3, FreshFacts DEF AddPrizeWrite
<1>4. CASE DeletePrizeWrite(q) BY <1>0, <1>4 DEF DeletePrizeWrite
<1>5. CASE PublishCount(q) BY <1>0, <1>5 DEF PublishCount, catalogueRows
<1>6. CASE \/ PublishWrite(q) \/ CloseWrite(q) \/ ArchiveWrite(q)
           \/ ReserveWrite(q) \/ DrawWrite(q) \/ ResultsWrite(q)
  <2>1. PICK pc, s : s \in LotStatus /\ StatusWrite(q, pc, s)
    BY <1>6, StatusFacts DEF PublishWrite, CloseWrite, ArchiveWrite, ReserveWrite, DrawWrite,
       ResultsWrite
  <2>2. lot' \in LotRow BY <1>0, <2>1, LotRowsTyped DEF StatusWrite
  <2> QED BY <1>0, <2>1, <2>2 DEF StatusWrite
<1>7. CASE DeleteWrite(q)
  <2>1. lot' \in LotRow BY <1>0, <1>7, LotRowsTyped DEF DeleteWrite
  <2> QED BY <1>0, <1>7, <2>1 DEF DeleteWrite
<1>8. CASE UploadStore(q) \/ UploadFails(q)
  <2>1. Free(Files, disk \cup files) BY <1>8 DEF UploadStore, UploadFails
  <2>2. PICK f \in Files : /\ disk' = disk \cup {f}
                           /\ files' = files \/ files' = files \cup {f}
    <3> DEFINE f == Fresh(Files, disk \cup files)
    <3>1. f \in Files BY <2>1, FreshFacts
    <3>2. LeftOver(f).onDisk = {f} /\ files \cup LeftOver(f).inTable = files BY DEF LeftOver
    <3>3. CASE UploadStore(q)
      <4>1. disk' = disk \cup {f} /\ files' = files \cup {f} BY <3>3 DEF UploadStore
      <4> QED BY <3>1, <4>1
    <3>4. CASE UploadFails(q)
      <4>1. disk' = disk \cup LeftOver(f).onDisk /\ files' = files \cup LeftOver(f).inTable
        BY <3>4 DEF UploadFails
      <4> QED BY <3>1, <3>2, <4>1
    <3> QED BY <1>8, <3>3, <3>4
  <2>3. UNCHANGED <<lot, numbers, prizes, image, logo>> BY <1>8 DEF UploadStore, UploadFails
  <2> QED BY <1>0, <2>2, <2>3
<1>10. CASE AddImageCreate(q)
  <2>1. req[q].item \in Files BY <1>0, <1>10 DEF AddImageCreate, At, Known
  <2> QED BY <1>0, <1>10, <2>1 DEF AddImageCreate
<1>11. CASE DeleteImageWrite(q) BY <1>0, <1>11 DEF DeleteImageWrite
<1>12. CASE BannerWrite(q)
  <2>1. req[q].item \in Files BY <1>0, <1>12 DEF BannerWrite, At, Known
  <2>2. lot' \in LotRow BY <1>0, <1>12, <2>1, LotRowsTyped DEF BannerWrite
  <2> QED BY <1>0, <1>12, <2>2 DEF BannerWrite
<1>13. CASE LogoWrite(q)
  <2>1. req[q].item \in Files BY <1>0, <1>13 DEF LogoWrite, At, Known
  <2> QED BY <1>0, <1>13, <2>1 DEF LogoWrite
<1> QED BY <1>1, <1>2, <1>3, <1>4, <1>5, <1>6, <1>7, <1>8, <1>10, <1>11, <1>12, <1>13
        DEF CatalogueContinue

LEMMA CatalogueStepCounts ==
    ASSUME OfficeTypes, NEW q \in Requests, CatalogueContinue(q), UNCHANGED officeRows
    PROVE  CountTypes'
<1>0. CountTypes /\ req[q] \in ReqRow BY TypesSplit DEF SlotTypes
<1> USE DEF CountTypes, officeRows
<1>1. CASE EditWrite(q)
  <2>1. req[q].stale \in BOOLEAN BY <1>0 DEF ReqRow
  <2> QED BY <1>0, <1>1, <2>1 DEF EditWrite
<1>2. CASE DeletePrizeWrite(q) BY <1>0, <1>2 DEF DeletePrizeWrite, history
<1>3. CASE UploadFails(q) BY <1>0, <1>3 DEF UploadFails, history
<1>4. CASE \/ CreateTx(q) \/ AddPrizeWrite(q) \/ PublishCount(q) \/ DeleteWrite(q)
           \/ PublishWrite(q) \/ CloseWrite(q) \/ ArchiveWrite(q)
           \/ ReserveWrite(q) \/ DrawWrite(q) \/ ResultsWrite(q)
  BY <1>0, <1>4 DEF CreateTx, AddPrizeWrite, PublishCount, DeleteWrite, PublishWrite,
     CloseWrite, ArchiveWrite, ReserveWrite, DrawWrite, ResultsWrite, StatusWrite, Answer,
     Step, Move, history
<1>5. CASE \/ UploadStore(q) \/ AddImageCreate(q)
           \/ DeleteImageWrite(q) \/ BannerWrite(q) \/ LogoWrite(q)
  BY <1>0, <1>5 DEF UploadStore, AddImageCreate, DeleteImageWrite, BannerWrite, LogoWrite,
     Answer, Move, history
<1> QED BY <1>1, <1>2, <1>3, <1>4, <1>5 DEF CatalogueContinue

LEMMA OfficeStepTypes ==
    ASSUME OfficeTypes, CatalogueAssumption, NEW q \in Requests, OfficeContinue(q)
    PROVE  CatalogueTypes' /\ CountTypes' /\ AccountTypes' /\ QueueTypes'
<1>0. CatalogueTypes /\ CountTypes /\ AccountTypes /\ QueueTypes /\ Known(req[q])
  BY TypesSplit DEF SlotTypes
<1>r. req[q] \in ReqRow BY <1>0 DEF Known
<1>1. CatalogueTypes'
  <2>1. UNCHANGED catalogueRows
    BY DEF OfficeContinue, CreateBank, UnsetDefaults, CreateAccount, DropAccountWrite,
       MoveAccountWrite, AccountGone, EnqueueExport, RequestFails, unfailing
  <2> QED BY <1>0, <2>1 DEF CatalogueTypes, catalogueRows
<1>2. CountTypes'
  <2>1. UNCHANGED <<requests, history, crashes>> /\ faults' \in {faults, faults + 1}
    BY DEF OfficeContinue, CreateBank, UnsetDefaults, CreateAccount, DropAccountWrite,
       MoveAccountWrite, AccountGone, EnqueueExport, RequestFails, unfailing, Faulty,
       Answer, Step, Move, officeRows
  <2> QED BY <1>0, <2>1 DEF CountTypes, history
<1>3. AccountTypes'
  <2> USE DEF AccountTypes
  <2>1. CASE CreateBank(q)
    <3>1. req[q].name \in BankNames BY <1>0, <2>1 DEF CreateBank, At, Known
    <3> QED BY <1>0, <2>1, <3>1 DEF CreateBank
  <2>2. CASE UnsetDefaults(q)
    <3>1. ASSUME NEW a \in BankAccounts
          PROVE  Unset(account[a], req[q].owner) \in AccountRow \cup {NoAccount}
      <4>1. account[a] \in AccountRow \/ account[a] = NoAccount BY <1>0
      <4>2. CASE account[a] \in AccountRow
        <5>1. account[a].default \in BOOLEAN BY <4>2 DEF AccountRow
        <5>2. (account[a].default /\ account[a].owner # req[q].owner) \in BOOLEAN OBVIOUS
        <5>3. \A d \in BOOLEAN : [account[a] EXCEPT !.default = d] \in AccountRow
          BY <4>2 DEF AccountRow
        <5> QED BY <5>2, <5>3 DEF Unset
      <4>3. CASE account[a] = NoAccount
        <5>0. NoAccount.default = FALSE BY DEF NoAccount
        <5>a. (NoAccount.default /\ NoAccount.owner # req[q].owner) = FALSE BY <5>0
        <5>b. [NoAccount EXCEPT !.default = FALSE] = NoAccount
          <6> DEFINE S == [exists : BOOLEAN, owner : {null}, bank : {null},
                           default : BOOLEAN, active : BOOLEAN]
          <6>1. NoAccount \in S BY DEF NoAccount
          <6>2. \A row \in S : [row EXCEPT !.default = row.default] = row OBVIOUS
          <6> QED BY <5>0, <6>1, <6>2
        <5>1. Unset(NoAccount, req[q].owner) = NoAccount BY <5>a, <5>b DEF Unset
        <5> QED BY <4>3, <5>1
      <4> QED BY <4>1, <4>2, <4>3
    <3>2. account' = [a \in BankAccounts |-> Unset(account[a], req[q].owner)]
          /\ bank' = bank
      BY <2>2 DEF UnsetDefaults
    <3> QED BY <1>0, <3>1, <3>2
  <2>3. CASE CreateAccount(q)
    <3>1. req[q].bank \in Banks BY <1>0, <2>3 DEF CreateAccount, At, Known
    <3>2. req[q].owner \in Owners \cup {null} /\ req[q].default \in BOOLEAN
      BY <1>r DEF ReqRow
    <3>3. [exists |-> TRUE, owner |-> req[q].owner, bank |-> req[q].bank,
           default |-> req[q].default, active |-> TRUE] \in AccountRow
      BY <3>1, <3>2 DEF AccountRow
    <3> QED BY <1>0, <2>3, <3>3 DEF CreateAccount
  <2>4. CASE DropAccountWrite(q)
    <3>1. account[req[q].item].exists /\ req[q].item \in BankAccounts
      BY <2>4 DEF DropAccountWrite, Accounts
    <3>2. account[req[q].item] \in AccountRow BY <1>0, <3>1 DEF NoAccount
    <3>3. \A on \in BOOLEAN : [account[req[q].item] EXCEPT !.active = on] \in AccountRow
      BY <3>2 DEF AccountRow
    <3>4. PICK row \in AccountRow \cup {NoAccount} : account' = [account EXCEPT ![req[q].item] = row]
      BY <2>4, <3>3 DEF DropAccountWrite
    <3> QED BY <1>0, <2>4, <3>4 DEF DropAccountWrite
  <2>5. CASE MoveAccountWrite(q)
    <3>1. account[req[q].item].exists /\ req[q].item \in BankAccounts
      BY <2>5 DEF MoveAccountWrite, Accounts
    <3>2. account[req[q].item] \in AccountRow BY <1>0, <3>1 DEF NoAccount
    <3>3. req[q].bank \in Banks BY <1>0, <2>5 DEF MoveAccountWrite, At, Known
    <3>4. [account[req[q].item] EXCEPT !.bank = req[q].bank] \in AccountRow
      BY <3>2, <3>3 DEF AccountRow
    <3> QED BY <1>0, <2>5, <3>4 DEF MoveAccountWrite
  <2>6. CASE AccountGone(q) \/ EnqueueExport(q) \/ RequestFails(q)
    BY <1>0, <2>6 DEF AccountGone, EnqueueExport, RequestFails, officeRows, unfailing
  <2> QED BY <2>1, <2>2, <2>3, <2>4, <2>5, <2>6 DEF OfficeContinue
<1>4. QueueTypes'
  <2>1. CASE EnqueueExport(q)
    <3>1. job' \in [Exports -> JobRow] BY <1>0, <2>1 DEF EnqueueExport, QueueTypes, JobRow
    <3> QED BY <1>0, <2>1, <3>1 DEF EnqueueExport, QueueTypes
  <2>2. CASE ~EnqueueExport(q)
    <3>1. UNCHANGED <<export, job, worker>>
      BY <2>2 DEF OfficeContinue, CreateBank, UnsetDefaults, CreateAccount, DropAccountWrite,
         MoveAccountWrite, AccountGone, RequestFails, unfailing, officeRows
    <3> QED BY <1>0, <3>1 DEF QueueTypes
  <2> QED BY <2>1, <2>2
<1> QED BY <1>1, <1>2, <1>3, <1>4

(* The export queue's worker leaves everything else alone. *)
LEMMA WorkersKeepToTheQueue ==
    ASSUME NEW w \in Workers, Work(w)
    PROVE  /\ UNCHANGED <<catalogueRows, req, requests, history, bank, account, crashes>>
           /\ faults' = faults \/ faults' = faults + 1
<1>1. CASE TakeJob(w) \/ MarkProcessing(w) \/ Generate(w) \/ CompleteExport(w)
           \/ Acknowledge(w) \/ RecordFailure(w) \/ Rethrow(w)
  BY <1>1 DEF TakeJob, MarkProcessing, Generate, CompleteExport, Acknowledge, RecordFailure,
     Rethrow, work, catalogueVars
<1>2. CASE WorkFails(w) \/ WorkThrows(w)
  BY <1>2 DEF WorkFails, WorkThrows, unfailing, Faulty
<1> QED BY <1>1, <1>2 DEF Work

LEMMA JobRowsTyped ==
    ASSUME NEW j \in JobRow
    PROVE  /\ \A s \in {"none", "waiting", "active", "done", "failed"} :
                [j EXCEPT !.state = s] \in JobRow
           /\ AfterThrow(j) \in JobRow
           /\ AfterStall(j) \in JobRow
           /\ AfterThrow(j).tries = j.tries + 1 /\ AfterThrow(j).stalls = j.stalls
           /\ AfterThrow(j).state = (IF j.tries + 1 < MaxAttempts THEN "waiting" ELSE "failed")
           /\ AfterStall(j).stalls = j.stalls + 1 /\ AfterStall(j).tries = j.tries
           /\ AfterStall(j).state = (IF j.stalls < MaxStalled THEN "waiting" ELSE "failed")
<1>0. /\ j.tries \in Nat /\ j.stalls \in Nat
      /\ MaxAttempts \in Nat /\ MaxStalled \in Nat
  BY OfficeAssumption DEF JobRow
<1> DEFINE Thrown(s, n) == [j EXCEPT !.state = s, !.tries = n]
           Stalled(s, n) == [j EXCEPT !.state = s, !.stalls = n]
<1>1. ASSUME NEW s \in {"none", "waiting", "active", "done", "failed"}, NEW n \in Nat
      PROVE  /\ [j EXCEPT !.state = s] \in JobRow
             /\ Thrown(s, n) \in JobRow /\ Thrown(s, n).state = s
             /\ Thrown(s, n).tries = n /\ Thrown(s, n).stalls = j.stalls
             /\ Stalled(s, n) \in JobRow /\ Stalled(s, n).state = s
             /\ Stalled(s, n).tries = j.tries /\ Stalled(s, n).stalls = n
  BY DEF JobRow
<1>2. \A s \in {"none", "waiting", "active", "done", "failed"} : [j EXCEPT !.state = s] \in JobRow
  BY <1>0, <1>1
<1>3. PICK s \in {"waiting", "failed"} :
        /\ s = (IF j.tries + 1 < MaxAttempts THEN "waiting" ELSE "failed")
        /\ AfterThrow(j) = Thrown(s, j.tries + 1)
  BY DEF AfterThrow
<1>4. PICK z \in {"waiting", "failed"} :
        /\ z = (IF j.stalls < MaxStalled THEN "waiting" ELSE "failed")
        /\ AfterStall(j) = Stalled(z, j.stalls + 1)
  BY DEF AfterStall
<1>5. j.tries + 1 \in Nat /\ j.stalls + 1 \in Nat BY <1>0
<1> HIDE DEF Thrown, Stalled
<1> QED BY <1>1, <1>2, <1>3, <1>4, <1>5

(* What a worker's step does to the queue: it goes on with its job, marks the *)
(* job's export, and has the job back in the queue or finished.              *)
WorkerGoes(w, pc) ==
    worker' = [worker EXCEPT ![w] = [worker[w] EXCEPT !.pc = pc]]
ExportMarked(w, status) == export' = [export EXCEPT ![worker[w].export] = status]
JobThrown(w) ==
    /\ job' = [job EXCEPT ![worker[w].export] = AfterThrow(job[worker[w].export])]
    /\ worker' = [worker EXCEPT ![w] = NoWork]

QueueKinds(w) ==
    \/ /\ worker[w].pc = "idle" /\ export' = export
       /\ \E e \in Exports :
            /\ job[e].state = "waiting"
            /\ job' = [job EXCEPT ![e] = [job[e] EXCEPT !.state = "active"]]
            /\ worker' = [worker EXCEPT ![w] = [pc |-> "mark", export |-> e]]
       /\ faults' = faults
    \/ /\ worker[w].pc = "mark" /\ ExportMarked(w, "PROCESSING") /\ WorkerGoes(w, "generate")
       /\ job' = job /\ faults' = faults
    \/ /\ worker[w].pc = "generate" /\ WorkerGoes(w, "complete")
       /\ UNCHANGED <<export, job, faults>>
    \/ /\ worker[w].pc = "complete" /\ ExportMarked(w, "COMPLETED") /\ WorkerGoes(w, "ack")
       /\ job' = job /\ faults' = faults
    \/ /\ worker[w].pc = "ack" /\ export' = export /\ faults' = faults
       /\ job' = [job EXCEPT ![worker[w].export] = [job[worker[w].export] EXCEPT !.state = "done"]]
       /\ worker' = [worker EXCEPT ![w] = NoWork]
    \/ /\ worker[w].pc = "record_failure" /\ ExportMarked(w, "FAILED") /\ WorkerGoes(w, "rethrow")
       /\ job' = job /\ faults' = faults
    \/ /\ worker[w].pc = "rethrow" /\ JobThrown(w)
       /\ UNCHANGED <<export, faults>>
    \/ /\ worker[w].pc \in {"generate", "complete"} /\ WorkerGoes(w, "record_failure")
       /\ UNCHANGED <<export, job>> /\ faults' = faults + 1
    \/ /\ worker[w].pc \in {"mark", "record_failure"} /\ WorkerGoes(w, "rethrow")
       /\ UNCHANGED <<export, job>> /\ faults' = faults + 1

LEMMA WorkersStep ==
    ASSUME NEW w \in Workers, Work(w)
    PROVE  QueueKinds(w)
<1> USE DEF QueueKinds, Works, Goes, Marks, WorkerGoes, ExportMarked, JobThrown, work, catalogueVars
<1>1. CASE TakeJob(w) BY <1>1 DEF TakeJob
<1>2. CASE MarkProcessing(w) BY <1>2 DEF MarkProcessing
<1>3. CASE Generate(w) BY <1>3 DEF Generate
<1>4. CASE CompleteExport(w) BY <1>4 DEF CompleteExport
<1>5. CASE Acknowledge(w) BY <1>5 DEF Acknowledge
<1>6. CASE RecordFailure(w) BY <1>6 DEF RecordFailure
<1>7. CASE WorkFails(w) BY <1>7 DEF WorkFails, Faulty, unfailing
<1>8. CASE WorkThrows(w) BY <1>8 DEF WorkThrows, Faulty, unfailing
<1>9. CASE Rethrow(w) BY <1>9 DEF Rethrow
<1> QED BY <1>1, <1>2, <1>3, <1>4, <1>5, <1>6, <1>7, <1>8, <1>9 DEF Work

LEMMA WorkersStepTypes ==
    ASSUME OfficeTypes, NEW w \in Workers, Work(w)
    PROVE  QueueTypes'
<1>0. QueueTypes BY TypesSplit
<1>1. QueueKinds(w) BY WorkersStep
<1>2. worker[w] \in WorkerRow BY <1>0 DEF QueueTypes
<1>3. export' \in [Exports -> ExportStatus \cup {"NONE"}]
  <2>1. PICK s \in ExportStatus : export' = export \/ ExportMarked(w, s)
    BY <1>1 DEF QueueKinds, ExportStatus
  <2> QED BY <1>0, <2>1 DEF ExportMarked, QueueTypes
<1>4. job' \in [Exports -> JobRow]
  <2> DEFINE JobWritten(e, row) == job' = [job EXCEPT ![e] = row]
             x == worker[w].export
  <2>1. \A e \in Exports : job[e] \in JobRow BY <1>0 DEF QueueTypes
  <2>2. worker[w].pc # "idle" => x \in Exports BY <1>0 DEF QueueTypes
  <2>3. \/ job' = job
        \/ \E e \in Exports : JobWritten(e, [job[e] EXCEPT !.state = "active"])
        \/ x \in Exports /\ JobWritten(x, [job[x] EXCEPT !.state = "done"])
        \/ x \in Exports /\ JobWritten(x, AfterThrow(job[x]))
    BY <1>1, <2>2 DEF QueueKinds, JobThrown
  <2>4. \A e \in Exports : /\ [job[e] EXCEPT !.state = "active"] \in JobRow
                            /\ [job[e] EXCEPT !.state = "done"] \in JobRow
                            /\ AfterThrow(job[e]) \in JobRow
    BY <2>1, JobRowsTyped
  <2>5. \A e \in Exports, row \in JobRow :
            JobWritten(e, row) => job' \in [Exports -> JobRow]
    BY <1>0 DEF QueueTypes
  <2> HIDE DEF JobWritten, x
  <2> QED BY <1>0, <2>3, <2>4, <2>5 DEF QueueTypes
<1>5. PICK row \in WorkerRow : /\ worker' = [worker EXCEPT ![w] = row]
                               /\ row.pc # "idle" => row.export \in Exports
  <2> DEFINE At_(pc) == [worker[w] EXCEPT !.pc = pc]
             Taken(e) == [pc |-> "mark", export |-> e]
  <2>1. worker[w].pc # "idle" => worker[w].export \in Exports BY <1>0 DEF QueueTypes
  <2>2. \A pc \in {"generate", "complete", "ack", "record_failure", "rethrow"} :
          At_(pc) \in WorkerRow /\ At_(pc).export = worker[w].export
    BY <1>2 DEF WorkerRow
  <2>3. \A e \in Exports : Taken(e) \in WorkerRow /\ Taken(e).export = e
    BY DEF WorkerRow
  <2>4. \/ worker' = [worker EXCEPT ![w] = NoWork]
        \/ \E e \in Exports : worker' = [worker EXCEPT ![w] = Taken(e)]
        \/ /\ worker[w].pc # "idle"
           /\ \E pc \in {"generate", "complete", "ack", "record_failure", "rethrow"} :
                worker' = [worker EXCEPT ![w] = At_(pc)]
    BY <1>1 DEF QueueKinds, WorkerGoes, JobThrown
  <2>5. NoWork \in WorkerRow /\ NoWork.pc = "idle" BY DEF WorkerRow, NoWork
  <2> HIDE DEF At_, Taken
  <2> QED BY <2>1, <2>2, <2>3, <2>4, <2>5
<1>6. worker' \in [Workers -> WorkerRow]
      /\ \A v \in Workers : worker'[v].pc # "idle" => worker'[v].export \in Exports
  BY <1>0, <1>5 DEF QueueTypes
<1> QED BY <1>3, <1>4, <1>6 DEF QueueTypes

LEMMA RestartTypes ==
    ASSUME OfficeTypes, Crash
    PROVE  OfficeTypes'
<1>0. CatalogueTypes /\ CountTypes /\ AccountTypes /\ QueueTypes /\ SlotTypes BY TypesSplit
<1>1. CatalogueTypes' BY <1>0 DEF Crash, CatalogueTypes, catalogueRows
<1>2. CountTypes' BY <1>0 DEF Crash, CountTypes, history
<1>3. AccountTypes' BY <1>0 DEF Crash, AccountTypes
<1>4. QueueTypes'
  <2>1. NoWork \in WorkerRow /\ NoWork.pc = "idle" BY DEF NoWork, WorkerRow
  <2>2. \A e \in Exports : job[e] \in JobRow /\ AfterStall(job[e]) \in JobRow
    BY <1>0, JobRowsTyped DEF QueueTypes
  <2>3. job' \in [Exports -> JobRow] BY <2>2 DEF Crash
  <2> QED BY <1>0, <2>1, <2>3 DEF Crash, QueueTypes
<1>5. SlotTypes' BY NoReqIsKnown DEF Crash, SlotTypes, Known
<1> QED BY <1>1, <1>2, <1>3, <1>4, <1>5, TypesSplit

(* A step is a request taken up, a statement of one, a worker's, or a        *)
(* restart.                                                                  *)
Statement(q) ==
    \/ CatalogueContinue(q) /\ UNCHANGED officeRows
    \/ OfficeContinue(q)

LEMMA OfficeStepKinds ==
    ASSUME OfficeTypes, CatalogueAssumption, OfficeNext
    PROVE  \/ \E q \in Requests : \E rec : Enters(q, rec)
           \/ \E q \in Requests : Statement(q)
           \/ \E w \in Workers : Work(w)
           \/ Crash
BY CatalogueEnters, OfficeEnters DEF OfficeNext, Statement

LEMMA OfficeTypesStep ==
    ASSUME CatalogueAssumption, OfficeTypes, [OfficeNext]_officeVars
    PROVE  OfficeTypes'
<1>1. CASE OfficeNext
  <2>1. ASSUME NEW q \in Requests, NEW rec, Enters(q, rec) PROVE OfficeTypes'
    BY <2>1, EntersTypes
  <2>2. ASSUME NEW q \in Requests, Statement(q) PROVE OfficeTypes'
    <3>1. \E rec : Continues(q, rec)
      BY <2>2, CatalogueContinues, OfficeContinues DEF Statement
    <3>2. SlotTypes' BY <3>1, ContinuesSlotTypes
    <3>3. CASE CatalogueContinue(q) /\ UNCHANGED officeRows
      <4>1. CatalogueTypes' /\ CountTypes' BY <3>3, CatalogueStepTypes, CatalogueStepCounts
      <4>2. AccountTypes' /\ QueueTypes'
        BY <3>3, TypesSplit DEF AccountTypes, QueueTypes, officeRows
      <4> QED BY <3>2, <4>1, <4>2, TypesSplit
    <3>4. CASE OfficeContinue(q) BY <3>2, <3>4, OfficeStepTypes, TypesSplit
    <3> QED BY <2>2, <3>3, <3>4 DEF Statement
  <2>4. ASSUME NEW w \in Workers, Work(w) PROVE OfficeTypes'
    <3>0. CatalogueTypes /\ CountTypes /\ AccountTypes /\ SlotTypes BY TypesSplit
    <3>1. /\ UNCHANGED <<catalogueRows, req, requests, history, bank, account, crashes>>
          /\ faults' = faults \/ faults' = faults + 1
      BY <2>4, WorkersKeepToTheQueue
    <3>2. CatalogueTypes' BY <3>0, <3>1 DEF CatalogueTypes, catalogueRows
    <3>3. CountTypes' BY <3>0, <3>1 DEF CountTypes, history
    <3>4. AccountTypes' BY <3>0, <3>1 DEF AccountTypes
    <3>5. SlotTypes' BY <3>0, <3>1 DEF SlotTypes
    <3>6. QueueTypes' BY <2>4, WorkersStepTypes
    <3> QED BY <3>2, <3>3, <3>4, <3>5, <3>6, TypesSplit
  <2>5. CASE Crash BY <2>5, RestartTypes
  <2> QED BY <1>1, <2>1, <2>2, <2>4, <2>5, OfficeStepKinds
<1>2. CASE UNCHANGED officeVars
  BY <1>2 DEF officeVars, catalogueVars, catalogueRows, officeRows, history, OfficeTypes,
     OfficeTypeOK
<1> QED BY <1>1, <1>2

(* Every row and every handler of the back office keeps its type, however    *)
(* its requests, its workers, failures and restarts interleave.              *)
THEOREM OfficeTypeCorrect == OfficeSpec => []OfficeTypeOK
<1>1. OfficeInit => OfficeTypes BY CatalogueAssumption, TypesInit
<1>2. OfficeTypes /\ [OfficeNext]_officeVars => OfficeTypes'
  BY CatalogueAssumption, OfficeTypesStep
<1>3. OfficeTypes => OfficeTypeOK BY DEF OfficeTypes
<1> QED BY <1>1, <1>2, <1>3, PTL DEF OfficeSpec

-----------------------------------------------------------------------------
(* Files                                                                     *)

StoredInv ==
    /\ ShownFilesAreStored
    /\ \A q \in Requests :
        req[q].pc \in {"image_create", "banner_write", "logo_write"} => req[q].item \in files

(* Rows come to show nothing but what a request has stored. *)
LEMMA FilesRows ==
    ASSUME OfficeTypes, StoredInv, NEW q \in Requests, CatalogueContinue(q)
    PROVE  files \subseteq files' /\ ShownFilesAreStored'
<1>0. CatalogueTypes BY TypesSplit
<1>s. /\ files \subseteq disk
      /\ \A i \in Images : image[i] # null => image[i] \in files
      /\ lot.banner # null => lot.banner \in files
      /\ logo # null => logo \in files
  BY DEF StoredInv, ShownFilesAreStored
<1> SUFFICES /\ files \subseteq files' /\ files' \subseteq disk'
             /\ \A i \in Images : image'[i] # null => image'[i] \in files'
             /\ lot'.banner # null => lot'.banner \in files'
             /\ logo' # null => logo' \in files'
  BY DEF ShownFilesAreStored
<1>1. CASE UploadStore(q) \/ UploadFails(q)
  <2>1. UNCHANGED <<lot, image, logo>> BY <1>1 DEF UploadStore, UploadFails
  <2>2. files \subseteq files' /\ files' \subseteq disk'
    BY <1>1, <1>s DEF UploadStore, UploadFails, LeftOver
  <2> QED BY <1>s, <2>1, <2>2
<1>2. CASE AddImageCreate(q) \/ DeleteImageWrite(q)
  <2>1. UNCHANGED <<lot, logo, disk, files>> BY <1>2 DEF AddImageCreate, DeleteImageWrite
  <2>2. CASE AddImageCreate(q)
    <3>1. req[q].item \in files BY <2>2 DEF AddImageCreate, StoredInv, At
    <3>2. PICK i : image' = [image EXCEPT ![i] = req[q].item] BY <2>2 DEF AddImageCreate
    <3>3. \A k \in Images : image'[k] = image[k] \/ image'[k] = req[q].item
      BY <1>0, <3>2 DEF CatalogueTypes
    <3> QED BY <1>s, <2>1, <3>1, <3>3
  <2>3. CASE DeleteImageWrite(q)
    <3>1. \A k \in Images : image'[k] = image[k] \/ image'[k] = null
      BY <1>0, <2>3 DEF DeleteImageWrite, CatalogueTypes
    <3> QED BY <1>s, <2>1, <3>1
  <2> QED BY <1>2, <2>2, <2>3
<1>3. CASE BannerWrite(q)
  <2>1. req[q].item \in files BY <1>3 DEF BannerWrite, StoredInv, At
  <2>2. lot'.banner = req[q].item BY <1>0, <1>3 DEF BannerWrite, CatalogueTypes, LotRow
  <2> QED BY <1>3, <1>s, <2>1, <2>2 DEF BannerWrite
<1>4. CASE LogoWrite(q)
  <2>1. req[q].item \in files BY <1>4 DEF LogoWrite, StoredInv, At
  <2> QED BY <1>4, <1>s, <2>1 DEF LogoWrite
<1>5. CASE \/ CreateTx(q) \/ EditWrite(q) \/ AddPrizeWrite(q) \/ DeletePrizeWrite(q)
           \/ PublishCount(q) \/ PublishWrite(q) \/ CloseWrite(q) \/ ArchiveWrite(q)
           \/ DeleteWrite(q) \/ ReserveWrite(q) \/ DrawWrite(q) \/ ResultsWrite(q)
  <2>1. UNCHANGED <<image, logo, disk, files>>
    BY <1>5 DEF CreateTx, EditWrite, AddPrizeWrite, DeletePrizeWrite, PublishCount, PublishWrite,
       CloseWrite, ArchiveWrite, ReserveWrite, DrawWrite, ResultsWrite, DeleteWrite,
       StatusWrite, catalogueRows
  <2>2. lot'.banner = lot.banner
    BY <1>0, <1>5 DEF CreateTx, EditWrite, AddPrizeWrite, DeletePrizeWrite, PublishCount,
       PublishWrite, CloseWrite, ArchiveWrite, ReserveWrite, DrawWrite, ResultsWrite,
       DeleteWrite, StatusWrite, catalogueRows,
       CatalogueTypes, LotRow
  <2> QED BY <1>s, <2>1, <2>2
<1> QED BY <1>1, <1>2, <1>3, <1>4, <1>5 DEF CatalogueContinue

LEMMA OfficeLeavesTheCatalogue ==
    ASSUME NEW q \in Requests, OfficeContinue(q)
    PROVE  UNCHANGED catalogueRows /\ UNCHANGED history
BY DEF OfficeContinue, CreateBank, UnsetDefaults, CreateAccount, DropAccountWrite,
   MoveAccountWrite, AccountGone, EnqueueExport, RequestFails, unfailing, Answer, Step

LEMMA StatementContinues ==
    ASSUME OfficeTypes, NEW q \in Requests, Statement(q)
    PROVE  \E rec : Continues(q, rec)
BY CatalogueContinues, OfficeContinues DEF Statement

LEMMA StoredStep ==
    ASSUME CatalogueAssumption, OfficeTypes, StoredInv, [OfficeNext]_officeVars
    PROVE  StoredInv'
<1>r. req \in [Requests -> ReqRow] BY DEF OfficeTypes, OfficeTypeOK
<1>1. ASSUME NEW q \in Requests, NEW rec, Enters(q, rec) PROVE StoredInv'
  <2>1. UNCHANGED catalogueRows BY <1>1 DEF Enters
  <2>2. \A p \in Requests : req'[p] = req[p] \/ req'[p] = rec BY <1>1, <1>r DEF Enters
  <2>3. rec.pc \notin {"image_create", "banner_write", "logo_write"} BY <1>1 DEF Enters, Entry
  <2> QED BY <2>1, <2>2, <2>3 DEF StoredInv, ShownFilesAreStored, catalogueRows
<1>2. ASSUME NEW q \in Requests, Statement(q) PROVE StoredInv'
  <2>1. PICK rec : Continues(q, rec) BY <1>2, StatementContinues
  <2>2. files \subseteq files' /\ ShownFilesAreStored'
    <3>1. CASE CatalogueContinue(q) BY <3>1, FilesRows
    <3>2. CASE OfficeContinue(q)
      BY <3>2, OfficeLeavesTheCatalogue DEF catalogueRows, StoredInv, ShownFilesAreStored
    <3> QED BY <1>2, <3>1, <3>2 DEF Statement
  <2>3. ASSUME NEW p \in Requests, req'[p].pc \in {"image_create", "banner_write", "logo_write"}
        PROVE  req'[p].item \in files'
    <3>1. CASE p = q
      <4>1. rec.pc \in {"image_create", "banner_write", "logo_write"} /\ req'[p] = rec
            /\ Passed(q, rec)
        BY <2>1, <2>3, <3>1 DEF Continues
      <4> QED BY <4>1, NoReqIsKnown DEF Passed
    <3>2. CASE p # q
      BY <2>1, <2>2, <2>3, <3>2, KeptFacts DEF Continues, StoredInv
    <3> QED BY <3>1, <3>2
  <2> QED BY <2>2, <2>3 DEF StoredInv
<1>4. ASSUME NEW w \in Workers, Work(w) PROVE StoredInv'
  BY <1>4, WorkersKeepToTheQueue DEF catalogueRows, StoredInv, ShownFilesAreStored
<1>5. CASE Crash
  BY <1>5, NoReqIsKnown DEF Crash, catalogueRows, StoredInv, ShownFilesAreStored
<1>6. CASE UNCHANGED officeVars
  BY <1>6 DEF officeVars, catalogueVars, catalogueRows, StoredInv, ShownFilesAreStored
<1> QED BY <1>1, <1>2, <1>4, <1>5, <1>6, OfficeStepKinds

(* Whatever the portal shows is in the table of files, and every row of that *)
(* table has its bytes on the disk, wherever an upload and the request that  *)
(* uses it fail (file.service.ts:71-97, lottery.service.ts:297-344).         *)
THEOREM PicturesAreStored == OfficeSpec => []ShownFilesAreStored
<1> DEFINE I == OfficeTypes /\ StoredInv
<1>1. OfficeInit => I
  <2>1. OfficeInit => StoredInv
    BY NoReqIsKnown DEF OfficeInit, CatalogueInit, StoredInv, ShownFilesAreStored
  <2> QED BY <2>1, TypesInit, CatalogueAssumption
<1>2. I /\ [OfficeNext]_officeVars => I'
  BY CatalogueAssumption, OfficeTypesStep, StoredStep
<1>3. I => ShownFilesAreStored BY DEF StoredInv
<1> QED BY <1>1, <1>2, <1>3, PTL DEF OfficeSpec

-----------------------------------------------------------------------------
(* The life cycle                                                            *)

LifeInv ==
    \A q \in Requests :
        /\ req[q].pc = "create_tx" =>
             lot.status = "NONE" /\ \A p \in Requests : req[p].pc = "create_tx" => p = q
        /\ req[q].pc \in FoundPcs => lot.status # "NONE"
        /\ req[q].pc = "publish_write" => prizes # {} \/ req[q].stale

(* What a statement does to the lottery's status and its mark.               *)
LotMoves(q) ==
    /\ \/ lot'.status = lot.status
       \/ At(q, "create_tx") /\ lot'.status = "DRAFT"
       \/ At(q, "publish_write") /\ lot'.status = "PUBLISHED"
       \/ At(q, "sell_write") /\ lot'.status = "SELLING"
       \/ At(q, "close_write") /\ lot'.status = "CLOSED"
       \/ At(q, "draw_write") /\ lot'.status = "DRAWING"
       \/ At(q, "results_write") /\ lot'.status = "COMPLETED"
       \/ At(q, "archive_write") /\ lot'.status = "ARCHIVED"
    /\ \/ lot'.deleted = lot.deleted
       \/ At(q, "delete_write") /\ lot'.status = lot.status

LEMMA StatementMovesLot ==
    ASSUME OfficeTypes, NEW q \in Requests, Statement(q)
    PROVE  LotMoves(q)
<1>0. lot \in LotRow BY TypesSplit DEF CatalogueTypes
<1>1. CASE OfficeContinue(q)
  BY <1>1, OfficeLeavesTheCatalogue DEF LotMoves, catalogueRows
<1>2. CASE CreateTx(q)
  <2>1. lot'.status = "DRAFT" /\ lot'.deleted = lot.deleted /\ At(q, "create_tx")
    BY <1>0, <1>2 DEF CreateTx, LotRow
  <2> QED BY <2>1 DEF LotMoves
<1>3. CASE EditWrite(q)
  <2>1. lot'.status = lot.status /\ lot'.deleted = lot.deleted BY <1>0, <1>3 DEF EditWrite, LotRow
  <2> QED BY <2>1 DEF LotMoves
<1>4. CASE \/ AddPrizeWrite(q) \/ DeletePrizeWrite(q) \/ PublishCount(q)
           \/ UploadStore(q) \/ UploadFails(q) \/ AddImageCreate(q)
           \/ DeleteImageWrite(q) \/ LogoWrite(q)
  BY <1>4 DEF AddPrizeWrite, DeletePrizeWrite, PublishCount, catalogueRows, UploadStore,
     UploadFails, AddImageCreate, DeleteImageWrite, LogoWrite, LotMoves
<1>7. CASE \/ PublishWrite(q) \/ CloseWrite(q) \/ ArchiveWrite(q)
           \/ ReserveWrite(q) \/ DrawWrite(q) \/ ResultsWrite(q)
  <2>1. \A pc, s : StatusWrite(q, pc, s) =>
          At(q, pc) /\ lot'.status = s /\ lot'.deleted = lot.deleted
    BY <1>0 DEF StatusWrite, LotRow
  <2> QED BY <1>7, <2>1 DEF PublishWrite, CloseWrite, ArchiveWrite, ReserveWrite, DrawWrite,
          ResultsWrite, LotMoves
<1>8. CASE DeleteWrite(q)
  <2>1. lot'.status = lot.status BY <1>0, <1>8 DEF DeleteWrite, LotRow
  <2> QED BY <1>8, <2>1 DEF DeleteWrite, LotMoves
<1>10. CASE BannerWrite(q)
  <2>1. lot'.status = lot.status /\ lot'.deleted = lot.deleted BY <1>0, <1>10 DEF BannerWrite, LotRow
  <2> QED BY <2>1 DEF LotMoves
<1> QED BY <1>1, <1>2, <1>3, <1>4, <1>7, <1>8, <1>10 DEF Statement, CatalogueContinue

(* A statement that takes prizes away marks the publications that counted    *)
(* them.                                                                     *)
LEMMA StatementKeepsTheCount ==
    ASSUME OfficeTypes, NEW q \in Requests, Statement(q), ~CreateTx(q),
           NEW p \in Requests, p # q, req[p].pc = "publish_write", prizes # {} \/ req[p].stale
    PROVE  prizes' # {} \/ req'[p].stale
<1>f. req \in [Requests -> ReqRow] BY DEF OfficeTypes, OfficeTypeOK
<1>1. CASE EditWrite(q)
  <2>1. prizes' = prizes /\ req'[p] = [req[p] EXCEPT !.stale = req[p].stale \/ At(p, "edit_write")]
    BY <1>1 DEF EditWrite
  <2>2. req[p].stale => req'[p].stale BY <1>f, <2>1 DEF ReqRow
  <2> QED BY <2>1, <2>2
<1>2. CASE DeletePrizeWrite(q)
  <2> DEFINE Lately == At(p, "publish_write") /\ req[q].item \in prizes
  <2>1. /\ prizes' = prizes \ {req[q].item}
        /\ req'[p] = [req[p] EXCEPT !.stale = req[p].stale \/ Lately]
    BY <1>2 DEF DeletePrizeWrite
  <2>2. Lately <=> req[q].item \in prizes BY DEF At
  <2> HIDE DEF Lately
  <2>3. req'[p].stale <=> req[p].stale \/ Lately BY <1>f, <2>1 DEF ReqRow
  <2> QED BY <2>1, <2>2, <2>3
<1>3. CASE ~EditWrite(q) /\ ~DeletePrizeWrite(q) /\ CatalogueContinue(q)
  <2>1. prizes \subseteq prizes'
    BY <1>3 DEF CatalogueContinue, AddPrizeWrite, PublishCount, PublishWrite,
       CloseWrite, ArchiveWrite, ReserveWrite, DrawWrite, ResultsWrite, DeleteWrite, StatusWrite,
       UploadStore, UploadFails, AddImageCreate, DeleteImageWrite, BannerWrite, LogoWrite,
       catalogueRows
  <2>2. \E rec : req' = [req EXCEPT ![q] = rec]
    BY <1>3 DEF CatalogueContinue, AddPrizeWrite, PublishCount, PublishWrite,
       CloseWrite, ArchiveWrite, ReserveWrite, DrawWrite, ResultsWrite, DeleteWrite, StatusWrite,
       UploadStore, UploadFails, AddImageCreate, DeleteImageWrite, BannerWrite, LogoWrite,
       Answer, Step, Move
  <2>3. req'[p] = req[p] BY <1>f, <2>2
  <2> QED BY <2>1, <2>3
<1>4. CASE OfficeContinue(q)
  <2>1. prizes' = prizes BY <1>4, OfficeLeavesTheCatalogue DEF catalogueRows
  <2>2. \E rec : req' = [req EXCEPT ![q] = rec]
    BY <1>4 DEF OfficeContinue, CreateBank, UnsetDefaults, CreateAccount, DropAccountWrite,
       MoveAccountWrite, AccountGone, EnqueueExport, RequestFails, Answer, Step, Move
  <2>3. req'[p] = req[p] BY <1>f, <2>2
  <2> QED BY <2>1, <2>3
<1> QED BY <1>1, <1>2, <1>3, <1>4 DEF Statement

(* A handler comes to a statement on the lottery from its own read of it.    *)
LEMMA PassedToTheLottery ==
    ASSUME NEW q \in Requests, NEW rec, Passed(q, rec),
           rec.pc \in FoundPcs \cup {"create_tx"}
    PROVE  At(q, "publish_count") /\ rec.pc = "publish_write" /\ HasPrizes
BY NoReqIsKnown DEF Passed, FoundPcs

LEMMA LifeStatement ==
    ASSUME OfficeTypes, LifeInv, NEW q \in Requests, Statement(q)
    PROVE  LifeInv'
<1>1. PICK rec : Continues(q, rec) BY StatementContinues
<1>2. LotMoves(q) BY StatementMovesLot
<1>3. req'[q] = rec /\ Passed(q, rec) BY <1>1 DEF Continues
<1>4. \A p \in Requests \ {q} : req'[p].pc = req[p].pc BY <1>1, KeptFacts DEF Continues
<1>6. lot.status # "NONE" => lot'.status # "NONE"
  BY <1>2 DEF LotMoves
<1>8. ASSUME NEW p \in Requests, p # q
      PROVE  /\ req'[p].pc = "create_tx" => lot'.status = "NONE"
             /\ req'[p].pc \in FoundPcs => lot'.status # "NONE"
             /\ req'[p].pc = "publish_write" => prizes' # {} \/ req'[p].stale
  <2>1. req'[p].pc = req[p].pc BY <1>4, <1>8
  <2>2. req'[p].pc = "create_tx" => lot'.status = "NONE"
    BY <1>2, <1>8, <2>1 DEF LotMoves, LifeInv, At, FoundPcs
  <2>3. req'[p].pc = "publish_write" => prizes' # {} \/ req'[p].stale
    <3>1. SUFFICES ASSUME req[p].pc = "publish_write" PROVE prizes' # {} \/ req'[p].stale
      BY <2>1
    <3>2. lot.status # "NONE" BY <3>1 DEF LifeInv, FoundPcs
    <3>3. ~CreateTx(q) BY <3>2 DEF CreateTx, At, LifeInv
    <3>4. prizes # {} \/ req[p].stale BY <3>1 DEF LifeInv
    <3> QED BY <1>8, <3>1, <3>3, <3>4, StatementKeepsTheCount
  <2> QED BY <1>6, <2>1, <2>2, <2>3 DEF LifeInv
<1>9. rec.pc \in FoundPcs \cup {"create_tx"} =>
        rec.pc = "publish_write" /\ lot'.status # "NONE" /\ prizes' # {}
  <2>1. SUFFICES ASSUME rec.pc \in FoundPcs \cup {"create_tx"}
                 PROVE  rec.pc = "publish_write" /\ lot'.status # "NONE" /\ prizes' # {}
    OBVIOUS
  <2>2. At(q, "publish_count") /\ rec.pc = "publish_write" /\ HasPrizes
    BY <1>3, <2>1, PassedToTheLottery
  <2>3. PublishCount(q) \/ RequestFails(q)
    BY <2>2 DEF Statement, CatalogueContinue, OfficeContinue, CreateTx, EditWrite, AddPrizeWrite,
       DeletePrizeWrite, PublishWrite, CloseWrite, ArchiveWrite, ReserveWrite, DrawWrite,
       ResultsWrite, StatusWrite, DeleteWrite, UploadStore, UploadFails, AddImageCreate,
       DeleteImageWrite, BannerWrite, LogoWrite, CreateBank, UnsetDefaults, CreateAccount,
       DropAccountWrite, MoveAccountWrite, AccountGone, EnqueueExport, At
  <2>4. UNCHANGED <<lot, prizes>> BY <2>3 DEF PublishCount, RequestFails, unfailing, catalogueRows
  <2> QED BY <2>2, <2>4 DEF LifeInv, At, FoundPcs, HasPrizes
<1>10. ASSUME NEW p \in Requests, req'[p].pc = "create_tx"
       PROVE  \A r \in Requests : req'[r].pc = "create_tx" => r = p
  BY <1>3, <1>4, <1>9, <1>10 DEF LifeInv, FoundPcs
<1> QED BY <1>3, <1>8, <1>9, <1>10 DEF LifeInv, FoundPcs

LEMMA LifeStep ==
    ASSUME CatalogueAssumption, OfficeTypes, LifeInv, [OfficeNext]_officeVars
    PROVE  LifeInv'
<1>r. req \in [Requests -> ReqRow] BY DEF OfficeTypes, OfficeTypeOK
<1>1. ASSUME NEW q \in Requests, NEW rec, Enters(q, rec) PROVE LifeInv'
  <2>1. UNCHANGED <<lot, prizes>> BY <1>1 DEF Enters, catalogueRows
  <2>2. /\ \A p \in Requests \ {q} : req'[p] = req[p]
        /\ req'[q] = rec
    BY <1>1, <1>r DEF Enters
  <2>3. Entry(rec) BY <1>1 DEF Enters
  <2> QED BY <2>1, <2>2, <2>3 DEF LifeInv, Entry, FoundPcs, At
<1>2. ASSUME NEW q \in Requests, Statement(q) PROVE LifeInv'
  BY <1>2, LifeStatement
<1>4. ASSUME NEW w \in Workers, Work(w) PROVE LifeInv'
  BY <1>4, WorkersKeepToTheQueue DEF catalogueRows, LifeInv
<1>5. CASE Crash
  BY <1>5, NoReqIsKnown DEF Crash, catalogueRows, LifeInv, FoundPcs
<1>6. CASE UNCHANGED officeVars
  BY <1>6 DEF officeVars, catalogueVars, catalogueRows, LifeInv
<1> QED BY <1>1, <1>2, <1>4, <1>5, <1>6, OfficeStepKinds

(* The types and the life cycle together. *)
LotteryInv == OfficeTypes /\ LifeInv

LEMMA LotteryInductive ==
    ASSUME CatalogueAssumption
    PROVE  /\ OfficeInit => LotteryInv
           /\ LotteryInv /\ [OfficeNext]_officeVars => LotteryInv'
<1>1. OfficeInit => LifeInv
  BY NoReqIsKnown DEF OfficeInit, CatalogueInit, LifeInv, FoundPcs
<1> QED BY <1>1, TypesInit, OfficeTypesStep, LifeStep DEF LotteryInv

(* Whatever else is in flight, a handler that publishes a lottery without a  *)
(* prize had counted one, which deletePrize took away before the write       *)
(* (lottery.service.ts:254-269, 394-397).                                    *)
THEOREM UnprizedOnlyWhenOvertaken == OfficeSpec => UnprizedPublicationsWereOvertaken
<1> DEFINE Unprized == lot'.status = "PUBLISHED" /\ lot.status # "PUBLISHED" /\ prizes = {}
           Overtaken == \E q \in Requests : /\ At(q, "publish_write") /\ req'[q].pc = "idle"
                                            /\ req[q].stale
<1>1. OfficeInit => LotteryInv BY CatalogueAssumption, LotteryInductive
<1>2. LotteryInv /\ [OfficeNext]_officeVars => LotteryInv'
  BY CatalogueAssumption, LotteryInductive
<1>3. LotteryInv /\ [OfficeNext]_officeVars => [Unprized => Overtaken]_catalogueVars
  <2> SUFFICES ASSUME LotteryInv, [OfficeNext]_officeVars, Unprized
               PROVE  Overtaken
    OBVIOUS
  <2>t. OfficeTypes /\ LifeInv BY DEF LotteryInv
  <2>1. ASSUME NEW q \in Requests, Statement(q) PROVE Overtaken
    <3>1. PICK rec : Continues(q, rec) BY <2>1, <2>t, StatementContinues
    <3>2. At(q, "publish_write") BY <2>1, <2>t, StatementMovesLot DEF LotMoves
    <3>3. req[q].stale BY <2>t, <3>2 DEF LifeInv, At
    <3>4. rec = NoReq BY <3>1, <3>2 DEF Continues, Passed, At
    <3> QED BY <3>1, <3>2, <3>3, <3>4, NoReqIsKnown DEF Continues
  <2>2. CASE UNCHANGED lot BY <2>2
  <2>3. ASSUME NEW q \in Requests, NEW rec, Enters(q, rec) PROVE UNCHANGED lot
    BY <2>3 DEF Enters, catalogueRows
  <2>4. ASSUME NEW w \in Workers, Work(w) PROVE UNCHANGED lot
    BY <2>4, WorkersKeepToTheQueue DEF catalogueRows
  <2>5. CASE Crash BY <2>2, <2>5 DEF Crash, catalogueRows
  <2>6. CASE UNCHANGED officeVars BY <2>2, <2>6 DEF officeVars, catalogueVars, catalogueRows
  <2> QED BY <2>t, <2>1, <2>2, <2>3, <2>4, <2>5, <2>6, CatalogueAssumption, OfficeStepKinds
<1> QED BY <1>1, <1>2, <1>3, PTL DEF OfficeSpec, UnprizedPublicationsWereOvertaken

LEMMA Ranks ==
    /\ Rank("NONE") = 1 /\ Rank("DRAFT") = 2 /\ Rank("PUBLISHED") = 3 /\ Rank("SELLING") = 4
    /\ Rank("CLOSED") = 5 /\ Rank("DRAWING") = 6 /\ Rank("COMPLETED") = 7
    /\ Rank("ARCHIVED") = 8
<1>1. DOMAIN LifeCycle = 1..8 BY DEF LifeCycle
<1>2. \A i \in 1..8 : i \in {1, 2, 3, 4, 5, 6, 7, 8} OBVIOUS
<1>3. /\ LifeCycle[1] = "NONE" /\ LifeCycle[2] = "DRAFT" /\ LifeCycle[3] = "PUBLISHED"
      /\ LifeCycle[4] = "SELLING" /\ LifeCycle[5] = "CLOSED" /\ LifeCycle[6] = "DRAWING"
      /\ LifeCycle[7] = "COMPLETED" /\ LifeCycle[8] = "ARCHIVED"
  BY DEF LifeCycle
<1>4. ASSUME NEW i \in 1..8 PROVE Rank(LifeCycle[i]) = i
  <2> DEFINE s == LifeCycle[i]
  <2>1. \A k \in 1..8 : LifeCycle[k] = s => k = i BY <1>2, <1>3
  <2>2. Rank(s) = CHOOSE k \in 1..8 : LifeCycle[k] = s BY <1>1 DEF Rank
  <2>3. \E k \in 1..8 : LifeCycle[k] = s OBVIOUS
  <2> HIDE DEF s
  <2> QED BY <2>1, <2>2, <2>3
<1>5. {1, 2, 3, 4, 5, 6, 7, 8} \subseteq 1..8 OBVIOUS
<1> QED BY <1>3, <1>4, <1>5

(* Only a handler that read another status takes a lottery back in its life  *)
(* cycle, or deletes it after its publication, whatever else is in flight:   *)
(* reservations, draws and the publication of results among them             *)
(* (lottery.service.ts:254-293, ticket.service.ts:117-124,                   *)
(* draw.service.ts:127-131, 135-154, 260-263).                               *)
THEOREM LateWritersOnly == OfficeSpec => OnlyLateWritersUndoTheLifeCycle
<1> DEFINE Back == \/ Rank(lot'.status) < Rank(lot.status)
                   \/ lot'.deleted /\ ~lot.deleted /\ lot.status # "DRAFT"
           Late == \E q \in Requests : /\ req[q].pc # "idle" /\ req'[q].pc = "idle"
                                       /\ req[q].seen # lot.status
<1>1. OfficeInit => LotteryInv BY CatalogueAssumption, LotteryInductive
<1>2. LotteryInv /\ [OfficeNext]_officeVars => LotteryInv'
  BY CatalogueAssumption, LotteryInductive
<1>3. LotteryInv /\ LotteryInv' /\ [OfficeNext]_officeVars => [Back => Late]_catalogueVars
  <2> SUFFICES ASSUME LotteryInv, LotteryInv', [OfficeNext]_officeVars, Back
               PROVE  Late
    OBVIOUS
  <2>t. OfficeTypes /\ LifeInv /\ lot.status \in LotStatus /\ lot'.status \in LotStatus
    BY DEF LotteryInv, OfficeTypes, OfficeTypeOK, LotRow
  <2>k. UNCHANGED lot => FALSE
    <3>1. Rank(lot.status) \in Nat BY <2>t, Ranks, StatusFacts
    <3> QED BY <3>1
  <2>1. ASSUME NEW q \in Requests, Statement(q) PROVE Late
    <3>1. PICK rec : Continues(q, rec) BY <2>1, <2>t, StatementContinues
    <3>2. LotMoves(q) BY <2>1, <2>t, StatementMovesLot
    <3>3. CASE lot'.status = lot.status
      <4>1. At(q, "delete_write") /\ lot.status # "DRAFT"
        BY <2>t, <3>2, <3>3, Ranks, StatusFacts DEF LotMoves
      <4>2. req[q].seen = "DRAFT" /\ req[q].pc # "idle" BY <2>t, <4>1 DEF OfficeTypes, Known, At
      <4>3. rec = NoReq BY <3>1, <4>1 DEF Continues, Passed, At
      <4> QED BY <3>1, <4>1, <4>2, <4>3, NoReqIsKnown DEF Continues
    <3>4. CASE lot'.status # lot.status
      <4>1. Rank(lot'.status) < Rank(lot.status) BY <3>2, <3>4 DEF LotMoves
      <4>2. ~At(q, "create_tx")
        <5>1. At(q, "create_tx") => lot.status = "NONE" BY <2>t DEF LifeInv, At
        <5> QED BY <2>t, <4>1, <5>1, Ranks, StatusFacts
      <4>3. \/ At(q, "publish_write") /\ lot'.status = "PUBLISHED" /\ req[q].seen = "DRAFT"
            \/ At(q, "sell_write") /\ lot'.status = "SELLING" /\ req[q].seen = "PUBLISHED"
            \/ At(q, "close_write") /\ lot'.status = "CLOSED" /\ req[q].seen \in Closable
            \/ At(q, "draw_write") /\ lot'.status = "DRAWING" /\ req[q].seen = "CLOSED"
            \/ At(q, "results_write") /\ lot'.status = "COMPLETED" /\ req[q].seen = "DRAWING"
        <5>1. lot'.status # "ARCHIVED" BY <2>t, <4>1, Ranks, StatusFacts
        <5>2. Known(req[q]) BY <2>t DEF OfficeTypes
        <5> QED BY <3>2, <3>4, <4>2, <5>1, <5>2 DEF LotMoves, Known, At
      <4>4. req[q].seen # lot.status BY <4>1, <4>3, Ranks DEF Closable
      <4>5. rec = NoReq BY <3>1, <4>3 DEF Continues, Passed, At
      <4> QED BY <3>1, <4>4, <4>5, NoReqIsKnown DEF Continues, At
    <3> QED BY <3>3, <3>4
  <2>2. ASSUME NEW q \in Requests, NEW rec, Enters(q, rec) PROVE Late
    BY <2>2, <2>k DEF Enters, catalogueRows
  <2>4. ASSUME NEW w \in Workers, Work(w) PROVE Late
    BY <2>4, <2>k, WorkersKeepToTheQueue DEF catalogueRows
  <2>5. CASE Crash BY <2>5, <2>k DEF Crash, catalogueRows
  <2>6. CASE UNCHANGED officeVars BY <2>6, <2>k DEF officeVars, catalogueVars, catalogueRows
  <2> QED BY <2>t, <2>1, <2>2, <2>4, <2>5, <2>6, CatalogueAssumption, OfficeStepKinds
<1> QED BY <1>1, <1>2, <1>3, PTL DEF OfficeSpec, OnlyLateWritersUndoTheLifeCycle

-----------------------------------------------------------------------------
(* Exports                                                                   *)

(* A job is with one worker or with none, and only a worker that has marked  *)
(* its export COMPLETED has it done.                                         *)
WorkerInv ==
    /\ \A w \in Workers : worker[w].pc # "idle" =>
        /\ job[worker[w].export].state = "active"
        /\ \A v \in Workers : worker[v].pc # "idle" /\ worker[v].export = worker[w].export => v = w
        /\ worker[w].pc = "ack" => export[worker[w].export] = "COMPLETED"
        /\ worker[w].pc \in {"record_failure", "rethrow"} => job[worker[w].export].tries + 1 <= faults
    /\ \A e \in Exports :
        /\ job[e].state = "done" => export[e] = "COMPLETED"
        /\ job[e].tries <= faults /\ job[e].stalls <= crashes
        /\ job[e].state = "failed" => job[e].tries >= MaxAttempts \/ job[e].stalls > MaxStalled

(* A requested export has its job, is about to get it, or a statement of the *)
(* request failed.                                                           *)
Enqueuing(q, e) == At(q, "export_enqueue") /\ req[q].item = e

EnqueueInv ==
    /\ \A q \in Requests : req[q].pc = "export_enqueue" =>
        /\ job[req[q].item].state = "none" /\ export[req[q].item] # "NONE"
        /\ \A p \in Requests : Enqueuing(p, req[q].item) => p = q
    /\ \A e \in Exports :
        /\ export[e] = "NONE" => job[e].state = "none"
        /\ job[e].state = "none" /\ export[e] # "NONE" =>
             (\E q \in Requests : Enqueuing(q, e)) \/ faults + crashes > 0

QueueInv == WorkerInv /\ EnqueueInv

LEMMA StatementQueues ==
    ASSUME OfficeTypes, NEW q \in Requests, Statement(q)
    PROVE  /\ UNCHANGED <<export, worker, crashes>>
           /\ faults' = faults \/ faults' = faults + 1
           /\ \/ job' = job /\ (At(q, "export_enqueue") => faults' = faults + 1)
              \/ /\ At(q, "export_enqueue")
                 /\ job' = [job EXCEPT ![req[q].item].state = "waiting"]
<1>1. CASE CatalogueContinue(q) /\ UNCHANGED officeRows
  <2>1. ~At(q, "export_enqueue") /\ (faults' = faults \/ faults' = faults + 1)
    BY <1>1 DEF CatalogueContinue, CreateTx, EditWrite, AddPrizeWrite, DeletePrizeWrite,
       PublishCount, PublishWrite, CloseWrite, ArchiveWrite, ReserveWrite, DrawWrite, ResultsWrite,
       DeleteWrite, StatusWrite, UploadStore,
       UploadFails, AddImageCreate, DeleteImageWrite, BannerWrite, LogoWrite, Answer, Step, Move, At
  <2> QED BY <1>1, <2>1 DEF officeRows
<1>2. CASE CreateBank(q) \/ UnsetDefaults(q) \/ CreateAccount(q) \/ DropAccountWrite(q)
           \/ MoveAccountWrite(q) \/ AccountGone(q)
  BY <1>2 DEF CreateBank, UnsetDefaults, CreateAccount, DropAccountWrite, MoveAccountWrite,
     AccountGone, Answer, Step, Move, At, officeRows
<1>3. CASE EnqueueExport(q) BY <1>3 DEF EnqueueExport, Answer, Move
<1>4. CASE RequestFails(q) BY <1>4 DEF RequestFails, Faulty, unfailing
<1> QED BY <1>1, <1>2, <1>3, <1>4 DEF Statement, OfficeContinue

LEMMA QueueStatement ==
    ASSUME OfficeTypes, QueueInv, NEW q \in Requests, Statement(q)
    PROVE  QueueInv'
<1>0. QueueTypes /\ CountTypes /\ SlotTypes BY TypesSplit
<1>1. PICK rec : Continues(q, rec) BY StatementContinues
<1>2. /\ UNCHANGED <<export, worker, crashes>>
      /\ faults' = faults \/ faults' = faults + 1
      /\ \/ job' = job /\ (At(q, "export_enqueue") => faults' = faults + 1)
         \/ /\ At(q, "export_enqueue")
            /\ job' = [job EXCEPT ![req[q].item].state = "waiting"]
  BY StatementQueues
<1>3. faults \in Nat /\ crashes \in Nat /\ \A e \in Exports : job[e] \in JobRow
  BY <1>0 DEF CountTypes, QueueTypes
<1>4. req'[q].pc # "export_enqueue"
  BY <1>1, NoReqIsKnown DEF Continues, Passed
<1>5. \A p \in Requests \ {q} : req'[p].pc = req[p].pc /\ req'[p].item = req[p].item
  BY <1>1, KeptFacts DEF Continues
<1>6. CASE job' = job /\ (At(q, "export_enqueue") => faults' = faults + 1)
  <2>1. \A e \in Exports : job[e].tries \in Nat /\ job[e].stalls \in Nat BY <1>3 DEF JobRow
  <2>2. WorkerInv'
    <3>1. \A w \in Workers : worker[w].pc # "idle" => worker[w].export \in Exports
      BY <1>0 DEF QueueTypes
    <3>2. \A n \in Nat : n <= faults => n <= faults' BY <1>2, <1>3
    <3>3. \A e \in Exports : job[e].tries + 1 <= faults => job[e].tries + 1 <= faults' BY <2>1, <3>2
    <3> QED BY <1>2, <1>6, <2>1, <3>1, <3>2, <3>3 DEF QueueInv, WorkerInv
  <2>3. ASSUME NEW e \in Exports, job[e].state = "none", export[e] # "NONE"
        PROVE  (\E p \in Requests : Enqueuing(p, e))' \/ faults' + crashes' > 0
    <3>1. CASE faults + crashes > 0 BY <1>2, <1>3, <3>1
    <3>2. ASSUME NEW p \in Requests, Enqueuing(p, e)
          PROVE  (\E r \in Requests : Enqueuing(r, e))' \/ faults' + crashes' > 0
      <4>1. CASE p = q BY <1>2, <1>3, <1>6, <3>2, <4>1 DEF Enqueuing
      <4>2. CASE p # q BY <1>5, <3>2, <4>2 DEF Enqueuing, At
      <4> QED BY <4>1, <4>2
    <3> QED BY <2>3, <3>1, <3>2 DEF QueueInv, EnqueueInv
  <2>4. EnqueueInv'
    BY <1>2, <1>4, <1>5, <1>6, <2>3 DEF QueueInv, EnqueueInv, Enqueuing, At
  <2> QED BY <2>2, <2>4 DEF QueueInv
<1>7. CASE /\ At(q, "export_enqueue")
           /\ job' = [job EXCEPT ![req[q].item].state = "waiting"]
  <2> DEFINE x == req[q].item
  <2>1. x \in Exports BY <1>0, <1>7 DEF SlotTypes, Known, At
  <2>2. /\ job[x].state = "none" /\ export[x] # "NONE"
        /\ \A p \in Requests : Enqueuing(p, x) => p = q
    BY <1>7 DEF QueueInv, EnqueueInv, At
  <2>3. /\ \A e \in Exports \ {x} : job'[e] = job[e]
        /\ job'[x].state = "waiting" /\ job'[x].tries = job[x].tries /\ job'[x].stalls = job[x].stalls
    BY <1>0, <1>3, <1>7, <2>1 DEF QueueTypes, JobRow
  <2> HIDE DEF x
  <2>4. \A w \in Workers : worker[w].pc # "idle" => worker[w].export \in Exports \ {x}
    BY <1>0, <2>2 DEF QueueTypes, QueueInv, WorkerInv
  <2>5. \A n \in Nat : n <= faults => n <= faults' BY <1>2, <1>3
  <2>6. \A e \in Exports : /\ job[e].tries \in Nat /\ job[e].tries + 1 \in Nat
                           /\ job[e].stalls \in Nat
    BY <1>3 DEF JobRow
  <2>7. WorkerInv'
    <3>1. ASSUME NEW w \in Workers, worker'[w].pc # "idle"
          PROVE  /\ job'[worker'[w].export].state = "active"
                 /\ \A v \in Workers : worker'[v].pc # "idle" /\ worker'[v].export = worker'[w].export => v = w
                 /\ worker'[w].pc = "ack" => export'[worker'[w].export] = "COMPLETED"
                 /\ worker'[w].pc \in {"record_failure", "rethrow"} => job'[worker'[w].export].tries + 1 <= faults'
      BY <1>2, <2>3, <2>4, <2>5, <2>6, <3>1 DEF QueueInv, WorkerInv
    <3>2. ASSUME NEW e \in Exports
          PROVE  /\ job'[e].state = "done" => export'[e] = "COMPLETED"
                 /\ job'[e].tries <= faults' /\ job'[e].stalls <= crashes'
                 /\ job'[e].state = "failed" => job'[e].tries >= MaxAttempts \/ job'[e].stalls > MaxStalled
      <4>1. job'[e].tries = job[e].tries /\ job'[e].stalls = job[e].stalls BY <2>3
      <4>2. job'[e].state \in {job[e].state, "waiting"} BY <2>3
      <4> QED BY <1>2, <2>5, <2>6, <4>1, <4>2 DEF QueueInv, WorkerInv
    <3> QED BY <3>1, <3>2 DEF WorkerInv
  <2>8. EnqueueInv'
    <3>1. ASSUME NEW p \in Requests, req'[p].pc = "export_enqueue"
          PROVE  /\ job'[req'[p].item].state = "none" /\ export'[req'[p].item] # "NONE"
                 /\ \A r \in Requests : Enqueuing(r, req[p].item)' => r = p
      <4>1. p # q /\ req[p].pc = "export_enqueue" /\ req'[p].item = req[p].item
        BY <1>4, <1>5, <3>1
      <4>2. req[p].item \in Exports \ {x}
        BY <1>0, <2>2, <4>1 DEF SlotTypes, Known, Enqueuing, At
      <4>3. \A r \in Requests : Enqueuing(r, req[p].item)' => Enqueuing(r, req[p].item)
        BY <1>4, <1>5, <4>1 DEF Enqueuing, At
      <4> QED BY <1>2, <2>3, <4>1, <4>2, <4>3 DEF QueueInv, EnqueueInv
    <3>2. ASSUME NEW e \in Exports
          PROVE  /\ export'[e] = "NONE" => job'[e].state = "none"
                 /\ job'[e].state = "none" /\ export'[e] # "NONE" =>
                      (\E r \in Requests : Enqueuing(r, e))' \/ faults' + crashes' > 0
      <4>1. CASE e = x BY <1>2, <2>2, <2>3, <4>1
      <4>2. CASE e # x
        <5>1. job'[e] = job[e] /\ export'[e] = export[e] BY <1>2, <2>3, <4>2
        <5>2. ASSUME NEW r \in Requests, Enqueuing(r, e) PROVE Enqueuing(r, e)'
          <6>1. r # q BY <4>2, <5>2 DEF Enqueuing, x
          <6> QED BY <1>5, <5>2, <6>1 DEF Enqueuing, At
        <5>3. faults + crashes > 0 => faults' + crashes' > 0 BY <1>2, <1>3
        <5> QED BY <5>1, <5>2, <5>3 DEF QueueInv, EnqueueInv
      <4> QED BY <4>1, <4>2
    <3>3. \A p \in Requests : req'[p].pc = "export_enqueue" => req'[p].item = req[p].item
      BY <1>4, <1>5
    <3> QED BY <3>1, <3>2, <3>3 DEF EnqueueInv, Enqueuing
  <2> QED BY <2>7, <2>8 DEF QueueInv
<1> QED BY <1>2, <1>6, <1>7

(* What a worker may do to the job and the export it has in hand. *)
Handles(w, e) ==
    /\ IF worker[w].pc = "idle" THEN job[e].state = "waiting" ELSE worker[w].export = e
    /\ \A v \in Workers \ {w} : worker'[v] = worker[v]
    /\ \A d \in Exports \ {e} : job'[d] = job[d] /\ export'[d] = export[d]
    /\ worker'[w].pc # "idle" =>
         /\ worker'[w].export = e /\ job'[e].state = "active"
         /\ worker'[w].pc = "ack" => export'[e] = "COMPLETED"
         /\ worker'[w].pc \in {"record_failure", "rethrow"} => job'[e].tries + 1 <= faults'
    /\ job'[e].state # "none" /\ export'[e] # "NONE"
    /\ job'[e].state = "done" => export'[e] = "COMPLETED"
    /\ job'[e].tries <= faults' /\ job'[e].stalls <= crashes'
    /\ job'[e].state = "failed" => job'[e].tries >= MaxAttempts \/ job'[e].stalls > MaxStalled

LEMMA HandlingKeepsQueue ==
    ASSUME OfficeTypes, QueueInv, NEW w \in Workers, NEW e \in Exports, Handles(w, e),
           UNCHANGED <<req, crashes>>, faults' = faults \/ faults' = faults + 1
    PROVE  QueueInv'
<1>0. QueueTypes /\ CountTypes /\ SlotTypes BY TypesSplit
<1>1. faults \in Nat /\ crashes \in Nat /\ \A d \in Exports : job[d] \in JobRow
  BY <1>0 DEF CountTypes, QueueTypes
<1>2. \A d \in Exports : job[d].tries \in Nat /\ job[d].stalls \in Nat BY <1>1 DEF JobRow
<1>3. \A n \in Nat : n <= faults => n <= faults' BY <1>1
<1>4. \A v \in Workers \ {w} : worker[v].pc # "idle" => worker[v].export \in Exports \ {e}
  BY <1>0 DEF QueueTypes, QueueInv, WorkerInv, Handles
<1>5. job[e].state # "none" /\ export[e] # "NONE"
  BY DEF QueueInv, WorkerInv, EnqueueInv, Handles
<1>6. ASSUME NEW v \in Workers, worker'[v].pc # "idle"
      PROVE  /\ job'[worker'[v].export].state = "active"
             /\ worker'[v].pc = "ack" => export'[worker'[v].export] = "COMPLETED"
             /\ worker'[v].pc \in {"record_failure", "rethrow"} => job'[worker'[v].export].tries + 1 <= faults'
  <2>1. CASE v = w BY <1>6, <2>1 DEF Handles
  <2>2. CASE v # w
    <3>1. worker'[v] = worker[v] /\ worker[v].export \in Exports \ {e}
          /\ job'[worker[v].export] = job[worker[v].export]
          /\ export'[worker[v].export] = export[worker[v].export]
      BY <1>4, <1>6, <2>2 DEF Handles
    <3>2. job[worker[v].export].tries + 1 \in Nat BY <1>2, <3>1
    <3> QED BY <1>3, <1>6, <3>1, <3>2 DEF QueueInv, WorkerInv
  <2> QED BY <2>1, <2>2
<1>7. ASSUME NEW v \in Workers, worker'[v].pc # "idle", NEW u \in Workers, worker'[u].pc # "idle",
             worker'[u].export = worker'[v].export
      PROVE  u = v
  BY <1>4, <1>7 DEF Handles, QueueInv, WorkerInv
<1>8. ASSUME NEW d \in Exports
      PROVE  /\ job'[d].state = "done" => export'[d] = "COMPLETED"
             /\ job'[d].tries <= faults' /\ job'[d].stalls <= crashes'
             /\ job'[d].state = "failed" => job'[d].tries >= MaxAttempts \/ job'[d].stalls > MaxStalled
  BY <1>2, <1>3 DEF Handles, QueueInv, WorkerInv
<1>9. WorkerInv' BY <1>6, <1>7, <1>8 DEF WorkerInv
<1>10. \A p \in Requests : req[p].pc = "export_enqueue" => req[p].item \in Exports \ {e}
  BY <1>0, <1>5 DEF SlotTypes, Known, QueueInv, EnqueueInv
<1>11. faults + crashes > 0 => faults' + crashes' > 0 BY <1>1
<1>12. EnqueueInv'
  BY <1>10, <1>11 DEF Handles, QueueInv, EnqueueInv, Enqueuing, At
<1> QED BY <1>9, <1>12 DEF QueueInv

LEMMA WorkerHandles ==
    ASSUME OfficeTypes, QueueInv, NEW w \in Workers, Work(w)
    PROVE  \E e \in Exports : Handles(w, e)
<1>0. QueueTypes /\ CountTypes BY TypesSplit
<1>1. QueueKinds(w) BY WorkersStep
<1>2. crashes' = crashes BY WorkersKeepToTheQueue
<1>3. faults \in Nat /\ crashes \in Nat /\ \A d \in Exports : job[d] \in JobRow
  BY <1>0 DEF CountTypes, QueueTypes
<1>a. MaxAttempts \in Nat /\ MaxStalled \in Nat BY OfficeAssumption
<1>t. \A d \in Exports : job[d].tries \in Nat /\ job[d].stalls \in Nat BY <1>3 DEF JobRow
<1>w. worker[w] \in WorkerRow /\ \A v \in Workers \ {w} : \A row :
          [worker EXCEPT ![w] = row][v] = worker[v]
  BY <1>0 DEF QueueTypes
<1>g. \A pc \in {"generate", "complete", "ack", "record_failure", "rethrow"} :
        WorkerGoes(w, pc) => /\ worker'[w].pc = pc /\ worker'[w].export = worker[w].export
                             /\ \A v \in Workers \ {w} : worker'[v] = worker[v]
  BY <1>0, <1>w DEF WorkerGoes, QueueTypes, WorkerRow
<1>n. worker' = [worker EXCEPT ![w] = NoWork] =>
        worker'[w].pc = "idle" /\ \A v \in Workers \ {w} : worker'[v] = worker[v]
  BY <1>0 DEF QueueTypes, NoWork
<1>4. CASE worker[w].pc = "idle"
  <2>1. PICK e \in Exports :
            /\ job[e].state = "waiting"
            /\ job' = [job EXCEPT ![e] = [job[e] EXCEPT !.state = "active"]]
            /\ worker' = [worker EXCEPT ![w] = [pc |-> "mark", export |-> e]]
    BY <1>1, <1>4 DEF QueueKinds
  <2>2. export' = export /\ faults' = faults BY <1>1, <1>4 DEF QueueKinds
  <2>3. /\ job'[e].state = "active" /\ job'[e].tries = job[e].tries /\ job'[e].stalls = job[e].stalls
        /\ \A d \in Exports \ {e} : job'[d] = job[d]
    BY <1>0, <1>3, <2>1 DEF QueueTypes, JobRow
  <2>4. worker'[w].pc = "mark" /\ worker'[w].export = e
        /\ \A v \in Workers \ {w} : worker'[v] = worker[v]
    BY <1>0, <2>1 DEF QueueTypes
  <2>5. export[e] # "NONE" BY <2>1 DEF QueueInv, EnqueueInv
  <2>6. job[e].tries <= faults /\ job[e].stalls <= crashes BY DEF QueueInv, WorkerInv
  <2>7. Handles(w, e) BY <1>2, <1>4, <2>1, <2>2, <2>3, <2>4, <2>5, <2>6 DEF Handles
  <2> QED BY <2>7
<1>5. CASE worker[w].pc # "idle"
  <2>1. PICK e \in Exports : e = worker[w].export BY <1>0, <1>5 DEF QueueTypes
  <2>2. /\ job[e].state = "active" /\ export[e] # "NONE"
        /\ job[e].tries <= faults /\ job[e].stalls <= crashes
        /\ worker[w].pc = "ack" => export[e] = "COMPLETED"
        /\ worker[w].pc \in {"record_failure", "rethrow"} => job[e].tries + 1 <= faults
    BY <1>5, <2>1 DEF QueueInv, WorkerInv, EnqueueInv
  <2>h. worker[w].pc # "idle" /\ worker[w].export = e BY <1>5, <2>1
  <2>e. \A s : ExportMarked(w, s) => export'[e] = s /\ \A d \in Exports \ {e} : export'[d] = export[d]
    BY <1>0, <2>1 DEF ExportMarked, QueueTypes
  <2>j. \A row : job' = [job EXCEPT ![e] = row] =>
                   job'[e] = row /\ \A d \in Exports \ {e} : job'[d] = job[d]
    BY <1>0, <2>1 DEF QueueTypes
  <2>k. /\ job[e] \in JobRow
        /\ [job[e] EXCEPT !.state = "done"].state = "done"
        /\ [job[e] EXCEPT !.state = "done"].tries = job[e].tries
        /\ [job[e] EXCEPT !.state = "done"].stalls = job[e].stalls
    BY <1>3, <2>1 DEF JobRow
  <2>m. JobThrown(w) =>
          /\ job'[e].tries = job[e].tries + 1 /\ job'[e].stalls = job[e].stalls
          /\ job'[e].state = (IF job[e].tries + 1 < MaxAttempts THEN "waiting" ELSE "failed")
          /\ \A d \in Exports \ {e} : job'[d] = job[d]
          /\ worker'[w].pc = "idle" /\ \A v \in Workers \ {w} : worker'[v] = worker[v]
    <3> SUFFICES ASSUME JobThrown(w)
                 PROVE  /\ job'[e].tries = job[e].tries + 1 /\ job'[e].stalls = job[e].stalls
                        /\ job'[e].state = (IF job[e].tries + 1 < MaxAttempts THEN "waiting" ELSE "failed")
                        /\ \A d \in Exports \ {e} : job'[d] = job[d]
                        /\ worker'[w].pc = "idle" /\ \A v \in Workers \ {w} : worker'[v] = worker[v]
      OBVIOUS
    <3>1. job' = [job EXCEPT ![e] = AfterThrow(job[e])] BY <2>1 DEF JobThrown
    <3>2. worker' = [worker EXCEPT ![w] = NoWork] BY DEF JobThrown
    <3>3. job'[e] = AfterThrow(job[e]) /\ \A d \in Exports \ {e} : job'[d] = job[d]
      BY <2>j, <3>1
    <3>4. /\ AfterThrow(job[e]).tries = job[e].tries + 1 /\ AfterThrow(job[e]).stalls = job[e].stalls
          /\ AfterThrow(job[e]).state = (IF job[e].tries + 1 < MaxAttempts THEN "waiting" ELSE "failed")
      BY <2>k, JobRowsTyped
    <3> QED BY <1>n, <3>2, <3>3, <3>4
  <2>q. job[e].tries \in Nat /\ job[e].stalls \in Nat BY <1>t, <2>1
  <2>3. CASE worker[w].pc = "mark" /\ ExportMarked(w, "PROCESSING") /\ WorkerGoes(w, "generate")
             /\ job' = job /\ faults' = faults
    <3>1. worker'[w].pc = "generate" /\ worker'[w].export = e /\ \A v \in Workers \ {w} : worker'[v] = worker[v]
      BY <1>g, <2>3, <2>h
    <3>2. export'[e] = "PROCESSING" /\ \A d \in Exports \ {e} : export'[d] = export[d] BY <2>3, <2>e
    <3> QED BY <1>2, <2>2, <2>3, <2>h, <3>1, <3>2 DEF Handles
  <2>4. CASE worker[w].pc = "generate" /\ WorkerGoes(w, "complete")
             /\ UNCHANGED <<export, job, faults>>
    <3>1. worker'[w].pc = "complete" /\ worker'[w].export = e /\ \A v \in Workers \ {w} : worker'[v] = worker[v]
      BY <1>g, <2>4, <2>h
    <3> QED BY <1>2, <1>3, <2>2, <2>4, <2>h, <2>q, <3>1 DEF Handles
  <2>5. CASE worker[w].pc = "complete" /\ ExportMarked(w, "COMPLETED") /\ WorkerGoes(w, "ack")
             /\ job' = job /\ faults' = faults
    <3>1. worker'[w].pc = "ack" /\ worker'[w].export = e /\ \A v \in Workers \ {w} : worker'[v] = worker[v]
      BY <1>g, <2>5, <2>h
    <3>2. export'[e] = "COMPLETED" /\ \A d \in Exports \ {e} : export'[d] = export[d] BY <2>5, <2>e
    <3> QED BY <1>2, <2>2, <2>5, <2>h, <3>1, <3>2 DEF Handles
  <2>6. CASE worker[w].pc = "ack" /\ export' = export /\ faults' = faults
             /\ job' = [job EXCEPT ![worker[w].export] = [job[worker[w].export] EXCEPT !.state = "done"]]
             /\ worker' = [worker EXCEPT ![w] = NoWork]
    <3>1. job' = [job EXCEPT ![e] = [job[e] EXCEPT !.state = "done"]] BY <2>1, <2>6
    <3>2. /\ job'[e].state = "done" /\ job'[e].tries = job[e].tries /\ job'[e].stalls = job[e].stalls
          /\ \A d \in Exports \ {e} : job'[d] = job[d]
      BY <2>j, <2>k, <3>1
    <3>3. worker'[w].pc = "idle" /\ \A v \in Workers \ {w} : worker'[v] = worker[v]
      BY <1>n, <2>6
    <3> QED BY <1>2, <2>2, <2>6, <2>h, <3>2, <3>3 DEF Handles
  <2>7. CASE worker[w].pc = "rethrow" /\ JobThrown(w) /\ UNCHANGED <<export, faults>>
    <3>2. job[e].tries + 1 <= faults' BY <2>2, <2>7
    <3>3. job'[e].state = "failed" => job[e].tries + 1 >= MaxAttempts BY <1>a, <2>7, <2>m, <2>q
    <3> QED BY <1>2, <2>2, <2>7, <2>h, <2>m, <3>2, <3>3 DEF Handles
  <2>8. CASE worker[w].pc \in {"generate", "complete"} /\ WorkerGoes(w, "record_failure")
             /\ UNCHANGED <<export, job>> /\ faults' = faults + 1
    <3>1. worker'[w].pc = "record_failure" /\ worker'[w].export = e /\ \A v \in Workers \ {w} : worker'[v] = worker[v]
      BY <1>g, <2>8, <2>h
    <3> QED BY <1>2, <1>3, <2>2, <2>8, <2>h, <2>q, <3>1 DEF Handles
  <2>9. CASE worker[w].pc \in {"mark", "record_failure"} /\ WorkerGoes(w, "rethrow")
             /\ UNCHANGED <<export, job>> /\ faults' = faults + 1
    <3>1. worker'[w].pc = "rethrow" /\ worker'[w].export = e /\ \A v \in Workers \ {w} : worker'[v] = worker[v]
      BY <1>g, <2>9, <2>h
    <3> QED BY <1>2, <1>3, <2>2, <2>9, <2>h, <2>q, <3>1 DEF Handles
  <2>10. CASE worker[w].pc = "record_failure" /\ ExportMarked(w, "FAILED") /\ WorkerGoes(w, "rethrow")
             /\ job' = job /\ faults' = faults
    <3>1. worker'[w].pc = "rethrow" /\ worker'[w].export = e /\ \A v \in Workers \ {w} : worker'[v] = worker[v]
      BY <1>g, <2>10, <2>h
    <3>2. export'[e] = "FAILED" /\ \A d \in Exports \ {e} : export'[d] = export[d] BY <2>10, <2>e
    <3> QED BY <1>2, <2>2, <2>10, <2>h, <3>1, <3>2 DEF Handles
  <2> QED BY <1>1, <1>5, <2>3, <2>4, <2>5, <2>6, <2>7, <2>8, <2>9, <2>10 DEF QueueKinds
<1> QED BY <1>4, <1>5

LEMMA QueueCrash ==
    ASSUME OfficeTypes, QueueInv, Crash
    PROVE  QueueInv'
<1>0. QueueTypes /\ CountTypes BY TypesSplit
<1>1. crashes' = crashes + 1 /\ UNCHANGED <<faults, export>> BY DEF Crash
<1>2. faults \in Nat /\ crashes \in Nat /\ MaxStalled \in Nat
  BY <1>0, OfficeAssumption DEF CountTypes
<1>3. \A w \in Workers : worker'[w].pc = "idle" BY DEF Crash, NoWork
<1>4. \A q \in Requests : req'[q].pc # "export_enqueue" BY NoReqIsKnown DEF Crash
<1>5. ASSUME NEW e \in Exports
      PROVE  /\ job'[e].state = "done" => export'[e] = "COMPLETED"
             /\ job'[e].tries <= faults' /\ job'[e].stalls <= crashes'
             /\ job'[e].state = "failed" => job'[e].tries >= MaxAttempts \/ job'[e].stalls > MaxStalled
             /\ export'[e] = "NONE" => job'[e].state = "none"
  <2>1. job[e] \in JobRow /\ job[e].tries \in Nat /\ job[e].stalls \in Nat
    BY <1>0 DEF QueueTypes, JobRow
  <2>2. /\ job[e].state = "done" => export[e] = "COMPLETED"
        /\ job[e].tries <= faults /\ job[e].stalls <= crashes
        /\ job[e].state = "failed" => job[e].tries >= MaxAttempts \/ job[e].stalls > MaxStalled
        /\ export[e] = "NONE" => job[e].state = "none"
    BY DEF QueueInv, WorkerInv, EnqueueInv
  <2>3. CASE job[e].state # "active"
    <3>1. job'[e] = job[e] BY <2>3 DEF Crash
    <3> QED BY <1>1, <1>2, <2>1, <2>2, <3>1
  <2>4. CASE job[e].state = "active"
    <3>1. job'[e] = AfterStall(job[e]) BY <2>4 DEF Crash
    <3>2. /\ job'[e].stalls = job[e].stalls + 1 /\ job'[e].tries = job[e].tries
          /\ job'[e].state = (IF job[e].stalls < MaxStalled THEN "waiting" ELSE "failed")
      BY <2>1, <3>1, JobRowsTyped
    <3> QED BY <1>1, <1>2, <2>1, <2>2, <2>4, <3>2
  <2> QED BY <2>3, <2>4
<1>6. faults' + crashes' > 0 BY <1>1, <1>2
<1>7. WorkerInv' BY <1>3, <1>5 DEF WorkerInv
<1>8. EnqueueInv' BY <1>4, <1>5, <1>6 DEF EnqueueInv
<1> QED BY <1>7, <1>8 DEF QueueInv

LEMMA QueueEnters ==
    ASSUME OfficeTypes, QueueInv, NEW q \in Requests, NEW rec, Enters(q, rec)
    PROVE  QueueInv'
<1>0. QueueTypes /\ CountTypes /\ SlotTypes BY TypesSplit
<1>1. UNCHANGED <<job, worker, faults, crashes>> BY DEF Enters
<1>2. req'[q] = rec /\ (\A p \in Requests \ {q} : req'[p] = req[p])
      /\ req[q].pc = "idle" /\ Known(rec)
  BY <1>0 DEF Enters, SlotTypes, At
<1>3. CASE rec.pc # "export_enqueue"
  <2>1. export' = export BY <1>3 DEF Enters
  <2>2. WorkerInv' BY <1>1, <2>1 DEF QueueInv, WorkerInv
  <2>3. \A p \in Requests, e \in Exports : Enqueuing(p, e)' <=> Enqueuing(p, e)
    BY <1>2, <1>3 DEF Enqueuing, At
  <2>4. \A p \in Requests : req'[p].pc = "export_enqueue" =>
            p # q /\ req'[p] = req[p] /\ req[p].pc = "export_enqueue" /\ req[p].item \in Exports
    BY <1>0, <1>2, <1>3 DEF SlotTypes, Known
  <2>5. EnqueueInv'
    <3>1. ASSUME NEW p \in Requests, req'[p].pc = "export_enqueue"
          PROVE  /\ job'[req'[p].item].state = "none" /\ export'[req'[p].item] # "NONE"
                 /\ \A r \in Requests : Enqueuing(r, req[p].item)' => r = p
      BY <1>1, <2>1, <2>3, <2>4, <3>1 DEF QueueInv, EnqueueInv
    <3>2. ASSUME NEW e \in Exports
          PROVE  /\ export'[e] = "NONE" => job'[e].state = "none"
                 /\ job'[e].state = "none" /\ export'[e] # "NONE" =>
                      (\E r \in Requests : Enqueuing(r, e)') \/ faults' + crashes' > 0
      BY <1>1, <2>1, <2>3 DEF QueueInv, EnqueueInv
    <3>3. \A p \in Requests : req'[p].pc = "export_enqueue" => req'[p].item = req[p].item
      BY <2>4
    <3> QED BY <3>1, <3>2, <3>3 DEF EnqueueInv, Enqueuing
  <2> QED BY <2>2, <2>5 DEF QueueInv
<1>4. CASE rec.pc = "export_enqueue"
  <2> DEFINE x == rec.item
  <2>1. x \in Exports /\ export[x] = "NONE" BY <1>2, <1>4 DEF Known, Enters, Entry
  <2>2. export'[x] = "PENDING" /\ \A e \in Exports \ {x} : export'[e] = export[e]
    BY <1>0, <1>4, <2>1 DEF Enters, QueueTypes
  <2>3. job[x].state = "none" BY <2>1 DEF QueueInv, EnqueueInv
  <2>4. \A p \in Requests : ~Enqueuing(p, x) BY <2>1 DEF QueueInv, EnqueueInv, Enqueuing, At
  <2> HIDE DEF x
  <2>5. \A w \in Workers : worker[w].pc # "idle" => worker[w].export \in Exports \ {x}
    BY <1>0, <2>3 DEF QueueTypes, QueueInv, WorkerInv
  <2>6. WorkerInv'
    <3>1. ASSUME NEW w \in Workers, worker[w].pc # "idle"
          PROVE  export'[worker[w].export] = export[worker[w].export]
      BY <2>2, <2>5, <3>1
    <3>2. \A e \in Exports : job[e].state = "done" => export'[e] = "COMPLETED"
      BY <2>2, <2>3 DEF QueueInv, WorkerInv
    <3> QED BY <1>1, <3>1, <3>2 DEF QueueInv, WorkerInv
  <2>7. EnqueueInv'
    <3>1. \A p \in Requests \ {q}, e \in Exports : Enqueuing(p, e)' <=> Enqueuing(p, e)
      BY <1>2 DEF Enqueuing, At
    <3>2. Enqueuing(q, x)' BY <1>2, <1>4 DEF Enqueuing, At, x
    <3>3. \A e \in Exports : Enqueuing(q, e)' => e = x BY <1>2 DEF Enqueuing, x
    <3>4. ASSUME NEW p \in Requests, req'[p].pc = "export_enqueue"
          PROVE  /\ job'[req'[p].item].state = "none" /\ export'[req'[p].item] # "NONE"
                 /\ \A r \in Requests : (req'[r].pc = "export_enqueue" /\ req'[r].item = req'[p].item) => r = p
      <4>1. CASE p = q
        BY <1>1, <1>2, <2>2, <2>3, <2>4, <4>1 DEF Enqueuing, At, x
      <4>2. CASE p # q
        <5>1. req'[p] = req[p] /\ req[p].pc = "export_enqueue" /\ req[p].item \in Exports \ {x}
          BY <1>0, <1>2, <2>4, <3>4, <4>2 DEF SlotTypes, Known, Enqueuing, At
        <5>2. /\ job[req[p].item].state = "none" /\ export[req[p].item] # "NONE"
              /\ \A r \in Requests : Enqueuing(r, req[p].item) => r = p
          BY <5>1 DEF QueueInv, EnqueueInv
        <5> QED BY <1>1, <1>2, <2>2, <5>1, <5>2 DEF Enqueuing, At, x
      <4> QED BY <4>1, <4>2
    <3>5. ASSUME NEW e \in Exports
          PROVE  /\ export'[e] = "NONE" => job'[e].state = "none"
                 /\ job'[e].state = "none" /\ export'[e] # "NONE" =>
                      (\E r \in Requests : Enqueuing(r, e)') \/ faults' + crashes' > 0
      <4>1. CASE e = x BY <1>1, <2>3, <3>2, <4>1
      <4>2. CASE e # x
        <5>1. \A r \in Requests : Enqueuing(r, e) => Enqueuing(r, e)'
          BY <1>2, <3>1 DEF Enqueuing, At
        <5>2. export'[e] = export[e] /\ job'[e] = job[e] BY <1>1, <2>2, <4>2
        <5> QED BY <1>1, <5>1, <5>2 DEF QueueInv, EnqueueInv
      <4> QED BY <4>1, <4>2
    <3> QED BY <3>4, <3>5 DEF EnqueueInv, Enqueuing, At
  <2> QED BY <2>6, <2>7 DEF QueueInv
<1> QED BY <1>3, <1>4

LEMMA QueueStep ==
    ASSUME CatalogueAssumption, OfficeTypes, QueueInv, [OfficeNext]_officeVars
    PROVE  QueueInv'
<1>2. CASE UNCHANGED officeVars
  BY <1>2 DEF officeVars, catalogueVars, officeRows, QueueInv, WorkerInv, EnqueueInv, Enqueuing, At
<1>3. ASSUME NEW w \in Workers, Work(w) PROVE QueueInv'
  <2>1. UNCHANGED <<req, crashes>> /\ (faults' = faults \/ faults' = faults + 1)
    BY <1>3, WorkersKeepToTheQueue
  <2> QED BY <1>3, <2>1, WorkerHandles, HandlingKeepsQueue
<1> QED BY <1>2, <1>3, QueueEnters, QueueStatement, QueueCrash, OfficeStepKinds

(* Jobs, exports and failures account for one another with any number of     *)
(* workers, however often the processor throws or the process stops          *)
(* (export.processor.ts:17-53, reports.service.ts:372-393).                  *)
THEOREM ExportsAreNeverLostSilently == OfficeSpec => []ExportsAreAccountedFor
<1> DEFINE I == OfficeTypes /\ QueueInv
<1>1. OfficeInit => I
  <2>1. OfficeInit => QueueInv
    BY NoReqIsKnown DEF OfficeInit, CatalogueInit, QueueInv, WorkerInv, EnqueueInv, NoWork, NoJob
  <2> QED BY <2>1, TypesInit, CatalogueAssumption
<1>2. I /\ [OfficeNext]_officeVars => I'
  BY CatalogueAssumption, OfficeTypesStep, QueueStep
<1>3. I => ExportsAreAccountedFor
  <2> SUFFICES ASSUME I, NEW e \in Exports
               PROVE  /\ job[e].state = "done" => export[e] = "COMPLETED"
                      /\ job[e].state = "failed" => faults >= MaxAttempts \/ crashes > MaxStalled
                      /\ job[e].state = "none" /\ export[e] # "NONE" =>
                           \/ \E q \in Requests : At(q, "export_enqueue") /\ req[q].item = e
                           \/ faults + crashes > 0
    BY DEF ExportsAreAccountedFor
  <2>1. /\ job[e].tries \in Nat /\ job[e].stalls \in Nat /\ faults \in Nat /\ crashes \in Nat
        /\ MaxAttempts \in Nat /\ MaxStalled \in Nat
    BY TypesSplit, OfficeAssumption DEF QueueTypes, CountTypes, JobRow
  <2> QED BY <2>1 DEF QueueInv, WorkerInv, EnqueueInv, Enqueuing
<1> QED BY <1>1, <1>2, <1>3, PTL DEF OfficeSpec

-----------------------------------------------------------------------------
(* What concurrent requests may overrun is counted with the requests that    *)
(* are about to add to it.                                                   *)

Within(S, T, n) ==
    /\ IsFiniteSet(S) /\ IsFiniteSet(T)
    /\ Cardinality(S) + Cardinality(T) <= n

LEMMA WithinShrinks ==
    ASSUME NEW S, NEW T, NEW n \in Int, Within(S, T, n),
           NEW S2, S2 \subseteq S, NEW T2, T2 \subseteq T
    PROVE  Within(S2, T2, n)
<1>1. /\ IsFiniteSet(S2) /\ Cardinality(S2) <= Cardinality(S)
      /\ IsFiniteSet(T2) /\ Cardinality(T2) <= Cardinality(T)
  BY FS_Subset DEF Within
<1>2. /\ Cardinality(S) \in Nat /\ Cardinality(T) \in Nat
      /\ Cardinality(S2) \in Nat /\ Cardinality(T2) \in Nat
  BY <1>1, FS_CardinalityType DEF Within
<1> QED BY <1>1, <1>2 DEF Within

LEMMA WithinMoves ==
    ASSUME NEW S, NEW T, NEW n \in Int, Within(S, T, n),
           NEW x, NEW y \in T
    PROVE  Within(S \cup {x}, T \ {y}, n)
<1>1. /\ IsFiniteSet(S \cup {x}) /\ Cardinality(S \cup {x}) <= Cardinality(S) + 1
      /\ IsFiniteSet(T \ {y}) /\ Cardinality(T \ {y}) = Cardinality(T) - 1
  <2>1. Cardinality(S) \in Nat BY FS_CardinalityType DEF Within
  <2>2. IsFiniteSet(S \cup {x})
        /\ Cardinality(S \cup {x}) = IF x \in S THEN Cardinality(S) ELSE Cardinality(S) + 1
    BY FS_AddElement DEF Within
  <2>3. IsFiniteSet(T \ {y}) /\ Cardinality(T \ {y}) = Cardinality(T) - 1
    BY FS_RemoveElement DEF Within
  <2> QED BY <2>1, <2>2, <2>3
<1>2. Cardinality(S) \in Nat /\ Cardinality(T) \in Nat /\ Cardinality(S \cup {x}) \in Nat
  BY <1>1, FS_CardinalityType DEF Within
<1> QED BY <1>1, <1>2 DEF Within

LEMMA WithinRequests ==
    ASSUME CatalogueAssumption, NEW T, T \subseteq Requests
    PROVE  /\ IsFiniteSet(T) /\ Cardinality(T) \in Nat /\ Cardinality(Requests) \in Nat
           /\ Cardinality(T) <= Cardinality(Requests)
           /\ Within({}, T, Cardinality(Requests))
<1>1. IsFiniteSet(Requests) BY DEF CatalogueAssumption
<1>2. IsFiniteSet(T) /\ Cardinality(T) <= Cardinality(Requests) BY <1>1, FS_Subset
<1>3. Cardinality(T) \in Nat /\ Cardinality(Requests) \in Nat BY <1>1, <1>2, FS_CardinalityType
<1> QED BY <1>2, <1>3, FS_EmptySet DEF Within

(* Images, and the requests that will create one. *)
Uploading == {q \in Requests : /\ req[q].op = "addImage"
                               /\ req[q].pc \in {"upload", "image_create"}}
ImageBound == MaxImages + Cardinality(Requests) - 1
ImageInv == Within(Shown, Uploading, ImageBound)

LEMMA ImageBoundIsNumber ==
    ASSUME CatalogueAssumption
    PROVE  /\ ImageBound \in Int /\ MaxImages \in Nat \ {0}
           /\ Cardinality(Requests) \in Nat /\ Cardinality(Requests) <= ImageBound
<1>1. MaxImages \in Nat \ {0} BY DEF CatalogueAssumption
<1>2. Cardinality(Requests) \in Nat BY WithinRequests
<1> QED BY <1>1, <1>2 DEF ImageBound

LEMMA StatementShows ==
    ASSUME OfficeTypes, NEW q \in Requests, Statement(q)
    PROVE  \/ Shown' \subseteq Shown
           \/ /\ At(q, "image_create") /\ req' = [req EXCEPT ![q] = NoReq]
              /\ \E i : Shown' \subseteq Shown \cup {i}
<1>0. image \in [Images -> Files \cup {null}] BY TypesSplit DEF CatalogueTypes
<1>1. CASE AddImageCreate(q)
  <2>1. PICK i : image' = [image EXCEPT ![i] = req[q].item] BY <1>1 DEF AddImageCreate
  <2>2. Shown' \subseteq Shown \cup {i} BY <1>0, <2>1 DEF Shown
  <2> QED BY <1>1, <2>2 DEF AddImageCreate, Answer, Move
<1>2. CASE DeleteImageWrite(q)
  <2>1. Shown' \subseteq Shown BY <1>0, <1>2 DEF DeleteImageWrite, Shown
  <2> QED BY <2>1
<1>3. CASE CatalogueContinue(q) /\ ~AddImageCreate(q) /\ ~DeleteImageWrite(q)
  <2>1. image' = image
    BY <1>3 DEF CatalogueContinue, CreateTx, EditWrite, AddPrizeWrite, DeletePrizeWrite,
       PublishCount, PublishWrite, CloseWrite, ArchiveWrite, ReserveWrite, DrawWrite, ResultsWrite,
       StatusWrite, DeleteWrite, UploadStore,
       UploadFails, BannerWrite, LogoWrite, catalogueRows
  <2> QED BY <2>1 DEF Shown
<1>4. CASE OfficeContinue(q) BY <1>4, OfficeLeavesTheCatalogue DEF catalogueRows, Shown
<1> QED BY <1>1, <1>2, <1>3, <1>4 DEF Statement

LEMMA ImageStatement ==
    ASSUME CatalogueAssumption, OfficeTypes, ImageInv, NEW q \in Requests, Statement(q)
    PROVE  ImageInv'
<1>1. PICK rec : Continues(q, rec) BY StatementContinues
<1>2. ASSUME NEW p \in Uploading' PROVE p \in Uploading
  <2>1. CASE p # q BY <1>1, <1>2, <2>1, KeptFacts DEF Uploading, Continues
  <2>2. CASE p = q
    <3>1. rec.op = "addImage" /\ rec.pc \in {"upload", "image_create"} /\ Passed(q, rec)
      BY <1>1, <1>2, <2>2 DEF Uploading, Continues
    <3>2. At(q, "upload") /\ req[q].op = "addImage" BY <3>1, NoReqIsKnown DEF Passed
    <3> QED BY <2>2, <3>2 DEF Uploading, At
  <2> QED BY <2>1, <2>2
<1>3. ImageBound \in Int /\ ImageBound' = ImageBound BY ImageBoundIsNumber DEF ImageBound
<1>4. CASE Shown' \subseteq Shown
  <2>1. Within(Shown', Uploading', ImageBound)
    BY <1>2, <1>3, <1>4, WithinShrinks DEF ImageInv
  <2> QED BY <1>3, <2>1 DEF ImageInv, Within
<1>5. CASE /\ At(q, "image_create") /\ req' = [req EXCEPT ![q] = NoReq]
           /\ \E i : Shown' \subseteq Shown \cup {i}
  <2>1. q \in Uploading BY <1>5 DEF Uploading, OfficeTypes, Known, At
  <2>2. q \notin Uploading'
    BY <1>1, <1>5, NoReqIsKnown DEF Uploading, OfficeTypes, OfficeTypeOK
  <2>3. PICK i : Shown' \subseteq Shown \cup {i} BY <1>5
  <2>4. Uploading' \subseteq Uploading \ {q} BY <1>2, <2>2
  <2>5. Within(Shown \cup {i}, Uploading \ {q}, ImageBound)
    BY <1>3, <2>1, WithinMoves DEF ImageInv
  <2>6. Within(Shown', Uploading', ImageBound) BY <1>3, <2>3, <2>4, <2>5, WithinShrinks
  <2> QED BY <1>3, <2>6 DEF ImageInv, Within
<1> QED BY <1>4, <1>5, StatementShows

LEMMA ImageEnters ==
    ASSUME CatalogueAssumption, OfficeTypes, ImageInv, NEW q \in Requests, NEW rec, Enters(q, rec)
    PROVE  ImageInv'
<1>1. Shown' = Shown /\ ImageBound' = ImageBound BY DEF Enters, catalogueRows, Shown, ImageBound
<1>2. /\ \A p \in Requests \ {q} : req'[p] = req[p]
      /\ req'[q] = rec /\ Entry(rec)
  BY DEF Enters, OfficeTypes, OfficeTypeOK
<1>3. ImageBound \in Int /\ MaxImages \in Nat /\ Cardinality(Requests) \in Nat
  BY ImageBoundIsNumber
<1>4. CASE rec.pc = "upload" /\ rec.op = "addImage"
  <2>1. Cardinality(Shown) < MaxImages BY <1>2, <1>4 DEF Entry, RoomForImage
  <2>2. IsFiniteSet(Shown) /\ Cardinality(Shown) \in Nat
    BY FS_CardinalityType DEF ImageInv, Within
  <2>3. Uploading' \subseteq Requests BY DEF Uploading
  <2>4. /\ IsFiniteSet(Uploading') /\ Cardinality(Uploading') \in Nat
        /\ Cardinality(Uploading') <= Cardinality(Requests)
    BY <2>3, WithinRequests
  <2>5. Cardinality(Shown) + Cardinality(Uploading') <= ImageBound
    BY <1>3, <2>1, <2>2, <2>4 DEF ImageBound
  <2> QED BY <1>1, <2>2, <2>4, <2>5 DEF ImageInv, Within
<1>5. CASE ~(rec.pc = "upload" /\ rec.op = "addImage")
  <2>1. Uploading' \subseteq Uploading BY <1>2, <1>5 DEF Uploading, Entry
  <2>2. Within(Shown', Uploading', ImageBound) BY <1>1, <1>3, <2>1, WithinShrinks DEF ImageInv
  <2> QED BY <1>1, <2>2 DEF ImageInv, Within
<1> QED BY <1>4, <1>5

LEMMA ImageStep ==
    ASSUME CatalogueAssumption, OfficeTypes, ImageInv, [OfficeNext]_officeVars
    PROVE  ImageInv'
<1>1. CASE UNCHANGED image /\ \A q \in Requests : req'[q] = req[q] \/ req'[q] = NoReq
  <2>1. Shown' = Shown /\ Uploading' \subseteq Uploading
    BY <1>1, NoReqIsKnown DEF Shown, Uploading
  <2>2. ImageBound \in Int /\ ImageBound' = ImageBound BY ImageBoundIsNumber DEF ImageBound
  <2>3. Within(Shown', Uploading', ImageBound) BY <2>1, <2>2, WithinShrinks DEF ImageInv
  <2> QED BY <2>2, <2>3 DEF ImageInv, Within
<1>3. ASSUME NEW w \in Workers, Work(w) PROVE ImageInv'
  BY <1>1, <1>3, WorkersKeepToTheQueue DEF catalogueRows
<1>4. CASE Crash BY <1>1, <1>4 DEF Crash, catalogueRows
<1>5. CASE UNCHANGED officeVars BY <1>1, <1>5 DEF officeVars, catalogueVars, catalogueRows
<1> QED BY <1>3, <1>4, <1>5, ImageEnters, ImageStatement, OfficeStepKinds

(* However many uploads overlap, a lottery never has more images than the    *)
(* maximum and one for every other request (lottery.service.ts:325-339).     *)
THEOREM ImagesAreBounded == OfficeSpec => []ImagesExceedTheMaximumByOverlapOnly
<1> DEFINE I == OfficeTypes /\ ImageInv
<1>1. OfficeInit => I
  <2>1. OfficeInit => Shown = {} /\ Uploading = {}
    BY NoReqIsKnown DEF OfficeInit, CatalogueInit, Shown, Uploading
  <2>2. 0 <= ImageBound BY CatalogueAssumption, ImageBoundIsNumber
  <2>3. OfficeInit => ImageInv BY <2>1, <2>2, FS_EmptySet DEF ImageInv, Within
  <2> QED BY <2>3, TypesInit, CatalogueAssumption
<1>2. I /\ [OfficeNext]_officeVars => I'
  BY CatalogueAssumption, OfficeTypesStep, ImageStep
<1>3. I => ImagesExceedTheMaximumByOverlapOnly
  <2> SUFFICES ASSUME ImageInv PROVE Cardinality(Shown) < MaxImages + Cardinality(Requests)
    BY DEF ImagesExceedTheMaximumByOverlapOnly
  <2>1. Cardinality(Shown) \in Nat /\ Cardinality(Uploading) \in Nat
    BY FS_CardinalityType DEF ImageInv, Within
  <2>2. MaxImages \in Nat /\ Cardinality(Requests) \in Nat
    BY CatalogueAssumption, ImageBoundIsNumber
  <2> QED BY <2>1, <2>2 DEF ImageInv, Within, ImageBound
<1> QED BY <1>1, <1>2, <1>3, PTL DEF OfficeSpec

(* Defaults of a client, banks of a name, and the requests that will write   *)
(* one more of them.                                                         *)
DefaultsOf(o) == {a \in BankAccounts : account[a].default /\ account[a].owner = o}
Defaulting(o) == {q \in Requests : req[q].pc = "account_create" /\ req[q].default
                                   /\ req[q].owner = o}
Naming(name) == {q \in Requests : req[q].pc = "bank_create" /\ req[q].name = name}

OverlapInv ==
    /\ \A o \in Owners : Within(DefaultsOf(o), Defaulting(o), Cardinality(Requests))
    /\ \A name \in BankNames : Within(Named(name), Naming(name), Cardinality(Requests))

LEMMA StatementDefaults ==
    ASSUME OfficeTypes, NEW q \in Requests, Statement(q), NEW o \in Owners
    PROVE  \/ At(q, "default_unset") /\ req[q].owner = o /\ DefaultsOf(o)' = {}
           \/ /\ q \in Defaulting(o) /\ req'[q].pc = "idle"
              /\ \E a : DefaultsOf(o)' \subseteq DefaultsOf(o) \cup {a}
           \/ /\ DefaultsOf(o)' \subseteq DefaultsOf(o)
              /\ ~(At(q, "default_unset") /\ req[q].owner = o /\ req'[q].pc = "account_create")
<1>0. /\ account \in [BankAccounts -> AccountRow \cup {NoAccount}]
      /\ req \in [Requests -> ReqRow] /\ Known(req[q])
  BY TypesSplit DEF AccountTypes, SlotTypes
<1>1. CASE UnsetDefaults(q)
  <2>1. At(q, "default_unset")
        /\ account' = [a \in BankAccounts |-> Unset(account[a], req[q].owner)]
    BY <1>1 DEF UnsetDefaults
  <2>2. ASSUME NEW a \in BankAccounts
        PROVE  /\ account'[a].owner = account[a].owner
               /\ account'[a].default = (account[a].default /\ account[a].owner # req[q].owner)
    <3>1. account'[a] = [account[a] EXCEPT !.default = account[a].default /\ account[a].owner # req[q].owner]
      BY <2>1 DEF Unset
    <3>2. \A d \in BOOLEAN : /\ [account[a] EXCEPT !.default = d].default = d
                              /\ [account[a] EXCEPT !.default = d].owner = account[a].owner
      <4>1. CASE account[a] \in AccountRow BY <4>1 DEF AccountRow
      <4>2. CASE account[a] = NoAccount BY <4>2 DEF NoAccount
      <4> QED BY <1>0, <4>1, <4>2
    <3>3. (account[a].default /\ account[a].owner # req[q].owner) \in BOOLEAN OBVIOUS
    <3> QED BY <3>1, <3>2, <3>3
  <2>3. CASE req[q].owner = o
    <3>1. DefaultsOf(o)' = {} BY <2>2, <2>3 DEF DefaultsOf
    <3> QED BY <2>1, <2>3, <3>1
  <2>4. CASE req[q].owner # o
    <3>1. DefaultsOf(o)' \subseteq DefaultsOf(o) BY <2>2 DEF DefaultsOf
    <3> QED BY <2>4, <3>1
  <2> QED BY <2>3, <2>4
<1>2. CASE CreateAccount(q)
  <2>1. At(q, "account_create") /\ req' = [req EXCEPT ![q] = NoReq]
    BY <1>2 DEF CreateAccount, Answer, Move
  <2>2. PICK a : account' = [account EXCEPT ![a] =
                   [exists |-> TRUE, owner |-> req[q].owner, bank |-> req[q].bank,
                    default |-> req[q].default, active |-> TRUE]]
    BY <1>2 DEF CreateAccount
  <2>3. req'[q].pc = "idle" BY <1>0, <2>1, NoReqIsKnown
  <2>4. CASE req[q].default /\ req[q].owner = o
    <3>1. q \in Defaulting(o) BY <2>1, <2>4 DEF Defaulting, At
    <3>2. DefaultsOf(o)' \subseteq DefaultsOf(o) \cup {a} BY <1>0, <2>2 DEF DefaultsOf
    <3> QED BY <2>3, <3>1, <3>2
  <2>5. CASE ~(req[q].default /\ req[q].owner = o)
    <3>1. \A k \in BankAccounts :
            \/ account'[k] = account[k]
            \/ account'[k].default = req[q].default /\ account'[k].owner = req[q].owner
      BY <1>0, <2>2
    <3>2. DefaultsOf(o)' \subseteq DefaultsOf(o) BY <2>5, <3>1 DEF DefaultsOf
    <3> QED BY <2>3, <3>2
  <2> QED BY <2>4, <2>5
<1>3. CASE DropAccountWrite(q) \/ MoveAccountWrite(q)
  <2>1. req' = [req EXCEPT ![q] = NoReq]
    BY <1>3 DEF DropAccountWrite, MoveAccountWrite, Answer, Move
  <2>2. req'[q].pc = "idle" BY <1>0, <2>1, NoReqIsKnown
  <2>3. account[req[q].item].exists /\ req[q].item \in BankAccounts
    BY <1>3 DEF DropAccountWrite, MoveAccountWrite, Accounts
  <2>4. account[req[q].item] \in AccountRow BY <1>0, <2>3 DEF NoAccount
  <2>5. \A k \in BankAccounts :
          \/ account'[k] = account[k] \/ ~account'[k].default
          \/ account'[k].default = account[k].default /\ account'[k].owner = account[k].owner
    <3>1. CASE DropAccountWrite(q)
      <4> DEFINE a == req[q].item
                 Switched(on) == [account[a] EXCEPT !.active = on]
      <4>1. \A on \in BOOLEAN : Switched(on).default = account[a].default
                                /\ Switched(on).owner = account[a].owner
        BY <2>4 DEF AccountRow
      <4>2. \/ account' = [account EXCEPT ![a] = NoAccount]
            \/ \E on \in BOOLEAN : account' = [account EXCEPT ![a] = Switched(on)]
        BY <3>1 DEF DropAccountWrite
      <4>3. ~NoAccount.default BY DEF NoAccount
      <4> HIDE DEF Switched
      <4> QED BY <1>0, <2>3, <4>1, <4>2, <4>3
    <3>2. CASE MoveAccountWrite(q)
      <4> DEFINE a == req[q].item
                 Moved == [account[a] EXCEPT !.bank = req[q].bank]
      <4>1. Moved.default = account[a].default /\ Moved.owner = account[a].owner
        BY <2>4 DEF AccountRow
      <4>2. account' = [account EXCEPT ![a] = Moved] BY <3>2 DEF MoveAccountWrite
      <4> HIDE DEF Moved
      <4> QED BY <1>0, <2>3, <4>1, <4>2
    <3> QED BY <1>3, <3>1, <3>2
  <2>6. DefaultsOf(o)' \subseteq DefaultsOf(o) BY <2>5 DEF DefaultsOf
  <2> QED BY <2>2, <2>6
<1>4. CASE CatalogueContinue(q) /\ UNCHANGED officeRows
  <2>1. account' = account BY <1>4 DEF officeRows
  <2>2. ~At(q, "default_unset")
    BY <1>4 DEF CatalogueContinue, CreateTx, EditWrite, AddPrizeWrite, DeletePrizeWrite,
       PublishCount, PublishWrite, CloseWrite, ArchiveWrite, ReserveWrite, DrawWrite, ResultsWrite,
       DeleteWrite, StatusWrite, UploadStore,
       UploadFails, AddImageCreate, DeleteImageWrite, BannerWrite, LogoWrite, At
  <2> QED BY <2>1, <2>2 DEF DefaultsOf
<1>5. CASE CreateBank(q) \/ EnqueueExport(q) \/ RequestFails(q) \/ AccountGone(q)
  <2>1. account' = account
    BY <1>5 DEF CreateBank, EnqueueExport, RequestFails, AccountGone, unfailing, officeRows
  <2>2. ~At(q, "default_unset") \/ req' = [req EXCEPT ![q] = NoReq]
    BY <1>5 DEF CreateBank, EnqueueExport, RequestFails, AccountGone, Answer, Move, At
  <2>3. ~At(q, "default_unset") \/ req'[q].pc = "idle" BY <1>0, <2>2, NoReqIsKnown
  <2> QED BY <2>1, <2>3 DEF DefaultsOf
<1> QED BY <1>1, <1>2, <1>3, <1>4, <1>5 DEF Statement, OfficeContinue

LEMMA StatementNames ==
    ASSUME OfficeTypes, CatalogueAssumption, NEW q \in Requests, Statement(q), NEW name \in BankNames
    PROVE  \/ Named(name)' \subseteq Named(name)
           \/ /\ q \in Naming(name)
              /\ \E b : Named(name)' \subseteq Named(name) \cup {b}
<1>0. bank \in [Banks -> BankNames \cup {null}] BY TypesSplit DEF AccountTypes
<1>1. CASE CreateBank(q)
  <2>1. PICK b : bank' = [bank EXCEPT ![b] = req[q].name] BY <1>1 DEF CreateBank
  <2>2. CASE req[q].name = name
    <3>1. q \in Naming(name) BY <1>1, <2>2 DEF CreateBank, At, Naming
    <3>2. Named(name)' \subseteq Named(name) \cup {b} BY <1>0, <2>1 DEF Named
    <3> QED BY <3>1, <3>2
  <2>3. CASE req[q].name # name
    <3>1. Named(name)' \subseteq Named(name) BY <1>0, <2>1, <2>3 DEF Named
    <3> QED BY <3>1
  <2> QED BY <2>2, <2>3
<1>2. CASE ~CreateBank(q)
  <2>1. bank' = bank
    BY <1>2 DEF Statement, OfficeContinue, UnsetDefaults, CreateAccount, DropAccountWrite,
       MoveAccountWrite, AccountGone, EnqueueExport, RequestFails, unfailing, officeRows
  <2> QED BY <2>1 DEF Named
<1> QED BY <1>1, <1>2

LEMMA OverlapStatement ==
    ASSUME CatalogueAssumption, OfficeTypes, OverlapInv, NEW q \in Requests, Statement(q)
    PROVE  OverlapInv'
<1>1. PICK rec : Continues(q, rec) BY StatementContinues
<1>2. req'[q] = rec /\ Passed(q, rec) BY <1>1 DEF Continues
<1>3. \A p \in Requests \ {q} : /\ req'[p].pc = req[p].pc /\ req'[p].owner = req[p].owner
                                /\ req'[p].name = req[p].name /\ req'[p].default = req[p].default
  BY <1>1, KeptFacts DEF Continues
<1>c. Cardinality(Requests) \in Int BY WithinRequests
<1>4. ASSUME NEW o \in Owners
      PROVE  Within(DefaultsOf(o)', Defaulting(o)', Cardinality(Requests))
  <2>0. Within(DefaultsOf(o), Defaulting(o), Cardinality(Requests)) BY DEF OverlapInv
  <2>1. ASSUME NEW p \in Defaulting(o)', ~(At(q, "default_unset") /\ req[q].owner = o
                                           /\ req'[q].pc = "account_create")
        PROVE  p \in Defaulting(o) /\ p # q
    <3>1. p # q
      <4>1. SUFFICES ASSUME p = q PROVE FALSE OBVIOUS
      <4>2. rec.pc = "account_create" /\ rec.default /\ rec.owner = o
        BY <1>2, <2>1, <4>1 DEF Defaulting
      <4> QED BY <1>2, <2>1, <4>2, NoReqIsKnown DEF Passed
    <3> QED BY <1>3, <2>1, <3>1 DEF Defaulting
  <2>2. CASE At(q, "default_unset") /\ req[q].owner = o /\ DefaultsOf(o)' = {}
    <3>1. Defaulting(o)' \subseteq Requests BY DEF Defaulting
    <3> QED BY <2>2, <3>1, WithinRequests
  <2>3. CASE /\ q \in Defaulting(o) /\ req'[q].pc = "idle"
             /\ \E a : DefaultsOf(o)' \subseteq DefaultsOf(o) \cup {a}
    <3>1. PICK a : DefaultsOf(o)' \subseteq DefaultsOf(o) \cup {a} BY <2>3
    <3>2. Within(DefaultsOf(o) \cup {a}, Defaulting(o) \ {q}, Cardinality(Requests))
      BY <1>c, <2>0, <2>3, WithinMoves
    <3>3. Defaulting(o)' \subseteq Defaulting(o) \ {q} BY <2>1, <2>3
    <3> QED BY <1>c, <3>1, <3>2, <3>3, WithinShrinks
  <2>4. CASE /\ DefaultsOf(o)' \subseteq DefaultsOf(o)
             /\ ~(At(q, "default_unset") /\ req[q].owner = o /\ req'[q].pc = "account_create")
    <3>1. Defaulting(o)' \subseteq Defaulting(o) BY <2>1, <2>4
    <3> QED BY <1>c, <2>0, <2>4, <3>1, WithinShrinks
  <2> QED BY <2>2, <2>3, <2>4, StatementDefaults
<1>5. ASSUME NEW name \in BankNames
      PROVE  Within(Named(name)', Naming(name)', Cardinality(Requests))
  <2>0. Within(Named(name), Naming(name), Cardinality(Requests)) BY DEF OverlapInv
  <2>1. Naming(name)' \subseteq Naming(name) \ {q}
    <3>1. rec.pc # "bank_create" BY <1>2, NoReqIsKnown DEF Passed
    <3> QED BY <1>2, <1>3, <3>1 DEF Naming
  <2>2. CASE Named(name)' \subseteq Named(name)
    <3>1. Naming(name)' \subseteq Naming(name) BY <2>1
    <3> QED BY <1>c, <2>0, <2>2, <3>1, WithinShrinks
  <2>3. CASE /\ q \in Naming(name)
             /\ \E b : Named(name)' \subseteq Named(name) \cup {b}
    <3>1. PICK b : Named(name)' \subseteq Named(name) \cup {b} BY <2>3
    <3>2. Within(Named(name) \cup {b}, Naming(name) \ {q}, Cardinality(Requests))
      BY <1>c, <2>0, <2>3, WithinMoves
    <3> QED BY <1>c, <2>1, <3>1, <3>2, WithinShrinks
  <2> QED BY <2>2, <2>3, StatementNames
<1> QED BY <1>4, <1>5 DEF OverlapInv, Within

LEMMA OverlapEnters ==
    ASSUME CatalogueAssumption, OfficeTypes, OverlapInv, NEW q \in Requests, NEW rec, Enters(q, rec)
    PROVE  OverlapInv'
<1>1. UNCHANGED <<bank, account>> BY DEF Enters
<1>2. /\ \A p \in Requests \ {q} : req'[p] = req[p]
      /\ req'[q] = rec /\ Entry(rec)
  BY DEF Enters, OfficeTypes, OfficeTypeOK
<1>c. Cardinality(Requests) \in Int BY WithinRequests
<1>3. ASSUME NEW o \in Owners
      PROVE  Within(DefaultsOf(o)', Defaulting(o)', Cardinality(Requests))
  <2>1. DefaultsOf(o)' \subseteq DefaultsOf(o) BY <1>1 DEF DefaultsOf
  <2>2. Defaulting(o)' \subseteq Defaulting(o) BY <1>2 DEF Defaulting, Entry
  <2>3. Within(DefaultsOf(o), Defaulting(o), Cardinality(Requests)) BY DEF OverlapInv
  <2> QED BY <1>c, <2>1, <2>2, <2>3, WithinShrinks
<1>4. ASSUME NEW name \in BankNames
      PROVE  Within(Named(name)', Naming(name)', Cardinality(Requests))
  <2>1. Named(name)' = Named(name) BY <1>1 DEF Named
  <2>2. CASE rec.pc = "bank_create" /\ rec.name = name
    <3>1. Named(name) = {} BY <1>2, <2>2 DEF Entry
    <3>2. Naming(name)' \subseteq Requests BY DEF Naming
    <3> QED BY <2>1, <3>1, <3>2, WithinRequests
  <2>3. CASE ~(rec.pc = "bank_create" /\ rec.name = name)
    <3>1. Naming(name)' \subseteq Naming(name) BY <1>2, <2>3 DEF Naming
    <3>2. Within(Named(name), Naming(name), Cardinality(Requests)) BY DEF OverlapInv
    <3> QED BY <1>c, <2>1, <3>1, <3>2, WithinShrinks
  <2> QED BY <2>2, <2>3
<1> QED BY <1>3, <1>4 DEF OverlapInv, Within

LEMMA OverlapStep ==
    ASSUME CatalogueAssumption, OfficeTypes, OverlapInv, [OfficeNext]_officeVars
    PROVE  OverlapInv'
<1>1. CASE UNCHANGED <<bank, account>> /\ \A q \in Requests : req'[q] = req[q] \/ req'[q] = NoReq
  <2>c. Cardinality(Requests) \in Int BY WithinRequests
  <2>1. ASSUME NEW o \in Owners
        PROVE  Within(DefaultsOf(o)', Defaulting(o)', Cardinality(Requests))
    <3>1. DefaultsOf(o)' \subseteq DefaultsOf(o) /\ Defaulting(o)' \subseteq Defaulting(o)
      BY <1>1, NoReqIsKnown DEF DefaultsOf, Defaulting
    <3>2. Within(DefaultsOf(o), Defaulting(o), Cardinality(Requests)) BY DEF OverlapInv
    <3> QED BY <2>c, <3>1, <3>2, WithinShrinks
  <2>2. ASSUME NEW name \in BankNames
        PROVE  Within(Named(name)', Naming(name)', Cardinality(Requests))
    <3>1. Named(name)' \subseteq Named(name) /\ Naming(name)' \subseteq Naming(name)
      BY <1>1, NoReqIsKnown DEF Named, Naming
    <3>2. Within(Named(name), Naming(name), Cardinality(Requests)) BY DEF OverlapInv
    <3> QED BY <2>c, <3>1, <3>2, WithinShrinks
  <2> QED BY <2>1, <2>2 DEF OverlapInv, Within
<1>3. ASSUME NEW w \in Workers, Work(w) PROVE OverlapInv'
  BY <1>1, <1>3, WorkersKeepToTheQueue
<1>4. CASE Crash BY <1>1, <1>4 DEF Crash
<1>5. CASE UNCHANGED officeVars BY <1>1, <1>5 DEF officeVars, catalogueVars, officeRows
<1> QED BY <1>3, <1>4, <1>5, OverlapEnters, OverlapStatement, OfficeStepKinds

(* A client has no more defaults, and a bank no more rows, than requests     *)
(* were in flight at once: the next request sets it right or adds nothing    *)
(* (clients.service.ts:165-202, admin.service.ts:365-412).                   *)
THEOREM DuplicatesAreBounded == OfficeSpec => []DuplicatesNeedOverlap
<1> DEFINE I == OfficeTypes /\ OverlapInv
<1>1. OfficeInit => I
  <2>1. SUFFICES OfficeInit => OverlapInv BY TypesInit, CatalogueAssumption
  <2>2. ASSUME OfficeInit, NEW o \in Owners
        PROVE  Within(DefaultsOf(o), Defaulting(o), Cardinality(Requests))
    <3>1. DefaultsOf(o) = {} BY <2>2 DEF OfficeInit, DefaultsOf, NoAccount
    <3>2. Defaulting(o) \subseteq Requests BY DEF Defaulting
    <3> QED BY <3>1, <3>2, CatalogueAssumption, WithinRequests
  <2>3. ASSUME OfficeInit, NEW name \in BankNames
        PROVE  Within(Named(name), Naming(name), Cardinality(Requests))
    <3>1. Named(name) = {} BY <2>3, CatalogueAssumption DEF OfficeInit, Named, CatalogueAssumption
    <3>2. Naming(name) \subseteq Requests BY DEF Naming
    <3> QED BY <3>1, <3>2, CatalogueAssumption, WithinRequests
  <2> QED BY <2>2, <2>3 DEF OverlapInv
<1>2. I /\ [OfficeNext]_officeVars => I'
  BY CatalogueAssumption, OfficeTypesStep, OverlapStep
<1>3. I => DuplicatesNeedOverlap
  <2>1. ASSUME NEW S, NEW T, Within(S, T, Cardinality(Requests))
        PROVE  Cardinality(S) <= Cardinality(Requests)
    <3>1. Cardinality(S) \in Nat /\ Cardinality(T) \in Nat
      BY <2>1, FS_CardinalityType DEF Within
    <3>2. Cardinality(Requests) \in Nat BY CatalogueAssumption, WithinRequests
    <3> QED BY <2>1, <3>1, <3>2 DEF Within
  <2>2. OverlapInv => DuplicatesNeedOverlap
    <3> SUFFICES ASSUME OverlapInv PROVE DuplicatesNeedOverlap OBVIOUS
    <3>1. \A o \in Owners : Cardinality(DefaultsOf(o)) <= Cardinality(Requests)
      BY <2>1 DEF OverlapInv
    <3>2. \A name \in BankNames : Cardinality(Named(name)) <= Cardinality(Requests)
      BY <2>1 DEF OverlapInv
    <3> QED BY <3>1, <3>2 DEF DuplicatesNeedOverlap, DefaultsOf
  <2> QED BY <2>2
<1> QED BY <1>1, <1>2, <1>3, PTL DEF OfficeSpec

-----------------------------------------------------------------------------
(* The ticket range                                                          *)

LEMMA Division ==
    ASSUME NEW m \in Nat, NEW d \in Nat \ {0}
    PROVE  m \div d \in Nat /\ d * (m \div d) <= m /\ m < d * (m \div d) + d
OBVIOUS

LEMMA Cancelling ==
    ASSUME NEW a \in Int, NEW b \in Int, NEW d \in Nat \ {0}, d * a < d * b
    PROVE  a < b
OBVIOUS

(* The batches of preGenerateTickets make up the range: every number of it   *)
(* is in one of them, and they hold no other.                                *)
LEMMA BatchesMakeTheRange ==
    ASSUME CatalogueAssumption, NEW s \in Nat, NEW n \in Nat \ {0}
    PROVE  Generated(s, n) = s .. s + n - 1
<1> DEFINE B == BatchSize
<1>1. B \in Nat \ {0} BY DEF CatalogueAssumption
<1>2. n + B - 1 \in Nat BY <1>1
<1>3. /\ Batches(n) \in Nat /\ B * Batches(n) <= n + B - 1
      /\ n + B - 1 < B * Batches(n) + B
  BY <1>1, <1>2, Division DEF Batches
<1> HIDE DEF B
<1>4. ASSUME NEW x \in Generated(s, n) PROVE x \in s .. s + n - 1
  <2>1. PICK b \in 0 .. Batches(n) - 1 : x \in BatchNumbers(b, s, n) BY DEF Generated
  <2>2. b \in Nat /\ B * b \in Nat /\ B * (b + 1) \in Nat BY <1>1, <1>3, <2>1
  <2>3. b * BatchSize = B * b /\ (b + 1) * BatchSize = B * (b + 1) BY <1>1, <2>2 DEF B
  <2> DEFINE last == IF s + B * (b + 1) - 1 < s + n - 1 THEN s + B * (b + 1) - 1 ELSE s + n - 1
  <2>4. x \in s + B * b .. last BY <2>1, <2>3 DEF BatchNumbers
  <2>5. last \in Int /\ last <= s + n - 1 BY <2>2
  <2> HIDE DEF last
  <2>6. s + B * b \in Nat /\ s <= s + B * b BY <2>2
  <2>7. x \in Int /\ s + B * b <= x /\ x <= last BY <2>4, <2>5, <2>6
  <2>8. s + n - 1 \in Int BY <1>1
  <2>9. s <= x /\ x <= s + n - 1 BY <2>5, <2>6, <2>7, <2>8
  <2> QED BY <2>7, <2>8, <2>9
<1>5. ASSUME NEW x \in s .. s + n - 1 PROVE x \in Generated(s, n)
  <2> DEFINE m == x - s
             b == m \div B
  <2>1. m \in Nat /\ m <= n - 1 OBVIOUS
  <2>2. b \in Nat /\ B * b <= m /\ m < B * b + B BY <1>1, <2>1, Division
  <2>x. x = s + m OBVIOUS
  <2> HIDE DEF m, b
  <2>3. B * b \in Nat /\ B * (b + 1) = B * b + B /\ B * (b + 1) \in Nat BY <1>1, <2>2
  <2>4. b \in 0 .. Batches(n) - 1
    <3>1. B * Batches(n) \in Nat /\ B * (Batches(n) + 1) = B * Batches(n) + B BY <1>1, <1>3
    <3>2. B * (b + 1) < B * (Batches(n) + 1) BY <1>1, <1>3, <2>1, <2>2, <2>3, <3>1
    <3>3. b + 1 < Batches(n) + 1 BY <1>1, <1>3, <2>2, <3>2, Cancelling
    <3> QED BY <1>3, <2>2, <3>3
  <2>5. b * BatchSize = B * b /\ (b + 1) * BatchSize = B * (b + 1) BY <1>1, <2>2 DEF B
  <2> DEFINE last == IF s + B * (b + 1) - 1 < s + n - 1 THEN s + B * (b + 1) - 1 ELSE s + n - 1
  <2>6. last \in Int /\ x <= last BY <2>1, <2>2, <2>3, <2>x
  <2>7. s + B * b \in Int /\ s + B * b <= x /\ x \in Int BY <2>1, <2>2, <2>3, <2>x
  <2> HIDE DEF last
  <2>8. x \in s + B * b .. last BY <2>6, <2>7
  <2>9. BatchNumbers(b, s, n) = s + B * b .. last BY <2>5 DEF BatchNumbers, last
  <2> QED BY <2>4, <2>8, <2>9 DEF Generated
<1> QED BY <1>4, <1>5

RangeInv ==
    /\ RangeIsConsistent
    /\ lot.status = "NONE" => ~edited
    /\ \A q \in Requests : req[q].pc = "edit_write" /\ ~req[q].stale =>
         req[q].end = NewEnd(req[q].start, req[q].total)

(* Only the creation and an edit write the range.                            *)
RangeKept ==
    /\ UNCHANGED <<numbers, late, edited>>
    /\ lot'.start = lot.start /\ lot'.total = lot.total /\ lot'.end = lot.end

LEMMA StatementRange ==
    ASSUME OfficeTypes, NEW q \in Requests, Statement(q)
    PROVE  \/ CreateTx(q)
           \/ EditWrite(q)
           \/ RangeKept /\ \A p \in Requests \ {q} : At(p, "edit_write") => req'[p] = req[p]
<1>0. lot \in LotRow /\ req \in [Requests -> ReqRow] BY TypesSplit DEF CatalogueTypes, SlotTypes
<1>1. CASE OfficeContinue(q)
  <2>1. RangeKept BY <1>1, OfficeLeavesTheCatalogue DEF RangeKept, catalogueRows, history
  <2>2. \E rec : req' = [req EXCEPT ![q] = rec]
    BY <1>1 DEF OfficeContinue, CreateBank, UnsetDefaults, CreateAccount, DropAccountWrite,
       MoveAccountWrite, AccountGone, EnqueueExport, RequestFails, Answer, Step, Move
  <2> QED BY <1>0, <2>1, <2>2
<1>2. CASE CatalogueContinue(q) /\ ~CreateTx(q) /\ ~EditWrite(q)
  <2>1. UNCHANGED <<numbers, late, edited>>
    BY <1>2 DEF CatalogueContinue, AddPrizeWrite, DeletePrizeWrite, PublishCount, PublishWrite,
       CloseWrite, ArchiveWrite, ReserveWrite, DrawWrite, ResultsWrite, DeleteWrite, StatusWrite,
       UploadStore, UploadFails, AddImageCreate, DeleteImageWrite, BannerWrite, LogoWrite, Answer, Step, history, catalogueRows
  <2>2. \/ lot' = lot
        \/ \E s : lot' = [lot EXCEPT !.status = s]
        \/ \E d : lot' = [lot EXCEPT !.deleted = d]
        \/ \E f : lot' = [lot EXCEPT !.banner = f]
    BY <1>2 DEF CatalogueContinue, AddPrizeWrite, DeletePrizeWrite, PublishCount, PublishWrite,
       CloseWrite, ArchiveWrite, ReserveWrite, DrawWrite, ResultsWrite, DeleteWrite, StatusWrite,
       UploadStore, UploadFails, AddImageCreate, DeleteImageWrite, BannerWrite, LogoWrite, catalogueRows
  <2>3. lot'.start = lot.start /\ lot'.total = lot.total /\ lot'.end = lot.end
    BY <1>0, <2>2 DEF LotRow
  <2>4. ASSUME NEW p \in Requests \ {q}, At(p, "edit_write") PROVE req'[p] = req[p]
    <3>1. CASE DeletePrizeWrite(q)
      <4>1. req'[p] = [req[p] EXCEPT !.stale = @ \/ (At(p, "publish_write") /\ req[q].item \in prizes)]
        BY <3>1 DEF DeletePrizeWrite
      <4>2. ~At(p, "publish_write") BY <2>4 DEF At
      <4> QED BY <1>0, <4>1, <4>2 DEF ReqRow
    <3>2. CASE ~DeletePrizeWrite(q)
      <4>1. \E rec : req' = [req EXCEPT ![q] = rec]
        BY <1>2, <3>2 DEF CatalogueContinue, AddPrizeWrite, PublishCount, PublishWrite,
           CloseWrite, ArchiveWrite, ReserveWrite, DrawWrite, ResultsWrite, DeleteWrite,
           StatusWrite, UploadStore, UploadFails, AddImageCreate, DeleteImageWrite, BannerWrite,
           LogoWrite, Answer, Step, Move
      <4> QED BY <1>0, <4>1
    <3> QED BY <3>1, <3>2
  <2> QED BY <2>1, <2>3, <2>4 DEF RangeKept
<1> QED BY <1>1, <1>2 DEF Statement

LEMMA RangeKeptIsConsistent ==
    ASSUME RangeInv, RangeKept, lot'.status = "NONE" => lot.status = "NONE",
           \A q \in Requests : req'[q].pc = "edit_write" /\ ~req'[q].stale =>
             \/ req'[q] = req[q]
             \/ req'[q].end = NewEnd(req'[q].start, req'[q].total)
    PROVE  RangeInv'
<1>1. \A s, n : NewEnd(s, n)' = NewEnd(s, n) BY DEF NewEnd, Chosen, RangeKept
<1>2. RangeIsConsistent' BY DEF RangeInv, RangeIsConsistent, RangeKept
<1>3. lot'.status = "NONE" => ~edited' BY DEF RangeInv, RangeKept
<1>4. ASSUME NEW q \in Requests, req'[q].pc = "edit_write", ~req'[q].stale
      PROVE  req'[q].end = NewEnd(req[q].start, req[q].total)'
  BY <1>1, <1>4 DEF RangeInv, NewEnd, Chosen, RangeKept
<1> QED BY <1>2, <1>3, <1>4 DEF RangeInv, NewEnd, Chosen

LEMMA RangeStatement ==
    ASSUME CatalogueAssumption, LotteryInv, RangeInv, NEW q \in Requests, Statement(q)
    PROVE  RangeInv'
<1>t. /\ OfficeTypes /\ LifeInv /\ lot \in LotRow /\ req \in [Requests -> ReqRow]
      /\ Known(req[q])
  BY TypesSplit DEF LotteryInv, CatalogueTypes, SlotTypes
<1>k. LotMoves(q) BY <1>t, StatementMovesLot
<1>1. CASE CreateTx(q)
  <2> DEFINE s == req[q].start
             n == req[q].total
  <2>1. s \in Nat /\ n \in Nat \ {0} /\ lot.status = "NONE"
        /\ \A p \in Requests : req[p].pc # "edit_write"
    BY <1>1, <1>t DEF CreateTx, Known, At, LifeInv, FoundPcs
  <2>2. /\ lot' = [lot EXCEPT !.status = "DRAFT", !.start = s, !.total = n, !.end = s + n - 1]
        /\ numbers' = Generated(s, n) /\ UNCHANGED <<late, edited>>
        /\ req' = [req EXCEPT ![q] = NoReq]
    BY <1>1 DEF CreateTx, Answer, Move, history
  <2> HIDE DEF s, n
  <2>3. lot'.status = "DRAFT" /\ lot'.start = s /\ lot'.total = n /\ lot'.end = s + n - 1
    BY <1>t, <2>2 DEF LotRow
  <2>4. numbers' = s .. s + n - 1 BY <2>1, <2>2, BatchesMakeTheRange
  <2>5. \A p \in Requests : req'[p].pc # "edit_write" BY <1>t, <2>1, <2>2, NoReqIsKnown
  <2> QED BY <2>2, <2>3, <2>4, <2>5 DEF RangeInv, RangeIsConsistent
<1>2. CASE EditWrite(q)
  <2>1. /\ lot' = [lot EXCEPT !.start = Chosen(req[q].start, lot.start),
                              !.total = Chosen(req[q].total, lot.total), !.end = req[q].end]
        /\ req' = [p \in Requests |->
                 IF p = q THEN NoReq
                 ELSE [req[p] EXCEPT !.stale = @ \/ At(p, "edit_write")]]
        /\ late' = req[q].stale /\ edited' = TRUE /\ req[q].pc = "edit_write"
    BY <1>2 DEF EditWrite, At
  <2>2. /\ lot'.start = Chosen(req[q].start, lot.start) /\ lot'.status = lot.status
        /\ lot'.total = Chosen(req[q].total, lot.total) /\ lot'.end = req[q].end
    BY <1>t, <2>1 DEF LotRow
  <2>3. ~late' => lot'.end = lot'.start + lot'.total - 1
    BY <2>1, <2>2 DEF RangeInv, NewEnd
  <2>4. lot'.status # "NONE" BY <1>t, <2>1, <2>2 DEF LifeInv, FoundPcs
  <2>5. ASSUME NEW p \in Requests, req'[p].pc = "edit_write" PROVE req'[p].stale
    <3>1. p # q BY <2>1, <2>5, NoReqIsKnown
    <3>2. req'[p] = [req[p] EXCEPT !.stale = @ \/ At(p, "edit_write")] BY <2>1, <3>1
    <3>3. req[p] \in ReqRow BY <1>t
    <3>4. /\ req'[p].pc = req[p].pc
          /\ req'[p].stale = (req[p].stale \/ At(p, "edit_write"))
      BY <3>2, <3>3 DEF ReqRow
    <3> QED BY <2>5, <3>4 DEF At
  <2> QED BY <2>1, <2>3, <2>4, <2>5 DEF RangeInv, RangeIsConsistent
<1>3. CASE RangeKept /\ \A p \in Requests \ {q} : At(p, "edit_write") => req'[p] = req[p]
  <2>1. PICK rec : Continues(q, rec) BY <1>t, StatementContinues
  <2>2. ASSUME NEW p \in Requests \ {q}, req'[p].pc = "edit_write" PROVE req'[p] = req[p]
    BY <1>3, <1>t, <2>1, <2>2, KeptFacts DEF Continues, At
  <2>3. req'[q].pc # "edit_write" BY <2>1, NoReqIsKnown DEF Continues, Passed
  <2>4. lot'.status = "NONE" => lot.status = "NONE" BY <1>k DEF LotMoves
  <2> QED BY <1>3, <2>2, <2>3, <2>4, RangeKeptIsConsistent
<1> QED BY <1>1, <1>2, <1>3, <1>t, StatementRange

LEMMA RangeStep ==
    ASSUME CatalogueAssumption, LotteryInv, RangeInv, [OfficeNext]_officeVars
    PROVE  RangeInv'
<1>t. OfficeTypes /\ lot \in LotRow /\ req \in [Requests -> ReqRow]
  BY TypesSplit DEF LotteryInv, CatalogueTypes, SlotTypes
<1>1. ASSUME NEW q \in Requests, NEW rec, Enters(q, rec) PROVE RangeInv'
  <2>1. RangeKept /\ lot' = lot BY <1>1 DEF Enters, catalogueRows, history, RangeKept
  <2>2. req'[q] = rec /\ (\A p \in Requests \ {q} : req'[p] = req[p]) /\ Entry(rec)
    BY <1>1, <1>t DEF Enters
  <2>3. rec.pc = "edit_write" => rec.end = NewEnd(rec.start, rec.total) BY <2>2 DEF Entry
  <2> QED BY <2>1, <2>2, <2>3, RangeKeptIsConsistent
<1>3. CASE UNCHANGED <<catalogueRows, history>>
           /\ \A q \in Requests : req'[q] = req[q] \/ req'[q] = NoReq
  <2>1. RangeKept /\ lot' = lot BY <1>3 DEF RangeKept, catalogueRows, history
  <2> QED BY <1>3, <2>1, NoReqIsKnown, RangeKeptIsConsistent
<1>4. ASSUME NEW w \in Workers, Work(w) PROVE RangeInv'
  BY <1>3, <1>4, WorkersKeepToTheQueue
<1>5. CASE Crash BY <1>3, <1>5 DEF Crash
<1>6. CASE UNCHANGED officeVars BY <1>3, <1>6 DEF officeVars, catalogueVars
<1> QED BY <1>1, <1>4, <1>5, <1>6, <1>t, RangeStatement, OfficeStepKinds

(* The tickets generated are the range of the lottery, batch sizes and all,  *)
(* and ticketEnd stays its last number as long as no edit overtakes another  *)
(* (lottery.service.ts:94-103, 151-180, 230-252).                            *)
THEOREM RangeStaysConsistent == OfficeSpec => []RangeIsConsistent
<1> DEFINE I == LotteryInv /\ RangeInv
<1>1. OfficeInit => I
  <2>1. OfficeInit => RangeInv
    <3>1. 0 .. -1 = {} OBVIOUS
    <3> QED BY <3>1, NoReqIsKnown DEF OfficeInit, CatalogueInit, RangeInv, RangeIsConsistent
  <2> QED BY <2>1, CatalogueAssumption, LotteryInductive
<1>2. I /\ [OfficeNext]_officeVars => I'
  BY CatalogueAssumption, LotteryInductive, RangeStep
<1>3. I => RangeIsConsistent BY DEF RangeInv
<1> QED BY <1>1, <1>2, <1>3, PTL DEF OfficeSpec
=============================================================================
