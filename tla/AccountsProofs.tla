--------------------------- MODULE AccountsProofs ---------------------------
(***************************************************************************)
(* The accounts' safety for every value of the constants: any numbers of   *)
(* accounts, tokens and requests at once, and any bounds.                  *)
(***************************************************************************)
EXTENDS Accounts, FiniteSetTheorems, TLAPS

-----------------------------------------------------------------------------
(* What a handler in flight knows.  It has found its account, unless it is   *)
(* still looking for it; and only a refresh has a token to replace.          *)
Knows(r) ==
    /\ r.pc \notin {"idle", "find_staff", "find_buyer"} => r.acct \in AllAccounts
    /\ r.pc = "register_write" =>
         /\ r.id \in Emails \cup {null} /\ r.value = "CREATE"
         /\ r.op \in {"register", "createAdmin", "guest"}
    /\ r.plan => r.acct \in ClientAccts /\ r.op = "register"
    /\ r.pc = "status_write" =>
         /\ r.value \in {"ACTIVE", "INACTIVE", "SUSPENDED"}
         /\ r.acct \in Admins => r.value # "SUSPENDED"
    /\ r.pc = "delete_write" => r.value = "DELETE"
    /\ r.pc = "audit_write" =>
         r.acct \in Admins /\ r.value \in {"ACTIVE", "INACTIVE", "CREATE", "DELETE"}
    /\ r.pc = "revoke" => r.parent # 0
    /\ r.parent # 0 => r.pc \in {"revoke", "save_token"} /\ r.op = "refresh"

KnownRecord(r) == r \in ReqRow /\ Knows(r)

(* A token belongs to an account.                                            *)
TokensBelong == \A k \in Tokens : token[k].exists => token[k].acct \in AllAccounts

AccountsInv ==
    /\ AccountTypeOK
    /\ \A h \in Handlers : Knows(req[h])
    /\ TokensBelong

Handler(h) == LoginStep(h) \/ ManagementStep(h) \/ HandlerFails(h)

-----------------------------------------------------------------------------
(* Records *)

LEMMA NoReqKnown ==
    /\ KnownRecord(NoReq)
    /\ \A o \in AllAccountOps :
        /\ KnownRecord([NoReq EXCEPT !.op = o])
        /\ \A id \in Emails \cup Phones :
             KnownRecord([[NoReq EXCEPT !.pc = "find_staff", !.id = id] EXCEPT !.op = o])
<1> USE DEF KnownRecord, Knows, NoReq, ReqRow, ReqPcs, AllAccountOps
<1>1. KnownRecord(NoReq) OBVIOUS
<1>2. ASSUME NEW o \in AllAccountOps PROVE KnownRecord([NoReq EXCEPT !.op = o])
  OBVIOUS
<1>3. ASSUME NEW o \in AllAccountOps, NEW id \in Emails \cup Phones
      PROVE  KnownRecord([[NoReq EXCEPT !.pc = "find_staff", !.id = id] EXCEPT !.op = o])
  OBVIOUS
<1> HIDE DEF KnownRecord, NoReq
<1> QED BY <1>1, <1>2, <1>3

(* The records the first statements of the handlers leave in their slot.     *)
LEMMA NewRecordsKnown ==
    ASSUME NEW o \in AllAccountOps, NEW a \in AllAccounts
    PROVE  /\ KnownRecord([Accepted(a) EXCEPT !.op = o])
           /\ acct[a].failed \in Nat => KnownRecord([Mistaken(a) EXCEPT !.op = o])
           /\ \A k \in Tokens :
                KnownRecord([[NoReq EXCEPT !.pc = "revoke", !.parent = k, !.acct = a]
                              EXCEPT !.op = "refresh"])
           /\ \A e \in Emails \cup {null}, n \in Phones \cup {null}, plan \in BOOLEAN :
                /\ o \in {"register", "createAdmin", "guest"}
                /\ plan => o = "register" /\ a \in ClientAccts
                => KnownRecord([Registration(a, e, n, plan) EXCEPT !.op = o])
           /\ \A v \in {"ACTIVE", "SUSPENDED", "INACTIVE"} :
                (a \in Admins => v # "SUSPENDED") =>
                KnownRecord([[NoReq EXCEPT !.pc = "status_write", !.acct = a, !.value = v]
                              EXCEPT !.op = o])
           /\ \A v \in {"ON", "OFF"} :
                KnownRecord([[NoReq EXCEPT !.pc = "toggle_write", !.acct = a, !.value = v]
                              EXCEPT !.op = o])
           /\ KnownRecord([[NoReq EXCEPT !.pc = "delete_write", !.acct = a,
                                         !.value = "DELETE"] EXCEPT !.op = o])
<1> USE DEF KnownRecord, Knows, NoReq, ReqRow, ReqPcs, AllAccountOps
<1>2. KnownRecord([Accepted(a) EXCEPT !.op = o]) BY DEF Accepted
<1>3. acct[a].failed \in Nat => KnownRecord([Mistaken(a) EXCEPT !.op = o])
  <2>1. \A n \in Nat : KnownRecord([[NoReq EXCEPT !.pc = "fail_write", !.acct = a,
                                                 !.failed = n] EXCEPT !.op = o])
    OBVIOUS
  <2>2. acct[a].failed \in Nat => acct[a].failed + 1 \in Nat OBVIOUS
  <2> HIDE DEF KnownRecord, NoReq
  <2> QED BY <2>1, <2>2 DEF Mistaken
<1>5. ASSUME NEW k \in Tokens
      PROVE  KnownRecord([[NoReq EXCEPT !.pc = "revoke", !.parent = k, !.acct = a]
                            EXCEPT !.op = "refresh"])
  <2>1. k \in Nat /\ k # 0 BY AccountAssumption DEF AccountAssumption, Tokens
  <2> QED BY <2>1
<1>6. ASSUME NEW e \in Emails \cup {null}, NEW n \in Phones \cup {null},
             NEW plan \in BOOLEAN, o \in {"register", "createAdmin", "guest"},
             plan => o = "register" /\ a \in ClientAccts
      PROVE  KnownRecord([Registration(a, e, n, plan) EXCEPT !.op = o])
  BY <1>6 DEF Registration
<1>7. ASSUME NEW v \in {"ACTIVE", "SUSPENDED", "INACTIVE"},
             a \in Admins => v # "SUSPENDED"
      PROVE  KnownRecord([[NoReq EXCEPT !.pc = "status_write", !.acct = a, !.value = v]
                            EXCEPT !.op = o])
  BY <1>7
<1>8. ASSUME NEW v \in {"ON", "OFF"}
      PROVE  KnownRecord([[NoReq EXCEPT !.pc = "toggle_write", !.acct = a, !.value = v]
                            EXCEPT !.op = o])
  OBVIOUS
<1>9. KnownRecord([[NoReq EXCEPT !.pc = "delete_write", !.acct = a, !.value = "DELETE"]
                    EXCEPT !.op = o])
  OBVIOUS
<1> HIDE DEF KnownRecord, Knows, NoReq, ReqRow, ReqPcs, AllAccountOps
<1> QED BY <1>2, <1>3, <1>5, <1>6, <1>7, <1>8, <1>9

(* A handler that goes on to pc with what it knows.                          *)
LEMMA NextRecordKnown ==
    ASSUME NEW r \in ReqRow, Knows(r), NEW pc \in ReqPcs,
           r.acct \in AllAccounts \/ pc \in {"find_staff", "find_buyer"},
           pc \notin {"register_write", "status_write", "delete_write", "revoke"},
           pc = "audit_write" =>
             r.acct \in Admins /\ r.value \in {"ACTIVE", "INACTIVE", "CREATE", "DELETE"},
           r.parent # 0 => pc = "save_token"
    PROVE  /\ KnownRecord([r EXCEPT !.pc = pc])
           /\ [r EXCEPT !.pc = pc] = [[r EXCEPT !.pc = pc] EXCEPT !.op = r.op]
<1> DEFINE u == [r EXCEPT !.pc = pc]
<1>1. u \in ReqRow BY DEF ReqRow
<1>2. /\ u.pc = pc /\ u.op = r.op /\ u.acct = r.acct /\ u.id = r.id
      /\ u.plan = r.plan /\ u.parent = r.parent /\ u.value = r.value
  BY DEF ReqRow
<1>3. u = [u EXCEPT !.op = r.op] BY DEF ReqRow
<1>4. Knows(u)
  <2> HIDE DEF u
  <2> QED BY <1>2 DEF Knows
<1> QED BY <1>1, <1>3, <1>4 DEF KnownRecord

(* What a handler is after the upsert, and what the row it inserts is.       *)
LEMMA AfterUpsertKnown ==
    ASSUME NEW r \in ReqRow, Knows(r), r.pc = "bridge_upsert"
    PROVE  LET u == AfterUpsert(r) IN
           /\ KnownRecord(u) /\ u.parent = 0
           /\ u.pc \in {"save_token", "subscribe", "idle"}
           /\ r.op = "register" /\ r.plan =>
                u.pc = "subscribe" /\ u.acct = r.acct /\ u.op = r.op /\ u.plan
<1>1. r.acct \in AllAccounts /\ r.parent = 0 BY DEF Knows
<1>2. ASSUME NEW pc \in {"save_token", "subscribe"}
      PROVE  /\ KnownRecord([r EXCEPT !.pc = pc])
             /\ [r EXCEPT !.pc = pc].parent = 0 /\ [r EXCEPT !.pc = pc].pc = pc
             /\ [r EXCEPT !.pc = pc].acct = r.acct /\ [r EXCEPT !.pc = pc].op = r.op
             /\ [r EXCEPT !.pc = pc].plan = r.plan
  <2>1. pc \in ReqPcs BY DEF ReqPcs
  <2>2. KnownRecord([r EXCEPT !.pc = pc]) BY <1>1, <1>2, <2>1, NextRecordKnown
  <2>3. /\ [r EXCEPT !.pc = pc].parent = r.parent /\ [r EXCEPT !.pc = pc].pc = pc
        /\ [r EXCEPT !.pc = pc].acct = r.acct /\ [r EXCEPT !.pc = pc].op = r.op
        /\ [r EXCEPT !.pc = pc].plan = r.plan
    BY DEF ReqRow
  <2> QED BY <1>1, <2>2, <2>3
<1>3. NoReq.parent = 0 /\ NoReq.pc = "idle" BY DEF NoReq
<1>4. r.plan => r.acct \notin BuyerAccts
  BY AccountAssumption DEF Knows, AccountAssumption
<1> QED BY <1>2, <1>3, <1>4, NoReqKnown DEF AfterUpsert

LEMMA NewAccountFacts ==
    ASSUME NEW r
    PROVE  /\ NewAccount(r).exists /\ ~NewAccount(r).deleted
           /\ NewAccount(r).email = r.id /\ NewAccount(r).failed = 0
           /\ NewAccount(r).by = r.op /\ NewAccount(r).plan = r.plan
           /\ r \in ReqRow /\ r.pc = "register_write" /\ Knows(r)
                => NewAccount(r) \in AcctRow
<1>1. /\ NewAccount(r).exists /\ ~NewAccount(r).deleted
      /\ NewAccount(r).email = r.id /\ NewAccount(r).failed = 0
      /\ NewAccount(r).by = r.op /\ NewAccount(r).plan = r.plan
  BY DEF NewAccount, NoAcct
<1>2. ASSUME r \in ReqRow, r.pc = "register_write", Knows(r)
      PROVE  NewAccount(r) \in AcctRow
  <2>1. /\ r.id \in Emails \cup {null} /\ r.phone \in Phones \cup {null}
        /\ r.op \in {"register", "createAdmin", "guest"} /\ r.plan \in BOOLEAN
    BY <1>2 DEF ReqRow, Knows
  <2> QED BY <2>1 DEF AcctRow, NewAccount, NoAcct
<1> QED BY <1>1, <1>2

-----------------------------------------------------------------------------
(* Steps *)

LEMMA StepKinds ==
    ASSUME [AccountNext]_accountVars
    PROVE  \/ \E h \in Handlers : Handler(h)
           \/ TimePasses
           \/ UNCHANGED accountVars
BY DEF AccountNext, Handler

(* A step of h puts a record of its own into its slot and counts requests    *)
(* and failures.                                                             *)
Counting == requests' \in Nat /\ errors' \in Nat
SlotTaken(h) ==
    Counting /\ \E rec : KnownRecord(rec) /\ req' = [req EXCEPT ![h] = rec]

LEMMA SlotStep ==
    ASSUME AccountsInv, NEW h \in Handlers, Handler(h)
    PROVE  SlotTaken(h)
<1>t. /\ req[h] \in ReqRow /\ Knows(req[h])
      /\ requests \in Nat /\ errors \in Nat
      /\ \A a \in AllAccounts : acct[a].failed \in Nat
  BY DEF AccountsInv, AccountTypeOK, AcctRow
<1>a. ASSUME NEW o, NEW rec, Takes(h, o, rec), KnownRecord([rec EXCEPT !.op = o])
      PROVE  SlotTaken(h)
  <2>1. requests' \in Nat /\ errors' \in Nat BY <1>a, <1>t DEF Takes
  <2>2. req' = [req EXCEPT ![h] = [rec EXCEPT !.op = o]] BY <1>a DEF Takes
  <2> QED BY <1>a, <2>1, <2>2 DEF SlotTaken, Counting
<1>b. ASSUME NEW rec, Move(h, rec), KnownRecord(rec) PROVE SlotTaken(h)
  BY <1>b, <1>t DEF Move, counts, SlotTaken, Counting
<1>c. ASSUME Answer(h) PROVE SlotTaken(h)
  BY <1>b, <1>c, NoReqKnown DEF Answer
<1>d. ASSUME NEW pc \in {"save_token", "find_buyer", "bridge_upsert", "audit_write"},
             Step(h, pc),
             req[h].acct \in AllAccounts \/ pc = "find_buyer",
             pc = "audit_write" => req[h].acct \in Admins
                 /\ req[h].value \in {"ACTIVE", "INACTIVE", "CREATE", "DELETE"},
             req[h].parent # 0 => pc = "save_token"
      PROVE  SlotTaken(h)
  <2>1. pc \in ReqPcs BY DEF ReqPcs
  <2>2. KnownRecord([req[h] EXCEPT !.pc = pc])
    BY <1>d, <1>t, <2>1, NextRecordKnown
  <2> QED BY <1>b, <1>d, <2>2 DEF Step
<1>e. "login" \in AllAccountOps /\ "unified" \in AllAccountOps /\ "refresh" \in AllAccountOps
      /\ "logout" \in AllAccountOps /\ "register" \in AllAccountOps /\ "suspend" \in AllAccountOps
      /\ "toggleStaff" \in AllAccountOps /\ "delete" \in AllAccountOps
      /\ "userStatus" \in AllAccountOps /\ "createAdmin" \in AllAccountOps
      /\ "guest" \in AllAccountOps
  BY DEF AllAccountOps
<1>f. /\ Admins \subseteq AllAccounts /\ ClientAccts \subseteq AllAccounts
      /\ StaffAccts \subseteq AllAccounts /\ BuyerAccts \subseteq AllAccounts
      /\ Counted \subseteq AllAccounts
  BY DEF AllAccounts, Counted
<1>1. CASE AdminLogin(h) \/ ClientLogin(h) \/ UnifiedClient(h)
  BY <1>1, <1>a, <1>e, <1>f, <1>t, NewRecordsKnown DEF AdminLogin, ClientLogin, UnifiedClient
<1>2. CASE BuyerLogin(h) \/ StaffLogin(h)
  BY <1>2, <1>a, <1>e, <1>f, <1>t, NewRecordsKnown DEF BuyerLogin, StaffLogin
<1>3. CASE UnifiedRequest(h)
  BY <1>3, <1>a, <1>e, NoReqKnown DEF UnifiedRequest
<1>g. ASSUME NEW a \in AllAccounts, Judged(h, a) PROVE SlotTaken(h)
  <2>1. CASE Answer(h) BY <2>1, <1>c
  <2>2. CASE Move(h, [Accepted(a) EXCEPT !.op = "unified"])
    BY <2>2, <1>b, <1>e, NewRecordsKnown
  <2>3. CASE Move(h, IF a \in Counted THEN [Mistaken(a) EXCEPT !.op = "unified"] ELSE NoReq)
    BY <2>3, <1>b, <1>e, <1>t, NewRecordsKnown, NoReqKnown
  <2> QED BY <1>g, <2>1, <2>2, <2>3 DEF Judged
<1>4. CASE UnifiedStaff(h) \/ UnifiedBuyer(h)
  <2>1. req[h].parent = 0 BY <1>4, <1>t DEF UnifiedStaff, UnifiedBuyer, At, Knows
  <2> QED BY <1>4, <1>c, <1>d, <1>f, <1>g, <2>1 DEF UnifiedStaff, UnifiedBuyer
<1>5. CASE RecordFailedAttempt(h)
  BY <1>5, <1>c DEF RecordFailedAttempt
<1>6. CASE RecordSuccessfulLogin(h)
  BY <1>6, <1>d, <1>t DEF RecordSuccessfulLogin, At, Knows
<1>7. CASE SaveRefreshToken(h)
  BY <1>7, <1>c, <1>d, <1>t DEF SaveRefreshToken, At, Knows
<1>8. CASE UpsertUserBridgeRecord(h) \/ UpsertFails(h)
  <2>1. KnownRecord(AfterUpsert(req[h]))
    BY <1>8, <1>t, AfterUpsertKnown DEF UpsertUserBridgeRecord, UpsertFails, At
  <2>2. CASE UpsertUserBridgeRecord(h) BY <1>b, <2>1, <2>2 DEF UpsertUserBridgeRecord
  <2>3. CASE UpsertFails(h)
    <3>1. /\ req' = [req EXCEPT ![h] = AfterUpsert(req[h])]
          /\ errors' = errors + 1 /\ requests' = requests
      BY <2>3 DEF UpsertFails
    <3>2. requests' \in Nat /\ errors' \in Nat BY <1>t, <3>1
    <3> QED BY <2>1, <3>1, <3>2 DEF SlotTaken, Counting
  <2> QED BY <1>8, <2>2, <2>3
<1>9. CASE RefreshRead(h)
  <2>1. PICK k \in Tokens :
          /\ token[k].exists
          /\ Takes(h, "refresh", [NoReq EXCEPT !.pc = "revoke", !.parent = k,
                                               !.acct = token[k].acct])
    BY <1>9 DEF RefreshRead, Refreshable
  <2>2. token[k].acct \in AllAccounts BY <2>1 DEF AccountsInv, TokensBelong
  <2>3. KnownRecord([[NoReq EXCEPT !.pc = "revoke", !.parent = k, !.acct = token[k].acct]
                      EXCEPT !.op = "refresh"])
    BY <1>e, <2>2, NewRecordsKnown
  <2> QED BY <1>a, <2>1, <2>3
<1>10. CASE RefreshRevoke(h)
  BY <1>10, <1>d, <1>t DEF RefreshRevoke, At, Knows
<1>11. CASE Logout(h)
  BY <1>11, <1>a, <1>e, NoReqKnown DEF Logout
<1>12. CASE RegisterRead(h) \/ CreateAdminRead(h) \/ GuestRead(h)
  <2>1. PICK o \in {"register", "createAdmin", "guest"}, a \in AllAccounts,
             e \in Emails \cup {null}, n \in Phones \cup {null}, plan \in BOOLEAN :
          /\ plan => o = "register" /\ a \in ClientAccts
          /\ Registers(h, o, a, e, n, plan)
    <3>1. CASE RegisterRead(h) BY <3>1 DEF RegisterRead
    <3>2. CASE CreateAdminRead(h) BY <1>f, <3>2 DEF CreateAdminRead
    <3>3. CASE GuestRead(h) BY <1>f, <3>3 DEF GuestRead
    <3> QED BY <1>12, <3>1, <3>2, <3>3
  <2>2. KnownRecord([Registration(a, e, n, plan) EXCEPT !.op = o])
    BY <1>e, <2>1, NewRecordsKnown
  <2> QED BY <1>a, <2>1, <2>2 DEF Registers
<1>13. CASE RegisterWrite(h)
  BY <1>13, <1>c, <1>d, <1>t DEF RegisterWrite, AfterInsert, At, Knows
<1>22. CASE SubscriptionWrite(h)
  BY <1>22, <1>c DEF SubscriptionWrite
<1>14. CASE StatusRead(h)
  <2>1. PICK a \in ClientAccts \cup Admins, v \in {"ACTIVE", "SUSPENDED", "INACTIVE"} :
          /\ (v = "SUSPENDED") => a \in ClientAccts
          /\ Takes(h, IF a \in Admins THEN "userStatus" ELSE "suspend",
                   [NoReq EXCEPT !.pc = "status_write", !.acct = a, !.value = v])
    BY <1>14 DEF StatusRead
  <2>2. a \in AllAccounts /\ (a \in Admins => v # "SUSPENDED")
    BY <1>f, <2>1, AccountAssumption DEF AccountAssumption
  <2> QED BY <1>a, <1>e, <2>1, <2>2, NewRecordsKnown
<1>15. CASE StatusWrite(h)
  BY <1>15, <1>c, <1>d, <1>t DEF StatusWrite, At, Knows
<1>16. CASE ToggleRead(h)
  BY <1>16, <1>a, <1>e, <1>f, NewRecordsKnown DEF ToggleRead
<1>17. CASE ToggleWrite(h)
  BY <1>17, <1>c DEF ToggleWrite
<1>18. CASE DeleteAcctRead(h)
  BY <1>18, <1>a, <1>e, <1>f, NewRecordsKnown DEF DeleteAcctRead
<1>19. CASE DeleteAcctWrite(h)
  BY <1>19, <1>c, <1>d, <1>t DEF DeleteAcctWrite, AfterDelete, At, Knows
<1>20. CASE AuditWrite(h)
  BY <1>20, <1>c DEF AuditWrite
<1>21. CASE HandlerFails(h)
  <2>1. requests' = requests /\ errors' = errors + 1 BY <1>21 DEF HandlerFails
  <2>2. req' = [req EXCEPT ![h] = NoReq] BY <1>21 DEF HandlerFails
  <2>3. requests' \in Nat /\ errors' \in Nat BY <1>t, <2>1
  <2> QED BY <2>2, <2>3, NoReqKnown DEF SlotTaken, Counting
<1> QED
  BY <1>1, <1>2, <1>3, <1>4, <1>5, <1>6, <1>7, <1>8, <1>9, <1>10, <1>11, <1>12, <1>13,
     <1>14, <1>15, <1>16, <1>17, <1>18, <1>19, <1>20, <1>21, <1>22
     DEF Handler, LoginStep, ManagementStep

(* Only one of these statements changes a table.                             *)
Writes(h) ==
    \/ RecordFailedAttempt(h) \/ RecordSuccessfulLogin(h) \/ SaveRefreshToken(h)
    \/ UpsertUserBridgeRecord(h) \/ RefreshRevoke(h) \/ Logout(h) \/ RegisterWrite(h)
    \/ StatusWrite(h) \/ ToggleWrite(h) \/ DeleteAcctWrite(h) \/ AuditWrite(h)
    \/ SubscriptionWrite(h)

LEMMA OthersLeaveTheTables ==
    ASSUME NEW h \in Handlers, Handler(h), ~Writes(h)
    PROVE  UNCHANGED tables
BY DEF Handler, LoginStep, ManagementStep, Writes, AdminLogin, ClientLogin, BuyerLogin,
   StaffLogin, UnifiedRequest, UnifiedClient, UnifiedStaff, UnifiedBuyer, RefreshRead,
   RegisterRead, CreateAdminRead, GuestRead, Registers, StatusRead, ToggleRead,
   DeleteAcctRead, UpsertFails, HandlerFails

TablesOK ==
    /\ acct \in [AllAccounts -> AcctRow]
    /\ token \in [Tokens -> TokenRow]
    /\ bridge \subseteq AllAccounts
    /\ ordered \subseteq AllAccounts
    /\ trail \subseteq AllAccounts \X {"ACTIVE", "INACTIVE", "CREATE", "DELETE"}
    /\ misses \in [AllAccounts -> Nat]
    /\ TokensBelong

(* A statement on one row of a table keeps the others' type.                 *)
LEMMA AccountRowStep ==
    ASSUME TablesOK, NEW a \in AllAccounts, NEW row \in AcctRow,
           acct' = [acct EXCEPT ![a] = row], UNCHANGED <<token, bridge, ordered, trail>>,
           misses' \in [AllAccounts -> Nat]
    PROVE  TablesOK'
BY DEF TablesOK, TokensBelong

LEMMA TokenRowStep ==
    ASSUME TablesOK, NEW k \in Tokens, NEW row \in TokenRow,
           row.exists => row.acct \in AllAccounts,
           token' = [token EXCEPT ![k] = row],
           UNCHANGED <<acct, bridge, ordered, trail, misses>>
    PROVE  TablesOK'
BY DEF TablesOK, TokensBelong

(* The columns the counter and the deletion write keep a row of its type.    *)
LEMMA WrittenRows ==
    ASSUME NEW x \in AcctRow
    PROVE  /\ \A n, l \in Nat : [x EXCEPT !.failed = n, !.lock = l] \in AcctRow
           /\ \A b \in BOOLEAN : [x EXCEPT !.deleted = TRUE, !.active = b] \in AcctRow
<1>1. ASSUME NEW n \in Nat, NEW l \in Nat
      PROVE  [x EXCEPT !.failed = n, !.lock = l] \in AcctRow
  BY DEF AcctRow
<1>2. ASSUME NEW b \in BOOLEAN
      PROVE  [x EXCEPT !.deleted = TRUE, !.active = b] \in AcctRow
  BY DEF AcctRow
<1> QED BY <1>1, <1>2

LEMMA TablesStep ==
    ASSUME AccountsInv, NEW h \in Handlers, Handler(h)
    PROVE  TablesOK'
<1>a. TablesOK BY DEF AccountsInv, AccountTypeOK, TablesOK
<1> DEFINE a == req[h].acct
<1>t. /\ req[h] \in ReqRow /\ Knows(req[h])
      /\ \A b \in AllAccounts : acct[b] \in AcctRow
      /\ \A k \in Tokens : token[k] \in TokenRow
      /\ misses \in [AllAccounts -> Nat]
      /\ LockTime \in Nat /\ TokenLife \in Nat
  BY AccountAssumption DEF AccountsInv, AccountTypeOK, AccountAssumption
<1>1. CASE RecordFailedAttempt(h)
  <2> DEFINE n == req[h].failed
             row == [acct[a] EXCEPT !.failed = n, !.lock = IF LocksAt(n) THEN LockTime ELSE @]
  <2>1. a \in AllAccounts /\ n \in Nat
    BY <1>1, <1>t DEF RecordFailedAttempt, At, Knows, ReqRow
  <2>2. row \in AcctRow
    <3>1. acct[a] \in AcctRow /\ acct[a].lock \in Nat BY <1>t, <2>1 DEF AcctRow
    <3>2. (IF LocksAt(n) THEN LockTime ELSE acct[a].lock) \in Nat BY <1>t, <3>1
    <3> QED BY <2>1, <3>1, <3>2, WrittenRows
  <2>3. acct' = [acct EXCEPT ![a] = row] BY <1>1 DEF RecordFailedAttempt
  <2>4. misses' \in [AllAccounts -> Nat] BY <1>1, <1>t, <2>1 DEF RecordFailedAttempt
  <2> HIDE DEF row
  <2> QED BY <1>1, <1>a, <2>1, <2>2, <2>3, <2>4, AccountRowStep DEF RecordFailedAttempt
<1>2. CASE RecordSuccessfulLogin(h)
  <2> DEFINE row == [acct[a] EXCEPT !.failed = 0, !.lock = 0]
  <2>1. a \in AllAccounts BY <1>2, <1>t DEF RecordSuccessfulLogin, At, Knows
  <2>2. row \in AcctRow /\ acct[a] \in AcctRow BY <1>t, <2>1 DEF AcctRow
  <2>3. acct' = [acct EXCEPT ![a] = row] \/ acct' = acct
    BY <1>2 DEF RecordSuccessfulLogin
  <2>5. misses' \in [AllAccounts -> Nat]
    BY <1>2, <1>t, <2>1 DEF RecordSuccessfulLogin
  <2>4. CASE acct' = acct
    BY <1>2, <1>a, <2>4, <2>5 DEF RecordSuccessfulLogin, TablesOK, TokensBelong
  <2> HIDE DEF row
  <2> QED BY <1>2, <1>a, <2>1, <2>2, <2>3, <2>4, <2>5, AccountRowStep DEF RecordSuccessfulLogin
<1>3. CASE SaveRefreshToken(h)
  <2>1. a \in AllAccounts /\ req[h].parent \in Nat
    BY <1>3, <1>t DEF SaveRefreshToken, At, Knows, ReqRow
  <2>2. PICK k \in Tokens :
          token' = [token EXCEPT ![k] = [exists |-> TRUE, acct |-> a, revoked |-> FALSE,
                                         life |-> TokenLife, parent |-> req[h].parent]]
    BY <1>3 DEF SaveRefreshToken
  <2> QED BY <1>3, <1>a, <1>t, <2>1, <2>2, TokenRowStep DEF SaveRefreshToken, TokenRow
<1>4. CASE UpsertUserBridgeRecord(h)
  <2>1. a \in AllAccounts BY <1>4, <1>t DEF UpsertUserBridgeRecord, At, Knows
  <2> QED BY <1>4, <1>a, <2>1 DEF UpsertUserBridgeRecord, TablesOK, TokensBelong
<1>5. CASE RefreshRevoke(h)
  <2> DEFINE k == req[h].parent
             row == [token[k] EXCEPT !.revoked = TRUE]
  <2>1. token' = [token EXCEPT ![k] = row] BY <1>5 DEF RefreshRevoke, Rotated
  <2>2. CASE k \in Tokens
    <3>1. row \in TokenRow /\ (row.exists => row.acct \in AllAccounts)
      BY <1>a, <1>t, <2>2 DEF TokenRow, TablesOK, TokensBelong
    <3> HIDE DEF row
    <3> QED BY <1>5, <1>a, <2>1, <2>2, <3>1, TokenRowStep DEF RefreshRevoke
  <2>3. CASE k \notin Tokens
    <3>1. token' = token BY <1>a, <2>1, <2>3 DEF TablesOK
    <3> QED BY <1>5, <1>a, <3>1 DEF RefreshRevoke, TablesOK, TokensBelong
  <2> QED BY <2>2, <2>3
<1>6. CASE Logout(h)
  <2>1. PICK k \in Tokens : token' = [token EXCEPT ![k].revoked = TRUE]
    BY <1>6 DEF Logout
  <2> DEFINE row == [token[k] EXCEPT !.revoked = TRUE]
  <2>2. row \in TokenRow /\ (row.exists => row.acct \in AllAccounts)
    BY <1>a, <1>t DEF TokenRow, TablesOK, TokensBelong
  <2>3. token' = [token EXCEPT ![k] = row] BY <2>1
  <2> HIDE DEF row
  <2> QED BY <1>6, <1>a, <2>2, <2>3, TokenRowStep DEF Logout
<1>7. CASE RegisterWrite(h)
  <2>1. a \in AllAccounts BY <1>7, <1>t DEF RegisterWrite, At, Knows
  <2>2. NewAccount(req[h]) \in AcctRow
    BY <1>7, <1>t, NewAccountFacts DEF RegisterWrite, At
  <2>3. acct' = [acct EXCEPT ![a] = NewAccount(req[h])] \/ acct' = acct
    BY <1>7 DEF RegisterWrite
  <2>4. CASE acct' = acct
    BY <1>7, <1>a, <2>4 DEF RegisterWrite, TablesOK, TokensBelong
  <2> QED BY <1>7, <1>a, <1>t, <2>1, <2>2, <2>3, <2>4, AccountRowStep DEF RegisterWrite
<1>8. CASE StatusWrite(h) \/ ToggleWrite(h) \/ DeleteAcctWrite(h)
  <2>1. a \in AllAccounts
    BY <1>8, <1>t DEF StatusWrite, ToggleWrite, DeleteAcctWrite, At, Knows
  <2>2. \E row \in AcctRow : acct' = [acct EXCEPT ![a] = row]
    <3>1. CASE StatusWrite(h)
      <4> DEFINE row == [acct[a] EXCEPT !.status = req[h].value]
      <4>1. row \in AcctRow BY <1>t, <2>1, <3>1 DEF AcctRow, StatusWrite, At, Knows
      <4>2. acct' = [acct EXCEPT ![a] = row] BY <3>1 DEF StatusWrite
      <4> HIDE DEF row
      <4> QED BY <4>1, <4>2
    <3>2. CASE ToggleWrite(h)
      <4> DEFINE row == [acct[a] EXCEPT !.active = (req[h].value = "ON")]
      <4>1. row \in AcctRow BY <1>t, <2>1 DEF AcctRow
      <4>2. acct' = [acct EXCEPT ![a] = row] BY <3>2 DEF ToggleWrite
      <4> HIDE DEF row
      <4> QED BY <4>1, <4>2
    <3>3. CASE DeleteAcctWrite(h)
      <4> DEFINE row == [acct[a] EXCEPT !.deleted = TRUE, !.active = @ /\ a \notin StaffAccts]
      <4>1. row \in AcctRow
        <5>1. acct[a] \in AcctRow /\ acct[a].active \in BOOLEAN
          BY <1>t, <2>1 DEF AcctRow
        <5>2. (acct[a].active /\ a \notin StaffAccts) \in BOOLEAN OBVIOUS
        <5> QED BY <5>1, <5>2, WrittenRows
      <4>2. acct' = [acct EXCEPT ![a] = row] BY <3>3 DEF DeleteAcctWrite
      <4> HIDE DEF row
      <4> QED BY <4>1, <4>2
    <3> QED BY <1>8, <3>1, <3>2, <3>3
  <2> QED
    BY <1>8, <1>a, <1>t, <2>1, <2>2, AccountRowStep
       DEF StatusWrite, ToggleWrite, DeleteAcctWrite
<1>9. CASE AuditWrite(h)
  <2>1. <<a, req[h].value>> \in AllAccounts \X {"ACTIVE", "INACTIVE", "CREATE", "DELETE"}
    BY <1>9, <1>t DEF AuditWrite, At, Knows
  <2> QED BY <1>9, <1>a, <2>1 DEF AuditWrite, TablesOK, TokensBelong
<1>10. CASE ~Writes(h)
  BY <1>10, <1>a, OthersLeaveTheTables DEF TablesOK, TokensBelong, tables
<1>11. CASE SubscriptionWrite(h)
  <2>1. a \in AllAccounts BY <1>11, <1>t DEF SubscriptionWrite, At, Knows
  <2> QED BY <1>11, <1>a, <2>1 DEF SubscriptionWrite, TablesOK, TokensBelong
<1> QED BY <1>1, <1>2, <1>3, <1>4, <1>5, <1>6, <1>7, <1>8, <1>9, <1>10, <1>11 DEF Writes

LEMMA TimeIsTyped ==
    ASSUME AccountsInv, TimePasses
    PROVE  AccountsInv'
<1>1. \A n \in Nat : Elapse(n) \in Nat BY DEF Elapse
<1>2. acct' \in [AllAccounts -> AcctRow]
  <2>1. \A a \in AllAccounts : [acct[a] EXCEPT !.lock = Elapse(@)] \in AcctRow
    BY <1>1 DEF AccountsInv, AccountTypeOK, AcctRow
  <2> QED BY <2>1 DEF TimePasses
<1>3. /\ token' \in [Tokens -> TokenRow]
      /\ \A k \in Tokens : token'[k].exists = token[k].exists /\ token'[k].acct = token[k].acct
  <2>1. \A k \in Tokens : [token[k] EXCEPT !.life = Elapse(@)] \in TokenRow
    BY <1>1 DEF AccountsInv, AccountTypeOK, TokenRow
  <2>2. \A k \in Tokens : token[k] \in TokenRow BY DEF AccountsInv, AccountTypeOK
  <2> QED BY <2>1, <2>2 DEF TimePasses, TokenRow
<1> QED
  BY <1>2, <1>3 DEF TimePasses, counts, AccountsInv, AccountTypeOK, TokensBelong

LEMMA AccountsInvStep ==
    ASSUME AccountsInv, [AccountNext]_accountVars
    PROVE  AccountsInv'
<1>1. CASE \E h \in Handlers : Handler(h)
  <2>1. PICK h \in Handlers : Handler(h) BY <1>1
  <2>2. TablesOK' BY <2>1, TablesStep
  <2>3. PICK rec : KnownRecord(rec) /\ req' = [req EXCEPT ![h] = rec]
    BY <2>1, SlotStep DEF SlotTaken
  <2>4. requests' \in Nat /\ errors' \in Nat BY <2>1, SlotStep DEF SlotTaken, Counting
  <2>5. req' \in [Handlers -> ReqRow] /\ \A g \in Handlers : Knows(req'[g])
    BY <2>3 DEF AccountsInv, AccountTypeOK, KnownRecord
  <2> QED BY <2>2, <2>4, <2>5 DEF AccountsInv, AccountTypeOK, TablesOK
<1>2. CASE TimePasses BY <1>2, TimeIsTyped
<1>3. CASE UNCHANGED accountVars
  BY <1>3 DEF accountVars, AccountsInv, AccountTypeOK, TokensBelong
<1> QED BY <1>1, <1>2, <1>3, StepKinds

LEMMA AccountsInvInit == AccountInit => AccountsInv
<1> SUFFICES ASSUME AccountInit PROVE AccountsInv OBVIOUS
<1>1. NoAcct \in AcctRow
      /\ \A e \in Emails : [NoAcct EXCEPT !.exists = TRUE, !.email = e] \in AcctRow
  BY DEF NoAcct, AcctRow
<1>2. acct \in [AllAccounts -> AcctRow] BY <1>1 DEF AccountInit
<1>3. NoToken \in TokenRow /\ ~NoToken.exists BY DEF NoToken, TokenRow
<1>4. token \in [Tokens -> TokenRow] /\ TokensBelong
  BY <1>3 DEF AccountInit, TokensBelong
<1> QED BY <1>2, <1>4, NoReqKnown DEF AccountInit, AccountsInv, AccountTypeOK, KnownRecord

(* Every column and every handler in flight keeps its type.                  *)
THEOREM AccountTypeCorrect == AccountSpec => []AccountTypeOK
<1>1. AccountsInv => AccountTypeOK BY DEF AccountsInv
<1> QED BY <1>1, AccountsInvInit, AccountsInvStep, PTL DEF AccountSpec

-----------------------------------------------------------------------------
(* Refresh tokens *)

(* A token stays what it was: nobody deletes it, makes it valid again or     *)
(* gives it to another account; and a new one is what its handler had in     *)
(* hand.                                                                     *)
Kept(k) ==
    token[k].exists =>
        /\ token'[k].exists
        /\ token'[k].acct = token[k].acct
        /\ token'[k].parent = token[k].parent
        /\ token[k].revoked => token'[k].revoked

Issued(h, j) ==
    /\ At(h, "save_token") /\ ~token[j].exists
    /\ token'[j].exists
    /\ token'[j].parent = req[h].parent /\ token'[j].acct = req[h].acct
    /\ \A k \in Tokens \ {j} : token'[k] = token[k]

LEMMA SaveIssues ==
    ASSUME AccountsInv, NEW h \in Handlers, SaveRefreshToken(h)
    PROVE  \E j \in Tokens : Issued(h, j)
BY DEF SaveRefreshToken, Issued, AccountsInv, AccountTypeOK

LEMMA NothingElseIsIssued ==
    ASSUME AccountsInv, [AccountNext]_accountVars,
           ~\E h \in Handlers : SaveRefreshToken(h)
    PROVE  \A k \in Tokens : Kept(k) /\ (token'[k].exists => token[k].exists)
<1>t. token \in [Tokens -> TokenRow] BY DEF AccountsInv, AccountTypeOK
<1>1. CASE token' = token BY <1>1 DEF Kept
<1>2. CASE TimePasses
  <2>1. \A k \in Tokens : token'[k] = [token[k] EXCEPT !.life = Elapse(@)]
    BY <1>2 DEF TimePasses
  <2> QED BY <1>t, <2>1 DEF Kept, TokenRow
<1>3. CASE \E h \in Handlers : RefreshRevoke(h) \/ Logout(h)
  <2>1. PICK n : token' = [token EXCEPT ![n].revoked = TRUE]
    BY <1>3 DEF RefreshRevoke, Logout, Rotated
  <2>2. \A k \in Tokens : token'[k] = token[k] \/ token'[k] = [token[k] EXCEPT !.revoked = TRUE]
    BY <1>t, <2>1
  <2> QED BY <1>t, <2>2 DEF Kept, TokenRow
<1>4. ASSUME NEW h \in Handlers, Handler(h), ~RefreshRevoke(h), ~Logout(h)
      PROVE  token' = token
  <2>1. ~SaveRefreshToken(h) OBVIOUS
  <2>2. CASE ~Writes(h) BY <1>4, <2>2, OthersLeaveTheTables DEF tables
  <2>3. CASE Writes(h)
    BY <1>4, <2>1, <2>3 DEF Writes, RecordFailedAttempt, RecordSuccessfulLogin,
       UpsertUserBridgeRecord, RegisterWrite, StatusWrite, ToggleWrite, DeleteAcctWrite,
       AuditWrite, SubscriptionWrite
  <2> QED BY <2>2, <2>3
<1> QED BY <1>1, <1>2, <1>3, <1>4, StepKinds DEF accountVars

LEMMA TokensAreKept ==
    ASSUME AccountsInv, [AccountNext]_accountVars
    PROVE  \A k \in Tokens : Kept(k)
<1>1. CASE \E h \in Handlers : SaveRefreshToken(h)
  <2>1. PICK h \in Handlers : \E j \in Tokens : Issued(h, j) BY <1>1, SaveIssues
  <2> QED BY <2>1 DEF Issued, Kept
<1> QED BY <1>1, NothingElseIsIssued

(* A token in hand exists and belongs to the account; and it is dead by the  *)
(* time its successor is to be saved.                                        *)
Session(r) ==
    r.parent # 0 =>
        /\ r.parent \in Tokens
        /\ token[r.parent].exists
        /\ token[r.parent].acct = r.acct
        /\ r.pc = "save_token" => token[r.parent].revoked

ParentsAreTokens ==
    \A k \in Tokens : token[k].exists /\ token[k].parent # 0 => token[k].parent \in Tokens

SessionsInv ==
    /\ AccountsInv
    /\ RotatedTokensAreDead
    /\ ParentsAreTokens
    /\ \A h \in Handlers : Session(req[h])

(* Only a refresh takes a token into its hand, or goes on with one.          *)
LEMMA OnlyRefreshHoldsAToken ==
    ASSUME AccountsInv, NEW h \in Handlers, Handler(h), ~RefreshRead(h), ~RefreshRevoke(h)
    PROVE  req'[h].parent = 0
<1>t. req \in [Handlers -> ReqRow] /\ Knows(req[h]) BY DEF AccountsInv, AccountTypeOK
<1>a. ASSUME NEW o, NEW rec, Takes(h, o, rec), [rec EXCEPT !.op = o].parent = 0
      PROVE  req'[h].parent = 0
  BY <1>a, <1>t DEF Takes
<1>b. ASSUME NEW rec, Move(h, rec), rec.parent = 0 PROVE req'[h].parent = 0
  BY <1>b, <1>t DEF Move
<1>c. ASSUME Answer(h) PROVE req'[h].parent = 0
  BY <1>b, <1>c DEF Answer, NoReq
<1>d. ASSUME NEW pc, Step(h, pc), req[h].parent = 0 PROVE req'[h].parent = 0
  BY <1>b, <1>d, <1>t DEF Step, ReqRow
<1>e. \A a, o : /\ [Accepted(a) EXCEPT !.op = o].parent = 0
                /\ [Mistaken(a) EXCEPT !.op = o].parent = 0
                /\ [NoReq EXCEPT !.op = o].parent = 0
  BY DEF Accepted, Mistaken, NoReq
<1>n. NoReq.parent = 0 BY DEF NoReq
<1>f. req[h].pc \notin {"revoke", "save_token"} => req[h].parent = 0 BY <1>t DEF Knows
<1>1. CASE AdminLogin(h) \/ ClientLogin(h) \/ UnifiedClient(h) \/ BuyerLogin(h) \/ StaffLogin(h)
  BY <1>1, <1>a, <1>e DEF AdminLogin, ClientLogin, UnifiedClient, BuyerLogin, StaffLogin
<1>2. CASE \/ UnifiedRequest(h) \/ RegisterRead(h) \/ CreateAdminRead(h) \/ GuestRead(h)
           \/ StatusRead(h) \/ ToggleRead(h) \/ DeleteAcctRead(h) \/ Logout(h)
  <2>4. CASE UnifiedRequest(h)
    <3>1. PICK id : Takes(h, "unified", [NoReq EXCEPT !.pc = "find_staff", !.id = id])
      BY <2>4 DEF UnifiedRequest
    <3>2. [[NoReq EXCEPT !.pc = "find_staff", !.id = id] EXCEPT !.op = "unified"].parent = 0
      BY DEF NoReq
    <3> QED BY <1>a, <3>1, <3>2
  <2>5. CASE RegisterRead(h) \/ CreateAdminRead(h) \/ GuestRead(h)
    <3>1. PICK o, a, e, n, plan : Takes(h, o, Registration(a, e, n, plan))
      BY <2>5 DEF RegisterRead, CreateAdminRead, GuestRead, Registers
    <3>2. [Registration(a, e, n, plan) EXCEPT !.op = o].parent = 0
      BY DEF Registration, NoReq
    <3> QED BY <1>a, <3>1, <3>2
  <2>6. CASE StatusRead(h) \/ ToggleRead(h) \/ DeleteAcctRead(h)
    <3>1. PICK a, v, pc, o :
            Takes(h, o, [NoReq EXCEPT !.pc = pc, !.acct = a, !.value = v])
      BY <2>6 DEF StatusRead, ToggleRead, DeleteAcctRead
    <3>2. [[NoReq EXCEPT !.pc = pc, !.acct = a, !.value = v] EXCEPT !.op = o].parent = 0
      BY DEF NoReq
    <3> QED BY <1>a, <3>1, <3>2
  <2>9. CASE Logout(h) BY <1>a, <1>e, <2>9 DEF Logout
  <2> QED BY <1>2, <2>4, <2>5, <2>6, <2>9
<1>3. CASE UnifiedStaff(h) \/ UnifiedBuyer(h)
  <2>1. req[h].parent = 0 BY <1>3, <1>f DEF UnifiedStaff, UnifiedBuyer, At
  <2>2. ASSUME NEW a, Judged(h, a) PROVE req'[h].parent = 0
    BY <1>b, <1>c, <2>2 DEF Judged, Accepted, Mistaken, NoReq
  <2> QED BY <1>3, <1>c, <1>d, <2>1, <2>2 DEF UnifiedStaff, UnifiedBuyer
<1>4. CASE RecordFailedAttempt(h) \/ ToggleWrite(h) \/ AuditWrite(h)
  BY <1>4, <1>c DEF RecordFailedAttempt, ToggleWrite, AuditWrite
<1>5. CASE RecordSuccessfulLogin(h)
  BY <1>5, <1>d, <1>f DEF RecordSuccessfulLogin, At
<1>6. CASE UpsertUserBridgeRecord(h) \/ UpsertFails(h)
  <2>1. AfterUpsert(req[h]).parent = 0
    BY <1>6, <1>t, AfterUpsertKnown DEF UpsertUserBridgeRecord, UpsertFails, At
  <2>2. CASE UpsertUserBridgeRecord(h) BY <1>b, <2>1, <2>2 DEF UpsertUserBridgeRecord
  <2>3. CASE UpsertFails(h) BY <1>t, <2>1, <2>3 DEF UpsertFails
  <2> QED BY <1>6, <2>2, <2>3
<1>7. CASE SaveRefreshToken(h)
  <2>1. CASE req[h].op = "unified"
    <3>1. req[h].parent = 0 BY <1>t, <2>1 DEF Knows
    <3> QED BY <1>7, <1>d, <2>1, <3>1 DEF SaveRefreshToken
  <2>2. CASE req[h].op # "unified" BY <1>7, <1>c, <2>2 DEF SaveRefreshToken
  <2> QED BY <2>1, <2>2
<1>8. CASE RegisterWrite(h) BY <1>8, <1>c, <1>d, <1>f DEF RegisterWrite, AfterInsert, At
<1>12. CASE SubscriptionWrite(h) BY <1>12, <1>c DEF SubscriptionWrite
<1>9. CASE StatusWrite(h) BY <1>9, <1>c, <1>d, <1>f DEF StatusWrite, At
<1>10. CASE DeleteAcctWrite(h) BY <1>10, <1>c, <1>d, <1>f DEF DeleteAcctWrite, AfterDelete, At
<1>11. CASE HandlerFails(h) BY <1>11, <1>t, <1>n DEF HandlerFails
<1> QED
  BY <1>1, <1>2, <1>3, <1>4, <1>5, <1>6, <1>7, <1>8, <1>9, <1>10, <1>11, <1>12
     DEF Handler, LoginStep, ManagementStep

(* What a refresh puts into its slot. *)
LEMMA RefreshSteps ==
    ASSUME AccountsInv, NEW h \in Handlers
    PROVE  /\ RefreshRead(h) =>
                \E k \in Tokens : /\ token[k].exists /\ ~token[k].revoked
                                  /\ req[h].pc = "idle"
                                  /\ req'[h].parent = k /\ req'[h].pc = "revoke"
                                  /\ req'[h].acct = token[k].acct
           /\ RefreshRevoke(h) =>
                /\ req[h].pc = "revoke" /\ req'[h].pc = "save_token"
                /\ req'[h].parent = req[h].parent /\ req'[h].acct = req[h].acct
                /\ req[h].parent \in Tokens => token'[req[h].parent].revoked
<1>t. /\ req \in [Handlers -> ReqRow] /\ token \in [Tokens -> TokenRow]
  BY DEF AccountsInv, AccountTypeOK
<1>1. ASSUME RefreshRead(h)
      PROVE  \E k \in Tokens : /\ token[k].exists /\ ~token[k].revoked
                               /\ req[h].pc = "idle"
                               /\ req'[h].parent = k /\ req'[h].pc = "revoke"
                               /\ req'[h].acct = token[k].acct
  BY <1>1, <1>t DEF RefreshRead, Refreshable, Takes, At, NoReq
<1>2. ASSUME RefreshRevoke(h)
      PROVE  /\ req[h].pc = "revoke" /\ req'[h].pc = "save_token"
             /\ req'[h].parent = req[h].parent /\ req'[h].acct = req[h].acct
             /\ req[h].parent \in Tokens => token'[req[h].parent].revoked
  <2>1. req[h].pc = "revoke" /\ req' = [req EXCEPT ![h] = [req[h] EXCEPT !.pc = "save_token"]]
    BY <1>2 DEF RefreshRevoke, Step, Move, At
  <2>2. req'[h] = [req[h] EXCEPT !.pc = "save_token"] /\ req[h] \in ReqRow BY <1>t, <2>1
  <2>3. req'[h].pc = "save_token" /\ req'[h].parent = req[h].parent /\ req'[h].acct = req[h].acct
    BY <2>2 DEF ReqRow
  <2>4. req[h].parent \in Tokens => token'[req[h].parent].revoked
    BY <1>2, <1>t DEF RefreshRevoke, Rotated, TokenRow
  <2> QED BY <2>1, <2>3, <2>4
<1> QED BY <1>1, <1>2

LEMMA OthersKeepTheirSlots ==
    ASSUME AccountsInv, NEW h \in Handlers, Handler(h), NEW g \in Handlers \ {h}
    PROVE  req'[g] = req[g]
<1>1. PICK rec : req' = [req EXCEPT ![h] = rec] BY SlotStep DEF SlotTaken
<1> QED BY <1>1 DEF AccountsInv, AccountTypeOK

LEMMA SessionStep ==
    ASSUME SessionsInv, [AccountNext]_accountVars, NEW g \in Handlers
    PROVE  Session(req[g])'
<1>i. AccountsInv /\ Session(req[g]) BY DEF SessionsInv
<1>k. \A k \in Tokens : Kept(k) BY <1>i, TokensAreKept
<1>1. CASE req'[g] = req[g] BY <1>1, <1>i, <1>k DEF Session, Kept
<1>2. ASSUME NEW h \in Handlers, Handler(h), h = g
      PROVE  Session(req[g])'
  <2>1. CASE RefreshRead(g)
    <3>1. PICK k \in Tokens : /\ token[k].exists
                              /\ req'[g].parent = k /\ req'[g].pc = "revoke"
                              /\ req'[g].acct = token[k].acct
      BY <1>i, <2>1, RefreshSteps
    <3> QED BY <1>k, <3>1 DEF Session, Kept
  <2>2. CASE RefreshRevoke(g)
    <3>1. /\ req'[g].parent = req[g].parent /\ req'[g].acct = req[g].acct
          /\ req[g].parent \in Tokens => token'[req[g].parent].revoked
      BY <1>i, <2>2, RefreshSteps
    <3> QED BY <1>i, <1>k, <3>1 DEF Session, Kept
  <2>3. CASE ~RefreshRead(g) /\ ~RefreshRevoke(g)
    BY <1>2, <1>i, <2>3, OnlyRefreshHoldsAToken DEF Session
  <2> QED BY <2>1, <2>2, <2>3
<1>3. CASE TimePasses BY <1>1, <1>3 DEF TimePasses
<1>4. CASE UNCHANGED accountVars BY <1>1, <1>4 DEF accountVars
<1>5. CASE \E h \in Handlers : Handler(h)
  BY <1>1, <1>2, <1>5, <1>i, OthersKeepTheirSlots
<1> QED BY <1>3, <1>4, <1>5, StepKinds

LEMMA SessionsInvStep ==
    ASSUME SessionsInv, [AccountNext]_accountVars
    PROVE  SessionsInv'
<1>i. AccountsInv /\ RotatedTokensAreDead /\ ParentsAreTokens BY DEF SessionsInv
<1>k. \A k \in Tokens : Kept(k) BY <1>i, TokensAreKept
<1> DEFINE Dead(k) == token[k].exists /\ token[k].parent # 0 =>
                        /\ token[k].parent \in Tokens
                        /\ token[token[k].parent].exists
                        /\ token[token[k].parent].revoked
                        /\ token[token[k].parent].acct = token[k].acct
<1>d. \A k \in Tokens : Dead(k) BY <1>i DEF RotatedTokensAreDead, ParentsAreTokens
<1>o. ASSUME NEW k \in Tokens, token[k].exists PROVE Dead(k)'
  BY <1>o, <1>d, <1>k DEF Kept
<1>n. ASSUME NEW k \in Tokens, token'[k].exists, ~token[k].exists PROVE Dead(k)'
  <2>1. PICK h \in Handlers, j \in Tokens : Issued(h, j)
    BY <1>i, <1>n, NothingElseIsIssued, SaveIssues
  <2>2. j = k BY <1>n, <2>1 DEF Issued
  <2>3. Session(req[h]) BY DEF SessionsInv
  <2> QED BY <1>k, <2>1, <2>2, <2>3 DEF Issued, At, Session, Kept
<1>1. \A k \in Tokens : Dead(k)' BY <1>o, <1>n
<1>2. RotatedTokensAreDead' /\ ParentsAreTokens'
  BY <1>1 DEF RotatedTokensAreDead, ParentsAreTokens
<1>3. \A g \in Handlers : Session(req[g])' BY SessionStep
<1>4. AccountsInv' BY <1>i, AccountsInvStep
<1> QED BY <1>2, <1>3, <1>4 DEF SessionsInv

LEMMA SessionsInvInit == AccountInit => SessionsInv
<1> SUFFICES ASSUME AccountInit PROVE SessionsInv OBVIOUS
<1>1. \A k \in Tokens : ~token[k].exists BY DEF AccountInit, NoToken
<1>2. \A h \in Handlers : Session(req[h]) BY DEF AccountInit, Session, NoReq
<1> QED
  BY <1>1, <1>2, AccountsInvInit DEF SessionsInv, RotatedTokensAreDead, ParentsAreTokens

(* Two tokens of one session are never both good for a refresh: whoever      *)
(* overlaps or fails, a token with a successor is dead.                      *)
THEOREM RotationIsSafe == AccountSpec => []RotatedTokensAreDead
<1>1. SessionsInv => RotatedTokensAreDead BY DEF SessionsInv
<1> QED BY <1>1, SessionsInvInit, SessionsInvStep, PTL DEF AccountSpec

-----------------------------------------------------------------------------
(* How often a token is exchanged *)

Successors(k) == {j \in Tokens : token[j].exists /\ token[j].parent = k}
Exchanging(k) == {h \in Handlers : req[h].parent = k}

(* The successors a token has and those it will get from the handlers that   *)
(* have it in hand are no more than there are handlers: before the first is  *)
(* issued the token is dead, and nobody new takes it up.                     *)
RotationInv ==
    /\ SessionsInv
    /\ \A k \in Tokens :
        Cardinality(Successors(k)) + Cardinality(Exchanging(k)) <= Cardinality(Handlers)

LEMMA FiniteRows ==
    /\ IsFiniteSet(Handlers) /\ IsFiniteSet(Tokens)
    /\ \A k \in Tokens : k # 0 /\ IsFiniteSet(Successors(k)) /\ IsFiniteSet(Exchanging(k))
<1>1. IsFiniteSet(Handlers) BY AccountAssumption DEF AccountAssumption
<1>2. 1 \in Int /\ MaxTokens \in Int BY AccountAssumption DEF AccountAssumption
<1>3. IsFiniteSet(1 .. MaxTokens) BY <1>2, FS_Interval
<1>4. \A k \in Tokens : k # 0 BY <1>2 DEF Tokens
<1>5. \A k \in Tokens : Successors(k) \subseteq Tokens /\ Exchanging(k) \subseteq Handlers
  BY DEF Successors, Exchanging
<1> QED BY <1>1, <1>3, <1>4, <1>5, FS_Subset DEF Tokens

LEMMA SaveKeepsTheSum ==
    ASSUME RotationInv, NEW h \in Handlers, NEW j \in Tokens, SaveRefreshToken(h),
           Issued(h, j), NEW k \in Tokens
    PROVE  Cardinality(Successors(k))' + Cardinality(Exchanging(k))' <= Cardinality(Handlers)
<1>i. AccountsInv /\ Session(req[h]) BY DEF RotationInv, SessionsInv
<1>1. req'[h].parent = 0
  <2>1. ~RefreshRead(h) /\ ~RefreshRevoke(h)
    BY DEF SaveRefreshToken, RefreshRead, RefreshRevoke, Takes, At
  <2>2. Handler(h) BY DEF Handler, LoginStep
  <2> QED BY <1>i, <2>1, <2>2, OnlyRefreshHoldsAToken
<1>2. \A g \in Handlers \ {h} : req'[g] = req[g]
  <2>1. Handler(h) BY DEF Handler, LoginStep
  <2> QED BY <1>i, <2>1, OthersKeepTheirSlots
<1>3. k # 0 BY FiniteRows
<1>4. CASE req[h].parent = k
  <2>1. Exchanging(k)' = Exchanging(k) \ {h} /\ h \in Exchanging(k)
    BY <1>1, <1>2, <1>3, <1>4 DEF Exchanging
  <2>2. Successors(k)' = Successors(k) \cup {j} /\ j \notin Successors(k)
    BY <1>4 DEF Successors, Issued
  <2>3. Cardinality(Exchanging(k)') = Cardinality(Exchanging(k)) - 1
    BY <2>1, FiniteRows, FS_RemoveElement
  <2>4. Cardinality(Successors(k)') = Cardinality(Successors(k)) + 1
    BY <2>2, FiniteRows, FS_AddElement
  <2>5. Cardinality(Exchanging(k)) \in Nat /\ Cardinality(Successors(k)) \in Nat
    BY FiniteRows, FS_CardinalityType
  <2> QED BY <2>3, <2>4, <2>5 DEF RotationInv
<1>5. CASE req[h].parent # k
  <2>1. Exchanging(k)' = Exchanging(k) BY <1>1, <1>2, <1>3, <1>5 DEF Exchanging
  <2>2. Successors(k)' = Successors(k) BY <1>5 DEF Successors, Issued
  <2> QED BY <2>1, <2>2 DEF RotationInv
<1> QED BY <1>4, <1>5

LEMMA RotationInvStep ==
    ASSUME RotationInv, [AccountNext]_accountVars
    PROVE  RotationInv'
<1>i. AccountsInv /\ SessionsInv /\ RotatedTokensAreDead
  BY DEF RotationInv, SessionsInv
<1>1. SessionsInv' BY <1>i, SessionsInvStep
<1>2. ASSUME NEW k \in Tokens
      PROVE  Cardinality(Successors(k))' + Cardinality(Exchanging(k))' <= Cardinality(Handlers)
  <2>1. CASE \E h \in Handlers : SaveRefreshToken(h)
    <3>1. PICK h \in Handlers, j \in Tokens : SaveRefreshToken(h) /\ Issued(h, j)
      BY <1>i, <2>1, SaveIssues
    <3> QED BY <3>1, SaveKeepsTheSum
  <2>2. CASE ~\E h \in Handlers : SaveRefreshToken(h)
    <3>1. Successors(k)' = Successors(k)
      BY <1>i, <2>2, NothingElseIsIssued DEF Successors, Kept
    <3>2. CASE Exchanging(k)' \subseteq Exchanging(k)
      <4>1. Cardinality(Exchanging(k)') <= Cardinality(Exchanging(k))
        BY <3>2, FiniteRows, FS_Subset
      <4>2. /\ Cardinality(Exchanging(k)) \in Nat /\ Cardinality(Successors(k)) \in Nat
            /\ Cardinality(Handlers) \in Nat /\ Cardinality(Exchanging(k)') \in Nat
        BY <3>2, FiniteRows, FS_Subset, FS_CardinalityType
      <4> QED BY <3>1, <4>1, <4>2 DEF RotationInv
    <3>3. CASE ~(Exchanging(k)' \subseteq Exchanging(k))
      <4>1. PICK g \in Handlers : req'[g].parent = k /\ req[g].parent # k
        BY <3>3 DEF Exchanging
      <4>2. k # 0 BY FiniteRows
      <4>3. PICK h \in Handlers : Handler(h)
        BY <4>1, StepKinds DEF accountVars, TimePasses
      <4>4. h = g BY <1>i, <4>1, <4>3, OthersKeepTheirSlots
      <4>5. RefreshRead(g)
        BY <1>i, <4>1, <4>2, <4>3, <4>4, OnlyRefreshHoldsAToken, RefreshSteps
      <4>6. ~token[k].revoked BY <1>i, <4>1, <4>5, RefreshSteps
      <4>7. Successors(k) = {} BY <1>i, <4>2, <4>6 DEF Successors, RotatedTokensAreDead
      <4>8. Cardinality(Successors(k)') = 0 BY <3>1, <4>7, FS_EmptySet
      <4>9. Exchanging(k)' \subseteq Handlers BY DEF Exchanging
      <4>10. /\ Cardinality(Exchanging(k)') <= Cardinality(Handlers)
             /\ Cardinality(Exchanging(k)') \in Nat
        BY <4>9, FiniteRows, FS_Subset, FS_CardinalityType
      <4> QED BY <4>8, <4>10
    <3> QED BY <3>2, <3>3
  <2> QED BY <2>1, <2>2
<1> QED BY <1>1, <1>2 DEF RotationInv

LEMMA RotationInvInit == AccountInit => RotationInv
<1> SUFFICES ASSUME AccountInit PROVE RotationInv OBVIOUS
<1>1. SessionsInv BY SessionsInvInit
<1>2. ASSUME NEW k \in Tokens
      PROVE  Cardinality(Successors(k)) + Cardinality(Exchanging(k)) <= Cardinality(Handlers)
  <2>1. Successors(k) = {} BY DEF Successors, AccountInit, NoToken
  <2>2. Exchanging(k) = {} BY FiniteRows DEF Exchanging, AccountInit, NoReq
  <2>3. Cardinality(Handlers) \in Nat BY FiniteRows, FS_CardinalityType
  <2> QED BY <2>1, <2>2, <2>3, FS_EmptySet
<1> QED BY <1>1, <1>2 DEF RotationInv

(* A token is exchanged no more often than there are requests at once.       *)
THEOREM ExchangesAreBounded == AccountSpec => []RotationIsBounded
<1>1. RotationInv => RotationIsBounded
  <2> SUFFICES ASSUME RotationInv, NEW k \in Tokens
               PROVE  Cardinality(Successors(k)) <= Cardinality(Handlers)
    BY DEF RotationIsBounded, Successors
  <2>1. /\ Cardinality(Successors(k)) \in Nat /\ Cardinality(Exchanging(k)) \in Nat
        /\ Cardinality(Handlers) \in Nat
    BY FiniteRows, FS_CardinalityType
  <2> QED BY <2>1 DEF RotationInv
<1> QED BY <1>1, RotationInvInit, RotationInvStep, PTL DEF AccountSpec

-----------------------------------------------------------------------------
(* E-mails *)

LEMMA TablesHoldTheirRows == \A a \in AllAccounts : a \in Table(a)
BY DEF Table, AllAccounts

(* Only an insertion gives an e-mail to a row, and only one that is free.    *)
LEMMA EmailsAreKept ==
    ASSUME AccountsInv, [AccountNext]_accountVars, NEW a \in AllAccounts
    PROVE  \/ acct'[a].exists = acct[a].exists /\ acct'[a].email = acct[a].email
           \/ /\ acct'[a].exists /\ ~acct[a].exists
              /\ EmailFree(a, acct'[a].email)
              /\ \A b \in AllAccounts \ {a} : acct'[b] = acct[b]
<1>t. acct \in [AllAccounts -> AcctRow] BY DEF AccountsInv, AccountTypeOK
<1> DEFINE Same == acct'[a].exists = acct[a].exists /\ acct'[a].email = acct[a].email
<1>1. CASE TimePasses BY <1>1, <1>t DEF TimePasses, AcctRow
<1>2. CASE acct' = acct BY <1>2
<1>3. ASSUME NEW h \in Handlers, RegisterWrite(h)
      PROVE  \/ Same
             \/ /\ acct'[a].exists /\ ~acct[a].exists
                /\ EmailFree(a, acct'[a].email)
                /\ \A b \in AllAccounts \ {a} : acct'[b] = acct[b]
  <2> DEFINE row == NewAccount(req[h])
  <2>1. \/ acct' = acct
        \/ Insertable(req[h].acct, req[h].id) /\ acct' = [acct EXCEPT ![req[h].acct] = row]
    BY <1>3 DEF RegisterWrite
  <2>2. row.exists /\ row.email = req[h].id BY NewAccountFacts
  <2> HIDE DEF row
  <2> QED BY <1>t, <2>1, <2>2 DEF Insertable
<1>4. ASSUME NEW h \in Handlers, Handler(h), ~RegisterWrite(h)
      PROVE  Same
  <2>1. CASE ~Writes(h) BY <1>2, <1>4, <2>1, OthersLeaveTheTables DEF tables
  <2>2. CASE \/ SaveRefreshToken(h) \/ UpsertUserBridgeRecord(h) \/ RefreshRevoke(h)
             \/ Logout(h) \/ AuditWrite(h) \/ SubscriptionWrite(h)
    BY <1>2, <2>2 DEF SaveRefreshToken, UpsertUserBridgeRecord, RefreshRevoke, Logout,
       AuditWrite, SubscriptionWrite
  <2>3. CASE RecordFailedAttempt(h) BY <1>t, <2>3 DEF RecordFailedAttempt, AcctRow
  <2>4. CASE RecordSuccessfulLogin(h) BY <1>t, <2>4 DEF RecordSuccessfulLogin, AcctRow
  <2>5. CASE StatusWrite(h) BY <1>t, <2>5 DEF StatusWrite, AcctRow
  <2>6. CASE ToggleWrite(h) BY <1>t, <2>6 DEF ToggleWrite, AcctRow
  <2>7. CASE DeleteAcctWrite(h) BY <1>t, <2>7 DEF DeleteAcctWrite, AcctRow
  <2> QED BY <1>4, <2>1, <2>2, <2>3, <2>4, <2>5, <2>6, <2>7 DEF Writes
<1> QED BY <1>1, <1>2, <1>3, <1>4, StepKinds DEF accountVars

LEMMA EmailStep ==
    ASSUME AccountsInv, OneAccountPerEmail, [AccountNext]_accountVars
    PROVE  OneAccountPerEmail'
<1> SUFFICES ASSUME NEW a \in AllAccounts, NEW b \in AllAccounts,
                    acct'[a].exists, acct'[b].exists, a # b, Table(a) = Table(b),
                    acct'[a].email # null
             PROVE  acct'[a].email # acct'[b].email
  BY DEF OneAccountPerEmail, Table
<1>1. a \in Table(b) /\ b \in Table(a) BY TablesHoldTheirRows
<1>2. CASE ~acct[a].exists BY <1>1, <1>2, EmailsAreKept DEF EmailFree
<1>3. CASE ~acct[b].exists BY <1>1, <1>3, EmailsAreKept DEF EmailFree
<1>4. CASE acct[a].exists /\ acct[b].exists BY <1>4, EmailsAreKept DEF OneAccountPerEmail
<1> QED BY <1>2, <1>3, <1>4

LEMMA EmailInit == AccountInit => OneAccountPerEmail
<1> SUFFICES ASSUME AccountInit, NEW a \in AllAccounts, NEW b \in AllAccounts,
                    acct[a].exists, acct[b].exists, a # b, Table(a) = Table(b)
             PROVE  FALSE
  BY DEF OneAccountPerEmail
<1>1. a \in Seeded /\ b \in Seeded
  <2>1. PICK mail \in [Seeded -> Emails] :
          acct = [c \in AllAccounts |-> IF c \in Seeded
                    THEN [NoAcct EXCEPT !.exists = TRUE, !.email = mail[c]] ELSE NoAcct]
    BY DEF AccountInit
  <2>2. \A c \in AllAccounts \ Seeded : acct[c] = NoAcct BY <2>1
  <2>3. ~NoAcct.exists BY DEF NoAcct
  <2> QED BY <2>2, <2>3
<1>2. a \in Table(a) /\ b \in Table(a) BY TablesHoldTheirRows
<1>3. a \in Admins \cup ClientAccts BY <1>1, AccountAssumption DEF AccountAssumption, Counted
<1>4. Table(a) \in {Admins, ClientAccts}
  BY <1>3, AccountAssumption DEF AccountAssumption, Table
<1> QED BY <1>1, <1>2, <1>4, AccountAssumption DEF AccountAssumption

(* No table has two accounts of one e-mail: the unique index decides at the  *)
(* insertion, whatever was looked up before.                                 *)
THEOREM EmailsAreUnique == AccountSpec => []OneAccountPerEmail
<1>1. AccountsInv /\ OneAccountPerEmail /\ [AccountNext]_accountVars
        => AccountsInv' /\ OneAccountPerEmail'
  BY AccountsInvStep, EmailStep
<1>2. AccountInit => AccountsInv /\ OneAccountPerEmail BY AccountsInvInit, EmailInit
<1> QED BY <1>1, <1>2, PTL DEF AccountSpec

-----------------------------------------------------------------------------
(* The second write *)

(* No audit row, and no handler about to write one, tells of what did not    *)
(* happen; what is deleted, or about to be, exists.                          *)
Tells(a, v) == (v = "CREATE" => acct[a].exists) /\ (v = "DELETE" => acct[a].deleted)
Announces(r) ==
    /\ r.pc = "delete_write" => acct[r.acct].exists
    /\ r.pc = "audit_write" => Tells(r.acct, r.value)

LivesInv ==
    /\ AccountsInv
    /\ \A a \in AllAccounts : acct[a].deleted => acct[a].exists
    /\ \A h \in Handlers : Announces(req[h])
    /\ \A a \in AllAccounts, v \in {"CREATE", "DELETE"} : <<a, v>> \in trail => Tells(a, v)

(* What is written, or will be by a handler at its second write.             *)
Auditing(a, v) == \E h \in Handlers :
    req[h].pc = "audit_write" /\ req[h].acct = a /\ req[h].value = v
Audited(a, v) == <<a, v>> \in trail \/ Auditing(a, v)
Bridged(a) == a \in bridge \/ \E h \in Handlers : req[h].pc = "bridge_upsert" /\ req[h].acct = a
Ordering(h, a) ==
    /\ req[h].pc \in {"bridge_upsert", "subscribe"} /\ req[h].op = "register"
    /\ req[h].plan /\ req[h].acct = a
Ordered(a) == a \in ordered \/ \E h \in Handlers : Ordering(h, a)

SecondWrites ==
    errors = 0 =>
        \A a \in AllAccounts :
            /\ acct[a].by = "register" =>
                 IF a \in Admins THEN Audited(a, "CREATE") ELSE Bridged(a)
            /\ a \in Admins /\ acct[a].deleted => Audited(a, "DELETE")
            /\ acct[a].plan => Ordered(a)

(* Rows appear by RegisterWrite, as its handler has them, and are marked by  *)
(* DeleteAcctWrite; nothing brings one back.                                 *)
Lives(a) ==
    /\ acct[a].exists => acct'[a].exists
    /\ acct[a].deleted /\ acct[a].exists => acct'[a].deleted

SameOrigin(a) ==
    /\ acct'[a].exists = acct[a].exists
    /\ acct'[a].by = acct[a].by /\ acct'[a].plan = acct[a].plan

Inserted(h, a) ==
    /\ RegisterWrite(h) /\ req[h].acct = a /\ Insertable(a, req[h].id)
    /\ acct'[a].exists /\ ~acct'[a].deleted
    /\ acct'[a].by = req[h].op /\ acct'[a].plan = req[h].plan

LEMMA LivesAreKept ==
    ASSUME AccountsInv, [AccountNext]_accountVars, NEW a \in AllAccounts
    PROVE  /\ Lives(a)
           /\ SameOrigin(a) \/ \E h \in Handlers : Inserted(h, a)
           /\ acct'[a].deleted /\ ~acct[a].deleted =>
                \E h \in Handlers : DeleteAcctWrite(h) /\ req[h].acct = a
<1>t. acct \in [AllAccounts -> AcctRow] BY DEF AccountsInv, AccountTypeOK
<1> DEFINE Same == SameOrigin(a) /\ acct'[a].deleted = acct[a].deleted
<1>0. CASE Same BY <1>0 DEF Lives, SameOrigin
<1>1. CASE TimePasses
  <2>1. Same BY <1>1, <1>t DEF TimePasses, AcctRow, SameOrigin
  <2> QED BY <1>0, <2>1
<1>2. CASE acct' = acct BY <1>0, <1>2 DEF SameOrigin
<1>3. ASSUME NEW h \in Handlers, RegisterWrite(h)
      PROVE  Same \/ (~acct[a].exists /\ Inserted(h, a))
  <2> DEFINE row == NewAccount(req[h])
  <2>1. \/ acct' = acct
        \/ Insertable(req[h].acct, req[h].id) /\ acct' = [acct EXCEPT ![req[h].acct] = row]
    BY <1>3 DEF RegisterWrite
  <2>2. row.exists /\ ~row.deleted /\ row.by = req[h].op /\ row.plan = req[h].plan
    BY NewAccountFacts
  <2> HIDE DEF row
  <2>3. CASE acct'[a] = acct[a] BY <2>3 DEF SameOrigin
  <2>4. CASE acct'[a] # acct[a]
    <3>1. req[h].acct = a /\ Insertable(a, req[h].id) /\ acct'[a] = row
      BY <1>t, <2>1, <2>4
    <3> QED BY <1>3, <2>2, <3>1 DEF Insertable, Inserted
  <2> QED BY <2>3, <2>4
<1>4. ASSUME NEW h \in Handlers, DeleteAcctWrite(h)
      PROVE  \/ Same
             \/ req[h].acct = a /\ SameOrigin(a) /\ acct'[a].deleted
  <2> DEFINE x == req[h].acct
             Gone(on) == [acct[x] EXCEPT !.deleted = TRUE, !.active = on]
  <2>1. PICK on \in BOOLEAN : acct' = [acct EXCEPT ![x] = Gone(on)]
    <3>1. acct' = [acct EXCEPT ![x] = Gone(acct[x].active /\ x \notin StaffAccts)]
      BY <1>4 DEF DeleteAcctWrite
    <3>2. (acct[x].active /\ x \notin StaffAccts) \in BOOLEAN OBVIOUS
    <3> QED BY <3>1, <3>2
  <2>2. x \in AllAccounts => /\ Gone(on).exists = acct[x].exists /\ Gone(on).deleted
                             /\ Gone(on).by = acct[x].by /\ Gone(on).plan = acct[x].plan
    BY <1>t DEF AcctRow
  <2> HIDE DEF Gone
  <2>3. CASE x = a
    <3>1. acct'[a] = Gone(on) BY <1>t, <2>1, <2>3
    <3> QED BY <2>2, <2>3, <3>1 DEF SameOrigin
  <2>4. CASE x # a
    <3>1. acct'[a] = acct[a] BY <1>t, <2>1, <2>4
    <3> QED BY <3>1 DEF SameOrigin
  <2> QED BY <2>3, <2>4
<1>5. ASSUME NEW h \in Handlers, Handler(h), ~RegisterWrite(h), ~DeleteAcctWrite(h)
      PROVE  Same
  <2>1. CASE ~Writes(h) BY <1>5, <2>1, OthersLeaveTheTables DEF tables, SameOrigin
  <2>2. CASE \/ SaveRefreshToken(h) \/ UpsertUserBridgeRecord(h) \/ RefreshRevoke(h)
             \/ Logout(h) \/ AuditWrite(h) \/ SubscriptionWrite(h)
    BY <2>2 DEF SaveRefreshToken, UpsertUserBridgeRecord, RefreshRevoke, Logout, AuditWrite,
       SubscriptionWrite, SameOrigin
  <2>3. CASE RecordFailedAttempt(h)
    BY <1>t, <2>3 DEF RecordFailedAttempt, AcctRow, SameOrigin
  <2>4. CASE RecordSuccessfulLogin(h)
    BY <1>t, <2>4 DEF RecordSuccessfulLogin, AcctRow, SameOrigin
  <2>5. CASE StatusWrite(h) BY <1>t, <2>5 DEF StatusWrite, AcctRow, SameOrigin
  <2>6. CASE ToggleWrite(h) BY <1>t, <2>6 DEF ToggleWrite, AcctRow, SameOrigin
  <2> QED BY <1>5, <2>1, <2>2, <2>3, <2>4, <2>5, <2>6 DEF Writes
<1> HIDE DEF Same
<1>s. Same => SameOrigin(a) /\ acct'[a].deleted = acct[a].deleted BY DEF Same
<1>6. CASE \E h \in Handlers : RegisterWrite(h)
  <2>1. PICK h \in Handlers : RegisterWrite(h) BY <1>6
  <2>2. CASE Same BY <1>0, <2>2
  <2>3. CASE ~acct[a].exists /\ Inserted(h, a) BY <2>3 DEF Inserted, Lives
  <2> QED BY <1>3, <2>1, <2>2, <2>3
<1>7. CASE \E h \in Handlers : DeleteAcctWrite(h)
  <2>1. PICK h \in Handlers : DeleteAcctWrite(h) BY <1>7
  <2>2. CASE Same BY <1>0, <2>2
  <2>3. CASE req[h].acct = a /\ SameOrigin(a) /\ acct'[a].deleted
    BY <2>1, <2>3 DEF SameOrigin, Lives
  <2> QED BY <1>4, <2>1, <2>2, <2>3
<1>8. CASE \E h \in Handlers : Handler(h) /\ ~RegisterWrite(h) /\ ~DeleteAcctWrite(h)
  BY <1>0, <1>5, <1>8
<1> QED BY <1>1, <1>2, <1>6, <1>7, <1>8, StepKinds DEF accountVars

(* Four statements lead to a deletion or an audit row.                       *)
LEMMA OthersAnnounceNothing ==
    ASSUME AccountsInv, NEW h \in Handlers, Handler(h), ~DeleteAcctRead(h),
           ~RegisterWrite(h), ~StatusWrite(h), ~DeleteAcctWrite(h)
    PROVE  req'[h].pc \notin {"delete_write", "audit_write"}
<1> DEFINE Quiet == req'[h].pc \notin {"delete_write", "audit_write"}
<1>t. req \in [Handlers -> ReqRow] /\ Knows(req[h]) BY DEF AccountsInv, AccountTypeOK
<1>a. ASSUME NEW o, NEW rec,
             Takes(h, o, rec), [rec EXCEPT !.op = o].pc \notin {"delete_write", "audit_write"}
      PROVE  Quiet
  BY <1>a, <1>t DEF Takes
<1>b. ASSUME NEW rec, Move(h, rec), rec.pc \notin {"delete_write", "audit_write"} PROVE Quiet
  BY <1>b, <1>t DEF Move
<1>c. ASSUME Answer(h) PROVE Quiet
  BY <1>b, <1>c DEF Answer, NoReq
<1>d. ASSUME NEW pc, Step(h, pc), pc \notin {"delete_write", "audit_write"} PROVE Quiet
  BY <1>b, <1>d, <1>t DEF Step, ReqRow
<1>e. \A a, o : /\ [Accepted(a) EXCEPT !.op = o].pc = "reset_write"
                /\ [Mistaken(a) EXCEPT !.op = o].pc = "fail_write"
                /\ [NoReq EXCEPT !.op = o].pc = "idle"
  BY DEF Accepted, Mistaken, NoReq
<1>1. CASE AdminLogin(h) \/ ClientLogin(h) \/ UnifiedClient(h) \/ BuyerLogin(h) \/ StaffLogin(h)
  BY <1>1, <1>a, <1>e DEF AdminLogin, ClientLogin, UnifiedClient, BuyerLogin, StaffLogin
<1>2. CASE UnifiedRequest(h)
  <2>1. PICK id : Takes(h, "unified", [NoReq EXCEPT !.pc = "find_staff", !.id = id])
    BY <1>2 DEF UnifiedRequest
  <2>2. [[NoReq EXCEPT !.pc = "find_staff", !.id = id] EXCEPT !.op = "unified"].pc = "find_staff"
    BY DEF NoReq
  <2> QED BY <1>a, <2>1, <2>2
<1>3. CASE RegisterRead(h) \/ CreateAdminRead(h) \/ GuestRead(h)
  <2>1. PICK o, a, e, n, plan : Takes(h, o, Registration(a, e, n, plan))
    BY <1>3 DEF RegisterRead, CreateAdminRead, GuestRead, Registers
  <2>2. [Registration(a, e, n, plan) EXCEPT !.op = o].pc = "register_write"
    BY DEF Registration, NoReq
  <2> QED BY <1>a, <2>1, <2>2
<1>4. CASE StatusRead(h) \/ ToggleRead(h)
  <2>1. CASE StatusRead(h)
    <3>1. PICK a, v, o :
            Takes(h, o, [NoReq EXCEPT !.pc = "status_write", !.acct = a, !.value = v])
      BY <2>1 DEF StatusRead
    <3>2. [[NoReq EXCEPT !.pc = "status_write", !.acct = a, !.value = v]
             EXCEPT !.op = o].pc = "status_write"
      BY DEF NoReq
    <3> QED BY <1>a, <3>1, <3>2
  <2>2. CASE ToggleRead(h)
    <3>1. PICK a, v :
            Takes(h, "toggleStaff",
                  [NoReq EXCEPT !.pc = "toggle_write", !.acct = a, !.value = v])
      BY <2>2 DEF ToggleRead
    <3>2. [[NoReq EXCEPT !.pc = "toggle_write", !.acct = a, !.value = v]
             EXCEPT !.op = "toggleStaff"].pc = "toggle_write"
      BY DEF NoReq
    <3> QED BY <1>a, <3>1, <3>2
  <2> QED BY <1>4, <2>1, <2>2
<1>5. CASE RefreshRead(h)
  <2>1. PICK k, a :
          Takes(h, "refresh", [NoReq EXCEPT !.pc = "revoke", !.parent = k, !.acct = a])
    BY <1>5 DEF RefreshRead
  <2>2. [[NoReq EXCEPT !.pc = "revoke", !.parent = k, !.acct = a]
           EXCEPT !.op = "refresh"].pc = "revoke"
    BY DEF NoReq
  <2> QED BY <1>a, <2>1, <2>2
<1>6. CASE Logout(h) BY <1>6, <1>a, <1>e DEF Logout
<1>7. CASE UnifiedStaff(h) \/ UnifiedBuyer(h)
  <2>1. ASSUME NEW a, Judged(h, a) PROVE Quiet
    BY <1>b, <1>c, <2>1 DEF Judged, Accepted, Mistaken, NoReq
  <2> QED BY <1>7, <1>c, <1>d, <2>1 DEF UnifiedStaff, UnifiedBuyer
<1>8. CASE RecordFailedAttempt(h) \/ ToggleWrite(h) \/ AuditWrite(h)
  BY <1>8, <1>c DEF RecordFailedAttempt, ToggleWrite, AuditWrite
<1>9. CASE RecordSuccessfulLogin(h) \/ RefreshRevoke(h)
  BY <1>9, <1>d DEF RecordSuccessfulLogin, RefreshRevoke
<1>10. CASE SaveRefreshToken(h) \/ SubscriptionWrite(h)
  BY <1>10, <1>c, <1>d DEF SaveRefreshToken, SubscriptionWrite
<1>12. CASE UpsertUserBridgeRecord(h) \/ UpsertFails(h)
  <2>1. AfterUpsert(req[h]).pc \notin {"delete_write", "audit_write"}
    BY <1>12, <1>t, AfterUpsertKnown DEF UpsertUserBridgeRecord, UpsertFails, At
  <2>2. CASE UpsertUserBridgeRecord(h) BY <1>b, <2>1, <2>2 DEF UpsertUserBridgeRecord
  <2>3. CASE UpsertFails(h) BY <1>t, <2>1, <2>3 DEF UpsertFails
  <2> QED BY <1>12, <2>2, <2>3
<1>11. CASE HandlerFails(h) BY <1>11, <1>t DEF HandlerFails, NoReq
<1> QED
  BY <1>1, <1>2, <1>3, <1>4, <1>5, <1>6, <1>7, <1>8, <1>9, <1>10, <1>11, <1>12
     DEF Handler, LoginStep, ManagementStep

(* What the four of them announce. *)
LEMMA Announcements ==
    ASSUME LivesInv, NEW h \in Handlers, Handler(h),
           [AccountNext]_accountVars
    PROVE  Announces(req[h])'
<1>i. AccountsInv /\ Announces(req[h]) BY DEF LivesInv
<1>t. /\ req \in [Handlers -> ReqRow] /\ acct \in [AllAccounts -> AcctRow]
      /\ req[h] \in ReqRow /\ Knows(req[h])
  BY <1>i DEF AccountsInv, AccountTypeOK
<1>k. \A a \in AllAccounts : Lives(a) BY <1>i, LivesAreKept
<1>a. ASSUME NEW pc, Step(h, pc)
      PROVE  req'[h].pc = pc /\ req'[h].acct = req[h].acct /\ req'[h].value = req[h].value
  <2>1. req' = [req EXCEPT ![h] = [req[h] EXCEPT !.pc = pc]] BY <1>a DEF Step, Move
  <2> QED BY <1>t, <2>1 DEF ReqRow
<1>c. ASSUME Answer(h) PROVE req'[h].pc = "idle"
  BY <1>c, <1>t DEF Answer, Move, NoReq
<1>1. CASE DeleteAcctRead(h)
  <2>1. PICK a \in AllAccounts :
          /\ acct[a].exists
          /\ Takes(h, "delete", [NoReq EXCEPT !.pc = "delete_write", !.acct = a,
                                              !.value = "DELETE"])
    BY <1>1 DEF DeleteAcctRead, AllAccounts
  <2>2. req'[h] = [[NoReq EXCEPT !.pc = "delete_write", !.acct = a, !.value = "DELETE"]
                     EXCEPT !.op = "delete"]
    BY <1>t, <2>1 DEF Takes
  <2>3. req'[h].pc = "delete_write" /\ req'[h].acct = a BY <2>2 DEF NoReq
  <2> QED BY <1>k, <2>1, <2>3 DEF Announces, Lives
<1>2. CASE RegisterWrite(h)
  <2>1. req[h].acct \in AllAccounts /\ req[h].value = "CREATE"
    BY <1>2, <1>t DEF RegisterWrite, At, Knows
  <2>2. CASE Insertable(req[h].acct, req[h].id)
    <3> DEFINE row == NewAccount(req[h])
    <3>1. acct' = [acct EXCEPT ![req[h].acct] = row] BY <1>2, <2>2 DEF RegisterWrite
    <3>2. row.exists BY NewAccountFacts
    <3> HIDE DEF row
    <3>3. acct'[req[h].acct].exists BY <1>t, <2>1, <3>1, <3>2
    <3>4. Answer(h) \/ \E pc \in {"audit_write", "bridge_upsert"} : Step(h, pc)
      BY <1>2, <2>2 DEF RegisterWrite, AfterInsert
    <3>5. CASE Answer(h) BY <1>c, <3>5 DEF Announces
    <3>6. ASSUME NEW pc \in {"audit_write", "bridge_upsert"}, Step(h, pc)
          PROVE  Announces(req[h])'
      <4>1. /\ req'[h].pc = pc /\ req'[h].acct = req[h].acct
            /\ req'[h].value = req[h].value
        BY <1>a, <3>6
      <4> QED BY <2>1, <3>3, <4>1 DEF Announces, Tells
    <3> QED BY <3>4, <3>5, <3>6
  <2>3. CASE ~Insertable(req[h].acct, req[h].id)
    BY <1>2, <1>c, <2>3 DEF RegisterWrite, Announces
  <2> QED BY <2>2, <2>3
<1>3. CASE StatusWrite(h)
  <2>1. req[h].value \notin {"CREATE", "DELETE"} BY <1>3, <1>t DEF StatusWrite, At, Knows
  <2>2. CASE Step(h, "audit_write") BY <1>a, <2>1, <2>2 DEF Announces, Tells
  <2>3. CASE Answer(h) BY <1>c, <2>3 DEF Announces
  <2> QED BY <1>3, <2>2, <2>3 DEF StatusWrite
<1>4. CASE DeleteAcctWrite(h)
  <2>1. req[h].acct \in AllAccounts /\ req[h].value = "DELETE"
    BY <1>4, <1>t DEF DeleteAcctWrite, At, Knows
  <2>2. acct'[req[h].acct].deleted BY <1>4, <1>t, <2>1 DEF DeleteAcctWrite, AcctRow
  <2>3. CASE Step(h, "audit_write") BY <1>a, <2>1, <2>2, <2>3 DEF Announces, Tells
  <2>4. CASE Answer(h) BY <1>c, <2>4 DEF Announces
  <2> QED BY <1>4, <2>3, <2>4 DEF DeleteAcctWrite, AfterDelete
<1>5. CASE ~DeleteAcctRead(h) /\ ~RegisterWrite(h) /\ ~StatusWrite(h) /\ ~DeleteAcctWrite(h)
  BY <1>5, <1>i, OthersAnnounceNothing DEF Announces
<1> QED BY <1>1, <1>2, <1>3, <1>4, <1>5

(* Only AuditWrite adds to the log, and what its handler announced.          *)
LEMMA TrailStep ==
    ASSUME [AccountNext]_accountVars
    PROVE  \/ trail' = trail
           \/ \E h \in Handlers : /\ AuditWrite(h) /\ req[h].pc = "audit_write"
                                  /\ trail' = trail \cup {<<req[h].acct, req[h].value>>}
<1>1. CASE TimePasses BY <1>1 DEF TimePasses
<1>2. CASE UNCHANGED accountVars BY <1>2 DEF accountVars
<1>3. ASSUME NEW h \in Handlers, Handler(h), ~AuditWrite(h)
      PROVE  trail' = trail
  <2>1. CASE ~Writes(h) BY <1>3, <2>1, OthersLeaveTheTables DEF tables
  <2> QED BY <1>3, <2>1 DEF Writes, SaveRefreshToken, UpsertUserBridgeRecord, RefreshRevoke,
          Logout, RecordFailedAttempt, RecordSuccessfulLogin, RegisterWrite, StatusWrite,
          ToggleWrite, DeleteAcctWrite, SubscriptionWrite
<1>4. ASSUME NEW h \in Handlers, AuditWrite(h)
      PROVE  /\ req[h].pc = "audit_write"
             /\ trail' = trail \cup {<<req[h].acct, req[h].value>>}
  BY <1>4 DEF AuditWrite, At
<1> QED BY <1>1, <1>2, <1>3, <1>4, StepKinds

LEMMA LivesInvStep ==
    ASSUME LivesInv, [AccountNext]_accountVars
    PROVE  LivesInv'
<1>i. AccountsInv BY DEF LivesInv
<1>k. \A a \in AllAccounts : Lives(a) BY <1>i, LivesAreKept
<1>1. AccountsInv' BY <1>i, AccountsInvStep
<1>2. ASSUME NEW a \in AllAccounts, acct'[a].deleted PROVE acct'[a].exists
  <2>1. CASE acct[a].deleted BY <1>k, <2>1 DEF LivesInv, Lives
  <2>2. CASE ~acct[a].deleted
    <3>1. PICK h \in Handlers : DeleteAcctWrite(h) /\ req[h].acct = a
      BY <1>2, <1>i, <2>2, LivesAreKept
    <3>2. acct[a].exists BY <3>1 DEF LivesInv, Announces, DeleteAcctWrite, At
    <3> QED BY <1>k, <3>2 DEF Lives
  <2> QED BY <2>1, <2>2
<1>3. ASSUME NEW a \in AllAccounts, NEW v, Tells(a, v) PROVE Tells(a, v)'
  <2>1. acct[a].deleted => acct[a].exists BY DEF LivesInv
  <2> QED BY <1>3, <1>k, <2>1 DEF Tells, Lives
<1>4. ASSUME NEW g \in Handlers PROVE Announces(req[g])'
  <2>1. CASE req'[g] = req[g]
    <3>1. Announces(req[g]) /\ Knows(req[g]) BY <1>i DEF LivesInv, AccountsInv
    <3>2. CASE req[g].pc \in {"delete_write", "audit_write"}
      <4>1. req[g].acct \in AllAccounts BY <3>1, <3>2 DEF Knows
      <4> QED BY <1>3, <1>k, <2>1, <3>1, <4>1 DEF Announces, Lives
    <3>3. CASE req[g].pc \notin {"delete_write", "audit_write"}
      BY <2>1, <3>3 DEF Announces
    <3> QED BY <3>2, <3>3
  <2>2. CASE Handler(g) BY <2>2, Announcements
  <2>3. CASE TimePasses BY <2>1, <2>3 DEF TimePasses
  <2>4. CASE UNCHANGED accountVars BY <2>1, <2>4 DEF accountVars
  <2>5. CASE \E h \in Handlers : Handler(h)
    BY <1>i, <2>1, <2>2, <2>5, OthersKeepTheirSlots
  <2> QED BY <2>3, <2>4, <2>5, StepKinds
<1>5. ASSUME NEW a \in AllAccounts, NEW v \in {"CREATE", "DELETE"}, <<a, v>> \in trail'
      PROVE  Tells(a, v)'
  <2>1. Tells(a, v)
    <3>1. CASE <<a, v>> \in trail BY <3>1 DEF LivesInv
    <3>2. CASE \E h \in Handlers : req[h].pc = "audit_write" /\ req[h].acct = a /\ req[h].value = v
      BY <3>2 DEF LivesInv, Announces
    <3> QED BY <1>5, <3>1, <3>2, TrailStep
  <2> QED BY <1>3, <2>1
<1> QED BY <1>1, <1>2, <1>4, <1>5 DEF LivesInv

LEMMA LivesInvInit == AccountInit => LivesInv
<1> SUFFICES ASSUME AccountInit PROVE LivesInv OBVIOUS
<1>1. AccountsInv BY AccountsInvInit
<1>2. PICK mail \in [Seeded -> Emails] :
        acct = [c \in AllAccounts |-> IF c \in Seeded
                  THEN [NoAcct EXCEPT !.exists = TRUE, !.email = mail[c]] ELSE NoAcct]
  BY DEF AccountInit
<1>3. \A c \in AllAccounts : ~acct[c].deleted BY <1>2 DEF NoAcct
<1>4. \A h \in Handlers : req[h].pc = "idle" BY DEF AccountInit, NoReq
<1>5. trail = {} BY DEF AccountInit
<1> QED BY <1>1, <1>3, <1>4, <1>5 DEF LivesInv, Announces

(* A handler at its second write does it, or fails.                          *)
LEMMA SecondWriteIsNext ==
    ASSUME NEW h \in Handlers, Handler(h)
    PROVE  /\ req[h].pc = "audit_write" => AuditWrite(h) \/ HandlerFails(h)
           /\ req[h].pc = "bridge_upsert" =>
                UpsertUserBridgeRecord(h) \/ UpsertFails(h) \/ HandlerFails(h)
           /\ req[h].pc = "subscribe" => SubscriptionWrite(h) \/ HandlerFails(h)
BY DEF Handler, LoginStep, ManagementStep, At, Takes, AdminLogin, ClientLogin, BuyerLogin,
   StaffLogin, UnifiedRequest, UnifiedClient, UnifiedStaff, UnifiedBuyer,
   RecordFailedAttempt, RecordSuccessfulLogin, SaveRefreshToken, RefreshRead, RefreshRevoke,
   Logout, RegisterRead, CreateAdminRead, GuestRead, Registers, RegisterWrite, StatusRead,
   StatusWrite, ToggleRead, ToggleWrite, DeleteAcctRead, DeleteAcctWrite,
   UpsertUserBridgeRecord, UpsertFails, SubscriptionWrite, AuditWrite

LEMMA NoFailure ==
    ASSUME AccountsInv, [AccountNext]_accountVars, errors' = 0
    PROVE  errors = 0 /\ \A h \in Handlers : ~HandlerFails(h) /\ ~UpsertFails(h)
<1>t. errors \in Nat BY DEF AccountsInv, AccountTypeOK
<1>1. ASSUME NEW h \in Handlers, HandlerFails(h) \/ UpsertFails(h) PROVE FALSE
  <2>1. errors' = errors + 1 BY <1>1 DEF HandlerFails, UpsertFails
  <2> QED BY <1>t, <2>1
<1>2. ASSUME NEW h \in Handlers, Handler(h), ~HandlerFails(h), ~UpsertFails(h)
      PROVE  errors' = errors
  <2>a. \A o, rec : Takes(h, o, rec) => errors' = errors BY DEF Takes
  <2>b. \A rec : Move(h, rec) => errors' = errors BY DEF Move, counts
  <2>c. /\ Answer(h) => errors' = errors
        /\ \A pc : Step(h, pc) => errors' = errors
    BY <2>b DEF Answer, Step
  <2>d. \A a : Judged(h, a) => errors' = errors BY <2>b, <2>c DEF Judged
  <2>1. LoginStep(h) => errors' = errors
    BY <1>2, <2>a, <2>b, <2>c, <2>d DEF LoginStep, AdminLogin, ClientLogin, BuyerLogin, StaffLogin,
       UnifiedRequest, UnifiedClient, UnifiedStaff, UnifiedBuyer, RecordFailedAttempt,
       RecordSuccessfulLogin, SaveRefreshToken, UpsertUserBridgeRecord, RefreshRead,
       RefreshRevoke, Logout
  <2>2. ManagementStep(h) => errors' = errors
    BY <2>a, <2>c DEF ManagementStep, RegisterRead, CreateAdminRead, GuestRead, Registers,
       RegisterWrite, AfterInsert, SubscriptionWrite, StatusRead, StatusWrite, ToggleRead,
       ToggleWrite, DeleteAcctRead, DeleteAcctWrite, AfterDelete, AuditWrite
  <2> QED BY <1>2, <2>1, <2>2 DEF Handler
<1>3. errors' = errors \/ \E h \in Handlers : HandlerFails(h) \/ UpsertFails(h)
  BY <1>2, StepKinds DEF accountVars, counts, TimePasses
<1> QED BY <1>1, <1>3

LEMMA BridgeIsKept ==
    ASSUME [AccountNext]_accountVars
    PROVE  bridge \subseteq bridge' /\ ordered \subseteq ordered'
<1>1. CASE TimePasses BY <1>1 DEF TimePasses
<1>2. CASE UNCHANGED accountVars BY <1>2 DEF accountVars
<1>3. ASSUME NEW h \in Handlers, Handler(h)
      PROVE  bridge \subseteq bridge' /\ ordered \subseteq ordered'
  <2>1. CASE ~Writes(h) BY <1>3, <2>1, OthersLeaveTheTables DEF tables
  <2> QED BY <1>3, <2>1 DEF Writes, SaveRefreshToken, UpsertUserBridgeRecord, RefreshRevoke,
          Logout, RecordFailedAttempt, RecordSuccessfulLogin, RegisterWrite, StatusWrite,
          ToggleWrite, DeleteAcctWrite, SubscriptionWrite, AuditWrite
<1> QED BY <1>1, <1>2, <1>3, StepKinds

LEMMA SlotsInFlight ==
    ASSUME AccountsInv, [AccountNext]_accountVars, errors' = 0, NEW g \in Handlers
    PROVE  /\ req[g].pc = "audit_write" => req'[g] = req[g] \/ AuditWrite(g)
           /\ req[g].pc = "bridge_upsert" => req'[g] = req[g] \/ UpsertUserBridgeRecord(g)
           /\ req[g].pc = "subscribe" => req'[g] = req[g] \/ SubscriptionWrite(g)
<1>1. CASE req'[g] = req[g] BY <1>1
<1>2. CASE Handler(g) BY <1>2, SecondWriteIsNext, NoFailure
<1>3. CASE TimePasses BY <1>1, <1>3 DEF TimePasses
<1>4. CASE UNCHANGED accountVars BY <1>1, <1>4 DEF accountVars
<1>5. CASE \E h \in Handlers : Handler(h) BY <1>1, <1>2, <1>5, OthersKeepTheirSlots
<1> QED BY <1>3, <1>4, <1>5, StepKinds

LEMMA AuditedStaysSo ==
    ASSUME AccountsInv, [AccountNext]_accountVars, errors' = 0, NEW a, NEW v, Audited(a, v)
    PROVE  Audited(a, v)'
<1>1. trail \subseteq trail' BY TrailStep
<1>2. CASE <<a, v>> \in trail BY <1>1, <1>2 DEF Audited
<1>3. ASSUME NEW g \in Handlers, req[g].pc = "audit_write", req[g].acct = a, req[g].value = v
      PROVE  Audited(a, v)'
  <2>1. CASE req'[g] = req[g] BY <1>3, <2>1 DEF Audited, Auditing
  <2>2. CASE AuditWrite(g) BY <1>3, <2>2 DEF AuditWrite, Audited
  <2> QED BY <1>3, <2>1, <2>2, SlotsInFlight
<1> QED BY <1>2, <1>3 DEF Audited, Auditing

LEMMA BridgedStaysSo ==
    ASSUME AccountsInv, [AccountNext]_accountVars, errors' = 0, NEW a, Bridged(a)
    PROVE  Bridged(a)'
<1>1. bridge \subseteq bridge' BY BridgeIsKept
<1>2. CASE a \in bridge BY <1>1, <1>2 DEF Bridged
<1>3. ASSUME NEW g \in Handlers, req[g].pc = "bridge_upsert", req[g].acct = a
      PROVE  Bridged(a)'
  <2>1. CASE req'[g] = req[g] BY <1>3, <2>1 DEF Bridged
  <2>2. CASE UpsertUserBridgeRecord(g)
    BY <1>3, <2>2 DEF UpsertUserBridgeRecord, Bridged
  <2> QED BY <1>3, <2>1, <2>2, SlotsInFlight
<1> QED BY <1>2, <1>3 DEF Bridged

LEMMA OrderedStaysSo ==
    ASSUME AccountsInv, [AccountNext]_accountVars, errors' = 0, NEW a, Ordered(a)
    PROVE  Ordered(a)'
<1>t. /\ req \in [Handlers -> ReqRow]
      /\ \A h \in Handlers : req[h] \in ReqRow /\ Knows(req[h])
  BY DEF AccountsInv, AccountTypeOK
<1>1. ordered \subseteq ordered' BY BridgeIsKept
<1>2. CASE a \in ordered BY <1>1, <1>2 DEF Ordered
<1>3. ASSUME NEW g \in Handlers, Ordering(g, a)
      PROVE  Ordered(a)'
  <2>1. CASE req'[g] = req[g] BY <1>3, <2>1 DEF Ordered, Ordering
  <2>2. CASE UpsertUserBridgeRecord(g)
    <3>1. req'[g] = AfterUpsert(req[g])
      BY <1>t, <2>2 DEF UpsertUserBridgeRecord, Move
    <3>2. req[g].pc = "bridge_upsert" BY <2>2 DEF UpsertUserBridgeRecord, At
    <3>3. Ordering(g, a)' BY <1>3, <1>t, <3>1, <3>2, AfterUpsertKnown DEF Ordering
    <3> QED BY <3>3 DEF Ordered
  <2>3. CASE SubscriptionWrite(g)
    BY <1>3, <2>3 DEF SubscriptionWrite, Ordering, Ordered
  <2> QED BY <1>3, <2>1, <2>2, <2>3, SlotsInFlight DEF Ordering
<1> QED BY <1>2, <1>3 DEF Ordered

(* A registration that has inserted its row is at its second write.          *)
LEMMA RegistrationsGoOn ==
    ASSUME AccountsInv, NEW h \in Handlers, NEW a \in AllAccounts, Inserted(h, a),
           req[h].op = "register"
    PROVE  /\ IF a \in Admins THEN Audited(a, "CREATE")' ELSE Bridged(a)'
           /\ req[h].plan => Ordered(a)'
<1>t. /\ req \in [Handlers -> ReqRow]
      /\ req[h] \in ReqRow /\ Knows(req[h])
  BY DEF AccountsInv, AccountTypeOK
<1>1. req[h].acct = a /\ req[h].value = "CREATE"
  BY <1>t DEF Inserted, RegisterWrite, At, Knows
<1> DEFINE pc == IF a \in Admins THEN "audit_write" ELSE "bridge_upsert"
<1>2. Step(h, pc) BY <1>1 DEF Inserted, RegisterWrite, AfterInsert
<1>3. /\ req'[h].pc = pc /\ req'[h].acct = a /\ req'[h].value = "CREATE"
      /\ req'[h].op = "register" /\ req'[h].plan = req[h].plan
  <2>1. req'[h] = [req[h] EXCEPT !.pc = pc] BY <1>t, <1>2 DEF Step, Move
  <2> QED BY <1>1, <1>t, <2>1 DEF ReqRow
<1>4. req[h].plan => a \notin Admins
  BY <1>1, <1>t, AccountAssumption DEF Knows, AccountAssumption
<1> QED BY <1>3, <1>4 DEF Audited, Auditing, Bridged, Ordered, Ordering

LEMMA SecondWritesStep ==
    ASSUME LivesInv, SecondWrites, [AccountNext]_accountVars
    PROVE  SecondWrites'
<1>i. AccountsInv BY DEF LivesInv
<1>t. req \in [Handlers -> ReqRow] BY <1>i DEF AccountsInv, AccountTypeOK
<1> SUFFICES ASSUME errors' = 0, NEW a \in AllAccounts
             PROVE  /\ acct'[a].by = "register" =>
                         IF a \in Admins THEN Audited(a, "CREATE")' ELSE Bridged(a)'
                    /\ a \in Admins /\ acct'[a].deleted => Audited(a, "DELETE")'
                    /\ acct'[a].plan => Ordered(a)'
  BY DEF SecondWrites
<1>e. errors = 0 BY <1>i, NoFailure
<1>1. CASE \E h \in Handlers : Inserted(h, a)
  <2>1. PICK h \in Handlers : Inserted(h, a) BY <1>1
  <2>2. /\ ~acct'[a].deleted
        /\ acct'[a].by = req[h].op /\ acct'[a].plan = req[h].plan
    BY <2>1 DEF Inserted
  <2>3. acct'[a].plan => req[h].op = "register"
    BY <1>i, <2>2 DEF AccountsInv, Knows
  <2> QED BY <1>i, <2>1, <2>2, <2>3, RegistrationsGoOn
<1>2. CASE SameOrigin(a)
  <2>1. acct'[a].by = "register" =>
          IF a \in Admins THEN Audited(a, "CREATE")' ELSE Bridged(a)'
    BY <1>2, <1>e, <1>i, AuditedStaysSo, BridgedStaysSo DEF SecondWrites, SameOrigin
  <2>2. acct'[a].plan => Ordered(a)'
    BY <1>2, <1>e, <1>i, OrderedStaysSo DEF SecondWrites, SameOrigin
  <2>3. ASSUME a \in Admins, acct'[a].deleted PROVE Audited(a, "DELETE")'
    <3>1. CASE acct[a].deleted
      BY <1>e, <1>i, <2>3, <3>1, AuditedStaysSo DEF SecondWrites
    <3>2. CASE ~acct[a].deleted
      <4>1. PICK h \in Handlers : DeleteAcctWrite(h) /\ req[h].acct = a
        BY <1>i, <2>3, <3>2, LivesAreKept
      <4>2. req[h].value = "DELETE" /\ req[h] \in ReqRow
        BY <1>i, <1>t, <4>1 DEF DeleteAcctWrite, At, AccountsInv, Knows
      <4>3. Step(h, "audit_write") BY <2>3, <4>1 DEF DeleteAcctWrite, AfterDelete
      <4>4. req'[h] = [req[h] EXCEPT !.pc = "audit_write"]
        BY <1>t, <4>3 DEF Step, Move
      <4>5. req'[h].pc = "audit_write" /\ req'[h].acct = a /\ req'[h].value = "DELETE"
        BY <4>1, <4>2, <4>4 DEF ReqRow
      <4> QED BY <4>5 DEF Audited, Auditing
    <3> QED BY <3>1, <3>2
  <2> QED BY <2>1, <2>2, <2>3
<1> QED BY <1>i, <1>1, <1>2, LivesAreKept

(* A call that is over has done what follows its first write unless          *)
(* something failed: an administrator of createUser or one deleted is in     *)
(* the audit log, a client, staff member or buyer that registered is in      *)
(* users, a client that registered for a plan has its subscription; and the  *)
(* audit log tells of nothing that did not happen.                           *)
THEOREM CallsAreDoneInFull == AccountSpec => []NothingIsHalfDone
<1>1. LivesInv /\ SecondWrites => NothingIsHalfDone
  <2> SUFFICES ASSUME LivesInv, SecondWrites PROVE NothingIsHalfDone OBVIOUS
  <2>1. \A a \in Admins : /\ <<a, "CREATE">> \in trail => acct[a].exists
                          /\ <<a, "DELETE">> \in trail => acct[a].deleted
    BY DEF LivesInv, Tells, AllAccounts
  <2>2. ASSUME errors = 0, \A h \in Handlers : req[h].pc = "idle", NEW a \in AllAccounts
        PROVE  /\ acct[a].by = "register" =>
                    IF a \in Admins THEN <<a, "CREATE">> \in trail ELSE a \in bridge
               /\ a \in Admins /\ acct[a].deleted => <<a, "DELETE">> \in trail
               /\ acct[a].plan => a \in ordered
    <3>1. /\ a \in bridge <=> Bridged(a)
          /\ a \in ordered <=> Ordered(a)
          /\ \A v : Audited(a, v) <=> <<a, v>> \in trail
      BY <2>2 DEF Audited, Auditing, Bridged, Ordered, Ordering
    <3> QED BY <2>2, <3>1 DEF SecondWrites
  <2> QED BY <2>1, <2>2 DEF NothingIsHalfDone, At
<1>2. AccountInit => LivesInv /\ SecondWrites
  <2> SUFFICES ASSUME AccountInit PROVE LivesInv /\ SecondWrites OBVIOUS
  <2>1. PICK mail \in [Seeded -> Emails] :
          acct = [c \in AllAccounts |-> IF c \in Seeded
                    THEN [NoAcct EXCEPT !.exists = TRUE, !.email = mail[c]] ELSE NoAcct]
    BY DEF AccountInit
  <2>2. \A c \in AllAccounts : acct[c].by = "none" /\ ~acct[c].deleted /\ ~acct[c].plan
    BY <2>1 DEF NoAcct
  <2> QED BY <2>2, LivesInvInit DEF SecondWrites
<1>3. LivesInv /\ SecondWrites /\ [AccountNext]_accountVars => LivesInv' /\ SecondWrites'
  BY LivesInvStep, SecondWritesStep
<1> QED BY <1>1, <1>2, <1>3, PTL DEF AccountSpec

-----------------------------------------------------------------------------
(* Wrong passwords that overwrite each other's count.  A handler is missing  *)
(* on a from the moment it has read a's counter until it writes it back.     *)
(* The misses of a are paid for from a floor e of the counter that no        *)
(* handler in flight can undercut: at most 2L-2, 2L-4, ... for the floors    *)
(* below, where L is MaxFailed, and two for each number above.               *)
Missing(h, a) == At(h, "fail_write") /\ req[h].acct = a
Budget(e) == e * (2 * MaxFailed + 1 - e)
FloorHolds(a, e) ==
    /\ \A h \in Handlers : Missing(h, a) => e < req[h].failed
    /\ 2 * misses[a] <= Budget(e) + 2 * (acct[a].failed - e)

MissesAreBudgeted(a) ==
    /\ \A h \in Handlers : Missing(h, a) => acct[a].exists
    /\ ~acct[a].exists \/ acct[a].failed >= MaxFailed => misses[a] = 0
    /\ \A g, h \in Handlers : g # h /\ Missing(g, a) /\ Missing(h, a) =>
         acct[a].failed + 1 \in {req[g].failed, req[h].failed}
    /\ \E e \in 0 .. acct[a].failed : FloorHolds(a, e)

MissesInv == AccountsInv /\ \A a \in Counted : MissesAreBudgeted(a)

(* Arithmetic of the budget: a stale write puts the floor where it has left  *)
(* the counter.                                                              *)
LEMMA BudgetGrows ==
    ASSUME NEW f \in Nat, NEW e \in Nat, NEW n \in Nat, NEW m \in Nat,
           e < n, n <= f, n < MaxFailed, f >= MaxFailed => m = 0,
           2 * m <= Budget(e) + 2 * (f - e)
    PROVE  2 * (m + 1) <= Budget(n)
<1>1. MaxFailed \in Nat BY AccountAssumption DEF AccountAssumption
<1>p. \A x, y \in Nat : x * y >= 0 OBVIOUS
<1>2. CASE f < MaxFailed
  <2>1. n - e - 1 \in Nat /\ 2 * MaxFailed - e - n \in Nat BY <1>1, <1>2
  <2>2. (n - e - 1) * (2 * MaxFailed - e - n) >= 0 BY <1>p, <2>1
  <2>3. (n - e - 1) * (2 * MaxFailed - e - n)
          = n * (2 * MaxFailed + 1 - n) - e * (2 * MaxFailed + 1 - e) - 2 * MaxFailed + 2 * e
    BY <1>1
  <2>4. 2 * (f - e) <= 2 * MaxFailed - 2 - 2 * e BY <1>1, <1>2
  <2> DEFINE W == e * (2 * MaxFailed + 1 - e)  V == n * (2 * MaxFailed + 1 - n)
  <2>5. W \in Int /\ V \in Int BY <1>1
  <2>6. 2 * m <= W + 2 * (f - e) BY DEF Budget
  <2>7. V - W - 2 * MaxFailed + 2 * e >= 0 BY <2>2, <2>3
  <2> HIDE DEF W, V
  <2>8. 2 * m + 2 <= V BY <1>1, <2>4, <2>5, <2>6, <2>7
  <2> QED BY <2>8, <1>1 DEF V, Budget
<1>3. CASE f >= MaxFailed
  <2>1. n - 1 \in Nat /\ 2 * MaxFailed - n \in Nat BY <1>1
  <2>2. (n - 1) * (2 * MaxFailed - n) >= 0 BY <1>p, <2>1
  <2>3. (n - 1) * (2 * MaxFailed - n) = n * (2 * MaxFailed + 1 - n) - 2 * MaxFailed
    BY <1>1
  <2>4. 2 <= 2 * MaxFailed /\ m = 0 BY <1>1, <1>3
  <2> DEFINE V == n * (2 * MaxFailed + 1 - n)
  <2>5. V \in Int /\ V - 2 * MaxFailed >= 0 BY <1>1, <2>2, <2>3
  <2> HIDE DEF V
  <2>6. 2 * (m + 1) <= V BY <1>1, <2>4, <2>5
  <2> QED BY <2>6 DEF V, Budget
<1> QED BY <1>1, <1>2, <1>3

(* Before the lock the budget stays below 1 + 2 + ... + MaxFailed, twice.    *)
LEMMA BudgetIsLimited ==
    ASSUME NEW f \in Nat, NEW e \in 0 .. f, NEW m \in Nat,
           f >= MaxFailed => m = 0, 2 * m <= Budget(e) + 2 * (f - e)
    PROVE  2 * m < MaxFailed * (MaxFailed + 1)
<1>1. MaxFailed \in Nat /\ MaxFailed >= 1 BY AccountAssumption DEF AccountAssumption
<1>p. \A x, y \in Nat : x * y >= 0 OBVIOUS
<1>2. CASE f < MaxFailed
  <2>1. MaxFailed - 1 - e \in Nat /\ MaxFailed - e \in Nat /\ e \in Nat BY <1>1, <1>2
  <2>2. (MaxFailed - 1 - e) * (MaxFailed - e) >= 0 BY <1>p, <2>1
  <2>3. (MaxFailed - 1 - e) * (MaxFailed - e)
          = MaxFailed * (MaxFailed + 1) - e * (2 * MaxFailed + 1 - e) - 2 * MaxFailed + 2 * e
    BY <1>1, <2>1
  <2> DEFINE W == e * (2 * MaxFailed + 1 - e)  V == MaxFailed * (MaxFailed + 1)
  <2>4. W \in Int /\ V \in Int BY <1>1
  <2>5. 2 * m <= W + 2 * (f - e) BY DEF Budget
  <2>6. V - W - 2 * MaxFailed + 2 * e >= 0 BY <2>2, <2>3
  <2> HIDE DEF W, V
  <2>7. 2 * m < V BY <1>1, <1>2, <2>1, <2>4, <2>5, <2>6
  <2> QED BY <2>7 DEF V
<1>3. CASE f >= MaxFailed
  <2>1. MaxFailed - 1 \in Nat /\ MaxFailed + 2 \in Nat BY <1>1
  <2>2. (MaxFailed - 1) * (MaxFailed + 2) >= 0 BY <1>p, <2>1
  <2>3. (MaxFailed - 1) * (MaxFailed + 2) = MaxFailed * (MaxFailed + 1) - 2 BY <1>1
  <2> QED BY <1>1, <1>3, <2>2, <2>3
<1> QED BY <1>1, <1>2, <1>3

(* A login that comes to count a failure has read the counter of an account  *)
(* that exists.                                                              *)
LEMMA FailuresAreRead ==
    ASSUME AccountsInv, NEW h \in Handlers, Handler(h), req'[h].pc = "fail_write"
    PROVE  /\ ~At(h, "fail_write") /\ UNCHANGED tables
           /\ \E a \in AllAccounts : /\ req'[h].acct = a /\ acct[a].exists
                                     /\ req'[h].failed = acct[a].failed + 1
<1>t. req \in [Handlers -> ReqRow] /\ Knows(req[h]) BY DEF AccountsInv, AccountTypeOK
<1> DEFINE Reading == \E a \in AllAccounts : /\ req'[h].acct = a /\ acct[a].exists
                                             /\ req'[h].failed = acct[a].failed + 1
<1>a. ASSUME NEW o, NEW rec, Takes(h, o, rec) PROVE req'[h] = [rec EXCEPT !.op = o]
  BY <1>a, <1>t DEF Takes
<1>b. ASSUME NEW rec, Move(h, rec) PROVE req'[h] = rec
  BY <1>b, <1>t DEF Move
<1>c. ~Answer(h) BY <1>b DEF Answer, NoReq
<1>d. ASSUME NEW pc, Step(h, pc) PROVE pc = "fail_write"
  BY <1>b, <1>d, <1>t DEF Step, ReqRow
<1>e. ASSUME NEW a, NEW o
      PROVE  /\ [Accepted(a) EXCEPT !.op = o].pc = "reset_write"
             /\ [NoReq EXCEPT !.op = o].pc = "idle"
             /\ [Mistaken(a) EXCEPT !.op = o].acct = a
             /\ [Mistaken(a) EXCEPT !.op = o].failed = acct[a].failed + 1
  BY DEF Accepted, Mistaken, NoReq
<1>1. CASE AdminLogin(h) \/ ClientLogin(h) \/ UnifiedClient(h) \/ BuyerLogin(h) \/ StaffLogin(h)
  <2>1. PICK a, rec, o :
          /\ a \in AllAccounts
          /\ rec \in {Accepted(a), Mistaken(a)} /\ Takes(h, o, rec)
          /\ acct[a].exists /\ UNCHANGED tables
    BY <1>1 DEF AdminLogin, ClientLogin, UnifiedClient, BuyerLogin, StaffLogin, HasId,
       Present, AllAccounts
  <2>2. req'[h] = [rec EXCEPT !.op = o] BY <1>a, <2>1
  <2>3. rec = Mistaken(a) BY <1>e, <2>1, <2>2
  <2>4. ~At(h, "fail_write") BY <2>1 DEF Takes, At
  <2> QED BY <1>e, <2>1, <2>2, <2>3, <2>4
<1>2. ASSUME NEW o, NEW rec, Takes(h, o, rec), [rec EXCEPT !.op = o].pc # "fail_write"
      PROVE  FALSE
  BY <1>2, <1>a
<1>3. CASE UnifiedRequest(h)
  <2>1. PICK id : Takes(h, "unified", [NoReq EXCEPT !.pc = "find_staff", !.id = id])
    BY <1>3 DEF UnifiedRequest
  <2>2. [[NoReq EXCEPT !.pc = "find_staff", !.id = id] EXCEPT !.op = "unified"].pc = "find_staff"
    BY DEF NoReq
  <2> QED BY <1>2, <2>1, <2>2
<1>4. CASE RegisterRead(h) \/ CreateAdminRead(h) \/ GuestRead(h)
  <2>1. PICK o, a, e, n, plan : Takes(h, o, Registration(a, e, n, plan))
    BY <1>4 DEF RegisterRead, CreateAdminRead, GuestRead, Registers
  <2>2. [Registration(a, e, n, plan) EXCEPT !.op = o].pc = "register_write"
    BY DEF Registration, NoReq
  <2> QED BY <1>2, <2>1, <2>2
<1>5. CASE StatusRead(h) \/ ToggleRead(h) \/ DeleteAcctRead(h)
  <2>1. ASSUME NEW o, NEW pc, NEW a, NEW v, pc # "fail_write",
               Takes(h, o, [NoReq EXCEPT !.pc = pc, !.acct = a, !.value = v])
        PROVE  FALSE
    <3>1. [[NoReq EXCEPT !.pc = pc, !.acct = a, !.value = v] EXCEPT !.op = o].pc = pc
      BY DEF NoReq
    <3> QED BY <1>2, <2>1, <3>1
  <2>2. ~StatusRead(h) BY <2>1 DEF StatusRead
  <2>3. ~ToggleRead(h) BY <2>1 DEF ToggleRead
  <2>4. ~DeleteAcctRead(h) BY <2>1 DEF DeleteAcctRead
  <2> QED BY <1>5, <2>2, <2>3, <2>4
<1>6. CASE RefreshRead(h)
  <2>1. PICK k, a :
          Takes(h, "refresh", [NoReq EXCEPT !.pc = "revoke", !.parent = k, !.acct = a])
    BY <1>6 DEF RefreshRead
  <2>2. [[NoReq EXCEPT !.pc = "revoke", !.parent = k, !.acct = a]
           EXCEPT !.op = "refresh"].pc = "revoke"
    BY DEF NoReq
  <2> QED BY <1>2, <2>1, <2>2
<1>7. CASE Logout(h) BY <1>7, <1>2, <1>e DEF Logout
<1>8. CASE UnifiedStaff(h) \/ UnifiedBuyer(h)
  <2>1. /\ ~At(h, "fail_write") /\ UNCHANGED tables
        /\ ~Step(h, "find_buyer")
    BY <1>8, <1>d DEF UnifiedStaff, UnifiedBuyer, At
  <2>2. PICK a \in AllAccounts : Judged(h, a) /\ acct[a].exists
    <3>1. CASE UnifiedStaff(h)
      BY <1>c, <2>1, <3>1 DEF UnifiedStaff, HasId, Present, AllAccounts
    <3>2. CASE UnifiedBuyer(h)
      BY <1>c, <3>2 DEF UnifiedBuyer, HasId, Present, AllAccounts
    <3> QED BY <1>8, <3>1, <3>2
  <2>3. ~Move(h, NoReq) /\ ~Move(h, [Accepted(a) EXCEPT !.op = "unified"])
    <3>1. ~Move(h, NoReq) BY <1>c DEF Answer
    <3>2. ~Move(h, [Accepted(a) EXCEPT !.op = "unified"])
      <4>1. [Accepted(a) EXCEPT !.op = "unified"].pc = "reset_write" BY <1>e
      <4> QED BY <1>b, <4>1
    <3> QED BY <3>1, <3>2
  <2>4. req'[h] = [Mistaken(a) EXCEPT !.op = "unified"]
    BY <1>b, <1>c, <2>2, <2>3 DEF Judged
  <2> QED BY <1>e, <2>1, <2>2, <2>4
<1>9. CASE RecordFailedAttempt(h) \/ ToggleWrite(h) \/ AuditWrite(h)
  BY <1>9, <1>c DEF RecordFailedAttempt, ToggleWrite, AuditWrite
<1>10. CASE RecordSuccessfulLogin(h) \/ RefreshRevoke(h)
  BY <1>10, <1>d DEF RecordSuccessfulLogin, RefreshRevoke
<1>11. CASE SaveRefreshToken(h) \/ SubscriptionWrite(h)
  BY <1>11, <1>c, <1>d DEF SaveRefreshToken, SubscriptionWrite
<1>16. CASE UpsertUserBridgeRecord(h) \/ UpsertFails(h)
  <2>1. AfterUpsert(req[h]).pc # "fail_write"
    BY <1>16, <1>t, AfterUpsertKnown DEF UpsertUserBridgeRecord, UpsertFails, At
  <2>2. ~UpsertUserBridgeRecord(h) BY <1>b, <2>1 DEF UpsertUserBridgeRecord
  <2>3. ~UpsertFails(h) BY <1>t, <2>1 DEF UpsertFails
  <2> QED BY <1>16, <2>2, <2>3
<1>12. CASE RegisterWrite(h) BY <1>12, <1>c, <1>d DEF RegisterWrite, AfterInsert
<1>13. CASE StatusWrite(h) BY <1>13, <1>c, <1>d DEF StatusWrite
<1>14. CASE DeleteAcctWrite(h) BY <1>14, <1>c, <1>d DEF DeleteAcctWrite, AfterDelete
<1>15. CASE HandlerFails(h) BY <1>15, <1>t DEF HandlerFails, NoReq
<1> QED
  BY <1>1, <1>3, <1>4, <1>5, <1>6, <1>7, <1>8, <1>9, <1>10, <1>11, <1>12, <1>13, <1>14, <1>15, <1>16
     DEF Handler, LoginStep, ManagementStep

(* The four things a step can do to the counter of an account and to its     *)
(* history.                                                                  *)
CounterKept(a) ==
    /\ acct'[a].failed = acct[a].failed /\ acct'[a].exists = acct[a].exists
    /\ misses'[a] = misses[a]
CounterWritten(h, a) ==
    /\ Handler(h) /\ Missing(h, a) /\ req'[h].pc = "idle"
    /\ acct'[a].failed = req[h].failed /\ acct'[a].exists = acct[a].exists
    /\ misses'[a] = IF LocksAt(req[h].failed) THEN 0 ELSE misses[a] + 1
CounterReset(h, a) ==
    /\ Handler(h) /\ req'[h].pc = "save_token"
    /\ acct'[a].failed = 0 /\ acct'[a].exists = acct[a].exists
    /\ misses'[a] = 0
CounterStarted(a) ==
    ~acct[a].exists /\ acct'[a].failed = 0 /\ misses'[a] = misses[a]

LEMMA HowCountersMove ==
    ASSUME AccountsInv, [AccountNext]_accountVars, NEW a \in Counted
    PROVE  \/ CounterKept(a) \/ CounterStarted(a)
           \/ \E h \in Handlers : CounterWritten(h, a) \/ CounterReset(h, a)
<1>t. /\ acct \in [AllAccounts -> AcctRow] /\ misses \in [AllAccounts -> Nat]
      /\ req \in [Handlers -> ReqRow] /\ a \in AllAccounts
      /\ \A h \in Handlers : Knows(req[h])
  BY DEF AccountsInv, AccountTypeOK, Counted, AllAccounts
<1>1. CASE TimePasses
  <2>1. acct'[a] = [acct[a] EXCEPT !.lock = Elapse(@)] BY <1>1, <1>t DEF TimePasses
  <2>2. acct[a] \in AcctRow BY <1>t
  <2>3. acct'[a].failed = acct[a].failed /\ acct'[a].exists = acct[a].exists
    BY <2>1, <2>2 DEF AcctRow
  <2> QED BY <1>1, <2>3 DEF TimePasses, CounterKept
<1>2. CASE UNCHANGED tables BY <1>2 DEF tables, CounterKept
<1>3. ASSUME NEW h \in Handlers, Handler(h), RecordFailedAttempt(h)
      PROVE  CounterKept(a) \/ CounterWritten(h, a)
  <2> DEFINE x == req[h].acct  n == req[h].failed
             Counts(l) == [acct[x] EXCEPT !.failed = n, !.lock = l]
  <2>1. x \in AllAccounts /\ n \in Nat
    BY <1>3, <1>t DEF RecordFailedAttempt, At, Knows, ReqRow
  <2>2. PICK l : acct' = [acct EXCEPT ![x] = Counts(l)]
    <3>1. acct' = [acct EXCEPT ![x] = Counts(IF LocksAt(n) THEN LockTime ELSE acct[x].lock)]
      BY <1>3, <1>t, <2>1 DEF RecordFailedAttempt
    <3> QED BY <3>1
  <2>3. Counts(l).failed = n /\ Counts(l).exists = acct[x].exists BY <1>t, <2>1 DEF AcctRow
  <2>4. misses' = [misses EXCEPT ![x] = IF LocksAt(n) THEN 0 ELSE misses[x] + 1]
    BY <1>3 DEF RecordFailedAttempt
  <2>5. req'[h].pc = "idle" /\ At(h, "fail_write")
    BY <1>3, <1>t DEF RecordFailedAttempt, Answer, Move, NoReq
  <2> HIDE DEF Counts
  <2>6. CASE x = a
    <3>1. acct'[a] = Counts(l) BY <1>t, <2>2, <2>6
    <3>2. misses'[a] = IF LocksAt(n) THEN 0 ELSE misses[a] + 1 BY <1>t, <2>4, <2>6
    <3> QED BY <1>3, <2>3, <2>5, <2>6, <3>1, <3>2 DEF CounterWritten, Missing
  <2>7. CASE x # a BY <1>t, <2>2, <2>4, <2>7 DEF CounterKept
  <2> QED BY <2>6, <2>7
<1>4. ASSUME NEW h \in Handlers, Handler(h), RecordSuccessfulLogin(h)
      PROVE  CounterKept(a) \/ CounterReset(h, a)
  <2> DEFINE x == req[h].acct  row == [acct[x] EXCEPT !.failed = 0, !.lock = 0]
  <2>1. x \in AllAccounts BY <1>4, <1>t DEF RecordSuccessfulLogin, At, Knows
  <2>2. \/ UNCHANGED <<acct, misses>>
        \/ acct' = [acct EXCEPT ![x] = row] /\ misses' = [misses EXCEPT ![x] = 0]
    BY <1>4 DEF RecordSuccessfulLogin
  <2>3. row.failed = 0 /\ row.exists = acct[x].exists BY <1>t, <2>1 DEF AcctRow
  <2>4. req'[h].pc = "save_token"
    <3>1. req'[h] = [req[h] EXCEPT !.pc = "save_token"] /\ req[h] \in ReqRow
      BY <1>4, <1>t DEF RecordSuccessfulLogin, Step, Move
    <3> QED BY <3>1 DEF ReqRow
  <2> HIDE DEF row
  <2>5. CASE UNCHANGED <<acct, misses>> BY <2>5 DEF CounterKept
  <2>6. CASE /\ acct' = [acct EXCEPT ![x] = row] /\ misses' = [misses EXCEPT ![x] = 0]
             /\ x = a
    <3>1. acct'[a] = row /\ misses'[a] = 0 BY <1>t, <2>6
    <3> QED BY <1>4, <2>3, <2>4, <2>6, <3>1 DEF CounterReset
  <2>7. CASE /\ acct' = [acct EXCEPT ![x] = row] /\ misses' = [misses EXCEPT ![x] = 0]
             /\ x # a
    BY <1>t, <2>7 DEF CounterKept
  <2> QED BY <2>2, <2>5, <2>6, <2>7
<1>5. ASSUME NEW h \in Handlers, RegisterWrite(h)
      PROVE  CounterKept(a) \/ CounterStarted(a)
  <2> DEFINE row == NewAccount(req[h])
  <2>1. /\ \/ acct' = acct
           \/ ~acct[req[h].acct].exists /\ acct' = [acct EXCEPT ![req[h].acct] = row]
        /\ misses' = misses
    BY <1>5 DEF RegisterWrite, Insertable
  <2>2. row.failed = 0 BY NewAccountFacts
  <2> HIDE DEF row
  <2> QED BY <1>t, <2>1, <2>2 DEF CounterKept, CounterStarted
<1>6. ASSUME NEW h \in Handlers, StatusWrite(h) \/ ToggleWrite(h) \/ DeleteAcctWrite(h)
      PROVE  CounterKept(a)
  <2>1. CASE StatusWrite(h) BY <1>t, <2>1 DEF StatusWrite, CounterKept, AcctRow
  <2>2. CASE ToggleWrite(h) BY <1>t, <2>2 DEF ToggleWrite, CounterKept, AcctRow
  <2>3. CASE DeleteAcctWrite(h)
    <3> DEFINE x == req[h].acct
               Gone(on) == [acct[x] EXCEPT !.deleted = TRUE, !.active = on]
    <3>1. PICK on : acct' = [acct EXCEPT ![x] = Gone(on)] /\ misses' = misses
      <4>1. acct' = [acct EXCEPT ![x] = Gone(acct[x].active /\ x \notin StaffAccts)]
        BY <2>3 DEF DeleteAcctWrite
      <4> QED BY <2>3, <4>1 DEF DeleteAcctWrite
    <3>2. x \in AllAccounts => /\ Gone(on).failed = acct[x].failed
                               /\ Gone(on).exists = acct[x].exists
      BY <1>t DEF AcctRow
    <3> HIDE DEF Gone
    <3>3. CASE x = a BY <1>t, <3>1, <3>2, <3>3 DEF CounterKept
    <3>4. CASE x # a
      <4>1. acct'[a] = acct[a] BY <1>t, <3>1, <3>4
      <4> QED BY <3>1, <4>1 DEF CounterKept
    <3> QED BY <3>3, <3>4
  <2> QED BY <1>6, <2>1, <2>2, <2>3
<1>7. ASSUME NEW h \in Handlers, Handler(h),
             ~RecordFailedAttempt(h), ~RecordSuccessfulLogin(h), ~RegisterWrite(h),
             ~StatusWrite(h), ~ToggleWrite(h), ~DeleteAcctWrite(h)
      PROVE  CounterKept(a)
  <2>1. CASE ~Writes(h)
    <3>1. UNCHANGED tables BY <1>7, <2>1, OthersLeaveTheTables
    <3> QED BY <3>1 DEF tables, CounterKept
  <2>2. CASE \/ SaveRefreshToken(h) \/ UpsertUserBridgeRecord(h) \/ RefreshRevoke(h)
             \/ Logout(h) \/ AuditWrite(h) \/ SubscriptionWrite(h)
    BY <2>2 DEF SaveRefreshToken, UpsertUserBridgeRecord, RefreshRevoke, Logout, AuditWrite,
       SubscriptionWrite, CounterKept
  <2> QED BY <1>7, <2>1, <2>2 DEF Writes
<1>8. CASE \E h \in Handlers : Handler(h)
  <2>1. PICK h \in Handlers : Handler(h) BY <1>8
  <2> QED BY <2>1, <1>3, <1>4, <1>5, <1>6, <1>7
<1>9. CASE UNCHANGED accountVars BY <1>2, <1>9 DEF accountVars, tables
<1> QED BY <1>1, <1>8, <1>9, StepKinds

(* A handler that is missing after a step was so before, or has just read    *)
(* the counter.                                                              *)
LEMMA MissingSinceWhen ==
    ASSUME AccountsInv, [AccountNext]_accountVars, NEW a \in AllAccounts,
           NEW g \in Handlers, Missing(g, a)'
    PROVE  \/ Missing(g, a) /\ req'[g] = req[g]
           \/ acct[a].exists /\ UNCHANGED tables /\ req'[g].failed = acct[a].failed + 1
<1>1. CASE req'[g] = req[g] BY <1>1 DEF Missing, At
<1>2. CASE Handler(g) BY <1>2, FailuresAreRead DEF Missing, At
<1>3. CASE \E h \in Handlers : Handler(h)
  BY <1>1, <1>2, <1>3, OthersKeepTheirSlots
<1>4. CASE TimePasses \/ UNCHANGED accountVars BY <1>1, <1>4 DEF TimePasses, accountVars
<1> QED BY <1>3, <1>4, StepKinds

(* Only two requests at a time: with one of them at its write, the other is  *)
(* the only one that can be missing.                                         *)
LEMMA OneMore ==
    ASSUME Cardinality(Handlers) = 2, NEW h \in Handlers,
           NEW g \in Handlers \ {h}, NEW k \in Handlers \ {h}
    PROVE  g = k
<1>1. IsFiniteSet(Handlers) BY AccountAssumption DEF AccountAssumption
<1>2. IsFiniteSet(Handlers \ {h}) /\ Cardinality(Handlers \ {h}) = 1
  BY <1>1, FS_RemoveElement
<1>3. IsFiniteSet((Handlers \ {h}) \ {g}) /\ Cardinality((Handlers \ {h}) \ {g}) = 0
  BY <1>2, FS_RemoveElement
<1>4. (Handlers \ {h}) \ {g} = {} BY <1>3, FS_EmptySet
<1> QED BY <1>4

LEMMA MissesStep ==
    ASSUME Cardinality(Handlers) = 2, MissesInv, [AccountNext]_accountVars, NEW a \in Counted
    PROVE  MissesAreBudgeted(a)'
<1>i. AccountsInv /\ MissesAreBudgeted(a) /\ a \in AllAccounts
  BY DEF MissesInv, Counted, AllAccounts
<1> DEFINE f == acct[a].failed  m == misses[a]
<1>t. /\ f \in Nat /\ m \in Nat /\ MaxFailed \in Nat /\ MaxFailed >= 1
      /\ \A h \in Handlers : req[h].failed \in Nat
  BY <1>i, AccountAssumption DEF AccountsInv, AccountTypeOK, AcctRow, ReqRow, AccountAssumption
<1>e. PICK e \in 0 .. f : FloorHolds(a, e) BY <1>i DEF MissesAreBudgeted
<1>b. \A n \in Nat : Budget(n) \in Int /\ Budget(0) = 0 BY <1>t DEF Budget
<1>m. \A g \in Handlers : Missing(g, a)' =>
        \/ Missing(g, a) /\ req'[g] = req[g]
        \/ acct[a].exists /\ UNCHANGED tables /\ req'[g].failed = f + 1
  BY <1>i, MissingSinceWhen
<1>x. ASSUME acct'[a].exists = acct[a].exists
      PROVE  \A g \in Handlers : Missing(g, a)' => acct'[a].exists
  BY <1>x, <1>i, <1>m DEF MissesAreBudgeted
<1>o. ASSUME NEW h \in Handlers, Handler(h), req'[h].pc \in {"idle", "save_token"}
      PROVE  /\ \A g \in Handlers : Missing(g, a)' =>
                  g # h /\ Missing(g, a) /\ req'[g] = req[g]
             /\ \A g, k \in Handlers : Missing(g, a)' /\ Missing(k, a)' => g = k
  <2>1. ASSUME NEW g \in Handlers, Missing(g, a)'
        PROVE  g # h /\ Missing(g, a) /\ req'[g] = req[g]
    <3>1. g # h BY <1>o, <2>1 DEF Missing, At
    <3>2. req'[g] = req[g] BY <1>i, <1>o, <3>1, OthersKeepTheirSlots
    <3> QED BY <2>1, <3>1, <3>2 DEF Missing, At
  <2> QED BY <2>1, OneMore
<1>1. CASE CounterKept(a)
  <2>1. acct'[a].failed = f /\ acct'[a].exists = acct[a].exists /\ misses'[a] = m
    BY <1>1 DEF CounterKept
  <2>2. \A g, h \in Handlers : g # h /\ Missing(g, a)' /\ Missing(h, a)' =>
          f + 1 \in {req'[g].failed, req'[h].failed}
    BY <1>i, <1>m DEF MissesAreBudgeted
  <2>3. FloorHolds(a, e)'
    <3>1. \A g \in Handlers : Missing(g, a)' => e < req'[g].failed
      <4> TAKE g \in Handlers
      <4> HAVE Missing(g, a)'
      <4>1. e < f + 1 BY <1>t, <1>e
      <4> QED BY <1>m, <1>e, <4>1 DEF FloorHolds
    <3> QED BY <1>e, <2>1, <3>1 DEF FloorHolds
  <2> QED BY <1>x, <1>i, <1>e, <2>1, <2>2, <2>3 DEF MissesAreBudgeted
<1>2. CASE CounterStarted(a)
  <2>1. \A g \in Handlers : ~Missing(g, a)'
    BY <1>2, <1>i, <1>m DEF MissesAreBudgeted, CounterStarted
  <2>2. acct'[a].failed = 0 /\ misses'[a] = 0
    BY <1>2, <1>i DEF MissesAreBudgeted, CounterStarted
  <2>3. FloorHolds(a, 0)'
    BY <1>b, <2>1, <2>2 DEF FloorHolds
  <2> QED BY <2>1, <2>2, <2>3 DEF MissesAreBudgeted
<1>3. ASSUME NEW h \in Handlers, CounterReset(h, a)
      PROVE  MissesAreBudgeted(a)'
  <2>1. acct'[a].failed = 0 /\ acct'[a].exists = acct[a].exists /\ misses'[a] = 0
    BY <1>3 DEF CounterReset
  <2>2. /\ \A g \in Handlers : Missing(g, a)' => Missing(g, a) /\ req'[g] = req[g]
        /\ \A g, k \in Handlers : Missing(g, a)' /\ Missing(k, a)' => g = k
    BY <1>3, <1>o DEF CounterReset
  <2>3. \A g \in Handlers : Missing(g, a)' => 0 < req'[g].failed
    BY <1>e, <1>t, <2>2 DEF FloorHolds
  <2>4. FloorHolds(a, 0)' BY <1>b, <2>1, <2>3 DEF FloorHolds
  <2> QED BY <1>x, <2>1, <2>2, <2>4 DEF MissesAreBudgeted
<1>4. ASSUME NEW h \in Handlers, CounterWritten(h, a)
      PROVE  MissesAreBudgeted(a)'
  <2> DEFINE n == req[h].failed
  <2>1. /\ acct'[a].failed = n /\ acct'[a].exists = acct[a].exists
        /\ misses'[a] = IF LocksAt(n) THEN 0 ELSE m + 1
        /\ Missing(h, a)
    BY <1>4 DEF CounterWritten
  <2>n. n \in Nat /\ e < n BY <1>t, <1>e, <2>1 DEF FloorHolds
  <2>x. acct[a].exists /\ acct'[a].exists BY <1>i, <2>1 DEF MissesAreBudgeted
  <2>2. /\ \A g \in Handlers : Missing(g, a)' =>
             g # h /\ Missing(g, a) /\ req'[g] = req[g]
        /\ \A g, k \in Handlers : Missing(g, a)' /\ Missing(k, a)' => g = k
    BY <1>4, <1>o DEF CounterWritten
  <2>3. \A g \in Handlers : Missing(g, a)' =>
          e < req'[g].failed /\ (n <= f => n < req'[g].failed)
    <3> TAKE g \in Handlers
    <3> HAVE Missing(g, a)'
    <3>1. g # h /\ Missing(g, a) /\ req'[g] = req[g] BY <2>2
    <3>2. e < req[g].failed BY <1>e, <3>1 DEF FloorHolds
    <3>3. f + 1 \in {req[g].failed, n} BY <1>i, <2>1, <3>1 DEF MissesAreBudgeted
    <3> QED BY <1>t, <2>n, <3>1, <3>2, <3>3
  <2>4. ~acct'[a].exists \/ acct'[a].failed >= MaxFailed => misses'[a] = 0
    BY <2>1, <2>x DEF LocksAt
  <2>f. \E d \in 0 .. acct'[a].failed : FloorHolds(a, d)'
    <3>1. CASE LocksAt(n)
      <4>1. \A g \in Handlers : Missing(g, a)' => 0 < req'[g].failed
        BY <1>e, <1>t, <2>2, <2>3
      <4>2. 2 * misses'[a] <= Budget(0) + 2 * (acct'[a].failed - 0)
        BY <1>b, <2>1, <2>n, <3>1
      <4>3. FloorHolds(a, 0)' BY <4>1, <4>2 DEF FloorHolds
      <4> QED BY <2>1, <2>n, <4>3
    <3>2. CASE ~LocksAt(n) /\ n > f
      <4>1. 2 * m <= Budget(e) + 2 * (f - e) BY <1>e DEF FloorHolds
      <4>2. Budget(e) \in Int BY <1>b, <1>e
      <4>3. 2 * (m + 1) <= Budget(e) + 2 * (n - e)
        <5> HIDE DEF n, f, m
        <5> QED BY <1>t, <1>e, <2>n, <3>2, <4>1, <4>2
      <4>4. 2 * misses'[a] <= Budget(e) + 2 * (acct'[a].failed - e)
        BY <2>1, <3>2, <4>3
      <4>5. FloorHolds(a, e)' BY <2>3, <4>4 DEF FloorHolds
      <4> QED BY <1>t, <1>e, <2>1, <2>n, <3>2, <4>5
    <3>3. CASE ~LocksAt(n) /\ n <= f
      <4>1. 2 * m <= Budget(e) + 2 * (f - e) /\ (f >= MaxFailed => m = 0)
        BY <1>e, <1>i DEF FloorHolds, MissesAreBudgeted
      <4>2. PICK d \in Nat : d = n BY <2>n
      <4>3. /\ e \in Nat /\ e < d /\ d <= f /\ d < MaxFailed
        BY <1>t, <1>e, <2>n, <3>3, <4>2 DEF LocksAt
      <4>4. 2 * (m + 1) <= Budget(d)
        <5> HIDE DEF f, m
        <5> QED BY <1>t, <4>1, <4>3, BudgetGrows
      <4>5. acct'[a].failed = d BY <2>1, <4>2
      <4>6. 2 * misses'[a] <= Budget(d) + 2 * (acct'[a].failed - d)
        BY <1>b, <2>1, <3>3, <4>4, <4>5
      <4>7. FloorHolds(a, d)' BY <2>3, <3>3, <4>2, <4>6 DEF FloorHolds
      <4> QED BY <4>5, <4>7
    <3> QED BY <1>t, <2>n, <3>1, <3>2, <3>3
  <2> QED BY <1>x, <2>1, <2>2, <2>4, <2>f DEF MissesAreBudgeted
<1> QED BY <1>i, <1>1, <1>2, <1>3, <1>4, HowCountersMove

LEMMA MissesInvInit == AccountInit => MissesInv
<1> SUFFICES ASSUME AccountInit PROVE MissesInv OBVIOUS
<1>1. AccountsInv BY AccountsInvInit
<1>2. ASSUME NEW a \in Counted PROVE MissesAreBudgeted(a)
  <2>1. PICK mail \in [Seeded -> Emails] :
          acct = [c \in AllAccounts |-> IF c \in Seeded
                    THEN [NoAcct EXCEPT !.exists = TRUE, !.email = mail[c]] ELSE NoAcct]
    BY DEF AccountInit
  <2>2. a \in AllAccounts BY DEF Counted, AllAccounts
  <2>3. acct[a].failed = 0 /\ misses[a] = 0 BY <2>1, <2>2 DEF AccountInit, NoAcct
  <2>4. \A h \in Handlers : ~Missing(h, a) BY DEF AccountInit, Missing, At, NoReq
  <2>5. FloorHolds(a, 0)
    BY <2>3, <2>4, AccountAssumption DEF FloorHolds, Budget, AccountAssumption
  <2> QED BY <2>3, <2>4, <2>5 DEF MissesAreBudgeted
<1> QED BY <1>1, <1>2 DEF MissesInv

(* Two requests at a time that overwrite each other's count cannot put off   *)
(* the lock for ever: it comes before 1 + 2 + ... + MaxFailed wrong          *)
(* passwords, whatever MaxFailed is, and whether the handlers crash, the     *)
(* account is logged in to, suspended or deleted meanwhile.                  *)
THEOREM FailuresAreNotLostForever == AccountSpec => []LostFailuresAreLimited
<1>1. MissesInv => LostFailuresAreLimited
  <2> SUFFICES ASSUME MissesInv, NEW a \in Counted
               PROVE  2 * misses[a] < MaxFailed * (MaxFailed + 1)
    BY DEF LostFailuresAreLimited
  <2>1. MissesAreBudgeted(a) /\ a \in AllAccounts BY DEF MissesInv, Counted, AllAccounts
  <2>2. acct[a].failed \in Nat /\ misses[a] \in Nat
    BY <2>1 DEF MissesInv, AccountsInv, AccountTypeOK, AcctRow
  <2>3. PICK e \in 0 .. acct[a].failed : FloorHolds(a, e) BY <2>1 DEF MissesAreBudgeted
  <2>4. acct[a].failed >= MaxFailed => misses[a] = 0 BY <2>1 DEF MissesAreBudgeted
  <2> QED BY <2>2, <2>3, <2>4, BudgetIsLimited DEF FloorHolds
<1>2. Cardinality(Handlers) = 2 /\ MissesInv /\ [AccountNext]_accountVars => MissesInv'
  <2> SUFFICES ASSUME Cardinality(Handlers) = 2, MissesInv, [AccountNext]_accountVars
               PROVE  MissesInv'
    OBVIOUS
  <2>1. AccountsInv' BY AccountsInvStep DEF MissesInv
  <2>2. \A a \in Counted : MissesAreBudgeted(a)' BY MissesStep
  <2> QED BY <2>1, <2>2 DEF MissesInv
<1>3. CASE Cardinality(Handlers) = 2
  BY <1>1, <1>2, <1>3, MissesInvInit, PTL DEF AccountSpec
<1>4. CASE Cardinality(Handlers) # 2
  <2>1. LostFailuresAreLimited BY <1>4 DEF LostFailuresAreLimited
  <2> QED BY <2>1, PTL
<1> QED BY <1>3, <1>4
=============================================================================
