------------------------------ MODULE Accounts ------------------------------
(***************************************************************************)
(* The accounts of the backend: logins, lockout and refresh tokens of      *)
(* AuthService (modules/auth/auth.service.ts), the accounts AuthService,   *)
(* StaffService, BuyersService and AdminService create, switch off and     *)
(* delete, the guest buyers of payments and imports, and what a creation   *)
(* or deletion writes next: the row of the unified users table, the audit  *)
(* row, a subscription.  A handler is a record with a program counter; an  *)
(* action is one statement.  Durations count down instead of being         *)
(* compared with a clock: lock is the time left of lockedUntil, life that  *)
(* of expiresAt.                                                           *)
(***************************************************************************)
EXTENDS Integers, FiniteSets

CONSTANTS
    Admins, ClientAccts, StaffAccts, BuyerAccts,   \* rows of the four tables
    Seeded,        \* the rows of prisma/seed.ts
    Emails, Phones, null,
    MaxTokens,     \* bound: RefreshToken rows
    MaxFailed,     \* MAX_FAILED_LOGIN_ATTEMPTS
    LockTime,      \* ACCOUNT_LOCKOUT_MINUTES
    TokenLife,     \* jwt.refreshExpiresIn
    Handlers,      \* slots for concurrent requests
    AccountOps,    \* the handlers called in this instance
    MaxRequests,   \* bound: handlers called
    MaxErrors      \* bound: database calls that fail

AllAccounts == Admins \cup ClientAccts \cup StaffAccts \cup BuyerAccts
Tokens == 1 .. MaxTokens

(* The accounts whose failed logins are counted: the other two tables have   *)
(* no columns for it.                                                        *)
Counted == Admins \cup ClientAccts

AllAccountOps == {"login", "unified", "refresh", "logout", "register", "createAdmin",
                  "guest", "suspend", "toggleStaff", "delete", "userStatus"}

ASSUME AccountAssumption ==
    /\ {MaxTokens, LockTime, TokenLife, MaxRequests, MaxErrors} \subseteq Nat
    /\ MaxFailed \in Nat \ {0}
    /\ null \notin AllAccounts \cup Emails \cup Phones
    /\ Emails \cap Phones = {}
    /\ Admins \cap (ClientAccts \cup StaffAccts \cup BuyerAccts) = {}
    /\ ClientAccts \cap (StaffAccts \cup BuyerAccts) = {}
    /\ StaffAccts \cap BuyerAccts = {}
    /\ Seeded \subseteq Counted
    /\ \A t \in {Admins, ClientAccts} : \A a, b \in Seeded \cap t : a = b
    /\ AccountOps \subseteq AllAccountOps
    /\ IsFiniteSet(Handlers)

VARIABLES
    acct,      \* Admin, Client, ClientStaff and Buyer rows
    token,     \* RefreshToken rows
    bridge,    \* accounts with a row in the users table
    ordered,   \* clients whose registration created their Subscription row
    trail,     \* AuditLog rows <<account, action>>
    misses,    \* history: wrong passwords written down since the last login or lock
    req,       \* in-flight handlers
    requests,  \* number of handlers called so far
    errors     \* number of failed database calls so far

accountVars == <<acct, token, bridge, ordered, trail, misses, req, requests, errors>>

-----------------------------------------------------------------------------
(* Rows *)

(* by and plan are not columns: the handler that inserted the row, and       *)
(* whether it came with the id of a plan there is.  A guest has no password. *)
AcctRow == [exists : BOOLEAN, deleted : BOOLEAN, email : Emails \cup {null},
            phone : Phones \cup {null},
            status : {"ACTIVE", "PENDING", "INACTIVE", "SUSPENDED"},
            active : BOOLEAN, failed : Nat, lock : Nat,
            by : {"none", "register", "createAdmin", "guest"}, plan : BOOLEAN]

(* parent is the token a rotation replaced, or 0 after a login.  It is not a *)
(* column: the code forgets it, the properties do not.                       *)
TokenRow == [exists : BOOLEAN, acct : AllAccounts \cup {null}, revoked : BOOLEAN,
             life : Nat, parent : Nat]

ReqPcs == {"idle", "find_staff", "find_buyer", "fail_write", "reset_write",
           "save_token", "bridge_upsert", "revoke", "register_write",
           "subscribe", "status_write", "toggle_write", "delete_write", "audit_write"}

ReqRow == [pc : ReqPcs, op : AllAccountOps \cup {"none"},
           acct : AllAccounts \cup {null}, id : Emails \cup Phones \cup {null},
           phone : Phones \cup {null}, plan : BOOLEAN, failed : Nat, parent : Nat,
           value : {"ACTIVE", "INACTIVE", "SUSPENDED", "ON", "OFF", "CREATE", "DELETE"}]

NoAcct == [exists |-> FALSE, deleted |-> FALSE, email |-> null, phone |-> null,
           status |-> "ACTIVE", active |-> TRUE, failed |-> 0, lock |-> 0,
           by |-> "none", plan |-> FALSE]
NoToken == [exists |-> FALSE, acct |-> null, revoked |-> FALSE, life |-> 0, parent |-> 0]
NoReq == [pc |-> "idle", op |-> "none", acct |-> null, id |-> null, phone |-> null,
          plan |-> FALSE, failed |-> 0, parent |-> 0, value |-> "ACTIVE"]

(* seed.ts has created one administrator and one operator.                   *)
AccountInit ==
    /\ \E mail \in [Seeded -> Emails] :
        acct = [a \in AllAccounts |-> IF a \in Seeded
                  THEN [NoAcct EXCEPT !.exists = TRUE, !.email = mail[a]] ELSE NoAcct]
    /\ token = [k \in Tokens |-> NoToken]
    /\ bridge = {}
    /\ ordered = {}
    /\ trail = {}
    /\ misses = [a \in AllAccounts |-> 0]
    /\ req = [h \in Handlers |-> NoReq]
    /\ requests = 0
    /\ errors = 0

tables == <<acct, token, bridge, ordered, trail, misses>>
counts == <<requests, errors>>

Takes(h, o, rec) ==
    /\ req[h].pc = "idle" /\ o \in AccountOps /\ requests < MaxRequests
    /\ req' = [req EXCEPT ![h] = [rec EXCEPT !.op = o]]
    /\ requests' = requests + 1
    /\ UNCHANGED errors

At(h, pc) == req[h].pc = pc
Move(h, rec) == req' = [req EXCEPT ![h] = rec] /\ UNCHANGED counts
Step(h, pc) == Move(h, [req[h] EXCEPT !.pc = pc])
Answer(h) == Move(h, NoReq)

Present(a) == acct[a].exists /\ ~acct[a].deleted
HasId(a, id) == Present(a) /\ id \in {acct[a].email, acct[a].phone}

-----------------------------------------------------------------------------
(* Logins *)

(* enforceAccountState and its counterparts. *)
Admitted(a) == acct[a].status # "SUSPENDED" /\ acct[a].active /\ acct[a].lock = 0
HasPassword(a) == acct[a].by # "guest"

(* The handler that has found account a and checked the password.            *)
Accepted(a) == [NoReq EXCEPT !.pc = "reset_write", !.acct = a]
Mistaken(a) == [NoReq EXCEPT !.pc = "fail_write", !.acct = a,
                             !.failed = acct[a].failed + 1]

(* adminLogin *)
AdminLogin(h) ==
    \E a \in Admins : \E rec \in {Accepted(a), Mistaken(a)} :
        /\ Present(a) /\ Admitted(a)
        /\ Takes(h, "login", rec)
        /\ UNCHANGED tables

(* clientLogin *)
ClientLogin(h) ==
    \E a \in ClientAccts : \E rec \in {Accepted(a), Mistaken(a)} :
        /\ Present(a) /\ Admitted(a)
        /\ Takes(h, "login", rec)
        /\ UNCHANGED tables

(* buyerLogin looks at no status; a wrong password leaves no trace. *)
BuyerLogin(h) ==
    \E a \in BuyerAccts :
        /\ Present(a) /\ HasPassword(a)
        /\ Takes(h, "login", Accepted(a))
        /\ UNCHANGED tables

(* staffLogin *)
StaffLogin(h) ==
    \E a \in StaffAccts :
        /\ Present(a) /\ acct[a].active
        /\ Takes(h, "login", Accepted(a))
        /\ UNCHANGED tables

(* What unifiedLogin does with the candidate it has found. *)
Judged(h, a) ==
    IF ~Admitted(a) \/ ~HasPassword(a) THEN Answer(h)
    ELSE \/ Move(h, [Accepted(a) EXCEPT !.op = "unified"])
         \/ Move(h, IF a \in Counted THEN [Mistaken(a) EXCEPT !.op = "unified"] ELSE NoReq)

(* resolveCandidate asks the three tables one after the other. *)
UnifiedRequest(h) ==
    \E id \in Emails \cup Phones :
        /\ ~\E a \in ClientAccts : HasId(a, id)
        /\ Takes(h, "unified", [NoReq EXCEPT !.pc = "find_staff", !.id = id])
        /\ UNCHANGED tables

UnifiedClient(h) ==
    \E id \in Emails \cup Phones, a \in ClientAccts : \E rec \in {Accepted(a), Mistaken(a)} :
        /\ HasId(a, id) /\ Admitted(a)
        /\ Takes(h, "unified", rec)
        /\ UNCHANGED tables

(* ClientStaff has no phone column: a search by phone throws. *)
StaffLookupThrows(id) == id \in Phones

UnifiedStaff(h) ==
    /\ At(h, "find_staff")
    /\ LET found == {a \in StaffAccts : HasId(a, req[h].id)} IN
       IF StaffLookupThrows(req[h].id) THEN Answer(h)
       ELSE IF found = {} THEN Step(h, "find_buyer")
       ELSE \E a \in found : Judged(h, a)
    /\ UNCHANGED tables

UnifiedBuyer(h) ==
    /\ At(h, "find_buyer")
    /\ LET found == {a \in BuyerAccts : HasId(a, req[h].id)} IN
       IF found = {} THEN Answer(h) ELSE \E a \in found : Judged(h, a)
    /\ UNCHANGED tables

(* The counter that was read, plus one, is written back.  Variant: a lock    *)
(* one attempt late.                                                         *)
LocksAt_Late(n) == n > MaxFailed
LocksAt(n) == n >= MaxFailed

RecordFailedAttempt(h) ==
    /\ At(h, "fail_write")
    /\ LET a == req[h].acct  n == req[h].failed IN
        /\ acct' = [acct EXCEPT ![a].failed = n,
                                ![a].lock = IF LocksAt(n) THEN LockTime ELSE @]
        /\ misses' = [misses EXCEPT ![a] = IF LocksAt(n) THEN 0 ELSE @ + 1]
    /\ Answer(h)
    /\ UNCHANGED <<token, bridge, ordered, trail>>

RecordSuccessfulLogin(h) ==
    /\ At(h, "reset_write")
    /\ IF req[h].acct \in Counted
       THEN /\ acct' = [acct EXCEPT ![req[h].acct].failed = 0, ![req[h].acct].lock = 0]
            /\ misses' = [misses EXCEPT ![req[h].acct] = 0]
       ELSE UNCHANGED <<acct, misses>>
    /\ Step(h, "save_token")
    /\ UNCHANGED <<token, bridge, ordered, trail>>

(* The bridge row of a unified login is upserted without being awaited. *)
SaveRefreshToken(h) ==
    /\ At(h, "save_token")
    /\ \E k \in Tokens :
        /\ ~token[k].exists /\ \A j \in Tokens : j < k => token[j].exists
        /\ token' = [token EXCEPT ![k] = [exists |-> TRUE, acct |-> req[h].acct,
                        revoked |-> FALSE, life |-> TokenLife, parent |-> req[h].parent]]
    /\ IF req[h].op = "unified" THEN Step(h, "bridge_upsert") ELSE Answer(h)
    /\ UNCHANGED <<acct, bridge, ordered, trail, misses>>

(* Nor is that of a registration, which goes on: a buyer is given a token,   *)
(* a client with a plan a subscription.                                      *)
AfterUpsert(r) ==
    IF r.op = "register" /\ r.acct \in BuyerAccts THEN [r EXCEPT !.pc = "save_token"]
    ELSE IF r.op = "register" /\ r.plan THEN [r EXCEPT !.pc = "subscribe"]
    ELSE NoReq

UpsertUserBridgeRecord(h) ==
    /\ At(h, "bridge_upsert")
    /\ bridge' = bridge \cup {req[h].acct}
    /\ Move(h, AfterUpsert(req[h]))
    /\ UNCHANGED <<acct, token, ordered, trail, misses>>

(* A failure of the upsert is only logged. *)
UpsertFails(h) ==
    /\ At(h, "bridge_upsert") /\ errors < MaxErrors
    /\ req' = [req EXCEPT ![h] = AfterUpsert(req[h])]
    /\ errors' = errors + 1
    /\ UNCHANGED <<tables, requests>>

-----------------------------------------------------------------------------
(* refreshTokens and logout *)

(* Variant: a token is good until it expires. *)
Refreshable_Unexpired(k) == token[k].exists /\ token[k].life > 0
Refreshable(k) == token[k].exists /\ ~token[k].revoked /\ token[k].life > 0

RefreshRead(h) ==
    \E k \in Tokens :
        /\ Refreshable(k)
        /\ Takes(h, "refresh", [NoReq EXCEPT !.pc = "revoke", !.parent = k,
                                             !.acct = token[k].acct])
        /\ UNCHANGED tables

(* What rotation does to the token presented.  Variant: it is left valid.    *)
Rotated_Kept(row) == row
Rotated(row) == [row EXCEPT !.revoked = TRUE]

(* Accounts are deleted by a mark only, so the look-up that follows finds    *)
(* the row, whatever its status.                                             *)
RefreshRevoke(h) ==
    /\ At(h, "revoke")
    /\ token' = [token EXCEPT ![req[h].parent] = Rotated(@)]
    /\ Step(h, "save_token")
    /\ UNCHANGED <<acct, bridge, ordered, trail, misses>>

Logout(h) ==
    \E k \in Tokens :
        /\ token[k].exists /\ ~token[k].revoked
        /\ Takes(h, "logout", NoReq)
        /\ token' = [token EXCEPT ![k].revoked = TRUE]
        /\ UNCHANGED <<acct, bridge, ordered, trail, misses>>

-----------------------------------------------------------------------------
(* Accounts come and go *)

(* The e-mail is unique in its table (for staff and buyers: per operator;    *)
(* this is one operator's), deleted rows included.                           *)
Table(a) == CHOOSE t \in {Admins, ClientAccts, StaffAccts, BuyerAccts} : a \in t
EmailFree(a, e) == e = null \/ \A b \in Table(a) : acct[b].exists => acct[b].email # e

Registration(a, e, n, plan) ==
    [NoReq EXCEPT !.pc = "register_write", !.acct = a, !.id = e, !.phone = n,
                  !.plan = plan, !.value = "CREATE"]

Registers(h, op, a, e, n, plan) ==
    /\ ~acct[a].exists
    /\ Takes(h, op, Registration(a, e, n, plan))
    /\ UNCHANGED tables

(* registerClient, createStaff, createBuyerWithAuth, createUser: is the      *)
(* e-mail free?                                                              *)
RegisterRead(h) ==
    \E a \in AllAccounts, e \in Emails, n \in Phones \cup {null}, plan \in BOOLEAN :
        /\ EmailFree(a, e)
        /\ n # null => a \in ClientAccts \cup BuyerAccts
        /\ plan => a \in ClientAccts
        /\ Registers(h, "register", a, e, n, plan)

(* createAdmin asks the same. *)
CreateAdminRead(h) ==
    \E a \in Admins, e \in Emails :
        /\ EmailFree(a, e)
        /\ Registers(h, "createAdmin", a, e, null, FALSE)

(* initiatePayment looks for the buyer by e-mail, or by phone among those    *)
(* without one; the imports look by phone, whatever the row's e-mail.        *)
GuestRead(h) ==
    \E a \in BuyerAccts, e \in Emails \cup {null}, n \in Phones :
        /\ \/ IF e # null THEN EmailFree(a, e)
              ELSE \A b \in BuyerAccts : acct[b].exists /\ acct[b].phone = n => acct[b].email # null
           \/ \A b \in BuyerAccts : acct[b].exists => acct[b].phone # n
        /\ Registers(h, "guest", a, e, n, FALSE)

(* The unique index decides again.  Variant: there is none. *)
Insertable_NoIndex(a, e) == ~acct[a].exists
Insertable(a, e) == ~acct[a].exists /\ EmailFree(a, e)

(* A registered administrator is audited and the others get their row in     *)
(* users; createAdmin and the creation of a guest end here.                  *)
AfterInsert(h) ==
    IF req[h].op # "register" THEN Answer(h)
    ELSE Step(h, IF req[h].acct \in Admins THEN "audit_write" ELSE "bridge_upsert")

(* A new client waits to be activated. *)
NewAccount(r) ==
    [NoAcct EXCEPT !.exists = TRUE, !.email = r.id, !.phone = r.phone,
                   !.status = IF r.acct \in ClientAccts THEN "PENDING" ELSE "ACTIVE",
                   !.by = r.op, !.plan = r.plan]

RegisterWrite(h) ==
    /\ At(h, "register_write")
    /\ IF Insertable(req[h].acct, req[h].id)
       THEN /\ acct' = [acct EXCEPT ![req[h].acct] = NewAccount(req[h])]
            /\ AfterInsert(h)
       ELSE UNCHANGED acct /\ Answer(h)
    /\ UNCHANGED <<token, bridge, ordered, trail, misses>>

(* registerClient's last statement: a pending subscription to the plan.      *)
SubscriptionWrite(h) ==
    /\ At(h, "subscribe")
    /\ ordered' = ordered \cup {req[h].acct}
    /\ Answer(h)
    /\ UNCHANGED <<acct, token, bridge, trail, misses>>

(* updateClientStatus (clients) and toggleUserStatus (administrators). *)
StatusRead(h) ==
    \E a \in ClientAccts \cup Admins, v \in {"ACTIVE", "SUSPENDED", "INACTIVE"} :
        /\ Present(a)
        /\ (v = "SUSPENDED") => a \in ClientAccts
        /\ (v = "INACTIVE") => a \in Admins
        /\ Takes(h, IF a \in Admins THEN "userStatus" ELSE "suspend",
                 [NoReq EXCEPT !.pc = "status_write", !.acct = a, !.value = v])
        /\ UNCHANGED tables

StatusWrite(h) ==
    /\ At(h, "status_write")
    /\ acct' = [acct EXCEPT ![req[h].acct].status = req[h].value]
    /\ IF req[h].acct \in Admins THEN Step(h, "audit_write") ELSE Answer(h)
    /\ UNCHANGED <<token, bridge, ordered, trail, misses>>

(* StaffService.toggleActive: the opposite of what it read. *)
ToggleRead(h) ==
    \E a \in StaffAccts :
        /\ Present(a)
        /\ Takes(h, "toggleStaff", [NoReq EXCEPT !.pc = "toggle_write", !.acct = a,
                                       !.value = IF acct[a].active THEN "OFF" ELSE "ON"])
        /\ UNCHANGED tables

ToggleWrite(h) ==
    /\ At(h, "toggle_write")
    /\ acct' = [acct EXCEPT ![req[h].acct].active = (req[h].value = "ON")]
    /\ Answer(h)
    /\ UNCHANGED <<token, bridge, ordered, trail, misses>>

(* deleteUser asks whether the account is deleted already; deleteStaff only  *)
(* whether the row exists, and deleteClient leaves that to the update.       *)
DeleteAcctRead(h) ==
    \E a \in ClientAccts \cup Admins \cup StaffAccts :
        /\ acct[a].exists /\ (a \in Admins => ~acct[a].deleted)
        /\ Takes(h, "delete", [NoReq EXCEPT !.pc = "delete_write", !.acct = a,
                                            !.value = "DELETE"])
        /\ UNCHANGED tables

(* What follows the deletion of a.  Variant: an administrator's is not       *)
(* audited.                                                                  *)
AfterDelete_Silent(h, a) == Answer(h)
AfterDelete(h, a) == IF a \in Admins THEN Step(h, "audit_write") ELSE Answer(h)

DeleteAcctWrite(h) ==
    /\ At(h, "delete_write")
    /\ acct' = [acct EXCEPT ![req[h].acct].deleted = TRUE,
                            ![req[h].acct].active = @ /\ req[h].acct \notin StaffAccts]
    /\ AfterDelete(h, req[h].acct)
    /\ UNCHANGED <<token, bridge, ordered, trail, misses>>

AuditWrite(h) ==
    /\ At(h, "audit_write")
    /\ trail' = trail \cup {<<req[h].acct, req[h].value>>}
    /\ Answer(h)
    /\ UNCHANGED <<acct, token, bridge, ordered, misses>>

-----------------------------------------------------------------------------

(* One unit of a duration.  Variant: it runs on below zero.                  *)
Elapse_Below(n) == n - 1
Elapse(n) == IF n = 0 THEN 0 ELSE n - 1

TimePasses ==
    /\ acct' = [a \in AllAccounts |-> [acct[a] EXCEPT !.lock = Elapse(@)]]
    /\ token' = [k \in Tokens |-> [token[k] EXCEPT !.life = Elapse(@)]]
    /\ <<acct', token'>> # <<acct, token>>
    /\ UNCHANGED <<bridge, ordered, trail, misses, req, counts>>

(* A database call fails, or the process restarts under the handler. *)
HandlerFails(h) ==
    /\ ~At(h, "idle") /\ errors < MaxErrors
    /\ req' = [req EXCEPT ![h] = NoReq]
    /\ errors' = errors + 1
    /\ UNCHANGED <<tables, requests>>

LoginStep(h) ==
    \/ AdminLogin(h) \/ ClientLogin(h) \/ BuyerLogin(h) \/ StaffLogin(h)
    \/ UnifiedRequest(h) \/ UnifiedClient(h) \/ UnifiedStaff(h) \/ UnifiedBuyer(h)
    \/ RecordFailedAttempt(h) \/ RecordSuccessfulLogin(h) \/ SaveRefreshToken(h)
    \/ UpsertUserBridgeRecord(h) \/ UpsertFails(h)
    \/ RefreshRead(h) \/ RefreshRevoke(h) \/ Logout(h)

ManagementStep(h) ==
    \/ RegisterRead(h) \/ CreateAdminRead(h) \/ GuestRead(h) \/ RegisterWrite(h)
    \/ SubscriptionWrite(h) \/ StatusRead(h) \/ StatusWrite(h) \/ ToggleRead(h)
    \/ ToggleWrite(h) \/ DeleteAcctRead(h) \/ DeleteAcctWrite(h) \/ AuditWrite(h)

AccountNext ==
    \/ \E h \in Handlers : LoginStep(h) \/ ManagementStep(h) \/ HandlerFails(h)
    \/ TimePasses

AccountSpec == AccountInit /\ [][AccountNext]_accountVars

-----------------------------------------------------------------------------
(* Properties *)

(* Every column has its type; the counters of failed logins, requests and    *)
(* failed calls are numbers.                                                 *)
AccountTypeOK ==
    /\ acct \in [AllAccounts -> AcctRow]
    /\ token \in [Tokens -> TokenRow]
    /\ bridge \subseteq AllAccounts
    /\ ordered \subseteq AllAccounts
    /\ trail \subseteq AllAccounts \X {"ACTIVE", "INACTIVE", "CREATE", "DELETE"}
    /\ misses \in [AllAccounts -> Nat]
    /\ req \in [Handlers -> ReqRow]
    /\ requests \in Nat
    /\ errors \in Nat

(* A refresh token that has a successor is dead, and the successor belongs   *)
(* to the same account: revoking and issuing are two statements, and no      *)
(* failure in between leaves two tokens of one session good for a refresh    *)
(* (auth.service.ts:300-353).                                                *)
RotatedTokensAreDead ==
    \A k \in Tokens : token[k].exists /\ token[k].parent # 0 =>
        /\ token[token[k].parent].exists
        /\ token[token[k].parent].revoked
        /\ token[token[k].parent].acct = token[k].acct

(* A token can be exchanged more than once only by requests that overlap: it *)
(* never has more successors than there are handlers at once                 *)
(* (auth.service.ts:285-304).                                                *)
RotationIsBounded ==
    \A k \in Tokens :
        Cardinality({j \in Tokens : token[j].exists /\ token[j].parent = k})
            <= Cardinality(Handlers)

(* No table has two accounts of one e-mail, although every registration, and *)
(* every payment or import that brings a guest, looks first and inserts      *)
(* later (auth.service.ts:104-126, staff.service.ts:64-74,                   *)
(* buyers.service.ts:23-40, admin.service.ts:249-256, 430-444,               *)
(* payment.service.ts:63-81).                                                *)
OneAccountPerEmail ==
    \A a, b \in AllAccounts :
        (acct[a].exists /\ acct[b].exists /\ a # b /\ Table(a) = Table(b)
         /\ acct[a].email # null) => acct[a].email # acct[b].email

(* Overlapping failures overwrite each other's count, but with two requests  *)
(* at a time the lock still comes before 1 + 2 + ... + MaxFailed wrong       *)
(* passwords have been written down (auth.service.ts:463-482, 72-84).        *)
LostFailuresAreLimited ==
    Cardinality(Handlers) = 2 =>
        \A a \in Counted : 2 * misses[a] < MaxFailed * (MaxFailed + 1)

(* A handler that creates or deletes an account in one statement and writes  *)
(* what belongs to it in the next leaves nothing half done unless a call     *)
(* failed: with nothing in flight, an administrator of createUser and every  *)
(* administrator deleted is in the audit log, a client, a staff member and a *)
(* buyer that registered is in users, and a client that registered for a     *)
(* plan has its subscription; no audit row tells of what did not happen.     *)
(* Nothing of the kind is said of createAdmin, which writes no audit row     *)
(* (admin.service.ts:249-259), nor of guests, who are not in users           *)
(* (payment.service.ts:72-80, 1201-1209, 1600, 1773)                         *)
(* (admin.service.ts:430-604, auth.service.ts:115-160,                       *)
(* staff.service.ts:76-90, buyers.service.ts:43-57).                         *)
NothingIsHalfDone ==
    /\ \A a \in Admins :
        /\ <<a, "CREATE">> \in trail => acct[a].exists
        /\ <<a, "DELETE">> \in trail => acct[a].deleted
    /\ (errors = 0 /\ \A h \in Handlers : At(h, "idle")) =>
        \A a \in AllAccounts :
            /\ acct[a].by = "register" =>
                 IF a \in Admins THEN <<a, "CREATE">> \in trail ELSE a \in bridge
            /\ a \in Admins /\ acct[a].deleted => <<a, "DELETE">> \in trail
            /\ acct[a].plan => a \in ordered

(* "Sequentially searches Client -> ClientStaff -> Buyer tables for a        *)
(* matching identifier (email or phone). Returns the first match"            *)
(* (auth.service.ts:397-399): a login that reaches the staff table with a    *)
(* buyer's phone goes on to find the buyer, unless a call fails.             *)
PhoneLoginsReachTheBuyer ==
    [][\A h \in Handlers :
        (/\ At(h, "find_staff") /\ req'[h].pc = "idle" /\ errors' = errors
         /\ ~\E a \in StaffAccts : HasId(a, req[h].id))
        => ~\E a \in BuyerAccts : HasId(a, req[h].id)]_accountVars
=============================================================================
