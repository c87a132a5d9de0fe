------------------------------ MODULE Services ------------------------------
(***************************************************************************)
(* The specifications that stand for themselves, side by side: the ledger  *)
(* of the stock and the services around the documents.  They share no      *)
(* state; a behaviour is one of one of them, `part` says which.            *)
(***************************************************************************)
EXTENDS StockLedger

CONSTANTS
    Holder, Slot, MaxTokens,                       \* of Accounts
    User, Founder, Grants, Administrator,          \* of UserAdmin
    Drawer, MaxNumber,                             \* of Numbers
    Writer, Viewer, MaxCommits,                    \* of Events
    Job, MaxInserts, MaxResets,                    \* of Database
    Scanner, Limit, MaxScans,                      \* of Quota
    Editor, Rate, Category, Root, Together, Moves  \* of MasterData

VARIABLES
    part,
    standing, token, session, ended, forked,
    user, administering,
    number, sequenceRow, docs, drawing,
    commits, dipped, queue, due, trail, missing, unread, told, cached, view,
    exists, filled, job, dangling, touched, refused, inserts, resets,
    open, units, granted, late, scans, scanning,
    rate, category, saving

ofAccounts == <<standing, token, session, ended, forked>>
ofUserAdmin == <<user, administering>>
ofNumbers == <<number, sequenceRow, docs, drawing>>
ofEvents == <<commits, dipped, queue, due, trail, missing, unread, told, cached, view>>
ofDatabase == <<exists, filled, job, dangling, touched, refused, inserts, resets>>
ofQuota == <<open, units, granted, late, scans, scanning>>
ofMasterData == <<rate, category, saving>>

all ==
    <<part, stock, ofAccounts, ofUserAdmin, ofNumbers, ofEvents, ofDatabase, ofQuota,
      ofMasterData>>

Accounts == INSTANCE Accounts WITH user <- standing, call <- session, User <- Holder
UserAdmin == INSTANCE UserAdmin WITH call <- administering, Slot <- Administrator
Numbers == INSTANCE Numbers
    WITH counter <- number, row <- sequenceRow, req <- drawing, Request <- Drawer
Events == INSTANCE Events WITH Request <- Writer
DB == INSTANCE Database
Quota == INSTANCE Quota WITH counter <- units, call <- scanning, Request <- Scanner
MasterData == INSTANCE MasterData WITH call <- saving, Request <- Editor

ServicesInit ==
    /\ part \in {"ledger", "accounts", "users", "numbers", "events", "database", "quota", "masters"}
    /\ Init
    /\ Accounts!Init
    /\ UserAdmin!Init
    /\ Numbers!Init
    /\ Events!Init
    /\ DB!Init
    /\ Quota!Init
    /\ MasterData!Init

\* Only the variables of this part may change.
Only(p) ==
    /\ part = p
    /\ UNCHANGED part
    /\ IF p = "ledger" THEN TRUE ELSE UNCHANGED stock
    /\ IF p = "accounts" THEN TRUE ELSE UNCHANGED ofAccounts
    /\ IF p = "users" THEN TRUE ELSE UNCHANGED ofUserAdmin
    /\ IF p = "numbers" THEN TRUE ELSE UNCHANGED ofNumbers
    /\ IF p = "events" THEN TRUE ELSE UNCHANGED ofEvents
    /\ IF p = "database" THEN TRUE ELSE UNCHANGED ofDatabase
    /\ IF p = "quota" THEN TRUE ELSE UNCHANGED ofQuota
    /\ IF p = "masters" THEN TRUE ELSE UNCHANGED ofMasterData

ServicesNext ==
    \/ Only("ledger") /\ BoundedNext
    \/ Only("accounts") /\ Accounts!Next
    \/ Only("users") /\ UserAdmin!Next
    \/ Only("numbers") /\ Numbers!Next
    \/ Only("events") /\ Events!Next
    \/ Only("database") /\ DB!Next
    \/ Only("quota") /\ Quota!Next
    \/ Only("masters") /\ MasterData!Next

ServicesSpec == ServicesInit /\ [][ServicesNext]_all /\ Events!Fairness

-----------------------------------------------------------------------------
(* What the run checks, under the names of the modules; TypeOK and         *)
(* NoOversell are those of StockLedger.                                    *)

\* Accounts: a login is worth one refresh token unless two refreshes of one
\* overlapped, and none once it was ended.
OneTokenPerLogin == part = "accounts" => Accounts!OneTokenPerLogin

\* UserAdmin: the last administrator goes only by giving up the role, or by a
\* request that outlives its caller's.
LastAdministrator == UserAdmin!LastAdministrator

\* UserAdmin: menu, endpoints and forms agree, for every holder of a role.
RolesFit == part = "users" => UserAdmin!RolesFit

\* Numbers: a number that is drawn is nobody else's.
NumbersFresh == part = "numbers" => Numbers!NumbersFresh

\* Events: of every commit the entries and warnings are written, under way or
\* the handler's own failure.
NothingForgotten == part = "events" => Events!NothingForgotten

\* Events: the cached dashboard becomes current when commits stop.
DashboardCatchesUp == Events!DashboardCatchesUp

\* Database: migrations, seeds and resets keep references whole.
ReferencesHold == part = "database" => DB!ReferencesHold

\* Quota: exactly the quota is handed out before anybody is refused.
QuotaExact == part = "quota" => Quota!QuotaExact

\* MasterData: one default tax rate, no category under a deleted one.
MastersSound == part = "masters" => MasterData!MastersSound
=============================================================================
