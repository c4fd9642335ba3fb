----------------------------- MODULE Directory -----------------------------
(***************************************************************************)
(* The user directory of the control plane: what a start makes of the      *)
(* database (tables and columns, seeds, the credentials of rows that are   *)
(* older than credentials), log-in at its two doors, and the requests that *)
(* create users and change passwords.                                      *)
(*                                                                         *)
(* A start writes statement by statement, without a transaction around     *)
(* them, and can end anywhere; the server answers only after it.  A user   *)
(* who changes the password has the old one checked and the new one        *)
(* written in two statements, with the hashing in between.                 *)
(*                                                                         *)
(* Accounts are normalised (trimmed, lower case): two rows may be of one   *)
(* account, as nothing keeps a second one out.                             *)
(***************************************************************************)
EXTENDS Naturals, FiniteSets, Sequences

CONSTANTS
    Account,    \* normalised accounts
    Admin,      \* the account of the built-in administrator
    Risky,      \* accounts that need a second factor at the portal
    Pw,         \* passwords
    SeedPw,     \* the password of seeds and of rows without one
    NoHash,     \* the empty hash
    Statuses,   \* the statuses that administrators set, out of Status
    Seeds,      \* the seeds: accounts and their display roles, in order
    Databases,  \* what a start may find: the rows of an older version, or none
    MaxRows,    \* bound: rows of the table
    MaxCrash,   \* bound: starts that end before their time
    MaxChanges  \* bound: changes of passwords under way at once

Status == {"active", "disabled", "locked", "idle"}
Role == {"admin", "user"}
Column == {"users", "pass_hash", "role"}     \* the table, and what was added to it

\* "seeded" says that the row's id is the one of a seed; "role" is what the role
\* column holds or, in a row of an older version that has not got one yet, what
\* the display roles amount to (roleFromDisplay).
Row == [acct : Account, seeded : BOOLEAN, role : Role, hasRole : BOOLEAN,
        status : Status, pass : Pw \cup {NoHash}]

ASSUME DirectoryAssumption ==
    /\ Admin \in Account /\ Statuses \subseteq Status
    /\ SeedPw \in Pw /\ NoHash \notin Pw
    /\ Seeds \in Seq([acct : Account \ {Admin}, role : Role, status : Status])
    /\ \A i, j \in 1 .. Len(Seeds) : Seeds[i].acct = Seeds[j].acct => i = j
    /\ Databases \subseteq Seq(Row)
    /\ \A d \in Databases : \A i \in 1 .. Len(d) :
          ~d[i].seeded /\ ~d[i].hasRole /\ d[i].pass = NoHash

\* The table has room for what a start inserts.
ASSUME DirectoryBounds ==
    /\ MaxRows \in Nat /\ MaxCrash \in Nat
    /\ Len(Seeds) < MaxRows
    /\ \A d \in Databases : Len(d) < MaxRows

VARIABLES
    users,      \* database: the rows, in the order they were inserted
    cols,       \* database: the table and its columns
    boot,       \* where the start is
    left,       \* seeds that the start has inserted
    sessions,   \* session tokens in use, [sub, role]
    changes,    \* changes of passwords under way
    reset,      \* history: the last reset by an administrator: row and password,
                \* and whether a change of that row was under way
    crashes

vars == <<users, cols, boot, left, sessions, changes, reset, crashes>>

Boot == {"down", "migrate", "seed", "insert", "roles", "hashes", "admin", "up"}
RowNo == 1 .. MaxRows
Session == [sub : Account, role : Role]
Change == [row : RowNo, old : Pw, new : Pw]
Reset == [row : RowNo \cup {0}, pass : Pw \cup {NoHash}, raced : BOOLEAN]
NoReset == [row |-> 0, pass |-> NoHash, raced |-> FALSE]

TypeOK ==
    /\ users \in Seq(Row) /\ Len(users) <= MaxRows
    /\ cols \subseteq Column
    /\ users # <<>> => "users" \in cols
    /\ boot \in Boot
    /\ left \in 0 .. Len(Seeds)
    /\ sessions \subseteq Session
    /\ changes \subseteq Change
    /\ \A c \in changes : boot = "up" /\ c.row <= Len(users)
    /\ reset \in Reset
    /\ crashes \in 0 .. MaxCrash

Init ==
    /\ \E d \in Databases :
          /\ users = d
          /\ cols = IF d = <<>> THEN {} ELSE {"users"}
    /\ boot = "down"
    /\ left = 0
    /\ sessions = {}
    /\ changes = {}
    /\ reset = NoReset
    /\ crashes = 0

-----------------------------------------------------------------------------
VerifyPassword(hash, plain) == hash # NoHash /\ hash = plain

AccountBlocked(status) == status \in {"disabled", "locked"}

RowsOf(a) == {i \in 1 .. Len(users) : users[i].acct = a}

\* The row that a look-up of an account returns, 0 when there is none: the
\* first one inserted.
Credential(a) == IF RowsOf(a) = {} THEN 0 ELSE CHOOSE i \in RowsOf(a) : \A j \in RowsOf(a) : i <= j

HasSeed(a) == \E i \in RowsOf(a) : users[i].seeded

request == <<sessions, changes, reset>>

Goto(b) == boot' = b

Seeded(a, role, status) ==
    [acct |-> a, seeded |-> TRUE, role |-> role, hasRole |-> TRUE, status |-> status,
     pass |-> SeedPw]

-----------------------------------------------------------------------------
(* A start.                                                                *)

Open ==
    /\ boot = "down"
    /\ Goto("migrate")
    /\ left' = 0
    /\ UNCHANGED <<users, cols, request, crashes>>

CreateTables ==
    /\ boot = "migrate"
    /\ "users" \notin cols
    /\ cols' = Column
    /\ UNCHANGED <<users, boot, left, request, crashes>>

AddColumn ==
    /\ boot = "migrate"
    /\ "users" \in cols
    /\ \E c \in Column \ cols : cols' = cols \cup {c}
    /\ UNCHANGED <<users, boot, left, request, crashes>>

Migrated ==
    /\ boot = "migrate"
    /\ cols = Column
    /\ Goto("seed")
    /\ UNCHANGED <<users, cols, left, request, crashes>>

\* Slips: whatever is missing is seeded; a table with rows needs nothing.
SeedMissing ==
    /\ boot = "seed"
    /\ Goto(IF Len(users) <= Len(Seeds) THEN "insert" ELSE "roles")
    /\ UNCHANGED <<users, cols, left, request, crashes>>

SeedOrServe ==
    /\ boot = "seed"
    /\ Goto(IF users = <<>> THEN "insert" ELSE "up")
    /\ UNCHANGED <<users, cols, left, request, crashes>>

\* Only an empty table is seeded.
CountUsers ==
    /\ boot = "seed"
    /\ Goto(IF users = <<>> THEN "insert" ELSE "roles")
    /\ UNCHANGED <<users, cols, left, request, crashes>>

\* The seeds one by one, the administrator after them; an id that is taken would
\* end the start for good, before the server answers.
SeedUser ==
    /\ boot = "insert"
    /\ left < Len(Seeds)
    /\ LET s == Seeds[left + 1] IN
          /\ ~HasSeed(s.acct)
          /\ users' = Append(users, Seeded(s.acct, s.role, s.status))
    /\ left' = left + 1
    /\ UNCHANGED <<cols, boot, request, crashes>>

SeedAdmin ==
    /\ boot = "insert"
    /\ left = Len(Seeds)
    /\ ~HasSeed(Admin)
    /\ users' = Append(users, Seeded(Admin, "admin", "active"))
    /\ Goto("roles")
    /\ UNCHANGED <<cols, left, request, crashes>>

FillRole ==
    /\ boot = "roles"
    /\ \E i \in 1 .. Len(users) : ~users[i].hasRole /\ users' = [users EXCEPT ![i].hasRole = TRUE]
    /\ UNCHANGED <<cols, boot, left, request, crashes>>

RolesFilled ==
    /\ boot = "roles"
    /\ \A i \in 1 .. Len(users) : users[i].hasRole
    /\ Goto("hashes")
    /\ UNCHANGED <<users, cols, left, request, crashes>>

FillHashes ==
    /\ boot = "hashes"
    /\ users' = [i \in 1 .. Len(users) |->
                    IF users[i].pass = NoHash THEN [users[i] EXCEPT !.pass = SeedPw] ELSE users[i]]
    /\ Goto("admin")
    /\ UNCHANGED <<cols, left, request, crashes>>

EnsureAdmin ==
    /\ boot = "admin"
    /\ users' = IF RowsOf(Admin) = {} THEN Append(users, Seeded(Admin, "admin", "active")) ELSE users
    /\ Goto("up")
    /\ UNCHANGED <<cols, left, request, crashes>>

\* The process ends, in a start or at work; requests under way are lost,
\* tokens live on (the secret comes from the environment).
Crash ==
    /\ boot # "down"
    /\ crashes < MaxCrash
    /\ crashes' = crashes + 1
    /\ Goto("down")
    /\ changes' = {}
    /\ UNCHANGED <<users, cols, left, sessions, reset>>

-----------------------------------------------------------------------------
(* Log-in and the requests of users and administrators.                    *)

Up == boot = "up"

\* Slip: the role is not asked at the administrators' door.
AdminLoginByPassword(a, pw) ==
    /\ Up
    /\ Credential(a) # 0
    /\ LET cred == users[Credential(a)] IN
          VerifyPassword(cred.pass, pw) /\ ~AccountBlocked(cred.status)
    /\ sessions' = sessions \cup {[sub |-> a, role |-> "admin"]}
    /\ UNCHANGED <<users, cols, boot, left, changes, reset, crashes>>

AdminLogin(a, pw) ==
    /\ Up
    /\ Credential(a) # 0
    /\ LET cred == users[Credential(a)] IN
          VerifyPassword(cred.pass, pw) /\ cred.role = "admin" /\ ~AccountBlocked(cred.status)
    /\ sessions' = sessions \cup {[sub |-> a, role |-> "admin"]}
    /\ UNCHANGED <<users, cols, boot, left, changes, reset, crashes>>

PortalLogin(a, pw, mfa) ==
    /\ Up
    /\ Credential(a) # 0
    /\ LET cred == users[Credential(a)] IN
          /\ VerifyPassword(cred.pass, pw) /\ ~AccountBlocked(cred.status)
          /\ a \in Risky => mfa
          /\ sessions' = sessions \cup {[sub |-> a, role |-> cred.role]}
    /\ UNCHANGED <<users, cols, boot, left, changes, reset, crashes>>

Expire(t) ==
    /\ sessions' = sessions \ {t}
    /\ UNCHANGED <<users, cols, boot, left, changes, reset, crashes>>

\* requireAdmin asks the token, not the directory.
AnAdminAsks == Up /\ \E t \in sessions : t.role = "admin"

\* The role is the one given or what the display roles amount to.
Created(a, role, status, pw) ==
    [acct |-> a, seeded |-> FALSE, role |-> role, hasRole |-> TRUE, status |-> status, pass |-> pw]

CreateUser(a, role, status, pw) ==
    /\ AnAdminAsks
    /\ Len(users) < MaxRows
    /\ users' = Append(users, Created(a, role, status, pw))
    /\ UNCHANGED <<cols, boot, left, request, crashes>>

SetUserStatus(i, status) ==
    /\ AnAdminAsks
    /\ users' = [users EXCEPT ![i].status = status]
    /\ UNCHANGED <<cols, boot, left, request, crashes>>

ResetUserPassword(i, pw) ==
    /\ AnAdminAsks
    /\ users' = [users EXCEPT ![i].pass = pw]
    /\ reset' = [row |-> i, pass |-> pw, raced |-> \E c \in changes : c.row = i]
    /\ UNCHANGED <<cols, boot, left, sessions, changes, crashes>>

\* Slip: a session is enough to change the password.
BeginChangeBySession(t, old, new) ==
    /\ Up
    /\ Credential(t.sub) # 0
    /\ Cardinality(changes) < MaxChanges
    /\ changes' = changes \cup {[row |-> Credential(t.sub), old |-> old, new |-> new]}
    /\ UNCHANGED <<users, cols, boot, left, sessions, reset, crashes>>

\* The old password is checked; the new one is hashed.
BeginChange(t, old, new) ==
    /\ Up
    /\ Credential(t.sub) # 0
    /\ VerifyPassword(users[Credential(t.sub)].pass, old)
    /\ Cardinality(changes) < MaxChanges
    /\ changes' = changes \cup {[row |-> Credential(t.sub), old |-> old, new |-> new]}
    /\ UNCHANGED <<users, cols, boot, left, sessions, reset, crashes>>

WriteChange(c) ==
    /\ users' = [users EXCEPT ![c.row].pass = c.new]
    /\ changes' = changes \ {c}
    /\ reset' = IF c.row = reset.row /\ c.old = reset.pass THEN NoReset ELSE reset
    /\ UNCHANGED <<cols, boot, left, sessions, crashes>>

Start ==
    \/ Open \/ CreateTables \/ AddColumn \/ Migrated \/ CountUsers \/ SeedUser
    \/ SeedAdmin \/ FillRole \/ RolesFilled \/ FillHashes \/ EnsureAdmin

Next ==
    \/ Start
    \/ Crash
    \/ \E a \in Account, pw \in Pw :
          AdminLogin(a, pw) \/ \E mfa \in BOOLEAN : PortalLogin(a, pw, mfa)
    \/ \E a \in Account, role \in Role, status \in Statuses, pw \in Pw :
          CreateUser(a, role, status, pw)
    \/ \E i \in 1 .. Len(users) :
          \/ \E status \in Statuses : SetUserStatus(i, status)
          \/ \E pw \in Pw : ResetUserPassword(i, pw)
    \/ \E t \in sessions :
          Expire(t) \/ \E old, new \in Pw : BeginChange(t, old, new)
    \/ \E c \in changes : WriteChange(c)

\* A start goes on, and a process that ended is started again by its service
\* manager.
Spec == Init /\ [][Next]_vars /\ WF_vars(Start)

-----------------------------------------------------------------------------
\* The server never answers over half a start: every row has a role and a
\* password, the columns are there, and the administrator's account is one,
\* unless an older version had a user of that name that was none
\* (ensureCredentials, after a start that ended anywhere).  (Every variable
\* keeps its type, too.)
ServesWhole ==
    /\ TypeOK
    /\ Up =>
        /\ cols = Column
        /\ \A i \in 1 .. Len(users) : users[i].hasRole /\ users[i].pass # NoHash
        /\ Credential(Admin) # 0
        /\ LET first == users[Credential(Admin)] IN
              first.role = "admin" \/ ~first.seeded

\* A token says of its account what the directory says: through restarts,
\* backfills and second rows of the account alike (handlePortalLogin,
\* handleAdminLogin, Credential).
TokenRoleIsStored ==
    \A t \in sessions : Credential(t.sub) # 0 /\ users[Credential(t.sub)].role = t.role

\* A password that an administrator set stands until someone who knows it
\* changes it; only a change that was past its check of the old password at
\* the time of the reset still overrides it (handleChangePassword,
\* handleResetUserPassword).
ResetStands ==
    reset # NoReset => users[reset.row].pass = reset.pass \/ reset.raced

\* However often starts are cut off, and wherever: one that is not ends with
\* the server up (OpenSQLite).
StartsSucceed == boot = "down" ~> Up

=============================================================================
