--------------------------- MODULE DirectoryProofs ---------------------------
(***************************************************************************)
(* Proofs about Directory, for all accounts, passwords, seeds and          *)
(* databases of an older version, and any number of starts cut short.      *)
(***************************************************************************)
EXTENDS Directory, SequenceTheorems, WellFoundedInduction, TLAPS

(***************************************************************************)
(* The inductive invariant.                                                *)
(***************************************************************************)

\* What a start has behind it, whatever it found.
StartGoesOn ==
    /\ boot \notin {"down", "migrate"} => cols = Column
    /\ boot \in {"hashes", "admin", "up"} => \A i \in 1 .. Len(users) : users[i].hasRole
    /\ boot \in {"admin", "up"} => \A i \in 1 .. Len(users) : users[i].pass # NoHash
    /\ boot = "up" => RowsOf(Admin) # {}

\* A seed of the administrator's account is an administrator.
AdminSeedIsAdmin ==
    \A i \in 1 .. Len(users) : users[i].acct = Admin /\ users[i].seeded => users[i].role = "admin"

\* While the seeds go in there is nothing else, and room for the administrator
\* is left until it is there.
RoomForAdmin ==
    /\ boot \in {"migrate", "seed"} => left = 0
    /\ boot = "insert" => Len(users) = left
    /\ RowsOf(Admin) = {} => Len(users) < MaxRows

\* Whoever is about to change a password that was reset since knows the new one.
ResetIsKnown ==
    reset # NoReset =>
        /\ reset.row \in 1 .. Len(users)
        /\ reset.pass \in Pw
        /\ ~reset.raced =>
              /\ users[reset.row].pass = reset.pass
              /\ \A c \in changes : c.row = reset.row => c.old = reset.pass

DirectoryInv ==
    /\ TypeOK
    /\ StartGoesOn
    /\ AdminSeedIsAdmin
    /\ RoomForAdmin
    /\ TokenRoleIsStored
    /\ ResetIsKnown

(***************************************************************************)
(* Tables of rows.                                                         *)
(***************************************************************************)

LEMMA FirstOne == ASSUME NEW T \in SUBSET Nat, T # {} PROVE \E i \in T : \A j \in T : i <= j
<1> DEFINE Less == OpToRel(<, Nat)
<1>1. \E i \in T : \A j \in T : <<j, i>> \notin Less
  BY NatLessThanWellFounded, WFMin
<1>2. \A i, j \in Nat : j < i => <<j, i>> \in Less
  BY DEF OpToRel
<1> HIDE DEF Less
<1>3. PICK i \in T : \A j \in T : <<j, i>> \notin Less
  BY <1>1
<1>4. \A j \in T : ~(j < i)
  BY <1>2, <1>3
<1>5. \A j \in T : i <= j
  BY <1>4
<1> QED BY <1>5

\* The first row of an account, in a table of its own name.
RowsIn(us, a) == {i \in 1 .. Len(us) : us[i].acct = a}

FirstIn(us, a) == IF RowsIn(us, a) = {} THEN 0
                  ELSE CHOOSE i \in RowsIn(us, a) : \A j \in RowsIn(us, a) : i <= j

LEMMA CredentialIsFirst == \A a : RowsOf(a) = RowsIn(users, a) /\ Credential(a) = FirstIn(users, a)
BY DEF RowsOf, Credential, RowsIn, FirstIn

LEMMA FirstInDef ==
    ASSUME NEW us \in Seq(Row), NEW a
    PROVE  /\ FirstIn(us, a) = 0 <=> RowsIn(us, a) = {}
           /\ FirstIn(us, a) # 0 => /\ FirstIn(us, a) \in RowsIn(us, a)
                                    /\ \A j \in RowsIn(us, a) : FirstIn(us, a) <= j
<1>1. RowsIn(us, a) \subseteq Nat /\ 0 \notin RowsIn(us, a)
  BY DEF RowsIn
<1>2. CASE RowsIn(us, a) = {}
  BY <1>2 DEF FirstIn
<1>3. CASE RowsIn(us, a) # {}
  <2>1. \E i \in RowsIn(us, a) : \A j \in RowsIn(us, a) : i <= j
    BY <1>1, <1>3, FirstOne
  <2>2. FirstIn(us, a) \in RowsIn(us, a) /\ \A j \in RowsIn(us, a) : FirstIn(us, a) <= j
    BY <1>3, <2>1 DEF FirstIn
  <2> QED BY <1>1, <1>3, <2>2
<1> QED BY <1>2, <1>3

\* Rows are added at the end, and of a row the account and the role stay.
Grown(us, vs) ==
    /\ Len(us) <= Len(vs)
    /\ \A i \in 1 .. Len(us) :
          vs[i].acct = us[i].acct /\ vs[i].role = us[i].role /\ vs[i].seeded = us[i].seeded

(* What a look-up of an account returned once, it returns for good.        *)
LEMMA FirstStays ==
    ASSUME NEW us \in Seq(Row), NEW vs \in Seq(Row), Grown(us, vs), NEW a, FirstIn(us, a) # 0
    PROVE  FirstIn(vs, a) = FirstIn(us, a)
<1> DEFINE f == FirstIn(us, a)
           g == FirstIn(vs, a)
<1>1. Len(us) \in Nat /\ Len(vs) \in Nat
  BY LenProperties
<1>2. f \in RowsIn(us, a) /\ \A j \in RowsIn(us, a) : f <= j
  BY FirstInDef
<1>3. f \in RowsIn(vs, a)
  BY <1>1, <1>2 DEF RowsIn, Grown
<1>4. g \in RowsIn(vs, a) /\ \A j \in RowsIn(vs, a) : g <= j
  BY <1>3, FirstInDef
<1>5. g <= f
  BY <1>3, <1>4
<1>6. g \in RowsIn(us, a)
  BY <1>1, <1>2, <1>4, <1>5 DEF RowsIn, Grown
<1>7. f <= g /\ f \in Nat /\ g \in Nat
  BY <1>2, <1>4, <1>6 DEF RowsIn
<1> QED BY <1>5, <1>7

LEMMA Added ==
    ASSUME NEW us \in Seq(Row), NEW r \in Row
    PROVE  LET vs == Append(us, r) IN
           /\ vs \in Seq(Row) /\ Len(vs) = Len(us) + 1 /\ vs # <<>>
           /\ \A i \in 1 .. Len(us) : vs[i] = us[i]
           /\ vs[Len(us) + 1] = r
           /\ Grown(us, vs)
BY AppendProperties, LenProperties DEF Grown

\* The same rows, but for what may change in them.
Edited(us, vs) == Len(vs) = Len(us) /\ Grown(us, vs)

LEMMA SetRow ==
    ASSUME NEW us \in Seq(Row), NEW i \in 1 .. Len(us), NEW r \in Row,
           r.acct = us[i].acct, r.role = us[i].role, r.seeded = us[i].seeded
    PROVE  LET vs == [us EXCEPT ![i] = r] IN
           /\ vs \in Seq(Row) /\ Edited(us, vs)
           /\ \A j \in 1 .. Len(us) : vs[j] = IF j = i THEN r ELSE us[j]
<1>1. Len(us) \in Nat /\ us \in [1 .. Len(us) -> Row]
  BY LenProperties
<1>2. [us EXCEPT ![i] = r] \in Seq(Row) /\ Len([us EXCEPT ![i] = r]) = Len(us)
  BY ExceptSeq
<1> QED BY <1>1, <1>2 DEF Edited, Grown

(* The password, the status and the mark of a role are set in place.       *)
LEMMA Edits ==
    ASSUME NEW us \in Seq(Row), NEW i \in 1 .. Len(us)
    PROVE  /\ \A x \in Pw \cup {NoHash} :
                 LET vs == [us EXCEPT ![i].pass = x] IN
                 /\ vs \in Seq(Row) /\ Edited(us, vs)
                 /\ \A j \in 1 .. Len(us) :
                       /\ vs[j].pass = IF j = i THEN x ELSE us[j].pass
                       /\ vs[j].hasRole = us[j].hasRole
           /\ \A x \in Status :
                 LET vs == [us EXCEPT ![i].status = x] IN
                 /\ vs \in Seq(Row) /\ Edited(us, vs)
                 /\ \A j \in 1 .. Len(us) : vs[j].pass = us[j].pass /\ vs[j].hasRole = us[j].hasRole
           /\ LET vs == [us EXCEPT ![i].hasRole = TRUE] IN
                 /\ vs \in Seq(Row) /\ Edited(us, vs)
                 /\ \A j \in 1 .. Len(us) : vs[j].pass = us[j].pass
<1>1. us[i] \in Row
  BY ElementOfSeq
<1>2. ASSUME NEW x \in Pw \cup {NoHash}
      PROVE  LET vs == [us EXCEPT ![i].pass = x] IN
                 /\ vs \in Seq(Row) /\ Edited(us, vs)
                 /\ \A j \in 1 .. Len(us) :
                       /\ vs[j].pass = IF j = i THEN x ELSE us[j].pass
                       /\ vs[j].hasRole = us[j].hasRole
  <2> DEFINE r == [us[i] EXCEPT !.pass = x]
  <2>1. /\ r \in Row /\ r.acct = us[i].acct /\ r.role = us[i].role /\ r.seeded = us[i].seeded
        /\ r.pass = x /\ r.hasRole = us[i].hasRole
    BY <1>1 DEF Row
  <2> HIDE DEF r
  <2>2. LET vs == [us EXCEPT ![i] = r] IN
        /\ vs \in Seq(Row) /\ Edited(us, vs)
        /\ \A j \in 1 .. Len(us) : vs[j] = IF j = i THEN r ELSE us[j]
    BY <2>1, SetRow
  <2>3. [us EXCEPT ![i].pass = x] = [us EXCEPT ![i] = r]
    BY DEF r
  <2> QED BY <2>1, <2>2, <2>3
<1>3. ASSUME NEW x \in Status
      PROVE  LET vs == [us EXCEPT ![i].status = x] IN
                 /\ vs \in Seq(Row) /\ Edited(us, vs)
                 /\ \A j \in 1 .. Len(us) : vs[j].pass = us[j].pass /\ vs[j].hasRole = us[j].hasRole
  <2> DEFINE r == [us[i] EXCEPT !.status = x]
  <2>1. /\ r \in Row /\ r.acct = us[i].acct /\ r.role = us[i].role /\ r.seeded = us[i].seeded
        /\ r.pass = us[i].pass /\ r.hasRole = us[i].hasRole
    BY <1>1 DEF Row
  <2> HIDE DEF r
  <2>2. LET vs == [us EXCEPT ![i] = r] IN
        /\ vs \in Seq(Row) /\ Edited(us, vs)
        /\ \A j \in 1 .. Len(us) : vs[j] = IF j = i THEN r ELSE us[j]
    BY <2>1, SetRow
  <2>3. [us EXCEPT ![i].status = x] = [us EXCEPT ![i] = r]
    BY DEF r
  <2> QED BY <2>1, <2>2, <2>3
<1>4. LET vs == [us EXCEPT ![i].hasRole = TRUE] IN
          /\ vs \in Seq(Row) /\ Edited(us, vs)
          /\ \A j \in 1 .. Len(us) : vs[j].pass = us[j].pass
  <2> DEFINE r == [us[i] EXCEPT !.hasRole = TRUE]
  <2>1. /\ r \in Row /\ r.acct = us[i].acct /\ r.role = us[i].role /\ r.seeded = us[i].seeded
        /\ r.pass = us[i].pass
    BY <1>1 DEF Row
  <2> HIDE DEF r
  <2>2. LET vs == [us EXCEPT ![i] = r] IN
        /\ vs \in Seq(Row) /\ Edited(us, vs)
        /\ \A j \in 1 .. Len(us) : vs[j] = IF j = i THEN r ELSE us[j]
    BY <2>1, SetRow
  <2>3. [us EXCEPT ![i].hasRole = TRUE] = [us EXCEPT ![i] = r]
    BY DEF r
  <2> QED BY <2>1, <2>2, <2>3
<1> QED BY <1>2, <1>3, <1>4

LEMMA Hashed ==
    ASSUME NEW us \in Seq(Row)
    PROVE  LET vs == [i \in 1 .. Len(us) |->
                         IF us[i].pass = NoHash THEN [us[i] EXCEPT !.pass = SeedPw] ELSE us[i]] IN
           /\ vs \in Seq(Row) /\ Edited(us, vs)
           /\ \A j \in 1 .. Len(us) : /\ vs[j].pass = IF us[j].pass = NoHash THEN SeedPw ELSE us[j].pass
                                      /\ vs[j].hasRole = us[j].hasRole
<1> DEFINE vs == [i \in 1 .. Len(us) |->
                     IF us[i].pass = NoHash THEN [us[i] EXCEPT !.pass = SeedPw] ELSE us[i]]
<1>1. Len(us) \in Nat /\ \A i \in 1 .. Len(us) : us[i] \in Row
  BY LenProperties, ElementOfSeq
<1>2. SeedPw \in Pw
  BY DirectoryAssumption DEF DirectoryAssumption
<1>3. \A r \in Row : LET q == [r EXCEPT !.pass = SeedPw] IN
          /\ q \in Row /\ q.acct = r.acct /\ q.role = r.role /\ q.seeded = r.seeded
          /\ q.pass = SeedPw /\ q.hasRole = r.hasRole
  BY <1>2 DEF Row
<1>4. \A i \in 1 .. Len(us) : vs[i] \in Row
  BY <1>1, <1>3
<1>5. vs \in [1 .. Len(us) -> Row]
  BY <1>4
<1>6. vs \in Seq(Row) /\ Len(vs) = Len(us)
  BY <1>1, <1>5, SeqDef, LenProperties
<1>7. \A j \in 1 .. Len(us) :
          /\ vs[j].pass = IF us[j].pass = NoHash THEN SeedPw ELSE us[j].pass
          /\ vs[j].hasRole = us[j].hasRole
          /\ vs[j].acct = us[j].acct /\ vs[j].role = us[j].role /\ vs[j].seeded = us[j].seeded
  BY <1>1, <1>3
<1> HIDE DEF vs
<1>8. Edited(us, vs)
  BY <1>1, <1>6, <1>7 DEF Edited, Grown
<1> QED BY <1>6, <1>7, <1>8 DEF vs

(***************************************************************************)
(* Constants and rows.                                                     *)
(***************************************************************************)

LEMMA Constants ==
    /\ Admin \in Account /\ Statuses \subseteq Status /\ SeedPw \in Pw /\ NoHash \notin Pw
    /\ Len(Seeds) \in Nat /\ MaxRows \in Nat /\ MaxCrash \in Nat /\ Len(Seeds) < MaxRows
    /\ \A i \in 1 .. Len(Seeds) :
          Seeds[i].acct \in Account \ {Admin} /\ Seeds[i].role \in Role /\ Seeds[i].status \in Status
<1>1. Seeds \in Seq([acct : Account \ {Admin}, role : Role, status : Status])
  BY DirectoryAssumption DEF DirectoryAssumption
<1>2. Len(Seeds) \in Nat
  BY <1>1, LenProperties
<1>3. \A i \in 1 .. Len(Seeds) : Seeds[i] \in [acct : Account \ {Admin}, role : Role, status : Status]
  BY <1>1, ElementOfSeq
<1> QED BY <1>2, <1>3, DirectoryAssumption, DirectoryBounds DEF DirectoryAssumption, DirectoryBounds

LEMMA NewRows ==
    /\ \A a \in Account, role \in Role, st \in Status :
          LET r == Seeded(a, role, st) IN
          r \in Row /\ r.acct = a /\ r.seeded /\ r.role = role /\ r.hasRole /\ r.pass = SeedPw
    /\ \A a \in Account, role \in Role, st \in Status, pw \in Pw :
          LET r == Created(a, role, st, pw) IN
          r \in Row /\ r.acct = a /\ ~r.seeded /\ r.role = role /\ r.hasRole /\ r.pass = pw
BY Constants DEF Seeded, Created, Row

(* A step adds one row at the end, sets passwords, statuses or marks in    *)
(* place, or leaves the table alone.                                       *)
LEMMA UsersStep ==
    ASSUME TypeOK, [Next]_vars
    PROVE  users' \in Seq(Row) /\ Grown(users, users')
<1> USE DEF request
<1>0. users \in Seq(Row) /\ Len(users) \in Nat
  BY LenProperties DEF TypeOK
<1> DEFINE Goal == users' \in Seq(Row) /\ Grown(users, users')
<1>1. CASE UNCHANGED users
  BY <1>0, <1>1 DEF Grown
<1>2. CASE SeedUser
  <2>1. left + 1 \in 1 .. Len(Seeds)
    BY <1>2, Constants DEF SeedUser, TypeOK
  <2>2. Seeded(Seeds[left + 1].acct, Seeds[left + 1].role, Seeds[left + 1].status) \in Row
    BY <2>1, Constants, NewRows
  <2> QED BY <1>0, <1>2, <2>2, Added DEF SeedUser
<1>3. CASE SeedAdmin \/ EnsureAdmin
  <2>1. Seeded(Admin, "admin", "active") \in Row
    BY Constants, NewRows DEF Role, Status
  <2> QED BY <1>0, <1>1, <1>3, <2>1, Added DEF SeedAdmin, EnsureAdmin
<1>4. CASE FillRole
  <2>1. PICK i \in 1 .. Len(users) : users' = [users EXCEPT ![i].hasRole = TRUE]
    BY <1>4 DEF FillRole
  <2> QED BY <1>0, <2>1, Edits DEF Edited
<1>5. CASE FillHashes
  BY <1>0, <1>5, Hashed DEF FillHashes, Edited
<1>6. ASSUME NEW a \in Account, NEW role \in Role, NEW st \in Statuses, NEW pw \in Pw,
             CreateUser(a, role, st, pw)
      PROVE  Goal
  <2>1. Created(a, role, st, pw) \in Row
    BY Constants, NewRows
  <2> QED BY <1>0, <1>6, <2>1, Added DEF CreateUser
<1>7. ASSUME NEW i \in 1 .. Len(users), NEW st \in Statuses, SetUserStatus(i, st) PROVE Goal
  <2>1. st \in Status
    BY Constants
  <2> QED BY <1>0, <1>7, <2>1, Edits DEF SetUserStatus, Edited
<1>8. ASSUME NEW i \in 1 .. Len(users), NEW pw \in Pw, ResetUserPassword(i, pw) PROVE Goal
  BY <1>0, <1>8, Edits DEF ResetUserPassword, Edited
<1>9. ASSUME NEW c \in changes, WriteChange(c) PROVE Goal
  <2>1. c.row \in 1 .. Len(users) /\ c.new \in Pw
    BY <1>0, Constants DEF TypeOK, Change, RowNo
  <2> QED BY <1>0, <1>9, <2>1, Edits DEF WriteChange, Edited
<1> QED
  BY <1>1, <1>2, <1>3, <1>4, <1>5, <1>6, <1>7, <1>8, <1>9
  DEF Next, Start, vars, Open, CreateTables, AddColumn, Migrated, CountUsers, RolesFilled, Crash,
      AdminLogin, PortalLogin, Expire, BeginChange

LEMMA RowsStay ==
    ASSUME TypeOK, [Next]_vars
    PROVE  \A a : /\ Credential(a) # 0 =>
                        /\ Credential(a)' = Credential(a)
                        /\ Credential(a) \in 1 .. Len(users)
                        /\ users'[Credential(a)].role = users[Credential(a)].role
                  /\ RowsOf(a) # {} => RowsOf(a)' # {}
<1>1. users \in Seq(Row) /\ users' \in Seq(Row) /\ Grown(users, users')
  BY UsersStep DEF TypeOK
<1>2. \A us \in Seq(Row) : \A a : RowsIn(us, a) # {} <=> FirstIn(us, a) # 0
  BY FirstInDef
<1>3. ASSUME NEW a, FirstIn(users, a) # 0
      PROVE  /\ FirstIn(users', a) = FirstIn(users, a)
             /\ FirstIn(users, a) \in 1 .. Len(users)
             /\ users'[FirstIn(users, a)].role = users[FirstIn(users, a)].role
  <2>1. FirstIn(users', a) = FirstIn(users, a)
    BY <1>1, <1>3, FirstStays
  <2>2. FirstIn(users, a) \in 1 .. Len(users)
    BY <1>1, <1>3, FirstInDef DEF RowsIn
  <2> QED BY <1>1, <2>1, <2>2 DEF Grown
<1>4. \A a : /\ RowsOf(a) = RowsIn(users, a) /\ Credential(a) = FirstIn(users, a)
             /\ RowsOf(a)' = RowsIn(users', a) /\ Credential(a)' = FirstIn(users', a)
  BY DEF RowsOf, Credential, RowsIn, FirstIn
<1> QED BY <1>1, <1>2, <1>3, <1>4

(***************************************************************************)
(* The steps, conjunct by conjunct.                                        *)
(***************************************************************************)

LEMMA InitInv == Init => DirectoryInv
<1> SUFFICES ASSUME Init PROVE DirectoryInv
  OBVIOUS
<1>1. PICK d \in Databases : users = d /\ cols = IF d = <<>> THEN {} ELSE {"users"}
  BY DEF Init
<1>2. /\ users \in Seq(Row) /\ Len(users) \in Nat /\ Len(users) < MaxRows
      /\ \A i \in 1 .. Len(users) : ~users[i].seeded
  BY <1>1, DirectoryAssumption, DirectoryBounds, LenProperties
  DEF DirectoryAssumption, DirectoryBounds
<1>3. boot = "down" /\ left = 0 /\ sessions = {} /\ changes = {} /\ reset = NoReset /\ crashes = 0
  BY DEF Init
<1>4. TypeOK
  <2>1. cols \subseteq Column /\ (users # <<>> => "users" \in cols)
    BY <1>1 DEF Column
  <2>2. reset \in Reset
    BY <1>3 DEF NoReset, Reset
  <2>3. left \in 0 .. Len(Seeds) /\ crashes \in 0 .. MaxCrash
    BY <1>3, Constants
  <2>4. boot \in Boot
    BY <1>3 DEF Boot
  <2> QED BY <1>2, <1>3, <2>1, <2>2, <2>3, <2>4, Constants DEF TypeOK
<1>5. StartGoesOn /\ RoomForAdmin
  BY <1>2, <1>3 DEF StartGoesOn, RoomForAdmin
<1>6. AdminSeedIsAdmin
  BY <1>2 DEF AdminSeedIsAdmin
<1>7. TokenRoleIsStored /\ ResetIsKnown
  BY <1>3 DEF TokenRoleIsStored, ResetIsKnown
<1> QED BY <1>4, <1>5, <1>6, <1>7 DEF DirectoryInv

LEMMA StepType ==
    ASSUME TypeOK, StartGoesOn, RoomForAdmin, [Next]_vars
    PROVE  TypeOK'
<1> USE DEF request
<1>0. /\ users \in Seq(Row) /\ Len(users) \in Nat /\ Len(users) <= MaxRows /\ left \in 0 .. Len(Seeds)
      /\ users' \in Seq(Row) /\ Len(users') \in Nat /\ Len(users) <= Len(users')
      /\ \A c \in changes : c.row \in 1 .. Len(users)
  BY UsersStep, LenProperties, Constants DEF TypeOK, Grown, Change, RowNo
<1> DEFINE Table == /\ Len(users') <= MaxRows
                    /\ users' # <<>> => "users" \in cols'
                    /\ cols' \subseteq Column
                    /\ left' \in 0 .. Len(Seeds)
           Asked == /\ sessions' \subseteq Session
                    /\ changes' \subseteq Change
                    /\ \A c \in changes' : boot' = "up" /\ c.row <= Len(users')
                    /\ reset' \in Reset
           Counted == boot' \in Boot /\ crashes' \in 0 .. MaxCrash
<1>1. ASSUME UNCHANGED <<users, cols, left>> PROVE Table
  BY <1>1 DEF TypeOK
<1>2. ASSUME UNCHANGED request, boot' = boot \/ changes = {} PROVE Asked
  BY <1>0, <1>2 DEF TypeOK
<1>c. boot # "up" => changes = {}
  BY DEF TypeOK
<1> USE DEF Boot
<1>a. ASSUME Table, Asked, Counted PROVE TypeOK'
  BY <1>0, <1>a DEF TypeOK
<1>b. ASSUME UNCHANGED crashes, boot' = boot \/ boot' \in Boot PROVE Counted
  BY <1>b DEF TypeOK
<1>e. "users" \in Column /\ \A us \in Seq(Row) : us = <<>> <=> Len(us) = 0
  BY EmptySeq, LenProperties DEF Column
<1>3. CASE Open \/ CreateTables \/ AddColumn \/ Migrated \/ CountUsers \/ RolesFilled
  <2>1. Table
    BY <1>0, <1>3, <1>e, Constants
    DEF Open, CreateTables, AddColumn, Migrated, CountUsers, RolesFilled, TypeOK
  <2>2. Asked
    BY <1>2, <1>3, <1>c DEF Open, CreateTables, AddColumn, Migrated, CountUsers, RolesFilled, Goto
  <2>3. Counted
    BY <1>3, <1>b DEF Open, CreateTables, AddColumn, Migrated, CountUsers, RolesFilled, Goto
  <2> QED BY <1>a, <2>1, <2>2, <2>3
\* A start has the tables when it adds rows.
<1>4. CASE SeedUser
  <2>1. Len(users') = left + 1 /\ left' = left + 1 /\ left < Len(Seeds) /\ cols' = Column
    <3>1. left + 1 \in 1 .. Len(Seeds)
      BY <1>0, <1>4, Constants DEF SeedUser
    <3>2. Seeded(Seeds[left + 1].acct, Seeds[left + 1].role, Seeds[left + 1].status) \in Row
      BY <3>1, Constants, NewRows
    <3>3. Len(users') = Len(users) + 1
      BY <1>0, <1>4, <3>2, Added DEF SeedUser
    <3> QED BY <1>4, <3>3 DEF SeedUser, StartGoesOn, RoomForAdmin
  <2>2. Table
    BY <1>0, <1>e, <2>1, Constants
  <2> QED BY <1>a, <1>b, <1>2, <1>4, <2>2 DEF SeedUser
<1>5. CASE SeedAdmin \/ EnsureAdmin
  <2>1. Seeded(Admin, "admin", "active") \in Row
    BY Constants, NewRows DEF Role, Status
  <2>2. Len(users') <= Len(users) + 1
    BY <1>0, <1>5, <2>1, Added DEF SeedAdmin, EnsureAdmin
  <2>3. users' = users \/ Len(users) < MaxRows
    BY <1>0, <1>5, Constants DEF SeedAdmin, EnsureAdmin, RoomForAdmin
  <2>4. cols' = Column /\ UNCHANGED left
    BY <1>5 DEF SeedAdmin, EnsureAdmin, StartGoesOn
  <2>5. Table
    BY <1>0, <1>e, <2>2, <2>3, <2>4, Constants
  <2> QED BY <1>a, <1>b, <1>2, <1>5, <1>c, <2>5 DEF SeedAdmin, EnsureAdmin, Goto
\* Edits in place keep the length of the table.
<1>6. ASSUME Edited(users, users'), UNCHANGED <<cols, left>> PROVE Table
  BY <1>0, <1>6, <1>e DEF Edited, TypeOK
<1>7. CASE FillRole
  <2>1. PICK i \in 1 .. Len(users) : users' = [users EXCEPT ![i].hasRole = TRUE]
    BY <1>7 DEF FillRole
  <2>2. Table
    BY <1>0, <1>6, <1>7, <2>1, Edits DEF FillRole
  <2> QED BY <1>a, <1>b, <1>2, <1>7, <2>2 DEF FillRole
<1>8. CASE FillHashes
  <2>1. Table
    BY <1>0, <1>6, <1>8, Hashed DEF FillHashes
  <2> QED BY <1>a, <1>b, <1>2, <1>8, <1>c, <2>1 DEF FillHashes, Goto
<1>9. CASE Crash
  <2>1. Counted
    BY <1>9, Constants DEF Crash, Goto, TypeOK
  <2>2. Asked
    BY <1>9 DEF Crash, TypeOK
  <2> QED BY <1>a, <1>1, <1>9, <2>1, <2>2 DEF Crash
<1>10. ASSUME NEW a \in Account, NEW pw \in Pw,
              AdminLogin(a, pw) \/ \E mfa \in BOOLEAN : PortalLogin(a, pw, mfa)
       PROVE  TypeOK'
  <2>1. Credential(a) # 0 => users[Credential(a)].role \in Role
    <3>1. Credential(a) # 0 => Credential(a) \in 1 .. Len(users)
      BY <1>0, CredentialIsFirst, FirstInDef DEF RowsIn
    <3>2. Credential(a) # 0 => users[Credential(a)] \in Row
      BY <1>0, <3>1, ElementOfSeq
    <3> QED BY <3>2 DEF Row
  <2>2. sessions' \subseteq Session
    BY <1>10, <2>1 DEF AdminLogin, PortalLogin, TypeOK, Session, Role
  <2> QED BY <1>10, <2>2 DEF AdminLogin, PortalLogin, TypeOK
<1>11. ASSUME NEW a \in Account, NEW role \in Role, NEW st \in Statuses, NEW pw \in Pw,
              CreateUser(a, role, st, pw)
       PROVE  TypeOK'
  <2>1. Created(a, role, st, pw) \in Row
    BY Constants, NewRows
  <2>2. Len(users') = Len(users) + 1 /\ Len(users) < MaxRows
    BY <1>0, <1>11, <2>1, Added DEF CreateUser
  <2>3. cols' = Column /\ UNCHANGED left
    BY <1>11 DEF CreateUser, AnAdminAsks, Up, StartGoesOn
  <2>4. Table
    BY <1>0, <1>e, <2>2, <2>3, Constants
  <2> QED BY <1>a, <1>b, <1>2, <1>11, <2>4 DEF CreateUser
<1>12. ASSUME NEW i \in 1 .. Len(users), NEW st \in Statuses, SetUserStatus(i, st) PROVE TypeOK'
  <2>1. st \in Status
    BY Constants
  <2>2. Table
    BY <1>0, <1>6, <1>12, <2>1, Edits DEF SetUserStatus
  <2> QED BY <1>a, <1>b, <1>2, <1>12, <2>2 DEF SetUserStatus
<1>13. ASSUME NEW i \in 1 .. Len(users), NEW pw \in Pw, ResetUserPassword(i, pw) PROVE TypeOK'
  <2>1. Table
    BY <1>0, <1>6, <1>13, Edits DEF ResetUserPassword
  <2>2. reset' \in Reset
    <3>1. i \in RowNo
      BY <1>0, Constants DEF RowNo
    <3> QED BY <1>13, <3>1 DEF ResetUserPassword, Reset
  <2>3. Asked
    BY <1>0, <1>13, <2>2 DEF ResetUserPassword, TypeOK
  <2> QED BY <1>a, <1>b, <1>13, <2>1, <2>3 DEF ResetUserPassword
<1>14. ASSUME NEW t \in sessions, Expire(t) PROVE TypeOK'
  BY <1>14 DEF Expire, TypeOK
<1>15. ASSUME NEW t \in sessions, NEW old \in Pw, NEW new \in Pw, BeginChange(t, old, new) PROVE TypeOK'
  <2>1. Credential(t.sub) \in 1 .. Len(users)
    BY <1>0, <1>15, CredentialIsFirst, FirstInDef DEF BeginChange, RowsIn
  <2>2. Credential(t.sub) \in RowNo /\ Credential(t.sub) <= Len(users)
    BY <1>0, <2>1, Constants DEF RowNo
  <2>3. [row |-> Credential(t.sub), old |-> old, new |-> new] \in Change
    BY <2>2 DEF Change
  <2>4. Asked
    BY <1>0, <1>15, <2>2, <2>3 DEF BeginChange, Up, TypeOK
  <2> QED BY <1>a, <1>b, <1>1, <1>15, <2>4 DEF BeginChange
<1>16. ASSUME NEW c \in changes, WriteChange(c) PROVE TypeOK'
  <2>1. c.row \in 1 .. Len(users) /\ c.new \in Pw
    BY <1>0 DEF TypeOK, Change
  <2>2. Table
    BY <1>0, <1>6, <1>16, <2>1, Edits DEF WriteChange
  <2>3. NoReset \in Reset
    BY DEF NoReset, Reset
  <2>4. Asked
    BY <1>0, <1>16, <2>3 DEF WriteChange, TypeOK
  <2> QED BY <1>a, <1>b, <1>16, <2>2, <2>4 DEF WriteChange
<1>17. CASE UNCHANGED vars
  BY <1>17 DEF vars, TypeOK
<1> QED
  BY <1>3, <1>4, <1>5, <1>7, <1>8, <1>9, <1>10, <1>11, <1>12, <1>13, <1>14, <1>15, <1>16, <1>17
  DEF Next, Start

LEMMA StartStep ==
    ASSUME TypeOK, StartGoesOn, [Next]_vars
    PROVE  StartGoesOn'
<1> USE DEF request
<1>0. users \in Seq(Row) /\ Len(users) \in Nat /\ Len(users') \in Nat
  BY UsersStep, LenProperties DEF TypeOK
<1>1. cols' = Column \/ boot' \in {"down", "migrate"}
  BY DEF StartGoesOn, Next, Start, vars, Open, CreateTables, AddColumn, Migrated, CountUsers, SeedUser,
         SeedAdmin, FillRole, RolesFilled, FillHashes, EnsureAdmin, Crash, Goto, AdminLogin,
         PortalLogin, Expire, CreateUser, SetUserStatus, ResetUserPassword, BeginChange, WriteChange
<1> DEFINE Roles(us) == \A i \in 1 .. Len(us) : us[i].hasRole
           Hashes(us) == \A i \in 1 .. Len(us) : us[i].pass # NoHash
           Goal == /\ boot' \in {"hashes", "admin", "up"} => Roles(users')
                   /\ boot' \in {"admin", "up"} => Hashes(users')
                   /\ boot' = "up" => RowsOf(Admin)' # {}
\* A step that keeps what the rows have, and goes no further in the start.
<1>2. ASSUME boot' = boot, Roles(users) => Roles(users'), Hashes(users) => Hashes(users') PROVE Goal
  BY <1>2, RowsStay DEF StartGoesOn
<1>3. ASSUME boot' \notin {"hashes", "admin", "up"} PROVE Goal
  BY <1>3
<1>4. ASSUME UNCHANGED <<users, boot>> PROVE Goal
  BY <1>2, <1>4
<1>5. ASSUME FillRole PROVE Goal
  <2>1. PICK i \in 1 .. Len(users) : users' = [users EXCEPT ![i].hasRole = TRUE]
    BY <1>5 DEF FillRole
  <2> QED BY <1>3, <1>5 DEF FillRole
<1>6. ASSUME RolesFilled PROVE Goal
  BY <1>6 DEF RolesFilled, Goto
<1>7. ASSUME FillHashes PROVE Goal
  <2>1. /\ Len(users') = Len(users)
        /\ \A j \in 1 .. Len(users) : users'[j].pass # NoHash /\ users'[j].hasRole = users[j].hasRole
    BY <1>0, <1>7, Hashed, Constants DEF FillHashes, Edited
  <2> QED BY <1>7, <2>1 DEF FillHashes, Goto, StartGoesOn
<1>8. ASSUME NEW r \in Row, r.hasRole, r.pass # NoHash, users' = Append(users, r)
      PROVE  /\ Roles(users) => Roles(users')
             /\ Hashes(users) => Hashes(users')
             /\ r.acct = Admin => RowsOf(Admin)' # {}
  <2>1. /\ Len(users') = Len(users) + 1 /\ users'[Len(users) + 1] = r
        /\ \A i \in 1 .. Len(users) : users'[i] = users[i]
    BY <1>0, <1>8, Added
  <2>2. \A i \in 1 .. Len(users') : i \in 1 .. Len(users) \/ i = Len(users) + 1
    BY <1>0, <2>1
  <2>3. r.acct = Admin => Len(users) + 1 \in RowsOf(Admin)'
    BY <1>0, <2>1 DEF RowsOf
  <2> QED BY <1>8, <2>1, <2>2, <2>3
<1>9. ASSUME EnsureAdmin PROVE Goal
  <2>1. LET r == Seeded(Admin, "admin", "active") IN
        r \in Row /\ r.hasRole /\ r.pass # NoHash /\ r.acct = Admin
    BY Constants, NewRows DEF Role, Status
  <2>2. users' = Append(users, Seeded(Admin, "admin", "active")) \/ (users' = users /\ RowsOf(Admin) # {})
    BY <1>9 DEF EnsureAdmin
  <2>3. (Roles(users) => Roles(users')) /\ (Hashes(users) => Hashes(users')) /\ RowsOf(Admin)' # {}
    BY <1>8, <2>1, <2>2, RowsStay
  <2> QED BY <1>9, <2>3 DEF EnsureAdmin, Goto, StartGoesOn
<1>10. ASSUME NEW a \in Account, NEW role \in Role, NEW st \in Statuses, NEW pw \in Pw,
              CreateUser(a, role, st, pw)
       PROVE  Goal
  <2>1. LET r == Created(a, role, st, pw) IN r \in Row /\ r.hasRole /\ r.pass # NoHash
    BY Constants, NewRows
  <2> QED BY <1>2, <1>8, <1>10, <2>1 DEF CreateUser
<1>11. ASSUME NEW i \in 1 .. Len(users), NEW st \in Statuses, SetUserStatus(i, st) PROVE Goal
  <2>1. st \in Status
    BY Constants
  <2>2. Len(users') = Len(users)
        /\ \A j \in 1 .. Len(users) : users'[j].pass = users[j].pass /\ users'[j].hasRole = users[j].hasRole
    BY <1>0, <1>11, <2>1, Edits DEF SetUserStatus, Edited
  <2> QED BY <1>2, <1>11, <2>2 DEF SetUserStatus
<1>12. ASSUME NEW i \in 1 .. Len(users), NEW pw \in Pw, users' = [users EXCEPT ![i].pass = pw],
              boot' = boot
       PROVE  Goal
  <2>1. Len(users') = Len(users)
        /\ \A j \in 1 .. Len(users) : /\ users'[j].pass = IF j = i THEN pw ELSE users[j].pass
                                      /\ users'[j].hasRole = users[j].hasRole
    BY <1>0, <1>12, Edits DEF Edited
  <2> QED BY <1>2, <1>12, <2>1, Constants
<1>13. ASSUME NEW c \in changes, WriteChange(c) PROVE Goal
  <2>1. c.row \in 1 .. Len(users) /\ c.new \in Pw
    BY <1>0, Constants DEF TypeOK, Change, RowNo
  <2> QED BY <1>12, <1>13, <2>1 DEF WriteChange
<1>14. Goal
  BY <1>3, <1>4, <1>5, <1>6, <1>7, <1>9, <1>10, <1>11, <1>12, <1>13
  DEF Next, Start, vars, Open, CreateTables, AddColumn, Migrated, CountUsers, SeedUser, SeedAdmin,
      Crash, Goto, AdminLogin, PortalLogin, Expire, ResetUserPassword, BeginChange, StartGoesOn
<1> QED BY <1>1, <1>14 DEF StartGoesOn

LEMMA AdminSeedStep ==
    ASSUME TypeOK, AdminSeedIsAdmin, [Next]_vars
    PROVE  AdminSeedIsAdmin'
<1> USE DEF request
<1>0. /\ users \in Seq(Row) /\ Len(users) \in Nat
      /\ users' \in Seq(Row) /\ Len(users') \in Nat /\ Grown(users, users')
  BY UsersStep, LenProperties DEF TypeOK
<1>1. ASSUME Len(users') = Len(users) PROVE AdminSeedIsAdmin'
  BY <1>0, <1>1 DEF AdminSeedIsAdmin, Grown
<1>2. ASSUME NEW r \in Row, users' = Append(users, r), r.acct = Admin /\ r.seeded => r.role = "admin"
      PROVE  AdminSeedIsAdmin'
  <2>1. Len(users') = Len(users) + 1 /\ users'[Len(users) + 1] = r
    BY <1>0, <1>2, Added
  <2>2. \A i \in 1 .. Len(users') : i \in 1 .. Len(users) \/ i = Len(users) + 1
    BY <1>0, <2>1
  <2> QED BY <1>0, <1>2, <2>1, <2>2 DEF AdminSeedIsAdmin, Grown
<1>3. CASE SeedUser
  <2>1. left + 1 \in 1 .. Len(Seeds)
    BY <1>3, Constants DEF SeedUser, TypeOK
  <2>2. LET s == Seeds[left + 1] IN
        /\ Seeded(s.acct, s.role, s.status) \in Row
        /\ Seeded(s.acct, s.role, s.status).acct # Admin
    BY <2>1, Constants, NewRows
  <2> QED BY <1>2, <1>3, <2>2 DEF SeedUser
<1>4. CASE SeedAdmin \/ EnsureAdmin
  <2>1. LET r == Seeded(Admin, "admin", "active") IN r \in Row /\ r.role = "admin"
    BY Constants, NewRows DEF Role, Status
  <2> QED BY <1>1, <1>2, <1>4, <2>1 DEF SeedAdmin, EnsureAdmin
<1>5. CASE FillRole
  <2>1. PICK i \in 1 .. Len(users) : users' = [users EXCEPT ![i].hasRole = TRUE]
    BY <1>5 DEF FillRole
  <2> QED BY <1>0, <1>1, <2>1, Edits DEF Edited
<1>6. CASE FillHashes
  BY <1>0, <1>1, <1>6, Hashed DEF FillHashes, Edited
<1>7. ASSUME NEW a \in Account, NEW role \in Role, NEW st \in Statuses, NEW pw \in Pw,
             CreateUser(a, role, st, pw)
      PROVE  AdminSeedIsAdmin'
  <2>1. LET r == Created(a, role, st, pw) IN r \in Row /\ ~r.seeded
    BY Constants, NewRows
  <2> QED BY <1>2, <1>7, <2>1 DEF CreateUser
<1>8. ASSUME NEW i \in 1 .. Len(users), NEW st \in Statuses, SetUserStatus(i, st)
      PROVE  AdminSeedIsAdmin'
  <2>1. st \in Status
    BY Constants
  <2> QED BY <1>0, <1>1, <1>8, <2>1, Edits DEF SetUserStatus, Edited
<1>9. ASSUME NEW i \in 1 .. Len(users), NEW pw \in Pw, ResetUserPassword(i, pw)
      PROVE  AdminSeedIsAdmin'
  BY <1>0, <1>1, <1>9, Edits DEF ResetUserPassword, Edited
<1>10. ASSUME NEW c \in changes, WriteChange(c) PROVE AdminSeedIsAdmin'
  <2>1. c.row \in 1 .. Len(users) /\ c.new \in Pw
    BY <1>0, Constants DEF TypeOK, Change, RowNo
  <2> QED BY <1>0, <1>1, <1>10, <2>1, Edits DEF WriteChange, Edited
<1> QED
  BY <1>1, <1>3, <1>4, <1>5, <1>6, <1>7, <1>8, <1>9, <1>10
  DEF Next, Start, vars, Open, CreateTables, AddColumn, Migrated, CountUsers, RolesFilled, Crash,
      AdminLogin, PortalLogin, Expire, BeginChange

LEMMA RoomStep ==
    ASSUME TypeOK, StartGoesOn, RoomForAdmin, [Next]_vars
    PROVE  RoomForAdmin'
<1> USE DEF request
<1>0. /\ users \in Seq(Row) /\ Len(users) \in Nat /\ left \in Nat /\ left <= Len(Seeds)
      /\ users' \in Seq(Row) /\ Len(users') \in Nat /\ Grown(users, users')
  BY UsersStep, LenProperties, Constants DEF TypeOK
<1>1. RowsOf(Admin) # {} => RowsOf(Admin)' # {}
  BY RowsStay
<1>2. ASSUME Len(users') = Len(users), boot' \notin {"insert", "seed", "migrate"} PROVE RoomForAdmin'
  BY <1>1, <1>2 DEF RoomForAdmin
<1>3. CASE UNCHANGED <<users, boot, left>>
  BY <1>3 DEF RoomForAdmin, RowsOf
<1>4. CASE Open \/ CreateTables \/ AddColumn \/ Migrated
  BY <1>1, <1>4 DEF Open, CreateTables, AddColumn, Migrated, Goto, RoomForAdmin
<1>5. CASE CountUsers
  <2>1. users = <<>> => Len(users) = 0
    OBVIOUS
  <2>2. UNCHANGED <<users, left>> /\ boot = "seed" /\ (boot' = "insert" => users = <<>>) /\ boot' \in {"insert", "roles"}
    BY <1>5 DEF CountUsers, Goto
  <2> QED BY <1>1, <2>1, <2>2 DEF RoomForAdmin
<1>6. CASE SeedUser
  <2>1. left + 1 \in 1 .. Len(Seeds)
    BY <1>0, <1>6, Constants DEF SeedUser
  <2>2. Seeded(Seeds[left + 1].acct, Seeds[left + 1].role, Seeds[left + 1].status) \in Row
    BY <2>1, Constants, NewRows
  <2>3. Len(users') = Len(users) + 1
    BY <1>0, <1>6, <2>2, Added DEF SeedUser
  <2>4. Len(users') = left' /\ left' <= Len(Seeds) /\ boot' = "insert"
    BY <1>0, <1>6, <2>1, <2>3 DEF SeedUser, RoomForAdmin
  <2> QED BY <1>0, <2>4, Constants DEF RoomForAdmin
<1>7. CASE SeedAdmin
  <2>1. LET r == Seeded(Admin, "admin", "active") IN r \in Row /\ r.acct = Admin
    BY Constants, NewRows DEF Role, Status
  <2>2. Len(users') = Len(users) + 1 /\ users'[Len(users) + 1].acct = Admin
    BY <1>0, <1>7, <2>1, Added DEF SeedAdmin
  <2>3. Len(users) + 1 \in RowsOf(Admin)'
    BY <1>0, <2>2 DEF RowsOf
  <2> QED BY <1>7, <2>3 DEF SeedAdmin, Goto, RoomForAdmin
<1>8. CASE FillRole
  <2>1. PICK i \in 1 .. Len(users) : users' = [users EXCEPT ![i].hasRole = TRUE]
    BY <1>8 DEF FillRole
  <2> QED BY <1>0, <1>2, <1>8, <2>1, Edits DEF Edited, FillRole
<1>9. CASE RolesFilled \/ Crash
  BY <1>2, <1>9 DEF RolesFilled, Crash, Goto
<1>10. CASE FillHashes
  BY <1>0, <1>2, <1>10, Hashed DEF FillHashes, Edited, Goto
\* Once the server is up the administrator is there.
<1>11. ASSUME boot' = "up", RowsOf(Admin)' # {} PROVE RoomForAdmin'
  BY <1>11 DEF RoomForAdmin
<1>12. boot' = "up" => RowsOf(Admin)' # {}
  BY StartStep DEF StartGoesOn
<1>13. CASE EnsureAdmin
  BY <1>11, <1>12, <1>13 DEF EnsureAdmin, Goto
<1>14. ASSUME NEW a \in Account, NEW role \in Role, NEW st \in Statuses, NEW pw \in Pw,
              CreateUser(a, role, st, pw)
       PROVE  RoomForAdmin'
  BY <1>11, <1>12, <1>14 DEF CreateUser, AnAdminAsks, Up
<1>15. ASSUME NEW i \in 1 .. Len(users),
              \/ \E st \in Statuses : SetUserStatus(i, st)
              \/ \E pw \in Pw : ResetUserPassword(i, pw)
       PROVE  RoomForAdmin'
  BY <1>11, <1>12, <1>15 DEF SetUserStatus, ResetUserPassword, AnAdminAsks, Up
<1>16. ASSUME NEW c \in changes, WriteChange(c) PROVE RoomForAdmin'
  BY <1>11, <1>12, <1>16 DEF WriteChange, TypeOK
<1> QED
  BY <1>3, <1>4, <1>5, <1>6, <1>7, <1>8, <1>9, <1>10, <1>13, <1>14, <1>15, <1>16
  DEF Next, Start, vars, AdminLogin, PortalLogin, Expire, BeginChange

LEMMA TokenStep ==
    ASSUME TypeOK, TokenRoleIsStored, [Next]_vars
    PROVE  TokenRoleIsStored'
<1> USE DEF request
<1>1. ASSUME NEW t, Credential(t.sub) # 0, users[Credential(t.sub)].role = t.role
      PROVE  Credential(t.sub)' # 0 /\ users'[Credential(t.sub)'].role = t.role
  BY <1>1, RowsStay
<1>2. CASE sessions' \subseteq sessions
  BY <1>1, <1>2 DEF TokenRoleIsStored
<1>3. ASSUME NEW a \in Account, NEW pw \in Pw,
             AdminLogin(a, pw) \/ \E mfa \in BOOLEAN : PortalLogin(a, pw, mfa)
      PROVE  TokenRoleIsStored'
  <2>1. /\ sessions' = sessions \cup {[sub |-> a, role |-> users[Credential(a)].role]}
        /\ Credential(a) # 0
    <3>1. CASE AdminLogin(a, pw)
      BY <3>1 DEF AdminLogin
    <3>2. CASE \E mfa \in BOOLEAN : PortalLogin(a, pw, mfa)
      BY <3>2 DEF PortalLogin
    <3> QED BY <1>3, <3>1, <3>2
  <2> DEFINE t == [sub |-> a, role |-> users[Credential(a)].role]
  <2>2. Credential(t.sub) # 0 /\ users[Credential(t.sub)].role = t.role
    BY <2>1
  <2>3. sessions' = sessions \cup {t}
    BY <2>1
  <2> HIDE DEF t
  <2> QED BY <1>1, <2>2, <2>3 DEF TokenRoleIsStored
<1> QED
  BY <1>2, <1>3
  DEF Next, Start, vars, Open, CreateTables, AddColumn, Migrated, CountUsers, SeedUser, SeedAdmin,
      FillRole, RolesFilled, FillHashes, EnsureAdmin, Crash, Expire, CreateUser, SetUserStatus,
      ResetUserPassword, BeginChange, WriteChange

LEMMA ResetStep ==
    ASSUME TypeOK, ResetIsKnown, [Next]_vars
    PROVE  ResetIsKnown'
<1> USE DEF request
<1>0. /\ users \in Seq(Row) /\ Len(users) \in Nat /\ changes \subseteq Change
      /\ users' \in Seq(Row) /\ Len(users') \in Nat /\ Grown(users, users')
  BY UsersStep, LenProperties DEF TypeOK
\* The passwords stay that were set, and whoever begins a change knows one of them.
<1>1. ASSUME UNCHANGED reset,
             \A i \in 1 .. Len(users) : users[i].pass # NoHash => users'[i].pass = users[i].pass,
             \A c \in changes' : c \in changes \/ (c.row \in 1 .. Len(users) /\ c.old = users[c.row].pass)
      PROVE  ResetIsKnown'
  <2> SUFFICES ASSUME reset # NoReset
               PROVE  /\ reset.row \in 1 .. Len(users')
                      /\ reset.pass \in Pw
                      /\ ~reset.raced =>
                            /\ users'[reset.row].pass = reset.pass
                            /\ \A c \in changes' : c.row = reset.row => c.old = reset.pass
    BY <1>1 DEF ResetIsKnown
  <2>1. reset.row \in 1 .. Len(users) /\ reset.pass \in Pw
    BY DEF ResetIsKnown
  <2>2. reset.row \in 1 .. Len(users')
    BY <1>0, <2>1 DEF Grown
  <2>3. ASSUME ~reset.raced
        PROVE  /\ users'[reset.row].pass = reset.pass
               /\ \A c \in changes' : c.row = reset.row => c.old = reset.pass
    <3>1. /\ users[reset.row].pass = reset.pass
          /\ \A c \in changes : c.row = reset.row => c.old = reset.pass
      BY <2>3 DEF ResetIsKnown
    <3>2. users[reset.row].pass # NoHash
      BY <2>1, <3>1, Constants
    <3> QED BY <1>1, <2>1, <3>1, <3>2
  <2> QED BY <2>1, <2>2, <2>3
<1>2. ASSUME \A i \in 1 .. Len(users) : users'[i] = users[i], UNCHANGED <<changes, reset>>
      PROVE  ResetIsKnown'
  BY <1>1, <1>2
<1>3. ASSUME NEW r \in Row, users' = Append(users, r), UNCHANGED <<changes, reset>> PROVE ResetIsKnown'
  BY <1>0, <1>2, <1>3, Added
<1>4. CASE SeedUser
  <2>1. left + 1 \in 1 .. Len(Seeds)
    BY <1>4, Constants DEF SeedUser, TypeOK
  <2>2. Seeded(Seeds[left + 1].acct, Seeds[left + 1].role, Seeds[left + 1].status) \in Row
    BY <2>1, Constants, NewRows
  <2> QED BY <1>3, <1>4, <2>2 DEF SeedUser
<1>5. CASE SeedAdmin \/ EnsureAdmin
  <2>1. Seeded(Admin, "admin", "active") \in Row
    BY Constants, NewRows DEF Role, Status
  <2> QED BY <1>2, <1>3, <1>5, <2>1 DEF SeedAdmin, EnsureAdmin
<1>6. CASE FillRole
  <2>1. PICK i \in 1 .. Len(users) : users' = [users EXCEPT ![i].hasRole = TRUE]
    BY <1>6 DEF FillRole
  <2>2. \A j \in 1 .. Len(users) : users'[j].pass = users[j].pass
    BY <1>0, <2>1, Edits
  <2> QED BY <1>1, <1>6, <2>2 DEF FillRole
<1>7. CASE FillHashes
  <2>1. \A j \in 1 .. Len(users) : users[j].pass # NoHash => users'[j].pass = users[j].pass
    BY <1>0, <1>7, Hashed DEF FillHashes
  <2> QED BY <1>1, <1>7, <2>1 DEF FillHashes
<1>8. ASSUME UNCHANGED <<users, reset>>, changes' \subseteq changes PROVE ResetIsKnown'
  BY <1>1, <1>8
<1>9. ASSUME NEW a \in Account, NEW role \in Role, NEW st \in Statuses, NEW pw \in Pw,
             CreateUser(a, role, st, pw)
      PROVE  ResetIsKnown'
  <2>1. Created(a, role, st, pw) \in Row
    BY Constants, NewRows
  <2> QED BY <1>3, <1>9, <2>1 DEF CreateUser
<1>10. ASSUME NEW i \in 1 .. Len(users), NEW st \in Statuses, SetUserStatus(i, st)
       PROVE  ResetIsKnown'
  <2>1. st \in Status
    BY Constants
  <2>2. \A j \in 1 .. Len(users) : users'[j].pass = users[j].pass
    BY <1>0, <1>10, <2>1, Edits DEF SetUserStatus
  <2> QED BY <1>1, <1>10, <2>2 DEF SetUserStatus
\* A reset that raced no change under way is known to none.
<1>11. ASSUME NEW i \in 1 .. Len(users), NEW pw \in Pw, ResetUserPassword(i, pw)
       PROVE  ResetIsKnown'
  <2>1. users'[i].pass = pw /\ Len(users') = Len(users)
    BY <1>0, <1>11, Edits DEF ResetUserPassword, Edited
  <2>2. reset'.row = i /\ reset'.pass = pw /\ (~reset'.raced => \A c \in changes' : c.row # i)
    BY <1>11 DEF ResetUserPassword
  <2> QED BY <2>1, <2>2 DEF ResetIsKnown
<1>12. ASSUME NEW t \in sessions, NEW old \in Pw, NEW new \in Pw, BeginChange(t, old, new)
       PROVE  ResetIsKnown'
  <2> DEFINE c == [row |-> Credential(t.sub), old |-> old, new |-> new]
  <2>1. c.row \in 1 .. Len(users)
    BY <1>0, <1>12, CredentialIsFirst, FirstInDef DEF BeginChange, RowsIn
  <2>2. c.old = users[c.row].pass
    BY <1>12 DEF BeginChange, VerifyPassword
  <2>3. changes' = changes \cup {c} /\ UNCHANGED <<users, reset>>
    BY <1>12 DEF BeginChange
  <2> HIDE DEF c
  <2> QED BY <1>1, <2>1, <2>2, <2>3
\* The change that replaces the password of a reset is by one who knew it.
<1>13. ASSUME NEW c \in changes, WriteChange(c) PROVE ResetIsKnown'
  <2>1. c.row \in 1 .. Len(users) /\ c.new \in Pw
    BY <1>0, Constants DEF TypeOK, Change, RowNo
  <2>2. \A j \in 1 .. Len(users) : j # c.row => users'[j].pass = users[j].pass
    BY <1>0, <1>13, <2>1, Edits DEF WriteChange
  <2>3. Len(users') = Len(users)
    BY <1>0, <1>13, <2>1, Edits DEF WriteChange, Edited
  <2>4. CASE c.row = reset.row /\ c.old = reset.pass
    BY <1>13, <2>4 DEF WriteChange, ResetIsKnown
  <2>5. CASE ~(c.row = reset.row /\ c.old = reset.pass)
    <3>1. reset' = reset /\ changes' \subseteq changes
      BY <1>13, <2>5 DEF WriteChange
    <3> QED BY <2>2, <2>3, <2>5, <3>1 DEF ResetIsKnown
  <2> QED BY <2>4, <2>5
<1> QED
  BY <1>4, <1>5, <1>6, <1>7, <1>8, <1>9, <1>10, <1>11, <1>12, <1>13
  DEF Next, Start, vars, Open, CreateTables, AddColumn, Migrated, CountUsers, RolesFilled, Crash,
      AdminLogin, PortalLogin, Expire

(***************************************************************************)
(* The promises.                                                           *)
(***************************************************************************)

LEMMA DirectoryStep == DirectoryInv /\ [Next]_vars => DirectoryInv'
BY StepType, StartStep, AdminSeedStep, RoomStep, TokenStep, ResetStep DEF DirectoryInv

LEMMA DirectoryInductive == Spec => []DirectoryInv
<1>1. Init => DirectoryInv
  BY InitInv
<1>2. DirectoryInv /\ [Next]_vars => DirectoryInv'
  BY DirectoryStep
<1> QED BY <1>1, <1>2, PTL DEF Spec

(* The server answers only over a whole start, wherever earlier ones were  *)
(* cut off: all columns are there, every row has a role and a password,    *)
(* and the administrator's account is one, unless an older version had a   *)
(* user of that name that was none (OpenSQLite, ensureCredentials).        *)
THEOREM WholeTheorem == Spec => []ServesWhole
<1>1. DirectoryInv => ServesWhole
  <2> SUFFICES ASSUME DirectoryInv, Up
               PROVE  /\ cols = Column
                      /\ \A i \in 1 .. Len(users) : users[i].hasRole /\ users[i].pass # NoHash
                      /\ Credential(Admin) # 0
                      /\ LET first == users[Credential(Admin)] IN first.role = "admin" \/ ~first.seeded
    BY DEF DirectoryInv, ServesWhole
  <2>1. /\ cols = Column /\ RowsOf(Admin) # {}
        /\ \A i \in 1 .. Len(users) : users[i].hasRole /\ users[i].pass # NoHash
    BY DEF DirectoryInv, StartGoesOn, Up
  <2>2. Credential(Admin) # 0 /\ Credential(Admin) \in RowsOf(Admin)
    BY <2>1, CredentialIsFirst, FirstInDef DEF DirectoryInv, TypeOK
  <2> QED BY <2>1, <2>2 DEF RowsOf, DirectoryInv, AdminSeedIsAdmin
<1> QED BY <1>1, DirectoryInductive, PTL

(* A session token says of its account what the directory says of it, as   *)
(* long as it lives: the row a look-up returns stays the same one, and no  *)
(* request changes a role (handleAdminLogin, handlePortalLogin).           *)
THEOREM RoleTheorem == Spec => []TokenRoleIsStored
<1>1. DirectoryInv => TokenRoleIsStored
  BY DEF DirectoryInv
<1> QED BY <1>1, DirectoryInductive, PTL

(* A password set by an administrator stands until someone who knows it    *)
(* changes it, unless a change was past its check at the time of the reset *)
(* (handleResetUserPassword, handleChangePassword).                        *)
THEOREM ResetTheorem == Spec => []ResetStands
<1>1. DirectoryInv => ResetStands
  BY DEF DirectoryInv, ResetIsKnown, ResetStands
<1> QED BY <1>1, DirectoryInductive, PTL

=============================================================================
