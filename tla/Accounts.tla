------------------------------ MODULE Accounts ------------------------------
(***************************************************************************)
(* Accounts: signing up, logging in and changing a password                *)
(* (routers/auth.py), and what an admin does to users one by one or with   *)
(* a CSV file (routers/admin.py). A password is hashed or verified in a    *)
(* thread: whatever other requests commit meanwhile, the request goes on   *)
(* with the rows it loaded before. A hash stands for its password.         *)
(***************************************************************************)
EXTENDS Naturals, FiniteSets, Sequences

CONSTANTS
    Names, Passwords, Roles, Quotas,
    Files,              \* CSV files: sequences of rows
    Missing,            \* an empty cell of a file
    Staff, Pupil,       \* the accounts there are at first: an admin, a student
    Slots,              \* bound: requests at one time
    MaxRequests         \* bound: requests

Student == "student"
Admin == "admin"

\* Assumed of the constants wherever the module is instantiated.
AccountConstants ==
    /\ {Staff, Pupil} \subseteq Names /\ Staff # Pupil /\ {Student, Admin} \subseteq Roles
    /\ Missing \notin Names \cup Passwords /\ Quotas # {} /\ MaxRequests \in Nat
    /\ Files \subseteq Seq([name : Names \cup {Missing}, password : Passwords \cup {Missing},
                            role : STRING])

VARIABLES
    users,      \* the rows of the table, by id
    decided,    \* ghost: of each row, what admins last made of it
    tokens,     \* ids a token was given for
    request,    \* of each slot
    requests,   \* how many began
    reply       \* the last reply of a request that saves an account

vars == <<users, decided, tokens, request, requests, reply>>

Default == CHOOSE q \in Quotas : TRUE
Row(n, p, r, q) == [name |-> n, password |-> p, role |-> r, quota |-> q, deleted |-> FALSE]
Standing(u) == [role |-> u.role, quota |-> u.quota, deleted |-> u.deleted]
Idle == [op |-> "idle"]
NoReply == <<"none", 0>>

Init ==
    /\ \E p \in Passwords : users = <<Row(Staff, p, Admin, Default), Row(Pupil, p, Student, Default)>>
    /\ decided = [i \in 1..2 |-> Standing(users[i])]
    /\ tokens = {1, 2} /\ request = [s \in Slots |-> Idle] /\ requests = 0 /\ reply = NoReply

Ids == DOMAIN users
Called(n) == {i \in Ids : users[i].name = n}

\* get_current_user: the token names a user, the row decides now.
Live(i) == i \in tokens /\ ~users[i].deleted
Administers == \E i \in Ids : Live(i) /\ users[i].role = Admin

Begin(s, r) ==
    /\ request[s] = Idle /\ requests < MaxRequests
    /\ requests' = requests + 1 /\ request' = [request EXCEPT ![s] = r]

Answer(op, code) == reply' = <<op, code>>
Ended(s) == request' = [request EXCEPT ![s] = Idle] /\ UNCHANGED requests

-----------------------------------------------------------------------------
(* New accounts                                                            *)

\* Mutant: the table takes a name twice.
AlwaysFits(rows) == TRUE

\* The unique name: a transaction with a name that is taken fails whole.
Fits(rows) == \A k \in DOMAIN rows : Called(rows[k].name) = {}

\* What is saved: some rows changed, some added.
Save(changed, added) ==
    /\ users' = changed \o added
    /\ decided' = decided \o [k \in DOMAIN added |-> Standing(added[k])]

Fails(op) == Answer(op, 500) /\ UNCHANGED <<users, decided, tokens>>

Taken == [signup |-> 400, create |-> 409]

\* signup and create_user look for the name, then hash the password.
Ask(s, op, n, p, r, q) ==
    /\ op = "create" => Administers
    /\ op = "signup" => r = Student /\ q = Default
    /\ IF Called(n) # {}
         THEN /\ request[s] = Idle /\ Answer(op, Taken[op]) /\ UNCHANGED <<request, requests>>
         ELSE Begin(s, [op |-> op, row |-> Row(n, p, r, q)]) /\ UNCHANGED reply
    /\ UNCHANGED <<users, decided, tokens>>

\* Who signs up is logged in at once.
Create(s) ==
    LET op == request[s].op IN
    /\ op \in {"signup", "create"}
    /\ \/ /\ Fits(<<request[s].row>>) /\ Save(users, <<request[s].row>>) /\ Answer(op, 201)
          /\ tokens' = IF op = "signup" THEN tokens \cup {Len(users')} ELSE tokens
       \/ ~Fits(<<request[s].row>>) /\ Fails(op)
    /\ Ended(s)

-----------------------------------------------------------------------------
(* Logging in                                                              *)

\* The account must be live and the password right when the login begins.
StartLogin(s, n, p) ==
    /\ \E i \in Called(n) : ~users[i].deleted /\ Begin(s, [op |-> "login", id |-> i, right |-> p = users[i].password])
    /\ UNCHANGED <<users, decided, tokens, reply>>

EndLogin(s) ==
    /\ request[s].op = "login"
    /\ tokens' = IF request[s].right THEN tokens \cup {request[s].id} ELSE tokens
    /\ Ended(s) /\ UNCHANGED <<users, decided, reply>>

\* ACCESS_TOKEN_EXPIRE_MINUTES are over: a token is refused from then on.
Expire(i) ==
    /\ i \in tokens /\ tokens' = tokens \ {i}
    /\ UNCHANGED <<users, decided, request, requests, reply>>

-----------------------------------------------------------------------------
(* Passwords of existing accounts                                          *)

\* change_password: the row is loaded with the token.
StartChange(s, i, old, p) ==
    /\ Live(i) /\ Begin(s, [op |-> "change", id |-> i, seen |-> users[i], given |-> old, new |-> p])
    /\ UNCHANGED <<users, decided, tokens, reply>>

\* reset_user_password: no old password.
StartReset(s, i, p) ==
    /\ Administers /\ ~users[i].deleted
    /\ Begin(s, [op |-> "reset", id |-> i, seen |-> users[i], new |-> p])
    /\ UNCHANGED <<users, decided, tokens, reply>>

\* Mutant: the loaded row is written back whole.
RowWritten(s) ==
    [users EXCEPT ![request[s].id] = [request[s].seen EXCEPT !.password = request[s].new]]

\* The session writes the columns the request changed.
PasswordWritten(s) == [users EXCEPT ![request[s].id].password = request[s].new]

EndPassword(s) ==
    /\ request[s].op \in {"change", "reset"}
    /\ IF request[s].op = "reset" \/ request[s].given = request[s].seen.password
         THEN users' = PasswordWritten(s) /\ Answer(request[s].op, 200)
         ELSE Answer(request[s].op, 400) /\ UNCHANGED users
    /\ Ended(s) /\ UNCHANGED <<decided, tokens>>

-----------------------------------------------------------------------------
(* What an admin decides, in one step                                      *)

Decide(i, row, standing) ==
    /\ Administers /\ ~users[i].deleted /\ users[i] # row
    /\ requests < MaxRequests /\ requests' = requests + 1
    /\ users' = [users EXCEPT ![i] = row] /\ decided' = [decided EXCEPT ![i] = standing]
    /\ UNCHANGED <<tokens, request, reply>>

UpdateQuota(i, q) == Decide(i, [users[i] EXCEPT !.quota = q], [decided[i] EXCEPT !.quota = q])
UpdateRole(i, r) == Decide(i, [users[i] EXCEPT !.role = r], [decided[i] EXCEPT !.role = r])
DeleteUser(i) == Decide(i, [users[i] EXCEPT !.deleted = TRUE], [decided[i] EXCEPT !.deleted = TRUE])

-----------------------------------------------------------------------------
(* A CSV file                                                              *)

\* The first complete row of each name; a role that is none is a student's.
Accepted(file) == {k \in DOMAIN file :
    /\ Missing \notin {file[k].name, file[k].password}
    /\ \A j \in 1..(k - 1) : file[j].name = file[k].name => file[j].password = Missing}

RoleOf(row) == IF row.role \in Roles THEN row.role ELSE Student

ToCreate(file) == {k \in Accepted(file) : Called(file[k].name) = {}}
ToUpdate(file) == {k \in Accepted(file) : Called(file[k].name) # {}}

\* import_users_csv with force: the names are read once, then every password
\* is hashed; without force the file is only counted.
StartImport(s, file) ==
    /\ Administers
    /\ Begin(s, [op |-> "import", file |-> file, create |-> ToCreate(file), update |-> ToUpdate(file)])
    /\ UNCHANGED <<users, decided, tokens, reply>>

\* The k-th of some lines.
UpTo(l, lines) == {m \in lines : m <= l}
Nth(lines, k) == CHOOSE l \in lines : Cardinality(UpTo(l, lines)) = k

RowsOf(f, lines) == [k \in 1..Cardinality(lines) |->
    LET row == f[Nth(lines, k)] IN Row(row.name, row.password, RoleOf(row), Default)]

\* Mutant: a name that was taken meanwhile is skipped.
FreeRows(f, lines) == RowsOf(f, {k \in lines : Called(f[k].name) = {}})

NewRows(f, lines) == RowsOf(f, lines)

\* A row to update is loaded when its turn comes; the role is not updated.
Updated(rows, f, update) == [i \in DOMAIN rows |->
    LET own == {k \in update : f[k].name = rows[i].name} IN
    IF own = {} THEN rows[i] ELSE [rows[i] EXCEPT !.password = f[CHOOSE k \in own : TRUE].password]]

\* One transaction: all of the file, or nothing when a new name was taken.
EndImport(s) ==
    LET r == request[s] IN
    /\ r.op = "import"
    /\ LET rows == NewRows(r.file, r.create) IN
       \/ Fits(rows) /\ Save(Updated(users, r.file, r.update), rows) /\ Answer("import", 200) /\ UNCHANGED tokens
       \/ ~Fits(rows) /\ Fails("import")
    /\ Ended(s)

-----------------------------------------------------------------------------

Next ==
    \/ \E s \in Slots :
          \/ Create(s) \/ EndLogin(s) \/ EndPassword(s) \/ EndImport(s)
          \/ \E n \in Names, p \in Passwords :
                \/ StartLogin(s, n, p)
                \/ \E op \in {"signup", "create"}, r \in Roles, q \in Quotas : Ask(s, op, n, p, r, q)
          \/ \E i \in Ids, p \in Passwords : StartReset(s, i, p) \/ \E old \in Passwords : StartChange(s, i, old, p)
          \/ \E f \in Files : StartImport(s, f)
    \/ \E i \in Ids :
          \/ Expire(i) \/ DeleteUser(i)
          \/ \E q \in Quotas : UpdateQuota(i, q)
          \/ \E r \in Roles : UpdateRole(i, r)

Spec == Init /\ [][Next]_vars

-----------------------------------------------------------------------------
(* Properties                                                              *)

TypeOK ==
    /\ users \in Seq([name : Names, password : Passwords, role : Roles, quota : Quotas, deleted : BOOLEAN])
    /\ tokens \subseteq Ids /\ DOMAIN decided = Ids
    /\ \A s \in Slots : request[s].op \in {"idle", "signup", "create", "login", "change", "reset", "import"}
    /\ requests \in 0..MaxRequests

\* One account per name, whatever sign-ups, new users and files look for the
\* same free name at the same time (login would find two rows and fail).
NamesAreUnique == \A i, j \in Ids : users[i].name = users[j].name => i = j

\* The role, the quota and the deletion of an account are what an admin last
\* made them: no sign-up, password or file that was under way brings them back.
AdminDecides == \A i \in Ids : Standing(users[i]) = decided[i]

ImportsWhole ==
    \A s \in Slots : request[s].op = "import" /\ request'[s] = Idle =>
       \/ users' = users
       \/ \A k \in Accepted(request[s].file) :
             \E i \in DOMAIN users' : /\ users'[i].name = request[s].file[k].name
                                      /\ users'[i].password = request[s].file[k].password

\* A forced import saves all of its accepted rows or none.
ImportsAreWhole == [][ImportsWhole]_vars

\* signup: "Returns HTTP 400 if the username already exists."
TakenNamesAreRefused == reply[1] = "signup" => reply[2] \in {201, 400}

\* change_password: "The current (old) password is verified before the new one
\* is stored": what is replaced is what was verified.
OldPasswordIsCurrent ==
    [][\A s \in Slots : request[s].op = "change" /\ users' # users /\ request'[s] = Idle =>
          users[request[s].id].password = request[s].given]_vars

=============================================================================
