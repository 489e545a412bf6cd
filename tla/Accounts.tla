------------------------------ MODULE Accounts ------------------------------
(* Users: the register, login, read and update handlers with their commands *)
(* and rows.  A password stands for its hash (bcrypt's Compare is equality  *)
(* of the passwords hashed).                                                *)

EXTENDS Http

VARIABLE users   \* the users table; a row's id is its position

\* The columns of a row.
UserRows == [email : STRING, password : STRING, name : STRING, role : {"customer", "admin"},
             created : BOOLEAN]

\* Request binding: required fields, a role that is customer, admin or absent.
BindsUser(r) == r.email # "" /\ r.password # "" /\ r.name # "" /\ r.role \in {"", "customer", "admin"}

\* NewUser: the role defaults to customer.
NewUser(r) ==
  [email |-> r.email, password |-> r.password, name |-> r.name,
   role |-> IF r.role = "" THEN "customer" ELSE r.role, created |-> TRUE]

Emails == {users[i].email : i \in DOMAIN users}

\* Variant: an email that is taken has its row replaced.
InsertUserUpsert(u) ==
  users' = IF u.email \in Emails
           THEN [i \in DOMAIN users |-> IF users[i].email = u.email THEN u ELSE users[i]]
           ELSE Append(users, u)

\* The insert, refused by the unique index on email.
InsertUser(u) == users' = IF u.email \in Emails THEN users ELSE Append(users, u)

\* POST /auth/register and /users, one command.
Register(c) ==
  /\ At(c, {"register"}, "handler")
  /\ IF ~BindsUser(call[c])
     THEN Fail(c, "validation") /\ UNCHANGED users
     ELSE /\ InsertUser(NewUser(call[c]))
          /\ IF users' = users THEN Fail(c, "conflict") ELSE Reply(c, 201)
  /\ UNCHANGED <<limited, call, tokens, limitVars>>

\* An unknown email and a wrong password get the same answer.
Login(c) ==
  /\ At(c, {"login"}, "handler")
  /\ LET found == {i \in DOMAIN users : users[i].email = call[c].email
                                        /\ users[i].password = call[c].password} IN
     IF found = {}
     THEN Fail(c, IF call[c].email = "" THEN "validation" ELSE "unauthorized") /\ UNCHANGED tokens
     ELSE \E i \in found :
            /\ tokens' = tokens \cup {[sub |-> i, role |-> users[i].role]}
            /\ Reply(c, 200)
  /\ UNCHANGED <<limited, call, users, limitVars>>

\* parseID, then FindByID.
FindUser(c) ==
  IF call[c].id = 0 THEN "validation" ELSE IF call[c].id \in DOMAIN users THEN "" ELSE "not_found"

GetUser(c) ==
  /\ At(c, {"getUser"}, "handler")
  /\ IF FindUser(c) = "" THEN Reply(c, 200) ELSE Fail(c, FindUser(c))
  /\ UNCHANGED <<limited, call, tokens, users, limitVars>>

\* The body is bound before UpdateUser reads the row and applies the new name
\* to the copy ...
UpdateUserRead(c) ==
  /\ At(c, {"updateUser"}, "handler")
  /\ LET why == IF call[c].name = "" THEN "validation" ELSE FindUser(c) IN
     IF why # ""
     THEN Fail(c, why)
     ELSE GoOn(c, "save", [users[call[c].id] EXCEPT !.name = call[c].name])
  /\ UNCHANGED <<limited, call, tokens, users, limitVars>>

\* ... and saves all columns; userToModel leaves created_at at zero.
UpdateUserSave(c) ==
  /\ At(c, {"updateUser"}, "save")
  /\ users' = [users EXCEPT ![call[c].id] = [mem[c] EXCEPT !.created = FALSE]]
  /\ Reply(c, 200)
  /\ UNCHANGED <<limited, call, tokens, limitVars>>

AccountStep(c) ==
  Register(c) \/ Login(c) \/ GetUser(c) \/ UpdateUserRead(c) \/ UpdateUserSave(c)

\* A token tells the truth about exactly one account: its subject is a user
\* with that role, and no other account shares that user's email, whatever
\* registrations, logins and whole-row saves overlap.
TokensAreTrue ==
  \A t \in tokens :
    /\ t.sub \in DOMAIN users /\ users[t.sub].role = t.role
    /\ \A i \in DOMAIN users : users[i].email = users[t.sub].email => i = t.sub
=============================================================================
