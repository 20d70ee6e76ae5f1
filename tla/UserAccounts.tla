----------------------------- MODULE UserAccounts -----------------------------
(***************************************************************************)
(* Accounts and the codes that are mailed to confirm them: UserServiceImpl *)
(* and MarUserDetailsService, which save whole rows, over the MySQL tables *)
(* of users and activations.                                               *)
(*                                                                         *)
(* A request is a transaction of two or three steps: what it reads, for    *)
(* some what it inserts, and its commit.  An INSERT is sent at once, waits *)
(* for an uncommitted one with the same key, and, where it refers to an    *)
(* account, locks it until the commit.  An UPDATE writes all columns of    *)
(* the row as it was read; it and a DELETE are sent by the commit, wait    *)
(* for such a lock, and fail the transaction when their row is gone.  In a *)
(* deadlock one of the transactions is rolled back.                        *)
(*                                                                         *)
(* Left out: e-mail addresses, unique like the names; the game an account  *)
(* may be host of, which keeps it from being deleted as a code does;       *)
(* forgotUsername, which changes nothing.                                  *)
(***************************************************************************)
EXTENDS Naturals, FiniteSets

CONSTANTS
  Names, Sessions,
  Requests,      \* the threads that serve requests
  MaxAccounts,   \* bound: accounts ever registered
  MaxCodes,      \* bound: codes ever made
  NoAccount      \* no such row

ASSUME AccountsAssumption == MaxAccounts \in Nat /\ MaxCodes \in Nat

Ids == 1 .. MaxAccounts
Codes == 1 .. MaxCodes
None == 0

\* A password is known by the code that set it; the first one by None.
Rows == [name : Names, active : BOOLEAN, password : Codes \cup {None}]
ASSUME NoAccountAssumption == NoAccount \notin Rows

VARIABLES
  accounts,    \* the committed rows of users
  codes,       \* the committed rows of activations
  owner,       \* of each code, the account it was made for
  kind,        \* of each code, the mail it was sent in
  session,     \* of each session, the name it is logged in under
  pc, tx,      \* of each request: where it is, and its transaction
  uses,        \* history: how often a code was used
  overwritten  \* history: accounts that saveMyAccount wrote after they had changed

tables == <<accounts, codes, uses, overwritten>>
sent == <<owner, kind>>
vars == <<tables, sent, session, pc, tx>>

Idle == [op |-> "none", id |-> None, row |-> NoAccount, code |-> None, fresh |-> TRUE]
NoUser == "nobody"

Made == {c \in Codes : kind[c] # "unsent"}
NewCode == Cardinality(Made) + 1
InFlight(op) == {k \in Requests : pc[k] = "commit" /\ tx[k].op = op}
NewId == Cardinality({i \in Ids : \E c \in Made : owner[c] = i /\ kind[c] = "confirmation"}) + 1

Stored == {i \in Ids : accounts[i] # NoAccount}
Named(n) == {i \in Stored : accounts[i].name = n}

\* Others in the middle of a transaction that inserted a code for k's account.
Locking(k) == {j \in InFlight("forgot") \ {k} : tx[j].id = tx[k].id}

\* Parts of the code, each after faults one could put into it; the Fault... are
\* in no specification, they are what the properties are tried against.

\* May the account's row be deleted?  The fault forgets the codes that refer to
\* it.
FaultDeletable(i) == i \in Stored
Deletable(i) == i \in Stored /\ \A c \in codes : owner[c] # i

\* Is the code still there when it is deleted?  The fault does not look.
FaultStillStored(k) == TRUE
StillStored(k) == tx[k].code \in codes

\* The row that is updated; the fault looks the account up by its name.
FaultTarget(k) == IF Named(tx[k].row.name) = {} THEN tx[k].id
                  ELSE CHOOSE i \in Named(tx[k].row.name) : TRUE
Target(k) == tx[k].id

\* The codes after forgotPassword.  One fault replaces the account's earlier
\* codes, another forgets saveActivation.
FaultCodesReplaced(k) == {c \in codes : owner[c] # tx[k].id} \cup {tx[k].code}
FaultCodesKept(k) == codes
CodesAfterForgot(k) == codes \cup {tx[k].code}

Init ==
  /\ accounts = [i \in Ids |-> NoAccount]
  /\ codes = {}
  /\ owner = [c \in Codes |-> None]
  /\ kind = [c \in Codes |-> "unsent"]
  /\ session = [s \in Sessions |-> NoUser]
  /\ pc = [k \in Requests |-> "idle"]
  /\ tx = [k \in Requests |-> Idle]
  /\ uses = [c \in Codes |-> 0]
  /\ overwritten = {}

-----------------------------------------------------------------------------
\* k goes to its next step with transaction t.
Goto(k, point, t) ==
  /\ pc' = [pc EXCEPT ![k] = point]
  /\ tx' = [tx EXCEPT ![k] = t]

Begin(k, point, op, i, row, c) ==
  /\ pc[k] = "idle"
  /\ Goto(k, point, [op |-> op, id |-> i, row |-> row, code |-> c, fresh |-> TRUE])
  /\ UNCHANGED <<tables, sent>>

\* The end of a request that changed nothing, or was rolled back.
Answer(k) == Goto(k, "idle", Idle) /\ UNCHANGED <<tables, sent, session>>

\* saveActivation of a new code for account i, and the mail.
SendCode(k, i, type) ==
  /\ NewCode \in Codes
  /\ owner' = [owner EXCEPT ![NewCode] = i]
  /\ kind' = [kind EXCEPT ![NewCode] = type]
  /\ Goto(k, "commit", [tx[k] EXCEPT !.id = i, !.code = NewCode])
  /\ UNCHANGED <<tables, session>>

RegisterAccount(k, n) ==
  /\ Named(n) = {}
  /\ Begin(k, "insertUser", "register", None, [name |-> n, active |-> FALSE, password |-> None], None)
  /\ UNCHANGED session

InsertUser(k) ==
  /\ pc[k] = "insertUser"
  /\ Named(tx[k].row.name) = {}
  /\ \A j \in InFlight("register") : tx[j].row.name # tx[k].row.name
  /\ NewId \in Ids
  /\ SendCode(k, NewId, "confirmation")

InsertUserRefused(k) ==
  /\ pc[k] = "insertUser"
  /\ Named(tx[k].row.name) # {}
  /\ Answer(k)

ForgotPassword(k, i) ==
  /\ i \in Stored
  /\ Begin(k, "insertCode", "forgot", i, [accounts[i] EXCEPT !.active = FALSE], None)
  /\ UNCHANGED session

InsertCode(k) ==
  /\ pc[k] = "insertCode"
  /\ tx[k].id \in Stored
  /\ SendCode(k, tx[k].id, "reset")

InsertCodeRefused(k) ==
  /\ pc[k] = "insertCode"
  /\ tx[k].id \notin Stored
  /\ Answer(k)

\* activate and resetPassword take either kind of code.  An unknown code is
\* answered with a redirection, by resetPassword through a null reference.
Activate(k, c) ==
  /\ c \in codes
  /\ Begin(k, "commit", "use", owner[c], [accounts[owner[c]] EXCEPT !.active = TRUE], c)
  /\ UNCHANGED session

ResetPassword(k, c) ==
  /\ c \in codes
  /\ Begin(k, "commit", "use", owner[c], 
           [accounts[owner[c]] EXCEPT !.active = TRUE, !.password = c], c)
  /\ UNCHANGED session

\* loadUserByUsername sets the session before anything is saved.
Login(k, s, i) ==
  /\ i \in Stored
  /\ accounts[i].active
  /\ session' = [session EXCEPT ![s] = accounts[i].name]
  /\ Begin(k, "commit", "login", i, accounts[i], None)

\* The session's account is found by its name.
SaveMyAccount(k, s, i) ==
  /\ i \in Named(session[s])
  /\ Begin(k, "commit", "save", i, accounts[i], None)
  /\ UNCHANGED session

UnregisterAccount(k, s, i) ==
  /\ i \in Named(session[s])
  /\ session' = [session EXCEPT ![s] = NoUser]
  /\ Begin(k, "commit", "unregister", i, accounts[i], None)

-----------------------------------------------------------------------------
(* Commits *)

\* A commit of k that leaves row in i; the others' copies of i grow old.
Commit(k, i, row) ==
  /\ accounts' = [accounts EXCEPT ![i] = row]
  /\ pc' = [pc EXCEPT ![k] = "idle"]
  /\ tx' = [j \in Requests |-> IF j = k THEN Idle
                               ELSE IF tx[j].id = i THEN [tx[j] EXCEPT !.fresh = FALSE] ELSE tx[j]]
  /\ UNCHANGED <<sent, session>>

CommitRegister(k) ==
  /\ k \in InFlight("register")
  /\ Commit(k, tx[k].id, tx[k].row)
  /\ codes' = codes \cup {tx[k].code}
  /\ UNCHANGED <<uses, overwritten>>

CommitForgot(k) ==
  /\ k \in InFlight("forgot") /\ Locking(k) = {}
  /\ Commit(k, tx[k].id, tx[k].row)
  /\ codes' = CodesAfterForgot(k)
  /\ UNCHANGED <<uses, overwritten>>

CommitUse(k) ==
  /\ k \in InFlight("use") /\ Locking(k) = {}
  /\ IF Target(k) \in Stored /\ StillStored(k)
     THEN /\ Commit(k, Target(k), tx[k].row)
          /\ codes' = codes \ {tx[k].code}
          /\ uses' = [uses EXCEPT ![tx[k].code] = @ + 1]
          /\ UNCHANGED overwritten
     ELSE Answer(k)

CommitSave(k) ==
  /\ k \in InFlight("login") \cup InFlight("save") /\ Locking(k) = {}
  /\ IF Target(k) \in Stored
     THEN /\ Commit(k, Target(k), tx[k].row)
          /\ overwritten' = IF tx[k].fresh \/ tx[k].op = "login" THEN overwritten
                            ELSE overwritten \cup {tx[k].id}
          /\ UNCHANGED <<codes, uses>>
     ELSE Answer(k)

\* A code that refers to the account keeps it, and so may a game.
CommitUnregister(k) ==
  /\ k \in InFlight("unregister") /\ Locking(k) = {}
  /\ \/ /\ Deletable(tx[k].id)
        /\ Commit(k, tx[k].id, NoAccount)
        /\ UNCHANGED <<codes, uses, overwritten>>
     \/ Answer(k)

\* Two transactions wait for the account, and one of them has locked it.
Deadlock(k) ==
  /\ pc[k] = "commit"
  /\ \/ Locking(k) # {}
     \/ k \in InFlight("forgot") /\ \E j \in Requests \ {k} : pc[j] = "commit" /\ tx[j].id = tx[k].id
  /\ Answer(k)

Serve(k) ==
  \/ InsertUser(k) \/ InsertUserRefused(k) \/ InsertCode(k) \/ InsertCodeRefused(k)
  \/ CommitRegister(k) \/ CommitForgot(k) \/ CommitUse(k) \/ CommitSave(k)
  \/ CommitUnregister(k) \/ Deadlock(k)

Request(k) ==
  \/ \E n \in Names : RegisterAccount(k, n)
  \/ \E c \in Codes : Activate(k, c) \/ ResetPassword(k, c)
  \/ \E i \in Ids : \/ ForgotPassword(k, i)
                    \/ \E s \in Sessions : Login(k, s, i) \/ SaveMyAccount(k, s, i) \/ UnregisterAccount(k, s, i)

Next == \E k \in Requests : Request(k) \/ Serve(k)

Spec == Init /\ [][Next]_vars

-----------------------------------------------------------------------------
(* Properties *)

Transactions ==
  [op : {"none", "register", "forgot", "use", "login", "save", "unregister"},
   id : Ids \cup {None}, row : Rows \cup {NoAccount}, code : Codes \cup {None}, fresh : BOOLEAN]

\* Types, and the references of the tables: a code's account exists.
TypeOK ==
  /\ accounts \in [Ids -> Rows \cup {NoAccount}]
  /\ codes \subseteq Made
  /\ owner \in [Codes -> Ids \cup {None}]
  /\ kind \in [Codes -> {"unsent", "confirmation", "reset"}]
  /\ session \in [Sessions -> Names \cup {NoUser}]
  /\ pc \in [Requests -> {"idle", "insertUser", "insertCode", "commit"}]
  /\ tx \in [Requests -> Transactions]
  /\ uses \in [Codes -> Nat]
  /\ overwritten \subseteq Ids
  /\ \A c \in codes : owner[c] \in Stored

\* A code takes effect once, although activate and resetPassword read it, and
\* may both have read it, before either deletes it.
CodeUsedOnce == \A c \in Codes : uses[c] <= 1

\* An account is active, and has another password than its first one, only by
\* a code that was made for it: also when a transaction that read an account
\* ends after the name was given up and registered again.
ActiveWasConfirmed ==
  \A i \in Stored :
    /\ accounts[i].active => \E c \in Codes : owner[c] = i /\ uses[c] = 1
    /\ accounts[i].password # None =>
         owner[accounts[i].password] = i /\ uses[accounts[i].password] = 1

\* The code of a confirmation mail, which is sent before the commit, is stored
\* then and stays until it is used, whatever forgotPassword does meanwhile.
ConfirmationHonoured ==
  \A c \in Made :
    kind[c] = "confirmation" =>
      \/ c \in codes \/ uses[c] = 1
      \/ \E k \in InFlight("register") : tx[k].code = c

\* Nobody is locked out: an inactive account has a code that opens it, unless
\* saveMyAccount wrote back a row it had read before the account was opened.
InactiveHasCode ==
  \A i \in Stored \ overwritten : ~accounts[i].active => \E c \in codes : owner[c] = i

=============================================================================
