-------------------------- MODULE UserAccountsProofs --------------------------
(***************************************************************************)
(* Theorems about UserAccounts, for every set of names, sessions and       *)
(* requests, and any number of accounts and codes.                         *)
(*                                                                         *)
(* What a request has read may be old when it commits.  The invariant says *)
(* what stays true of an old copy of a row: the codes that opened it were  *)
(* used, and the account it is of never becomes another one.               *)
(***************************************************************************)
EXTENDS UserAccounts, FiniteSetTheorems, TLAPS

-----------------------------------------------------------------------------
(* The inductive invariant *)

\* The accounts that were registered, whether they are stored or not.
Registered == {i \in Ids : \E c \in Made : owner[c] = i /\ kind[c] = "confirmation"}

\* Codes and ids are counted up from 1.
Counted ==
  /\ \E n \in Nat : Made = 1 .. n
  /\ \E m \in Nat : Registered = 1 .. m

\* Codes and requests name registered accounts only, and so do the tables.
Known ==
  /\ \A c \in Codes : c \notin Made => owner[c] = None
  /\ \A c \in Made : owner[c] \in Registered
  /\ Stored \subseteq Registered
  /\ \A k \in Requests : tx[k].id \in Registered \cup {None}

\* A used code is gone.
UsesOK ==
  \A c \in Codes : uses[c] \in {0, 1} /\ (uses[c] = 1 => c \in Made \ codes)

\* A row is what codes u, made for accounts o, allow the account i to be.
ConfirmedBy(o, u, i, row) ==
  /\ row.active => \E c \in Codes : o[c] = i /\ u[c] = 1
  /\ row.password # None => o[row.password] = i /\ u[row.password] = 1

AccountsOK == \A i \in Stored : ConfirmedBy(owner, uses, i, accounts[i])

\* A request at p with transaction t, over the tables o, u and a.
Closed(row) == row \in Rows /\ ~row.active
ReadRow(t) == t.id \in Ids /\ t.row \in Rows

RequestOK(p, t, o, u, a) ==
  /\ p = "idle" => t = Idle
  /\ p = "insertUser" =>
       t.op = "register" /\ t.id = None /\ Closed(t.row) /\ t.row.password = None
  /\ p = "insertCode" =>
       t.op = "forgot" /\ ReadRow(t) /\ Closed(t.row) /\ ConfirmedBy(o, u, t.id, t.row)
  /\ p = "commit" =>
       /\ t.op # "none" /\ ReadRow(t)
       /\ t.op = "register" => Closed(t.row) /\ t.row.password = None
       /\ t.op = "forgot" => Closed(t.row) /\ ConfirmedBy(o, u, t.id, t.row)
       /\ t.op = "use" =>
            /\ t.code \in Codes /\ o[t.code] = t.id /\ t.row.active
            /\ \/ t.row.password \in {None, t.code}
               \/ o[t.row.password] = t.id /\ u[t.row.password] = 1
       /\ t.op \in {"login", "save"} => ConfirmedBy(o, u, t.id, t.row)
       /\ t.op = "login" => t.row.active
       /\ t.op = "save" /\ t.fresh => t.row = a[t.id]

RequestsOK == \A k \in Requests : RequestOK(pc[k], tx[k], owner, uses, accounts)

\* The requests that have made a code and not stored it yet: the code is
\* theirs, and a new account is nobody else's concern.
Pending(k) == pc[k] = "commit" /\ tx[k].op \in {"register", "forgot"}

PendingOK ==
  \A k \in Requests :
    Pending(k) =>
      /\ tx[k].code \in Made \ codes
      /\ uses[tx[k].code] = 0
      /\ owner[tx[k].code] = tx[k].id
      /\ \A j \in Requests \ {k} : Pending(j) => tx[j].code # tx[k].code
      /\ tx[k].op = "forgot" => tx[k].id \in Stored
      /\ tx[k].op = "register" =>
           tx[k].id \notin Stored /\ \A j \in Requests \ {k} : tx[j].id # tx[k].id

IInv ==
  /\ TypeOK /\ Counted /\ Known /\ UsesOK /\ AccountsOK /\ RequestsOK /\ PendingOK
  /\ ConfirmationHonoured /\ InactiveHasCode

-----------------------------------------------------------------------------
(* Lemmas *)

\* The next code, and the next account, are new.
LEMMA Fresh ==
  ASSUME TypeOK, Counted
  PROVE  /\ NewCode \in Nat /\ NewCode \notin Made /\ Made \cup {NewCode} = 1 .. NewCode
         /\ NewId \in Nat /\ NewId \notin Registered /\ Registered \cup {NewId} = 1 .. NewId
  <1>1. PICK n \in Nat : Made = 1 .. n
    BY DEF Counted
  <1>2. PICK m \in Nat : Registered = 1 .. m
    BY DEF Counted
  <1>3. Cardinality(1 .. n) = n /\ Cardinality(1 .. m) = m
    BY FS_Interval
  <1>4. NewCode = n + 1
    BY <1>1, <1>3 DEF NewCode
  <1>5. NewId = m + 1
    BY <1>2, <1>3 DEF NewId, Registered
  <1> QED
    BY <1>1, <1>2, <1>4, <1>5

\* Codes keep the account they were made for, and stay used.
Later(o, u, o2, u2) ==
  \A c \in Codes : (o[c] # None => o2[c] = o[c]) /\ (u[c] = 1 => u2[c] = 1)

\* What confirmed a row goes on to confirm it.
LEMMA ConfirmedStays ==
  ASSUME NEW o, NEW u, NEW o2, NEW u2, Later(o, u, o2, u2),
         NEW i \in Ids, NEW row \in Rows, ConfirmedBy(o, u, i, row)
  PROVE  ConfirmedBy(o2, u2, i, row)
  <1>1. i # None
    BY AccountsAssumption DEF Ids, None
  <1>2. row.password \in Codes \cup {None}
    BY DEF Rows
  <1> QED
    BY <1>1, <1>2 DEF Later, ConfirmedBy

\* What holds of a request holds while others commit.
LEMMA RequestStays ==
  ASSUME NEW o, NEW u, NEW o2, NEW u2, Later(o, u, o2, u2), NEW a, NEW a2,
         NEW p, NEW t \in Transactions, RequestOK(p, t, o, u, a), NEW t2,
         t2 = t \/ (t2 = [t EXCEPT !.fresh = FALSE] /\ t.id \in Ids),
         t2.fresh /\ t.id \in Ids => a2[t.id] = a[t.id]
  PROVE  RequestOK(p, t2, o2, u2, a2)
  <1>1. /\ t2.op = t.op /\ t2.id = t.id /\ t2.row = t.row /\ t2.code = t.code
        /\ t2.fresh => t.fresh
    BY DEF Transactions
  <1>2. p = "idle" => t2 = t
    BY AccountsAssumption DEF RequestOK, Idle, Ids, None
  <1>3. ASSUME t.row \in Rows, t.id \in Ids, ConfirmedBy(o, u, t.id, t.row)
        PROVE  ConfirmedBy(o2, u2, t2.id, t2.row)
    BY <1>1, <1>3, ConfirmedStays
  <1>4. CASE p = "commit"
    <2>1. t.op = "use" => o2[t.code] = t.id
      BY <1>4, AccountsAssumption DEF RequestOK, ReadRow, Later, Ids, None
    <2>2. t.op = "use" => \/ t.row.password \in {None, t.code}
                          \/ o2[t.row.password] = t.id /\ u2[t.row.password] = 1
      <3>1. t.row.password \in Codes \cup {None}
        BY <1>4 DEF RequestOK, ReadRow, Rows
      <3> QED
        BY <1>4, <3>1, AccountsAssumption DEF RequestOK, ReadRow, Later, Ids, None
    <2> QED
      BY <1>1, <1>3, <1>4, <2>1, <2>2 DEF RequestOK, ReadRow
  <1>5. CASE p # "commit"
    BY <1>1, <1>2, <1>3, <1>5 DEF RequestOK, ReadRow
  <1> QED
    BY <1>4, <1>5

\* A request that begins, or ends without a change of the tables.
LEMMA RequestMoves ==
  ASSUME IInv, NEW k \in Requests, NEW point, NEW t, Goto(k, point, t),
         UNCHANGED <<tables, sent>>, session' \in [Sessions -> Names \cup {NoUser}],
         point \in {"idle", "insertUser", "insertCode", "commit"}, t \in Transactions,
         RequestOK(point, t, owner, uses, accounts), t.id \in Registered \cup {None},
         k \notin InFlight("register"), point = "commit" => t.op \notin {"register", "forgot"},
         \A j \in InFlight("register") : tx[j].id # t.id
  PROVE  IInv'
  <1> USE DEF tables, sent
  <1>1. /\ pc' = [pc EXCEPT ![k] = point] /\ tx' = [tx EXCEPT ![k] = t]
        /\ pc \in [Requests -> {"idle", "insertUser", "insertCode", "commit"}]
        /\ tx \in [Requests -> Transactions]
    BY DEF Goto, IInv, TypeOK
  <1>2. /\ pc'[k] = point /\ tx'[k] = t
        /\ \A j \in Requests \ {k} : pc'[j] = pc[j] /\ tx'[j] = tx[j]
    BY <1>1
  <1>3. /\ pc' \in [Requests -> {"idle", "insertUser", "insertCode", "commit"}]
        /\ tx' \in [Requests -> Transactions]
    BY <1>1
  <1>4. Made' = Made /\ Stored' = Stored /\ Registered' = Registered
    BY DEF Made, Stored, Registered
  <1>5. TypeOK'
    BY <1>3, <1>4 DEF IInv, TypeOK
  <1>6. Counted' /\ UsesOK' /\ AccountsOK' /\ InactiveHasCode'
    BY <1>4 DEF IInv, Counted, UsesOK, AccountsOK, InactiveHasCode
  <1>7. Known'
    BY <1>2, <1>4 DEF IInv, Known
  <1>8. RequestsOK'
    BY <1>2 DEF IInv, RequestsOK
  <1>9. PendingOK'
    <2>1. \A j \in Requests : Pending(j)' <=> j # k /\ Pending(j)
      BY <1>2 DEF Pending
    <2>2. \A j \in Requests : Pending(j) /\ tx[j].op = "register" => tx[j].id # t.id
      BY DEF InFlight, Pending
    <2> QED
      BY <1>2, <1>4, <2>1, <2>2 DEF IInv, PendingOK
  <1>10. ConfirmationHonoured'
    <2>1. InFlight("register") \subseteq InFlight("register")'
      BY <1>2 DEF InFlight
    <2>2. \A j \in InFlight("register") : tx'[j] = tx[j]
      BY <1>2 DEF InFlight
    <2> QED
      BY <1>4, <2>1, <2>2 DEF IInv, ConfirmationHonoured
  <1> QED
    BY <1>5, <1>6, <1>7, <1>8, <1>9, <1>10 DEF IInv

\* A request that is answered without a commit.
LEMMA RequestAnswered ==
  ASSUME IInv, NEW k \in Requests, Answer(k), k \notin InFlight("register")
  PROVE  IInv'
  <1>1. Idle \in Transactions /\ Idle.id = None
    BY DEF Idle, Transactions
  <1>2. RequestOK("idle", Idle, owner, uses, accounts)
    BY DEF RequestOK
  <1>3. \A j \in InFlight("register") : tx[j].id # None
    BY AccountsAssumption DEF IInv, RequestsOK, RequestOK, ReadRow, InFlight, Ids, None
  <1> QED
    BY <1>1, <1>2, <1>3, RequestMoves DEF Answer, IInv, TypeOK

-----------------------------------------------------------------------------
(* Requests that begin *)

\* What a request reads of a stored account.
LEMMA ReadStored ==
  ASSUME IInv, NEW i \in Stored
  PROVE  /\ i \in Ids /\ i \in Registered /\ accounts[i] \in Rows
         /\ ConfirmedBy(owner, uses, i, accounts[i])
         /\ \A j \in InFlight("register") : tx[j].id # i
  <1>1. i \in Ids /\ accounts[i] \in Rows
    BY DEF IInv, TypeOK, Stored
  <1>2. i \in Registered /\ ConfirmedBy(owner, uses, i, accounts[i])
    BY DEF IInv, Known, AccountsOK
  <1>3. \A j \in InFlight("register") : tx[j].id # i
    BY DEF InFlight, IInv, PendingOK, Pending
  <1> QED
    BY <1>1, <1>2, <1>3

\* A request that has read a stored account and goes on with transaction t.
LEMMA StoredRequest ==
  ASSUME IInv, NEW k \in Requests, NEW point \in {"insertCode", "commit"}, NEW op, NEW i \in Stored,
         NEW row \in Rows, NEW c \in Codes \cup {None},
         op \in {"forgot", "use", "login", "save", "unregister"},
         Begin(k, point, op, i, row, c), session' \in [Sessions -> Names \cup {NoUser}],
         point = "insertCode" <=> op = "forgot",
         op = "forgot" => ~row.active,
         op = "login" => row.active,
         op = "save" => row = accounts[i],
         op # "use" => ConfirmedBy(owner, uses, i, row),
         op = "use" => /\ c \in Codes /\ owner[c] = i /\ row.active
                       /\ \/ row.password \in {None, c}
                          \/ owner[row.password] = i /\ uses[row.password] = 1
  PROVE  IInv'
  <1> DEFINE t == [op |-> op, id |-> i, row |-> row, code |-> c, fresh |-> TRUE]
  <1>1. /\ t.op = op /\ t.id = i /\ t.row = row /\ t.code = c /\ t.fresh = TRUE
        /\ pc[k] = "idle" /\ Goto(k, point, t) /\ UNCHANGED <<tables, sent>>
    BY DEF Begin
  <1>2. i \in Ids /\ i \in Registered /\ \A j \in InFlight("register") : tx[j].id # i
    BY ReadStored
  <1>3. t \in Transactions
    BY <1>2 DEF Transactions
  <1>4. RequestOK(point, t, owner, uses, accounts)
    BY <1>1, <1>2 DEF RequestOK, ReadRow, Closed
  <1>5. k \notin InFlight("register")
    BY <1>1 DEF InFlight
  <1> HIDE DEF t
  <1> QED
    BY <1>1, <1>2, <1>3, <1>4, <1>5, RequestMoves

\* The first step of every request.
LEMMA RequestKeeps ==
  ASSUME IInv, NEW k \in Requests, Request(k)
  PROVE  IInv'
  <1>0. session \in [Sessions -> Names \cup {NoUser}]
    BY DEF IInv, TypeOK
  <1>1. ASSUME NEW n \in Names, RegisterAccount(k, n)
        PROVE  IInv'
    <2> DEFINE row == [name |-> n, active |-> FALSE, password |-> None]
               t == [op |-> "register", id |-> None, row |-> row, code |-> None, fresh |-> TRUE]
    <2>1. row \in Rows /\ ~row.active /\ row.password = None
      BY DEF Rows
    <2>2. /\ pc[k] = "idle" /\ Goto(k, "insertUser", t) /\ UNCHANGED <<tables, sent>>
          /\ UNCHANGED session
      BY <1>1 DEF RegisterAccount, Begin
    <2>3. t \in Transactions /\ RequestOK("insertUser", t, owner, uses, accounts) /\ t.id = None
      BY <2>1 DEF Transactions, RequestOK, Closed
    <2>4. k \notin InFlight("register") /\ \A j \in InFlight("register") : tx[j].id # None
      BY <2>2, AccountsAssumption DEF IInv, RequestsOK, RequestOK, ReadRow, InFlight, Ids, None
    <2> HIDE DEF t
    <2> QED
      BY <1>0, <2>2, <2>3, <2>4, RequestMoves
  <1>2. ASSUME NEW i \in Ids, ForgotPassword(k, i)
        PROVE  IInv'
    <2> DEFINE row == [accounts[i] EXCEPT !.active = FALSE]
    <2>1. i \in Stored /\ accounts[i] \in Rows /\ ConfirmedBy(owner, uses, i, accounts[i])
      BY <1>2, ReadStored DEF ForgotPassword
    <2>2. row \in Rows /\ ~row.active /\ row.password = accounts[i].password
      BY <2>1 DEF Rows
    <2>3. ConfirmedBy(owner, uses, i, row)
      BY <2>1, <2>2 DEF ConfirmedBy
    <2>4. Begin(k, "insertCode", "forgot", i, row, None) /\ UNCHANGED session
      BY <1>2 DEF ForgotPassword
    <2> HIDE DEF row
    <2> QED
      BY <1>0, <2>1, <2>2, <2>3, <2>4, StoredRequest
  <1>3. ASSUME NEW c \in Codes, Activate(k, c)
        PROVE  IInv'
    <2> DEFINE i == owner[c]
               row == [accounts[i] EXCEPT !.active = TRUE]
    <2>1. c \in codes /\ i \in Stored
      BY <1>3 DEF Activate, IInv, TypeOK
    <2>2. accounts[i] \in Rows /\ ConfirmedBy(owner, uses, i, accounts[i])
      BY <2>1, ReadStored
    <2>3. row \in Rows /\ row.active /\ row.password = accounts[i].password
      BY <2>2 DEF Rows
    <2>4. \/ row.password = None
          \/ owner[row.password] = i /\ uses[row.password] = 1
      BY <2>2, <2>3 DEF ConfirmedBy
    <2>5. Begin(k, "commit", "use", i, row, c) /\ UNCHANGED session
      BY <1>3 DEF Activate
    <2> HIDE DEF row
    <2> QED
      BY <1>0, <2>1, <2>3, <2>4, <2>5, StoredRequest
  <1>4. ASSUME NEW c \in Codes, ResetPassword(k, c)
        PROVE  IInv'
    <2> DEFINE i == owner[c]
               row == [accounts[i] EXCEPT !.active = TRUE, !.password = c]
    <2>1. c \in codes /\ i \in Stored
      BY <1>4 DEF ResetPassword, IInv, TypeOK
    <2>2. accounts[i] \in Rows
      BY <2>1, ReadStored
    <2>3. row \in Rows /\ row.active /\ row.password = c
      BY <2>2 DEF Rows
    <2>4. Begin(k, "commit", "use", i, row, c) /\ UNCHANGED session
      BY <1>4 DEF ResetPassword
    <2> HIDE DEF row
    <2> QED
      BY <1>0, <2>1, <2>3, <2>4, StoredRequest
  <1>5. ASSUME NEW s \in Sessions, NEW i \in Ids, NEW op \in {"login", "save", "unregister"},
               i \in Stored, op = "login" => accounts[i].active,
               Begin(k, "commit", op, i, accounts[i], None),
               session' \in [Sessions -> Names \cup {NoUser}]
        PROVE  IInv'
    <2>1. accounts[i] \in Rows /\ ConfirmedBy(owner, uses, i, accounts[i])
      BY <1>5, ReadStored
    <2> QED
      BY <1>5, <2>1, StoredRequest
  <1>6. ASSUME NEW s \in Sessions, NEW i \in Ids, Login(k, s, i)
        PROVE  IInv'
    <2>1. i \in Stored /\ accounts[i].name \in Names
      BY <1>6, ReadStored DEF Login, Rows
    <2>2. session' \in [Sessions -> Names \cup {NoUser}]
      BY <1>0, <1>6, <2>1 DEF Login
    <2> QED
      BY <1>5, <1>6, <2>1, <2>2 DEF Login
  <1>7. ASSUME NEW s \in Sessions, NEW i \in Ids, SaveMyAccount(k, s, i)
        PROVE  IInv'
    BY <1>0, <1>5, <1>7 DEF SaveMyAccount, Named
  <1>8. ASSUME NEW s \in Sessions, NEW i \in Ids, UnregisterAccount(k, s, i)
        PROVE  IInv'
    <2>1. session' \in [Sessions -> Names \cup {NoUser}]
      BY <1>0, <1>8 DEF UnregisterAccount
    <2> QED
      BY <1>5, <1>8, <2>1 DEF UnregisterAccount, Named
  <1> QED
    BY <1>1, <1>2, <1>3, <1>4, <1>6, <1>7, <1>8 DEF Request

-----------------------------------------------------------------------------
(* Codes that are made *)

\* A code for account i: of a new account, or of one whose password is forgotten.
LEMMA CodeSent ==
  ASSUME IInv, NEW k \in Requests, NEW i \in Ids, NEW type, SendCode(k, i, type),
         \/ /\ pc[k] = "insertUser" /\ type = "confirmation" /\ i = NewId
         \/ /\ pc[k] = "insertCode" /\ type = "reset" /\ i = tx[k].id /\ i \in Stored
  PROVE  IInv'
  <1> DEFINE t == [tx[k] EXCEPT !.id = i, !.code = NewCode]
  <1> USE DEF tables, sent
  <1>1. /\ NewCode \in Codes /\ owner' = [owner EXCEPT ![NewCode] = i]
        /\ kind' = [kind EXCEPT ![NewCode] = type]
        /\ pc' = [pc EXCEPT ![k] = "commit"] /\ tx' = [tx EXCEPT ![k] = t]
        /\ UNCHANGED <<accounts, codes, uses, overwritten, session>>
    BY DEF SendCode, Goto
  <1>2. /\ pc \in [Requests -> {"idle", "insertUser", "insertCode", "commit"}]
        /\ tx \in [Requests -> Transactions]
        /\ owner \in [Codes -> Ids \cup {None}]
        /\ kind \in [Codes -> {"unsent", "confirmation", "reset"}]
        /\ codes \subseteq Made /\ Made \subseteq Codes
    BY DEF IInv, TypeOK, Made
  <1>3. /\ NewCode \notin Made /\ Made \cup {NewCode} = 1 .. NewCode /\ NewCode \in Nat
        /\ NewId \notin Registered /\ Registered \cup {NewId} = 1 .. NewId /\ NewId \in Nat
    BY Fresh DEF IInv
  <1> DEFINE c == NewCode
  <1> HIDE DEF c
  <1>4. c = NewCode /\ c \in Codes /\ c \notin Made /\ owner[c] = None /\ uses[c] = 0
    BY <1>1, <1>3 DEF c, IInv, Known, UsesOK
  <1>5. /\ t \in Transactions /\ t.op = tx[k].op /\ t.row = tx[k].row /\ t.id = i /\ t.code = c
        /\ t.op # "save"
    <2>1. tx[k].op # "save"
      BY DEF IInv, RequestsOK, RequestOK
    <2>2. tx[k] \in Transactions /\ t = [tx[k] EXCEPT !.id = i, !.code = c]
      BY <1>2, <1>4
    <2>3. \A r \in Transactions : LET q == [r EXCEPT !.id = i, !.code = c] IN
            q \in Transactions /\ q.op = r.op /\ q.row = r.row /\ q.id = i /\ q.code = c
      BY <2>2, <1>4 DEF Transactions
    <2> QED
      BY <1>4, <2>1, <2>2, <2>3
  <1> HIDE DEF t
  <1>6. /\ pc'[k] = "commit" /\ tx'[k] = t
        /\ \A j \in Requests \ {k} : pc'[j] = pc[j] /\ tx'[j] = tx[j]
        /\ owner'[c] = i /\ kind'[c] = type
        /\ \A d \in Codes \ {c} : owner'[d] = owner[d] /\ kind'[d] = kind[d]
    BY <1>1, <1>2, <1>4
  <1>7. /\ pc' \in [Requests -> {"idle", "insertUser", "insertCode", "commit"}]
        /\ tx' \in [Requests -> Transactions]
        /\ owner' \in [Codes -> Ids \cup {None}]
        /\ kind' \in [Codes -> {"unsent", "confirmation", "reset"}]
    BY <1>1, <1>2, <1>5
  <1>8. Made' = Made \cup {c} /\ Stored' = Stored
    BY <1>1, <1>4, <1>6 DEF Made, Stored
  <1>9. Registered' = Registered \cup {i}
    <2>1. CASE type = "confirmation"
      BY <1>4, <1>6, <1>8, <2>1 DEF Registered, Made
    <2>2. CASE type = "reset"
      <3>1. i \in Registered
        BY <2>2 DEF IInv, Known
      <3> QED
        BY <1>4, <1>6, <1>8, <2>2, <3>1 DEF Registered, Made
    <2> QED
      BY <2>1, <2>2
  <1>10. TypeOK'
    BY <1>1, <1>2, <1>4, <1>6, <1>7, <1>8 DEF IInv, TypeOK
  <1>11. Counted'
    <2>1. Registered' = Registered \/ Registered' = Registered \cup {NewId}
      BY <1>9 DEF IInv, Known
    <2> QED
      BY <1>3, <1>4, <1>8, <2>1 DEF IInv, Counted
  <1>12. Known'
    <2>1. \A d \in Codes : d \notin Made' => owner'[d] = None
      BY <1>4, <1>6, <1>8 DEF IInv, Known
    <2>2. \A d \in Made' : owner'[d] \in Registered'
      BY <1>2, <1>4, <1>6, <1>8, <1>9 DEF IInv, Known
    <2>3. Stored' \subseteq Registered'
      BY <1>8, <1>9 DEF IInv, Known
    <2>4. \A j \in Requests : tx'[j].id \in Registered' \cup {None}
      BY <1>5, <1>6, <1>9 DEF IInv, Known
    <2> QED
      BY <2>1, <2>2, <2>3, <2>4 DEF Known
  <1>13. UsesOK'
    BY <1>1, <1>4, <1>8 DEF IInv, UsesOK
  <1>14. Later(owner, uses, owner', uses')
    BY <1>1, <1>4, <1>6 DEF Later
  <1>15. AccountsOK'
    <2> SUFFICES ASSUME NEW j \in Stored
                 PROVE  ConfirmedBy(owner', uses', j, accounts[j])
      BY <1>1, <1>8 DEF AccountsOK
    <2> QED
      BY <1>14, ConfirmedStays, ReadStored
  <1>16. RequestsOK'
    <2> SUFFICES ASSUME NEW j \in Requests
                 PROVE  RequestOK(pc'[j], tx'[j], owner', uses', accounts')
      BY DEF RequestsOK
    <2>1. CASE j # k
      <3>1. RequestOK(pc[j], tx[j], owner, uses, accounts) /\ tx[j] \in Transactions
        BY <1>2 DEF IInv, RequestsOK
      <3>2. RequestOK(pc[j], tx[j], owner', uses', accounts')
        BY <1>1, <1>14, <3>1, RequestStays
      <3> QED
        BY <1>6, <2>1, <3>2
    <2>2. CASE j = k
      <3>1. RequestOK(pc[k], tx[k], owner, uses, accounts)
        BY DEF IInv, RequestsOK
      <3>2. pc[k] = "insertCode" => ConfirmedBy(owner', uses', i, tx[k].row)
        BY <1>14, <3>1, ConfirmedStays DEF RequestOK, ReadRow
      <3>3. RequestOK("commit", t, owner', uses', accounts')
        BY <1>5, <3>1, <3>2 DEF RequestOK, ReadRow, Closed
      <3> QED
        BY <1>6, <2>2, <3>3
    <2> QED
      BY <2>1, <2>2
  <1>17. PendingOK'
    <2>1. RequestOK(pc[k], tx[k], owner, uses, accounts)
      BY DEF IInv, RequestsOK
    <2>2. \/ t.op = "register" /\ i = NewId /\ i \notin Registered
          \/ t.op = "forgot" /\ i \in Stored /\ tx[k].id = i
      BY <1>3, <1>5, <2>1 DEF RequestOK
    <2>3. \A j \in Requests \ {k} : Pending(j)' <=> Pending(j)
      BY <1>6 DEF Pending
    <2>4. i \notin Registered => i \notin Stored /\ \A j \in Requests : tx[j].id # i
      BY AccountsAssumption DEF IInv, Known, Ids, None
    <2>5. ASSUME NEW j \in Requests \ {k}, Pending(j)
          PROVE  /\ tx[j].code \in Made \ codes /\ tx[j].code # c
                 /\ uses[tx[j].code] = 0 /\ owner'[tx[j].code] = tx[j].id
                 /\ tx[j].op = "register" => tx[j].id # i
      <3>1. tx[j].op = "register" => tx[j].id \notin Stored /\ tx[j].id \in Registered
        BY <2>5, <1>2 DEF IInv, PendingOK, Known, RequestsOK, RequestOK, ReadRow, Pending, Ids, None
      <3> QED
        BY <1>2, <1>4, <1>6, <2>2, <2>5, <3>1 DEF IInv, PendingOK
    <2>6. ASSUME NEW j \in Requests, Pending(j)'
          PROVE  /\ tx'[j].code \in Made' \ codes'
                 /\ uses'[tx'[j].code] = 0
                 /\ owner'[tx'[j].code] = tx'[j].id
                 /\ \A l \in Requests \ {j} : Pending(l)' => tx'[l].code # tx'[j].code
                 /\ tx'[j].op = "forgot" => tx'[j].id \in Stored'
                 /\ tx'[j].op = "register" =>
                      tx'[j].id \notin Stored' /\ \A l \in Requests \ {j} : tx'[l].id # tx'[j].id
      <3>1. CASE j = k
        BY <1>1, <1>2, <1>4, <1>5, <1>6, <1>8, <2>2, <2>3, <2>4, <2>5, <3>1
      <3>2. CASE j # k
        BY <1>1, <1>5, <1>6, <1>8, <2>3, <2>5, <2>6, <3>2 DEF IInv, PendingOK
      <3> QED
        BY <3>1, <3>2
    <2> QED
      BY <2>6 DEF PendingOK
  <1>18. ConfirmationHonoured'
    <2>1. \A j \in InFlight("register") : j \in InFlight("register")' /\ tx'[j] = tx[j]
      BY <1>6 DEF InFlight
    <2>2. type = "confirmation" => k \in InFlight("register")' /\ tx'[k].code = c
      BY <1>5, <1>6 DEF InFlight, IInv, RequestsOK, RequestOK
    <2> QED
      BY <1>1, <1>6, <1>8, <2>1, <2>2 DEF IInv, ConfirmationHonoured
  <1>19. InactiveHasCode'
    BY <1>1, <1>2, <1>4, <1>6, <1>8 DEF IInv, InactiveHasCode
  <1> QED
    BY <1>10, <1>11, <1>12, <1>13, <1>15, <1>16, <1>17, <1>18, <1>19 DEF IInv

-----------------------------------------------------------------------------
(* Commits *)

\* What a commit may do to the tables.
LEMMA CommitKeeps ==
  ASSUME IInv, NEW k \in Requests, NEW i \in Ids, NEW row \in Rows \cup {NoAccount},
         pc[k] = "commit", tx[k].id = i, Commit(k, i, row),
         uses' \in [Codes -> {0, 1}], Later(owner, uses, owner, uses'),
         codes' \subseteq Made, \A c \in codes' : owner[c] \in Stored',
         \A c \in Codes : uses'[c] = 1 => c \in Made \ codes',
         overwritten' \subseteq Ids,
         row # NoAccount => ConfirmedBy(owner, uses', i, row),
         \A j \in Requests \ {k} :
           Pending(j) => /\ tx[j].code \notin codes' /\ uses'[tx[j].code] = 0
                         /\ tx[j].op = "forgot" => tx[j].id \in Stored',
         ConfirmationHonoured', InactiveHasCode'
  PROVE  IInv'
  <1> USE DEF sent
  <1> DEFINE Old(j) == IF tx[j].id = i THEN [tx[j] EXCEPT !.fresh = FALSE] ELSE tx[j]
  <1>1. /\ accounts' = [accounts EXCEPT ![i] = row]
        /\ pc' = [pc EXCEPT ![k] = "idle"]
        /\ tx' = [j \in Requests |-> IF j = k THEN Idle ELSE Old(j)]
        /\ UNCHANGED <<owner, kind, session>>
    BY DEF Commit
  <1>2. /\ pc \in [Requests -> {"idle", "insertUser", "insertCode", "commit"}]
        /\ tx \in [Requests -> Transactions]
        /\ accounts \in [Ids -> Rows \cup {NoAccount}]
        /\ Made' = Made /\ Registered' = Registered
    BY <1>1 DEF IInv, TypeOK, Made, Registered
  <1>3. ASSUME NEW j \in Requests
        PROVE  /\ Old(j) \in Transactions
               /\ Old(j).op = tx[j].op /\ Old(j).id = tx[j].id /\ Old(j).code = tx[j].code
    <2>1. tx[j] \in Transactions
      BY <1>2
    <2> QED
      BY <2>1 DEF Transactions
  <1>4. Idle \in Transactions /\ Idle.id = None
    BY DEF Idle, Transactions
  <1> HIDE DEF Old
  <1>5. /\ pc'[k] = "idle" /\ tx'[k] = Idle
        /\ \A j \in Requests \ {k} : pc'[j] = pc[j] /\ tx'[j] = Old(j)
        /\ accounts'[i] = row /\ \A j \in Ids \ {i} : accounts'[j] = accounts[j]
    BY <1>1, <1>2
  <1>6. /\ accounts' \in [Ids -> Rows \cup {NoAccount}]
        /\ pc' \in [Requests -> {"idle", "insertUser", "insertCode", "commit"}]
        /\ tx' \in [Requests -> Transactions]
    BY <1>1, <1>2, <1>3, <1>4
  <1>7. Stored' \subseteq Stored \cup {i} /\ i \in Registered
    BY <1>5, AccountsAssumption DEF Stored, IInv, Known, Ids, None
  <1>8. TypeOK'
    <2>1. uses' \in [Codes -> Nat]
      OBVIOUS
    <2> QED
      BY <1>1, <1>2, <1>6, <2>1 DEF IInv, TypeOK
  <1>9. Counted' /\ UsesOK'
    BY <1>2 DEF IInv, Counted, UsesOK
  <1>10. Known'
    <2>1. \A j \in Requests : tx'[j].id \in Registered' \cup {None}
      BY <1>2, <1>3, <1>4, <1>5 DEF IInv, Known
    <2> QED
      BY <1>1, <1>2, <1>7, <2>1 DEF IInv, Known
  <1>11. AccountsOK'
    <2> SUFFICES ASSUME NEW j \in Ids, accounts'[j] # NoAccount
                 PROVE  ConfirmedBy(owner, uses', j, accounts'[j])
      BY <1>1 DEF AccountsOK, Stored
    <2>1. CASE j = i
      BY <1>5, <2>1
    <2>2. CASE j # i
      BY <1>5, <2>2, ConfirmedStays, ReadStored DEF Stored
    <2> QED
      BY <2>1, <2>2
  <1>12. RequestsOK'
    <2> SUFFICES ASSUME NEW j \in Requests
                 PROVE  RequestOK(pc'[j], tx'[j], owner, uses', accounts')
      BY <1>1 DEF RequestsOK
    <2>1. CASE j = k
      BY <1>5, <2>1 DEF RequestOK
    <2>2. CASE j # k
      <3>1. RequestOK(pc[j], tx[j], owner, uses, accounts) /\ tx[j] \in Transactions
        BY <1>2 DEF IInv, RequestsOK
      <3>2. Old(j) = tx[j] \/ (Old(j) = [tx[j] EXCEPT !.fresh = FALSE] /\ tx[j].id \in Ids)
        BY DEF Old
      <3>3. Old(j).fresh /\ tx[j].id \in Ids => accounts'[tx[j].id] = accounts[tx[j].id]
        <4>1. tx[j].id = i => ~Old(j).fresh
          BY <3>1 DEF Old, Transactions
        <4> QED
          BY <1>5, <4>1
      <3>4. RequestOK(pc[j], Old(j), owner, uses', accounts')
        BY <3>1, <3>2, <3>3, RequestStays
      <3> QED
        BY <1>5, <2>2, <3>4
    <2> QED
      BY <2>1, <2>2
  <1>13. PendingOK'
    <2> SUFFICES ASSUME NEW j \in Requests, Pending(j)'
                 PROVE  /\ tx'[j].code \in Made' \ codes'
                        /\ uses'[tx'[j].code] = 0
                        /\ owner'[tx'[j].code] = tx'[j].id
                        /\ \A l \in Requests \ {j} : Pending(l)' => tx'[l].code # tx'[j].code
                        /\ tx'[j].op = "forgot" => tx'[j].id \in Stored'
                        /\ tx'[j].op = "register" =>
                             /\ tx'[j].id \notin Stored'
                             /\ \A l \in Requests \ {j} : tx'[l].id # tx'[j].id
      BY DEF PendingOK
    <2>1. \A l \in Requests : Pending(l)' => l # k /\ Pending(l)
      BY <1>3, <1>5 DEF Pending
    <2>2. j # k /\ Pending(j)
      BY <2>1
    <2>3. /\ tx'[j].code = tx[j].code /\ tx'[j].op = tx[j].op /\ tx'[j].id = tx[j].id
          /\ tx[j].id \in Ids
      BY <1>3, <1>5, <2>2 DEF IInv, RequestsOK, RequestOK, ReadRow, Pending
    <2>4. \A l \in Requests \ {j} : Pending(l)' => tx'[l].code # tx'[j].code
      BY <1>3, <1>5, <2>1, <2>2, <2>3 DEF IInv, PendingOK
    <2>5. ASSUME tx[j].op = "register"
          PROVE  /\ tx[j].id \notin Stored'
                 /\ \A l \in Requests \ {j} : tx'[l].id # tx'[j].id
      <3>1. tx[j].id \notin Stored /\ tx[j].id # i
            /\ \A l \in Requests \ {j} : tx[l].id # tx[j].id
        BY <2>2, <2>5 DEF IInv, PendingOK
      <3>2. \A l \in Requests \ {j} : tx'[l].id # tx'[j].id
        BY <1>3, <1>4, <1>5, <2>3, <3>1, AccountsAssumption DEF Ids, None
      <3> QED
        BY <1>7, <3>1, <3>2
    <2> QED
      BY <1>1, <1>2, <2>2, <2>3, <2>4, <2>5 DEF IInv, PendingOK
  <1> QED
    BY <1>8, <1>9, <1>10, <1>11, <1>12, <1>13 DEF IInv

\* The tables after a commit of row in i, and what others have pending there.
LEMMA CommitTables ==
  ASSUME IInv, NEW k \in Requests, NEW i \in Ids, NEW row \in Rows \cup {NoAccount}, Commit(k, i, row)
  PROVE  /\ accounts'[i] = row /\ \A j \in Ids \ {i} : accounts'[j] = accounts[j]
         /\ row # NoAccount => Stored' = Stored \cup {i}
         /\ row = NoAccount => Stored' = Stored \ {i}
         /\ owner' = owner /\ kind' = kind /\ Made' = Made
         /\ \A j \in InFlight("register") \ {k} :
              j \in InFlight("register")' /\ tx'[j].code = tx[j].code
  <1>1. accounts \in [Ids -> Rows \cup {NoAccount}] /\ tx \in [Requests -> Transactions]
        /\ pc \in [Requests -> {"idle", "insertUser", "insertCode", "commit"}]
    BY DEF IInv, TypeOK
  <1>2. /\ accounts' = [accounts EXCEPT ![i] = row] /\ owner' = owner /\ kind' = kind
        /\ pc' = [pc EXCEPT ![k] = "idle"]
        /\ tx' = [j \in Requests |-> IF j = k THEN Idle
                    ELSE IF tx[j].id = i THEN [tx[j] EXCEPT !.fresh = FALSE] ELSE tx[j]]
    BY DEF Commit, sent
  <1>3. /\ accounts'[i] = row /\ \A j \in Ids \ {i} : accounts'[j] = accounts[j]
    BY <1>1, <1>2
  <1>4. \A t \in Transactions : LET q == [t EXCEPT !.fresh = FALSE] IN q.op = t.op /\ q.code = t.code
    BY DEF Transactions
  <1>5. \A j \in Requests \ {k} :
          pc'[j] = pc[j] /\ tx'[j].op = tx[j].op /\ tx'[j].code = tx[j].code
    BY <1>1, <1>2, <1>4
  <1> QED
    BY <1>2, <1>3, <1>5 DEF Stored, Made, InFlight

\* The commit of registerAccount.
LEMMA CommitRegisterKeeps ==
  ASSUME IInv, NEW k \in Requests, CommitRegister(k)
  PROVE  IInv'
  <1> DEFINE i == tx[k].id
             row == tx[k].row
             c == tx[k].code
  <1>1. /\ pc[k] = "commit" /\ tx[k].op = "register" /\ Pending(k)
        /\ Commit(k, i, row) /\ codes' = codes \cup {c} /\ uses' = uses
        /\ overwritten' = overwritten
    BY DEF CommitRegister, InFlight, Pending
  <1>2. i \in Ids /\ row \in Rows /\ ~row.active /\ row.password = None
    BY <1>1 DEF IInv, RequestsOK, RequestOK, ReadRow, Closed
  <1>3. c \in Made \ codes /\ uses[c] = 0 /\ owner[c] = i /\ i \notin Stored
    BY <1>1 DEF IInv, PendingOK
  <1> HIDE DEF i, row, c
  <1>4. row # NoAccount
    BY <1>2, NoAccountAssumption
  <1>5. /\ Stored' = Stored \cup {i} /\ owner' = owner /\ kind' = kind /\ Made' = Made
        /\ accounts'[i] = row /\ \A j \in Ids \ {i} : accounts'[j] = accounts[j]
        /\ \A j \in InFlight("register") \ {k} :
             j \in InFlight("register")' /\ tx'[j].code = tx[j].code
    BY <1>1, <1>2, <1>4, CommitTables
  <1>6. uses \in [Codes -> {0, 1}] /\ codes \subseteq Made /\ overwritten \subseteq Ids
    BY DEF IInv, UsesOK, TypeOK
  <1>7. Later(owner, uses, owner, uses') /\ ConfirmedBy(owner, uses', i, row)
    BY <1>1, <1>2 DEF Later, ConfirmedBy
  <1>8. \A d \in codes' : owner[d] \in Stored'
    BY <1>1, <1>3, <1>5 DEF IInv, TypeOK
  <1>9. \A d \in Codes : uses'[d] = 1 => d \in Made \ codes'
    BY <1>1, <1>3 DEF IInv, UsesOK
  <1>10. \A j \in Requests \ {k} :
           Pending(j) => /\ tx[j].code \notin codes' /\ uses'[tx[j].code] = 0
                         /\ tx[j].op = "forgot" => tx[j].id \in Stored'
    BY <1>1, <1>5 DEF IInv, PendingOK, c
  <1>11. ConfirmationHonoured'
    BY <1>1, <1>5 DEF IInv, ConfirmationHonoured, c
  <1>12. InactiveHasCode'
    BY <1>1, <1>2, <1>3, <1>5 DEF IInv, InactiveHasCode, Stored
  <1>13. tx[k].id = i /\ row \in Rows \cup {NoAccount}
    BY <1>2 DEF i
  <1>14. uses' \in [Codes -> {0, 1}] /\ codes' \subseteq Made /\ overwritten' \subseteq Ids
    BY <1>1, <1>3, <1>6
  <1> QED
    BY <1>1, <1>2, <1>7, <1>8, <1>9, <1>10, <1>11, <1>12, <1>13, <1>14, CommitKeeps

\* The commit of forgotPassword.
LEMMA CommitForgotKeeps ==
  ASSUME IInv, NEW k \in Requests, CommitForgot(k)
  PROVE  IInv'
  <1> DEFINE i == tx[k].id
             row == tx[k].row
             c == tx[k].code
  <1>1. /\ pc[k] = "commit" /\ tx[k].op = "forgot" /\ Pending(k)
        /\ Commit(k, i, row) /\ codes' = codes \cup {c} /\ uses' = uses
        /\ overwritten' = overwritten
    BY DEF CommitForgot, InFlight, Pending, CodesAfterForgot
  <1>2. i \in Ids /\ row \in Rows /\ ~row.active /\ ConfirmedBy(owner, uses, i, row)
    BY <1>1 DEF IInv, RequestsOK, RequestOK, ReadRow, Closed
  <1>3. c \in Made \ codes /\ uses[c] = 0 /\ owner[c] = i /\ i \in Stored
    BY <1>1 DEF IInv, PendingOK
  <1> HIDE DEF i, row, c
  <1>4. row # NoAccount
    BY <1>2, NoAccountAssumption
  <1>5. /\ Stored' = Stored \cup {i} /\ owner' = owner /\ kind' = kind /\ Made' = Made
        /\ accounts'[i] = row /\ \A j \in Ids \ {i} : accounts'[j] = accounts[j]
        /\ \A j \in InFlight("register") \ {k} :
             j \in InFlight("register")' /\ tx'[j].code = tx[j].code
    BY <1>1, <1>2, <1>4, CommitTables
  <1>6. uses \in [Codes -> {0, 1}] /\ codes \subseteq Made /\ overwritten \subseteq Ids
    BY DEF IInv, UsesOK, TypeOK
  <1>7. Later(owner, uses, owner, uses') /\ ConfirmedBy(owner, uses', i, row)
    BY <1>1, <1>2 DEF Later, ConfirmedBy
  <1>8. \A d \in codes' : owner[d] \in Stored'
    BY <1>1, <1>3, <1>5 DEF IInv, TypeOK
  <1>9. \A d \in Codes : uses'[d] = 1 => d \in Made \ codes'
    BY <1>1, <1>3 DEF IInv, UsesOK
  <1>10. \A j \in Requests \ {k} :
           Pending(j) => /\ tx[j].code \notin codes' /\ uses'[tx[j].code] = 0
                         /\ tx[j].op = "forgot" => tx[j].id \in Stored'
    BY <1>1, <1>5 DEF IInv, PendingOK, c
  <1>11. ConfirmationHonoured'
    <2>1. k \notin InFlight("register")
      BY <1>1 DEF InFlight
    <2> QED
      BY <1>1, <1>5, <2>1 DEF IInv, ConfirmationHonoured
  <1>12. InactiveHasCode'
    BY <1>1, <1>2, <1>3, <1>5 DEF IInv, InactiveHasCode, Stored
  <1>13. tx[k].id = i /\ row \in Rows \cup {NoAccount}
    BY <1>2 DEF i
  <1>14. uses' \in [Codes -> {0, 1}] /\ codes' \subseteq Made /\ overwritten' \subseteq Ids
    BY <1>1, <1>3, <1>6
  <1> QED
    BY <1>1, <1>2, <1>7, <1>8, <1>9, <1>10, <1>11, <1>12, <1>13, <1>14, CommitKeeps

\* The commit of activate, or of resetPassword.
LEMMA CommitUseKeeps ==
  ASSUME IInv, NEW k \in Requests, CommitUse(k)
  PROVE  IInv'
  <1> DEFINE i == tx[k].id
             row == tx[k].row
             c == tx[k].code
  <1>1. pc[k] = "commit" /\ tx[k].op = "use" /\ k \notin InFlight("register") /\ Locking(k) = {}
    BY DEF CommitUse, InFlight
  <1>2. CASE Answer(k)
    BY <1>1, <1>2, RequestAnswered
  <1>3. CASE ~Answer(k)
    <2>1. /\ i \in Stored /\ c \in codes /\ Commit(k, i, row)
          /\ codes' = codes \ {c} /\ uses' = [uses EXCEPT ![c] = @ + 1]
          /\ overwritten' = overwritten
      BY <1>3 DEF CommitUse, Target, StillStored
    <2>2. /\ i \in Ids /\ row \in Rows /\ row.active /\ c \in Codes /\ owner[c] = i
          /\ \/ row.password \in {None, c}
             \/ owner[row.password] = i /\ uses[row.password] = 1
      BY <1>1 DEF IInv, RequestsOK, RequestOK, ReadRow
    <2>3. tx[k].id = i /\ row \in Rows \cup {NoAccount} /\ row # NoAccount
      BY <2>2, NoAccountAssumption
    <2>4. \A j \in Requests \ {k} : Pending(j) => tx[j].code \in Made \ codes
      BY DEF IInv, PendingOK
    <2> HIDE DEF i, row, c
    <2>5. /\ Stored' = Stored \cup {i} /\ owner' = owner /\ kind' = kind /\ Made' = Made
          /\ accounts'[i] = row /\ \A j \in Ids \ {i} : accounts'[j] = accounts[j]
          /\ \A j \in InFlight("register") \ {k} :
               j \in InFlight("register")' /\ tx'[j].code = tx[j].code
      BY <2>1, <2>2, <2>3, CommitTables
    <2>6. uses \in [Codes -> {0, 1}] /\ codes \subseteq Made /\ overwritten \subseteq Ids
      BY DEF IInv, UsesOK, TypeOK
    <2>7. uses[c] = 0
      BY <2>1, <2>2, <2>6 DEF IInv, UsesOK
    <2>8. uses' = [uses EXCEPT ![c] = 1]
      BY <2>1, <2>7
    <2>9. uses'[c] = 1 /\ \A d \in Codes \ {c} : uses'[d] = uses[d]
      BY <2>2, <2>6, <2>8
    <2>10. Later(owner, uses, owner, uses')
      BY <2>9 DEF Later
    <2>11. ConfirmedBy(owner, uses', i, row)
      <3>1. row.password \in Codes \cup {None}
        BY <2>2 DEF Rows
      <3> QED
        BY <2>2, <2>9, <3>1 DEF ConfirmedBy
    <2>12. \A d \in codes' : owner[d] \in Stored'
      BY <2>1, <2>5 DEF IInv, TypeOK
    <2>13. \A d \in Codes : uses'[d] = 1 => d \in Made \ codes'
      BY <2>1, <2>6, <2>9 DEF IInv, UsesOK
    <2>14. \A j \in Requests \ {k} :
             Pending(j) => /\ tx[j].code \notin codes' /\ uses'[tx[j].code] = 0
                           /\ tx[j].op = "forgot" => tx[j].id \in Stored'
      BY <2>1, <2>4, <2>5, <2>9 DEF IInv, PendingOK, Made
    <2>15. ConfirmationHonoured'
      BY <1>1, <2>1, <2>5, <2>9 DEF IInv, ConfirmationHonoured, Made
    <2>16. InactiveHasCode'
      BY <2>1, <2>2, <2>5 DEF IInv, InactiveHasCode, Stored
    <2>17. uses' \in [Codes -> {0, 1}] /\ codes' \subseteq Made /\ overwritten' \subseteq Ids
      BY <2>1, <2>6, <2>8
    <2> QED
      BY <1>1, <2>1, <2>2, <2>3, <2>10, <2>11, <2>12, <2>13, <2>14, <2>15, <2>16, <2>17, CommitKeeps
  <1> QED
    BY <1>2, <1>3

\* The commit of saveMyAccount, or of what a login saved.
LEMMA CommitSaveKeeps ==
  ASSUME IInv, NEW k \in Requests, CommitSave(k)
  PROVE  IInv'
  <1> DEFINE i == tx[k].id
             row == tx[k].row
  <1>1. pc[k] = "commit" /\ tx[k].op \in {"login", "save"} /\ k \notin InFlight("register")
    BY DEF CommitSave, InFlight
  <1>2. CASE Answer(k)
    BY <1>1, <1>2, RequestAnswered
  <1>3. CASE ~Answer(k)
    <2>1. /\ i \in Stored /\ Commit(k, i, row) /\ codes' = codes /\ uses' = uses
          /\ overwritten' = IF tx[k].fresh \/ tx[k].op = "login" THEN overwritten
                            ELSE overwritten \cup {i}
      BY <1>3 DEF CommitSave, Target
    <2>2. /\ i \in Ids /\ row \in Rows /\ ConfirmedBy(owner, uses, i, row)
          /\ tx[k].op = "login" => row.active
          /\ tx[k].op = "save" /\ tx[k].fresh => row = accounts[i]
      BY <1>1 DEF IInv, RequestsOK, RequestOK, ReadRow
    <2>3. tx[k].id = i /\ row \in Rows \cup {NoAccount} /\ row # NoAccount
      BY <2>2, NoAccountAssumption
    <2>4. \/ row.active \/ row = accounts[i] \/ i \in overwritten'
      BY <1>1, <2>1, <2>2
    <2>5. overwritten \subseteq overwritten' /\ overwritten' \subseteq Ids
      BY <2>1, <2>2 DEF IInv, TypeOK
    <2> HIDE DEF i, row
    <2>6. /\ Stored' = Stored \cup {i} /\ owner' = owner /\ kind' = kind /\ Made' = Made
          /\ accounts'[i] = row /\ \A j \in Ids \ {i} : accounts'[j] = accounts[j]
          /\ \A j \in InFlight("register") \ {k} :
               j \in InFlight("register")' /\ tx'[j].code = tx[j].code
      BY <2>1, <2>2, <2>3, CommitTables
    <2>7. uses' \in [Codes -> {0, 1}] /\ codes' \subseteq Made
      BY <2>1 DEF IInv, UsesOK, TypeOK
    <2>8. Later(owner, uses, owner, uses') /\ ConfirmedBy(owner, uses', i, row)
      BY <2>1, <2>2 DEF Later
    <2>9. \A d \in codes' : owner[d] \in Stored'
      BY <2>1, <2>6 DEF IInv, TypeOK
    <2>10. \A d \in Codes : uses'[d] = 1 => d \in Made \ codes'
      BY <2>1 DEF IInv, UsesOK
    <2>11. \A j \in Requests \ {k} :
             Pending(j) => /\ tx[j].code \notin codes' /\ uses'[tx[j].code] = 0
                           /\ tx[j].op = "forgot" => tx[j].id \in Stored'
      BY <2>1, <2>6 DEF IInv, PendingOK
    <2>12. ConfirmationHonoured'
      BY <1>1, <2>1, <2>6 DEF IInv, ConfirmationHonoured
    <2>13. InactiveHasCode'
      BY <2>1, <2>2, <2>4, <2>5, <2>6 DEF IInv, InactiveHasCode, Stored
    <2> QED
      BY <1>1, <2>1, <2>2, <2>3, <2>5, <2>7, <2>8, <2>9, <2>10, <2>11, <2>12, <2>13, CommitKeeps
  <1> QED
    BY <1>2, <1>3

\* An account that goes has no code, stored or pending.
LEMMA CommitUnregisterKeeps ==
  ASSUME IInv, NEW k \in Requests, CommitUnregister(k)
  PROVE  IInv'
  <1> DEFINE i == tx[k].id
  <1>1. pc[k] = "commit" /\ tx[k].op = "unregister" /\ k \notin InFlight("register")
        /\ Locking(k) = {}
    BY DEF CommitUnregister, InFlight
  <1>2. CASE Answer(k)
    BY <1>1, <1>2, RequestAnswered
  <1>3. CASE ~Answer(k)
    <2>1. /\ i \in Stored /\ \A c \in codes : owner[c] # i
          /\ Commit(k, i, NoAccount) /\ codes' = codes /\ uses' = uses /\ overwritten' = overwritten
      BY <1>3 DEF CommitUnregister, Deletable
    <2>2. i \in Ids /\ tx[k].id = i
      BY <2>1 DEF Stored
    <2>3. \A j \in Requests \ {k} : Pending(j) /\ tx[j].op = "forgot" => tx[j].id # i
      BY <1>1 DEF Locking, InFlight, Pending
    <2> HIDE DEF i
    <2>4. /\ Stored' = Stored \ {i} /\ owner' = owner /\ kind' = kind /\ Made' = Made
          /\ accounts'[i] = NoAccount /\ \A j \in Ids \ {i} : accounts'[j] = accounts[j]
          /\ \A j \in InFlight("register") \ {k} :
               j \in InFlight("register")' /\ tx'[j].code = tx[j].code
      BY <2>1, <2>2, CommitTables
    <2>5. uses' \in [Codes -> {0, 1}] /\ codes' \subseteq Made /\ overwritten' \subseteq Ids
      BY <2>1 DEF IInv, UsesOK, TypeOK
    <2>6. Later(owner, uses, owner, uses')
      BY <2>1 DEF Later
    <2>7. \A d \in codes' : owner[d] \in Stored'
      BY <2>1, <2>4 DEF IInv, TypeOK
    <2>8. \A d \in Codes : uses'[d] = 1 => d \in Made \ codes'
      BY <2>1 DEF IInv, UsesOK
    <2>9. \A j \in Requests \ {k} :
            Pending(j) => /\ tx[j].code \notin codes' /\ uses'[tx[j].code] = 0
                          /\ tx[j].op = "forgot" => tx[j].id \in Stored'
      BY <2>1, <2>3, <2>4 DEF IInv, PendingOK
    <2>10. ConfirmationHonoured'
      BY <1>1, <2>1, <2>4 DEF IInv, ConfirmationHonoured
    <2>11. InactiveHasCode'
      BY <2>1, <2>4 DEF IInv, InactiveHasCode, Stored
    <2> QED
      BY <1>1, <2>1, <2>2, <2>5, <2>6, <2>7, <2>8, <2>9, <2>10, <2>11, CommitKeeps
  <1> QED
    BY <1>2, <1>3

\* A registration is never a deadlock's victim: nobody else knows its account.
LEMMA DeadlockKeeps ==
  ASSUME IInv, NEW k \in Requests, Deadlock(k)
  PROVE  IInv'
  <1>1. ASSUME k \in InFlight("register")
        PROVE  FALSE
    <2>1. \A j \in Requests \ {k} : tx[j].id # tx[k].id
      BY <1>1 DEF InFlight, IInv, PendingOK, Pending
    <2> QED
      BY <1>1, <2>1 DEF Deadlock, Locking, InFlight
  <1> QED
    BY <1>1, RequestAnswered DEF Deadlock

-----------------------------------------------------------------------------
(* The theorems *)

\* The invariant holds at the start.
LEMMA Initial == Init => IInv
  <1> SUFFICES ASSUME Init
               PROVE  IInv
    OBVIOUS
  <1>1. Stored = {} /\ Made = {} /\ Registered = {}
    BY DEF Init, Stored, Made, Registered
  <1>2. Counted
    <2>1. Made = 1 .. 0 /\ Registered = 1 .. 0 /\ 0 \in Nat
      BY <1>1
    <2> QED
      BY <2>1 DEF Counted
  <1>3. \A k \in Requests : pc[k] = "idle" /\ tx[k] = Idle
    BY DEF Init
  <1>4. Idle \in Transactions /\ Idle.id = None
    BY DEF Idle, Transactions
  <1>5. TypeOK
    BY <1>1, <1>4 DEF Init, TypeOK
  <1>6. Known /\ UsesOK /\ AccountsOK
    BY <1>1, <1>3, <1>4 DEF Init, Known, UsesOK, AccountsOK
  <1>7. RequestsOK /\ PendingOK
    BY <1>3 DEF RequestsOK, RequestOK, PendingOK, Pending
  <1>8. ConfirmationHonoured /\ InactiveHasCode
    BY <1>1 DEF ConfirmationHonoured, InactiveHasCode
  <1> QED
    BY <1>2, <1>5, <1>6, <1>7, <1>8 DEF IInv

\* Every step keeps the invariant.
LEMMA Inductive == IInv /\ [Next]_vars => IInv'
  <1> SUFFICES ASSUME IInv, [Next]_vars
               PROVE  IInv'
    OBVIOUS
  <1>1. CASE UNCHANGED vars
    <2>1. UNCHANGED <<accounts, codes, uses, overwritten, owner, kind, session, pc, tx>>
      BY <1>1 DEF vars, tables, sent
    <2>2. Made' = Made /\ Stored' = Stored /\ Registered' = Registered
      BY <2>1 DEF Made, Stored, Registered
    <2>3. TypeOK' /\ Counted' /\ Known' /\ UsesOK' /\ AccountsOK' /\ InactiveHasCode'
      BY <2>1, <2>2 DEF IInv, TypeOK, Counted, Known, UsesOK, AccountsOK, InactiveHasCode
    <2>4. RequestsOK' /\ PendingOK' /\ ConfirmationHonoured'
      BY <2>1, <2>2 DEF IInv, RequestsOK, PendingOK, Pending, ConfirmationHonoured, InFlight
    <2> QED
      BY <2>3, <2>4 DEF IInv
  <1>2. ASSUME NEW k \in Requests, Request(k)
        PROVE  IInv'
    BY <1>2, RequestKeeps
  <1>3. ASSUME NEW k \in Requests, Serve(k)
        PROVE  IInv'
    <2>1. CASE InsertUser(k)
      <3>1. pc[k] = "insertUser" /\ NewId \in Ids /\ SendCode(k, NewId, "confirmation")
        BY <2>1 DEF InsertUser
      <3> QED
        BY <3>1, CodeSent
    <2>2. CASE InsertCode(k)
      <3>1. /\ pc[k] = "insertCode" /\ tx[k].id \in Stored /\ tx[k].id \in Ids
            /\ SendCode(k, tx[k].id, "reset")
        BY <2>2 DEF InsertCode, Stored
      <3> QED
        BY <3>1, CodeSent
    <2>3. CASE InsertUserRefused(k) \/ InsertCodeRefused(k)
      BY <2>3, RequestAnswered DEF InsertUserRefused, InsertCodeRefused, InFlight
    <2> QED
      BY <1>3, <2>1, <2>2, <2>3, CommitRegisterKeeps, CommitForgotKeeps, CommitUseKeeps,
         CommitSaveKeeps, CommitUnregisterKeeps, DeadlockKeeps DEF Serve
  <1> QED
    BY <1>1, <1>2, <1>3 DEF Next

\* The invariant holds in every reachable state.
THEOREM Invariant == Spec => []IInv
  BY Initial, Inductive, PTL DEF Spec

\* Types and references hold: no code refers to an account that is gone.
THEOREM TypeCorrect == Spec => []TypeOK
  BY Invariant, PTL DEF IInv

\* A code takes effect at most once (UserServiceImpl.activate, resetPassword).
THEOREM OncePerCode == Spec => []CodeUsedOnce
  <1>1. IInv => CodeUsedOnce
    BY DEF IInv, UsesOK, CodeUsedOnce
  <1> QED
    BY <1>1, Invariant, PTL

\* An account is opened, and its password set, by its own codes only.
THEOREM OpenedByOwnCode == Spec => []ActiveWasConfirmed
  <1>1. IInv => ActiveWasConfirmed
    BY DEF IInv, AccountsOK, ConfirmedBy, ActiveWasConfirmed
  <1> QED
    BY <1>1, Invariant, PTL

\* The code of a confirmation mail stays good until it is used.
THEOREM MailsHold == Spec => []ConfirmationHonoured
  BY Invariant, PTL DEF IInv

\* An inactive account has a code that opens it, but for a stale save.
THEOREM NobodyLockedOut == Spec => []InactiveHasCode
  BY Invariant, PTL DEF IInv

=============================================================================
