--------------------------- MODULE AccountsProofs ---------------------------
(***************************************************************************)
(* Proofs about Accounts, for any browsers, names, passwords, accounts     *)
(* from before and bounds.                                                 *)
(***************************************************************************)
EXTENDS Accounts, FiniteSetTheorems, TLAPS

----------------------------------------------------------------------------
(* The inductive invariant *)

\* A row, when `marks` are the logins with a hash that was put back.  A reset
\* replaces the password's part and an upgrade one of the hashes; what they
\* replace it with keeps this.
RowSound(u, row, marks) ==
  /\ row \in Row
  /\ Opening(row.recovery)
  /\ row.recovery.blob.key.secret = row.recovery.blob.identity
  /\ row.recovery.blob.identity = row.password.blob.identity
  /\ row.identity_pub \subseteq {row.recovery.blob.identity}
  /\ Opening(row.password) \/ (u \in Old /\ row.password \in marks)
  /\ u \notin Old => ~row.password.hash.legacy /\ ~row.recovery.hash.legacy

\* A request or a login r when the table is `rows`.  The row a handler answers
\* from may be older than the one in the table: they agree in the recovery
\* blob, and with it in the identity.
Has(u, rows) == u \in DOMAIN rows
RequestTyped(r, rows) ==
  /\ r.at # "out" => Has(Lower[r.name], rows)
  /\ r.at \in {"upgrade", "effect"} <=> r.row # {}
  /\ Cardinality(r.row) <= 1
  /\ r.op \in SignedIn \cup {"reset"} => r.identity # {}
  /\ r.at = "in" => r.identity # {}
  /\ r.at = "out" => r.identity = {}
RequestSound(r, rows, marks) ==
  LET u == Lower[r.name]
  IN  /\ r.at = "upgrade" => u \in Old
      /\ r.identity # {} => r.identity = {rows[u].recovery.blob.identity}
      /\ \A row \in r.row :
           RowSound(u, row, marks) /\ row.recovery.blob = rows[u].recovery.blob
      /\ r.at \in {"upgrade", "effect"} /\ r.op \in Recovering =>
           r.key = rows[u].recovery.blob.key
      /\ r.at \in {"upgrade", "effect"} /\ r.op = "login" =>
           \A row \in r.row : row.password.hash.key = r.key

Rows == DOMAIN accounts \subseteq Users /\ \A u \in DOMAIN accounts : RowSound(u, accounts[u], putBack)
Requests ==
  /\ request \in [Browsers -> Request]
  /\ \A b \in Browsers :
       RequestTyped(request[b], accounts) /\ RequestSound(request[b], accounts, putBack)
Rest ==
  /\ contact_edges \subseteq Pairs
  /\ salts \in 0..MaxSalts
  /\ made \in [Browsers -> 0..MaxRequests]
  /\ putBack \subseteq Login
  /\ \A login \in putBack : login.hash = HashSecret(login.hash.key)

Inv == Rows /\ Requests /\ Rest

----------------------------------------------------------------------------
(* Initially *)

LEMMA NoRequestSound ==
  ASSUME NEW rows, NEW marks
  PROVE  /\ NoRequest \in Request
         /\ RequestTyped(NoRequest, rows) /\ RequestSound(NoRequest, rows, marks)
<1>1. /\ (CHOOSE n \in Names : TRUE) \in Names
      /\ (CHOOSE p \in Passwords : TRUE) \in Passwords
  BY AccountsAssumption
<1>2. NoRequest \in Request
  BY <1>1 DEF NoRequest, Request, OldKey, Key, Costs, Proving, Steps
<1>3. Cardinality({}) = 0
  BY FS_EmptySet
<1>4. /\ NoRequest.at = "out" /\ NoRequest.op = "login"
      /\ NoRequest.row = {} /\ NoRequest.identity = {}
  BY DEF NoRequest
<1>5. QED
  BY <1>2, <1>3, <1>4 DEF RequestTyped, RequestSound, SignedIn, Recovering

LEMMA OldRowSound ==
  ASSUME NEW u \in Old, NEW p \in Passwords, NEW pub, pub \subseteq {u}, NEW marks
  PROVE  RowSound(u, OldRow(u, p, pub), marks)
<1>1. u \in Names /\ u \in People
  BY AccountsAssumption DEF Users, People
<1>2. OldKey(p, 0) \in Key /\ OldKey(u, 0) \in Key
  BY <1>1 DEF OldKey, Key, Costs
<1>3. OldRow(u, p, pub) \in Row
  BY <1>1, <1>2 DEF OldRow, NewLogin, Row, Login, Hash, Blob, OldKey, Costs
<1>4. QED
  BY <1>3 DEF OldRow, RowSound, NewLogin, OldKey, Opening

LEMMA InitInv == Init => Inv
<1> SUFFICES ASSUME Init PROVE Inv
  OBVIOUS
<1>1. Rows
  <2>1. PICK p \in [Old -> Passwords], pub \in [Old -> BOOLEAN] :
          accounts = [u \in Old |-> OldRow(u, p[u], IF pub[u] THEN {u} ELSE {})]
    BY DEF Init
  <2>2. DOMAIN accounts = Old /\ Old \subseteq Users
    BY <2>1, AccountsAssumption
  <2>3. ASSUME NEW u \in Old PROVE RowSound(u, accounts[u], putBack)
    BY <2>1, <2>3, OldRowSound
  <2>4. QED
    BY <2>2, <2>3 DEF Rows
<1>2. Requests
  BY NoRequestSound DEF Init, Requests
<1>3. Rest
  BY AccountsAssumption DEF Init, Rest
<1>4. QED
  BY <1>1, <1>2, <1>3 DEF Inv

----------------------------------------------------------------------------
(* What a step may change *)

\* No row goes away, nor does its recovery blob change; marks stay.
Kept ==
  /\ putBack \subseteq putBack'
  /\ \A u \in DOMAIN accounts :
       u \in DOMAIN accounts' /\ accounts'[u].recovery.blob = accounts[u].recovery.blob

LEMMA MoreMarks ==
  ASSUME NEW u, NEW row, NEW marks, NEW more, marks \subseteq more, RowSound(u, row, marks)
  PROVE  RowSound(u, row, more)
BY DEF RowSound

LEMMA SameRows == ASSUME Rows, UNCHANGED <<accounts, putBack>> PROVE Rows' /\ Kept
BY DEF Rows, Kept

\* A row is replaced by a sound one with the same recovery blob.
LEMMA RowReplaced ==
  ASSUME Rows, NEW u \in DOMAIN accounts, NEW row, RowSound(u, row, putBack'),
         putBack \subseteq putBack', row.recovery.blob = accounts[u].recovery.blob,
         accounts' = [accounts EXCEPT ![u] = row]
  PROVE  Rows' /\ Kept
<1>1. DOMAIN accounts' = DOMAIN accounts
  OBVIOUS
<1>2. \A v \in DOMAIN accounts : accounts'[v] = IF v = u THEN row ELSE accounts[v]
  OBVIOUS
<1>3. Rows'
  BY <1>1, <1>2, MoreMarks DEF Rows
<1>4. Kept
  BY <1>1, <1>2 DEF Kept
<1>5. QED
  BY <1>3, <1>4

\* A row is added.
LEMMA RowAdded ==
  ASSUME Rows, NEW u \in Users, NEW row, RowSound(u, row, putBack), ~Exists(u),
         accounts' = Inserted(u, row), UNCHANGED putBack
  PROVE  Rows' /\ Kept /\ u \in DOMAIN accounts' /\ accounts'[u] = row
<1>1. DOMAIN accounts' = DOMAIN accounts \cup {u} /\ u \notin DOMAIN accounts
  BY DEF Inserted, Exists
<1>2. \A v \in DOMAIN accounts' : accounts'[v] = IF v = u THEN row ELSE accounts[v]
  BY DEF Inserted, Exists
<1>3. Rows'
  BY <1>1, <1>2 DEF Rows
<1>4. Kept
  BY <1>1, <1>2 DEF Kept
<1>5. QED
  BY <1>1, <1>2, <1>3, <1>4

\* Whatever a browser has goes on being sound while others change the table.
LEMMA StaysSound ==
  ASSUME Requests, Kept, NEW b \in Browsers
  PROVE  RequestTyped(request[b], accounts') /\ RequestSound(request[b], accounts', putBack')
<1> DEFINE r == request[b]
<1>1. r \in Request /\ RequestTyped(r, accounts) /\ RequestSound(r, accounts, putBack)
  BY DEF Requests
<1>2. r.at # "out" => /\ Lower[r.name] \in DOMAIN accounts'
                      /\ accounts'[Lower[r.name]].recovery.blob = accounts[Lower[r.name]].recovery.blob
  BY <1>1 DEF RequestTyped, Has, Kept
<1>3. r.at = "out" => r.row = {} /\ r.identity = {}
  BY <1>1 DEF RequestTyped
<1> HIDE DEF r
<1>4. RequestTyped(r, accounts')
  BY <1>1, <1>2 DEF RequestTyped, Has
<1>5. \A row \in r.row : RowSound(Lower[r.name], row, putBack) =>
                         RowSound(Lower[r.name], row, putBack')
  BY MoreMarks DEF Kept
<1>r. RequestSound(r, accounts', putBack')
  BY <1>1, <1>2, <1>3, <1>5 DEF RequestSound
<1>6. QED
  BY <1>4, <1>r DEF r

\* One browser has something else.
LEMMA RequestReplaced ==
  ASSUME Requests, Kept, NEW b \in Browsers, NEW r \in Request,
         RequestTyped(r, accounts'), RequestSound(r, accounts', putBack'),
         request' = [request EXCEPT ![b] = r]
  PROVE  Requests'
<1>1. request' \in [Browsers -> Request]
  BY DEF Requests
<1>2. ASSUME NEW c \in Browsers
      PROVE  RequestTyped(request'[c], accounts') /\ RequestSound(request'[c], accounts', putBack')
  <2>1. request'[c] = IF c = b THEN r ELSE request[c]
    BY DEF Requests
  <2>2. QED
    BY <2>1, StaysSound
<1>3. QED
  BY <1>1, <1>2 DEF Requests

\* What a browser has, spelled out.
LEMMA OfBrowser ==
  ASSUME Inv, NEW b \in Browsers
  PROVE  /\ request[b] \in Request
         /\ RequestTyped(request[b], accounts) /\ RequestSound(request[b], accounts, putBack)
         /\ User(b) = Lower[request[b].name] /\ User(b) \in Users
         /\ request[b].at # "out" =>
              User(b) \in DOMAIN accounts /\ RowSound(User(b), accounts[User(b)], putBack)
<1>1. request[b] \in Request /\ RequestTyped(request[b], accounts) /\ RequestSound(request[b], accounts, putBack)
  BY DEF Inv, Requests
<1>2. request[b].name \in Names
  BY <1>1 DEF Request
<1>3. User(b) = Lower[request[b].name] /\ User(b) \in Users
  BY <1>2 DEF User, Users
<1>4. QED
  BY <1>1, <1>3 DEF RequestTyped, Has, Inv, Rows

\* A row that a handler answers from.
LEMMA Answers ==
  ASSUME Inv, NEW b \in Browsers, request[b].at \in {"upgrade", "effect"}
  PROVE  /\ Answer(b) \in request[b].row
         /\ RowSound(User(b), Answer(b), putBack)
         /\ Answer(b).recovery.blob = accounts[User(b)].recovery.blob
<1>1. request[b].row # {}
  BY OfBrowser DEF RequestTyped
<1>2. Answer(b) \in request[b].row
  BY <1>1 DEF Answer
<1>3. QED
  BY <1>2, OfBrowser DEF RequestSound

LEMMA RestStep ==
  ASSUME Inv, NEW b \in Browsers
  PROVE  /\ Sends(b) => made' \in [Browsers -> 0..MaxRequests]
         /\ UNCHANGED made => made' \in [Browsers -> 0..MaxRequests]
         /\ UNCHANGED contact_edges => contact_edges' \subseteq Pairs
         /\ UNCHANGED salts => salts' \in 0..MaxSalts
         /\ UNCHANGED putBack =>
              /\ putBack' \subseteq Login
              /\ \A login \in putBack' : login.hash = HashSecret(login.hash.key)
BY AccountsAssumption DEF Inv, Rest, Sends

----------------------------------------------------------------------------
(* The steps *)

LEMMA SignupStep ==
  ASSUME Inv, NEW b \in Browsers, NEW n \in Names, NEW p \in Passwords, Signup(b, n, p)
  PROVE  Inv'
<1> DEFINE password == FreshKey(p, salts + 1)
           phrase == FreshKey(b, salts + 2)
           row == [password |-> NewLogin(password, FALSE, n, b),
                   recovery |-> NewLogin(phrase, FALSE, n, b),
                   identity_pub |-> {b}]
           u == Lower[n]
           r == [request[b] EXCEPT !.at = "in", !.name = n, !.key = password, !.identity = {b}]
<1>1. /\ request[b].at = "out" /\ salts + 2 <= MaxSalts /\ Sends(b) /\ salts' = salts + 2
      /\ accounts' = Inserted(u, row)
      /\ request' = [request EXCEPT ![b] = IF Exists(u) THEN @ ELSE r]
      /\ UNCHANGED <<contact_edges, putBack>>
  BY DEF Signup
<1>2. salts \in Nat /\ MaxSalts \in Nat /\ u \in Users /\ b \in People
  BY AccountsAssumption DEF Inv, Rest, Users, People
<1>3. Rest'
  BY <1>1, <1>2, RestStep DEF Rest
<1>4. password \in Key /\ phrase \in Key
  BY <1>2 DEF Key, FreshKey, Costs, People
<1>5. RowSound(u, row, putBack)
  <2>1. row \in Row
    BY <1>2, <1>4 DEF Row, Login, Hash, Blob, NewLogin, FreshKey, Costs
  <2>2. QED
    BY <2>1 DEF RowSound, NewLogin, FreshKey, Opening
<1>o. request[b] \in Request /\ RequestTyped(request[b], accounts) /\ RequestSound(request[b], accounts, putBack)
  BY OfBrowser
<1>6. CASE Exists(u)
  <2>1. UNCHANGED accounts
    BY <1>1, <1>6 DEF Inserted
  <2>2. UNCHANGED request
    BY <1>1, <1>6 DEF Inv, Requests
  <2>3. Rows' /\ Requests'
    BY <1>1, <2>1, <2>2 DEF Inv, Rows, Requests
  <2>4. QED
    BY <1>3, <2>3 DEF Inv
<1>7. CASE ~Exists(u)
  <2>1. Rows' /\ Kept /\ u \in DOMAIN accounts' /\ accounts'[u] = row
    <3> HIDE DEF u, row
    <3>1. QED
      BY <1>1, <1>2, <1>5, <1>7, RowAdded DEF Inv
  <2>2. r \in Request
    BY <1>o, <1>2, <1>4 DEF Request, Steps
  <2>3. request[b].row = {} /\ request[b].at = "out"
    BY <1>1, <1>o DEF RequestTyped
  <2>4. /\ r.at = "in" /\ r.name = n /\ r.identity = {b} /\ r.row = {}
        /\ r.op = request[b].op
    BY <1>o, <2>3 DEF Request
  <2>5. row.recovery.blob.identity = b
    BY DEF NewLogin
  <2>6. Cardinality({}) = 0
    BY FS_EmptySet
  <2>7. RequestTyped(r, accounts')
    <3> HIDE DEF r
    <3>1. QED
      BY <2>1, <2>4, <2>6 DEF RequestTyped, Has
  <2>8. RequestSound(r, accounts', putBack')
    <3> HIDE DEF r, row
    <3>1. QED
      BY <2>1, <2>4, <2>5 DEF RequestSound
  <2>9. Requests'
    <3>1. request' = [request EXCEPT ![b] = r]
      BY <1>1, <1>7
    <3> HIDE DEF r
    <3>2. QED
      BY <2>1, <2>2, <2>7, <2>8, <3>1, RequestReplaced DEF Inv
  <2>10. QED
    BY <1>3, <2>1, <2>9 DEF Inv
<1>8. QED
  BY <1>6, <1>7

\* The key a browser derives from what it is told of a row.
LEMMA DerivedKey ==
  ASSUME NEW login \in Login, NEW secret \in Passwords \cup People
  PROVE  [secret |-> secret, salt |-> login.salt, cost |-> login.cost] \in Key
BY DEF Login, Key

\* What browser b has changes, the table does not.
LEMMA OnlyRequest ==
  ASSUME Inv, NEW b \in Browsers, NEW r \in Request,
         RequestTyped(r, accounts), RequestSound(r, accounts, putBack),
         request' = [request EXCEPT ![b] = r],
         UNCHANGED <<accounts, contact_edges, salts, putBack>>,
         UNCHANGED made \/ Sends(b)
  PROVE  Inv'
<1>1. Rows' /\ Kept
  BY SameRows DEF Inv
<1>2. Requests'
  BY <1>1, RequestReplaced DEF Inv
<1>3. Rest'
  BY RestStep DEF Rest
<1>4. QED
  BY <1>1, <1>2, <1>3 DEF Inv

LEMMA AskStep ==
  ASSUME Inv, NEW b \in Browsers, NEW n \in Names,
         \/ \E p \in Passwords : AskLoginSalt(b, n, p)
         \/ \E i \in People : AskRecoverySalt(b, n, i)
  PROVE  Inv'
<1>o. request[b] \in Request /\ RequestTyped(request[b], accounts) /\ RequestSound(request[b], accounts, putBack)
  BY OfBrowser
<1>1. PICK op \in {"login", "verify"}, key \in Key :
        /\ request[b].at = "out" /\ Exists(Lower[n]) /\ Sends(b)
        /\ request' = [request EXCEPT ![b] = [@ EXCEPT
             !.at = "asked", !.op = op, !.name = n, !.identity = {}, !.key = key]]
        /\ UNCHANGED <<accounts, contact_edges, salts, putBack>>
  <2>1. CASE \E p \in Passwords : AskLoginSalt(b, n, p)
    <3>1. PICK p \in Passwords : AskLoginSalt(b, n, p)
      BY <2>1
    <3>2. accounts[Lower[n]].password \in Login
      BY <3>1 DEF AskLoginSalt, Exists, Inv, Rows, RowSound, Row
    <3>3. QED
      BY <3>1, <3>2, DerivedKey DEF AskLoginSalt
  <2>2. CASE \E i \in People : AskRecoverySalt(b, n, i)
    <3>1. PICK i \in People : AskRecoverySalt(b, n, i)
      BY <2>2
    <3>2. accounts[Lower[n]].recovery \in Login
      BY <3>1 DEF AskRecoverySalt, Exists, Inv, Rows, RowSound, Row
    <3>3. QED
      BY <3>1, <3>2, DerivedKey DEF AskRecoverySalt
  <2>3. QED
    BY <2>1, <2>2
<1> DEFINE r == [request[b] EXCEPT
                   !.at = "asked", !.op = op, !.name = n, !.identity = {}, !.key = key]
<1>2. r \in Request
  BY <1>o DEF Request, Steps, Proving
<1>3. /\ r.at = "asked" /\ r.op \in {"login", "verify"} /\ r.name = n
      /\ r.identity = {} /\ r.row = request[b].row
  BY <1>o DEF Request
<1>4. request' = [request EXCEPT ![b] = r]
  BY <1>1
<1> HIDE DEF r
<1>5. r.row = {}
  BY <1>1, <1>3, <1>o DEF RequestTyped
<1>6. Cardinality({}) = 0
  BY FS_EmptySet
<1>7. RequestTyped(r, accounts)
  BY <1>1, <1>3, <1>5, <1>6 DEF RequestTyped, Has, Exists, SignedIn
<1>8. RequestSound(r, accounts, putBack)
  BY <1>3, <1>5 DEF RequestSound
<1>9. QED
  BY <1>1, <1>2, <1>4, <1>7, <1>8, OnlyRequest

LEMMA AskSignedInStep ==
  ASSUME Inv, NEW b \in Browsers, NEW op \in SignedIn, AskSignedIn(b, op)
  PROVE  Inv'
<1> DEFINE r == [request[b] EXCEPT !.at = "asked", !.op = op]
<1>o. request[b] \in Request /\ RequestTyped(request[b], accounts) /\ RequestSound(request[b], accounts, putBack)
  BY OfBrowser
<1>1. request[b].at = "in" /\ Sends(b) /\ UNCHANGED <<accounts, contact_edges, salts, putBack>>
  BY DEF AskSignedIn
<1>2. request' = [request EXCEPT ![b] = r]
  BY <1>o DEF AskSignedIn, Inv, Requests
<1>3. r \in Request
  BY <1>o DEF Request, Steps, Proving, SignedIn
<1>4. /\ r.at = "asked" /\ r.op = op /\ r.name = request[b].name
      /\ r.identity = request[b].identity /\ r.row = request[b].row
  BY <1>o DEF Request
<1> HIDE DEF r
<1>5. r.row = {} /\ r.identity # {}
  BY <1>1, <1>4, <1>o DEF RequestTyped
<1>6. RequestTyped(r, accounts)
  BY <1>1, <1>4, <1>5, <1>o DEF RequestTyped
<1>7. RequestSound(r, accounts, putBack)
  BY <1>4, <1>5, <1>o DEF RequestSound
<1>8. QED
  BY <1>1, <1>2, <1>3, <1>6, <1>7, OnlyRequest

\* What a browser has after a request that failed.
LEMMA FailedSound ==
  ASSUME Inv, NEW b \in Browsers, request[b].at \in Steps
  PROVE  /\ Failed(request[b]) \in Request
         /\ RequestTyped(Failed(request[b]), accounts)
         /\ RequestSound(Failed(request[b]), accounts, putBack)
<1> DEFINE r == [request[b] EXCEPT !.at = "in", !.row = {}]
<1>o. request[b] \in Request /\ RequestTyped(request[b], accounts) /\ RequestSound(request[b], accounts, putBack)
  BY OfBrowser
<1>1. CASE request[b].op \in SignedIn
  <2>1. Failed(request[b]) = r
    BY <1>1 DEF Failed
  <2>2. r \in Request
    BY <1>o DEF Request
  <2>3. /\ r.at = "in" /\ r.op = request[b].op /\ r.name = request[b].name
        /\ r.identity = request[b].identity /\ r.row = {}
    BY <1>o DEF Request
  <2> HIDE DEF r
  <2>4. request[b].identity # {} /\ Has(Lower[r.name], accounts)
    BY <1>1, <1>o, <2>3 DEF RequestTyped, Steps
  <2>5. Cardinality({}) = 0
    BY FS_EmptySet
  <2>6. RequestTyped(r, accounts) /\ RequestSound(r, accounts, putBack)
    BY <1>o, <2>3, <2>4, <2>5 DEF RequestTyped, RequestSound
  <2>7. QED
    BY <2>1, <2>2, <2>6
<1>2. CASE request[b].op \notin SignedIn
  BY <1>2, NoRequestSound DEF Failed
<1>3. QED
  BY <1>1, <1>2

LEMMA VerifyStep == ASSUME Inv, NEW b \in Browsers, Verify(b) PROVE Inv'
<1> DEFINE row == accounts[User(b)]
           hash == Proved(request[b].op, row).hash
           at == IF Outdated(hash) THEN "upgrade" ELSE "effect"
           r == [request[b] EXCEPT !.at = at, !.row = {row}]
<1>o. /\ request[b] \in Request /\ RequestTyped(request[b], accounts)
      /\ RequestSound(request[b], accounts, putBack)
      /\ User(b) = Lower[request[b].name]
  BY OfBrowser
<1>1. /\ request[b].at = "asked" /\ UNCHANGED <<accounts, contact_edges, salts, made, putBack>>
      /\ request' = [request EXCEPT ![b] =
                       IF hash.key = request[b].key THEN r ELSE Failed(request[b])]
  BY DEF Verify
<1>2. User(b) \in DOMAIN accounts /\ RowSound(User(b), row, putBack)
  BY <1>1, OfBrowser
<1>3. CASE hash.key # request[b].key
  BY <1>1, <1>3, FailedSound, OnlyRequest DEF Steps
<1>4. CASE hash.key = request[b].key
  <2>1. at \in {"upgrade", "effect"}
    OBVIOUS
  <2>2. row \in Row
    BY <1>2 DEF RowSound
  <2>3. r \in Request
    BY <1>o, <2>1, <2>2 DEF Request, Steps
  <2>4. /\ r.at = at /\ r.op = request[b].op /\ r.name = request[b].name /\ r.key = request[b].key
        /\ r.identity = request[b].identity /\ r.row = {row}
    BY <1>o DEF Request
  <2>5. Cardinality({row}) = 1
    BY FS_Singleton
  <2>6. RequestTyped(r, accounts)
    <3> HIDE DEF r, row, at
    <3>1. QED
      BY <1>o, <1>1, <1>2, <2>1, <2>4, <2>5 DEF RequestTyped, Has
  <2>7. at = "upgrade" => User(b) \in Old
    <3>1. hash.legacy \in BOOLEAN
      BY <2>2 DEF Row, Login, Hash, Proved
    <3>2. QED
      BY <1>2, <3>1 DEF RowSound, Outdated, Proved
  <2>8. request[b].op \in Recovering => request[b].key = row.recovery.blob.key
    BY <1>2, <1>4 DEF Proved, RowSound, Opening
  <2>9. request[b].op = "login" => request[b].key = row.password.hash.key
    BY <1>4 DEF Proved, Recovering
  <2>10. RequestSound(r, accounts, putBack)
    <3> HIDE DEF r, at
    <3>1. QED
      BY <1>o, <1>2, <2>1, <2>4, <2>7, <2>8, <2>9 DEF RequestSound
  <2>11. request' = [request EXCEPT ![b] = r]
    BY <1>1, <1>4
  <2> HIDE DEF r
  <2>12. QED
    BY <1>1, <2>3, <2>6, <2>10, <2>11, OnlyRequest
<1>5. QED
  BY <1>3, <1>4

\* A hash that is stored anew is the one of the row's own key: only accounts
\* from before have one, and the phrase's key never changes.
LEMMA UpgradeStep == ASSUME Inv, NEW b \in Browsers, Upgrade(b) PROVE Inv'
<1> DEFINE u == User(b)
           row == Upgraded(request[b].op, accounts[u], HashSecret(request[b].key))
           r == [request[b] EXCEPT !.at = "effect"]
<1>o. /\ request[b] \in Request /\ RequestTyped(request[b], accounts)
      /\ RequestSound(request[b], accounts, putBack) /\ u = Lower[request[b].name]
  BY OfBrowser
<1>1. /\ request[b].at = "upgrade" /\ UNCHANGED <<contact_edges, salts, made>>
      /\ putBack' = putBack \cup PutBack(request[b].op, accounts[u], request[b].key)
      /\ accounts' = [accounts EXCEPT ![u] = row]
      /\ request' = [request EXCEPT ![b] = r]
  BY <1>o DEF Upgrade, Inv, Requests
<1>2. u \in DOMAIN accounts /\ RowSound(u, accounts[u], putBack) /\ u \in Old
  BY <1>1, <1>o, OfBrowser DEF RequestSound
<1>3. HashSecret(request[b].key) \in Hash
  BY <1>o DEF HashSecret, Hash, Request
<1>m. putBack \subseteq putBack'
  BY <1>1
<1>4. /\ RowSound(u, row, putBack') /\ row.recovery.blob = accounts[u].recovery.blob
      /\ PutBack(request[b].op, accounts[u], request[b].key) \subseteq Login
  <2>1. accounts[u] \in Row /\ RowSound(u, accounts[u], putBack')
    BY <1>2, <1>m, MoreMarks DEF RowSound
  <2>2. CASE request[b].op \in Recovering
    <3>1. row = [accounts[u] EXCEPT !.recovery.hash = HashSecret(request[b].key)]
      BY <2>2 DEF Upgraded
    <3>2. row \in Row
      BY <1>3, <2>1, <3>1 DEF Row, Login
    <3>3. /\ row.password = accounts[u].password /\ row.identity_pub = accounts[u].identity_pub
          /\ row.recovery.salt = accounts[u].recovery.salt
          /\ row.recovery.cost = accounts[u].recovery.cost
          /\ row.recovery.blob = accounts[u].recovery.blob
          /\ row.recovery.hash.key = request[b].key
      BY <2>1, <3>1 DEF Row, Login, HashSecret
    <3>4. request[b].key = accounts[u].recovery.blob.key
      BY <1>1, <1>o, <2>2 DEF RequestSound
    <3> HIDE DEF row
    <3>5. RowSound(u, row, putBack')
      BY <1>2, <2>1, <3>2, <3>3, <3>4 DEF RowSound, Opening
    <3>6. QED
      BY <2>2, <3>3, <3>5 DEF PutBack
  <2>3. CASE request[b].op \notin Recovering
    <3>1. row = [accounts[u] EXCEPT !.password.hash = HashSecret(request[b].key)]
      BY <2>3 DEF Upgraded
    <3>2. row \in Row
      BY <1>3, <2>1, <3>1 DEF Row, Login
    <3>3. /\ row.recovery = accounts[u].recovery /\ row.identity_pub = accounts[u].identity_pub
          /\ row.password = [accounts[u].password EXCEPT !.hash = HashSecret(request[b].key)]
      BY <2>1, <3>1 DEF Row, Login
    <3>4. /\ accounts[u].password \in Login /\ row.password \in Login
          /\ row.password.salt = accounts[u].password.salt
          /\ row.password.cost = accounts[u].password.cost
          /\ row.password.blob = accounts[u].password.blob
          /\ row.password.hash = HashSecret(request[b].key)
      BY <2>1, <3>2, <3>3 DEF Row, Login
    <3>h. HashSecret(request[b].key).key = request[b].key
      BY DEF HashSecret
    <3>5. PutBack(request[b].op, accounts[u], request[b].key)
            = IF accounts[u].password.hash.key # request[b].key THEN {row.password} ELSE {}
      BY <2>3 DEF PutBack
    <3> HIDE DEF row
    <3>6. Opening(row.password) \/ row.password \in putBack'
      <4>1. CASE accounts[u].password.hash.key # request[b].key
        BY <1>1, <3>5, <4>1
      <4>2. CASE accounts[u].password.hash.key = request[b].key /\ Opening(accounts[u].password)
        BY <3>4, <3>h, <4>2 DEF Opening
      <4>3. CASE /\ accounts[u].password.hash.key = request[b].key
                 /\ accounts[u].password \in putBack
        <5>1. accounts[u].password.hash = HashSecret(request[b].key)
          BY <4>3 DEF Inv, Rest
        <5>2. row.password = accounts[u].password
          BY <3>3, <3>4, <5>1 DEF Login
        <5>3. QED
          BY <1>m, <4>3, <5>2
      <4>4. QED
        BY <1>2, <4>1, <4>2, <4>3 DEF RowSound
    <3>7. RowSound(u, row, putBack')
      BY <1>2, <2>1, <3>2, <3>3, <3>4, <3>6 DEF RowSound
    <3>8. QED
      BY <3>3, <3>4, <3>5, <3>7
  <2>4. QED
    BY <2>2, <2>3
<1>5. Rows' /\ Kept
  <2> HIDE DEF u, row
  <2>1. QED
    BY <1>1, <1>2, <1>4, <1>m, RowReplaced DEF Inv
<1>6. r \in Request
  BY <1>o DEF Request, Steps
<1>7. /\ r.at = "effect" /\ r.op = request[b].op /\ r.name = request[b].name
      /\ r.key = request[b].key /\ r.identity = request[b].identity /\ r.row = request[b].row
  BY <1>o DEF Request
<1>8. RequestTyped(r, accounts') /\ RequestSound(r, accounts', putBack')
  <2>1. RequestTyped(request[b], accounts') /\ RequestSound(request[b], accounts', putBack')
    BY <1>5, StaysSound DEF Inv
  <2> HIDE DEF r
  <2>2. QED
    BY <1>o, <1>1, <1>2, <1>7, <2>1 DEF RequestTyped, RequestSound
<1>9. Requests'
  <2> HIDE DEF r
  <2>1. QED
    BY <1>1, <1>5, <1>6, <1>8, RequestReplaced DEF Inv
<1>10. Rest'
  <2>1. \A login \in PutBack(request[b].op, accounts[u], request[b].key) :
          login.hash = HashSecret(login.hash.key)
    <3> DEFINE key == request[b].key
               login == [accounts[u].password EXCEPT !.hash = HashSecret(key)]
    <3>1. accounts[u] \in Row
      BY <1>2 DEF RowSound
    <3>2. \A l \in PutBack(request[b].op, accounts[u], key) : l = login
      BY <3>1 DEF PutBack, Upgraded, Row, Login
    <3>3. login.hash = HashSecret(key)
      BY <3>1 DEF Row, Login
    <3>4. HashSecret(key).key = key
      BY DEF HashSecret
    <3> HIDE DEF key, login
    <3>5. QED
      BY <3>2, <3>3, <3>4 DEF key
  <2>2. putBack' \subseteq Login /\ \A login \in putBack' : login.hash = HashSecret(login.hash.key)
    BY <1>1, <1>4, <2>1 DEF Inv, Rest
  <2>3. QED
    BY <1>1, <2>2, RestStep DEF Rest
<1>11. QED
  BY <1>5, <1>9, <1>10 DEF Inv

\* A browser is logged in again once its request was answered, with any key, and
\* with the account's identity.
LEMMA BackIn ==
  ASSUME Inv, NEW b \in Browsers, request[b].at = "effect", Kept,
         NEW key \in Key, NEW i,
         i = accounts[User(b)].recovery.blob.identity
  PROVE  LET r == [request[b] EXCEPT !.at = "in", !.row = {}, !.key = key, !.identity = {i}]
         IN  /\ r \in Request
             /\ RequestTyped(r, accounts') /\ RequestSound(r, accounts', putBack')
<1> DEFINE r == [request[b] EXCEPT !.at = "in", !.row = {}, !.key = key, !.identity = {i}]
<1>o. /\ request[b] \in Request /\ RequestTyped(request[b], accounts)
      /\ User(b) = Lower[request[b].name]
      /\ User(b) \in DOMAIN accounts /\ RowSound(User(b), accounts[User(b)], putBack)
  BY OfBrowser
<1>1. i \in People
  BY <1>o DEF RowSound, Row, Login, Blob
<1>2. r \in Request
  BY <1>o, <1>1 DEF Request
<1>3. /\ r.at = "in" /\ r.op = request[b].op /\ r.name = request[b].name
      /\ r.identity = {i} /\ r.row = {}
  BY <1>o DEF Request
<1>4. Cardinality({}) = 0
  BY FS_EmptySet
<1>5. /\ User(b) \in DOMAIN accounts'
      /\ accounts'[User(b)].recovery.blob = accounts[User(b)].recovery.blob
  BY <1>o DEF Kept
<1> HIDE DEF r
<1>6. RequestTyped(r, accounts')
  BY <1>o, <1>3, <1>4, <1>5 DEF RequestTyped, Has
<1>7. RequestSound(r, accounts', putBack')
  BY <1>o, <1>3, <1>5 DEF RequestSound
<1>8. QED
  BY <1>2, <1>6, <1>7 DEF r

\* The same, of a request that was made with a login's identity.
LEMMA BackInAsBefore ==
  ASSUME Inv, NEW b \in Browsers, request[b].at = "effect", Kept,
         request[b].op \in SignedIn \cup {"reset"},
         NEW key \in Key
  PROVE  LET r == [request[b] EXCEPT !.at = "in", !.row = {}, !.key = key]
         IN  /\ r \in Request
             /\ RequestTyped(r, accounts') /\ RequestSound(r, accounts', putBack')
<1> DEFINE i == accounts[User(b)].recovery.blob.identity
<1>1. request[b] \in Request /\ request[b].identity = {i}
  BY OfBrowser DEF RequestTyped, RequestSound
<1>2. [request[b] EXCEPT !.at = "in", !.row = {}, !.key = key]
        = [request[b] EXCEPT !.at = "in", !.row = {}, !.key = key, !.identity = {i}]
  BY <1>1 DEF Request
<1>3. LET r == [request[b] EXCEPT !.at = "in", !.row = {}, !.key = key, !.identity = {i}]
      IN  /\ r \in Request
          /\ RequestTyped(r, accounts') /\ RequestSound(r, accounts', putBack')
  <2> HIDE DEF i
  <2>1. i = accounts[User(b)].recovery.blob.identity
    BY DEF i
  <2>2. QED
    BY <2>1, BackIn
<1>4. QED
  BY <1>2, <1>3

LEMMA LogInStep == ASSUME Inv, NEW b \in Browsers, LogIn(b) PROVE Inv'
<1> DEFINE blob == Answer(b).password.blob
           r == [request[b] EXCEPT !.at = "in", !.row = {}, !.identity = {blob.identity}]
<1>o. request[b] \in Request
  BY OfBrowser
<1>1. /\ request[b].at = "effect" /\ UNCHANGED <<accounts, contact_edges, salts, made, putBack>>
      /\ request' = [request EXCEPT ![b] =
           IF Opens(request[b].key, request[b].name, blob) THEN r ELSE NoRequest]
  BY DEF LogIn
<1>2. blob.identity = accounts[User(b)].recovery.blob.identity
  BY <1>1, Answers DEF RowSound
<1>3. r = [request[b] EXCEPT !.at = "in", !.row = {}, !.key = request[b].key,
                             !.identity = {blob.identity}]
  BY <1>o DEF Request
<1>4. request[b].key \in Key /\ Kept /\ UNCHANGED <<accounts, putBack>>
  BY <1>o, <1>1, SameRows DEF Request, Inv
<1>5. r \in Request /\ RequestTyped(r, accounts) /\ RequestSound(r, accounts, putBack)
  <2> HIDE DEF r, blob
  <2>1. r \in Request /\ RequestTyped(r, accounts') /\ RequestSound(r, accounts', putBack')
    BY <1>1, <1>2, <1>3, <1>4, BackIn
  <2>2. QED
    BY <1>4, <2>1
<1> HIDE DEF r
<1>6. QED
  BY <1>1, <1>5, NoRequestSound, OnlyRequest

LEMMA UpdateIdentityPubStep == ASSUME Inv, NEW b \in Browsers, UpdateIdentityPub(b) PROVE Inv'
<1> DEFINE u == User(b)
           row == [accounts[u] EXCEPT !.identity_pub = request[b].identity]
           r == [request[b] EXCEPT !.at = "in", !.row = {}, !.key = request[b].key]
<1>o. /\ request[b] \in Request /\ RequestTyped(request[b], accounts)
      /\ RequestSound(request[b], accounts, putBack) /\ u = Lower[request[b].name]
  BY OfBrowser
<1>1. /\ request[b].at = "effect" /\ request[b].op = "pub"
      /\ UNCHANGED <<contact_edges, salts, made, putBack>>
      /\ accounts' = [accounts EXCEPT ![u] = row]
      /\ request' = [request EXCEPT ![b] = [@ EXCEPT !.at = "in", !.row = {}]]
  BY <1>o DEF UpdateIdentityPub, Inv, Requests
<1>2. request' = [request EXCEPT ![b] = r]
  BY <1>o, <1>1 DEF Request
<1>3. u \in DOMAIN accounts /\ RowSound(u, accounts[u], putBack)
  BY <1>1, OfBrowser
<1>4. RowSound(u, row, putBack') /\ row.recovery.blob = accounts[u].recovery.blob
  <2>1. accounts[u] \in Row
    BY <1>3 DEF RowSound
  <2>2. row \in Row
    BY <1>o, <2>1 DEF Row, Request
  <2>3. /\ row.recovery = accounts[u].recovery /\ row.password = accounts[u].password
        /\ row.identity_pub = request[b].identity
    BY <2>1 DEF Row
  <2>4. request[b].identity \subseteq {accounts[u].recovery.blob.identity}
    BY <1>o DEF RequestSound
  <2> HIDE DEF row
  <2>5. QED
    BY <1>1, <1>3, <2>2, <2>3, <2>4 DEF RowSound
<1>5. Rows' /\ Kept
  <2> HIDE DEF u, row
  <2>1. QED
    BY <1>1, <1>3, <1>4, RowReplaced DEF Inv
<1>6. r \in Request /\ RequestTyped(r, accounts') /\ RequestSound(r, accounts', putBack')
  <2>1. request[b].key \in Key
    BY <1>o DEF Request
  <2>2. QED
    BY <1>1, <1>5, <2>1, BackInAsBefore DEF SignedIn
<1>7. Requests'
  <2> HIDE DEF r
  <2>1. QED
    BY <1>2, <1>5, <1>6, RequestReplaced DEF Inv
<1>8. Rest'
  BY <1>1, RestStep DEF Rest
<1>9. QED
  BY <1>5, <1>7, <1>8 DEF Inv

LEMMA EdgeSorted ==
  ASSUME NEW u \in Users, NEW v \in Users, u # v
  PROVE  Sorted(u, v) \in Pairs
<1>1. u \in Names /\ v \in Names
  BY AccountsAssumption DEF Users
<1>2. Rank[u] \in Nat /\ Rank[v] \in Nat /\ Rank[u] # Rank[v]
  BY <1>1, AccountsAssumption
<1>3. QED
  BY <1>2 DEF Sorted, Pairs

LEMMA ContactsStep ==
  ASSUME Inv, NEW b \in Browsers, MutualFriends(b) \/ \E n \in Names : SyncContact(b, n)
  PROVE  Inv'
<1> DEFINE r == [request[b] EXCEPT !.at = "in", !.row = {}, !.key = request[b].key]
<1>o. request[b] \in Request /\ User(b) \in Users
  BY OfBrowser
<1>1. /\ request[b].at = "effect" /\ request[b].op \in SignedIn
      /\ UNCHANGED <<accounts, salts, made, putBack>>
      /\ request' = [request EXCEPT ![b] = [@ EXCEPT !.at = "in", !.row = {}]]
  BY <1>o DEF MutualFriends, SyncContact, SignedIn, Inv, Requests
<1>2. request' = [request EXCEPT ![b] = r]
  BY <1>o, <1>1 DEF Request
<1>3. Rows' /\ Kept
  BY <1>1, SameRows DEF Inv
<1>4. r \in Request /\ RequestTyped(r, accounts') /\ RequestSound(r, accounts', putBack')
  <2>1. request[b].key \in Key
    BY <1>o DEF Request
  <2>2. QED
    BY <1>1, <1>3, <2>1, BackInAsBefore
<1>5. Requests'
  <2> HIDE DEF r
  <2>1. QED
    BY <1>2, <1>3, <1>4, RequestReplaced DEF Inv
<1>6. contact_edges' \subseteq Pairs
  <2>1. CASE MutualFriends(b)
    BY <2>1 DEF MutualFriends, Inv, Rest
  <2>2. ASSUME NEW n \in Names, SyncContact(b, n) PROVE contact_edges' \subseteq Pairs
    <3>1. Lower[n] \in Users
      BY DEF Users
    <3>2. Lower[n] # User(b) => Sorted(User(b), Lower[n]) \in Pairs
      BY <1>o, <3>1, EdgeSorted
    <3>3. QED
      BY <2>2, <3>2 DEF SyncContact, Inv, Rest
  <2>3. QED
    BY <2>1, <2>2
<1>7. Rest'
  BY <1>1, <1>6, RestStep DEF Rest
<1>8. QED
  BY <1>3, <1>5, <1>7 DEF Inv

LEMMA VerifyPhraseStep == ASSUME Inv, NEW b \in Browsers, VerifyPhrase(b) PROVE Inv'
<1> DEFINE blob == Answer(b).recovery.blob
           r == [request[b] EXCEPT !.at = "asked", !.op = "reset", !.row = {},
                                   !.identity = {blob.identity}]
<1>o. /\ request[b] \in Request /\ RequestTyped(request[b], accounts)
      /\ RequestSound(request[b], accounts, putBack) /\ User(b) = Lower[request[b].name]
  BY OfBrowser
<1>1. /\ request[b].at = "effect" /\ UNCHANGED <<accounts, contact_edges, salts, made, putBack>>
      /\ request' = [request EXCEPT ![b] =
           IF Opens(request[b].key, request[b].name, blob) THEN r ELSE NoRequest]
  BY DEF VerifyPhrase
<1>2. blob = accounts[User(b)].recovery.blob /\ User(b) \in DOMAIN accounts
  BY <1>1, Answers, OfBrowser
<1>3. blob.identity \in People
  BY <1>1, <1>2, OfBrowser DEF RowSound, Row, Login, Blob
<1>4. r \in Request
  BY <1>o, <1>3 DEF Request, Steps, Proving
<1>5. /\ r.at = "asked" /\ r.op = "reset" /\ r.name = request[b].name
      /\ r.identity = {blob.identity} /\ r.row = {}
  BY <1>o DEF Request
<1>6. Cardinality({}) = 0
  BY FS_EmptySet
<1> HIDE DEF r
<1>7. RequestTyped(r, accounts) /\ RequestSound(r, accounts, putBack)
  BY <1>o, <1>2, <1>5, <1>6 DEF RequestTyped, RequestSound, Has
<1>8. QED
  BY <1>1, <1>4, <1>7, NoRequestSound, OnlyRequest

LEMMA ResetPasswordStep ==
  ASSUME Inv, NEW b \in Browsers, NEW p \in Passwords, ResetPassword(b, p)
  PROVE  Inv'
<1> DEFINE u == User(b)
           key == FreshKey(p, salts + 1)
           r == [request[b] EXCEPT !.at = "in", !.row = {}, !.key = key]
<1>o. /\ request[b] \in Request /\ RequestTyped(request[b], accounts)
      /\ RequestSound(request[b], accounts, putBack) /\ u = Lower[request[b].name]
  BY OfBrowser
<1>1. /\ request[b].at = "effect" /\ request[b].op = "reset"
      /\ salts < MaxSalts /\ salts' = salts + 1 /\ UNCHANGED <<contact_edges, made, putBack>>
      /\ request' = [request EXCEPT ![b] = r]
  BY <1>o DEF ResetPassword, Inv, Requests
<1>2. PICK i \in request[b].identity :
        accounts' = [accounts EXCEPT ![u] = NewPassword(accounts[u], key, request[b].name, i)]
  BY DEF ResetPassword
<1> DEFINE row == NewPassword(accounts[u], key, request[b].name, i)
<1>3. salts \in Nat /\ MaxSalts \in Nat
  BY AccountsAssumption DEF Inv, Rest
<1>4. key \in Key
  BY <1>3 DEF Key, FreshKey, Costs
<1>5. /\ u \in DOMAIN accounts /\ RowSound(u, accounts[u], putBack)
      /\ i = accounts[u].recovery.blob.identity /\ i \in People /\ request[b].name \in Names
  <2>1. u \in DOMAIN accounts /\ RowSound(u, accounts[u], putBack)
    BY <1>1, OfBrowser
  <2>2. i = accounts[u].recovery.blob.identity
    BY <1>o, <1>2 DEF RequestSound
  <2>3. request[b].identity \subseteq People /\ request[b].name \in Names
    BY <1>o DEF Request
  <2>4. QED
    BY <1>2, <2>1, <2>2, <2>3
<1>6. RowSound(u, row, putBack') /\ row.recovery.blob = accounts[u].recovery.blob
  <2>1. accounts[u] \in Row
    BY <1>5 DEF RowSound
  <2> DEFINE login == NewLogin(key, FALSE, request[b].name, i)
  <2>2. row = [accounts[u] EXCEPT !.password = login]
    BY DEF NewPassword
  <2>3. login \in Login /\ Opening(login) /\ ~login.hash.legacy /\ login.blob.identity = i
    BY <1>3, <1>4, <1>5 DEF NewLogin, Login, Hash, Blob, Opening, FreshKey, Costs
  <2> HIDE DEF login, row
  <2>4. row \in Row
    BY <2>1, <2>2, <2>3 DEF Row
  <2>5. /\ row.recovery = accounts[u].recovery /\ row.password = login
        /\ row.identity_pub = accounts[u].identity_pub
    BY <2>1, <2>2 DEF Row
  <2>6. QED
    BY <1>5, <2>3, <2>4, <2>5 DEF RowSound
<1>7. Rows' /\ Kept
  <2> HIDE DEF u, row
  <2>1. accounts' = [accounts EXCEPT ![u] = row]
    BY <1>2 DEF row
  <2>2. QED
    BY <1>1, <1>5, <1>6, <2>1, RowReplaced DEF Inv
<1>8. r \in Request /\ RequestTyped(r, accounts') /\ RequestSound(r, accounts', putBack')
  <2> HIDE DEF key
  <2>1. QED
    BY <1>1, <1>4, <1>7, BackInAsBefore
<1>9. Requests'
  <2> HIDE DEF r
  <2>1. QED
    BY <1>1, <1>7, <1>8, RequestReplaced DEF Inv
<1>10. Rest'
  BY <1>1, <1>3, RestStep DEF Rest
<1>11. QED
  BY <1>7, <1>9, <1>10 DEF Inv

LEMMA LeaveStep == ASSUME Inv, NEW b \in Browsers, EndEarly(b) \/ Close(b) PROVE Inv'
<1>1. CASE EndEarly(b)
  BY <1>1, FailedSound, OnlyRequest DEF EndEarly
<1>2. CASE Close(b)
  BY <1>2, NoRequestSound, OnlyRequest DEF Close
<1>3. QED
  BY <1>1, <1>2

LEMMA StepInv == Inv /\ [Next]_vars => Inv'
<1> SUFFICES ASSUME Inv, [Next]_vars PROVE Inv'
  OBVIOUS
<1>1. CASE Next
  BY <1>1, SignupStep, AskStep, AskSignedInStep, VerifyStep, UpgradeStep, LogInStep,
     UpdateIdentityPubStep, ContactsStep, VerifyPhraseStep, ResetPasswordStep, LeaveStep
  DEF Next
<1>2. CASE UNCHANGED vars
  BY <1>2 DEF vars, Inv, Rows, Requests, Rest
<1>3. QED
  BY <1>1, <1>2

LEMMA Invariant == Spec => []Inv
BY InitInv, StepInv, PTL DEF Spec

----------------------------------------------------------------------------
(* The theorems *)

\* Every variable keeps its type; a handler answers from one row, which it has
\* verified, and a browser that is logged in has an identity.
THEOREM AccountsTypeCorrect == Spec => []TypeOK
<1>1. ASSUME Inv PROVE TypeOK
  <2>1. \A b \in Browsers :
          /\ request[b].at # "out" => Exists(User(b))
          /\ request[b].at \in {"upgrade", "effect"} <=> request[b].row # {}
          /\ Cardinality(request[b].row) <= 1
          /\ request[b].op \in SignedIn \cup {"reset"} => request[b].identity # {}
    BY <1>1, OfBrowser DEF RequestTyped, Has, Exists
  <2>2. QED
    BY <1>1, <2>1 DEF TypeOK, Inv, Rows, RowSound, Requests, Rest
<1>2. QED
  BY <1>1, Invariant, PTL

\* An account opens with one password at any time, whatever logins, upgrades and
\* resets run at once (accounts_db.py:231-270): always if it was made with Argon2
\* hashes, and else unless an upgrade has put an older key's hash in its login.
THEOREM NewAccountsStayOpen == Spec => []NewAccountsOpen
<1>1. Inv => NewAccountsOpen
  BY DEF Inv, Rows, RowSound, NewAccountsOpen
<1>2. QED
  BY <1>1, Invariant, PTL

\* The phrase of an account, new or from before, always recovers it: no reset
\* and no upgrade changes what it opens.
THEOREM PhraseAlwaysRecovers == Spec => []PhraseRecovers
<1>1. Inv => PhraseRecovers
  BY DEF Inv, Rows, RowSound, PhraseRecovers
<1>2. QED
  BY <1>1, Invariant, PTL

\* Whoever is answered can open what it is sent, through any reset between its
\* two requests, or between a handler's check and its reply; if it spells the
\* name as the account does, and the answer is not from a login with a hash that
\* an upgrade has put back.
THEOREM LoginsAlwaysOpen == Spec => []LoginOpens
<1>1. ASSUME Inv PROVE LoginOpens
  <2> SUFFICES ASSUME NEW b \in Browsers, request[b].at = "effect", request[b].op = "login",
                      Answer(b).password \notin putBack,
                      request[b].name = Answer(b).password.blob.name
               PROVE  Opens(request[b].key, request[b].name, Answer(b).password.blob)
    BY DEF LoginOpens
  <2>1. Opening(Answer(b).password)
    BY <1>1, Answers DEF RowSound
  <2>2. Answer(b).password.hash.key = request[b].key
    BY <1>1, OfBrowser, Answers DEF RequestSound
  <2>3. QED
    BY <2>1, <2>2 DEF Opens, Opening
<1>2. QED
  BY <1>1, Invariant, PTL

\* Whoever is logged in has the account's identity, which the directory names
\* if it names one, whoever else signed up, logged in or reset at the time.
THEOREM OneIdentityEach == Spec => []OneIdentity
<1>1. ASSUME Inv PROVE OneIdentity
  <2>1. \A u \in DOMAIN accounts :
          accounts[u].identity_pub \subseteq {accounts[u].recovery.blob.identity}
    BY <1>1 DEF Inv, Rows, RowSound
  <2>2. \A b \in Browsers :
          request[b].identity # {} =>
            request[b].identity = {accounts[User(b)].recovery.blob.identity}
    BY <1>1, OfBrowser DEF RequestSound
  <2>3. QED
    BY <2>1, <2>2 DEF OneIdentity
<1>2. QED
  BY <1>1, Invariant, PTL
============================================================================
