------------------------------ MODULE Accounts ------------------------------
(***************************************************************************)
(* The accounts service (webapp/accounts_server.py, accounts_db.py) and    *)
(* the browsers that use it (static/js/auth.js).                           *)
(*                                                                         *)
(* Every request runs in a thread of its own, and only single statements   *)
(* are made under the database's lock.  A handler that proves a secret     *)
(* reads the account's row, compares the secret with the hash in that row, *)
(* perhaps stores the hash anew in a statement of its own, and has its     *)
(* effect in another: between any two of them other handlers run.          *)
(*                                                                         *)
(* A secret's two keys are named by what they are derived from: the        *)
(* secret, a salt and a scrypt cost.  A handler that is ended early stands *)
(* for the rate limits, a lost connection and a restart of the service.    *)
(*                                                                         *)
(* A browser here waits for one request before it makes another.  One of   *)
(* the real ones may overlap: auth.js:139 does not wait for the update of  *)
(* the identity it fires after a login.  Two requests at once for one      *)
(* account are here those of two browsers that are logged in to it.        *)
(***************************************************************************)
EXTENDS Naturals, FiniteSets

CONSTANTS
  Browsers,   \* browsers, each in the hands of one person
  Names,      \* usernames as they are typed
  Lower,      \* Lower[n]: n in lower case, itself a name
  Rank,       \* the alphabetical order of names
  Passwords,
  Old,        \* accounts made before Argon2 and the present scrypt cost
  MaxSalts,   \* bound: how many salts are drawn
  MaxRequests \* bound: how many requests a browser makes

Users == {Lower[n] : n \in Names}

ASSUME AccountsAssumption ==
  /\ Lower \in [Names -> Names]
  /\ \A u \in Users : Lower[u] = u
  /\ Rank \in [Names -> Nat]
  /\ \A m, n \in Names : Rank[m] = Rank[n] => m = n
  /\ Old \subseteq Users
  /\ Names # {} /\ Passwords # {}
  /\ MaxSalts \in Nat /\ MaxRequests \in Nat

VARIABLES
  accounts,      \* accounts[u]: the row with username_lower = u, if there is one
  contact_edges, \* the pairs of the table of that name
  request,       \* request[b]: the request b makes, or what it is logged in as
  salts,         \* how many salts were drawn
  made,          \* made[b]: how many requests b made
  putBack        \* the logins in which an upgrade has put another hash (history)

vars == <<accounts, contact_edges, request, salts, made, putBack>>

----------------------------------------------------------------------------
Costs == {"SCRYPT_N_LEGACY", "SCRYPT_N_CURRENT"}

\* Whose identity key it is.  A person's recovery phrase goes by the same name.
People == Browsers \cup Old

\* crypto.derive_split_keys: auth_key and enc_key, the pair under one name.
Key == [secret: Passwords \cup People, salt: Nat, cost: Costs]

\* What _hash_secret makes of an auth_key; a bcrypt one is legacy.
Hash == [key: Key, legacy: BOOLEAN]
HashSecret(key) == [key |-> key, legacy |-> FALSE]

\* An identity key under enc_key, with the name as the associated data.
Blob == [key: Key, name: Names, identity: People]
Opens(key, name, blob) == key = blob.key /\ name = blob.name

\* A row: the password's and the recovery phrase's salt, cost, hash and blob,
\* and the identity announced to the directory, if any.
Login == [salt: Nat, cost: Costs, hash: Hash, blob: Blob]
Row == [password: Login, recovery: Login, identity_pub: SUBSET People]
Exists(u) == u \in DOMAIN accounts

NewLogin(key, legacy, name, identity) ==
  [salt |-> key.salt, cost |-> key.cost,
   hash |-> [key |-> key, legacy |-> legacy],
   blob |-> [key |-> key, name |-> name, identity |-> identity]]

\* What a browser does: `at` says how far its request `op` has come.
Steps == {"asked", "upgrade", "effect"}
Proving == {"login", "pub", "sync", "mutual", "verify", "reset"}
Recovering == {"verify", "reset"}
SignedIn == {"pub", "sync", "mutual"}   \* requests a browser makes when it is in

\* `row` is the row the handler read, `identity` the identity key the browser has.
Request == [at: {"out", "in"} \cup Steps, op: Proving, name: Names, key: Key,
            row: SUBSET Row, identity: SUBSET People]

----------------------------------------------------------------------------
\* Accounts from before: bcrypt hashes and the legacy cost.
OldKey(secret, n) == [secret |-> secret, salt |-> n, cost |-> "SCRYPT_N_LEGACY"]
OldRow(u, password, pub) ==
  [password |-> NewLogin(OldKey(password, 0), TRUE, u, u),
   recovery |-> NewLogin(OldKey(u, 0), TRUE, u, u),
   identity_pub |-> pub]

NoRequest ==
  [at |-> "out", op |-> "login", name |-> CHOOSE n \in Names : TRUE,
   key |-> OldKey(CHOOSE p \in Passwords : TRUE, 0), row |-> {}, identity |-> {}]

Init ==
  /\ \E p \in [Old -> Passwords], pub \in [Old -> BOOLEAN] :
       accounts = [u \in Old |-> OldRow(u, p[u], IF pub[u] THEN {u} ELSE {})]
  /\ contact_edges = {}
  /\ request = [b \in Browsers |-> NoRequest]
  /\ salts = 0
  /\ made = [b \in Browsers |-> 0]
  /\ putBack = {}

----------------------------------------------------------------------------
Sends(b) ==
  /\ made[b] < MaxRequests
  /\ made' = [made EXCEPT ![b] = @ + 1]

User(b) == Lower[request[b].name]

FreshKey(secret, n) ==
  [secret |-> secret, salt |-> n, cost |-> "SCRYPT_N_CURRENT"]

\* A version that replaces a row with the same name.
Replaced(u, row) ==
  [v \in DOMAIN accounts \cup {u} |-> IF v = u THEN row ELSE accounts[v]]

\* create_account: the column username_lower is UNIQUE.
Inserted(u, row) ==
  IF Exists(u) THEN accounts
  ELSE [v \in DOMAIN accounts \cup {u} |-> IF v = u THEN row ELSE accounts[v]]

\* AccountsClient.signup and /api/signup, one INSERT.  A browser that is told
\* that the name is taken is not logged in.
Signup(b, n, p) ==
  LET password == FreshKey(p, salts + 1)
      phrase == FreshKey(b, salts + 2)
      row == [password |-> NewLogin(password, FALSE, n, b),
              recovery |-> NewLogin(phrase, FALSE, n, b),
              identity_pub |-> {b}]
      u == Lower[n]
  IN /\ request[b].at = "out"
     /\ salts + 2 <= MaxSalts
     /\ Sends(b)
     /\ salts' = salts + 2
     /\ accounts' = Inserted(u, row)
     /\ request' = [request EXCEPT ![b] =
          IF Exists(u)
          THEN @
          ELSE [@ EXCEPT !.at = "in", !.name = n, !.key = password, !.identity = {b}]]
     /\ UNCHANGED <<contact_edges, putBack>>

\* AccountsClient.login: /api/login-salt says what to derive the key from.
AskLoginSalt(b, n, p) ==
  LET row == accounts[Lower[n]]
  IN /\ request[b].at = "out"
     /\ Sends(b)
     /\ Exists(Lower[n])
     /\ request' = [request EXCEPT ![b] = [@ EXCEPT
          !.at = "asked", !.op = "login", !.name = n, !.identity = {},
          !.key = [secret |-> p, salt |-> row.password.salt,
                   cost |-> row.password.cost]]]
     /\ UNCHANGED <<accounts, contact_edges, salts, putBack>>

\* AccountsClient.resetPassword: /api/recovery-salt, with a phrase.
AskRecoverySalt(b, n, phrase) ==
  LET row == accounts[Lower[n]]
  IN /\ request[b].at = "out"
     /\ Sends(b)
     /\ Exists(Lower[n])
     /\ request' = [request EXCEPT ![b] = [@ EXCEPT
          !.at = "asked", !.op = "verify", !.name = n, !.identity = {},
          !.key = [secret |-> phrase, salt |-> row.recovery.salt,
                   cost |-> row.recovery.cost]]]
     /\ UNCHANGED <<accounts, contact_edges, salts, putBack>>

\* A request of a browser that is logged in, with the key it kept.
AskSignedIn(b, op) ==
  /\ request[b].at = "in"
  /\ Sends(b)
  /\ request' = [request EXCEPT ![b].at = "asked", ![b].op = op]
  /\ UNCHANGED <<accounts, contact_edges, salts, putBack>>

----------------------------------------------------------------------------
(* The handlers *)

\* A browser keeps what it is logged in as when another request fails.
Failed(r) == IF r.op \in SignedIn THEN [r EXCEPT !.at = "in", !.row = {}]
             ELSE NoRequest

Proved(op, row) == IF op \in Recovering THEN row.recovery ELSE row.password

\* A version that hashes every secret anew once it is proved.
OutdatedAlways(hash) == TRUE

\* _verify_secret says that the secret was proved, and whether to hash it anew.
Outdated(hash) == hash.legacy

\* get_by_username and _verify_secret.
Verify(b) ==
  LET r == request[b]
      row == accounts[User(b)]
      hash == Proved(r.op, row).hash
  IN /\ r.at = "asked"
     /\ request' = [request EXCEPT ![b] =
          IF hash.key = r.key
          THEN [r EXCEPT !.at = IF Outdated(hash) THEN "upgrade" ELSE "effect",
                         !.row = {row}]
          ELSE Failed(r)]
     /\ UNCHANGED <<accounts, contact_edges, salts, made, putBack>>

\* A version that takes a phrase's column for a password's.
UpgradedRecovery(op, row, hash) == [row EXCEPT !.recovery.hash = hash]

Upgraded(op, row, hash) ==
  IF op \in Recovering THEN [row EXCEPT !.recovery.hash = hash]
                       ELSE [row EXCEPT !.password.hash = hash]

\* The password's login that has another key's hash once it is upgraded.
PutBack(op, row, key) ==
  IF op \notin Recovering /\ row.password.hash.key # key
  THEN {Upgraded(op, row, HashSecret(key)).password}
  ELSE {}

\* upgrade_password_hash and upgrade_recovery_hash.
Upgrade(b) ==
  LET r == request[b]
  IN /\ r.at = "upgrade"
     /\ accounts' = [accounts EXCEPT ![User(b)] =
                       Upgraded(r.op, @, HashSecret(r.key))]
     /\ putBack' = putBack \cup PutBack(r.op, accounts[User(b)], r.key)
     /\ request' = [request EXCEPT ![b].at = "effect"]
     /\ UNCHANGED <<contact_edges, salts, made>>

\* A version that reads the row once more.
AnswerAnew(b) == accounts[User(b)]

\* The row a handler answers from is the one it verified with.
Answer(b) == CHOOSE row \in request[b].row : TRUE

\* The reply of /api/login, which the browser opens with the key it derived.
LogIn(b) ==
  LET r == request[b]
      blob == Answer(b).password.blob
  IN /\ r.at = "effect" /\ r.op = "login"
     /\ request' = [request EXCEPT ![b] =
          IF Opens(r.key, r.name, blob)
          THEN [r EXCEPT !.at = "in", !.row = {}, !.identity = {blob.identity}]
          ELSE NoRequest]
     /\ UNCHANGED <<accounts, contact_edges, salts, made, putBack>>

\* /api/update-identity-pub: set_identity_pub.
UpdateIdentityPub(b) ==
  LET r == request[b]
  IN /\ r.at = "effect" /\ r.op = "pub"
     /\ accounts' = [accounts EXCEPT ![User(b)].identity_pub = r.identity]
     /\ request' = [request EXCEPT ![b].at = "in", ![b].row = {}]
     /\ UNCHANGED <<contact_edges, salts, made, putBack>>

\* A version with a row for each direction.
Directed(u, v) == <<u, v>>

\* add_contact_edge: one row for a pair, the smaller name first.
Sorted(u, v) == IF Rank[u] < Rank[v] THEN <<u, v>> ELSE <<v, u>>
SyncContact(b, n) ==
  LET r == request[b]
      v == Lower[n]
  IN /\ r.at = "effect" /\ r.op = "sync"
     /\ contact_edges' = IF v = User(b) THEN contact_edges
                         ELSE contact_edges \cup {Sorted(User(b), v)}
     /\ request' = [request EXCEPT ![b].at = "in", ![b].row = {}]
     /\ UNCHANGED <<accounts, salts, made, putBack>>

\* /api/mutual-friends changes nothing.
MutualFriends(b) ==
  /\ request[b].at = "effect" /\ request[b].op = "mutual"
  /\ request' = [request EXCEPT ![b].at = "in", ![b].row = {}]
  /\ UNCHANGED <<accounts, contact_edges, salts, made, putBack>>

\* The reply of /api/forgot-password/verify: the browser has the identity, and
\* sends /reset with the phrase's key once more.
VerifyPhrase(b) ==
  LET r == request[b]
      blob == Answer(b).recovery.blob
  IN /\ r.at = "effect" /\ r.op = "verify"
     /\ request' = [request EXCEPT ![b] =
          IF Opens(r.key, r.name, blob)
          THEN [r EXCEPT !.at = "asked", !.op = "reset", !.row = {},
                         !.identity = {blob.identity}]
          ELSE NoRequest]
     /\ UNCHANGED <<accounts, contact_edges, salts, made, putBack>>

\* update_password: hash, salt, cost and blob in one statement.
NewPassword(row, key, name, identity) ==
  [row EXCEPT !.password = NewLogin(key, FALSE, name, identity)]

\* /api/forgot-password/reset, with what the browser made of a new password.
ResetPassword(b, p) ==
  LET r == request[b]
      key == FreshKey(p, salts + 1)
  IN /\ r.at = "effect" /\ r.op = "reset"
     /\ salts < MaxSalts
     /\ salts' = salts + 1
     /\ \E i \in r.identity :
          accounts' = [accounts EXCEPT ![User(b)] = NewPassword(@, key, r.name, i)]
     /\ request' = [request EXCEPT ![b].at = "in", ![b].row = {}, ![b].key = key]
     /\ UNCHANGED <<contact_edges, made, putBack>>

\* 429, a lost connection, or a restart: the handler has no further effect.
EndEarly(b) ==
  /\ request[b].at \in Steps
  /\ request' = [request EXCEPT ![b] = Failed(@)]
  /\ UNCHANGED <<accounts, contact_edges, salts, made, putBack>>

\* The browser forgets what it was logged in as: its page was closed.
Close(b) ==
  /\ request[b].at = "in"
  /\ request' = [request EXCEPT ![b] = NoRequest]
  /\ UNCHANGED <<accounts, contact_edges, salts, made, putBack>>

Next ==
  \E b \in Browsers :
    \/ \E n \in Names, p \in Passwords : Signup(b, n, p) \/ AskLoginSalt(b, n, p)
    \/ \E n \in Names, i \in People : AskRecoverySalt(b, n, i)
    \/ \E op \in SignedIn : AskSignedIn(b, op)
    \/ Verify(b) \/ Upgrade(b)
    \/ LogIn(b) \/ UpdateIdentityPub(b) \/ MutualFriends(b) \/ VerifyPhrase(b)
    \/ \E n \in Names : SyncContact(b, n)
    \/ \E p \in Passwords : ResetPassword(b, p)
    \/ EndEarly(b) \/ Close(b)

Spec == Init /\ [][Next]_vars

----------------------------------------------------------------------------
(* What the service keeps *)

Pairs == {e \in Users \X Users : Rank[e[1]] < Rank[e[2]]}

\* A handler answers from a row it read, and only a verified one has one; a
\* browser that is logged in has its identity; an edge is stored one way.
TypeOK ==
  /\ DOMAIN accounts \subseteq Users
  /\ \A u \in DOMAIN accounts : accounts[u] \in Row
  /\ contact_edges \subseteq Pairs
  /\ request \in [Browsers -> Request]
  /\ \A b \in Browsers :
       /\ request[b].at # "out" => Exists(User(b))
       /\ request[b].at \in {"upgrade", "effect"} <=> request[b].row # {}
       /\ Cardinality(request[b].row) <= 1
       /\ request[b].op \in SignedIn \cup {"reset"} => request[b].identity # {}
  /\ salts \in 0..MaxSalts
  /\ made \in [Browsers -> 0..MaxRequests]
  /\ putBack \subseteq Login

\* The salt and the cost that are told for a login are those that the hash and
\* the blob were made with: whoever knows the secret gets in, and opens it.
Opening(login) ==
  /\ login.hash.key = login.blob.key
  /\ login.blob.key.salt = login.salt
  /\ login.blob.key.cost = login.cost

\* An account opens with one password at any time, whatever logins, resets and
\* requests with older keys run at once.  The exception is a login in which an
\* upgrade, which does not look whether the hash is still the one it verified,
\* has put an older key's hash back; and only an old account can have one.
NewAccountsOpen ==
  \A u \in DOMAIN accounts :
    LET password == accounts[u].password
    IN Opening(password) \/ (u \in Old /\ password \in putBack)

\* Every account does: accounts_db.py:250-255 calls the upgrade of a hash
\* "re-storing the SAME already-proven auth_key", which changes nothing else.
AccountsOpen == \A u \in DOMAIN accounts : Opening(accounts[u].password)

\* The phrase an account was made with recovers it, in every state: resets and
\* upgrades, of either hash and in any order, leave what it opens alone.
PhraseRecovers ==
  \A u \in DOMAIN accounts :
    LET recovery == accounts[u].recovery
    IN /\ Opening(recovery)
       /\ recovery.blob.key.secret = recovery.blob.identity
       /\ recovery.blob.identity = accounts[u].password.blob.identity

\* Through a reset between /api/login-salt and /api/login, or between the check
\* and the reply of a handler, whoever is answered can open what it is sent, if
\* it spells the name as it was spelled when the account was made.  The exception
\* is an answer from a login with a hash that was put back: it holds the blob
\* that the reset stored, for the key before the reset.
LoginOpens ==
  \A b \in Browsers :
    LET r == request[b]
        password == Answer(b).password
    IN r.at = "effect" /\ r.op = "login" /\ password \notin putBack
         /\ r.name = password.blob.name
       => Opens(r.key, r.name, password.blob)

\* Whoever is logged in has the identity that the account has, that its blobs
\* hold, and that the directory names if it names one: of two browsers that
\* sign up for one name, in whatever case, only one is.
OneIdentity ==
  /\ \A u \in DOMAIN accounts :
       accounts[u].identity_pub \subseteq {accounts[u].recovery.blob.identity}
  /\ \A b \in Browsers :
       request[b].identity # {} =>
         request[b].identity = {accounts[User(b)].recovery.blob.identity}
============================================================================
