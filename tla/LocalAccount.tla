---------------------------- MODULE LocalAccount ----------------------------
(***************************************************************************)
(* One username of the desktop client on one machine: the two encrypted    *)
(* copies of its identity key (haven/identity.py), its message table       *)
(* (storage.py), its backup files (backup.py), and the sign-in screen of   *)
(* the window (gui.py).                                                    *)
(*                                                                         *)
(* The process may end, or an operation raise, between any two writes.     *)
(* Path.write_bytes and open(..., "wb") first empty the file; an empty or  *)
(* half-written file opens with no secret.  The database commits each      *)
(* message by itself.  Messages of all contacts are one sequence; contacts *)
(* are in module Contacts.                                                 *)
(***************************************************************************)
EXTENDS Naturals, Sequences, FiniteSets

CONSTANTS
  Passwords,   \* passwords: of the account, and of backups
  BackupFiles, \* paths a backup may be exported to
  MaxKeys,     \* bound: identity keys made here (key 1 was made elsewhere)
  MaxPhrases,  \* bound: recovery phrases
  MaxMessages, \* bound: messages there are (two were written elsewhere)
  MaxRows,     \* bound: rows of the message table when a restore begins
  MaxFaults    \* bound: operations cut short

ASSUME LocalAccountAssumption ==
  /\ \A n \in {MaxKeys, MaxPhrases, MaxMessages, MaxRows, MaxFaults} : n \in Nat
  /\ MaxKeys >= 1 /\ MaxMessages >= 2
  /\ Passwords \cap Nat = {}

VARIABLES
  identity,  \* identity.enc
  recovery,  \* recovery.enc
  messages,  \* the message table, in order of id
  backups,   \* backups[f]: the backup file f
  op,        \* the operation of the sign-in screen, or the export, under way
  session,   \* the key of the account that is signed in, or None
  keys,      \* how many identity keys there are
  phrases,   \* how many recovery phrases were generated
  bodies,    \* how many messages were written
  faults,    \* how many operations were cut short
  typed,     \* the passwords the user chose (history)
  read,      \* the recovery phrases the user was shown (history)
  settled,   \* the keys of accounts that were signed in here (history)
  displaced, \* the keys whose place here another key has taken (history)
  cut,       \* the kinds of operation that were cut short (history)
  repeated   \* the rows that a restore stores after others (history)

files == <<identity, recovery, messages, backups>>
made == <<keys, phrases, bodies>>
history == <<typed, read, settled, displaced, cut, repeated>>
vars == <<files, op, session, made, faults, history>>

----------------------------------------------------------------------------
None == 0
Keys == 1..MaxKeys
Phrases == 1..MaxPhrases
Elsewhere == 1    \* an identity of the same name, made on another machine
TextsElsewhere == <<1, 2>>  \* the messages in a backup of that one

\* A file that holds a key behind a secret.
States == {"absent", "torn", "whole"}
Absent == [state |-> "absent", secret |-> None, key |-> None]
Torn == [state |-> "torn", secret |-> None, key |-> None]
Blob(secret, key) == [state |-> "whole", secret |-> secret, key |-> key]

Exists(file) == file.state # "absent"
Opens(file, secret) == file.state = "whole" /\ file.secret = secret

\* A row of the message table is encrypted with a key derived from the identity.
Row(key, body) == [key |-> key, body |-> body]

\* A backup also has the text of the messages.
Bundle(blob, texts) == [blob |-> blob, texts |-> texts]

\* A version that empties both files before it writes either.
StepsBothEmpty ==
  [create  |-> <<"phrase", "empty_identity", "empty_recovery", "identity", "recovery",
                 "show", "sign_in">>,
   reset   |-> <<"empty_identity", "identity", "sign_in">>,
   restore |-> <<"phrase", "empty_identity", "empty_recovery", "identity", "recovery",
                 "texts", "show">>,
   export  |-> <<"empty_backup", "backup">>]

\* What an operation has left to write, in order.  "phrase" draws a phrase,
\* "texts" stores one message of the bundle, "show" is _show_recovery_phrase.
CreateSteps == <<"empty_identity", "identity", "phrase", "empty_recovery", "recovery",
                 "show", "sign_in">>
ResetSteps == <<"empty_identity", "identity", "sign_in">>
RestoreSteps == <<"empty_identity", "identity", "phrase", "empty_recovery", "recovery",
                  "texts", "show">>
ExportSteps == <<"empty_backup", "backup">>
Steps == [create |-> CreateSteps, reset |-> ResetSteps,
          restore |-> RestoreSteps, export |-> ExportSteps]

Idle == [kind |-> "none", left |-> <<>>, key |-> None, password |-> None,
         phrase |-> None, file |-> None, texts |-> <<>>]
Begin(kind, key, password, file, texts) ==
  [kind |-> kind, left |-> Steps[kind], key |-> key, password |-> password,
   phrase |-> None, file |-> file, texts |-> texts]
NextIs(step) == op.left # <<>> /\ Head(op.left) = step
Done == [op EXCEPT !.left = Tail(@)]

SignInScreen == session = None /\ op = Idle

Texts(rows) == [i \in 1..Len(rows) |-> rows[i].body]

Init ==
  /\ identity = Absent /\ recovery = Absent /\ messages = <<>>
  /\ backups \in [BackupFiles ->
       {Bundle(Absent, <<>>)}
         \cup {Bundle(Blob(p, Elsewhere), TextsElsewhere) : p \in Passwords}]
  /\ op = Idle /\ session = None
  /\ keys = Elsewhere /\ phrases = 0 /\ bodies = Len(TextsElsewhere) /\ faults = 0
  /\ typed = {backups[f].blob.secret : f \in BackupFiles} \ {None}
  /\ read = {} /\ settled = {} /\ displaced = {} /\ cut = {} /\ repeated = {}

----------------------------------------------------------------------------
\* The operations of the sign-in screen.

Chosen(password) == typed' = typed \cup {password}

\* LoginScreen._create: AccountExists looks for the file, not into it.
Create(password) ==
  /\ SignInScreen /\ ~Exists(identity)
  /\ keys < MaxKeys /\ phrases < MaxPhrases
  /\ keys' = keys + 1
  /\ op' = Begin("create", keys + 1, password, None, <<>>)
  /\ Chosen(password)
  /\ UNCHANGED <<files, session, phrases, bodies, faults, read, settled, displaced, cut, repeated>>

\* LoginScreen._sign_in
SignIn(password) ==
  /\ SignInScreen /\ Opens(identity, password)
  /\ session' = identity.key
  /\ settled' = settled \cup {identity.key}
  /\ UNCHANGED <<files, op, made, faults, typed, read, displaced, cut, repeated>>

\* LoginScreen._forgot_password: list_accounts looks for identity.enc.
ForgotPassword(phrase, password) ==
  /\ SignInScreen /\ Exists(identity)
  /\ phrase \in read /\ Opens(recovery, phrase)
  /\ op' = Begin("reset", recovery.key, password, None, <<>>)
  /\ Chosen(password)
  /\ UNCHANGED <<files, session, made, faults, read, settled, displaced, cut, repeated>>

\* The rows that the texts will be, if they are not the first.
StoredAfter(rows, texts) ==
  IF rows = <<>> THEN {} ELSE Len(rows) + 1..Len(rows) + Len(texts)

\* restore_backup raises for any other password and for half a file (RestoreFailed,
\* or the cipher's ValueError when the file is empty), before anything is written.
Restorable(file, password) == Opens(backups[file].blob, password)

\* LoginScreen._restore: nobody looks for an account that is there already.
Restore(file, bundlePassword, password) ==
  /\ SignInScreen /\ Restorable(file, bundlePassword)
  /\ Len(messages) <= MaxRows /\ phrases < MaxPhrases
  /\ op' = Begin("restore", backups[file].blob.key, password, None, backups[file].texts)
  /\ Chosen(password)
  /\ repeated' = repeated \cup StoredAfter(messages, backups[file].texts)
  /\ UNCHANGED <<files, session, made, faults, read, settled, displaced, cut>>

----------------------------------------------------------------------------
\* The window of an account that is signed in.

\* Store.save_message, from the window's thread or a reader's.
SaveMessage ==
  /\ session # None /\ bodies < MaxMessages
  /\ bodies' = bodies + 1
  /\ messages' = Append(messages, Row(session, bodies + 1))
  /\ UNCHANGED <<identity, recovery, backups, op, session, keys, phrases, faults, history>>

\* export_backup reads the whole table through a connection of its own, and
\* raises InvalidTag when a row is another identity's.
Readable == \A i \in 1..Len(messages) : messages[i].key = session
Export(file, password) ==
  /\ session # None /\ op = Idle /\ Readable
  /\ op' = Begin("export", session, password, file, Texts(messages))
  /\ Chosen(password)
  /\ UNCHANGED <<files, session, made, faults, read, settled, displaced, cut, repeated>>

SignOut ==
  /\ session # None /\ op = Idle
  /\ session' = None
  /\ UNCHANGED <<files, op, made, faults, history>>

----------------------------------------------------------------------------
\* The steps of an operation.

\* _write_unlock_blob(d / "identity.enc", ...): from the first of its writes on,
\* the account here is no longer that of any other key.
EmptyIdentity ==
  /\ NextIs("empty_identity")
  /\ identity' = Torn /\ op' = Done
  /\ displaced' = displaced \cup (settled \ {op.key})
  /\ UNCHANGED <<recovery, messages, backups, session, made, faults>>
  /\ UNCHANGED <<typed, read, settled, cut, repeated>>
WriteIdentity ==
  /\ NextIs("identity")
  /\ identity' = Blob(op.password, op.key) /\ op' = Done
  /\ displaced' = displaced \ {op.key}
  /\ UNCHANGED <<recovery, messages, backups, session, made, faults>>
  /\ UNCHANGED <<typed, read, settled, cut, repeated>>

GeneratePhrase ==
  /\ NextIs("phrase")
  /\ phrases' = phrases + 1
  /\ op' = [Done EXCEPT !.phrase = phrases + 1]
  /\ UNCHANGED <<files, session, keys, bodies, faults, history>>

\* _write_unlock_blob(d / "recovery.enc", ...)
EmptyRecovery ==
  /\ NextIs("empty_recovery")
  /\ recovery' = Torn /\ op' = Done
  /\ UNCHANGED <<identity, messages, backups, session, made, faults, history>>
WriteRecovery ==
  /\ NextIs("recovery")
  /\ recovery' = Blob(op.phrase, op.key) /\ op' = Done
  /\ UNCHANGED <<identity, messages, backups, session, made, faults, history>>

\* A version that stores the last one first.
RestoreTextReversed ==
  /\ NextIs("texts") /\ op.texts # <<>>
  /\ messages' = Append(messages, Row(op.key, op.texts[Len(op.texts)]))
  /\ op' = [op EXCEPT !.texts = SubSeq(@, 1, Len(@) - 1)]
  /\ UNCHANGED <<identity, recovery, backups, session, made, faults, history>>

\* apply_restored_bundle stores the messages one by one, as new rows.
RestoreText ==
  /\ NextIs("texts") /\ op.texts # <<>>
  /\ messages' = Append(messages, Row(op.key, Head(op.texts)))
  /\ op' = [op EXCEPT !.texts = Tail(@)]
  /\ UNCHANGED <<identity, recovery, backups, session, made, faults, history>>
AllRestored ==
  /\ NextIs("texts") /\ op.texts = <<>>
  /\ op' = Done
  /\ UNCHANGED <<files, session, made, faults, history>>

Show ==
  /\ NextIs("show")
  /\ read' = read \cup {op.phrase}
  /\ op' = IF Tail(op.left) = <<>> THEN Idle ELSE Done
  /\ UNCHANGED <<files, session, made, faults, typed, settled, displaced, cut, repeated>>

\* A version that leaves the operation behind.
EnterWindowStays ==
  /\ NextIs("sign_in")
  /\ session' = op.key /\ op' = Done
  /\ settled' = settled \cup {op.key}
  /\ UNCHANGED <<files, made, faults, typed, read, displaced, cut, repeated>>

\* on_success, with the key in hand.
EnterWindow ==
  /\ NextIs("sign_in")
  /\ session' = op.key /\ op' = Idle
  /\ settled' = settled \cup {op.key}
  /\ UNCHANGED <<files, made, faults, typed, read, displaced, cut, repeated>>

EmptyBackup ==
  /\ NextIs("empty_backup")
  /\ backups' = [backups EXCEPT ![op.file] = Bundle(Torn, <<>>)]
  /\ op' = Done
  /\ UNCHANGED <<identity, recovery, messages, session, made, faults, history>>
WriteBackup ==
  /\ NextIs("backup")
  /\ backups' = [backups EXCEPT ![op.file] = Bundle(Blob(op.password, op.key), op.texts)]
  /\ op' = Idle
  /\ UNCHANGED <<identity, recovery, messages, session, made, faults, history>>

\* The process ends; an exception in the middle of an operation of the sign-in
\* screen (the database is locked, the disk is full) leaves the same.
CutShort ==
  /\ op # Idle /\ faults < MaxFaults
  /\ faults' = faults + 1
  /\ op' = Idle /\ session' = None
  /\ cut' = cut \cup {op.kind}
  /\ repeated' = repeated \cap 1..Len(messages)
  /\ UNCHANGED <<files, made, typed, read, settled, displaced>>

Operate ==
  \/ EmptyIdentity \/ WriteIdentity
  \/ GeneratePhrase \/ EmptyRecovery \/ WriteRecovery
  \/ RestoreText \/ AllRestored \/ Show \/ EnterWindow
  \/ EmptyBackup \/ WriteBackup

Next ==
  \/ \E p \in Passwords : Create(p) \/ SignIn(p)
  \/ \E n \in Phrases, p \in Passwords : ForgotPassword(n, p)
  \/ \E f \in BackupFiles, b \in Passwords, p \in Passwords : Restore(f, b, p)
  \/ \E f \in BackupFiles, p \in Passwords : Export(f, p)
  \/ SaveMessage \/ SignOut
  \/ Operate
  \/ CutShort

Spec == Init /\ [][Next]_vars

----------------------------------------------------------------------------
Secrets == {None} \cup Passwords \cup Phrases
Blobs == [state: States, secret: Secrets, key: Keys \cup {None}]

TypeOK ==
  /\ identity \in Blobs /\ recovery \in Blobs
  /\ \A i \in 1..Len(messages) : messages[i] \in [key: Keys, body: 1..MaxMessages]
  /\ \A f \in BackupFiles : backups[f].blob \in Blobs
  /\ op.kind \in DOMAIN Steps \cup {"none"}
  /\ (op.kind = "none") = (op = Idle)
  /\ session \in Keys \cup {None}
  /\ session # None => op.kind \in {"none", "export"}
  /\ phrases <= MaxPhrases /\ read \subseteq 1..phrases
  /\ typed \subseteq Passwords

\* What the user can open the file with.
Held == typed \cup read
OpensWith(file, secrets) == \E s \in secrets : Opens(file, s)

Because(kinds) == cut \cap kinds # {}
BackedUp(key) ==
  \E f \in BackupFiles : OpensWith(backups[f].blob, typed) /\ backups[f].blob.key = key

\* A user who has used an account here holds, whenever the process ends, a
\* password or a recovery phrase that opens a copy of its key on this machine:
\* the copies are rewritten one after the other (identity.py:146, backup.py:104
\* and 107).  Keys are excepted one by one: a key in whose place another is being
\* or was written, until it is restored itself.  And a recovery copy that an
\* interrupted sign-up or restore left without a phrase the user has seen does
\* not count, but then an exported backup has the key and opens.
LocalWayIn ==
  \A k \in settled :
    \/ OpensWith(identity, typed) /\ identity.key = k
    \/ OpensWith(recovery, read) /\ recovery.key = k
    \/ k \in displaced
    \/ Because({"create", "restore"}) /\ BackedUp(k)

\* "either one alone unlocks the account" (identity.py:82-85): in an account
\* that a password opens, a phrase the user was shown opens the same key.  An
\* interrupted sign-up or restore leaves one without.
EitherOneAlone ==
  op = Idle /\ identity.state = "whole" =>
    OpensWith(recovery, read) /\ recovery.key = identity.key

\* The history is in the order it was written and has no message twice, whatever
\* is cut short and restored: a row is newer than every row before it.  Rows are
\* excepted one by one: those that a restore stored after others it found in the
\* table (backup.py:122-123).  What is written after them is in order again.
HistoryInOrder ==
  \A i, j \in 1..Len(messages) :
    i < j => messages[i].body < messages[j].body \/ j \in repeated
============================================================================
