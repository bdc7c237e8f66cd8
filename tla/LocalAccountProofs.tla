------------------------- MODULE LocalAccountProofs -------------------------
(***************************************************************************)
(* Proofs about LocalAccount, for any passwords, backup files and bounds.  *)
(***************************************************************************)
EXTENDS LocalAccount, TLAPS

----------------------------------------------------------------------------
(* The operations as programs: what may be left of each, by how many steps *)

C7 == <<"empty_identity", "identity", "phrase", "empty_recovery", "recovery", "show", "sign_in">>
C6 == <<"identity", "phrase", "empty_recovery", "recovery", "show", "sign_in">>
C5 == <<"phrase", "empty_recovery", "recovery", "show", "sign_in">>
C4 == <<"empty_recovery", "recovery", "show", "sign_in">>
C3 == <<"recovery", "show", "sign_in">>
C2 == <<"show", "sign_in">>
C1 == <<"sign_in">>
CreateLefts == {C7, C6, C5, C4, C3, C2, C1}

S3 == <<"empty_identity", "identity", "sign_in">>
S2 == <<"identity", "sign_in">>
S1 == <<"sign_in">>
ResetLefts == {S3, S2, S1}

R7 == <<"empty_identity", "identity", "phrase", "empty_recovery", "recovery", "texts", "show">>
R6 == <<"identity", "phrase", "empty_recovery", "recovery", "texts", "show">>
R5 == <<"phrase", "empty_recovery", "recovery", "texts", "show">>
R4 == <<"empty_recovery", "recovery", "texts", "show">>
R3 == <<"recovery", "texts", "show">>
R2 == <<"texts", "show">>
R1 == <<"show">>
RestoreLefts == {R7, R6, R5, R4, R3, R2, R1}

X2 == <<"empty_backup", "backup">>
X1 == <<"backup">>
ExportLefts == {X2, X1}

Program(kind, left) ==
  \/ kind = "create" /\ left \in CreateLefts
  \/ kind = "reset" /\ left \in ResetLefts
  \/ kind = "restore" /\ left \in RestoreLefts
  \/ kind = "export" /\ left \in ExportLefts

\* If `step` is next, then `next` is when it is done.
Then(kind, left, step, next) ==
  Head(left) = step =>
    /\ Program(kind, Tail(left))
    /\ Tail(left) # <<>> /\ Head(Tail(left)) = next

LEMMA CreateProgram ==
  ASSUME NEW left \in CreateLefts
  PROVE  /\ left # <<>>
         /\ Head(left) \in {"empty_identity", "identity", "phrase", "empty_recovery",
                            "recovery", "show", "sign_in"}
         /\ Then("create", left, "empty_identity", "identity")
         /\ Then("create", left, "identity", "phrase")
         /\ Then("create", left, "phrase", "empty_recovery")
         /\ Then("create", left, "empty_recovery", "recovery")
         /\ Then("create", left, "recovery", "show")
         /\ Then("create", left, "show", "sign_in")
<1>1. C7 # <<>> /\ Head(C7) = "empty_identity" /\ Tail(C7) = C6
  BY DEF C7, C6
<1>2. C6 # <<>> /\ Head(C6) = "identity" /\ Tail(C6) = C5
  BY DEF C6, C5
<1>3. C5 # <<>> /\ Head(C5) = "phrase" /\ Tail(C5) = C4
  BY DEF C5, C4
<1>4. C4 # <<>> /\ Head(C4) = "empty_recovery" /\ Tail(C4) = C3
  BY DEF C4, C3
<1>5. C3 # <<>> /\ Head(C3) = "recovery" /\ Tail(C3) = C2
  BY DEF C3, C2
<1>6. C2 # <<>> /\ Head(C2) = "show" /\ Tail(C2) = C1
  BY DEF C2, C1
<1>7. C1 # <<>> /\ Head(C1) = "sign_in" /\ Tail(C1) = <<>>
  BY DEF C1
<1>8. \/ left = C7 \/ left = C6 \/ left = C5 \/ left = C4 \/ left = C3 \/ left = C2 \/ left = C1
  BY DEF CreateLefts
<1>9. \A l \in {C6, C5, C4, C3, C2, C1} : Program("create", l)
  BY DEF CreateLefts, Program
<1>10. CASE left = C7
  BY <1>1, <1>9, <1>2, <1>10 DEF Then
<1>11. CASE left = C6
  BY <1>2, <1>9, <1>3, <1>11 DEF Then
<1>12. CASE left = C5
  BY <1>3, <1>9, <1>4, <1>12 DEF Then
<1>13. CASE left = C4
  BY <1>4, <1>9, <1>5, <1>13 DEF Then
<1>14. CASE left = C3
  BY <1>5, <1>9, <1>6, <1>14 DEF Then
<1>15. CASE left = C2
  BY <1>6, <1>9, <1>7, <1>15 DEF Then
<1>16. CASE left = C1
  BY <1>7, <1>9, <1>16 DEF Then
<1>17. QED
  BY <1>8, <1>10, <1>11, <1>12, <1>13, <1>14, <1>15, <1>16

LEMMA ResetProgram ==
  ASSUME NEW left \in ResetLefts
  PROVE  /\ left # <<>>
         /\ Head(left) \in {"empty_identity", "identity", "sign_in"}
         /\ Then("reset", left, "empty_identity", "identity")
         /\ Then("reset", left, "identity", "sign_in")
<1>1. S3 # <<>> /\ Head(S3) = "empty_identity" /\ Tail(S3) = S2
  BY DEF S3, S2
<1>2. S2 # <<>> /\ Head(S2) = "identity" /\ Tail(S2) = S1
  BY DEF S2, S1
<1>3. S1 # <<>> /\ Head(S1) = "sign_in" /\ Tail(S1) = <<>>
  BY DEF S1
<1>4. QED
  BY <1>1, <1>2, <1>3
  DEF ResetLefts, Then, Program

LEMMA RestoreProgram ==
  ASSUME NEW left \in RestoreLefts
  PROVE  /\ left # <<>>
         /\ Head(left) \in {"empty_identity", "identity", "phrase", "empty_recovery",
                            "recovery", "texts", "show"}
         /\ Then("restore", left, "empty_identity", "identity")
         /\ Then("restore", left, "identity", "phrase")
         /\ Then("restore", left, "phrase", "empty_recovery")
         /\ Then("restore", left, "empty_recovery", "recovery")
         /\ Then("restore", left, "recovery", "texts")
         /\ Then("restore", left, "texts", "show")
         /\ Head(left) = "show" => Tail(left) = <<>>
<1>1. R7 # <<>> /\ Head(R7) = "empty_identity" /\ Tail(R7) = R6
  BY DEF R7, R6
<1>2. R6 # <<>> /\ Head(R6) = "identity" /\ Tail(R6) = R5
  BY DEF R6, R5
<1>3. R5 # <<>> /\ Head(R5) = "phrase" /\ Tail(R5) = R4
  BY DEF R5, R4
<1>4. R4 # <<>> /\ Head(R4) = "empty_recovery" /\ Tail(R4) = R3
  BY DEF R4, R3
<1>5. R3 # <<>> /\ Head(R3) = "recovery" /\ Tail(R3) = R2
  BY DEF R3, R2
<1>6. R2 # <<>> /\ Head(R2) = "texts" /\ Tail(R2) = R1
  BY DEF R2, R1
<1>7. R1 # <<>> /\ Head(R1) = "show" /\ Tail(R1) = <<>>
  BY DEF R1
<1>8. \/ left = R7 \/ left = R6 \/ left = R5 \/ left = R4 \/ left = R3 \/ left = R2 \/ left = R1
  BY DEF RestoreLefts
<1>9. \A l \in {R6, R5, R4, R3, R2, R1} : Program("restore", l)
  BY DEF RestoreLefts, Program
<1>10. CASE left = R7
  BY <1>1, <1>9, <1>2, <1>10 DEF Then
<1>11. CASE left = R6
  BY <1>2, <1>9, <1>3, <1>11 DEF Then
<1>12. CASE left = R5
  BY <1>3, <1>9, <1>4, <1>12 DEF Then
<1>13. CASE left = R4
  BY <1>4, <1>9, <1>5, <1>13 DEF Then
<1>14. CASE left = R3
  BY <1>5, <1>9, <1>6, <1>14 DEF Then
<1>15. CASE left = R2
  BY <1>6, <1>9, <1>7, <1>15 DEF Then
<1>16. CASE left = R1
  BY <1>7, <1>9, <1>16 DEF Then
<1>17. QED
  BY <1>8, <1>10, <1>11, <1>12, <1>13, <1>14, <1>15, <1>16

LEMMA ExportProgram ==
  ASSUME NEW left \in ExportLefts
  PROVE  /\ left # <<>>
         /\ Head(left) \in {"empty_backup", "backup"}
         /\ Then("export", left, "empty_backup", "backup")
<1>1. X2 # <<>> /\ Head(X2) = "empty_backup" /\ Tail(X2) = X1
  BY DEF X2, X1
<1>2. X1 # <<>> /\ Head(X1) = "backup" /\ Tail(X1) = <<>>
  BY DEF X1
<1>3. QED
  BY <1>1, <1>2
  DEF ExportLefts, Then, Program

LEMMA Begins ==
  /\ Program("create", Steps["create"]) /\ Program("reset", Steps["reset"])
  /\ Program("restore", Steps["restore"]) /\ Program("export", Steps["export"])
  /\ Head(Steps["create"]) = "empty_identity" /\ Head(Steps["reset"]) = "empty_identity"
  /\ Head(Steps["restore"]) = "empty_identity" /\ Head(Steps["export"]) = "empty_backup"
<1>1. Steps["create"] = C7 /\ Steps["reset"] = S3 /\ Steps["restore"] = R7 /\ Steps["export"] = X2
  BY DEF Steps, CreateSteps, ResetSteps, RestoreSteps, ExportSteps, C7, S3, R7, X2
<1>2. /\ Head(C7) = "empty_identity" /\ Head(S3) = "empty_identity"
      /\ Head(R7) = "empty_identity" /\ Head(X2) = "empty_backup"
  BY DEF C7, S3, R7, X2
<1>3. QED
  BY <1>1, <1>2 DEF Program, CreateLefts, ResetLefts, RestoreLefts, ExportLefts

----------------------------------------------------------------------------
(* The inductive invariant *)

Operation ==
  [kind: {"none", "create", "reset", "restore", "export"},
   left: {<<>>} \cup CreateLefts \cup ResetLefts \cup RestoreLefts \cup ExportLefts,
   key: {None} \cup Keys, password: {None} \cup Passwords, phrase: {None} \cup Phrases,
   file: {None} \cup BackupFiles, texts: Seq(Nat)]

\* A file has a key if it is whole.
KeyIfWhole(file) == file.state = "whole" <=> file.key # None

\* The phrase of an operation is there once it was generated.
HasPhrase == {"empty_recovery", "recovery", "texts", "show", "sign_in"}

Types ==
  /\ identity \in Blobs /\ recovery \in Blobs
  /\ KeyIfWhole(identity) /\ KeyIfWhole(recovery)
  /\ messages \in Seq([key: Keys, body: Nat])
  /\ backups \in [BackupFiles -> [blob: Blobs, texts: Seq(Nat)]]
  /\ \A f \in BackupFiles : KeyIfWhole(backups[f].blob)
  /\ session \in {None} \cup Keys
  /\ keys \in Keys /\ phrases \in 0..MaxPhrases /\ bodies \in 2..MaxMessages
  /\ typed \subseteq Passwords /\ read \subseteq 1..phrases /\ settled \subseteq Keys

OperationSound ==
  /\ op \in Operation
  /\ \/ op = Idle
     \/ /\ Program(op.kind, op.left)
        /\ op.key \in Keys /\ op.password \in typed
        /\ op.kind = "export" => op.file \in BackupFiles
        /\ op.kind \in {"create", "restore"} /\ Head(op.left) \in HasPhrase =>
             op.phrase \in 1..phrases
        /\ op.kind \in {"create", "restore"} /\ Head(op.left) \notin HasPhrase =>
             phrases < MaxPhrases

\* No body is given twice.
BodiesKnown ==
  /\ \A i \in 1..Len(messages) : messages[i].body \in 1..bodies
  /\ \A f \in BackupFiles : \A i \in 1..Len(backups[f].texts) : backups[f].texts[i] \in 1..bodies
  /\ \A i \in 1..Len(op.texts) : op.texts[i] \in 1..bodies

\* The user chose the password of every whole file.
PasswordsTyped ==
  /\ identity.state = "whole" => identity.secret \in typed
  /\ \A f \in BackupFiles : backups[f].blob.state = "whole" => backups[f].blob.secret \in typed

\* Who is signed in has the identity that is on file, and can export only.
SessionSound ==
  /\ session # None => identity.key = session /\ session \in settled
  /\ op.kind \in {"create", "reset", "restore"} => session = None
  /\ op.kind = "export" => session = op.key

\* Nobody has used an account before there is a file, or while one is made.
Unused ==
  /\ ~Exists(identity) => ~Exists(recovery) /\ settled = {}
  /\ op.kind = "create" => settled = {}

\* What an operation has written by the time that it has `left` to do.
Written == {"phrase", "empty_recovery", "recovery", "texts", "show", "sign_in"}
Stage ==
  /\ op.kind \in {"create", "restore"} =>
       /\ Head(op.left) \in Written => identity = Blob(op.password, op.key)
       /\ Head(op.left) \in {"texts", "show", "sign_in"} => recovery = Blob(op.phrase, op.key)
  /\ op.kind = "create" /\ Head(op.left) = "sign_in" => op.phrase \in read
  /\ op.kind = "restore" => BackedUp(op.key)
  /\ op.kind = "reset" =>
       /\ OpensWith(recovery, read) /\ recovery.key = op.key
       /\ Head(op.left) = "sign_in" => identity = Blob(op.password, op.key)

\* The accounts that are still here have the key that is on file, and that an
\* operation rewrites once it has emptied identity.enc.
Here == settled \ displaced
Rewriting == op.kind \in {"create", "reset", "restore"} /\ Head(op.left) # "empty_identity"
Current ==
  /\ \A k \in Here : identity.key \in {k, None}
  /\ Rewriting => Here \subseteq {op.key}

\* An account that is here has a recovery copy whose phrase the user has seen,
\* when nothing is rewriting it; unless a sign-up or a restore was interrupted.
Shown ==
  /\ OpensWith(recovery, read)
  /\ (Here \cup {identity.key}) \ {None} \subseteq {recovery.key}
PhraseShown ==
  \/ Because({"create", "restore"})
  \/ settled = {} /\ (op.kind \notin {"create", "restore"} => ~Exists(identity))
  \/ Shown
  \/ op.kind = "restore" /\ Head(op.left) \in Written

WayInv ==
  /\ PasswordsTyped /\ SessionSound /\ Unused /\ Stage /\ Current /\ PhraseShown /\ LocalWayIn

\* A sequence of numbers in order.
Increasing(s) == \A i, j \in 1..Len(s) : i < j => s[i] < s[j]

\* While there are no messages, all that there is to restore is in order.  What
\* is being restored is in order and newer than what was; or its rows are all
\* among those that are stored after others.
RestInOrder ==
  /\ Increasing(op.texts)
  /\ \A i \in 1..Len(messages), j \in 1..Len(op.texts) : messages[i].body < op.texts[j]
RestRepeated == \A m \in 1..Len(op.texts) : Len(messages) + m \in repeated
InOrder ==
  /\ HistoryInOrder
  /\ messages = <<>> =>
       Increasing(op.texts) /\ \A f \in BackupFiles : Increasing(backups[f].texts)
  /\ op.kind = "restore" => RestInOrder \/ RestRepeated

TypeInv == Types /\ OperationSound /\ BodiesKnown
Inv == TypeInv /\ WayInv /\ InOrder

----------------------------------------------------------------------------
(* The operation under way, before and after one of its steps *)

\* The operation under way is one of `kinds`, and `step` is what it does next.
At(step, kinds) ==
  /\ op.kind \in kinds /\ Head(op.left) = step /\ op.left # <<>>
  /\ Program(op.kind, op.left)
  /\ op.key \in Keys /\ op.password \in typed

LEMMA AtStep ==
  ASSUME OperationSound, NEW step, NextIs(step)
  PROVE  At(step, {"create", "reset", "restore", "export"})
BY DEF OperationSound, NextIs, At, Idle, Program

\* Done, with `next` at the head of what is left.
DoneBefore(next) ==
  /\ Done \in Operation
  /\ Done.kind = op.kind /\ Done.key = op.key /\ Done.password = op.password
  /\ Done.phrase = op.phrase /\ Done.file = op.file /\ Done.texts = op.texts
  /\ Program(op.kind, Done.left) /\ Head(Done.left) = next

LEMMA DoneFields ==
  ASSUME OperationSound, NEW next,
         Program(op.kind, Tail(op.left)), Head(Tail(op.left)) = next
  PROVE  DoneBefore(next)
<1>1. op \in Operation
  BY DEF OperationSound
<1>2. Tail(op.left) \in CreateLefts \cup ResetLefts \cup RestoreLefts \cup ExportLefts
  BY DEF Program
<1> DEFINE t == Tail(op.left)
<1> HIDE DEF t
<1>3. [op EXCEPT !.left = t] \in Operation /\ [op EXCEPT !.left = t].left = t
  BY <1>1, <1>2 DEF Operation, t
<1>4. QED
  BY <1>1, <1>3 DEF DoneBefore, Done, Operation, t

LEMMA AtEmptyIdentity ==
  ASSUME OperationSound, NextIs("empty_identity")
  PROVE  At("empty_identity", {"create", "reset", "restore"}) /\ DoneBefore("identity")
BY AtStep, DoneFields, CreateProgram, ResetProgram, RestoreProgram, ExportProgram
DEF At, Program, Then

LEMMA AtIdentity ==
  ASSUME OperationSound, NextIs("identity")
  PROVE  /\ At("identity", {"create", "reset", "restore"})
         /\ op.kind = "reset" => DoneBefore("sign_in")
         /\ op.kind # "reset" => DoneBefore("phrase")
BY AtStep, DoneFields, CreateProgram, ResetProgram, RestoreProgram, ExportProgram
DEF At, Program, Then

LEMMA AtPhrase ==
  ASSUME OperationSound, NextIs("phrase")
  PROVE  At("phrase", {"create", "restore"}) /\ DoneBefore("empty_recovery")
BY AtStep, DoneFields, CreateProgram, ResetProgram, RestoreProgram, ExportProgram
DEF At, Program, Then

LEMMA AtEmptyRecovery ==
  ASSUME OperationSound, NextIs("empty_recovery")
  PROVE  At("empty_recovery", {"create", "restore"}) /\ DoneBefore("recovery")
BY AtStep, DoneFields, CreateProgram, ResetProgram, RestoreProgram, ExportProgram
DEF At, Program, Then

LEMMA AtRecovery ==
  ASSUME OperationSound, NextIs("recovery")
  PROVE  /\ At("recovery", {"create", "restore"})
         /\ op.kind = "create" => DoneBefore("show")
         /\ op.kind = "restore" => DoneBefore("texts")
BY AtStep, DoneFields, CreateProgram, ResetProgram, RestoreProgram, ExportProgram
DEF At, Program, Then

LEMMA AtTexts ==
  ASSUME OperationSound, NextIs("texts")
  PROVE  At("texts", {"restore"}) /\ DoneBefore("show")
BY AtStep, DoneFields, CreateProgram, ResetProgram, RestoreProgram, ExportProgram
DEF At, Program, Then

LEMMA AtShow ==
  ASSUME OperationSound, NextIs("show")
  PROVE  /\ At("show", {"create", "restore"})
         /\ op.kind = "create" => Tail(op.left) # <<>> /\ DoneBefore("sign_in")
         /\ op.kind = "restore" => Tail(op.left) = <<>>
BY AtStep, DoneFields, CreateProgram, ResetProgram, RestoreProgram, ExportProgram
DEF At, Program, Then

LEMMA AtSignIn ==
  ASSUME OperationSound, NextIs("sign_in")
  PROVE  At("sign_in", {"create", "reset"})
BY AtStep, CreateProgram, ResetProgram, RestoreProgram, ExportProgram DEF At, Program

LEMMA AtEmptyBackup ==
  ASSUME OperationSound, NextIs("empty_backup")
  PROVE  At("empty_backup", {"export"}) /\ DoneBefore("backup")
BY AtStep, DoneFields, CreateProgram, ResetProgram, RestoreProgram, ExportProgram
DEF At, Program, Then

LEMMA AtBackup ==
  ASSUME OperationSound, NextIs("backup")
  PROVE  At("backup", {"export"})
BY AtStep, CreateProgram, ResetProgram, RestoreProgram, ExportProgram DEF At, Program

\* The fields of an operation that begins.
Begun(o, kind, key, password, file, texts) ==
  /\ o \in Operation /\ o.kind = kind /\ Program(kind, o.left)
  /\ Head(o.left) = IF kind = "export" THEN "empty_backup" ELSE "empty_identity"
  /\ o.key = key /\ o.password = password /\ o.file = file /\ o.texts = texts

LEMMA BeginFields ==
  ASSUME NEW kind \in {"create", "reset", "restore", "export"}, NEW key \in Keys,
         NEW password \in Passwords, NEW file \in {None} \cup BackupFiles,
         NEW texts \in Seq(Nat)
  PROVE  Begun(Begin(kind, key, password, file, texts), kind, key, password, file, texts)
<1> DEFINE left == Steps[kind]
<1>1. Program(kind, left) /\ Head(left) = IF kind = "export" THEN "empty_backup" ELSE "empty_identity"
  BY Begins
<1> HIDE DEF left
<1>2. left \in CreateLefts \cup ResetLefts \cup RestoreLefts \cup ExportLefts
  BY <1>1 DEF Program
<1>3. Begin(kind, key, password, file, texts) =
        [kind |-> kind, left |-> left, key |-> key, password |-> password,
         phrase |-> None, file |-> file, texts |-> texts]
  BY DEF Begin, left
<1>4. QED
  BY <1>1, <1>2, <1>3 DEF Operation, Begun

LEMMA IdleFields ==
  /\ Idle \in Operation /\ Idle.kind = "none" /\ Idle.left = <<>> /\ Idle.key = None
  /\ Idle.texts = <<>> /\ Len(Idle.texts) = 0
BY DEF Idle, Operation

----------------------------------------------------------------------------
(* Types *)

LEMMA Blobby ==
  /\ Absent \in Blobs /\ Torn \in Blobs
  /\ Absent.state = "absent" /\ Absent.key = None /\ Torn.state = "torn" /\ Torn.key = None
  /\ KeyIfWhole(Absent) /\ KeyIfWhole(Torn)
BY DEF Absent, Torn, Blobs, States, Secrets, KeyIfWhole

LEMMA WholeBlob ==
  ASSUME NEW secret \in Passwords \cup Phrases, NEW key \in Keys
  PROVE  /\ Blob(secret, key) \in Blobs /\ KeyIfWhole(Blob(secret, key))
         /\ Blob(secret, key).state = "whole" /\ Blob(secret, key).key = key
         /\ Blob(secret, key).secret = secret
         /\ Opens(Blob(secret, key), secret)
<1>1. key # None
  BY DEF Keys, None
<1>2. QED
  BY <1>1 DEF Blob, Blobs, States, Secrets, KeyIfWhole, Opens

LEMMA TextsOf ==
  ASSUME messages \in Seq([key: Keys, body: Nat])
  PROVE  /\ Texts(messages) \in Seq(Nat) /\ Len(Texts(messages)) = Len(messages)
         /\ \A i \in 1..Len(messages) : Texts(messages)[i] = messages[i].body
<1> DEFINE S == [key: Keys, body: Nat]
<1>0. messages \in Seq(S)
  OBVIOUS
<1> HIDE DEF S
<1>1. \A i \in 1..Len(messages) : messages[i] \in S
  BY <1>0
<1>2. \A i \in 1..Len(messages) : messages[i].body \in Nat
  BY <1>1 DEF S
<1>3. QED
  BY <1>2 DEF Texts

LEMMA CreateBegun ==
  ASSUME Types, NEW p \in Passwords, Create(p)
  PROVE  keys + 1 \in Keys /\ Begun(op', "create", keys + 1, p, None, <<>>)
<1>1. keys + 1 \in Keys
  BY LocalAccountAssumption DEF Create, Types, Keys
<1>2. <<>> \in Seq(Nat) /\ None \in {None} \cup BackupFiles
  BY DEF None
<1> DEFINE o == Begin("create", keys + 1, p, None, <<>>)
<1>3. Begun(o, "create", keys + 1, p, None, <<>>)
  BY <1>1, <1>2, BeginFields
<1> HIDE DEF o
<1>4. op' = o
  BY DEF Create, o
<1>5. QED
  BY <1>1, <1>3, <1>4

LEMMA ResetBegun ==
  ASSUME Types, NEW n \in Phrases, NEW p \in Passwords, ForgotPassword(n, p)
  PROVE  recovery.key \in Keys /\ Begun(op', "reset", recovery.key, p, None, <<>>)
<1>1. recovery.key \in Keys
  BY DEF ForgotPassword, Opens, Types, Blobs, KeyIfWhole
<1>2. <<>> \in Seq(Nat) /\ None \in {None} \cup BackupFiles
  BY DEF None
<1> DEFINE o == Begin("reset", recovery.key, p, None, <<>>)
<1>3. Begun(o, "reset", recovery.key, p, None, <<>>)
  BY <1>1, <1>2, BeginFields
<1> HIDE DEF o
<1>4. op' = o
  BY DEF ForgotPassword, o
<1>5. QED
  BY <1>1, <1>3, <1>4

LEMMA RestoreBegun ==
  ASSUME Types, NEW f \in BackupFiles, NEW b \in Passwords, NEW p \in Passwords, Restore(f, b, p)
  PROVE  backups[f].blob.key \in Keys /\ Begun(op', "restore", backups[f].blob.key, p, None, backups[f].texts)
<1>1. backups[f].blob.key \in Keys /\ backups[f].texts \in Seq(Nat)
  BY DEF Restore, Restorable, Opens, Types, Blobs, KeyIfWhole
<1>2. <<>> \in Seq(Nat) /\ None \in {None} \cup BackupFiles
  BY DEF None
<1> DEFINE o == Begin("restore", backups[f].blob.key, p, None, backups[f].texts)
<1>3. Begun(o, "restore", backups[f].blob.key, p, None, backups[f].texts)
  BY <1>1, <1>2, BeginFields
<1> HIDE DEF o
<1>4. op' = o
  BY DEF Restore, o
<1>5. QED
  BY <1>1, <1>3, <1>4

LEMMA ExportBegun ==
  ASSUME Types, NEW f \in BackupFiles, NEW p \in Passwords, Export(f, p)
  PROVE  session \in Keys /\ Begun(op', "export", session, p, f, Texts(messages))
<1>1. session \in Keys /\ Texts(messages) \in Seq(Nat)
  BY TextsOf DEF Export, Types
<1>2. <<>> \in Seq(Nat) /\ None \in {None} \cup BackupFiles
  BY DEF None
<1> DEFINE o == Begin("export", session, p, f, Texts(messages))
<1>3. Begun(o, "export", session, p, f, Texts(messages))
  BY <1>1, <1>2, BeginFields
<1> HIDE DEF o
<1>4. op' = o
  BY DEF Export, o
<1>5. QED
  BY <1>1, <1>3, <1>4

LEMMA InitTypes == Init => TypeInv
<1> SUFFICES ASSUME Init PROVE TypeInv
  OBVIOUS
<1>1. TextsElsewhere \in Seq(Nat) /\ Len(TextsElsewhere) = 2
      /\ TextsElsewhere[1] = 1 /\ TextsElsewhere[2] = 2
  BY DEF TextsElsewhere
<1>2. <<>> \in Seq(Nat) /\ Len(<<>>) = 0
  OBVIOUS
<1>3. Elsewhere \in Keys
  BY LocalAccountAssumption DEF Elsewhere, Keys
<1>4. ASSUME NEW f \in BackupFiles
      PROVE  /\ backups[f].blob \in Blobs /\ KeyIfWhole(backups[f].blob)
             /\ backups[f].blob.secret \in {None} \cup Passwords
             /\ backups[f].texts \in Seq(Nat)
             /\ \A i \in 1..Len(backups[f].texts) : backups[f].texts[i] \in 1..2
             /\ backups[f] \in [blob: Blobs, texts: Seq(Nat)]
  <2>1. CASE backups[f] = Bundle(Absent, <<>>)
    <3>1. Absent.secret = None
      BY DEF Absent
    <3>2. backups[f].blob = Absent /\ backups[f].texts = <<>>
      BY <2>1 DEF Bundle
    <3>3. backups[f] \in [blob: Blobs, texts: Seq(Nat)]
      BY <2>1, <1>2, Blobby DEF Bundle
    <3>4. QED
      BY <3>1, <3>2, <3>3, <1>2, Blobby
  <2>2. ASSUME NEW p \in Passwords, backups[f] = Bundle(Blob(p, Elsewhere), TextsElsewhere)
        PROVE  <1>4!2
    <3>1. Blob(p, Elsewhere) \in Blobs /\ KeyIfWhole(Blob(p, Elsewhere))
          /\ Blob(p, Elsewhere).secret = p
      BY <1>3, WholeBlob
    <3>2. backups[f].blob = Blob(p, Elsewhere) /\ backups[f].texts = TextsElsewhere
      BY <2>2 DEF Bundle
    <3>3. backups[f] \in [blob: Blobs, texts: Seq(Nat)]
      BY <2>2, <3>1, <1>1 DEF Bundle
    <3>4. \A i \in 1..Len(TextsElsewhere) : TextsElsewhere[i] \in 1..2
      BY <1>1
    <3>5. QED
      BY <3>1, <3>2, <3>3, <3>4, <1>1
  <2>3. backups[f] \in {Bundle(Absent, <<>>)} \cup {Bundle(Blob(p, Elsewhere), TextsElsewhere) : p \in Passwords}
    BY DEF Init
  <2>4. QED
    BY <2>1, <2>2, <2>3
<1>5. typed \subseteq Passwords
  BY <1>4 DEF Init
<1>6. Types
  <2>1. DOMAIN backups = BackupFiles /\ backups = [f \in BackupFiles |-> backups[f]]
    BY DEF Init
  <2>2. backups \in [BackupFiles -> [blob: Blobs, texts: Seq(Nat)]]
    BY <1>4, <2>1
  <2>3. messages \in Seq([key: Keys, body: Nat])
    BY DEF Init
  <2>4. phrases \in 0..MaxPhrases /\ bodies \in 2..MaxMessages /\ keys \in Keys
    BY <1>1, <1>3, LocalAccountAssumption DEF Init
  <2>5. QED
    BY <2>2, <2>3, <2>4, <1>4, <1>5, Blobby DEF Init, Types
<1>7. OperationSound
  BY IdleFields DEF Init, OperationSound
<1>8. BodiesKnown
  <2>1. \A i \in 1..Len(messages) : messages[i].body \in 1..bodies
    BY DEF Init
  <2>2. \A i \in 1..Len(op.texts) : op.texts[i] \in 1..bodies
    BY IdleFields DEF Init
  <2>3. \A f \in BackupFiles : \A i \in 1..Len(backups[f].texts) : backups[f].texts[i] \in 1..bodies
    BY <1>1, <1>4 DEF Init
  <2>4. QED
    BY <2>1, <2>2, <2>3 DEF BodiesKnown
<1>9. QED
  BY <1>6, <1>7, <1>8 DEF TypeInv

LEMMA RowTyped ==
  ASSUME NEW key \in Keys, NEW body \in Nat
  PROVE  Row(key, body) \in [key: Keys, body: Nat] /\ Row(key, body).body = body
BY DEF Row

LEMMA TypesStep == TypeInv /\ [Next]_vars => Types'
<1> SUFFICES ASSUME TypeInv, [Next]_vars PROVE Types'
  OBVIOUS
<1> USE DEF TypeInv
<1>0. Types /\ OperationSound
  OBVIOUS
<1>1. ASSUME NEW p \in Passwords, Create(p) PROVE Types'
  <2>1. keys + 1 \in Keys
    BY <1>0, <1>1, LocalAccountAssumption DEF Create, Types, Keys
  <2>2. QED
    BY <1>0, <1>1, <2>1 DEF Create, Types, files, Chosen
<1>2. ASSUME NEW p \in Passwords, SignIn(p) PROVE Types'
  <2>1. identity.key \in Keys
    BY <1>0, <1>2 DEF SignIn, Opens, Types, Blobs, KeyIfWhole
  <2>2. QED
    BY <1>0, <1>2, <2>1 DEF SignIn, Types, files, made
<1>3. ASSUME NEW n \in Phrases, NEW p \in Passwords, ForgotPassword(n, p) PROVE Types'
  BY <1>0, <1>3 DEF ForgotPassword, Types, files, made, Chosen
<1>4. ASSUME NEW f \in BackupFiles, NEW b \in Passwords, NEW p \in Passwords, Restore(f, b, p)
      PROVE  Types'
  BY <1>0, <1>4 DEF Restore, Types, files, made, Chosen
<1>5. ASSUME NEW f \in BackupFiles, NEW p \in Passwords, Export(f, p) PROVE Types'
  BY <1>0, <1>5 DEF Export, Types, files, made, Chosen
<1>6. ASSUME SaveMessage PROVE Types'
  <2>1. session \in Keys /\ bodies + 1 \in Nat /\ bodies + 1 \in 2..MaxMessages
    BY <1>0, <1>6, LocalAccountAssumption DEF SaveMessage, Types
  <2> DEFINE row == Row(session, bodies + 1)
  <2>2. row \in [key: Keys, body: Nat]
    BY <2>1, RowTyped
  <2>3. messages' = Append(messages, row) /\ bodies' = bodies + 1
    BY <1>6 DEF SaveMessage
  <2> HIDE DEF row
  <2>4. messages' \in Seq([key: Keys, body: Nat])
    BY <1>0, <2>2, <2>3 DEF Types
  <2>5. QED
    BY <1>0, <1>6, <2>1, <2>3, <2>4 DEF SaveMessage, Types, history
<1>7. CASE SignOut
  BY <1>0, <1>7 DEF SignOut, Types, files, made, history
<1>8. CASE EmptyIdentity
  BY <1>0, <1>8, Blobby DEF EmptyIdentity, Types, made, history
<1>9. CASE WriteIdentity
  <2>1. op.key \in Keys /\ op.password \in Passwords
    BY <1>0, <1>9, AtIdentity DEF WriteIdentity, At, Types
  <2>2. QED
    BY <1>0, <1>9, <2>1, WholeBlob DEF WriteIdentity, Types, made, history
<1>10. CASE GeneratePhrase
  <2>1. At("phrase", {"create", "restore"})
    BY <1>0, <1>10, AtPhrase DEF GeneratePhrase
  <2>2. phrases < MaxPhrases
    BY <1>0, <2>1, IdleFields DEF OperationSound, At, HasPhrase
  <2>3. phrases + 1 \in 0..MaxPhrases /\ 1..phrases \subseteq 1..(phrases + 1)
    BY <1>0, <2>2, LocalAccountAssumption DEF Types
  <2>4. QED
    BY <1>0, <1>10, <2>3 DEF GeneratePhrase, Types, files, history
<1>11. CASE EmptyRecovery
  BY <1>0, <1>11, Blobby DEF EmptyRecovery, Types, made, history
<1>12. CASE WriteRecovery
  <2>1. At("recovery", {"create", "restore"})
    BY <1>0, <1>12, AtRecovery DEF WriteRecovery
  <2>2. op.key \in Keys /\ op.phrase \in 1..phrases
    BY <1>0, <2>1, IdleFields DEF At, OperationSound, HasPhrase
  <2>3. op.phrase \in Phrases
    BY <1>0, <2>2, LocalAccountAssumption DEF Types, Phrases
  <2>4. QED
    BY <1>0, <1>12, <2>2, <2>3, WholeBlob DEF WriteRecovery, Types, made, history
<1>13. CASE RestoreText
  <2>1. op.key \in Keys
    BY <1>0, <1>13, AtTexts DEF RestoreText, At
  <2>2. op.texts \in Seq(Nat) /\ op.texts # <<>>
    BY <1>0, <1>13 DEF RestoreText, OperationSound, Operation
  <2>3. Head(op.texts) \in Nat
    BY <2>2
  <2> DEFINE row == Row(op.key, Head(op.texts))
  <2>4. row \in [key: Keys, body: Nat]
    BY <2>1, <2>3, RowTyped
  <2>5. messages' = Append(messages, row)
    BY <1>13 DEF RestoreText
  <2> HIDE DEF row
  <2>6. messages' \in Seq([key: Keys, body: Nat])
    BY <1>0, <2>4, <2>5 DEF Types
  <2>7. QED
    BY <1>0, <1>13, <2>6 DEF RestoreText, Types, made, history
<1>14. CASE AllRestored
  BY <1>0, <1>14 DEF AllRestored, Types, files, made, history
<1>15. CASE Show
  <2>1. At("show", {"create", "restore"})
    BY <1>0, <1>15, AtShow DEF Show
  <2>2. op.phrase \in 1..phrases
    BY <1>0, <2>1, IdleFields DEF At, OperationSound, HasPhrase
  <2>3. QED
    BY <1>0, <1>15, <2>2 DEF Show, Types, files, made
<1>16. CASE EnterWindow
  <2>1. op.key \in Keys
    BY <1>0, <1>16, AtSignIn DEF EnterWindow, At
  <2>2. QED
    BY <1>0, <1>16, <2>1 DEF EnterWindow, Types, files, made
<1>17. CASE EmptyBackup
  <2> DEFINE b == Bundle(Torn, <<>>)
  <2>1. b \in [blob: Blobs, texts: Seq(Nat)] /\ b.blob = Torn
    BY Blobby DEF Bundle
  <2>2. backups' = [backups EXCEPT ![op.file] = b]
    BY <1>17 DEF EmptyBackup
  <2> HIDE DEF b
  <2>3. /\ backups' \in [BackupFiles -> [blob: Blobs, texts: Seq(Nat)]]
        /\ \A f \in BackupFiles : KeyIfWhole(backups'[f].blob)
    BY <1>0, <2>1, <2>2, Blobby DEF Types
  <2>4. QED
    BY <1>0, <1>17, <2>3 DEF EmptyBackup, Types, made, history
<1>18. CASE WriteBackup
  <2>1. op.key \in Keys /\ op.password \in Passwords /\ op.texts \in Seq(Nat)
    BY <1>0, <1>18, AtBackup DEF WriteBackup, At, Types, OperationSound, Operation
  <2> DEFINE blob == Blob(op.password, op.key)
             b == Bundle(blob, op.texts)
  <2>2. blob \in Blobs /\ KeyIfWhole(blob)
    BY <2>1, WholeBlob
  <2> HIDE DEF blob
  <2>3. b \in [blob: Blobs, texts: Seq(Nat)] /\ b.blob = blob
    BY <2>1, <2>2 DEF Bundle
  <2>4. backups' = [backups EXCEPT ![op.file] = b]
    BY <1>18 DEF WriteBackup, blob
  <2> HIDE DEF b
  <2>5. /\ backups' \in [BackupFiles -> [blob: Blobs, texts: Seq(Nat)]]
        /\ \A f \in BackupFiles : KeyIfWhole(backups'[f].blob)
    BY <1>0, <2>2, <2>3, <2>4 DEF Types
  <2>6. QED
    BY <1>0, <1>18, <2>5 DEF WriteBackup, Types, made, history
<1>19. CASE CutShort
  BY <1>0, <1>19 DEF CutShort, Types, files, made
<1>20. CASE UNCHANGED vars
  BY <1>0, <1>20 DEF Types, vars, files, made, history
<1>21. QED
  BY <1>1, <1>2, <1>3, <1>4, <1>5, <1>6, <1>7, <1>8, <1>9, <1>10, <1>11, <1>12, <1>13, <1>14,
     <1>15, <1>16, <1>17, <1>18, <1>19, <1>20 DEF Next, Operate

LEMMA OperationStep == TypeInv /\ [Next]_vars => OperationSound'
<1> SUFFICES ASSUME TypeInv, [Next]_vars PROVE OperationSound'
  OBVIOUS
<1>0. Types /\ OperationSound /\ Types'
  BY TypesStep DEF TypeInv
<1>t. <<>> \in Seq(Nat) /\ None \in {None} \cup BackupFiles
  BY DEF None
<1>1. ASSUME NEW p \in Passwords, Create(p) PROVE OperationSound'
  <2>1. keys + 1 \in Keys /\ Begun(op', "create", keys + 1, p, None, <<>>)
    BY <1>0, <1>1, CreateBegun
  <2>2. p \in typed' /\ phrases' < MaxPhrases
    BY <1>1 DEF Create, Chosen
  <2>3. QED
    BY <2>1, <2>2 DEF Begun, OperationSound, HasPhrase
<1>2. ASSUME NEW p \in Passwords, SignIn(p) PROVE OperationSound'
  BY <1>0, <1>2 DEF SignIn, OperationSound, made
<1>3. ASSUME NEW n \in Phrases, NEW p \in Passwords, ForgotPassword(n, p) PROVE OperationSound'
  <2>1. recovery.key \in Keys /\ Begun(op', "reset", recovery.key, p, None, <<>>)
    BY <1>0, <1>3, ResetBegun
  <2>2. p \in typed'
    BY <1>3 DEF ForgotPassword, Chosen
  <2>3. QED
    BY <2>1, <2>2 DEF Begun, OperationSound
<1>4. ASSUME NEW f \in BackupFiles, NEW b \in Passwords, NEW p \in Passwords, Restore(f, b, p)
      PROVE  OperationSound'
  <2>1. backups[f].blob.key \in Keys /\ Begun(op', "restore", backups[f].blob.key, p, None, backups[f].texts)
    BY <1>0, <1>4, RestoreBegun
  <2>2. p \in typed' /\ phrases' < MaxPhrases
    BY <1>4 DEF Restore, Chosen, made
  <2>3. QED
    BY <2>1, <2>2 DEF Begun, OperationSound, HasPhrase
<1>5. ASSUME NEW f \in BackupFiles, NEW p \in Passwords, Export(f, p) PROVE OperationSound'
  <2>1. session \in Keys /\ Begun(op', "export", session, p, f, Texts(messages))
    BY <1>0, <1>5, ExportBegun
  <2>2. p \in typed'
    BY <1>5 DEF Export, Chosen
  <2>3. QED
    BY <2>1, <2>2 DEF Begun, OperationSound
<1>6. CASE SaveMessage
  BY <1>0, <1>6 DEF SaveMessage, OperationSound, history
<1>7. CASE SignOut
  BY <1>0, <1>7 DEF SignOut, OperationSound, made, history
<1>8. CASE EmptyIdentity
  <2>1. At("empty_identity", {"create", "reset", "restore"}) /\ DoneBefore("identity")
        /\ op' = Done /\ typed' = typed /\ phrases' = phrases
    BY <1>0, <1>8, AtEmptyIdentity DEF EmptyIdentity, made, history
  <2>2. QED
    BY <1>0, <2>1, IdleFields DEF OperationSound, At, DoneBefore, HasPhrase
<1>9. CASE WriteIdentity
  <2>1. At("identity", {"create", "reset", "restore"})
        /\ op' = Done /\ typed' = typed /\ phrases' = phrases
    BY <1>0, <1>9, AtIdentity DEF WriteIdentity, made, history
  <2>2. DoneBefore("phrase") \/ (op.kind = "reset" /\ DoneBefore("sign_in"))
    BY <1>0, <1>9, AtIdentity DEF WriteIdentity
  <2>3. QED
    BY <1>0, <2>1, <2>2, IdleFields DEF OperationSound, At, DoneBefore, HasPhrase
<1>10. CASE GeneratePhrase
  <2>1. At("phrase", {"create", "restore"}) /\ DoneBefore("empty_recovery")
        /\ typed' = typed /\ phrases' = phrases + 1
    BY <1>0, <1>10, AtPhrase DEF GeneratePhrase, history
  <2> DEFINE d == Done
             n == phrases + 1
  <2>2. op' = [d EXCEPT !.phrase = n]
    BY <1>10 DEF GeneratePhrase
  <2>3. d \in Operation /\ d.kind = op.kind /\ d.key = op.key /\ d.password = op.password
        /\ Program(op.kind, d.left)
    BY <2>1 DEF DoneBefore
  <2>4. n \in 1..phrases' /\ n \in {None} \cup Phrases
    BY <1>0, <2>1, LocalAccountAssumption DEF Types, Phrases
  <2> HIDE DEF d, n
  <2>5. op' \in Operation /\ op'.kind = d.kind /\ op'.key = d.key /\ op'.password = d.password
        /\ op'.left = d.left /\ op'.phrase = n
    BY <2>2, <2>3, <2>4 DEF Operation
  <2>6. Head(op'.left) \in HasPhrase
    BY <2>1, <2>5 DEF DoneBefore, HasPhrase, d
  <2>7. op.kind # "export"
    BY <2>1 DEF At
  <2>8. QED
    BY <1>0, <2>1, <2>3, <2>4, <2>5, <2>6, <2>7 DEF OperationSound, At
<1>11. CASE EmptyRecovery
  <2>1. At("empty_recovery", {"create", "restore"}) /\ DoneBefore("recovery")
        /\ op' = Done /\ typed' = typed /\ phrases' = phrases
    BY <1>0, <1>11, AtEmptyRecovery DEF EmptyRecovery, made, history
  <2>2. QED
    BY <1>0, <2>1, IdleFields DEF OperationSound, At, DoneBefore, HasPhrase
<1>12. CASE WriteRecovery
  <2>1. At("recovery", {"create", "restore"})
        /\ op' = Done /\ typed' = typed /\ phrases' = phrases
    BY <1>0, <1>12, AtRecovery DEF WriteRecovery, made, history
  <2>2. DoneBefore("show") \/ DoneBefore("texts")
    BY <1>0, <1>12, <2>1, AtRecovery DEF WriteRecovery, At
  <2>3. QED
    BY <1>0, <2>1, <2>2, IdleFields DEF OperationSound, At, DoneBefore, HasPhrase
<1>13. CASE RestoreText
  <2>1. At("texts", {"restore"}) /\ typed' = typed /\ phrases' = phrases
    BY <1>0, <1>13, AtTexts DEF RestoreText, made, history
  <2> DEFINE t == Tail(op.texts)
  <2>2. op.texts \in Seq(Nat) /\ op.texts # <<>> /\ op \in Operation
    BY <1>0, <1>13 DEF RestoreText, OperationSound, Operation
  <2>3. t \in Seq(Nat)
    BY <2>2
  <2>4. op' = [op EXCEPT !.texts = t]
    BY <1>13 DEF RestoreText
  <2> HIDE DEF t
  <2>5. op' \in Operation /\ op'.kind = op.kind /\ op'.key = op.key /\ op'.password = op.password
        /\ op'.left = op.left /\ op'.phrase = op.phrase
    BY <2>2, <2>3, <2>4 DEF Operation
  <2>6. QED
    BY <1>0, <2>1, <2>5, IdleFields DEF OperationSound, At, HasPhrase
<1>14. CASE AllRestored
  <2>1. At("texts", {"restore"}) /\ DoneBefore("show")
        /\ op' = Done /\ typed' = typed /\ phrases' = phrases
    BY <1>0, <1>14, AtTexts DEF AllRestored, made, history
  <2>2. QED
    BY <1>0, <2>1, IdleFields DEF OperationSound, At, DoneBefore, HasPhrase
<1>15. CASE Show
  <2>1. At("show", {"create", "restore"}) /\ typed' = typed /\ phrases' = phrases
        /\ (op' = Idle \/ (op' = Done /\ op.kind = "create" /\ DoneBefore("sign_in")))
    BY <1>0, <1>15, AtShow DEF Show, At, made
  <2>2. QED
    BY <1>0, <2>1, IdleFields DEF OperationSound, At, DoneBefore, HasPhrase
<1>16. CASE EnterWindow
  BY <1>16, IdleFields DEF EnterWindow, OperationSound
<1>17. CASE EmptyBackup
  <2>1. At("empty_backup", {"export"}) /\ DoneBefore("backup")
        /\ op' = Done /\ typed' = typed /\ phrases' = phrases
    BY <1>0, <1>17, AtEmptyBackup DEF EmptyBackup, made, history
  <2>2. QED
    BY <1>0, <2>1, IdleFields DEF OperationSound, At, DoneBefore, HasPhrase
<1>18. CASE WriteBackup
  BY <1>18, IdleFields DEF WriteBackup, OperationSound
<1>19. CASE CutShort
  BY <1>19, IdleFields DEF CutShort, OperationSound
<1>20. CASE UNCHANGED vars
  BY <1>0, <1>20 DEF OperationSound, vars, made, history
<1>21. QED
  BY <1>1, <1>2, <1>3, <1>4, <1>5, <1>6, <1>7, <1>8, <1>9, <1>10, <1>11, <1>12, <1>13, <1>14,
     <1>15, <1>16, <1>17, <1>18, <1>19, <1>20 DEF Next, Operate

LEMMA AppendedRow ==
  ASSUME NEW row \in [key: Keys, body: Nat],
         messages \in Seq([key: Keys, body: Nat]), messages' = Append(messages, row)
  PROVE  /\ Len(messages') = Len(messages) + 1 /\ Len(messages) \in Nat
         /\ \A i \in 1..Len(messages') :
              messages'[i] = IF i <= Len(messages) THEN messages[i] ELSE row
<1> DEFINE S == [key: Keys, body: Nat]
<1>1. messages \in Seq(S) /\ row \in S
  OBVIOUS
<1> HIDE DEF S
<1>2. QED
  BY <1>1

LEMMA RestTexts ==
  ASSUME OperationSound, op.texts # <<>>, NEW o, o = [op EXCEPT !.texts = Tail(@)]
  PROVE  /\ op.texts \in Seq(Nat) /\ Len(op.texts) \in Nat /\ Len(op.texts) >= 1
         /\ Head(op.texts) = op.texts[1] /\ Head(op.texts) \in Nat
         /\ o.texts = Tail(op.texts) /\ Len(o.texts) = Len(op.texts) - 1
         /\ \A i \in 1..Len(o.texts) : o.texts[i] = op.texts[i + 1]
         /\ o.kind = op.kind /\ o.left = op.left /\ o.key = op.key
         /\ o.password = op.password /\ o.phrase = op.phrase
<1>1. op.texts \in Seq(Nat) /\ op \in Operation
  BY DEF OperationSound, Operation
<1> DEFINE t == Tail(op.texts)
<1>2. t \in Seq(Nat) /\ Len(t) = Len(op.texts) - 1 /\ \A i \in 1..Len(t) : t[i] = op.texts[i + 1]
  BY <1>1
<1>3. o = [op EXCEPT !.texts = t]
  OBVIOUS
<1> HIDE DEF t
<1>4. o.texts = t /\ o.kind = op.kind /\ o.left = op.left /\ o.key = op.key
      /\ o.password = op.password /\ o.phrase = op.phrase
  BY <1>1, <1>3 DEF Operation
<1>5. QED
  BY <1>1, <1>2, <1>4 DEF t

\* The texts of the operation under way stay, or go.
LEMMA SameTexts ==
  ASSUME TypeInv, Operate, ~RestoreText
  PROVE  op'.texts = op.texts \/ op'.texts = <<>>
<1>0. OperationSound
  BY DEF TypeInv
<1>1. op' = Idle \/ op' = Done \/ op' = [Done EXCEPT !.phrase = phrases + 1]
  BY DEF Operate, EmptyIdentity, WriteIdentity, GeneratePhrase, EmptyRecovery,
         WriteRecovery, AllRestored, Show, EnterWindow, EmptyBackup, WriteBackup
<1> DEFINE l == Tail(op.left)
           n == phrases + 1
<1>2. Done = [op EXCEPT !.left = l]
  BY DEF Done
<1> HIDE DEF l, n
<1>3. op \in Operation
  BY <1>0 DEF OperationSound
<1>4. Done.texts = op.texts /\ [Done EXCEPT !.phrase = n].texts = op.texts
  BY <1>2, <1>3 DEF Operation
<1>5. QED
  BY <1>1, <1>4, IdleFields DEF n

LEMMA BodiesStep == TypeInv /\ [Next]_vars => BodiesKnown'
<1> SUFFICES ASSUME TypeInv, [Next]_vars PROVE BodiesKnown'
  OBVIOUS
<1>0. Types /\ OperationSound /\ BodiesKnown /\ Types'
  BY TypesStep DEF TypeInv
<1>t. <<>> \in Seq(Nat) /\ None \in {None} \cup BackupFiles /\ Len(<<>>) = 0
  BY DEF None
<1>1. ASSUME NEW p \in Passwords, Create(p) PROVE BodiesKnown'
  <2>1. op'.texts = <<>>
    BY <1>0, <1>1, CreateBegun DEF Begun
  <2>2. QED
    BY <1>0, <1>1, <2>1, <1>t DEF BodiesKnown, Create, files
<1>2. ASSUME NEW p \in Passwords, SignIn(p) PROVE BodiesKnown'
  BY <1>0, <1>2 DEF SignIn, BodiesKnown, files, made
<1>3. ASSUME NEW n \in Phrases, NEW p \in Passwords, ForgotPassword(n, p) PROVE BodiesKnown'
  <2>1. op'.texts = <<>>
    BY <1>0, <1>3, ResetBegun DEF Begun
  <2>2. QED
    BY <1>0, <1>3, <2>1, <1>t DEF BodiesKnown, ForgotPassword, files, made
<1>4. ASSUME NEW f \in BackupFiles, NEW b \in Passwords, NEW p \in Passwords, Restore(f, b, p)
      PROVE  BodiesKnown'
  <2>1. op'.texts = backups[f].texts
    BY <1>0, <1>4, RestoreBegun DEF Begun
  <2>2. QED
    BY <1>0, <1>4, <2>1 DEF BodiesKnown, Restore, files, made
<1>5. ASSUME NEW f \in BackupFiles, NEW p \in Passwords, Export(f, p) PROVE BodiesKnown'
  <2>1. op'.texts = Texts(messages)
    BY <1>0, <1>5, ExportBegun DEF Begun
  <2>2. \A i \in 1..Len(op'.texts) : op'.texts[i] \in 1..bodies
    BY <1>0, <2>1, TextsOf DEF BodiesKnown, Types
  <2>3. QED
    BY <1>0, <1>5, <2>2 DEF BodiesKnown, Export, files, made
<1>6. CASE SaveMessage
  <2>1. session \in Keys /\ bodies \in Nat
    BY <1>0, <1>6, LocalAccountAssumption DEF SaveMessage, Types
  <2> DEFINE row == Row(session, bodies + 1)
  <2>2. row \in [key: Keys, body: Nat] /\ row.body = bodies + 1
    BY <2>1, RowTyped
  <2>3. messages' = Append(messages, row) /\ bodies' = bodies + 1
        /\ UNCHANGED <<backups, op>>
    BY <1>6 DEF SaveMessage
  <2> HIDE DEF row
  <2>4. /\ Len(messages') = Len(messages) + 1 /\ Len(messages) \in Nat
        /\ \A i \in 1..Len(messages') :
              messages'[i] = IF i <= Len(messages) THEN messages[i] ELSE row
    BY <1>0, <2>2, <2>3, AppendedRow DEF Types
  <2>5. 1..bodies \subseteq 1..bodies' /\ bodies + 1 \in 1..bodies'
    BY <2>1, <2>3
  <2>6. \A i \in 1..Len(messages') : messages'[i].body \in 1..bodies'
    <3>1. TAKE i \in 1..Len(messages')
    <3>2. CASE i <= Len(messages)
      <4>1. i \in 1..Len(messages) /\ messages'[i] = messages[i]
        BY <2>4, <3>2
      <4>2. QED
        BY <1>0, <2>5, <4>1 DEF BodiesKnown
    <3>3. CASE ~(i <= Len(messages))
      BY <2>2, <2>4, <2>5, <3>3
    <3>4. QED
      BY <3>2, <3>3
  <2>7. QED
    BY <1>0, <2>3, <2>5, <2>6 DEF BodiesKnown
<1>7. CASE SignOut
  BY <1>0, <1>7 DEF SignOut, BodiesKnown, files, made, history
<1>8. CASE RestoreText
  <2>1. op.texts # <<>> /\ op' = [op EXCEPT !.texts = Tail(@)]
        /\ bodies' = bodies /\ backups' = backups
        /\ messages' = Append(messages, Row(op.key, Head(op.texts)))
    BY <1>8 DEF RestoreText, made
  <2>2. op.key \in Keys
    BY <1>0, <1>8, AtTexts DEF RestoreText, At
  <2>3. /\ Len(op.texts) \in Nat /\ Len(op.texts) >= 1
        /\ Head(op.texts) = op.texts[1] /\ Head(op.texts) \in Nat
        /\ Len(op'.texts) = Len(op.texts) - 1
        /\ \A i \in 1..Len(op'.texts) : op'.texts[i] = op.texts[i + 1]
    BY <1>0, <2>1, RestTexts
  <2>4. Head(op.texts) \in 1..bodies
    BY <1>0, <2>3 DEF BodiesKnown
  <2> DEFINE row == Row(op.key, Head(op.texts))
  <2>5. row \in [key: Keys, body: Nat] /\ row.body = Head(op.texts)
    BY <2>2, <2>3, RowTyped
  <2>6. messages' = Append(messages, row)
    BY <2>1
  <2> HIDE DEF row
  <2>7. /\ Len(messages') = Len(messages) + 1 /\ Len(messages) \in Nat
        /\ \A i \in 1..Len(messages') :
              messages'[i] = IF i <= Len(messages) THEN messages[i] ELSE row
    BY <1>0, <2>5, <2>6, AppendedRow DEF Types
  <2>8. \A i \in 1..Len(messages') : messages'[i].body \in 1..bodies
    <3>1. TAKE i \in 1..Len(messages')
    <3>2. CASE i <= Len(messages)
      <4>1. i \in 1..Len(messages) /\ messages'[i] = messages[i]
        BY <2>7, <3>2
      <4>2. QED
        BY <1>0, <4>1 DEF BodiesKnown
    <3>3. CASE ~(i <= Len(messages))
      BY <2>4, <2>5, <2>7, <3>3
    <3>4. QED
      BY <3>2, <3>3
  <2>9. \A i \in 1..Len(op'.texts) : op'.texts[i] \in 1..bodies
    <3>1. \A i \in 1..Len(op'.texts) : i + 1 \in 1..Len(op.texts)
      BY <2>3
    <3>2. QED
      BY <1>0, <2>3, <3>1 DEF BodiesKnown
  <2>10. QED
    BY <1>0, <2>1, <2>8, <2>9 DEF BodiesKnown
<1>9. CASE EmptyBackup
  <2> DEFINE b == Bundle(Torn, <<>>)
  <2>1. backups' = [backups EXCEPT ![op.file] = b] /\ b.texts = <<>>
        /\ messages' = messages /\ bodies' = bodies
    BY <1>9 DEF EmptyBackup, made, Bundle
  <2>2. op'.texts = op.texts \/ op'.texts = <<>>
    BY <1>9, SameTexts DEF Operate, EmptyBackup, RestoreText, NextIs
  <2> HIDE DEF b
  <2>3. QED
    BY <1>0, <2>1, <2>2, <1>t DEF BodiesKnown, Types
<1>10. CASE WriteBackup
  <2> DEFINE b == Bundle(Blob(op.password, op.key), op.texts)
  <2>1. backups' = [backups EXCEPT ![op.file] = b] /\ b.texts = op.texts
        /\ messages' = messages /\ bodies' = bodies /\ op' = Idle
    BY <1>10 DEF WriteBackup, made, Bundle
  <2> HIDE DEF b
  <2>2. QED
    BY <1>0, <2>1, IdleFields DEF BodiesKnown, Types
<1>11. CASE Operate /\ ~RestoreText /\ ~EmptyBackup /\ ~WriteBackup
  <2>1. op'.texts = op.texts \/ op'.texts = <<>>
    BY <1>11, SameTexts
  <2>2. UNCHANGED <<messages, backups, bodies>>
    BY <1>11 DEF Operate, EmptyIdentity, WriteIdentity, GeneratePhrase, EmptyRecovery,
         WriteRecovery, AllRestored, Show, EnterWindow, files, made
  <2>3. QED
    BY <1>0, <2>1, <2>2, <1>t DEF BodiesKnown
<1>12. CASE CutShort
  BY <1>0, <1>12, IdleFields DEF CutShort, BodiesKnown, files, made
<1>13. CASE UNCHANGED vars
  BY <1>0, <1>13 DEF BodiesKnown, vars, files, made
<1>14. QED
  BY <1>1, <1>2, <1>3, <1>4, <1>5, <1>6, <1>7, <1>8, <1>9, <1>10, <1>11, <1>12, <1>13 DEF Next

LEMMA TypeStep == TypeInv /\ [Next]_vars => TypeInv'
BY TypesStep, OperationStep, BodiesStep DEF TypeInv

----------------------------------------------------------------------------
(* The way in *)

\* What the files and the histories may do in a step.
LEMMA Untouched ==
  ASSUME [Next]_vars
  PROVE  /\ identity' = identity \/ EmptyIdentity \/ WriteIdentity
         /\ recovery' = recovery \/ EmptyRecovery \/ WriteRecovery
         /\ backups' = backups \/ EmptyBackup \/ WriteBackup
         /\ typed \subseteq typed' /\ read \subseteq read'
         /\ settled \subseteq settled' /\ cut \subseteq cut'
<1>1. ASSUME NEW p \in Passwords, Create(p) \/ SignIn(p) PROVE Untouched!2
  BY <1>1 DEF Create, SignIn, files, made, history, Chosen
<1>2. ASSUME NEW n \in Phrases, NEW p \in Passwords, ForgotPassword(n, p) PROVE Untouched!2
  BY <1>2 DEF ForgotPassword, files, made, history, Chosen
<1>3. ASSUME NEW f \in BackupFiles, NEW b \in Passwords, NEW p \in Passwords, Restore(f, b, p)
      PROVE  Untouched!2
  BY <1>3 DEF Restore, files, made, history, Chosen
<1>4. ASSUME NEW f \in BackupFiles, NEW p \in Passwords, Export(f, p) PROVE Untouched!2
  BY <1>4 DEF Export, files, made, history, Chosen
<1>5. CASE SaveMessage \/ SignOut
  BY <1>5 DEF SaveMessage, SignOut, files, made, history
<1>6. CASE Operate
  BY <1>6 DEF Operate, EmptyIdentity, WriteIdentity, GeneratePhrase, EmptyRecovery, WriteRecovery,
     RestoreText, AllRestored, Show, EnterWindow, EmptyBackup, WriteBackup, files, made, history
<1>7. CASE CutShort
  BY <1>7 DEF CutShort, files, made
<1>8. CASE UNCHANGED vars
  BY <1>8 DEF vars, files, made, history
<1>9. QED
  BY <1>1, <1>2, <1>3, <1>4, <1>5, <1>6, <1>7, <1>8 DEF Next

LEMMA StillOpens ==
  ASSUME NEW file, NEW secrets, NEW more, secrets \subseteq more, OpensWith(file, secrets)
  PROVE  OpensWith(file, more)
BY DEF OpensWith

LEMMA PasswordsStep == TypeInv /\ PasswordsTyped /\ [Next]_vars => PasswordsTyped'
<1> SUFFICES ASSUME TypeInv, PasswordsTyped, [Next]_vars PROVE PasswordsTyped'
  OBVIOUS
<1>0. Types /\ OperationSound /\ typed \subseteq typed'
  BY Untouched DEF TypeInv
<1>1. identity'.state = "whole" => identity'.secret \in typed'
  <2>1. CASE identity' = identity
    BY <1>0, <2>1 DEF PasswordsTyped
  <2>2. CASE EmptyIdentity
    BY <2>2, Blobby DEF EmptyIdentity
  <2>3. CASE WriteIdentity
    <3>1. identity' = Blob(op.password, op.key) /\ op.password \in typed
      BY <1>0, <2>3, AtIdentity DEF WriteIdentity, At
    <3>2. QED
      BY <1>0, <3>1 DEF Blob
  <2>4. QED
    BY <2>1, <2>2, <2>3, Untouched
<1>2. \A f \in BackupFiles : backups'[f].blob.state = "whole" => backups'[f].blob.secret \in typed'
  <2>1. CASE backups' = backups
    BY <1>0, <2>1 DEF PasswordsTyped
  <2>2. CASE EmptyBackup
    <3>1. backups' = [backups EXCEPT ![op.file] = Bundle(Torn, <<>>)] /\ Torn.state # "whole"
      BY <2>2, Blobby DEF EmptyBackup
    <3>2. Bundle(Torn, <<>>).blob = Torn
      BY DEF Bundle
    <3>3. QED
      BY <1>0, <3>1, <3>2 DEF PasswordsTyped, Types
  <2>3. CASE WriteBackup
    <3> DEFINE blob == Blob(op.password, op.key)
               b == Bundle(blob, op.texts)
    <3>1. backups' = [backups EXCEPT ![op.file] = b] /\ op.password \in typed
      BY <1>0, <2>3, AtBackup DEF WriteBackup, At
    <3>2. b.blob = blob /\ blob.secret = op.password
      BY DEF Bundle, Blob
    <3> HIDE DEF b, blob
    <3>3. QED
      BY <1>0, <3>1, <3>2 DEF PasswordsTyped, Types
  <2>4. QED
    BY <2>1, <2>2, <2>3, Untouched
<1>3. QED
  BY <1>1, <1>2 DEF PasswordsTyped

\* While an operation of the sign-in screen is under way nobody is signed in.
LEMMA SessionStep ==
  TypeInv /\ SessionSound /\ Stage /\ [Next]_vars => SessionSound'
<1> SUFFICES ASSUME TypeInv, SessionSound, Stage, [Next]_vars PROVE SessionSound'
  OBVIOUS
<1>0. Types /\ OperationSound
  BY DEF TypeInv
<1>1. ASSUME NEW p \in Passwords, Create(p) PROVE SessionSound'
  <2>1. op'.kind = "create" /\ session' = None
    BY <1>0, <1>1, CreateBegun DEF Begun, Create, SignInScreen
  <2>2. QED
    BY <2>1 DEF SessionSound
<1>2. ASSUME NEW p \in Passwords, SignIn(p) PROVE SessionSound'
  BY <1>0, <1>2, IdleFields DEF SignIn, SignInScreen, SessionSound, files
<1>3. ASSUME NEW n \in Phrases, NEW p \in Passwords, ForgotPassword(n, p) PROVE SessionSound'
  <2>1. op'.kind = "reset" /\ session' = None
    BY <1>0, <1>3, ResetBegun DEF Begun, ForgotPassword, SignInScreen
  <2>2. QED
    BY <2>1 DEF SessionSound
<1>4. ASSUME NEW f \in BackupFiles, NEW b \in Passwords, NEW p \in Passwords, Restore(f, b, p)
      PROVE  SessionSound'
  <2>1. op'.kind = "restore" /\ session' = None
    BY <1>0, <1>4, RestoreBegun DEF Begun, Restore, SignInScreen
  <2>2. QED
    BY <2>1 DEF SessionSound
<1>5. ASSUME NEW f \in BackupFiles, NEW p \in Passwords, Export(f, p) PROVE SessionSound'
  <2>1. op'.kind = "export" /\ op'.key = session /\ UNCHANGED <<session, identity, settled>>
    BY <1>0, <1>5, ExportBegun DEF Begun, Export, files
  <2>2. QED
    BY <2>1 DEF SessionSound
<1>6. CASE SaveMessage
  BY <1>6 DEF SaveMessage, SessionSound, history
<1>7. CASE SignOut
  BY <1>7, IdleFields DEF SignOut, SessionSound
<1>8. CASE EmptyIdentity \/ WriteIdentity
  <2>1. op.kind \in {"create", "reset", "restore"} /\ op' = Done /\ Done.kind = op.kind
        /\ session' = session
    BY <1>0, <1>8, AtEmptyIdentity, AtIdentity
    DEF EmptyIdentity, WriteIdentity, At, DoneBefore
  <2>2. QED
    BY <2>1 DEF SessionSound
<1>9. CASE GeneratePhrase \/ EmptyRecovery \/ WriteRecovery \/ RestoreText \/ AllRestored \/ Show
  <2>1. op.kind \in {"create", "restore"} /\ session' = session
    BY <1>0, <1>9, AtPhrase, AtEmptyRecovery, AtRecovery, AtTexts, AtShow
    DEF GeneratePhrase, EmptyRecovery, WriteRecovery, RestoreText, AllRestored, Show, At
  <2>2. op' = Idle \/ op'.kind \in {"create", "restore"}
    <3>1. CASE GeneratePhrase
      <4> DEFINE n == phrases + 1
      <4>1. Done \in Operation /\ Done.kind = op.kind /\ op' = [Done EXCEPT !.phrase = n]
        BY <1>0, <3>1, AtPhrase DEF GeneratePhrase, DoneBefore
      <4> HIDE DEF n
      <4>2. QED
        BY <2>1, <4>1 DEF Operation
    <3>2. CASE RestoreText
      <4>1. op.texts # <<>> /\ op' = [op EXCEPT !.texts = Tail(@)]
        BY <3>2 DEF RestoreText
      <4>2. QED
        BY <1>0, <2>1, <4>1, RestTexts
    <3>3. CASE EmptyRecovery \/ WriteRecovery \/ AllRestored \/ Show
      BY <1>0, <2>1, <3>3, AtEmptyRecovery, AtRecovery, AtTexts, AtShow
      DEF EmptyRecovery, WriteRecovery, AllRestored, Show, DoneBefore, At
    <3>4. QED
      BY <1>9, <3>1, <3>2, <3>3
  <2>3. QED
    BY <2>1, <2>2, IdleFields DEF SessionSound
<1>10. CASE EnterWindow
  <2>1. At("sign_in", {"create", "reset"})
    BY <1>0, <1>10, AtSignIn DEF EnterWindow
  <2>2. identity = Blob(op.password, op.key)
    BY <2>1 DEF Stage, At, Written
  <2>3. identity.key = op.key
    BY <2>2 DEF Blob
  <2>4. QED
    BY <1>10, <2>3, IdleFields DEF EnterWindow, SessionSound, files
<1>11. CASE EmptyBackup \/ WriteBackup
  <2>1. op.kind = "export" /\ UNCHANGED <<session, identity, settled>>
        /\ (op' = Idle \/ (op'.kind = "export" /\ op'.key = op.key))
    BY <1>0, <1>11, AtEmptyBackup, AtBackup
    DEF EmptyBackup, WriteBackup, DoneBefore, At, history
  <2>2. QED
    BY <2>1, IdleFields DEF SessionSound
<1>12. CASE CutShort
  BY <1>12, IdleFields DEF CutShort, SessionSound
<1>13. CASE UNCHANGED vars
  BY <1>13 DEF SessionSound, vars, files, history
<1>14. QED
  BY <1>1, <1>2, <1>3, <1>4, <1>5, <1>6, <1>7, <1>8, <1>9, <1>10, <1>11, <1>12, <1>13
  DEF Next, Operate

LEMMA PhraseDone ==
  ASSUME OperationSound, GeneratePhrase
  PROVE  /\ op.kind \in {"create", "restore"} /\ Head(op.left) = "phrase"
         /\ op'.kind = op.kind /\ op'.key = op.key /\ op'.password = op.password
         /\ Head(op'.left) = "empty_recovery"
<1> DEFINE n == phrases + 1
<1>1. Done \in Operation /\ op' = [Done EXCEPT !.phrase = n]
      /\ Done.kind = op.kind /\ Done.key = op.key /\ Done.password = op.password
      /\ Head(Done.left) = "empty_recovery"
  BY AtPhrase DEF GeneratePhrase, DoneBefore
<1>2. op.kind \in {"create", "restore"} /\ Head(op.left) = "phrase"
  BY AtPhrase DEF GeneratePhrase, At
<1> HIDE DEF n
<1>3. QED
  BY <1>1, <1>2 DEF Operation

LEMMA UnusedStep ==
  TypeInv /\ SessionSound /\ Unused /\ Stage /\ [Next]_vars => Unused'
<1> SUFFICES ASSUME TypeInv, SessionSound, Unused, Stage, [Next]_vars PROVE Unused'
  OBVIOUS
<1>0. Types /\ OperationSound
  BY DEF TypeInv
<1>1. ASSUME NEW p \in Passwords, Create(p) PROVE Unused'
  BY <1>1 DEF Create, Unused, files
<1>2. ASSUME NEW p \in Passwords, SignIn(p) PROVE Unused'
  <2>1. Exists(identity') /\ op' = Idle
    BY <1>2 DEF SignIn, SignInScreen, Opens, Exists, files
  <2>2. QED
    BY <2>1, IdleFields DEF Unused, Exists
<1>3. ASSUME NEW n \in Phrases, NEW p \in Passwords, ForgotPassword(n, p) PROVE Unused'
  <2>1. op'.kind = "reset" /\ UNCHANGED <<identity, recovery, settled>>
    BY <1>0, <1>3, ResetBegun DEF Begun, ForgotPassword, files
  <2>2. QED
    BY <2>1 DEF Unused, Exists
<1>4. ASSUME NEW f \in BackupFiles, NEW b \in Passwords, NEW p \in Passwords, Restore(f, b, p)
      PROVE  Unused'
  <2>1. op'.kind = "restore" /\ UNCHANGED <<identity, recovery, settled>>
    BY <1>0, <1>4, RestoreBegun DEF Begun, Restore, files
  <2>2. QED
    BY <2>1 DEF Unused, Exists
<1>5. ASSUME NEW f \in BackupFiles, NEW p \in Passwords, Export(f, p) PROVE Unused'
  <2>1. op'.kind = "export" /\ UNCHANGED <<identity, recovery, settled>>
    BY <1>0, <1>5, ExportBegun DEF Begun, Export, files
  <2>2. QED
    BY <2>1 DEF Unused, Exists
<1>6. CASE SaveMessage \/ SignOut
  BY <1>6 DEF SaveMessage, SignOut, Unused, Exists, files, history
<1>7. CASE EmptyIdentity \/ WriteIdentity
  <2>1. Exists(identity')
    BY <1>7 DEF EmptyIdentity, WriteIdentity, Exists, Torn, Blob
  <2>2. op'.kind = op.kind /\ settled' = settled
    BY <1>0, <1>7, AtEmptyIdentity, AtIdentity
    DEF EmptyIdentity, WriteIdentity, DoneBefore, At, history
  <2>3. QED
    BY <2>1, <2>2 DEF Unused, Exists
<1>8. CASE EmptyRecovery \/ WriteRecovery
  <2>1. op.kind \in {"create", "restore"} /\ Head(op.left) \in Written /\ op'.kind = op.kind
        /\ settled' = settled /\ identity' = identity
    BY <1>0, <1>8, AtEmptyRecovery, AtRecovery
    DEF EmptyRecovery, WriteRecovery, DoneBefore, At, Written, history
  <2>2. identity = Blob(op.password, op.key)
    BY <2>1 DEF Stage
  <2>3. Exists(identity')
    BY <2>1, <2>2 DEF Blob, Exists
  <2>4. QED
    BY <2>1, <2>3 DEF Unused, Exists
<1>9. CASE GeneratePhrase \/ RestoreText \/ AllRestored \/ Show \/ EmptyBackup \/ WriteBackup
  <2>1. UNCHANGED <<identity, recovery, settled>>
    BY <1>9 DEF GeneratePhrase, RestoreText, AllRestored, Show, EmptyBackup, WriteBackup,
       files, history
  <2>2. op'.kind = op.kind \/ op'.kind = "none"
    <3>1. CASE GeneratePhrase
      BY <1>0, <3>1, PhraseDone
    <3>2. CASE RestoreText
      <4>1. op.texts # <<>> /\ op' = [op EXCEPT !.texts = Tail(@)]
        BY <3>2 DEF RestoreText
      <4>2. QED
        BY <1>0, <4>1, RestTexts
    <3>3. CASE AllRestored \/ Show \/ EmptyBackup \/ WriteBackup
      BY <1>0, <3>3, AtTexts, AtShow, AtEmptyBackup, AtBackup, IdleFields
      DEF AllRestored, Show, EmptyBackup, WriteBackup, DoneBefore, At
    <3>4. QED
      BY <1>9, <3>1, <3>2, <3>3
  <2>3. QED
    BY <2>1, <2>2 DEF Unused, Exists
<1>10. CASE EnterWindow
  <2>1. At("sign_in", {"create", "reset"})
    BY <1>0, <1>10, AtSignIn DEF EnterWindow
  <2>2. identity = Blob(op.password, op.key)
    BY <2>1 DEF Stage, At, Written
  <2>3. Exists(identity') /\ op' = Idle
    BY <1>10, <2>2 DEF EnterWindow, Blob, Exists, files
  <2>4. QED
    BY <2>3, IdleFields DEF Unused, Exists
<1>11. CASE CutShort
  BY <1>11, IdleFields DEF CutShort, Unused, Exists, files
<1>12. CASE UNCHANGED vars
  BY <1>12 DEF Unused, Exists, vars, files, history
<1>13. QED
  BY <1>1, <1>2, <1>3, <1>4, <1>5, <1>6, <1>7, <1>8, <1>9, <1>10, <1>11, <1>12
  DEF Next, Operate

\* The stage of an operation that is not under way.
LEMMA NoStage == op' = Idle \/ op'.kind = "export" => Stage'
BY IdleFields DEF Stage

LEMMA StageStep ==
  TypeInv /\ PasswordsTyped /\ SessionSound /\ Stage /\ [Next]_vars => Stage'
<1> SUFFICES ASSUME TypeInv, PasswordsTyped, SessionSound, Stage, [Next]_vars PROVE Stage'
  OBVIOUS
<1>0. Types /\ OperationSound
  BY DEF TypeInv
<1>1. ASSUME NEW p \in Passwords, Create(p) PROVE Stage'
  <2>1. op'.kind = "create" /\ Head(op'.left) = "empty_identity"
    BY <1>0, <1>1, CreateBegun DEF Begun
  <2>2. QED
    BY <2>1 DEF Stage, Written
<1>2. ASSUME NEW p \in Passwords, SignIn(p) PROVE Stage'
  BY <1>2, NoStage DEF SignIn, SignInScreen
<1>3. ASSUME NEW n \in Phrases, NEW p \in Passwords, ForgotPassword(n, p) PROVE Stage'
  <2>1. op'.kind = "reset" /\ Head(op'.left) = "empty_identity" /\ op'.key = recovery.key
        /\ recovery' = recovery /\ read' = read
    BY <1>0, <1>3, ResetBegun DEF Begun, ForgotPassword, files
  <2>2. OpensWith(recovery, read)
    BY <1>3 DEF ForgotPassword, OpensWith
  <2>3. QED
    BY <2>1, <2>2 DEF Stage, Written, OpensWith
<1>4. ASSUME NEW f \in BackupFiles, NEW b \in Passwords, NEW p \in Passwords, Restore(f, b, p)
      PROVE  Stage'
  <2>1. op'.kind = "restore" /\ Head(op'.left) = "empty_identity"
        /\ op'.key = backups[f].blob.key /\ backups' = backups /\ typed \subseteq typed'
    BY <1>0, <1>4, RestoreBegun DEF Begun, Restore, files, Chosen
  <2>2. Opens(backups[f].blob, backups[f].blob.secret) /\ backups[f].blob.secret \in typed
    BY <1>4 DEF Restore, Restorable, Opens, PasswordsTyped
  <2>3. BackedUp(op.key)'
    BY <2>1, <2>2 DEF BackedUp, OpensWith
  <2>4. QED
    BY <2>1, <2>3 DEF Stage, Written
<1>5. ASSUME NEW f \in BackupFiles, NEW p \in Passwords, Export(f, p) PROVE Stage'
  <2>1. op'.kind = "export"
    BY <1>0, <1>5, ExportBegun DEF Begun
  <2>2. QED
    BY <2>1, NoStage
<1>6. CASE SaveMessage
  BY <1>0, <1>6 DEF SaveMessage, SessionSound, Stage
<1>7. CASE SignOut
  BY <1>7, NoStage DEF SignOut
<1>8. CASE EmptyIdentity
  <2>1. At("empty_identity", {"create", "reset", "restore"}) /\ DoneBefore("identity")
        /\ op' = Done /\ UNCHANGED <<recovery, backups, typed, read>>
    BY <1>0, <1>8, AtEmptyIdentity DEF EmptyIdentity, history
  <2>2. op.kind = "restore" => BackedUp(op.key)'
    BY <2>1 DEF Stage, DoneBefore, BackedUp, OpensWith
  <2>3. QED
    BY <2>1, <2>2 DEF Stage, Written, DoneBefore, At, OpensWith
<1>9. CASE WriteIdentity
  <2>1. At("identity", {"create", "reset", "restore"}) /\ identity' = Blob(op.password, op.key)
        /\ op' = Done /\ UNCHANGED <<recovery, backups, typed, read>>
        /\ (op.kind = "reset" => DoneBefore("sign_in"))
        /\ (op.kind # "reset" => DoneBefore("phrase"))
    BY <1>0, <1>9, AtIdentity DEF WriteIdentity, history
  <2>2. op.kind = "restore" => BackedUp(op.key)'
    BY <2>1 DEF Stage, DoneBefore, BackedUp, OpensWith
  <2>3. QED
    BY <2>1, <2>2 DEF Stage, Written, DoneBefore, At, OpensWith
<1>10. CASE GeneratePhrase
  <2>1. UNCHANGED <<identity, recovery, backups, typed, read>>
    BY <1>10 DEF GeneratePhrase, files, history
  <2>2. op.kind = "restore" => BackedUp(op.key)'
    BY <1>0, <1>10, <2>1, PhraseDone DEF Stage, BackedUp, OpensWith
  <2>3. QED
    BY <1>0, <1>10, <2>1, <2>2, PhraseDone DEF Stage, Written
<1>11. CASE EmptyRecovery
  <2>1. At("empty_recovery", {"create", "restore"}) /\ DoneBefore("recovery")
        /\ op' = Done /\ UNCHANGED <<identity, backups, typed, read>>
    BY <1>0, <1>11, AtEmptyRecovery DEF EmptyRecovery, history
  <2>2. op.kind = "restore" => BackedUp(op.key)'
    BY <2>1 DEF Stage, DoneBefore, BackedUp, OpensWith
  <2>3. QED
    BY <2>1, <2>2 DEF Stage, Written, DoneBefore, At
<1>12. CASE WriteRecovery
  <2>1. At("recovery", {"create", "restore"}) /\ recovery' = Blob(op.phrase, op.key)
        /\ op' = Done /\ UNCHANGED <<identity, backups, typed, read>>
        /\ (op.kind = "create" => DoneBefore("show"))
        /\ (op.kind = "restore" => DoneBefore("texts"))
    BY <1>0, <1>12, AtRecovery DEF WriteRecovery, history
  <2>2. op.kind = "restore" => BackedUp(op.key)'
    BY <2>1 DEF Stage, DoneBefore, BackedUp, OpensWith
  <2>3. QED
    BY <2>1, <2>2 DEF Stage, Written, DoneBefore, At
<1>13. CASE RestoreText
  <2>1. op.texts # <<>> /\ op' = [op EXCEPT !.texts = Tail(@)]
        /\ UNCHANGED <<identity, recovery, backups, typed, read>>
    BY <1>13 DEF RestoreText, history
  <2>2. op'.kind = op.kind /\ op'.left = op.left /\ op'.key = op.key
        /\ op'.password = op.password /\ op'.phrase = op.phrase
    BY <1>0, <2>1, RestTexts
  <2>3. op.kind = "restore" => BackedUp(op.key)'
    BY <2>1, <2>2 DEF Stage, BackedUp, OpensWith
  <2>4. QED
    BY <2>1, <2>2, <2>3 DEF Stage
<1>14. CASE AllRestored
  <2>1. At("texts", {"restore"}) /\ DoneBefore("show")
        /\ op' = Done /\ UNCHANGED <<identity, recovery, backups, typed, read>>
    BY <1>0, <1>14, AtTexts DEF AllRestored, files, history
  <2>2. op.kind = "restore" => BackedUp(op.key)'
    BY <2>1 DEF Stage, DoneBefore, BackedUp, OpensWith
  <2>3. QED
    BY <2>1, <2>2 DEF Stage, Written, DoneBefore, At
<1>15. CASE Show
  <2>1. CASE op.kind = "create"
    <3>1. At("show", {"create", "restore"}) /\ op' = Done /\ DoneBefore("sign_in")
          /\ UNCHANGED <<identity, recovery>> /\ op.phrase \in read'
      BY <1>0, <1>15, <2>1, AtShow DEF Show, files
    <3>2. QED
      BY <2>1, <3>1 DEF Stage, Written, DoneBefore, At
  <2>2. CASE op.kind # "create"
    BY <1>0, <1>15, <2>2, AtShow, NoStage DEF Show, At
  <2>3. QED
    BY <2>1, <2>2
<1>16. CASE EnterWindow \/ WriteBackup \/ CutShort
  BY <1>16, NoStage DEF EnterWindow, WriteBackup, CutShort
<1>17. CASE EmptyBackup
  BY <1>0, <1>17, AtEmptyBackup, NoStage DEF EmptyBackup, DoneBefore, At
<1>18. CASE UNCHANGED vars
  BY <1>18 DEF Stage, BackedUp, OpensWith, vars, files, history
<1>19. QED
  BY <1>1, <1>2, <1>3, <1>4, <1>5, <1>6, <1>7, <1>8, <1>9, <1>10, <1>11, <1>12, <1>13, <1>14,
     <1>15, <1>16, <1>17, <1>18 DEF Next, Operate

\* A step is taken for the same key, or ends the operation.
LEMMA SameKey ==
  ASSUME TypeInv, Operate
  PROVE  op'.key = op.key \/ op' = Idle
<1>0. OperationSound
  BY DEF TypeInv
<1>1. CASE GeneratePhrase
  BY <1>0, <1>1, PhraseDone
<1>2. CASE RestoreText
  <2>1. op.texts # <<>> /\ op' = [op EXCEPT !.texts = Tail(@)]
    BY <1>2 DEF RestoreText
  <2>2. QED
    BY <1>0, <2>1, RestTexts
<1>3. CASE op' = Done
  <2> DEFINE t == Tail(op.left)
  <2>1. op \in Operation /\ op' = [op EXCEPT !.left = t]
    BY <1>0, <1>3 DEF OperationSound, Done
  <2> HIDE DEF t
  <2>2. QED
    BY <2>1 DEF Operation
<1>4. QED
  BY <1>1, <1>2, <1>3
  DEF Operate, EmptyIdentity, WriteIdentity, EmptyRecovery, WriteRecovery,
      AllRestored, Show, EnterWindow, EmptyBackup, WriteBackup

LEMMA CurrentStep ==
  TypeInv /\ SessionSound /\ Unused /\ Stage /\ Current /\ [Next]_vars => Current'
<1> SUFFICES ASSUME TypeInv, SessionSound, Unused, Stage, Current, [Next]_vars PROVE Current'
  OBVIOUS
<1>0. Types /\ OperationSound
  BY DEF TypeInv
<1>i. ASSUME UNCHANGED <<identity, settled, displaced>>, ~Rewriting' PROVE Current'
  BY <1>i DEF Current, Here
<1>1. ASSUME NEW p \in Passwords, Create(p) PROVE Current'
  <2>1. settled' = {}
    BY <1>1 DEF Create, Unused
  <2>2. QED
    BY <2>1 DEF Current, Here
<1>2. ASSUME NEW p \in Passwords, SignIn(p) PROVE Current'
  <2>1. /\ identity' = identity /\ identity.key \in Keys /\ op' = Idle
        /\ Here' \subseteq Here \cup {identity.key}
    BY <1>0, <1>2 DEF SignIn, SignInScreen, Opens, Types, Blobs, KeyIfWhole, files, Here
  <2>2. QED
    BY <2>1, IdleFields DEF Current, Rewriting, Keys, None
<1>3. ASSUME NEW n \in Phrases, NEW p \in Passwords, ForgotPassword(n, p) PROVE Current'
  <2>1. Head(op'.left) = "empty_identity" /\ UNCHANGED <<identity, settled, displaced>>
    BY <1>0, <1>3, ResetBegun DEF Begun, ForgotPassword, files
  <2>2. QED
    BY <1>i, <2>1 DEF Rewriting
<1>4. ASSUME NEW f \in BackupFiles, NEW b \in Passwords, NEW p \in Passwords, Restore(f, b, p)
      PROVE  Current'
  <2>1. Head(op'.left) = "empty_identity" /\ UNCHANGED <<identity, settled, displaced>>
    BY <1>0, <1>4, RestoreBegun DEF Begun, Restore, files
  <2>2. QED
    BY <1>i, <2>1 DEF Rewriting
<1>5. ASSUME NEW f \in BackupFiles, NEW p \in Passwords, Export(f, p) PROVE Current'
  <2>1. op'.kind = "export" /\ UNCHANGED <<identity, settled, displaced>>
    BY <1>0, <1>5, ExportBegun DEF Begun, Export, files
  <2>2. QED
    BY <1>i, <2>1 DEF Rewriting
<1>6. CASE SaveMessage \/ SignOut
  BY <1>6 DEF SaveMessage, SignOut, Current, Rewriting, Here, files, history
<1>7. CASE EmptyIdentity
  <2>1. identity'.key = None /\ Here' \subseteq {op.key} /\ op'.key = op.key
    BY <1>0, <1>7, AtEmptyIdentity, Blobby DEF EmptyIdentity, DoneBefore, Here
  <2>2. QED
    BY <2>1 DEF Current
<1>8. CASE WriteIdentity
  <2>1. At("identity", {"create", "reset", "restore"}) /\ op'.key = op.key
    BY <1>0, <1>8, AtIdentity DEF WriteIdentity, At, DoneBefore
  <2>2. Here \subseteq {op.key}
    BY <2>1 DEF At, Current, Rewriting
  <2>3. identity'.key = op.key /\ Here' \subseteq {op.key}
    BY <1>8, <2>2 DEF WriteIdentity, Blob, Here
  <2>4. QED
    BY <2>1, <2>3 DEF Current
<1>9. CASE GeneratePhrase \/ EmptyRecovery \/ WriteRecovery \/ RestoreText \/ AllRestored \/ Show
  <2>1. Rewriting
    BY <1>0, <1>9, AtPhrase, AtEmptyRecovery, AtRecovery, AtTexts, AtShow
    DEF GeneratePhrase, EmptyRecovery, WriteRecovery, RestoreText, AllRestored, Show, At, Rewriting
  <2>2. UNCHANGED <<identity, settled, displaced>>
    BY <1>9
    DEF GeneratePhrase, EmptyRecovery, WriteRecovery, RestoreText, AllRestored, Show, files, history
  <2>3. op'.key = op.key \/ op' = Idle
    BY <1>9, SameKey DEF Operate
  <2>4. QED
    BY <1>i, <2>1, <2>2, <2>3, IdleFields DEF Current, Rewriting, Here
<1>10. CASE EnterWindow
  <2>1. At("sign_in", {"create", "reset"})
    BY <1>0, <1>10, AtSignIn DEF EnterWindow
  <2>2. identity = Blob(op.password, op.key) /\ Here \subseteq {op.key}
    BY <2>1 DEF Stage, At, Written, Current, Rewriting
  <2>3. op' = Idle /\ identity'.key = op.key /\ Here' \subseteq {op.key}
    BY <1>10, <2>2 DEF EnterWindow, Blob, files, Here
  <2>4. QED
    BY <2>3, IdleFields DEF Current, Rewriting
<1>11. CASE EmptyBackup \/ WriteBackup
  <2>1. op'.kind \in {"export", "none"} /\ UNCHANGED <<identity, settled, displaced>>
    BY <1>0, <1>11, AtEmptyBackup, AtBackup, IdleFields
    DEF EmptyBackup, WriteBackup, DoneBefore, At, history
  <2>2. QED
    BY <1>i, <2>1 DEF Rewriting
<1>12. CASE CutShort
  BY <1>i, <1>12, IdleFields DEF CutShort, Rewriting, files
<1>13. CASE UNCHANGED vars
  BY <1>13 DEF Current, Rewriting, Here, vars, files, history
<1>14. QED
  BY <1>1, <1>2, <1>3, <1>4, <1>5, <1>6, <1>7, <1>8, <1>9, <1>10, <1>11, <1>12, <1>13
  DEF Next, Operate

\* An interrupted operation stays so.
LEMMA StillBecause ==
  ASSUME NEW kinds, cut \subseteq cut', Because(kinds)
  PROVE  Because(kinds)'
BY DEF Because

LEMMA PhraseStep ==
  TypeInv /\ Unused /\ Stage /\ Current /\ PhraseShown /\ [Next]_vars => PhraseShown'
<1> SUFFICES ASSUME TypeInv, Unused, Stage, Current, PhraseShown,
                    ~Because({"create", "restore"}), [Next]_vars
             PROVE  PhraseShown'
  BY Untouched, StillBecause DEF PhraseShown
<1>0. Types /\ OperationSound /\ read \subseteq read'
  BY Untouched DEF TypeInv
<1>r. ASSUME recovery' = recovery, OpensWith(recovery, read),
             (Here' \cup {identity'.key}) \ {None} \subseteq {recovery.key}
      PROVE  PhraseShown'
  BY <1>0, <1>r DEF PhraseShown, Shown, OpensWith
<1>s. ASSUME UNCHANGED <<identity, recovery, settled, displaced>>, Shown PROVE PhraseShown'
  BY <1>r, <1>s DEF Shown, Here
<1>1. ASSUME NEW p \in Passwords, Create(p) PROVE PhraseShown'
  <2>1. settled' = {} /\ op'.kind = "create"
    BY <1>0, <1>1, CreateBegun DEF Begun, Create, Unused
  <2>2. QED
    BY <2>1 DEF PhraseShown
<1>2. ASSUME NEW p \in Passwords, SignIn(p) PROVE PhraseShown'
  <2>1. op = Idle /\ Exists(identity) /\ UNCHANGED <<identity, recovery>>
        /\ Here' \subseteq Here \cup {identity.key}
    BY <1>2 DEF SignIn, SignInScreen, Opens, Exists, files, Here
  <2>2. Shown
    BY <2>1, IdleFields DEF PhraseShown
  <2>3. QED
    BY <1>r, <2>1, <2>2 DEF Shown
<1>3. ASSUME NEW n \in Phrases, NEW p \in Passwords, ForgotPassword(n, p) PROVE PhraseShown'
  <2>1. op = Idle /\ Exists(identity) /\ UNCHANGED <<identity, recovery, settled, displaced>>
    BY <1>3 DEF ForgotPassword, SignInScreen, files
  <2>2. Shown
    BY <2>1, IdleFields DEF PhraseShown
  <2>3. QED
    BY <1>s, <2>1, <2>2
<1>4. ASSUME NEW f \in BackupFiles, NEW b \in Passwords, NEW p \in Passwords, Restore(f, b, p)
      PROVE  PhraseShown'
  <2>1. op'.kind = "restore" /\ op = Idle /\ UNCHANGED <<identity, recovery, settled, displaced>>
    BY <1>0, <1>4, RestoreBegun DEF Begun, Restore, files, SignInScreen
  <2>2. settled = {} \/ Shown
    BY <2>1, IdleFields DEF PhraseShown
  <2>3. QED
    BY <1>s, <2>1, <2>2 DEF PhraseShown
<1>5. ASSUME NEW f \in BackupFiles, NEW p \in Passwords, Export(f, p) PROVE PhraseShown'
  <2>1. op'.kind = "export" /\ op = Idle /\ UNCHANGED <<identity, recovery, settled, displaced>>
    BY <1>0, <1>5, ExportBegun DEF Begun, Export, files
  <2>2. Shown \/ (settled = {} /\ ~Exists(identity))
    BY <2>1, IdleFields DEF PhraseShown
  <2>3. QED
    BY <1>s, <2>1, <2>2 DEF PhraseShown, Exists
<1>6. CASE SaveMessage
  <2>1. UNCHANGED <<identity, recovery, settled, displaced, op>>
    BY <1>6 DEF SaveMessage, history
  <2>2. QED
    BY <1>s, <2>1 DEF PhraseShown, Exists
<1>7. CASE SignOut
  <2>1. UNCHANGED <<identity, recovery, settled, displaced, op>>
    BY <1>7 DEF SignOut, files, history
  <2>2. QED
    BY <1>s, <2>1 DEF PhraseShown, Exists
<1>8. CASE EmptyIdentity
  <2>1. At("empty_identity", {"create", "reset", "restore"}) /\ DoneBefore("identity")
        /\ op' = Done /\ UNCHANGED <<recovery, settled>>
        /\ identity'.key = None /\ Here' \subseteq Here \cap {op.key}
    BY <1>0, <1>8, AtEmptyIdentity, Blobby DEF EmptyIdentity, Here
  <2>2. CASE op.kind = "reset"
    BY <1>r, <2>1, <2>2 DEF Stage
  <2>3. CASE op.kind # "reset"
    <3>1. op.kind \in {"create", "restore"} /\ op'.kind = op.kind /\ Head(op.left) \notin Written
      BY <2>1, <2>3 DEF At, DoneBefore, Written
    <3>2. settled = {} \/ Shown
      BY <3>1 DEF PhraseShown
    <3>3. CASE Shown
      BY <1>r, <2>1, <3>3 DEF Shown
    <3>4. QED
      BY <2>1, <3>1, <3>2, <3>3 DEF PhraseShown
  <2>4. QED
    BY <2>2, <2>3
<1>9. CASE WriteIdentity
  <2>1. At("identity", {"create", "reset", "restore"})
        /\ op' = Done /\ UNCHANGED <<recovery, settled>>
        /\ (op.kind # "reset" => DoneBefore("phrase"))
    BY <1>0, <1>9, AtIdentity DEF WriteIdentity
  <2>2. CASE op.kind = "reset"
    <3>1. Here \subseteq {op.key}
      BY <2>1 DEF At, Current, Rewriting
    <3>2. identity'.key = op.key /\ Here' \subseteq {op.key}
      BY <1>9, <3>1 DEF WriteIdentity, Blob, Here
    <3>3. QED
      BY <1>r, <2>1, <2>2, <3>2 DEF Stage
  <2>3. CASE op.kind = "create"
    BY <2>1, <2>3 DEF PhraseShown, Unused, DoneBefore
  <2>4. CASE op.kind = "restore"
    BY <2>1, <2>4 DEF PhraseShown, DoneBefore, Written
  <2>5. QED
    BY <2>1, <2>2, <2>3, <2>4 DEF At
<1>10. CASE GeneratePhrase \/ EmptyRecovery \/ WriteRecovery \/ RestoreText \/ AllRestored
  <2>1. settled' = settled /\ op.kind \in {"create", "restore"}
    BY <1>0, <1>10, AtPhrase, AtEmptyRecovery, AtRecovery, AtTexts
    DEF GeneratePhrase, EmptyRecovery, WriteRecovery, RestoreText, AllRestored, At, history
  <2>2. op'.kind = op.kind /\ (op.kind = "restore" => Head(op'.left) \in Written)
    <3>1. CASE GeneratePhrase
      BY <1>0, <3>1, PhraseDone DEF Written
    <3>2. CASE RestoreText
      <4>1. op.texts # <<>> /\ op' = [op EXCEPT !.texts = Tail(@)]
        BY <3>2 DEF RestoreText
      <4>2. Head(op.left) = "texts"
        BY <3>2 DEF RestoreText, NextIs
      <4>3. op'.kind = op.kind /\ op'.left = op.left
        BY <1>0, <4>1, RestTexts
      <4>4. QED
        BY <4>2, <4>3 DEF Written
    <3>3. CASE EmptyRecovery \/ WriteRecovery \/ AllRestored
      BY <1>0, <2>1, <3>3, AtEmptyRecovery, AtRecovery, AtTexts
      DEF EmptyRecovery, WriteRecovery, AllRestored, DoneBefore, Written
    <3>4. QED
      BY <1>10, <3>1, <3>2, <3>3
  <2>3. CASE op.kind = "create"
    BY <2>1, <2>2, <2>3 DEF PhraseShown, Unused
  <2>4. CASE op.kind = "restore"
    BY <2>2, <2>4 DEF PhraseShown
  <2>5. QED
    BY <2>1, <2>3, <2>4
<1>11. CASE Show
  <2>1. /\ At("show", {"create", "restore"}) /\ read' = read \cup {op.phrase}
        /\ UNCHANGED <<identity, recovery, settled, displaced>>
    BY <1>0, <1>11, AtShow DEF Show, files
  <2>2. /\ recovery = Blob(op.phrase, op.key) /\ identity = Blob(op.password, op.key)
        /\ Here \subseteq {op.key}
    BY <2>1 DEF Stage, Written, Current, Rewriting, At
  <2>3. Opens(recovery, op.phrase) /\ recovery.key = op.key /\ identity.key = op.key
    BY <2>2 DEF Blob, Opens
  <2>4. QED
    BY <2>1, <2>2, <2>3 DEF PhraseShown, Shown, OpensWith, Here
<1>12. CASE EnterWindow
  <2>1. At("sign_in", {"create", "reset"}) /\ UNCHANGED <<identity, recovery, read>>
    BY <1>0, <1>12, AtSignIn DEF EnterWindow, files
  <2>2. identity = Blob(op.password, op.key) /\ Here \subseteq {op.key}
    BY <2>1 DEF Stage, At, Written, Current, Rewriting
  <2>3. identity'.key = op.key /\ Here' \subseteq {op.key}
    BY <1>12, <2>1, <2>2 DEF EnterWindow, Blob, Here
  <2>4. OpensWith(recovery, read) /\ recovery.key = op.key
    <3>1. CASE op.kind = "create"
      <4>1. recovery = Blob(op.phrase, op.key) /\ op.phrase \in read
        BY <2>1, <3>1 DEF Stage, At
      <4>2. Opens(recovery, op.phrase) /\ recovery.key = op.key
        BY <4>1 DEF Blob, Opens
      <4>3. QED
        BY <4>1, <4>2 DEF OpensWith
    <3>2. CASE op.kind = "reset"
      BY <3>2 DEF Stage
    <3>3. QED
      BY <2>1, <3>1, <3>2 DEF At
  <2>5. QED
    BY <1>r, <2>1, <2>3, <2>4
<1>13. CASE EmptyBackup \/ WriteBackup
  <2>1. op.kind = "export" /\ op'.kind \in {"export", "none"}
        /\ UNCHANGED <<identity, recovery, settled, displaced>>
    BY <1>0, <1>13, AtEmptyBackup, AtBackup, IdleFields
    DEF EmptyBackup, WriteBackup, At, DoneBefore, history
  <2>2. Shown \/ (settled = {} /\ ~Exists(identity))
    BY <2>1 DEF PhraseShown
  <2>3. QED
    BY <1>s, <2>1, <2>2 DEF PhraseShown, Exists
<1>14. CASE CutShort
  <2>1. /\ cut' = cut \cup {op.kind} /\ op'.kind = "none"
        /\ UNCHANGED <<identity, recovery, settled, displaced>>
    BY <1>14, IdleFields DEF CutShort, files
  <2>2. CASE op.kind \in {"create", "restore"}
    BY <2>1, <2>2 DEF PhraseShown, Because
  <2>3. CASE op.kind \notin {"create", "restore"}
    <3>1. Shown \/ (settled = {} /\ ~Exists(identity))
      BY <2>3 DEF PhraseShown
    <3>2. QED
      BY <1>s, <2>1, <3>1 DEF PhraseShown, Exists
  <2>4. QED
    BY <2>2, <2>3
<1>15. CASE UNCHANGED vars
  <2>1. UNCHANGED <<identity, recovery, settled, displaced, op, cut>>
    BY <1>15 DEF vars, files, history
  <2>2. QED
    BY <1>s, <2>1 DEF PhraseShown, Exists, Because
<1>16. QED
  BY <1>1, <1>2, <1>3, <1>4, <1>5, <1>6, <1>7, <1>8, <1>9, <1>10, <1>11, <1>12, <1>13, <1>14,
     <1>15 DEF Next, Operate

\* A file that was opened with a password the user chose, with the key.
WayByPassword(k) == OpensWith(identity, typed) /\ identity.key = k
WayByPhrase(k) == OpensWith(recovery, read) /\ recovery.key = k

LEMMA WholeWay ==
  ASSUME Types, PasswordsTyped, identity.key # None
  PROVE  WayByPassword(identity.key)
BY DEF Types, KeyIfWhole, PasswordsTyped, WayByPassword, OpensWith, Opens

LEMMA WrittenWay ==
  ASSUME identity = Blob(op.password, op.key), op.password \in typed
  PROVE  WayByPassword(op.key)
BY DEF Blob, WayByPassword, OpensWith, Opens

\* Until a sign-up or a restore is interrupted, the way in follows from the rest.
LEMMA WayNow ==
  TypeInv /\ Stage /\ Current /\ PhraseShown /\ ~Because({"create", "restore"}) => LocalWayIn
<1> SUFFICES ASSUME TypeInv, Stage, Current, PhraseShown, ~Because({"create", "restore"}),
                    NEW k \in settled, k \notin displaced
             PROVE  WayByPassword(k) \/ WayByPhrase(k)
  BY DEF LocalWayIn, WayByPassword, WayByPhrase
<1>1. Types /\ OperationSound /\ k # None /\ k \in Here
  BY DEF TypeInv, Types, Keys, None, Here
<1>2. CASE Shown
  BY <1>1, <1>2 DEF Shown, WayByPhrase
<1>3. CASE op.kind = "restore" /\ Head(op.left) \in Written
  <2>1. identity = Blob(op.password, op.key)
    BY <1>3 DEF Stage
  <2>2. op.password \in typed
    BY <1>1, <1>3, IdleFields DEF OperationSound
  <2>3. op.key = k
    BY <1>1, <1>3 DEF Current, Rewriting, Written
  <2>4. QED
    BY <2>1, <2>2, <2>3, WrittenWay
<1>4. QED
  BY <1>2, <1>3 DEF PhraseShown

LEMMA WayNext ==
  TypeInv' /\ Stage' /\ Current' /\ PhraseShown' /\ ~Because({"create", "restore"})' => LocalWayIn'
BY WayNow, PTL

\* An account has a way in when it is signed in, and when it is put back.
LEMMA WayBegins ==
  ASSUME TypeInv, WayInv, [Next]_vars, TypeInv', NEW k \in settled', k \notin displaced',
         k \notin settled \/ k \in displaced
  PROVE  WayByPassword(k)'
<1>0. Types /\ OperationSound /\ PasswordsTyped /\ Stage /\ k # None
  BY DEF TypeInv, WayInv, Types, Keys, None
<1>1. ASSUME NEW p \in Passwords, SignIn(p) PROVE WayByPassword(k)'
  <2>1. k = identity.key /\ UNCHANGED <<identity, typed>>
    BY <1>1 DEF SignIn, files
  <2>2. WayByPassword(k)
    BY <1>0, <2>1, WholeWay
  <2>3. QED
    BY <2>1, <2>2 DEF WayByPassword, OpensWith
<1>2. CASE EnterWindow
  <2>1. At("sign_in", {"create", "reset"}) /\ k = op.key /\ UNCHANGED <<identity, typed>>
    BY <1>0, <1>2, AtSignIn DEF EnterWindow, files
  <2>2. identity = Blob(op.password, op.key) /\ op.password \in typed
    BY <1>0, <2>1 DEF Stage, At, Written
  <2>3. WayByPassword(k)
    BY <2>1, <2>2, WrittenWay
  <2>4. QED
    BY <2>1, <2>3 DEF WayByPassword, OpensWith
<1>3. CASE WriteIdentity
  <2>1. k = op.key /\ typed' = typed /\ identity' = Blob(op.password, op.key)
    BY <1>3 DEF WriteIdentity
  <2>2. op.password \in typed
    BY <1>0, <1>3, AtIdentity DEF WriteIdentity, At
  <2>3. QED
    BY <2>1, <2>2 DEF WayByPassword, OpensWith, Opens, Blob
<1>4. CASE ~(\E p \in Passwords : SignIn(p)) /\ ~EnterWindow /\ ~WriteIdentity
  <2>1. settled' = settled /\ displaced \subseteq displaced'
    BY <1>4 DEF Next, Operate, Create, ForgotPassword, Restore, Export, SaveMessage, SignOut,
       EmptyIdentity, GeneratePhrase, EmptyRecovery, WriteRecovery, RestoreText,
       AllRestored, Show, EmptyBackup, WriteBackup, CutShort, history, vars
  <2>2. QED
    BY <2>1
<1>5. QED
  BY <1>1, <1>2, <1>3, <1>4

LEMMA WayInStep ==
  TypeInv /\ WayInv /\ TypeInv' /\ Stage' /\ Current' /\ PhraseShown' /\ [Next]_vars => LocalWayIn'
<1> SUFFICES ASSUME TypeInv, WayInv, [Next]_vars, TypeInv',
                    Because({"create", "restore"})',
                    NEW k \in settled', k \notin displaced'
             PROVE  WayByPassword(k)' \/ WayByPhrase(k)' \/ BackedUp(k)'
  BY WayNext DEF LocalWayIn, WayByPassword, WayByPhrase
<1>0. Types /\ OperationSound /\ Types' /\ typed \subseteq typed' /\ read \subseteq read'
  BY Untouched DEF TypeInv
<1>k. k # None
  BY <1>0 DEF Types, Keys, None
<1>1. CASE k \notin settled \/ k \in displaced
  BY <1>1, WayBegins
<1>2. CASE k \in settled /\ k \notin displaced
  <2>1. k \in Here /\ identity.key \in {k, None} /\ (Rewriting => op.key = k)
    BY <1>2 DEF WayInv, Current, Here
  <2>2. ASSUME identity' = identity, WayByPassword(k) PROVE WayByPassword(k)'
    BY <1>0, <2>2 DEF WayByPassword, OpensWith
  <2>3. ASSUME recovery' = recovery, WayByPhrase(k) PROVE WayByPhrase(k)'
    BY <1>0, <2>3 DEF WayByPhrase, OpensWith
  <2>4. ASSUME backups' = backups, BackedUp(k) PROVE BackedUp(k)'
    BY <1>0, <2>4 DEF BackedUp, OpensWith
  <2>5. CASE UNCHANGED <<identity, recovery, backups>>
    <3>1. WayByPassword(k) \/ WayByPhrase(k) \/ BackedUp(k)
      BY <1>0, <1>2 DEF WayInv, LocalWayIn, WayByPassword, WayByPhrase
    <3>2. QED
      BY <2>2, <2>3, <2>4, <2>5, <3>1
  <2>6. CASE EmptyIdentity
    <3>1. At("empty_identity", {"create", "reset", "restore"})
          /\ UNCHANGED <<recovery, backups>>
      BY <1>0, <2>6, AtEmptyIdentity DEF EmptyIdentity
    <3>2. op.key = k
      BY <1>2, <2>6 DEF EmptyIdentity
    <3>3. op.kind # "create"
      BY <1>2 DEF WayInv, Unused
    <3>4. CASE op.kind = "reset"
      <4>1. WayByPhrase(k)
        BY <3>2, <3>4 DEF WayInv, Stage, WayByPhrase
      <4>2. QED
        BY <2>3, <3>1, <4>1
    <3>5. CASE op.kind = "restore"
      <4>1. BackedUp(k)
        BY <3>2, <3>5 DEF WayInv, Stage
      <4>2. QED
        BY <2>4, <3>1, <4>1
    <3>6. QED
      BY <3>1, <3>3, <3>4, <3>5 DEF At
  <2>7. CASE WriteIdentity
    <3>1. At("identity", {"create", "reset", "restore"}) /\ identity' = Blob(op.password, op.key)
      BY <1>0, <2>7, AtIdentity DEF WriteIdentity
    <3>2. op.key = k /\ op.password \in typed'
      BY <1>0, <2>1, <3>1 DEF At, Rewriting
    <3>3. QED
      BY <3>1, <3>2 DEF WayByPassword, OpensWith, Opens, Blob
  <2>8. CASE EmptyRecovery \/ WriteRecovery
    <3>1. op.kind \in {"create", "restore"} /\ Head(op.left) \in Written
          /\ op.password \in typed /\ identity' = identity
      BY <1>0, <2>8, AtEmptyRecovery, AtRecovery DEF EmptyRecovery, WriteRecovery, At, Written
    <3>2. identity = Blob(op.password, op.key)
      BY <3>1 DEF WayInv, Stage
    <3>3. op.key = k
      BY <2>1, <3>1 DEF Rewriting, Written
    <3>4. WayByPassword(k)
      BY <3>1, <3>2, <3>3, WrittenWay
    <3>5. QED
      BY <2>2, <3>1, <3>4
  <2>9. CASE EmptyBackup \/ WriteBackup
    <3>1. op.kind = "export" /\ op.key \in Keys /\ identity' = identity
      BY <1>0, <2>9, AtEmptyBackup, AtBackup DEF EmptyBackup, WriteBackup, At
    <3>2. identity.key = op.key /\ op.key # None
      BY <3>1 DEF WayInv, SessionSound, Keys, None
    <3>3. WayByPassword(k)
      BY <1>0, <2>1, <3>2, WholeWay DEF WayInv
    <3>4. QED
      BY <2>2, <3>1, <3>3
  <2>10. QED
    BY <2>5, <2>6, <2>7, <2>8, <2>9, Untouched
<1>3. QED
  BY <1>1, <1>2

LEMMA InitWay == Init => WayInv
<1> SUFFICES ASSUME Init PROVE WayInv
  OBVIOUS
<1>0. TypeInv /\ op = Idle /\ settled = {} /\ session = None
      /\ identity = Absent /\ recovery = Absent
  BY InitTypes DEF Init
<1>1. PasswordsTyped
  <2>1. \A f \in BackupFiles : backups[f].blob.state = "whole" => backups[f].blob.secret \in typed
    <3>1. TAKE f \in BackupFiles
    <3>2. HAVE backups[f].blob.state = "whole"
    <3>3. PICK p \in Passwords : backups[f] = Bundle(Blob(p, Elsewhere), TextsElsewhere)
      BY <3>2, Blobby DEF Init, Bundle
    <3>4. backups[f].blob.secret = p
      BY <3>3 DEF Bundle, Blob
    <3>5. p # None
      BY LocalAccountAssumption DEF None
    <3>6. QED
      BY <3>4, <3>5 DEF Init
  <2>2. QED
    BY <1>0, <2>1, Blobby DEF PasswordsTyped
<1>2. SessionSound /\ Unused /\ Stage
  BY <1>0, IdleFields, Blobby DEF SessionSound, Unused, Stage, Exists
<1>3. Current
  BY <1>0 DEF Current, Here
<1>4. PhraseShown /\ LocalWayIn
  BY <1>0, Blobby DEF PhraseShown, LocalWayIn, Exists
<1>5. QED
  BY <1>1, <1>2, <1>3, <1>4 DEF WayInv

LEMMA WayStep == TypeInv /\ WayInv /\ [Next]_vars => WayInv'
<1> SUFFICES ASSUME TypeInv, WayInv, [Next]_vars PROVE WayInv'
  OBVIOUS
<1>1. TypeInv' /\ PasswordsTyped' /\ SessionSound' /\ Unused' /\ Stage' /\ Current' /\ PhraseShown'
  BY TypeStep, PasswordsStep, SessionStep, UnusedStep, StageStep, CurrentStep, PhraseStep
  DEF WayInv
<1>2. LocalWayIn'
  BY <1>1, WayInStep
<1>3. QED
  BY <1>1, <1>2 DEF WayInv

----------------------------------------------------------------------------
(* The order of the history *)

LEMMA InitOrder == Init => InOrder
<1> SUFFICES ASSUME Init PROVE InOrder
  OBVIOUS
<1>1. messages = <<>> /\ Len(messages) = 0 /\ op = Idle
  BY DEF Init
<1>2. ASSUME NEW f \in BackupFiles PROVE Increasing(backups[f].texts)
  <2>1. backups[f].texts = <<>> \/ backups[f].texts = TextsElsewhere
    BY DEF Init, Bundle
  <2>2. Increasing(<<>>)
    BY DEF Increasing
  <2>3. Increasing(TextsElsewhere)
    BY DEF Increasing, TextsElsewhere
  <2>4. QED
    BY <2>1, <2>2, <2>3
<1>3. QED
  BY <1>1, <1>2, IdleFields DEF InOrder, HistoryInOrder, Increasing

\* A row is appended that is newer than all there are, or one of those excepted.
LEMMA NewerRow ==
  ASSUME TypeInv, NEW row \in [key: Keys, body: Nat], messages' = Append(messages, row),
         HistoryInOrder, repeated' = repeated,
         \/ \A i \in 1..Len(messages) : messages[i].body < row.body
         \/ Len(messages) + 1 \in repeated
  PROVE  HistoryInOrder'
<1>0. messages \in Seq([key: Keys, body: Nat])
  BY DEF TypeInv, Types
<1>1. /\ Len(messages') = Len(messages) + 1 /\ Len(messages) \in Nat
      /\ \A i \in 1..Len(messages') :
           messages'[i] = IF i <= Len(messages) THEN messages[i] ELSE row
  BY <1>0, AppendedRow
<1>2. SUFFICES ASSUME NEW i \in 1..Len(messages'), NEW j \in 1..Len(messages'), i < j,
                      j \notin repeated
               PROVE  messages'[i].body < messages'[j].body
  BY DEF HistoryInOrder
<1>3. i \in 1..Len(messages) /\ messages'[i] = messages[i]
  BY <1>1, <1>2
<1>4. CASE j <= Len(messages)
  <2>1. j \in 1..Len(messages) /\ messages'[j] = messages[j]
    BY <1>1, <1>4
  <2>2. QED
    BY <1>2, <1>3, <2>1 DEF HistoryInOrder
<1>5. CASE ~(j <= Len(messages))
  <2>1. j = Len(messages) + 1 /\ messages'[j] = row
    BY <1>1, <1>5
  <2>2. QED
    BY <1>2, <1>3, <2>1
<1>6. QED
  BY <1>4, <1>5

\* What is left to restore when the first of it has been stored.
LEMMA RestoredOne ==
  ASSUME TypeInv, NextIs("texts"), op.texts # <<>>, RestInOrder \/ RestRepeated,
         op' = [op EXCEPT !.texts = Tail(@)], repeated' = repeated,
         messages' = Append(messages, Row(op.key, Head(op.texts)))
  PROVE  RestInOrder' \/ RestRepeated'
<1>1. OperationSound /\ op.key \in Keys
  BY AtTexts DEF TypeInv, At
<1>2. /\ op.texts \in Seq(Nat) /\ Len(op.texts) \in Nat /\ Len(op.texts) >= 1
      /\ Head(op.texts) = op.texts[1] /\ Head(op.texts) \in Nat
      /\ Len(op'.texts) = Len(op.texts) - 1
      /\ \A i \in 1..Len(op'.texts) : op'.texts[i] = op.texts[i + 1]
  BY <1>1, RestTexts
<1> DEFINE row == Row(op.key, Head(op.texts))
<1>3. row \in [key: Keys, body: Nat] /\ row.body = op.texts[1]
  BY <1>1, <1>2, RowTyped
<1>4. messages' = Append(messages, row)
  OBVIOUS
<1> HIDE DEF row
<1>5. /\ Len(messages') = Len(messages) + 1 /\ Len(messages) \in Nat
      /\ \A i \in 1..Len(messages') :
           messages'[i] = IF i <= Len(messages) THEN messages[i] ELSE row
  BY <1>3, <1>4, AppendedRow DEF TypeInv, Types
<1>6. 1 \in 1..Len(op.texts) /\ \A i \in 1..Len(op'.texts) : i + 1 \in 1..Len(op.texts) /\ 1 < i + 1
  BY <1>2
<1>7. CASE RestRepeated
  <2>1. ASSUME NEW m \in 1..Len(op'.texts) PROVE Len(messages') + m \in repeated'
    <3>1. m \in Nat /\ m + 1 \in 1..Len(op.texts)
      BY <1>2, <1>6
    <3>2. Len(messages) + (m + 1) \in repeated
      BY <1>7, <3>1 DEF RestRepeated
    <3>3. Len(messages') + m = Len(messages) + (m + 1)
      BY <1>5, <3>1
    <3>4. QED
      BY <3>2, <3>3
  <2>2. QED
    BY <2>1 DEF RestRepeated
<1>8. CASE RestInOrder
  <2>1. Increasing(op'.texts)
    <3>1. \A i, j \in 1..Len(op'.texts) : i < j => i + 1 < j + 1
      OBVIOUS
    <3>2. QED
      BY <1>8, <1>2, <1>6, <3>1 DEF RestInOrder, Increasing
  <2>2. ASSUME NEW i \in 1..Len(messages'), NEW j \in 1..Len(op'.texts)
        PROVE  messages'[i].body < op'.texts[j]
    <3>1. op'.texts[j] = op.texts[j + 1] /\ j + 1 \in 1..Len(op.texts) /\ 1 < j + 1
      BY <1>2, <1>6
    <3>2. CASE i <= Len(messages)
      <4>1. i \in 1..Len(messages) /\ messages'[i] = messages[i]
        BY <1>5, <3>2
      <4>2. QED
        BY <1>8, <3>1, <4>1 DEF RestInOrder
    <3>3. CASE ~(i <= Len(messages))
      <4>1. op.texts[1] < op.texts[j + 1]
        BY <1>8, <1>6, <3>1 DEF RestInOrder, Increasing
      <4>2. QED
        BY <1>3, <1>5, <3>1, <3>3, <4>1
    <3>4. QED
      BY <3>2, <3>3
  <2>3. QED
    BY <2>1, <2>2 DEF RestInOrder
<1>9. QED
  BY <1>7, <1>8

\* A step that writes no message and keeps the texts, or drops them.
LEMMA SameOrder ==
  ASSUME InOrder, UNCHANGED <<messages, repeated>>,
         op'.texts = op.texts \/ op'.texts = <<>>, op'.kind = op.kind \/ op'.kind # "restore",
         \/ backups' = backups
         \/ messages = <<>> => \A f \in BackupFiles : Increasing(backups'[f].texts)
  PROVE  InOrder'
<1>1. HistoryInOrder'
  BY DEF InOrder, HistoryInOrder
<1>2. Len(<<>>) = 0 /\ Increasing(<<>>)
  BY DEF Increasing
<1>3. messages' = <<>> =>
        Increasing(op'.texts) /\ \A f \in BackupFiles : Increasing(backups'[f].texts)
  BY <1>2 DEF InOrder
<1>4. op'.kind = "restore" => RestInOrder' \/ RestRepeated'
  BY <1>2 DEF InOrder, RestInOrder, RestRepeated
<1>5. QED
  BY <1>1, <1>3, <1>4 DEF InOrder

LEMMA OrderStep == TypeInv /\ SessionSound /\ InOrder /\ [Next]_vars => InOrder'
<1> SUFFICES ASSUME TypeInv, SessionSound, InOrder, [Next]_vars PROVE InOrder'
  OBVIOUS
<1>0. Types /\ OperationSound /\ BodiesKnown
  BY DEF TypeInv
<1>i. HistoryInOrder
  BY DEF InOrder
<1>t. Len(<<>>) = 0 /\ Increasing(<<>>)
  BY DEF Increasing
<1>1. ASSUME NEW p \in Passwords, Create(p) PROVE InOrder'
  <2>1. op'.texts = <<>> /\ op'.kind = "create" /\ UNCHANGED <<messages, backups, repeated>>
    BY <1>0, <1>1, CreateBegun DEF Begun, Create, files
  <2>2. QED
    BY <2>1, SameOrder
<1>2. ASSUME NEW p \in Passwords, SignIn(p) PROVE InOrder'
  BY <1>2, SameOrder DEF SignIn, files
<1>3. ASSUME NEW n \in Phrases, NEW p \in Passwords, ForgotPassword(n, p) PROVE InOrder'
  <2>1. op'.texts = <<>> /\ op'.kind = "reset" /\ UNCHANGED <<messages, backups, repeated>>
    BY <1>0, <1>3, ResetBegun DEF Begun, ForgotPassword, files
  <2>2. QED
    BY <2>1, SameOrder
<1>4. ASSUME NEW f \in BackupFiles, NEW b \in Passwords, NEW p \in Passwords, Restore(f, b, p)
      PROVE  InOrder'
  <2> DEFINE texts == backups[f].texts
  <2>1. op'.texts = texts /\ texts \in Seq(Nat) /\ UNCHANGED <<messages, backups>>
        /\ repeated' = repeated \cup StoredAfter(messages, texts)
    BY <1>0, <1>4, RestoreBegun DEF Begun, Restore, files, Types
  <2>2. messages = <<>> => Increasing(texts) /\ \A g \in BackupFiles : Increasing(backups[g].texts)
    BY DEF InOrder
  <2> HIDE DEF texts
  <2>3. HistoryInOrder'
    BY <1>i, <2>1 DEF HistoryInOrder
  <2>4. RestInOrder' \/ RestRepeated'
    <3>1. CASE messages = <<>>
      BY <2>1, <2>2, <3>1 DEF RestInOrder
    <3>2. CASE messages # <<>>
      <4>1. Len(messages) \in Nat /\ Len(texts) \in Nat
        BY <1>0, <2>1 DEF Types
      <4>2. \A m \in 1..Len(texts) : Len(messages) + m \in StoredAfter(messages, texts)
        BY <3>2, <4>1 DEF StoredAfter
      <4>3. QED
        BY <2>1, <4>2 DEF RestRepeated
    <3>3. QED
      BY <3>1, <3>2
  <2>5. QED
    BY <2>1, <2>2, <2>3, <2>4 DEF InOrder
<1>5. ASSUME NEW f \in BackupFiles, NEW p \in Passwords, Export(f, p) PROVE InOrder'
  <2>1. op'.texts = Texts(messages) /\ op'.kind = "export"
        /\ UNCHANGED <<messages, backups, repeated>>
    BY <1>0, <1>5, ExportBegun DEF Begun, Export, files
  <2>2. messages = <<>> => Increasing(Texts(messages))
    BY <1>0, TextsOf DEF Increasing, Types
  <2>3. QED
    BY <2>1, <2>2 DEF InOrder, HistoryInOrder
<1>6. CASE SaveMessage
  <2>1. session \in Keys /\ bodies \in Nat
    BY <1>0, <1>6, LocalAccountAssumption DEF SaveMessage, Types
  <2> DEFINE row == Row(session, bodies + 1)
  <2>2. row \in [key: Keys, body: Nat] /\ row.body = bodies + 1
    BY <2>1, RowTyped
  <2>3. messages' = Append(messages, row) /\ UNCHANGED <<backups, op, repeated>>
    BY <1>6 DEF SaveMessage, history
  <2> HIDE DEF row
  <2>4. \A i \in 1..Len(messages) : messages[i].body < row.body
    BY <1>0, <2>1, <2>2 DEF BodiesKnown
  <2>5. HistoryInOrder'
    BY <1>i, <2>2, <2>3, <2>4, NewerRow
  <2>6. op'.kind # "restore"
    BY <1>6, <2>3 DEF SessionSound, SaveMessage
  <2>7. messages' # <<>>
    BY <1>0, <2>2, <2>3, AppendedRow, <1>t DEF Types
  <2>8. QED
    BY <2>5, <2>6, <2>7 DEF InOrder
<1>7. CASE SignOut
  BY <1>7, SameOrder DEF SignOut, files, history
<1>8. CASE RestoreText
  <2>1. /\ NextIs("texts") /\ op.texts # <<>> /\ op' = [op EXCEPT !.texts = Tail(@)]
        /\ UNCHANGED <<backups, repeated>>
        /\ messages' = Append(messages, Row(op.key, Head(op.texts)))
    BY <1>8 DEF RestoreText, history
  <2>2. op.key \in Keys /\ op.kind = "restore"
    BY <1>0, <1>8, AtTexts DEF RestoreText, At
  <2>3. RestInOrder \/ RestRepeated
    BY <2>2 DEF InOrder
  <2>4. Head(op.texts) = op.texts[1] /\ Head(op.texts) \in Nat /\ 1 \in 1..Len(op.texts)
    BY <1>0, <2>1, RestTexts
  <2> DEFINE row == Row(op.key, Head(op.texts))
  <2>5. row \in [key: Keys, body: Nat] /\ row.body = op.texts[1]
    BY <2>2, <2>4, RowTyped
  <2>6. messages' = Append(messages, row)
    BY <2>1
  <2> HIDE DEF row
  <2>7. \/ \A i \in 1..Len(messages) : messages[i].body < row.body
        \/ Len(messages) + 1 \in repeated
    BY <2>3, <2>4, <2>5 DEF RestInOrder, RestRepeated
  <2>8. HistoryInOrder'
    BY <1>i, <2>1, <2>5, <2>6, <2>7, NewerRow
  <2>9. RestInOrder' \/ RestRepeated'
    BY <2>1, <2>3, RestoredOne
  <2>10. messages' # <<>>
    BY <1>0, <2>5, <2>6, AppendedRow, <1>t DEF Types
  <2>11. QED
    BY <2>8, <2>9, <2>10 DEF InOrder
<1>9. CASE EmptyBackup
  <2> DEFINE b == Bundle(Torn, <<>>)
  <2>1. backups' = [backups EXCEPT ![op.file] = b] /\ b.texts = <<>>
        /\ UNCHANGED <<messages, repeated>>
    BY <1>9 DEF EmptyBackup, Bundle, history
  <2>2. op'.texts = op.texts \/ op'.texts = <<>>
    BY <1>9, SameTexts DEF Operate, EmptyBackup, RestoreText, NextIs
  <2>3. op'.kind = "export"
    BY <1>0, <1>9, AtEmptyBackup DEF EmptyBackup, At, DoneBefore
  <2> HIDE DEF b
  <2>4. messages = <<>> => \A f \in BackupFiles : Increasing(backups'[f].texts)
    BY <1>0, <1>t, <2>1 DEF Types, InOrder
  <2>5. QED
    BY <2>1, <2>2, <2>3, <2>4, SameOrder
<1>10. CASE WriteBackup
  <2> DEFINE b == Bundle(Blob(op.password, op.key), op.texts)
  <2>1. backups' = [backups EXCEPT ![op.file] = b] /\ b.texts = op.texts
        /\ UNCHANGED <<messages, repeated>> /\ op' = Idle
    BY <1>10 DEF WriteBackup, Bundle, history
  <2> HIDE DEF b
  <2>2. messages = <<>> => \A f \in BackupFiles : Increasing(backups'[f].texts)
    BY <1>0, <2>1 DEF Types, InOrder
  <2>3. QED
    BY <2>1, <2>2, IdleFields, SameOrder
<1>11. CASE Operate /\ ~RestoreText /\ ~EmptyBackup /\ ~WriteBackup
  <2>1. op'.texts = op.texts \/ op'.texts = <<>>
    BY <1>11, SameTexts
  <2>2. UNCHANGED <<messages, backups, repeated>>
    BY <1>11 DEF Operate, EmptyIdentity, WriteIdentity, GeneratePhrase, EmptyRecovery,
         WriteRecovery, AllRestored, Show, EnterWindow, files, made, history
  <2>3. op'.kind = op.kind \/ op' = Idle
    <3>1. CASE GeneratePhrase
      BY <1>0, <3>1, PhraseDone
    <3>2. CASE ~GeneratePhrase
      <4> DEFINE t == Tail(op.left)
      <4>1. op' = Idle \/ op' = [op EXCEPT !.left = t]
        BY <1>11, <3>2 DEF Operate, EmptyIdentity, WriteIdentity, EmptyRecovery,
           WriteRecovery, AllRestored, Show, EnterWindow, Done
      <4>2. op \in Operation
        BY <1>0 DEF OperationSound
      <4> HIDE DEF t
      <4>3. QED
        BY <4>1, <4>2 DEF Operation
    <3>3. QED
      BY <3>1, <3>2
  <2>4. QED
    BY <2>1, <2>2, <2>3, IdleFields, SameOrder
<1>12. CASE CutShort
  <2>1. op' = Idle /\ UNCHANGED <<messages, backups>>
        /\ repeated' = repeated \cap 1..Len(messages)
    BY <1>12 DEF CutShort, files
  <2>2. HistoryInOrder'
    BY <1>i, <2>1 DEF HistoryInOrder
  <2>3. QED
    BY <1>t, <2>1, <2>2, IdleFields DEF InOrder
<1>13. CASE UNCHANGED vars
  <2>1. UNCHANGED <<messages, backups, repeated, op>>
    BY <1>13 DEF vars, files, history
  <2>2. QED
    BY <2>1, SameOrder
<1>14. QED
  BY <1>1, <1>2, <1>3, <1>4, <1>5, <1>6, <1>7, <1>8, <1>9, <1>10, <1>11, <1>12, <1>13 DEF Next

----------------------------------------------------------------------------
(* The theorems *)

LEMMA Invariant == Spec => []Inv
<1>1. Init => Inv
  BY InitTypes, InitWay, InitOrder DEF Inv
<1>2. Inv /\ [Next]_vars => Inv'
  BY TypeStep, WayStep, OrderStep DEF Inv, WayInv
<1>3. QED
  BY <1>1, <1>2, PTL DEF Spec

\* The two copies of the key, the backups, the rows and the operation under
\* way have their types, and only an export runs while an account is signed in
\* (identity.py, backup.py, gui.py).
THEOREM LocalAccountTypeCorrect == Spec => []TypeOK
<1>1. Inv => TypeOK
  <2> SUFFICES ASSUME Inv PROVE TypeOK
    OBVIOUS
  <2>0. Types /\ OperationSound /\ BodiesKnown /\ SessionSound
    BY DEF Inv, TypeInv, WayInv
  <2>1. \A i \in 1..Len(messages) : messages[i] \in [key: Keys, body: 1..MaxMessages]
    <3> DEFINE S == [key: Keys, body: Nat]
    <3>1. TAKE i \in 1..Len(messages)
    <3>2. messages \in Seq(S)
      BY <2>0 DEF Types
    <3> HIDE DEF S
    <3>3. messages[i] \in S
      BY <3>2
    <3>4. messages[i].body \in 1..MaxMessages
      BY <2>0, LocalAccountAssumption DEF BodiesKnown, Types
    <3>5. QED
      BY <3>3, <3>4 DEF S
  <2>2. DOMAIN Steps = {"create", "reset", "restore", "export"}
    BY DEF Steps
  <2>3. op.kind \in DOMAIN Steps \cup {"none"} /\ (op.kind = "none") = (op = Idle)
    BY <2>0, <2>2, IdleFields DEF OperationSound, Program
  <2>4. session # None => op.kind \in {"none", "export"}
    BY <2>0, <2>2, <2>3 DEF SessionSound
  <2>5. QED
    BY <2>0, <2>1, <2>3, <2>4, LocalAccountAssumption DEF TypeOK, Types
<1>2. QED
  BY <1>1, Invariant, PTL

\* However often a sign-up, a recovery, a restore or an export is cut short
\* between two writes, a user who has used an account holds a password or a
\* phrase that opens a copy of its key (identity.py:146, backup.py:104-107).
\* It says so of each key in whose place no other key is or was being written;
\* after an interrupted sign-up or restore, the copy may be the one in a backup.
THEOREM AlwaysAWayIn == Spec => []LocalWayIn
BY Invariant, PTL DEF Inv, WayInv

\* Saved, restored and exported messages stay in the order they were written,
\* no message twice (backup.py:122-123, storage.py): each row is newer than all
\* before it, unless a restore stored it after rows that it found.
THEOREM HistoryStaysInOrder == Spec => []HistoryInOrder
<1>1. InOrder => HistoryInOrder
  BY DEF InOrder
<1>2. QED
  BY <1>1, Invariant, PTL DEF Inv
============================================================================
