--------------------------- MODULE BbsCoreProofs ---------------------------
(***************************************************************************)
(* What src/bbs/core keeps true: the accounts that sessions identify with, *)
(* and the tables of the engine that runs the sessions.                    *)
(*                                                                         *)
(* AuthService.  An HOTP code gives access once but to calls that overlap, *)
(* for every set of sessions and every sequence of cancelled calls and     *)
(* edits; the invariant says that what has been granted is behind the      *)
(* counter, and a right code that is on its way, and that no other has     *)
(* overtaken, ahead of it.  The lockout holds late but surely for two      *)
(* sessions and every auth_max_attempts: the invariant counts the wrong    *)
(* codes against what the two may still set each other back.               *)
(*                                                                         *)
(* BbsEngine.  The engine's tables stay true to its tasks and an external  *)
(* program does not outlive its session, for every set of connections,     *)
(* every cap and any number of cancellations.  The invariant has a part    *)
(* for each kind of connection, saying where its task may be when an entry *)
(* is in a table; the tables are finite because entries are made one at a  *)
(* time.                                                                   *)
(***************************************************************************)
EXTENDS AuthService, BbsEngine, FiniteSetTheorems, TLAPS

\* The statements of a call after a wrong code, and after a right one.
Wrong == {"counting", "recording"}
Right == {"resetting", "advancing"}

\* What the rows and the calls say of each other, whatever overlaps.
Rows ==
    /\ guesses \in Int
    /\ account.id <= accounts
    /\ account.secret <= secrets
    /\ account.locked => account.failures >= MaxAttempts
    /\ \A s \in Sessions :
          /\ stmt[s] \in Wrong \cup Right => seen[s][1] \in 1 .. accounts
          /\ stmt[s] \in Right => seen[s][2] <= MaxCounter + 1

Accounts == [id : 0 .. MaxAccounts, secret : 0 .. MaxSecrets,
             type : {"totp", "hotp"}, counter : 0 .. MaxCounter + 1,
             failures : Nat, locked : BOOLEAN, approved : BOOLEAN]

CallsOK ==
    /\ stmt \in [Sessions -> {"selecting", "inserting", "rereading", "idle", "counting",
                            "recording", "resetting", "advancing", "ended"}]
    /\ id \in [Sessions -> 0 .. MaxAccounts]
    /\ level \in [Sessions -> {"none", "identified", "authenticated"}]
    /\ approved \in [Sessions -> BOOLEAN]
    /\ seen \in [Sessions -> (0 .. MaxAccounts) \X Nat]
    /\ answered \in [Sessions -> (0 .. MaxSecrets) \X (0 .. MaxCounter)]

\* Types and rows: what holds at any time, of any number of sessions.
AuthInv == AuthTypeOK /\ Rows

-----------------------------------------------------------------------------
\* What the handlers write into the row.
LEMMA FailedRow ==
    ASSUME NEW r \in Accounts, NEW n \in Nat
    PROVE  /\ Failed(r, n) \in Accounts
           /\ Failed(r, n).failures = n /\ Failed(r, n).locked = (n >= MaxAttempts)
           /\ Failed(r, n).id = r.id /\ Failed(r, n).secret = r.secret
           /\ Failed(r, n).type = r.type /\ Failed(r, n).counter = r.counter
<1>1. (n >= MaxAttempts) \in BOOLEAN
  OBVIOUS
<1>. QED  BY <1>1 DEF Failed, Accounts

\* increment_hotp_counter() moves the counter and nothing else.
LEMMA AdvancedRow ==
    ASSUME NEW r \in Accounts, NEW n \in 0 .. MaxCounter + 1
    PROVE  /\ Advanced(r, n) \in Accounts /\ Advanced(r, n).counter = n
           /\ Advanced(r, n).failures = r.failures /\ Advanced(r, n).locked = r.locked
           /\ Advanced(r, n).id = r.id /\ Advanced(r, n).secret = r.secret
           /\ Advanced(r, n).type = r.type
BY DEF Advanced, Accounts

\* Of a callsign without account nothing is set.
LEMMA NoAccountRow ==
    /\ NoAccount \in Accounts
    /\ NoAccount.id = 0 /\ NoAccount.secret = 0
    /\ NoAccount.failures = 0 /\ NoAccount.locked = FALSE
<1>1. 0 \in 0 .. MaxAccounts /\ 0 \in 0 .. MaxSecrets /\ 0 \in 0 .. MaxCounter + 1
  BY AuthAssumption DEF AuthAssumption
<1>. QED  BY <1>1 DEF NoAccount, Accounts

\* A new account has no secret and no failures.
LEMMA NewRow ==
    ASSUME NEW n \in 1 .. MaxAccounts, NEW ok \in BOOLEAN
    PROVE  /\ NewAccount(n, ok) \in Accounts
           /\ NewAccount(n, ok).id = n /\ NewAccount(n, ok).secret = 0
           /\ NewAccount(n, ok).failures = 0 /\ NewAccount(n, ok).locked = FALSE
<1>1. n \in 0 .. MaxAccounts
  BY AuthAssumption DEF AuthAssumption
<1>. QED  BY <1>1, NoAccountRow DEF NewAccount, NoAccount, Accounts

\* reset_auth_failures() clears the count and the lock together.
LEMMA ResetRow ==
    ASSUME NEW r \in Accounts, NEW x, x = [r EXCEPT !.failures = 0, !.locked = FALSE]
    PROVE  /\ x \in Accounts /\ x.failures = 0 /\ x.locked = FALSE
           /\ x.id = r.id /\ x.secret = r.secret /\ x.type = r.type
           /\ x.counter = r.counter
BY DEF Accounts

\* A lock that has run out leaves the count.
LEMMA UnlockedRow ==
    ASSUME NEW r \in Accounts, NEW x, x = [r EXCEPT !.locked = FALSE]
    PROVE  /\ x \in Accounts /\ x.failures = r.failures /\ x.locked = FALSE
           /\ x.id = r.id /\ x.secret = r.secret /\ x.type = r.type
           /\ x.counter = r.counter
BY DEF Accounts

\* The sysop's edits of the approval and of the secret leave the rest.
LEMMA ApprovedRow ==
    ASSUME NEW r \in Accounts, NEW ok \in BOOLEAN, NEW x, x = [r EXCEPT !.approved = ok]
    PROVE  /\ x \in Accounts /\ x.failures = r.failures /\ x.locked = r.locked
           /\ x.id = r.id /\ x.secret = r.secret /\ x.type = r.type
           /\ x.counter = r.counter
BY DEF Accounts

\* Without a secret the counter starts again.
LEMMA NoSecretRow ==
    ASSUME NEW r \in Accounts, NEW x, x = [r EXCEPT !.secret = 0, !.counter = 0]
    PROVE  /\ x \in Accounts /\ x.failures = r.failures /\ x.locked = r.locked
           /\ x.id = r.id /\ x.secret = 0
<1>1. 0 \in 0 .. MaxCounter + 1 /\ 0 \in 0 .. MaxSecrets
  BY AuthAssumption DEF AuthAssumption
<1>. QED  BY <1>1 DEF Accounts

-----------------------------------------------------------------------------
\* Nobody has called yet.
LEMMA AuthStarts == AuthInit => AuthInv
<1> SUFFICES ASSUME AuthInit PROVE AuthInv
  OBVIOUS
<1>1. 0 \in 0 .. MaxAccounts /\ 0 \in 0 .. MaxSecrets /\ 0 \in 0 .. MaxCounter
  BY AuthAssumption DEF AuthAssumption
<1>2. account \in Accounts
  BY NoAccountRow DEF AuthInit
<1>3. AuthTypeOK
  BY <1>1, <1>2 DEF AuthInit, AuthTypeOK, Accounts
<1>4. \A s \in Sessions : stmt[s] \notin Wrong \cup Right
  BY DEF AuthInit, Wrong, Right
<1>5. Rows
  <2>1. guesses = 0 /\ accounts = 0 /\ secrets = 0
    BY DEF AuthInit
  <2>2. account.id = 0 /\ account.secret = 0 /\ account.locked = FALSE
    BY NoAccountRow DEF AuthInit
  <2>3. ~account.locked /\ 0 <= 0 /\ 0 \in Nat
    BY <2>2
  <2>4. account.locked => account.failures >= MaxAttempts
    BY <2>3
  <2>5. account.id <= accounts /\ account.secret <= secrets
    BY <2>1, <2>2
  <2>6. \A s \in Sessions :
          /\ stmt[s] \in Wrong \cup Right => seen[s][1] \in 1 .. accounts
          /\ stmt[s] \in Right => seen[s][2] <= MaxCounter + 1
    BY <1>4
  <2>. QED  BY <2>1, <2>3, <2>4, <2>5, <2>6 DEF Rows
<1>. QED  BY <1>3, <1>5 DEF AuthInv

\* The type invariant, taken apart.
LEMMA TypesApart ==
    ASSUME AuthTypeOK
    PROVE  /\ CallsOK /\ account \in Accounts
           /\ accounts \in 0 .. MaxAccounts /\ secrets \in 0 .. MaxSecrets
BY DEF Accounts, CallsOK, AuthTypeOK

\* A session that goes on with its own call leaves the calls of the others.
LEMMA CallRows ==
    ASSUME CallsOK, Rows, NEW s \in Sessions, NEW l, stmt' = [stmt EXCEPT ![s] = l],
           \A t \in Sessions \ {s} : seen'[t] = seen[t],
           l \in Wrong \cup Right => seen'[s][1] \in 1 .. accounts',
           l \in Right => seen'[s][2] <= MaxCounter + 1,
           guesses' \in Int,
           account'.id <= accounts', account'.secret <= secrets',
           account'.locked => account'.failures >= MaxAttempts,
           accounts \in Nat, accounts' \in Nat, accounts <= accounts'
    PROVE  Rows'
<1>1. \A t \in Sessions : stmt'[t] = IF t = s THEN l ELSE stmt[t]
  BY DEF CallsOK
<1>2. \A t \in Sessions :
         /\ stmt'[t] \in Wrong \cup Right => seen'[t][1] \in 1 .. accounts'
         /\ stmt'[t] \in Right => seen'[t][2] <= MaxCounter + 1
  BY <1>1 DEF Rows
<1>. QED  BY <1>2 DEF Rows, Wrong, Right

\* The step of one session, and a step of the sysop or the clock: what has to
\* be shown of the row and of the call that moves.
LEMMA SessionMoves ==
    ASSUME AuthTypeOK, Rows, CallsOK', NEW s \in Sessions, NEW l, stmt' = [stmt EXCEPT ![s] = l],
           \A t \in Sessions \ {s} : seen'[t] = seen[t],
           l \in Wrong \cup Right => seen'[s][1] \in 1 .. accounts',
           l \in Right => seen'[s][2] <= MaxCounter + 1,
           guesses' \in Int,
           account' \in Accounts, account'.id <= accounts', account'.secret <= secrets',
           account'.locked => account'.failures >= MaxAttempts,
           accounts' \in 0 .. MaxAccounts, accounts <= accounts',
           secrets' \in 0 .. MaxSecrets
    PROVE  AuthInv'
<1>1. CallsOK /\ accounts \in Nat /\ accounts' \in Nat
  BY TypesApart, AuthAssumption DEF AuthAssumption
<1>2. Rows'
  BY <1>1, CallRows
<1>3. AuthTypeOK'
  BY DEF CallsOK, AuthTypeOK, Accounts
<1>. QED  BY <1>2, <1>3 DEF AuthInv

\* The row alone changes.
LEMMA RowMoves ==
    ASSUME AuthTypeOK, Rows, stmt' = stmt, reads' = reads,
           guesses' \in Int,
           account' \in Accounts, account'.id <= accounts', account'.secret <= secrets',
           account'.locked => account'.failures >= MaxAttempts,
           accounts' \in 0 .. MaxAccounts, accounts <= accounts',
           secrets' \in 0 .. MaxSecrets
    PROVE  AuthInv'
<1>1. accounts \in Nat /\ accounts' \in Nat
  BY TypesApart, AuthAssumption DEF AuthAssumption
<1>2. UNCHANGED <<id, level, approved, seen, answered>>
  BY DEF reads
<1>3. Rows'
  BY <1>1, <1>2 DEF Rows
<1>4. AuthTypeOK'
  BY <1>2 DEF AuthTypeOK, Accounts
<1>. QED  BY <1>3, <1>4 DEF AuthInv

\* The wrong codes still to be counted are as many as the sessions that gave them.
LEMMA UnrecordedNat == Cardinality(Unrecorded) \in Nat
<1>1. IsFiniteSet(Sessions) /\ Unrecorded \subseteq Sessions
  BY AuthAssumption DEF AuthAssumption, Unrecorded
<1>. QED  BY <1>1, FS_Subset, FS_CardinalityType

\* One step per action; the steps of one session first.
LEMMA AuthStep == AuthInv /\ [AuthNext]_authVars => AuthInv'
<1> SUFFICES ASSUME AuthInv, [AuthNext]_authVars PROVE AuthInv'
  OBVIOUS
<1>0. /\ AuthTypeOK /\ Rows /\ CallsOK /\ account \in Accounts
      /\ accounts \in 0 .. MaxAccounts /\ secrets \in 0 .. MaxSecrets
      /\ accounts \in Nat /\ secrets \in Nat
      /\ MaxAttempts \in Nat \ {0} /\ MaxAccounts \in Nat /\ MaxSecrets \in Nat
      /\ MaxCounter \in Nat /\ Approves \in BOOLEAN
  BY TypesApart, AuthAssumption DEF AuthInv, AuthAssumption
<1>r. /\ guesses \in Int
      /\ account.id <= accounts /\ account.secret <= secrets
      /\ account.locked => account.failures >= MaxAttempts
      /\ accounts <= accounts
  BY <1>0 DEF Rows
<1>a. /\ account.id \in 0 .. MaxAccounts /\ account.secret \in 0 .. MaxSecrets
      /\ account.failures \in Nat /\ account.locked \in BOOLEAN
      /\ account.approved \in BOOLEAN /\ account.counter \in 0 .. MaxCounter + 1
      /\ account.type \in {"totp", "hotp"}
  BY <1>0 DEF Accounts
<1>z. /\ 0 \in 0 .. MaxAccounts /\ BadCode \in (0 .. MaxSecrets) \X (0 .. MaxCounter)
      /\ <<0, 0>> \in (0 .. MaxAccounts) \X Nat
  BY <1>0 DEF BadCode
<1>1. ASSUME NEW s \in Sessions, Select(s) \/ Reread(s)
      PROVE  AuthInv'
  <2>1. PICK l \in {"idle", "inserting", "ended"} : stmt' = [stmt EXCEPT ![s] = l]
    BY <1>1 DEF Select, Reread, Recognised, Proceed
  <2>2. CallsOK'
    BY <1>0, <1>1, <1>a DEF Select, Reread, Recognised, Proceed, CallsOK
  <2>3. UNCHANGED <<account, accounts, secrets, seen, guesses>>
    BY <1>1 DEF Select, Reread, history
  <2>4. l \notin Wrong \cup Right
    BY DEF Wrong, Right
  <2>. QED  BY <1>0, <1>r, <2>1, <2>2, <2>3, <2>4, SessionMoves
<1>2. ASSUME NEW s \in Sessions, Insert(s)
      PROVE  AuthInv'
  <2>1. PICK l \in {"rereading", "ended"} : stmt' = [stmt EXCEPT ![s] = l]
    BY <1>2 DEF Insert, Proceed
  <2>2. CallsOK'
    BY <1>0, <1>2 DEF Insert, Proceed, CallsOK, reads
  <2>3. UNCHANGED <<secrets, seen, guesses>>
    BY <1>2 DEF Insert, reads, history
  <2>4. l \notin Wrong \cup Right
    BY DEF Wrong, Right
  <2>5. CASE Exists
    <3>1. UNCHANGED <<account, accounts>>
      BY <1>2, <2>5 DEF Insert
    <3>. QED  BY <1>0, <1>r, <2>1, <2>2, <2>3, <2>4, <3>1, SessionMoves
  <2>6. CASE ~Exists
    <3>1. accounts' = accounts + 1 /\ account' = NewAccount(accounts + 1, Approves)
          /\ accounts < MaxAccounts
      BY <1>2, <2>6 DEF Insert
    <3>2. accounts + 1 \in 1 .. MaxAccounts /\ accounts' \in 0 .. MaxAccounts
          /\ accounts <= accounts'
      BY <1>0, <3>1
    <3>3. /\ account' \in Accounts /\ account'.id = accounts' /\ account'.secret = 0
          /\ account'.locked = FALSE
      BY <1>0, <3>1, <3>2, NewRow
    <3>4. /\ account'.id <= accounts' /\ account'.secret <= secrets'
          /\ account'.locked => account'.failures >= MaxAttempts
      BY <1>0, <2>3, <3>2, <3>3
    <3>. QED  BY <1>0, <1>r, <2>1, <2>2, <2>3, <2>4, <3>2, <3>3, <3>4, SessionMoves
  <2>. QED  BY <2>5, <2>6
<1>3. ASSUME NEW s \in Sessions, Answer(s)
      PROVE  AuthInv'
  <2>1. PICK code \in Codes :
          /\ Exists
          /\ IF Accepts(account, code)
             THEN /\ Proceed(s, "resetting")
                  /\ answered' = [answered EXCEPT ![s] = code]
                  /\ seen' = [seen EXCEPT ![s] = <<account.id, NextCounter(account, code)>>]
                  /\ UNCHANGED guesses
             ELSE /\ Proceed(s, "counting")
                  /\ seen' = [seen EXCEPT ![s] = <<account.id, 0>>]
                  /\ guesses' = guesses + 1
                  /\ UNCHANGED answered
          /\ UNCHANGED <<account, accounts, secrets, id, level, approved>>
    BY <1>3 DEF Answer
  <2>2. code \in (0 .. MaxSecrets) \X (0 .. MaxCounter)
    BY <1>0, <1>z DEF Codes
  <2>3. NextCounter(account, code) \in Nat /\ NextCounter(account, code) <= MaxCounter + 1
    BY <1>0, <2>2 DEF NextCounter
  <2>4. PICK l \in {"resetting", "counting"}, n \in Nat :
          /\ stmt' = [stmt EXCEPT ![s] = l]
          /\ seen' = [seen EXCEPT ![s] = <<account.id, n>>]
          /\ n <= MaxCounter + 1
    BY <1>0, <2>1, <2>3 DEF Proceed
  <2>5. <<account.id, n>> \in (0 .. MaxAccounts) \X Nat
    BY <1>a
  <2>6. CallsOK'
    BY <1>0, <2>1, <2>2, <2>4, <2>5 DEF CallsOK
  <2>7. seen'[s] = <<account.id, n>> /\ account.id \in 1 .. accounts
        /\ \A t \in Sessions \ {s} : seen'[t] = seen[t]
    BY <1>0, <1>r, <1>a, <2>1, <2>4 DEF CallsOK, Exists
  <2>8. UNCHANGED <<account, accounts,
    secrets>> /\ guesses' \in Int
    BY <1>r, <2>1
  <2>9. seen'[s][1] \in 1 .. accounts' /\ seen'[s][2] <= MaxCounter + 1
    BY <2>4, <2>7, <2>8
  <2>. QED  BY <1>0, <1>r, <2>4, <2>6, <2>7, <2>8, <2>9, SessionMoves
<1>4. ASSUME NEW s \in Sessions, Count(s)
      PROVE  AuthInv'
  <2>1. /\ stmt[s] = "counting" /\ stmt' = [stmt EXCEPT ![s] = "recording"]
        /\ UNCHANGED <<account, accounts, secrets, id, level, approved, answered,
          guesses>>
    BY <1>4 DEF Count, Proceed, history
  <2>2. PICK n \in Nat : seen' = [seen EXCEPT ![s][2] = n]
    BY <1>4, <1>a DEF Count
  <2>3. seen'[s][1] = seen[s][1] /\ seen' \in [Sessions -> (0 .. MaxAccounts) \X Nat]
        /\ \A t \in Sessions \ {s} : seen'[t] = seen[t]
    BY <1>0, <2>2 DEF CallsOK
  <2>4. CallsOK'
    BY <1>0, <2>1, <2>3 DEF CallsOK
  <2>5. seen'[s][1] \in 1 .. accounts' /\ "recording" \notin Right
    BY <1>0, <2>1, <2>3 DEF Rows, Wrong, Right
  <2>. QED  BY <1>0, <1>r, <2>1, <2>3, <2>4, <2>5, SessionMoves
<1>5. ASSUME NEW s \in Sessions, Record(s)
      PROVE  AuthInv'
  <2>1. /\ stmt' = [stmt EXCEPT ![s] = "idle"] /\ seen' = [seen EXCEPT ![s] = <<0, 0>>]
        /\ UNCHANGED <<accounts, secrets, id, level, approved, answered, guesses>>
    BY <1>5 DEF Record, Proceed, history
  <2>2. CallsOK' /\ \A t \in Sessions \ {s} : seen'[t] = seen[t]
    BY <1>0, <1>z, <2>1 DEF CallsOK
  <2>3. seen[s][2] + 1 \in Nat
    BY <1>0 DEF CallsOK
  <2>4. /\ account' \in Accounts /\ account'.id = account.id
        /\ account'.secret = account.secret
        /\ account'.locked => account'.failures >= MaxAttempts
    <3>1. account' = account \/ account' = Failed(account, seen[s][2] + 1)
      BY <1>5 DEF Record, Update
    <3>2. CASE account' = account
      BY <1>0, <1>r, <3>2
    <3>3. CASE account' = Failed(account, seen[s][2] + 1)
      BY <1>0, <2>3, <3>3, FailedRow
    <3>. QED  BY <3>1, <3>2, <3>3
  <2>5. "idle" \notin Wrong \cup Right
    BY DEF Wrong, Right
  <2>. QED  BY <1>0, <1>r, <2>1, <2>2, <2>4, <2>5, SessionMoves
<1>6. ASSUME NEW s \in Sessions, Reset(s)
      PROVE  AuthInv'
  <2>1. /\ stmt[s] = "resetting" /\ stmt' = [stmt EXCEPT ![s] = "advancing"]
        /\ UNCHANGED <<accounts, secrets, id, level, approved, seen, answered>>
        /\ guesses' \in Int
    BY <1>6, <1>r, UnrecordedNat DEF Reset, Proceed, reads
  <2>2. CallsOK'
    BY <1>0, <2>1 DEF CallsOK
  <2>3. /\ account' \in Accounts /\ account'.id = account.id
        /\ account'.secret = account.secret
        /\ account'.locked => account'.failures >= MaxAttempts
    BY <1>0, <1>r, <1>6, ResetRow DEF Reset, Update
  <2>4. seen'[s][1] \in 1 .. accounts' /\ seen'[s][2] <= MaxCounter + 1
    BY <1>0, <2>1 DEF Rows, Right
  <2>. QED  BY <1>0, <1>r, <2>1, <2>2, <2>3, <2>4, SessionMoves
<1>7. ASSUME NEW s \in Sessions, Grant(s)
      PROVE  AuthInv'
  <2>1. /\ stmt[s] = "advancing" /\ stmt' = [stmt EXCEPT ![s] = "idle"]
        /\ level' = [level EXCEPT ![s] = "authenticated"]
        /\ id' = [id EXCEPT ![s] = seen[s][1]]
        /\ seen' = [seen EXCEPT ![s] = <<0, 0>>]
        /\ answered' = [answered EXCEPT ![s] = BadCode]
        /\ UNCHANGED <<accounts, secrets, approved, guesses>>
    BY <1>7 DEF Grant, Proceed
  <2>2. seen[s][1] \in 0 .. MaxAccounts /\ seen[s][2] \in Nat
    BY <1>0 DEF CallsOK
  <2>3. CallsOK' /\ \A t \in Sessions \ {s} : seen'[t] = seen[t]
    BY <1>0, <1>z, <2>1, <2>2 DEF CallsOK
  <2>4. seen[s][2] \in 0 .. MaxCounter + 1
    BY <1>0, <2>1, <2>2 DEF Rows, Right
  <2>5. /\ account' \in Accounts /\ account'.id = account.id
        /\ account'.secret = account.secret
        /\ account'.locked => account'.failures >= MaxAttempts
    <3>1. account' = account \/ account' = Advanced(account, seen[s][2])
      BY <1>7 DEF Grant, Update
    <3>2. CASE account' = account
      BY <1>0, <1>r, <3>2
    <3>3. CASE account' = Advanced(account, seen[s][2])
      BY <1>0, <1>r, <2>4, <3>3, AdvancedRow
    <3>. QED  BY <3>1, <3>2, <3>3
  <2>6. "idle" \notin Wrong \cup Right
    BY DEF Wrong, Right
  <2>. QED  BY <1>0, <1>r, <2>1, <2>3, <2>5, <2>6, SessionMoves
<1>8. ASSUME NEW s \in Sessions, Disconnect(s)
      PROVE  AuthInv'
  <2>1. /\ stmt' = [stmt EXCEPT ![s] = "selecting"]
        /\ seen' = [seen EXCEPT ![s] = <<0, 0>>]
        /\ UNCHANGED <<account, accounts, secrets>>
    BY <1>8 DEF Disconnect, Proceed
  <2>2. guesses' \in Int
    BY <1>8, <1>r DEF Disconnect
  <2>3. CallsOK' /\ \A t \in Sessions \ {s} : seen'[t] = seen[t]
    BY <1>0, <1>z, <1>8, <2>1 DEF Disconnect, CallsOK
  <2>4. "selecting" \notin Wrong \cup Right
    BY DEF Wrong, Right
  <2>. QED  BY <1>0, <1>r, <2>1, <2>2, <2>3, <2>4, SessionMoves
<1>9. ASSUME LockExpires \/ UpdateUser
      PROVE  AuthInv'
  <2>1. /\ UNCHANGED <<accounts, secrets, stmt, reads>> /\ guesses' \in Int
    BY <1>9, <1>r, UnrecordedNat DEF LockExpires, UpdateUser, history
  <2>2. /\ account' \in Accounts /\ account'.id = account.id
        /\ account'.secret = account.secret
        /\ account'.locked => account'.failures >= MaxAttempts
    <3>1. CASE LockExpires
      <4>1. account' = [account EXCEPT !.locked = FALSE]
        BY <3>1 DEF LockExpires
      <4>. QED  BY <1>0, <4>1, UnlockedRow
    <3>2. CASE UpdateUser
      <4>1. PICK ok \in BOOLEAN : account' = [account EXCEPT !.approved = ok]
        BY <3>2 DEF UpdateUser
      <4>. QED  BY <1>0, <1>r, <4>1, ApprovedRow
    <3>. QED  BY <1>9, <3>1, <3>2
  <2>. QED  BY <1>0, <1>r, <2>1, <2>2, RowMoves
<1>10. ASSUME CreateUser
      PROVE  AuthInv'
  <2>1. /\ accounts < MaxAccounts /\ accounts' = accounts + 1
        /\ UNCHANGED <<secrets, stmt, reads, guesses>>
    BY <1>10 DEF CreateUser, history
  <2>2. accounts + 1 \in 1 .. MaxAccounts /\ accounts' \in 0 .. MaxAccounts
        /\ accounts <= accounts'
    BY <1>0, <2>1
  <2>3. /\ account' \in Accounts /\ account'.id = accounts' /\ account'.secret = 0
        /\ account'.locked = FALSE
    <3>1. PICK ok \in BOOLEAN : account' = NewAccount(accounts + 1, ok)
      BY <1>10 DEF CreateUser
    <3>. QED  BY <2>1, <2>2, <3>1, NewRow
  <2>4. /\ account'.id <= accounts' /\ account'.secret <= secrets'
        /\ account'.locked => account'.failures >= MaxAttempts
    BY <1>0, <2>1, <2>2, <2>3
  <2>. QED  BY <1>0, <1>r, <2>1, <2>2, <2>3, <2>4, RowMoves
<1>11. ASSUME DeleteUser
      PROVE  AuthInv'
  <2>1. /\ account' = NoAccount /\ guesses' = 0
        /\ UNCHANGED <<accounts, secrets, stmt, reads>>
    BY <1>11 DEF DeleteUser
  <2>2. /\ account' \in Accounts /\ account'.id <= accounts' /\ account'.secret <= secrets'
        /\ account'.locked => account'.failures >= MaxAttempts
    BY <1>0, <2>1, NoAccountRow
  <2>. QED  BY <1>0, <1>r, <2>1, <2>2, RowMoves
<1>12. ASSUME SetUserSecret \/ ClearUserSecret
      PROVE  AuthInv'
  <2>1. UNCHANGED <<accounts, stmt, reads, guesses>>
    BY <1>12 DEF SetUserSecret, ClearUserSecret, history
  <2>2. /\ secrets' \in 0 .. MaxSecrets /\ account'.secret <= secrets'
        /\ account' \in Accounts /\ account'.id = account.id
        /\ account'.locked = account.locked /\ account'.failures = account.failures
    <3>1. CASE SetUserSecret
      <4>1. PICK ty \in Types, k \in 1 .. secrets + 1 :
               /\ k <= MaxSecrets /\ secrets' = IF k > secrets THEN k ELSE secrets
               /\ account' = [account EXCEPT !.secret = k, !.type = ty, !.counter = 0]
        BY <3>1 DEF SetUserSecret
      <4>2. ty \in {"totp", "hotp"} /\ 0 \in 0 .. MaxCounter + 1
        BY <1>0, AuthAssumption DEF AuthAssumption
      <4>3. k \in 0 .. MaxSecrets /\ secrets' \in 0 .. MaxSecrets /\ k <= secrets'
        BY <1>0, <4>1
      <4>4. /\ account' \in Accounts /\ account'.id = account.id
            /\ account'.secret = k
            /\ account'.locked = account.locked /\ account'.failures = account.failures
        BY <1>0, <4>1, <4>2, <4>3 DEF Accounts
      <4>. QED  BY <4>3, <4>4
    <3>2. CASE ClearUserSecret
      <4>1. account' = [account EXCEPT !.secret = 0, !.counter = 0] /\ secrets' = secrets
        BY <3>2 DEF ClearUserSecret
      <4>2. /\ account' \in Accounts /\ account'.id = account.id
            /\ account'.secret = 0
            /\ account'.locked = account.locked /\ account'.failures = account.failures
        BY ONLY <1>0, <4>1, NoSecretRow
      <4>. QED  BY <1>0, <4>1, <4>2
    <3>. QED  BY <1>12, <3>1, <3>2
  <2>4. /\ account'.id <= accounts' /\ account'.secret <= secrets'
        /\ account'.locked => account'.failures >= MaxAttempts
    BY <1>r, <2>1, <2>2
  <2>5. UNCHANGED accounts /\ stmt' = stmt /\ reads' = reads /\ guesses' \in Int
    BY <1>r, <2>1
  <2>. QED  BY <1>0, <1>r, <2>1, <2>2, <2>4, <2>5, RowMoves
<1>13. ASSUME UNCHANGED authVars
      PROVE  AuthInv'
  BY <1>0, <1>r, <1>13, RowMoves DEF authVars, history
<1>. QED
  BY <1>1, <1>2, <1>3, <1>4, <1>5, <1>6, <1>7, <1>8, <1>9, <1>10, <1>11, <1>12, <1>13
     DEF AuthNext

\* The types hold whatever overlaps.
THEOREM AuthTypes == AuthSpec => []AuthTypeOK
<1>1. AuthInv => AuthTypeOK
  BY DEF AuthInv
<1>. QED  BY AuthStarts, AuthStep, <1>1, PTL DEF AuthSpec

-----------------------------------------------------------------------------
\* One-time codes.

\* A code that has been granted is behind the counter of the secret it is of.
Spent ==
    \A c \in granted : /\ c[1] # 0 /\ c[2] \in Nat
                       /\ c[1] = account.secret => c[2] < account.counter

\* A right code leads to the counter that follows it, and is ahead of those that
\* have been granted since, if none was while it was under way.
Ahead(s) ==
    /\ answered[s][1] # 0 /\ answered[s][2] \in Nat
    /\ seen[s][2] = answered[s][2] + 1
    /\ s \notin stale =>
          \A c \in granted :
             c[1] \in {account.secret, answered[s][1]} => c[2] < answered[s][2]

Fresh == Spent /\ \A s \in Sessions : stmt[s] \in Right /\ seen[s][2] # 0 => Ahead(s)

\* Nothing has been granted yet.
LEMMA FreshInit == AuthInit => Fresh
BY DEF AuthInit, Fresh, Spent, Right

\* A step that accepts no code and gives no access, and leaves the counter of the
\* secret as it is unless no code of the secret is known.
LEMMA FreshKept ==
    ASSUME Fresh, granted' \subseteq granted,
           \/ account'.secret = account.secret /\ account'.counter = account.counter
           \/ \A c \in granted' : c[1] # account'.secret,
           \A t \in Sessions : stmt'[t] \in Right =>
              /\ stmt[t] \in Right /\ seen'[t] = seen[t] /\ answered'[t] = answered[t]
              /\ t \in stale => t \in stale'
    PROVE  Fresh'
<1>1. Spent'
  BY DEF Fresh, Spent
<1>2. ASSUME NEW t \in Sessions, stmt'[t] \in Right, seen'[t][2] # 0
      PROVE  Ahead(t)'
  <2>1. Ahead(t)
    BY <1>2 DEF Fresh
  <2>2. answered'[t] = answered[t] /\ seen'[t] = seen[t] /\ (t \notin stale' => t \notin stale)
    BY <1>2
  <2>. QED  BY <2>1, <2>2 DEF Ahead
<1>. QED  BY <1>1, <1>2 DEF Fresh, Right

\* A step of one session within or out of its call.
LEMMA FreshMoves ==
    ASSUME AuthInv, Fresh, granted' = granted,
           \/ account'.secret = account.secret /\ account'.counter = account.counter
           \/ account'.secret = 0,
           NEW s \in Sessions, NEW l, stmt' = [stmt EXCEPT ![s] = l],
           l \in Right => /\ stmt[s] \in Right /\ seen'[s] = seen[s]
                          /\ answered'[s] = answered[s] /\ stale' = stale,
           \A t \in Sessions \ {s} : seen'[t] = seen[t] /\ answered'[t] = answered[t],
           stale \ {s} \subseteq stale'
    PROVE  Fresh'
<1>1. \A t \in Sessions : stmt'[t] = IF t = s THEN l ELSE stmt[t]
  BY TypesApart DEF AuthInv, CallsOK
<1>2. account'.secret = 0 => \A c \in granted' : c[1] # account'.secret
  BY DEF Fresh, Spent
<1>. QED  BY <1>1, <1>2, FreshKept

\* The answer to a code: the right one is at the counter or ahead.
LEMMA FreshAnswer ==
    ASSUME AuthInv, Fresh, NEW s \in Sessions, Answer(s)
    PROVE  Fresh'
<1>0. AuthTypeOK /\ CallsOK /\ account \in Accounts /\ secrets \in Nat
      /\ MaxCounter \in Nat
  BY TypesApart, AuthAssumption DEF AuthInv, AuthAssumption
<1>1. PICK code \in Codes :
        /\ account.secret # 0
        /\ IF Accepts(account, code)
           THEN /\ Proceed(s, "resetting")
                /\ answered' = [answered EXCEPT ![s] = code]
                /\ seen' = [seen EXCEPT ![s] = <<account.id, NextCounter(account, code)>>]
           ELSE /\ Proceed(s, "counting")
                /\ seen' = [seen EXCEPT ![s] = <<account.id, 0>>]
                /\ UNCHANGED answered
        /\ UNCHANGED <<account, granted, stale>>
  BY DEF Answer
<1>2. CASE ~Accepts(account, code)
  <2>1. /\ stmt' = [stmt EXCEPT ![s] = "counting"] /\ "counting" \notin Right
        /\ \A t \in Sessions \ {s} : seen'[t] = seen[t] /\ answered'[t] = answered[t]
    BY <1>0, <1>1, <1>2 DEF Proceed, CallsOK, Right
  <2>. QED  BY <1>1, <2>1, FreshMoves
<1>3. CASE Accepts(account, code)
  <2>1. /\ \A t \in Sessions \ {s} : /\ stmt'[t] = stmt[t]
                                     /\ seen'[t] = seen[t] /\ answered'[t] = answered[t]
        /\ answered'[s] = code /\ seen'[s][2] = NextCounter(account, code)
    BY <1>0, <1>1, <1>3 DEF Proceed, CallsOK
  <2>2. Spent'
    BY <1>1 DEF Fresh, Spent
  <2>3. ASSUME NEW t \in Sessions \ {s}, stmt'[t] \in Right, seen'[t][2] # 0
        PROVE  Ahead(t)'
    BY <1>1, <2>1, <2>3 DEF Fresh, Ahead
  <2>4. ASSUME seen'[s][2] # 0
        PROVE  Ahead(s)'
    <3>1. account.type = "hotp" /\ seen'[s][2] = code[2] + 1
      BY <2>1, <2>4 DEF NextCounter
    <3>2. code[1] = account.secret /\ code[2] - account.counter \in LookAhead
      BY <1>3, <3>1 DEF Accepts
    <3>3. code[2] \in Nat /\ account.counter \in Nat
      BY <1>0 DEF Codes, BadCode, Accounts
    <3>4. code[2] >= account.counter
      BY <3>2, <3>3 DEF LookAhead
    <3>5. \A c \in granted : c[1] = account.secret => c[2] < code[2]
      BY <3>3, <3>4 DEF Fresh, Spent
    <3>. QED  BY <1>1, <2>1, <3>1, <3>2, <3>3, <3>5 DEF Ahead
  <2>. QED  BY <2>2, <2>3, <2>4 DEF Fresh, Right
<1>. QED  BY <1>2, <1>3

\* The access: the counter moves past the code, or, by a stale call, back to
\* just behind it.
LEMMA FreshGrant ==
    ASSUME AuthInv, Fresh, NEW s \in Sessions, Grant(s)
    PROVE  Fresh'
<1>0. AuthTypeOK /\ CallsOK /\ account \in Accounts
  BY TypesApart DEF AuthInv
<1>1. /\ stmt[s] = "advancing" /\ stmt' = [stmt EXCEPT ![s] = "idle"]
      /\ account' = IF seen[s][2] = 0 THEN account
                    ELSE Update(s, Advanced(account, seen[s][2]))
      /\ "idle" \notin Right /\ stmt[s] \in Right
      /\ \A t \in Sessions \ {s} : seen'[t] = seen[t] /\ answered'[t] = answered[t]
  BY <1>0 DEF Grant, Proceed, Right, CallsOK
<1>2. CASE ~(seen[s][2] # 0 /\ Current(s))
  <2>1. granted' = granted /\ stale' = stale \ {s} /\ account' = account
    BY <1>1, <1>2 DEF Grant, Update
  <2>. QED  BY <1>1, <2>1, FreshMoves
<1>3. CASE seen[s][2] # 0 /\ Current(s)
  <2>1. /\ granted' = Behind(s) \cup {answered[s]} /\ stale' = (stale \cup Accepted) \ {s}
        /\ account' = Advanced(account, seen[s][2])
    BY <1>1, <1>3 DEF Grant, Update
  <2>2. Ahead(s) /\ Spent
    BY <1>1, <1>3 DEF Fresh
  <2>3. seen[s][2] \in 0 .. MaxCounter + 1
    BY <1>0, <1>1 DEF AuthInv, Rows, CallsOK
  <2>4. account'.counter = seen[s][2] /\ account'.secret = account.secret
    BY <1>0, <2>1, <2>3, AdvancedRow
  <2>5. seen[s][2] = answered[s][2] + 1 /\ answered[s][2] \in Nat /\ answered[s][1] # 0
    BY <2>2 DEF Ahead
  <2>6. ASSUME NEW c \in Behind(s), c[1] = account.secret
        PROVE  c[2] < seen[s][2]
    <3>1. CASE s \in stale
      BY <2>6, <3>1 DEF Behind
    <3>2. CASE s \notin stale
      <4>1. c \in granted /\ c[2] \in Nat /\ c[2] < answered[s][2]
        BY <2>2, <2>6, <3>2 DEF Behind, Spent, Ahead
      <4>. QED  BY <2>5, <4>1
    <3>. QED  BY <3>1, <3>2
  <2>7. \A c \in Behind(s) : c[1] # 0 /\ c[2] \in Nat
    BY <2>2 DEF Behind, Spent
  <2>8. answered[s][2] < seen[s][2]
    BY <2>5
  <2>9. Spent'
    BY <2>1, <2>4, <2>5, <2>6, <2>7, <2>8 DEF Spent
  <2>10. ASSUME NEW t \in Sessions, stmt'[t] \in Right, seen'[t][2] # 0
         PROVE  Ahead(t)'
    <3>1. t # s /\ stmt[t] \in Right
      BY <1>0, <1>1, <2>10 DEF CallsOK
    <3>2. t \in stale'
      BY <2>1, <3>1 DEF Accepted, Right
    <3>3. Ahead(t) /\ seen'[t] = seen[t] /\ answered'[t] = answered[t]
      BY <1>1, <2>10, <3>1 DEF Fresh
    <3>. QED  BY <3>2, <3>3 DEF Ahead
  <2>. QED  BY <2>9, <2>10 DEF Fresh, Right
<1>. QED  BY <1>2, <1>3

\* Every step keeps the codes that were granted behind the counter.
LEMMA FreshStep == AuthInv /\ Fresh /\ [AuthNext]_authVars => Fresh'
<1> SUFFICES ASSUME AuthInv, Fresh, [AuthNext]_authVars PROVE Fresh'
  OBVIOUS
<1>0. /\ AuthTypeOK /\ Rows /\ CallsOK /\ account \in Accounts
      /\ accounts \in 0 .. MaxAccounts /\ MaxAccounts \in Nat /\ Approves \in BOOLEAN
  BY TypesApart, AuthAssumption DEF AuthInv, Rows, AuthAssumption
<1>a. /\ "idle" \notin Right /\ "inserting" \notin Right /\ "ended" \notin Right
      /\ "rereading" \notin Right /\ "recording" \notin Right /\ "selecting" \notin Right
      /\ {"resetting", "advancing"} = Right
  BY DEF Right
<1>1. ASSUME NEW s \in Sessions, Select(s) \/ Reread(s)
      PROVE  Fresh'
  <2>1. PICK l \in {"idle", "inserting", "ended"} : stmt' = [stmt EXCEPT ![s] = l]
    BY <1>1 DEF Select, Reread, Recognised, Proceed
  <2>2. UNCHANGED <<account, seen, answered, granted, stale>>
    BY <1>1 DEF Select, Reread, history
  <2>. QED  BY <1>a, <2>1, <2>2, FreshMoves
<1>2. ASSUME NEW s \in Sessions, Insert(s)
      PROVE  Fresh'
  <2>1. PICK l \in {"rereading", "ended"} : stmt' = [stmt EXCEPT ![s] = l]
    BY <1>2 DEF Insert, Proceed
  <2>2. UNCHANGED <<seen, answered, granted, stale>>
    BY <1>2 DEF Insert, reads, history
  <2>3. account' = account \/ account'.secret = 0
    <3>1. ASSUME ~Exists
          PROVE  account'.secret = 0
      <4>1. account' = NewAccount(accounts + 1, Approves) /\ accounts + 1 \in 1 .. MaxAccounts
        BY <1>0, <1>2, <3>1 DEF Insert
      <4>. QED  BY <1>0, <4>1, NewRow
    <3>. QED  BY <1>2, <3>1 DEF Insert
  <2>. QED  BY <1>a, <2>1, <2>2, <2>3, FreshMoves
<1>3. ASSUME NEW s \in Sessions, Count(s)
      PROVE  Fresh'
  <2>1. /\ stmt' = [stmt EXCEPT ![s] = "recording"]
        /\ UNCHANGED <<account, answered, granted, stale>>
        /\ \A t \in Sessions \ {s} : seen'[t] = seen[t]
    BY <1>0, <1>3 DEF Count, Proceed, history, CallsOK
  <2>. QED  BY <1>a, <2>1, FreshMoves
<1>4. ASSUME NEW s \in Sessions, Record(s)
      PROVE  Fresh'
  <2>1. /\ stmt' = [stmt EXCEPT ![s] = "idle"] /\ seen' = [seen EXCEPT ![s] = <<0, 0>>]
        /\ UNCHANGED <<answered, granted, stale>>
        /\ account' = account \/ account' = Failed(account, seen[s][2] + 1)
    BY <1>4 DEF Record, Proceed, Update, history
  <2>2. seen[s][2] + 1 \in Nat /\ \A t \in Sessions \ {s} : seen'[t] = seen[t]
    BY <1>0, <2>1 DEF CallsOK
  <2>3. account'.secret = account.secret /\ account'.counter = account.counter
    <3>1. CASE account' = account
      BY <3>1
    <3>2. CASE account' = Failed(account, seen[s][2] + 1)
      BY <1>0, <2>2, <3>2, FailedRow
    <3>. QED  BY <2>1, <3>1, <3>2
  <2>. QED  BY <1>a, <2>1, <2>2, <2>3, FreshMoves
<1>5. ASSUME NEW s \in Sessions, Reset(s)
      PROVE  Fresh'
  <2>1. /\ stmt[s] = "resetting" /\ stmt' = [stmt EXCEPT ![s] = "advancing"]
        /\ UNCHANGED <<seen, answered, granted, stale>>
        /\ account' = Update(s, [account EXCEPT !.failures = 0, !.locked = FALSE])
    BY <1>5 DEF Reset, Proceed, reads
  <2>2. account'.secret = account.secret /\ account'.counter = account.counter
    BY <1>0, <2>1, ResetRow DEF Update
  <2>. QED  BY <1>a, <2>1, <2>2, FreshMoves
<1>6. ASSUME NEW s \in Sessions, Disconnect(s)
      PROVE  Fresh'
  <2>1. /\ stmt' = [stmt EXCEPT ![s] = "selecting"]
        /\ UNCHANGED <<account, granted>> /\ stale' = stale \ {s}
        /\ \A t \in Sessions \ {s} : seen'[t] = seen[t] /\ answered'[t] = answered[t]
    BY <1>0, <1>6 DEF Disconnect, Proceed, CallsOK
  <2>. QED  BY <1>a, <2>1, FreshMoves
<1>7. ASSUME \/ LockExpires \/ UpdateUser \/ UNCHANGED authVars
             \/ CreateUser \/ DeleteUser \/ ClearUserSecret
      PROVE  Fresh'
  <2>1. UNCHANGED <<stmt, seen, answered, granted, stale>>
    BY <1>7 DEF LockExpires, UpdateUser, CreateUser, DeleteUser, ClearUserSecret, authVars,
                reads, history
  <2>2. \/ account'.secret = account.secret /\ account'.counter = account.counter
        \/ account'.secret = 0
    <3>1. CASE LockExpires
      <4>1. account' = [account EXCEPT !.locked = FALSE]
        BY <3>1 DEF LockExpires
      <4>. QED  BY <1>0, <4>1, UnlockedRow
    <3>2. CASE UpdateUser
      <4>1. PICK ok \in BOOLEAN : account' = [account EXCEPT !.approved = ok]
        BY <3>2 DEF UpdateUser
      <4>. QED  BY <1>0, <4>1, ApprovedRow
    <3>3. CASE CreateUser
      <4>1. PICK ok \in BOOLEAN :
              account' = NewAccount(accounts + 1, ok) /\ accounts + 1 \in 1 .. MaxAccounts
        BY <1>0, <3>3 DEF CreateUser
      <4>. QED  BY <4>1, NewRow
    <3>4. CASE DeleteUser
      BY <3>4, NoAccountRow DEF DeleteUser
    <3>5. CASE ClearUserSecret
      <4>1. account' = [account EXCEPT !.secret = 0, !.counter = 0]
        BY <3>5 DEF ClearUserSecret
      <4>. QED  BY <1>0, <4>1, NoSecretRow
    <3>. QED  BY <1>7, <3>1, <3>2, <3>3, <3>4, <3>5 DEF authVars
  <2>3. account'.secret = 0 => \A c \in granted' : c[1] # account'.secret
    BY <2>1 DEF Fresh, Spent
  <2>. QED  BY <2>1, <2>2, <2>3, FreshKept
<1>8. ASSUME SetUserSecret
      PROVE  Fresh'
  <2>1. PICK ty \in Types, k \in 1 .. secrets + 1 :
           /\ account' = [account EXCEPT !.secret = k, !.type = ty, !.counter = 0]
           /\ granted' = {c \in granted : c[1] # k}
           /\ UNCHANGED <<stmt, reads, stale>>
    BY <1>8 DEF SetUserSecret
  <2>2. account'.secret = k
    BY <1>0, <2>1 DEF Accounts
  <2>. QED  BY <2>1, <2>2, FreshKept DEF reads
<1>. QED
  BY <1>1, <1>2, <1>3, <1>4, <1>5, <1>6, <1>7, <1>8, FreshAnswer, FreshGrant DEF AuthNext

\* An HOTP code that has given access gives it again only to a call it overtook,
\* or after such a call has put the counter back, or once the sysop has set its
\* secret anew (verify_otp, increment_hotp_counter, set_user_secret).
THEOREM CodeOnceHolds == AuthSpec => CodeOnce
<1>1. ASSUME AuthInv, Fresh, NEW s \in Sessions, Grant(s), seen[s][2] # 0, s \notin stale
      PROVE  answered[s] \notin granted
  <2>1. Ahead(s)
    BY <1>1 DEF Fresh, Grant, Right
  <2>2. answered[s][2] \in Nat
    BY <2>1 DEF Ahead
  <2>3. answered[s] \in granted => answered[s][2] < answered[s][2]
    BY <1>1, <2>1 DEF Ahead
  <2>. QED  BY <2>2, <2>3
<1>2. AuthInv /\ Fresh =>
        [\A s \in Sessions :
           Grant(s) /\ seen[s][2] # 0 /\ s \notin stale => answered[s] \notin granted]_authVars
  BY <1>1
<1>. QED  BY AuthStarts, AuthStep, FreshInit, FreshStep, <1>2, PTL DEF AuthSpec, CodeOnce

-----------------------------------------------------------------------------
\* The lockout, of two sessions.

\* Twice the wrong codes that may still be tried, in terms of what is left of
\* the count for each session and of the sessions that are free to try: the
\* session with less left can set the other's count back with every failure
\* that it records.
D(m) == m * (m + 3)
Due(x, y, f) == IF x <= y THEN 2 * x + D(y) + 2 * f ELSE 2 * y + D(x) + 2 * f
Room(n) == IF n < MaxAttempts THEN MaxAttempts - 1 - n ELSE 0

\* Two fewer than (m + 1) (m + 2), twice what m failures may come to: a
\* natural number, larger by 2 m + 4 for the next m, and never smaller.
LEMMA DNat == \A m \in Nat : D(m) \in Nat
<1>1. ASSUME NEW m \in Nat PROVE m * (m + 3) \in Nat
  OBVIOUS
<1>. QED  BY <1>1 DEF D

LEMMA DNext == \A m \in Nat : D(m + 1) = D(m) + 2 * m + 4
<1>1. ASSUME NEW m \in Nat PROVE (m + 1) * (m + 1 + 3) = m * (m + 3) + 2 * m + 4
  OBVIOUS
<1>. QED  BY <1>1 DEF D

LEMMA DGrows == \A m, n \in Nat : m <= n => D(m) <= D(n)
<1> SUFFICES ASSUME NEW m \in Nat, NEW n \in Nat, m <= n PROVE D(m) <= D(n)
  OBVIOUS
<1>1. PICK k \in Nat : n = m + k
  BY n - m \in Nat, n = m + (n - m)
<1>2. (m + k) * (m + k + 3) = m * (m + 3) + (2 * (m * k) + k * k + 3 * k)
  OBVIOUS
<1>3. m * k \in Nat /\ k * k \in Nat /\ m * (m + 3) \in Nat
  OBVIOUS
<1>. QED  BY <1>1, <1>2, <1>3 DEF D

\* The dues of two sessions do not depend on their order and are at least
\* those of the one that has more left.
LEMMA DueNat ==
    ASSUME NEW x \in Nat, NEW y \in Nat, NEW f \in Nat
    PROVE  Due(x, y, f) \in Nat /\ Due(x, y, f) = Due(y, x, f)
           /\ Due(x, y, f) >= D(x) + 2 * f
BY DNat, DGrows DEF Due

\* They grow with what is left, and are never more than from the start.
LEMMA DueGrows ==
    ASSUME NEW x \in Nat, NEW y \in Nat, NEW f \in Nat,
           NEW u \in Nat, NEW v \in Nat, NEW g \in Nat, x <= u, y <= v, f <= g
    PROVE  Due(x, y, f) <= Due(u, v, g)
<1>1. D(x) \in Nat /\ D(y) \in Nat /\ D(u) \in Nat /\ D(v) \in Nat
  BY DNat
<1>2. /\ D(x) <= D(u) /\ D(y) <= D(v)
      /\ x <= v => D(x) <= D(v)
      /\ y <= u => D(y) <= D(u)
  BY DGrows
<1>. QED  BY <1>1, <1>2 DEF Due

LEMMA DueMost ==
    ASSUME NEW x \in Nat, NEW y \in Nat, NEW f \in 0 .. 2, MaxAttempts \in Nat \ {0},
           x < MaxAttempts, y < MaxAttempts
    PROVE  Due(x, y, f) <= D(MaxAttempts)
<1> DEFINE m == MaxAttempts - 1
<1>1. m \in Nat /\ x <= m /\ y <= m /\ MaxAttempts = m + 1 /\ f <= 2 /\ 2 \in Nat
  OBVIOUS
<1>2. D(MaxAttempts) = D(m) + 2 * m + 4 /\ D(m) \in Nat
  BY <1>1, DNext, DNat
<1> HIDE DEF m
<1>3. Due(x, y, f) <= Due(m, m, 2)
  BY <1>1, DueGrows
<1>4. Due(m, m, 2) = 2 * m + D(m) + 4
  BY <1>1 DEF Due
<1>5. f \in Nat /\ Due(x, y, f) \in Nat
  BY DueNat
<1>. QED  BY <1>1, <1>2, <1>3, <1>4, <1>5

\* One more wrong code is tried; a call ends.
LEMMA DueSpent ==
    ASSUME NEW x \in Nat, NEW y \in Nat, NEW f \in Nat
    PROVE  Due(x, y, f + 1) = Due(x, y, f) + 2
BY DNat DEF Due

\* A failure is recorded below the limit, one above what was read, and the
\* other session has read nothing.
LEMMA DueRecorded ==
    ASSUME NEW r \in Nat \ {0}, NEW x \in Nat, NEW y \in Nat, NEW f \in Nat,
           NEW g \in 0 .. 1, r <= x
    PROVE  Due(r - 1, r - 1, 1 + g) <= Due(x, y, f)
<1> DEFINE m == r - 1
<1>1. m \in Nat /\ r = m + 1
  OBVIOUS
<1>2. D(r) = D(m) + 2 * m + 4 /\ D(m) \in Nat /\ D(r) \in Nat
  BY <1>1, DNext, DNat
<1> HIDE DEF m
<1>3. Due(m, m, 1 + g) = 2 * m + D(m) + 2 * (1 + g)
  BY <1>1 DEF Due
<1>4. D(r) <= D(x) /\ D(x) \in Nat
  BY DGrows, DNat
<1>5. Due(x, y, f) >= D(x) + 2 * f /\ Due(x, y, f) \in Nat
  BY DueNat
<1>. QED  BY <1>1, <1>2, <1>3, <1>4, <1>5 DEF m

\* The same where the other session has read no more than this one.
LEMMA DueRecordedTwice ==
    ASSUME NEW r \in Nat \ {0}, NEW x \in Nat, NEW y \in Nat, NEW w \in Nat,
           r <= x, r <= w, w <= y
    PROVE  Due(r - 1, w, 1) <= Due(x, y, 0)
<1>1. 0 \in Nat /\ 0 <= 0 /\ r \in Nat /\ r - 1 \in Nat /\ r - 1 <= w
  OBVIOUS
<1>2. Due(r, w, 0) <= Due(x, y, 0)
  BY <1>1, DueGrows
<1>3. Due(r, w, 0) = 2 * r + D(w) + 2 * 0 /\ Due(r - 1, w, 1) = 2 * (r - 1) + D(w) + 2 * 1
  BY <1>1 DEF Due
<1>4. D(w) \in Nat /\ Due(x, y, 0) \in Nat
  BY <1>1, DNat, DueNat
<1>. QED  BY <1>1, <1>2, <1>3, <1>4

-----------------------------------------------------------------------------
\* A wrong code of the account that is not recorded yet, and the count that the
\* session will take as the last one.
Pending(s) == stmt[s] \in Wrong /\ Current(s)
Value(s) == IF stmt[s] = "recording" /\ Current(s) /\ seen[s][2] < account.failures
            THEN seen[s][2] ELSE account.failures
Left(s) == Room(Value(s))
Free(s) == IF Pending(s) \/ account.locked THEN 0 ELSE 1

Bounded(s, t) ==
    2 * guesses + Due(Left(s), Left(t), Free(s) + Free(t)) <= D(MaxAttempts)

Absent == ~Exists => account = NoAccount

\* What is left below the limit, and less of it for a higher count.
LEMMA RoomRange ==
    ASSUME NEW n \in Nat, MaxAttempts \in Nat \ {0}
    PROVE  Room(n) \in Nat /\ Room(n) < MaxAttempts
BY DEF Room

LEMMA RoomShrinks ==
    ASSUME NEW n \in Nat, NEW k \in Nat, n <= k, MaxAttempts \in Nat \ {0}
    PROVE  Room(k) <= Room(n)
BY DEF Room

\* The terms of one session, before and after a step.
LEMMA TermRange ==
    ASSUME AuthInv, NEW s \in Sessions
    PROVE  /\ Value(s) \in Nat /\ Value(s) <= account.failures
           /\ Left(s) \in Nat /\ Left(s) < MaxAttempts /\ Free(s) \in 0 .. 1
           /\ guesses \in Int
<1>1. account.failures \in Nat /\ seen[s][2] \in Nat /\ MaxAttempts \in Nat \ {0}
      /\ guesses \in Int
  BY TypesApart, AuthAssumption DEF AuthInv, Accounts, CallsOK, AuthAssumption, Rows
<1>2. Value(s) \in Nat /\ Value(s) <= account.failures
  BY <1>1 DEF Value
<1>. QED  BY <1>1, <1>2, RoomRange DEF Left, Free

LEMMA TermRangeNext ==
    ASSUME AuthInv', NEW s \in Sessions
    PROVE  /\ Value(s)' \in Nat /\ Value(s)' <= account'.failures
           /\ Left(s)' \in Nat /\ Left(s)' < MaxAttempts /\ Free(s)' \in 0 .. 1
           /\ guesses' \in Int
<1>1. account'.failures \in Nat /\ seen'[s][2] \in Nat /\ MaxAttempts \in Nat \ {0}
      /\ guesses' \in Int
  BY AuthAssumption DEF AuthInv, AuthTypeOK, AuthAssumption, Rows
<1>2. Value(s)' \in Nat /\ Value(s)' <= account'.failures
  BY <1>1 DEF Value
<1>. QED  BY <1>1, <1>2 DEF Left, Free, Room

\* The two sessions are on a par.
LEMMA BoundedSides ==
    ASSUME AuthInv, NEW s \in Sessions, NEW t \in Sessions, Bounded(s, t)
    PROVE  Bounded(t, s)
<1>1. /\ Left(s) \in Nat /\ Left(t) \in Nat /\ Free(s) \in 0 .. 1 /\ Free(t) \in 0 .. 1
  BY TermRange
<1>2. Free(s) + Free(t) \in Nat /\ Free(s) + Free(t) = Free(t) + Free(s)
  BY <1>1
<1>. QED  BY <1>1, <1>2, DueNat DEF Bounded

\* With two sessions, the wrong codes still to be counted are theirs.
LEMMA UnrecordedTwo ==
    ASSUME NEW s \in Sessions, NEW t \in Sessions, s # t, Sessions = {s, t}
    PROVE  Cardinality(Unrecorded) = (IF Pending(s) THEN 1 ELSE 0) + (IF Pending(t) THEN 1 ELSE 0)
<1>1. Unrecorded = {u \in {s, t} : Pending(u)}
  BY DEF Unrecorded, Pending, Wrong
<1>2. /\ Cardinality({}) = 0 /\ Cardinality({s}) = 1 /\ Cardinality({t}) = 1
      /\ Cardinality({s, t}) = 2
  <2>1. IsFiniteSet({s}) /\ Cardinality({s}) = 1 /\ Cardinality({t}) = 1
    BY FS_Singleton
  <2>2. {s, t} = {s} \cup {t} /\ t \notin {s}
    OBVIOUS
  <2>3. Cardinality({s} \cup {t}) = Cardinality({s}) + 1
    BY <2>1, <2>2, FS_AddElement
  <2>. QED  BY <2>1, <2>2, <2>3, FS_EmptySet
<1>3. CASE Pending(s) /\ Pending(t)
  BY <1>1, <1>2, <1>3, Unrecorded = {s, t}
<1>4. CASE Pending(s) /\ ~Pending(t)
  BY <1>1, <1>2, <1>4, Unrecorded = {s}
<1>5. CASE ~Pending(s) /\ Pending(t)
  BY <1>1, <1>2, <1>5, Unrecorded = {t}
<1>6. CASE ~Pending(s) /\ ~Pending(t)
  BY <1>1, <1>2, <1>6, Unrecorded = {}
<1>. QED  BY <1>3, <1>4, <1>5, <1>6

\* The count starts again, at the wrong codes that are still to be counted.
LEMMA BoundedAnew ==
    ASSUME AuthInv', NEW s \in Sessions, NEW t \in Sessions,
           guesses' = (IF Pending(s)' THEN 1 ELSE 0) + (IF Pending(t)' THEN 1 ELSE 0)
    PROVE  Bounded(s, t)'
<1> DEFINE x == Left(s)'
           y == Left(t)'
           f == Free(s)' + Free(t)'
           g == guesses'
<1>1. /\ x \in Nat /\ y \in Nat /\ Free(s)' \in 0 .. 1 /\ Free(t)' \in 0 .. 1
      /\ x < MaxAttempts /\ y < MaxAttempts
  BY TermRangeNext
<1>2. (Pending(s)' => Free(s)' = 0) /\ (Pending(t)' => Free(t)' = 0)
  BY DEF Free
<1>3. f \in Nat /\ g \in 0 .. 2 /\ f + g \in 0 .. 2
  BY <1>1, <1>2
<1>4. MaxAttempts \in Nat \ {0}
  BY AuthAssumption DEF AuthAssumption
<1>5. Due(x, y, f + g) <= D(MaxAttempts)
  <2> HIDE DEF x, y, f, g
  <2>. QED  BY <1>1, <1>3, <1>4, DueMost
<1>6. Due(x, y, f + g) = Due(x, y, f) + 2 * g
  <2> HIDE DEF x, y, f, g
  <2>1. D(x) \in Nat /\ D(y) \in Nat
    BY <1>1, DNat
  <2>. QED  BY <1>1, <1>3, <2>1 DEF Due
<1>7. Due(x, y, f) \in Nat
  <2> HIDE DEF x, y, f, g
  <2>. QED  BY <1>1, <1>3, DueNat
<1>8. 2 * g + Due(x, y, f) <= D(MaxAttempts)
  <2> HIDE DEF x, y, f, g
  <2>. QED  BY <1>3, <1>5, <1>6, <1>7
<1>. QED  BY <1>8 DEF Bounded, Due, D

\* A step that leaves no more to try.
LEMMA BoundedKept ==
    ASSUME AuthInv, AuthInv', NEW s \in Sessions, NEW t \in Sessions, Bounded(s, t),
           Left(s)' <= Left(s), Left(t)' <= Left(t),
           Free(s)' <= Free(s), Free(t)' <= Free(t), guesses' <= guesses
    PROVE  Bounded(s, t)'
<1>1. /\ Left(s) \in Nat /\ Left(t) \in Nat /\ Free(s) \in 0 .. 1 /\ Free(t) \in 0 .. 1
      /\ Left(s)' \in Nat /\ Left(t)' \in Nat /\ Free(s)' \in 0 .. 1 /\ Free(t)' \in 0 .. 1
      /\ guesses \in Int /\ guesses' \in Int
  BY TermRange, TermRangeNext
<1>2. /\ Free(s)' + Free(t)' \in Nat /\ Free(s) + Free(t) \in Nat
      /\ Free(s)' + Free(t)' <= Free(s) + Free(t)
  BY <1>1
<1> DEFINE x == Due(Left(s), Left(t), Free(s) + Free(t))
           y == Due(Left(s)', Left(t)', Free(s)' + Free(t)')
<1>3. y <= x /\ x \in Nat /\ y \in Nat
  BY <1>1, <1>2, DueGrows, DueNat
<1>4. 2 * guesses + x <= D(MaxAttempts) /\ D(MaxAttempts) \in Nat
  BY DNat, AuthAssumption DEF Bounded, AuthAssumption
<1> HIDE DEF x, y
<1>5. 2 * guesses' + y <= D(MaxAttempts)
  BY <1>1, <1>3, <1>4
<1>. QED  BY <1>5 DEF y, Bounded, Due, D

\* The terms of a session whose call and row do not change.
LEMMA TermKept ==
    ASSUME NEW s, stmt'[s] = stmt[s], seen'[s] = seen[s], account'.id = account.id,
           account'.failures = account.failures, account'.locked = account.locked
    PROVE  Left(s)' = Left(s) /\ Free(s)' = Free(s)
<1>1. Current(s)' = Current(s)
  BY DEF Current
<1>2. Value(s)' = Value(s) /\ (Pending(s)' <=> Pending(s))
  BY <1>1 DEF Value, Pending, Wrong
<1>. QED  BY <1>2 DEF Left, Free, Room

\* No wrong code of the account is on its way, before or after.
LEMMA TermCalm ==
    ASSUME NEW s, ~Current(s) \/ stmt[s] \notin Wrong, ~Current(s)' \/ stmt'[s] \notin Wrong,
           account'.failures = account.failures, account'.locked = account.locked
    PROVE  Left(s)' = Left(s) /\ Free(s)' = Free(s)
<1>1. Value(s)' = Value(s) /\ ~Pending(s)' /\ ~Pending(s)
  BY DEF Value, Pending, Wrong
<1>. QED  BY <1>1 DEF Left, Free, Room

-----------------------------------------------------------------------------
\* Without an account there is nothing in the row.
LEMMA AbsentStep == AuthInv /\ Absent /\ [AuthNext]_authVars => Absent'
<1> SUFFICES ASSUME AuthInv, Absent, [AuthNext]_authVars PROVE Absent'
  OBVIOUS
<1>0. /\ AuthTypeOK /\ Rows /\ CallsOK /\ account \in Accounts
      /\ accounts \in Nat /\ MaxAccounts \in Nat
  BY TypesApart, AuthAssumption DEF AuthInv, AuthAssumption
<1>a. accounts + 1 \in Nat /\ accounts + 1 # 0
  BY <1>0
<1>1. CASE UNCHANGED account
  BY <1>1 DEF Absent, Exists
<1>2. ASSUME NEW ok, accounts < MaxAccounts, account' = NewAccount(accounts + 1, ok)
      PROVE  Absent'
  <2>1. account'.id = accounts + 1
    BY <1>2 DEF NewAccount, NoAccount
  <2>. QED  BY <1>a, <2>1 DEF Absent, Exists
<1>3. CASE account' = NoAccount
  BY <1>3 DEF Absent, NoAccount
<1>4. ASSUME account'.id = account.id, Exists
      PROVE  Absent'
  BY <1>4 DEF Absent, Exists
<1>5. \A s \in Sessions : stmt[s] \in Wrong \cup Right /\ Current(s) => Exists
  BY <1>0 DEF Rows, Current, Exists
<1>6. ASSUME NEW s \in Sessions, Record(s)
      PROVE  Absent'
  <2>1. seen[s][2] + 1 \in Nat /\ stmt[s] \in Wrong
    BY <1>0, <1>6 DEF CallsOK, Record, Wrong
  <2>2. CASE Current(s)
    <3>1. account' = Failed(account, seen[s][2] + 1)
      BY <1>6, <2>2 DEF Record, Update
    <3>2. account'.id = account.id
      BY <1>0, <2>1, <3>1, FailedRow
    <3>. QED  BY <1>4, <1>5, <2>1, <2>2, <3>2
  <2>3. CASE ~Current(s)
    BY <1>1, <1>6, <2>3 DEF Record, Update
  <2>. QED  BY <2>2, <2>3
<1>7. ASSUME NEW s \in Sessions, Reset(s) \/ Grant(s)
      PROVE  Absent'
  <2>1. stmt[s] \in Right
    BY <1>7 DEF Right, Reset, Grant
  <2>2. CASE Current(s)
    <3>1. account' = account \/ account' = Advanced(account, seen[s][2])
          \/ account' = [account EXCEPT !.failures = 0, !.locked = FALSE]
      BY <1>7 DEF Reset, Grant, Update
    <3>2. account'.id = account.id
      BY <1>0, <3>1 DEF Advanced, Accounts
    <3>. QED  BY <1>4, <1>5, <2>1, <2>2, <3>2
  <2>3. CASE ~Current(s)
    BY <1>1, <1>7, <2>3 DEF Reset, Grant, Update
  <2>. QED  BY <2>2, <2>3
<1>8. ASSUME NEW s \in Sessions, Insert(s)
      PROVE  Absent'
  BY <1>1, <1>2, <1>8 DEF Insert
<1>9. CASE CreateUser
  BY <1>2, <1>9 DEF CreateUser
<1>10. CASE LockExpires
  <2>1. account' = [account EXCEPT !.locked = FALSE] /\ account.locked
    BY <1>10 DEF LockExpires
  <2>2. account'.id = account.id /\ (~Exists => ~account.locked)
    BY <1>0, <2>1, NoAccountRow DEF Absent, Accounts
  <2>. QED  BY <1>4, <2>1, <2>2
<1>11. CASE UpdateUser \/ SetUserSecret \/ ClearUserSecret
  <2>1. account'.id = account.id /\ Exists
    BY <1>0, <1>11 DEF UpdateUser, SetUserSecret, ClearUserSecret, Accounts
  <2>. QED  BY <1>4, <2>1
<1>12. CASE DeleteUser
  BY <1>3, <1>12 DEF DeleteUser
<1>13. ASSUME NEW s \in Sessions,
  Select(s) \/ Reread(s) \/ Answer(s) \/ Count(s) \/ Disconnect(s)
       PROVE  Absent'
  BY <1>1, <1>13 DEF Select, Reread, Answer, Count, Disconnect
<1>14. CASE UNCHANGED authVars
  BY <1>1, <1>14 DEF authVars
<1>. QED
  BY <1>6, <1>7, <1>8, <1>9, <1>10, <1>11, <1>12, <1>13, <1>14 DEF AuthNext

\* A failure is recorded.
LEMMA BoundedRecord ==
    ASSUME AuthInv, AuthInv', NEW s \in Sessions, NEW t \in Sessions, s # t,
           Bounded(s, t), Record(s)
    PROVE  Bounded(s, t)'
<1> DEFINE v == seen[s][2]
           M == MaxAttempts
<1>0. AuthTypeOK /\ CallsOK /\ account \in Accounts /\ v \in Nat /\ M \in Nat \ {0}
      /\ account.failures \in Nat /\ v + 1 \in Nat
  BY TypesApart, AuthAssumption DEF AuthInv, CallsOK, Accounts, AuthAssumption
<1>1. /\ stmt[s] = "recording" /\ stmt'[s] = "idle" /\ stmt'[t] = stmt[t] /\ seen'[t] = seen[t]
      /\ account' = Update(s, Failed(account, v + 1)) /\ guesses' = guesses
  BY <1>0 DEF Record, Proceed, history, CallsOK
<1>2. /\ Left(s) \in Nat /\ Left(t) \in Nat /\ Free(s) \in 0 .. 1 /\ Free(t) \in 0 .. 1
      /\ Left(s)' \in Nat /\ Left(t)' \in Nat /\ Free(s)' \in 0 .. 1 /\ Free(t)' \in 0 .. 1
      /\ guesses \in Int /\ Value(s) \in Nat /\ Value(t) \in Nat /\ guesses' <= guesses
  BY <1>1, TermRange, TermRangeNext
<1>3. stmt'[s] \notin Wrong
  BY <1>1 DEF Wrong
<1>4. CASE ~Current(s)
  <2>1. account' = account
    BY <1>1, <1>4 DEF Update
  <2>2. Left(s)' = Left(s) /\ Free(s)' = Free(s) /\ Left(t)' = Left(t) /\ Free(t)' = Free(t)
    BY <1>1, <1>3, <1>4, <2>1, TermKept, TermCalm
  <2>. QED  BY <1>2, <2>2, BoundedKept
<1>5. CASE Current(s)
  <2>1. account' = Failed(account, v + 1)
    BY <1>1, <1>5 DEF Update
  <2>2. account'.failures = v + 1 /\ account'.locked = (v + 1 >= M) /\ account'.id = account.id
    BY <1>0, <2>1, FailedRow
  <2> HIDE DEF v, M
  <2>3. Value(s) <= v /\ Free(s) = 0 /\ Value(s)' = v + 1
    BY <1>0, <1>1, <1>5, <2>2 DEF v, Value, Pending, Free, Wrong
  <2>4. Left(s) >= Room(v) /\ Left(s)' = Room(v + 1) /\ Room(v) \in Nat
    BY <1>0, <1>2, <2>3, RoomShrinks, RoomRange DEF Left, M, Room
  <2>5. Current(t)' = Current(t) /\ (Pending(t)' <=> Pending(t))
    BY <1>1, <2>2 DEF Current, Pending, Wrong
  <2>6. CASE v + 1 >= M
    <3>1. Free(s)' = 0 /\ Free(t)' = 0 /\ Left(s)' = 0
      <4>1. account'.locked
        BY <2>2, <2>6
      <4>2. Room(v + 1) = 0
        BY <1>0, <2>6 DEF Room, M
      <4>. QED  BY <2>4, <4>1, <4>2 DEF Free
    <3>2. Left(t)' <= Left(t)
      <4>1. CASE stmt[t] = "recording" /\ Current(t) /\ seen[t][2] < v + 1
        <5>1. Value(t)' = seen[t][2] /\ seen[t][2] \in Nat /\ Value(t) <= seen[t][2]
          BY <1>0, <1>1, <2>2, <2>5, <4>1 DEF Value, CallsOK
        <5>. QED  BY <1>0, <1>2, <5>1, RoomShrinks DEF Left, M, Room
      <4>2. CASE ~(stmt[t] = "recording" /\ Current(t) /\ seen[t][2] < v + 1)
        <5>1. Value(t)' = v + 1
          BY <1>1, <2>2, <2>5, <4>2 DEF Value
        <5>. QED  BY <1>0, <1>2, <2>6, <5>1 DEF Left, Room, M
      <4>. QED  BY <4>1, <4>2
    <3>. QED  BY <1>2, <2>4, <3>1, <3>2, BoundedKept
  <2>7. CASE v + 1 < M
    <3> DEFINE r == Room(v)
    <3>1. r \in Nat \ {0} /\ Left(s)' = r - 1 /\ r <= Left(s) /\ Free(s)' = 1
      <4>1. Room(v) \in Nat \ {0} /\ Room(v + 1) = Room(v) - 1
        BY <1>0, <2>7 DEF Room, M
      <4>2. ~account'.locked
        <5>1. ~(v + 1 >= M)
          BY <1>0, <2>7 DEF M
        <5>. QED  BY <2>2, <5>1
      <4>3. ~Pending(s)'
        BY <1>3 DEF Pending, Wrong
      <4>. QED  BY <2>4, <4>1, <4>2, <4>3 DEF Free
    <3> HIDE DEF r
    <3>2. Due(Left(s)', Left(t)', Free(s)' + Free(t)')
             <= Due(Left(s), Left(t), Free(s) + Free(t))
      <4>1. CASE stmt[t] = "recording" /\ Current(t) /\ seen[t][2] < v + 1
        <5> DEFINE w == Room(seen[t][2])
        <5>1. Value(t)' = seen[t][2] /\ seen[t][2] \in Nat /\ Value(t) <= seen[t][2]
              /\ seen[t][2] <= v
          BY <1>0, <1>1, <2>2, <2>5, <4>1 DEF Value, CallsOK
        <5>2. w \in Nat /\ w <= Left(t) /\ Left(t)' = w /\ r <= w
          BY <1>0, <1>2, <2>7, <5>1, RoomShrinks, RoomRange DEF Left, M, Room, r
        <5>3. Free(t) = 0 /\ Free(t)' = 0
          BY <2>5, <4>1 DEF Free, Pending, Wrong
        <5> HIDE DEF w
        <5>4. Due(r - 1, w, 1) <= Due(Left(s), Left(t), 0)
          BY <1>2, <3>1, <5>2, DueRecordedTwice
        <5>5. Free(s)' + Free(t)' = 1 /\ Free(s) + Free(t) = 0
          BY <2>3, <3>1, <5>3
        <5>. QED  BY <3>1, <5>2, <5>4, <5>5
      <4>2. CASE ~(stmt[t] = "recording" /\ Current(t) /\ seen[t][2] < v + 1)
        <5>1. Value(t)' = v + 1
          BY <1>1, <2>2, <2>5, <4>2 DEF Value
        <5>2. Left(t)' = r - 1
          BY <2>4, <3>1, <5>1 DEF Left, Room
        <5>3. Free(s) + Free(t) \in Nat /\ Free(s)' + Free(t)' = 1 + Free(t)'
          BY <1>2, <3>1
        <5>4. Due(r - 1, r - 1, 1 + Free(t)') <= Due(Left(s), Left(t), Free(s) + Free(t))
          BY <1>2, <3>1, <5>3, DueRecorded
        <5>. QED  BY <3>1, <5>2, <5>3, <5>4
      <4>. QED  BY <4>1, <4>2
    <3> DEFINE x == Due(Left(s), Left(t), Free(s) + Free(t))
               y == Due(Left(s)', Left(t)', Free(s)' + Free(t)')
    <3>3. x \in Nat /\ y \in Nat
      <4>1. Free(s) + Free(t) \in Nat /\ Free(s)' + Free(t)' \in Nat
        BY <1>2
      <4>. QED  BY <1>2, <4>1, DueNat
    <3>4. 2 * guesses + x <= D(MaxAttempts) /\ D(MaxAttempts) \in Nat
      BY <1>0, DNat DEF Bounded, M
    <3>5. y <= x
      BY <3>2
    <3> HIDE DEF x, y
    <3>6. 2 * guesses' + y <= D(MaxAttempts)
      BY <1>1, <1>2, <3>3, <3>4, <3>5
    <3>. QED  BY <3>6 DEF y, Bounded, Due, D
  <2>. QED  BY <1>0, <2>6, <2>7 DEF M
<1>. QED  BY <1>4, <1>5

\* Any other step of one session.
LEMMA BoundedSession ==
    ASSUME AuthInv, AuthInv', Absent, NEW s \in Sessions, NEW t \in Sessions, s # t,
           Sessions = {s, t}, Bounded(s, t),
           \/ Select(s)
           \/ Insert(s)
           \/ Reread(s)
           \/ Answer(s)
           \/ Count(s)
           \/ Reset(s)
           \/ Grant(s)
           \/ Disconnect(s)
    PROVE  Bounded(s, t)'
<1>0. /\ AuthTypeOK /\ CallsOK /\ account \in Accounts /\ MaxAttempts \in Nat \ {0}
      /\ account.failures \in Nat /\ account.locked \in BOOLEAN
      /\ accounts \in Nat /\ MaxAccounts \in Nat /\ accounts \in 0 .. MaxAccounts
      /\ Approves \in BOOLEAN
  BY TypesApart, AuthAssumption DEF AuthInv, Accounts, AuthAssumption
<1>2. /\ Left(s) \in Nat /\ Left(t) \in Nat /\ Free(s) \in 0 .. 1 /\ Free(t) \in 0 .. 1
      /\ Left(s)' \in Nat /\ Left(t)' \in Nat /\ Free(s)' \in 0 .. 1 /\ Free(t)' \in 0 .. 1
      /\ guesses \in Int /\ Value(s) \in Nat /\ Value(t) \in Nat
  BY TermRange, TermRangeNext
<1>3. ASSUME stmt'[t] = stmt[t], seen'[t] = seen[t], account'.id = account.id,
             account'.failures = account.failures, account'.locked = account.locked,
             ~Current(s) \/ stmt[s] \notin Wrong, ~Current(s)' \/ stmt'[s] \notin Wrong,
             guesses' = guesses
      PROVE  Bounded(s, t)'
  <2>1. Left(s)' = Left(s) /\ Free(s)' = Free(s) /\ Left(t)' = Left(t) /\ Free(t)' = Free(t)
    BY <1>3, TermKept, TermCalm
  <2>. QED  BY <1>2, <1>3, <2>1, BoundedKept
<1>4. CASE Select(s) \/ Reread(s)
  <2>1. /\ stmt[s] \notin Wrong /\ stmt'[s] \notin Wrong /\ stmt'[t] = stmt[t] /\ seen' = seen
        /\ account' = account /\ guesses' = guesses
    BY <1>0, <1>4 DEF Select, Reread, Recognised, Proceed, history, CallsOK, Wrong
  <2>. QED  BY <1>3, <2>1
<1>5. CASE Insert(s)
  <2>1. /\ stmt[s] \notin Wrong /\ stmt'[s] \notin Wrong /\ stmt'[t] = stmt[t] /\ seen' = seen
        /\ guesses' = guesses
    BY <1>0, <1>5 DEF Insert, Proceed, history, reads, CallsOK, Wrong
  <2>2. CASE Exists
    <3>1. account' = account
      BY <1>5, <2>2 DEF Insert
    <3>. QED  BY <1>3, <2>1, <3>1
  <2>3. CASE ~Exists
    <3>1. account' = NewAccount(accounts + 1, Approves) /\ accounts + 1 \in 1 .. MaxAccounts
      BY <1>0, <1>5, <2>3 DEF Insert
    <3>2. account'.id = accounts + 1 /\ account'.failures = 0 /\ account'.locked = FALSE
      BY <1>0, <3>1, NewRow
    <3>3. account.id = 0 /\ account.failures = 0 /\ account.locked = FALSE
      BY <2>3, NoAccountRow DEF Absent, Exists
    <3>4. \A u \in Sessions : stmt[u] \in Wrong => seen[u][1] \in 1 .. accounts
      BY DEF AuthInv, Rows
    <3>5. (~Current(t) \/ stmt[t] \notin Wrong) /\ (~Current(t)' \/ stmt'[t] \notin Wrong)
      BY <1>0, <2>1, <3>2, <3>3, <3>4 DEF Current
    <3>6. Left(s)' = Left(s) /\ Free(s)' = Free(s) /\ Left(t)' = Left(t) /\ Free(t)' = Free(t)
      BY <2>1, <3>2, <3>3, <3>5, TermCalm
    <3>. QED  BY <1>2, <2>1, <3>6, BoundedKept
  <2>. QED  BY <2>2, <2>3
<1>6. CASE Answer(s)
  <2>1. PICK l \in {"resetting", "counting"} :
          /\ stmt[s] = "idle" /\ ~account.locked
          /\ stmt' = [stmt EXCEPT ![s] = l]
          /\ \E n : seen' = [seen EXCEPT ![s] = <<account.id, n>>]
          /\ account' = account
          /\ guesses' = IF l = "resetting" THEN guesses ELSE guesses + 1
    BY <1>6 DEF Answer, Proceed
  <2>2. /\ stmt'[s] = l /\ stmt'[t] = stmt[t] /\ seen'[t] = seen[t] /\ seen'[s][1] = account.id
    BY <1>0, <2>1 DEF CallsOK
  <2>3. CASE l = "resetting"
    BY <1>3, <2>1, <2>2, <2>3 DEF Wrong
  <2>4. CASE l = "counting"
    <3>1. Left(t)' = Left(t) /\ Free(t)' = Free(t)
      BY <2>1, <2>2, TermKept
    <3>2. Value(s)' = Value(s) /\ Pending(s)' /\ ~Pending(s)
      BY <2>1, <2>2, <2>4 DEF Value, Pending, Current, Wrong
    <3>3. Left(s)' = Left(s) /\ Free(s) = 1 /\ Free(s)' = 0
      BY <2>1, <3>2 DEF Left, Free, Room
    <3>4. Free(s) + Free(t) = Free(t) + 1 /\ Free(s)' + Free(t)' = Free(t) /\ Free(t) \in Nat
      BY <1>2, <3>1, <3>3
    <3> DEFINE x == Due(Left(s), Left(t), Free(s) + Free(t))
               y == Due(Left(s)', Left(t)', Free(s)' + Free(t)')
    <3>5. y \in Nat /\ x = y + 2
      <4>1. Due(Left(s), Left(t), Free(t) + 1) = Due(Left(s), Left(t), Free(t)) + 2
            /\ Due(Left(s), Left(t), Free(t)) \in Nat
        BY <1>2, <3>4, DueNat, DueSpent
      <4>2. x = Due(Left(s), Left(t), Free(t) + 1)
        BY <3>4
      <4>3. y = Due(Left(s), Left(t), Free(t))
        BY <3>1, <3>3, <3>4
      <4>. QED  BY <4>1, <4>2, <4>3
    <3>6. 2 * guesses + x <= D(MaxAttempts) /\ D(MaxAttempts) \in Nat
      BY <1>0, DNat DEF Bounded
    <3>7. guesses' = guesses + 1
      BY <2>1, <2>4
    <3> HIDE DEF x, y
    <3>8. 2 * guesses' + y <= D(MaxAttempts)
      BY <1>2, <3>5, <3>6, <3>7
    <3>. QED  BY <3>8 DEF y, Bounded, Due, D
  <2>. QED  BY <2>3, <2>4
<1>7. CASE Count(s)
  <2>1. /\ stmt[s] = "counting" /\ stmt' = [stmt EXCEPT ![s] = "recording"]
        /\ account' = account /\ guesses' = guesses
        /\ seen' = [seen EXCEPT ![s][2] = IF Current(s) THEN account.failures ELSE 0]
    BY <1>7 DEF Count, Proceed, history
  <2>2. /\ stmt'[s] = "recording" /\ stmt'[t] = stmt[t] /\ seen'[t] = seen[t]
        /\ seen'[s][1] = seen[s][1]
        /\ seen'[s][2] = IF Current(s) THEN account.failures ELSE 0
    BY <1>0, <2>1 DEF CallsOK
  <2>3. Value(s)' = Value(s) /\ (Pending(s)' <=> Pending(s))
    BY <1>0, <2>1, <2>2 DEF Value, Pending, Current, Wrong
  <2>4. Left(s)' = Left(s) /\ Free(s)' = Free(s)
    BY <2>1, <2>3 DEF Left, Free, Room
  <2>5. Left(t)' = Left(t) /\ Free(t)' = Free(t)
    BY <2>1, <2>2, TermKept
  <2>. QED  BY <1>2, <2>1, <2>4, <2>5, BoundedKept
<1>8. CASE Reset(s)
  <2>1. /\ stmt[s] \notin Wrong /\ stmt'[s] \notin Wrong /\ stmt'[t] = stmt[t]
        /\ seen' = seen
        /\ guesses' = IF Current(s) THEN Cardinality(Unrecorded) ELSE guesses
        /\ account' = Update(s, [account EXCEPT !.failures = 0, !.locked = FALSE])
    BY <1>0, <1>8 DEF Reset, Proceed, reads, CallsOK, Wrong
  <2>2. CASE ~Current(s)
    BY <1>3, <2>1, <2>2 DEF Update
  <2>3. CASE Current(s)
    <3>1. account'.id = account.id
      BY <1>0, <2>1, <2>3, ResetRow DEF Update
    <3>2. (Pending(s)' <=> Pending(s)) /\ (Pending(t)' <=> Pending(t))
      BY <2>1, <3>1 DEF Pending, Current, Wrong
    <3>3. guesses' = (IF Pending(s)' THEN 1 ELSE 0) + (IF Pending(t)' THEN 1 ELSE 0)
      BY <2>1, <2>3, <3>2, UnrecordedTwo
    <3>. QED  BY <3>3, BoundedAnew
  <2>. QED  BY <2>2, <2>3
<1>9. CASE Grant(s)
  <2>1. /\ stmt[s] = "advancing" /\ stmt' = [stmt EXCEPT ![s] = "idle"] /\ guesses' = guesses
        /\ seen' = [seen EXCEPT ![s] = <<0, 0>>]
        /\ account' = account \/ account' = Advanced(account, seen[s][2])
    BY <1>9 DEF Grant, Proceed, Update
  <2>2. /\ stmt'[s] = "idle" /\ stmt'[t] = stmt[t] /\ seen'[t] = seen[t]
    BY <1>0, <2>1 DEF CallsOK
  <2>3. /\ account'.id = account.id /\ account'.failures = account.failures
        /\ account'.locked = account.locked
    <3>1. Advanced(account, seen[s][2]).id = account.id
          /\ Advanced(account, seen[s][2]).failures = account.failures
          /\ Advanced(account, seen[s][2]).locked = account.locked
      BY <1>0 DEF Advanced, Accounts
    <3>. QED  BY <2>1, <3>1
  <2>4. stmt[s] \notin Wrong /\ stmt'[s] \notin Wrong
    BY <2>1, <2>2 DEF Wrong
  <2>. QED  BY <1>3, <2>1, <2>2, <2>3, <2>4
<1>10. CASE Disconnect(s)
  <2>1. /\ stmt' = [stmt EXCEPT ![s] = "selecting"] /\ account' = account
        /\ seen' = [seen EXCEPT ![s] = <<0, 0>>]
        /\ guesses' = IF Pending(s) THEN guesses - 1 ELSE guesses
    BY <1>10 DEF Disconnect, Proceed, Unrecorded, Pending, Wrong
  <2>2. /\ stmt'[s] \notin Wrong /\ stmt'[t] = stmt[t] /\ seen'[t] = seen[t]
    BY <1>0, <2>1 DEF CallsOK, Wrong
  <2>3. CASE ~Pending(s)
    <3>1. ~Current(s) \/ stmt[s] \notin Wrong
      BY <2>3 DEF Pending
    <3>. QED  BY <1>3, <2>1, <2>2, <2>3, <3>1
  <2>5. CASE Pending(s)
    <3>1. Left(t)' = Left(t) /\ Free(t)' = Free(t)
      BY <2>1, <2>2, TermKept
    <3>2. Value(s)' = account.failures /\ Value(s) <= account.failures
      BY <2>1, <2>2, TermRange DEF Value, Wrong
    <3>3. Left(s)' <= Left(s)
      BY <1>0, <1>2, <3>2, RoomShrinks DEF Left, Room
    <3>4. /\ Free(s) + Free(t) \in Nat /\ Free(s)' + Free(t)' \in Nat
          /\ Free(s)' + Free(t)' <= Free(s) + Free(t) + 1
      BY <1>2, <3>1
    <3> DEFINE x == Due(Left(s), Left(t), Free(s) + Free(t))
               z == Due(Left(s), Left(t), Free(s) + Free(t) + 1)
               y == Due(Left(s)', Left(t)', Free(s)' + Free(t)')
    <3>5. y <= z
      <4>1. Left(t)' <= Left(t) /\ Free(s) + Free(t) + 1 \in Nat
        BY <1>2, <3>1, <3>4
      <4>. QED  BY <1>2, <3>3, <3>4, <4>1, DueGrows
    <3>6. x \in Nat /\ y \in Nat /\ z = x + 2
      BY <1>2, <3>4, DueNat, DueSpent
    <3>7. 2 * guesses + x <= D(MaxAttempts) /\ D(MaxAttempts) \in Nat
      BY <1>0, DNat DEF Bounded
    <3>8. guesses' = guesses - 1
      BY <2>1, <2>5
    <3> HIDE DEF x, y, z
    <3>9. 2 * guesses' + y <= D(MaxAttempts)
      BY <1>2, <3>5, <3>6, <3>7, <3>8
    <3>. QED  BY <3>9 DEF y, Bounded, Due, D
  <2>. QED  BY <2>3, <2>5
<1>. QED  BY <1>4, <1>5, <1>6, <1>7, <1>8, <1>9, <1>10

\* The steps of the sysop and of the clock.
LEMMA BoundedSysop ==
    ASSUME AuthInv, AuthInv', Absent, NEW s \in Sessions, NEW t \in Sessions, s # t,
           Sessions = {s, t}, Bounded(s, t),
           \/ LockExpires
           \/ CreateUser
           \/ UpdateUser
           \/ DeleteUser
           \/ SetUserSecret
           \/ ClearUserSecret
           \/ UNCHANGED authVars
    PROVE  Bounded(s, t)'
<1>0. /\ AuthTypeOK /\ CallsOK /\ account \in Accounts
      /\ accounts \in Nat /\ MaxAccounts \in Nat /\ accounts \in 0 .. MaxAccounts
  BY TypesApart, AuthAssumption DEF AuthInv, AuthAssumption
<1>2. /\ Left(s) \in Nat /\ Left(t) \in Nat /\ Free(s) \in 0 .. 1 /\ Free(t) \in 0 .. 1
      /\ guesses \in Int
  BY TermRange
<1>3. CASE LockExpires
  <2>1. account'.id = account.id /\ stmt' = stmt /\ seen' = seen
        /\ guesses' = Cardinality(Unrecorded)
    BY <1>0, <1>3, UnlockedRow DEF LockExpires, reads
  <2>2. (Pending(s)' <=> Pending(s)) /\ (Pending(t)' <=> Pending(t))
    BY <2>1 DEF Pending, Current, Wrong
  <2>3. guesses' = (IF Pending(s)' THEN 1 ELSE 0) + (IF Pending(t)' THEN 1 ELSE 0)
    BY <2>1, <2>2, UnrecordedTwo
  <2>. QED  BY <2>3, BoundedAnew
<1>6. CASE DeleteUser
  <2>1. account'.id = 0 /\ stmt' = stmt /\ seen' = seen /\ guesses' = 0
    BY <1>6, NoAccountRow DEF DeleteUser, reads
  <2>2. \A u \in Sessions : stmt[u] \in Wrong => seen[u][1] # 0
    BY <1>0 DEF AuthInv, Rows
  <2>3. ~Pending(s)' /\ ~Pending(t)'
    BY <2>1, <2>2 DEF Pending, Current, Wrong
  <2>. QED  BY <2>1, <2>3, BoundedAnew
<1>4. CASE UpdateUser \/ SetUserSecret \/ ClearUserSecret \/ UNCHANGED authVars
  <2>1. stmt' = stmt /\ seen' = seen /\ guesses' = guesses
    BY <1>4 DEF UpdateUser, SetUserSecret, ClearUserSecret, authVars, reads, history
  <2>2. /\ account'.id = account.id /\ account'.failures = account.failures
        /\ account'.locked = account.locked
    BY <1>0, <1>4 DEF UpdateUser, SetUserSecret, ClearUserSecret, authVars, Accounts
  <2>3. Left(s)' = Left(s) /\ Free(s)' = Free(s) /\ Left(t)' = Left(t) /\ Free(t)' = Free(t)
    BY <2>1, <2>2, TermKept
  <2>. QED  BY <1>2, <2>1, <2>3, BoundedKept
<1>5. CASE CreateUser
  <2>1. stmt' = stmt /\ seen' = seen /\ guesses' = guesses /\ ~Exists
    BY <1>5 DEF CreateUser, reads, history
  <2>2. PICK ok \in BOOLEAN :
          account' = NewAccount(accounts + 1, ok) /\ accounts + 1 \in 1 .. MaxAccounts
    BY <1>0, <1>5 DEF CreateUser
  <2>3. account'.id = accounts + 1 /\ account'.failures = 0 /\ account'.locked = FALSE
    BY <2>2, NewRow
  <2>4. account.id = 0 /\ account.failures = 0 /\ account.locked = FALSE
    BY <2>1, NoAccountRow DEF Absent, Exists
  <2>5. \A u \in Sessions : stmt[u] \in Wrong => seen[u][1] \in 1 .. accounts
    BY DEF AuthInv, Rows
  <2>6. \A u \in Sessions : /\ ~Current(u) \/ stmt[u] \notin Wrong
                            /\ ~Current(u)' \/ stmt'[u] \notin Wrong
    BY <1>0, <2>1, <2>3, <2>4, <2>5 DEF Current
  <2>7. Left(s)' = Left(s) /\ Free(s)' = Free(s) /\ Left(t)' = Left(t) /\ Free(t)' = Free(t)
    BY <2>3, <2>4, <2>6, TermCalm
  <2>. QED  BY <1>2, <2>1, <2>7, BoundedKept
<1>. QED  BY <1>3, <1>4, <1>5, <1>6

\* Two sessions of the callsign: the lockout holds where the budget is at least
\* what MaxAttempts failures come to when the two keep setting each other's
\* count back, (MaxAttempts + 1) (MaxAttempts + 2) / 2 - 1 (record_auth_failure,
\* verify_otp).
THEOREM LockoutHoldsForTwo ==
    ASSUME NEW a, NEW b, a # b, Sessions = {a, b},
           2 * Budget >= MaxAttempts * (MaxAttempts + 3)
    PROVE  AuthSpec => []LockoutHolds
<1>1. AuthInit => Absent /\ Bounded(a, b)
  <2> SUFFICES ASSUME AuthInit PROVE Absent /\ Bounded(a, b)
    OBVIOUS
  <2>1. guesses = 0 /\ AuthInv
    BY AuthStarts DEF AuthInit
  <2>2. /\ Left(a) \in Nat /\ Left(b) \in Nat /\ Free(a) \in 0 .. 1 /\ Free(b) \in 0 .. 1
        /\ Left(a) < MaxAttempts /\ Left(b) < MaxAttempts
    BY <2>1, TermRange
  <2>3. Free(a) + Free(b) \in 0 .. 2 /\ Free(a) + Free(b) \in Nat
    BY <2>2
  <2>4. MaxAttempts \in Nat \ {0}
    BY AuthAssumption DEF AuthAssumption
  <2>5. Due(Left(a), Left(b), Free(a) + Free(b)) <= D(MaxAttempts)
        /\ Due(Left(a), Left(b), Free(a) + Free(b)) \in Nat
    BY <2>2, <2>3, <2>4, DueMost, DueNat
  <2>. QED  BY <2>1, <2>5 DEF AuthInit, Absent, Bounded
<1>2. AuthInv /\ AuthInv' /\ Absent /\ Bounded(a, b) /\ [AuthNext]_authVars => Bounded(a, b)'
  <2> SUFFICES ASSUME AuthInv, AuthInv', Absent, Bounded(a, b), [AuthNext]_authVars
               PROVE  Bounded(a, b)'
    OBVIOUS
  <2>1. ASSUME NEW s \in Sessions,
               Select(s) \/ Insert(s) \/ Reread(s) \/ Answer(s)
               \/ Count(s) \/ Record(s) \/ Reset(s) \/ Grant(s) \/ Disconnect(s)
        PROVE  Bounded(a, b)'
    <3>0. Sessions = {a, b} /\ Sessions = {b, a}
      OBVIOUS
    <3>1. CASE s = a
      BY <2>1, <3>0, <3>1, BoundedSession, BoundedRecord
    <3>2. CASE s = b
      <4>1. Bounded(b, a)
        BY BoundedSides
      <4>2. Bounded(b, a)'
        BY <2>1, <3>0, <3>2, <4>1, BoundedSession, BoundedRecord
      <4>3. /\ Left(a)' \in Nat /\ Left(b)' \in Nat
            /\ Free(a)' \in 0 .. 1 /\ Free(b)' \in 0 .. 1
        BY TermRangeNext
      <4>4. Free(a)' + Free(b)' \in Nat /\ Free(a)' + Free(b)' = Free(b)' + Free(a)'
        BY <4>3
      <4>5. Due(Left(b)', Left(a)', Free(b)' + Free(a)') = Due(Left(a)', Left(b)',
        Free(a)' + Free(b)')
        BY <4>3, <4>4, DueNat
      <4>6. 2 * guesses' + Due(Left(b)', Left(a)', Free(b)' + Free(a)') <= D(MaxAttempts)
        BY <4>2 DEF Bounded, Due, D
      <4>7. 2 * guesses' + Due(Left(a)', Left(b)', Free(a)' + Free(b)') <= D(MaxAttempts)
        BY <4>5, <4>6
      <4>. QED  BY <4>7 DEF Bounded, Due, D
    <3>. QED  BY <3>1, <3>2
  <2>2. ASSUME \/ LockExpires \/ CreateUser \/ UpdateUser \/ DeleteUser
               \/ SetUserSecret \/ ClearUserSecret \/ UNCHANGED authVars
        PROVE  Bounded(a, b)'
    BY <2>2, BoundedSysop
  <2>. QED  BY <2>1, <2>2 DEF AuthNext
<1>3. AuthInv /\ Bounded(a, b) => LockoutHolds
  <2> SUFFICES ASSUME AuthInv, Bounded(a, b) PROVE LockoutHolds
    OBVIOUS
  <2>1. /\ Left(a) \in Nat /\ Left(b) \in Nat /\ Free(a) \in 0 .. 1 /\ Free(b) \in 0 .. 1
        /\ guesses \in Int
    BY TermRange
  <2>2. Free(a) + Free(b) \in Nat
    BY <2>1
  <2>3. Due(Left(a), Left(b), Free(a) + Free(b)) \in Nat
    BY <2>1, <2>2, DueNat
  <2>4. MaxAttempts \in Nat /\ D(MaxAttempts) \in Nat /\ Budget \in Nat
    BY DNat, AuthAssumption DEF AuthAssumption
  <2>5. 2 * guesses <= D(MaxAttempts)
    BY <2>1, <2>3, <2>4 DEF Bounded
  <2>6. D(MaxAttempts) <= 2 * Budget
    BY <2>4 DEF D
  <2>7. guesses <= Budget
    BY <2>1, <2>4, <2>5, <2>6
  <2>. QED  BY <2>7 DEF AuthInv, LockoutHolds
<1>. QED  BY AuthStarts, AuthStep, AbsentStep, <1>1, <1>2, <1>3, PTL DEF AuthSpec

-----------------------------------------------------------------------------

BbsUsers == Callers \cup Terminals

\* The awaits at which the entries of a session are still in the tables.
Inside == BbsAwaits \ {"notifying"}

\* A task runs the code of its kind of connection.
Kinds ==
    /\ \A c \in BbsUsers : pc[c] \in BbsAwaits \cup {"new", "refusing", "ended"}
    /\ \A c \in Guests : pc[c] \in ServiceAwaits \cup {"new", "ended"}

\* Both tables hold the same sessions, each of which is not yet past its
\* finally clause, or never reached it.
SessionsInv ==
    /\ sessions = tasks
    /\ IsFiniteSet(sessions)
    /\ MaxUsers > 0 => Cardinality(sessions) <= MaxUsers
    /\ \A c \in sessions : pc[c] \in Inside \/ c \in struck
    /\ \A c \in webMap : pc[c] \in BbsAwaits \/ c \in struck

\* A guest in the table has a task that is not yet past its teardown.
GuestsInv ==
    /\ IsFiniteSet(guests)
    /\ Cardinality(guests) <= MaxSessions
    /\ \A c \in guests : pc[c] \in ServiceAwaits \ {"journaling"}

\* What the place of a guest's task says of its program.
ProgramInv ==
    \A c \in Guests :
        /\ pc[c] \in {"new", "spawning"} => process[c] = "none"
        /\ pc[c] \in {"killing", "flushing", "gathering"} => process[c] # "running"
        /\ pc[c] \in {"journaling", "ended"} =>
              c \in struck \/ (process[c] # "running" /\ c \in closed)

EngineInv == TypeOK /\ Kinds /\ SessionsInv /\ GuestsInv /\ ProgramInv

-----------------------------------------------------------------------------
\* Every step keeps the types, and every task to the code of its kind.
LEMMA TypesKept ==
    ASSUME TypeOK, Kinds, [Next]_vars
    PROVE  (TypeOK /\ Kinds)'
<1>. USE KindsAssumption, BoundsAssumption DEF KindsAssumption, BoundsAssumption, TypeOK, Kinds,
         tables, web, peers, BbsUsers, Conns, Inside, Awaits, BbsAwaits, ServiceAwaits, NodeAwaits,
         Goto, Enter, TaskEnds, Finally, Leave, LeaveTables, ServiceOver, Teardown
<1>1. ASSUME NEW c \in Callers, CallerArrives(c) \/ CallerHangsUp(c)
      PROVE  (TypeOK /\ Kinds)'
  BY <1>1 DEF CallerArrives, CallerHangsUp
<1>2. ASSUME NEW c \in BbsUsers,
             Refused(c) \/ Announced(c) \/ Opened(c) \/ OpeningFails(c) \/ FarewellSaid(c)
      PROVE  (TypeOK /\ Kinds)'
  BY <1>2 DEF Refused, Announced, Opened, OpeningFails, FarewellSaid
<1>3. ASSUME NEW c \in BbsUsers, Recorded(c) \/ Notified(c)
      PROVE  (TypeOK /\ Kinds)'
  BY <1>3 DEF Recorded, Notified
<1>4. ASSUME NEW c \in BbsUsers,
             Identified(c) \/ EntersChat(c) \/ LeavesChat(c) \/ SessionOver(c)
      PROVE  (TypeOK /\ Kinds)'
  BY <1>4 DEF Identified, EntersChat, LeavesChat, SessionOver
<1>5. ASSUME NEW c \in Terminals,
             \/ TerminalRequested(c) \/ StartTimesOut(c) \/ TerminalCreated(c)
             \/ TerminalBegins(c)
      PROVE  (TypeOK /\ Kinds)'
  BY <1>5 DEF TerminalRequested, StartTimesOut, TerminalCreated, TerminalBegins
<1>6. ASSUME NEW c \in Terminals,
             DrainStarts(c) \/ TerminalRegistered(c) \/ DrainEnds(c) \/ BrowserCloses(c)
      PROVE  (TypeOK /\ Kinds)'
  BY <1>6 DEF DrainStarts, TerminalRegistered, DrainEnds, BrowserCloses
<1>7. ASSUME NEW c \in Guests, GuestDenied(c) \/ GuestArrives(c) \/ ProgramExits(c)
      PROVE  (TypeOK /\ Kinds)'
  BY <1>7 DEF GuestDenied, GuestArrives, ProgramExits
<1>8. ASSUME NEW c \in Guests, Spawned(c) \/ SpawnFails(c) \/ BridgeOver(c) \/ Terminated(c)
      PROVE  (TypeOK /\ Kinds)'
  BY <1>8 DEF Spawned, SpawnFails, BridgeOver, Terminated
<1>9. ASSUME NEW c \in Guests,
             KillAfterGrace(c) \/ Killed(c) \/ Flushed(c) \/ Gathered(c) \/ Journaled(c)
      PROVE  (TypeOK /\ Kinds)'
  BY <1>9 DEF KillAfterGrace, Killed, Flushed, Gathered, Journaled
<1>10. ASSUME NEW c \in NodeUsers,
             NodeUserArrives(c) \/ LoopStarts(c) \/ LoopEnds(c) \/ LoopAwaited(c)
      PROVE  (TypeOK /\ Kinds)'
  BY <1>10 DEF NodeUserArrives, LoopStarts, LoopEnds, LoopAwaited
<1>11. ASSUME NEW c \in NodeUsers, LandingOver(c) \/ Refused(c)
      PROVE  (TypeOK /\ Kinds)'
  BY <1>11 DEF LandingOver, Refused
<1>12. ASSUME NEW c \in Conns, PeerGone(c)
      PROVE  (TypeOK /\ Kinds)'
  BY <1>12 DEF PeerGone
<1>13. ASSUME NEW c \in BbsUsers, Struck(c), UNCHANGED <<loops, named, gone, eof, closed, process>>,
             cancels' = [cancels EXCEPT ![c] = @ + 1], cancels[c] < MaxCancels
      PROVE  (TypeOK /\ Kinds)'
  BY <1>13 DEF Struck
<1>14. ASSUME NEW c \in Guests, GuestStruck(c),
             UNCHANGED <<loops, web, chatting, named, gone, eof, closed, process>>,
             cancels' = [cancels EXCEPT ![c] = @ + 1], cancels[c] < MaxCancels
      PROVE  (TypeOK /\ Kinds)'
  BY <1>14 DEF GuestStruck
<1>15. ASSUME NEW c \in NodeUsers, NodeStruck(c),
             UNCHANGED <<tables, chatting, web, named, gone, eof, closed, process>>,
             cancels' = [cancels EXCEPT ![c] = @ + 1], cancels[c] < MaxCancels
      PROVE  (TypeOK /\ Kinds)'
  BY <1>15 DEF NodeStruck
<1>16. CASE UNCHANGED vars
  BY <1>16 DEF vars
<1>17. ASSUME NEW c \in Conns, Cancel(c)
       PROVE  (TypeOK /\ Kinds)'
  BY <1>13, <1>14, <1>15, <1>17 DEF Cancel
<1>. QED
  BY <1>1, <1>2, <1>3, <1>4, <1>5, <1>6, <1>7, <1>8, <1>9, <1>10, <1>11, <1>12, <1>16, <1>17
  DEF Next, SessionStep, IdleFires, EofSeen, TerminalStep, GuestStep, NodeStep, LoopIdle, LoopCancelled

-----------------------------------------------------------------------------
\* Entering one session, under the cap, keeps the session tables.
LEMMA SessionEnters ==
    ASSUME TypeOK, SessionsInv, NEW c \in BbsUsers, ~Full, Enter(c),
           NEW l \in Inside, Goto(c, l), webMap' \subseteq webMap \cup {c},
           UNCHANGED struck
    PROVE  SessionsInv'
<1>1. IsFiniteSet(sessions') /\ sessions' = tasks' /\ sessions' = sessions \cup {c}
  BY FS_AddElement DEF SessionsInv, Enter
<1>2. MaxUsers > 0 => Cardinality(sessions') <= MaxUsers
  <2>1. Cardinality(sessions) \in Nat
    BY FS_CardinalityType DEF SessionsInv
  <2>2. Cardinality(sessions') \in {Cardinality(sessions), Cardinality(sessions) + 1}
    BY <1>1, FS_AddElement DEF SessionsInv
  <2>. QED  BY <2>1, <2>2, BoundsAssumption DEF Full, BoundsAssumption, SessionsInv
<1>3. pc'[c] = l /\ \A d \in BbsUsers \ {c} : pc'[d] = pc[d]
  BY DEF Goto, TypeOK, BbsUsers, Conns
<1>4. sessions \subseteq BbsUsers /\ webMap \subseteq BbsUsers
  BY DEF TypeOK, BbsUsers
<1>. QED  BY <1>1, <1>2, <1>3, <1>4 DEF SessionsInv, Inside

\* Taking one session out keeps the session tables.
LEMMA SessionLeaves ==
    ASSUME TypeOK, SessionsInv, NEW c \in BbsUsers, Leave(c),
           NEW l \in BbsAwaits, Goto(c, l), UNCHANGED <<webMap, struck>>
    PROVE  SessionsInv'
<1>1. sessions' = tasks' /\ sessions' = sessions \ {c}
  BY DEF SessionsInv, Leave, LeaveTables
<1>2. IsFiniteSet(sessions') /\ Cardinality(sessions') <= Cardinality(sessions)
  BY <1>1, FS_Subset DEF SessionsInv
<1>3. MaxUsers > 0 => Cardinality(sessions') <= MaxUsers
  BY <1>2, FS_CardinalityType, BoundsAssumption DEF SessionsInv, BoundsAssumption
<1>4. pc'[c] = l /\ \A d \in BbsUsers \ {c} : pc'[d] = pc[d]
  BY DEF Goto, TypeOK, BbsUsers, Conns
<1>5. sessions \subseteq BbsUsers /\ webMap \subseteq BbsUsers
  BY DEF TypeOK, BbsUsers
<1>. QED  BY <1>1, <1>2, <1>3, <1>4, <1>5 DEF SessionsInv, Inside

\* So does a step after which the tables hold what they held, and the tasks of
\* the sessions in them are inside, or struck.
LEMMA SessionsStay ==
    ASSUME TypeOK, SessionsInv, UNCHANGED <<sessions, tasks>>, struck \subseteq struck',
           \A c \in sessions : pc'[c] = pc[c] \/ pc'[c] \in Inside \/ c \in struck',
           webMap' \subseteq webMap,
           \A c \in webMap' : pc'[c] = pc[c] \/ pc'[c] \in BbsAwaits \/ c \in struck'
    PROVE  SessionsInv'
BY DEF SessionsInv, Inside, TypeOK

\* The finally clause of a session keeps the session tables, from wherever
\* the session reaches it.
LEMMA FinallyKeeps ==
    ASSUME TypeOK, SessionsInv, NEW c \in BbsUsers, Finally(c),
           UNCHANGED <<webMap, struck>>
    PROVE  SessionsInv'
<1>1. CASE c \in named
  <2>1. Goto(c, "recording") /\ UNCHANGED <<sessions, tasks>>
    BY <1>1 DEF Finally, tables
  <2>2. \A d \in BbsUsers : pc'[d] = pc[d] \/ pc'[d] \in Inside
    BY <2>1 DEF Goto, Inside, BbsAwaits, TypeOK, BbsUsers, Conns
  <2>. QED  BY <2>1, <2>2, SessionsStay DEF TypeOK, BbsUsers, Inside
<1>2. CASE c \notin named
  BY <1>2, SessionLeaves DEF Finally, BbsAwaits
<1>. QED  BY <1>1, <1>2

\* The end of a task that is in no table keeps the session tables.
LEMMA TaskEndKeeps ==
    ASSUME TypeOK, SessionsInv, NEW c \in BbsUsers, TaskEnds(c),
           UNCHANGED <<sessions, tasks>>, struck \subseteq struck',
           c \in sessions => c \in struck'
    PROVE  SessionsInv'
<1>1. \A d \in BbsUsers \ {c} : pc'[d] = pc[d]
  BY DEF TaskEnds, Goto, TypeOK, BbsUsers, Conns
<1>2. webMap' \subseteq webMap /\ c \notin webMap'
  BY KindsAssumption DEF TaskEnds, TypeOK, KindsAssumption
<1>. QED  BY <1>1, <1>2, SessionsStay DEF TypeOK, BbsUsers

\* Every step keeps the session tables.
LEMMA SessionsKept ==
    ASSUME TypeOK, Kinds, SessionsInv, [Next]_vars
    PROVE  SessionsInv'
<1>. USE DEF Kinds, tables, web
<1>1. ASSUME NEW c \in Callers, CallerArrives(c)
      PROVE  SessionsInv'
  <2>1. CASE Full
    <3>1. Goto(c, "refusing") /\ pc[c] = "new" /\ UNCHANGED <<sessions, tasks, struck, webMap>>
      BY <1>1, <2>1 DEF CallerArrives, MayArrive
    <3>2. \A d \in BbsUsers : pc'[d] = pc[d] \/ d = c
      BY <3>1 DEF Goto, TypeOK, BbsUsers, Conns
    <3>3. c \notin webMap /\ (c \in sessions => c \in struck)
      BY <3>1, KindsAssumption DEF SessionsInv, Inside, BbsAwaits, TypeOK, KindsAssumption
    <3>. QED  BY <3>1, <3>2, <3>3, SessionsStay DEF TypeOK, BbsUsers
  <2>2. CASE ~Full
    BY <1>1, <2>2, SessionEnters DEF CallerArrives, BbsUsers, Inside, BbsAwaits
  <2>. QED  BY <2>1, <2>2
<1>2. ASSUME NEW c \in Terminals, TerminalCreated(c)
      PROVE  SessionsInv'
  <2>1. CASE Full
    <3>1. Goto(c, "ended") /\ pc[c] = "new" /\ UNCHANGED <<sessions, tasks, struck, webMap>>
      BY <1>2, <2>1 DEF TerminalCreated
    <3>2. \A d \in BbsUsers : pc'[d] = pc[d] \/ d = c
      BY <3>1 DEF Goto, TypeOK, BbsUsers, Conns
    <3>3. c \in sessions \cup webMap => c \in struck
      BY <3>1 DEF SessionsInv, Inside, BbsAwaits
    <3>. QED  BY <3>1, <3>2, <3>3, SessionsStay DEF TypeOK, BbsUsers
  <2>2. CASE ~Full
    BY <1>2, <2>2, SessionEnters DEF TerminalCreated, BbsUsers, Inside, BbsAwaits
  <2>. QED  BY <2>1, <2>2
\* A step within a session, or into its farewell.
<1>3. ASSUME NEW c \in BbsUsers,
             \/ Announced(c) \/ Opened(c) \/ SessionOver(c)
             \/ c \in Terminals /\ TerminalBegins(c)
      PROVE  SessionsInv'
  <2>1. /\ \E l \in Inside : Goto(c, l)
        /\ UNCHANGED <<sessions, tasks, struck, webMap>>
    BY <1>3 DEF Announced, Opened, SessionOver, TerminalBegins, Inside, BbsAwaits
  <2>2. \A d \in BbsUsers : pc'[d] = pc[d] \/ pc'[d] \in Inside
    BY <2>1 DEF Goto, TypeOK, BbsUsers, Conns
  <2>. QED  BY <2>1, <2>2, SessionsStay DEF TypeOK, BbsUsers, Inside
<1>4. ASSUME NEW c \in BbsUsers, OpeningFails(c) \/ FarewellSaid(c)
      PROVE  SessionsInv'
  BY <1>4, FinallyKeeps DEF OpeningFails, FarewellSaid
<1>5. ASSUME NEW c \in BbsUsers, Recorded(c)
      PROVE  SessionsInv'
  BY <1>5, SessionLeaves DEF Recorded, BbsAwaits
<1>6. ASSUME NEW c \in BbsUsers, Notified(c)
      PROVE  SessionsInv'
  <2>1. c \in sessions => c \in struck
    BY <1>6 DEF Notified, SessionsInv, Inside
  <2>. QED  BY <1>6, <2>1, TaskEndKeeps DEF Notified
<1>7. ASSUME NEW c \in BbsUsers, Struck(c)
      PROVE  SessionsInv'
  <2>1. CASE pc[c] = "created"
    <3>1. Goto(c, "ended") /\ struck' = struck \cup {c} /\ UNCHANGED <<sessions, tasks, webMap>>
      BY <1>7, <2>1 DEF Struck
    <3>2. \A d \in BbsUsers : pc'[d] = pc[d] \/ d = c
      BY <3>1 DEF Goto, TypeOK, BbsUsers, Conns
    <3>. QED  BY <3>1, <3>2, SessionsStay DEF TypeOK, BbsUsers
  <2>2. CASE pc[c] \in {"announcing", "recording"}
    <3>1. TaskEnds(c) /\ struck' = struck \cup {c} /\ UNCHANGED <<sessions, tasks>>
      BY <1>7, <2>2 DEF Struck
    <3>. QED  BY <3>1, TaskEndKeeps
  <2>3. CASE pc[c] \in {"opening", "farewell"}
    BY <1>7, <2>3, FinallyKeeps DEF Struck
  <2>4. CASE pc[c] = "running"
    <3>1. Goto(c, "farewell") /\ UNCHANGED <<sessions, tasks, struck, webMap>>
      BY <1>7, <2>4 DEF Struck
    <3>2. \A d \in BbsUsers : pc'[d] = pc[d] \/ pc'[d] \in Inside
      BY <3>1 DEF Goto, TypeOK, BbsUsers, Conns, Inside, BbsAwaits
    <3>. QED  BY <3>1, <3>2, SessionsStay DEF TypeOK, BbsUsers, Inside
  <2>5. CASE pc[c] \in {"notifying", "refusing"}
    <3>1. TaskEnds(c) /\ UNCHANGED <<sessions, tasks, struck>>
      BY <1>7, <2>5 DEF Struck
    <3>2. c \in sessions => c \in struck
      BY <2>5 DEF SessionsInv, Inside, BbsAwaits
    <3>. QED  BY <3>1, <3>2, TaskEndKeeps
  <2>. QED  BY <1>7, <2>1, <2>2, <2>3, <2>4, <2>5 DEF Struck
<1>8. ASSUME NEW c \in BbsUsers, Refused(c)
      PROVE  SessionsInv'
  <2>1. pc[c] = "refusing" /\ UNCHANGED <<sessions, tasks, struck, webMap>>
    BY <1>8 DEF Refused
  <2>2. \A d \in BbsUsers : pc'[d] = pc[d] \/ d = c
    BY <1>8 DEF Refused, Goto, TypeOK, BbsUsers, Conns
  <2>3. c \in sessions \cup webMap => c \in struck
    BY <2>1 DEF SessionsInv, Inside, BbsAwaits
  <2>. QED  BY <2>1, <2>2, <2>3, SessionsStay DEF TypeOK, BbsUsers
\* The steps of guests and of node users, and those that only change what
\* SessionsInv does not speak of.
<1>9. ASSUME UNCHANGED <<sessions, tasks>>, struck \subseteq struck', webMap' \subseteq webMap,
             \A d \in BbsUsers : pc'[d] = pc[d]
      PROVE  SessionsInv'
  BY <1>9, SessionsStay DEF TypeOK, BbsUsers
<1>10. ASSUME NEW c \in Guests \cup NodeUsers, NEW l, Goto(c, l)
       PROVE  \A d \in BbsUsers : pc'[d] = pc[d]
  BY <1>10, KindsAssumption DEF Goto, TypeOK, BbsUsers, Conns, KindsAssumption
<1>11. ASSUME NEW c \in Guests, GuestDenied(c) \/ GuestArrives(c) \/ GuestStep(c)
       PROVE  SessionsInv'
  <2>1. \E l : Goto(c, l)
    BY <1>11 DEF GuestDenied, GuestArrives, GuestStep, Spawned, SpawnFails, BridgeOver,
       Terminated, KillAfterGrace, Killed, Flushed, Gathered, Journaled, ServiceOver, Teardown
  <2>2. UNCHANGED <<sessions, tasks, webMap, struck>>
    BY <1>11 DEF GuestDenied, GuestArrives, GuestStep, Spawned, SpawnFails, BridgeOver,
       Terminated, KillAfterGrace, Killed, Flushed, Gathered, Journaled, ServiceOver
  <2>. QED  BY <1>9, <1>10, <2>1, <2>2
<1>12. ASSUME NEW c \in NodeUsers, NodeUserArrives(c) \/ NodeStep(c) \/ LoopEnds(c)
       PROVE  SessionsInv'
  <2>1. UNCHANGED pc \/ \E l : Goto(c, l)
    BY <1>12 DEF NodeUserArrives, NodeStep, LoopStarts, LoopIdle, LoopEnds, LoopAwaited,
       LoopCancelled, LandingOver, Refused
  <2>2. UNCHANGED <<sessions, tasks, webMap, struck>>
    BY <1>12 DEF NodeUserArrives, NodeStep, LoopStarts, LoopIdle, LoopEnds, LoopAwaited,
       LoopCancelled, LandingOver, Refused
  <2>. QED  BY <1>9, <1>10, <2>1, <2>2
<1>13. ASSUME NEW c \in Conns,
              \/ Identified(c) \/ EntersChat(c) \/ LeavesChat(c) \/ CallerHangsUp(c)
              \/ PeerGone(c) \/ TerminalRequested(c) \/ StartTimesOut(c) \/ DrainStarts(c)
              \/ TerminalRegistered(c) \/ DrainEnds(c) \/ BrowserCloses(c) \/ ProgramExits(c)
       PROVE  SessionsInv'
  <2>1. UNCHANGED <<pc, sessions, tasks, webMap, struck>>
    BY <1>13 DEF Identified, EntersChat, LeavesChat, CallerHangsUp, PeerGone,
       TerminalRequested, StartTimesOut, DrainStarts, TerminalRegistered, DrainEnds,
       BrowserCloses, ProgramExits
  <2>. QED  BY <1>9, <2>1
<1>14. ASSUME NEW c \in Conns, Cancel(c)
       PROVE  SessionsInv'
  <2>1. CASE c \in BbsUsers /\ Struck(c)
    BY <2>1, <1>7
  <2>2. CASE c \in Guests /\ GuestStruck(c) /\ UNCHANGED web
    <3>1. \E l : Goto(c, l)
      BY <2>2 DEF GuestStruck, ServiceOver, Teardown
    <3>2. UNCHANGED <<sessions, tasks, webMap>> /\ struck \subseteq struck'
      BY <2>2 DEF GuestStruck, ServiceOver
    <3>. QED  BY <1>9, <1>10, <2>2, <3>1, <3>2
  <2>3. CASE c \in NodeUsers /\ NodeStruck(c) /\ UNCHANGED <<tables, web>>
    <3>1. \E l : Goto(c, l)
      BY <2>3 DEF NodeStruck
    <3>2. UNCHANGED <<sessions, tasks, webMap>> /\ struck \subseteq struck'
      BY <2>3 DEF NodeStruck
    <3>. QED  BY <1>9, <1>10, <2>3, <3>1, <3>2
  <2>. QED  BY <1>14, <2>1, <2>2, <2>3 DEF Cancel, BbsUsers
<1>15. CASE UNCHANGED vars
  BY <1>9, <1>15 DEF vars
<1>16. ASSUME NEW c \in BbsUsers, SessionStep(c)
       PROVE  SessionsInv'
  BY <1>16, <1>3, <1>4, <1>5, <1>6, <1>8 DEF SessionStep, IdleFires, EofSeen
<1>17. ASSUME NEW c \in Terminals, TerminalStep(c)
       PROVE  SessionsInv'
  BY <1>17, <1>2, <1>3, <1>13, <1>16 DEF TerminalStep, BbsUsers, Conns
<1>. QED
  BY <1>1, <1>3, <1>11, <1>12, <1>13, <1>14, <1>15, <1>16, <1>17
  DEF Next, BbsUsers, Conns

-----------------------------------------------------------------------------
\* A step of one guest keeps the guests' table when it leaves the guest in it
\* at an await of its teardown or before, or takes it out.
LEMMA GuestMoves ==
    ASSUME TypeOK, GuestsInv, NEW c \in Guests, NEW l, Goto(c, l),
           \/ guests' = guests /\ (c \in guests => l \in ServiceAwaits \ {"journaling"})
           \/ guests' = guests \ {c}
    PROVE  GuestsInv'
<1>1. pc'[c] = l /\ \A d \in Guests \ {c} : pc'[d] = pc[d]
  BY DEF Goto, TypeOK, Conns
<1>2. guests' \subseteq guests /\ guests \subseteq Guests
  BY DEF TypeOK
<1>3. IsFiniteSet(guests') /\ Cardinality(guests') <= Cardinality(guests)
  BY <1>2, FS_Subset DEF GuestsInv
<1>4. Cardinality(guests') <= MaxSessions
  BY <1>3, FS_CardinalityType, BoundsAssumption DEF GuestsInv, BoundsAssumption
<1>. QED  BY <1>1, <1>2, <1>3, <1>4 DEF GuestsInv

\* Every step keeps the guests' table under its cap and its entries to tasks
\* that have yet to end their teardown.
LEMMA GuestsKept ==
    ASSUME TypeOK, Kinds, GuestsInv, [Next]_vars
    PROVE  GuestsInv'
<1>. USE DEF tables
<1>1. ASSUME NEW c \in Guests, GuestArrives(c), ~ServicesFull
      PROVE  GuestsInv'
  <2>1. guests' = guests \cup {c} /\ Goto(c, "spawning")
    BY <1>1 DEF GuestArrives
  <2>2. pc'[c] = "spawning" /\ \A d \in Guests \ {c} : pc'[d] = pc[d]
    BY <2>1 DEF Goto, TypeOK, Conns
  <2>3. IsFiniteSet(guests') /\ Cardinality(guests') \in {Cardinality(guests), Cardinality(guests) + 1}
    BY <2>1, FS_AddElement DEF GuestsInv
  <2>4. Cardinality(guests') <= MaxSessions
    BY <1>1, <2>3, FS_CardinalityType, BoundsAssumption
    DEF GuestsInv, BoundsAssumption, ServicesFull
  <2>. QED  BY <2>1, <2>2, <2>3, <2>4 DEF GuestsInv, ServiceAwaits, TypeOK
<1>2. ASSUME NEW c \in Guests, pc[c] = "new"
      PROVE  c \notin guests
  BY <1>2 DEF GuestsInv, ServiceAwaits
<1>3. ASSUME NEW c \in Guests, GuestDenied(c) \/ (GuestArrives(c) /\ ServicesFull)
      PROVE  GuestsInv'
  BY <1>2, <1>3, GuestMoves DEF GuestDenied, GuestArrives, MayArrive
<1>4. ASSUME NEW c \in Guests, SpawnFails(c) \/ Gathered(c)
      PROVE  GuestsInv'
  BY <1>4, GuestMoves DEF SpawnFails, Gathered, ServiceOver
<1>5. ASSUME NEW c \in Guests,
             Spawned(c) \/ BridgeOver(c) \/ Terminated(c) \/ KillAfterGrace(c) \/ Killed(c) \/ Flushed(c)
      PROVE  GuestsInv'
  <2>1. guests' = guests /\ \E l \in ServiceAwaits \ {"journaling"} : Goto(c, l)
    BY <1>5 DEF Spawned, BridgeOver, Terminated, KillAfterGrace, Killed, Flushed, Teardown,
       ServiceAwaits
  <2>. QED  BY <2>1, GuestMoves
<1>6. ASSUME NEW c \in Guests, Journaled(c)
      PROVE  GuestsInv'
  <2>1. c \notin guests
    BY <1>6 DEF Journaled, GuestsInv
  <2>. QED  BY <1>6, <2>1, GuestMoves DEF Journaled
<1>7. ASSUME NEW c \in Guests, GuestStruck(c)
      PROVE  GuestsInv'
  <2>1. CASE pc[c] = "bridging"
    <3>1. guests' = guests /\ \E l \in ServiceAwaits \ {"journaling"} : Goto(c, l)
      BY <1>7, <2>1 DEF GuestStruck, Teardown, ServiceAwaits
    <3>. QED  BY <3>1, GuestMoves
  <2>2. CASE pc[c] \in {"spawning", "terminating", "killing", "flushing", "gathering"}
    BY <1>7, <2>2, GuestMoves DEF GuestStruck, ServiceOver
  <2>3. CASE pc[c] = "journaling"
    <3>1. c \notin guests
      BY <2>3 DEF GuestsInv
    <3>. QED  BY <1>7, <2>3, <3>1, GuestMoves DEF GuestStruck
  <2>. QED  BY <1>7, <2>1, <2>2, <2>3 DEF GuestStruck
\* The steps of everyone else, and of a program.
<1>8. ASSUME UNCHANGED guests, \A d \in Guests : pc'[d] = pc[d]
      PROVE  GuestsInv'
  BY <1>8 DEF GuestsInv, TypeOK
<1>9. ASSUME NEW c \in BbsUsers \cup NodeUsers, NEW l, Goto(c, l)
      PROVE  \A d \in Guests : pc'[d] = pc[d]
  BY <1>9, KindsAssumption DEF Goto, TypeOK, BbsUsers, Conns, KindsAssumption
<1>10. ASSUME NEW c \in BbsUsers,
              \/ c \in Callers /\ CallerArrives(c)
              \/ c \in Terminals /\ (TerminalCreated(c) \/ TerminalBegins(c))
              \/ SessionStep(c) \/ SessionOver(c) \/ Struck(c)
       PROVE  GuestsInv'
  <2>1. /\ \E l : Goto(c, l)
        /\ UNCHANGED guests
    BY <1>10 DEF CallerArrives, TerminalCreated, TerminalBegins, SessionStep, SessionOver,
       Struck, Refused, Announced, Opened, OpeningFails, IdleFires, EofSeen, FarewellSaid,
       Recorded, Notified, TaskEnds, Finally, Enter
  <2>. QED  BY <1>8, <1>9, <2>1
<1>11. ASSUME NEW c \in NodeUsers,
              NodeUserArrives(c) \/ NodeStep(c) \/ LoopEnds(c)
              \/ (NodeStruck(c) /\ UNCHANGED tables)
       PROVE  GuestsInv'
  <2>1. UNCHANGED guests /\ (UNCHANGED pc \/ \E l : Goto(c, l))
    BY <1>11 DEF NodeUserArrives, NodeStep, LoopStarts, LoopIdle, LoopEnds, LoopAwaited,
       LoopCancelled, LandingOver, Refused, NodeStruck
  <2>. QED  BY <1>8, <1>9, <2>1
<1>12. ASSUME NEW c \in Conns,
              \/ Identified(c) \/ EntersChat(c) \/ LeavesChat(c) \/ CallerHangsUp(c)
              \/ PeerGone(c) \/ TerminalRequested(c) \/ StartTimesOut(c) \/ DrainStarts(c)
              \/ TerminalRegistered(c) \/ DrainEnds(c) \/ BrowserCloses(c) \/ ProgramExits(c)
       PROVE  GuestsInv'
  <2>1. UNCHANGED <<pc, guests>>
    BY <1>12 DEF Identified, EntersChat, LeavesChat, CallerHangsUp, PeerGone,
       TerminalRequested, StartTimesOut, DrainStarts, TerminalRegistered, DrainEnds,
       BrowserCloses, ProgramExits
  <2>. QED  BY <1>8, <2>1
<1>13. ASSUME NEW c \in Conns, Cancel(c)
       PROVE  GuestsInv'
  BY <1>7, <1>10, <1>11, <1>13 DEF Cancel, BbsUsers
<1>14. CASE UNCHANGED vars
  BY <1>8, <1>14 DEF vars
<1>15. ASSUME NEW c \in Guests, GuestDenied(c) \/ GuestArrives(c) \/ GuestStep(c)
       PROVE  GuestsInv'
  <2>1. CASE GuestArrives(c)
    BY <1>1, <1>3, <2>1
  <2>. QED  BY <1>3, <1>4, <1>5, <1>6, <1>15, <2>1 DEF GuestStep
<1>16. ASSUME NEW c \in Terminals, TerminalStep(c)
       PROVE  GuestsInv'
  BY <1>10, <1>12, <1>16 DEF TerminalStep, BbsUsers, Conns
<1>. QED
  BY <1>10, <1>11, <1>12, <1>13, <1>14, <1>15, <1>16 DEF Next, BbsUsers, Conns

-----------------------------------------------------------------------------
\* Every step keeps what the place of a guest's task says of its program: a
\* teardown that nothing strikes has ended it by the time the entry goes.
LEMMA ProgramKept ==
    ASSUME TypeOK, Kinds, ProgramInv, [Next]_vars
    PROVE  ProgramInv'
<1>. USE DEF tables
<1>1. ASSUME NEW c \in Guests, GuestDenied(c) \/ GuestArrives(c) \/ ProgramExits(c)
      PROVE  ProgramInv'
  BY <1>1 DEF GuestDenied, GuestArrives, ProgramExits, MayArrive, Goto, ProgramInv, TypeOK, Conns
<1>2. ASSUME NEW c \in Guests, Spawned(c) \/ SpawnFails(c) \/ BridgeOver(c) \/ Terminated(c)
      PROVE  ProgramInv'
  BY <1>2 DEF Spawned, SpawnFails, BridgeOver, Terminated, Teardown, ServiceOver, Goto,
     ProgramInv, TypeOK, Conns
<1>3. ASSUME NEW c \in Guests,
             KillAfterGrace(c) \/ Killed(c) \/ Flushed(c) \/ Gathered(c) \/ Journaled(c)
      PROVE  ProgramInv'
  BY <1>3 DEF KillAfterGrace, Killed, Flushed, Gathered, Journaled, ServiceOver, Goto,
     ProgramInv, TypeOK, Conns
<1>4. ASSUME NEW c \in Guests, GuestStruck(c), UNCHANGED <<process, closed>>
      PROVE  ProgramInv'
  BY <1>4 DEF GuestStruck, Teardown, ServiceOver, Goto, ProgramInv, TypeOK, Conns
\* The steps of everyone else.
<1>5. ASSUME UNCHANGED process, closed \subseteq closed', struck \subseteq struck',
             \A d \in Guests : pc'[d] = pc[d]
      PROVE  ProgramInv'
  BY <1>5 DEF ProgramInv
<1>6. ASSUME NEW c \in BbsUsers \cup NodeUsers, NEW l, Goto(c, l)
      PROVE  \A d \in Guests : pc'[d] = pc[d]
  BY <1>6, KindsAssumption DEF Goto, TypeOK, BbsUsers, Conns, KindsAssumption
<1>7. ASSUME NEW c \in BbsUsers,
             \/ c \in Callers /\ CallerArrives(c)
             \/ c \in Terminals /\ (TerminalCreated(c) \/ TerminalBegins(c))
             \/ SessionStep(c) \/ SessionOver(c)
             \/ Struck(c) /\ UNCHANGED <<process, closed>>
      PROVE  ProgramInv'
  <2>1. \E l : Goto(c, l)
    BY <1>7 DEF CallerArrives, TerminalCreated, TerminalBegins, SessionStep, SessionOver,
       Struck, Refused, Announced, Opened, OpeningFails, IdleFires, EofSeen, FarewellSaid,
       Recorded, Notified, TaskEnds, Finally
  <2>2. UNCHANGED process /\ closed \subseteq closed' /\ struck \subseteq struck'
    BY <1>7 DEF CallerArrives, TerminalCreated, TerminalBegins, SessionStep, SessionOver,
       Struck, Refused, Announced, Opened, OpeningFails, IdleFires, EofSeen, FarewellSaid,
       Recorded, Notified
  <2>. QED  BY <1>5, <1>6, <2>1, <2>2
<1>8. ASSUME NEW c \in NodeUsers,
             \/ NodeUserArrives(c) \/ NodeStep(c) \/ LoopEnds(c)
             \/ NodeStruck(c) /\ UNCHANGED <<process, closed>>
      PROVE  ProgramInv'
  <2>1. UNCHANGED pc \/ \E l : Goto(c, l)
    BY <1>8 DEF NodeUserArrives, NodeStep, LoopStarts, LoopIdle, LoopEnds, LoopAwaited,
       LoopCancelled, LandingOver, Refused, NodeStruck
  <2>2. UNCHANGED process /\ closed \subseteq closed' /\ struck \subseteq struck'
    BY <1>8 DEF NodeUserArrives, NodeStep, LoopStarts, LoopIdle, LoopEnds, LoopAwaited,
       LoopCancelled, LandingOver, Refused, NodeStruck
  <2>. QED  BY <1>5, <1>6, <2>1, <2>2
<1>9. ASSUME NEW c \in Conns,
             \/ Identified(c) \/ EntersChat(c) \/ LeavesChat(c) \/ CallerHangsUp(c)
             \/ PeerGone(c) \/ TerminalRequested(c) \/ StartTimesOut(c) \/ DrainStarts(c)
             \/ TerminalRegistered(c) \/ DrainEnds(c) \/ BrowserCloses(c)
      PROVE  ProgramInv'
  <2>1. UNCHANGED <<pc, process, closed, struck>>
    BY <1>9 DEF Identified, EntersChat, LeavesChat, CallerHangsUp, PeerGone,
       TerminalRequested, StartTimesOut, DrainStarts, TerminalRegistered, DrainEnds,
       BrowserCloses
  <2>. QED  BY <1>5, <2>1
<1>10. ASSUME NEW c \in Conns, Cancel(c)
       PROVE  ProgramInv'
  BY <1>4, <1>7, <1>8, <1>10 DEF Cancel, BbsUsers
<1>11. CASE UNCHANGED vars
  BY <1>5, <1>11 DEF vars
<1>. QED
  BY <1>1, <1>2, <1>3, <1>7, <1>8, <1>9, <1>10, <1>11
  DEF Next, TerminalStep, GuestStep, BbsUsers, Conns

-----------------------------------------------------------------------------
\* The engine starts with empty tables and no connection.
LEMMA InitEngineInv == Init => EngineInv
<1>. SUFFICES ASSUME Init PROVE EngineInv
  OBVIOUS
<1>1. TypeOK /\ Kinds
  BY BoundsAssumption DEF Init, TypeOK, Kinds, BoundsAssumption, Conns, Awaits, BbsUsers
<1>2. IsFiniteSet({}) /\ Cardinality({}) = 0
  BY FS_EmptySet
<1>3. SessionsInv /\ GuestsInv /\ ProgramInv
  BY <1>2, BoundsAssumption
  DEF Init, SessionsInv, GuestsInv, ProgramInv, BoundsAssumption, Conns
<1>. QED  BY <1>1, <1>3 DEF EngineInv

\* What the tables of _on_connection(), _create_and_run_web_session() and
\* _run_external_service() say of the tasks, in every state of the engine.
THEOREM EngineInvariant == Spec => []EngineInv
<1>1. Init => EngineInv
  BY InitEngineInv
<1>2. EngineInv /\ [Next]_vars => EngineInv'
  BY TypesKept, SessionsKept, GuestsKept, ProgramKept DEF EngineInv
<1>. QED  BY <1>1, <1>2, PTL DEF Spec

\* The two session tables hold the same sessions, no more than max_users, and
\* an entry whose task has ended is left by a cancellation at an unprotected
\* await of _run_session() and by nothing else; nor does the resize map name a
\* terminal whose task has ended otherwise.
THEOREM TablesAreTrue == Spec => []TablesTrue
<1>1. EngineInv => TablesTrue
  BY DEF EngineInv, TablesTrue, SessionsInv, Live, Inside, Awaits
<1>. QED  BY <1>1, EngineInvariant, PTL

\* run_service() and _teardown(): no guest leaves the table with its program
\* running or its connection open unless the teardown was cancelled, and there
\* are never more guests than services.max_sessions.
THEOREM GuestsAreTornDown == Spec => []GuestsTornDown
<1>1. EngineInv => GuestsTornDown
  BY DEF EngineInv, GuestsTornDown, GuestsInv, ProgramInv, Live, Awaits
<1>. QED  BY <1>1, EngineInvariant, PTL
=============================================================================
