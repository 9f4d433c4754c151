---------------------------- MODULE AuthService ----------------------------
(***************************************************************************)
(* Identification and one-time codes (src/bbs/core/auth.py, db/users.py,   *)
(* the calls of core/session.py) for the sessions of one callsign, while   *)
(* the sysop edits its account from the web (server/routes/users.py).      *)
(*                                                                         *)
(* Every statement is one transaction on a connection of its own; the      *)
(* steps of a call interleave with those of the others between statements. *)
(* Abstracted: a code is right for one position of one secret, or wrong    *)
(* everywhere; the time that a lockout lasts; names, colours, last_seen.   *)
(***************************************************************************)
EXTENDS Integers, FiniteSets

CONSTANTS
    Sessions,      \* sessions of the callsign
    MaxAttempts,   \* auth_max_attempts
    Budget,        \* wrong codes that may be tried before a lockout holds
    Approves,      \* whether new accounts are approved (enforce_active is off)
    Types,         \* the types of secrets the sysop provisions
    MaxSecrets,    \* bound: different secrets ever provisioned
    MaxCounter,    \* bound: positions of an HOTP secret
    MaxAccounts,   \* bound: accounts ever created for the callsign
    MaxFailures    \* bound: failures counted when a lockout runs out

ASSUME AuthAssumption ==
    /\ IsFiniteSet(Sessions)
    /\ MaxAttempts \in Nat \ {0} /\ Budget \in Nat
    /\ MaxSecrets \in Nat /\ MaxCounter \in Nat
    /\ MaxAccounts \in Nat /\ MaxFailures \in Nat
    /\ Approves \in BOOLEAN
    /\ Types \subseteq {"totp", "hotp"}

NoAccount == [id |-> 0, secret |-> 0, type |-> "totp", counter |-> 0,
              failures |-> 0, locked |-> FALSE, approved |-> FALSE]
NewAccount(n, ok) == [NoAccount EXCEPT !.id = n, !.approved = ok]

VARIABLES
    account,    \* the row of the callsign, or NoAccount
    accounts,   \* accounts created so far (AUTOINCREMENT)
    secrets,    \* secrets provisioned so far
    stmt,       \* the statement each session executes next
    id,         \* user_id of each session
    level,      \* its level: "none", "identified", "authenticated"
    approved,   \* its copy of the approval
    seen,       \* what its call has read: the account's id, and the count of
                \* failures or the counter that a right code leads to, if any
    answered,   \* the secret and position of the right code it gave
    \* history
    guesses,    \* wrong codes counted since the last reset, or about to be
    granted,    \* HOTP codes that have given access and are behind the counter
    stale       \* sessions whose right code was compared with a row before
                \* another HOTP code gave access

reads == <<id, level, approved, seen, answered>>
history == <<guesses, granted, stale>>
authVars == <<account, accounts, secrets, stmt, reads, history>>

Exists == account.id # 0
Proceed(s, l) == stmt' = [stmt EXCEPT ![s] = l]

AuthInit ==
    /\ account = NoAccount /\ accounts = 0 /\ secrets = 0
    /\ stmt = [s \in Sessions |-> "selecting"]
    /\ id = [s \in Sessions |-> 0]
    /\ level = [s \in Sessions |-> "none"]
    /\ approved = [s \in Sessions |-> FALSE]
    /\ seen = [s \in Sessions |-> <<0, 0>>]
    /\ answered = [s \in Sessions |-> <<0, 0>>]
    /\ guesses = 0 /\ granted = {} /\ stale = {}

-----------------------------------------------------------------------------
\* identify() and get_or_create()

Recognised(s, user) ==
    /\ Proceed(s, "idle")
    /\ id' = [id EXCEPT ![s] = user.id]
    /\ level' = [level EXCEPT ![s] = "identified"]
    /\ approved' = [approved EXCEPT ![s] = user.approved]

Select(s) ==
    /\ stmt[s] = "selecting"
    /\ IF Exists THEN Recognised(s, account)
                 ELSE Proceed(s, "inserting") /\ UNCHANGED <<id, level, approved>>
    /\ UNCHANGED <<account, accounts, secrets, seen, answered, history>>

\* The callsign is unique: if another session or the sysop has been faster,
\* the INSERT raises and the session ends.
Insert(s) ==
    /\ stmt[s] = "inserting" /\ accounts < MaxAccounts
    /\ IF Exists
       THEN Proceed(s, "ended") /\ UNCHANGED <<account, accounts>>
       ELSE /\ Proceed(s, "rereading")
            /\ accounts' = accounts + 1
            /\ account' = NewAccount(accounts + 1, Approves)
    /\ UNCHANGED <<secrets, reads, history>>

\* Read back after the commit; gone again, the assertion ends the session.
Reread(s) ==
    /\ stmt[s] = "rereading"
    /\ IF Exists THEN Recognised(s, account)
                 ELSE Proceed(s, "ended") /\ UNCHANGED <<id, level, approved>>
    /\ UNCHANGED <<account, accounts, secrets, seen, answered, history>>

-----------------------------------------------------------------------------
\* verify_otp()

\* The positions a code may be ahead of the counter.
LookAhead == 0 .. 2
BadCode == <<0, 0>>
Codes == {BadCode} \cup ((1 .. secrets) \X (0 .. MaxCounter))

\* For a time-based secret position 0 stands for the codes of its window.
Accepts(user, code) ==
    /\ code[1] = user.secret
    /\ IF user.type = "hotp" THEN code[2] - user.counter \in LookAhead
                             ELSE code[2] = 0

NextCounter(user, code) == IF user.type = "hotp" THEN code[2] + 1 ELSE 0

\* The row is read and the code compared with it before the next await.  A
\* callsign without account or secret, or locked, is turned away.
Answer(s) == \E code \in Codes :
    /\ stmt[s] = "idle" /\ level[s] = "identified"
    /\ Exists /\ ~account.locked /\ account.secret # 0
    /\ IF Accepts(account, code)
       THEN /\ Proceed(s, "resetting")
            /\ answered' = [answered EXCEPT ![s] = code]
            /\ seen' = [seen EXCEPT ![s] = <<account.id, NextCounter(account, code)>>]
            /\ UNCHANGED guesses
       ELSE /\ Proceed(s, "counting")
            /\ seen' = [seen EXCEPT ![s] = <<account.id, 0>>]
            /\ guesses' = guesses + 1
            /\ UNCHANGED answered
    /\ UNCHANGED <<account, accounts, secrets, id, level, approved, granted, stale>>

\* The statements of one call name the account it read; if that is gone they
\* change nothing.
Current(s) == seen[s][1] = account.id
Update(s, changed) == IF Current(s) THEN changed ELSE account

\* The sessions whose wrong code for this account is still to be counted, and
\* those whose right code is still to be acknowledged.
Unrecorded == {s \in Sessions : stmt[s] \in {"counting", "recording"} /\ Current(s)}
Accepted == {s \in Sessions : stmt[s] \in {"resetting", "advancing"}}

\* record_auth_failure(): the count is read ...
Count(s) ==
    /\ stmt[s] = "counting"
    /\ Proceed(s, "recording")
    /\ seen' = [seen EXCEPT ![s][2] = IF Current(s) THEN account.failures ELSE 0]
    /\ UNCHANGED <<account, accounts, secrets, id, level, approved, answered, history>>

\* A mutant: no failure locks the account.
FailuresNeverLock(user, n) == [user EXCEPT !.failures = n]

\* ... and written back, with the lock that goes with the new value, or none.
Failed(user, n) == [user EXCEPT !.failures = n, !.locked = (n >= MaxAttempts)]

Record(s) ==
    /\ stmt[s] = "recording"
    /\ Proceed(s, "idle")
    /\ account' = Update(s, Failed(account, seen[s][2] + 1))
    /\ seen' = [seen EXCEPT ![s] = <<0, 0>>]
    /\ UNCHANGED <<accounts, secrets, id, level, approved, answered, history>>

\* reset_auth_failures()
Reset(s) ==
    /\ stmt[s] = "resetting"
    /\ account' = Update(s, [account EXCEPT !.failures = 0, !.locked = FALSE])
    /\ guesses' = IF Current(s) THEN Cardinality(Unrecorded) ELSE guesses
    /\ Proceed(s, "advancing")
    /\ UNCHANGED <<accounts, secrets, reads, granted, stale>>

\* A mutant: the counter does not move.
OldCounter(user, n) == [user EXCEPT !.counter = @]

\* increment_hotp_counter(), of HOTP alone, and the access.  The counter is set
\* to what follows from the row the code was compared with: a stale call puts
\* it back, and codes behind it are ahead of it once more.
Advanced(user, n) == [user EXCEPT !.counter = n]

Behind(s) ==
    {c \in granted : s \in stale /\ c[1] = account.secret => c[2] < seen[s][2]}

Grant(s) ==
    /\ stmt[s] = "advancing"
    /\ Proceed(s, "idle")
    /\ level' = [level EXCEPT ![s] = "authenticated"]
    /\ id' = [id EXCEPT ![s] = seen[s][1]]
    /\ account' = IF seen[s][2] = 0 THEN account
                  ELSE Update(s, Advanced(account, seen[s][2]))
    /\ IF seen[s][2] # 0 /\ Current(s)
       THEN /\ granted' = Behind(s) \cup {answered[s]}
            /\ stale' = (stale \cup Accepted) \ {s}
       ELSE granted' = granted /\ stale' = stale \ {s}
    /\ seen' = [seen EXCEPT ![s] = <<0, 0>>]
    /\ answered' = [answered EXCEPT ![s] = BadCode]
    /\ UNCHANGED <<accounts, secrets, approved, guesses>>

\* The session ends, cancelled between two statements or on its own, and the
\* user comes back.  A failure not yet recorded then never is.
Disconnect(s) ==
    /\ stmt[s] # "selecting"
    /\ Proceed(s, "selecting")
    /\ id' = [id EXCEPT ![s] = 0]
    /\ level' = [level EXCEPT ![s] = "none"]
    /\ approved' = [approved EXCEPT ![s] = FALSE]
    /\ seen' = [seen EXCEPT ![s] = <<0, 0>>]
    /\ answered' = [answered EXCEPT ![s] = BadCode]
    /\ guesses' = IF s \in Unrecorded THEN guesses - 1 ELSE guesses
    /\ stale' = stale \ {s}
    /\ UNCHANGED <<account, accounts, secrets, granted>>

-----------------------------------------------------------------------------
\* The lockout runs out; the count of failures stays as it is.
LockExpires ==
    /\ account.locked /\ account.failures <= MaxFailures
    /\ account' = [account EXCEPT !.locked = FALSE]
    /\ guesses' = Cardinality(Unrecorded)
    /\ UNCHANGED <<accounts, secrets, stmt, reads, granted, stale>>

\* The web routes, each a transaction of its own in another thread.
CreateUser ==
    /\ ~Exists /\ accounts < MaxAccounts
    /\ accounts' = accounts + 1
    /\ \E ok \in BOOLEAN : account' = NewAccount(accounts + 1, ok)
    /\ UNCHANGED <<secrets, stmt, reads, history>>

UpdateUser == \E ok \in BOOLEAN :
    /\ Exists
    /\ account' = [account EXCEPT !.approved = ok]
    /\ UNCHANGED <<accounts, secrets, stmt, reads, history>>

DeleteUser ==
    /\ Exists
    /\ account' = NoAccount
    /\ guesses' = 0
    /\ UNCHANGED <<accounts, secrets, stmt, reads, granted, stale>>

\* The secret is a new one, or one that the sysop supplies: it may be the one
\* the account has or had, and the counter starts again.
SetUserSecret == \E type \in Types, secret \in 1 .. secrets + 1 :
    /\ Exists /\ secret <= MaxSecrets
    /\ secrets' = IF secret > secrets THEN secret ELSE secrets
    /\ account' = [account EXCEPT !.secret = secret, !.type = type, !.counter = 0]
    /\ granted' = {c \in granted : c[1] # secret}
    /\ UNCHANGED <<accounts, stmt, reads, guesses, stale>>

ClearUserSecret ==
    /\ Exists
    /\ account' = [account EXCEPT !.secret = 0, !.counter = 0]
    /\ UNCHANGED <<accounts, secrets, stmt, reads, history>>

AuthNext ==
    \/ \E s \in Sessions :
         \/ Select(s) \/ Insert(s) \/ Reread(s) \/ Answer(s)
         \/ Count(s) \/ Record(s) \/ Reset(s) \/ Grant(s) \/ Disconnect(s)
    \/ LockExpires \/ CreateUser \/ UpdateUser \/ DeleteUser
    \/ SetUserSecret \/ ClearUserSecret

AuthSpec == AuthInit /\ [][AuthNext]_authVars

-----------------------------------------------------------------------------
AuthTypeOK ==
    /\ account \in [id : 0 .. MaxAccounts, secret : 0 .. MaxSecrets,
                    type : {"totp", "hotp"}, counter : 0 .. MaxCounter + 1,
                    failures : Nat, locked : BOOLEAN, approved : BOOLEAN]
    /\ accounts \in 0 .. MaxAccounts /\ secrets \in 0 .. MaxSecrets
    /\ stmt \in [Sessions -> {"selecting", "inserting", "rereading", "idle", "counting",
                              "recording", "resetting", "advancing", "ended"}]
    /\ id \in [Sessions -> 0 .. MaxAccounts]
    /\ level \in [Sessions -> {"none", "identified", "authenticated"}]
    /\ approved \in [Sessions -> BOOLEAN]
    /\ seen \in [Sessions -> (0 .. MaxAccounts) \X Nat]
    /\ answered \in [Sessions -> (0 .. MaxSecrets) \X (0 .. MaxCounter)]

\* The lockout holds, if late: failures recorded from counts that were read
\* side by side overwrite each other and even lift a lock, but no more than
\* Budget wrong codes get through between two resets, where one session
\* alone has MaxAttempts (record_auth_failure, verify_otp).
LockoutHolds == AuthTypeOK /\ guesses <= Budget

\* An HOTP code that has given access gives it again only to a call that had
\* compared it before another code gave access, or after such a call has put the
\* counter back, or once the sysop has set its secret anew: whatever overlaps, is
\* cut off or is edited meanwhile (verify_otp, increment_hotp_counter,
\* set_user_secret).
CodeOnce ==
    [][\A s \in Sessions :
         Grant(s) /\ seen[s][2] # 0 /\ s \notin stale => answered[s] \notin granted]_authVars
=============================================================================
