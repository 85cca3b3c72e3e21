------------------------------- MODULE SignIn -------------------------------
(***************************************************************************)
(* The accounts of MCM's operators: login with lockout, the second factor  *)
(* (enrolment, login step, step-up proofs for guarded operations, recovery *)
(* codes) and account administration.                                      *)
(*                                                                         *)
(* Handlers run concurrently over one SQLite connection: a statement is    *)
(* atomic and nothing is held between two statements, so a handler is one  *)
(* step per statement that writes, preceded by one step for its reads.  A  *)
(* request that a crash ends, or a database error, simply stops there; but *)
(* the statements of the lockout are given the request's context, and their*)
(* errors are dropped: the handler goes on without them ("fault").         *)
(*                                                                         *)
(* Time counts TOTP steps.  Passwords are abstracted to right or wrong, a  *)
(* TOTP code to the step it belongs to, tokens to their signed claims; a   *)
(* request that is refused without touching the database is no step.       *)
(***************************************************************************)
EXTENDS Integers, FiniteSets, Functions

CONSTANTS
  Clients,      \* concurrent requests
  SourceOf,     \* the address each request comes from
  Names,        \* usernames a request may carry
  Bootstrap,    \* auth.bootstrap_admin.username
  Start,        \* the accounts the database holds, by id
  MaxAttempts,  \* auth.login_lockout.max_attempts
  Window,       \* auth.login_lockout.window, in TOTP steps
  TokenTTL,     \* auth.token_ttl
  ActionMFATTL, \* life of a step-up proof
  ChallengeTTL, \* mfaChallengeTTL
  RecoveryCodes,\* the recovery codes of one enrolment
  MaxIds, MaxSecrets,   \* bounds of the instance
  Loads         \* mixes of requests, each with its bounds: [ops, requests, time]

ASSUME SignInAssumption ==
  /\ {MaxAttempts, Window, TokenTTL, ActionMFATTL, ChallengeTTL} \subseteq Nat \ {0}
  /\ MaxIds \in Nat /\ MaxSecrets \in Nat
  /\ \A l \in Loads : l.requests \in Nat /\ l.time \in Nat

VARIABLES
  now,
  users,        \* admin_users, by id
  nextId,       \* AUTOINCREMENT of admin_users
  recovery,     \* admin_mfa_recovery_codes with used = 0
  attempts,     \* login_attempts with success = 0
  tokens, challenges, proofs,   \* what TokenManager has signed
  req,          \* what each handler in progress holds
  load, requests,   \* the mix of requests of this behaviour, and those begun
  secrets,      \* TOTP secrets generated
  (* history, read by no action *)
  guesses,      \* failures answered to clients, since the last reset
  accepted,     \* codes accepted, with their number
  verified,     \* step-ups answered
  latest,       \* the secret each account was last given, 0 for none
  alone         \* no two account changes have overlapped

rows == <<users, nextId, recovery, attempts, secrets>>
signed == <<tokens, challenges, proofs>>
history == <<guesses, accepted, verified, latest, alone>>
vars == <<now, rows, signed, req, load, requests, history>>

Idle == [op |-> "idle"]
NoSecret == 0
Unused == -1          \* mfa_last_totp_step before any code
Wrong == -1           \* a code that matches no step

Row(name, role, disabled) ==
  [name |-> name, role |-> role, disabled |-> disabled,
   enabled |-> FALSE, secret |-> NoSecret, last |-> Unused]

\* The roles, as far as the administrator's routes tell them apart.
Roles == {"admin", "viewer"}

AnyName == Names \cup {Bootstrap} \cup {Start[i].name : i \in DOMAIN Start}
Account(max) == [name : AnyName, role : Roles, disabled : BOOLEAN, enabled : BOOLEAN,
                 secret : 0..max, last : Int]
Enrolments == Cardinality({i \in DOMAIN Start : Start[i].enabled})

\* An empty username is refused, and clientIP always has an address.
ASSUME RequestAssumption ==
  /\ IsFiniteSet(Clients)
  /\ SourceOf \in [Clients -> STRING \ {""}]
  /\ "" \notin AnyName

\* Rows are numbered from 1, one at least is an active administrator's
\* (BootstrapAdmin, before the server starts), and the enrolled accounts hold
\* the secrets generated so far.
ASSUME StartAssumption ==
  /\ \E n \in 0..MaxIds : DOMAIN Start = 1..n
  /\ \E i \in DOMAIN Start : Start[i].role = "admin" /\ ~Start[i].disabled
  /\ Start \in [DOMAIN Start -> Account(Enrolments)]
  /\ \A i \in DOMAIN Start : Start[i].enabled => Start[i].secret # NoSecret

ActiveAdmins == {i \in DOMAIN users : users[i].role = "admin" /\ ~users[i].disabled}
getAdminUser(name) == {i \in DOMAIN users : users[i].name = name}
Taken(name, but) == getAdminUser(name) \ but # {}
Inserted(row) == [i \in DOMAIN users \cup {nextId} |-> IF i = nextId THEN row ELSE users[i]]

-----------------------------------------------------------------------------
(* The login_attempts table *)

\* A table of equal rows is a set of rows with their ordinal.
Added(table, row) ==
  table \cup {[row |-> row, n |-> 1 + Cardinality({a \in table : a.row = row})]}
By(table, name, source) == {a \in table : a.row.name = name \/ a.row.source = source}
Since(table, t) == {a \in table : a.row.at >= t}

\* No name and no address is empty, so "" selects by the other identifier alone.
CountFailed(name, source) == Cardinality(Since(By(attempts, name, source), now - Window))

\* The statements of the lockout that fail: the client is gone, or the database
\* is busy.
Failing(statements) == SUBSET (IF "fault" \in load.ops THEN statements ELSE {})

\* A count that fails locks nobody out.
enforceLoginLockout(name, source, failing) ==
  \/ "ip" \notin failing /\ CountFailed("", source) >= MaxAttempts
  \/ "name" \notin failing /\ CountFailed(name, "") >= MaxAttempts

MutCutoff == now
Cutoff == now - 4 * Window

PruneLoginAttempts(table, failing) == IF "prune" \in failing THEN table ELSE Since(table, Cutoff)

\* "done", read by no action, are the statements that were carried out.
Failure(name, c, done) == [name |-> name, source |-> SourceOf[c], at |-> now, done |-> done]

\* The failure is answered whether or not it was recorded.
RecordFailure(name, c) == \E failing \in Failing({"insert", "prune"}) :
  LET row == Failure(name, c, req[c].done \cup ({"insert"} \ failing))
      table == IF "insert" \in failing THEN attempts ELSE Added(attempts, row)
  IN  /\ attempts' = PruneLoginAttempts(table, failing)
      /\ guesses' = Added(guesses, row)

ResetFailed(name, c, table) == \E failing \in Failing({"reset"}) :
  LET Kept(t) == IF "reset" \in failing THEN t ELSE t \ By(t, name, SourceOf[c])
  IN  attempts' = Kept(table) /\ guesses' = Kept(guesses)

-----------------------------------------------------------------------------
(* The second factor's columns *)

\* The steps whose code is accepted at time t.
MatchTOTPStep(t) == {s \in (t - 1)..(t + 1) : s >= 0}

SetAdminUserMFA(i, secret, enabled) ==
  users' = IF i \in DOMAIN users
           THEN [users EXCEPT ![i].secret = secret, ![i].enabled = enabled,
                              ![i].last = IF enabled THEN @ ELSE Unused]
           ELSE users

MutFresh(i, step) == i \in DOMAIN users /\ users[i].last # step
Fresh(i, step) == i \in DOMAIN users /\ users[i].last < step

ConsumeTOTPTimeStep(i, step) == users' = [users EXCEPT ![i].last = step]

CodesOf(i) == {r \in recovery : r.user = i}
GenerateRecoveryCodes(i, secret) == {[user |-> i, of |-> secret, no |-> n] : n \in RecoveryCodes}

\* One transaction; the foreign key refuses the codes of a deleted account.
ReplaceRecoveryCodes(i, codes) ==
  recovery' = IF i \in DOMAIN users THEN (recovery \ CodesOf(i)) \cup codes ELSE recovery
ConsumeRecoveryCode(r) == recovery' = recovery \ {r}
DeleteRecoveryCodes(i) == recovery' = recovery \ CodesOf(i)

Accept(i, secret, kind, code) ==
  accepted' = Added(accepted, [user |-> i, secret |-> secret, kind |-> kind, code |-> code])

-----------------------------------------------------------------------------
(* Every request: admission, and the end of one that is cut short *)

Admit(c, op) ==
  /\ op \in load.ops
  /\ req[c] = Idle
  /\ requests < load.requests
  /\ requests' = requests + 1
  /\ UNCHANGED load

Hold(c, held) == req' = [req EXCEPT ![c] = held]
End(c) == req' = [req EXCEPT ![c] = Idle]
Go(c, op) == req' = [req EXCEPT ![c] = [@ EXCEPT !.op = op]]

VerifyAt(t) == now < t.at + TokenTTL
loadCurrentUser(i) == i \in DOMAIN users /\ ~users[i].disabled
requireAuth(t) == VerifyAt(t) /\ loadCurrentUser(t.user)

\* requireRole(RoleAdmin, ...): the role is the row's, not the token's.
requireAdmin(t) == requireAuth(t) /\ users[t.user].role = "admin"

Enrolled(i) == users[i].enabled /\ users[i].secret # NoSecret

Disconnect(c) ==
  /\ req[c] # Idle
  /\ End(c)
  /\ UNCHANGED <<now, rows, signed, load, requests, history>>

-----------------------------------------------------------------------------
(* POST /auth/login and /auth/login/mfa *)

Outcome(name, right, done) ==
  LET found == getAdminUser(name)
  IN  IF ~right \/ \A i \in found : users[i].disabled
      THEN [op |-> "loginFails", user |-> 0, name |-> name, done |-> done]
      ELSE LET i == CHOOSE i \in found : TRUE
           IN  [op |-> IF users[i].enabled THEN "loginChallenge" ELSE "loginToken",
                user |-> i, name |-> name, done |-> done]

Login(c) == \E name \in Names, right \in BOOLEAN, failing \in Failing({"ip", "name"}) :
  /\ Admit(c, "login")
  /\ ~enforceLoginLockout(name, SourceOf[c], failing)
  /\ Hold(c, Outcome(name, right, {"ip", "name"} \ failing))
  /\ UNCHANGED <<now, rows, signed, history>>

LoginFails(c) ==
  /\ req[c].op = "loginFails"
  /\ RecordFailure(req[c].name, c)
  /\ End(c)
  /\ UNCHANGED <<now, users, nextId, recovery, secrets, signed, load, requests, accepted, verified, latest, alone>>

IssueMFAChallenge(i) == challenges' = challenges \cup {[user |-> i, exp |-> now + ChallengeTTL]}
VerifyMFAChallenge(ch) == now < ch.exp

LoginChallenge(c) ==
  /\ req[c].op = "loginChallenge"
  /\ IssueMFAChallenge(req[c].user)
  /\ \E failing \in Failing({"prune"}) : attempts' = PruneLoginAttempts(attempts, failing)
  /\ End(c)
  /\ UNCHANGED <<now, users, nextId, recovery, secrets, tokens, proofs, load, requests, history>>

Issue(i) == tokens' = tokens \cup {[user |-> i, at |-> now]}

LoginToken(c) ==
  /\ req[c].op = "loginToken"
  /\ Issue(req[c].user)
  /\ \E failing \in Failing({"prune"}) :
       ResetFailed(req[c].name, c, PruneLoginAttempts(attempts, failing))
  /\ End(c)
  /\ UNCHANGED <<now, users, nextId, recovery, secrets, challenges, proofs, load, requests, accepted, verified, latest, alone>>

\* The challenge names an account that is still enrolled; the code is one of
\* the accepted steps of its secret, or one of its unused recovery codes.
LoginMFA(c) == \E ch \in challenges :
  /\ Admit(c, "loginMFA")
  /\ VerifyMFAChallenge(ch)
  /\ loadCurrentUser(ch.user) /\ users[ch.user].enabled
  /\ LET Held(op, code) == [op |-> op, user |-> ch.user, name |-> users[ch.user].name,
                            secret |-> users[ch.user].secret, code |-> code]
     IN  \/ \E step \in MatchTOTPStep(now) :
              users[ch.user].secret # NoSecret /\ Hold(c, Held("loginTOTP", step))
         \/ \E r \in CodesOf(ch.user) : Hold(c, Held("loginRecovery", r))
  /\ UNCHANGED <<now, rows, signed, history>>

LoginTOTP(c) == LET r == req[c] IN
  /\ r.op = "loginTOTP"
  /\ IF Fresh(r.user, r.code)
     THEN /\ ConsumeTOTPTimeStep(r.user, r.code)
          /\ Accept(r.user, r.secret, "totp", r.code)
          /\ Issue(r.user)
          /\ ResetFailed(r.name, c, attempts)
     ELSE UNCHANGED <<users, accepted, tokens, attempts, guesses>>
  /\ End(c)
  /\ UNCHANGED <<now, nextId, recovery, secrets, challenges, proofs, load, requests, verified, latest, alone>>

LoginRecovery(c) == LET r == req[c] IN
  /\ r.op = "loginRecovery"
  /\ IF r.code \in recovery
     THEN /\ ConsumeRecoveryCode(r.code)
          /\ Accept(r.user, r.code.of, "recovery", r.code.no)
          /\ Issue(r.user)
          /\ ResetFailed(r.name, c, attempts)
     ELSE UNCHANGED <<recovery, accepted, tokens, attempts, guesses>>
  /\ End(c)
  /\ UNCHANGED <<now, users, nextId, secrets, challenges, proofs, load, requests, verified, latest, alone>>

-----------------------------------------------------------------------------
(* Step-up proofs and the operations they guard *)

StepUp(c) == \E t \in tokens, code \in MatchTOTPStep(now) \cup {Wrong}, failing \in Failing({"ip", "name"}) :
  /\ Admit(c, "stepUp")
  /\ requireAuth(t)
  /\ ~enforceLoginLockout(users[t.user].name, SourceOf[c], failing)
  /\ Enrolled(t.user)
  /\ Hold(c, [op |-> "stepUp", user |-> t.user, name |-> users[t.user].name,
               secret |-> users[t.user].secret, code |-> code, session |-> t,
               done |-> {"ip", "name"} \ failing])
  /\ UNCHANGED <<now, rows, signed, history>>

IssueActionMFA(t, secret) ==
  proofs' = proofs \cup {[user |-> t.user, session |-> t, secret |-> secret, exp |-> now + ActionMFATTL]}

StepUpProves(c) == LET r == req[c] IN
  /\ r.op = "stepUp" /\ r.code # Wrong /\ Fresh(r.user, r.code)
  /\ ConsumeTOTPTimeStep(r.user, r.code)
  /\ IssueActionMFA(r.session, r.secret)
  /\ ResetFailed(r.name, c, attempts)
  /\ Accept(r.user, r.secret, "totp", r.code)
  /\ verified' = verified \cup {[session |-> r.session, secret |-> r.secret, at |-> now]}
  /\ End(c)
  /\ UNCHANGED <<now, nextId, recovery, secrets, tokens, challenges, load, requests, latest, alone>>

StepUpFails(c) == LET r == req[c] IN
  /\ r.op = "stepUp" /\ (r.code = Wrong \/ ~Fresh(r.user, r.code))
  /\ RecordFailure(r.name, c)
  /\ End(c)
  /\ UNCHANGED <<now, users, nextId, recovery, secrets, signed, load, requests, accepted, verified, latest, alone>>

MutVerifyActionMFA(p, t, secret) == p.session = t /\ p.user = t.user /\ now < p.exp
VerifyActionMFA(p, t, secret) ==
  /\ p.session = t /\ p.user = t.user
  /\ p.secret = secret
  /\ now < p.exp

Guarded(c) == \E t \in tokens, p \in proofs :
  /\ Admit(c, "guarded")
  /\ requireAdmin(t)
  /\ Enrolled(t.user)
  /\ VerifyActionMFA(p, t, users[t.user].secret)
  /\ Hold(c, [op |-> "guarded", session |-> t])
  /\ UNCHANGED <<now, rows, signed, history>>

GuardedEnds(c) ==
  /\ req[c].op = "guarded"
  /\ End(c)
  /\ UNCHANGED <<now, rows, signed, load, requests, history>>

-----------------------------------------------------------------------------
(* Enrolment: setup, verify and disable *)

\* The secret is stored pending, its recovery codes by a second statement.
MFASetup(c) == \E t \in tokens :
  /\ Admit(c, "setup")
  /\ requireAuth(t)
  /\ secrets < MaxSecrets
  /\ secrets' = secrets + 1
  /\ SetAdminUserMFA(t.user, secrets', FALSE)
  /\ latest' = [latest EXCEPT ![t.user] = secrets']
  /\ Hold(c, [op |-> "setupCodes", user |-> t.user, secret |-> secrets'])
  /\ UNCHANGED <<now, nextId, recovery, attempts, signed, guesses, accepted, verified, alone>>

SetupCodes(c) == LET r == req[c] IN
  /\ r.op = "setupCodes"
  /\ ReplaceRecoveryCodes(r.user, GenerateRecoveryCodes(r.user, r.secret))
  /\ End(c)
  /\ UNCHANGED <<now, users, nextId, attempts, secrets, signed, load, requests, history>>

MFAVerify(c) == \E t \in tokens, step \in MatchTOTPStep(now) :
  /\ Admit(c, "verify")
  /\ requireAuth(t)
  /\ users[t.user].secret # NoSecret
  /\ Hold(c, [op |-> "verifyEnable", user |-> t.user, secret |-> users[t.user].secret, code |-> step])
  /\ UNCHANGED <<now, rows, signed, history>>

VerifyEnable(c) ==
  /\ req[c].op = "verifyEnable"
  /\ SetAdminUserMFA(req[c].user, req[c].secret, TRUE)
  /\ Go(c, "verifyConsume")
  /\ UNCHANGED <<now, nextId, recovery, attempts, secrets, signed, load, requests, history>>

VerifyConsume(c) == LET r == req[c] IN
  /\ r.op = "verifyConsume"
  /\ IF Fresh(r.user, r.code)
     THEN ConsumeTOTPTimeStep(r.user, r.code) /\ Accept(r.user, r.secret, "totp", r.code)
     ELSE UNCHANGED <<users, accepted>>
  /\ End(c)
  /\ UNCHANGED <<now, nextId, recovery, attempts, secrets, signed, load, requests, guesses, verified, latest, alone>>

\* The request carries the right password.
MFADisable(c) == \E t \in tokens :
  /\ Admit(c, "disable")
  /\ requireAuth(t)
  /\ SetAdminUserMFA(t.user, NoSecret, FALSE)
  /\ latest' = [latest EXCEPT ![t.user] = NoSecret]
  /\ Hold(c, [op |-> "dropCodes", user |-> t.user])
  /\ UNCHANGED <<now, nextId, recovery, attempts, secrets, signed, guesses, accepted, verified, alone>>

DropCodes(c) ==
  /\ req[c].op = "dropCodes"
  /\ DeleteRecoveryCodes(req[c].user)
  /\ End(c)
  /\ UNCHANGED <<now, users, nextId, attempts, secrets, signed, load, requests, history>>

-----------------------------------------------------------------------------
(* Account administration *)

CreateAdminUser(c) == \E t \in tokens, name \in Names, role \in Roles, disabled \in BOOLEAN :
  /\ Admit(c, "create")
  /\ requireAdmin(t)
  /\ nextId <= MaxIds /\ ~Taken(name, {})
  /\ users' = Inserted(Row(name, role, disabled))
  /\ nextId' = nextId + 1
  /\ UNCHANGED <<now, recovery, attempts, secrets, signed, req, history>>

Changing(d) == req[d].op \in {"update", "delete"}

MutLastActiveAdmin(i) == i \in ActiveAdmins /\ Cardinality(ActiveAdmins) = 0
LastActiveAdmin(i) == i \in ActiveAdmins /\ Cardinality(ActiveAdmins) <= 1

\* Read and count come before the write, as statements of their own; a role
\* that is not given stays the one read.
UpdateAdminUser(c) ==
  \E t \in tokens, i \in DOMAIN users, name \in Names, role \in Roles \cup {""}, disabled \in BOOLEAN :
    /\ Admit(c, "update")
    /\ requireAdmin(t)
    /\ LET given == IF role = "" THEN users[i].role ELSE role
       IN  /\ (disabled \/ given # users[i].role) => ~LastActiveAdmin(i)
           /\ Hold(c, [op |-> "update", user |-> i, name |-> name, role |-> given, disabled |-> disabled])
    /\ alone' = (alone /\ \A d \in Clients : ~Changing(d))
    /\ UNCHANGED <<now, rows, signed, guesses, accepted, verified, latest>>

\* The username column is unique: the statement fails when another row has the name.
UpdateWrite(c) == LET r == req[c] IN
  /\ r.op = "update"
  /\ users' = IF r.user \in DOMAIN users /\ ~Taken(r.name, {r.user})
              THEN [users EXCEPT ![r.user] = [@ EXCEPT !.name = r.name, !.role = r.role,
                                                       !.disabled = r.disabled]]
              ELSE users
  /\ End(c)
  /\ UNCHANGED <<now, nextId, recovery, attempts, secrets, signed, load, requests, history>>

DeleteAdminUser(c) == \E t \in tokens, i \in DOMAIN users :
  /\ Admit(c, "delete")
  /\ requireAdmin(t)
  /\ ~LastActiveAdmin(i)
  /\ Hold(c, [op |-> "delete", user |-> i])
  /\ alone' = (alone /\ \A d \in Clients : ~Changing(d))
  /\ UNCHANGED <<now, rows, signed, guesses, accepted, verified, latest>>

\* The recovery codes go with the row (ON DELETE CASCADE).
DeleteWrite(c) ==
  /\ req[c].op = "delete"
  /\ users' = Restrict(users, DOMAIN users \ {req[c].user})
  /\ DeleteRecoveryCodes(req[c].user)
  /\ End(c)
  /\ UNCHANGED <<now, nextId, attempts, secrets, signed, load, requests, history>>

\* A start with no active administrator creates the configured one, and fails
\* when its name is taken.
Restart ==
  /\ "restart" \in load.ops
  /\ requests < load.requests
  /\ requests' = requests + 1
  /\ req' = [c \in Clients |-> Idle]
  /\ \/ /\ ActiveAdmins # {}
        /\ UNCHANGED <<users, nextId>>
     \/ /\ ActiveAdmins = {}
        /\ nextId <= MaxIds /\ ~Taken(Bootstrap, {})
        /\ users' = Inserted(Row(Bootstrap, "admin", FALSE))
        /\ nextId' = nextId + 1
  /\ UNCHANGED <<now, recovery, attempts, secrets, signed, load, history>>

Tick ==
  /\ now < load.time
  /\ now' = now + 1
  /\ UNCHANGED <<rows, signed, req, load, requests, history>>

-----------------------------------------------------------------------------
\* A database in use: some accounts are enrolled, with the code that enrolled
\* them as the last one, and each operator has a session.
Init ==
  /\ now = 1
  /\ users = Start
  /\ nextId = Cardinality(DOMAIN Start) + 1
  /\ recovery = UNION {GenerateRecoveryCodes(i, Start[i].secret) :
                        i \in {j \in DOMAIN Start : Start[j].enabled}}
  /\ attempts = {}
  /\ tokens = {[user |-> i, at |-> 0] : i \in DOMAIN Start}
  /\ challenges = {} /\ proofs = {}
  /\ req = [c \in Clients |-> Idle]
  /\ load \in Loads
  /\ requests = 0
  /\ secrets = Enrolments
  /\ guesses = {}
  /\ accepted = {[row |-> [user |-> i, secret |-> Start[i].secret, kind |-> "totp", code |-> Start[i].last], n |-> 1] :
                   i \in {j \in DOMAIN Start : Start[j].enabled}}
  /\ verified = {}
  /\ latest = [i \in 1..MaxIds |-> IF i \in DOMAIN Start THEN Start[i].secret ELSE NoSecret]
  /\ alone = TRUE

Next ==
  \/ \E c \in Clients :
       \/ Disconnect(c)
       \/ Login(c) \/ LoginFails(c) \/ LoginChallenge(c) \/ LoginToken(c)
       \/ LoginMFA(c) \/ LoginTOTP(c) \/ LoginRecovery(c)
       \/ StepUp(c) \/ StepUpProves(c) \/ StepUpFails(c)
       \/ Guarded(c) \/ GuardedEnds(c)
       \/ MFASetup(c) \/ SetupCodes(c)
       \/ MFAVerify(c) \/ VerifyEnable(c) \/ VerifyConsume(c)
       \/ MFADisable(c) \/ DropCodes(c)
       \/ CreateAdminUser(c)
       \/ UpdateAdminUser(c) \/ UpdateWrite(c)
       \/ DeleteAdminUser(c) \/ DeleteWrite(c)
  \/ Restart
  \/ Tick

Spec == Init /\ [][Next]_vars

-----------------------------------------------------------------------------
(* Properties *)

\* A code is accepted once: two requests that carry the same TOTP code or the
\* same recovery code, in whatever order their reads and their updates fall,
\* get one acceptance (ConsumeTOTPTimeStep, ConsumeRecoveryCode).  Codes of a
\* secret that was replaced or removed meanwhile are exempt: the replacement
\* forgets which of its steps were used.
CodesUsedOnce ==
  \A e \in accepted : e.row.kind = "recovery" \/ e.row.secret = latest[e.row.user] => e.n = 1

Carried(table, statements) == {a \in table : statements \subseteq a.row.done}

\* Login lockout under concurrency: within a window and since the last reset,
\* the password and step-up failures answered for one username, and those
\* answered to one address, exceed max_attempts - 1 only by the requests that
\* can be past the check and by the failures whose own count or record the
\* database did not carry out (enforceLoginLockout and recordLoginAttempt drop
\* those errors).  The table's pruning, the requests that are cut short and the
\* resets that fail add nothing.  The codes /auth/login/mfa refuses are neither
\* counted nor limited by this code.
GuessesLimited ==
  LET Recent(name, source, count) ==
        Cardinality(Since(By(Carried(guesses, {count, "insert"}), name, source), now - Window))
  IN  /\ \A name \in Names : Recent(name, "", "name") <= MaxAttempts - 1 + Cardinality(Clients)
      /\ \A source \in {SourceOf[c] : c \in Clients} :
           Recent("", source, "ip")
             <= MaxAttempts - 1 + Cardinality({c \in Clients : SourceOf[c] = source})

\* What docs/openapi.yaml says of login: once max_attempts failures of the window
\* were answered for a username the next attempt is locked out.  Requests that
\* passed the check together break it.
LockoutExact ==
  \A name \in Names : Cardinality(Since(By(guesses, name, ""), now - Window)) <= MaxAttempts

ProvenRecently(c) ==
  req[c] = Idle /\ req'[c].op = "guarded" =>
    LET t == req'[c].session
    IN  /\ t.user \in ActiveAdmins
        /\ \E v \in verified : /\ v.session = t
                               /\ users[t.user].enabled /\ v.secret = users[t.user].secret
                               /\ now - v.at < ActionMFATTL

\* A guarded operation begins only for an active, enrolled administrator who, in
\* this very session, gave a code of the secret now enrolled, not longer ago
\* than the life of a proof (requireRecentMFA over everything signed so far).
ProofsAreFresh == [][\A c \in Clients : ProvenRecently(c)]_vars

\* Updates and deletions that do not overlap leave an active administrator,
\* whatever was cut short, restarted, renamed or created between them
\* (UpdateAdminUser, DeleteAdminUser: ErrLastActiveAdmin).
ActiveAdminRemains == alone => ActiveAdmins # {}

\* What ErrLastActiveAdmin is for (storage/store.go): no change of an account
\* locks the system out.  Two changes that both counted the other's account as
\* active break it.
SystemNotLockedOut == ActiveAdmins # {}
=============================================================================
