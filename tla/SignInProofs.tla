---------------------------- MODULE SignInProofs ----------------------------
(***************************************************************************)
(* Proofs about SignIn, for any requests, accounts and limits: a code is   *)
(* accepted once, a step-up proof stands for a recent code of the secret   *)
(* now enrolled, account changes that do not overlap leave an active       *)
(* administrator, and failed logins are limited under concurrency.         *)
(***************************************************************************)
EXTENDS SignIn, FiniteSetTheorems, TLAPS

Id == 1..(nextId - 1)       \* the ids given out so far
Secret == 1..secrets
Code == [user : Id, of : Secret, no : RecoveryCodes]

\* The tables.
RowsInv ==
    /\ now \in Nat /\ secrets \in Nat /\ nextId \in 1..(MaxIds + 1)
    /\ DOMAIN users \subseteq Id
    /\ users \in [DOMAIN users -> Account(secrets)]
    /\ latest \in [1..MaxIds -> 0..secrets]
    /\ recovery \subseteq Code

\* What was signed.
SignedInv ==
    /\ tokens \subseteq [user : Id, at : Nat]
    /\ challenges \subseteq [user : Id, exp : Nat]

\* What a handler holds: the ids and secrets it read exist or existed.
ReqOK(r) ==
    /\ r.op \in {"loginChallenge", "loginToken", "loginTOTP", "loginRecovery", "stepUp",
                 "setupCodes", "verifyEnable", "verifyConsume", "dropCodes", "update",
                 "delete"} => r.user \in Id
    /\ r.op \in {"loginTOTP", "stepUp", "setupCodes", "verifyEnable", "verifyConsume"} =>
         r.secret \in Secret
    /\ r.op \in {"loginTOTP", "stepUp", "verifyEnable", "verifyConsume"} => r.code \in Int
    /\ r.op = "loginRecovery" => r.code \in Code /\ r.code.user = r.user
    /\ r.op = "verifyEnable" =>
         r \in [op : {"verifyEnable"}, user : Id, secret : Secret, code : Int]
    /\ r.op = "stepUp" => r.session \in [user : Id, at : Nat]
    /\ r.op = "update" => r.role \in Roles /\ r.disabled \in BOOLEAN /\ r.name \in AnyName

ReqInv == /\ req \in [Clients -> {req[c] : c \in Clients}]
          /\ \A c \in Clients : ReqOK(req[c])

-----------------------------------------------------------------------------
(* Codes.                                                                  *)

\* A TOTP code accepted for the secret an account was last given is not above
\* the account's last step.
AcceptedInv ==
    \A e \in accepted :
        /\ e.row.user \in Id /\ e.row.secret \in Secret
        /\ e.row.kind \in {"totp", "recovery"}
        /\ e.row.kind = "totp" => e.row.code \in Int
        /\ e.row.kind = "totp" /\ e.row.user \in DOMAIN users
             /\ e.row.secret = latest[e.row.user] =>
             e.row.code <= users[e.row.user].last

\* A recovery code accepted is gone, and no handler still has to store it.
Storing(c, i, secret) ==
    req[c].op = "setupCodes" /\ req[c].user = i /\ req[c].secret = secret

RecoveryInv ==
    /\ \A e \in accepted : e.row.kind = "recovery" =>
         /\ [user |-> e.row.user, of |-> e.row.secret, no |-> e.row.code] \notin recovery
         /\ \A c \in Clients : ~Storing(c, e.row.user, e.row.secret)
    /\ \A r \in recovery, c \in Clients : ~Storing(c, r.user, r.of)
    /\ \A c, d \in Clients :
         req[c].op = "setupCodes" /\ req[d].op = "setupCodes"
           /\ req[c].secret = req[d].secret => c = d

CodesInv == AcceptedInv /\ RecoveryInv /\ CodesUsedOnce

\* A proof records a verification.
ProofInv ==
    \A p \in proofs : \E v \in verified :
        /\ v.session = p.session /\ v.secret = p.secret
        /\ v.at \in Nat /\ p.exp = v.at + ActionMFATTL

-----------------------------------------------------------------------------
(* Administrators.                                                         *)

\* The change a handler is about to write leaves an active administrator.
Harmless(r) ==
    \/ r.op = "update" /\ r.role = "admin" /\ ~r.disabled
    \/ ActiveAdmins \ {r.user} # {}

AdminInv ==
    alone => /\ ActiveAdmins # {}
             /\ \A c, d \in Clients : Changing(c) /\ Changing(d) => c = d
             /\ \A c \in Clients : Changing(c) => Harmless(req[c])

-----------------------------------------------------------------------------
(* The tables.                                                             *)

TablesInv == RowsInv /\ SignedInv /\ ReqInv

(* A second-factor write keeps an account's row a row.                     *)
LEMMA MFAWrites ==
    ASSUME RowsInv, NEW i \in DOMAIN users, NEW max \in Nat, secrets <= max,
           NEW s \in 0..max, NEW enabled \in BOOLEAN, SetAdminUserMFA(i, s, enabled)
    PROVE  /\ DOMAIN users' = DOMAIN users
           /\ users' \in [DOMAIN users -> Account(max)]
           /\ \A j \in DOMAIN users \ {i} : users'[j] = users[j]
           /\ users'[i].role = users[i].role /\ users'[i].disabled = users[i].disabled
           /\ users'[i].last = IF enabled THEN users[i].last ELSE Unused
  <1>1. \A j \in DOMAIN users : users[j] \in Account(max)
    BY DEF RowsInv, Account
  <1> DEFINE n == IF enabled THEN users[i].last ELSE Unused
             row == [users[i] EXCEPT !.secret = s, !.enabled = enabled, !.last = n]
  <1>2. n \in Int
    BY <1>1 DEF Account, Unused
  <1>3. users' = [users EXCEPT ![i] = row]
    BY <1>1 DEF SetAdminUserMFA, Account, RowsInv
  <1> HIDE DEF n
  <1>4. row \in Account(max) /\ row.role = users[i].role
        /\ row.disabled = users[i].disabled /\ row.last = n
    BY <1>1, <1>2 DEF Account
  <1> HIDE DEF row
  <1>5. QED
    BY <1>1, <1>3, <1>4 DEF RowsInv, n

LEMMA StepWrites ==
    ASSUME RowsInv, NEW i \in DOMAIN users, NEW step \in Int, ConsumeTOTPTimeStep(i, step)
    PROVE  /\ DOMAIN users' = DOMAIN users
           /\ users' \in [DOMAIN users -> Account(secrets)]
           /\ \A j \in DOMAIN users \ {i} : users'[j] = users[j]
           /\ users'[i].role = users[i].role /\ users'[i].disabled = users[i].disabled
           /\ users'[i].last = step
  <1>1. \A j \in DOMAIN users : users[j] \in Account(secrets)
    BY DEF RowsInv
  <1> DEFINE row == [users[i] EXCEPT !.last = step]
  <1>2. users' = [users EXCEPT ![i] = row]
    BY DEF ConsumeTOTPTimeStep
  <1>3. row \in Account(secrets) /\ row.role = users[i].role
        /\ row.disabled = users[i].disabled /\ row.last = step
    BY <1>1 DEF Account
  <1> HIDE DEF row
  <1>4. QED
    BY <1>1, <1>2, <1>3 DEF RowsInv

LEMMA InsertWrites ==
    ASSUME RowsInv, nextId <= MaxIds, NEW name \in AnyName, NEW role \in Roles,
           NEW disabled \in BOOLEAN, users' = Inserted(Row(name, role, disabled))
    PROVE  /\ DOMAIN users' = DOMAIN users \cup {nextId} /\ nextId \notin DOMAIN users
           /\ users' \in [DOMAIN users' -> Account(secrets)]
           /\ \A j \in DOMAIN users : users'[j] = users[j]
           /\ users'[nextId].role = role /\ users'[nextId].disabled = disabled
  <1>1. nextId \notin DOMAIN users
    BY SignInAssumption DEF RowsInv, Id
  <1>2. Row(name, role, disabled) \in Account(secrets)
    BY DEF RowsInv, Row, Account, NoSecret, Unused
  <1>3. \A j \in DOMAIN users : users[j] \in Account(secrets)
    BY DEF RowsInv
  <1>4. Row(name, role, disabled).role = role /\ Row(name, role, disabled).disabled = disabled
    BY DEF Row
  <1>5. QED
    BY <1>1, <1>2, <1>3, <1>4 DEF Inserted

LEMMA IntervalGrows ==
    ASSUME NEW a \in Int, NEW b \in Int, a <= b
    PROVE  1..a \subseteq 1..b /\ 1..(a - 1) \subseteq 1..(b - 1)
  OBVIOUS

(* Ids and secrets are only ever added.                                    *)
LEMMA Grows ==
    ASSUME RowsInv, SignedInv, nextId' \in 1..(MaxIds + 1), nextId <= nextId',
           secrets' \in Nat, secrets <= secrets'
    PROVE  /\ Id \subseteq Id' /\ Secret \subseteq Secret' /\ Code \subseteq Code'
           /\ tokens \subseteq [user : Id', at : Nat]
           /\ challenges \subseteq [user : Id', exp : Nat]
           /\ recovery \subseteq Code'
           /\ latest \in [1..MaxIds -> 0..secrets']
           /\ users \in [DOMAIN users -> Account(secrets')]
           /\ \A r : ReqOK(r) => ReqOK(r)'
  <1>1. nextId \in Int /\ nextId' \in Int /\ secrets \in Nat
    BY SignInAssumption DEF RowsInv
  <1>2. Id \subseteq Id' /\ Secret \subseteq Secret'
    <2>1. 1..(nextId - 1) \subseteq 1..(nextId' - 1)
      BY <1>1, IntervalGrows
    <2>2. 1..secrets \subseteq 1..secrets'
      BY <1>1, IntervalGrows
    <2>3. QED
      BY <2>1, <2>2 DEF Id, Secret
  <1>3. Code \subseteq Code'
    BY <1>2 DEF Code
  <1>4. /\ tokens \subseteq [user : Id', at : Nat]
        /\ challenges \subseteq [user : Id', exp : Nat]
    BY <1>2 DEF SignedInv
  <1>5. latest \in [1..MaxIds -> 0..secrets']
    BY <1>1 DEF RowsInv
  <1>6. users \in [DOMAIN users -> Account(secrets')]
    BY <1>1 DEF RowsInv, Account
  <1>7. \A r : ReqOK(r) => ReqOK(r)'
    BY <1>2, <1>3 DEF ReqOK
  <1>8. QED
    BY <1>2, <1>3, <1>4, <1>5, <1>6, <1>7 DEF RowsInv

(* A step that gives out no id and no secret.                              *)
LEMMA SameIds ==
    ASSUME UNCHANGED <<nextId, secrets>>
    PROVE  /\ Id' = Id /\ Secret' = Secret /\ Code' = Code
           /\ \A r : ReqOK(r)' <=> ReqOK(r)
  <1>1. Id' = Id /\ Secret' = Secret
    BY DEF Id, Secret
  <1>2. Code' = Code
    BY <1>1 DEF Code
  <1>3. QED
    BY <1>1, <1>2 DEF ReqOK

LEMMA HeldOK ==
    ASSUME ReqInv, NEW c \in Clients, NEW held, Hold(c, held), ReqOK(held)',
           \A r : ReqOK(r) => ReqOK(r)'
    PROVE  ReqInv'
  <1>1. /\ req' = [req EXCEPT ![c] = held] /\ DOMAIN req = Clients
    BY DEF Hold, ReqInv
  <1>2. \A d \in Clients : req'[d] = IF d = c THEN held ELSE req[d]
    BY <1>1 DEF ReqInv
  <1>3. req' \in [Clients -> {req'[d] : d \in Clients}]
    BY <1>1 DEF ReqInv
  <1>4. QED
    BY <1>2, <1>3 DEF ReqInv

LEMMA IdleOK == ReqOK(Idle)
  BY DEF ReqOK, Idle

LEMMA EndedOK ==
    ASSUME ReqInv, NEW c \in Clients, End(c), \A r : ReqOK(r) => ReqOK(r)'
    PROVE  ReqInv'
  BY IdleOK, HeldOK DEF End, Hold

(* The type of a row that a handler reads.                                 *)
LEMMA RowType ==
    ASSUME RowsInv, NEW i \in DOMAIN users
    PROVE  /\ users[i] \in Account(secrets) /\ i \in Id /\ i \in 1..MaxIds
           /\ users[i].name \in AnyName /\ users[i].role \in Roles
           /\ users[i].disabled \in BOOLEAN /\ users[i].enabled \in BOOLEAN
           /\ users[i].secret \in 0..secrets /\ users[i].last \in Int
           /\ users[i].secret # NoSecret => users[i].secret \in Secret
  <1>1. users[i] \in Account(secrets) /\ i \in Id /\ secrets \in Nat
    BY DEF RowsInv
  <1>2. i \in 1..MaxIds
    BY <1>1, SignInAssumption DEF RowsInv, Id
  <1>3. QED
    BY <1>1, <1>2 DEF Account, Secret, NoSecret

(* What login decided.                                                     *)
LEMMA OutcomeOK ==
    ASSUME RowsInv, NEW name, NEW right, NEW done
    PROVE  /\ ReqOK(Outcome(name, right, done))
           /\ ~(Outcome(name, right, done).op \in {"setupCodes", "update", "delete", "guarded"})
  <1> DEFINE found == getAdminUser(name)
             i == CHOOSE i \in found : TRUE
  <1>1. CASE ~right \/ \A j \in found : users[j].disabled
    BY <1>1 DEF Outcome, ReqOK
  <1>2. CASE right /\ ~\A j \in found : users[j].disabled
    <2>1. i \in found
      BY <1>2
    <2>2. i \in Id
      BY <2>1 DEF getAdminUser, RowsInv
    <2>3. Outcome(name, right, done) =
            [op |-> IF users[i].enabled THEN "loginChallenge" ELSE "loginToken",
             user |-> i, name |-> name, done |-> done]
      BY <1>2 DEF Outcome
    <2> HIDE DEF i
    <2>4. QED
      BY <2>2, <2>3 DEF ReqOK
  <1>3. QED
    BY <1>1, <1>2


LEMMA RowsSame ==
    ASSUME RowsInv, SignedInv,
           UNCHANGED <<now, users, nextId, recovery, secrets, latest, tokens, challenges>>
    PROVE  RowsInv' /\ SignedInv' /\ \A r : ReqOK(r)' <=> ReqOK(r)
  <1>1. Id' = Id /\ Secret' = Secret /\ Code' = Code /\ \A r : ReqOK(r)' <=> ReqOK(r)
    BY SameIds
  <1>2. QED
    BY <1>1 DEF RowsInv, SignedInv

LEMMA StepTables == TablesInv /\ [Next]_vars => TablesInv'
  <1> SUFFICES ASSUME RowsInv, SignedInv, ReqInv, [Next]_vars PROVE TablesInv'
    BY DEF TablesInv
  <1>0. now \in Nat /\ secrets \in Nat /\ nextId \in Int
    BY SignInAssumption DEF RowsInv

  <1>1. ASSUME NEW c \in Clients, Disconnect(c) PROVE TablesInv'
    <2>1. UNCHANGED <<now, users, nextId, recovery, secrets, latest, tokens, challenges>>
      BY <1>1 DEF Disconnect, rows, signed, history
    <2>2. RowsInv' /\ SignedInv' /\ \A r : ReqOK(r)' <=> ReqOK(r)
      BY <2>1, RowsSame
    <2>3. ReqInv'
      BY <1>1, <2>2, EndedOK DEF Disconnect
    <2>4. QED
      BY <2>2, <2>3 DEF TablesInv
  <1>2. ASSUME NEW c \in Clients, Login(c) PROVE TablesInv'
    <2>1. UNCHANGED <<now, users, nextId, recovery, secrets, latest, tokens, challenges>>
      BY <1>2 DEF Login, rows, signed, history
    <2>2. RowsInv' /\ SignedInv' /\ \A r : ReqOK(r)' <=> ReqOK(r)
      BY <2>1, RowsSame
    <2>3. ReqInv'
      <3>1. PICK name \in Names, right \in BOOLEAN, failing \in Failing({"ip", "name"}) :
            Hold(c, Outcome(name, right, {"ip", "name"} \ failing))
        BY <1>2 DEF Login
      <3>2. QED
        BY <2>2, <3>1, OutcomeOK, HeldOK
    <2>4. QED
      BY <2>2, <2>3 DEF TablesInv
  <1>3. ASSUME NEW c \in Clients, LoginFails(c) PROVE TablesInv'
    <2>1. UNCHANGED <<now, users, nextId, recovery, secrets, latest, tokens, challenges>>
      BY <1>3 DEF LoginFails, rows, signed, history
    <2>2. RowsInv' /\ SignedInv' /\ \A r : ReqOK(r)' <=> ReqOK(r)
      BY <2>1, RowsSame
    <2>3. ReqInv'
      BY <1>3, <2>2, EndedOK DEF LoginFails
    <2>4. QED
      BY <2>2, <2>3 DEF TablesInv
  <1>4. ASSUME NEW c \in Clients, LoginChallenge(c) PROVE TablesInv'
    <2>1. UNCHANGED <<now, users, nextId, recovery, secrets, latest, tokens>>
      BY <1>4 DEF LoginChallenge, rows, signed, history
    <2>2. Id' = Id /\ Secret' = Secret /\ Code' = Code /\ \A r : ReqOK(r)' <=> ReqOK(r)
      BY <2>1, SameIds
    <2>3. RowsInv'
      BY <2>1, <2>2 DEF RowsInv
    <2>4. SignedInv'
      <3>1. req[c].user \in Id /\ now + ChallengeTTL \in Nat
        BY <1>4, <1>0, SignInAssumption DEF LoginChallenge, ReqInv, ReqOK
      <3>2. QED
        BY <1>4, <2>1, <2>2, <3>1 DEF LoginChallenge, IssueMFAChallenge, SignedInv
    <2>5. ReqInv'
      BY <1>4, <2>2, EndedOK DEF LoginChallenge
    <2>6. QED
      BY <2>3, <2>4, <2>5 DEF TablesInv
  <1>5. ASSUME NEW c \in Clients, LoginToken(c) PROVE TablesInv'
    <2>1. UNCHANGED <<now, users, nextId, recovery, secrets, latest, challenges>>
      BY <1>5 DEF LoginToken, rows, signed, history
    <2>2. Id' = Id /\ Secret' = Secret /\ Code' = Code /\ \A r : ReqOK(r)' <=> ReqOK(r)
      BY <2>1, SameIds
    <2>3. RowsInv'
      BY <2>1, <2>2 DEF RowsInv
    <2>4. SignedInv'
      <3>1. req[c].user \in Id
        BY <1>5 DEF LoginToken, ReqInv, ReqOK
      <3>2. QED
        BY <1>5, <1>0, <2>1, <2>2, <3>1 DEF LoginToken, Issue, SignedInv
    <2>5. ReqInv'
      BY <1>5, <2>2, EndedOK DEF LoginToken
    <2>6. QED
      BY <2>3, <2>4, <2>5 DEF TablesInv
  <1>6. ASSUME NEW c \in Clients, LoginMFA(c) PROVE TablesInv'
    <2>1. UNCHANGED <<now, users, nextId, recovery, secrets, latest, tokens, challenges>>
      BY <1>6 DEF LoginMFA, rows, signed, history
    <2>2. RowsInv' /\ SignedInv' /\ \A r : ReqOK(r)' <=> ReqOK(r)
      BY <2>1, RowsSame
    <2>3. ReqInv'
      <3>1. PICK ch \in challenges :
              /\ ch.user \in DOMAIN users
              /\ LET Held(op, code) == [op |-> op, user |-> ch.user, name |-> users[ch.user].name,
                                       secret |-> users[ch.user].secret, code |-> code]
                 IN  \/ \E step \in MatchTOTPStep(now) :
                          users[ch.user].secret # NoSecret /\ Hold(c, Held("loginTOTP", step))
                     \/ \E r \in CodesOf(ch.user) : Hold(c, Held("loginRecovery", r))
        BY <1>6 DEF LoginMFA, loadCurrentUser
      <3> DEFINE Held(op, code) == [op |-> op, user |-> ch.user, name |-> users[ch.user].name,
                                    secret |-> users[ch.user].secret, code |-> code]
      <3>2. ch.user \in Id /\ (users[ch.user].secret # NoSecret => users[ch.user].secret \in Secret)
        BY <3>1, RowType
      <3>3. \A step \in MatchTOTPStep(now) :
              users[ch.user].secret # NoSecret => ReqOK(Held("loginTOTP", step))
        BY <1>0, <3>2 DEF ReqOK, MatchTOTPStep
      <3>4. \A r \in CodesOf(ch.user) : ReqOK(Held("loginRecovery", r))
        BY <3>2 DEF ReqOK, CodesOf, RowsInv
      <3>5. \E held : ReqOK(held) /\ Hold(c, held)
        BY <3>1, <3>3, <3>4
      <3>6. QED
        BY <2>2, <3>5, HeldOK
    <2>4. QED
      BY <2>2, <2>3 DEF TablesInv
  <1>7. ASSUME NEW c \in Clients, LoginTOTP(c) PROVE TablesInv'
    <2>1. UNCHANGED <<now, nextId, recovery, secrets, latest, challenges>>
      BY <1>7 DEF LoginTOTP, rows, signed, history
    <2>2. Id' = Id /\ Secret' = Secret /\ Code' = Code /\ \A r : ReqOK(r)' <=> ReqOK(r)
      BY <2>1, SameIds
    <2>3. RowsInv'
      <3>1. req[c].user \in Id /\ req[c].code \in Int
        BY <1>7 DEF LoginTOTP, ReqInv, ReqOK
      <3>2. \/ users' = users
            \/ req[c].user \in DOMAIN users /\ ConsumeTOTPTimeStep(req[c].user, req[c].code)
        BY <1>7 DEF LoginTOTP, Fresh
      <3>3. users' \in [DOMAIN users' -> Account(secrets)] /\ DOMAIN users' = DOMAIN users
        BY <3>1, <3>2, StepWrites DEF RowsInv
      <3>4. QED
        BY <2>1, <2>2, <3>3 DEF RowsInv
    <2>4. SignedInv'
      <3>1. req[c].user \in Id
        BY <1>7 DEF LoginTOTP, ReqInv, ReqOK
      <3>2. QED
        BY <1>7, <1>0, <2>1, <2>2, <3>1 DEF LoginTOTP, Issue, SignedInv
    <2>5. ReqInv'
      BY <1>7, <2>2, EndedOK DEF LoginTOTP
    <2>6. QED
      BY <2>3, <2>4, <2>5 DEF TablesInv
  <1>8. ASSUME NEW c \in Clients, LoginRecovery(c) PROVE TablesInv'
    <2>1. UNCHANGED <<now, users, nextId, secrets, latest, challenges>>
      BY <1>8 DEF LoginRecovery, rows, signed, history
    <2>2. Id' = Id /\ Secret' = Secret /\ Code' = Code /\ \A r : ReqOK(r)' <=> ReqOK(r)
      BY <2>1, SameIds
    <2>3. RowsInv'
      BY <1>8, <2>1, <2>2 DEF LoginRecovery, ConsumeRecoveryCode, RowsInv
    <2>4. SignedInv'
      <3>1. req[c].user \in Id
        BY <1>8 DEF LoginRecovery, ReqInv, ReqOK
      <3>2. QED
        BY <1>8, <1>0, <2>1, <2>2, <3>1 DEF LoginRecovery, Issue, SignedInv
    <2>5. ReqInv'
      BY <1>8, <2>2, EndedOK DEF LoginRecovery
    <2>6. QED
      BY <2>3, <2>4, <2>5 DEF TablesInv
  <1>9. ASSUME NEW c \in Clients, StepUp(c) PROVE TablesInv'
    <2>1. UNCHANGED <<now, users, nextId, recovery, secrets, latest, tokens, challenges>>
      BY <1>9 DEF StepUp, rows, signed, history
    <2>2. RowsInv' /\ SignedInv' /\ \A r : ReqOK(r)' <=> ReqOK(r)
      BY <2>1, RowsSame
    <2>3. ReqInv'
      <3>1. PICK t \in tokens, code \in MatchTOTPStep(now) \cup {Wrong}, failing \in Failing({"ip", "name"}) :
             /\ t.user \in DOMAIN users /\ users[t.user].secret # NoSecret
             /\ Hold(c, [op |-> "stepUp", user |-> t.user, name |-> users[t.user].name,
                 secret |-> users[t.user].secret, code |-> code, session |-> t,
                 done |-> {"ip", "name"} \ failing])
        BY <1>9 DEF StepUp, requireAuth, loadCurrentUser, Enrolled
      <3>2. code \in Int /\ t \in [user : Id, at : Nat] /\ users[t.user].secret \in Secret
        BY <1>0, <3>1, RowType DEF SignedInv, MatchTOTPStep, Wrong
      <3> DEFINE held == [op |-> "stepUp", user |-> t.user, name |-> users[t.user].name,
                 secret |-> users[t.user].secret, code |-> code, session |-> t,
                 done |-> {"ip", "name"} \ failing]
      <3>3. ReqOK(held)
        BY <1>0, <3>1, <3>2 DEF ReqOK, Code, CodesOf
      <3>4. Hold(c, held)
        BY <3>1
      <3> HIDE DEF held
      <3>5. QED
        BY <2>2, <3>3, <3>4, HeldOK
    <2>4. QED
      BY <2>2, <2>3 DEF TablesInv
  <1>10. ASSUME NEW c \in Clients, StepUpProves(c) PROVE TablesInv'
    <2>1. UNCHANGED <<now, nextId, recovery, secrets, latest, challenges, tokens>>
      BY <1>10 DEF StepUpProves, rows, signed, history
    <2>2. Id' = Id /\ Secret' = Secret /\ Code' = Code /\ \A r : ReqOK(r)' <=> ReqOK(r)
      BY <2>1, SameIds
    <2>3. RowsInv'
      <3>1. req[c].user \in Id /\ req[c].code \in Int
        BY <1>10 DEF StepUpProves, ReqInv, ReqOK
      <3>2. \/ users' = users
            \/ req[c].user \in DOMAIN users /\ ConsumeTOTPTimeStep(req[c].user, req[c].code)
        BY <1>10 DEF StepUpProves, Fresh
      <3>3. users' \in [DOMAIN users' -> Account(secrets)] /\ DOMAIN users' = DOMAIN users
        BY <3>1, <3>2, StepWrites DEF RowsInv
      <3>4. QED
        BY <2>1, <2>2, <3>3 DEF RowsInv
    <2>4. SignedInv'
      BY <2>1, <2>2 DEF SignedInv
    <2>5. ReqInv'
      BY <1>10, <2>2, EndedOK DEF StepUpProves
    <2>6. QED
      BY <2>3, <2>4, <2>5 DEF TablesInv
  <1>11. ASSUME NEW c \in Clients, StepUpFails(c) PROVE TablesInv'
    <2>1. UNCHANGED <<now, users, nextId, recovery, secrets, latest, tokens, challenges>>
      BY <1>11 DEF StepUpFails, rows, signed, history
    <2>2. RowsInv' /\ SignedInv' /\ \A r : ReqOK(r)' <=> ReqOK(r)
      BY <2>1, RowsSame
    <2>3. ReqInv'
      BY <1>11, <2>2, EndedOK DEF StepUpFails
    <2>4. QED
      BY <2>2, <2>3 DEF TablesInv
  <1>12. ASSUME NEW c \in Clients, Guarded(c) PROVE TablesInv'
    <2>1. UNCHANGED <<now, users, nextId, recovery, secrets, latest, tokens, challenges>>
      BY <1>12 DEF Guarded, rows, signed, history
    <2>2. RowsInv' /\ SignedInv' /\ \A r : ReqOK(r)' <=> ReqOK(r)
      BY <2>1, RowsSame
    <2>3. ReqInv'
      <3>1. PICK t \in tokens : /\ TRUE
             /\ Hold(c, [op |-> "guarded", session |-> t])
        BY <1>12 DEF Guarded, requireAdmin
      <3>2. TRUE
        OBVIOUS
      <3> DEFINE held == [op |-> "guarded", session |-> t]
      <3>3. ReqOK(held)
        BY <1>0, <3>1, <3>2 DEF ReqOK, Code, CodesOf
      <3>4. Hold(c, held)
        BY <3>1
      <3> HIDE DEF held
      <3>5. QED
        BY <2>2, <3>3, <3>4, HeldOK
    <2>4. QED
      BY <2>2, <2>3 DEF TablesInv
  <1>13. ASSUME NEW c \in Clients, GuardedEnds(c) PROVE TablesInv'
    <2>1. UNCHANGED <<now, users, nextId, recovery, secrets, latest, tokens, challenges>>
      BY <1>13 DEF GuardedEnds, rows, signed, history
    <2>2. RowsInv' /\ SignedInv' /\ \A r : ReqOK(r)' <=> ReqOK(r)
      BY <2>1, RowsSame
    <2>3. ReqInv'
      BY <1>13, <2>2, EndedOK DEF GuardedEnds
    <2>4. QED
      BY <2>2, <2>3 DEF TablesInv
  <1>14. ASSUME NEW c \in Clients, MFASetup(c) PROVE TablesInv'
    <2>1. /\ UNCHANGED <<now, nextId, recovery, tokens, challenges>>
          /\ secrets' = secrets + 1
      BY <1>14 DEF MFASetup, signed
    <2>2. nextId' \in 1..(MaxIds + 1) /\ nextId <= nextId' /\ secrets' \in Nat /\ secrets <= secrets'
      BY <1>0, <2>1, SignInAssumption DEF RowsInv
    <2>3. /\ Id \subseteq Id' /\ tokens \subseteq [user : Id', at : Nat]
          /\ challenges \subseteq [user : Id', exp : Nat] /\ recovery \subseteq Code'
          /\ latest \in [1..MaxIds -> 0..secrets']
          /\ \A r : ReqOK(r) => ReqOK(r)'
      BY <2>2, Grows
    <2>4. PICK s : s = secrets'
      OBVIOUS
    <2>5. PICK t \in tokens :
            /\ t.user \in DOMAIN users /\ SetAdminUserMFA(t.user, s, FALSE)
            /\ latest' = [latest EXCEPT ![t.user] = s]
            /\ Hold(c, [op |-> "setupCodes", user |-> t.user, secret |-> s])
      BY <1>14, <2>4 DEF MFASetup, requireAuth, loadCurrentUser
    <2>6. s \in Nat /\ secrets <= s /\ s \in 0..s /\ s \in Secret'
      BY <1>0, <2>1, <2>4 DEF Secret
    <2>7. DOMAIN users' = DOMAIN users /\ users' \in [DOMAIN users -> Account(s)]
      BY <2>5, <2>6, MFAWrites
    <2>8. latest' \in [1..MaxIds -> 0..s]
      BY <2>3, <2>4, <2>5, <2>6
    <2>9. RowsInv'
      BY <1>0, <2>1, <2>2, <2>3, <2>4, <2>7, <2>8 DEF RowsInv
    <2>10. SignedInv'
      BY <2>1, <2>3 DEF SignedInv
    <2>11. ReqInv'
      <3> DEFINE held == [op |-> "setupCodes", user |-> t.user, secret |-> s]
      <3>1. t.user \in Id'
        BY <2>3, <2>5, RowType
      <3>2. ReqOK(held)'
        BY <2>6, <3>1 DEF ReqOK
      <3> HIDE DEF held
      <3>3. QED
        BY <2>3, <2>5, <3>2, HeldOK DEF held
    <2>12. QED
      BY <2>9, <2>10, <2>11 DEF TablesInv
  <1>15. ASSUME NEW c \in Clients, SetupCodes(c) PROVE TablesInv'
    <2>1. UNCHANGED <<now, users, nextId, secrets, latest, tokens, challenges>>
      BY <1>15 DEF SetupCodes, rows, signed, history
    <2>2. Id' = Id /\ Secret' = Secret /\ Code' = Code /\ \A r : ReqOK(r)' <=> ReqOK(r)
      BY <2>1, SameIds
    <2>3. RowsInv'
      <3>1. req[c].user \in Id /\ req[c].secret \in Secret
        BY <1>15 DEF SetupCodes, ReqInv, ReqOK
      <3>2. GenerateRecoveryCodes(req[c].user, req[c].secret) \subseteq Code
        BY <3>1 DEF GenerateRecoveryCodes, Code
      <3>3. QED
        BY <1>15, <2>1, <2>2, <3>2 DEF SetupCodes, ReplaceRecoveryCodes, RowsInv
    <2>4. SignedInv'
      BY <2>1, <2>2 DEF SignedInv
    <2>5. ReqInv'
      BY <1>15, <2>2, EndedOK DEF SetupCodes
    <2>6. QED
      BY <2>3, <2>4, <2>5 DEF TablesInv
  <1>16. ASSUME NEW c \in Clients, MFAVerify(c) PROVE TablesInv'
    <2>1. UNCHANGED <<now, users, nextId, recovery, secrets, latest, tokens, challenges>>
      BY <1>16 DEF MFAVerify, rows, signed, history
    <2>2. RowsInv' /\ SignedInv' /\ \A r : ReqOK(r)' <=> ReqOK(r)
      BY <2>1, RowsSame
    <2>3. ReqInv'
      <3>1. PICK t \in tokens, code \in MatchTOTPStep(now) : /\ t.user \in DOMAIN users /\ users[t.user].secret # NoSecret
             /\ Hold(c, [op |-> "verifyEnable", user |-> t.user, secret |-> users[t.user].secret, code |-> code])
        BY <1>16 DEF MFAVerify, requireAuth, loadCurrentUser
      <3>2. code \in Int /\ t \in [user : Id, at : Nat] /\ users[t.user].secret \in Secret
        BY <1>0, <3>1, RowType DEF SignedInv, MatchTOTPStep, Wrong
      <3> DEFINE held == [op |-> "verifyEnable", user |-> t.user, secret |-> users[t.user].secret, code |-> code]
      <3>3. ReqOK(held)
        BY <1>0, <3>1, <3>2 DEF ReqOK, Code, CodesOf
      <3>4. Hold(c, held)
        BY <3>1
      <3> HIDE DEF held
      <3>5. QED
        BY <2>2, <3>3, <3>4, HeldOK
    <2>4. QED
      BY <2>2, <2>3 DEF TablesInv
  <1>17. ASSUME NEW c \in Clients, VerifyEnable(c) PROVE TablesInv'
    <2>1. UNCHANGED <<now, nextId, recovery, secrets, latest, tokens, challenges>>
      BY <1>17 DEF VerifyEnable, rows, signed, history
    <2>2. Id' = Id /\ Secret' = Secret /\ Code' = Code /\ \A r : ReqOK(r)' <=> ReqOK(r)
      BY <2>1, SameIds
    <2>3. RowsInv'
      <3>1. req[c].secret \in 0..secrets
        BY <1>17, <1>0 DEF VerifyEnable, ReqInv, ReqOK, Secret
      <3>2. CASE req[c].user \in DOMAIN users
        <4>1. SetAdminUserMFA(req[c].user, req[c].secret, TRUE)
          BY <1>17 DEF VerifyEnable
        <4>2. secrets <= secrets
          BY <1>0
        <4>3. DOMAIN users' = DOMAIN users /\ users' \in [DOMAIN users -> Account(secrets)]
          BY <1>0, <3>1, <3>2, <4>1, <4>2, MFAWrites
        <4>4. QED
          BY <2>1, <2>2, <4>3 DEF RowsInv
      <3>3. CASE req[c].user \notin DOMAIN users
        BY <1>17, <2>1, <2>2, <3>3 DEF VerifyEnable, SetAdminUserMFA, RowsInv
      <3>4. QED
        BY <3>2, <3>3
    <2>4. SignedInv'
      BY <2>1, <2>2 DEF SignedInv
    <2>5. ReqInv'
      <3> DEFINE held == [req[c] EXCEPT !.op = "verifyConsume"]
      <3>1. req[c] \in [op : {"verifyEnable"}, user : Id, secret : Secret, code : Int]
        BY <1>17 DEF VerifyEnable, ReqInv, ReqOK
      <3>2. ReqOK(held)
        BY <3>1 DEF ReqOK
      <3>3. Hold(c, held)
        BY <1>17 DEF VerifyEnable, Go, Hold
      <3> HIDE DEF held
      <3>4. QED
        BY <2>2, <3>2, <3>3, HeldOK
    <2>6. QED
      BY <2>3, <2>4, <2>5 DEF TablesInv
  <1>18. ASSUME NEW c \in Clients, VerifyConsume(c) PROVE TablesInv'
    <2>1. UNCHANGED <<now, nextId, recovery, secrets, latest, challenges, tokens>>
      BY <1>18 DEF VerifyConsume, rows, signed, history
    <2>2. Id' = Id /\ Secret' = Secret /\ Code' = Code /\ \A r : ReqOK(r)' <=> ReqOK(r)
      BY <2>1, SameIds
    <2>3. RowsInv'
      <3>1. req[c].user \in Id /\ req[c].code \in Int
        BY <1>18 DEF VerifyConsume, ReqInv, ReqOK
      <3>2. \/ users' = users
            \/ req[c].user \in DOMAIN users /\ ConsumeTOTPTimeStep(req[c].user, req[c].code)
        BY <1>18 DEF VerifyConsume, Fresh
      <3>3. users' \in [DOMAIN users' -> Account(secrets)] /\ DOMAIN users' = DOMAIN users
        BY <3>1, <3>2, StepWrites DEF RowsInv
      <3>4. QED
        BY <2>1, <2>2, <3>3 DEF RowsInv
    <2>4. SignedInv'
      BY <2>1, <2>2 DEF SignedInv
    <2>5. ReqInv'
      BY <1>18, <2>2, EndedOK DEF VerifyConsume
    <2>6. QED
      BY <2>3, <2>4, <2>5 DEF TablesInv
  <1>19. ASSUME NEW c \in Clients, MFADisable(c) PROVE TablesInv'
    <2>1. UNCHANGED <<now, nextId, recovery, secrets, tokens, challenges>>
      BY <1>19 DEF MFADisable, rows, signed, history
    <2>2. Id' = Id /\ Secret' = Secret /\ Code' = Code /\ \A r : ReqOK(r)' <=> ReqOK(r)
      BY <2>1, SameIds
    <2>3. RowsInv'
      <3>1. PICK t \in tokens : t.user \in DOMAIN users /\ SetAdminUserMFA(t.user, NoSecret, FALSE)
                                /\ latest' = [latest EXCEPT ![t.user] = NoSecret]
        BY <1>19 DEF MFADisable, requireAuth, loadCurrentUser
      <3>2. NoSecret \in 0..secrets /\ secrets <= secrets
        BY <1>0 DEF NoSecret
      <3>3. DOMAIN users' = DOMAIN users /\ users' \in [DOMAIN users -> Account(secrets)]
        BY <1>0, <3>1, <3>2, MFAWrites
      <3>4. latest' \in [1..MaxIds -> 0..secrets]
        BY <3>1, <3>2 DEF RowsInv
      <3>5. QED
        BY <2>1, <2>2, <3>3, <3>4 DEF RowsInv
    <2>4. SignedInv'
      BY <2>1, <2>2 DEF SignedInv
    <2>5. ReqInv'
      <3>1. PICK t \in tokens : t.user \in DOMAIN users
                                /\ Hold(c, [op |-> "dropCodes", user |-> t.user])
        BY <1>19 DEF MFADisable, requireAuth, loadCurrentUser
      <3> DEFINE held == [op |-> "dropCodes", user |-> t.user]
      <3>2. ReqOK(held)
        BY <3>1, RowType DEF ReqOK
      <3> HIDE DEF held
      <3>3. QED
        BY <2>2, <3>1, <3>2, HeldOK DEF held
    <2>6. QED
      BY <2>3, <2>4, <2>5 DEF TablesInv
  <1>20. ASSUME NEW c \in Clients, DropCodes(c) PROVE TablesInv'
    <2>1. UNCHANGED <<now, users, nextId, secrets, latest, tokens, challenges>>
      BY <1>20 DEF DropCodes, rows, signed, history
    <2>2. Id' = Id /\ Secret' = Secret /\ Code' = Code /\ \A r : ReqOK(r)' <=> ReqOK(r)
      BY <2>1, SameIds
    <2>3. RowsInv'
      BY <1>20, <2>1, <2>2 DEF DropCodes, DeleteRecoveryCodes, RowsInv
    <2>4. SignedInv'
      BY <2>1, <2>2 DEF SignedInv
    <2>5. ReqInv'
      BY <1>20, <2>2, EndedOK DEF DropCodes
    <2>6. QED
      BY <2>3, <2>4, <2>5 DEF TablesInv
  <1>21. ASSUME NEW c \in Clients, CreateAdminUser(c) PROVE TablesInv'
    <2>1. UNCHANGED <<now, recovery, secrets, latest, tokens, challenges, req>> /\ nextId <= MaxIds /\ nextId' = nextId + 1
      BY <1>21 DEF CreateAdminUser, rows, signed, history
    <2>2. nextId' \in 1..(MaxIds + 1) /\ nextId <= nextId' /\ secrets' \in Nat /\ secrets <= secrets'
      BY <1>0, <2>1, SignInAssumption DEF RowsInv
    <2>3. /\ Id \subseteq Id' /\ tokens \subseteq [user : Id', at : Nat]
          /\ challenges \subseteq [user : Id', exp : Nat] /\ recovery \subseteq Code'
          /\ \A r : ReqOK(r) => ReqOK(r)'
      BY <2>2, Grows
    <2>4. DOMAIN users' = DOMAIN users \cup {nextId} /\ users' \in [DOMAIN users' -> Account(secrets)]
      <3>1. PICK name \in Names, role \in Roles, disabled \in BOOLEAN :
              users' = Inserted(Row(name, role, disabled))
        BY <1>21 DEF CreateAdminUser
      <3>2. name \in AnyName
        BY DEF AnyName
      <3>3. QED
        BY <2>1, <3>1, <3>2, InsertWrites
    <2>5. nextId \in Id'
      BY <1>0, <2>1, SignInAssumption DEF Id, RowsInv
    <2>6. RowsInv'
      BY <2>1, <2>2, <2>3, <2>4, <2>5 DEF RowsInv
    <2>7. SignedInv'
      BY <2>1, <2>3 DEF SignedInv
    <2>8. ReqInv'
      BY <2>1, <2>3 DEF ReqInv
    <2>9. QED
      BY <2>6, <2>7, <2>8 DEF TablesInv
  <1>22. ASSUME NEW c \in Clients, UpdateAdminUser(c) PROVE TablesInv'
    <2>1. UNCHANGED <<now, users, nextId, recovery, secrets, latest, tokens, challenges>>
      BY <1>22 DEF UpdateAdminUser, rows, signed, history
    <2>2. RowsInv' /\ SignedInv' /\ \A r : ReqOK(r)' <=> ReqOK(r)
      BY <2>1, RowsSame
    <2>3. ReqInv'
      <3>1. PICK i \in DOMAIN users, name \in Names, given \in Roles, disabled \in BOOLEAN : /\ TRUE
             /\ Hold(c, [op |-> "update", user |-> i, name |-> name, role |-> given, disabled |-> disabled])
        <4>1. PICK i \in DOMAIN users, name \in Names, role \in Roles \cup {""}, disabled \in BOOLEAN :
                LET given == IF role = "" THEN users[i].role ELSE role
                IN  Hold(c, [op |-> "update", user |-> i, name |-> name, role |-> given,
                             disabled |-> disabled])
          BY <1>22 DEF UpdateAdminUser
        <4>2. (IF role = "" THEN users[i].role ELSE role) \in Roles
          BY RowType
        <4>3. QED
          BY <4>1, <4>2
      <3>2. i \in Id /\ name \in AnyName
        BY RowType DEF AnyName
      <3> DEFINE held == [op |-> "update", user |-> i, name |-> name, role |-> given, disabled |-> disabled]
      <3>3. ReqOK(held)
        BY <1>0, <3>1, <3>2 DEF ReqOK, Code, CodesOf
      <3>4. Hold(c, held)
        BY <3>1
      <3> HIDE DEF held
      <3>5. QED
        BY <2>2, <3>3, <3>4, HeldOK
    <2>4. QED
      BY <2>2, <2>3 DEF TablesInv
  <1>23. ASSUME NEW c \in Clients, UpdateWrite(c) PROVE TablesInv'
    <2>1. UNCHANGED <<now, nextId, recovery, secrets, latest, tokens, challenges>>
      BY <1>23 DEF UpdateWrite, rows, signed, history
    <2>2. Id' = Id /\ Secret' = Secret /\ Code' = Code /\ \A r : ReqOK(r)' <=> ReqOK(r)
      BY <2>1, SameIds
    <2>3. RowsInv'
      <3>1. req[c].role \in Roles /\ req[c].disabled \in BOOLEAN /\ req[c].name \in AnyName
        BY <1>23 DEF UpdateWrite, ReqInv, ReqOK
      <3>2. CASE users' = users
        BY <2>1, <2>2, <3>2 DEF RowsInv
      <3>3. CASE users' # users
        <4> DEFINE i == req[c].user
                   row == [users[i] EXCEPT !.name = req[c].name, !.role = req[c].role,
                                           !.disabled = req[c].disabled]
        <4>1. i \in DOMAIN users /\ users' = [users EXCEPT ![i] = row]
          BY <1>23, <3>3 DEF UpdateWrite
        <4>2. row \in Account(secrets)
          BY <3>1, <4>1, RowType DEF Account
        <4> HIDE DEF row, i
        <4>3. DOMAIN users' = DOMAIN users /\ users' \in [DOMAIN users -> Account(secrets)]
          BY <4>1, <4>2 DEF RowsInv
        <4>4. QED
          BY <2>1, <2>2, <4>3 DEF RowsInv
      <3>4. QED
        BY <3>2, <3>3
    <2>4. SignedInv'
      BY <2>1, <2>2 DEF SignedInv
    <2>5. ReqInv'
      BY <1>23, <2>2, EndedOK DEF UpdateWrite
    <2>6. QED
      BY <2>3, <2>4, <2>5 DEF TablesInv
  <1>24. ASSUME NEW c \in Clients, DeleteAdminUser(c) PROVE TablesInv'
    <2>1. UNCHANGED <<now, users, nextId, recovery, secrets, latest, tokens, challenges>>
      BY <1>24 DEF DeleteAdminUser, rows, signed, history
    <2>2. RowsInv' /\ SignedInv' /\ \A r : ReqOK(r)' <=> ReqOK(r)
      BY <2>1, RowsSame
    <2>3. ReqInv'
      <3>1. PICK i \in DOMAIN users : /\ TRUE
             /\ Hold(c, [op |-> "delete", user |-> i])
        BY <1>24 DEF DeleteAdminUser, requireAdmin
      <3>2. i \in Id
        BY RowType
      <3> DEFINE held == [op |-> "delete", user |-> i]
      <3>3. ReqOK(held)
        BY <1>0, <3>1, <3>2 DEF ReqOK, Code, CodesOf
      <3>4. Hold(c, held)
        BY <3>1
      <3> HIDE DEF held
      <3>5. QED
        BY <2>2, <3>3, <3>4, HeldOK
    <2>4. QED
      BY <2>2, <2>3 DEF TablesInv
  <1>25. ASSUME NEW c \in Clients, DeleteWrite(c) PROVE TablesInv'
    <2>1. UNCHANGED <<now, nextId, secrets, latest, tokens, challenges>>
      BY <1>25 DEF DeleteWrite, rows, signed, history
    <2>2. Id' = Id /\ Secret' = Secret /\ Code' = Code /\ \A r : ReqOK(r)' <=> ReqOK(r)
      BY <2>1, SameIds
    <2>3. RowsInv'
      <3>1. users' = [i \in DOMAIN users \ {req[c].user} |-> users[i]]
        BY <1>25 DEF DeleteWrite, Restrict
      <3>2. users' \in [DOMAIN users' -> Account(secrets)]
        <4>1. \A i \in DOMAIN users : users[i] \in Account(secrets)
          BY RowType
        <4>2. QED
          BY <3>1, <4>1
      <3>3. recovery' \subseteq recovery
        BY <1>25 DEF DeleteWrite, DeleteRecoveryCodes
      <3>4. QED
        BY <2>1, <2>2, <3>1, <3>2, <3>3 DEF RowsInv
    <2>4. SignedInv'
      BY <2>1, <2>2 DEF SignedInv
    <2>5. ReqInv'
      BY <1>25, <2>2, EndedOK DEF DeleteWrite
    <2>6. QED
      BY <2>3, <2>4, <2>5 DEF TablesInv
  <1>26. CASE Restart
    <2>1. CASE UNCHANGED <<users, nextId>>
      <3>1. UNCHANGED <<now, users, nextId, recovery, secrets, latest, tokens, challenges>>
        BY <1>26, <2>1 DEF Restart, signed, history
      <3>2. RowsInv' /\ SignedInv' /\ \A r : ReqOK(r)' <=> ReqOK(r)
        BY <3>1, RowsSame
      <3>3. req' = [d \in Clients |-> Idle]
        BY <1>26 DEF Restart
      <3>4. ReqInv'
        BY <3>2, <3>3, IdleOK DEF ReqInv
      <3>5. QED
        BY <3>2, <3>4 DEF TablesInv
    <2>2. CASE ~UNCHANGED <<users, nextId>>
      <3>1. UNCHANGED <<now, recovery, secrets, latest, tokens, challenges>> /\ nextId <= MaxIds /\ nextId' = nextId + 1
        BY <1>26, <2>2 DEF Restart, rows, signed, history
      <3>2. nextId' \in 1..(MaxIds + 1) /\ nextId <= nextId' /\ secrets' \in Nat /\ secrets <= secrets'
        BY <1>0, <3>1, SignInAssumption DEF RowsInv
      <3>3. /\ Id \subseteq Id' /\ tokens \subseteq [user : Id', at : Nat]
            /\ challenges \subseteq [user : Id', exp : Nat] /\ recovery \subseteq Code'
            /\ \A r : ReqOK(r) => ReqOK(r)'
        BY <3>2, Grows
      <3>4. DOMAIN users' = DOMAIN users \cup {nextId} /\ users' \in [DOMAIN users' -> Account(secrets)]
        <4>1. users' = Inserted(Row(Bootstrap, "admin", FALSE))
          BY <1>26, <2>2 DEF Restart
        <4>2. Bootstrap \in AnyName /\ "admin" \in Roles
          BY DEF AnyName, Roles
        <4>3. QED
          BY <3>1, <4>1, <4>2, InsertWrites
      <3>5. nextId \in Id'
        BY <1>0, <3>1, SignInAssumption DEF Id, RowsInv
      <3>6. RowsInv'
        BY <3>1, <3>2, <3>3, <3>4, <3>5 DEF RowsInv
      <3>7. SignedInv'
        BY <3>1, <3>3 DEF SignedInv
      <3>8. req' = [d \in Clients |-> Idle]
        BY <1>26 DEF Restart
      <3>9. ReqInv'
        BY <3>3, <3>8, IdleOK DEF ReqInv
      <3>10. QED
        BY <3>6, <3>7, <3>9 DEF TablesInv
    <2>3. QED
      BY <2>1, <2>2
  <1>27. CASE Tick
    <2>1. UNCHANGED <<users, nextId, recovery, secrets, latest, tokens, challenges, req>>
      BY <1>27 DEF Tick, rows, signed, history
    <2>2. Id' = Id /\ Secret' = Secret /\ Code' = Code /\ \A r : ReqOK(r)' <=> ReqOK(r)
      BY <2>1, SameIds
    <2>3. RowsInv'
      BY <1>27, <1>0, <2>1, <2>2 DEF Tick, RowsInv
    <2>4. SignedInv'
      BY <2>1, <2>2 DEF SignedInv
    <2>5. ReqInv'
      BY <2>1, <2>2 DEF ReqInv
    <2>6. QED
      BY <2>3, <2>4, <2>5 DEF TablesInv
  <1>28. CASE UNCHANGED vars
    <2>1. UNCHANGED <<now, users, nextId, recovery, secrets, latest, tokens, challenges, req>>
      BY <1>28 DEF vars, rows, signed, history
    <2>2. RowsInv' /\ SignedInv' /\ \A r : ReqOK(r)' <=> ReqOK(r)
      BY <2>1, RowsSame
    <2>3. QED
      BY <2>1, <2>2 DEF TablesInv, ReqInv
  <1>29. QED
    BY <1>1, <1>2, <1>3, <1>4, <1>5, <1>6, <1>7, <1>8, <1>9, <1>10, <1>11,
       <1>12, <1>13, <1>14, <1>15, <1>16, <1>17, <1>18, <1>19, <1>20, <1>21,
       <1>22, <1>23, <1>24, <1>25, <1>26, <1>27, <1>28 DEF Next

-----------------------------------------------------------------------------
(* The initial tables.                                                     *)

LEMMA EnrolmentsCounted == Enrolments \in Nat /\ \E n \in 0..MaxIds : DOMAIN Start = 1..n /\ Cardinality(DOMAIN Start) = n
  <1>1. PICK n \in 0..MaxIds : DOMAIN Start = 1..n
    BY StartAssumption
  <1>2. n \in Nat
    BY SignInAssumption
  <1>3. IsFiniteSet(1..n) /\ Cardinality(1..n) = n
    BY <1>2, FS_Interval
  <1>4. {i \in DOMAIN Start : Start[i].enabled} \in SUBSET (1..n)
    BY <1>1
  <1>5. IsFiniteSet({i \in DOMAIN Start : Start[i].enabled})
    BY <1>3, <1>4, FS_Subset
  <1>6. Enrolments \in Nat
    BY <1>5, FS_CardinalityType DEF Enrolments
  <1>7. QED
    BY <1>1, <1>3, <1>6

LEMMA InitTables == Init => TablesInv
  <1> SUFFICES ASSUME Init PROVE TablesInv
    OBVIOUS
  <1>1. PICK n \in 0..MaxIds : DOMAIN Start = 1..n /\ Cardinality(DOMAIN Start) = n
    BY EnrolmentsCounted
  <1>2. n \in Nat /\ n <= MaxIds /\ MaxIds \in Nat /\ secrets = Enrolments /\ secrets \in Nat
    BY <1>1, EnrolmentsCounted, SignInAssumption DEF Init
  <1>3. nextId = n + 1 /\ DOMAIN users = 1..n /\ users = Start /\ now = 1
    BY <1>1 DEF Init
  <1>4. Id = 1..n
    BY <1>2, <1>3 DEF Id
  <1>5. users \in [DOMAIN users -> Account(secrets)]
    BY <1>2, <1>3, StartAssumption
  <1>6. \A i \in 1..n : Start[i].secret \in 0..secrets
    BY <1>3, <1>5 DEF Account
  <1>7. latest \in [1..MaxIds -> 0..secrets]
    BY <1>2, <1>3, <1>6 DEF Init, NoSecret
  <1>8. recovery \subseteq Code
    <2>1. \A i \in DOMAIN Start : Start[i].enabled => Start[i].secret \in Secret /\ i \in Id
      BY <1>1, <1>2, <1>4, <1>6, StartAssumption DEF Secret, NoSecret
    <2>2. \A i \in DOMAIN Start : Start[i].enabled =>
            GenerateRecoveryCodes(i, Start[i].secret) \subseteq Code
      BY <2>1 DEF GenerateRecoveryCodes, Code
    <2>3. QED
      BY <2>2 DEF Init
  <1>9. RowsInv
    <2>1. nextId \in 1..(MaxIds + 1)
      BY <1>2, <1>3
    <2>2. QED
      BY <1>2, <1>3, <1>4, <1>5, <1>7, <1>8, <2>1 DEF RowsInv
  <1>10. SignedInv
    BY <1>1, <1>4 DEF Init, SignedInv
  <1>11. ReqInv
    BY IdleOK DEF Init, ReqInv
  <1>12. QED
    BY <1>9, <1>10, <1>11 DEF TablesInv

-----------------------------------------------------------------------------
(* What a step puts into the hands of the handlers.                        *)

Plain(r) == r.op \notin {"guarded", "update", "delete", "setupCodes"}

LEMMA HeldPlain ==
    ASSUME ReqInv, NEW c \in Clients, NEW held, Hold(c, held)
    PROVE  /\ req'[c] = held /\ \A d \in Clients \ {c} : req'[d] = req[d]
           /\ Plain(held) => \A d \in Clients : req'[d] = req[d] \/ Plain(req'[d])
  BY DEF Hold, ReqInv

LEMMA EndedPlain ==
    ASSUME ReqInv, NEW c \in Clients, End(c)
    PROVE  req'[c] = Idle /\ \A d \in Clients : req'[d] = req[d] \/ Plain(req'[d])
  <1>1. Hold(c, Idle) /\ Plain(Idle)
    BY DEF End, Hold, Plain, Idle
  <1>2. QED
    BY <1>1, HeldPlain

(* Only four operations begin with a request that is not plain.            *)
LEMMA OtherRequests ==
    ASSUME TablesInv, [Next]_vars,
           \A c \in Clients : ~Guarded(c) /\ ~UpdateAdminUser(c) /\ ~DeleteAdminUser(c)
                                /\ ~MFASetup(c)
    PROVE  \A d \in Clients : req'[d] = req[d] \/ Plain(req'[d])
  <1> DEFINE Goal == \A d \in Clients : req'[d] = req[d] \/ Plain(req'[d])
  <1> SUFFICES Goal
    OBVIOUS
  <1>0. ReqInv /\ RowsInv
    BY DEF TablesInv
  <1>1. ASSUME NEW c \in Clients, Disconnect(c) PROVE Goal
    BY <1>1, <1>0, EndedPlain DEF Disconnect
  <1>2. ASSUME NEW c \in Clients, Login(c) PROVE Goal
    <2>1. PICK name \in Names, right \in BOOLEAN, failing \in Failing({"ip", "name"}) :
            Hold(c, Outcome(name, right, {"ip", "name"} \ failing))
      BY <1>2 DEF Login
    <2>2. Plain(Outcome(name, right, {"ip", "name"} \ failing))
      BY <1>0, OutcomeOK DEF Plain
    <2>3. QED
      BY <1>0, <2>1, <2>2, HeldPlain
  <1>3. ASSUME NEW c \in Clients, LoginFails(c) PROVE Goal
    BY <1>3, <1>0, EndedPlain DEF LoginFails
  <1>4. ASSUME NEW c \in Clients, LoginChallenge(c) PROVE Goal
    BY <1>4, <1>0, EndedPlain DEF LoginChallenge
  <1>5. ASSUME NEW c \in Clients, LoginToken(c) PROVE Goal
    BY <1>5, <1>0, EndedPlain DEF LoginToken
  <1>6. ASSUME NEW c \in Clients, LoginMFA(c) PROVE Goal
    <2>1. \E held : Plain(held) /\ Hold(c, held)
      BY <1>6 DEF LoginMFA, Plain
    <2>2. QED
      BY <1>0, <2>1, HeldPlain
  <1>7. ASSUME NEW c \in Clients, LoginTOTP(c) PROVE Goal
    BY <1>7, <1>0, EndedPlain DEF LoginTOTP
  <1>8. ASSUME NEW c \in Clients, LoginRecovery(c) PROVE Goal
    BY <1>8, <1>0, EndedPlain DEF LoginRecovery
  <1>9. ASSUME NEW c \in Clients, StepUp(c) PROVE Goal
    <2>1. \E held : Plain(held) /\ Hold(c, held)
      BY <1>9 DEF StepUp, Plain
    <2>2. QED
      BY <1>0, <2>1, HeldPlain
  <1>10. ASSUME NEW c \in Clients, StepUpProves(c) PROVE Goal
    BY <1>10, <1>0, EndedPlain DEF StepUpProves
  <1>11. ASSUME NEW c \in Clients, StepUpFails(c) PROVE Goal
    BY <1>11, <1>0, EndedPlain DEF StepUpFails
  <1>12. ASSUME NEW c \in Clients, Guarded(c) PROVE Goal
    BY <1>12
  <1>13. ASSUME NEW c \in Clients, GuardedEnds(c) PROVE Goal
    BY <1>13, <1>0, EndedPlain DEF GuardedEnds
  <1>14. ASSUME NEW c \in Clients, MFASetup(c) PROVE Goal
    BY <1>14
  <1>15. ASSUME NEW c \in Clients, SetupCodes(c) PROVE Goal
    BY <1>15, <1>0, EndedPlain DEF SetupCodes
  <1>16. ASSUME NEW c \in Clients, MFAVerify(c) PROVE Goal
    <2>1. \E held : Plain(held) /\ Hold(c, held)
      BY <1>16 DEF MFAVerify, Plain
    <2>2. QED
      BY <1>0, <2>1, HeldPlain
  <1>17. ASSUME NEW c \in Clients, VerifyEnable(c) PROVE Goal
    <2> DEFINE held == [req[c] EXCEPT !.op = "verifyConsume"]
    <2>1. req[c] \in [op : {"verifyEnable"}, user : Id, secret : Secret, code : Int]
      BY <1>17, <1>0 DEF VerifyEnable, ReqInv, ReqOK
    <2>2. Plain(held)
      BY <2>1 DEF Plain
    <2>3. Hold(c, held)
      BY <1>17 DEF VerifyEnable, Go, Hold
    <2> HIDE DEF held
    <2>4. QED
      BY <1>0, <2>2, <2>3, HeldPlain
  <1>18. ASSUME NEW c \in Clients, VerifyConsume(c) PROVE Goal
    BY <1>18, <1>0, EndedPlain DEF VerifyConsume
  <1>19. ASSUME NEW c \in Clients, MFADisable(c) PROVE Goal
    <2>1. \E held : Plain(held) /\ Hold(c, held)
      BY <1>19 DEF MFADisable, Plain
    <2>2. QED
      BY <1>0, <2>1, HeldPlain
  <1>20. ASSUME NEW c \in Clients, DropCodes(c) PROVE Goal
    BY <1>20, <1>0, EndedPlain DEF DropCodes
  <1>21. ASSUME NEW c \in Clients, CreateAdminUser(c) PROVE Goal
    BY <1>21 DEF CreateAdminUser
  <1>22. ASSUME NEW c \in Clients, UpdateAdminUser(c) PROVE Goal
    BY <1>22
  <1>23. ASSUME NEW c \in Clients, UpdateWrite(c) PROVE Goal
    BY <1>23, <1>0, EndedPlain DEF UpdateWrite
  <1>24. ASSUME NEW c \in Clients, DeleteAdminUser(c) PROVE Goal
    BY <1>24
  <1>25. ASSUME NEW c \in Clients, DeleteWrite(c) PROVE Goal
    BY <1>25, <1>0, EndedPlain DEF DeleteWrite
  <1>26. CASE Restart
    BY <1>26 DEF Restart, Idle, Plain
  <1>27. CASE Tick
    BY <1>27 DEF Tick
  <1>28. CASE UNCHANGED vars
    BY <1>28 DEF vars
  <1>29. QED
    BY <1>1, <1>2, <1>3, <1>4, <1>5, <1>6, <1>7, <1>8, <1>9, <1>10, <1>11,
       <1>12, <1>13, <1>14, <1>15, <1>16, <1>17, <1>18, <1>19, <1>20, <1>21,
       <1>22, <1>23, <1>24, <1>25, <1>26, <1>27, <1>28 DEF Next

-----------------------------------------------------------------------------
(* Step-up proofs.                                                         *)

LEMMA StepProof == TablesInv /\ ProofInv /\ [Next]_vars => ProofInv'
  <1> SUFFICES ASSUME TablesInv, ProofInv, [Next]_vars PROVE ProofInv'
    OBVIOUS
  <1>1. ASSUME NEW c \in Clients, Disconnect(c) PROVE ProofInv'
    <2>1. UNCHANGED <<proofs, verified>>
      BY <1>1 DEF Disconnect, signed, history
    <2>2. QED
      BY <2>1 DEF ProofInv
  <1>2. ASSUME NEW c \in Clients, Login(c) PROVE ProofInv'
    <2>1. UNCHANGED <<proofs, verified>>
      BY <1>2 DEF Login, signed, history
    <2>2. QED
      BY <2>1 DEF ProofInv
  <1>3. ASSUME NEW c \in Clients, LoginFails(c) PROVE ProofInv'
    <2>1. UNCHANGED <<proofs, verified>>
      BY <1>3 DEF LoginFails, signed, history
    <2>2. QED
      BY <2>1 DEF ProofInv
  <1>4. ASSUME NEW c \in Clients, LoginChallenge(c) PROVE ProofInv'
    <2>1. UNCHANGED <<proofs, verified>>
      BY <1>4 DEF LoginChallenge, signed, history
    <2>2. QED
      BY <2>1 DEF ProofInv
  <1>5. ASSUME NEW c \in Clients, LoginToken(c) PROVE ProofInv'
    <2>1. UNCHANGED <<proofs, verified>>
      BY <1>5 DEF LoginToken, signed, history
    <2>2. QED
      BY <2>1 DEF ProofInv
  <1>6. ASSUME NEW c \in Clients, LoginMFA(c) PROVE ProofInv'
    <2>1. UNCHANGED <<proofs, verified>>
      BY <1>6 DEF LoginMFA, signed, history
    <2>2. QED
      BY <2>1 DEF ProofInv
  <1>7. ASSUME NEW c \in Clients, LoginTOTP(c) PROVE ProofInv'
    <2>1. UNCHANGED <<proofs, verified>>
      BY <1>7 DEF LoginTOTP, signed, history
    <2>2. QED
      BY <2>1 DEF ProofInv
  <1>8. ASSUME NEW c \in Clients, LoginRecovery(c) PROVE ProofInv'
    <2>1. UNCHANGED <<proofs, verified>>
      BY <1>8 DEF LoginRecovery, signed, history
    <2>2. QED
      BY <2>1 DEF ProofInv
  <1>9. ASSUME NEW c \in Clients, StepUp(c) PROVE ProofInv'
    <2>1. UNCHANGED <<proofs, verified>>
      BY <1>9 DEF StepUp, signed, history
    <2>2. QED
      BY <2>1 DEF ProofInv
  <1>10. ASSUME NEW c \in Clients, StepUpProves(c) PROVE ProofInv'
    <2> DEFINE v == [session |-> req[c].session, secret |-> req[c].secret, at |-> now]
               p == [user |-> req[c].session.user, session |-> req[c].session,
                     secret |-> req[c].secret, exp |-> now + ActionMFATTL]
    <2>1. verified' = verified \cup {v} /\ proofs' = proofs \cup {p}
      BY <1>10 DEF StepUpProves, IssueActionMFA
    <2>2. /\ v.session = p.session /\ v.secret = p.secret /\ v.at = now
          /\ p.exp = now + ActionMFATTL
      OBVIOUS
    <2>3. now \in Nat
      BY DEF TablesInv, RowsInv
    <2> HIDE DEF v, p
    <2>4. QED
      BY <2>1, <2>2, <2>3 DEF ProofInv
  <1>11. ASSUME NEW c \in Clients, StepUpFails(c) PROVE ProofInv'
    <2>1. UNCHANGED <<proofs, verified>>
      BY <1>11 DEF StepUpFails, signed, history
    <2>2. QED
      BY <2>1 DEF ProofInv
  <1>12. ASSUME NEW c \in Clients, Guarded(c) PROVE ProofInv'
    <2>1. UNCHANGED <<proofs, verified>>
      BY <1>12 DEF Guarded, signed, history
    <2>2. QED
      BY <2>1 DEF ProofInv
  <1>13. ASSUME NEW c \in Clients, GuardedEnds(c) PROVE ProofInv'
    <2>1. UNCHANGED <<proofs, verified>>
      BY <1>13 DEF GuardedEnds, signed, history
    <2>2. QED
      BY <2>1 DEF ProofInv
  <1>14. ASSUME NEW c \in Clients, MFASetup(c) PROVE ProofInv'
    <2>1. UNCHANGED <<proofs, verified>>
      BY <1>14 DEF MFASetup, signed, history
    <2>2. QED
      BY <2>1 DEF ProofInv
  <1>15. ASSUME NEW c \in Clients, SetupCodes(c) PROVE ProofInv'
    <2>1. UNCHANGED <<proofs, verified>>
      BY <1>15 DEF SetupCodes, signed, history
    <2>2. QED
      BY <2>1 DEF ProofInv
  <1>16. ASSUME NEW c \in Clients, MFAVerify(c) PROVE ProofInv'
    <2>1. UNCHANGED <<proofs, verified>>
      BY <1>16 DEF MFAVerify, signed, history
    <2>2. QED
      BY <2>1 DEF ProofInv
  <1>17. ASSUME NEW c \in Clients, VerifyEnable(c) PROVE ProofInv'
    <2>1. UNCHANGED <<proofs, verified>>
      BY <1>17 DEF VerifyEnable, signed, history
    <2>2. QED
      BY <2>1 DEF ProofInv
  <1>18. ASSUME NEW c \in Clients, VerifyConsume(c) PROVE ProofInv'
    <2>1. UNCHANGED <<proofs, verified>>
      BY <1>18 DEF VerifyConsume, signed, history
    <2>2. QED
      BY <2>1 DEF ProofInv
  <1>19. ASSUME NEW c \in Clients, MFADisable(c) PROVE ProofInv'
    <2>1. UNCHANGED <<proofs, verified>>
      BY <1>19 DEF MFADisable, signed, history
    <2>2. QED
      BY <2>1 DEF ProofInv
  <1>20. ASSUME NEW c \in Clients, DropCodes(c) PROVE ProofInv'
    <2>1. UNCHANGED <<proofs, verified>>
      BY <1>20 DEF DropCodes, signed, history
    <2>2. QED
      BY <2>1 DEF ProofInv
  <1>21. ASSUME NEW c \in Clients, CreateAdminUser(c) PROVE ProofInv'
    <2>1. UNCHANGED <<proofs, verified>>
      BY <1>21 DEF CreateAdminUser, signed, history
    <2>2. QED
      BY <2>1 DEF ProofInv
  <1>22. ASSUME NEW c \in Clients, UpdateAdminUser(c) PROVE ProofInv'
    <2>1. UNCHANGED <<proofs, verified>>
      BY <1>22 DEF UpdateAdminUser, signed, history
    <2>2. QED
      BY <2>1 DEF ProofInv
  <1>23. ASSUME NEW c \in Clients, UpdateWrite(c) PROVE ProofInv'
    <2>1. UNCHANGED <<proofs, verified>>
      BY <1>23 DEF UpdateWrite, signed, history
    <2>2. QED
      BY <2>1 DEF ProofInv
  <1>24. ASSUME NEW c \in Clients, DeleteAdminUser(c) PROVE ProofInv'
    <2>1. UNCHANGED <<proofs, verified>>
      BY <1>24 DEF DeleteAdminUser, signed, history
    <2>2. QED
      BY <2>1 DEF ProofInv
  <1>25. ASSUME NEW c \in Clients, DeleteWrite(c) PROVE ProofInv'
    <2>1. UNCHANGED <<proofs, verified>>
      BY <1>25 DEF DeleteWrite, signed, history
    <2>2. QED
      BY <2>1 DEF ProofInv
  <1>26. CASE Restart
    <2>1. UNCHANGED <<proofs, verified>>
      BY <1>26 DEF Restart, signed, history
    <2>2. QED
      BY <2>1 DEF ProofInv
  <1>27. CASE Tick
    <2>1. UNCHANGED <<proofs, verified>>
      BY <1>27 DEF Tick, signed, history
    <2>2. QED
      BY <2>1 DEF ProofInv
  <1>28. CASE UNCHANGED vars
    <2>1. UNCHANGED <<proofs, verified>>
      BY <1>28 DEF vars, signed, history
    <2>2. QED
      BY <2>1 DEF ProofInv
  <1>29. QED
    BY <1>1, <1>2, <1>3, <1>4, <1>5, <1>6, <1>7, <1>8, <1>9, <1>10, <1>11,
       <1>12, <1>13, <1>14, <1>15, <1>16, <1>17, <1>18, <1>19, <1>20, <1>21,
       <1>22, <1>23, <1>24, <1>25, <1>26, <1>27, <1>28 DEF Next

LEMMA StepFresh ==
    TablesInv /\ ProofInv /\ [Next]_vars => \A c \in Clients : ProvenRecently(c)
  <1> SUFFICES ASSUME TablesInv, ProofInv, [Next]_vars, NEW d \in Clients
               PROVE  ProvenRecently(d)
    OBVIOUS
  <1>0. ReqInv /\ RowsInv
    BY DEF TablesInv
  <1>1. ASSUME NEW c \in Clients, Guarded(c) PROVE ProvenRecently(d)
    <2>1. PICK t \in tokens, p \in proofs :
            /\ requireAdmin(t) /\ Enrolled(t.user) /\ VerifyActionMFA(p, t, users[t.user].secret)
            /\ Hold(c, [op |-> "guarded", session |-> t])
      BY <1>1 DEF Guarded
    <2>2. t.user \in ActiveAdmins /\ users[t.user].enabled
      BY <2>1 DEF requireAdmin, requireAuth, loadCurrentUser, Enrolled, ActiveAdmins
    <2>3. PICK v \in verified : /\ v.session = p.session /\ v.secret = p.secret
                                /\ v.at \in Nat /\ p.exp = v.at + ActionMFATTL
      BY DEF ProofInv
    <2>4. v.session = t /\ v.secret = users[t.user].secret /\ now < v.at + ActionMFATTL
      BY <2>1, <2>3 DEF VerifyActionMFA
    <2>5. now - v.at < ActionMFATTL
      <3>1. now \in Nat /\ ActionMFATTL \in Nat /\ v.at \in Nat
        BY <1>0, <2>3, SignInAssumption DEF RowsInv
      <3>2. QED
        BY <2>4, <3>1
    <2>6. req[d] = Idle /\ req'[d].op = "guarded" => req'[d].session = t
      <3> DEFINE held == [op |-> "guarded", session |-> t]
      <3>1. held.session = t /\ Hold(c, held)
        BY <2>1
      <3> HIDE DEF held
      <3>2. req'[c] = held /\ \A e \in Clients \ {c} : req'[e] = req[e]
        BY <1>0, <3>1, HeldPlain
      <3>3. QED
        BY <3>1, <3>2 DEF Idle
    <2>7. QED
      BY <2>2, <2>3, <2>4, <2>5, <2>6 DEF ProvenRecently
  <1>2. ASSUME NEW c \in Clients, UpdateAdminUser(c) \/ DeleteAdminUser(c) \/ MFASetup(c)
        PROVE  ProvenRecently(d)
    <2>1. \E held : held.op # "guarded" /\ Hold(c, held)
      BY <1>2 DEF UpdateAdminUser, DeleteAdminUser, MFASetup
    <2>2. req[d] = Idle => req'[d].op # "guarded"
      BY <1>0, <2>1, HeldPlain DEF Idle
    <2>3. QED
      BY <2>2 DEF ProvenRecently
  <1>3. CASE \A c \in Clients : ~Guarded(c) /\ ~UpdateAdminUser(c) /\ ~DeleteAdminUser(c)
                                  /\ ~MFASetup(c)
    <2>1. req[d] = Idle => req'[d].op # "guarded"
      BY <1>3, OtherRequests DEF Idle, Plain
    <2>2. QED
      BY <2>1 DEF ProvenRecently
  <1>4. QED
    BY <1>1, <1>2, <1>3

-----------------------------------------------------------------------------
(* Administrators.                                                         *)

(* A step keeps the active administrators when it keeps their rows.        *)
LEMMA AdminsKept ==
    ASSUME RowsInv, DOMAIN users \subseteq DOMAIN users',
           \A i \in DOMAIN users : /\ users'[i].role = users[i].role
                                   /\ users'[i].disabled = users[i].disabled
    PROVE  ActiveAdmins \subseteq ActiveAdmins'
  BY DEF ActiveAdmins

(* Nothing begins and no administrator is lost.                            *)
LEMMA AdminFrame ==
    ASSUME AdminInv, ActiveAdmins \subseteq ActiveAdmins', alone' => alone,
           \A d \in Clients : req'[d] = req[d] \/ Plain(req'[d])
    PROVE  AdminInv'
  <1>1. \A d \in Clients : Changing(d)' => Changing(d) /\ req'[d] = req[d]
    BY DEF Changing, Plain
  <1>2. QED
    BY <1>1 DEF AdminInv, Harmless

(* An account that is not the last active administrator leaves another.    *)
LEMMA NotLast ==
    ASSUME ActiveAdmins # {}, NEW i, ~LastActiveAdmin(i)
    PROVE  ActiveAdmins \ {i} # {}
  <1>1. CASE i \notin ActiveAdmins
    BY <1>1
  <1>2. CASE i \in ActiveAdmins /\ ActiveAdmins \ {i} = {}
    <2>1. ActiveAdmins = {i}
      BY <1>2
    <2>2. Cardinality(ActiveAdmins) = 1
      BY <2>1, FS_Singleton
    <2>3. QED
      BY <1>2, <2>2 DEF LastActiveAdmin
  <1>3. QED
    BY <1>1, <1>2

LEMMA StepAdmin == TablesInv /\ AdminInv /\ [Next]_vars => AdminInv'
  <1> SUFFICES ASSUME TablesInv, AdminInv, [Next]_vars PROVE AdminInv'
    OBVIOUS
  <1>0. ReqInv /\ RowsInv
    BY DEF TablesInv
  <1>a. now \in Nat /\ secrets \in Nat /\ secrets <= secrets
    BY <1>0 DEF RowsInv
  <1>1. ASSUME NEW c \in Clients, Disconnect(c) PROVE AdminInv'
    <2>1. ActiveAdmins \subseteq ActiveAdmins'
      <3>1. users' = users
        BY <1>1 DEF Disconnect, rows
      <3>2. QED
        BY <3>1 DEF ActiveAdmins
    <2>2. alone' = alone
      BY <1>1 DEF Disconnect, history
    <2>3. \A d \in Clients : req'[d] = req[d] \/ Plain(req'[d])
      BY <1>1, <1>0, EndedPlain DEF Disconnect
    <2>4. QED
      BY <2>1, <2>2, <2>3, AdminFrame
  <1>2. ASSUME NEW c \in Clients, Login(c) PROVE AdminInv'
    <2>1. ActiveAdmins \subseteq ActiveAdmins'
      <3>1. users' = users
        BY <1>2 DEF Login, rows
      <3>2. QED
        BY <3>1 DEF ActiveAdmins
    <2>2. alone' = alone
      BY <1>2 DEF Login, history
    <2>3. \A d \in Clients : req'[d] = req[d] \/ Plain(req'[d])
      <3>1. PICK name \in Names, right \in BOOLEAN, failing \in Failing({"ip", "name"}) :
            Hold(c, Outcome(name, right, {"ip", "name"} \ failing))
        BY <1>2 DEF Login
      <3>2. Plain(Outcome(name, right, {"ip", "name"} \ failing))
        BY <1>0, OutcomeOK DEF Plain
      <3>3. QED
        BY <1>0, <3>1, <3>2, HeldPlain
    <2>4. QED
      BY <2>1, <2>2, <2>3, AdminFrame
  <1>3. ASSUME NEW c \in Clients, LoginFails(c) PROVE AdminInv'
    <2>1. ActiveAdmins \subseteq ActiveAdmins'
      <3>1. users' = users
        BY <1>3 DEF LoginFails, rows
      <3>2. QED
        BY <3>1 DEF ActiveAdmins
    <2>2. alone' = alone
      BY <1>3 DEF LoginFails, history
    <2>3. \A d \in Clients : req'[d] = req[d] \/ Plain(req'[d])
      BY <1>3, <1>0, EndedPlain DEF LoginFails
    <2>4. QED
      BY <2>1, <2>2, <2>3, AdminFrame
  <1>4. ASSUME NEW c \in Clients, LoginChallenge(c) PROVE AdminInv'
    <2>1. ActiveAdmins \subseteq ActiveAdmins'
      <3>1. users' = users
        BY <1>4 DEF LoginChallenge, rows
      <3>2. QED
        BY <3>1 DEF ActiveAdmins
    <2>2. alone' = alone
      BY <1>4 DEF LoginChallenge, history
    <2>3. \A d \in Clients : req'[d] = req[d] \/ Plain(req'[d])
      BY <1>4, <1>0, EndedPlain DEF LoginChallenge
    <2>4. QED
      BY <2>1, <2>2, <2>3, AdminFrame
  <1>5. ASSUME NEW c \in Clients, LoginToken(c) PROVE AdminInv'
    <2>1. ActiveAdmins \subseteq ActiveAdmins'
      <3>1. users' = users
        BY <1>5 DEF LoginToken, rows
      <3>2. QED
        BY <3>1 DEF ActiveAdmins
    <2>2. alone' = alone
      BY <1>5 DEF LoginToken, history
    <2>3. \A d \in Clients : req'[d] = req[d] \/ Plain(req'[d])
      BY <1>5, <1>0, EndedPlain DEF LoginToken
    <2>4. QED
      BY <2>1, <2>2, <2>3, AdminFrame
  <1>6. ASSUME NEW c \in Clients, LoginMFA(c) PROVE AdminInv'
    <2>1. ActiveAdmins \subseteq ActiveAdmins'
      <3>1. users' = users
        BY <1>6 DEF LoginMFA, rows
      <3>2. QED
        BY <3>1 DEF ActiveAdmins
    <2>2. alone' = alone
      BY <1>6 DEF LoginMFA, history
    <2>3. \A d \in Clients : req'[d] = req[d] \/ Plain(req'[d])
      <3>1. \E held : Plain(held) /\ Hold(c, held)
        BY <1>6 DEF LoginMFA, Plain
      <3>2. QED
        BY <1>0, <3>1, HeldPlain
    <2>4. QED
      BY <2>1, <2>2, <2>3, AdminFrame
  <1>7. ASSUME NEW c \in Clients, LoginTOTP(c) PROVE AdminInv'
    <2>1. ActiveAdmins \subseteq ActiveAdmins'
      <3>1. req[c].user \in Id /\ req[c].code \in Int
        BY <1>7, <1>0 DEF LoginTOTP, ReqInv, ReqOK
      <3>2. \/ users' = users
            \/ req[c].user \in DOMAIN users /\ ConsumeTOTPTimeStep(req[c].user, req[c].code)
        BY <1>7 DEF LoginTOTP, Fresh
      <3>3. DOMAIN users \subseteq DOMAIN users'
            /\ \A i \in DOMAIN users : /\ users'[i].role = users[i].role
                                       /\ users'[i].disabled = users[i].disabled
        BY <1>0, <3>1, <3>2, StepWrites
      <3>4. QED
        BY <1>0, <3>3, AdminsKept
    <2>2. alone' = alone
      BY <1>7 DEF LoginTOTP, history
    <2>3. \A d \in Clients : req'[d] = req[d] \/ Plain(req'[d])
      BY <1>7, <1>0, EndedPlain DEF LoginTOTP
    <2>4. QED
      BY <2>1, <2>2, <2>3, AdminFrame
  <1>8. ASSUME NEW c \in Clients, LoginRecovery(c) PROVE AdminInv'
    <2>1. ActiveAdmins \subseteq ActiveAdmins'
      <3>1. users' = users
        BY <1>8 DEF LoginRecovery, rows
      <3>2. QED
        BY <3>1 DEF ActiveAdmins
    <2>2. alone' = alone
      BY <1>8 DEF LoginRecovery, history
    <2>3. \A d \in Clients : req'[d] = req[d] \/ Plain(req'[d])
      BY <1>8, <1>0, EndedPlain DEF LoginRecovery
    <2>4. QED
      BY <2>1, <2>2, <2>3, AdminFrame
  <1>9. ASSUME NEW c \in Clients, StepUp(c) PROVE AdminInv'
    <2>1. ActiveAdmins \subseteq ActiveAdmins'
      <3>1. users' = users
        BY <1>9 DEF StepUp, rows
      <3>2. QED
        BY <3>1 DEF ActiveAdmins
    <2>2. alone' = alone
      BY <1>9 DEF StepUp, history
    <2>3. \A d \in Clients : req'[d] = req[d] \/ Plain(req'[d])
      <3>1. \E held : Plain(held) /\ Hold(c, held)
        BY <1>9 DEF StepUp, Plain
      <3>2. QED
        BY <1>0, <3>1, HeldPlain
    <2>4. QED
      BY <2>1, <2>2, <2>3, AdminFrame
  <1>10. ASSUME NEW c \in Clients, StepUpProves(c) PROVE AdminInv'
    <2>1. ActiveAdmins \subseteq ActiveAdmins'
      <3>1. req[c].user \in Id /\ req[c].code \in Int
        BY <1>10, <1>0 DEF StepUpProves, ReqInv, ReqOK
      <3>2. \/ users' = users
            \/ req[c].user \in DOMAIN users /\ ConsumeTOTPTimeStep(req[c].user, req[c].code)
        BY <1>10 DEF StepUpProves, Fresh
      <3>3. DOMAIN users \subseteq DOMAIN users'
            /\ \A i \in DOMAIN users : /\ users'[i].role = users[i].role
                                       /\ users'[i].disabled = users[i].disabled
        BY <1>0, <3>1, <3>2, StepWrites
      <3>4. QED
        BY <1>0, <3>3, AdminsKept
    <2>2. alone' = alone
      BY <1>10 DEF StepUpProves, history
    <2>3. \A d \in Clients : req'[d] = req[d] \/ Plain(req'[d])
      BY <1>10, <1>0, EndedPlain DEF StepUpProves
    <2>4. QED
      BY <2>1, <2>2, <2>3, AdminFrame
  <1>11. ASSUME NEW c \in Clients, StepUpFails(c) PROVE AdminInv'
    <2>1. ActiveAdmins \subseteq ActiveAdmins'
      <3>1. users' = users
        BY <1>11 DEF StepUpFails, rows
      <3>2. QED
        BY <3>1 DEF ActiveAdmins
    <2>2. alone' = alone
      BY <1>11 DEF StepUpFails, history
    <2>3. \A d \in Clients : req'[d] = req[d] \/ Plain(req'[d])
      BY <1>11, <1>0, EndedPlain DEF StepUpFails
    <2>4. QED
      BY <2>1, <2>2, <2>3, AdminFrame
  <1>12. ASSUME NEW c \in Clients, Guarded(c) PROVE AdminInv'
    <2>1. ActiveAdmins \subseteq ActiveAdmins'
      <3>1. users' = users
        BY <1>12 DEF Guarded, rows
      <3>2. QED
        BY <3>1 DEF ActiveAdmins
    <2>2. alone' = alone
      BY <1>12 DEF Guarded, history
    <2>3. \E held : held.op = "guarded" /\ Hold(c, held)
      BY <1>12 DEF Guarded
    <2>4. \A d \in Clients : req'[d] = req[d] \/ req'[d].op = "guarded"
      BY <1>0, <2>3, HeldPlain
    <2>5. \A d \in Clients : Changing(d)' => Changing(d) /\ req'[d] = req[d]
      BY <2>4 DEF Changing
    <2>6. QED
      BY <2>1, <2>2, <2>5 DEF AdminInv, Harmless
  <1>13. ASSUME NEW c \in Clients, GuardedEnds(c) PROVE AdminInv'
    <2>1. ActiveAdmins \subseteq ActiveAdmins'
      <3>1. users' = users
        BY <1>13 DEF GuardedEnds, rows
      <3>2. QED
        BY <3>1 DEF ActiveAdmins
    <2>2. alone' = alone
      BY <1>13 DEF GuardedEnds, history
    <2>3. \A d \in Clients : req'[d] = req[d] \/ Plain(req'[d])
      BY <1>13, <1>0, EndedPlain DEF GuardedEnds
    <2>4. QED
      BY <2>1, <2>2, <2>3, AdminFrame
  <1>14. ASSUME NEW c \in Clients, MFASetup(c) PROVE AdminInv'
    <2>1. PICK s : s = secrets'
      OBVIOUS
    <2>2. PICK t \in tokens :
            /\ t.user \in DOMAIN users /\ SetAdminUserMFA(t.user, s, FALSE)
            /\ Hold(c, [op |-> "setupCodes", user |-> t.user, secret |-> s])
      BY <1>14, <2>1 DEF MFASetup, requireAuth, loadCurrentUser
    <2>3. s = secrets + 1 /\ s \in Nat /\ secrets <= s /\ s \in 0..s
      <3>1. s = secrets + 1
        BY <1>14, <2>1 DEF MFASetup
      <3>2. QED
        BY <1>a, <3>1
    <2>4. DOMAIN users \subseteq DOMAIN users'
          /\ \A i \in DOMAIN users : /\ users'[i].role = users[i].role
                               /\ users'[i].disabled = users[i].disabled
      BY <1>0, <2>2, <2>3, MFAWrites
    <2>5. ActiveAdmins \subseteq ActiveAdmins'
      BY <1>0, <2>4, AdminsKept
    <2>6. alone' = alone
      BY <1>14 DEF MFASetup
    <2>7. \A d \in Clients : req'[d] = req[d] \/ req'[d].op = "setupCodes"
      BY <1>0, <2>2, HeldPlain
    <2>8. \A d \in Clients : Changing(d)' => Changing(d) /\ req'[d] = req[d]
      BY <2>7 DEF Changing
    <2>9. QED
      BY <2>5, <2>6, <2>8 DEF AdminInv, Harmless
  <1>15. ASSUME NEW c \in Clients, SetupCodes(c) PROVE AdminInv'
    <2>1. ActiveAdmins \subseteq ActiveAdmins'
      <3>1. users' = users
        BY <1>15 DEF SetupCodes, rows
      <3>2. QED
        BY <3>1 DEF ActiveAdmins
    <2>2. alone' = alone
      BY <1>15 DEF SetupCodes, history
    <2>3. \A d \in Clients : req'[d] = req[d] \/ Plain(req'[d])
      BY <1>15, <1>0, EndedPlain DEF SetupCodes
    <2>4. QED
      BY <2>1, <2>2, <2>3, AdminFrame
  <1>16. ASSUME NEW c \in Clients, MFAVerify(c) PROVE AdminInv'
    <2>1. ActiveAdmins \subseteq ActiveAdmins'
      <3>1. users' = users
        BY <1>16 DEF MFAVerify, rows
      <3>2. QED
        BY <3>1 DEF ActiveAdmins
    <2>2. alone' = alone
      BY <1>16 DEF MFAVerify, history
    <2>3. \A d \in Clients : req'[d] = req[d] \/ Plain(req'[d])
      <3>1. \E held : Plain(held) /\ Hold(c, held)
        BY <1>16 DEF MFAVerify, Plain
      <3>2. QED
        BY <1>0, <3>1, HeldPlain
    <2>4. QED
      BY <2>1, <2>2, <2>3, AdminFrame
  <1>17. ASSUME NEW c \in Clients, VerifyEnable(c) PROVE AdminInv'
    <2>1. ActiveAdmins \subseteq ActiveAdmins'
      <3>1. req[c].secret \in 0..secrets
        BY <1>17, <1>0, <1>a DEF VerifyEnable, ReqInv, ReqOK, Secret
      <3>2. SetAdminUserMFA(req[c].user, req[c].secret, TRUE)
        BY <1>17 DEF VerifyEnable
      <3>3. CASE req[c].user \in DOMAIN users
        <4>1. DOMAIN users \subseteq DOMAIN users'
            /\ \A i \in DOMAIN users : /\ users'[i].role = users[i].role
                                       /\ users'[i].disabled = users[i].disabled
          BY <1>0, <1>a, <3>1, <3>2, <3>3, MFAWrites
        <4>2. QED
          BY <1>0, <4>1, AdminsKept
      <3>4. CASE req[c].user \notin DOMAIN users
        BY <3>2, <3>4 DEF SetAdminUserMFA, ActiveAdmins
      <3>5. QED
        BY <3>3, <3>4
    <2>2. alone' = alone
      BY <1>17 DEF VerifyEnable, history
    <2>3. \A d \in Clients : req'[d] = req[d] \/ Plain(req'[d])
      <3> DEFINE held == [req[c] EXCEPT !.op = "verifyConsume"]
      <3>1. req[c] \in [op : {"verifyEnable"}, user : Id, secret : Secret, code : Int]
        BY <1>17, <1>0 DEF VerifyEnable, ReqInv, ReqOK
      <3>2. Plain(held)
        BY <3>1 DEF Plain
      <3>3. Hold(c, held)
        BY <1>17 DEF VerifyEnable, Go, Hold
      <3> HIDE DEF held
      <3>4. QED
        BY <1>0, <3>2, <3>3, HeldPlain
    <2>4. QED
      BY <2>1, <2>2, <2>3, AdminFrame
  <1>18. ASSUME NEW c \in Clients, VerifyConsume(c) PROVE AdminInv'
    <2>1. ActiveAdmins \subseteq ActiveAdmins'
      <3>1. req[c].user \in Id /\ req[c].code \in Int
        BY <1>18, <1>0 DEF VerifyConsume, ReqInv, ReqOK
      <3>2. \/ users' = users
            \/ req[c].user \in DOMAIN users /\ ConsumeTOTPTimeStep(req[c].user, req[c].code)
        BY <1>18 DEF VerifyConsume, Fresh
      <3>3. DOMAIN users \subseteq DOMAIN users'
            /\ \A i \in DOMAIN users : /\ users'[i].role = users[i].role
                                       /\ users'[i].disabled = users[i].disabled
        BY <1>0, <3>1, <3>2, StepWrites
      <3>4. QED
        BY <1>0, <3>3, AdminsKept
    <2>2. alone' = alone
      BY <1>18 DEF VerifyConsume, history
    <2>3. \A d \in Clients : req'[d] = req[d] \/ Plain(req'[d])
      BY <1>18, <1>0, EndedPlain DEF VerifyConsume
    <2>4. QED
      BY <2>1, <2>2, <2>3, AdminFrame
  <1>19. ASSUME NEW c \in Clients, MFADisable(c) PROVE AdminInv'
    <2>1. ActiveAdmins \subseteq ActiveAdmins'
      <3>1. PICK t \in tokens : t.user \in DOMAIN users /\ SetAdminUserMFA(t.user, NoSecret, FALSE)
        BY <1>19 DEF MFADisable, requireAuth, loadCurrentUser
      <3>2. NoSecret \in 0..secrets
        BY <1>a DEF NoSecret
      <3>3. DOMAIN users \subseteq DOMAIN users'
            /\ \A i \in DOMAIN users : /\ users'[i].role = users[i].role
                                       /\ users'[i].disabled = users[i].disabled
        BY <1>0, <1>a, <3>1, <3>2, MFAWrites
      <3>4. QED
        BY <1>0, <3>3, AdminsKept
    <2>2. alone' = alone
      BY <1>19 DEF MFADisable, history
    <2>3. \A d \in Clients : req'[d] = req[d] \/ Plain(req'[d])
      <3>1. \E held : Plain(held) /\ Hold(c, held)
        BY <1>19 DEF MFADisable, Plain
      <3>2. QED
        BY <1>0, <3>1, HeldPlain
    <2>4. QED
      BY <2>1, <2>2, <2>3, AdminFrame
  <1>20. ASSUME NEW c \in Clients, DropCodes(c) PROVE AdminInv'
    <2>1. ActiveAdmins \subseteq ActiveAdmins'
      <3>1. users' = users
        BY <1>20 DEF DropCodes, rows
      <3>2. QED
        BY <3>1 DEF ActiveAdmins
    <2>2. alone' = alone
      BY <1>20 DEF DropCodes, history
    <2>3. \A d \in Clients : req'[d] = req[d] \/ Plain(req'[d])
      BY <1>20, <1>0, EndedPlain DEF DropCodes
    <2>4. QED
      BY <2>1, <2>2, <2>3, AdminFrame
  <1>21. ASSUME NEW c \in Clients, CreateAdminUser(c) PROVE AdminInv'
    <2>1. ActiveAdmins \subseteq ActiveAdmins'
      <3>1. PICK name \in AnyName, role \in Roles, disabled \in BOOLEAN :
              users' = Inserted(Row(name, role, disabled))
        BY <1>21 DEF CreateAdminUser, AnyName
      <3>2. nextId <= MaxIds
        BY <1>21 DEF CreateAdminUser
      <3>3. DOMAIN users \subseteq DOMAIN users'
            /\ \A i \in DOMAIN users : /\ users'[i].role = users[i].role
                                       /\ users'[i].disabled = users[i].disabled
        BY <1>0, <3>1, <3>2, InsertWrites
      <3>4. QED
        BY <1>0, <3>3, AdminsKept
    <2>2. alone' = alone
      BY <1>21 DEF CreateAdminUser, history
    <2>3. \A d \in Clients : req'[d] = req[d] \/ Plain(req'[d])
      BY <1>21 DEF CreateAdminUser
    <2>4. QED
      BY <2>1, <2>2, <2>3, AdminFrame
  <1>22. ASSUME NEW c \in Clients, UpdateAdminUser(c) PROVE AdminInv'
    <2>1. users' = users /\ alone' = (alone /\ \A d \in Clients : ~Changing(d))
      BY <1>22 DEF UpdateAdminUser, rows
    <2>2. ActiveAdmins' = ActiveAdmins
      BY <2>1 DEF ActiveAdmins
    <2>3. PICK i, given, disabled, held :
            /\ i \in DOMAIN users /\ given \in Roles /\ disabled \in BOOLEAN
            /\ (disabled \/ given # users[i].role) => ~LastActiveAdmin(i)
            /\ held.op = "update" /\ held.user = i /\ held.role = given
            /\ held.disabled = disabled /\ Hold(c, held)
      <3>1. PICK i \in DOMAIN users, name \in Names, role \in Roles \cup {""}, disabled \in BOOLEAN :
              LET given == IF role = "" THEN users[i].role ELSE role
              IN  /\ (disabled \/ given # users[i].role) => ~LastActiveAdmin(i)
                  /\ Hold(c, [op |-> "update", user |-> i, name |-> name, role |-> given,
                              disabled |-> disabled])
        BY <1>22 DEF UpdateAdminUser
      <3>2. PICK given \in Roles : given = IF role = "" THEN users[i].role ELSE role
        BY <1>0, RowType
      <3> DEFINE held == [op |-> "update", user |-> i, name |-> name, role |-> given,
                          disabled |-> disabled]
      <3>3. /\ held.op = "update" /\ held.user = i /\ held.role = given
            /\ held.disabled = disabled /\ Hold(c, held)
        BY <3>1, <3>2
      <3> HIDE DEF held
      <3>4. QED
        BY <3>1, <3>2, <3>3
    <2>4. ASSUME alone' PROVE Harmless(held)
      <3>1. ActiveAdmins # {}
        BY <2>1, <2>4 DEF AdminInv
      <3>2. CASE ~LastActiveAdmin(i)
        BY <2>3, <3>1, <3>2, NotLast DEF Harmless
      <3>3. CASE ~disabled /\ given = users[i].role
        <4>1. given = "admin" \/ i \notin ActiveAdmins
          BY <3>3 DEF ActiveAdmins
        <4>2. QED
          BY <2>3, <3>1, <3>3, <4>1 DEF Harmless
      <3>4. QED
        BY <2>3, <3>2, <3>3
    <2>5. req'[c] = held /\ \A d \in Clients \ {c} : req'[d] = req[d]
      BY <1>0, <2>3, HeldPlain
    <2>6. ASSUME alone' PROVE \A d \in Clients : Changing(d)' => d = c
      BY <2>1, <2>5, <2>6 DEF Changing
    <2>7. ASSUME alone' PROVE \A d \in Clients : Changing(d)' => Harmless(req[d])'
      BY <2>2, <2>4, <2>5, <2>6, <2>7 DEF Harmless
    <2>8. QED
      BY <2>1, <2>2, <2>6, <2>7 DEF AdminInv
  <1>23. ASSUME NEW c \in Clients, UpdateWrite(c) PROVE AdminInv'
    <2>1. alone' = alone /\ req'[c] = Idle /\ \A d \in Clients : req'[d] = req[d] \/ Plain(req'[d])
      BY <1>23, <1>0, EndedPlain DEF UpdateWrite, history
    <2>2. ASSUME alone
          PROVE  Harmless(req[c]) /\ \A d \in Clients : Changing(d) => d = c
      BY <1>23, <2>2 DEF UpdateWrite, AdminInv, Changing
    <2>3. ASSUME alone PROVE \A d \in Clients : ~Changing(d)'
      BY <2>1, <2>2, <2>3 DEF Changing, Plain, Idle
    <2>4. ASSUME alone PROVE ActiveAdmins' # {}
      <3>1. CASE users' = users
        BY <2>4, <3>1 DEF AdminInv, ActiveAdmins
      <3>2. CASE users' # users
        <4> DEFINE i == req[c].user
                   row == [users[i] EXCEPT !.name = req[c].name, !.role = req[c].role,
                                           !.disabled = req[c].disabled]
        <4>1. i \in DOMAIN users /\ users' = [users EXCEPT ![i] = row] /\ req[c].op = "update"
          BY <1>23, <3>2 DEF UpdateWrite
        <4>2. row.role = req[c].role /\ row.disabled = req[c].disabled
          BY <1>0, <4>1, RowType DEF Account
        <4> HIDE DEF row
        <4>3. DOMAIN users' = DOMAIN users /\ users'[i] = row
              /\ \A j \in DOMAIN users \ {i} : users'[j] = users[j]
          BY <4>1
        <4>4. CASE req[c].role = "admin" /\ ~req[c].disabled
          BY <4>1, <4>2, <4>3, <4>4 DEF ActiveAdmins
        <4>5. CASE ActiveAdmins \ {i} # {}
          BY <4>3, <4>5 DEF ActiveAdmins
        <4>6. QED
          BY <2>2, <2>4, <4>4, <4>5 DEF Harmless
      <3>3. QED
        BY <3>1, <3>2
    <2>5. QED
      BY <2>1, <2>3, <2>4 DEF AdminInv
  <1>24. ASSUME NEW c \in Clients, DeleteAdminUser(c) PROVE AdminInv'
    <2>1. users' = users /\ alone' = (alone /\ \A d \in Clients : ~Changing(d))
      BY <1>24 DEF DeleteAdminUser, rows
    <2>2. ActiveAdmins' = ActiveAdmins
      BY <2>1 DEF ActiveAdmins
    <2>3. PICK i, held :
            i \in DOMAIN users /\ ~LastActiveAdmin(i) /\ held.op = "delete" /\ held.user = i /\ Hold(c, held)
      BY <1>24 DEF DeleteAdminUser
    <2>4. ASSUME alone' PROVE Harmless(held)
      <3>1. ActiveAdmins # {}
        BY <2>1, <2>4 DEF AdminInv
      <3>2. QED
        BY <2>3, <3>1, NotLast DEF Harmless
    <2>5. req'[c] = held /\ \A d \in Clients \ {c} : req'[d] = req[d]
      BY <1>0, <2>3, HeldPlain
    <2>6. ASSUME alone' PROVE \A d \in Clients : Changing(d)' => d = c
      BY <2>1, <2>5, <2>6 DEF Changing
    <2>7. ASSUME alone' PROVE \A d \in Clients : Changing(d)' => Harmless(req[d])'
      BY <2>2, <2>4, <2>5, <2>6, <2>7 DEF Harmless
    <2>8. QED
      BY <2>1, <2>2, <2>6, <2>7 DEF AdminInv
  <1>25. ASSUME NEW c \in Clients, DeleteWrite(c) PROVE AdminInv'
    <2>1. alone' = alone /\ req'[c] = Idle /\ \A d \in Clients : req'[d] = req[d] \/ Plain(req'[d])
      BY <1>25, <1>0, EndedPlain DEF DeleteWrite, history
    <2>2. ASSUME alone
          PROVE  Harmless(req[c]) /\ \A d \in Clients : Changing(d) => d = c
      BY <1>25, <2>2 DEF DeleteWrite, AdminInv, Changing
    <2>3. ASSUME alone PROVE \A d \in Clients : ~Changing(d)'
      BY <2>1, <2>2, <2>3 DEF Changing, Plain, Idle
    <2>4. ASSUME alone PROVE ActiveAdmins' # {}
      <3>1. users' = [i \in DOMAIN users \ {req[c].user} |-> users[i]] /\ req[c].op = "delete"
        BY <1>25 DEF DeleteWrite, Restrict
      <3>2. ActiveAdmins \ {req[c].user} # {}
        BY <2>2, <2>4, <3>1 DEF Harmless
      <3>3. \A i \in ActiveAdmins \ {req[c].user} : i \in ActiveAdmins'
        BY <3>1 DEF ActiveAdmins
      <3>4. QED
        BY <3>2, <3>3
    <2>5. QED
      BY <2>1, <2>3, <2>4 DEF AdminInv
  <1>26. CASE Restart
    <2>1. req' = [d \in Clients |-> Idle] /\ alone' = alone
      BY <1>26 DEF Restart, history
    <2>2. ActiveAdmins' # {}
      <3>1. CASE UNCHANGED <<users, nextId>> /\ ActiveAdmins # {}
        BY <3>1 DEF ActiveAdmins
      <3>2. CASE nextId <= MaxIds /\ users' = Inserted(Row(Bootstrap, "admin", FALSE))
        <4>1. Bootstrap \in AnyName /\ "admin" \in Roles
          BY DEF AnyName, Roles
        <4>2. nextId \in DOMAIN users' /\ users'[nextId].role = "admin" /\ users'[nextId].disabled = FALSE
          BY <1>0, <3>2, <4>1, InsertWrites
        <4>3. QED
          BY <4>2 DEF ActiveAdmins
      <3>3. QED
        BY <1>26, <3>1, <3>2 DEF Restart
    <2>3. QED
      BY <2>1, <2>2 DEF AdminInv, Changing, Idle
  <1>27. CASE Tick
    <2>1. UNCHANGED <<users, req, alone>>
      BY <1>27 DEF Tick, rows, history
    <2>2. QED
      BY <2>1 DEF AdminInv, ActiveAdmins, Changing, Harmless
  <1>28. CASE UNCHANGED vars
    <2>1. UNCHANGED <<users, req, alone>>
      BY <1>28 DEF vars, rows, history
    <2>2. QED
      BY <2>1 DEF AdminInv, ActiveAdmins, Changing, Harmless
  <1>29. QED
    BY <1>1, <1>2, <1>3, <1>4, <1>5, <1>6, <1>7, <1>8, <1>9, <1>10, <1>11,
       <1>12, <1>13, <1>14, <1>15, <1>16, <1>17, <1>18, <1>19, <1>20, <1>21,
       <1>22, <1>23, <1>24, <1>25, <1>26, <1>27, <1>28 DEF Next

-----------------------------------------------------------------------------
(* Codes.                                                                  *)

(* A new row of a table is numbered 1 when the table has no equal row.     *)
LEMMA AddedRows ==
    ASSUME NEW table, NEW row
    PROVE  /\ \A e \in Added(table, row) : e \in table \/ e.row = row
           /\ (\A a \in table : a.row # row) =>
                \A e \in Added(table, row) : e \in table \/ (e.row = row /\ e.n = 1)
  <1>1. \A e \in Added(table, row) : e \in table \/ e.row = row
    BY DEF Added
  <1>2. ASSUME \A a \in table : a.row # row
        PROVE  \A e \in Added(table, row) : e \in table \/ (e.row = row /\ e.n = 1)
    <2>1. {a \in table : a.row = row} = {}
      BY <1>2
    <2>2. Added(table, row) = table \cup {[row |-> row, n |-> 1 + Cardinality({})]}
      BY <2>1 DEF Added
    <2>3. 1 + Cardinality({}) = 1
      BY FS_EmptySet
    <2>4. QED
      BY <2>2, <2>3
  <1>3. QED
    BY <1>1, <1>2

(* A step that accepts no code, gives no secret and stores no codes.       *)
LEMMA CodesFrame ==
    ASSUME TablesInv, CodesInv, UNCHANGED <<accepted, latest>>,
           recovery' \subseteq recovery, Id \subseteq Id', Secret \subseteq Secret',
           DOMAIN users' \subseteq DOMAIN users \cup {nextId},
           \A i \in DOMAIN users \cap DOMAIN users' :
               users'[i].last \in Int /\ users[i].last <= users'[i].last,
           \A d \in Clients : req'[d] = req[d] \/ req'[d].op # "setupCodes"
    PROVE  CodesInv'
  <1>1. nextId \notin Id /\ DOMAIN users \subseteq Id
    BY SignInAssumption DEF TablesInv, RowsInv, Id
  <1>2. AcceptedInv'
    <2> SUFFICES ASSUME NEW e \in accepted,
                        e.row.kind = "totp", e.row.user \in DOMAIN users',
                        e.row.secret = latest[e.row.user]
                 PROVE  e.row.code <= users'[e.row.user].last
      BY DEF CodesInv, AcceptedInv
    <2>1. e.row.user \in Id /\ e.row.code \in Int
      BY DEF CodesInv, AcceptedInv
    <2>2. e.row.user \in DOMAIN users
      BY <1>1, <2>1
    <2>3. e.row.code <= users[e.row.user].last
      BY <2>2 DEF CodesInv, AcceptedInv
    <2>4. users[e.row.user].last \in Int
      BY <2>2, RowType DEF TablesInv
    <2>5. users'[e.row.user].last \in Int /\ users[e.row.user].last <= users'[e.row.user].last
      BY <2>2
    <2>6. QED
      BY <2>1, <2>3, <2>4, <2>5
  <1>3. \A d \in Clients : \A i, s : Storing(d, i, s)' => Storing(d, i, s)
    BY DEF Storing
  <1>4. RecoveryInv'
    <2>1. \A d \in Clients : req'[d].op = "setupCodes" => req'[d] = req[d]
      OBVIOUS
    <2>2. QED
      BY <1>3, <2>1 DEF CodesInv, RecoveryInv
  <1>5. CodesUsedOnce'
    BY DEF CodesInv, CodesUsedOnce
  <1>6. QED
    BY <1>2, <1>4, <1>5 DEF CodesInv

(* A TOTP code of an account's last secret is above all that were accepted *)
(* for it, so it was not accepted before.                                  *)
LEMMA TOTPAccepted ==
    ASSUME TablesInv, CodesInv, NEW i, NEW secret \in Secret, NEW code \in Int,
           Fresh(i, code), ConsumeTOTPTimeStep(i, code), Accept(i, secret, "totp", code),
           UNCHANGED <<latest, recovery, nextId, secrets>>,
           \A d \in Clients : req'[d] = req[d] \/ req'[d].op # "setupCodes"
    PROVE  CodesInv'
  <1> DEFINE row == [user |-> i, secret |-> secret, kind |-> "totp", code |-> code]
  <1>1. /\ row.user = i /\ row.secret = secret /\ row.kind = "totp" /\ row.code = code
        /\ accepted' = Added(accepted, row)
    BY DEF Accept
  <1>2. i \in DOMAIN users /\ users[i].last < code /\ i \in Id /\ users[i].last \in Int
    BY RowType DEF Fresh, TablesInv
  <1>3. DOMAIN users' = DOMAIN users /\ users'[i].last = code
        /\ \A j \in DOMAIN users \ {i} : users'[j] = users[j]
    BY <1>2, StepWrites DEF TablesInv
  <1>4. Id' = Id /\ Secret' = Secret
    BY SameIds
  <1> HIDE DEF row
  <1>5. \A e \in accepted' : e \in accepted \/ e.row = row
    BY <1>1, AddedRows
  <1>6. secret = latest[i] => \A e \in accepted' : e \in accepted \/ (e.row = row /\ e.n = 1)
    <2> SUFFICES ASSUME secret = latest[i]
                 PROVE  \A e \in accepted' : e \in accepted \/ (e.row = row /\ e.n = 1)
      OBVIOUS
    <2>1. \A e \in accepted : e.row # row
      <3> SUFFICES ASSUME NEW e \in accepted, e.row = row PROVE FALSE
        OBVIOUS
      <3>1. e.row.code <= users[i].last
        BY <1>1, <1>2 DEF CodesInv, AcceptedInv
      <3>2. code <= users[i].last
        BY <1>1, <3>1
      <3>3. QED
        BY <1>2, <3>2
    <2>2. QED
      BY <1>1, <2>1, AddedRows
  <1>7. AcceptedInv'
    <2> SUFFICES ASSUME NEW e \in accepted'
                 PROVE  /\ e.row.user \in Id /\ e.row.secret \in Secret
                        /\ e.row.kind \in {"totp", "recovery"}
                        /\ e.row.kind = "totp" => e.row.code \in Int
                        /\ e.row.kind = "totp" /\ e.row.user \in DOMAIN users
                             /\ e.row.secret = latest[e.row.user] =>
                             e.row.code <= users'[e.row.user].last
      BY <1>3, <1>4 DEF AcceptedInv
    <2>1. CASE e.row = row
      BY <1>1, <1>2, <1>3, <2>1
    <2>2. CASE e \in accepted /\ e.row.user # i
      BY <1>3, <2>2 DEF CodesInv, AcceptedInv
    <2>3. CASE e \in accepted /\ e.row.user = i
      <3>1. /\ e.row.secret \in Secret /\ e.row.kind \in {"totp", "recovery"}
            /\ e.row.kind = "totp" => e.row.code \in Int
            /\ e.row.kind = "totp" /\ e.row.secret = latest[i] => e.row.code <= users[i].last
        BY <1>2, <2>3 DEF CodesInv, AcceptedInv
      <3>2. e.row.kind = "totp" /\ e.row.secret = latest[i] => e.row.code <= users'[i].last
        BY <1>2, <1>3, <3>1
      <3>3. QED
        BY <1>2, <2>3, <3>1, <3>2
    <2>4. QED
      BY <1>5, <2>1, <2>2, <2>3
  <1>8. \A d \in Clients : \A j, s : Storing(d, j, s)' => Storing(d, j, s)
    BY DEF Storing
  <1>9. RecoveryInv'
    <2>1. \A e \in accepted' : e.row.kind = "recovery" => e \in accepted
      BY <1>1, <1>5
    <2>2. \A d \in Clients : req'[d].op = "setupCodes" => req'[d] = req[d]
      OBVIOUS
    <2>3. QED
      BY <1>8, <2>1, <2>2 DEF CodesInv, RecoveryInv
  <1>10. CodesUsedOnce'
    <2> SUFFICES ASSUME NEW e \in accepted',
                        e.row.kind = "recovery" \/ e.row.secret = latest[e.row.user]
                 PROVE  e.n = 1
      BY DEF CodesUsedOnce
    <2>1. CASE e \in accepted
      BY <2>1 DEF CodesInv, CodesUsedOnce
    <2>2. CASE e \notin accepted
      <3>1. e.row = row
        BY <1>5, <2>2
      <3>2. secret = latest[i]
        BY <1>1, <3>1
      <3>3. QED
        BY <1>6, <2>2, <3>2
    <2>3. QED
      BY <2>1, <2>2
  <1>11. QED
    BY <1>7, <1>9, <1>10 DEF CodesInv

(* A recovery code that is still stored was not accepted before.           *)
LEMMA RecoveryAccepted ==
    ASSUME TablesInv, CodesInv, NEW r \in recovery, ConsumeRecoveryCode(r),
           Accept(r.user, r.of, "recovery", r.no), UNCHANGED <<users, latest, nextId, secrets>>,
           \A d \in Clients : req'[d] = req[d] \/ req'[d].op # "setupCodes"
    PROVE  CodesInv'
  <1> DEFINE row == [user |-> r.user, secret |-> r.of, kind |-> "recovery", code |-> r.no]
  <1>1. /\ row.user = r.user /\ row.secret = r.of /\ row.kind = "recovery" /\ row.code = r.no
        /\ accepted' = Added(accepted, row)
    BY DEF Accept
  <1>2. r \in Code /\ r = [user |-> r.user, of |-> r.of, no |-> r.no]
        /\ r.user \in Id /\ r.of \in Secret
    BY DEF TablesInv, RowsInv, Code
  <1>3. Id' = Id /\ Secret' = Secret
    BY SameIds
  <1> HIDE DEF row
  <1>4. \A e \in accepted : e.row # row
    <2> SUFFICES ASSUME NEW e \in accepted, e.row = row PROVE FALSE
      OBVIOUS
    <2>1. [user |-> e.row.user, of |-> e.row.secret, no |-> e.row.code] \notin recovery
      BY <1>1 DEF CodesInv, RecoveryInv
    <2>2. QED
      BY <1>1, <1>2, <2>1
  <1>5. \A e \in accepted' : e \in accepted \/ (e.row = row /\ e.n = 1)
    BY <1>1, <1>4, AddedRows
  <1>6. AcceptedInv'
    BY <1>1, <1>2, <1>3, <1>5 DEF CodesInv, AcceptedInv
  <1>7. \A d \in Clients : \A j, s : Storing(d, j, s)' => Storing(d, j, s)
    BY DEF Storing
  <1>8. recovery' = recovery \ {r}
    BY DEF ConsumeRecoveryCode
  <1>9. RecoveryInv'
    <2>1. \A e \in accepted' : e.row.kind = "recovery" =>
            /\ [user |-> e.row.user, of |-> e.row.secret, no |-> e.row.code] \notin recovery'
            /\ \A d \in Clients : ~Storing(d, e.row.user, e.row.secret)
      BY <1>1, <1>2, <1>5, <1>8 DEF CodesInv, RecoveryInv
    <2>2. \A d \in Clients : req'[d].op = "setupCodes" => req'[d] = req[d]
      OBVIOUS
    <2>3. QED
      BY <1>7, <1>8, <2>1, <2>2 DEF CodesInv, RecoveryInv
  <1>10. CodesUsedOnce'
    BY <1>5 DEF CodesInv, CodesUsedOnce
  <1>11. QED
    BY <1>6, <1>9, <1>10 DEF CodesInv

LEMMA InitCodes == Init => CodesInv /\ ProofInv /\ AdminInv
  <1> SUFFICES ASSUME Init PROVE CodesInv /\ ProofInv /\ AdminInv
    OBVIOUS
  <1>0. RowsInv
    BY InitTables DEF TablesInv
  <1> DEFINE enrolled == {j \in DOMAIN Start : Start[j].enabled}
  <1>1. \A e \in accepted : \E i \in enrolled :
          e = [row |-> [user |-> i, secret |-> Start[i].secret, kind |-> "totp",
                        code |-> Start[i].last], n |-> 1]
    BY DEF Init
  <1>2. users = Start
    BY DEF Init
  <1>3. \A i \in enrolled : i \in Id /\ Start[i].secret \in Secret /\ Start[i].last \in Int
    BY <1>0, <1>2, StartAssumption, RowType
  <1>4. \A e \in accepted : /\ e.n = 1 /\ e.row.kind = "totp" /\ e.row.user \in enrolled
                            /\ e.row.secret = Start[e.row.user].secret
                            /\ e.row.code = Start[e.row.user].last
    BY <1>1
  <1>5. AcceptedInv
    BY <1>2, <1>3, <1>4 DEF AcceptedInv
  <1>6. RecoveryInv
    BY <1>4 DEF Init, RecoveryInv, Storing, Idle
  <1>7. CodesUsedOnce
    BY <1>4 DEF CodesUsedOnce
  <1>8. ProofInv
    BY DEF Init, ProofInv
  <1>9. AdminInv
    BY <1>2, StartAssumption DEF Init, AdminInv, ActiveAdmins, Changing, Idle
  <1>10. QED
    BY <1>5, <1>6, <1>7, <1>8, <1>9 DEF CodesInv

LEMMA StepCodes == TablesInv /\ CodesInv /\ [Next]_vars => CodesInv'
  <1> SUFFICES ASSUME TablesInv, CodesInv, [Next]_vars PROVE CodesInv'
    OBVIOUS
  <1>0. ReqInv /\ RowsInv
    BY DEF TablesInv
  <1>a. now \in Nat /\ secrets \in Nat /\ secrets <= secrets
    BY <1>0 DEF RowsInv
  <1>b. \A i \in DOMAIN users : users[i].last \in Int /\ users[i].last <= users[i].last
    BY <1>0, RowType
  <1>1. ASSUME NEW c \in Clients, Disconnect(c) PROVE CodesInv'
    <2>1. UNCHANGED <<users, accepted, latest, recovery, nextId, secrets>>
      BY <1>1 DEF Disconnect, rows, signed, history
    <2>2. Id' = Id /\ Secret' = Secret
      BY <2>1, SameIds
    <2>3. recovery' \subseteq recovery
      BY <2>1
    <2>4. /\ DOMAIN users' \subseteq DOMAIN users \cup {nextId}
          /\ \A i \in DOMAIN users \cap DOMAIN users' :
               users'[i].last \in Int /\ users[i].last <= users'[i].last
      BY <1>b, <2>1
    <2>5. \A d \in Clients : req'[d] = req[d] \/ req'[d].op # "setupCodes"
      BY <1>1, <1>0, EndedPlain DEF Disconnect, Plain
    <2>6. QED
      BY <2>1, <2>2, <2>3, <2>4, <2>5, CodesFrame
  <1>2. ASSUME NEW c \in Clients, Login(c) PROVE CodesInv'
    <2>1. UNCHANGED <<users, accepted, latest, recovery, nextId, secrets>>
      BY <1>2 DEF Login, rows, signed, history
    <2>2. Id' = Id /\ Secret' = Secret
      BY <2>1, SameIds
    <2>3. recovery' \subseteq recovery
      BY <2>1
    <2>4. /\ DOMAIN users' \subseteq DOMAIN users \cup {nextId}
          /\ \A i \in DOMAIN users \cap DOMAIN users' :
               users'[i].last \in Int /\ users[i].last <= users'[i].last
      BY <1>b, <2>1
    <2>5. \A d \in Clients : req'[d] = req[d] \/ req'[d].op # "setupCodes"
      <3>1. PICK name \in Names, right \in BOOLEAN, failing \in Failing({"ip", "name"}) :
            Hold(c, Outcome(name, right, {"ip", "name"} \ failing))
        BY <1>2 DEF Login
      <3>2. Plain(Outcome(name, right, {"ip", "name"} \ failing))
        BY <1>0, OutcomeOK DEF Plain
      <3>3. QED
        BY <1>0, <3>1, <3>2, HeldPlain DEF Plain
    <2>6. QED
      BY <2>1, <2>2, <2>3, <2>4, <2>5, CodesFrame
  <1>3. ASSUME NEW c \in Clients, LoginFails(c) PROVE CodesInv'
    <2>1. UNCHANGED <<users, accepted, latest, recovery, nextId, secrets>>
      BY <1>3 DEF LoginFails, rows, signed, history
    <2>2. Id' = Id /\ Secret' = Secret
      BY <2>1, SameIds
    <2>3. recovery' \subseteq recovery
      BY <2>1
    <2>4. /\ DOMAIN users' \subseteq DOMAIN users \cup {nextId}
          /\ \A i \in DOMAIN users \cap DOMAIN users' :
               users'[i].last \in Int /\ users[i].last <= users'[i].last
      BY <1>b, <2>1
    <2>5. \A d \in Clients : req'[d] = req[d] \/ req'[d].op # "setupCodes"
      BY <1>3, <1>0, EndedPlain DEF LoginFails, Plain
    <2>6. QED
      BY <2>1, <2>2, <2>3, <2>4, <2>5, CodesFrame
  <1>4. ASSUME NEW c \in Clients, LoginChallenge(c) PROVE CodesInv'
    <2>1. UNCHANGED <<users, accepted, latest, recovery, nextId, secrets>>
      BY <1>4 DEF LoginChallenge, rows, signed, history
    <2>2. Id' = Id /\ Secret' = Secret
      BY <2>1, SameIds
    <2>3. recovery' \subseteq recovery
      BY <2>1
    <2>4. /\ DOMAIN users' \subseteq DOMAIN users \cup {nextId}
          /\ \A i \in DOMAIN users \cap DOMAIN users' :
               users'[i].last \in Int /\ users[i].last <= users'[i].last
      BY <1>b, <2>1
    <2>5. \A d \in Clients : req'[d] = req[d] \/ req'[d].op # "setupCodes"
      BY <1>4, <1>0, EndedPlain DEF LoginChallenge, Plain
    <2>6. QED
      BY <2>1, <2>2, <2>3, <2>4, <2>5, CodesFrame
  <1>5. ASSUME NEW c \in Clients, LoginToken(c) PROVE CodesInv'
    <2>1. UNCHANGED <<users, accepted, latest, recovery, nextId, secrets>>
      BY <1>5 DEF LoginToken, rows, signed, history
    <2>2. Id' = Id /\ Secret' = Secret
      BY <2>1, SameIds
    <2>3. recovery' \subseteq recovery
      BY <2>1
    <2>4. /\ DOMAIN users' \subseteq DOMAIN users \cup {nextId}
          /\ \A i \in DOMAIN users \cap DOMAIN users' :
               users'[i].last \in Int /\ users[i].last <= users'[i].last
      BY <1>b, <2>1
    <2>5. \A d \in Clients : req'[d] = req[d] \/ req'[d].op # "setupCodes"
      BY <1>5, <1>0, EndedPlain DEF LoginToken, Plain
    <2>6. QED
      BY <2>1, <2>2, <2>3, <2>4, <2>5, CodesFrame
  <1>6. ASSUME NEW c \in Clients, LoginMFA(c) PROVE CodesInv'
    <2>1. UNCHANGED <<users, accepted, latest, recovery, nextId, secrets>>
      BY <1>6 DEF LoginMFA, rows, signed, history
    <2>2. Id' = Id /\ Secret' = Secret
      BY <2>1, SameIds
    <2>3. recovery' \subseteq recovery
      BY <2>1
    <2>4. /\ DOMAIN users' \subseteq DOMAIN users \cup {nextId}
          /\ \A i \in DOMAIN users \cap DOMAIN users' :
               users'[i].last \in Int /\ users[i].last <= users'[i].last
      BY <1>b, <2>1
    <2>5. \A d \in Clients : req'[d] = req[d] \/ req'[d].op # "setupCodes"
      <3>1. \E held : held.op # "setupCodes" /\ Hold(c, held)
        BY <1>6 DEF LoginMFA
      <3>2. QED
        BY <1>0, <3>1, HeldPlain
    <2>6. QED
      BY <2>1, <2>2, <2>3, <2>4, <2>5, CodesFrame
  <1>7. ASSUME NEW c \in Clients, LoginTOTP(c) PROVE CodesInv'
    <2>1. UNCHANGED <<latest, recovery, nextId, secrets>>
      BY <1>7 DEF LoginTOTP, history
    <2>2. \A d \in Clients : req'[d] = req[d] \/ req'[d].op # "setupCodes"
      BY <1>7, <1>0, EndedPlain DEF LoginTOTP, Plain
    <2>3. CASE UNCHANGED <<users, accepted>>
      <3>1. Id' = Id /\ Secret' = Secret
        BY <2>1, SameIds
      <3>2. QED
        BY <1>b, <2>1, <2>2, <2>3, <3>1, CodesFrame
    <2>4. CASE ~UNCHANGED <<users, accepted>>
      <3>1. req[c].secret \in Secret /\ req[c].code \in Int
        BY <1>7, <1>0 DEF LoginTOTP, ReqInv, ReqOK
      <3>2. /\ Fresh(req[c].user, req[c].code) /\ ConsumeTOTPTimeStep(req[c].user, req[c].code)
            /\ Accept(req[c].user, req[c].secret, "totp", req[c].code)
        BY <1>7, <2>4 DEF LoginTOTP
      <3>3. QED
        BY <2>1, <2>2, <3>1, <3>2, TOTPAccepted
    <2>5. QED
      BY <2>3, <2>4
  <1>8. ASSUME NEW c \in Clients, LoginRecovery(c) PROVE CodesInv'
    <2>1. UNCHANGED <<users, latest, nextId, secrets>>
      BY <1>8 DEF LoginRecovery, history
    <2>2. \A d \in Clients : req'[d] = req[d] \/ req'[d].op # "setupCodes"
      BY <1>8, <1>0, EndedPlain DEF LoginRecovery, Plain
    <2>3. CASE UNCHANGED <<recovery, accepted>>
      <3>1. Id' = Id /\ Secret' = Secret
        BY <2>1, SameIds
      <3>2. QED
        BY <1>b, <2>1, <2>2, <2>3, <3>1, CodesFrame
    <2>4. CASE ~UNCHANGED <<recovery, accepted>>
      <3>1. req[c].code.user = req[c].user
        BY <1>8, <1>0 DEF LoginRecovery, ReqInv, ReqOK
      <3>2. /\ req[c].code \in recovery /\ ConsumeRecoveryCode(req[c].code)
            /\ Accept(req[c].code.user, req[c].code.of, "recovery", req[c].code.no)
        BY <1>8, <2>4, <3>1 DEF LoginRecovery
      <3>3. QED
        BY <2>1, <2>2, <3>2, RecoveryAccepted
    <2>5. QED
      BY <2>3, <2>4
  <1>9. ASSUME NEW c \in Clients, StepUp(c) PROVE CodesInv'
    <2>1. UNCHANGED <<users, accepted, latest, recovery, nextId, secrets>>
      BY <1>9 DEF StepUp, rows, signed, history
    <2>2. Id' = Id /\ Secret' = Secret
      BY <2>1, SameIds
    <2>3. recovery' \subseteq recovery
      BY <2>1
    <2>4. /\ DOMAIN users' \subseteq DOMAIN users \cup {nextId}
          /\ \A i \in DOMAIN users \cap DOMAIN users' :
               users'[i].last \in Int /\ users[i].last <= users'[i].last
      BY <1>b, <2>1
    <2>5. \A d \in Clients : req'[d] = req[d] \/ req'[d].op # "setupCodes"
      <3>1. \E held : held.op # "setupCodes" /\ Hold(c, held)
        BY <1>9 DEF StepUp
      <3>2. QED
        BY <1>0, <3>1, HeldPlain
    <2>6. QED
      BY <2>1, <2>2, <2>3, <2>4, <2>5, CodesFrame
  <1>10. ASSUME NEW c \in Clients, StepUpProves(c) PROVE CodesInv'
    <2>1. UNCHANGED <<latest, recovery, nextId, secrets>>
      BY <1>10 DEF StepUpProves, history
    <2>2. \A d \in Clients : req'[d] = req[d] \/ req'[d].op # "setupCodes"
      BY <1>10, <1>0, EndedPlain DEF StepUpProves, Plain
    <2>3. CASE UNCHANGED <<users, accepted>>
      <3>1. Id' = Id /\ Secret' = Secret
        BY <2>1, SameIds
      <3>2. QED
        BY <1>b, <2>1, <2>2, <2>3, <3>1, CodesFrame
    <2>4. CASE ~UNCHANGED <<users, accepted>>
      <3>1. req[c].secret \in Secret /\ req[c].code \in Int
        BY <1>10, <1>0 DEF StepUpProves, ReqInv, ReqOK
      <3>2. /\ Fresh(req[c].user, req[c].code) /\ ConsumeTOTPTimeStep(req[c].user, req[c].code)
            /\ Accept(req[c].user, req[c].secret, "totp", req[c].code)
        BY <1>10, <2>4 DEF StepUpProves
      <3>3. QED
        BY <2>1, <2>2, <3>1, <3>2, TOTPAccepted
    <2>5. QED
      BY <2>3, <2>4
  <1>11. ASSUME NEW c \in Clients, StepUpFails(c) PROVE CodesInv'
    <2>1. UNCHANGED <<users, accepted, latest, recovery, nextId, secrets>>
      BY <1>11 DEF StepUpFails, rows, signed, history
    <2>2. Id' = Id /\ Secret' = Secret
      BY <2>1, SameIds
    <2>3. recovery' \subseteq recovery
      BY <2>1
    <2>4. /\ DOMAIN users' \subseteq DOMAIN users \cup {nextId}
          /\ \A i \in DOMAIN users \cap DOMAIN users' :
               users'[i].last \in Int /\ users[i].last <= users'[i].last
      BY <1>b, <2>1
    <2>5. \A d \in Clients : req'[d] = req[d] \/ req'[d].op # "setupCodes"
      BY <1>11, <1>0, EndedPlain DEF StepUpFails, Plain
    <2>6. QED
      BY <2>1, <2>2, <2>3, <2>4, <2>5, CodesFrame
  <1>12. ASSUME NEW c \in Clients, Guarded(c) PROVE CodesInv'
    <2>1. UNCHANGED <<users, accepted, latest, recovery, nextId, secrets>>
      BY <1>12 DEF Guarded, rows, signed, history
    <2>2. Id' = Id /\ Secret' = Secret
      BY <2>1, SameIds
    <2>3. recovery' \subseteq recovery
      BY <2>1
    <2>4. /\ DOMAIN users' \subseteq DOMAIN users \cup {nextId}
          /\ \A i \in DOMAIN users \cap DOMAIN users' :
               users'[i].last \in Int /\ users[i].last <= users'[i].last
      BY <1>b, <2>1
    <2>5. \A d \in Clients : req'[d] = req[d] \/ req'[d].op # "setupCodes"
      <3>1. \E held : held.op # "setupCodes" /\ Hold(c, held)
        BY <1>12 DEF Guarded
      <3>2. QED
        BY <1>0, <3>1, HeldPlain
    <2>6. QED
      BY <2>1, <2>2, <2>3, <2>4, <2>5, CodesFrame
  <1>13. ASSUME NEW c \in Clients, GuardedEnds(c) PROVE CodesInv'
    <2>1. UNCHANGED <<users, accepted, latest, recovery, nextId, secrets>>
      BY <1>13 DEF GuardedEnds, rows, signed, history
    <2>2. Id' = Id /\ Secret' = Secret
      BY <2>1, SameIds
    <2>3. recovery' \subseteq recovery
      BY <2>1
    <2>4. /\ DOMAIN users' \subseteq DOMAIN users \cup {nextId}
          /\ \A i \in DOMAIN users \cap DOMAIN users' :
               users'[i].last \in Int /\ users[i].last <= users'[i].last
      BY <1>b, <2>1
    <2>5. \A d \in Clients : req'[d] = req[d] \/ req'[d].op # "setupCodes"
      BY <1>13, <1>0, EndedPlain DEF GuardedEnds, Plain
    <2>6. QED
      BY <2>1, <2>2, <2>3, <2>4, <2>5, CodesFrame
  <1>14. ASSUME NEW c \in Clients, MFASetup(c) PROVE CodesInv'
    <2>0. PICK s : s = secrets'
      OBVIOUS
    <2>1. UNCHANGED <<accepted, recovery, nextId>> /\ secrets' = secrets + 1
      BY <1>14 DEF MFASetup
    <2>2. Id \subseteq Id' /\ Secret \subseteq Secret'
      <3>1. nextId' \in 1..(MaxIds + 1) /\ nextId <= nextId' /\ secrets' \in Nat /\ secrets <= secrets'
        BY <1>0, <1>a, <2>1, SignInAssumption DEF RowsInv
      <3>2. QED
        BY <3>1, Grows DEF TablesInv
    <2>3. PICK t \in tokens :
            /\ t.user \in DOMAIN users /\ SetAdminUserMFA(t.user, s, FALSE)
            /\ latest' = [latest EXCEPT ![t.user] = s]
            /\ Hold(c, [op |-> "setupCodes", user |-> t.user, secret |-> s])
      BY <1>14, <2>0 DEF MFASetup, requireAuth, loadCurrentUser
    <2>4. s \in Nat /\ secrets <= s /\ s \in 0..s /\ s \notin Secret
      <3>1. s = secrets + 1
        BY <2>0, <2>1
      <3>2. QED
        BY <1>a, <3>1 DEF Secret
    <2>5. DOMAIN users' = DOMAIN users /\ \A j \in DOMAIN users \ {t.user} : users'[j] = users[j]
      BY <1>0, <2>3, <2>4, MFAWrites
    <2>6. t.user \in 1..MaxIds /\ latest'[t.user] = s
          /\ \A j \in 1..MaxIds \ {t.user} : latest'[j] = latest[j]
      BY <1>0, <2>3, RowType DEF RowsInv
    <2>7. \A e \in accepted : e.row.secret # latest'[e.row.user] \/ e.row.user # t.user
      BY <2>3, <2>4, <2>6 DEF CodesInv, AcceptedInv, RowsInv
    <2>8. AcceptedInv'
      <3> SUFFICES ASSUME NEW e \in accepted, e.row.kind = "totp", e.row.user \in DOMAIN users',
                          e.row.secret = latest'[e.row.user]
                   PROVE  e.row.code <= users'[e.row.user].last
        BY <2>1, <2>2 DEF CodesInv, AcceptedInv
      <3>1. e.row.user # t.user
        BY <2>7
      <3>2. users'[e.row.user] = users[e.row.user] /\ latest'[e.row.user] = latest[e.row.user]
        BY <1>0, <2>3, <2>5, <3>1, RowType DEF RowsInv
      <3>3. QED
        BY <2>5, <3>2 DEF CodesInv, AcceptedInv
    <2>9. /\ \A d \in Clients \ {c} : req'[d] = req[d]
          /\ req'[c].op = "setupCodes" /\ req'[c].secret = s
      BY <1>0, <2>3, HeldPlain
    <2>10. \A d \in Clients : \A j, x : Storing(d, j, x)' => Storing(d, j, x) \/ x = s
      BY <2>9 DEF Storing
    <2>11. RecoveryInv'
      <3>1. \A e \in accepted : e.row.secret # s
        BY <2>4 DEF CodesInv, AcceptedInv
      <3>2. \A r \in recovery : r.of # s
        BY <1>0, <2>4 DEF RowsInv, Code
      <3>3. \A d \in Clients : req[d].op = "setupCodes" => req[d].secret # s
        BY <1>0, <2>4 DEF ReqInv, ReqOK
      <3>4. ASSUME NEW d \in Clients, NEW e \in Clients, req'[d].op = "setupCodes",
                   req'[e].op = "setupCodes", req'[d].secret = req'[e].secret
            PROVE  d = e
        BY <2>9, <3>3, <3>4 DEF CodesInv, RecoveryInv
      <3>5. QED
        BY <2>1, <2>10, <3>1, <3>2, <3>4 DEF CodesInv, RecoveryInv
    <2>12. CodesUsedOnce'
      <3> SUFFICES ASSUME NEW e \in accepted,
                          e.row.kind = "recovery" \/ e.row.secret = latest'[e.row.user]
                   PROVE  e.n = 1
        BY <2>1 DEF CodesUsedOnce
      <3>1. e.row.user \in 1..MaxIds
        <4>1. e.row.user \in Id /\ nextId \in 1..(MaxIds + 1) /\ MaxIds \in Nat
          BY <1>0, SignInAssumption DEF CodesInv, AcceptedInv, RowsInv
        <4>2. QED
          BY <4>1 DEF Id
      <3>2. e.row.kind = "recovery" \/ e.row.secret = latest[e.row.user]
        BY <2>6, <2>7, <3>1
      <3>3. QED
        BY <3>2 DEF CodesInv, CodesUsedOnce
    <2>13. QED
      BY <2>8, <2>11, <2>12 DEF CodesInv
  <1>15. ASSUME NEW c \in Clients, SetupCodes(c) PROVE CodesInv'
    <2> DEFINE i == req[c].user
               s == req[c].secret
    <2>1. UNCHANGED <<users, accepted, latest, nextId, secrets>>
      BY <1>15 DEF SetupCodes, history
    <2>2. Id' = Id /\ Secret' = Secret
      BY <2>1, SameIds
    <2>3. req'[c] = Idle /\ \A d \in Clients \ {c} : req'[d] = req[d]
      BY <1>15, <1>0 DEF SetupCodes, End, ReqInv
    <2>4. \A r \in recovery' : r \in recovery \/ (r.user = i /\ r.of = s)
      BY <1>15 DEF SetupCodes, ReplaceRecoveryCodes, GenerateRecoveryCodes
    <2>5. Storing(c, i, s) /\ req[c].op = "setupCodes"
      BY <1>15 DEF SetupCodes, Storing
    <2>6. \A d \in Clients : \A j, x : Storing(d, j, x)' => d # c /\ Storing(d, j, x)
      BY <2>3 DEF Storing, Idle
    <2> HIDE DEF i, s
    <2>7. AcceptedInv'
      BY <2>1, <2>2 DEF CodesInv, AcceptedInv
    <2>8. \A e \in accepted : e.row.kind = "recovery" =>
            [user |-> e.row.user, of |-> e.row.secret, no |-> e.row.code] \notin recovery'
      <3> SUFFICES ASSUME NEW e \in accepted, e.row.kind = "recovery",
                          [user |-> e.row.user, of |-> e.row.secret, no |-> e.row.code] \in recovery'
                   PROVE  FALSE
        OBVIOUS
      <3>1. e.row.user = i /\ e.row.secret = s
        BY <2>4 DEF CodesInv, RecoveryInv
      <3>2. QED
        BY <2>5, <3>1 DEF CodesInv, RecoveryInv
    <2>9. \A r \in recovery', d \in Clients : ~Storing(d, r.user, r.of)'
      <3> SUFFICES ASSUME NEW r \in recovery', NEW d \in Clients, Storing(d, r.user, r.of)'
                   PROVE  FALSE
        OBVIOUS
      <3>1. d # c /\ Storing(d, r.user, r.of)
        BY <2>6
      <3>2. r.user = i /\ r.of = s
        BY <2>4, <3>1 DEF CodesInv, RecoveryInv
      <3>3. req[d].op = "setupCodes" /\ req[d].secret = req[c].secret
        BY <2>5, <3>1, <3>2 DEF Storing
      <3>4. QED
        BY <2>5, <3>1, <3>3 DEF CodesInv, RecoveryInv
    <2>10. RecoveryInv'
      <3>1. \A d \in Clients : req'[d].op = "setupCodes" => req'[d] = req[d]
        BY <2>3 DEF Idle
      <3>2. QED
        BY <2>1, <2>6, <2>8, <2>9, <3>1 DEF CodesInv, RecoveryInv
    <2>11. CodesUsedOnce'
      BY <2>1 DEF CodesInv, CodesUsedOnce
    <2>12. QED
      BY <2>7, <2>10, <2>11 DEF CodesInv
  <1>16. ASSUME NEW c \in Clients, MFAVerify(c) PROVE CodesInv'
    <2>1. UNCHANGED <<users, accepted, latest, recovery, nextId, secrets>>
      BY <1>16 DEF MFAVerify, rows, signed, history
    <2>2. Id' = Id /\ Secret' = Secret
      BY <2>1, SameIds
    <2>3. recovery' \subseteq recovery
      BY <2>1
    <2>4. /\ DOMAIN users' \subseteq DOMAIN users \cup {nextId}
          /\ \A i \in DOMAIN users \cap DOMAIN users' :
               users'[i].last \in Int /\ users[i].last <= users'[i].last
      BY <1>b, <2>1
    <2>5. \A d \in Clients : req'[d] = req[d] \/ req'[d].op # "setupCodes"
      <3>1. \E held : held.op # "setupCodes" /\ Hold(c, held)
        BY <1>16 DEF MFAVerify
      <3>2. QED
        BY <1>0, <3>1, HeldPlain
    <2>6. QED
      BY <2>1, <2>2, <2>3, <2>4, <2>5, CodesFrame
  <1>17. ASSUME NEW c \in Clients, VerifyEnable(c) PROVE CodesInv'
    <2>1. UNCHANGED <<accepted, latest, nextId, secrets, recovery>>
      BY <1>17 DEF VerifyEnable, rows, signed, history
    <2>2. Id' = Id /\ Secret' = Secret
      BY <2>1, SameIds
    <2>3. recovery' \subseteq recovery
      BY <2>1
    <2>4. /\ DOMAIN users' \subseteq DOMAIN users \cup {nextId}
          /\ \A i \in DOMAIN users \cap DOMAIN users' :
               users'[i].last \in Int /\ users[i].last <= users'[i].last
      <3>1. req[c].secret \in 0..secrets
        BY <1>17, <1>0, <1>a DEF VerifyEnable, ReqInv, ReqOK, Secret
      <3>2. SetAdminUserMFA(req[c].user, req[c].secret, TRUE)
        BY <1>17 DEF VerifyEnable
      <3>3. CASE req[c].user \in DOMAIN users
        <4>1. /\ DOMAIN users' = DOMAIN users
              /\ \A j \in DOMAIN users \ {req[c].user} : users'[j] = users[j]
              /\ users'[req[c].user].last = users[req[c].user].last
          BY <1>0, <1>a, <3>1, <3>2, <3>3, MFAWrites
        <4>2. \A j \in DOMAIN users : users'[j].last = users[j].last
          BY <4>1
        <4>3. QED
          BY <1>b, <4>1, <4>2
      <3>4. CASE req[c].user \notin DOMAIN users
        BY <1>b, <3>2, <3>4 DEF SetAdminUserMFA
      <3>5. QED
        BY <3>3, <3>4
    <2>5. \A d \in Clients : req'[d] = req[d] \/ req'[d].op # "setupCodes"
      <3> DEFINE held == [req[c] EXCEPT !.op = "verifyConsume"]
      <3>1. req[c] \in [op : {"verifyEnable"}, user : Id, secret : Secret, code : Int]
        BY <1>17, <1>0 DEF VerifyEnable, ReqInv, ReqOK
      <3>2. held.op # "setupCodes"
        BY <3>1
      <3>3. Hold(c, held)
        BY <1>17 DEF VerifyEnable, Go, Hold
      <3> HIDE DEF held
      <3>4. QED
        BY <1>0, <3>2, <3>3, HeldPlain
    <2>6. QED
      BY <2>1, <2>2, <2>3, <2>4, <2>5, CodesFrame
  <1>18. ASSUME NEW c \in Clients, VerifyConsume(c) PROVE CodesInv'
    <2>1. UNCHANGED <<latest, recovery, nextId, secrets>>
      BY <1>18 DEF VerifyConsume, history
    <2>2. \A d \in Clients : req'[d] = req[d] \/ req'[d].op # "setupCodes"
      BY <1>18, <1>0, EndedPlain DEF VerifyConsume, Plain
    <2>3. CASE UNCHANGED <<users, accepted>>
      <3>1. Id' = Id /\ Secret' = Secret
        BY <2>1, SameIds
      <3>2. QED
        BY <1>b, <2>1, <2>2, <2>3, <3>1, CodesFrame
    <2>4. CASE ~UNCHANGED <<users, accepted>>
      <3>1. req[c].secret \in Secret /\ req[c].code \in Int
        BY <1>18, <1>0 DEF VerifyConsume, ReqInv, ReqOK
      <3>2. /\ Fresh(req[c].user, req[c].code) /\ ConsumeTOTPTimeStep(req[c].user, req[c].code)
            /\ Accept(req[c].user, req[c].secret, "totp", req[c].code)
        BY <1>18, <2>4 DEF VerifyConsume
      <3>3. QED
        BY <2>1, <2>2, <3>1, <3>2, TOTPAccepted
    <2>5. QED
      BY <2>3, <2>4
  <1>19. ASSUME NEW c \in Clients, MFADisable(c) PROVE CodesInv'
    <2>1. UNCHANGED <<accepted, recovery, nextId, secrets>>
      BY <1>19 DEF MFADisable
    <2>2. Id' = Id /\ Secret' = Secret
      BY <2>1, SameIds
    <2>3. PICK t \in tokens :
            /\ t.user \in DOMAIN users /\ SetAdminUserMFA(t.user, NoSecret, FALSE)
            /\ latest' = [latest EXCEPT ![t.user] = NoSecret]
            /\ Hold(c, [op |-> "dropCodes", user |-> t.user])
      BY <1>19 DEF MFADisable, requireAuth, loadCurrentUser
    <2>4. NoSecret \in 0..secrets /\ NoSecret \notin Secret
      BY <1>a DEF NoSecret, Secret
    <2>5. DOMAIN users' = DOMAIN users /\ \A j \in DOMAIN users \ {t.user} : users'[j] = users[j]
      BY <1>0, <1>a, <2>3, <2>4, MFAWrites
    <2>6. t.user \in 1..MaxIds /\ latest'[t.user] = NoSecret
          /\ \A j \in 1..MaxIds \ {t.user} : latest'[j] = latest[j]
      BY <1>0, <2>3, RowType DEF RowsInv
    <2>7. \A e \in accepted : e.row.secret # latest'[e.row.user] \/ e.row.user # t.user
      BY <2>3, <2>4, <2>6 DEF CodesInv, AcceptedInv, RowsInv
    <2>8. AcceptedInv'
      <3> SUFFICES ASSUME NEW e \in accepted, e.row.kind = "totp", e.row.user \in DOMAIN users',
                          e.row.secret = latest'[e.row.user]
                   PROVE  e.row.code <= users'[e.row.user].last
        BY <2>1, <2>2 DEF CodesInv, AcceptedInv
      <3>1. e.row.user # t.user
        BY <2>7
      <3>2. users'[e.row.user] = users[e.row.user] /\ latest'[e.row.user] = latest[e.row.user]
        BY <1>0, <2>3, <2>5, <3>1, RowType DEF RowsInv
      <3>3. QED
        BY <2>5, <3>2 DEF CodesInv, AcceptedInv
    <2>9. \A d \in Clients : req'[d] = req[d] \/ req'[d].op # "setupCodes"
      BY <1>0, <2>3, HeldPlain
    <2>10. \A d \in Clients : \A j, x : Storing(d, j, x)' => Storing(d, j, x)
      BY <2>9 DEF Storing
    <2>11. RecoveryInv'
      <3>1. \A d \in Clients : req'[d].op = "setupCodes" => req'[d] = req[d]
        BY <2>9
      <3>2. QED
        BY <2>1, <2>10, <3>1 DEF CodesInv, RecoveryInv
    <2>12. CodesUsedOnce'
      <3> SUFFICES ASSUME NEW e \in accepted,
                          e.row.kind = "recovery" \/ e.row.secret = latest'[e.row.user]
                   PROVE  e.n = 1
        BY <2>1 DEF CodesUsedOnce
      <3>1. e.row.user \in 1..MaxIds
        <4>1. e.row.user \in Id /\ nextId \in 1..(MaxIds + 1) /\ MaxIds \in Nat
          BY <1>0, SignInAssumption DEF CodesInv, AcceptedInv, RowsInv
        <4>2. QED
          BY <4>1 DEF Id
      <3>2. e.row.kind = "recovery" \/ e.row.secret = latest[e.row.user]
        BY <2>6, <2>7, <3>1
      <3>3. QED
        BY <3>2 DEF CodesInv, CodesUsedOnce
    <2>13. QED
      BY <2>8, <2>11, <2>12 DEF CodesInv
  <1>20. ASSUME NEW c \in Clients, DropCodes(c) PROVE CodesInv'
    <2>1. UNCHANGED <<accepted, latest, nextId, secrets, users>>
      BY <1>20 DEF DropCodes, rows, signed, history
    <2>2. Id' = Id /\ Secret' = Secret
      BY <2>1, SameIds
    <2>3. recovery' \subseteq recovery
      BY <1>20 DEF DropCodes, DeleteRecoveryCodes
    <2>4. /\ DOMAIN users' \subseteq DOMAIN users \cup {nextId}
          /\ \A i \in DOMAIN users \cap DOMAIN users' :
               users'[i].last \in Int /\ users[i].last <= users'[i].last
      BY <1>b, <2>1
    <2>5. \A d \in Clients : req'[d] = req[d] \/ req'[d].op # "setupCodes"
      BY <1>20, <1>0, EndedPlain DEF DropCodes, Plain
    <2>6. QED
      BY <2>1, <2>2, <2>3, <2>4, <2>5, CodesFrame
  <1>21. ASSUME NEW c \in Clients, CreateAdminUser(c) PROVE CodesInv'
    <2>1. UNCHANGED <<accepted, latest, recovery, secrets>> /\ nextId <= MaxIds /\ nextId' = nextId + 1
      BY <1>21 DEF CreateAdminUser, rows, signed, history
    <2>2. Id \subseteq Id' /\ Secret \subseteq Secret'
      <3>1. nextId' \in 1..(MaxIds + 1) /\ nextId <= nextId' /\ secrets' \in Nat /\ secrets <= secrets'
        BY <1>0, <1>a, <2>1, SignInAssumption DEF RowsInv
      <3>2. QED
        BY <3>1, Grows DEF TablesInv
    <2>3. /\ DOMAIN users' = DOMAIN users \cup {nextId}
          /\ \A i \in DOMAIN users : users'[i] = users[i]
      <3>1. PICK name \in AnyName, role \in Roles, disabled \in BOOLEAN :
              users' = Inserted(Row(name, role, disabled))
        BY <1>21 DEF CreateAdminUser, AnyName
      <3>2. QED
        BY <1>0, <2>1, <3>1, InsertWrites
    <2>4. \A i \in DOMAIN users \cap DOMAIN users' :
            users'[i].last \in Int /\ users[i].last <= users'[i].last
      BY <1>b, <2>3
    <2>5. req' = req
      BY <1>21 DEF CreateAdminUser
    <2>6. QED
      BY <2>1, <2>2, <2>3, <2>4, <2>5, CodesFrame
  <1>22. ASSUME NEW c \in Clients, UpdateAdminUser(c) PROVE CodesInv'
    <2>1. UNCHANGED <<users, accepted, latest, recovery, nextId, secrets>>
      BY <1>22 DEF UpdateAdminUser, rows, signed, history
    <2>2. Id' = Id /\ Secret' = Secret
      BY <2>1, SameIds
    <2>3. recovery' \subseteq recovery
      BY <2>1
    <2>4. /\ DOMAIN users' \subseteq DOMAIN users \cup {nextId}
          /\ \A i \in DOMAIN users \cap DOMAIN users' :
               users'[i].last \in Int /\ users[i].last <= users'[i].last
      BY <1>b, <2>1
    <2>5. \A d \in Clients : req'[d] = req[d] \/ req'[d].op # "setupCodes"
      <3>1. \E held : held.op # "setupCodes" /\ Hold(c, held)
        BY <1>22 DEF UpdateAdminUser
      <3>2. QED
        BY <1>0, <3>1, HeldPlain
    <2>6. QED
      BY <2>1, <2>2, <2>3, <2>4, <2>5, CodesFrame
  <1>23. ASSUME NEW c \in Clients, UpdateWrite(c) PROVE CodesInv'
    <2>1. UNCHANGED <<accepted, latest, nextId, secrets, recovery>>
      BY <1>23 DEF UpdateWrite, rows, signed, history
    <2>2. Id' = Id /\ Secret' = Secret
      BY <2>1, SameIds
    <2>3. recovery' \subseteq recovery
      BY <2>1
    <2>4. /\ DOMAIN users' \subseteq DOMAIN users \cup {nextId}
          /\ \A i \in DOMAIN users \cap DOMAIN users' :
               users'[i].last \in Int /\ users[i].last <= users'[i].last
      <3>1. CASE users' = users
        BY <1>b, <3>1
      <3>2. CASE users' # users
        <4> DEFINE i == req[c].user
                   row == [users[i] EXCEPT !.name = req[c].name, !.role = req[c].role,
                                           !.disabled = req[c].disabled]
        <4>1. i \in DOMAIN users /\ users' = [users EXCEPT ![i] = row]
          BY <1>23, <3>2 DEF UpdateWrite
        <4>2. row.last = users[i].last
          BY <1>0, <4>1, RowType DEF Account
        <4> HIDE DEF row, i
        <4>3. DOMAIN users' = DOMAIN users /\ \A j \in DOMAIN users : users'[j].last = users[j].last
          BY <4>1, <4>2
        <4>4. QED
          BY <1>b, <4>3
      <3>3. QED
        BY <3>1, <3>2
    <2>5. \A d \in Clients : req'[d] = req[d] \/ req'[d].op # "setupCodes"
      BY <1>23, <1>0, EndedPlain DEF UpdateWrite, Plain
    <2>6. QED
      BY <2>1, <2>2, <2>3, <2>4, <2>5, CodesFrame
  <1>24. ASSUME NEW c \in Clients, DeleteAdminUser(c) PROVE CodesInv'
    <2>1. UNCHANGED <<users, accepted, latest, recovery, nextId, secrets>>
      BY <1>24 DEF DeleteAdminUser, rows, signed, history
    <2>2. Id' = Id /\ Secret' = Secret
      BY <2>1, SameIds
    <2>3. recovery' \subseteq recovery
      BY <2>1
    <2>4. /\ DOMAIN users' \subseteq DOMAIN users \cup {nextId}
          /\ \A i \in DOMAIN users \cap DOMAIN users' :
               users'[i].last \in Int /\ users[i].last <= users'[i].last
      BY <1>b, <2>1
    <2>5. \A d \in Clients : req'[d] = req[d] \/ req'[d].op # "setupCodes"
      <3>1. \E held : held.op # "setupCodes" /\ Hold(c, held)
        BY <1>24 DEF DeleteAdminUser
      <3>2. QED
        BY <1>0, <3>1, HeldPlain
    <2>6. QED
      BY <2>1, <2>2, <2>3, <2>4, <2>5, CodesFrame
  <1>25. ASSUME NEW c \in Clients, DeleteWrite(c) PROVE CodesInv'
    <2>1. UNCHANGED <<accepted, latest, nextId, secrets>>
      BY <1>25 DEF DeleteWrite, rows, signed, history
    <2>2. Id' = Id /\ Secret' = Secret
      BY <2>1, SameIds
    <2>3. recovery' \subseteq recovery
      BY <1>25 DEF DeleteWrite, DeleteRecoveryCodes
    <2>4. /\ DOMAIN users' \subseteq DOMAIN users \cup {nextId}
          /\ \A i \in DOMAIN users \cap DOMAIN users' :
               users'[i].last \in Int /\ users[i].last <= users'[i].last
      <3>1. users' = [i \in DOMAIN users \ {req[c].user} |-> users[i]]
        BY <1>25 DEF DeleteWrite, Restrict
      <3>2. DOMAIN users' \subseteq DOMAIN users /\ \A i \in DOMAIN users' : users'[i] = users[i]
        BY <3>1
      <3>3. QED
        BY <1>b, <3>2
    <2>5. \A d \in Clients : req'[d] = req[d] \/ req'[d].op # "setupCodes"
      BY <1>25, <1>0, EndedPlain DEF DeleteWrite, Plain
    <2>6. QED
      BY <2>1, <2>2, <2>3, <2>4, <2>5, CodesFrame
  <1>26. CASE Restart
    <2>1. \A d \in Clients : req'[d].op # "setupCodes"
      BY <1>26 DEF Restart, Idle
    <2>2. CASE UNCHANGED <<users, nextId>>
      <3>1. UNCHANGED <<users, accepted, latest, recovery, nextId, secrets>>
        BY <1>26, <2>2 DEF Restart, history
      <3>2. Id' = Id /\ Secret' = Secret
        BY <3>1, SameIds
      <3>3. QED
        BY <1>b, <2>1, <3>1, <3>2, CodesFrame
    <2>3. CASE ~UNCHANGED <<users, nextId>>
      <3>1. UNCHANGED <<accepted, latest, recovery, secrets>> /\ nextId <= MaxIds /\ nextId' = nextId + 1
        BY <1>26, <2>3 DEF Restart, rows, signed, history
      <3>2. Id \subseteq Id' /\ Secret \subseteq Secret'
        <4>1. nextId' \in 1..(MaxIds + 1) /\ nextId <= nextId' /\ secrets' \in Nat /\ secrets <= secrets'
          BY <1>0, <1>a, <3>1, SignInAssumption DEF RowsInv
        <4>2. QED
          BY <4>1, Grows DEF TablesInv
      <3>3. /\ DOMAIN users' = DOMAIN users \cup {nextId}
            /\ \A i \in DOMAIN users : users'[i] = users[i]
        <4>1. users' = Inserted(Row(Bootstrap, "admin", FALSE))
          BY <1>26, <2>3 DEF Restart
        <4>2. Bootstrap \in AnyName /\ "admin" \in Roles
          BY DEF AnyName, Roles
        <4>3. QED
          BY <1>0, <3>1, <4>1, <4>2, InsertWrites
      <3>4. \A i \in DOMAIN users \cap DOMAIN users' :
              users'[i].last \in Int /\ users[i].last <= users'[i].last
        BY <1>b, <3>3
      <3>5. QED
        BY <2>1, <3>1, <3>2, <3>3, <3>4, CodesFrame
    <2>4. QED
      BY <2>2, <2>3
  <1>27. CASE Tick
    <2>1. UNCHANGED <<users, accepted, latest, recovery, nextId, secrets, req>>
      BY <1>27 DEF Tick, rows, history
    <2>2. Id' = Id /\ Secret' = Secret
      BY <2>1, SameIds
    <2>3. QED
      BY <1>b, <2>1, <2>2, CodesFrame
  <1>28. CASE UNCHANGED vars
    <2>1. UNCHANGED <<users, accepted, latest, recovery, nextId, secrets, req>>
      BY <1>28 DEF vars, rows, history
    <2>2. Id' = Id /\ Secret' = Secret
      BY <2>1, SameIds
    <2>3. QED
      BY <1>b, <2>1, <2>2, CodesFrame
  <1>29. QED
    BY <1>1, <1>2, <1>3, <1>4, <1>5, <1>6, <1>7, <1>8, <1>9, <1>10, <1>11,
       <1>12, <1>13, <1>14, <1>15, <1>16, <1>17, <1>18, <1>19, <1>20, <1>21,
       <1>22, <1>23, <1>24, <1>25, <1>26, <1>27, <1>28 DEF Next

-----------------------------------------------------------------------------
(* Failed logins.                                                          *)

\* Requests that were counted by enforceLoginLockout and may still record a
\* failure.
Guessing == {"loginFails", "stepUp"}
PendingAs(name, held) ==
    {c \in Clients : held[c].op \in Guessing /\ held[c].name = name /\ "name" \in held[c].done}
From(source) == {c \in Clients : SourceOf[c] = source}
PendingFrom(source, held) ==
    {c \in From(source) : held[c].op \in Guessing /\ "ip" \in held[c].done}
Sources == {SourceOf[c] : c \in Clients}

InWindow(table, t) == Since(table, t - Window)
Recent(table, name, source, t) == InWindow(By(table, name, source), t)

\* The failures that were recorded, and of these the ones that were counted.
Recorded(table) == Carried(table, {"insert"})
Counted(table, id) == Carried(table, {id, "insert"})

\* The table has every failure of the window that was answered and recorded.
WindowInv ==
    /\ IsFiniteSet(guesses) /\ \A g \in guesses \cup attempts : g.row.at \in Nat
    /\ InWindow(attempts, now) = InWindow(Recorded(guesses), now)
    /\ \A c \in Clients :
         req[c].op \in Guessing => req[c].name # "" /\ "insert" \notin req[c].done

\* The recent failures R and the pending requests P are within a bound.
Room(R, P, B) ==
    /\ IsFiniteSet(R) /\ IsFiniteSet(P) /\ B \in Int
    /\ Cardinality(R) + Cardinality(P) <= B

NameBound == MaxAttempts - 1 + Cardinality(Clients)
SourceBound(source) == MaxAttempts - 1 + Cardinality(From(source))

\* A request that passed the check has its place among the failures.
CountInv ==
    /\ \A name \in Names :
         Room(Recent(Counted(guesses, "name"), name, "", now), PendingAs(name, req), NameBound)
    /\ \A source \in Sources :
         Room(Recent(Counted(guesses, "ip"), "", source, now), PendingFrom(source, req), SourceBound(source))

GuessInv == WindowInv /\ CountInv

(* Three ways to stay within the bound.                                    *)
LEMMA RoomKept ==
    ASSUME NEW R, NEW P, NEW B, Room(R, P, B), NEW R2, R2 \subseteq R, NEW P2, P2 \subseteq P
    PROVE  Room(R2, P2, B)
  <1>0. IsFiniteSet(R) /\ IsFiniteSet(P) /\ B \in Int /\ Cardinality(R) + Cardinality(P) <= B
    BY DEF Room
  <1>1. Cardinality(R) \in Nat /\ Cardinality(P) \in Nat
    BY <1>0, FS_CardinalityType
  <1>2. IsFiniteSet(R2) /\ Cardinality(R2) <= Cardinality(R)
    BY <1>0, FS_Subset
  <1>3. IsFiniteSet(P2) /\ Cardinality(P2) <= Cardinality(P)
    BY <1>0, FS_Subset
  <1>4. Cardinality(R2) \in Nat /\ Cardinality(P2) \in Nat
    BY <1>2, <1>3, FS_CardinalityType
  <1>5. Cardinality(R2) + Cardinality(P2) <= B
    BY <1>0, <1>1, <1>2, <1>3, <1>4
  <1>6. QED
    BY <1>0, <1>2, <1>3, <1>5 DEF Room

LEMMA RoomTaken ==
    ASSUME NEW R, NEW P, NEW B, Room(R, P, B), NEW e, NEW c \in P
    PROVE  Room(R \cup {e}, P \ {c}, B)
  <1>0. IsFiniteSet(R) /\ IsFiniteSet(P) /\ B \in Int /\ Cardinality(R) + Cardinality(P) <= B
    BY DEF Room
  <1>1. Cardinality(R) \in Nat /\ Cardinality(P) \in Nat
    BY <1>0, FS_CardinalityType
  <1>2. IsFiniteSet(R \cup {e}) /\ Cardinality(R \cup {e}) <= Cardinality(R) + 1
    <2>1. /\ IsFiniteSet(R \cup {e})
          /\ Cardinality(R \cup {e}) = IF e \in R THEN Cardinality(R) ELSE Cardinality(R) + 1
      BY <1>0, FS_AddElement, Zenon
    <2>2. QED
      BY <1>1, <2>1
  <1>3. IsFiniteSet(P \ {c}) /\ Cardinality(P \ {c}) = Cardinality(P) - 1
    BY <1>0, FS_RemoveElement
  <1>4. Cardinality(R \cup {e}) \in Nat
    BY <1>2, FS_CardinalityType
  <1>5. Cardinality(R \cup {e}) + Cardinality(P \ {c}) <= B
    BY <1>0, <1>1, <1>2, <1>3, <1>4
  <1>6. QED
    BY <1>0, <1>2, <1>3, <1>5 DEF Room

LEMMA RoomChecked ==
    ASSUME NEW R, IsFiniteSet(R), NEW m \in Nat, Cardinality(R) < m,
           NEW S, IsFiniteSet(S), NEW P, P \subseteq S
    PROVE  Room(R, P, m - 1 + Cardinality(S))
  <1>1. Cardinality(R) \in Nat /\ Cardinality(S) \in Nat
    BY FS_CardinalityType
  <1>2. IsFiniteSet(P) /\ Cardinality(P) <= Cardinality(S)
    BY FS_Subset
  <1>3. Cardinality(P) \in Nat
    BY <1>2, FS_CardinalityType
  <1>4. /\ m - 1 + Cardinality(S) \in Int
        /\ Cardinality(R) + Cardinality(P) <= m - 1 + Cardinality(S)
    BY <1>1, <1>2, <1>3
  <1>5. QED
    BY <1>2, <1>4 DEF Room

(* The sets that are counted are finite.                                   *)
LEMMA CountedFinite ==
    /\ MaxAttempts \in Nat /\ MaxAttempts # 0 /\ Window \in Nat /\ IsFiniteSet(Clients)
    /\ Cardinality(Clients) \in Nat
    /\ \A source : IsFiniteSet(From(source)) /\ Cardinality(From(source)) \in Nat
    /\ \A name, held : IsFiniteSet(PendingAs(name, held))
    /\ \A source, held : IsFiniteSet(PendingFrom(source, held))
    /\ \A table, done, name, source, t :
         IsFiniteSet(table) => IsFiniteSet(Recent(Carried(table, done), name, source, t))
  <1>1. /\ MaxAttempts \in Nat /\ MaxAttempts # 0 /\ Window \in Nat /\ IsFiniteSet(Clients)
    BY SignInAssumption, RequestAssumption
  <1>2. \A T \in SUBSET Clients : IsFiniteSet(T) /\ Cardinality(T) \in Nat
    BY <1>1, FS_Subset, FS_CardinalityType
  <1>3. \A source : From(source) \in SUBSET Clients
    BY DEF From
  <1>4. \A name, held : PendingAs(name, held) \in SUBSET Clients
    BY DEF PendingAs
  <1>5. \A source, held : PendingFrom(source, held) \in SUBSET Clients
    BY DEF PendingFrom, From
  <1>6. ASSUME NEW table, NEW done, NEW name, NEW source, NEW t, IsFiniteSet(table)
        PROVE  IsFiniteSet(Recent(Carried(table, done), name, source, t))
    <2>1. Recent(Carried(table, done), name, source, t) \in SUBSET table
      BY DEF Recent, InWindow, Since, By, Carried
    <2>2. QED
      BY <1>6, <2>1, FS_Subset
  <1>7. Clients \in SUBSET Clients
    OBVIOUS
  <1>8. QED
    BY <1>1, <1>2, <1>3, <1>4, <1>5, <1>6, <1>7

(* A step that answers no failure and lets no request past the check.      *)
LEMMA QuietStep ==
    ASSUME now \in Nat, GuessInv, now' \in Nat, now <= now',
           guesses' \subseteq guesses, attempts' \subseteq attempts,
           InWindow(attempts', now') = InWindow(Recorded(guesses'), now'),
           \A c \in Clients : req'[c].op \in Guessing => req'[c] = req[c]
    PROVE  GuessInv'
  <1>1. WindowInv'
    <2>1. IsFiniteSet(guesses')
      BY FS_Subset DEF GuessInv, WindowInv
    <2>2. QED
      BY <2>1 DEF GuessInv, WindowInv, InWindow, Since
  <1>2. ASSUME NEW name, NEW source, NEW id
        PROVE  Recent(Counted(guesses', id), name, source, now')
                 \subseteq Recent(Counted(guesses, id), name, source, now)
    <2>1. ASSUME NEW g \in guesses, g.row.at >= now' - Window PROVE g.row.at >= now - Window
      <3>1. g.row.at \in Nat /\ Window \in Nat
        BY CountedFinite DEF GuessInv, WindowInv
      <3>2. QED
        BY <2>1, <3>1
    <2>2. QED
      BY <2>1 DEF Recent, InWindow, Since, By, Counted, Carried
  <1>3. \A name : PendingAs(name, req') \subseteq PendingAs(name, req)
    BY DEF PendingAs
  <1>4. \A source : PendingFrom(source, req') \subseteq PendingFrom(source, req)
    BY DEF PendingFrom, From
  <1>5. \A name \in Names :
          Room(Recent(Counted(guesses', "name"), name, "", now'), PendingAs(name, req'), NameBound)
    BY <1>2, <1>3, RoomKept DEF GuessInv, CountInv
  <1>6. \A source \in Sources :
          Room(Recent(Counted(guesses', "ip"), "", source, now'), PendingFrom(source, req'), SourceBound(source))
    BY <1>2, <1>4, RoomKept DEF GuessInv, CountInv
  <1>7. CountInv'
    BY <1>5, <1>6 DEF CountInv
  <1>8. QED
    BY <1>1, <1>7 DEF GuessInv

LEMMA BelowLimit == \A k, m, n \in Nat : ~(k >= m) /\ n <= k => n < m
  OBVIOUS

(* A request passes the check.                                             *)
LEMMA AdmittedStep ==
    ASSUME ReqInv, now \in Nat, GuessInv, UNCHANGED <<now, guesses, attempts>>,
           NEW c \in Clients, NEW held, held.op \in Guessing, held.name # "",
           NEW failing, held.done = {"ip", "name"} \ failing,
           req' = [req EXCEPT ![c] = held],
           ~enforceLoginLockout(held.name, SourceOf[c], failing)
    PROVE  GuessInv'
  <1>0. req'[c] = held /\ \A d \in Clients \ {c} : req'[d] = req[d]
    BY DEF ReqInv
  <1>1. WindowInv'
    <2>1. held.name # "" /\ "insert" \notin held.done
      OBVIOUS
    <2>2. \A d \in Clients :
            req[d].op \in Guessing => req[d].name # "" /\ "insert" \notin req[d].done
      BY DEF GuessInv, WindowInv
    <2>3. \A d \in Clients :
            req'[d].op \in Guessing => req'[d].name # "" /\ "insert" \notin req'[d].done
      BY <1>0, <2>1, <2>2, Zenon
    <2>4. /\ IsFiniteSet(guesses') /\ \A g \in guesses' \cup attempts' : g.row.at \in Nat
          /\ InWindow(attempts', now') = InWindow(Recorded(guesses'), now')
      BY DEF GuessInv, WindowInv
    <2>5. QED
      BY <2>3, <2>4 DEF WindowInv
  <1>2. \A name, source :
          InWindow(By(attempts, name, source), now) = Recent(Recorded(guesses), name, source, now)
    <2>1. InWindow(attempts, now) = InWindow(Recorded(guesses), now)
      BY DEF GuessInv, WindowInv
    <2>2. QED
      BY <2>1 DEF Recent, InWindow, Since, By
  <1>3. IsFiniteSet(guesses)
    BY DEF GuessInv, WindowInv
  <1>4. ASSUME NEW name, NEW source, NEW id, ~(CountFailed(name, source) >= MaxAttempts)
        PROVE  /\ Cardinality(Recent(Counted(guesses, id), name, source, now)) < MaxAttempts
               /\ IsFiniteSet(Recent(Counted(guesses, id), name, source, now))
    <2> DEFINE all == Recent(Recorded(guesses), name, source, now)
               some == Recent(Counted(guesses, id), name, source, now)
    <2>1. CountFailed(name, source) = Cardinality(all)
      BY <1>2 DEF CountFailed, InWindow
    <2>2. IsFiniteSet(all) /\ IsFiniteSet(some)
      BY <1>3, CountedFinite DEF Recorded, Counted
    <2>3. some \subseteq all
      BY DEF Recent, InWindow, Since, By, Recorded, Counted, Carried
    <2> HIDE DEF all, some
    <2>4. Cardinality(all) \in Nat /\ Cardinality(some) \in Nat /\ Cardinality(some) <= Cardinality(all)
      BY <2>2, <2>3, FS_CardinalityType, FS_Subset
    <2>5. MaxAttempts \in Nat
      BY CountedFinite
    <2>6. Cardinality(some) < MaxAttempts
      BY <1>4, <2>1, <2>4, <2>5, BelowLimit
    <2>7. QED
      BY <2>2, <2>6 DEF some
  <1>5. ASSUME NEW name \in Names
        PROVE  Room(Recent(Counted(guesses, "name"), name, "", now), PendingAs(name, req'), NameBound)
    <2>1. CASE name = held.name /\ "name" \in held.done
      <3>1. ~(CountFailed(name, "") >= MaxAttempts)
        BY <2>1 DEF enforceLoginLockout
      <3>2. /\ Cardinality(Recent(Counted(guesses, "name"), name, "", now)) < MaxAttempts
            /\ IsFiniteSet(Recent(Counted(guesses, "name"), name, "", now))
            /\ IsFiniteSet(Clients) /\ MaxAttempts \in Nat
        BY <1>4, <3>1, CountedFinite
      <3>3. PendingAs(name, req') \subseteq Clients
        BY DEF PendingAs
      <3>4. QED
        BY <3>2, <3>3, RoomChecked DEF NameBound
    <2>2. CASE ~(name = held.name /\ "name" \in held.done)
      <3>1. PendingAs(name, req') \subseteq PendingAs(name, req)
        BY <1>0, <2>2 DEF PendingAs
      <3>2. QED
        BY <3>1, RoomKept DEF GuessInv, CountInv
    <2>3. QED
      BY <2>1, <2>2
  <1>6. ASSUME NEW source \in Sources
        PROVE  Room(Recent(Counted(guesses, "ip"), "", source, now), PendingFrom(source, req'),
                    SourceBound(source))
    <2>1. CASE source = SourceOf[c] /\ "ip" \in held.done
      <3>1. ~(CountFailed("", source) >= MaxAttempts)
        BY <2>1 DEF enforceLoginLockout
      <3>2. /\ Cardinality(Recent(Counted(guesses, "ip"), "", source, now)) < MaxAttempts
            /\ IsFiniteSet(Recent(Counted(guesses, "ip"), "", source, now))
            /\ IsFiniteSet(From(source)) /\ MaxAttempts \in Nat
        BY <1>4, <3>1, CountedFinite
      <3>3. PendingFrom(source, req') \subseteq From(source)
        BY DEF PendingFrom
      <3>4. QED
        BY <3>2, <3>3, RoomChecked DEF SourceBound
    <2>2. CASE ~(source = SourceOf[c] /\ "ip" \in held.done)
      <3>1. PendingFrom(source, req') \subseteq PendingFrom(source, req)
        BY <1>0, <2>2 DEF PendingFrom, From
      <3>2. QED
        BY <3>1, RoomKept DEF GuessInv, CountInv
    <2>3. QED
      BY <2>1, <2>2
  <1>7. CountInv'
    BY <1>5, <1>6 DEF CountInv
  <1>8. QED
    BY <1>1, <1>7 DEF GuessInv

(* The pruning of old rows takes none of the window.                       *)
LEMMA PrunedWindow ==
    ASSUME now \in Nat, NEW table, \A a \in table : a.row.at \in Nat, NEW failing
    PROVE  /\ InWindow(PruneLoginAttempts(table, failing), now) = InWindow(table, now)
           /\ PruneLoginAttempts(table, failing) \subseteq table
  <1>1. ASSUME NEW a \in table, a.row.at >= now - Window PROVE a.row.at >= Cutoff
    <2>1. a.row.at \in Nat /\ Window \in Nat
      BY CountedFinite
    <2>2. QED
      BY <1>1, <2>1 DEF Cutoff
  <1>2. QED
    BY <1>1 DEF InWindow, Since, PruneLoginAttempts

(* A failure is answered: it takes the place of the request when it was    *)
(* counted and recorded.                                                   *)
LEMMA FailedStep ==
    ASSUME ReqInv, now \in Nat, GuessInv, UNCHANGED now,
           NEW c \in Clients, req[c].op \in Guessing, End(c), RecordFailure(req[c].name, c)
    PROVE  GuessInv'
  <1>f. PICK failing \in Failing({"insert", "prune"}) :
          LET row == Failure(req[c].name, c, req[c].done \cup ({"insert"} \ failing))
              table == IF "insert" \in failing THEN attempts ELSE Added(attempts, row)
          IN  /\ attempts' = PruneLoginAttempts(table, failing)
              /\ guesses' = Added(guesses, row)
    BY DEF RecordFailure
  <1> DEFINE row == Failure(req[c].name, c, req[c].done \cup ({"insert"} \ failing))
             e == [row |-> row, n |-> 1 + Cardinality({a \in guesses : a.row = row})]
             table == IF "insert" \in failing THEN attempts ELSE Added(attempts, row)
  <1>0. req'[c] = Idle /\ \A d \in Clients \ {c} : req'[d] = req[d]
    BY DEF ReqInv, End
  <1>1. /\ row.name = req[c].name /\ row.source = SourceOf[c] /\ row.at = now
        /\ row.name # "" /\ row.source # ""
    BY RequestAssumption DEF Failure, GuessInv, WindowInv
  <1>d. /\ "insert" \in row.done <=> "insert" \notin failing
        /\ "name" \in row.done <=> "name" \in req[c].done
        /\ "ip" \in row.done <=> "ip" \in req[c].done
    BY DEF Failure, GuessInv, WindowInv
  <1>2. e.row = row
    OBVIOUS
  <1>3. guesses' = guesses \cup {e}
    BY <1>f DEF Added
  <1>p. attempts' = PruneLoginAttempts(table, failing)
    BY <1>f
  <1>4. Window \in Nat /\ now >= now - Window
    BY CountedFinite
  <1>w. InWindow(attempts, now) = InWindow(Recorded(guesses), now)
    BY DEF GuessInv, WindowInv
  <1>5. "insert" \in row.done => {a \in attempts : a.row = row} = {a \in guesses : a.row = row}
    <2> HIDE DEF row, e, table
    <2>1. \A a : a.row = row => a.row.at >= now - Window
      BY <1>1, <1>4
    <2>2. QED
      BY <1>w, <2>1 DEF InWindow, Since, Recorded, Carried
  <1>6. table = IF "insert" \in row.done THEN attempts \cup {e} ELSE attempts
    BY <1>5, <1>d DEF Added
  <1> HIDE DEF row, e, table
  <1>7. e.row.at \in Nat /\ e.row.at = now
    BY <1>1, <1>2
  <1>8. WindowInv'
    <2>1. IsFiniteSet(guesses')
      BY <1>3, FS_AddElement DEF GuessInv, WindowInv
    <2>a. \A a \in table : a.row.at \in Nat
      BY <1>6, <1>7 DEF GuessInv, WindowInv
    <2>b. InWindow(attempts', now) = InWindow(table, now) /\ attempts' \subseteq table
      BY <1>p, <2>a, PrunedWindow
    <2>2. \A g \in guesses' \cup attempts' : g.row.at \in Nat
      BY <1>3, <1>7, <2>a, <2>b DEF GuessInv, WindowInv
    <2>4. InWindow(attempts', now) = InWindow(Recorded(guesses'), now)
      <3>1. \A g : g \in InWindow(table, now) <=>
                     g \in InWindow(attempts, now) \/ (g = e /\ "insert" \in row.done)
        BY <1>4, <1>6, <1>7 DEF InWindow, Since
      <3>2. \A g : g \in InWindow(Recorded(guesses'), now) <=>
                     g \in InWindow(Recorded(guesses), now) \/ (g = e /\ "insert" \in row.done)
        BY <1>2, <1>3, <1>4, <1>7 DEF InWindow, Since, Recorded, Carried
      <3>3. QED
        BY <1>w, <2>b, <3>1, <3>2
    <2>5. \A d \in Clients :
            req'[d].op \in Guessing => req'[d].name # "" /\ "insert" \notin req'[d].done
      <3>1. Idle.op \notin Guessing
        BY DEF Idle, Guessing
      <3>2. \A d \in Clients :
              req[d].op \in Guessing => req[d].name # "" /\ "insert" \notin req[d].done
        BY DEF GuessInv, WindowInv
      <3>3. \A d \in Clients : d = c \/ req'[d] = req[d]
        BY <1>0
      <3>4. QED
        BY <1>0, <3>1, <3>2, <3>3, Zenon
    <2>6. QED
      BY <2>1, <2>2, <2>4, <2>5 DEF WindowInv
  <1>9. Idle.op \notin Guessing
    BY DEF Idle, Guessing
  <1>10. ASSUME NEW name \in Names
         PROVE  Room(Recent(Counted(guesses', "name"), name, "", now), PendingAs(name, req'), NameBound)
    <2>1. Room(Recent(Counted(guesses, "name"), name, "", now), PendingAs(name, req), NameBound)
      BY DEF GuessInv, CountInv
    <2>2. CASE name = req[c].name /\ "name" \in req[c].done
      <3>1. Recent(Counted(guesses', "name"), name, "", now)
              \subseteq Recent(Counted(guesses, "name"), name, "", now) \cup {e}
        BY <1>3 DEF Recent, InWindow, Since, By, Counted, Carried
      <3>2. /\ c \in PendingAs(name, req)
            /\ PendingAs(name, req') \subseteq PendingAs(name, req) \ {c}
        BY <1>0, <1>9, <2>2 DEF PendingAs
      <3>3. Room(Recent(Counted(guesses, "name"), name, "", now) \cup {e}, PendingAs(name, req) \ {c}, NameBound)
        BY <2>1, <3>2, RoomTaken
      <3>4. QED
        BY <3>1, <3>2, <3>3, RoomKept
    <2>3. CASE ~(name = req[c].name /\ "name" \in req[c].done)
      <3>1. Recent(Counted(guesses', "name"), name, "", now)
              \subseteq Recent(Counted(guesses, "name"), name, "", now)
        BY <1>1, <1>d, <1>2, <1>3, <2>3 DEF Recent, InWindow, Since, By, Counted, Carried
      <3>2. PendingAs(name, req') \subseteq PendingAs(name, req)
        BY <1>0, <1>9 DEF PendingAs
      <3>3. QED
        BY <2>1, <3>1, <3>2, RoomKept
    <2>4. QED
      BY <2>2, <2>3
  <1>11. ASSUME NEW source \in Sources
         PROVE  Room(Recent(Counted(guesses', "ip"), "", source, now), PendingFrom(source, req'), SourceBound(source))
    <2>1. Room(Recent(Counted(guesses, "ip"), "", source, now), PendingFrom(source, req), SourceBound(source))
      BY DEF GuessInv, CountInv
    <2>2. CASE source = SourceOf[c] /\ "ip" \in req[c].done
      <3>1. Recent(Counted(guesses', "ip"), "", source, now)
              \subseteq Recent(Counted(guesses, "ip"), "", source, now) \cup {e}
        BY <1>3 DEF Recent, InWindow, Since, By, Counted, Carried
      <3>2. /\ c \in PendingFrom(source, req)
            /\ PendingFrom(source, req') \subseteq PendingFrom(source, req) \ {c}
        BY <1>0, <1>9, <2>2 DEF PendingFrom, From
      <3>3. Room(Recent(Counted(guesses, "ip"), "", source, now) \cup {e}, PendingFrom(source, req) \ {c},
                 SourceBound(source))
        BY <2>1, <3>2, RoomTaken
      <3>4. QED
        BY <3>1, <3>2, <3>3, RoomKept
    <2>3. CASE ~(source = SourceOf[c] /\ "ip" \in req[c].done)
      <3>1. Recent(Counted(guesses', "ip"), "", source, now)
              \subseteq Recent(Counted(guesses, "ip"), "", source, now)
        BY <1>1, <1>d, <1>2, <1>3, <2>3 DEF Recent, InWindow, Since, By, Counted, Carried
      <3>2. PendingFrom(source, req') \subseteq PendingFrom(source, req)
        BY <1>0, <1>9 DEF PendingFrom, From
      <3>3. QED
        BY <2>1, <3>1, <3>2, RoomKept
    <2>4. QED
      BY <2>2, <2>3
  <1>12. CountInv'
    BY <1>10, <1>11 DEF CountInv
  <1>13. QED
    BY <1>8, <1>12 DEF GuessInv

(* Steps that admit no guess.                                              *)
Quiet == \A d \in Clients : req'[d].op \in Guessing => req'[d] = req[d]

Unguessed(r) == r.op \notin Guessing

LEMMA HeldQuiet ==
    ASSUME ReqInv, NEW c \in Clients, NEW held, Hold(c, held), held.op \notin Guessing
    PROVE  Quiet
  BY DEF Hold, ReqInv, Quiet

LEMMA EndedQuiet ==
    ASSUME ReqInv, NEW c \in Clients, End(c)
    PROVE  Quiet
  <1>1. Hold(c, Idle) /\ Idle.op \notin Guessing
    BY DEF End, Hold, Idle, Guessing
  <1>2. QED
    BY <1>1, HeldQuiet

LEMMA QuietFrame ==
    ASSUME now \in Nat, GuessInv, UNCHANGED <<now, guesses, attempts>>, Quiet
    PROVE  GuessInv'
  <1>1. now' \in Nat /\ now <= now' /\ guesses' \subseteq guesses /\ attempts' \subseteq attempts
    OBVIOUS
  <1>2. InWindow(attempts', now') = InWindow(Recorded(guesses'), now')
    BY DEF GuessInv, WindowInv
  <1>3. QED
    BY <1>1, <1>2, QuietStep DEF Quiet

(* A success forgets the same failures in the table and in the history, or *)
(* none of them when its statement fails.                                  *)
LEMMA ResetStep ==
    ASSUME now \in Nat, GuessInv, UNCHANGED now, Quiet, NEW c, NEW name,
           NEW table, table \subseteq attempts,
           InWindow(table, now) = InWindow(attempts, now), ResetFailed(name, c, table)
    PROVE  GuessInv'
  <1>1. now' \in Nat /\ now <= now'
    OBVIOUS
  <1>f. PICK failing \in Failing({"reset"}) :
          LET Kept(t) == IF "reset" \in failing THEN t ELSE t \ By(t, name, SourceOf[c])
          IN  attempts' = Kept(table) /\ guesses' = Kept(guesses)
    BY DEF ResetFailed
  <1>2. guesses' \subseteq guesses /\ attempts' \subseteq attempts
    BY <1>f
  <1>3. InWindow(table, now) = InWindow(Recorded(guesses), now)
    BY DEF GuessInv, WindowInv
  <1>4. InWindow(attempts', now') = InWindow(Recorded(guesses'), now')
    <2>1. CASE "reset" \in failing
      BY <1>f, <1>3, <2>1
    <2>2. CASE "reset" \notin failing
      <3>1. attempts' = table \ By(table, name, SourceOf[c])
            /\ guesses' = guesses \ By(guesses, name, SourceOf[c])
        BY <1>f, <2>2
      <3>2. QED
        BY <1>3, <3>1 DEF InWindow, Since, By, Recorded, Carried
    <2>3. QED
      BY <2>1, <2>2
  <1>5. QED
    BY <1>1, <1>2, <1>4, QuietStep DEF Quiet

LEMMA StepGuess == TablesInv /\ GuessInv /\ [Next]_vars => GuessInv'
  <1> SUFFICES ASSUME TablesInv, GuessInv, [Next]_vars PROVE GuessInv'
    OBVIOUS
  <1>0. ReqInv /\ now \in Nat
    BY DEF TablesInv, RowsInv
  <1>1. ASSUME NEW c \in Clients, Disconnect(c) PROVE GuessInv'
    <2>1. UNCHANGED <<now, guesses, attempts>> /\ End(c)
      BY <1>1 DEF Disconnect, rows, history
    <2>2. QED
      BY <1>0, <2>1, EndedQuiet, QuietFrame
  <1>2. ASSUME NEW c \in Clients, Login(c) PROVE GuessInv'
    <2>1. UNCHANGED <<now, guesses, attempts>>
      BY <1>2 DEF Login, rows, history
    <2>2. PICK name \in Names, right \in BOOLEAN, failing \in Failing({"ip", "name"}) :
            /\ ~enforceLoginLockout(name, SourceOf[c], failing)
            /\ Hold(c, Outcome(name, right, {"ip", "name"} \ failing))
      BY <1>2 DEF Login
    <2> DEFINE held == Outcome(name, right, {"ip", "name"} \ failing)
    <2>3. held.name = name /\ name # "" /\ held.done = {"ip", "name"} \ failing
      BY RequestAssumption DEF Outcome, AnyName
    <2> HIDE DEF held
    <2>4. CASE held.op \in Guessing
      <3>1. req' = [req EXCEPT ![c] = held]
        BY <2>2 DEF Hold, held
      <3>2. QED
        BY <1>0, <2>1, <2>2, <2>3, <2>4, <3>1, AdmittedStep
    <2>5. CASE held.op \notin Guessing
      <3>1. Quiet
        BY <1>0, <2>2, <2>5, HeldQuiet DEF held
      <3>2. QED
        BY <1>0, <2>1, <3>1, QuietFrame
    <2>6. QED
      BY <2>4, <2>5
  <1>3. ASSUME NEW c \in Clients, LoginFails(c) PROVE GuessInv'
    <2>1. /\ UNCHANGED now /\ req[c].op \in Guessing
          /\ RecordFailure(req[c].name, c) /\ End(c)
      BY <1>3 DEF LoginFails, Guessing
    <2>2. QED
      BY <1>0, <2>1, FailedStep
  <1>4. ASSUME NEW c \in Clients, LoginChallenge(c) PROVE GuessInv'
    <2>1. PICK failing \in Failing({"prune"}) :
            /\ attempts' = PruneLoginAttempts(attempts, failing)
            /\ UNCHANGED <<now, guesses>> /\ End(c)
      BY <1>4 DEF LoginChallenge, history
    <2>a. \A a \in attempts : a.row.at \in Nat
      BY DEF GuessInv, WindowInv
    <2>2. Quiet
      BY <1>0, <2>1, EndedQuiet
    <2>3. /\ now' \in Nat /\ now <= now' /\ guesses' \subseteq guesses
          /\ attempts' \subseteq attempts
      BY <1>0, <2>1, <2>a, PrunedWindow
    <2>4. InWindow(attempts', now') = InWindow(Recorded(guesses'), now')
      BY <1>0, <2>1, <2>a, PrunedWindow DEF GuessInv, WindowInv
    <2>5. QED
      BY <1>0, <2>2, <2>3, <2>4, QuietStep DEF Quiet
  <1>5. ASSUME NEW c \in Clients, LoginToken(c) PROVE GuessInv'
    <2>1. PICK failing \in Failing({"prune"}) :
            /\ ResetFailed(req[c].name, c, PruneLoginAttempts(attempts, failing))
            /\ UNCHANGED now /\ End(c)
      BY <1>5 DEF LoginToken
    <2>a. \A a \in attempts : a.row.at \in Nat
      BY DEF GuessInv, WindowInv
    <2>2. Quiet
      BY <1>0, <2>1, EndedQuiet
    <2>3. /\ InWindow(PruneLoginAttempts(attempts, failing), now) = InWindow(attempts, now)
          /\ PruneLoginAttempts(attempts, failing) \subseteq attempts
      BY <1>0, <2>a, PrunedWindow
    <2>4. QED
      BY <1>0, <2>1, <2>2, <2>3, ResetStep
  <1>6. ASSUME NEW c \in Clients, LoginMFA(c) PROVE GuessInv'
    <2>1. UNCHANGED <<now, guesses, attempts>>
      BY <1>6 DEF LoginMFA, rows, history
    <2>2. \E held : Unguessed(held) /\ Hold(c, held)
      BY <1>6 DEF LoginMFA, Unguessed, Guessing
    <2>3. Quiet
      BY <1>0, <2>2, HeldQuiet DEF Unguessed
    <2>4. QED
      BY <1>0, <2>1, <2>3, QuietFrame
  <1>7. ASSUME NEW c \in Clients, LoginTOTP(c) PROVE GuessInv'
    <2>1. /\ UNCHANGED now /\ End(c)
          /\ ResetFailed(req[c].name, c, attempts) \/ UNCHANGED <<guesses, attempts>>
      BY <1>7 DEF LoginTOTP
    <2>2. Quiet
      BY <1>0, <2>1, EndedQuiet
    <2>3. QED
      BY <1>0, <2>1, <2>2, ResetStep, QuietFrame
  <1>8. ASSUME NEW c \in Clients, LoginRecovery(c) PROVE GuessInv'
    <2>1. /\ UNCHANGED now /\ End(c)
          /\ ResetFailed(req[c].name, c, attempts) \/ UNCHANGED <<guesses, attempts>>
      BY <1>8 DEF LoginRecovery
    <2>2. Quiet
      BY <1>0, <2>1, EndedQuiet
    <2>3. QED
      BY <1>0, <2>1, <2>2, ResetStep, QuietFrame
  <1>9. ASSUME NEW c \in Clients, StepUp(c) PROVE GuessInv'
    <2>1. UNCHANGED <<now, guesses, attempts>>
      BY <1>9 DEF StepUp, rows, history
    <2>2. PICK t \in tokens, code \in MatchTOTPStep(now) \cup {Wrong}, failing \in Failing({"ip", "name"}) :
            /\ requireAuth(t) /\ ~enforceLoginLockout(users[t.user].name, SourceOf[c], failing)
            /\ Hold(c, [op |-> "stepUp", user |-> t.user, name |-> users[t.user].name,
                         secret |-> users[t.user].secret, code |-> code, session |-> t,
                         done |-> {"ip", "name"} \ failing])
      BY <1>9 DEF StepUp
    <2> DEFINE held == [op |-> "stepUp", user |-> t.user, name |-> users[t.user].name,
                        secret |-> users[t.user].secret, code |-> code, session |-> t,
                        done |-> {"ip", "name"} \ failing]
    <2>3. /\ held.op \in Guessing /\ held.name = users[t.user].name
          /\ held.done = {"ip", "name"} \ failing
      BY DEF Guessing
    <2>4. users[t.user].name # ""
      <3>1. t.user \in DOMAIN users /\ users \in [DOMAIN users -> Account(secrets)]
        BY <2>2 DEF requireAuth, loadCurrentUser, TablesInv, RowsInv
      <3>2. users[t.user].name \in AnyName
        BY <3>1 DEF Account
      <3>3. QED
        BY <3>2, RequestAssumption
    <2>5. req' = [req EXCEPT ![c] = held]
      BY <2>2 DEF Hold
    <2> HIDE DEF held
    <2>6. QED
      BY <1>0, <2>1, <2>2, <2>3, <2>4, <2>5, AdmittedStep
  <1>10. ASSUME NEW c \in Clients, StepUpProves(c) PROVE GuessInv'
    <2>1. /\ UNCHANGED now /\ End(c)
          /\ ResetFailed(req[c].name, c, attempts)
      BY <1>10 DEF StepUpProves
    <2>2. Quiet
      BY <1>0, <2>1, EndedQuiet
    <2>3. QED
      BY <1>0, <2>1, <2>2, ResetStep
  <1>11. ASSUME NEW c \in Clients, StepUpFails(c) PROVE GuessInv'
    <2>1. /\ UNCHANGED now /\ req[c].op \in Guessing
          /\ RecordFailure(req[c].name, c) /\ End(c)
      BY <1>11 DEF StepUpFails, Guessing
    <2>2. QED
      BY <1>0, <2>1, FailedStep
  <1>12. ASSUME NEW c \in Clients, Guarded(c) PROVE GuessInv'
    <2>1. UNCHANGED <<now, guesses, attempts>>
      BY <1>12 DEF Guarded, rows, history
    <2>2. \E held : held.op = "guarded" /\ Hold(c, held)
      BY <1>12 DEF Guarded
    <2>3. Quiet
      BY <1>0, <2>2, HeldQuiet DEF Guessing
    <2>4. QED
      BY <1>0, <2>1, <2>3, QuietFrame
  <1>13. ASSUME NEW c \in Clients, GuardedEnds(c) PROVE GuessInv'
    <2>1. UNCHANGED <<now, guesses, attempts>> /\ End(c)
      BY <1>13 DEF GuardedEnds, rows, history
    <2>2. QED
      BY <1>0, <2>1, EndedQuiet, QuietFrame
  <1>14. ASSUME NEW c \in Clients, MFASetup(c) PROVE GuessInv'
    <2>1. UNCHANGED <<now, guesses, attempts>>
      BY <1>14 DEF MFASetup, rows, history
    <2>2. \E held : held.op = "setupCodes" /\ Hold(c, held)
      BY <1>14 DEF MFASetup
    <2>3. Quiet
      BY <1>0, <2>2, HeldQuiet DEF Guessing
    <2>4. QED
      BY <1>0, <2>1, <2>3, QuietFrame
  <1>15. ASSUME NEW c \in Clients, SetupCodes(c) PROVE GuessInv'
    <2>1. UNCHANGED <<now, guesses, attempts>> /\ End(c)
      BY <1>15 DEF SetupCodes, rows, history
    <2>2. QED
      BY <1>0, <2>1, EndedQuiet, QuietFrame
  <1>16. ASSUME NEW c \in Clients, MFAVerify(c) PROVE GuessInv'
    <2>1. UNCHANGED <<now, guesses, attempts>>
      BY <1>16 DEF MFAVerify, rows, history
    <2>2. \E held : held.op = "verifyEnable" /\ Hold(c, held)
      BY <1>16 DEF MFAVerify
    <2>3. Quiet
      BY <1>0, <2>2, HeldQuiet DEF Guessing
    <2>4. QED
      BY <1>0, <2>1, <2>3, QuietFrame
  <1>17. ASSUME NEW c \in Clients, VerifyEnable(c) PROVE GuessInv'
    <2>1. UNCHANGED <<now, guesses, attempts>>
      BY <1>17 DEF VerifyEnable, history
    <2>2. Hold(c, [req[c] EXCEPT !.op = "verifyConsume"]) /\ ReqOK(req[c])
      BY <1>0, <1>17 DEF VerifyEnable, Go, Hold, ReqInv
    <2>3. [req[c] EXCEPT !.op = "verifyConsume"].op = "verifyConsume"
      BY <1>17, <2>2 DEF VerifyEnable, ReqOK
    <2>4. Quiet
      BY <1>0, <2>2, <2>3, HeldQuiet DEF Guessing
    <2>5. QED
      BY <1>0, <2>1, <2>4, QuietFrame
  <1>18. ASSUME NEW c \in Clients, VerifyConsume(c) PROVE GuessInv'
    <2>1. UNCHANGED <<now, guesses, attempts>> /\ End(c)
      BY <1>18 DEF VerifyConsume, rows, history
    <2>2. QED
      BY <1>0, <2>1, EndedQuiet, QuietFrame
  <1>19. ASSUME NEW c \in Clients, MFADisable(c) PROVE GuessInv'
    <2>1. UNCHANGED <<now, guesses, attempts>>
      BY <1>19 DEF MFADisable, rows, history
    <2>2. \E held : held.op = "dropCodes" /\ Hold(c, held)
      BY <1>19 DEF MFADisable
    <2>3. Quiet
      BY <1>0, <2>2, HeldQuiet DEF Guessing
    <2>4. QED
      BY <1>0, <2>1, <2>3, QuietFrame
  <1>20. ASSUME NEW c \in Clients, DropCodes(c) PROVE GuessInv'
    <2>1. UNCHANGED <<now, guesses, attempts>> /\ End(c)
      BY <1>20 DEF DropCodes, rows, history
    <2>2. QED
      BY <1>0, <2>1, EndedQuiet, QuietFrame
  <1>21. ASSUME NEW c \in Clients, CreateAdminUser(c) PROVE GuessInv'
    <2>1. UNCHANGED <<now, guesses, attempts, req>>
      BY <1>21 DEF CreateAdminUser, history
    <2>2. QED
      BY <1>0, <2>1, QuietFrame DEF Quiet
  <1>22. ASSUME NEW c \in Clients, UpdateAdminUser(c) PROVE GuessInv'
    <2>1. UNCHANGED <<now, guesses, attempts>>
      BY <1>22 DEF UpdateAdminUser, rows, history
    <2>2. \E held : held.op = "update" /\ Hold(c, held)
      BY <1>22 DEF UpdateAdminUser
    <2>3. Quiet
      BY <1>0, <2>2, HeldQuiet DEF Guessing
    <2>4. QED
      BY <1>0, <2>1, <2>3, QuietFrame
  <1>23. ASSUME NEW c \in Clients, UpdateWrite(c) PROVE GuessInv'
    <2>1. UNCHANGED <<now, guesses, attempts>> /\ End(c)
      BY <1>23 DEF UpdateWrite, rows, history
    <2>2. QED
      BY <1>0, <2>1, EndedQuiet, QuietFrame
  <1>24. ASSUME NEW c \in Clients, DeleteAdminUser(c) PROVE GuessInv'
    <2>1. UNCHANGED <<now, guesses, attempts>>
      BY <1>24 DEF DeleteAdminUser, rows, history
    <2>2. \E held : held.op = "delete" /\ Hold(c, held)
      BY <1>24 DEF DeleteAdminUser
    <2>3. Quiet
      BY <1>0, <2>2, HeldQuiet DEF Guessing
    <2>4. QED
      BY <1>0, <2>1, <2>3, QuietFrame
  <1>25. ASSUME NEW c \in Clients, DeleteWrite(c) PROVE GuessInv'
    <2>1. UNCHANGED <<now, guesses, attempts>> /\ End(c)
      BY <1>25 DEF DeleteWrite, rows, history
    <2>2. QED
      BY <1>0, <2>1, EndedQuiet, QuietFrame
  <1>26. CASE Restart
    <2>1. UNCHANGED <<now, guesses, attempts>> /\ \A c \in Clients : req'[c] = Idle
      BY <1>26 DEF Restart, history
    <2>2. Quiet
      BY <2>1 DEF Quiet, Idle, Guessing
    <2>3. QED
      BY <1>0, <2>1, <2>2, QuietFrame
  <1>27. CASE Tick
    <2>1. now' = now + 1 /\ UNCHANGED <<guesses, attempts, req>>
      BY <1>27 DEF Tick, rows, history
    <2>2. now' \in Nat /\ now <= now'
      BY <1>0, <2>1
    <2>3. ASSUME NEW a \in attempts \cup guesses, a.row.at >= now' - Window
          PROVE  a.row.at >= now - Window
      <3>1. a.row.at \in Nat /\ Window \in Nat
        BY CountedFinite DEF GuessInv, WindowInv
      <3>2. QED
        BY <1>0, <2>1, <2>3, <3>1
    <2>4. InWindow(attempts, now) = InWindow(Recorded(guesses), now)
      BY DEF GuessInv, WindowInv
    <2>5. InWindow(attempts', now') = InWindow(Recorded(guesses'), now')
      BY <2>1, <2>3, <2>4 DEF InWindow, Since, Recorded, Carried
    <2>6. QED
      BY <1>0, <2>1, <2>2, <2>5, QuietStep
  <1>28. CASE UNCHANGED vars
    <2>1. UNCHANGED <<now, guesses, attempts, req>>
      BY <1>28 DEF vars, rows, history
    <2>2. QED
      BY <1>0, <2>1, QuietFrame DEF Quiet
  <1>29. QED
    BY <1>1, <1>2, <1>3, <1>4, <1>5, <1>6, <1>7, <1>8, <1>9, <1>10, <1>11, <1>12, <1>13, <1>14, <1>15, <1>16, <1>17, <1>18, <1>19, <1>20, <1>21, <1>22, <1>23, <1>24, <1>25, <1>26, <1>27, <1>28 DEF Next

LEMMA InitGuess == Init => GuessInv
  <1> SUFFICES ASSUME Init PROVE GuessInv
    OBVIOUS
  <1>1. guesses = {} /\ attempts = {} /\ req = [c \in Clients |-> Idle]
    BY DEF Init
  <1>2. Idle.op \notin Guessing
    BY DEF Idle, Guessing
  <1>3. WindowInv
    BY <1>1, <1>2, FS_EmptySet DEF WindowInv, InWindow, Since, Recorded, Carried
  <1>4. /\ \A id, name, source : Recent(Counted(guesses, id), name, source, now) = {}
        /\ \A name : PendingAs(name, req) = {} /\ \A source : PendingFrom(source, req) = {}
    BY <1>1, <1>2 DEF Recent, InWindow, Since, By, Counted, Carried, PendingAs, PendingFrom, From
  <1>5. ASSUME NEW S, IsFiniteSet(S) PROVE Room({}, {}, MaxAttempts - 1 + Cardinality(S))
    <2>1. /\ IsFiniteSet({}) /\ Cardinality({}) < MaxAttempts /\ MaxAttempts \in Nat
      BY CountedFinite, FS_EmptySet
    <2>2. {} \subseteq S
      OBVIOUS
    <2>3. QED
      BY <1>5, <2>1, <2>2, RoomChecked
  <1>6. CountInv
    BY <1>4, <1>5, CountedFinite DEF CountInv, NameBound, SourceBound
  <1>7. QED
    BY <1>3, <1>6 DEF GuessInv

LEMMA GuessesAreLimited ==
    ASSUME GuessInv
    PROVE  GuessesLimited
  <1>1. ASSUME NEW R, NEW P, NEW B, Room(R, P, B) PROVE Cardinality(R) <= B
    <2>1. /\ IsFiniteSet(R) /\ IsFiniteSet(P) /\ B \in Int
          /\ Cardinality(R) + Cardinality(P) <= B
      BY <1>1 DEF Room
    <2>2. Cardinality(R) \in Nat /\ Cardinality(P) \in Nat
      BY <2>1, FS_CardinalityType
    <2>3. QED
      BY <2>1, <2>2
  <1>2. \A name \in Names : Cardinality(Recent(Counted(guesses, "name"), name, "", now)) <= NameBound
    BY <1>1 DEF GuessInv, CountInv
  <1>3. \A source \in Sources :
          Cardinality(Recent(Counted(guesses, "ip"), "", source, now)) <= SourceBound(source)
    BY <1>1 DEF GuessInv, CountInv
  <1>4. QED
    BY <1>2, <1>3
       DEF GuessesLimited, Recent, InWindow, Counted, NameBound, SourceBound, From, Sources

-----------------------------------------------------------------------------
(* The theorems.                                                           *)

IInv == TablesInv /\ CodesInv /\ ProofInv /\ AdminInv /\ GuessInv

LEMMA Inductive == Spec => []IInv
  <1>1. Init => IInv
    BY InitTables, InitCodes, InitGuess DEF IInv
  <1>2. IInv /\ [Next]_vars => IInv'
    BY StepTables, StepCodes, StepProof, StepAdmin, StepGuess DEF IInv
  <1>3. QED
    BY <1>1, <1>2, PTL DEF Spec

(* The tables keep their types and their foreign keys: an id or a secret   *)
(* that a row, a token or a handler in progress holds was given out, and   *)
(* no id is given out twice.                                               *)
THEOREM TablesTyped == Spec => []TablesInv
  <1>1. IInv => TablesInv
    BY DEF IInv
  <1>2. QED
    BY <1>1, Inductive, PTL

(* ConsumeTOTPTimeStep and ConsumeRecoveryCode accept a code once, however *)
(* the reads and the updates of any number of requests interleave.         *)
THEOREM EveryCodeOnce == Spec => []CodesUsedOnce
  <1>1. IInv => CodesUsedOnce
    BY DEF IInv, CodesInv
  <1>2. QED
    BY <1>1, Inductive, PTL

(* Updates and deletions of accounts that do not overlap leave an active   *)
(* administrator.                                                          *)
THEOREM AdminStays == Spec => []ActiveAdminRemains
  <1>1. IInv => ActiveAdminRemains
    BY DEF IInv, AdminInv, ActiveAdminRemains
  <1>2. QED
    BY <1>1, Inductive, PTL

(* enforceLoginLockout under any number of overlapping requests: within a  *)
(* window the password and step-up failures answered for a username or to  *)
(* an address exceed max_attempts - 1 by at most the requests that can be  *)
(* past the check and the failures whose count or record did not succeed.  *)
THEOREM LockoutHolds == Spec => []GuessesLimited
  <1>1. IInv => GuessesLimited
    BY GuessesAreLimited DEF IInv
  <1>2. QED
    BY <1>1, Inductive, PTL

(* A guarded operation begins only within the life of a step-up that was   *)
(* verified in the same session, for the secret now enrolled.              *)
THEOREM GuardedIsProven == Spec => ProofsAreFresh
  <1>1. IInv /\ [Next]_vars => \A c \in Clients : ProvenRecently(c)
    BY StepFresh DEF IInv
  <1>2. QED
    BY <1>1, Inductive, PTL DEF Spec, ProofsAreFresh
=============================================================================
