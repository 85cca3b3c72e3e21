------------------------------- MODULE Access -------------------------------
(***************************************************************************)
(* MQTT accounts and ACL rules under concurrent requests: the handlers of  *)
(* internal/server/mqtt_users.go and internal/server/server.go over the    *)
(* tables mqtt_users, acl_rules and listener_specs.                        *)
(*                                                                         *)
(* A statement or transaction under the mutation lock is one step.  Around *)
(* it a handler does more without the lock: it reads the row first, it     *)
(* files the generated password for the deploy verifier afterwards, and    *)
(* after a rule it synchronises the acl_file of every listener from lists  *)
(* it read earlier (internal/server/acl_scope_sync.go).  The listener apply*)
(* (internal/listener/listener_service.go) replaces every row of the same  *)
(* table by those of a preview it kept in memory.                          *)
(***************************************************************************)
EXTENDS AclDocument

CONSTANTS Clients,      \* concurrent requests
          Names,        \* the usernames of requests
          Service,      \* the username of the broker's service account
          Start,        \* the accounts at the start
          Pool,         \* the rules of requests
          Rows,         \* the listeners that may have a row in listener_specs
          Declared,     \* the acl_file of their rows at the start
          MaxOps,       \* bound on the requests
          MaxPreviews,  \* bound on the previews of the listener configuration
          MaxRestarts   \* bound on the restarts of MCM

VARIABLES users,        \* mqtt_users by id, NoUser when deleted: ids are not reused
          rules,        \* acl_rules by id, NoRule when deleted
          aclFile,      \* listener_specs: the acl_file of the row, "none", "own" (MCM's file) or
                        \* "other"; "gone" when there is no row
          previews,     \* ListenerService.previews not consumed yet: the rows of each
          passwords,    \* App.userPasswords: name -> password, 0 when absent
          calls,        \* the handlers under way
          issued,       \* passwords generated; the hash of a password is its number
          ops, restarts,
          previewed,    \* previews of the listener configuration made
          target,       \* history: the account a rule was written for, 0 for none
          raced,        \* history: two requests for one account or one name overlapped
          mixed,        \* history: since the last synchronisation that ran undisturbed and to its
                        \* end, one did not, or a listener apply changed a row's acl_file
          failed        \* history: some synchronisation failed or was cut short, or rows were applied
                        \* that did not fit the rules when they were sent

vars == <<users, rules, aclFile, previews, passwords, calls, issued, ops, restarts, previewed,
          target, raced, mixed, failed>>
accounts == <<users, passwords, issued, raced>>
kept == <<previews, previewed>>
scopes == <<aclFile, mixed, failed, kept>>

Options == {"gone", "none", "own", "other"}

\* The strings a rule may hold, and its shape, valid or not.
Posted == UNION {{r.sel, r.who, r.scope, r.listener, r.perm} : r \in Pool}
Text == Posted \cup Names \cup {"", "user", "global"}
Rule == [sel : Text, who : Text, scope : Text, listener : Text, filter : {r.filter : r \in Pool}, perm : Text]

\* The usernames of the table are unique and not empty (store.go); no
\* rule exists yet, so that no listener declares MCM's own ACL file.
ASSUME AccessAssumption ==
  /\ Pool \subseteq Rule /\ "" \notin Rows
  /\ Start \in Seq([name : Names \ {""}, hash : Nat, disabled : BOOLEAN])
  /\ \A i, j \in DOMAIN Start : Start[i].name = Start[j].name => i = j
  /\ Declared \in [Rows -> {"gone", "none", "other"}]

NoUser == [name |-> "", hash |-> 0, disabled |-> TRUE]
NoRule == [sel |-> "none"]

Call(op, pc, id, name) ==
  [op |-> op, pc |-> pc, id |-> id, name |-> name, password |-> 0, new |-> "", disable |-> "keep",
   scoped |-> {}, todo |-> {}, alone |-> TRUE]
Idle == Call("idle", "", 0, "")

AccountOps == {"create", "update", "delete", "reset"}
Busy(c, S) == calls[c].op \in S

isConfiguredMQTTServiceUser(n) == n = Service

ValidateMQTTUsername(n) == n # ""

\* The id of the account with a name, 0 when there is none.
GetMQTTUserByUsername(table, n) ==
  LET ids == {i \in DOMAIN table : n # "" /\ table[i].name = n}
  IN IF ids = {} THEN 0 ELSE CHOOSE i \in ids : TRUE

GetMQTTUser(i) == i \in DOMAIN users /\ users[i] # NoUser

Begin == ops < MaxOps /\ ops' = ops + 1 /\ UNCHANGED restarts
Within == UNCHANGED <<ops, restarts>>
Return(c) == calls' = [calls EXCEPT ![c] = Idle]
Goto(c, pc) == calls' = [calls EXCEPT ![c].pc = pc]

\* A write to account i, which then has the name n, while another request
\* keeps something of that account or name outside the lock.
Overlap(c, i, n) ==
  LET others == {d \in Clients \ {c} : Busy(d, AccountOps \ {"reset"})}
  IN raced' = (raced \/ \E d \in others : calls[d].id = i \/ calls[d].name = n)

rememberMQTTPassword(store, n, password) == [store EXCEPT ![n] = password]
forgetMQTTPassword(store, n) == [store EXCEPT ![n] = 0]

-----------------------------------------------------------------------------
(* POST /api/v1/mqtt-users *)

CreateMQTTUser(c, n) ==
  /\ calls[c] = Idle /\ Begin
  /\ ValidateMQTTUsername(n) /\ ~isConfiguredMQTTServiceUser(n) /\ GetMQTTUserByUsername(users, n) = 0
  /\ users' = Append(users, [name |-> n, hash |-> issued + 1, disabled |-> FALSE])
  /\ issued' = issued + 1
  /\ calls' = [calls EXCEPT ![c] = [Call("create", "remember", Len(users) + 1, n) EXCEPT !.password = issued + 1]]
  /\ Overlap(c, Len(users) + 1, n)
  /\ UNCHANGED <<rules, passwords, target, scopes>>

\* The handler remembers the password after the store released its lock.
handleCreateMQTTUser(c) ==
  /\ Busy(c, {"create"}) /\ Within
  /\ passwords' = rememberMQTTPassword(passwords, calls[c].name, calls[c].password)
  /\ Return(c)
  /\ UNCHANGED <<users, issued, raced, rules, target, scopes>>

-----------------------------------------------------------------------------
(* PUT /api/v1/mqtt-users/{id}: a new name or none, disable, enable or keep *)

\* The row is read without the lock; its name moves the password later.
handleUpdateMQTTUser(c, i, new, disable) ==
  /\ calls[c] = Idle /\ Begin /\ GetMQTTUser(i)
  /\ new # "" \/ disable # "keep"
  /\ ~(disable = "yes" /\ isConfiguredMQTTServiceUser(users[i].name))
  /\ calls' = [calls EXCEPT ![c] = [Call("update", "store", i, users[i].name)
                                      EXCEPT !.new = new, !.disable = disable]]
  /\ UNCHANGED <<accounts, rules, target, scopes>>

\* The row as the request leaves it.
Updated(row, call) ==
  [name     |-> IF call.new = "" THEN row.name ELSE call.new,
   hash     |-> IF call.password = 0 THEN row.hash ELSE call.password,
   disabled |-> IF call.disable = "keep" THEN row.disabled ELSE call.disable = "yes"]

\* updateMQTTUser under the lock refuses a reserved name, disabling the
\* service account, a name in use, and a row that is gone.
Refused(c) ==
  LET call == calls[c] i == call.id IN
  \/ ~GetMQTTUser(i)
  \/ call.new # "" /\ (~ValidateMQTTUsername(call.new) \/ isConfiguredMQTTServiceUser(call.new))
  \/ call.disable = "yes" /\ isConfiguredMQTTServiceUser(users[i].name)
  \/ GetMQTTUserByUsername(users, Updated(users[i], call).name) \notin {0, i}

\* cascadeRename which leaves the rules as they are.
MutCascadeRename(old, new) == rules

\* The rename cascades to the user rules of the old name, in the same transaction.
cascadeRename(old, new) ==
  [r \in DOMAIN rules |-> IF rules[r].sel = "user" /\ rules[r].who = old THEN [rules[r] EXCEPT !.who = new]
                          ELSE rules[r]]

\* moveRemembered which keeps the entry of the old name.
MutMoveRemembered(old, new) == [passwords EXCEPT ![new] = passwords[old]]

\* The callback of the update: the password follows the name it was read with.
moveRemembered(old, new) ==
  IF passwords[old] = 0 THEN passwords
  ELSE forgetMQTTPassword(rememberMQTTPassword(passwords, new, passwords[old]), old)

updateMQTTUser(c) ==
  LET call == calls[c] i == call.id IN
  /\ Busy(c, {"update"}) /\ call.pc = "store" /\ Within
  /\ UNCHANGED <<issued, target, scopes>>
  /\ \/ Refused(c) /\ Return(c) /\ UNCHANGED <<users, rules, passwords, raced>>
     \/ /\ ~Refused(c)
        /\ \E row \in {Updated(users[i], call)} :
             /\ Overlap(c, i, row.name)
             /\ users' = [users EXCEPT ![i] = row]
             /\ rules' = cascadeRename(users[i].name, row.name)
             /\ passwords' = IF call.new # "" /\ call.name # row.name THEN moveRemembered(call.name, row.name)
                             ELSE passwords
             /\ calls' = [calls EXCEPT ![c] = IF row.disabled
                                              THEN [call EXCEPT !.pc = "forget", !.name = row.name] ELSE Idle]

\* A disabled account is forgotten after the lock was released.
forgetDisabled(c) ==
  /\ Busy(c, {"update"}) /\ calls[c].pc = "forget" /\ Within
  /\ passwords' = forgetMQTTPassword(passwords, calls[c].name)
  /\ Return(c)
  /\ UNCHANGED <<users, issued, raced, rules, target, scopes>>

\* The row was written and cannot be read back: the handler reports an error
\* and neither remembers nor forgets.
ReadBackFails(c) ==
  /\ Busy(c, {"create", "update"}) /\ calls[c].pc \in {"remember", "forget"} /\ Within
  /\ Return(c)
  /\ UNCHANGED <<accounts, rules, target, scopes>>

-----------------------------------------------------------------------------
(* DELETE /api/v1/mqtt-users/{id} and POST .../reset-password *)

handleDeleteMQTTUser(c, i) ==
  /\ calls[c] = Idle /\ Begin /\ GetMQTTUser(i)
  /\ ~isConfiguredMQTTServiceUser(users[i].name)
  /\ calls' = [calls EXCEPT ![c] = Call("delete", "store", i, users[i].name)]
  /\ UNCHANGED <<accounts, rules, target, scopes>>

\* The rules of the account stay.
DeleteMQTTUser(c) ==
  LET i == calls[c].id IN
  /\ Busy(c, {"delete"}) /\ calls[c].pc = "store" /\ Within
  /\ UNCHANGED <<passwords, issued, rules, target, scopes>>
  /\ \/ ~GetMQTTUser(i) /\ Return(c) /\ UNCHANGED <<users, raced>>
     \/ GetMQTTUser(i) /\ users' = [users EXCEPT ![i] = NoUser] /\ Overlap(c, i, users[i].name) /\ Goto(c, "forget")

forgetDeleted(c) ==
  /\ Busy(c, {"delete"}) /\ calls[c].pc = "forget" /\ Within
  /\ passwords' = forgetMQTTPassword(passwords, calls[c].name)
  /\ Return(c)
  /\ UNCHANGED <<users, issued, raced, rules, target, scopes>>

handleResetMQTTUserPassword(c, i) ==
  /\ calls[c] = Idle /\ Begin /\ GetMQTTUser(i)
  /\ ~isConfiguredMQTTServiceUser(users[i].name)
  /\ issued' = issued + 1
  /\ calls' = [calls EXCEPT ![c] = [Call("reset", "store", i, users[i].name) EXCEPT !.password = issued + 1]]
  /\ UNCHANGED <<users, passwords, raced, rules, target, scopes>>

\* The new hash and the remembered password change under one lock.
UpdateMQTTUserAndRun(c) ==
  LET i == calls[c].id IN
  /\ Busy(c, {"reset"}) /\ Within /\ Return(c)
  /\ UNCHANGED <<issued, rules, target, scopes>>
  /\ \/ Refused(c) /\ UNCHANGED <<users, passwords, raced>>
     \/ /\ ~Refused(c)
        /\ \E row \in {Updated(users[i], calls[c])} :
             /\ Overlap(c, i, row.name)
             /\ users' = [users EXCEPT ![i] = row]
             /\ passwords' = rememberMQTTPassword(passwords, row.name, calls[c].password)

-----------------------------------------------------------------------------
(* POST, PUT and DELETE /api/v1/acls, each followed by a synchronisation    *)

\* Another rule request is between its lists and its last write.
Disturb(c, next) ==
  calls' = [d \in Clients |-> IF d = c THEN next
                              ELSE IF calls[d].op = "rule" THEN [calls[d] EXCEPT !.alone = FALSE]
                              ELSE calls[d]]

StoreRule(c, table, owner) ==
  /\ calls[c] = Idle /\ Begin
  /\ rules' = table /\ target' = owner
  /\ Disturb(c, Call("rule", "rules", 0, ""))
  /\ UNCHANGED <<accounts, scopes>>

OwnerOf(r) == IF IsUserScoped(r) THEN GetMQTTUserByUsername(users, r.who) ELSE 0

handleCreateRule(c, r) ==
  ValidateRule(r) /\ StoreRule(c, Append(rules, Normalize(r)), Append(target, OwnerOf(r)))

handleUpdateRule(c, i, r) ==
  /\ rules[i] # NoRule /\ ValidateRule(r)
  /\ StoreRule(c, [rules EXCEPT ![i] = Normalize(r)], [target EXCEPT ![i] = OwnerOf(r)])

handleDeleteRule(c, i) ==
  rules[i] # NoRule /\ StoreRule(c, [rules EXCEPT ![i] = NoRule], [target EXCEPT ![i] = 0])

\* Sync: the listeners that own scoped rules.
SyncRules(c) ==
  /\ Busy(c, {"rule"}) /\ calls[c].pc = "rules" /\ Within
  /\ Disturb(c, [calls[c] EXCEPT
       !.pc = "specs",
       !.alone = \A d \in Clients \ {c} : ~Busy(d, {"rule"}),
       !.scoped = {rules[i].listener : i \in {j \in DOMAIN rules : rules[j] # NoRule /\ IsListenerScoped(rules[j])}}])
  /\ UNCHANGED <<accounts, rules, target, scopes>>

\* scopesToSet which only adds: a listener that lost its last rule keeps the option.
MutScopesToSet(scoped) == {l \in Rows \cap scoped : aclFile[l] \notin {"gone", "own"}}

Want(l, scoped) == IF l \in scoped THEN "own" ELSE "none"

\* The rows whose acl_file is not what the rules ask for; a file of the
\* operator's own is among them.
scopesToSet(scoped) == {l \in Rows : aclFile[l] \notin {"gone", Want(l, scoped)}}

SyncSpecs(c) ==
  /\ Busy(c, {"rule"}) /\ calls[c].pc = "specs" /\ Within
  /\ calls' = [calls EXCEPT ![c].pc = "set", ![c].todo = scopesToSet(calls[c].scoped)]
  /\ UNCHANGED <<accounts, rules, target, scopes>>

\* One row under the lock; a row that is gone meanwhile is passed over.
setACLFile(c) ==
  /\ Busy(c, {"rule"}) /\ calls[c].pc = "set" /\ Within
  /\ \E l \in calls[c].todo :
       /\ aclFile' = [aclFile EXCEPT ![l] = IF @ = "gone" THEN @ ELSE Want(l, calls[c].scoped)]
       /\ calls' = [calls EXCEPT ![c].todo = @ \ {l}]
  /\ UNCHANGED <<accounts, rules, target, mixed, failed, kept>>

\* A failure of a list or of a row ends the synchronisation; the request
\* reports success all the same.
SyncFails(c) ==
  /\ Busy(c, {"rule"}) /\ Within
  /\ calls[c].pc = "set" => calls[c].todo # {}
  /\ mixed' = TRUE /\ failed' = TRUE /\ Return(c)
  /\ UNCHANGED <<accounts, rules, target, aclFile, kept>>

SyncDone(c) ==
  /\ Busy(c, {"rule"}) /\ calls[c].pc = "set" /\ calls[c].todo = {} /\ Within
  /\ mixed' = ~calls[c].alone
  /\ Return(c)
  /\ UNCHANGED <<accounts, rules, target, aclFile, failed, kept>>

-----------------------------------------------------------------------------
(* The listener configuration: a preview keeps the rows the operator sent,  *)
(* the apply puts them in the place of all rows, in one transaction.        *)

\* The rows that exist declare MCM's file exactly when a rule is scoped to them.
Fits(rows) ==
  \A l \in Rows : rows[l] # "gone" =>
    (rows[l] = "own" <=> \E i \in DOMAIN rules : rules[i] # NoRule /\ rules[i].listener = l)

\* "fits", read by no action, tells whether the operator sent what the rules ask for.
Preview(rows) ==
  /\ previewed < MaxPreviews /\ previewed' = previewed + 1 /\ Begin
  /\ previews' = previews \cup {[rows |-> rows, fits |-> Fits(rows)]}
  /\ UNCHANGED <<accounts, rules, aclFile, calls, target, mixed, failed>>

Interrupted == [d \in Clients |-> IF calls[d].op = "rule" THEN [calls[d] EXCEPT !.alone = FALSE] ELSE calls[d]]

\* An apply that fails before its transaction changes nothing here.
ReplaceAllListenerSpecs(entry) ==
  /\ aclFile' = entry.rows
  /\ previews' = previews \ {entry}
  /\ \/ entry.rows = aclFile /\ UNCHANGED <<calls, mixed>>
     \/ entry.rows # aclFile /\ mixed' = TRUE /\ calls' = Interrupted
  /\ failed' = (failed \/ ~entry.fits)
  /\ UNCHANGED <<accounts, rules, ops, restarts, previewed, target>>

-----------------------------------------------------------------------------
(* MCM restarts: the requests end where they are, the passwords and the     *)
(* previews are lost.                                                       *)

Restart ==
  /\ restarts < MaxRestarts /\ restarts' = restarts + 1
  /\ passwords' = [n \in DOMAIN passwords |-> 0]
  /\ calls' = [c \in Clients |-> Idle]
  /\ previews' = {}
  /\ LET cut == \E c \in Clients : Busy(c, {"rule"})
     IN  mixed' = (mixed \/ cut) /\ failed' = (failed \/ cut)
  /\ UNCHANGED <<users, rules, aclFile, issued, ops, previewed, target, raced>>

Init ==
  /\ users = Start /\ rules = <<>> /\ target = <<>>
  /\ aclFile = Declared
  /\ passwords = [n \in Names |-> 0]
  /\ calls = [c \in Clients |-> Idle]
  /\ issued = Len(Start) /\ ops = 0 /\ restarts = 0
  /\ previews = {} /\ previewed = 0
  /\ raced = FALSE /\ mixed = FALSE /\ failed = FALSE

AccountStep(c) ==
  \/ \E n \in Names : CreateMQTTUser(c, n)
  \/ \E i \in DOMAIN users :
       \/ \E new \in Names \cup {""}, disable \in {"keep", "yes", "no"} : handleUpdateMQTTUser(c, i, new, disable)
       \/ handleDeleteMQTTUser(c, i)
       \/ handleResetMQTTUserPassword(c, i)
  \/ handleCreateMQTTUser(c) \/ updateMQTTUser(c) \/ forgetDisabled(c) \/ ReadBackFails(c)
  \/ DeleteMQTTUser(c) \/ forgetDeleted(c) \/ UpdateMQTTUserAndRun(c)

RuleStep(c) ==
  \/ \E r \in Pool : handleCreateRule(c, r) \/ \E i \in DOMAIN rules : handleUpdateRule(c, i, r)
  \/ \E i \in DOMAIN rules : handleDeleteRule(c, i)
  \/ SyncRules(c) \/ SyncSpecs(c) \/ setACLFile(c) \/ SyncFails(c) \/ SyncDone(c)

ListenerStep ==
  \/ \E rows \in [Rows -> Options] : Preview(rows)
  \/ \E entry \in previews : ReplaceAllListenerSpecs(entry)

Next == (\E c \in Clients : AccountStep(c) \/ RuleStep(c)) \/ ListenerStep \/ Restart

Spec == Init /\ [][Next]_vars

-----------------------------------------------------------------------------
(* Properties *)

TypeOK ==
  /\ users \in Seq([name : Names \cup {"", Service}, hash : Nat, disabled : BOOLEAN])
  /\ \A i \in DOMAIN rules : rules[i] = NoRule \/ rules[i] = Normalize(rules[i])
  /\ Len(target) = Len(rules) /\ aclFile \in [Rows -> Options]
  /\ previews \subseteq [rows : [Rows -> Options], fits : BOOLEAN]
  /\ passwords \in [Names -> 0..issued]

\* Once the account requests have returned, a remembered password is the one
\* whose hash is stored for the account of that name, whatever was created,
\* renamed, disabled, deleted or reset before and however resets overlapped
\* (handleUpdateMQTTUser, handleResetMQTTUserPassword): the deploy verifier
\* never signs in with another account's password or with an old one.  Only
\* requests for one account or one name at the same time may break this.
RememberedIsCurrent ==
  ~raced /\ (\A c \in Clients : ~Busy(c, AccountOps)) =>
    \A n \in Names : passwords[n] # 0 =>
      \E i \in DOMAIN users : users[i].name = n /\ users[i].hash = passwords[n]

\* A rule written for an account names it for as long as both exist, through
\* every rename by whatever request (updateMQTTUser, RenameMQTTUser): "a
\* failed rename never leaves an orphan ACL rule behind".
RulesFollowAccount ==
  \A r \in DOMAIN rules : target[r] # 0 /\ users[target[r]] # NoUser => rules[r].who = users[target[r]].name

Synchronised == \A c \in Clients : ~Busy(c, {"rule"})

\* Between rule requests a listener's row declares its own ACL file exactly
\* when a rule is scoped to it, from a synchronisation that ran undisturbed and
\* to its end until the next one that does not, whatever failed, overlapped or
\* replaced the rows before (aclScopeSync.Sync): one clean run repairs
\* everything.  A listener apply that changes a row's acl_file ends it until
\* the next rule request; one that finds the rows as they were does not.
ListenersWired == ~mixed /\ Synchronised => Fits(aclFile)

\* What docs/acl.md says: MCM points a listener with scoped rules at its file,
\* and removes the option when the last of them is gone.  It does not after the
\* apply of a preview older than the rule, nor after two rule requests that
\* overlapped, although every synchronisation succeeded.
OptionFollowsRules == ~failed /\ Synchronised => Fits(aclFile)

\* What the comment of forgetMQTTPassword says: a remembered password does not
\* outlive its account.  The creation that files it after the account was
\* deleted breaks it.
CleartextForgotten ==
  (\A c \in Clients : ~Busy(c, AccountOps)) =>
    \A n \in Names : passwords[n] # 0 => GetMQTTUserByUsername(users, n) # 0
=============================================================================
