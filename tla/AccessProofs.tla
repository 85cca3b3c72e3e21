---------------------------- MODULE AccessProofs ----------------------------
(***************************************************************************)
(* Proofs about Access, for any requests, names, rules and listeners: a    *)
(* rule follows its account, a remembered password is the current one, and *)
(* an undisturbed synchronisation leaves every listener with the acl_file  *)
(* its rules ask for, until a listener apply replaces the rows.            *)
(***************************************************************************)
EXTENDS Access, TLAPS

Row == [name : Names \cup {""}, hash : Nat, disabled : BOOLEAN]
Stored == {r \in Rule : /\ r.sel \in Selectors /\ r.scope \in {"global", "listener"}
                        /\ (r.scope # "listener" => r.listener = "")}

\* A preview of the listener configuration.
Entry == [rows : [Rows -> Options], fits : BOOLEAN]

\* What a handler holds.
Held == [op : {"idle", "create", "update", "delete", "reset", "rule"},
         pc : {"", "remember", "store", "forget", "rules", "specs", "set"},
         id : Nat, name : Names \cup {""}, password : Nat, new : Names \cup {""},
         disable : {"keep", "yes", "no"}, scoped : SUBSET Text, todo : SUBSET Rows,
         alone : BOOLEAN]

-----------------------------------------------------------------------------
(* The tables.                                                             *)

\* A live account has a name and no other has it.
UsersInv ==
    /\ users \in Seq(Row)
    /\ \A i \in DOMAIN users : users[i] = NoUser \/ users[i].name # ""
    /\ \A i, j \in DOMAIN users : users[i].name = users[j].name /\ users[i].name # "" => i = j

StoredInv ==
    /\ rules \in Seq(Stored \cup {NoRule})
    /\ target \in Seq(Nat) /\ Len(target) = Len(rules)
    /\ aclFile \in [Rows -> Options] /\ previews \subseteq Entry

PasswordInv ==
    /\ issued \in Nat /\ passwords \in [Names -> 0..issued]
    /\ \A c \in Clients : calls[c].password <= issued

HeldOK(h, ids) ==
    /\ h.op \in AccountOps => h.id \in ids /\ h.name \in Names /\ h.name # ""
    /\ h.op = "create" => h.pc = "remember"
    /\ h.op = "update" => h.password = 0
    /\ h.op = "reset" => h.new = ""

HeldInv == calls \in [Clients -> Held] /\ \A c \in Clients : HeldOK(calls[c], DOMAIN users)

FlagsInv == raced \in BOOLEAN /\ mixed \in BOOLEAN

TablesInv == UsersInv /\ StoredInv /\ PasswordInv /\ HeldInv /\ FlagsInv

-----------------------------------------------------------------------------
(* The properties, made inductive.                                         *)

\* A rule of an account is a user rule and has the account's name.
FollowInv ==
    \A r \in DOMAIN rules : target[r] # 0 =>
        /\ target[r] \in DOMAIN users /\ rules[r] # NoRule /\ rules[r].sel = "user"
        /\ users[target[r]] # NoUser => rules[r].who = users[target[r]].name

\* While no two requests for an account or a name overlapped: what a handler
\* read is what the table has, and only a deletion that has not forgotten the
\* password yet leaves one without its account.
Forgetting(c, n) == calls[c].op = "delete" /\ calls[c].pc = "forget" /\ calls[c].name = n
Current(n) == \E i \in DOMAIN users : users[i].name = n /\ users[i].hash = passwords[n]

ReadOK(h, table) ==
    /\ h.op \in {"update", "delete"} /\ h.pc = "store" => table[h.id].name = h.name
    /\ h.op = "create" => table[h.id].name = h.name /\ table[h.id].hash = h.password
    /\ h.op = "delete" /\ h.pc = "forget" => \A i \in DOMAIN table : table[i].name # h.name

ReadInv == \A c \in Clients : ReadOK(calls[c], users)

KeptInv ==
    \A n \in Names : passwords[n] # 0 => Current(n) \/ \E c \in Clients : Forgetting(c, n)

CurrentInv == ~raced => ReadInv /\ KeptInv

\* The listeners with rules of their own.
Scoped == {rules[i].listener : i \in {j \in DOMAIN rules : rules[j] # NoRule /\ IsListenerScoped(rules[j])}}

\* A synchronisation that is alone has the current listeners, and the rows it
\* has done are as it wants them.
Syncing(c) == calls[c].op = "rule" /\ calls[c].pc \in {"specs", "set"} /\ calls[c].alone
WiredInv ==
    /\ \A c \in Clients : Syncing(c) =>
         /\ \A d \in Clients \ {c} : calls[d].op # "rule"
         /\ calls[c].scoped = Scoped
         /\ calls[c].pc = "set" =>
              \A l \in Rows \ calls[c].todo : aclFile[l] \in {"gone", Want(l, calls[c].scoped)}
    /\ ~mixed /\ (\A c \in Clients : calls[c].op # "rule") =>
         \A l \in Rows : aclFile[l] # "gone" => (aclFile[l] = "own" <=> l \in Scoped)

-----------------------------------------------------------------------------
(* What the operators of the model return.                                 *)

LEMMA TextHas == {"", "user", "global"} \subseteq Text /\ Names \subseteq Text
  BY DEF Text

(* A valid rule is stored normalised, for the same user.                   *)
LEMMA NormalStored ==
    ASSUME NEW r \in Rule, ValidateRule(r)
    PROVE  /\ Normalize(r) \in Stored /\ Normalize(r).who = r.who
           /\ Normalize(r).sel = EffectiveSelector(r)
  <1> DEFINE l == IF IsListenerScoped(r) THEN r.listener ELSE ""
  <1>1. Normalize(r) = [r EXCEPT !.sel = EffectiveSelector(r), !.scope = EffectiveScope(r),
                                 !.listener = l]
    BY DEF Normalize, Rule
  <1>2. /\ EffectiveSelector(r) \in Selectors /\ EffectiveSelector(r) \in Text
        /\ EffectiveScope(r) \in {"global", "listener"} /\ EffectiveScope(r) \in Text
        /\ l \in Text /\ (EffectiveScope(r) # "listener" => l = "")
    <2>1. EffectiveSelector(r) \in Selectors /\ EffectiveScope(r) \in {"global", "listener"}
      BY DEF ValidateRule
    <2>2. EffectiveSelector(r) \in Text /\ EffectiveScope(r) \in Text
      BY TextHas DEF EffectiveSelector, EffectiveScope, Rule
    <2>3. l \in Text /\ (EffectiveScope(r) # "listener" => l = "")
      BY TextHas DEF IsListenerScoped, Rule
    <2>4. QED
      BY <2>1, <2>2, <2>3
  <1> HIDE DEF l
  <1>3. QED
    BY <1>1, <1>2 DEF Stored, Rule

(* Normalising a stored rule changes nothing.                              *)
LEMMA StoredNormal == \A r \in Stored : Normalize(r) = r
  <1> SUFFICES ASSUME NEW r \in Stored PROVE Normalize(r) = r
    OBVIOUS
  <1>1. /\ EffectiveSelector(r) = r.sel /\ EffectiveScope(r) = r.scope
        /\ (IF IsListenerScoped(r) THEN r.listener ELSE "") = r.listener
    BY DEF Stored, Rule, Selectors, EffectiveSelector, EffectiveScope,
       IsListenerScoped
  <1>2. QED
    BY <1>1 DEF Normalize, Stored, Rule

LEMMA NoRuleStored == NoRule \notin Stored
  BY DEF NoRule, Stored, Selectors

(* A rename keeps the table and all of a rule but its user.                *)
LEMMA CascadeWrites ==
    ASSUME StoredInv, NEW old \in Text, NEW new \in Text
    PROVE  /\ cascadeRename(old, new) \in Seq(Stored \cup {NoRule})
           /\ Len(cascadeRename(old, new)) = Len(rules)
           /\ DOMAIN cascadeRename(old, new) = DOMAIN rules
           /\ \A r \in DOMAIN rules :
                /\ rules[r] = NoRule => cascadeRename(old, new)[r] = NoRule
                /\ rules[r] # NoRule =>
                     /\ cascadeRename(old, new)[r] \in Stored
                     /\ cascadeRename(old, new)[r].sel = rules[r].sel
                     /\ cascadeRename(old, new)[r].scope = rules[r].scope
                     /\ cascadeRename(old, new)[r].listener = rules[r].listener
                     /\ cascadeRename(old, new)[r].who =
                          IF rules[r].sel = "user" /\ rules[r].who = old THEN new ELSE rules[r].who
  <1> DEFINE f == cascadeRename(old, new)
             R(r) == [r EXCEPT !.who = new]
  <1>1. \A r \in Stored : /\ R(r) \in Stored /\ R(r).sel = r.sel /\ R(r).scope = r.scope
                          /\ R(r).listener = r.listener /\ R(r).who = new
    BY DEF Stored, Rule
  <1>2. /\ DOMAIN f = DOMAIN rules /\ DOMAIN rules = 1..Len(rules) /\ Len(rules) \in Nat
        /\ \A r \in DOMAIN rules :
             f[r] = IF rules[r].sel = "user" /\ rules[r].who = old THEN R(rules[r]) ELSE rules[r]
    BY DEF cascadeRename, StoredInv
  <1>3. \A r \in DOMAIN rules : rules[r] \in Stored \/ rules[r] = NoRule
    BY DEF StoredInv
  <1>4. NoRule.sel # "user"
    BY DEF NoRule
  <1> HIDE DEF f, R
  <1>5. \A r \in DOMAIN rules : f[r] \in Stored \cup {NoRule}
    BY <1>1, <1>2, <1>3, <1>4
  <1>6. f = [r \in DOMAIN f |-> f[r]]
    BY DEF f, cascadeRename
  <1>7. f \in [1..Len(rules) -> Stored \cup {NoRule}]
    BY <1>2, <1>5, <1>6
  <1>8. f \in Seq(Stored \cup {NoRule}) /\ Len(f) = Len(rules)
    BY <1>2, <1>7
  <1>9. QED
    BY <1>1, <1>2, <1>3, <1>4, <1>8 DEF f

(* The id of a name: 0 when no account has it.                             *)
LEMMA ByName ==
    ASSUME UsersInv, NEW n
    PROVE  /\ GetMQTTUserByUsername(users, n) # 0 =>
                /\ GetMQTTUserByUsername(users, n) \in DOMAIN users
                /\ users[GetMQTTUserByUsername(users, n)].name = n /\ n # ""
           /\ \A j \in DOMAIN users : n # "" /\ users[j].name = n =>
                j = GetMQTTUserByUsername(users, n)
  <1> DEFINE ids == {i \in DOMAIN users : n # "" /\ users[i].name = n}
  <1>1. CASE ids = {}
    BY <1>1 DEF GetMQTTUserByUsername
  <1>2. CASE ids # {}
    <2>1. PICK k : k = GetMQTTUserByUsername(users, n)
      OBVIOUS
    <2>2. k = CHOOSE i \in ids : TRUE
      BY <1>2, <2>1 DEF GetMQTTUserByUsername
    <2>3. k \in ids
      BY <1>2, <2>2
    <2>4. \A j \in ids : j = k
      BY <2>3 DEF UsersInv
    <2>5. QED
      BY <2>1, <2>3, <2>4
  <1>3. QED
    BY <1>1, <1>2

LEMMA CallHeld ==
    ASSUME NEW op \in {"idle", "create", "update", "delete", "reset", "rule"},
           NEW pc \in {"", "remember", "store", "forget", "rules", "specs", "set"},
           NEW id \in Nat, NEW name \in Names \cup {""}
    PROVE  Call(op, pc, id, name) \in Held
  BY DEF Call, Held

LEMMA IdleHeld == Idle \in Held /\ Idle.op = "idle" /\ Idle.password = 0
  BY CallHeld DEF Idle, Call


-----------------------------------------------------------------------------
(* The accounts.                                                           *)

LEMMA Indexed ==
    ASSUME UsersInv
    PROVE  /\ users \in Seq(Row) /\ Len(users) \in Nat /\ DOMAIN users = 1..Len(users)
           /\ 0 \notin DOMAIN users /\ \A i \in DOMAIN users : users[i] \in Row
  <1>1. users \in Seq(Row)
    BY DEF UsersInv
  <1>2. Len(users) \in Nat /\ DOMAIN users = 1..Len(users) /\ \A i \in DOMAIN users : users[i] \in Row
    BY <1>1
  <1>3. 0 \notin DOMAIN users
    BY <1>2
  <1>4. QED
    BY <1>1, <1>2, <1>3

LEMMA UsersReplaced ==
    ASSUME users \in Seq(Row), NEW i \in DOMAIN users, NEW row \in Row, users' = [users EXCEPT ![i] = row]
    PROVE  /\ users' \in Seq(Row) /\ DOMAIN users' = DOMAIN users /\ Len(users') = Len(users)
           /\ users'[i] = row /\ \A j \in DOMAIN users \ {i} : users'[j] = users[j]
  OBVIOUS

LEMMA UsersAdded ==
    ASSUME users \in Seq(Row), NEW row \in Row, users' = Append(users, row)
    PROVE  /\ users' \in Seq(Row) /\ Len(users') = Len(users) + 1 /\ Len(users) \in Nat
           /\ DOMAIN users' = DOMAIN users \cup {Len(users) + 1} /\ Len(users) + 1 \notin DOMAIN users
           /\ users'[Len(users) + 1] = row /\ \A j \in DOMAIN users : users'[j] = users[j]
  OBVIOUS

(* A row replaced by NoUser or by one with a free name.                    *)
LEMMA RowReplaced ==
    ASSUME UsersInv, NEW i \in DOMAIN users, NEW row \in Row,
           row = NoUser \/ (row.name # "" /\ \A j \in DOMAIN users : users[j].name = row.name => j = i),
           users' = [users EXCEPT ![i] = row]
    PROVE  /\ UsersInv' /\ DOMAIN users' = DOMAIN users /\ Len(users') = Len(users)
           /\ users'[i] = row /\ \A j \in DOMAIN users \ {i} : users'[j] = users[j]
  <1>1. /\ users' \in Seq(Row) /\ DOMAIN users' = DOMAIN users /\ Len(users') = Len(users)
        /\ users'[i] = row /\ \A j \in DOMAIN users \ {i} : users'[j] = users[j]
    BY UsersReplaced, Indexed
  <1>2. NoUser.name = ""
    BY DEF NoUser
  <1>3. QED
    BY <1>1, <1>2 DEF UsersInv

(* What updateMQTTUser writes when it does not refuse.                     *)
LEMMA RowWritten ==
    ASSUME UsersInv, HeldInv, NEW c \in Clients, calls[c].op \in {"update", "reset"}, ~Refused(c)
    PROVE  /\ calls[c].id \in DOMAIN users /\ users[calls[c].id] # NoUser
           /\ users[calls[c].id].name # "" /\ users[calls[c].id].name \in Names
           /\ Updated(users[calls[c].id], calls[c]) \in Row
           /\ Updated(users[calls[c].id], calls[c]).name # ""
           /\ Updated(users[calls[c].id], calls[c]).name \in Names
           /\ \A j \in DOMAIN users :
                users[j].name = Updated(users[calls[c].id], calls[c]).name => j = calls[c].id
           /\ Updated(users[calls[c].id], calls[c]).hash =
                IF calls[c].password = 0 THEN users[calls[c].id].hash ELSE calls[c].password
           /\ calls[c].new = "" => Updated(users[calls[c].id], calls[c]).name = users[calls[c].id].name
  <1> DEFINE i == calls[c].id
             row == Updated(users[i], calls[c])
  <1>1. i \in DOMAIN users /\ users[i] # NoUser
    BY DEF Refused, GetMQTTUser
  <1>2. users[i].name # "" /\ users[i] \in Row
    BY <1>1, Indexed DEF UsersInv
  <1>3. calls[c] \in Held
    BY DEF HeldInv
  <1>4. /\ row \in Row /\ row.name # "" /\ (calls[c].new = "" => row.name = users[i].name)
        /\ row.hash = IF calls[c].password = 0 THEN users[i].hash ELSE calls[c].password
    BY <1>2, <1>3 DEF Updated, Row, Held
  <1>5. GetMQTTUserByUsername(users, row.name) \in {0, i}
    BY DEF Refused
  <1>6. row.name \in Names /\ users[i].name \in Names
    BY <1>2, <1>4 DEF Row
  <1> HIDE DEF row
  <1>7. \A j \in DOMAIN users : users[j].name = row.name => j = i
    <2>1. 0 \notin DOMAIN users
      BY Indexed
    <2>2. QED
      BY <1>4, <1>5, <2>1, ByName
  <1>8. QED
    BY <1>1, <1>2, <1>4, <1>6, <1>7 DEF row

LEMMA RowAdded ==
    ASSUME UsersInv, NEW row \in Row, row.name # "", \A j \in DOMAIN users : users[j].name # row.name,
           users' = Append(users, row)
    PROVE  /\ UsersInv' /\ Len(users') = Len(users) + 1 /\ Len(users) \in Nat
           /\ DOMAIN users' = DOMAIN users \cup {Len(users) + 1} /\ Len(users) + 1 \notin DOMAIN users
           /\ users'[Len(users) + 1] = row /\ \A j \in DOMAIN users : users'[j] = users[j]
  <1>1. /\ users' \in Seq(Row) /\ Len(users') = Len(users) + 1 /\ Len(users) \in Nat
        /\ DOMAIN users' = DOMAIN users \cup {Len(users) + 1} /\ Len(users) + 1 \notin DOMAIN users
        /\ users'[Len(users) + 1] = row /\ \A j \in DOMAIN users : users'[j] = users[j]
    BY UsersAdded, Indexed
  <1>2. \A j \in DOMAIN users' : users'[j].name = row.name => j = Len(users) + 1
    BY <1>1
  <1>3. UsersInv'
    <2>1. \A i \in DOMAIN users' : users'[i] = NoUser \/ users'[i].name # ""
      BY <1>1 DEF UsersInv
    <2>2. ASSUME NEW i \in DOMAIN users', NEW j \in DOMAIN users',
                 users'[i].name = users'[j].name, users'[i].name # ""
          PROVE  i = j
      <3>1. CASE i \in DOMAIN users /\ j \in DOMAIN users
        BY <1>1, <2>2, <3>1 DEF UsersInv
      <3>2. CASE i = Len(users) + 1 \/ j = Len(users) + 1
        BY <1>1, <1>2, <2>2, <3>2
      <3>3. QED
        BY <1>1, <3>1, <3>2
    <2>3. QED
      BY <1>1, <2>1, <2>2 DEF UsersInv
  <1>4. QED
    BY <1>1, <1>3

LEMMA RowCreated ==
    ASSUME TablesInv, NEW c \in Clients, NEW n \in Names, CreateMQTTUser(c, n)
    PROVE  /\ UsersInv' /\ Len(users') = Len(users) + 1 /\ Len(users) \in Nat
           /\ DOMAIN users' = DOMAIN users \cup {Len(users) + 1} /\ Len(users) + 1 \notin DOMAIN users
           /\ users'[Len(users) + 1].name = n /\ users'[Len(users) + 1].hash = issued + 1
           /\ n # "" /\ \A j \in DOMAIN users : users'[j] = users[j] /\ users[j].name # n
  <1> DEFINE row == [name |-> n, hash |-> issued + 1, disabled |-> FALSE]
  <1>1. row \in Row /\ row.name = n /\ row.hash = issued + 1
    <2>1. issued + 1 \in Nat
      BY DEF TablesInv, PasswordInv
    <2>2. QED
      BY <2>1 DEF Row
  <1>2. n # "" /\ GetMQTTUserByUsername(users, n) = 0 /\ users' = Append(users, row)
    BY DEF CreateMQTTUser, ValidateMQTTUsername
  <1> HIDE DEF row
  <1>3. 0 \notin DOMAIN users
    BY Indexed DEF TablesInv
  <1>4. \A j \in DOMAIN users : users[j].name # n
    BY <1>2, <1>3, ByName DEF TablesInv
  <1>5. QED
    BY <1>1, <1>2, <1>4, RowAdded DEF TablesInv

LEMMA RowUpdated ==
    ASSUME TablesInv, NEW c \in Clients, updateMQTTUser(c) \/ UpdateMQTTUserAndRun(c), ~Refused(c)
    PROVE  /\ UsersInv' /\ DOMAIN users' = DOMAIN users /\ Len(users') = Len(users)
           /\ users'[calls[c].id] = Updated(users[calls[c].id], calls[c])
           /\ \A j \in DOMAIN users \ {calls[c].id} : users'[j] = users[j]
  <1> DEFINE i == calls[c].id
             row == Updated(users[i], calls[c])
  <1>1. calls[c].op \in {"update", "reset"} /\ users' = [users EXCEPT ![i] = row]
    BY DEF updateMQTTUser, UpdateMQTTUserAndRun, Busy
  <1>2. /\ i \in DOMAIN users /\ row \in Row /\ row.name # ""
        /\ \A j \in DOMAIN users : users[j].name = row.name => j = i
    BY <1>1, RowWritten DEF TablesInv
  <1> HIDE DEF row, i
  <1>3. QED
    BY <1>1, <1>2, RowReplaced DEF TablesInv, row, i

LEMMA RowDeleted ==
    ASSUME TablesInv, NEW c \in Clients, DeleteMQTTUser(c), GetMQTTUser(calls[c].id)
    PROVE  /\ UsersInv' /\ DOMAIN users' = DOMAIN users /\ Len(users') = Len(users)
           /\ users'[calls[c].id] = NoUser
           /\ \A j \in DOMAIN users \ {calls[c].id} : users'[j] = users[j]
  <1>1. NoUser \in Row
    BY DEF NoUser, Row
  <1>2. calls[c].id \in DOMAIN users /\ users' = [users EXCEPT ![calls[c].id] = NoUser]
    BY DEF DeleteMQTTUser, GetMQTTUser
  <1>3. QED
    BY <1>1, <1>2, RowReplaced DEF TablesInv

(* The listener configuration: an apply disturbs the synchronisations or   *)
(* finds the rows as they were.                                            *)
LEMMA ListenerSteps ==
    ASSUME TablesInv, ListenerStep
    PROVE  /\ UNCHANGED <<users, passwords, issued, raced, rules, target>>
           /\ calls' \in [Clients -> Held]
           /\ \A d \in Clients : calls'[d] = calls[d] \/ (calls[d].op = "rule" /\ calls'[d].op = "rule")
           /\ \A d \in Clients : calls'[d].password = calls[d].password
           /\ \/ UNCHANGED <<calls, aclFile, mixed>>
              \/ mixed' /\ \A d \in Clients : calls'[d].op = "rule" => ~calls'[d].alone
  <1>0. \A d \in Clients : calls[d] \in Held
    BY DEF TablesInv, HeldInv
  <1>1. ASSUME NEW rows \in [Rows -> Options], Preview(rows)
        PROVE  UNCHANGED <<users, passwords, issued, raced, rules, target, calls, aclFile, mixed>>
    BY <1>1 DEF Preview, accounts
  <1>2. ASSUME NEW entry \in previews, ReplaceAllListenerSpecs(entry)
        PROVE  /\ UNCHANGED <<users, passwords, issued, raced, rules, target>>
               /\ UNCHANGED <<calls, aclFile, mixed>> \/ (mixed' /\ calls' = Interrupted)
    BY <1>2 DEF ReplaceAllListenerSpecs, accounts
  <1>3. /\ Interrupted \in [Clients -> Held]
        /\ \A d \in Clients :
             /\ Interrupted[d] = calls[d] \/ (calls[d].op = "rule" /\ Interrupted[d].op = "rule")
             /\ Interrupted[d].password = calls[d].password
             /\ Interrupted[d].op = "rule" => ~Interrupted[d].alone
    <2> DEFINE x(d) == [calls[d] EXCEPT !.alone = FALSE]
    <2>1. \A d \in Clients : /\ x(d) \in Held /\ x(d).op = calls[d].op
                             /\ x(d).password = calls[d].password /\ ~x(d).alone
      BY <1>0 DEF Held
    <2>2. Interrupted = [d \in Clients |-> IF calls[d].op = "rule" THEN x(d) ELSE calls[d]]
      BY DEF Interrupted
    <2> HIDE DEF x
    <2>3. QED
      BY <1>0, <2>1, <2>2
  <1>4. calls \in [Clients -> Held]
    BY DEF TablesInv, HeldInv
  <1>5. QED
    BY <1>1, <1>2, <1>3, <1>4 DEF ListenerStep

LEMMA ListenerTables ==
    ASSUME TablesInv, ListenerStep
    PROVE  aclFile' \in [Rows -> Options] /\ previews' \subseteq Entry /\ UNCHANGED <<rules, target>>
  <1>0. aclFile \in [Rows -> Options] /\ previews \subseteq Entry
    BY DEF TablesInv, StoredInv
  <1>1. ASSUME NEW rows \in [Rows -> Options], Preview(rows)
        PROVE  aclFile' \in [Rows -> Options] /\ previews' \subseteq Entry
    <2>1. Fits(rows) \in BOOLEAN
      BY DEF Fits
    <2>2. [rows |-> rows, fits |-> Fits(rows)] \in Entry
      BY <2>1 DEF Entry
    <2>3. QED
      BY <1>0, <1>1, <2>2 DEF Preview
  <1>2. ASSUME NEW entry \in previews, ReplaceAllListenerSpecs(entry)
        PROVE  aclFile' \in [Rows -> Options] /\ previews' \subseteq Entry
    <2>1. entry.rows \in [Rows -> Options]
      BY <1>0 DEF Entry
    <2>2. QED
      BY <1>0, <1>2, <2>1 DEF ReplaceAllListenerSpecs
  <1>3. QED
    BY <1>1, <1>2, ListenerSteps DEF ListenerStep

LEMMA StepUsers == TablesInv /\ [Next]_vars => UsersInv' /\ DOMAIN users \subseteq DOMAIN users'
  <1> SUFFICES ASSUME TablesInv, [Next]_vars PROVE UsersInv' /\ DOMAIN users \subseteq DOMAIN users'
    OBVIOUS
  <1>1. ASSUME NEW c \in Clients, NEW n \in Names, CreateMQTTUser(c, n)
        PROVE  UsersInv' /\ DOMAIN users \subseteq DOMAIN users'
    BY <1>1, RowCreated
  <1>2. ASSUME NEW c \in Clients, NEW i \in DOMAIN users, NEW new \in Names \cup {""},
              NEW disable \in {"keep", "yes", "no"}, handleUpdateMQTTUser(c, i, new, disable) PROVE UsersInv' /\ DOMAIN users \subseteq DOMAIN users'
    BY <1>2 DEF handleUpdateMQTTUser, TablesInv, UsersInv, accounts, StoreRule
  <1>3. ASSUME NEW c \in Clients, NEW i \in DOMAIN users, handleDeleteMQTTUser(c, i)
        PROVE  UsersInv' /\ DOMAIN users \subseteq DOMAIN users'
    BY <1>3 DEF handleDeleteMQTTUser, TablesInv, UsersInv, accounts, StoreRule
  <1>4. ASSUME NEW c \in Clients, NEW i \in DOMAIN users, handleResetMQTTUserPassword(c, i)
        PROVE  UsersInv' /\ DOMAIN users \subseteq DOMAIN users'
    BY <1>4
       DEF handleResetMQTTUserPassword, TablesInv, UsersInv, accounts, StoreRule
  <1>5. ASSUME NEW c \in Clients, handleCreateMQTTUser(c)
        PROVE  UsersInv' /\ DOMAIN users \subseteq DOMAIN users'
    BY <1>5 DEF handleCreateMQTTUser, TablesInv, UsersInv, accounts, StoreRule
  <1>6. ASSUME NEW c \in Clients, updateMQTTUser(c)
        PROVE  UsersInv' /\ DOMAIN users \subseteq DOMAIN users'
    <2>1. CASE Refused(c)
      BY <1>6, <2>1 DEF updateMQTTUser, TablesInv, UsersInv
    <2>2. CASE ~Refused(c)
      BY <1>6, <2>2, RowUpdated
    <2>3. QED
      BY <2>1, <2>2
  <1>7. ASSUME NEW c \in Clients, forgetDisabled(c)
        PROVE  UsersInv' /\ DOMAIN users \subseteq DOMAIN users'
    BY <1>7 DEF forgetDisabled, TablesInv, UsersInv, accounts, StoreRule
  <1>8. ASSUME NEW c \in Clients, ReadBackFails(c)
        PROVE  UsersInv' /\ DOMAIN users \subseteq DOMAIN users'
    BY <1>8 DEF ReadBackFails, TablesInv, UsersInv, accounts, StoreRule
  <1>9. ASSUME NEW c \in Clients, DeleteMQTTUser(c)
        PROVE  UsersInv' /\ DOMAIN users \subseteq DOMAIN users'
    <2>1. CASE ~GetMQTTUser(calls[c].id)
      BY <1>9, <2>1 DEF DeleteMQTTUser, TablesInv, UsersInv
    <2>2. CASE GetMQTTUser(calls[c].id)
      BY <1>9, <2>2, RowDeleted
    <2>3. QED
      BY <2>1, <2>2
  <1>10. ASSUME NEW c \in Clients, forgetDeleted(c)
         PROVE  UsersInv' /\ DOMAIN users \subseteq DOMAIN users'
    BY <1>10 DEF forgetDeleted, TablesInv, UsersInv, accounts, StoreRule
  <1>11. ASSUME NEW c \in Clients, UpdateMQTTUserAndRun(c)
         PROVE  UsersInv' /\ DOMAIN users \subseteq DOMAIN users'
    <2>1. CASE Refused(c)
      BY <1>11, <2>1 DEF UpdateMQTTUserAndRun, TablesInv, UsersInv
    <2>2. CASE ~Refused(c)
      BY <1>11, <2>2, RowUpdated
    <2>3. QED
      BY <2>1, <2>2
  <1>12. ASSUME NEW c \in Clients, NEW r \in Pool, handleCreateRule(c, r)
         PROVE  UsersInv' /\ DOMAIN users \subseteq DOMAIN users'
    BY <1>12 DEF handleCreateRule, TablesInv, UsersInv, accounts, StoreRule
  <1>13. ASSUME NEW c \in Clients, NEW i \in DOMAIN rules, NEW r \in Pool, handleUpdateRule(c, i, r)
         PROVE  UsersInv' /\ DOMAIN users \subseteq DOMAIN users'
    BY <1>13 DEF handleUpdateRule, TablesInv, UsersInv, accounts, StoreRule
  <1>14. ASSUME NEW c \in Clients, NEW i \in DOMAIN rules, handleDeleteRule(c, i)
         PROVE  UsersInv' /\ DOMAIN users \subseteq DOMAIN users'
    BY <1>14 DEF handleDeleteRule, TablesInv, UsersInv, accounts, StoreRule
  <1>15. ASSUME NEW c \in Clients, SyncRules(c)
         PROVE  UsersInv' /\ DOMAIN users \subseteq DOMAIN users'
    BY <1>15 DEF SyncRules, TablesInv, UsersInv, accounts, StoreRule
  <1>16. ASSUME NEW c \in Clients, SyncSpecs(c)
         PROVE  UsersInv' /\ DOMAIN users \subseteq DOMAIN users'
    BY <1>16 DEF SyncSpecs, TablesInv, UsersInv, accounts, StoreRule
  <1>17. ASSUME NEW c \in Clients, setACLFile(c)
         PROVE  UsersInv' /\ DOMAIN users \subseteq DOMAIN users'
    BY <1>17 DEF setACLFile, TablesInv, UsersInv, accounts, StoreRule
  <1>18. ASSUME NEW c \in Clients, SyncFails(c)
         PROVE  UsersInv' /\ DOMAIN users \subseteq DOMAIN users'
    BY <1>18 DEF SyncFails, TablesInv, UsersInv, accounts, StoreRule
  <1>19. ASSUME NEW c \in Clients, SyncDone(c)
         PROVE  UsersInv' /\ DOMAIN users \subseteq DOMAIN users'
    BY <1>19 DEF SyncDone, TablesInv, UsersInv, accounts, StoreRule
  <1>20. CASE Restart
    BY <1>20 DEF Restart, TablesInv, UsersInv, accounts, StoreRule
  <1>21. CASE UNCHANGED vars
    BY <1>21 DEF vars, TablesInv, UsersInv, accounts, StoreRule
  <1>22. CASE ListenerStep
    BY <1>22, ListenerSteps DEF TablesInv, UsersInv
  <1>23. QED
    BY <1>1, <1>2, <1>3, <1>4, <1>5, <1>6, <1>7, <1>8, <1>9, <1>10, <1>11,
       <1>12, <1>13, <1>14, <1>15, <1>16, <1>17, <1>18, <1>19, <1>20, <1>21, <1>22
       DEF Next, AccountStep, RuleStep

-----------------------------------------------------------------------------
(* The rules and the listeners' rows.                                      *)

LEMMA RulesReplaced ==
    ASSUME rules \in Seq(Stored \cup {NoRule}), target \in Seq(Nat), Len(target) = Len(rules),
           NEW i \in DOMAIN rules, NEW r \in Stored \cup {NoRule}, NEW k \in Nat,
           rules' = [rules EXCEPT ![i] = r], target' = [target EXCEPT ![i] = k]
    PROVE  /\ rules' \in Seq(Stored \cup {NoRule}) /\ target' \in Seq(Nat)
           /\ Len(target') = Len(rules') /\ DOMAIN rules' = DOMAIN rules
           /\ rules'[i] = r /\ target'[i] = k
           /\ \A j \in DOMAIN rules \ {i} : rules'[j] = rules[j] /\ target'[j] = target[j]
  <1>1. /\ rules' \in Seq(Stored \cup {NoRule}) /\ Len(rules') = Len(rules)
        /\ DOMAIN rules' = DOMAIN rules
        /\ rules'[i] = r /\ \A j \in DOMAIN rules \ {i} : rules'[j] = rules[j]
    OBVIOUS
  <1>2. DOMAIN target = DOMAIN rules
    OBVIOUS
  <1>3. /\ target' \in Seq(Nat) /\ Len(target') = Len(target)
        /\ target'[i] = k /\ \A j \in DOMAIN target \ {i} : target'[j] = target[j]
    BY <1>2
  <1>4. QED
    BY <1>1, <1>2, <1>3

LEMMA RulesAdded ==
    ASSUME rules \in Seq(Stored \cup {NoRule}), target \in Seq(Nat), Len(target) = Len(rules),
           NEW r \in Stored \cup {NoRule}, NEW k \in Nat,
           rules' = Append(rules, r), target' = Append(target, k)
    PROVE  /\ rules' \in Seq(Stored \cup {NoRule}) /\ target' \in Seq(Nat)
           /\ Len(target') = Len(rules') /\ DOMAIN rules' = DOMAIN rules \cup {Len(rules) + 1}
           /\ Len(rules) + 1 \notin DOMAIN rules
           /\ rules'[Len(rules) + 1] = r /\ target'[Len(rules) + 1] = k
           /\ \A j \in DOMAIN rules : rules'[j] = rules[j] /\ target'[j] = target[j]
  <1>1. /\ rules' \in Seq(Stored \cup {NoRule}) /\ Len(rules') = Len(rules) + 1
        /\ DOMAIN rules' = DOMAIN rules \cup {Len(rules) + 1} /\ Len(rules) + 1 \notin DOMAIN rules
        /\ rules'[Len(rules) + 1] = r /\ \A j \in DOMAIN rules : rules'[j] = rules[j]
    OBVIOUS
  <1>2. DOMAIN target = DOMAIN rules
    OBVIOUS
  <1>3. /\ target' \in Seq(Nat) /\ Len(target') = Len(target) + 1
        /\ target'[Len(target) + 1] = k /\ \A j \in DOMAIN target : target'[j] = target[j]
    OBVIOUS
  <1>4. QED
    BY <1>1, <1>2, <1>3

(* The account a posted rule is for.                                       *)
LEMMA OwnerIs ==
    ASSUME UsersInv, NEW r
    PROVE  /\ OwnerOf(r) \in Nat
           /\ OwnerOf(r) # 0 => /\ OwnerOf(r) \in DOMAIN users /\ users[OwnerOf(r)].name = r.who
                                /\ EffectiveSelector(r) = "user"
  <1>1. CASE IsUserScoped(r)
    <2>1. OwnerOf(r) = GetMQTTUserByUsername(users, r.who) /\ EffectiveSelector(r) = "user"
      BY <1>1 DEF OwnerOf, IsUserScoped
    <2>2. OwnerOf(r) # 0 => OwnerOf(r) \in DOMAIN users /\ users[OwnerOf(r)].name = r.who
      BY <2>1, ByName
    <2>3. OwnerOf(r) \in Nat
      BY <2>2, Indexed
    <2>4. QED
      BY <2>1, <2>2, <2>3
  <1>2. CASE ~IsUserScoped(r)
    BY <1>2 DEF OwnerOf
  <1>3. QED
    BY <1>1, <1>2

LEMMA RuleCreated ==
    ASSUME TablesInv, NEW c \in Clients, NEW r \in Pool, handleCreateRule(c, r)
    PROVE  /\ rules' \in Seq(Stored \cup {NoRule}) /\ target' \in Seq(Nat)
           /\ Len(target') = Len(rules') /\ DOMAIN rules' = DOMAIN rules \cup {Len(rules) + 1}
           /\ Len(rules) + 1 \notin DOMAIN rules
           /\ rules'[Len(rules) + 1] = Normalize(r) /\ target'[Len(rules) + 1] = OwnerOf(r)
           /\ \A j \in DOMAIN rules : rules'[j] = rules[j] /\ target'[j] = target[j]
           /\ Normalize(r) \in Stored /\ Normalize(r).who = r.who
           /\ Normalize(r).sel = EffectiveSelector(r)
  <1>1. ValidateRule(r) /\ rules' = Append(rules, Normalize(r)) /\ target' = Append(target, OwnerOf(r))
    BY DEF handleCreateRule, StoreRule
  <1>2. /\ Normalize(r) \in Stored /\ Normalize(r).who = r.who
        /\ Normalize(r).sel = EffectiveSelector(r)
    BY <1>1, NormalStored, AccessAssumption
  <1>3. OwnerOf(r) \in Nat
    BY OwnerIs DEF TablesInv
  <1>4. rules \in Seq(Stored \cup {NoRule}) /\ target \in Seq(Nat) /\ Len(target) = Len(rules)
    BY DEF TablesInv, StoredInv
  <1>5. PICK x \in Stored \cup {NoRule}, k \in Nat : x = Normalize(r) /\ k = OwnerOf(r)
    BY <1>2, <1>3
  <1>6. rules' = Append(rules, x) /\ target' = Append(target, k)
    BY <1>1, <1>5
  <1>7. /\ rules' \in Seq(Stored \cup {NoRule}) /\ target' \in Seq(Nat)
        /\ Len(target') = Len(rules') /\ DOMAIN rules' = DOMAIN rules \cup {Len(rules) + 1}
        /\ Len(rules) + 1 \notin DOMAIN rules
        /\ rules'[Len(rules) + 1] = x /\ target'[Len(rules) + 1] = k
        /\ \A j \in DOMAIN rules : rules'[j] = rules[j] /\ target'[j] = target[j]
    BY <1>4, <1>6, RulesAdded
  <1>8. QED
    BY <1>2, <1>5, <1>7

LEMMA RuleUpdated ==
    ASSUME TablesInv, NEW c \in Clients, NEW i \in DOMAIN rules, NEW r \in Pool, handleUpdateRule(c, i, r)
    PROVE  /\ rules' \in Seq(Stored \cup {NoRule}) /\ target' \in Seq(Nat)
           /\ Len(target') = Len(rules') /\ DOMAIN rules' = DOMAIN rules
           /\ rules'[i] = Normalize(r) /\ target'[i] = OwnerOf(r)
           /\ \A j \in DOMAIN rules \ {i} : rules'[j] = rules[j] /\ target'[j] = target[j]
           /\ Normalize(r) \in Stored /\ Normalize(r).who = r.who
           /\ Normalize(r).sel = EffectiveSelector(r)
  <1>1. /\ ValidateRule(r) /\ rules' = [rules EXCEPT ![i] = Normalize(r)]
        /\ target' = [target EXCEPT ![i] = OwnerOf(r)]
    BY DEF handleUpdateRule, StoreRule
  <1>2. /\ Normalize(r) \in Stored /\ Normalize(r).who = r.who
        /\ Normalize(r).sel = EffectiveSelector(r)
    BY <1>1, NormalStored, AccessAssumption
  <1>3. OwnerOf(r) \in Nat
    BY OwnerIs DEF TablesInv
  <1>4. rules \in Seq(Stored \cup {NoRule}) /\ target \in Seq(Nat) /\ Len(target) = Len(rules)
    BY DEF TablesInv, StoredInv
  <1>5. PICK x \in Stored \cup {NoRule}, k \in Nat : x = Normalize(r) /\ k = OwnerOf(r)
    BY <1>2, <1>3
  <1>6. rules' = [rules EXCEPT ![i] = x] /\ target' = [target EXCEPT ![i] = k]
    BY <1>1, <1>5
  <1>7. /\ rules' \in Seq(Stored \cup {NoRule}) /\ target' \in Seq(Nat)
        /\ Len(target') = Len(rules') /\ DOMAIN rules' = DOMAIN rules
        /\ rules'[i] = x /\ target'[i] = k
        /\ \A j \in DOMAIN rules \ {i} : rules'[j] = rules[j] /\ target'[j] = target[j]
    BY <1>4, <1>6, RulesReplaced
  <1>8. QED
    BY <1>2, <1>5, <1>7

LEMMA RuleDeleted ==
    ASSUME TablesInv, NEW c \in Clients, NEW i \in DOMAIN rules, handleDeleteRule(c, i)
    PROVE  /\ rules' \in Seq(Stored \cup {NoRule}) /\ target' \in Seq(Nat)
           /\ Len(target') = Len(rules') /\ DOMAIN rules' = DOMAIN rules
           /\ rules'[i] = NoRule /\ target'[i] = 0
           /\ \A j \in DOMAIN rules \ {i} : rules'[j] = rules[j] /\ target'[j] = target[j]
  <1>1. /\ rules' = [rules EXCEPT ![i] = NoRule] /\ target' = [target EXCEPT ![i] = 0]
    BY DEF handleDeleteRule, StoreRule
  <1>2. rules \in Seq(Stored \cup {NoRule}) /\ target \in Seq(Nat) /\ Len(target) = Len(rules)
    BY DEF TablesInv, StoredInv
  <1>3. NoRule \in Stored \cup {NoRule} /\ 0 \in Nat
    OBVIOUS
  <1>4. QED
    BY <1>1, <1>2, <1>3, RulesReplaced

(* A rename leaves the shape of the rules.                                 *)
LEMMA RulesRenamed ==
    ASSUME TablesInv, NEW c \in Clients, updateMQTTUser(c), ~Refused(c)
    PROVE  /\ rules' = cascadeRename(users[calls[c].id].name, users'[calls[c].id].name)
           /\ users[calls[c].id].name \in Text /\ users'[calls[c].id].name \in Text
  <1>1. calls[c].op = "update"
    BY DEF updateMQTTUser, Busy
  <1>2. /\ users[calls[c].id].name \in Names
        /\ Updated(users[calls[c].id], calls[c]).name \in Names
    BY <1>1, RowWritten DEF TablesInv
  <1>3. users'[calls[c].id] = Updated(users[calls[c].id], calls[c])
    BY RowUpdated
  <1>4. rules' = cascadeRename(users[calls[c].id].name, Updated(users[calls[c].id], calls[c]).name)
    BY DEF updateMQTTUser
  <1>5. QED
    BY <1>2, <1>3, <1>4, TextHas

LEMMA StepStored == TablesInv /\ [Next]_vars => StoredInv'
  <1> SUFFICES ASSUME TablesInv, [Next]_vars PROVE StoredInv'
    OBVIOUS
  <1>1. ASSUME NEW c \in Clients, NEW n \in Names, CreateMQTTUser(c, n)
        PROVE  StoredInv'
    BY <1>1 DEF CreateMQTTUser, TablesInv, StoredInv, scopes, kept
  <1>2. ASSUME NEW c \in Clients, NEW i \in DOMAIN users, NEW new \in Names \cup {""},
              NEW disable \in {"keep", "yes", "no"}, handleUpdateMQTTUser(c, i, new, disable) PROVE StoredInv'
    BY <1>2 DEF handleUpdateMQTTUser, TablesInv, StoredInv, scopes, kept
  <1>3. ASSUME NEW c \in Clients, NEW i \in DOMAIN users, handleDeleteMQTTUser(c, i)
        PROVE  StoredInv'
    BY <1>3 DEF handleDeleteMQTTUser, TablesInv, StoredInv, scopes, kept
  <1>4. ASSUME NEW c \in Clients, NEW i \in DOMAIN users, handleResetMQTTUserPassword(c, i)
        PROVE  StoredInv'
    BY <1>4 DEF handleResetMQTTUserPassword, TablesInv, StoredInv, scopes, kept
  <1>5. ASSUME NEW c \in Clients, handleCreateMQTTUser(c) PROVE StoredInv'
    BY <1>5 DEF handleCreateMQTTUser, TablesInv, StoredInv, scopes, kept
  <1>6. ASSUME NEW c \in Clients, updateMQTTUser(c) PROVE StoredInv'
    <2>1. CASE Refused(c)
      BY <1>6, <2>1 DEF updateMQTTUser, TablesInv, StoredInv, scopes, kept
    <2>2. CASE ~Refused(c)
      <3>1. UNCHANGED <<target, aclFile, previews>>
        BY <1>6 DEF updateMQTTUser, scopes, kept
      <3>2. StoredInv
        BY DEF TablesInv
      <3>3. rules' \in Seq(Stored \cup {NoRule}) /\ Len(rules') = Len(rules)
        BY <1>6, <2>2, <3>2, RulesRenamed, CascadeWrites
      <3>4. QED
        BY <3>1, <3>2, <3>3 DEF StoredInv
    <2>3. QED
      BY <2>1, <2>2
  <1>7. ASSUME NEW c \in Clients, forgetDisabled(c) PROVE StoredInv'
    BY <1>7 DEF forgetDisabled, TablesInv, StoredInv, scopes, kept
  <1>8. ASSUME NEW c \in Clients, ReadBackFails(c) PROVE StoredInv'
    BY <1>8 DEF ReadBackFails, TablesInv, StoredInv, scopes, kept
  <1>9. ASSUME NEW c \in Clients, DeleteMQTTUser(c) PROVE StoredInv'
    BY <1>9 DEF DeleteMQTTUser, TablesInv, StoredInv, scopes, kept
  <1>10. ASSUME NEW c \in Clients, forgetDeleted(c) PROVE StoredInv'
    BY <1>10 DEF forgetDeleted, TablesInv, StoredInv, scopes, kept
  <1>11. ASSUME NEW c \in Clients, UpdateMQTTUserAndRun(c) PROVE StoredInv'
    BY <1>11 DEF UpdateMQTTUserAndRun, TablesInv, StoredInv, scopes, kept
  <1>12. ASSUME NEW c \in Clients, NEW r \in Pool, handleCreateRule(c, r)
         PROVE  StoredInv'
    <2>1. UNCHANGED <<aclFile, previews>>
      BY <1>12 DEF handleCreateRule, StoreRule, scopes, kept
    <2>2. QED
      BY <1>12, <2>1, RuleCreated DEF TablesInv, StoredInv
  <1>13. ASSUME NEW c \in Clients, NEW i \in DOMAIN rules, NEW r \in Pool, handleUpdateRule(c, i, r)
         PROVE  StoredInv'
    <2>1. UNCHANGED <<aclFile, previews>>
      BY <1>13 DEF handleUpdateRule, StoreRule, scopes, kept
    <2>2. QED
      BY <1>13, <2>1, RuleUpdated DEF TablesInv, StoredInv
  <1>14. ASSUME NEW c \in Clients, NEW i \in DOMAIN rules, handleDeleteRule(c, i)
         PROVE  StoredInv'
    <2>1. UNCHANGED <<aclFile, previews>>
      BY <1>14 DEF handleDeleteRule, StoreRule, scopes, kept
    <2>2. QED
      BY <1>14, <2>1, RuleDeleted DEF TablesInv, StoredInv
  <1>15. ASSUME NEW c \in Clients, SyncRules(c) PROVE StoredInv'
    BY <1>15 DEF SyncRules, TablesInv, StoredInv, scopes, kept
  <1>16. ASSUME NEW c \in Clients, SyncSpecs(c) PROVE StoredInv'
    BY <1>16 DEF SyncSpecs, TablesInv, StoredInv, scopes, kept
  <1>17. ASSUME NEW c \in Clients, setACLFile(c) PROVE StoredInv'
    <2>1. \A l : Want(l, calls[c].scoped) \in Options
      BY DEF Want, Options
    <2>2. aclFile' \in [Rows -> Options]
      <3>1. PICK l : aclFile' = [aclFile EXCEPT ![l] = IF aclFile[l] = "gone" THEN aclFile[l]
                                                       ELSE Want(l, calls[c].scoped)]
        BY <1>17 DEF setACLFile
      <3>2. aclFile \in [Rows -> Options]
        BY DEF TablesInv, StoredInv
      <3>3. QED
        BY <2>1, <3>1, <3>2
    <2>3. QED
      BY <1>17, <2>2 DEF setACLFile, kept, TablesInv, StoredInv
  <1>18. ASSUME NEW c \in Clients, SyncFails(c) PROVE StoredInv'
    BY <1>18 DEF SyncFails, TablesInv, StoredInv, scopes, kept
  <1>19. ASSUME NEW c \in Clients, SyncDone(c) PROVE StoredInv'
    BY <1>19 DEF SyncDone, TablesInv, StoredInv, scopes, kept
  <1>20. CASE Restart
    BY <1>20 DEF Restart, TablesInv, StoredInv
  <1>21. CASE UNCHANGED vars
    BY <1>21 DEF vars, TablesInv, StoredInv, scopes, kept
  <1>22. CASE ListenerStep
    BY <1>22, ListenerTables DEF TablesInv, StoredInv
  <1>23. QED
    BY <1>1, <1>2, <1>3, <1>4, <1>5, <1>6, <1>7, <1>8, <1>9, <1>10, <1>11,
       <1>12, <1>13, <1>14, <1>15, <1>16, <1>17, <1>18, <1>19, <1>20, <1>21, <1>22
       DEF Next, AccountStep, RuleStep

-----------------------------------------------------------------------------
(* What the handlers hold.                                                 *)

LEMMA HeldSet ==
    ASSUME HeldInv, DOMAIN users \subseteq DOMAIN users', NEW c \in Clients, NEW h \in Held, HeldOK(h, DOMAIN users'),
           calls' = [calls EXCEPT ![c] = h]
    PROVE  HeldInv'
  BY DEF HeldInv, HeldOK

LEMMA HeldIdle ==
    ASSUME HeldInv, DOMAIN users \subseteq DOMAIN users', NEW c \in Clients, Return(c)
    PROVE  HeldInv'
  <1>1. Idle \in Held /\ HeldOK(Idle, DOMAIN users')
    BY IdleHeld DEF HeldOK, AccountOps
  <1>2. QED
    BY <1>1, HeldSet DEF Return

LEMMA HeldRule ==
    ASSUME HeldInv, DOMAIN users \subseteq DOMAIN users', NEW c \in Clients, NEW h \in Held, h.op = "rule",
           Disturb(c, h)
    PROVE  /\ HeldInv' /\ calls'[c] = h
           /\ \A d \in Clients \ {c} :
                /\ calls'[d].op = calls[d].op /\ calls'[d].password = calls[d].password
                /\ calls[d].op = "rule" => ~calls'[d].alone
                /\ calls[d].op # "rule" => calls'[d] = calls[d]
  <1> DEFINE x(d) == [calls[d] EXCEPT !.alone = FALSE]
  <1>1. \A d \in Clients : calls[d] \in Held
    BY DEF HeldInv
  <1>2. \A d \in Clients : /\ x(d) \in Held /\ x(d).op = calls[d].op /\ x(d).id = calls[d].id
                           /\ x(d).password = calls[d].password /\ ~x(d).alone
    BY <1>1 DEF Held
  <1>3. calls' = [d \in Clients |-> IF d = c THEN h ELSE IF calls[d].op = "rule" THEN x(d) ELSE calls[d]]
    BY DEF Disturb
  <1> HIDE DEF x
  <1>4. calls' \in [Clients -> Held]
    BY <1>1, <1>2, <1>3
  <1>5. \A d \in Clients : HeldOK(calls'[d], DOMAIN users')
    BY <1>2, <1>3 DEF HeldInv, HeldOK, AccountOps
  <1>6. QED
    BY <1>2, <1>3, <1>4, <1>5 DEF HeldInv

LEMMA ScopedText == StoredInv => Scoped \subseteq Text
  <1> SUFFICES ASSUME StoredInv, NEW l \in Scoped PROVE l \in Text
    OBVIOUS
  <1>1. PICK i \in DOMAIN rules : rules[i] # NoRule /\ l = rules[i].listener
    BY DEF Scoped
  <1>2. rules[i] \in Stored
    BY <1>1 DEF StoredInv
  <1>3. QED
    BY <1>1, <1>2 DEF Stored, Rule

LEMMA StepHeld == TablesInv /\ [Next]_vars => HeldInv'
  <1> SUFFICES ASSUME TablesInv, [Next]_vars PROVE HeldInv'
    OBVIOUS
  <1>0. /\ UsersInv /\ StoredInv /\ HeldInv /\ DOMAIN users \subseteq DOMAIN users'
    BY StepUsers DEF TablesInv
  <1>a. issued + 1 \in Nat
    BY DEF TablesInv, PasswordInv
  <1>b. \A i \in DOMAIN users : users[i] \in Row /\ i \in Nat
    BY <1>0, Indexed
  <1>1. ASSUME NEW c \in Clients, NEW n \in Names, CreateMQTTUser(c, n)
        PROVE  HeldInv'
    <2> DEFINE k == Call("create", "remember", Len(users) + 1, n)
               h == [k EXCEPT !.password = issued + 1]
    <2>0. n # ""
      BY <1>1, RowCreated
    <2>1. Len(users) + 1 \in Nat /\ issued + 1 \in Nat /\ Len(users) + 1 \in DOMAIN users'
      <3>1. Len(users) \in Nat /\ Len(users) + 1 \in DOMAIN users'
        BY <1>1, RowCreated
      <3>2. issued + 1 \in Nat
        BY DEF TablesInv, PasswordInv
      <3>3. QED
        BY <3>1, <3>2
    <2>2. k \in Held /\ k.op = "create" /\ k.pc = "remember" /\ k.id = Len(users) + 1 /\ k.name = n
      BY <2>1, CallHeld DEF Call
    <2>3. calls' = [calls EXCEPT ![c] = h]
      BY <1>1 DEF CreateMQTTUser
    <2> HIDE DEF k
    <2>4. h \in Held /\ HeldOK(h, DOMAIN users')
      BY <2>1, <2>0, <2>2 DEF Held, HeldOK
    <2> HIDE DEF h
    <2>5. QED
      BY <1>0, <2>3, <2>4, HeldSet
  <1>2. ASSUME NEW c \in Clients, NEW i \in DOMAIN users, NEW new \in Names \cup {""},
              NEW disable \in {"keep", "yes", "no"}, handleUpdateMQTTUser(c, i, new, disable) PROVE HeldInv'
    <2> DEFINE k == Call("update", "store", i, users[i].name)
               h == [k EXCEPT !.new = new, !.disable = disable]
    <2>1. i \in Nat /\ users[i].name \in Names /\ users[i].name # ""
      <3>1. users[i] # NoUser
        BY <1>2 DEF handleUpdateMQTTUser, GetMQTTUser
      <3>2. users[i].name # "" /\ users[i] \in Row /\ i \in Nat
        <4>1. users[i].name # ""
          BY <1>0, <3>1 DEF UsersInv
        <4>2. users[i] \in Row /\ i \in Nat
          BY <1>b
        <4>3. QED
          BY <4>1, <4>2
      <3>3. QED
        BY <1>a, <3>2 DEF Row
    <2>2. /\ k \in Held /\ k.op = "update" /\ k.id = i /\ k.name = users[i].name
          /\ k.password = 0 /\ k.new = ""
      BY <2>1, CallHeld DEF Call
    <2>3. calls' = [calls EXCEPT ![c] = h]
      BY <1>2 DEF handleUpdateMQTTUser
    <2> HIDE DEF k
    <2>4. h \in Held /\ HeldOK(h, DOMAIN users')
      BY <1>0, <2>1, <2>2 DEF Held, HeldOK
    <2> HIDE DEF h
    <2>5. QED
      BY <1>0, <2>3, <2>4, HeldSet
  <1>3. ASSUME NEW c \in Clients, NEW i \in DOMAIN users, handleDeleteMQTTUser(c, i)
        PROVE  HeldInv'
    <2> DEFINE k == Call("delete", "store", i, users[i].name)
               h == k
    <2>1. i \in Nat /\ users[i].name \in Names /\ users[i].name # ""
      <3>1. users[i] # NoUser
        BY <1>3 DEF handleDeleteMQTTUser, GetMQTTUser
      <3>2. users[i].name # "" /\ users[i] \in Row /\ i \in Nat
        <4>1. users[i].name # ""
          BY <1>0, <3>1 DEF UsersInv
        <4>2. users[i] \in Row /\ i \in Nat
          BY <1>b
        <4>3. QED
          BY <4>1, <4>2
      <3>3. QED
        BY <1>a, <3>2 DEF Row
    <2>2. /\ k \in Held /\ k.op = "delete" /\ k.id = i /\ k.name = users[i].name
          /\ k.password = 0 /\ k.new = ""
      BY <2>1, CallHeld DEF Call
    <2>3. calls' = [calls EXCEPT ![c] = h]
      BY <1>3 DEF handleDeleteMQTTUser
    <2> HIDE DEF k
    <2>4. h \in Held /\ HeldOK(h, DOMAIN users')
      BY <1>0, <2>1, <2>2 DEF Held, HeldOK
    <2> HIDE DEF h
    <2>5. QED
      BY <1>0, <2>3, <2>4, HeldSet
  <1>4. ASSUME NEW c \in Clients, NEW i \in DOMAIN users, handleResetMQTTUserPassword(c, i)
        PROVE  HeldInv'
    <2> DEFINE k == Call("reset", "store", i, users[i].name)
               h == [k EXCEPT !.password = issued + 1]
    <2>1. i \in Nat /\ users[i].name \in Names /\ users[i].name # "" /\ issued + 1 \in Nat
      <3>1. users[i] # NoUser
        BY <1>4 DEF handleResetMQTTUserPassword, GetMQTTUser
      <3>2. users[i].name # "" /\ users[i] \in Row /\ i \in Nat
        <4>1. users[i].name # ""
          BY <1>0, <3>1 DEF UsersInv
        <4>2. users[i] \in Row /\ i \in Nat
          BY <1>b
        <4>3. QED
          BY <4>1, <4>2
      <3>3. QED
        BY <1>a, <3>2 DEF Row
    <2>2. /\ k \in Held /\ k.op = "reset" /\ k.id = i /\ k.name = users[i].name
          /\ k.password = 0 /\ k.new = ""
      BY <2>1, CallHeld DEF Call
    <2>3. calls' = [calls EXCEPT ![c] = h]
      BY <1>4 DEF handleResetMQTTUserPassword
    <2> HIDE DEF k
    <2>4. h \in Held /\ HeldOK(h, DOMAIN users')
      BY <1>0, <2>1, <2>2 DEF Held, HeldOK
    <2> HIDE DEF h
    <2>5. QED
      BY <1>0, <2>3, <2>4, HeldSet
  <1>5. ASSUME NEW c \in Clients, handleCreateMQTTUser(c) PROVE HeldInv'
    <2>1. Return(c)
      BY <1>5 DEF handleCreateMQTTUser
    <2>2. QED
      BY <1>0, <2>1, HeldIdle
  <1>6. ASSUME NEW c \in Clients, updateMQTTUser(c) PROVE HeldInv'
    <2>1. CASE Refused(c)
      BY <1>6, <1>0, <2>1, HeldIdle DEF updateMQTTUser
    <2>2. CASE ~Refused(c)
      <3> DEFINE row == Updated(users[calls[c].id], calls[c])
                 h == [calls[c] EXCEPT !.pc = "forget", !.name = row.name]
      <3>1. calls[c].op = "update" /\ calls[c] \in Held /\ HeldOK(calls[c], DOMAIN users)
        BY <1>6, <1>0 DEF updateMQTTUser, Busy, HeldInv
      <3>2. row.name \in Names /\ row.name # ""
        BY <1>0, <2>2, <3>1, RowWritten
      <3>3. calls' = [calls EXCEPT ![c] = IF row.disabled THEN h ELSE Idle]
        BY <1>6, <2>2 DEF updateMQTTUser
      <3> HIDE DEF row
      <3>4. h \in Held /\ HeldOK(h, DOMAIN users')
        BY <1>0, <3>1, <3>2 DEF Held, HeldOK, AccountOps
      <3> HIDE DEF h
      <3>5. CASE row.disabled
        BY <1>0, <3>3, <3>4, <3>5, HeldSet
      <3>6. CASE ~row.disabled
        BY <1>0, <3>3, <3>6, HeldIdle DEF Return
      <3>7. QED
        BY <3>5, <3>6
    <2>3. QED
      BY <2>1, <2>2
  <1>7. ASSUME NEW c \in Clients, forgetDisabled(c) PROVE HeldInv'
    <2>1. Return(c)
      BY <1>7 DEF forgetDisabled
    <2>2. QED
      BY <1>0, <2>1, HeldIdle
  <1>8. ASSUME NEW c \in Clients, ReadBackFails(c) PROVE HeldInv'
    <2>1. Return(c)
      BY <1>8 DEF ReadBackFails
    <2>2. QED
      BY <1>0, <2>1, HeldIdle
  <1>9. ASSUME NEW c \in Clients, DeleteMQTTUser(c) PROVE HeldInv'
    <2>1. CASE ~GetMQTTUser(calls[c].id)
      BY <1>9, <1>0, <2>1, HeldIdle DEF DeleteMQTTUser
    <2>2. CASE GetMQTTUser(calls[c].id)
      <3> DEFINE h == [calls[c] EXCEPT !.pc = "forget"]
      <3>1. calls[c] \in Held /\ HeldOK(calls[c], DOMAIN users)
        BY <1>0 DEF HeldInv
      <3>2. calls' = [calls EXCEPT ![c] = h]
        BY <1>9, <2>2 DEF DeleteMQTTUser, Goto
      <3>3. h \in Held /\ HeldOK(h, DOMAIN users')
        BY <1>9, <1>0, <3>1 DEF DeleteMQTTUser, Busy, Held, HeldOK, AccountOps
      <3> HIDE DEF h
      <3>4. QED
        BY <1>0, <3>2, <3>3, HeldSet
    <2>3. QED
      BY <2>1, <2>2
  <1>10. ASSUME NEW c \in Clients, forgetDeleted(c) PROVE HeldInv'
    <2>1. Return(c)
      BY <1>10 DEF forgetDeleted
    <2>2. QED
      BY <1>0, <2>1, HeldIdle
  <1>11. ASSUME NEW c \in Clients, UpdateMQTTUserAndRun(c) PROVE HeldInv'
    <2>1. Return(c)
      BY <1>11 DEF UpdateMQTTUserAndRun
    <2>2. QED
      BY <1>0, <2>1, HeldIdle
  <1>12. ASSUME NEW c \in Clients, NEW r \in Pool, handleCreateRule(c, r)
         PROVE  HeldInv'
    <2>1. Disturb(c, Call("rule", "rules", 0, ""))
      BY <1>12 DEF handleCreateRule, StoreRule
    <2>2. Call("rule", "rules", 0, "") \in Held /\ Call("rule", "rules", 0, "").op = "rule"
      BY CallHeld DEF Call
    <2>3. QED
      BY <1>0, <2>1, <2>2, HeldRule
  <1>13. ASSUME NEW c \in Clients, NEW i \in DOMAIN rules, NEW r \in Pool, handleUpdateRule(c, i, r)
         PROVE  HeldInv'
    <2>1. Disturb(c, Call("rule", "rules", 0, ""))
      BY <1>13 DEF handleUpdateRule, StoreRule
    <2>2. Call("rule", "rules", 0, "") \in Held /\ Call("rule", "rules", 0, "").op = "rule"
      BY CallHeld DEF Call
    <2>3. QED
      BY <1>0, <2>1, <2>2, HeldRule
  <1>14. ASSUME NEW c \in Clients, NEW i \in DOMAIN rules, handleDeleteRule(c, i)
         PROVE  HeldInv'
    <2>1. Disturb(c, Call("rule", "rules", 0, ""))
      BY <1>14 DEF handleDeleteRule, StoreRule
    <2>2. Call("rule", "rules", 0, "") \in Held /\ Call("rule", "rules", 0, "").op = "rule"
      BY CallHeld DEF Call
    <2>3. QED
      BY <1>0, <2>1, <2>2, HeldRule
  <1>15. ASSUME NEW c \in Clients, SyncRules(c) PROVE HeldInv'
    <2> DEFINE b == \A d \in Clients \ {c} : ~Busy(d, {"rule"})
               h == [calls[c] EXCEPT !.pc = "specs", !.alone = b, !.scoped = Scoped]
    <2>1. calls[c] \in Held /\ calls[c].op = "rule"
      BY <1>15, <1>0 DEF HeldInv, SyncRules, Busy
    <2>2. Disturb(c, h)
      BY <1>15 DEF SyncRules, Scoped
    <2>3. b \in BOOLEAN
      OBVIOUS
    <2>4. Scoped \subseteq Text
      BY <1>0, ScopedText
    <2> HIDE DEF b
    <2>5. h \in Held /\ h.op = "rule"
      BY <2>1, <2>3, <2>4 DEF Held
    <2> HIDE DEF h
    <2>6. QED
      BY <1>0, <2>2, <2>5, HeldRule
  <1>16. ASSUME NEW c \in Clients, SyncSpecs(c) PROVE HeldInv'
    <2> DEFINE h == [calls[c] EXCEPT !.pc = "set", !.todo = scopesToSet(calls[c].scoped)]
    <2>1. calls[c] \in Held /\ HeldOK(calls[c], DOMAIN users)
      BY <1>0 DEF HeldInv
    <2>2. calls' = [calls EXCEPT ![c] = h]
      BY <1>16, <1>0 DEF SyncSpecs, HeldInv, Held
    <2>3. scopesToSet(calls[c].scoped) \subseteq Rows
      BY DEF scopesToSet
    <2>4. h \in Held /\ HeldOK(h, DOMAIN users')
      BY <1>16, <1>0, <2>1, <2>3 DEF SyncSpecs, Busy, Held, HeldOK, AccountOps
    <2> HIDE DEF h
    <2>5. QED
      BY <1>0, <2>2, <2>4, HeldSet
  <1>17. ASSUME NEW c \in Clients, setACLFile(c) PROVE HeldInv'
    <2>1. PICK l : calls' = [calls EXCEPT ![c].todo = calls[c].todo \ {l}]
      BY <1>17 DEF setACLFile
    <2> DEFINE h == [calls[c] EXCEPT !.todo = calls[c].todo \ {l}]
    <2>2. calls[c] \in Held /\ HeldOK(calls[c], DOMAIN users)
      BY <1>0 DEF HeldInv
    <2>3. calls' = [calls EXCEPT ![c] = h]
      BY <2>1, <2>2 DEF Held
    <2>4. h \in Held /\ HeldOK(h, DOMAIN users')
      BY <1>17, <1>0, <2>2 DEF setACLFile, Busy, Held, HeldOK, AccountOps
    <2> HIDE DEF h
    <2>5. QED
      BY <1>0, <2>3, <2>4, HeldSet
  <1>18. ASSUME NEW c \in Clients, SyncFails(c) PROVE HeldInv'
    <2>1. Return(c)
      BY <1>18 DEF SyncFails
    <2>2. QED
      BY <1>0, <2>1, HeldIdle
  <1>19. ASSUME NEW c \in Clients, SyncDone(c) PROVE HeldInv'
    <2>1. Return(c)
      BY <1>19 DEF SyncDone
    <2>2. QED
      BY <1>0, <2>1, HeldIdle
  <1>20. CASE Restart
    BY <1>20, <1>0, IdleHeld DEF Restart, HeldInv, HeldOK, AccountOps
  <1>21. CASE UNCHANGED vars
    BY <1>21, <1>0 DEF vars, HeldInv, HeldOK
  <1>22. CASE ListenerStep
    <2>1. /\ calls' \in [Clients -> Held] /\ UNCHANGED users
          /\ \A d \in Clients : calls'[d] = calls[d] \/ (calls[d].op = "rule" /\ calls'[d].op = "rule")
      BY <1>22, ListenerSteps
    <2>2. QED
      BY <1>0, <2>1 DEF HeldInv, HeldOK, AccountOps
  <1>23. QED
    BY <1>1, <1>2, <1>3, <1>4, <1>5, <1>6, <1>7, <1>8, <1>9, <1>10, <1>11,
       <1>12, <1>13, <1>14, <1>15, <1>16, <1>17, <1>18, <1>19, <1>20, <1>21, <1>22
       DEF Next, AccountStep, RuleStep

-----------------------------------------------------------------------------
(* The passwords.                                                          *)

LEMMA PasswordFrame ==
    ASSUME PasswordInv, HeldInv, issued' \in Nat, issued <= issued',
           passwords' \in [Names -> 0..issued'],
           \A d \in Clients : calls'[d].password \in {0, calls[d].password, issued'}
    PROVE  PasswordInv'
  <1>1. \A d \in Clients : calls[d].password \in Nat /\ calls[d].password <= issued
    BY DEF HeldInv, Held, PasswordInv
  <1>2. issued \in Nat
    BY DEF PasswordInv
  <1>3. \A d \in Clients : calls'[d].password <= issued'
    BY <1>1, <1>2
  <1>4. QED
    BY <1>3 DEF PasswordInv

(* A step that issues no password: entries are kept, cleared or copied.    *)
LEMMA PasswordSame ==
    ASSUME PasswordInv, HeldInv, issued' = issued, passwords' \in [Names -> 0..issued],
           \A d \in Clients : calls'[d].password \in {0, calls[d].password}
    PROVE  PasswordInv'
  <1>1. issued' \in Nat /\ issued <= issued' /\ passwords' \in [Names -> 0..issued']
    BY DEF PasswordInv
  <1>2. QED
    BY <1>1, PasswordFrame

(* What a handler changes of what it holds, apart from its password.       *)
LEMMA Edits ==
    ASSUME NEW k \in Held, NEW pc, NEW x, NEW b
    PROVE  /\ [k EXCEPT !.pc = pc].password = k.password
           /\ [k EXCEPT !.pc = pc, !.name = x].password = k.password
           /\ [k EXCEPT !.pc = pc, !.todo = x].password = k.password
           /\ [k EXCEPT !.todo = x].password = k.password
           /\ [k EXCEPT !.pc = pc, !.alone = b, !.scoped = x].password = k.password
           /\ [k EXCEPT !.alone = b].password = k.password
  BY DEF Held

LEMMA Edited ==
    ASSUME HeldInv, NEW c \in Clients, NEW h, h.password = calls[c].password,
           calls' = [calls EXCEPT ![c] = h]
    PROVE  \A d \in Clients : calls'[d].password \in {0, calls[d].password}
  BY DEF HeldInv

LEMMA Disturbed ==
    ASSUME HeldInv, NEW c \in Clients, NEW h, h.password \in {0, calls[c].password}, Disturb(c, h)
    PROVE  \A d \in Clients : calls'[d].password \in {0, calls[d].password}
  <1>1. \A d \in Clients : [calls[d] EXCEPT !.alone = FALSE].password = calls[d].password
    BY Edits DEF HeldInv
  <1>2. \A d \in Clients : calls'[d] \in {calls[d], [calls[d] EXCEPT !.alone = FALSE]} \/ (d = c /\ calls'[d] = h)
    BY DEF Disturb
  <1>3. QED
    BY <1>1, <1>2

LEMMA Returned ==
    ASSUME HeldInv, NEW c \in Clients, Return(c)
    PROVE  /\ calls'[c] = Idle /\ calls'[c].op = "idle" /\ \A d \in Clients \ {c} : calls'[d] = calls[d]
           /\ \A d \in Clients : calls'[d].password \in {0, calls[d].password}
  <1>1. calls'[c] = Idle /\ \A d \in Clients \ {c} : calls'[d] = calls[d]
    BY DEF Return, HeldInv
  <1>2. QED
    BY <1>1, IdleHeld

LEMMA StepPassword == TablesInv /\ [Next]_vars => PasswordInv'
  <1> SUFFICES ASSUME TablesInv, [Next]_vars PROVE PasswordInv'
    OBVIOUS
  <1>0. /\ PasswordInv /\ HeldInv
    BY DEF TablesInv
  <1>1. ASSUME NEW c \in Clients, NEW n \in Names, CreateMQTTUser(c, n)
        PROVE  PasswordInv'
    <2>1. issued' = issued + 1 /\ passwords' = passwords
      BY <1>1 DEF CreateMQTTUser
    <2>2. issued' \in Nat /\ issued <= issued' /\ passwords' \in [Names -> 0..issued']
      <3>1. issued' \in Nat /\ issued <= issued'
        BY <1>0, <2>1 DEF PasswordInv
      <3>2. 0..issued \subseteq 0..issued'
        BY <1>0, <3>1 DEF PasswordInv
      <3>3. QED
        BY <1>0, <2>1, <3>1, <3>2 DEF PasswordInv
    <2>3. PICK k : /\ calls' = [calls EXCEPT ![c] = [k EXCEPT !.password = issued + 1]]
                   /\ k = Call("create", "remember", Len(users) + 1, n)
      BY <1>1 DEF CreateMQTTUser
    <2>4. [k EXCEPT !.password = issued + 1].password = issued'
      BY <2>1, <2>3 DEF Call
    <2>5. \A d \in Clients : calls'[d].password \in {0, calls[d].password, issued'}
      BY <1>0, <2>3, <2>4 DEF HeldInv
    <2>6. QED
      BY <1>0, <2>2, <2>5, PasswordFrame
  <1>2. ASSUME NEW c \in Clients, NEW i \in DOMAIN users, NEW new \in Names \cup {""},
              NEW disable \in {"keep", "yes", "no"}, handleUpdateMQTTUser(c, i, new, disable) PROVE PasswordInv'
    <2>1. issued' = issued /\ passwords' \in [Names -> 0..issued]
      BY <1>2, <1>0 DEF handleUpdateMQTTUser, accounts, StoreRule, PasswordInv
    <2>2. \A d \in Clients : calls'[d].password \in {0, calls[d].password}
      BY <1>2, <1>0 DEF handleUpdateMQTTUser, Call, HeldInv, Held
    <2>3. QED
      BY <1>0, <2>1, <2>2, PasswordSame
  <1>3. ASSUME NEW c \in Clients, NEW i \in DOMAIN users, handleDeleteMQTTUser(c, i)
        PROVE  PasswordInv'
    <2>1. issued' = issued /\ passwords' \in [Names -> 0..issued]
      BY <1>3, <1>0 DEF handleDeleteMQTTUser, accounts, StoreRule, PasswordInv
    <2>2. \A d \in Clients : calls'[d].password \in {0, calls[d].password}
      BY <1>3, <1>0 DEF handleDeleteMQTTUser, Call, HeldInv, Held
    <2>3. QED
      BY <1>0, <2>1, <2>2, PasswordSame
  <1>4. ASSUME NEW c \in Clients, NEW i \in DOMAIN users, handleResetMQTTUserPassword(c, i)
        PROVE  PasswordInv'
    <2>1. issued' = issued + 1 /\ passwords' = passwords
      BY <1>4 DEF handleResetMQTTUserPassword
    <2>2. issued' \in Nat /\ issued <= issued' /\ passwords' \in [Names -> 0..issued']
      <3>1. issued' \in Nat /\ issued <= issued'
        BY <1>0, <2>1 DEF PasswordInv
      <3>2. 0..issued \subseteq 0..issued'
        BY <1>0, <3>1 DEF PasswordInv
      <3>3. QED
        BY <1>0, <2>1, <3>1, <3>2 DEF PasswordInv
    <2>3. PICK k : /\ calls' = [calls EXCEPT ![c] = [k EXCEPT !.password = issued + 1]]
                   /\ k = Call("reset", "store", i, users[i].name)
      BY <1>4 DEF handleResetMQTTUserPassword
    <2>4. [k EXCEPT !.password = issued + 1].password = issued'
      BY <2>1, <2>3 DEF Call
    <2>5. \A d \in Clients : calls'[d].password \in {0, calls[d].password, issued'}
      BY <1>0, <2>3, <2>4 DEF HeldInv
    <2>6. QED
      BY <1>0, <2>2, <2>5, PasswordFrame
  <1>5. ASSUME NEW c \in Clients, handleCreateMQTTUser(c) PROVE PasswordInv'
    <2>1. issued' = issued /\ passwords' \in [Names -> 0..issued]
      <3>1. calls[c].name \in Names /\ calls[c].password \in 0..issued
        <4>1. calls[c].op = "create" /\ HeldOK(calls[c], DOMAIN users) /\ calls[c] \in Held
          BY <1>5, <1>0 DEF handleCreateMQTTUser, Busy, HeldInv
        <4>2. calls[c].name \in Names
          BY <4>1 DEF HeldOK, AccountOps
        <4>3. calls[c].password \in Nat /\ calls[c].password <= issued /\ issued \in Nat
          BY <1>0, <4>1 DEF Held, PasswordInv
        <4>4. QED
          BY <4>2, <4>3
      <3>2. issued' = issued /\ passwords' = [passwords EXCEPT ![calls[c].name] = calls[c].password]
        BY <1>5 DEF handleCreateMQTTUser, rememberMQTTPassword
      <3>3. QED
        BY <1>0, <3>1, <3>2 DEF PasswordInv
    <2>2. Return(c)
      BY <1>5 DEF handleCreateMQTTUser
    <2>3. QED
      BY <1>0, <2>1, <2>2, Returned, PasswordSame
  <1>6. ASSUME NEW c \in Clients, updateMQTTUser(c) PROVE PasswordInv'
    <2>1. issued' = issued /\ passwords' \in [Names -> 0..issued]
      <3>1. issued' = issued
        BY <1>6 DEF updateMQTTUser
      <3>2. passwords' = passwords \/ \E old, new : passwords' = moveRemembered(old, new)
                                         /\ old = calls[c].name
        BY <1>6 DEF updateMQTTUser
      <3>3. calls[c].name \in Names
        BY <1>6, <1>0 DEF updateMQTTUser, Busy, HeldInv, HeldOK, AccountOps
      <3>4. QED
        BY <1>0, <3>1, <3>2, <3>3
           DEF moveRemembered, rememberMQTTPassword, forgetMQTTPassword, PasswordInv
    <2>2. \A d \in Clients : calls'[d].password \in {0, calls[d].password}
      <3>1. CASE Return(c)
        BY <1>0, <3>1, Returned
      <3>2. CASE ~Return(c)
        <4>1. PICK n : calls' = [calls EXCEPT ![c] = [calls[c] EXCEPT !.pc = "forget", !.name = n]]
          BY <1>6, <3>2 DEF updateMQTTUser, Return
        <4>2. [calls[c] EXCEPT !.pc = "forget", !.name = n].password = calls[c].password
          BY <1>0, Edits DEF HeldInv
        <4>3. QED
          BY <1>0, <4>1, <4>2, Edited
      <3>3. QED
        BY <3>1, <3>2
    <2>3. QED
      BY <1>0, <2>1, <2>2, PasswordSame
  <1>7. ASSUME NEW c \in Clients, forgetDisabled(c) PROVE PasswordInv'
    <2>1. issued' = issued /\ passwords' \in [Names -> 0..issued]
      <3>1. issued' = issued /\ passwords' = [passwords EXCEPT ![calls[c].name] = 0]
        BY <1>7 DEF forgetDisabled, forgetMQTTPassword
      <3>2. issued \in Nat /\ 0 \in 0..issued /\ passwords \in [Names -> 0..issued]
        BY <1>0 DEF PasswordInv
      <3>3. QED
        BY <3>1, <3>2
    <2>2. Return(c)
      BY <1>7 DEF forgetDisabled
    <2>3. QED
      BY <1>0, <2>1, <2>2, Returned, PasswordSame
  <1>8. ASSUME NEW c \in Clients, ReadBackFails(c) PROVE PasswordInv'
    <2>1. issued' = issued /\ passwords' \in [Names -> 0..issued]
      BY <1>8, <1>0 DEF ReadBackFails, accounts, PasswordInv
    <2>2. Return(c)
      BY <1>8 DEF ReadBackFails
    <2>3. QED
      BY <1>0, <2>1, <2>2, Returned, PasswordSame
  <1>9. ASSUME NEW c \in Clients, DeleteMQTTUser(c) PROVE PasswordInv'
    <2>1. issued' = issued /\ passwords' \in [Names -> 0..issued]
      BY <1>9, <1>0 DEF DeleteMQTTUser, accounts, StoreRule, PasswordInv
    <2>2. \A d \in Clients : calls'[d].password \in {0, calls[d].password}
      <3>1. CASE Return(c)
        BY <1>0, <3>1, Returned
      <3>2. CASE ~Return(c)
        <4> DEFINE h == [calls[c] EXCEPT !.pc = "forget"]
        <4>1. calls' = [calls EXCEPT ![c] = h]
          BY <1>9, <3>2 DEF DeleteMQTTUser, Goto
        <4>2. h.password = calls[c].password
          BY <1>0, Edits DEF HeldInv
        <4> HIDE DEF h
        <4>3. QED
          BY <1>0, <4>1, <4>2, Edited
      <3>3. QED
        BY <3>1, <3>2
    <2>3. QED
      BY <1>0, <2>1, <2>2, PasswordSame
  <1>10. ASSUME NEW c \in Clients, forgetDeleted(c) PROVE PasswordInv'
    <2>1. issued' = issued /\ passwords' \in [Names -> 0..issued]
      <3>1. issued' = issued /\ passwords' = [passwords EXCEPT ![calls[c].name] = 0]
        BY <1>10 DEF forgetDeleted, forgetMQTTPassword
      <3>2. issued \in Nat /\ 0 \in 0..issued /\ passwords \in [Names -> 0..issued]
        BY <1>0 DEF PasswordInv
      <3>3. QED
        BY <3>1, <3>2
    <2>2. Return(c)
      BY <1>10 DEF forgetDeleted
    <2>3. QED
      BY <1>0, <2>1, <2>2, Returned, PasswordSame
  <1>11. ASSUME NEW c \in Clients, UpdateMQTTUserAndRun(c) PROVE PasswordInv'
    <2>1. issued' = issued /\ passwords' \in [Names -> 0..issued]
      <3>1. calls[c].password \in 0..issued
        <4>1. calls[c].password \in Nat /\ calls[c].password <= issued /\ issued \in Nat
          BY <1>0 DEF HeldInv, Held, PasswordInv
        <4>2. QED
          BY <4>1
      <3>2. issued' = issued
        BY <1>11 DEF UpdateMQTTUserAndRun
      <3>3. passwords' = passwords \/ \E n : passwords' = [passwords EXCEPT ![n] = calls[c].password]
        BY <1>11 DEF UpdateMQTTUserAndRun, rememberMQTTPassword
      <3>4. QED
        BY <1>0, <3>1, <3>2, <3>3 DEF PasswordInv
    <2>2. Return(c)
      BY <1>11 DEF UpdateMQTTUserAndRun
    <2>3. QED
      BY <1>0, <2>1, <2>2, Returned, PasswordSame
  <1>12. ASSUME NEW c \in Clients, NEW r \in Pool, handleCreateRule(c, r)
         PROVE  PasswordInv'
    <2>1. issued' = issued /\ passwords' \in [Names -> 0..issued]
      BY <1>12, <1>0 DEF handleCreateRule, accounts, StoreRule, PasswordInv
    <2>2. \A d \in Clients : calls'[d].password \in {0, calls[d].password}
      <3> DEFINE h == Call("rule", "rules", 0, "")
      <3>1. Disturb(c, h)
        BY <1>12 DEF handleCreateRule, StoreRule
      <3>2. h.password \in {0, calls[c].password}
        BY DEF Call
      <3> HIDE DEF h
      <3>3. QED
        BY <1>0, <3>1, <3>2, Disturbed
    <2>3. QED
      BY <1>0, <2>1, <2>2, PasswordSame
  <1>13. ASSUME NEW c \in Clients, NEW i \in DOMAIN rules, NEW r \in Pool, handleUpdateRule(c, i, r)
         PROVE  PasswordInv'
    <2>1. issued' = issued /\ passwords' \in [Names -> 0..issued]
      BY <1>13, <1>0 DEF handleUpdateRule, accounts, StoreRule, PasswordInv
    <2>2. \A d \in Clients : calls'[d].password \in {0, calls[d].password}
      <3> DEFINE h == Call("rule", "rules", 0, "")
      <3>1. Disturb(c, h)
        BY <1>13 DEF handleUpdateRule, StoreRule
      <3>2. h.password \in {0, calls[c].password}
        BY DEF Call
      <3> HIDE DEF h
      <3>3. QED
        BY <1>0, <3>1, <3>2, Disturbed
    <2>3. QED
      BY <1>0, <2>1, <2>2, PasswordSame
  <1>14. ASSUME NEW c \in Clients, NEW i \in DOMAIN rules, handleDeleteRule(c, i)
         PROVE  PasswordInv'
    <2>1. issued' = issued /\ passwords' \in [Names -> 0..issued]
      BY <1>14, <1>0 DEF handleDeleteRule, accounts, StoreRule, PasswordInv
    <2>2. \A d \in Clients : calls'[d].password \in {0, calls[d].password}
      <3> DEFINE h == Call("rule", "rules", 0, "")
      <3>1. Disturb(c, h)
        BY <1>14 DEF handleDeleteRule, StoreRule
      <3>2. h.password \in {0, calls[c].password}
        BY DEF Call
      <3> HIDE DEF h
      <3>3. QED
        BY <1>0, <3>1, <3>2, Disturbed
    <2>3. QED
      BY <1>0, <2>1, <2>2, PasswordSame
  <1>15. ASSUME NEW c \in Clients, SyncRules(c) PROVE PasswordInv'
    <2>1. issued' = issued /\ passwords' \in [Names -> 0..issued]
      BY <1>15, <1>0 DEF SyncRules, accounts, StoreRule, PasswordInv
    <2>2. \A d \in Clients : calls'[d].password \in {0, calls[d].password}
      <3> DEFINE h == [calls[c] EXCEPT !.pc = "specs", !.alone = \A d \in Clients \ {c} : ~Busy(d, {"rule"}),
                                       !.scoped = Scoped]
      <3>1. Disturb(c, h)
        BY <1>15 DEF SyncRules, Scoped
      <3>2. h.password = calls[c].password
        BY <1>0, Edits DEF HeldInv
      <3> HIDE DEF h
      <3>3. QED
        BY <1>0, <3>1, <3>2, Disturbed
    <2>3. QED
      BY <1>0, <2>1, <2>2, PasswordSame
  <1>16. ASSUME NEW c \in Clients, SyncSpecs(c) PROVE PasswordInv'
    <2>1. issued' = issued /\ passwords' \in [Names -> 0..issued]
      BY <1>16, <1>0 DEF SyncSpecs, accounts, StoreRule, PasswordInv
    <2>2. \A d \in Clients : calls'[d].password \in {0, calls[d].password}
      BY <1>16, <1>0 DEF SyncSpecs, HeldInv, Held
    <2>3. QED
      BY <1>0, <2>1, <2>2, PasswordSame
  <1>17. ASSUME NEW c \in Clients, setACLFile(c) PROVE PasswordInv'
    <2>1. issued' = issued /\ passwords' \in [Names -> 0..issued]
      BY <1>17, <1>0 DEF setACLFile, accounts, StoreRule, PasswordInv
    <2>2. \A d \in Clients : calls'[d].password \in {0, calls[d].password}
      <3>1. PICK l : calls' = [calls EXCEPT ![c].todo = calls[c].todo \ {l}]
        BY <1>17 DEF setACLFile
      <3> DEFINE h == [calls[c] EXCEPT !.todo = calls[c].todo \ {l}]
      <3>2. calls' = [calls EXCEPT ![c] = h]
        BY <3>1
      <3>3. h.password = calls[c].password
        BY <1>0, Edits DEF HeldInv
      <3> HIDE DEF h
      <3>4. QED
        BY <1>0, <3>2, <3>3, Edited
    <2>3. QED
      BY <1>0, <2>1, <2>2, PasswordSame
  <1>18. ASSUME NEW c \in Clients, SyncFails(c) PROVE PasswordInv'
    <2>1. issued' = issued /\ passwords' \in [Names -> 0..issued]
      BY <1>18, <1>0 DEF SyncFails, accounts, PasswordInv
    <2>2. Return(c)
      BY <1>18 DEF SyncFails
    <2>3. QED
      BY <1>0, <2>1, <2>2, Returned, PasswordSame
  <1>19. ASSUME NEW c \in Clients, SyncDone(c) PROVE PasswordInv'
    <2>1. issued' = issued /\ passwords' \in [Names -> 0..issued]
      BY <1>19, <1>0 DEF SyncDone, accounts, PasswordInv
    <2>2. Return(c)
      BY <1>19 DEF SyncDone
    <2>3. QED
      BY <1>0, <2>1, <2>2, Returned, PasswordSame
  <1>20. CASE Restart
    <2>1. issued' = issued /\ passwords' \in [Names -> 0..issued]
      BY <1>20, <1>0 DEF Restart, PasswordInv
    <2>2. \A d \in Clients : calls'[d].password \in {0, calls[d].password}
      BY <1>20, IdleHeld DEF Restart
    <2>3. QED
      BY <1>0, <2>1, <2>2, PasswordSame
  <1>21. CASE UNCHANGED vars
    BY <1>21, <1>0 DEF vars, PasswordInv
  <1>22. CASE ListenerStep
    <2>1. issued' = issued /\ passwords' \in [Names -> 0..issued]
      BY <1>22, <1>0, ListenerSteps DEF PasswordInv
    <2>2. \A d \in Clients : calls'[d].password \in {0, calls[d].password}
      BY <1>22, ListenerSteps
    <2>3. QED
      BY <1>0, <2>1, <2>2, PasswordSame
  <1>23. QED
    BY <1>1, <1>2, <1>3, <1>4, <1>5, <1>6, <1>7, <1>8, <1>9, <1>10, <1>11,
       <1>12, <1>13, <1>14, <1>15, <1>16, <1>17, <1>18, <1>19, <1>20, <1>21, <1>22
       DEF Next, AccountStep, RuleStep

LEMMA StepFlags == FlagsInv /\ [Next]_vars => FlagsInv'
  <1> SUFFICES ASSUME FlagsInv, [Next]_vars PROVE FlagsInv'
    OBVIOUS
  <1>1. ASSUME NEW c \in Clients, NEW n \in Names, CreateMQTTUser(c, n)
        PROVE  FlagsInv'
    BY <1>1 DEF CreateMQTTUser, FlagsInv, accounts, scopes, StoreRule, Overlap
  <1>2. ASSUME NEW c \in Clients, NEW i \in DOMAIN users, NEW new \in Names \cup {""},
              NEW disable \in {"keep", "yes", "no"}, handleUpdateMQTTUser(c, i, new, disable) PROVE FlagsInv'
    BY <1>2 DEF handleUpdateMQTTUser, FlagsInv, accounts, scopes, StoreRule, Overlap
  <1>3. ASSUME NEW c \in Clients, NEW i \in DOMAIN users, handleDeleteMQTTUser(c, i)
        PROVE  FlagsInv'
    BY <1>3 DEF handleDeleteMQTTUser, FlagsInv, accounts, scopes, StoreRule, Overlap
  <1>4. ASSUME NEW c \in Clients, NEW i \in DOMAIN users, handleResetMQTTUserPassword(c, i)
        PROVE  FlagsInv'
    BY <1>4
       DEF handleResetMQTTUserPassword, FlagsInv, accounts, scopes, StoreRule,
           Overlap
  <1>5. ASSUME NEW c \in Clients, handleCreateMQTTUser(c) PROVE FlagsInv'
    BY <1>5 DEF handleCreateMQTTUser, FlagsInv, accounts, scopes, StoreRule, Overlap
  <1>6. ASSUME NEW c \in Clients, updateMQTTUser(c) PROVE FlagsInv'
    BY <1>6 DEF updateMQTTUser, FlagsInv, accounts, scopes, StoreRule, Overlap
  <1>7. ASSUME NEW c \in Clients, forgetDisabled(c) PROVE FlagsInv'
    BY <1>7 DEF forgetDisabled, FlagsInv, accounts, scopes, StoreRule, Overlap
  <1>8. ASSUME NEW c \in Clients, ReadBackFails(c) PROVE FlagsInv'
    BY <1>8 DEF ReadBackFails, FlagsInv, accounts, scopes, StoreRule, Overlap
  <1>9. ASSUME NEW c \in Clients, DeleteMQTTUser(c) PROVE FlagsInv'
    BY <1>9 DEF DeleteMQTTUser, FlagsInv, accounts, scopes, StoreRule, Overlap
  <1>10. ASSUME NEW c \in Clients, forgetDeleted(c) PROVE FlagsInv'
    BY <1>10 DEF forgetDeleted, FlagsInv, accounts, scopes, StoreRule, Overlap
  <1>11. ASSUME NEW c \in Clients, UpdateMQTTUserAndRun(c) PROVE FlagsInv'
    BY <1>11
       DEF UpdateMQTTUserAndRun, FlagsInv, accounts, scopes, StoreRule, Overlap
  <1>12. ASSUME NEW c \in Clients, NEW r \in Pool, handleCreateRule(c, r)
         PROVE  FlagsInv'
    BY <1>12 DEF handleCreateRule, FlagsInv, accounts, scopes, StoreRule, Overlap
  <1>13. ASSUME NEW c \in Clients, NEW i \in DOMAIN rules, NEW r \in Pool, handleUpdateRule(c, i, r)
         PROVE  FlagsInv'
    BY <1>13 DEF handleUpdateRule, FlagsInv, accounts, scopes, StoreRule, Overlap
  <1>14. ASSUME NEW c \in Clients, NEW i \in DOMAIN rules, handleDeleteRule(c, i)
         PROVE  FlagsInv'
    BY <1>14 DEF handleDeleteRule, FlagsInv, accounts, scopes, StoreRule, Overlap
  <1>15. ASSUME NEW c \in Clients, SyncRules(c) PROVE FlagsInv'
    BY <1>15 DEF SyncRules, FlagsInv, accounts, scopes, StoreRule, Overlap
  <1>16. ASSUME NEW c \in Clients, SyncSpecs(c) PROVE FlagsInv'
    BY <1>16 DEF SyncSpecs, FlagsInv, accounts, scopes, StoreRule, Overlap
  <1>17. ASSUME NEW c \in Clients, setACLFile(c) PROVE FlagsInv'
    BY <1>17 DEF setACLFile, FlagsInv, accounts, scopes, StoreRule, Overlap
  <1>18. ASSUME NEW c \in Clients, SyncFails(c) PROVE FlagsInv'
    BY <1>18 DEF SyncFails, FlagsInv, accounts, scopes, StoreRule, Overlap
  <1>19. ASSUME NEW c \in Clients, SyncDone(c) PROVE FlagsInv'
    BY <1>19 DEF SyncDone, FlagsInv, accounts, scopes, StoreRule, Overlap
  <1>20. CASE Restart
    BY <1>20 DEF Restart, FlagsInv, accounts, scopes, StoreRule, Overlap
  <1>21. CASE UNCHANGED vars
    BY <1>21 DEF vars, FlagsInv
  <1>22. CASE ListenerStep
    BY <1>22 DEF ListenerStep, Preview, ReplaceAllListenerSpecs, FlagsInv, accounts
  <1>23. QED
    BY <1>1, <1>2, <1>3, <1>4, <1>5, <1>6, <1>7, <1>8, <1>9, <1>10, <1>11,
       <1>12, <1>13, <1>14, <1>15, <1>16, <1>17, <1>18, <1>19, <1>20, <1>21, <1>22
       DEF Next, AccountStep, RuleStep

LEMMA StartRows ==
    /\ Start \in Seq(Row) /\ Len(Start) \in Nat
    /\ \A i \in DOMAIN Start : Start[i].name # "" /\ Start[i] \in Row
  <1> DEFINE S == [name : Names \ {""}, hash : Nat, disabled : BOOLEAN]
  <1>1. \A row \in S : row \in Row /\ row.name # ""
    BY DEF Row
  <1>2. Start \in Seq(S)
    BY AccessAssumption
  <1> HIDE DEF S
  <1>3. /\ Len(Start) \in Nat /\ \A i \in DOMAIN Start : Start[i] \in S
    BY <1>2
  <1>4. \A i \in DOMAIN Start : Start[i] \in Row
    BY <1>1, <1>3
  <1>5. Start \in Seq(Row)
    BY <1>2, <1>4
  <1>6. QED
    BY <1>1, <1>3, <1>5

LEMMA InitTables == Init => TablesInv
  <1> SUFFICES ASSUME Init PROVE TablesInv
    OBVIOUS
  <1>1. UsersInv
    <2>1. \A i \in DOMAIN Start : Start[i].name # "" /\ Start[i] \in Row
      BY StartRows
    <2>2. Start \in Seq(Row)
      BY StartRows
    <2>3. \A i \in DOMAIN users : users[i].name # ""
      BY <2>1 DEF Init
    <2>4. users \in Seq(Row)
      BY <2>2 DEF Init
    <2>5. \A i, j \in DOMAIN users : users[i].name = users[j].name => i = j
      BY AccessAssumption DEF Init
    <2>6. QED
      BY <2>3, <2>4, <2>5 DEF UsersInv
  <1>2. StoredInv
    <2>1. aclFile \in [Rows -> Options] /\ previews \subseteq Entry
      BY AccessAssumption DEF Init, Options
    <2>2. rules = <<>> /\ target = <<>>
      BY DEF Init
    <2>3. rules \in Seq(Stored \cup {NoRule}) /\ target \in Seq(Nat) /\ Len(target) = Len(rules)
      BY <2>2
    <2>4. QED
      BY <2>1, <2>3 DEF StoredInv
  <1>3. HeldInv
    BY IdleHeld DEF Init, HeldInv, HeldOK, AccountOps
  <1>4. PasswordInv
    <2>1. issued \in Nat
      BY StartRows DEF Init
    <2>2. \A c \in Clients : calls[c].password = 0
      BY IdleHeld DEF Init
    <2>3. QED
      BY <2>1, <2>2 DEF Init, PasswordInv
  <1>5. QED
    BY <1>1, <1>2, <1>3, <1>4 DEF TablesInv, FlagsInv, Init

LEMMA StepTables == TablesInv /\ [Next]_vars => TablesInv'
  BY StepUsers, StepStored, StepPassword, StepHeld, StepFlags DEF TablesInv

-----------------------------------------------------------------------------
(* Rules and their accounts.                                               *)

LEMMA FollowFrame ==
    ASSUME FollowInv, UNCHANGED <<rules, target>>, DOMAIN users \subseteq DOMAIN users',
           \A i \in DOMAIN users : users'[i] # NoUser =>
               users[i] # NoUser /\ users'[i].name = users[i].name
    PROVE  FollowInv'
  BY DEF FollowInv

LEMMA StepFollow == TablesInv /\ FollowInv /\ [Next]_vars => FollowInv'
  <1> SUFFICES ASSUME TablesInv, FollowInv, [Next]_vars PROVE FollowInv'
    OBVIOUS
  <1>0. UsersInv /\ StoredInv /\ HeldInv
    BY DEF TablesInv
  <1>1. ASSUME NEW c \in Clients, NEW n \in Names, CreateMQTTUser(c, n)
        PROVE  FollowInv'
    <2>1. UNCHANGED <<rules, target>>
      BY <1>1 DEF CreateMQTTUser
    <2>2. DOMAIN users \subseteq DOMAIN users' /\ \A i \in DOMAIN users : users'[i] = users[i]
      BY <1>1, RowCreated
    <2>3. QED
      BY <2>1, <2>2, FollowFrame
  <1>2. ASSUME NEW c \in Clients, NEW i \in DOMAIN users, NEW new \in Names \cup {""},
              NEW disable \in {"keep", "yes", "no"}, handleUpdateMQTTUser(c, i, new, disable) PROVE FollowInv'
    BY <1>2, <1>0, FollowFrame DEF handleUpdateMQTTUser, accounts
  <1>3. ASSUME NEW c \in Clients, NEW i \in DOMAIN users, handleDeleteMQTTUser(c, i)
        PROVE  FollowInv'
    BY <1>3, <1>0, FollowFrame DEF handleDeleteMQTTUser, accounts
  <1>4. ASSUME NEW c \in Clients, NEW i \in DOMAIN users, handleResetMQTTUserPassword(c, i)
        PROVE  FollowInv'
    BY <1>4, <1>0, FollowFrame DEF handleResetMQTTUserPassword, accounts
  <1>5. ASSUME NEW c \in Clients, handleCreateMQTTUser(c) PROVE FollowInv'
    BY <1>5, <1>0, FollowFrame DEF handleCreateMQTTUser, accounts
  <1>6. ASSUME NEW c \in Clients, updateMQTTUser(c) PROVE FollowInv'
    <2>1. target' = target
      BY <1>6 DEF updateMQTTUser
    <2>2. CASE Refused(c)
      BY <1>6, <2>1, <2>2, FollowFrame DEF updateMQTTUser
    <2>3. CASE ~Refused(c)
      <3> DEFINE i == calls[c].id
                 old == users[i].name
                 new == users'[i].name
      <3>1. calls[c].op = "update"
        BY <1>6 DEF updateMQTTUser, Busy
      <3>2. users[i] # NoUser /\ old # "" /\ i \in DOMAIN users
        BY <1>0, <2>3, <3>1, RowWritten
      <3>3. /\ DOMAIN users' = DOMAIN users
            /\ \A j \in DOMAIN users \ {i} : users'[j] = users[j]
        BY <1>6, <2>3, RowUpdated
      <3>4. rules' = cascadeRename(old, new) /\ old \in Text /\ new \in Text
        BY <1>6, <2>3, RulesRenamed
      <3> HIDE DEF i, old, new
      <3>5. /\ DOMAIN rules' = DOMAIN rules
            /\ \A r \in DOMAIN rules : rules[r] # NoRule =>
                 /\ rules'[r] \in Stored /\ rules'[r].sel = rules[r].sel
                 /\ rules'[r].who =
                      IF rules[r].sel = "user" /\ rules[r].who = old THEN new ELSE rules[r].who
        BY <1>0, <3>4, CascadeWrites
      <3> SUFFICES ASSUME NEW r \in DOMAIN rules, target[r] # 0
                   PROVE  /\ target[r] \in DOMAIN users' /\ rules'[r] # NoRule /\ rules'[r].sel = "user"
                          /\ users'[target[r]] # NoUser => rules'[r].who = users'[target[r]].name
        BY <2>1, <3>5 DEF FollowInv
      <3>6. /\ target[r] \in DOMAIN users /\ rules[r] # NoRule /\ rules[r].sel = "user"
            /\ users[target[r]] # NoUser => rules[r].who = users[target[r]].name
        BY DEF FollowInv
      <3>7. rules'[r] # NoRule /\ rules'[r].sel = "user"
        BY <3>5, <3>6, NoRuleStored
      <3>8. CASE target[r] = i
        BY <3>2, <3>3, <3>5, <3>6, <3>7, <3>8 DEF old, new
      <3>9. CASE target[r] # i
        <4>1. users'[target[r]] = users[target[r]]
          BY <3>3, <3>6, <3>9
        <4>2. users[target[r]].name # old
          BY <1>0, <3>2, <3>6, <3>9 DEF UsersInv, old
        <4>3. QED
          BY <3>3, <3>5, <3>6, <3>7, <4>1, <4>2
      <3>10. QED
        BY <3>8, <3>9
    <2>4. QED
      BY <2>2, <2>3
  <1>7. ASSUME NEW c \in Clients, forgetDisabled(c) PROVE FollowInv'
    BY <1>7, <1>0, FollowFrame DEF forgetDisabled, accounts
  <1>8. ASSUME NEW c \in Clients, ReadBackFails(c) PROVE FollowInv'
    BY <1>8, <1>0, FollowFrame DEF ReadBackFails, accounts
  <1>9. ASSUME NEW c \in Clients, DeleteMQTTUser(c) PROVE FollowInv'
    <2>1. UNCHANGED <<rules, target>>
      BY <1>9 DEF DeleteMQTTUser
    <2>2. CASE ~GetMQTTUser(calls[c].id)
      BY <1>9, <2>1, <2>2, FollowFrame DEF DeleteMQTTUser
    <2>3. CASE GetMQTTUser(calls[c].id)
      <3>1. /\ DOMAIN users' = DOMAIN users /\ users'[calls[c].id] = NoUser
            /\ \A j \in DOMAIN users \ {calls[c].id} : users'[j] = users[j]
        BY <1>9, <2>3, RowDeleted
      <3>2. QED
        BY <2>1, <3>1, FollowFrame
    <2>4. QED
      BY <2>2, <2>3
  <1>10. ASSUME NEW c \in Clients, forgetDeleted(c) PROVE FollowInv'
    BY <1>10, <1>0, FollowFrame DEF forgetDeleted, accounts
  <1>11. ASSUME NEW c \in Clients, UpdateMQTTUserAndRun(c) PROVE FollowInv'
    <2>1. UNCHANGED <<rules, target>>
      BY <1>11 DEF UpdateMQTTUserAndRun
    <2>2. CASE Refused(c)
      BY <1>11, <2>1, <2>2, FollowFrame DEF UpdateMQTTUserAndRun
    <2>3. CASE ~Refused(c)
      <3>1. calls[c].op = "reset" /\ calls[c].new = ""
        BY <1>11, <1>0 DEF UpdateMQTTUserAndRun, Busy, HeldInv, HeldOK
      <3>2. /\ users[calls[c].id] # NoUser
            /\ Updated(users[calls[c].id], calls[c]).name = users[calls[c].id].name
        BY <1>0, <2>3, <3>1, RowWritten
      <3>3. /\ DOMAIN users' = DOMAIN users
            /\ users'[calls[c].id] = Updated(users[calls[c].id], calls[c])
            /\ \A j \in DOMAIN users \ {calls[c].id} : users'[j] = users[j]
        BY <1>11, <2>3, RowUpdated
      <3>4. QED
        BY <2>1, <3>2, <3>3, FollowFrame
    <2>4. QED
      BY <2>2, <2>3
  <1>12. ASSUME NEW c \in Clients, NEW r \in Pool, handleCreateRule(c, r)
         PROVE  FollowInv'
    <2>1. users' = users
      BY <1>12 DEF handleCreateRule, StoreRule, accounts
    <2>2. /\ DOMAIN rules' = DOMAIN rules \cup {Len(rules) + 1} /\ Len(rules) + 1 \notin DOMAIN rules
          /\ rules'[Len(rules) + 1] = Normalize(r) /\ target'[Len(rules) + 1] = OwnerOf(r)
          /\ \A j \in DOMAIN rules : rules'[j] = rules[j] /\ target'[j] = target[j]
          /\ Normalize(r) \in Stored /\ Normalize(r).who = r.who
          /\ Normalize(r).sel = EffectiveSelector(r)
      BY <1>12, RuleCreated
    <2>3. OwnerOf(r) # 0 => /\ OwnerOf(r) \in DOMAIN users /\ users[OwnerOf(r)].name = r.who
                           /\ EffectiveSelector(r) = "user"
      BY <1>0, OwnerIs
    <2>4. QED
      BY <2>1, <2>2, <2>3, NoRuleStored DEF FollowInv
  <1>13. ASSUME NEW c \in Clients, NEW i \in DOMAIN rules, NEW r \in Pool, handleUpdateRule(c, i, r)
         PROVE  FollowInv'
    <2>1. users' = users
      BY <1>13 DEF handleUpdateRule, StoreRule, accounts
    <2>2. /\ DOMAIN rules' = DOMAIN rules
          /\ rules'[i] = Normalize(r) /\ target'[i] = OwnerOf(r)
          /\ \A j \in DOMAIN rules \ {i} : rules'[j] = rules[j] /\ target'[j] = target[j]
          /\ Normalize(r) \in Stored /\ Normalize(r).who = r.who
          /\ Normalize(r).sel = EffectiveSelector(r)
      BY <1>13, RuleUpdated
    <2>3. OwnerOf(r) # 0 => /\ OwnerOf(r) \in DOMAIN users /\ users[OwnerOf(r)].name = r.who
                           /\ EffectiveSelector(r) = "user"
      BY <1>0, OwnerIs
    <2>4. QED
      BY <2>1, <2>2, <2>3, NoRuleStored DEF FollowInv
  <1>14. ASSUME NEW c \in Clients, NEW i \in DOMAIN rules, handleDeleteRule(c, i)
         PROVE  FollowInv'
    <2>1. users' = users
      BY <1>14 DEF handleDeleteRule, StoreRule, accounts
    <2>2. /\ DOMAIN rules' = DOMAIN rules /\ target'[i] = 0
          /\ \A j \in DOMAIN rules \ {i} : rules'[j] = rules[j] /\ target'[j] = target[j]
      BY <1>14, RuleDeleted
    <2>3. QED
      BY <2>1, <2>2 DEF FollowInv
  <1>15. ASSUME NEW c \in Clients, SyncRules(c) PROVE FollowInv'
    BY <1>15, <1>0, FollowFrame DEF SyncRules, accounts
  <1>16. ASSUME NEW c \in Clients, SyncSpecs(c) PROVE FollowInv'
    BY <1>16, <1>0, FollowFrame DEF SyncSpecs, accounts
  <1>17. ASSUME NEW c \in Clients, setACLFile(c) PROVE FollowInv'
    BY <1>17, <1>0, FollowFrame DEF setACLFile, accounts
  <1>18. ASSUME NEW c \in Clients, SyncFails(c) PROVE FollowInv'
    BY <1>18, <1>0, FollowFrame DEF SyncFails, accounts
  <1>19. ASSUME NEW c \in Clients, SyncDone(c) PROVE FollowInv'
    BY <1>19, <1>0, FollowFrame DEF SyncDone, accounts
  <1>20. CASE Restart
    BY <1>20, <1>0, FollowFrame DEF Restart, accounts
  <1>21. CASE UNCHANGED vars
    BY <1>21, FollowFrame DEF vars
  <1>22. CASE ListenerStep
    BY <1>22, ListenerSteps, FollowFrame
  <1>23. QED
    BY <1>1, <1>2, <1>3, <1>4, <1>5, <1>6, <1>7, <1>8, <1>9, <1>10, <1>11,
       <1>12, <1>13, <1>14, <1>15, <1>16, <1>17, <1>18, <1>19, <1>20, <1>21, <1>22
       DEF Next, AccountStep, RuleStep

-----------------------------------------------------------------------------
(* Remembered passwords.                                                   *)

(* Nobody else holds the account or the name that a step writes.           *)
Untouched(c, i, n) ==
    \A d \in Clients \ {c} : calls[d].op \in {"create", "update", "delete"} =>
        calls[d].id # i /\ calls[d].name # n

(* Row i, which may be new, gets the name n or none.                       *)
Rewritten(i, n) ==
    /\ DOMAIN users \subseteq DOMAIN users' /\ \A j \in DOMAIN users \ {i} : users'[j] = users[j]
    /\ \A j \in DOMAIN users' \ DOMAIN users : j = i
    /\ i \in DOMAIN users' /\ users'[i].name \in {n, ""}

LEMMA NoOverlap ==
    ASSUME FlagsInv, NEW c \in Clients, NEW i, NEW n, Overlap(c, i, n), ~raced'
    PROVE  ~raced /\ Untouched(c, i, n)
  <1>1. raced' <=> raced \/ \E d \in {e \in Clients \ {c} : Busy(e, AccountOps \ {"reset"})} :
                              calls[d].id = i \/ calls[d].name = n
    BY DEF Overlap, FlagsInv
  <1>2. QED
    BY <1>1 DEF Busy, AccountOps, Untouched

(* A step that leaves the tables: what a handler gets to hold was just read,*)
(* and no deletion forgets to forget.                                      *)
LEMMA CurrentFrame ==
    ASSUME CurrentInv, UNCHANGED <<users, passwords, raced>>,
           \A d \in Clients : \/ calls'[d] = calls[d]
                              \/ /\ ~(calls[d].op = "delete" /\ calls[d].pc = "forget")
                                 /\ ReadOK(calls'[d], users)
    PROVE  CurrentInv'
  <1> SUFFICES ASSUME ~raced, ReadInv, KeptInv PROVE ReadInv' /\ KeptInv'
    BY DEF CurrentInv
  <1>1. ReadInv'
    BY DEF ReadInv
  <1>2. \A d \in Clients, n \in Names : Forgetting(d, n) => Forgetting(d, n)'
    BY DEF Forgetting
  <1>3. KeptInv'
    BY <1>2 DEF KeptInv, Current
  <1>4. QED
    BY <1>1, <1>3

(* A step that leaves the accounts: a password is cleared, or is the one   *)
(* of the account that has the name.                                       *)
LEMMA CurrentReturn ==
    ASSUME TablesInv, CurrentInv, UNCHANGED <<users, raced>>, NEW c \in Clients, Return(c),
           NEW n \in Names, NEW p, passwords' = [passwords EXCEPT ![n] = p],
           calls[c].op = "delete" => calls[c].name = n,
           ~raced /\ p # 0 => \E i \in DOMAIN users : users[i].name = n /\ users[i].hash = p
    PROVE  CurrentInv'
  <1> SUFFICES ASSUME ~raced, ReadInv, KeptInv PROVE ReadInv' /\ KeptInv'
    BY DEF CurrentInv
  <1>0. calls'[c].op = "idle" /\ \A d \in Clients \ {c} : calls'[d] = calls[d]
    BY Returned DEF TablesInv
  <1>1. ReadInv'
    BY <1>0 DEF ReadInv, ReadOK
  <1>2. passwords'[n] = p /\ \A m \in Names \ {n} : passwords'[m] = passwords[m]
    BY DEF TablesInv, PasswordInv
  <1>3. \A d \in Clients, m \in Names \ {n} : Forgetting(d, m) => Forgetting(d, m)'
    BY <1>0 DEF Forgetting
  <1>4. \A m \in Names \ {n} : passwords'[m] # 0 => Current(m)' \/ \E d \in Clients : Forgetting(d, m)'
    BY <1>2, <1>3 DEF KeptInv, Current
  <1>5. p # 0 => Current(n)'
    BY <1>2 DEF Current
  <1>6. KeptInv'
    BY <1>2, <1>4, <1>5 DEF KeptInv
  <1>7. QED
    BY <1>1, <1>6

(* A row of nobody else's is written: what the others read is still there. *)
LEMMA ReadOthers ==
    ASSUME TablesInv, ReadInv, NEW c \in Clients, NEW i, NEW n,
           Untouched(c, i, n), Rewritten(i, n),
           NEW d \in Clients \ {c}
    PROVE  ReadOK(calls[d], users')
  <1>1. ReadOK(calls[d], users) /\ HeldOK(calls[d], DOMAIN users)
    BY DEF ReadInv, TablesInv, HeldInv
  <1>2. CASE calls[d].op \notin {"create", "update", "delete"}
    BY <1>2 DEF ReadOK
  <1>3. CASE calls[d].op \in {"create", "update", "delete"}
    <2>1. /\ calls[d].id # i /\ calls[d].name # n /\ calls[d].name # ""
          /\ calls[d].id \in DOMAIN users
      BY <1>1, <1>3 DEF HeldOK, AccountOps, Untouched
    <2>2. users'[calls[d].id] = users[calls[d].id]
      BY <2>1 DEF Rewritten
    <2>3. (\A j \in DOMAIN users : users[j].name # calls[d].name) =>
            \A j \in DOMAIN users' : users'[j].name # calls[d].name
      BY <2>1 DEF Rewritten
    <2>4. QED
      BY <1>1, <2>2, <2>3 DEF ReadOK
  <1>4. QED
    BY <1>2, <1>3

(* The password that a name has is the one of its account, unless it is    *)
(* about to be forgotten; then no account has the name.                    *)
LEMMA HeldByOne ==
    ASSUME UsersInv, ReadInv, KeptInv, NEW i \in DOMAIN users, users[i].name \in Names,
           users[i].name # "", passwords[users[i].name] # 0
    PROVE  users[i].hash = passwords[users[i].name]
  <1>1. ASSUME NEW d \in Clients, Forgetting(d, users[i].name) PROVE FALSE
    BY <1>1 DEF Forgetting, ReadInv, ReadOK
  <1>2. PICK j \in DOMAIN users : users[j].name = users[i].name /\ users[j].hash = passwords[users[i].name]
    BY <1>1 DEF KeptInv, Current
  <1>3. j = i
    BY <1>2 DEF UsersInv
  <1>4. QED
    BY <1>2, <1>3

LEMMA IdlePlace == Idle.pc = ""
  BY DEF Idle, Call

LEMMA RuleHeld ==
    ASSUME HeldInv, NEW c \in Clients, NEW h, h.op = "rule", calls[c].op \in {"idle", "rule"}, Disturb(c, h)
    PROVE  \A d \in Clients : \/ calls'[d] = calls[d]
                              \/ /\ ~(calls[d].op = "delete" /\ calls[d].pc = "forget")
                                 /\ ReadOK(calls'[d], users)
  <1>1. \A d \in Clients : calls[d].op = "rule" => [calls[d] EXCEPT !.alone = FALSE].op = "rule"
    BY DEF HeldInv, Held
  <1>2. \A d \in Clients : \/ calls'[d] = calls[d]
                           \/ d = c /\ calls'[d] = h
                           \/ calls[d].op = "rule" /\ calls'[d] = [calls[d] EXCEPT !.alone = FALSE]
    BY DEF Disturb
  <1>3. QED
    BY <1>1, <1>2 DEF ReadOK

LEMMA StepCurrent == TablesInv /\ CurrentInv /\ [Next]_vars => CurrentInv'
  <1> SUFFICES ASSUME TablesInv, CurrentInv, [Next]_vars PROVE CurrentInv'
    OBVIOUS
  <1>0. UsersInv /\ StoredInv /\ HeldInv /\ PasswordInv /\ FlagsInv
    BY DEF TablesInv
  <1>1. ASSUME NEW c \in Clients, NEW n \in Names, CreateMQTTUser(c, n)
        PROVE  CurrentInv'
    <2> SUFFICES ASSUME ~raced' PROVE ReadInv' /\ KeptInv'
      BY DEF CurrentInv
    <2> DEFINE i == Len(users) + 1
               k == Call("create", "remember", i, n)
               h == [k EXCEPT !.password = issued + 1]
    <2>1. Overlap(c, i, n) /\ passwords' = passwords /\ calls' = [calls EXCEPT ![c] = h]
          /\ calls[c].op = "idle"
      BY <1>1, IdleHeld DEF CreateMQTTUser
    <2>2. /\ DOMAIN users' = DOMAIN users \cup {i} /\ i \notin DOMAIN users
          /\ users'[i].name = n /\ users'[i].hash = issued + 1
          /\ \A j \in DOMAIN users : users'[j] = users[j]
      BY <1>1, RowCreated
    <2>3. h.op = "create" /\ h.id = i /\ h.name = n /\ h.password = issued + 1
      BY DEF Call
    <2> HIDE DEF h, i
    <2>4. ~raced /\ Untouched(c, i, n)
      BY <1>0, <2>1, NoOverlap
    <2>5. ReadInv /\ KeptInv
      BY <2>4 DEF CurrentInv
    <2>6. calls'[c] = h /\ \A d \in Clients \ {c} : calls'[d] = calls[d]
      BY <1>0, <2>1 DEF HeldInv
    <2>7. \A d \in Clients \ {c} : ReadOK(calls[d], users')
      <3>1. Rewritten(i, n)
        BY <2>2 DEF Rewritten
      <3>2. QED
        BY <2>4, <2>5, <3>1, ReadOthers
    <2>8. ReadOK(h, users')
      BY <2>2, <2>3 DEF ReadOK
    <2>9. ReadInv'
      BY <2>6, <2>7, <2>8 DEF ReadInv
    <2>10. \A d \in Clients, m \in Names : Forgetting(d, m) => Forgetting(d, m)'
      BY <2>1, <2>6 DEF Forgetting
    <2>11. \A m \in Names : Current(m) => Current(m)'
      BY <2>1, <2>2 DEF Current
    <2>12. QED
      BY <2>1, <2>5, <2>9, <2>10, <2>11 DEF KeptInv
  <1>2. ASSUME NEW c \in Clients, NEW i \in DOMAIN users, NEW new \in Names \cup {""},
              NEW disable \in {"keep", "yes", "no"}, handleUpdateMQTTUser(c, i, new, disable) PROVE CurrentInv'
    <2>1. UNCHANGED <<users, passwords, raced>>
      BY <1>2 DEF handleUpdateMQTTUser, accounts, StoreRule
    <2>2. \A d \in Clients : \/ calls'[d] = calls[d]
                             \/ /\ ~(calls[d].op = "delete" /\ calls[d].pc = "forget")
                                /\ ReadOK(calls'[d], users)
      <3> DEFINE k == Call("update", "store", i, users[i].name)
                 h == [k EXCEPT !.new = new, !.disable = disable]
      <3>1. k.op = "update" /\ k.pc = "store" /\ k.id = i /\ k.name = users[i].name
        BY DEF Call
      <3>2. h.op = "update" /\ h.pc = "store" /\ h.id = i /\ h.name = users[i].name
        BY <3>1 DEF Call
      <3>3. calls' = [calls EXCEPT ![c] = h] /\ calls[c].op = "idle"
        BY <1>2, IdleHeld DEF handleUpdateMQTTUser
      <3> HIDE DEF k, h
      <3>4. ReadOK(h, users)
        BY <3>2 DEF ReadOK
      <3>5. QED
        BY <1>0, <3>3, <3>4 DEF HeldInv
    <2>3. QED
      BY <2>1, <2>2, CurrentFrame
  <1>3. ASSUME NEW c \in Clients, NEW i \in DOMAIN users, handleDeleteMQTTUser(c, i)
        PROVE  CurrentInv'
    <2>1. UNCHANGED <<users, passwords, raced>>
      BY <1>3 DEF handleDeleteMQTTUser, accounts, StoreRule
    <2>2. \A d \in Clients : \/ calls'[d] = calls[d]
                             \/ /\ ~(calls[d].op = "delete" /\ calls[d].pc = "forget")
                                /\ ReadOK(calls'[d], users)
      <3> DEFINE k == Call("delete", "store", i, users[i].name)
                 h == k
      <3>1. k.op = "delete" /\ k.pc = "store" /\ k.id = i /\ k.name = users[i].name
        BY DEF Call
      <3>2. h.op = "delete" /\ h.pc = "store" /\ h.id = i /\ h.name = users[i].name
        BY <3>1 DEF Call
      <3>3. calls' = [calls EXCEPT ![c] = h] /\ calls[c].op = "idle"
        BY <1>3, IdleHeld DEF handleDeleteMQTTUser
      <3> HIDE DEF k, h
      <3>4. ReadOK(h, users)
        BY <3>2 DEF ReadOK
      <3>5. QED
        BY <1>0, <3>3, <3>4 DEF HeldInv
    <2>3. QED
      BY <2>1, <2>2, CurrentFrame
  <1>4. ASSUME NEW c \in Clients, NEW i \in DOMAIN users, handleResetMQTTUserPassword(c, i)
        PROVE  CurrentInv'
    <2>1. UNCHANGED <<users, passwords, raced>>
      BY <1>4 DEF handleResetMQTTUserPassword, accounts, StoreRule
    <2>2. \A d \in Clients : \/ calls'[d] = calls[d]
                             \/ /\ ~(calls[d].op = "delete" /\ calls[d].pc = "forget")
                                /\ ReadOK(calls'[d], users)
      <3> DEFINE k == Call("reset", "store", i, users[i].name)
                 h == [k EXCEPT !.password = issued + 1]
      <3>1. k.op = "reset" /\ k.pc = "store" /\ k.id = i /\ k.name = users[i].name
        BY DEF Call
      <3>2. h.op = "reset" /\ h.pc = "store" /\ h.id = i /\ h.name = users[i].name
        BY <3>1 DEF Call
      <3>3. calls' = [calls EXCEPT ![c] = h] /\ calls[c].op = "idle"
        BY <1>4, IdleHeld DEF handleResetMQTTUserPassword
      <3> HIDE DEF k, h
      <3>4. ReadOK(h, users)
        BY <3>2 DEF ReadOK
      <3>5. QED
        BY <1>0, <3>3, <3>4 DEF HeldInv
    <2>3. QED
      BY <2>1, <2>2, CurrentFrame
  <1>5. ASSUME NEW c \in Clients, handleCreateMQTTUser(c) PROVE CurrentInv'
    <2>1. /\ UNCHANGED <<users, raced>> /\ Return(c) /\ calls[c].op = "create"
          /\ passwords' = [passwords EXCEPT ![calls[c].name] = calls[c].password]
      BY <1>5 DEF handleCreateMQTTUser, rememberMQTTPassword, Busy
    <2>2. calls[c].name \in Names /\ calls[c].id \in DOMAIN users
      BY <1>0, <2>1 DEF HeldInv, HeldOK, AccountOps
    <2>3. ~raced => users[calls[c].id].name = calls[c].name /\ users[calls[c].id].hash = calls[c].password
      BY <2>1 DEF CurrentInv, ReadInv, ReadOK
    <2>4. QED
      BY <2>1, <2>2, <2>3, CurrentReturn
  <1>6. ASSUME NEW c \in Clients, updateMQTTUser(c) PROVE CurrentInv'
    <2>1. CASE Refused(c)
      <3>1. UNCHANGED <<users, passwords, raced>> /\ Return(c) /\ calls[c].op = "update"
        BY <1>6, <2>1 DEF updateMQTTUser, Busy
      <3>2. QED
        BY <1>0, <3>1, Returned, CurrentFrame DEF ReadOK
    <2>2. CASE ~Refused(c)
      <3> SUFFICES ASSUME ~raced' PROVE ReadInv' /\ KeptInv'
        BY DEF CurrentInv
      <3> DEFINE i == calls[c].id
                 old == users[i].name
                 row == Updated(users[i], calls[c])
                 new == row.name
      <3>1. Overlap(c, i, new) /\ calls[c].op = "update" /\ calls[c].pc = "store"
        BY <1>6, <2>2 DEF updateMQTTUser, Busy
      <3>2. /\ DOMAIN users' = DOMAIN users /\ users'[i] = row
            /\ \A j \in DOMAIN users \ {i} : users'[j] = users[j]
        BY <1>6, <2>2, RowUpdated
      <3>3. /\ i \in DOMAIN users /\ old # "" /\ old \in Names /\ new # "" /\ new \in Names
            /\ row.hash = IF calls[c].password = 0 THEN users[i].hash ELSE calls[c].password
            /\ (calls[c].new = "" => new = old)
            /\ \A j \in DOMAIN users : users[j].name = new => j = i
        BY <1>0, <2>2, <3>1, RowWritten
      <3>4. HeldOK(calls[c], DOMAIN users) /\ calls[c] \in Held
        BY <1>0 DEF HeldInv
      <3> HIDE DEF i, row
      <3>5. ~raced /\ Untouched(c, i, new)
        BY <1>0, <3>1, NoOverlap
      <3>6. ReadInv /\ KeptInv
        BY <3>5 DEF CurrentInv
      <3>7. \A d \in Clients \ {c} : ReadOK(calls[d], users')
        <4>1. Rewritten(i, new)
          BY <3>2, <3>3 DEF Rewritten
        <4>2. QED
          BY <3>5, <3>6, <4>1, ReadOthers
      <3>8. \A d \in Clients \ {c} : calls'[d] = calls[d]
        BY <1>6, <1>0, <2>2 DEF updateMQTTUser, HeldInv
      <3>9. calls'[c].op \in {"idle", "update"} /\ calls'[c].pc # "store"
        <4> DEFINE h == [calls[c] EXCEPT !.pc = "forget", !.name = new]
        <4>1. calls'[c] = IF row.disabled THEN h ELSE Idle
          BY <1>6, <1>0, <2>2 DEF updateMQTTUser, HeldInv, row, i
        <4>2. h.op = "update" /\ h.pc = "forget"
          BY <3>1, <3>4 DEF Held
        <4> HIDE DEF h
        <4>3. QED
          BY <4>1, <4>2, IdleHeld, IdlePlace
      <3>10. ReadInv'
        BY <3>7, <3>8, <3>9 DEF ReadInv, ReadOK
      <3>11. \A d \in Clients, m \in Names : Forgetting(d, m) => Forgetting(d, m)'
        BY <3>1, <3>8 DEF Forgetting
      <3>12. calls[c].name = old /\ row.hash = users[i].hash
        BY <3>1, <3>3, <3>4, <3>6 DEF ReadInv, ReadOK, HeldOK, i
      <3>13. passwords' = IF new # old THEN moveRemembered(old, new) ELSE passwords
        <4>1. passwords' = IF calls[c].new # "" /\ calls[c].name # new THEN moveRemembered(calls[c].name, new)
                           ELSE passwords
          BY <1>6, <2>2 DEF updateMQTTUser, row, i
        <4>2. QED
          BY <3>3, <3>12, <4>1
      <3>14. CASE passwords' = passwords
        <4>1. ASSUME NEW m \in Names, passwords[m] # 0, Current(m) PROVE Current(m)'
          <5>1. PICK j \in DOMAIN users : users[j].name = m /\ users[j].hash = passwords[m]
            BY <4>1 DEF Current
          <5>2. CASE new = old \/ j # i
            BY <3>2, <3>12, <3>14, <5>1, <5>2 DEF Current
          <5>3. CASE new # old /\ j = i
            <6>1. passwords[old] # 0
              BY <4>1, <5>1, <5>3
            <6>2. passwords' # passwords
              <7>1. passwords'[old] = 0
                BY <1>0, <3>3, <3>13, <5>3, <6>1
                   DEF moveRemembered, rememberMQTTPassword, forgetMQTTPassword, PasswordInv
              <7>2. QED
                BY <6>1, <7>1
            <6>3. QED
              BY <3>14, <6>2
          <5>4. QED
            BY <5>2, <5>3
        <4>2. QED
          BY <3>6, <3>10, <3>11, <3>14, <4>1 DEF KeptInv
      <3>15. CASE passwords' # passwords
        <4>1. new # old /\ passwords[old] # 0
          BY <3>13, <3>15 DEF moveRemembered
        <4>2. /\ passwords'[new] = passwords[old] /\ passwords'[old] = 0
              /\ \A m \in Names \ {old, new} : passwords'[m] = passwords[m]
          BY <1>0, <3>3, <3>13, <4>1
             DEF moveRemembered, rememberMQTTPassword, forgetMQTTPassword, PasswordInv
        <4>3. users[i].hash = passwords[old]
          BY <1>0, <3>3, <3>6, <4>1, HeldByOne
        <4>4. users'[i].name = new /\ users'[i].hash = passwords'[new]
          BY <3>2, <3>12, <4>2, <4>3
        <4>5. \E j \in DOMAIN users' : users'[j].name = new /\ users'[j].hash = passwords'[new]
          BY <3>2, <3>3, <4>4
        <4>6. ASSUME NEW m \in Names, m # old, m # new, Current(m) PROVE Current(m)'
          BY <3>2, <4>2, <4>6 DEF Current
        <4>7. QED
          BY <3>6, <3>10, <3>11, <4>2, <4>5, <4>6 DEF KeptInv, Current
      <3>16. QED
        BY <3>14, <3>15
    <2>3. QED
      BY <2>1, <2>2
  <1>7. ASSUME NEW c \in Clients, forgetDisabled(c) PROVE CurrentInv'
    <2>1. /\ UNCHANGED <<users, raced>> /\ Return(c) /\ calls[c].op = "update"
          /\ passwords' = [passwords EXCEPT ![calls[c].name] = 0]
      BY <1>7 DEF forgetDisabled, forgetMQTTPassword, Busy
    <2>2. calls[c].name \in Names
      BY <1>0, <2>1 DEF HeldInv, HeldOK, AccountOps
    <2>3. QED
      BY <2>1, <2>2, CurrentReturn
  <1>8. ASSUME NEW c \in Clients, ReadBackFails(c) PROVE CurrentInv'
    <2>1. UNCHANGED <<users, passwords, raced>>
      BY <1>8 DEF ReadBackFails, accounts, StoreRule
    <2>2. \A d \in Clients : \/ calls'[d] = calls[d]
                             \/ /\ ~(calls[d].op = "delete" /\ calls[d].pc = "forget")
                                /\ ReadOK(calls'[d], users)
      <3>1. Return(c) /\ calls[c].op \in {"create", "update"}
        BY <1>8 DEF ReadBackFails, Busy
      <3>2. QED
        BY <1>0, <3>1, Returned DEF ReadOK
    <2>3. QED
      BY <2>1, <2>2, CurrentFrame
  <1>9. ASSUME NEW c \in Clients, DeleteMQTTUser(c) PROVE CurrentInv'
    <2>1. CASE ~GetMQTTUser(calls[c].id)
      <3>1. UNCHANGED <<users, passwords, raced>> /\ Return(c) /\ calls[c].pc = "store"
        BY <1>9, <2>1 DEF DeleteMQTTUser
      <3>2. QED
        BY <1>0, <3>1, Returned, CurrentFrame DEF ReadOK
    <2>2. CASE GetMQTTUser(calls[c].id)
      <3> SUFFICES ASSUME ~raced' PROVE ReadInv' /\ KeptInv'
        BY DEF CurrentInv
      <3> DEFINE i == calls[c].id
                 n == users[i].name
                 h == [calls[c] EXCEPT !.pc = "forget"]
      <3>1. /\ Overlap(c, i, n) /\ passwords' = passwords /\ calls' = [calls EXCEPT ![c] = h]
            /\ calls[c].op = "delete" /\ calls[c].pc = "store"
        BY <1>9, <2>2 DEF DeleteMQTTUser, Goto, Busy
      <3>2. /\ i \in DOMAIN users /\ DOMAIN users' = DOMAIN users /\ users'[i] = NoUser
            /\ \A j \in DOMAIN users \ {i} : users'[j] = users[j]
        BY <1>9, <2>2, RowDeleted DEF GetMQTTUser
      <3>3. h.op = "delete" /\ h.pc = "forget" /\ h.name = calls[c].name
        BY <1>0, <3>1 DEF HeldInv, Held
      <3>4. NoUser.name = ""
        BY DEF NoUser
      <3> HIDE DEF h, i
      <3>5. ~raced /\ Untouched(c, i, n)
        BY <1>0, <3>1, NoOverlap
      <3>6. ReadInv /\ KeptInv
        BY <3>5 DEF CurrentInv
      <3>7. calls'[c] = h /\ \A d \in Clients \ {c} : calls'[d] = calls[d]
        BY <1>0, <3>1 DEF HeldInv
      <3>8. \A d \in Clients \ {c} : ReadOK(calls[d], users')
        <4>1. Rewritten(i, n)
          BY <3>2, <3>4 DEF Rewritten
        <4>2. QED
          BY <3>5, <3>6, <4>1, ReadOthers
      <3>9. calls[c].name = n /\ calls[c].name # ""
        BY <1>0, <3>1, <3>6 DEF ReadInv, ReadOK, HeldInv, HeldOK, AccountOps, i
      <3>10. \A j \in DOMAIN users' : users'[j].name # n
        BY <1>0, <3>2, <3>4, <3>9 DEF UsersInv
      <3>11. ReadInv'
        BY <3>3, <3>7, <3>8, <3>9, <3>10 DEF ReadInv, ReadOK
      <3>12. \A d \in Clients, m \in Names : Forgetting(d, m) => Forgetting(d, m)'
        BY <3>1, <3>7 DEF Forgetting
      <3>13. calls'[c].op = "delete" /\ calls'[c].pc = "forget" /\ calls'[c].name = n
        BY <3>3, <3>7, <3>9
      <3>14. \A m \in Names : m # n /\ Current(m) => Current(m)'
        BY <3>1, <3>2 DEF Current
      <3>15. QED
        BY <3>1, <3>6, <3>11, <3>12, <3>13, <3>14 DEF KeptInv, Forgetting
    <2>3. QED
      BY <2>1, <2>2
  <1>10. ASSUME NEW c \in Clients, forgetDeleted(c) PROVE CurrentInv'
    <2>1. /\ UNCHANGED <<users, raced>> /\ Return(c) /\ calls[c].op = "delete"
          /\ passwords' = [passwords EXCEPT ![calls[c].name] = 0]
      BY <1>10 DEF forgetDeleted, forgetMQTTPassword, Busy
    <2>2. calls[c].name \in Names
      BY <1>0, <2>1 DEF HeldInv, HeldOK, AccountOps
    <2>3. QED
      BY <2>1, <2>2, CurrentReturn
  <1>11. ASSUME NEW c \in Clients, UpdateMQTTUserAndRun(c) PROVE CurrentInv'
    <2>1. CASE Refused(c)
      <3>1. UNCHANGED <<users, passwords, raced>> /\ Return(c) /\ calls[c].op = "reset"
        BY <1>11, <2>1 DEF UpdateMQTTUserAndRun, Busy
      <3>2. QED
        BY <1>0, <3>1, Returned, CurrentFrame DEF ReadOK
    <2>2. CASE ~Refused(c)
      <3> SUFFICES ASSUME ~raced' PROVE ReadInv' /\ KeptInv'
        BY DEF CurrentInv
      <3> DEFINE i == calls[c].id
                 old == users[i].name
                 row == Updated(users[i], calls[c])
                 new == row.name
      <3>1. Overlap(c, i, new) /\ calls[c].op = "reset" /\ Return(c)
        BY <1>11, <2>2 DEF UpdateMQTTUserAndRun, Busy
      <3>2. /\ DOMAIN users' = DOMAIN users /\ users'[i] = row
            /\ \A j \in DOMAIN users \ {i} : users'[j] = users[j]
        BY <1>11, <2>2, RowUpdated
      <3>3. /\ i \in DOMAIN users /\ old # "" /\ old \in Names /\ new # "" /\ new \in Names
            /\ row.hash = IF calls[c].password = 0 THEN users[i].hash ELSE calls[c].password
            /\ (calls[c].new = "" => new = old)
            /\ \A j \in DOMAIN users : users[j].name = new => j = i
        BY <1>0, <2>2, <3>1, RowWritten
      <3>4. HeldOK(calls[c], DOMAIN users) /\ calls[c] \in Held
        BY <1>0 DEF HeldInv
      <3> HIDE DEF i, row
      <3>5. ~raced /\ Untouched(c, i, new)
        BY <1>0, <3>1, NoOverlap
      <3>6. ReadInv /\ KeptInv
        BY <3>5 DEF CurrentInv
      <3>7. \A d \in Clients \ {c} : ReadOK(calls[d], users')
        <4>1. Rewritten(i, new)
          BY <3>2, <3>3 DEF Rewritten
        <4>2. QED
          BY <3>5, <3>6, <4>1, ReadOthers
      <3>8. \A d \in Clients \ {c} : calls'[d] = calls[d]
        BY <1>0, <3>1, Returned
      <3>9. calls'[c].op \in {"idle", "update"} /\ calls'[c].pc # "store"
        BY <1>0, <3>1, Returned, IdlePlace
      <3>10. ReadInv'
        BY <3>7, <3>8, <3>9 DEF ReadInv, ReadOK
      <3>11. \A d \in Clients, m \in Names : Forgetting(d, m) => Forgetting(d, m)'
        BY <3>1, <3>8 DEF Forgetting
      <3>12. passwords' = [passwords EXCEPT ![new] = calls[c].password]
        BY <1>11, <2>2 DEF UpdateMQTTUserAndRun, rememberMQTTPassword, row, i
      <3>13. passwords'[new] = calls[c].password /\ \A m \in Names \ {new} : passwords'[m] = passwords[m]
        BY <1>0, <3>3, <3>12 DEF PasswordInv
      <3>14. new = old
        BY <3>1, <3>3, <3>4 DEF HeldOK
      <3>15. \A m \in Names \ {new} : Current(m) => Current(m)'
        BY <3>2, <3>13, <3>14 DEF Current
      <3>16. passwords'[new] # 0 => \E j \in DOMAIN users' : users'[j].name = new /\ users'[j].hash = passwords'[new]
        BY <3>2, <3>3, <3>13
      <3>17. QED
        BY <3>6, <3>10, <3>11, <3>13, <3>15, <3>16 DEF KeptInv, Current
    <2>3. QED
      BY <2>1, <2>2
  <1>12. ASSUME NEW c \in Clients, NEW r \in Pool, handleCreateRule(c, r)
         PROVE  CurrentInv'
    <2>1. UNCHANGED <<users, passwords, raced>>
      BY <1>12 DEF handleCreateRule, accounts, StoreRule
    <2>2. \A d \in Clients : \/ calls'[d] = calls[d]
                             \/ /\ ~(calls[d].op = "delete" /\ calls[d].pc = "forget")
                                /\ ReadOK(calls'[d], users)
      <3> DEFINE h == Call("rule", "rules", 0, "")
      <3>1. Disturb(c, h) /\ calls[c].op = "idle"
        BY <1>12, IdleHeld DEF handleCreateRule, StoreRule
      <3>2. h \in Held /\ h.op = "rule"
        BY CallHeld DEF Call
      <3> HIDE DEF h
      <3>3. QED
        BY <1>0, <3>1, <3>2, RuleHeld
    <2>3. QED
      BY <2>1, <2>2, CurrentFrame
  <1>13. ASSUME NEW c \in Clients, NEW i \in DOMAIN rules, NEW r \in Pool, handleUpdateRule(c, i, r)
         PROVE  CurrentInv'
    <2>1. UNCHANGED <<users, passwords, raced>>
      BY <1>13 DEF handleUpdateRule, accounts, StoreRule
    <2>2. \A d \in Clients : \/ calls'[d] = calls[d]
                             \/ /\ ~(calls[d].op = "delete" /\ calls[d].pc = "forget")
                                /\ ReadOK(calls'[d], users)
      <3> DEFINE h == Call("rule", "rules", 0, "")
      <3>1. Disturb(c, h) /\ calls[c].op = "idle"
        BY <1>13, IdleHeld DEF handleUpdateRule, StoreRule
      <3>2. h \in Held /\ h.op = "rule"
        BY CallHeld DEF Call
      <3> HIDE DEF h
      <3>3. QED
        BY <1>0, <3>1, <3>2, RuleHeld
    <2>3. QED
      BY <2>1, <2>2, CurrentFrame
  <1>14. ASSUME NEW c \in Clients, NEW i \in DOMAIN rules, handleDeleteRule(c, i)
         PROVE  CurrentInv'
    <2>1. UNCHANGED <<users, passwords, raced>>
      BY <1>14 DEF handleDeleteRule, accounts, StoreRule
    <2>2. \A d \in Clients : \/ calls'[d] = calls[d]
                             \/ /\ ~(calls[d].op = "delete" /\ calls[d].pc = "forget")
                                /\ ReadOK(calls'[d], users)
      <3> DEFINE h == Call("rule", "rules", 0, "")
      <3>1. Disturb(c, h) /\ calls[c].op = "idle"
        BY <1>14, IdleHeld DEF handleDeleteRule, StoreRule
      <3>2. h \in Held /\ h.op = "rule"
        BY CallHeld DEF Call
      <3> HIDE DEF h
      <3>3. QED
        BY <1>0, <3>1, <3>2, RuleHeld
    <2>3. QED
      BY <2>1, <2>2, CurrentFrame
  <1>15. ASSUME NEW c \in Clients, SyncRules(c) PROVE CurrentInv'
    <2>1. UNCHANGED <<users, passwords, raced>>
      BY <1>15 DEF SyncRules, accounts, StoreRule
    <2>2. \A d \in Clients : \/ calls'[d] = calls[d]
                             \/ /\ ~(calls[d].op = "delete" /\ calls[d].pc = "forget")
                                /\ ReadOK(calls'[d], users)
      <3> DEFINE h == [calls[c] EXCEPT !.pc = "specs", !.alone = \A d \in Clients \ {c} : ~Busy(d, {"rule"}),
                                       !.scoped = Scoped]
      <3>1. Disturb(c, h) /\ calls[c].op = "rule"
        BY <1>15 DEF SyncRules, Scoped, Busy
      <3>2. h.op = "rule"
        BY <1>0, <3>1 DEF HeldInv, Held
      <3> HIDE DEF h
      <3>3. QED
        BY <1>0, <3>1, <3>2, RuleHeld
    <2>3. QED
      BY <2>1, <2>2, CurrentFrame
  <1>16. ASSUME NEW c \in Clients, SyncSpecs(c) PROVE CurrentInv'
    <2>1. UNCHANGED <<users, passwords, raced>>
      BY <1>16 DEF SyncSpecs, accounts, StoreRule
    <2>2. \A d \in Clients : \/ calls'[d] = calls[d]
                             \/ /\ ~(calls[d].op = "delete" /\ calls[d].pc = "forget")
                                /\ ReadOK(calls'[d], users)
      <3>1. PICK h : calls' = [calls EXCEPT ![c] = h] /\ h.op = "rule" /\ calls[c].op = "rule"
        <4>1. calls[c] \in Held /\ calls[c].op = "rule"
          BY <1>16, <1>0 DEF SyncSpecs, Busy, HeldInv
        <4>2. \A x : /\ [calls[c] EXCEPT !.pc = "set", !.todo = x].op = "rule"
                     /\ [calls[c] EXCEPT !.todo = x].op = "rule"
          BY <4>1 DEF Held
        <4>3. \E x : \/ calls' = [calls EXCEPT ![c] = [calls[c] EXCEPT !.pc = "set", !.todo = x]]
                     \/ calls' = [calls EXCEPT ![c] = [calls[c] EXCEPT !.todo = x]]
          BY <1>16 DEF SyncSpecs
        <4>4. QED
          BY <4>1, <4>2, <4>3
      <3>2. QED
        BY <1>0, <3>1 DEF HeldInv, ReadOK
    <2>3. QED
      BY <2>1, <2>2, CurrentFrame
  <1>17. ASSUME NEW c \in Clients, setACLFile(c) PROVE CurrentInv'
    <2>1. UNCHANGED <<users, passwords, raced>>
      BY <1>17 DEF setACLFile, accounts, StoreRule
    <2>2. \A d \in Clients : \/ calls'[d] = calls[d]
                             \/ /\ ~(calls[d].op = "delete" /\ calls[d].pc = "forget")
                                /\ ReadOK(calls'[d], users)
      <3>1. PICK h : calls' = [calls EXCEPT ![c] = h] /\ h.op = "rule" /\ calls[c].op = "rule"
        <4>1. calls[c] \in Held /\ calls[c].op = "rule"
          BY <1>17, <1>0 DEF setACLFile, Busy, HeldInv
        <4>2. \A x : /\ [calls[c] EXCEPT !.pc = "set", !.todo = x].op = "rule"
                     /\ [calls[c] EXCEPT !.todo = x].op = "rule"
          BY <4>1 DEF Held
        <4>3. \E x : \/ calls' = [calls EXCEPT ![c] = [calls[c] EXCEPT !.pc = "set", !.todo = x]]
                     \/ calls' = [calls EXCEPT ![c] = [calls[c] EXCEPT !.todo = x]]
          BY <1>17 DEF setACLFile
        <4>4. QED
          BY <4>1, <4>2, <4>3
      <3>2. QED
        BY <1>0, <3>1 DEF HeldInv, ReadOK
    <2>3. QED
      BY <2>1, <2>2, CurrentFrame
  <1>18. ASSUME NEW c \in Clients, SyncFails(c) PROVE CurrentInv'
    <2>1. UNCHANGED <<users, passwords, raced>>
      BY <1>18 DEF SyncFails, accounts, StoreRule
    <2>2. \A d \in Clients : \/ calls'[d] = calls[d]
                             \/ /\ ~(calls[d].op = "delete" /\ calls[d].pc = "forget")
                                /\ ReadOK(calls'[d], users)
      <3>1. Return(c) /\ calls[c].op = "rule"
        BY <1>18 DEF SyncFails, Busy
      <3>2. QED
        BY <1>0, <3>1, Returned DEF ReadOK
    <2>3. QED
      BY <2>1, <2>2, CurrentFrame
  <1>19. ASSUME NEW c \in Clients, SyncDone(c) PROVE CurrentInv'
    <2>1. UNCHANGED <<users, passwords, raced>>
      BY <1>19 DEF SyncDone, accounts, StoreRule
    <2>2. \A d \in Clients : \/ calls'[d] = calls[d]
                             \/ /\ ~(calls[d].op = "delete" /\ calls[d].pc = "forget")
                                /\ ReadOK(calls'[d], users)
      <3>1. Return(c) /\ calls[c].op = "rule"
        BY <1>19 DEF SyncDone, Busy
      <3>2. QED
        BY <1>0, <3>1, Returned DEF ReadOK
    <2>3. QED
      BY <2>1, <2>2, CurrentFrame
  <1>20. CASE Restart
    <2>1. \A n \in Names : passwords'[n] = 0
      BY <1>20, <1>0 DEF Restart, PasswordInv
    <2>2. \A d \in Clients : calls'[d].op = "idle"
      BY <1>20, IdleHeld DEF Restart
    <2>3. QED
      BY <2>1, <2>2 DEF CurrentInv, ReadInv, ReadOK, KeptInv
  <1>21. CASE UNCHANGED vars
    BY <1>21, CurrentFrame DEF vars
  <1>22. CASE ListenerStep
    <2>1. /\ UNCHANGED <<users, passwords, raced>>
          /\ \A d \in Clients : calls'[d] = calls[d] \/ (calls[d].op = "rule" /\ calls'[d].op = "rule")
      BY <1>22, ListenerSteps
    <2>2. QED
      BY <2>1, CurrentFrame DEF ReadOK
  <1>23. QED
    BY <1>1, <1>2, <1>3, <1>4, <1>5, <1>6, <1>7, <1>8, <1>9, <1>10, <1>11,
       <1>12, <1>13, <1>14, <1>15, <1>16, <1>17, <1>18, <1>19, <1>20, <1>21, <1>22
       DEF Next, AccountStep, RuleStep

-----------------------------------------------------------------------------
(* The listeners' acl_file.                                                *)

LEMMA SameScoped == rules' = rules => Scoped' = Scoped
  BY DEF Scoped

(* A rename changes no listener of a rule.                                 *)
LEMMA ScopedKept ==
    ASSUME StoredInv, DOMAIN rules' = DOMAIN rules,
           \A r \in DOMAIN rules :
               /\ rules[r] = NoRule => rules'[r] = NoRule
               /\ rules[r] # NoRule => /\ rules'[r] # NoRule /\ rules'[r].scope = rules[r].scope
                                       /\ rules'[r].listener = rules[r].listener
    PROVE  Scoped' = Scoped
  BY DEF Scoped, IsListenerScoped, EffectiveScope

(* A step that touches no synchronisation.                                 *)
LEMMA WiredFrame ==
    ASSUME WiredInv, Scoped' = Scoped, UNCHANGED <<aclFile, mixed>>,
           \A d \in Clients : calls'[d] = calls[d] \/ (calls[d].op # "rule" /\ calls'[d].op # "rule")
    PROVE  WiredInv'
  BY DEF WiredInv, Syncing, Want

(* One handler is at the synchronisation: nobody else is when it is alone. *)
LEMMA WiredOne ==
    ASSUME NEW c \in Clients, calls'[c].op = "rule",
           \A d \in Clients \ {c} : ~Syncing(d)',
           Syncing(c)' => /\ \A d \in Clients \ {c} : calls'[d].op # "rule"
                          /\ calls'[c].scoped = Scoped'
                          /\ calls'[c].pc = "set" =>
                               \A l \in Rows \ calls'[c].todo : aclFile'[l] \in {"gone", Want(l, calls'[c].scoped)}
    PROVE  WiredInv'
  BY DEF WiredInv

LEMMA ScopedListeners ==
    ASSUME StoredInv, NEW l \in Rows
    PROVE  l \in Scoped <=> \E i \in DOMAIN rules : rules[i] # NoRule /\ rules[i].listener = l
  <1>1. ASSUME NEW i \in DOMAIN rules, rules[i] # NoRule, rules[i].listener = l
        PROVE  IsListenerScoped(rules[i])
    <2>1. rules[i] \in Stored
      BY <1>1 DEF StoredInv
    <2>2. l # ""
      BY AccessAssumption
    <2>3. QED
      BY <1>1, <2>1, <2>2 DEF Stored, IsListenerScoped, EffectiveScope
  <1>2. QED
    BY <1>1 DEF Scoped

LEMMA StepWired == TablesInv /\ WiredInv /\ [Next]_vars => WiredInv'
  <1> SUFFICES ASSUME TablesInv, WiredInv, [Next]_vars PROVE WiredInv'
    OBVIOUS
  <1>0. UsersInv /\ StoredInv /\ HeldInv /\ FlagsInv /\ DOMAIN users \subseteq DOMAIN users'
    BY StepUsers DEF TablesInv
  <1>1. ASSUME NEW c \in Clients, NEW n \in Names, CreateMQTTUser(c, n)
        PROVE  WiredInv'
    <2>1. UNCHANGED <<aclFile, mixed>> /\ Scoped' = Scoped
      BY <1>1, SameScoped DEF CreateMQTTUser, scopes
    <2>2. \A d \in Clients : calls'[d] = calls[d] \/ (calls[d].op # "rule" /\ calls'[d].op # "rule")
      <3> DEFINE k == Call("create", "remember", Len(users) + 1, n)
                 h == [k EXCEPT !.password = issued + 1]
      <3>1. h.op = "create"
        BY DEF Call
      <3>2. calls' = [calls EXCEPT ![c] = h] /\ calls[c].op = "idle"
        BY <1>1, IdleHeld DEF CreateMQTTUser
      <3> HIDE DEF k, h
      <3>3. QED
        BY <1>0, <3>1, <3>2 DEF HeldInv
    <2>3. QED
      BY <2>1, <2>2, WiredFrame
  <1>2. ASSUME NEW c \in Clients, NEW i \in DOMAIN users, NEW new \in Names \cup {""},
              NEW disable \in {"keep", "yes", "no"}, handleUpdateMQTTUser(c, i, new, disable) PROVE WiredInv'
    <2>1. UNCHANGED <<aclFile, mixed>> /\ Scoped' = Scoped
      BY <1>2, SameScoped DEF handleUpdateMQTTUser, scopes
    <2>2. \A d \in Clients : calls'[d] = calls[d] \/ (calls[d].op # "rule" /\ calls'[d].op # "rule")
      <3> DEFINE k == Call("update", "store", i, users[i].name)
                 h == [k EXCEPT !.new = new, !.disable = disable]
      <3>1. h.op = "update"
        BY DEF Call
      <3>2. calls' = [calls EXCEPT ![c] = h] /\ calls[c].op = "idle"
        BY <1>2, IdleHeld DEF handleUpdateMQTTUser
      <3> HIDE DEF k, h
      <3>3. QED
        BY <1>0, <3>1, <3>2 DEF HeldInv
    <2>3. QED
      BY <2>1, <2>2, WiredFrame
  <1>3. ASSUME NEW c \in Clients, NEW i \in DOMAIN users, handleDeleteMQTTUser(c, i)
        PROVE  WiredInv'
    <2>1. UNCHANGED <<aclFile, mixed>> /\ Scoped' = Scoped
      BY <1>3, SameScoped DEF handleDeleteMQTTUser, scopes
    <2>2. \A d \in Clients : calls'[d] = calls[d] \/ (calls[d].op # "rule" /\ calls'[d].op # "rule")
      <3> DEFINE k == Call("delete", "store", i, users[i].name)
                 h == k
      <3>1. h.op = "delete"
        BY DEF Call
      <3>2. calls' = [calls EXCEPT ![c] = h] /\ calls[c].op = "idle"
        BY <1>3, IdleHeld DEF handleDeleteMQTTUser
      <3> HIDE DEF k, h
      <3>3. QED
        BY <1>0, <3>1, <3>2 DEF HeldInv
    <2>3. QED
      BY <2>1, <2>2, WiredFrame
  <1>4. ASSUME NEW c \in Clients, NEW i \in DOMAIN users, handleResetMQTTUserPassword(c, i)
        PROVE  WiredInv'
    <2>1. UNCHANGED <<aclFile, mixed>> /\ Scoped' = Scoped
      BY <1>4, SameScoped DEF handleResetMQTTUserPassword, scopes
    <2>2. \A d \in Clients : calls'[d] = calls[d] \/ (calls[d].op # "rule" /\ calls'[d].op # "rule")
      <3> DEFINE k == Call("reset", "store", i, users[i].name)
                 h == [k EXCEPT !.password = issued + 1]
      <3>1. h.op = "reset"
        BY DEF Call
      <3>2. calls' = [calls EXCEPT ![c] = h] /\ calls[c].op = "idle"
        BY <1>4, IdleHeld DEF handleResetMQTTUserPassword
      <3> HIDE DEF k, h
      <3>3. QED
        BY <1>0, <3>1, <3>2 DEF HeldInv
    <2>3. QED
      BY <2>1, <2>2, WiredFrame
  <1>5. ASSUME NEW c \in Clients, handleCreateMQTTUser(c) PROVE WiredInv'
    <2>1. UNCHANGED <<aclFile, mixed>> /\ Scoped' = Scoped
      BY <1>5, SameScoped DEF handleCreateMQTTUser, scopes
    <2>2. \A d \in Clients : calls'[d] = calls[d] \/ (calls[d].op # "rule" /\ calls'[d].op # "rule")
      <3>1. Return(c) /\ calls[c].op = "create"
        BY <1>5 DEF handleCreateMQTTUser, Busy
      <3>2. QED
        BY <1>0, <3>1, Returned
    <2>3. QED
      BY <2>1, <2>2, WiredFrame
  <1>6. ASSUME NEW c \in Clients, updateMQTTUser(c) PROVE WiredInv'
    <2>1. UNCHANGED <<aclFile, mixed>> /\ Scoped' = Scoped
      <3>1. UNCHANGED <<aclFile, mixed>>
        BY <1>6 DEF updateMQTTUser, scopes
      <3>2. CASE Refused(c)
        BY <1>6, <3>1, <3>2, SameScoped DEF updateMQTTUser
      <3>3. CASE ~Refused(c)
        <4>1. PICK old \in Text, new \in Text : rules' = cascadeRename(old, new)
          BY <1>6, <3>3, RulesRenamed
        <4>2. /\ DOMAIN rules' = DOMAIN rules
              /\ \A r \in DOMAIN rules :
                   /\ rules[r] = NoRule => rules'[r] = NoRule
                   /\ rules[r] # NoRule => /\ rules'[r] \in Stored /\ rules'[r].scope = rules[r].scope
                                           /\ rules'[r].listener = rules[r].listener
          BY <1>0, <4>1, CascadeWrites
        <4>3. QED
          BY <1>0, <3>1, <4>2, NoRuleStored, ScopedKept
      <3>4. QED
        BY <3>2, <3>3
    <2>2. \A d \in Clients : calls'[d] = calls[d] \/ (calls[d].op # "rule" /\ calls'[d].op # "rule")
      <3>1. calls[c] \in Held /\ calls[c].op = "update"
        BY <1>6, <1>0 DEF updateMQTTUser, Busy, HeldInv
      <3>2. \A n : [calls[c] EXCEPT !.pc = "forget", !.name = n].op = "update"
        BY <3>1 DEF Held
      <3>3. Return(c) \/ \E n : calls' = [calls EXCEPT ![c] = [calls[c] EXCEPT !.pc = "forget", !.name = n]]
        BY <1>6 DEF updateMQTTUser, Return
      <3>4. QED
        BY <1>0, <3>1, <3>2, <3>3, Returned DEF HeldInv
    <2>3. QED
      BY <2>1, <2>2, WiredFrame
  <1>7. ASSUME NEW c \in Clients, forgetDisabled(c) PROVE WiredInv'
    <2>1. UNCHANGED <<aclFile, mixed>> /\ Scoped' = Scoped
      BY <1>7, SameScoped DEF forgetDisabled, scopes
    <2>2. \A d \in Clients : calls'[d] = calls[d] \/ (calls[d].op # "rule" /\ calls'[d].op # "rule")
      <3>1. Return(c) /\ calls[c].op = "update"
        BY <1>7 DEF forgetDisabled, Busy
      <3>2. QED
        BY <1>0, <3>1, Returned
    <2>3. QED
      BY <2>1, <2>2, WiredFrame
  <1>8. ASSUME NEW c \in Clients, ReadBackFails(c) PROVE WiredInv'
    <2>1. UNCHANGED <<aclFile, mixed>> /\ Scoped' = Scoped
      BY <1>8, SameScoped DEF ReadBackFails, scopes
    <2>2. \A d \in Clients : calls'[d] = calls[d] \/ (calls[d].op # "rule" /\ calls'[d].op # "rule")
      <3>1. Return(c) /\ calls[c].op \in {"create", "update"}
        BY <1>8 DEF ReadBackFails, Busy
      <3>2. QED
        BY <1>0, <3>1, Returned
    <2>3. QED
      BY <2>1, <2>2, WiredFrame
  <1>9. ASSUME NEW c \in Clients, DeleteMQTTUser(c) PROVE WiredInv'
    <2>1. UNCHANGED <<aclFile, mixed>> /\ Scoped' = Scoped
      BY <1>9, SameScoped DEF DeleteMQTTUser, scopes
    <2>2. \A d \in Clients : calls'[d] = calls[d] \/ (calls[d].op # "rule" /\ calls'[d].op # "rule")
      <3>1. calls[c] \in Held /\ calls[c].op = "delete"
        BY <1>9, <1>0 DEF DeleteMQTTUser, Busy, HeldInv
      <3>2. [calls[c] EXCEPT !.pc = "forget"].op = "delete"
        BY <3>1 DEF Held
      <3>3. Return(c) \/ calls' = [calls EXCEPT ![c] = [calls[c] EXCEPT !.pc = "forget"]]
        BY <1>9 DEF DeleteMQTTUser, Goto
      <3>4. QED
        BY <1>0, <3>1, <3>2, <3>3, Returned DEF HeldInv
    <2>3. QED
      BY <2>1, <2>2, WiredFrame
  <1>10. ASSUME NEW c \in Clients, forgetDeleted(c) PROVE WiredInv'
    <2>1. UNCHANGED <<aclFile, mixed>> /\ Scoped' = Scoped
      BY <1>10, SameScoped DEF forgetDeleted, scopes
    <2>2. \A d \in Clients : calls'[d] = calls[d] \/ (calls[d].op # "rule" /\ calls'[d].op # "rule")
      <3>1. Return(c) /\ calls[c].op = "delete"
        BY <1>10 DEF forgetDeleted, Busy
      <3>2. QED
        BY <1>0, <3>1, Returned
    <2>3. QED
      BY <2>1, <2>2, WiredFrame
  <1>11. ASSUME NEW c \in Clients, UpdateMQTTUserAndRun(c) PROVE WiredInv'
    <2>1. UNCHANGED <<aclFile, mixed>> /\ Scoped' = Scoped
      BY <1>11, SameScoped DEF UpdateMQTTUserAndRun, scopes
    <2>2. \A d \in Clients : calls'[d] = calls[d] \/ (calls[d].op # "rule" /\ calls'[d].op # "rule")
      <3>1. Return(c) /\ calls[c].op = "reset"
        BY <1>11 DEF UpdateMQTTUserAndRun, Busy
      <3>2. QED
        BY <1>0, <3>1, Returned
    <2>3. QED
      BY <2>1, <2>2, WiredFrame
  <1>12. ASSUME NEW c \in Clients, NEW r \in Pool, handleCreateRule(c, r)
         PROVE  WiredInv'
    <2> DEFINE h == Call("rule", "rules", 0, "")
    <2>1. Disturb(c, h)
      BY <1>12 DEF handleCreateRule, StoreRule
    <2>2. h \in Held /\ h.op = "rule" /\ h.pc = "rules"
      BY CallHeld DEF Call
    <2> HIDE DEF h
    <2>3. /\ calls'[c] = h
          /\ \A d \in Clients \ {c} : calls'[d].op = calls[d].op /\ (calls[d].op = "rule" => ~calls'[d].alone)
      BY <1>0, <2>1, <2>2, HeldRule
    <2>4. \A d \in Clients : ~Syncing(d)'
      BY <2>2, <2>3 DEF Syncing
    <2>5. QED
      BY <2>2, <2>3, <2>4, WiredOne
  <1>13. ASSUME NEW c \in Clients, NEW i \in DOMAIN rules, NEW r \in Pool, handleUpdateRule(c, i, r)
         PROVE  WiredInv'
    <2> DEFINE h == Call("rule", "rules", 0, "")
    <2>1. Disturb(c, h)
      BY <1>13 DEF handleUpdateRule, StoreRule
    <2>2. h \in Held /\ h.op = "rule" /\ h.pc = "rules"
      BY CallHeld DEF Call
    <2> HIDE DEF h
    <2>3. /\ calls'[c] = h
          /\ \A d \in Clients \ {c} : calls'[d].op = calls[d].op /\ (calls[d].op = "rule" => ~calls'[d].alone)
      BY <1>0, <2>1, <2>2, HeldRule
    <2>4. \A d \in Clients : ~Syncing(d)'
      BY <2>2, <2>3 DEF Syncing
    <2>5. QED
      BY <2>2, <2>3, <2>4, WiredOne
  <1>14. ASSUME NEW c \in Clients, NEW i \in DOMAIN rules, handleDeleteRule(c, i)
         PROVE  WiredInv'
    <2> DEFINE h == Call("rule", "rules", 0, "")
    <2>1. Disturb(c, h)
      BY <1>14 DEF handleDeleteRule, StoreRule
    <2>2. h \in Held /\ h.op = "rule" /\ h.pc = "rules"
      BY CallHeld DEF Call
    <2> HIDE DEF h
    <2>3. /\ calls'[c] = h
          /\ \A d \in Clients \ {c} : calls'[d].op = calls[d].op /\ (calls[d].op = "rule" => ~calls'[d].alone)
      BY <1>0, <2>1, <2>2, HeldRule
    <2>4. \A d \in Clients : ~Syncing(d)'
      BY <2>2, <2>3 DEF Syncing
    <2>5. QED
      BY <2>2, <2>3, <2>4, WiredOne
  <1>15. ASSUME NEW c \in Clients, SyncRules(c) PROVE WiredInv'
    <2> DEFINE b == \A d \in Clients \ {c} : ~Busy(d, {"rule"})
               h == [calls[c] EXCEPT !.pc = "specs", !.alone = b, !.scoped = Scoped]
    <2>1. calls[c] \in Held /\ calls[c].op = "rule" /\ Scoped' = Scoped
      BY <1>15, <1>0, SameScoped DEF HeldInv, SyncRules, Busy
    <2>2. Disturb(c, h)
      BY <1>15 DEF SyncRules, Scoped
    <2>3. b \in BOOLEAN /\ Scoped \subseteq Text
      BY <1>0, ScopedText
    <2>4. b => \A d \in Clients \ {c} : calls[d].op # "rule"
      BY DEF Busy
    <2> HIDE DEF b
    <2>5. h \in Held /\ h.op = "rule" /\ h.pc = "specs" /\ h.scoped = Scoped /\ h.alone = b
      BY <2>1, <2>3 DEF Held
    <2> HIDE DEF h
    <2>6. /\ calls'[c] = h
          /\ \A d \in Clients \ {c} : calls'[d].op = calls[d].op /\ (calls[d].op = "rule" => ~calls'[d].alone)
      BY <1>0, <2>2, <2>5, HeldRule
    <2>7. \A d \in Clients \ {c} : ~Syncing(d)'
      BY <2>6 DEF Syncing
    <2>8. Syncing(c)' => \A d \in Clients \ {c} : calls'[d].op # "rule"
      BY <2>4, <2>5, <2>6 DEF Syncing
    <2>9. QED
      BY <2>1, <2>5, <2>6, <2>7, <2>8, WiredOne
  <1>16. ASSUME NEW c \in Clients, SyncSpecs(c) PROVE WiredInv'
    <2> DEFINE t == scopesToSet(calls[c].scoped)
               h == [calls[c] EXCEPT !.pc = "set", !.todo = t]
    <2>1. /\ calls[c] \in Held /\ calls[c].op = "rule" /\ calls[c].pc = "specs"
          /\ Scoped' = Scoped /\ aclFile' = aclFile
      BY <1>16, <1>0, SameScoped DEF HeldInv, SyncSpecs, Busy, scopes
    <2>2. calls' = [calls EXCEPT ![c] = h]
      BY <1>16 DEF SyncSpecs
    <2>3. /\ h.op = "rule" /\ h.pc = "set" /\ h.todo = t /\ h.alone = calls[c].alone
          /\ h.scoped = calls[c].scoped
      BY <2>1 DEF Held
    <2> HIDE DEF h
    <2>4. calls'[c] = h /\ \A d \in Clients \ {c} : calls'[d] = calls[d]
      BY <1>0, <2>2 DEF HeldInv
    <2>5. \A d \in Clients \ {c} : ~Syncing(d)'
      <3>1. \A d \in Clients \ {c} : ~Syncing(d)
        BY <2>1 DEF WiredInv
      <3>2. QED
        BY <2>4, <3>1 DEF Syncing
    <2>6. \A l \in Rows \ t : aclFile[l] \in {"gone", Want(l, calls[c].scoped)}
      BY DEF scopesToSet
    <2> HIDE DEF t
    <2>7. Syncing(c)' => Syncing(c)
      BY <2>1, <2>3, <2>4 DEF Syncing
    <2>8. Syncing(c)' => /\ \A d \in Clients \ {c} : calls'[d].op # "rule"
                         /\ calls'[c].scoped = Scoped'
      BY <2>1, <2>3, <2>4, <2>7 DEF WiredInv
    <2>9. \A l \in Rows \ calls'[c].todo : aclFile'[l] \in {"gone", Want(l, calls'[c].scoped)}
      BY <2>1, <2>3, <2>4, <2>6
    <2>10. QED
      BY <2>3, <2>4, <2>5, <2>8, <2>9, WiredOne
  <1>17. ASSUME NEW c \in Clients, setACLFile(c) PROVE WiredInv'
    <2>1. /\ calls[c] \in Held /\ calls[c].op = "rule" /\ calls[c].pc = "set" /\ Scoped' = Scoped
      BY <1>17, <1>0, SameScoped DEF HeldInv, setACLFile, Busy
    <2>2. PICK l \in calls[c].todo :
            /\ aclFile' = [aclFile EXCEPT ![l] = IF aclFile[l] = "gone" THEN aclFile[l]
                                                ELSE Want(l, calls[c].scoped)]
            /\ calls' = [calls EXCEPT ![c].todo = calls[c].todo \ {l}]
      BY <1>17 DEF setACLFile
    <2> DEFINE t == calls[c].todo \ {l}
               h == [calls[c] EXCEPT !.todo = t]
    <2>3. /\ h.op = "rule" /\ h.pc = "set" /\ h.todo = t /\ h.alone = calls[c].alone
          /\ h.scoped = calls[c].scoped
      BY <2>1 DEF Held
    <2>4. calls'[c] = h /\ \A d \in Clients \ {c} : calls'[d] = calls[d]
      BY <1>0, <2>2 DEF HeldInv
    <2> HIDE DEF h
    <2>5. \A d \in Clients \ {c} : ~Syncing(d)'
      <3>1. \A d \in Clients \ {c} : ~Syncing(d)
        BY <2>1 DEF WiredInv
      <3>2. QED
        BY <2>4, <3>1 DEF Syncing
    <2>6. Syncing(c)' => Syncing(c)
      BY <2>1, <2>3, <2>4 DEF Syncing
    <2>7. Syncing(c)' => /\ \A d \in Clients \ {c} : calls'[d].op # "rule"
                         /\ calls'[c].scoped = Scoped'
      BY <2>1, <2>3, <2>4, <2>6 DEF WiredInv
    <2>8. /\ aclFile'[l] \in {"gone", Want(l, calls[c].scoped)}
          /\ \A m \in Rows \ {l} : aclFile'[m] = aclFile[m]
      BY <1>0, <2>1, <2>2 DEF StoredInv, Held
    <2>9. Syncing(c)' => \A m \in Rows \ calls'[c].todo : aclFile'[m] \in {"gone", Want(m, calls'[c].scoped)}
      <3> SUFFICES ASSUME Syncing(c), NEW m \in Rows, m \notin t
                   PROVE  aclFile'[m] \in {"gone", Want(m, calls[c].scoped)}
        BY <2>3, <2>4, <2>6
      <3>1. CASE m = l
        BY <2>8, <3>1
      <3>2. CASE m # l
        BY <2>1, <2>8, <3>2 DEF WiredInv
      <3>3. QED
        BY <3>1, <3>2
    <2>10. QED
      BY <2>3, <2>4, <2>5, <2>7, <2>9, WiredOne
  <1>18. ASSUME NEW c \in Clients, SyncFails(c) PROVE WiredInv'
    <2>1. calls[c].op = "rule" /\ Return(c) /\ Scoped' = Scoped /\ aclFile' = aclFile
      BY <1>18, SameScoped DEF SyncFails, Busy
    <2>2. calls'[c].op = "idle" /\ \A d \in Clients \ {c} : calls'[d] = calls[d]
      BY <1>0, <2>1, Returned
    <2>3. \A d \in Clients : ~Syncing(d)'
      <3>1. \A d \in Clients \ {c} : ~Syncing(d)
        BY <2>1 DEF WiredInv
      <3>2. QED
        BY <2>2, <3>1 DEF Syncing
    <2>4. mixed'
      BY <1>18 DEF SyncFails
    <2>5. QED
      BY <2>3, <2>4 DEF WiredInv
  <1>19. ASSUME NEW c \in Clients, SyncDone(c) PROVE WiredInv'
    <2>1. calls[c].op = "rule" /\ Return(c) /\ Scoped' = Scoped /\ aclFile' = aclFile
      BY <1>19, SameScoped DEF SyncDone, Busy
    <2>2. calls'[c].op = "idle" /\ \A d \in Clients \ {c} : calls'[d] = calls[d]
      BY <1>0, <2>1, Returned
    <2>3. \A d \in Clients : ~Syncing(d)'
      <3>1. \A d \in Clients \ {c} : ~Syncing(d)
        BY <2>1 DEF WiredInv
      <3>2. QED
        BY <2>2, <3>1 DEF Syncing
    <2>4. ASSUME ~mixed'
          PROVE  \A l \in Rows : aclFile[l] # "gone" => (aclFile[l] = "own" <=> l \in Scoped)
      <3>1. Syncing(c) /\ calls[c].pc = "set" /\ calls[c].todo = {}
        BY <1>19, <2>1, <2>4, <1>0 DEF SyncDone, Syncing, HeldInv, Held
      <3>2. \A l \in Rows : aclFile[l] \in {"gone", Want(l, Scoped)}
        BY <3>1 DEF WiredInv
      <3>3. QED
        BY <3>2 DEF Want
    <2>5. QED
      BY <2>1, <2>3, <2>4 DEF WiredInv
  <1>20. CASE Restart
    <2>1. Scoped' = Scoped /\ aclFile' = aclFile
      BY <1>20, SameScoped DEF Restart
    <2>2. \A d \in Clients : calls'[d].op = "idle"
      BY <1>20, IdleHeld DEF Restart
    <2>3. ~mixed' => ~mixed /\ \A d \in Clients : calls[d].op # "rule"
      BY <1>20, <1>0 DEF Restart, Busy, FlagsInv
    <2>4. \A d \in Clients : ~Syncing(d)'
      BY <2>2 DEF Syncing
    <2>5. QED
      BY <2>1, <2>3, <2>4 DEF WiredInv
  <1>21. CASE UNCHANGED vars
    BY <1>21, SameScoped, WiredFrame DEF vars
  <1>22. CASE ListenerStep
    <2>1. Scoped' = Scoped
      BY <1>22, ListenerSteps, SameScoped
    <2>2. CASE UNCHANGED <<calls, aclFile, mixed>>
      BY <2>1, <2>2, WiredFrame
    <2>3. CASE ~UNCHANGED <<calls, aclFile, mixed>>
      <3>1. mixed' /\ \A d \in Clients : calls'[d].op = "rule" => ~calls'[d].alone
        BY <1>22, <2>3, ListenerSteps
      <3>2. \A d \in Clients : ~Syncing(d)'
        BY <3>1 DEF Syncing
      <3>3. QED
        BY <3>1, <3>2 DEF WiredInv
    <2>4. QED
      BY <2>2, <2>3
  <1>23. QED
    BY <1>1, <1>2, <1>3, <1>4, <1>5, <1>6, <1>7, <1>8, <1>9, <1>10, <1>11,
       <1>12, <1>13, <1>14, <1>15, <1>16, <1>17, <1>18, <1>19, <1>20, <1>21, <1>22
       DEF Next, AccountStep, RuleStep

-----------------------------------------------------------------------------
(* The theorems.                                                           *)

IInv == TablesInv /\ FollowInv /\ CurrentInv /\ WiredInv

LEMMA InitInv == Init => IInv
  <1> SUFFICES ASSUME Init PROVE IInv
    OBVIOUS
  <1>1. rules = <<>> /\ DOMAIN rules = {}
    BY DEF Init
  <1>2. \A c \in Clients : calls[c].op = "idle"
    BY IdleHeld DEF Init
  <1>3. \A n \in Names : passwords[n] = 0
    BY DEF Init
  <1>4. FollowInv
    BY <1>1 DEF FollowInv
  <1>5. CurrentInv
    BY <1>2, <1>3 DEF CurrentInv, ReadInv, ReadOK, KeptInv
  <1>6. Scoped = {}
    BY <1>1 DEF Scoped
  <1>7. \A l \in Rows : aclFile[l] # "own"
    BY AccessAssumption DEF Init
  <1>8. WiredInv
    BY <1>2, <1>6, <1>7 DEF WiredInv, Syncing
  <1>9. QED
    BY <1>4, <1>5, <1>8, InitTables DEF IInv

LEMMA Inductive == Spec => []IInv
  <1>1. IInv /\ [Next]_vars => IInv'
    BY StepTables, StepFollow, StepCurrent, StepWired DEF IInv
  <1>2. QED
    BY <1>1, InitInv, PTL DEF Spec

(* The tables keep their types: every stored rule is normalised, and a     *)
(* remembered password is one that was issued.                             *)
THEOREM TypeCorrect == Spec => []TypeOK
  <1>1. IInv => TypeOK
    <2> SUFFICES ASSUME TablesInv PROVE TypeOK
      BY DEF IInv
    <2>1. users \in Seq([name : Names \cup {"", Service}, hash : Nat, disabled : BOOLEAN])
      <3> DEFINE S == [name : Names \cup {"", Service}, hash : Nat, disabled : BOOLEAN]
      <3>1. Row \subseteq S
        BY DEF Row
      <3> HIDE DEF S
      <3>2. users \in Seq(Row) /\ \A i \in DOMAIN users : users[i] \in Row
        BY Indexed DEF TablesInv
      <3>3. \A i \in DOMAIN users : users[i] \in S
        BY <3>1, <3>2
      <3>4. users \in Seq(S)
        BY <3>2, <3>3
      <3>5. QED
        BY <3>4 DEF S
    <2>2. \A i \in DOMAIN rules : rules[i] = NoRule \/ rules[i] = Normalize(rules[i])
      BY StoredNormal DEF TablesInv, StoredInv
    <2>3. QED
      BY <2>1, <2>2 DEF TypeOK, TablesInv, StoredInv, PasswordInv, Entry
  <1>2. QED
    BY <1>1, Inductive, PTL

(* A rule written for an account names it through every rename, by any     *)
(* number of requests: the cascade runs in the transaction of the rename.  *)
THEOREM RulesFollow == Spec => []RulesFollowAccount
  <1>1. IInv => RulesFollowAccount
    BY DEF IInv, FollowInv, RulesFollowAccount
  <1>2. QED
    BY <1>1, Inductive, PTL

(* Between account requests a remembered password is the current one of    *)
(* the account with its name, unless requests for one account overlapped.  *)
THEOREM PasswordsCurrent == Spec => []RememberedIsCurrent
  <1>1. IInv => RememberedIsCurrent
    <2> SUFFICES ASSUME KeptInv, \A c \in Clients : ~Busy(c, AccountOps),
                        NEW n \in Names, passwords[n] # 0
                 PROVE  Current(n)
      BY DEF IInv, CurrentInv, RememberedIsCurrent, Current
    <2>1. \A c \in Clients : ~Forgetting(c, n)
      BY DEF Busy, AccountOps, Forgetting
    <2>2. QED
      BY <2>1 DEF KeptInv
  <1>2. QED
    BY <1>1, Inductive, PTL

(* After an undisturbed synchronisation a listener with a row declares its *)
(* ACL file exactly when a rule is scoped to it, until a rule request that *)
(* does not run undisturbed or a listener apply that changes the rows.     *)
THEOREM ListenersStayWired == Spec => []ListenersWired
  <1>1. IInv => ListenersWired
    <2> SUFFICES ASSUME StoredInv, WiredInv, ~mixed, Synchronised, NEW l \in Rows, aclFile[l] # "gone"
                 PROVE  aclFile[l] = "own" <=> \E i \in DOMAIN rules : rules[i] # NoRule /\ rules[i].listener = l
      BY DEF IInv, TablesInv, ListenersWired, Fits
    <2>1. aclFile[l] = "own" <=> l \in Scoped
      BY DEF WiredInv, Synchronised, Busy
    <2>2. QED
      BY <2>1, ScopedListeners
  <1>2. QED
    BY <1>1, Inductive, PTL
=============================================================================
