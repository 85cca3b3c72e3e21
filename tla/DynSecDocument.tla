--------------------------- MODULE DynSecDocument ---------------------------
(***************************************************************************)
(* The security database of Mosquitto's dynamic security plugin as         *)
(* internal/dynsec sees it: documents, the plan that turns one document    *)
(* into another (plan.go), the comparison after an apply (service.go), the *)
(* guard of the control channel, and what the plugin does with a command   *)
(* (external).                                                             *)
(*                                                                         *)
(* A document maps names to objects, so the order of its lists and the     *)
(* duplicates Validate refuses are left out, and so are the texts and the  *)
(* client ids.  The types of the access entries are one: an entry is known *)
(* by its topic.                                                           *)
(***************************************************************************)
EXTENDS Naturals, FiniteSets, SequencesExt

CONSTANTS Client, Group, Role,   \* the names
          Topic, ControlTopic,   \* topics, and the one of the control channel
          Priority,              \* the priorities of access entries
          Management,            \* the account of MCM
          Password, NoPassword, Masked, NoGroup

\* The names are those that occur: there are finitely many.
ASSUME NamesAssumption == /\ Management \in Client /\ ControlTopic \in Topic /\ 0 \in Priority
                          /\ NoGroup \notin Group /\ NoPassword \notin Password
                          /\ Masked \notin Password \cup {NoPassword}
                          /\ \A S \in {Client, Group, Role, Topic} : IsFiniteSet(S)

\* Documents and the objects in them.
Maps(K, V) == UNION {[D -> V] : D \in SUBSET K}
Entries == Maps(Topic, [allow : BOOLEAN, priority : Priority])
Secret == Password \cup {NoPassword, Masked}
ClientRecord == [roles : SUBSET Role, groups : SUBSET Group, disabled : BOOLEAN, password : Secret]
GroupRecord == [roles : SUBSET Role, clients : SUBSET Client]
Database == [clients : Maps(Client, ClientRecord), groups : Maps(Group, GroupRecord), roles : Maps(Role, Entries),
             open : BOOLEAN, anonymous : Group \cup {NoGroup}]

EmptyMap == [x \in {} |-> {}]

WithKey(f, k, v) == [x \in DOMAIN f \cup {k} |-> IF x = k THEN v ELSE f[x]]
WithoutKey(f, k) == [x \in DOMAIN f \ {k} |-> f[x]]

(***************************************************************************)
(* Well-formed documents (Validate) and the derived half of a membership   *)
(* (Normalize: the group is the authority).                                *)
(***************************************************************************)
References(doc) ==
    /\ \A c \in DOMAIN doc.clients : /\ doc.clients[c].roles \subseteq DOMAIN doc.roles
                                     /\ doc.clients[c].groups \subseteq DOMAIN doc.groups
    /\ \A g \in DOMAIN doc.groups : /\ doc.groups[g].roles \subseteq DOMAIN doc.roles
                                    /\ doc.groups[g].clients \subseteq DOMAIN doc.clients
    /\ doc.anonymous \in DOMAIN doc.groups \cup {NoGroup}

Validate(doc) == /\ DOMAIN doc.clients \subseteq Client
                 /\ DOMAIN doc.groups \subseteq Group
                 /\ DOMAIN doc.roles \subseteq Role
                 /\ \A r \in DOMAIN doc.roles : DOMAIN doc.roles[r] \subseteq Topic
                 /\ References(doc)

Normalize(doc) ==
    [doc EXCEPT !.clients = [c \in DOMAIN doc.clients |->
        [doc.clients[c] EXCEPT !.groups = {g \in DOMAIN doc.groups : c \in doc.groups[g].clients}]]]

Redacted(doc) ==
    [doc EXCEPT !.clients = [c \in DOMAIN doc.clients |->
        [doc.clients[c] EXCEPT !.password = NoPassword]]]

(***************************************************************************)
(* BuildPlan: the commands in the order they are sent.                     *)
(***************************************************************************)
Command ==
    [command : {"createRole"}, role : Role, acls : Entries]
    \cup [command : {"addRoleACL"}, role : Role, topic : Topic, acl : [allow : BOOLEAN, priority : Priority]]
    \cup [command : {"removeRoleACL"}, role : Role, topic : Topic]
    \cup [command : {"deleteRole"}, role : Role]
    \cup [command : {"createGroup"}, group : Group, roles : SUBSET Role]
    \cup [command : {"deleteGroup"}, group : Group]
    \cup [command : {"addGroupRole", "removeGroupRole"}, group : Group, role : Role]
    \cup [command : {"addGroupClient", "removeGroupClient"}, group : Group, client : Client]
    \cup [command : {"createClient"}, client : Client, roles : SUBSET Role, password : Secret]
    \cup [command : {"setClientPassword"}, client : Client, password : Secret]
    \cup [command : {"setClientDisabled"}, client : Client, disabled : BOOLEAN]
    \cup [command : {"addClientRole", "removeClientRole"}, client : Client, role : Role]
    \cup [command : {"deleteClient"}, client : Client]
    \cup [command : {"setDefaultACLAccess"}, open : BOOLEAN]
    \cup [command : {"setAnonymousGroup"}, group : Group \cup {NoGroup}]

Each(S, Op(_)) == LET s == SetToSeq(S) IN FlattenSeq([i \in 1..Len(s) |-> Op(s[i])])

AddGroupClient(g, c) == [command |-> "addGroupClient", group |-> g, client |-> c]
RemoveGroupClient(g, c) == [command |-> "removeGroupClient", group |-> g, client |-> c]

diffACLs(current, desired) ==
    [added   |-> {t \in DOMAIN desired : t \in DOMAIN current => current[t] # desired[t]},
     removed |-> DOMAIN current \ DOMAIN desired]

roleUpdates(r, current, desired) ==
    LET diff == diffACLs(current, desired)
        Drop(t) == <<[command |-> "removeRoleACL", role |-> r, topic |-> t]>>
        Add(t) == LET moved == t \in DOMAIN current /\ current[t].priority # desired[t].priority
                  IN  (IF moved THEN Drop(t) ELSE <<>>)
                      \o <<[command |-> "addRoleACL", role |-> r, topic |-> t, acl |-> desired[t]]>>
    IN  Each(diff.removed, Drop) \o Each(diff.added, Add)

groupUpdates(g, current, desired) ==
    LET AddRole(r) == <<[command |-> "addGroupRole", group |-> g, role |-> r]>>
        RemoveRole(r) == <<[command |-> "removeGroupRole", group |-> g, role |-> r]>>
        AddClient(c) == <<AddGroupClient(g, c)>>
        RemoveClient(c) == <<RemoveGroupClient(g, c)>>
    IN  Each(desired.roles \ current.roles, AddRole)
        \o Each(current.roles \ desired.roles, RemoveRole)
        \o Each(desired.clients \ current.clients, AddClient)
        \o Each(current.clients \ desired.clients, RemoveClient)

groupMembershipUpdates(g, current, desired, deleted) ==
    LET AddClient(c) == <<AddGroupClient(g, c)>>
        RemoveClient(c) == <<RemoveGroupClient(g, c)>>
    IN  Each(desired.clients \ current.clients, AddClient)
        \o Each(current.clients \ (desired.clients \cup deleted), RemoveClient)

clientUpdates(c, current, desired) ==
    LET AddRole(r) == <<[command |-> "addClientRole", client |-> c, role |-> r]>>
        RemoveRole(r) == <<[command |-> "removeClientRole", client |-> c, role |-> r]>>
    IN  (IF desired.password = NoPassword THEN <<>>
         ELSE <<[command |-> "setClientPassword", client |-> c, password |-> desired.password]>>)
        \o (IF current.disabled = desired.disabled THEN <<>>
            ELSE <<[command |-> "setClientDisabled", client |-> c, disabled |-> desired.disabled]>>)
        \o Each(desired.roles \ current.roles, AddRole)
        \o Each(current.roles \ desired.roles, RemoveRole)

\* The phases of BuildPlan.  A client is created without its groups and enabled.
RolePhase(current, desired) ==
    LET Change(r) ==
          IF r \in DOMAIN current.roles
          THEN roleUpdates(r, current.roles[r], desired.roles[r])
          ELSE <<[command |-> "createRole", role |-> r, acls |-> desired.roles[r]]>>
    IN  Each(DOMAIN desired.roles, Change)

GroupPhase(current, desired) ==
    LET Change(g) ==
          IF g \in DOMAIN current.groups
          THEN groupUpdates(g, current.groups[g], desired.groups[g])
          ELSE <<[command |-> "createGroup", group |-> g, roles |-> desired.groups[g].roles]>>
    IN  Each(DOMAIN desired.groups, Change)

ClientPhase(current, desired) ==
    LET Change(c) ==
          IF c \in DOMAIN current.clients
          THEN clientUpdates(c, current.clients[c], desired.clients[c])
          ELSE <<[command  |-> "createClient", client |-> c, roles |-> desired.clients[c].roles,
                  password |-> desired.clients[c].password]>>
    IN  Each(DOMAIN desired.clients, Change)

MembershipPhase(current, desired) ==
    LET deleted == DOMAIN current.clients \ DOMAIN desired.clients
        Change(g) ==
          IF g \in DOMAIN current.groups
          THEN groupMembershipUpdates(g, current.groups[g], desired.groups[g], deleted)
          ELSE LET Add(c) == <<AddGroupClient(g, c)>> IN Each(desired.groups[g].clients, Add)
    IN  Each(DOMAIN desired.groups, Change)

DeletePhase(current, desired) ==
    LET Client1(c) == <<[command |-> "deleteClient", client |-> c]>>
        Group1(g) == <<[command |-> "deleteGroup", group |-> g]>>
        Role1(r) == <<[command |-> "deleteRole", role |-> r]>>
    IN  Each(DOMAIN current.clients \ DOMAIN desired.clients, Client1)
        \o Each(DOMAIN current.groups \ DOMAIN desired.groups, Group1)
        \o Each(DOMAIN current.roles \ DOMAIN desired.roles, Role1)

SettingsPhase(current, desired) ==
    (IF current.open = desired.open THEN <<>>
     ELSE <<[command |-> "setDefaultACLAccess", open |-> desired.open]>>)
    \o (IF current.anonymous = desired.anonymous THEN <<>>
        ELSE <<[command |-> "setAnonymousGroup", group |-> desired.anonymous]>>)

BuildPlanDeleteFirst(current, desired) ==                    \* mutant: deletions too early
    DeletePhase(current, desired) \o RolePhase(current, desired) \o MembershipPhase(current, desired)
    \o GroupPhase(current, desired) \o ClientPhase(current, desired)
    \o SettingsPhase(current, desired)
BuildPlan(current, desired) ==
    RolePhase(current, desired) \o GroupPhase(current, desired) \o ClientPhase(current, desired)
    \o MembershipPhase(current, desired) \o DeletePhase(current, desired)
    \o SettingsPhase(current, desired)

\* What the store keeps of a plan: every password replaced by a marker.
maskDynSecPlan(plan) ==
    [i \in DOMAIN plan |->
        IF "password" \in DOMAIN plan[i] /\ plan[i].password # NoPassword
        THEN [plan[i] EXCEPT !.password = Masked] ELSE plan[i]]

(***************************************************************************)
(* The plugin (external).  It answers every command of a request; a        *)
(* refused command changes nothing, and the ones behind it are still       *)
(* carried out.  It identifies an access entry by its topic, refuses an    *)
(* object that exists, a reference to one that does not, a member that is  *)
(* already in the group, and a setAnonymousGroup without a group (an empty *)
(* name is dropped when the command is encoded, protocol.go), and takes    *)
(* deleted objects out of what refers to them.                             *)
(***************************************************************************)
Refused(db, m) ==
    CASE m.command = "createRole"    -> m.role \in DOMAIN db.roles
      [] m.command = "addRoleACL"    -> \/ m.role \notin DOMAIN db.roles
                                        \/ m.topic \in DOMAIN db.roles[m.role]
      [] m.command = "removeRoleACL" -> \/ m.role \notin DOMAIN db.roles
                                        \/ m.topic \notin DOMAIN db.roles[m.role]
      [] m.command = "deleteRole"    -> m.role \notin DOMAIN db.roles
      [] m.command = "createGroup"   -> m.group \in DOMAIN db.groups \/ ~(m.roles \subseteq DOMAIN db.roles)
      [] m.command = "deleteGroup"   -> m.group \notin DOMAIN db.groups
      [] m.command = "addGroupRole"  -> m.group \notin DOMAIN db.groups \/ m.role \notin DOMAIN db.roles
      [] m.command = "removeGroupRole" -> m.group \notin DOMAIN db.groups
      [] m.command = "addGroupClient"  -> \/ m.group \notin DOMAIN db.groups
                                          \/ m.client \notin DOMAIN db.clients
                                          \/ m.client \in db.groups[m.group].clients
      [] m.command = "removeGroupClient" -> m.group \notin DOMAIN db.groups
      [] m.command = "createClient" -> m.client \in DOMAIN db.clients \/ ~(m.roles \subseteq DOMAIN db.roles)
      [] m.command = "addClientRole" -> m.client \notin DOMAIN db.clients \/ m.role \notin DOMAIN db.roles
      [] m.command = "setAnonymousGroup" -> m.group \notin DOMAIN db.groups
      [] m.command = "setDefaultACLAccess" -> FALSE
      [] OTHER -> m.client \notin DOMAIN db.clients

Effect(db, m) ==
    CASE m.command = "createRole"    -> [db EXCEPT !.roles = WithKey(@, m.role, m.acls)]
      [] m.command = "addRoleACL"    -> [db EXCEPT !.roles[m.role] = WithKey(@, m.topic, m.acl)]
      [] m.command = "removeRoleACL" -> [db EXCEPT !.roles[m.role] = WithoutKey(@, m.topic)]
      [] m.command = "deleteRole"    ->
           [db EXCEPT !.roles = WithoutKey(@, m.role),
                      !.clients = [c \in DOMAIN db.clients |-> [db.clients[c] EXCEPT !.roles = @ \ {m.role}]],
                      !.groups = [g \in DOMAIN db.groups |-> [db.groups[g] EXCEPT !.roles = @ \ {m.role}]]]
      [] m.command = "createGroup"   -> [db EXCEPT !.groups = WithKey(@, m.group, [roles |-> m.roles, clients |-> {}])]
      [] m.command = "deleteGroup"   ->
           [db EXCEPT !.groups = WithoutKey(@, m.group),
                      !.anonymous = IF @ = m.group THEN NoGroup ELSE @]
      [] m.command = "addGroupRole"  -> [db EXCEPT !.groups[m.group].roles = @ \cup {m.role}]
      [] m.command = "removeGroupRole" -> [db EXCEPT !.groups[m.group].roles = @ \ {m.role}]
      [] m.command = "addGroupClient"  -> [db EXCEPT !.groups[m.group].clients = @ \cup {m.client}]
      [] m.command = "removeGroupClient" -> [db EXCEPT !.groups[m.group].clients = @ \ {m.client}]
      [] m.command = "createClient"  ->
           [db EXCEPT !.clients = WithKey(@, m.client, [roles |-> m.roles, groups |-> {},
                                                        disabled |-> FALSE, password |-> m.password])]
      [] m.command = "setClientPassword" -> [db EXCEPT !.clients[m.client].password = m.password]
      [] m.command = "setClientDisabled" -> [db EXCEPT !.clients[m.client].disabled = m.disabled]
      [] m.command = "addClientRole" -> [db EXCEPT !.clients[m.client].roles = @ \cup {m.role}]
      [] m.command = "removeClientRole" -> [db EXCEPT !.clients[m.client].roles = @ \ {m.role}]
      [] m.command = "deleteClient"  ->
           [db EXCEPT !.clients = WithoutKey(@, m.client),
                      !.groups = [g \in DOMAIN db.groups |-> [db.groups[g] EXCEPT !.clients = @ \ {m.client}]]]
      [] m.command = "setDefaultACLAccess" -> [db EXCEPT !.open = m.open]
      [] m.command = "setAnonymousGroup" -> [db EXCEPT !.anonymous = m.group]

ExecuteOne(acc, m) == IF Refused(acc.db, m) THEN [acc EXCEPT !.refused = TRUE]
                      ELSE [acc EXCEPT !.db = Normalize(Effect(acc.db, m))]

Execute(db, plan) ==
    LET run[i \in 0..Len(plan)] ==
          IF i = 0 THEN [db |-> db, refused |-> FALSE] ELSE ExecuteOne(run[i - 1], plan[i])
    IN  run[Len(plan)]

(***************************************************************************)
(* Verify: the state read back against the requested one.  Priorities and  *)
(* passwords are not compared.                                             *)
(***************************************************************************)
sameACLs(a, b) == DOMAIN a = DOMAIN b /\ \A t \in DOMAIN a : a[t].allow = b[t].allow

\* References are compared by name.
sameRefs(a, b) == a = b

Verify(desired, actual) ==
    /\ DOMAIN desired.clients = DOMAIN actual.clients
    /\ \A c \in DOMAIN desired.clients :
          LET want == desired.clients[c]  found == actual.clients[c]
          IN  /\ want.disabled = found.disabled
              /\ sameRefs(want.roles, found.roles) /\ sameRefs(want.groups, found.groups)
    /\ DOMAIN desired.groups = DOMAIN actual.groups
    /\ \A g \in DOMAIN desired.groups : /\ sameRefs(desired.groups[g].roles, actual.groups[g].roles)
                                       /\ sameRefs(desired.groups[g].clients, actual.groups[g].clients)
    /\ DOMAIN desired.roles = DOMAIN actual.roles
    /\ \A r \in DOMAIN desired.roles : sameACLs(desired.roles[r], actual.roles[r])
    /\ desired.open = actual.open
    /\ desired.anonymous = actual.anonymous

(***************************************************************************)
(* CheckControlChannel: only the management account reaches the control    *)
(* channel, and it does.                                                   *)
(***************************************************************************)
roleGrantsControlChannel(doc, r) ==
    r \in DOMAIN doc.roles /\ ControlTopic \in DOMAIN doc.roles[r] /\ doc.roles[r][ControlTopic].allow

GroupReaches(doc, g) ==
    g \in DOMAIN doc.groups /\ \E r \in doc.groups[g].roles : roleGrantsControlChannel(doc, r)

Reaches(doc, c) ==
    \/ \E r \in doc.clients[c].roles : roleGrantsControlChannel(doc, r)
    \/ \E g \in doc.clients[c].groups : GroupReaches(doc, g)

CheckDirectRolesOnly(doc) ==                            \* mutant: groups are not followed
    /\ {c \in DOMAIN doc.clients : \E r \in doc.clients[c].roles : roleGrantsControlChannel(doc, r)}
         = {Management}
    /\ ~doc.open
CheckControlChannel(doc) ==
    /\ {c \in DOMAIN doc.clients : Reaches(doc, c)} = {Management}
    /\ ~GroupReaches(doc, doc.anonymous)
    /\ ~doc.open
=============================================================================
