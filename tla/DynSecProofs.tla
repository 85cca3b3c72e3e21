---------------------------- MODULE DynSecProofs ----------------------------
(***************************************************************************)
(* Proofs about DynSec, for any clients, groups, roles, topics and         *)
(* documents, and any number of requests, plans and foreign writes.        *)
(*                                                                         *)
(* Two things carry them.  What a plan does: BuildPlan is a series of      *)
(* loops over the objects of two documents, Execute runs its commands one  *)
(* by one, and PlanRun follows the run through the phases to say what the  *)
(* database holds at the end.  And where a request stands: DynSecInv ties  *)
(* each request to its plan, ConvergeInv to the database it read.          *)
(*                                                                         *)
(* The provers cannot instantiate the library's induction rules; the       *)
(* inductions over the commands of a plan go through SetInduction, which   *)
(* is about the set of the indices reached so far.                         *)
(***************************************************************************)
EXTENDS DynSec, SequenceTheorems, FiniteSetTheorems, WellFoundedInduction, TLAPS

-----------------------------------------------------------------------------
(* Induction over an initial segment of the naturals, as a fact about sets. *)

LEMMA SetInduction ==
    ASSUME NEW S \in SUBSET Nat, 0 \in S, NEW N \in Nat, \A k \in S : k < N => k + 1 \in S
    PROVE  \A k \in 0..N : k \in S
<1> SUFFICES ASSUME \E k \in 0..N : k \notin S PROVE FALSE
  OBVIOUS
<1> DEFINE T == {k \in 0..N : k \notin S}
<1>1. T \subseteq Nat /\ T # {}
  OBVIOUS
<1>2. PICK x \in T : \A y \in T : ~(<<y, x>> \in OpToRel(<, Nat))
  BY <1>1, NatLessThanWellFounded, WFMin
<1>3. x \in Nat /\ x # 0 /\ x <= N /\ x \notin S
  OBVIOUS
<1>4. x - 1 \in Nat /\ x - 1 < x /\ x - 1 < N /\ (x - 1) + 1 = x /\ x - 1 \in 0..N
  BY <1>3
<1>5. <<x - 1, x>> \in OpToRel(<, Nat)
  BY <1>3, <1>4 DEF OpToRel
<1>6. x - 1 \in S
  BY <1>2, <1>4, <1>5
<1> QED BY <1>3, <1>4, <1>6

-----------------------------------------------------------------------------
(* Sequences of sequences. *)

\* The function FlattenSeq defines is there.
IsFlat(seqs, f, n) == f = [i \in 1..n |-> IF i = 1 THEN seqs[i] ELSE f[i - 1] \o seqs[i]]

\* FlattenSeq is given by its running concatenation.
LEMMA FlatExists ==
    ASSUME NEW seqs, NEW N \in Nat
    PROVE  \E f : IsFlat(seqs, f, N)
<1> DEFINE S == {n \in Nat : \E f : IsFlat(seqs, f, n)}
<1>1. 0 \in S
  <2>1. IsFlat(seqs, [i \in 1..0 |-> 0], 0)
    BY DEF IsFlat
  <2> QED BY <2>1
<1>2. ASSUME NEW k \in S PROVE k + 1 \in S
  <2>1. PICK f : IsFlat(seqs, f, k)
    OBVIOUS
  <2> DEFINE g == [i \in 1..(k + 1) |-> IF i = k + 1 THEN (IF i = 1 THEN seqs[i] ELSE f[i - 1] \o seqs[i])
                                         ELSE f[i]]
  <2>2. \A i \in 1..(k + 1) : i # k + 1 => i \in 1..k
    OBVIOUS
  <2>3. ASSUME NEW i \in 1..(k + 1)
        PROVE  g[i] = IF i = 1 THEN seqs[i] ELSE g[i - 1] \o seqs[i]
    <3>1. CASE i = k + 1
      <4>1. i # 1 => i - 1 \in 1..(k + 1) /\ i - 1 # k + 1
        BY <3>1
      <4>2. i # 1 => g[i - 1] = f[i - 1]
        BY <4>1
      <4> QED BY <3>1, <4>2
    <3>2. CASE i # k + 1
      <4>1. i \in 1..k
        BY <2>2, <3>2
      <4>2. f[i] = IF i = 1 THEN seqs[i] ELSE f[i - 1] \o seqs[i]
        BY <2>1, <4>1 DEF IsFlat
      <4>3. i # 1 => i - 1 \in 1..(k + 1) /\ i - 1 # k + 1
        BY <4>1
      <4>4. i # 1 => g[i - 1] = f[i - 1]
        BY <4>3
      <4> QED BY <3>2, <4>2, <4>4
    <3> QED BY <3>1, <3>2
  <2>4. g = [i \in 1..(k + 1) |-> IF i = 1 THEN seqs[i] ELSE g[i - 1] \o seqs[i]]
    BY <2>3
  <2>5. IsFlat(seqs, g, k + 1)
    BY <2>4 DEF IsFlat
  <2> QED BY <2>5
<1>3. S \in SUBSET Nat /\ \A k \in S : k < N => k + 1 \in S
  BY <1>2
<1> HIDE DEF S
<1>4. N \in S
  <2>1. \A k \in 0..N : k \in S
    BY <1>1, <1>3, SetInduction
  <2> QED BY <2>1
<1> QED BY <1>4 DEF S

LEMMA FlattenType ==
    ASSUME NEW C, NEW seqs \in Seq(Seq(C))
    PROVE  FlattenSeq(seqs) \in Seq(C)
<1> DEFINE N == Len(seqs)
           F == CHOOSE f : f = [i \in 1..N |-> IF i = 1 THEN seqs[i] ELSE f[i - 1] \o seqs[i]]
<1>1. N \in Nat /\ \A i \in 1..N : seqs[i] \in Seq(C)
  OBVIOUS
<1>2. CASE N = 0
  BY <1>2 DEF FlattenSeq
<1>3. CASE N # 0
  <2>1. \E f : f = [i \in 1..N |-> IF i = 1 THEN seqs[i] ELSE f[i - 1] \o seqs[i]]
    BY <1>1, FlatExists DEF IsFlat
  <2>2. F = [i \in 1..N |-> IF i = 1 THEN seqs[i] ELSE F[i - 1] \o seqs[i]]
    BY <2>1
  <2> HIDE DEF F
  <2> DEFINE S == {k \in 0..N : k = 0 \/ F[k] \in Seq(C)}
  <2>3. 0 \in S /\ S \subseteq Nat
    BY <1>1
  <2>4. ASSUME NEW k \in S, k < N PROVE k + 1 \in S
    <3>1. k + 1 \in 1..N /\ (k + 1) - 1 = k /\ (k + 1 = 1 <=> k = 0)
      BY <1>1, <2>4
    <3>2. F[k + 1] = IF k + 1 = 1 THEN seqs[k + 1] ELSE F[(k + 1) - 1] \o seqs[k + 1]
      BY <2>2, <3>1
    <3>3. F[k + 1] \in Seq(C)
      BY <1>1, <3>1, <3>2
    <3>4. k + 1 \in 0..N
      BY <3>1
    <3> QED BY <3>3, <3>4
  <2>a. S \in SUBSET Nat /\ \A k \in S : k < N => k + 1 \in S
    BY <2>3, <2>4
  <2> HIDE DEF S
  <2>5. N \in S
    <3>1. \A k \in 0..N : k \in S
      BY <1>1, <2>3, <2>a, SetInduction
    <3> QED BY <1>1, <3>1
  <2>6. F[N] \in Seq(C)
    BY <1>3, <2>5 DEF S
  <2>7. FlattenSeq(seqs) = F[N]
    BY <1>3 DEF FlattenSeq, F
  <2> QED BY <2>6, <2>7
<1> QED BY <1>2, <1>3

LEMMA OrderType ==
    ASSUME NEW S, IsFiniteSet(S)
    PROVE  SetToSeq(S) \in Seq(S)
<1>1. Cardinality(S) \in Nat /\ ExistsBijection(1..Cardinality(S), S)
  BY FS_CardinalityType
<1>2. \E f \in [1..Cardinality(S) -> S] : IsInjective(f)
  BY <1>1 DEF ExistsBijection, Bijection, Injection, Surjection, IsInjective
<1>3. SetToSeq(S) \in [1..Cardinality(S) -> S]
  BY <1>2, Zenon DEF SetToSeq
<1> QED BY <1>1, <1>3

-----------------------------------------------------------------------------
(* What BuildPlan returns is a sequence of commands, phase by phase.       *)

LEMMA MapsFacts ==
    /\ \A K, V : \A f \in Maps(K, V) : DOMAIN f \subseteq K /\ f \in [DOMAIN f -> V] /\ \A x \in DOMAIN f : f[x] \in V
    /\ \A K, V : \A D \in SUBSET K : \A f \in [D -> V] : f \in Maps(K, V)
BY DEF Maps

LEMMA Finite ==
    /\ \A S \in SUBSET Client : IsFiniteSet(S)
    /\ \A S \in SUBSET Group : IsFiniteSet(S)
    /\ \A S \in SUBSET Role : IsFiniteSet(S)
    /\ \A S \in SUBSET Topic : IsFiniteSet(S)
BY NamesAssumption, FS_Subset

Commands == Seq(Command)

LEMMA Joined == \A s, t \in Commands : s \o t \in Commands
BY DEF Commands

LEMMA Nothing == <<>> \in Commands
BY DEF Commands

LEMMA One == \A m \in Command : <<m>> \in Commands
BY DEF Commands

LEMMA Flattened == \A s \in Seq(Commands) : FlattenSeq(s) \in Commands
BY FlattenType DEF Commands

Entry == [allow : BOOLEAN, priority : Priority]

\* What a document is made of.
LEMMA EntriesFacts ==
    ASSUME NEW e \in Entries
    PROVE  DOMAIN e \subseteq Topic /\ \A t \in DOMAIN e : e[t] \in Entry
<1>1. e \in Maps(Topic, Entry)
  BY DEF Entries, Entry
<1> QED BY <1>1, MapsFacts

LEMMA DatabaseFacts ==
    ASSUME NEW d \in Database
    PROVE  /\ DOMAIN d.clients \subseteq Client /\ \A c \in DOMAIN d.clients : d.clients[c] \in ClientRecord
           /\ DOMAIN d.groups \subseteq Group /\ \A g \in DOMAIN d.groups : d.groups[g] \in GroupRecord
           /\ DOMAIN d.roles \subseteq Role /\ \A r \in DOMAIN d.roles : d.roles[r] \in Entries
           /\ d.open \in BOOLEAN /\ d.anonymous \in Group \cup {NoGroup}
<1>1. /\ d.clients \in Maps(Client, ClientRecord) /\ d.groups \in Maps(Group, GroupRecord)
      /\ d.roles \in Maps(Role, Entries) /\ d.open \in BOOLEAN /\ d.anonymous \in Group \cup {NoGroup}
  BY DEF Database
<1> QED BY <1>1, MapsFacts

\* The commands of BuildPlan.
LEMMA CommandFacts ==
    /\ \A r \in Role, e \in Entries : [command |-> "createRole", role |-> r, acls |-> e] \in Command
    /\ \A r \in Role, t \in Topic, a \in Entry :
          [command |-> "addRoleACL", role |-> r, topic |-> t, acl |-> a] \in Command
    /\ \A r \in Role, t \in Topic : [command |-> "removeRoleACL", role |-> r, topic |-> t] \in Command
    /\ \A r \in Role : [command |-> "deleteRole", role |-> r] \in Command
    /\ \A g \in Group, R \in SUBSET Role : [command |-> "createGroup", group |-> g, roles |-> R] \in Command
    /\ \A g \in Group : [command |-> "deleteGroup", group |-> g] \in Command
    /\ \A g \in Group, r \in Role : [command |-> "addGroupRole", group |-> g, role |-> r] \in Command
    /\ \A g \in Group, r \in Role : [command |-> "removeGroupRole", group |-> g, role |-> r] \in Command
    /\ \A g \in Group, c \in Client : [command |-> "addGroupClient", group |-> g, client |-> c] \in Command
    /\ \A g \in Group, c \in Client : [command |-> "removeGroupClient", group |-> g, client |-> c] \in Command
    /\ \A c \in Client, R \in SUBSET Role, p \in Secret :
          [command |-> "createClient", client |-> c, roles |-> R, password |-> p] \in Command
    /\ \A c \in Client, p \in Secret : [command |-> "setClientPassword", client |-> c, password |-> p] \in Command
    /\ \A c \in Client, b \in BOOLEAN : [command |-> "setClientDisabled", client |-> c, disabled |-> b] \in Command
    /\ \A c \in Client, r \in Role : [command |-> "addClientRole", client |-> c, role |-> r] \in Command
    /\ \A c \in Client, r \in Role : [command |-> "removeClientRole", client |-> c, role |-> r] \in Command
    /\ \A c \in Client : [command |-> "deleteClient", client |-> c] \in Command
    /\ \A b \in BOOLEAN : [command |-> "setDefaultACLAccess", open |-> b] \in Command
    /\ \A g \in Group \cup {NoGroup} : [command |-> "setAnonymousGroup", group |-> g] \in Command
BY DEF Command, Entry

LEMMA RoleUpdatesType ==
    ASSUME NEW r \in Role, NEW cur \in Entries, NEW des \in Entries
    PROVE  roleUpdates(r, cur, des) \in Commands
<1> DEFINE diff == diffACLs(cur, des)
           Drop(t) == <<[command |-> "removeRoleACL", role |-> r, topic |-> t]>>
           Add(t) == LET moved == t \in DOMAIN cur /\ cur[t].priority # des[t].priority
                     IN  (IF moved THEN Drop(t) ELSE <<>>)
                         \o <<[command |-> "addRoleACL", role |-> r, topic |-> t, acl |-> des[t]]>>
<1>1. DOMAIN cur \subseteq Topic /\ DOMAIN des \subseteq Topic /\ \A t \in DOMAIN des : des[t] \in Entry
  BY EntriesFacts
<1>2. diff.removed \subseteq Topic /\ diff.added \subseteq DOMAIN des /\ diff.added \subseteq Topic
  BY <1>1 DEF diffACLs
<1>3. \A t \in Topic : Drop(t) \in Commands
  BY CommandFacts, One
<1>4. \A t \in DOMAIN des : Add(t) \in Commands
  <2> TAKE t \in DOMAIN des
  <2>1. [command |-> "addRoleACL", role |-> r, topic |-> t, acl |-> des[t]] \in Command
    BY <1>1, CommandFacts
  <2>2. t \in Topic
    BY <1>1
  <2> HIDE DEF Drop
  <2> QED BY <1>3, <2>1, <2>2, One, Joined, Nothing
<1> HIDE DEF Drop, Add, diff
<1>5. Each(diff.removed, Drop) \in Commands
  <2>1. SetToSeq(diff.removed) \in Seq(diff.removed)
    BY <1>2, Finite, OrderType
  <2>2. [i \in 1..Len(SetToSeq(diff.removed)) |-> Drop(SetToSeq(diff.removed)[i])] \in Seq(Commands)
    BY <2>1, <1>2, <1>3
  <2> QED BY <2>2, Flattened DEF Each
<1>6. Each(diff.added, Add) \in Commands
  <2>1. SetToSeq(diff.added) \in Seq(diff.added)
    BY <1>2, Finite, OrderType
  <2>2. [i \in 1..Len(SetToSeq(diff.added)) |-> Add(SetToSeq(diff.added)[i])] \in Seq(Commands)
    BY <2>1, <1>2, <1>4
  <2> QED BY <2>2, Flattened DEF Each
<1> QED BY <1>5, <1>6, Joined DEF roleUpdates, Drop, Add, diff

LEMMA GroupUpdatesType ==
    ASSUME NEW g \in Group, NEW cur \in GroupRecord, NEW des \in GroupRecord
    PROVE  groupUpdates(g, cur, des) \in Commands
<1> DEFINE AddRole(r) == <<[command |-> "addGroupRole", group |-> g, role |-> r]>>
           RemoveRole(r) == <<[command |-> "removeGroupRole", group |-> g, role |-> r]>>
           AddClient(c) == <<AddGroupClient(g, c)>>
           RemoveClient(c) == <<RemoveGroupClient(g, c)>>
<1>1. /\ des.roles \ cur.roles \subseteq Role /\ cur.roles \ des.roles \subseteq Role
      /\ des.clients \ cur.clients \subseteq Client /\ cur.clients \ des.clients \subseteq Client
  BY DEF GroupRecord
<1>2. /\ \A r \in Role : AddRole(r) \in Commands
      /\ \A r \in Role : RemoveRole(r) \in Commands
      /\ \A c \in Client : AddClient(c) \in Commands
      /\ \A c \in Client : RemoveClient(c) \in Commands
  BY CommandFacts, One DEF AddGroupClient, RemoveGroupClient
<1> HIDE DEF AddRole, RemoveRole, AddClient, RemoveClient
<1>3. Each(des.roles \ cur.roles, AddRole) \in Commands
  <2>1. SetToSeq(des.roles \ cur.roles) \in Seq(des.roles \ cur.roles)
    BY <1>1, Finite, OrderType
  <2>2. [i \in 1..Len(SetToSeq(des.roles \ cur.roles)) |-> AddRole(SetToSeq(des.roles \ cur.roles)[i])] \in Seq(Commands)
    BY <2>1, <1>1, <1>2
  <2> QED BY <2>2, Flattened DEF Each
<1>4. Each(cur.roles \ des.roles, RemoveRole) \in Commands
  <2>1. SetToSeq(cur.roles \ des.roles) \in Seq(cur.roles \ des.roles)
    BY <1>1, Finite, OrderType
  <2>2. [i \in 1..Len(SetToSeq(cur.roles \ des.roles)) |-> RemoveRole(SetToSeq(cur.roles \ des.roles)[i])] \in Seq(Commands)
    BY <2>1, <1>1, <1>2
  <2> QED BY <2>2, Flattened DEF Each
<1>5. Each(des.clients \ cur.clients, AddClient) \in Commands
  <2>1. SetToSeq(des.clients \ cur.clients) \in Seq(des.clients \ cur.clients)
    BY <1>1, Finite, OrderType
  <2>2. [i \in 1..Len(SetToSeq(des.clients \ cur.clients)) |-> AddClient(SetToSeq(des.clients \ cur.clients)[i])] \in Seq(Commands)
    BY <2>1, <1>1, <1>2
  <2> QED BY <2>2, Flattened DEF Each
<1>6. Each(cur.clients \ des.clients, RemoveClient) \in Commands
  <2>1. SetToSeq(cur.clients \ des.clients) \in Seq(cur.clients \ des.clients)
    BY <1>1, Finite, OrderType
  <2>2. [i \in 1..Len(SetToSeq(cur.clients \ des.clients)) |-> RemoveClient(SetToSeq(cur.clients \ des.clients)[i])] \in Seq(Commands)
    BY <2>1, <1>1, <1>2
  <2> QED BY <2>2, Flattened DEF Each
<1> QED BY <1>3, <1>4, <1>5, <1>6, Joined DEF groupUpdates, AddRole, RemoveRole, AddClient, RemoveClient

LEMMA MembershipUpdatesType ==
    ASSUME NEW g \in Group, NEW cur \in GroupRecord, NEW des \in GroupRecord, NEW deleted
    PROVE  groupMembershipUpdates(g, cur, des, deleted) \in Commands
<1> DEFINE AddClient(c) == <<AddGroupClient(g, c)>>
           RemoveClient(c) == <<RemoveGroupClient(g, c)>>
<1>1. des.clients \ cur.clients \subseteq Client /\ cur.clients \ (des.clients \cup deleted) \subseteq Client
  BY DEF GroupRecord
<1>2. /\ \A c \in Client : AddClient(c) \in Commands
      /\ \A c \in Client : RemoveClient(c) \in Commands
  BY CommandFacts, One DEF AddGroupClient, RemoveGroupClient
<1> HIDE DEF AddClient, RemoveClient
<1>3. Each(des.clients \ cur.clients, AddClient) \in Commands
  <2>1. SetToSeq(des.clients \ cur.clients) \in Seq(des.clients \ cur.clients)
    BY <1>1, Finite, OrderType
  <2>2. [i \in 1..Len(SetToSeq(des.clients \ cur.clients)) |-> AddClient(SetToSeq(des.clients \ cur.clients)[i])] \in Seq(Commands)
    BY <2>1, <1>1, <1>2
  <2> QED BY <2>2, Flattened DEF Each
<1>4. Each(cur.clients \ (des.clients \cup deleted), RemoveClient) \in Commands
  <2>1. SetToSeq(cur.clients \ (des.clients \cup deleted)) \in Seq(cur.clients \ (des.clients \cup deleted))
    BY <1>1, Finite, OrderType
  <2>2. [i \in 1..Len(SetToSeq(cur.clients \ (des.clients \cup deleted))) |-> RemoveClient(SetToSeq(cur.clients \ (des.clients \cup deleted))[i])] \in Seq(Commands)
    BY <2>1, <1>1, <1>2
  <2> QED BY <2>2, Flattened DEF Each
<1> QED BY <1>3, <1>4, Joined DEF groupMembershipUpdates, AddClient, RemoveClient

LEMMA ClientUpdatesType ==
    ASSUME NEW c \in Client, NEW cur \in ClientRecord, NEW des \in ClientRecord
    PROVE  clientUpdates(c, cur, des) \in Commands
<1> DEFINE AddRole(r) == <<[command |-> "addClientRole", client |-> c, role |-> r]>>
           RemoveRole(r) == <<[command |-> "removeClientRole", client |-> c, role |-> r]>>
           Secrets == IF des.password = NoPassword THEN <<>>
                      ELSE <<[command |-> "setClientPassword", client |-> c, password |-> des.password]>>
           Flags == IF cur.disabled = des.disabled THEN <<>>
                    ELSE <<[command |-> "setClientDisabled", client |-> c, disabled |-> des.disabled]>>
<1>1. /\ des.roles \ cur.roles \subseteq Role /\ cur.roles \ des.roles \subseteq Role
      /\ des.password \in Secret /\ des.disabled \in BOOLEAN
  BY DEF ClientRecord
<1>2. \A r \in Role : AddRole(r) \in Commands /\ RemoveRole(r) \in Commands
  BY CommandFacts, One
<1>3. Secrets \in Commands /\ Flags \in Commands
  BY <1>1, CommandFacts, One, Nothing
<1> HIDE DEF AddRole, RemoveRole, Secrets, Flags
<1>4. Each(des.roles \ cur.roles, AddRole) \in Commands
  <2>1. SetToSeq(des.roles \ cur.roles) \in Seq(des.roles \ cur.roles)
    BY <1>1, Finite, OrderType
  <2>2. [i \in 1..Len(SetToSeq(des.roles \ cur.roles)) |-> AddRole(SetToSeq(des.roles \ cur.roles)[i])] \in Seq(Commands)
    BY <2>1, <1>1, <1>2
  <2> QED BY <2>2, Flattened DEF Each
<1>5. Each(cur.roles \ des.roles, RemoveRole) \in Commands
  <2>1. SetToSeq(cur.roles \ des.roles) \in Seq(cur.roles \ des.roles)
    BY <1>1, Finite, OrderType
  <2>2. [i \in 1..Len(SetToSeq(cur.roles \ des.roles)) |-> RemoveRole(SetToSeq(cur.roles \ des.roles)[i])] \in Seq(Commands)
    BY <2>1, <1>1, <1>2
  <2> QED BY <2>2, Flattened DEF Each
<1> QED BY <1>3, <1>4, <1>5, Joined DEF clientUpdates, AddRole, RemoveRole, Secrets, Flags

LEMMA PhaseTypes ==
    ASSUME NEW current \in Database, NEW desired \in Database
    PROVE  /\ RolePhase(current, desired) \in Commands
           /\ GroupPhase(current, desired) \in Commands
           /\ ClientPhase(current, desired) \in Commands
           /\ MembershipPhase(current, desired) \in Commands
           /\ DeletePhase(current, desired) \in Commands
           /\ SettingsPhase(current, desired) \in Commands
<1>0. /\ DOMAIN desired.roles \subseteq Role /\ DOMAIN desired.groups \subseteq Group
      /\ DOMAIN desired.clients \subseteq Client
  BY DatabaseFacts
<1>1. RolePhase(current, desired) \in Commands
  <2> DEFINE Change(r) == IF r \in DOMAIN current.roles
                          THEN roleUpdates(r, current.roles[r], desired.roles[r])
                          ELSE <<[command |-> "createRole", role |-> r, acls |-> desired.roles[r]]>>
  <2>1. \A r \in DOMAIN desired.roles : Change(r) \in Commands
    BY DatabaseFacts, RoleUpdatesType, CommandFacts, One
  <2> HIDE DEF Change
  <2>2. Each(DOMAIN desired.roles, Change) \in Commands
    <3>1. SetToSeq(DOMAIN desired.roles) \in Seq(DOMAIN desired.roles)
      BY <1>0, Finite, OrderType
    <3>2. [i \in 1..Len(SetToSeq(DOMAIN desired.roles)) |-> Change(SetToSeq(DOMAIN desired.roles)[i])] \in Seq(Commands)
      BY <3>1, <2>1
    <3> QED BY <3>2, Flattened DEF Each
  <2> QED BY <2>2 DEF RolePhase, Change
<1>2. GroupPhase(current, desired) \in Commands
  <2> DEFINE Change(g) == IF g \in DOMAIN current.groups
                          THEN groupUpdates(g, current.groups[g], desired.groups[g])
                          ELSE <<[command |-> "createGroup", group |-> g, roles |-> desired.groups[g].roles]>>
  <2>0. \A g \in DOMAIN desired.groups : desired.groups[g].roles \in SUBSET Role
    BY DatabaseFacts DEF GroupRecord
  <2>1. \A g \in DOMAIN desired.groups : Change(g) \in Commands
    BY <2>0, DatabaseFacts, GroupUpdatesType, CommandFacts, One
  <2> HIDE DEF Change
  <2>2. Each(DOMAIN desired.groups, Change) \in Commands
    <3>1. SetToSeq(DOMAIN desired.groups) \in Seq(DOMAIN desired.groups)
      BY <1>0, Finite, OrderType
    <3>2. [i \in 1..Len(SetToSeq(DOMAIN desired.groups)) |-> Change(SetToSeq(DOMAIN desired.groups)[i])] \in Seq(Commands)
      BY <3>1, <2>1
    <3> QED BY <3>2, Flattened DEF Each
  <2> QED BY <2>2 DEF GroupPhase, Change
<1>3. ClientPhase(current, desired) \in Commands
  <2> DEFINE Change(c) == IF c \in DOMAIN current.clients
                          THEN clientUpdates(c, current.clients[c], desired.clients[c])
                          ELSE <<[command  |-> "createClient", client |-> c, roles |-> desired.clients[c].roles,
                                  password |-> desired.clients[c].password]>>
  <2>0. \A c \in DOMAIN desired.clients : desired.clients[c].roles \in SUBSET Role /\ desired.clients[c].password \in Secret
    BY DatabaseFacts DEF ClientRecord
  <2>1. \A c \in DOMAIN desired.clients : Change(c) \in Commands
    BY <2>0, DatabaseFacts, ClientUpdatesType, CommandFacts, One
  <2> HIDE DEF Change
  <2>2. Each(DOMAIN desired.clients, Change) \in Commands
    <3>1. SetToSeq(DOMAIN desired.clients) \in Seq(DOMAIN desired.clients)
      BY <1>0, Finite, OrderType
    <3>2. [i \in 1..Len(SetToSeq(DOMAIN desired.clients)) |-> Change(SetToSeq(DOMAIN desired.clients)[i])] \in Seq(Commands)
      BY <3>1, <2>1
    <3> QED BY <3>2, Flattened DEF Each
  <2> QED BY <2>2 DEF ClientPhase, Change
<1>4. MembershipPhase(current, desired) \in Commands
  <2> DEFINE deleted == DOMAIN current.clients \ DOMAIN desired.clients
             Joining(g) == LET Add(c) == <<AddGroupClient(g, c)>> IN Each(desired.groups[g].clients, Add)
             Change(g) == IF g \in DOMAIN current.groups
                          THEN groupMembershipUpdates(g, current.groups[g], desired.groups[g], deleted)
                          ELSE Joining(g)
  <2>0. ASSUME NEW g \in DOMAIN desired.groups PROVE Joining(g) \in Commands
    <3> DEFINE Add(c) == <<AddGroupClient(g, c)>>
    <3>1. desired.groups[g].clients \subseteq Client /\ g \in Group
      BY DatabaseFacts DEF GroupRecord
    <3>2. \A c \in Client : Add(c) \in Commands
      BY <3>1, CommandFacts, One DEF AddGroupClient
    <3> HIDE DEF Add
    <3>3. Each(desired.groups[g].clients, Add) \in Commands
      <4>1. SetToSeq(desired.groups[g].clients) \in Seq(desired.groups[g].clients)
        BY <3>1, Finite, OrderType
      <4>2. [i \in 1..Len(SetToSeq(desired.groups[g].clients)) |-> Add(SetToSeq(desired.groups[g].clients)[i])] \in Seq(Commands)
        BY <4>1, <3>1, <3>2
      <4> QED BY <4>2, Flattened DEF Each
    <3> QED BY <3>3 DEF Add
  <2> HIDE DEF Joining, deleted
  <2>1. \A g \in DOMAIN desired.groups : Change(g) \in Commands
    BY <2>0, DatabaseFacts, MembershipUpdatesType
  <2> HIDE DEF Change
  <2>2. Each(DOMAIN desired.groups, Change) \in Commands
    <3>1. SetToSeq(DOMAIN desired.groups) \in Seq(DOMAIN desired.groups)
      BY <1>0, Finite, OrderType
    <3>2. [i \in 1..Len(SetToSeq(DOMAIN desired.groups)) |-> Change(SetToSeq(DOMAIN desired.groups)[i])] \in Seq(Commands)
      BY <3>1, <2>1
    <3> QED BY <3>2, Flattened DEF Each
  <2> QED BY <2>2 DEF MembershipPhase, Change, Joining, deleted
<1>5. DeletePhase(current, desired) \in Commands
  <2> DEFINE Client1(c) == <<[command |-> "deleteClient", client |-> c]>>
             Group1(g) == <<[command |-> "deleteGroup", group |-> g]>>
             Role1(r) == <<[command |-> "deleteRole", role |-> r]>>
  <2>0. /\ DOMAIN current.clients \ DOMAIN desired.clients \subseteq Client
        /\ DOMAIN current.groups \ DOMAIN desired.groups \subseteq Group
        /\ DOMAIN current.roles \ DOMAIN desired.roles \subseteq Role
    BY DatabaseFacts
  <2>1. /\ \A c \in Client : Client1(c) \in Commands
        /\ \A g \in Group : Group1(g) \in Commands
        /\ \A r \in Role : Role1(r) \in Commands
    BY CommandFacts, One
  <2> HIDE DEF Client1, Group1, Role1
  <2>2. Each(DOMAIN current.clients \ DOMAIN desired.clients, Client1) \in Commands
    <3>1. SetToSeq(DOMAIN current.clients \ DOMAIN desired.clients) \in Seq(DOMAIN current.clients \ DOMAIN desired.clients)
      BY <2>0, Finite, OrderType
    <3>2. [i \in 1..Len(SetToSeq(DOMAIN current.clients \ DOMAIN desired.clients)) |-> Client1(SetToSeq(DOMAIN current.clients \ DOMAIN desired.clients)[i])] \in Seq(Commands)
      BY <3>1, <2>0, <2>1
    <3> QED BY <3>2, Flattened DEF Each
  <2>3. Each(DOMAIN current.groups \ DOMAIN desired.groups, Group1) \in Commands
    <3>1. SetToSeq(DOMAIN current.groups \ DOMAIN desired.groups) \in Seq(DOMAIN current.groups \ DOMAIN desired.groups)
      BY <2>0, Finite, OrderType
    <3>2. [i \in 1..Len(SetToSeq(DOMAIN current.groups \ DOMAIN desired.groups)) |-> Group1(SetToSeq(DOMAIN current.groups \ DOMAIN desired.groups)[i])] \in Seq(Commands)
      BY <3>1, <2>0, <2>1
    <3> QED BY <3>2, Flattened DEF Each
  <2>4. Each(DOMAIN current.roles \ DOMAIN desired.roles, Role1) \in Commands
    <3>1. SetToSeq(DOMAIN current.roles \ DOMAIN desired.roles) \in Seq(DOMAIN current.roles \ DOMAIN desired.roles)
      BY <2>0, Finite, OrderType
    <3>2. [i \in 1..Len(SetToSeq(DOMAIN current.roles \ DOMAIN desired.roles)) |-> Role1(SetToSeq(DOMAIN current.roles \ DOMAIN desired.roles)[i])] \in Seq(Commands)
      BY <3>1, <2>0, <2>1
    <3> QED BY <3>2, Flattened DEF Each
  <2> QED BY <2>2, <2>3, <2>4, Joined DEF DeletePhase, Client1, Group1, Role1
<1>6. SettingsPhase(current, desired) \in Commands
  <2> DEFINE Access == IF current.open = desired.open THEN <<>>
                       ELSE <<[command |-> "setDefaultACLAccess", open |-> desired.open]>>
             Anonymous == IF current.anonymous = desired.anonymous THEN <<>>
                          ELSE <<[command |-> "setAnonymousGroup", group |-> desired.anonymous]>>
  <2>1. Access \in Commands /\ Anonymous \in Commands
    BY DatabaseFacts, CommandFacts, One, Nothing
  <2> HIDE DEF Access, Anonymous
  <2> QED BY <2>1, Joined DEF SettingsPhase, Access, Anonymous
<1> QED BY <1>1, <1>2, <1>3, <1>4, <1>5, <1>6

\* A plan is a sequence of commands.
LEMMA BuildPlanType ==
    ASSUME NEW current \in Database, NEW desired \in Database
    PROVE  BuildPlan(current, desired) \in Seq(Command)
<1>1. BuildPlan(current, desired) \in Commands
  BY PhaseTypes, Joined DEF BuildPlan
<1> QED BY <1>1 DEF Commands

-----------------------------------------------------------------------------
(* What the plugin does with a command, and which part of it can be seen. *)

\* The arguments a command carries.
LEMMA CommandArguments ==
    ASSUME NEW m \in Command
    PROVE  /\ m.command \in {"createRole", "addRoleACL", "removeRoleACL", "deleteRole", "createGroup",
                             "deleteGroup", "addGroupRole", "removeGroupRole", "addGroupClient",
                             "removeGroupClient", "createClient", "setClientPassword", "setClientDisabled",
                             "addClientRole", "removeClientRole", "deleteClient", "setDefaultACLAccess",
                             "setAnonymousGroup"}
           /\ m.command \in {"createRole", "addRoleACL", "removeRoleACL", "deleteRole", "addGroupRole",
                             "removeGroupRole", "addClientRole", "removeClientRole"} => m.role \in Role
           /\ m.command \in {"addRoleACL", "removeRoleACL"} => m.topic \in Topic
           /\ m.command = "createRole" => m.acls \in Entries
           /\ m.command = "addRoleACL" => m.acl \in Entry
           /\ m.command \in {"createGroup", "deleteGroup", "addGroupRole", "removeGroupRole",
                             "addGroupClient", "removeGroupClient"} => m.group \in Group
           /\ m.command \in {"createGroup", "createClient"} => m.roles \in SUBSET Role
           /\ m.command \in {"addGroupClient", "removeGroupClient", "createClient", "setClientPassword",
                             "setClientDisabled", "addClientRole", "removeClientRole", "deleteClient"}
                => m.client \in Client
           /\ m.command \in {"createClient", "setClientPassword"} => m.password \in Secret
           /\ m.command = "setClientDisabled" => m.disabled \in BOOLEAN
           /\ m.command = "setDefaultACLAccess" => m.open \in BOOLEAN
           /\ m.command = "setAnonymousGroup" => m.group \in Group \cup {NoGroup}
BY DEF Command, Entry

\* A command without the password in it, if there is one.
Bare(m) == IF "password" \in DOMAIN m THEN [m EXCEPT !.password = NoPassword] ELSE m

LEMMA BareArguments ==
    ASSUME NEW m \in Command
    PROVE  /\ Bare(m).command = m.command
           /\ m.command \notin {"createClient", "setClientPassword"} => Bare(m) = m
           /\ m.command = "createClient" => /\ Bare(m).client = m.client /\ Bare(m).roles = m.roles
                                            /\ Bare(m).password = NoPassword
           /\ m.command = "setClientPassword" => Bare(m).client = m.client /\ Bare(m).password = NoPassword
<1>1. /\ m.command \notin {"createClient", "setClientPassword"} => "password" \notin DOMAIN m
      /\ m.command = "createClient" => m \in [command : {"createClient"}, client : Client, roles : SUBSET Role, password : Secret]
      /\ m.command = "setClientPassword" => m \in [command : {"setClientPassword"}, client : Client, password : Secret]
  BY DEF Command
<1> QED BY <1>1 DEF Bare

LEMMA MapChanges ==
    ASSUME NEW K, NEW V, NEW f \in Maps(K, V), NEW k \in K
    PROVE  /\ \A v \in V : WithKey(f, k, v) \in Maps(K, V)
           /\ WithoutKey(f, k) \in Maps(K, V)
           /\ \A v \in V : k \in DOMAIN f => [f EXCEPT ![k] = v] \in Maps(K, V)
           /\ \A g \in [DOMAIN f -> V] : g \in Maps(K, V)
<1>1. DOMAIN f \subseteq K /\ \A x \in DOMAIN f : f[x] \in V
  BY MapsFacts
<1>2. \A v \in V : WithKey(f, k, v) \in [DOMAIN f \cup {k} -> V]
  BY <1>1 DEF WithKey
<1>3. WithoutKey(f, k) \in [DOMAIN f \ {k} -> V]
  BY <1>1 DEF WithoutKey
<1>4. \A v \in V : k \in DOMAIN f => [f EXCEPT ![k] = v] \in [DOMAIN f -> V]
  BY MapsFacts
<1>5. DOMAIN f \cup {k} \in SUBSET K /\ DOMAIN f \ {k} \in SUBSET K /\ DOMAIN f \in SUBSET K
  BY <1>1
<1> QED BY <1>2, <1>3, <1>4, <1>5, MapsFacts

\* A document from its parts.
Doc(c, g, r, o, a) == [clients |-> c, groups |-> g, roles |-> r, open |-> o, anonymous |-> a]
Same(d) == Doc(d.clients, d.groups, d.roles, d.open, d.anonymous)
Clients == Maps(Client, ClientRecord)
Groups == Maps(Group, GroupRecord)
Roles == Maps(Role, Entries)

LEMMA DocType ==
    /\ \A d \in Database : /\ d = Same(d) /\ d.clients \in Clients /\ d.groups \in Groups /\ d.roles \in Roles
                           /\ d.open \in BOOLEAN /\ d.anonymous \in Group \cup {NoGroup}
    /\ \A c \in Clients, g \in Groups, r \in Roles, o \in BOOLEAN, a \in Group \cup {NoGroup} :
          Doc(c, g, r, o, a) \in Database
BY DEF Database, Doc, Same, Clients, Groups, Roles

LEMMA ClientPart == \A f \in Clients : DOMAIN f \subseteq Client /\ \A c \in DOMAIN f : f[c] \in ClientRecord
BY MapsFacts DEF Clients

LEMMA GroupPart == \A f \in Groups : DOMAIN f \subseteq Group /\ \A g \in DOMAIN f : f[g] \in GroupRecord
BY MapsFacts DEF Groups

LEMMA RolePart == \A f \in Roles : DOMAIN f \subseteq Role /\ \A r \in DOMAIN f : f[r] \in Entries
BY MapsFacts DEF Roles

\* The clients without their passwords, and with the memberships of the groups.
Veiled(cs) == [c \in DOMAIN cs |-> [cs[c] EXCEPT !.password = NoPassword]]
Enrolled(cs, gs) == [c \in DOMAIN cs |-> [cs[c] EXCEPT !.groups = {g \in DOMAIN gs : c \in gs[g].clients}]]

LEMMA DocViews ==
    ASSUME NEW c, NEW g, NEW r, NEW o, NEW a
    PROVE  /\ Redacted(Doc(c, g, r, o, a)) = Doc(Veiled(c), g, r, o, a)
           /\ Normalize(Doc(c, g, r, o, a)) = Doc(Enrolled(c, g), g, r, o, a)
<1> DEFINE d == Doc(c, g, r, o, a)
<1>1. /\ d.clients = c /\ d.groups = g /\ d.roles = r /\ d.open = o /\ d.anonymous = a
      /\ \A x : [d EXCEPT !.clients = x] = Doc(x, g, r, o, a)
  BY DEF Doc
<1> HIDE DEF d
<1>2. Redacted(d) = [d EXCEPT !.clients = Veiled(d.clients)]
  BY DEF Redacted, Veiled
<1>3. Normalize(d) = [d EXCEPT !.clients = Enrolled(d.clients, d.groups)]
  BY DEF Normalize, Enrolled
<1> QED BY <1>1, <1>2, <1>3 DEF d

LEMMA ViewTypes ==
    ASSUME NEW cs \in Clients, NEW gs \in Groups
    PROVE  /\ Veiled(cs) \in Clients /\ Enrolled(cs, gs) \in Clients
           /\ Enrolled(Veiled(cs), gs) = Veiled(Enrolled(cs, gs))
           /\ Veiled(Veiled(cs)) = Veiled(cs)
<1>1. DOMAIN cs \in SUBSET Client /\ \A c \in DOMAIN cs : cs[c] \in ClientRecord
  BY ClientPart
<1>2. DOMAIN gs \in SUBSET Group
  BY GroupPart
<1>3. \A c \in DOMAIN cs : [cs[c] EXCEPT !.password = NoPassword] \in ClientRecord
  BY <1>1 DEF ClientRecord, Secret
<1>4. \A c \in DOMAIN cs : [cs[c] EXCEPT !.groups = {g \in DOMAIN gs : c \in gs[g].clients}] \in ClientRecord
  BY <1>1, <1>2 DEF ClientRecord
<1>5. Veiled(cs) \in [DOMAIN cs -> ClientRecord] /\ Enrolled(cs, gs) \in [DOMAIN cs -> ClientRecord]
  BY <1>3, <1>4 DEF Veiled, Enrolled
<1>6. Veiled(cs) \in Clients /\ Enrolled(cs, gs) \in Clients
  BY <1>1, <1>5, MapsFacts DEF Clients
<1>7. \A c \in DOMAIN cs : \A G : [[cs[c] EXCEPT !.password = NoPassword] EXCEPT !.groups = G]
                            = [[cs[c] EXCEPT !.groups = G] EXCEPT !.password = NoPassword]
  BY <1>1 DEF ClientRecord
<1>8. \A c \in DOMAIN cs : [[cs[c] EXCEPT !.password = NoPassword] EXCEPT !.password = NoPassword]
                            = [cs[c] EXCEPT !.password = NoPassword]
  BY <1>1 DEF ClientRecord
<1>9. Enrolled(Veiled(cs), gs) = Veiled(Enrolled(cs, gs))
  BY <1>7 DEF Enrolled, Veiled
<1>10. Veiled(Veiled(cs)) = Veiled(cs)
  BY <1>8 DEF Veiled
<1> QED BY <1>6, <1>9, <1>10

LEMMA DocumentViews ==
    ASSUME NEW d \in Database
    PROVE  /\ Redacted(d) \in Database /\ Normalize(d) \in Database
           /\ Redacted(d) = Doc(Veiled(d.clients), d.groups, d.roles, d.open, d.anonymous)
           /\ Normalize(d) = Doc(Enrolled(d.clients, d.groups), d.groups, d.roles, d.open, d.anonymous)
           /\ Redacted(Normalize(d)) = Normalize(Redacted(d))
           /\ Redacted(Redacted(d)) = Redacted(d)
<1>1. d = Same(d) /\ d.clients \in Clients /\ d.groups \in Groups /\ d.roles \in Roles
      /\ d.open \in BOOLEAN /\ d.anonymous \in Group \cup {NoGroup}
  BY DocType
<1>2. /\ Redacted(d) = Doc(Veiled(d.clients), d.groups, d.roles, d.open, d.anonymous)
      /\ Normalize(d) = Doc(Enrolled(d.clients, d.groups), d.groups, d.roles, d.open, d.anonymous)
  BY <1>1, DocViews DEF Same
<1>3. Redacted(d) \in Database /\ Normalize(d) \in Database
  BY <1>1, <1>2, ViewTypes, DocType
<1>4. /\ Redacted(Normalize(d)) = Doc(Veiled(Enrolled(d.clients, d.groups)), d.groups, d.roles, d.open, d.anonymous)
      /\ Normalize(Redacted(d)) = Doc(Enrolled(Veiled(d.clients), d.groups), d.groups, d.roles, d.open, d.anonymous)
      /\ Redacted(Redacted(d)) = Doc(Veiled(Veiled(d.clients)), d.groups, d.roles, d.open, d.anonymous)
  BY <1>2, DocViews
<1> QED BY <1>1, <1>2, <1>3, <1>4, ViewTypes

SetClients(d, x) == [d EXCEPT !.clients = x]
SetGroups(d, x) == [d EXCEPT !.groups = x]
SetRoles(d, x) == [d EXCEPT !.roles = x]
SetAnonymous(d, x) == [d EXCEPT !.anonymous = x]

LEMMA DocExcept ==
    \A c, g, r, o, a, x : /\ SetClients(Doc(c, g, r, o, a), x) = Doc(x, g, r, o, a)
                          /\ SetGroups(Doc(c, g, r, o, a), x) = Doc(c, x, r, o, a)
                          /\ SetRoles(Doc(c, g, r, o, a), x) = Doc(c, g, x, o, a)
                          /\ SetAnonymous(Doc(c, g, r, o, a), x) = Doc(c, g, r, o, x)
BY DEF Doc, SetClients, SetGroups, SetRoles, SetAnonymous

\* The parts of the document a command changes.
LEMMA EffectParts ==
    ASSUME NEW d \in Database, NEW m \in Command
    PROVE 
           /\ m.command = "createRole" => Effect(d, m) = Doc(d.clients, d.groups, WithKey(d.roles, m.role, m.acls), d.open, d.anonymous)
           /\ m.command = "addRoleACL" => Effect(d, m) = Doc(d.clients, d.groups, [d.roles EXCEPT ![m.role] = WithKey(d.roles[m.role], m.topic, m.acl)], d.open, d.anonymous)
           /\ m.command = "removeRoleACL" => Effect(d, m) = Doc(d.clients, d.groups, [d.roles EXCEPT ![m.role] = WithoutKey(d.roles[m.role], m.topic)], d.open, d.anonymous)
           /\ m.command = "deleteRole" => Effect(d, m) = Doc([c \in DOMAIN d.clients |-> [d.clients[c] EXCEPT !.roles = @ \ {m.role}]], [g \in DOMAIN d.groups |-> [d.groups[g] EXCEPT !.roles = @ \ {m.role}]], WithoutKey(d.roles, m.role), d.open, d.anonymous)
           /\ m.command = "createGroup" => Effect(d, m) = Doc(d.clients, WithKey(d.groups, m.group, [roles |-> m.roles, clients |-> {}]), d.roles, d.open, d.anonymous)
           /\ m.command = "deleteGroup" => Effect(d, m) = Doc(d.clients, WithoutKey(d.groups, m.group), d.roles, d.open, (IF d.anonymous = m.group THEN NoGroup ELSE d.anonymous))
           /\ m.command = "addGroupRole" => Effect(d, m) = Doc(d.clients, [d.groups EXCEPT ![m.group].roles = @ \cup {m.role}], d.roles, d.open, d.anonymous)
           /\ m.command = "removeGroupRole" => Effect(d, m) = Doc(d.clients, [d.groups EXCEPT ![m.group].roles = @ \ {m.role}], d.roles, d.open, d.anonymous)
           /\ m.command = "addGroupClient" => Effect(d, m) = Doc(d.clients, [d.groups EXCEPT ![m.group].clients = @ \cup {m.client}], d.roles, d.open, d.anonymous)
           /\ m.command = "removeGroupClient" => Effect(d, m) = Doc(d.clients, [d.groups EXCEPT ![m.group].clients = @ \ {m.client}], d.roles, d.open, d.anonymous)
           /\ m.command = "createClient" => Effect(d, m) = Doc(WithKey(d.clients, m.client, [roles |-> m.roles, groups |-> {}, disabled |-> FALSE, password |-> m.password]), d.groups, d.roles, d.open, d.anonymous)
           /\ m.command = "setClientPassword" => Effect(d, m) = Doc([d.clients EXCEPT ![m.client].password = m.password], d.groups, d.roles, d.open, d.anonymous)
           /\ m.command = "setClientDisabled" => Effect(d, m) = Doc([d.clients EXCEPT ![m.client].disabled = m.disabled], d.groups, d.roles, d.open, d.anonymous)
           /\ m.command = "addClientRole" => Effect(d, m) = Doc([d.clients EXCEPT ![m.client].roles = @ \cup {m.role}], d.groups, d.roles, d.open, d.anonymous)
           /\ m.command = "removeClientRole" => Effect(d, m) = Doc([d.clients EXCEPT ![m.client].roles = @ \ {m.role}], d.groups, d.roles, d.open, d.anonymous)
           /\ m.command = "deleteClient" => Effect(d, m) = Doc(WithoutKey(d.clients, m.client), [g \in DOMAIN d.groups |-> [d.groups[g] EXCEPT !.clients = @ \ {m.client}]], d.roles, d.open, d.anonymous)
           /\ m.command = "setDefaultACLAccess" => Effect(d, m) = Doc(d.clients, d.groups, d.roles, m.open, d.anonymous)
           /\ m.command = "setAnonymousGroup" => Effect(d, m) = Doc(d.clients, d.groups, d.roles, d.open, m.group)
<1>0. d = Same(d)
  BY DocType
<1>1. /\ \A x : [d EXCEPT !.clients = x] = Doc(x, d.groups, d.roles, d.open, d.anonymous)
      /\ \A x : [d EXCEPT !.groups = x] = Doc(d.clients, x, d.roles, d.open, d.anonymous)
      /\ \A x : [d EXCEPT !.roles = x] = Doc(d.clients, d.groups, x, d.open, d.anonymous)
      /\ \A x : [d EXCEPT !.open = x] = Doc(d.clients, d.groups, d.roles, x, d.anonymous)
      /\ \A x : [d EXCEPT !.anonymous = x] = Doc(d.clients, d.groups, d.roles, d.open, x)
  BY <1>0 DEF Doc, Same
<1>c1. m.command = "createRole" => Effect(d, m) = Doc(d.clients, d.groups, WithKey(d.roles, m.role, m.acls), d.open, d.anonymous)
  <2>1. m.command = "createRole" => Effect(d, m) = [d EXCEPT !.roles = WithKey(d.roles, m.role, m.acls)]
    BY DEF Effect
  <2> QED BY <1>1, <2>1
<1>c2. m.command = "addRoleACL" => Effect(d, m) = Doc(d.clients, d.groups, [d.roles EXCEPT ![m.role] = WithKey(d.roles[m.role], m.topic, m.acl)], d.open, d.anonymous)
  <2>1. m.command = "addRoleACL" => Effect(d, m) = [d EXCEPT !.roles = [d.roles EXCEPT ![m.role] = WithKey(d.roles[m.role], m.topic, m.acl)]]
    BY DEF Effect
  <2> QED BY <1>1, <2>1
<1>c3. m.command = "removeRoleACL" => Effect(d, m) = Doc(d.clients, d.groups, [d.roles EXCEPT ![m.role] = WithoutKey(d.roles[m.role], m.topic)], d.open, d.anonymous)
  <2>1. m.command = "removeRoleACL" => Effect(d, m) = [d EXCEPT !.roles = [d.roles EXCEPT ![m.role] = WithoutKey(d.roles[m.role], m.topic)]]
    BY DEF Effect
  <2> QED BY <1>1, <2>1
<1>c4. m.command = "deleteRole" => Effect(d, m) = Doc([c \in DOMAIN d.clients |-> [d.clients[c] EXCEPT !.roles = @ \ {m.role}]], [g \in DOMAIN d.groups |-> [d.groups[g] EXCEPT !.roles = @ \ {m.role}]], WithoutKey(d.roles, m.role), d.open, d.anonymous)
  <2>1. SetRoles(Doc(d.clients, d.groups, d.roles, d.open, d.anonymous), WithoutKey(d.roles, m.role))
          = Doc(d.clients, d.groups, WithoutKey(d.roles, m.role), d.open, d.anonymous)
    BY DocExcept
  <2>2. SetClients(Doc(d.clients, d.groups, WithoutKey(d.roles, m.role), d.open, d.anonymous), [c \in DOMAIN d.clients |-> [d.clients[c] EXCEPT !.roles = @ \ {m.role}]])
          = Doc([c \in DOMAIN d.clients |-> [d.clients[c] EXCEPT !.roles = @ \ {m.role}]], d.groups, WithoutKey(d.roles, m.role), d.open, d.anonymous)
    BY DocExcept
  <2>3. SetGroups(Doc([c \in DOMAIN d.clients |-> [d.clients[c] EXCEPT !.roles = @ \ {m.role}]], d.groups, WithoutKey(d.roles, m.role), d.open, d.anonymous), [g \in DOMAIN d.groups |-> [d.groups[g] EXCEPT !.roles = @ \ {m.role}]])
          = Doc([c \in DOMAIN d.clients |-> [d.clients[c] EXCEPT !.roles = @ \ {m.role}]], [g \in DOMAIN d.groups |-> [d.groups[g] EXCEPT !.roles = @ \ {m.role}]], WithoutKey(d.roles, m.role), d.open, d.anonymous)
    BY DocExcept
  <2>e. m.command = "deleteRole" => Effect(d, m) = SetGroups(SetClients(SetRoles(d, WithoutKey(d.roles, m.role)), [c \in DOMAIN d.clients |-> [d.clients[c] EXCEPT !.roles = @ \ {m.role}]]), [g \in DOMAIN d.groups |-> [d.groups[g] EXCEPT !.roles = @ \ {m.role}]])
    BY Zenon DEF Effect, SetClients, SetGroups, SetRoles, SetAnonymous
  <2> QED BY <1>0, <2>e, <2>1, <2>2, <2>3 DEF Same
<1>c5. m.command = "createGroup" => Effect(d, m) = Doc(d.clients, WithKey(d.groups, m.group, [roles |-> m.roles, clients |-> {}]), d.roles, d.open, d.anonymous)
  <2>1. m.command = "createGroup" => Effect(d, m) = [d EXCEPT !.groups = WithKey(d.groups, m.group, [roles |-> m.roles, clients |-> {}])]
    BY DEF Effect
  <2> QED BY <1>1, <2>1
<1>c6. m.command = "deleteGroup" => Effect(d, m) = Doc(d.clients, WithoutKey(d.groups, m.group), d.roles, d.open, (IF d.anonymous = m.group THEN NoGroup ELSE d.anonymous))
  <2>1. SetGroups(Doc(d.clients, d.groups, d.roles, d.open, d.anonymous), WithoutKey(d.groups, m.group))
          = Doc(d.clients, WithoutKey(d.groups, m.group), d.roles, d.open, d.anonymous)
    BY DocExcept
  <2>2. SetAnonymous(Doc(d.clients, WithoutKey(d.groups, m.group), d.roles, d.open, d.anonymous), (IF d.anonymous = m.group THEN NoGroup ELSE d.anonymous))
          = Doc(d.clients, WithoutKey(d.groups, m.group), d.roles, d.open, (IF d.anonymous = m.group THEN NoGroup ELSE d.anonymous))
    BY DocExcept
  <2>e. m.command = "deleteGroup" => Effect(d, m) = SetAnonymous(SetGroups(d, WithoutKey(d.groups, m.group)), (IF d.anonymous = m.group THEN NoGroup ELSE d.anonymous))
    BY Zenon DEF Effect, SetClients, SetGroups, SetRoles, SetAnonymous
  <2> QED BY <1>0, <2>e, <2>1, <2>2 DEF Same
<1>c7. m.command = "addGroupRole" => Effect(d, m) = Doc(d.clients, [d.groups EXCEPT ![m.group].roles = @ \cup {m.role}], d.roles, d.open, d.anonymous)
  <2>1. m.command = "addGroupRole" => Effect(d, m) = [d EXCEPT !.groups = [d.groups EXCEPT ![m.group].roles = @ \cup {m.role}]]
    BY DEF Effect
  <2> QED BY <1>1, <2>1
<1>c8. m.command = "removeGroupRole" => Effect(d, m) = Doc(d.clients, [d.groups EXCEPT ![m.group].roles = @ \ {m.role}], d.roles, d.open, d.anonymous)
  <2>1. m.command = "removeGroupRole" => Effect(d, m) = [d EXCEPT !.groups = [d.groups EXCEPT ![m.group].roles = @ \ {m.role}]]
    BY DEF Effect
  <2> QED BY <1>1, <2>1
<1>c9. m.command = "addGroupClient" => Effect(d, m) = Doc(d.clients, [d.groups EXCEPT ![m.group].clients = @ \cup {m.client}], d.roles, d.open, d.anonymous)
  <2>1. m.command = "addGroupClient" => Effect(d, m) = [d EXCEPT !.groups = [d.groups EXCEPT ![m.group].clients = @ \cup {m.client}]]
    BY DEF Effect
  <2> QED BY <1>1, <2>1
<1>c10. m.command = "removeGroupClient" => Effect(d, m) = Doc(d.clients, [d.groups EXCEPT ![m.group].clients = @ \ {m.client}], d.roles, d.open, d.anonymous)
  <2>1. m.command = "removeGroupClient" => Effect(d, m) = [d EXCEPT !.groups = [d.groups EXCEPT ![m.group].clients = @ \ {m.client}]]
    BY DEF Effect
  <2> QED BY <1>1, <2>1
<1>c11. m.command = "createClient" => Effect(d, m) = Doc(WithKey(d.clients, m.client, [roles |-> m.roles, groups |-> {}, disabled |-> FALSE, password |-> m.password]), d.groups, d.roles, d.open, d.anonymous)
  <2>1. m.command = "createClient" => Effect(d, m) = [d EXCEPT !.clients = WithKey(d.clients, m.client, [roles |-> m.roles, groups |-> {}, disabled |-> FALSE, password |-> m.password])]
    BY DEF Effect
  <2> QED BY <1>1, <2>1
<1>c12. m.command = "setClientPassword" => Effect(d, m) = Doc([d.clients EXCEPT ![m.client].password = m.password], d.groups, d.roles, d.open, d.anonymous)
  <2>1. m.command = "setClientPassword" => Effect(d, m) = [d EXCEPT !.clients = [d.clients EXCEPT ![m.client].password = m.password]]
    BY DEF Effect
  <2> QED BY <1>1, <2>1
<1>c13. m.command = "setClientDisabled" => Effect(d, m) = Doc([d.clients EXCEPT ![m.client].disabled = m.disabled], d.groups, d.roles, d.open, d.anonymous)
  <2>1. m.command = "setClientDisabled" => Effect(d, m) = [d EXCEPT !.clients = [d.clients EXCEPT ![m.client].disabled = m.disabled]]
    BY DEF Effect
  <2> QED BY <1>1, <2>1
<1>c14. m.command = "addClientRole" => Effect(d, m) = Doc([d.clients EXCEPT ![m.client].roles = @ \cup {m.role}], d.groups, d.roles, d.open, d.anonymous)
  <2>1. m.command = "addClientRole" => Effect(d, m) = [d EXCEPT !.clients = [d.clients EXCEPT ![m.client].roles = @ \cup {m.role}]]
    BY DEF Effect
  <2> QED BY <1>1, <2>1
<1>c15. m.command = "removeClientRole" => Effect(d, m) = Doc([d.clients EXCEPT ![m.client].roles = @ \ {m.role}], d.groups, d.roles, d.open, d.anonymous)
  <2>1. m.command = "removeClientRole" => Effect(d, m) = [d EXCEPT !.clients = [d.clients EXCEPT ![m.client].roles = @ \ {m.role}]]
    BY DEF Effect
  <2> QED BY <1>1, <2>1
<1>c16. m.command = "deleteClient" => Effect(d, m) = Doc(WithoutKey(d.clients, m.client), [g \in DOMAIN d.groups |-> [d.groups[g] EXCEPT !.clients = @ \ {m.client}]], d.roles, d.open, d.anonymous)
  <2>1. SetClients(Doc(d.clients, d.groups, d.roles, d.open, d.anonymous), WithoutKey(d.clients, m.client))
          = Doc(WithoutKey(d.clients, m.client), d.groups, d.roles, d.open, d.anonymous)
    BY DocExcept
  <2>2. SetGroups(Doc(WithoutKey(d.clients, m.client), d.groups, d.roles, d.open, d.anonymous), [g \in DOMAIN d.groups |-> [d.groups[g] EXCEPT !.clients = @ \ {m.client}]])
          = Doc(WithoutKey(d.clients, m.client), [g \in DOMAIN d.groups |-> [d.groups[g] EXCEPT !.clients = @ \ {m.client}]], d.roles, d.open, d.anonymous)
    BY DocExcept
  <2>e. m.command = "deleteClient" => Effect(d, m) = SetGroups(SetClients(d, WithoutKey(d.clients, m.client)), [g \in DOMAIN d.groups |-> [d.groups[g] EXCEPT !.clients = @ \ {m.client}]])
    BY Zenon DEF Effect, SetClients, SetGroups, SetRoles, SetAnonymous
  <2> QED BY <1>0, <2>e, <2>1, <2>2 DEF Same
<1>c17. m.command = "setDefaultACLAccess" => Effect(d, m) = Doc(d.clients, d.groups, d.roles, m.open, d.anonymous)
  <2>1. m.command = "setDefaultACLAccess" => Effect(d, m) = [d EXCEPT !.open = m.open]
    BY DEF Effect
  <2> QED BY <1>1, <2>1
<1>c18. m.command = "setAnonymousGroup" => Effect(d, m) = Doc(d.clients, d.groups, d.roles, d.open, m.group)
  <2>1. m.command = "setAnonymousGroup" => Effect(d, m) = [d EXCEPT !.anonymous = m.group]
    BY DEF Effect
  <2> QED BY <1>1, <2>1
<1> QED BY <1>c1, <1>c2, <1>c3, <1>c4, <1>c5, <1>c6, <1>c7, <1>c8, <1>c9, <1>c10, <1>c11, <1>c12, <1>c13, <1>c14, <1>c15, <1>c16, <1>c17, <1>c18

\* A command that is not refused turns a document into a document.
LEMMA EffectType ==
    ASSUME NEW d \in Database, NEW m \in Command, ~Refused(d, m)
    PROVE  Effect(d, m) \in Database
<1>d. /\ d.clients \in Clients /\ d.groups \in Groups /\ d.roles \in Roles
      /\ d.open \in BOOLEAN /\ d.anonymous \in Group \cup {NoGroup}
  BY DocType
<1>e. /\ \A c \in DOMAIN d.clients : d.clients[c] \in ClientRecord
      /\ \A g \in DOMAIN d.groups : d.groups[g] \in GroupRecord
      /\ \A r \in DOMAIN d.roles : d.roles[r] \in Entries
  BY <1>d, ClientPart, GroupPart, RolePart
<1>c1. CASE m.command = "createRole"
  <2>1. Effect(d, m) = Doc(d.clients, d.groups, WithKey(d.roles, m.role, m.acls), d.open, d.anonymous)
    BY <1>c1, EffectParts
  <2>tr. WithKey(d.roles, m.role, m.acls) \in Roles
    <3>1. m.acls \in Entries
      BY <1>c1, CommandArguments DEF Entry
    <3>2. m.role \in Role
      BY <1>c1, CommandArguments
    <3> QED BY <1>d, <3>1, <3>2, MapChanges DEF Roles
  <2> QED BY <1>d, <2>1, <2>tr, DocType
<1>c2. CASE m.command = "addRoleACL"
  <2>1. Effect(d, m) = Doc(d.clients, d.groups, [d.roles EXCEPT ![m.role] = WithKey(d.roles[m.role], m.topic, m.acl)], d.open, d.anonymous)
    BY <1>c2, EffectParts
  <2>tr. [d.roles EXCEPT ![m.role] = WithKey(d.roles[m.role], m.topic, m.acl)] \in Roles
    <3>1. m.role \in DOMAIN d.roles /\ m.role \in Role /\ d.roles[m.role] \in Entries
      BY <1>e, <1>c2, CommandArguments DEF Refused
    <3>2. WithKey(d.roles[m.role], m.topic, m.acl) \in Entries
      BY <3>1, <1>c2, CommandArguments, MapChanges DEF Entries, Entry
    <3> QED BY <1>d, <3>1, <3>2, MapChanges DEF Roles
  <2> QED BY <1>d, <2>1, <2>tr, DocType
<1>c3. CASE m.command = "removeRoleACL"
  <2>1. Effect(d, m) = Doc(d.clients, d.groups, [d.roles EXCEPT ![m.role] = WithoutKey(d.roles[m.role], m.topic)], d.open, d.anonymous)
    BY <1>c3, EffectParts
  <2>tr. [d.roles EXCEPT ![m.role] = WithoutKey(d.roles[m.role], m.topic)] \in Roles
    <3>1. m.role \in DOMAIN d.roles /\ m.role \in Role /\ d.roles[m.role] \in Entries
      BY <1>e, <1>c3, CommandArguments DEF Refused
    <3>2. WithoutKey(d.roles[m.role], m.topic) \in Entries
      BY <3>1, <1>c3, CommandArguments, MapChanges DEF Entries, Entry
    <3> QED BY <1>d, <3>1, <3>2, MapChanges DEF Roles
  <2> QED BY <1>d, <2>1, <2>tr, DocType
<1>c4. CASE m.command = "deleteRole"
  <2>1. Effect(d, m) = Doc([c \in DOMAIN d.clients |-> [d.clients[c] EXCEPT !.roles = @ \ {m.role}]], [g \in DOMAIN d.groups |-> [d.groups[g] EXCEPT !.roles = @ \ {m.role}]], WithoutKey(d.roles, m.role), d.open, d.anonymous)
    BY <1>c4, EffectParts
  <2>tr. WithoutKey(d.roles, m.role) \in Roles
    BY <1>d, <1>c4, CommandArguments, MapChanges DEF Roles
  <2>tc. [c \in DOMAIN d.clients |-> [d.clients[c] EXCEPT !.roles = @ \ {m.role}]] \in Clients
    <3>1. [c \in DOMAIN d.clients |-> [d.clients[c] EXCEPT !.roles = @ \ {m.role}]] \in [DOMAIN d.clients -> ClientRecord]
      BY <1>e DEF ClientRecord
    <3>2. DOMAIN d.clients \in SUBSET Client
      BY <1>d, ClientPart
    <3> QED BY <3>1, <3>2, MapsFacts DEF Clients
  <2>tg. [g \in DOMAIN d.groups |-> [d.groups[g] EXCEPT !.roles = @ \ {m.role}]] \in Groups
    <3>1. [g \in DOMAIN d.groups |-> [d.groups[g] EXCEPT !.roles = @ \ {m.role}]] \in [DOMAIN d.groups -> GroupRecord]
      BY <1>e DEF GroupRecord
    <3>2. DOMAIN d.groups \in SUBSET Group
      BY <1>d, GroupPart
    <3> QED BY <3>1, <3>2, MapsFacts DEF Groups
  <2> QED BY <1>d, <2>1, <2>tr, <2>tc, <2>tg, DocType
<1>c5. CASE m.command = "createGroup"
  <2>1. Effect(d, m) = Doc(d.clients, WithKey(d.groups, m.group, [roles |-> m.roles, clients |-> {}]), d.roles, d.open, d.anonymous)
    BY <1>c5, EffectParts
  <2>tg. WithKey(d.groups, m.group, [roles |-> m.roles, clients |-> {}]) \in Groups
    <3>1. [roles |-> m.roles, clients |-> {}] \in GroupRecord
      BY <1>c5, CommandArguments DEF GroupRecord
    <3>2. m.group \in Group
      BY <1>c5, CommandArguments
    <3> QED BY <1>d, <3>1, <3>2, MapChanges DEF Groups
  <2> QED BY <1>d, <2>1, <2>tg, DocType
<1>c6. CASE m.command = "deleteGroup"
  <2>1. Effect(d, m) = Doc(d.clients, WithoutKey(d.groups, m.group), d.roles, d.open, (IF d.anonymous = m.group THEN NoGroup ELSE d.anonymous))
    BY <1>c6, EffectParts
  <2>tg. WithoutKey(d.groups, m.group) \in Groups
    BY <1>d, <1>c6, CommandArguments, MapChanges DEF Groups
  <2>ta. (IF d.anonymous = m.group THEN NoGroup ELSE d.anonymous) \in Group \cup {NoGroup}
    BY <1>d, <1>c6, CommandArguments
  <2> QED BY <1>d, <2>1, <2>tg, <2>ta, DocType
<1>c7. CASE m.command = "addGroupRole"
  <2>1. Effect(d, m) = Doc(d.clients, [d.groups EXCEPT ![m.group].roles = @ \cup {m.role}], d.roles, d.open, d.anonymous)
    BY <1>c7, EffectParts
  <2>tg. [d.groups EXCEPT ![m.group].roles = @ \cup {m.role}] \in Groups
    <3>1. m.group \in DOMAIN d.groups /\ m.group \in Group /\ d.groups[m.group] \in GroupRecord
      BY <1>e, <1>c7, CommandArguments DEF Refused
    <3>2. [d.groups[m.group] EXCEPT !.roles = d.groups[m.group].roles \cup {m.role}] \in GroupRecord
      BY <3>1, <1>c7, CommandArguments DEF GroupRecord
    <3>3. [d.groups EXCEPT ![m.group].roles = @ \cup {m.role}] = [d.groups EXCEPT ![m.group] = [d.groups[m.group] EXCEPT !.roles = d.groups[m.group].roles \cup {m.role}]]
      OBVIOUS
    <3> QED BY <1>d, <3>1, <3>2, <3>3, MapChanges DEF Groups
  <2> QED BY <1>d, <2>1, <2>tg, DocType
<1>c8. CASE m.command = "removeGroupRole"
  <2>1. Effect(d, m) = Doc(d.clients, [d.groups EXCEPT ![m.group].roles = @ \ {m.role}], d.roles, d.open, d.anonymous)
    BY <1>c8, EffectParts
  <2>tg. [d.groups EXCEPT ![m.group].roles = @ \ {m.role}] \in Groups
    <3>1. m.group \in DOMAIN d.groups /\ m.group \in Group /\ d.groups[m.group] \in GroupRecord
      BY <1>e, <1>c8, CommandArguments DEF Refused
    <3>2. [d.groups[m.group] EXCEPT !.roles = d.groups[m.group].roles \ {m.role}] \in GroupRecord
      BY <3>1, <1>c8, CommandArguments DEF GroupRecord
    <3>3. [d.groups EXCEPT ![m.group].roles = @ \ {m.role}] = [d.groups EXCEPT ![m.group] = [d.groups[m.group] EXCEPT !.roles = d.groups[m.group].roles \ {m.role}]]
      OBVIOUS
    <3> QED BY <1>d, <3>1, <3>2, <3>3, MapChanges DEF Groups
  <2> QED BY <1>d, <2>1, <2>tg, DocType
<1>c9. CASE m.command = "addGroupClient"
  <2>1. Effect(d, m) = Doc(d.clients, [d.groups EXCEPT ![m.group].clients = @ \cup {m.client}], d.roles, d.open, d.anonymous)
    BY <1>c9, EffectParts
  <2>tg. [d.groups EXCEPT ![m.group].clients = @ \cup {m.client}] \in Groups
    <3>1. m.group \in DOMAIN d.groups /\ m.group \in Group /\ d.groups[m.group] \in GroupRecord
      BY <1>e, <1>c9, CommandArguments DEF Refused
    <3>2. [d.groups[m.group] EXCEPT !.clients = d.groups[m.group].clients \cup {m.client}] \in GroupRecord
      BY <3>1, <1>c9, CommandArguments DEF GroupRecord
    <3>3. [d.groups EXCEPT ![m.group].clients = @ \cup {m.client}] = [d.groups EXCEPT ![m.group] = [d.groups[m.group] EXCEPT !.clients = d.groups[m.group].clients \cup {m.client}]]
      OBVIOUS
    <3> QED BY <1>d, <3>1, <3>2, <3>3, MapChanges DEF Groups
  <2> QED BY <1>d, <2>1, <2>tg, DocType
<1>c10. CASE m.command = "removeGroupClient"
  <2>1. Effect(d, m) = Doc(d.clients, [d.groups EXCEPT ![m.group].clients = @ \ {m.client}], d.roles, d.open, d.anonymous)
    BY <1>c10, EffectParts
  <2>tg. [d.groups EXCEPT ![m.group].clients = @ \ {m.client}] \in Groups
    <3>1. m.group \in DOMAIN d.groups /\ m.group \in Group /\ d.groups[m.group] \in GroupRecord
      BY <1>e, <1>c10, CommandArguments DEF Refused
    <3>2. [d.groups[m.group] EXCEPT !.clients = d.groups[m.group].clients \ {m.client}] \in GroupRecord
      BY <3>1, <1>c10, CommandArguments DEF GroupRecord
    <3>3. [d.groups EXCEPT ![m.group].clients = @ \ {m.client}] = [d.groups EXCEPT ![m.group] = [d.groups[m.group] EXCEPT !.clients = d.groups[m.group].clients \ {m.client}]]
      OBVIOUS
    <3> QED BY <1>d, <3>1, <3>2, <3>3, MapChanges DEF Groups
  <2> QED BY <1>d, <2>1, <2>tg, DocType
<1>c11. CASE m.command = "createClient"
  <2>1. Effect(d, m) = Doc(WithKey(d.clients, m.client, [roles |-> m.roles, groups |-> {}, disabled |-> FALSE, password |-> m.password]), d.groups, d.roles, d.open, d.anonymous)
    BY <1>c11, EffectParts
  <2>tc. WithKey(d.clients, m.client, [roles |-> m.roles, groups |-> {}, disabled |-> FALSE, password |-> m.password]) \in Clients
    <3>1. [roles |-> m.roles, groups |-> {}, disabled |-> FALSE, password |-> m.password] \in ClientRecord
      BY <1>c11, CommandArguments DEF ClientRecord
    <3>2. m.client \in Client
      BY <1>c11, CommandArguments
    <3> QED BY <1>d, <3>1, <3>2, MapChanges DEF Clients
  <2> QED BY <1>d, <2>1, <2>tc, DocType
<1>c12. CASE m.command = "setClientPassword"
  <2>1. Effect(d, m) = Doc([d.clients EXCEPT ![m.client].password = m.password], d.groups, d.roles, d.open, d.anonymous)
    BY <1>c12, EffectParts
  <2>tc. [d.clients EXCEPT ![m.client].password = m.password] \in Clients
    <3>1. m.client \in DOMAIN d.clients /\ m.client \in Client /\ d.clients[m.client] \in ClientRecord
      BY <1>e, <1>c12, CommandArguments DEF Refused
    <3>2. [d.clients[m.client] EXCEPT !.password = m.password] \in ClientRecord
      BY <3>1, <1>c12, CommandArguments DEF ClientRecord
    <3>3. [d.clients EXCEPT ![m.client].password = m.password] = [d.clients EXCEPT ![m.client] = [d.clients[m.client] EXCEPT !.password = m.password]]
      OBVIOUS
    <3> QED BY <1>d, <3>1, <3>2, <3>3, MapChanges DEF Clients
  <2> QED BY <1>d, <2>1, <2>tc, DocType
<1>c13. CASE m.command = "setClientDisabled"
  <2>1. Effect(d, m) = Doc([d.clients EXCEPT ![m.client].disabled = m.disabled], d.groups, d.roles, d.open, d.anonymous)
    BY <1>c13, EffectParts
  <2>tc. [d.clients EXCEPT ![m.client].disabled = m.disabled] \in Clients
    <3>1. m.client \in DOMAIN d.clients /\ m.client \in Client /\ d.clients[m.client] \in ClientRecord
      BY <1>e, <1>c13, CommandArguments DEF Refused
    <3>2. [d.clients[m.client] EXCEPT !.disabled = m.disabled] \in ClientRecord
      BY <3>1, <1>c13, CommandArguments DEF ClientRecord
    <3>3. [d.clients EXCEPT ![m.client].disabled = m.disabled] = [d.clients EXCEPT ![m.client] = [d.clients[m.client] EXCEPT !.disabled = m.disabled]]
      OBVIOUS
    <3> QED BY <1>d, <3>1, <3>2, <3>3, MapChanges DEF Clients
  <2> QED BY <1>d, <2>1, <2>tc, DocType
<1>c14. CASE m.command = "addClientRole"
  <2>1. Effect(d, m) = Doc([d.clients EXCEPT ![m.client].roles = @ \cup {m.role}], d.groups, d.roles, d.open, d.anonymous)
    BY <1>c14, EffectParts
  <2>tc. [d.clients EXCEPT ![m.client].roles = @ \cup {m.role}] \in Clients
    <3>1. m.client \in DOMAIN d.clients /\ m.client \in Client /\ d.clients[m.client] \in ClientRecord
      BY <1>e, <1>c14, CommandArguments DEF Refused
    <3>2. [d.clients[m.client] EXCEPT !.roles = d.clients[m.client].roles \cup {m.role}] \in ClientRecord
      BY <3>1, <1>c14, CommandArguments DEF ClientRecord
    <3>3. [d.clients EXCEPT ![m.client].roles = @ \cup {m.role}] = [d.clients EXCEPT ![m.client] = [d.clients[m.client] EXCEPT !.roles = d.clients[m.client].roles \cup {m.role}]]
      OBVIOUS
    <3> QED BY <1>d, <3>1, <3>2, <3>3, MapChanges DEF Clients
  <2> QED BY <1>d, <2>1, <2>tc, DocType
<1>c15. CASE m.command = "removeClientRole"
  <2>1. Effect(d, m) = Doc([d.clients EXCEPT ![m.client].roles = @ \ {m.role}], d.groups, d.roles, d.open, d.anonymous)
    BY <1>c15, EffectParts
  <2>tc. [d.clients EXCEPT ![m.client].roles = @ \ {m.role}] \in Clients
    <3>1. m.client \in DOMAIN d.clients /\ m.client \in Client /\ d.clients[m.client] \in ClientRecord
      BY <1>e, <1>c15, CommandArguments DEF Refused
    <3>2. [d.clients[m.client] EXCEPT !.roles = d.clients[m.client].roles \ {m.role}] \in ClientRecord
      BY <3>1, <1>c15, CommandArguments DEF ClientRecord
    <3>3. [d.clients EXCEPT ![m.client].roles = @ \ {m.role}] = [d.clients EXCEPT ![m.client] = [d.clients[m.client] EXCEPT !.roles = d.clients[m.client].roles \ {m.role}]]
      OBVIOUS
    <3> QED BY <1>d, <3>1, <3>2, <3>3, MapChanges DEF Clients
  <2> QED BY <1>d, <2>1, <2>tc, DocType
<1>c16. CASE m.command = "deleteClient"
  <2>1. Effect(d, m) = Doc(WithoutKey(d.clients, m.client), [g \in DOMAIN d.groups |-> [d.groups[g] EXCEPT !.clients = @ \ {m.client}]], d.roles, d.open, d.anonymous)
    BY <1>c16, EffectParts
  <2>tc. WithoutKey(d.clients, m.client) \in Clients
    BY <1>d, <1>c16, CommandArguments, MapChanges DEF Clients
  <2>tg. [g \in DOMAIN d.groups |-> [d.groups[g] EXCEPT !.clients = @ \ {m.client}]] \in Groups
    <3>1. [g \in DOMAIN d.groups |-> [d.groups[g] EXCEPT !.clients = @ \ {m.client}]] \in [DOMAIN d.groups -> GroupRecord]
      BY <1>e DEF GroupRecord
    <3>2. DOMAIN d.groups \in SUBSET Group
      BY <1>d, GroupPart
    <3> QED BY <3>1, <3>2, MapsFacts DEF Groups
  <2> QED BY <1>d, <2>1, <2>tc, <2>tg, DocType
<1>c17. CASE m.command = "setDefaultACLAccess"
  <2>1. Effect(d, m) = Doc(d.clients, d.groups, d.roles, m.open, d.anonymous)
    BY <1>c17, EffectParts
  <2>to. m.open \in BOOLEAN
    BY <1>d, <1>c17, CommandArguments
  <2> QED BY <1>d, <2>1, <2>to, DocType
<1>c18. CASE m.command = "setAnonymousGroup"
  <2>1. Effect(d, m) = Doc(d.clients, d.groups, d.roles, d.open, m.group)
    BY <1>c18, EffectParts
  <2>ta. m.group \in Group \cup {NoGroup}
    BY <1>d, <1>c18, CommandArguments
  <2> QED BY <1>d, <2>1, <2>ta, DocType
<1> QED BY CommandArguments, <1>c1, <1>c2, <1>c3, <1>c4, <1>c5, <1>c6, <1>c7, <1>c8, <1>c9, <1>c10, <1>c11, <1>c12, <1>c13, <1>c14, <1>c15, <1>c16, <1>c17, <1>c18

\* The same, part by part.
ClientsAfter(cs, m) ==
    CASE m.command = "deleteRole" -> [c \in DOMAIN cs |-> [cs[c] EXCEPT !.roles = @ \ {m.role}]]
      [] m.command = "createClient" -> WithKey(cs, m.client, [roles |-> m.roles, groups |-> {}, disabled |-> FALSE, password |-> m.password])
      [] m.command = "setClientPassword" -> [cs EXCEPT ![m.client].password = m.password]
      [] m.command = "setClientDisabled" -> [cs EXCEPT ![m.client].disabled = m.disabled]
      [] m.command = "addClientRole" -> [cs EXCEPT ![m.client].roles = @ \cup {m.role}]
      [] m.command = "removeClientRole" -> [cs EXCEPT ![m.client].roles = @ \ {m.role}]
      [] m.command = "deleteClient" -> WithoutKey(cs, m.client)
      [] OTHER -> cs
GroupsAfter(gs, m) ==
    CASE m.command = "deleteRole" -> [g \in DOMAIN gs |-> [gs[g] EXCEPT !.roles = @ \ {m.role}]]
      [] m.command = "createGroup" -> WithKey(gs, m.group, [roles |-> m.roles, clients |-> {}])
      [] m.command = "deleteGroup" -> WithoutKey(gs, m.group)
      [] m.command = "addGroupRole" -> [gs EXCEPT ![m.group].roles = @ \cup {m.role}]
      [] m.command = "removeGroupRole" -> [gs EXCEPT ![m.group].roles = @ \ {m.role}]
      [] m.command = "addGroupClient" -> [gs EXCEPT ![m.group].clients = @ \cup {m.client}]
      [] m.command = "removeGroupClient" -> [gs EXCEPT ![m.group].clients = @ \ {m.client}]
      [] m.command = "deleteClient" -> [g \in DOMAIN gs |-> [gs[g] EXCEPT !.clients = @ \ {m.client}]]
      [] OTHER -> gs
RolesAfter(rs, m) ==
    CASE m.command = "createRole" -> WithKey(rs, m.role, m.acls)
      [] m.command = "addRoleACL" -> [rs EXCEPT ![m.role] = WithKey(rs[m.role], m.topic, m.acl)]
      [] m.command = "removeRoleACL" -> [rs EXCEPT ![m.role] = WithoutKey(rs[m.role], m.topic)]
      [] m.command = "deleteRole" -> WithoutKey(rs, m.role)
      [] OTHER -> rs
OpenAfter(o, m) ==
    CASE m.command = "setDefaultACLAccess" -> m.open
      [] OTHER -> o
AnonymousAfter(a, m) ==
    CASE m.command = "deleteGroup" -> (IF a = m.group THEN NoGroup ELSE a)
      [] m.command = "setAnonymousGroup" -> m.group
      [] OTHER -> a

\* Effect, part by part of the document.
LEMMA EffectSplit ==
    ASSUME NEW d \in Database, NEW m \in Command
    PROVE  Effect(d, m) = Doc(ClientsAfter(d.clients, m), GroupsAfter(d.groups, m), RolesAfter(d.roles, m), OpenAfter(d.open, m), AnonymousAfter(d.anonymous, m))
<1>c1. CASE m.command = "createRole"
  <2>1. /\ ClientsAfter(d.clients, m) = d.clients
        /\ GroupsAfter(d.groups, m) = d.groups
        /\ RolesAfter(d.roles, m) = WithKey(d.roles, m.role, m.acls)
        /\ OpenAfter(d.open, m) = d.open
        /\ AnonymousAfter(d.anonymous, m) = d.anonymous
    BY <1>c1 DEF ClientsAfter, GroupsAfter, RolesAfter, OpenAfter, AnonymousAfter
  <2>2. Effect(d, m) = Doc(d.clients, d.groups, WithKey(d.roles, m.role, m.acls), d.open, d.anonymous)
    BY <1>c1, EffectParts
  <2> QED BY <2>1, <2>2
<1>c2. CASE m.command = "addRoleACL"
  <2>1. /\ ClientsAfter(d.clients, m) = d.clients
        /\ GroupsAfter(d.groups, m) = d.groups
        /\ RolesAfter(d.roles, m) = [d.roles EXCEPT ![m.role] = WithKey(d.roles[m.role], m.topic, m.acl)]
        /\ OpenAfter(d.open, m) = d.open
        /\ AnonymousAfter(d.anonymous, m) = d.anonymous
    BY <1>c2 DEF ClientsAfter, GroupsAfter, RolesAfter, OpenAfter, AnonymousAfter
  <2>2. Effect(d, m) = Doc(d.clients, d.groups, [d.roles EXCEPT ![m.role] = WithKey(d.roles[m.role], m.topic, m.acl)], d.open, d.anonymous)
    BY <1>c2, EffectParts
  <2> QED BY <2>1, <2>2
<1>c3. CASE m.command = "removeRoleACL"
  <2>1. /\ ClientsAfter(d.clients, m) = d.clients
        /\ GroupsAfter(d.groups, m) = d.groups
        /\ RolesAfter(d.roles, m) = [d.roles EXCEPT ![m.role] = WithoutKey(d.roles[m.role], m.topic)]
        /\ OpenAfter(d.open, m) = d.open
        /\ AnonymousAfter(d.anonymous, m) = d.anonymous
    BY <1>c3 DEF ClientsAfter, GroupsAfter, RolesAfter, OpenAfter, AnonymousAfter
  <2>2. Effect(d, m) = Doc(d.clients, d.groups, [d.roles EXCEPT ![m.role] = WithoutKey(d.roles[m.role], m.topic)], d.open, d.anonymous)
    BY <1>c3, EffectParts
  <2> QED BY <2>1, <2>2
<1>c4. CASE m.command = "deleteRole"
  <2>1. /\ ClientsAfter(d.clients, m) = [c \in DOMAIN d.clients |-> [d.clients[c] EXCEPT !.roles = @ \ {m.role}]]
        /\ GroupsAfter(d.groups, m) = [g \in DOMAIN d.groups |-> [d.groups[g] EXCEPT !.roles = @ \ {m.role}]]
        /\ RolesAfter(d.roles, m) = WithoutKey(d.roles, m.role)
        /\ OpenAfter(d.open, m) = d.open
        /\ AnonymousAfter(d.anonymous, m) = d.anonymous
    BY <1>c4 DEF ClientsAfter, GroupsAfter, RolesAfter, OpenAfter, AnonymousAfter
  <2>2. Effect(d, m) = Doc([c \in DOMAIN d.clients |-> [d.clients[c] EXCEPT !.roles = @ \ {m.role}]], [g \in DOMAIN d.groups |-> [d.groups[g] EXCEPT !.roles = @ \ {m.role}]], WithoutKey(d.roles, m.role), d.open, d.anonymous)
    BY <1>c4, EffectParts
  <2> QED BY <2>1, <2>2
<1>c5. CASE m.command = "createGroup"
  <2>1. /\ ClientsAfter(d.clients, m) = d.clients
        /\ GroupsAfter(d.groups, m) = WithKey(d.groups, m.group, [roles |-> m.roles, clients |-> {}])
        /\ RolesAfter(d.roles, m) = d.roles
        /\ OpenAfter(d.open, m) = d.open
        /\ AnonymousAfter(d.anonymous, m) = d.anonymous
    BY <1>c5 DEF ClientsAfter, GroupsAfter, RolesAfter, OpenAfter, AnonymousAfter
  <2>2. Effect(d, m) = Doc(d.clients, WithKey(d.groups, m.group, [roles |-> m.roles, clients |-> {}]), d.roles, d.open, d.anonymous)
    BY <1>c5, EffectParts
  <2> QED BY <2>1, <2>2
<1>c6. CASE m.command = "deleteGroup"
  <2>1. /\ ClientsAfter(d.clients, m) = d.clients
        /\ GroupsAfter(d.groups, m) = WithoutKey(d.groups, m.group)
        /\ RolesAfter(d.roles, m) = d.roles
        /\ OpenAfter(d.open, m) = d.open
        /\ AnonymousAfter(d.anonymous, m) = (IF d.anonymous = m.group THEN NoGroup ELSE d.anonymous)
    BY <1>c6 DEF ClientsAfter, GroupsAfter, RolesAfter, OpenAfter, AnonymousAfter
  <2>2. Effect(d, m) = Doc(d.clients, WithoutKey(d.groups, m.group), d.roles, d.open, (IF d.anonymous = m.group THEN NoGroup ELSE d.anonymous))
    BY <1>c6, EffectParts
  <2> QED BY <2>1, <2>2
<1>c7. CASE m.command = "addGroupRole"
  <2>1. /\ ClientsAfter(d.clients, m) = d.clients
        /\ GroupsAfter(d.groups, m) = [d.groups EXCEPT ![m.group].roles = @ \cup {m.role}]
        /\ RolesAfter(d.roles, m) = d.roles
        /\ OpenAfter(d.open, m) = d.open
        /\ AnonymousAfter(d.anonymous, m) = d.anonymous
    BY <1>c7 DEF ClientsAfter, GroupsAfter, RolesAfter, OpenAfter, AnonymousAfter
  <2>2. Effect(d, m) = Doc(d.clients, [d.groups EXCEPT ![m.group].roles = @ \cup {m.role}], d.roles, d.open, d.anonymous)
    BY <1>c7, EffectParts
  <2> QED BY <2>1, <2>2
<1>c8. CASE m.command = "removeGroupRole"
  <2>1. /\ ClientsAfter(d.clients, m) = d.clients
        /\ GroupsAfter(d.groups, m) = [d.groups EXCEPT ![m.group].roles = @ \ {m.role}]
        /\ RolesAfter(d.roles, m) = d.roles
        /\ OpenAfter(d.open, m) = d.open
        /\ AnonymousAfter(d.anonymous, m) = d.anonymous
    BY <1>c8 DEF ClientsAfter, GroupsAfter, RolesAfter, OpenAfter, AnonymousAfter
  <2>2. Effect(d, m) = Doc(d.clients, [d.groups EXCEPT ![m.group].roles = @ \ {m.role}], d.roles, d.open, d.anonymous)
    BY <1>c8, EffectParts
  <2> QED BY <2>1, <2>2
<1>c9. CASE m.command = "addGroupClient"
  <2>1. /\ ClientsAfter(d.clients, m) = d.clients
        /\ GroupsAfter(d.groups, m) = [d.groups EXCEPT ![m.group].clients = @ \cup {m.client}]
        /\ RolesAfter(d.roles, m) = d.roles
        /\ OpenAfter(d.open, m) = d.open
        /\ AnonymousAfter(d.anonymous, m) = d.anonymous
    BY <1>c9 DEF ClientsAfter, GroupsAfter, RolesAfter, OpenAfter, AnonymousAfter
  <2>2. Effect(d, m) = Doc(d.clients, [d.groups EXCEPT ![m.group].clients = @ \cup {m.client}], d.roles, d.open, d.anonymous)
    BY <1>c9, EffectParts
  <2> QED BY <2>1, <2>2
<1>c10. CASE m.command = "removeGroupClient"
  <2>1. /\ ClientsAfter(d.clients, m) = d.clients
        /\ GroupsAfter(d.groups, m) = [d.groups EXCEPT ![m.group].clients = @ \ {m.client}]
        /\ RolesAfter(d.roles, m) = d.roles
        /\ OpenAfter(d.open, m) = d.open
        /\ AnonymousAfter(d.anonymous, m) = d.anonymous
    BY <1>c10 DEF ClientsAfter, GroupsAfter, RolesAfter, OpenAfter, AnonymousAfter
  <2>2. Effect(d, m) = Doc(d.clients, [d.groups EXCEPT ![m.group].clients = @ \ {m.client}], d.roles, d.open, d.anonymous)
    BY <1>c10, EffectParts
  <2> QED BY <2>1, <2>2
<1>c11. CASE m.command = "createClient"
  <2>1. /\ ClientsAfter(d.clients, m) = WithKey(d.clients, m.client, [roles |-> m.roles, groups |-> {}, disabled |-> FALSE, password |-> m.password])
        /\ GroupsAfter(d.groups, m) = d.groups
        /\ RolesAfter(d.roles, m) = d.roles
        /\ OpenAfter(d.open, m) = d.open
        /\ AnonymousAfter(d.anonymous, m) = d.anonymous
    BY <1>c11 DEF ClientsAfter, GroupsAfter, RolesAfter, OpenAfter, AnonymousAfter
  <2>2. Effect(d, m) = Doc(WithKey(d.clients, m.client, [roles |-> m.roles, groups |-> {}, disabled |-> FALSE, password |-> m.password]), d.groups, d.roles, d.open, d.anonymous)
    BY <1>c11, EffectParts
  <2> QED BY <2>1, <2>2
<1>c12. CASE m.command = "setClientPassword"
  <2>1. /\ ClientsAfter(d.clients, m) = [d.clients EXCEPT ![m.client].password = m.password]
        /\ GroupsAfter(d.groups, m) = d.groups
        /\ RolesAfter(d.roles, m) = d.roles
        /\ OpenAfter(d.open, m) = d.open
        /\ AnonymousAfter(d.anonymous, m) = d.anonymous
    BY <1>c12 DEF ClientsAfter, GroupsAfter, RolesAfter, OpenAfter, AnonymousAfter
  <2>2. Effect(d, m) = Doc([d.clients EXCEPT ![m.client].password = m.password], d.groups, d.roles, d.open, d.anonymous)
    BY <1>c12, EffectParts
  <2> QED BY <2>1, <2>2
<1>c13. CASE m.command = "setClientDisabled"
  <2>1. /\ ClientsAfter(d.clients, m) = [d.clients EXCEPT ![m.client].disabled = m.disabled]
        /\ GroupsAfter(d.groups, m) = d.groups
        /\ RolesAfter(d.roles, m) = d.roles
        /\ OpenAfter(d.open, m) = d.open
        /\ AnonymousAfter(d.anonymous, m) = d.anonymous
    BY <1>c13 DEF ClientsAfter, GroupsAfter, RolesAfter, OpenAfter, AnonymousAfter
  <2>2. Effect(d, m) = Doc([d.clients EXCEPT ![m.client].disabled = m.disabled], d.groups, d.roles, d.open, d.anonymous)
    BY <1>c13, EffectParts
  <2> QED BY <2>1, <2>2
<1>c14. CASE m.command = "addClientRole"
  <2>1. /\ ClientsAfter(d.clients, m) = [d.clients EXCEPT ![m.client].roles = @ \cup {m.role}]
        /\ GroupsAfter(d.groups, m) = d.groups
        /\ RolesAfter(d.roles, m) = d.roles
        /\ OpenAfter(d.open, m) = d.open
        /\ AnonymousAfter(d.anonymous, m) = d.anonymous
    BY <1>c14 DEF ClientsAfter, GroupsAfter, RolesAfter, OpenAfter, AnonymousAfter
  <2>2. Effect(d, m) = Doc([d.clients EXCEPT ![m.client].roles = @ \cup {m.role}], d.groups, d.roles, d.open, d.anonymous)
    BY <1>c14, EffectParts
  <2> QED BY <2>1, <2>2
<1>c15. CASE m.command = "removeClientRole"
  <2>1. /\ ClientsAfter(d.clients, m) = [d.clients EXCEPT ![m.client].roles = @ \ {m.role}]
        /\ GroupsAfter(d.groups, m) = d.groups
        /\ RolesAfter(d.roles, m) = d.roles
        /\ OpenAfter(d.open, m) = d.open
        /\ AnonymousAfter(d.anonymous, m) = d.anonymous
    BY <1>c15 DEF ClientsAfter, GroupsAfter, RolesAfter, OpenAfter, AnonymousAfter
  <2>2. Effect(d, m) = Doc([d.clients EXCEPT ![m.client].roles = @ \ {m.role}], d.groups, d.roles, d.open, d.anonymous)
    BY <1>c15, EffectParts
  <2> QED BY <2>1, <2>2
<1>c16. CASE m.command = "deleteClient"
  <2>1. /\ ClientsAfter(d.clients, m) = WithoutKey(d.clients, m.client)
        /\ GroupsAfter(d.groups, m) = [g \in DOMAIN d.groups |-> [d.groups[g] EXCEPT !.clients = @ \ {m.client}]]
        /\ RolesAfter(d.roles, m) = d.roles
        /\ OpenAfter(d.open, m) = d.open
        /\ AnonymousAfter(d.anonymous, m) = d.anonymous
    BY <1>c16 DEF ClientsAfter, GroupsAfter, RolesAfter, OpenAfter, AnonymousAfter
  <2>2. Effect(d, m) = Doc(WithoutKey(d.clients, m.client), [g \in DOMAIN d.groups |-> [d.groups[g] EXCEPT !.clients = @ \ {m.client}]], d.roles, d.open, d.anonymous)
    BY <1>c16, EffectParts
  <2> QED BY <2>1, <2>2
<1>c17. CASE m.command = "setDefaultACLAccess"
  <2>1. /\ ClientsAfter(d.clients, m) = d.clients
        /\ GroupsAfter(d.groups, m) = d.groups
        /\ RolesAfter(d.roles, m) = d.roles
        /\ OpenAfter(d.open, m) = m.open
        /\ AnonymousAfter(d.anonymous, m) = d.anonymous
    BY <1>c17 DEF ClientsAfter, GroupsAfter, RolesAfter, OpenAfter, AnonymousAfter
  <2>2. Effect(d, m) = Doc(d.clients, d.groups, d.roles, m.open, d.anonymous)
    BY <1>c17, EffectParts
  <2> QED BY <2>1, <2>2
<1>c18. CASE m.command = "setAnonymousGroup"
  <2>1. /\ ClientsAfter(d.clients, m) = d.clients
        /\ GroupsAfter(d.groups, m) = d.groups
        /\ RolesAfter(d.roles, m) = d.roles
        /\ OpenAfter(d.open, m) = d.open
        /\ AnonymousAfter(d.anonymous, m) = m.group
    BY <1>c18 DEF ClientsAfter, GroupsAfter, RolesAfter, OpenAfter, AnonymousAfter
  <2>2. Effect(d, m) = Doc(d.clients, d.groups, d.roles, d.open, m.group)
    BY <1>c18, EffectParts
  <2> QED BY <2>1, <2>2
<1> QED BY CommandArguments, <1>c1, <1>c2, <1>c3, <1>c4, <1>c5, <1>c6, <1>c7, <1>c8, <1>c9, <1>c10, <1>c11, <1>c12, <1>c13, <1>c14, <1>c15, <1>c16, <1>c17, <1>c18

\* Nothing of what a command does, its password apart, depends on a password.
Fresh(R, p) == [roles |-> R, groups |-> {}, disabled |-> FALSE, password |-> p]
SetPassword(cs, x, p) == [cs EXCEPT ![x].password = p]
SetDisabled(cs, x, b) == [cs EXCEPT ![x].disabled = b]
AddRoleTo(cs, x, r) == [cs EXCEPT ![x].roles = @ \cup {r}]
RemoveRoleFrom(cs, x, r) == [cs EXCEPT ![x].roles = @ \ {r}]
RoleGone(cs, r) == [c \in DOMAIN cs |-> [cs[c] EXCEPT !.roles = @ \ {r}]]

LEMMA VeiledChanges ==
    ASSUME NEW cs \in Clients
    PROVE  /\ \A x, R, p, q : Veiled(WithKey(Veiled(cs), x, Fresh(R, q))) = Veiled(WithKey(cs, x, Fresh(R, p)))
           /\ \A x : Veiled(WithoutKey(Veiled(cs), x)) = Veiled(WithoutKey(cs, x))
           /\ \A x \in DOMAIN cs : \A p, q : Veiled(SetPassword(Veiled(cs), x, q)) = Veiled(SetPassword(cs, x, p))
           /\ \A x \in DOMAIN cs : \A b : Veiled(SetDisabled(Veiled(cs), x, b)) = Veiled(SetDisabled(cs, x, b))
           /\ \A x \in DOMAIN cs : \A r : Veiled(AddRoleTo(Veiled(cs), x, r)) = Veiled(AddRoleTo(cs, x, r))
           /\ \A x \in DOMAIN cs : \A r : Veiled(RemoveRoleFrom(Veiled(cs), x, r)) = Veiled(RemoveRoleFrom(cs, x, r))
           /\ \A r : Veiled(RoleGone(Veiled(cs), r)) = Veiled(RoleGone(cs, r))
<1>0. \A c \in DOMAIN cs : cs[c] \in ClientRecord
  BY ClientPart
<1> DEFINE V == Veiled(cs)
<1>1. DOMAIN V = DOMAIN cs /\ \A c \in DOMAIN cs : V[c] = [cs[c] EXCEPT !.password = NoPassword]
  BY DEF Veiled
<1>2. \A c \in DOMAIN cs : V[c] = [roles |-> cs[c].roles, groups |-> cs[c].groups, disabled |-> cs[c].disabled, password |-> NoPassword]
  BY <1>0, <1>1 DEF ClientRecord
<1>3. \A c \in DOMAIN cs : cs[c] = [roles |-> cs[c].roles, groups |-> cs[c].groups, disabled |-> cs[c].disabled, password |-> cs[c].password]
  BY <1>0 DEF ClientRecord
<1> HIDE DEF V

<1>4. ASSUME NEW x, NEW R, NEW p, NEW q
      PROVE  Veiled(WithKey(V, x, Fresh(R, q))) = Veiled(WithKey(cs, x, Fresh(R, p)))
  <2>1. [Fresh(R, q) EXCEPT !.password = NoPassword] = [Fresh(R, p) EXCEPT !.password = NoPassword]
    <3>1. \A y, b : [[roles |-> R, groups |-> {}, disabled |-> b, password |-> y] EXCEPT !.password = NoPassword]
                    = [roles |-> R, groups |-> {}, disabled |-> b, password |-> NoPassword]
      OBVIOUS
    <3> QED BY <3>1, Zenon DEF Fresh
  <2>2. \A c \in DOMAIN cs : [V[c] EXCEPT !.password = NoPassword] = [cs[c] EXCEPT !.password = NoPassword]
    BY <1>2, <1>3
  <2> QED BY <1>1, <2>1, <2>2 DEF Veiled, WithKey
<1>5. \A x : Veiled(WithoutKey(V, x)) = Veiled(WithoutKey(cs, x))
  BY <1>1, <1>2, <1>3 DEF Veiled, WithoutKey
<1>6. \A x \in DOMAIN cs : \A p, q : Veiled(SetPassword(V, x, q)) = Veiled(SetPassword(cs, x, p))
  BY <1>1, <1>2, <1>3 DEF Veiled, SetPassword
<1>7. \A x \in DOMAIN cs : \A b : Veiled(SetDisabled(V, x, b)) = Veiled(SetDisabled(cs, x, b))
  BY <1>1, <1>2, <1>3 DEF Veiled, SetDisabled
<1>8. \A x \in DOMAIN cs : \A r : Veiled(AddRoleTo(V, x, r)) = Veiled(AddRoleTo(cs, x, r))
  BY <1>1, <1>2, <1>3 DEF Veiled, AddRoleTo
<1>9. \A x \in DOMAIN cs : \A r : Veiled(RemoveRoleFrom(V, x, r)) = Veiled(RemoveRoleFrom(cs, x, r))
  BY <1>1, <1>2, <1>3 DEF Veiled, RemoveRoleFrom
<1>10. \A r : Veiled(RoleGone(V, r)) = Veiled(RoleGone(cs, r))
  BY <1>1, <1>2, <1>3 DEF Veiled, RoleGone
<1> QED BY <1>4, <1>5, <1>6, <1>7, <1>8, <1>9, <1>10 DEF V

LEMMA BareType == \A m \in Command : Bare(m) \in Command
<1> TAKE m \in Command
<1>1. /\ m.command \notin {"createClient", "setClientPassword"} => "password" \notin DOMAIN m
      /\ m.command = "createClient" => m \in [command : {"createClient"}, client : Client, roles : SUBSET Role, password : Secret]
      /\ m.command = "setClientPassword" => m \in [command : {"setClientPassword"}, client : Client, password : Secret]
  BY DEF Command
<1>2. NoPassword \in Secret
  BY DEF Secret
<1>3. CASE m.command = "createClient"
  <2>1. Bare(m) \in [command : {"createClient"}, client : Client, roles : SUBSET Role, password : Secret]
    BY <1>1, <1>2, <1>3 DEF Bare
  <2> QED BY <2>1 DEF Command
<1>4. CASE m.command = "setClientPassword"
  <2>1. Bare(m) \in [command : {"setClientPassword"}, client : Client, password : Secret]
    BY <1>1, <1>2, <1>4 DEF Bare
  <2> QED BY <2>1 DEF Command
<1> QED BY <1>1, <1>3, <1>4 DEF Bare

LEMMA RedactedParts ==
    ASSUME NEW d \in Database
    PROVE  /\ Redacted(d) \in Database /\ Redacted(d).clients = Veiled(d.clients)
           /\ DOMAIN Redacted(d).clients = DOMAIN d.clients
           /\ Redacted(d).groups = d.groups /\ Redacted(d).roles = d.roles
           /\ Redacted(d).open = d.open /\ Redacted(d).anonymous = d.anonymous
<1>1. Redacted(d) \in Database /\ Redacted(d) = Doc(Veiled(d.clients), d.groups, d.roles, d.open, d.anonymous)
  BY DocumentViews
<1> QED BY <1>1 DEF Doc, Veiled

\* Whether a command is refused does not depend on passwords.
LEMMA RefusedAlike ==
    ASSUME NEW d \in Database, NEW m \in Command
    PROVE  Refused(d, m) <=> Refused(Redacted(d), Bare(m))
<1> DEFINE r == Redacted(d)
           b == Bare(m)
<1>1. DOMAIN r.clients = DOMAIN d.clients /\ r.groups = d.groups /\ r.roles = d.roles
  BY RedactedParts
<1>2. /\ b.command = m.command
      /\ m.command \notin {"createClient", "setClientPassword"} => b = m
      /\ m.command = "createClient" => b.client = m.client /\ b.roles = m.roles
      /\ m.command = "setClientPassword" => b.client = m.client
  BY BareArguments
<1> HIDE DEF r, b
<1>3. Refused(d, m) <=> Refused(r, m)
  BY <1>1 DEF Refused
<1>4. Refused(r, m) <=> Refused(r, b)
  BY <1>2 DEF Refused
<1> QED BY <1>3, <1>4 DEF r, b


\* What a command changes besides passwords does not depend on them.
LEMMA EffectAlike ==
    ASSUME NEW d \in Database, NEW m \in Command, ~Refused(d, m)
    PROVE  Redacted(Effect(d, m)) = Redacted(Effect(Redacted(d), Bare(m)))
<1> DEFINE r == Redacted(d)
           b == Bare(m)
<1>1. /\ r \in Database /\ r.clients = Veiled(d.clients) /\ r.groups = d.groups /\ r.roles = d.roles
      /\ r.open = d.open /\ r.anonymous = d.anonymous
  BY RedactedParts
<1>2. /\ b \in Command /\ b.command = m.command
      /\ m.command \notin {"createClient", "setClientPassword"} => b = m
      /\ m.command = "createClient" => b.client = m.client /\ b.roles = m.roles
      /\ m.command = "setClientPassword" => b.client = m.client
  BY BareArguments, BareType
<1>3. d.clients \in Clients /\ Veiled(Veiled(d.clients)) = Veiled(d.clients)
  BY DocType, ViewTypes
<1>4. m.command \in {"setClientPassword", "setClientDisabled", "addClientRole", "removeClientRole"} => m.client \in DOMAIN d.clients
  BY DEF Refused
<1> HIDE DEF r, b
<1>5. /\ Effect(d, m) = Doc(ClientsAfter(d.clients, m), GroupsAfter(d.groups, m), RolesAfter(d.roles, m), OpenAfter(d.open, m), AnonymousAfter(d.anonymous, m))
      /\ Effect(r, b) = Doc(ClientsAfter(Veiled(d.clients), b), GroupsAfter(d.groups, b), RolesAfter(d.roles, b), OpenAfter(d.open, b), AnonymousAfter(d.anonymous, b))
  BY <1>1, <1>2, EffectSplit
<1>6. /\ GroupsAfter(d.groups, m) = GroupsAfter(d.groups, b) /\ RolesAfter(d.roles, m) = RolesAfter(d.roles, b)
      /\ OpenAfter(d.open, m) = OpenAfter(d.open, b) /\ AnonymousAfter(d.anonymous, m) = AnonymousAfter(d.anonymous, b)
  <2>1. CASE m.command \in {"createClient", "setClientPassword"}
    BY <2>1, <1>2 DEF GroupsAfter, RolesAfter, OpenAfter, AnonymousAfter
  <2> QED BY <2>1, <1>2
<1>7. Veiled(ClientsAfter(d.clients, m)) = Veiled(ClientsAfter(Veiled(d.clients), b))
  <2>1. CASE m.command = "deleteRole"
    <3>1. ClientsAfter(d.clients, m) = RoleGone(d.clients, m.role)
      BY <2>1 DEF ClientsAfter, Fresh, SetPassword, SetDisabled, AddRoleTo, RemoveRoleFrom, RoleGone
    <3>2. ClientsAfter(Veiled(d.clients), b) = RoleGone(Veiled(d.clients), b.role)
      BY <2>1, <1>2 DEF ClientsAfter, Fresh, SetPassword, SetDisabled, AddRoleTo, RemoveRoleFrom, RoleGone
    <3>3. ClientsAfter(Veiled(d.clients), b) = RoleGone(Veiled(d.clients), m.role)
      BY <2>1, <1>2, <3>2
    <3> QED BY <3>1, <3>3, <2>1, <1>3, <1>4, VeiledChanges
  <2>2. CASE m.command = "createClient"
    <3>1. ClientsAfter(d.clients, m) = WithKey(d.clients, m.client, Fresh(m.roles, m.password))
      BY <2>2 DEF ClientsAfter, Fresh, SetPassword, SetDisabled, AddRoleTo, RemoveRoleFrom, RoleGone
    <3>2. ClientsAfter(Veiled(d.clients), b) = WithKey(Veiled(d.clients), b.client, Fresh(b.roles, b.password))
      BY <2>2, <1>2 DEF ClientsAfter, Fresh, SetPassword, SetDisabled, AddRoleTo, RemoveRoleFrom, RoleGone
    <3>3. ClientsAfter(Veiled(d.clients), b) = WithKey(Veiled(d.clients), m.client, Fresh(m.roles, b.password))
      BY <2>2, <1>2, <3>2
    <3> QED BY <3>1, <3>3, <2>2, <1>3, <1>4, VeiledChanges
  <2>3. CASE m.command = "setClientPassword"
    <3>1. ClientsAfter(d.clients, m) = SetPassword(d.clients, m.client, m.password)
      BY <2>3 DEF ClientsAfter, Fresh, SetPassword, SetDisabled, AddRoleTo, RemoveRoleFrom, RoleGone
    <3>2. ClientsAfter(Veiled(d.clients), b) = SetPassword(Veiled(d.clients), b.client, b.password)
      BY <2>3, <1>2 DEF ClientsAfter, Fresh, SetPassword, SetDisabled, AddRoleTo, RemoveRoleFrom, RoleGone
    <3>3. ClientsAfter(Veiled(d.clients), b) = SetPassword(Veiled(d.clients), m.client, b.password)
      BY <2>3, <1>2, <3>2
    <3> QED BY <3>1, <3>3, <2>3, <1>3, <1>4, VeiledChanges
  <2>4. CASE m.command = "setClientDisabled"
    <3>1. ClientsAfter(d.clients, m) = SetDisabled(d.clients, m.client, m.disabled)
      BY <2>4 DEF ClientsAfter, Fresh, SetPassword, SetDisabled, AddRoleTo, RemoveRoleFrom, RoleGone
    <3>2. ClientsAfter(Veiled(d.clients), b) = SetDisabled(Veiled(d.clients), b.client, b.disabled)
      BY <2>4, <1>2 DEF ClientsAfter, Fresh, SetPassword, SetDisabled, AddRoleTo, RemoveRoleFrom, RoleGone
    <3>3. ClientsAfter(Veiled(d.clients), b) = SetDisabled(Veiled(d.clients), m.client, m.disabled)
      BY <2>4, <1>2, <3>2
    <3> QED BY <3>1, <3>3, <2>4, <1>3, <1>4, VeiledChanges
  <2>5. CASE m.command = "addClientRole"
    <3>1. ClientsAfter(d.clients, m) = AddRoleTo(d.clients, m.client, m.role)
      BY <2>5 DEF ClientsAfter, Fresh, SetPassword, SetDisabled, AddRoleTo, RemoveRoleFrom, RoleGone
    <3>2. ClientsAfter(Veiled(d.clients), b) = AddRoleTo(Veiled(d.clients), b.client, b.role)
      BY <2>5, <1>2 DEF ClientsAfter, Fresh, SetPassword, SetDisabled, AddRoleTo, RemoveRoleFrom, RoleGone
    <3>3. ClientsAfter(Veiled(d.clients), b) = AddRoleTo(Veiled(d.clients), m.client, m.role)
      BY <2>5, <1>2, <3>2
    <3> QED BY <3>1, <3>3, <2>5, <1>3, <1>4, VeiledChanges
  <2>6. CASE m.command = "removeClientRole"
    <3>1. ClientsAfter(d.clients, m) = RemoveRoleFrom(d.clients, m.client, m.role)
      BY <2>6 DEF ClientsAfter, Fresh, SetPassword, SetDisabled, AddRoleTo, RemoveRoleFrom, RoleGone
    <3>2. ClientsAfter(Veiled(d.clients), b) = RemoveRoleFrom(Veiled(d.clients), b.client, b.role)
      BY <2>6, <1>2 DEF ClientsAfter, Fresh, SetPassword, SetDisabled, AddRoleTo, RemoveRoleFrom, RoleGone
    <3>3. ClientsAfter(Veiled(d.clients), b) = RemoveRoleFrom(Veiled(d.clients), m.client, m.role)
      BY <2>6, <1>2, <3>2
    <3> QED BY <3>1, <3>3, <2>6, <1>3, <1>4, VeiledChanges
  <2>7. CASE m.command = "deleteClient"
    <3>1. ClientsAfter(d.clients, m) = WithoutKey(d.clients, m.client)
      BY <2>7 DEF ClientsAfter, Fresh, SetPassword, SetDisabled, AddRoleTo, RemoveRoleFrom, RoleGone
    <3>2. ClientsAfter(Veiled(d.clients), b) = WithoutKey(Veiled(d.clients), b.client)
      BY <2>7, <1>2 DEF ClientsAfter, Fresh, SetPassword, SetDisabled, AddRoleTo, RemoveRoleFrom, RoleGone
    <3>3. ClientsAfter(Veiled(d.clients), b) = WithoutKey(Veiled(d.clients), m.client)
      BY <2>7, <1>2, <3>2
    <3> QED BY <3>1, <3>3, <2>7, <1>3, <1>4, VeiledChanges
  <2>o. CASE m.command \notin {"deleteRole", "createClient", "setClientPassword", "setClientDisabled", "addClientRole", "removeClientRole", "deleteClient"}
    BY <2>o, <1>2, <1>3 DEF ClientsAfter
  <2> QED BY <2>o, <2>1, <2>2, <2>3, <2>4, <2>5, <2>6, <2>7
<1> QED BY <1>5, <1>6, <1>7, DocViews DEF r, b

-----------------------------------------------------------------------------
(* Execute as a run: the accumulator after each command.  Two runs of      *)
(* plans that differ in passwords only agree on everything but passwords.  *)

\* A request is carried out command by command.
Accumulator == [db : Database, refused : BOOLEAN]
StartOf(d) == [db |-> d, refused |-> FALSE]
IsRun(a, plan, f, n) == f = [i \in 0..n |-> IF i = 0 THEN a ELSE ExecuteOne(f[i - 1], plan[i])]

LEMMA RunExists ==
    ASSUME NEW a, NEW plan, NEW N \in Nat
    PROVE  \E f : IsRun(a, plan, f, N)
<1> DEFINE S == {n \in Nat : \E f : IsRun(a, plan, f, n)}
<1>1. 0 \in S
  <2>1. IsRun(a, plan, [i \in 0..0 |-> a], 0)
    BY DEF IsRun
  <2> QED BY <2>1
<1>2. ASSUME NEW k \in S PROVE k + 1 \in S
  <2>1. PICK f : IsRun(a, plan, f, k)
    OBVIOUS
  <2> DEFINE g == [i \in 0..(k + 1) |-> IF i = k + 1 THEN ExecuteOne(f[k], plan[k + 1]) ELSE f[i]]
  <2>2. \A i \in 0..(k + 1) : i # k + 1 => i \in 0..k
    OBVIOUS
  <2>3. ASSUME NEW i \in 0..(k + 1)
        PROVE  g[i] = IF i = 0 THEN a ELSE ExecuteOne(g[i - 1], plan[i])
    <3>1. CASE i = k + 1
      <4>1. i # 0 /\ i - 1 = k /\ k \in 0..(k + 1) /\ k # k + 1
        BY <3>1
      <4>2. g[i - 1] = f[k]
        BY <4>1
      <4> QED BY <3>1, <4>1, <4>2
    <3>2. CASE i # k + 1
      <4>1. i \in 0..k
        BY <2>2, <3>2
      <4>2. f[i] = IF i = 0 THEN a ELSE ExecuteOne(f[i - 1], plan[i])
        BY <2>1, <4>1 DEF IsRun
      <4>3. i # 0 => i - 1 \in 0..(k + 1) /\ i - 1 # k + 1
        BY <4>1
      <4>4. i # 0 => g[i - 1] = f[i - 1]
        BY <4>3
      <4> QED BY <3>2, <4>2, <4>4
    <3> QED BY <3>1, <3>2
  <2>4. g = [i \in 0..(k + 1) |-> IF i = 0 THEN a ELSE ExecuteOne(g[i - 1], plan[i])]
    BY <2>3
  <2>5. IsRun(a, plan, g, k + 1)
    BY <2>4 DEF IsRun
  <2> QED BY <2>5
<1>3. S \in SUBSET Nat /\ \A k \in S : k < N => k + 1 \in S
  BY <1>2
<1> HIDE DEF S
<1>4. N \in S
  <2>1. \A k \in 0..N : k \in S
    BY <1>1, <1>3, SetInduction
  <2> QED BY <2>1
<1> QED BY <1>4 DEF S

\* The same from any accumulator.
RunFrom(a, plan) == (CHOOSE f : IsRun(a, plan, f, Len(plan)))[Len(plan)]

LEMMA RunSteps ==
    ASSUME NEW a, NEW plan \in Seq(Command)
    PROVE  \E f : /\ RunFrom(a, plan) = f[Len(plan)] /\ f[0] = a
                  /\ \A k \in 0..Len(plan) : k < Len(plan) => f[k + 1] = ExecuteOne(f[k], plan[k + 1])
<1> DEFINE F == CHOOSE f : IsRun(a, plan, f, Len(plan))
<1>1. Len(plan) \in Nat
  OBVIOUS
<1>2. IsRun(a, plan, F, Len(plan))
  BY <1>1, RunExists
<1>3. RunFrom(a, plan) = F[Len(plan)]
  BY Zenon DEF RunFrom
<1> HIDE DEF F
<1>4. F[0] = a
  BY <1>1, <1>2 DEF IsRun
<1>5. ASSUME NEW k \in 0..Len(plan), k < Len(plan) PROVE F[k + 1] = ExecuteOne(F[k], plan[k + 1])
  <2>1. k + 1 \in 0..Len(plan) /\ k + 1 # 0 /\ (k + 1) - 1 = k
    BY <1>1, <1>5
  <2> QED BY <1>2, <2>1 DEF IsRun
<1> QED BY <1>3, <1>4, <1>5

LEMMA ExecuteIsRun == \A d, plan : Execute(d, plan) = RunFrom(StartOf(d), plan)
BY Zenon DEF Execute, RunFrom, IsRun, StartOf

LEMMA ExecuteRun ==
    ASSUME NEW d, NEW plan \in Seq(Command)
    PROVE  \E f : /\ Execute(d, plan) = f[Len(plan)] /\ f[0] = StartOf(d)
                  /\ \A k \in 0..Len(plan) : k < Len(plan) => f[k + 1] = ExecuteOne(f[k], plan[k + 1])
BY RunSteps, ExecuteIsRun

LEMMA StartType == \A d \in Database : StartOf(d) \in Accumulator /\ StartOf(d).db = d
<1>1. \A d \in Database : \A b \in BOOLEAN : /\ [db |-> d, refused |-> b] \in [db : Database, refused : BOOLEAN]
                                           /\ [db |-> d, refused |-> b].db = d
  OBVIOUS
<1>2. FALSE \in BOOLEAN
  OBVIOUS
<1> QED BY <1>1, <1>2, Zenon DEF StartOf, Accumulator

LEMMA StepType ==
    ASSUME NEW acc \in Accumulator, NEW m \in Command
    PROVE  /\ ExecuteOne(acc, m) \in Accumulator
           /\ Refused(acc.db, m) => ExecuteOne(acc, m).db = acc.db
           /\ ~Refused(acc.db, m) => ExecuteOne(acc, m).db = Normalize(Effect(acc.db, m))
<1>1. acc.db \in Database
  BY DEF Accumulator
<1>2. CASE Refused(acc.db, m)
  <2>1. ExecuteOne(acc, m) = [acc EXCEPT !.refused = TRUE]
    BY <1>2 DEF ExecuteOne
  <2> QED BY <1>2, <2>1 DEF Accumulator
<1>3. CASE ~Refused(acc.db, m)
  <2>1. ExecuteOne(acc, m) = [acc EXCEPT !.db = Normalize(Effect(acc.db, m))]
    BY <1>3 DEF ExecuteOne
  <2>2. Normalize(Effect(acc.db, m)) \in Database
    BY <1>1, <1>3, EffectType, DocumentViews
  <2> QED BY <1>3, <2>1, <2>2 DEF Accumulator
<1> QED BY <1>2, <1>3

\* A request turns a document into a document.
LEMMA ExecuteType ==
    ASSUME NEW d \in Database, NEW plan \in Seq(Command)
    PROVE  Execute(d, plan) \in Accumulator
<1>1. PICK f : /\ Execute(d, plan) = f[Len(plan)] /\ f[0] = StartOf(d)
               /\ \A k \in 0..Len(plan) : k < Len(plan) => f[k + 1] = ExecuteOne(f[k], plan[k + 1])
  BY ExecuteRun
<1> DEFINE N == Len(plan)
           S == {k \in 0..N : f[k] \in Accumulator}
<1>2. N \in Nat
  OBVIOUS
<1>3. S \in SUBSET Nat /\ 0 \in S
  BY <1>1, <1>2, StartType
<1>4. ASSUME NEW k \in S, k < N PROVE k + 1 \in S
  <2>1. k \in 0..N /\ k + 1 \in 1..N /\ k + 1 \in 0..N /\ f[k] \in Accumulator
    BY <1>2, <1>4
  <2>2. plan[k + 1] \in Command
    BY <2>1
  <2>3. f[k + 1] \in Accumulator
    BY <1>1, <1>4, <2>1, <2>2, StepType
  <2> QED BY <2>1, <2>3
<1>5. \A k \in S : k < N => k + 1 \in S
  BY <1>4
<1> HIDE DEF S
<1>6. \A k \in 0..N : k \in S
  BY <1>2, <1>3, <1>5, SetInduction
<1> QED BY <1>1, <1>2, <1>6 DEF S

\* Two commands the marker of a password makes equal.
LEMMA MaskedAlike ==
    ASSUME NEW c1 \in Seq(Command), NEW c2 \in Seq(Command), maskDynSecPlan(c1) = maskDynSecPlan(c2)
    PROVE  Len(c1) = Len(c2) /\ \A i \in 1..Len(c1) : Bare(c1[i]) = Bare(c2[i])
<1> DEFINE Masking(m) == IF "password" \in DOMAIN m /\ m.password # NoPassword
                         THEN [m EXCEPT !.password = Masked] ELSE m
<1>1. ASSUME NEW m \in Command PROVE Bare(Masking(m)) = Bare(m)
  <2>1. CASE "password" \in DOMAIN m
    <3>1. DOMAIN Masking(m) = DOMAIN m
      OBVIOUS
    <3>2. \A x : [[m EXCEPT !.password = x] EXCEPT !.password = NoPassword] = [m EXCEPT !.password = NoPassword]
      OBVIOUS
    <3>3. [Masking(m) EXCEPT !.password = NoPassword] = [m EXCEPT !.password = NoPassword]
      BY <3>2
    <3> HIDE DEF Masking
    <3> QED BY <2>1, <3>1, <3>3 DEF Bare
  <2>2. CASE "password" \notin DOMAIN m
    BY <2>2 DEF Bare
  <2> QED BY <2>1, <2>2
<1>2. /\ maskDynSecPlan(c1) = [i \in DOMAIN c1 |-> Masking(c1[i])]
      /\ maskDynSecPlan(c2) = [i \in DOMAIN c2 |-> Masking(c2[i])]
  BY DEF maskDynSecPlan
<1> HIDE DEF Masking
<1>3. DOMAIN c1 = DOMAIN c2 /\ \A i \in DOMAIN c1 : Masking(c1[i]) = Masking(c2[i])
  BY <1>2
<1>4. Len(c1) = Len(c2)
  BY <1>3
<1> QED BY <1>1, <1>3, <1>4

LEMMA StepAlike ==
    ASSUME NEW a1 \in Accumulator, NEW a2 \in Accumulator, NEW m1 \in Command, NEW m2 \in Command,
           Redacted(a1.db) = Redacted(a2.db), Bare(m1) = Bare(m2)
    PROVE  Redacted(ExecuteOne(a1, m1).db) = Redacted(ExecuteOne(a2, m2).db)
<1>1. a1.db \in Database /\ a2.db \in Database
  BY DEF Accumulator
<1>2. Refused(a1.db, m1) <=> Refused(a2.db, m2)
  BY <1>1, RefusedAlike
<1>3. CASE Refused(a1.db, m1)
  BY <1>2, <1>3, StepType
<1>4. CASE ~Refused(a1.db, m1)
  <2>1. Redacted(Effect(a1.db, m1)) = Redacted(Effect(a2.db, m2))
    BY <1>1, <1>2, <1>4, EffectAlike
  <2>2. Effect(a1.db, m1) \in Database /\ Effect(a2.db, m2) \in Database
    BY <1>1, <1>2, <1>4, EffectType
  <2>3. Redacted(Normalize(Effect(a1.db, m1))) = Redacted(Normalize(Effect(a2.db, m2)))
    BY <2>1, <2>2, DocumentViews
  <2> QED BY <1>2, <1>4, <2>3, StepType
<1> QED BY <1>3, <1>4

\* What a request leaves besides passwords does not depend on them.
LEMMA ExecuteAlike ==
    ASSUME NEW d1 \in Database, NEW d2 \in Database, NEW c1 \in Seq(Command), NEW c2 \in Seq(Command),
           Redacted(d1) = Redacted(d2), maskDynSecPlan(c1) = maskDynSecPlan(c2)
    PROVE  Redacted(Execute(d1, c1).db) = Redacted(Execute(d2, c2).db)
<1>1. PICK f : /\ Execute(d1, c1) = f[Len(c1)] /\ f[0] = StartOf(d1)
               /\ \A k \in 0..Len(c1) : k < Len(c1) => f[k + 1] = ExecuteOne(f[k], c1[k + 1])
  BY ExecuteRun
<1>2. PICK g : /\ Execute(d2, c2) = g[Len(c2)] /\ g[0] = StartOf(d2)
               /\ \A k \in 0..Len(c2) : k < Len(c2) => g[k + 1] = ExecuteOne(g[k], c2[k + 1])
  BY ExecuteRun
<1>3. Len(c1) = Len(c2) /\ \A i \in 1..Len(c1) : Bare(c1[i]) = Bare(c2[i])
  BY MaskedAlike
<1> DEFINE N == Len(c1)
           S == {k \in 0..N : f[k] \in Accumulator /\ g[k] \in Accumulator /\ Redacted(f[k].db) = Redacted(g[k].db)}
<1>4. N \in Nat
  OBVIOUS
<1>5. S \in SUBSET Nat /\ 0 \in S
  BY <1>1, <1>2, <1>4, StartType
<1>6. ASSUME NEW k \in S, k < N PROVE k + 1 \in S
  <2>1. /\ k \in 0..N /\ k + 1 \in 1..N /\ k + 1 \in 0..N
        /\ f[k] \in Accumulator /\ g[k] \in Accumulator /\ Redacted(f[k].db) = Redacted(g[k].db)
    BY <1>4, <1>6
  <2>2. c1[k + 1] \in Command /\ c2[k + 1] \in Command /\ Bare(c1[k + 1]) = Bare(c2[k + 1])
    BY <1>3, <2>1
  <2>3. f[k + 1] = ExecuteOne(f[k], c1[k + 1]) /\ g[k + 1] = ExecuteOne(g[k], c2[k + 1])
    BY <1>1, <1>2, <1>3, <1>6, <2>1
  <2>4. f[k + 1] \in Accumulator /\ g[k + 1] \in Accumulator /\ Redacted(f[k + 1].db) = Redacted(g[k + 1].db)
    <3>1. f[k + 1] \in Accumulator /\ g[k + 1] \in Accumulator
      BY <2>1, <2>2, <2>3, StepType
    <3>2. Redacted(ExecuteOne(f[k], c1[k + 1]).db) = Redacted(ExecuteOne(g[k], c2[k + 1]).db)
      BY <2>1, <2>2, StepAlike
    <3> QED BY <2>3, <3>1, <3>2
  <2> QED BY <2>1, <2>4
<1>7. \A k \in S : k < N => k + 1 \in S
  BY <1>6
<1> HIDE DEF S
<1>8. \A k \in 0..N : k \in S
  BY <1>4, <1>5, <1>7, SetInduction
<1> QED BY <1>1, <1>2, <1>3, <1>4, <1>8 DEF S

-----------------------------------------------------------------------------
(* The invariant of the flow. *)

StoredPlan == [kind : {"update", "adopt"}, base : Database \cup {NoDocument}, commands : Seq(Command),
               desired : Database, revision : {"none", "previewed", "applied"},
               over : {"none", "file", "dynamic-security"}, generation : Nat,
               consumed : BOOLEAN, promised : Database]
Stage == {"idle", "config", "read", "send", "verify", "consume", "done"}
Result == {"none", "config", "conflict", "unread", "timeout", "refused", "unverified", "consumed", "guard", "ok"}
Running == [pc : Stage, plan : Nat \cup {NoPlan}, effective : Database \cup {NoDocument}, commands : Seq(Command),
            read : Database \cup {NoDocument}, alone : BOOLEAN, refused : BOOLEAN, result : Result]

DynSecTypeOK == /\ db \in Database \cup {NoDocument} /\ file \in Database \cup {NoDocument}
                /\ backend \in {"file", "dynamic-security"}
                /\ plans \in Seq(StoredPlan)
                /\ req \in [Request -> Running]
                /\ foreign \in Nat /\ adoptions \in Nat /\ adopting \in SUBSET Adoption

\* What was promised is what the stored commands do to the state they were made for.
Faithful(p) == \E d \in Database : \E c \in Seq(Command) :
                  p.base = Redacted(d) /\ p.commands = maskDynSecPlan(c) /\ p.promised = Redacted(Execute(d, c).db)

PlanOK(p) == /\ p.kind = "adopt" => p.commands = <<>>
             /\ p.kind = "update" => Faithful(p)
             /\ p.kind = "adopt" <=> p.revision # "none"

RequestOK(q, ps, d) ==
    /\ q.pc \notin {"idle", "done"} => q.plan \in DOMAIN ps /\ q.effective \in Database
    /\ q.pc = "config" => ps[q.plan].revision # "none"
    /\ q.pc = "send" => /\ ps[q.plan].kind = "update"
                        /\ maskDynSecPlan(q.commands) = ps[q.plan].commands
    /\ q.pc \in {"send", "verify", "consume"} => d # NoDocument
    /\ (q.pc = "send" /\ q.alone) => Redacted(d) = ps[q.plan].base

PlansKept == \A i \in DOMAIN plans : PlanOK(plans[i])
RequestsKept == \A r \in Request : RequestOK(req[r], plans, db)
FilesKept == db = NoDocument <=> backend = "file"

\* Nothing but adoptions is planned, and no other tool writes to the plugin.
OnlyAdopted(ps, n) == n = 0 /\ ps # <<>> /\ \A p \in DOMAIN ps : ps[p].kind = "adopt"
LastOf(ps) == ps[Len(ps)].generation
NoneWritten(S) == \A a \in S : a.stage # "written"

\* While the adoptions run one by one and are done before an apply, the file holds
\* the password of the one that wrote it last.
AdoptionsKept ==
    ~cut => /\ \A a \in adopting : \A b \in adopting : a = b
            /\ adopting # {} => db = NoDocument
            /\ \A a \in adopting : a.stage = "written" => file.clients[User].password = Generated[a.generation]
            /\ (OnlyAdopted(plans, foreign) /\ NoneWritten(adopting))
                  => file.clients[User].password = Generated[LastOf(plans)]
CredentialsKept == (~cut /\ db # NoDocument /\ OnlyAdopted(plans, foreign))
                      => db.clients[User].password = Generated[LastOf(plans)]

DynSecInv == DynSecTypeOK /\ PlansKept /\ RequestsKept /\ FilesKept /\ AdoptionsKept /\ CredentialsKept

-----------------------------------------------------------------------------
(* The document an adoption writes is a document.                          *)

\* The document an adoption writes.
LEMMA RuleEntries ==
    ASSUME NEW t \in Topic, NEW p
    PROVE  dynsecACLsForRule(t, p) \in Entries
<1>1. \A b \in BOOLEAN : [allow |-> b, priority |-> 0] \in [allow : BOOLEAN, priority : Priority]
  BY NamesAssumption
<1>2. (p # "deny") \in BOOLEAN
  OBVIOUS
<1>3. [allow |-> p # "deny", priority |-> 0] \in [allow : BOOLEAN, priority : Priority]
  BY <1>1, <1>2, Zenon
<1> DEFINE e == [allow |-> p # "deny", priority |-> 0]
<1> HIDE DEF e
<1>4. e \in [allow : BOOLEAN, priority : Priority]
  BY <1>3 DEF e
<1>5. [x \in {t} |-> e] \in [{t} -> [allow : BOOLEAN, priority : Priority]]
  BY <1>4
<1>6. [x \in {t} |-> e] \in Entries
  BY <1>5, MapsFacts DEF Entries
<1> QED BY <1>6, Zenon DEF dynsecACLsForRule, e

LEMMA AdoptedRoles ==
    ASSUME NEW anonymous
    PROVE  WithKey(migrateACLToDynsec(anonymous), ManagementRole, dynsecACLsForRule(ControlTopic, "readwrite")) \in Roles
<1> DEFINE plain == CHOOSE t \in Topic : t # ControlTopic
           D == {UserRole} \cup (IF anonymous THEN {AnonymousRole} ELSE {})
           e == dynsecACLsForRule(plain, "readwrite")
<1>1. plain \in Topic
  BY DynSecAssumption
<1> HIDE DEF plain
<1>2. e \in Entries
  BY <1>1, RuleEntries
<1>3. D \in SUBSET Role /\ ManagementRole \in Role
  BY DynSecAssumption
<1> HIDE DEF e, D
<1>4. [r \in D |-> e] \in [D -> Entries]
  BY <1>2
<1>5. [r \in D |-> e] \in Maps(Role, Entries)
  BY <1>3, <1>4, MapsFacts
<1>6. migrateACLToDynsec(anonymous) \in Maps(Role, Entries)
  BY <1>5 DEF migrateACLToDynsec, D, e, plain
<1>7. dynsecACLsForRule(ControlTopic, "readwrite") \in Entries
  BY NamesAssumption, RuleEntries
<1> QED BY <1>3, <1>6, <1>7, MapChanges DEF Roles

\* The adopted document is a document of the database.
LEMMA AdoptedType ==
    ASSUME NEW anonymous \in BOOLEAN, NEW password \in Password
    PROVE  /\ buildAdoptedDocument(anonymous, password) \in Database
           /\ [buildAdoptedDocument(anonymous, password) EXCEPT !.anonymous = NoGroup] \in Database
           /\ [buildAdoptedDocument(anonymous, password) EXCEPT !.anonymous = NoGroup].clients[User].password = password
<1> DEFINE roleOf(c) == IF c = Management THEN ManagementRole ELSE UserRole
           secretOf(c) == IF c = Management THEN ManagementPassword ELSE password
           C == [c \in {Management, User} |-> [roles |-> {roleOf(c)}, groups |-> {}, disabled |-> FALSE, password |-> secretOf(c)]]
           G == IF anonymous THEN [g \in {AnonymousGroup} |-> [roles |-> {AnonymousRole}, clients |-> {}]] ELSE EmptyMap
           R == WithKey(migrateACLToDynsec(anonymous), ManagementRole, dynsecACLsForRule(ControlTopic, "readwrite"))
           A == IF anonymous THEN AnonymousGroup ELSE NoGroup
<1>1. buildAdoptedDocument(anonymous, password) = Doc(C, G, R, FALSE, A)
  BY Zenon DEF buildAdoptedDocument, Doc
<1>2. R \in Roles /\ A \in Group \cup {NoGroup}
  BY AdoptedRoles, DynSecAssumption
<1>3. C \in Clients /\ C[User].password = password
  <2>1. \A x \in Role, s \in Secret : \A b \in BOOLEAN :
           /\ [roles |-> {x}, groups |-> {}, disabled |-> b, password |-> s] \in ClientRecord
           /\ [roles |-> {x}, groups |-> {}, disabled |-> b, password |-> s].password = s
    BY DEF ClientRecord
  <2>2. \A c : roleOf(c) \in Role /\ secretOf(c) \in Secret
    BY DynSecAssumption DEF Secret
  <2>3. secretOf(User) = password /\ {Management, User} \in SUBSET Client
    BY NamesAssumption, DynSecAssumption
  <2> DEFINE rec(c) == [roles |-> {roleOf(c)}, groups |-> {}, disabled |-> FALSE, password |-> secretOf(c)]
  <2> HIDE DEF roleOf, secretOf
  <2>f. FALSE \in BOOLEAN
    OBVIOUS
  <2>4. \A c : rec(c) \in ClientRecord /\ rec(c).password = secretOf(c)
    BY <2>1, <2>2, <2>f, Zenon
  <2> HIDE DEF rec
  <2>5. [c \in {Management, User} |-> rec(c)] \in [{Management, User} -> ClientRecord]
    BY <2>4
  <2>6. [c \in {Management, User} |-> rec(c)] \in Clients
    BY <2>3, <2>5, MapsFacts DEF Clients
  <2>7. [c \in {Management, User} |-> rec(c)][User].password = password
    BY <2>3, <2>4
  <2> QED BY <2>6, <2>7, Zenon DEF rec, roleOf, secretOf
<1>4. G \in Groups
  <2>1. [roles |-> {AnonymousRole}, clients |-> {}] \in GroupRecord
    BY DynSecAssumption DEF GroupRecord
  <2>2. [g \in {AnonymousGroup} |-> [roles |-> {AnonymousRole}, clients |-> {}]] \in [{AnonymousGroup} -> GroupRecord]
    BY <2>1
  <2>3. EmptyMap \in [{} -> GroupRecord]
    BY DEF EmptyMap
  <2>4. {AnonymousGroup} \in SUBSET Group /\ {} \in SUBSET Group
    BY DynSecAssumption
  <2> QED BY <2>2, <2>3, <2>4, MapsFacts DEF Groups
<1> HIDE DEF C, G, R, A
<1>5. FALSE \in BOOLEAN /\ NoGroup \in Group \cup {NoGroup}
  OBVIOUS
<1>6. Doc(C, G, R, FALSE, A) \in Database /\ Doc(C, G, R, FALSE, NoGroup) \in Database
  BY <1>2, <1>3, <1>4, <1>5, DocType, Zenon
<1>7. \A b : /\ [Doc(C, G, R, b, A) EXCEPT !.anonymous = NoGroup] = Doc(C, G, R, b, NoGroup)
             /\ Doc(C, G, R, b, NoGroup).clients = C
  BY DEF Doc
<1>8. /\ [Doc(C, G, R, FALSE, A) EXCEPT !.anonymous = NoGroup] = Doc(C, G, R, FALSE, NoGroup)
      /\ Doc(C, G, R, FALSE, NoGroup).clients = C
  BY <1>7, Zenon
<1>9. [Doc(C, G, R, FALSE, A) EXCEPT !.anonymous = NoGroup].clients = C
  BY <1>8, Zenon
<1>10. [Doc(C, G, R, FALSE, A) EXCEPT !.anonymous = NoGroup].clients[User].password = password
  BY <1>3, <1>9, Zenon
<1>11. [Doc(C, G, R, FALSE, A) EXCEPT !.anonymous = NoGroup] \in Database
  BY <1>6, <1>8, Zenon
<1> QED BY <1>1, <1>6, <1>10, <1>11, Zenon

-----------------------------------------------------------------------------
(* Plans are only added and marked; what that keeps of a request.          *)

\* Plans are added and marked, never rewritten.
Reviewed(p, q) == q.kind = p.kind /\ q.base = p.base /\ q.commands = p.commands /\ q.promised = p.promised
                  /\ q.generation = p.generation /\ (q.revision = "none" <=> p.revision = "none")
Grown(ps, qs) == DOMAIN ps \subseteq DOMAIN qs /\ \A i \in DOMAIN ps : Reviewed(ps[i], qs[i])

LEMMA PlanKept == \A p, q : (PlanOK(p) /\ Reviewed(p, q)) => PlanOK(q)
BY DEF PlanOK, Reviewed, Faithful

LEMMA LastKept ==
    ASSUME NEW ps \in Seq(StoredPlan), NEW qs \in Seq(StoredPlan), Grown(ps, qs), DOMAIN qs = DOMAIN ps, NEW n
    PROVE  OnlyAdopted(qs, n) => OnlyAdopted(ps, n) /\ LastOf(qs) = LastOf(ps)
<1>1. Len(qs) = Len(ps)
  <2>1. DOMAIN qs = 1..Len(qs) /\ DOMAIN ps = 1..Len(ps) /\ Len(qs) \in Nat /\ Len(ps) \in Nat
    OBVIOUS
  <2>2. ASSUME NEW i \in Nat, NEW j \in Nat, 1..i = 1..j PROVE i <= j
    BY <2>2
  <2>3. 1..Len(qs) = 1..Len(ps) /\ 1..Len(ps) = 1..Len(qs)
    BY <2>1
  <2>4. Len(qs) <= Len(ps) /\ Len(ps) <= Len(qs)
    BY <2>1, <2>2, <2>3
  <2>5. Len(qs) \in Nat /\ Len(ps) \in Nat
    BY <2>1
  <2> QED BY <2>4, <2>5
<1> SUFFICES ASSUME OnlyAdopted(qs, n) PROVE OnlyAdopted(ps, n) /\ LastOf(qs) = LastOf(ps)
  OBVIOUS
<1>2. ps # <<>> /\ Len(ps) \in DOMAIN ps
  BY <1>1 DEF OnlyAdopted
<1> QED BY <1>1, <1>2 DEF OnlyAdopted, LastOf, Grown, Reviewed

LEMMA NoGrowth == \A ps : Grown(ps, ps)
BY DEF Grown, Reviewed

LEMMA AppendGrows ==
    ASSUME NEW ps \in Seq(StoredPlan), NEW p \in StoredPlan
    PROVE  /\ Append(ps, p) \in Seq(StoredPlan) /\ Grown(ps, Append(ps, p))
           /\ \A i \in DOMAIN Append(ps, p) : i \notin DOMAIN ps => Append(ps, p)[i] = p
<1>1. /\ Append(ps, p) \in Seq(StoredPlan) /\ DOMAIN ps \subseteq DOMAIN Append(ps, p)
      /\ \A i \in DOMAIN ps : Append(ps, p)[i] = ps[i]
      /\ \A i \in DOMAIN Append(ps, p) : i \notin DOMAIN ps => Append(ps, p)[i] = p
  OBVIOUS
<1> QED BY <1>1 DEF Grown, Reviewed

LEMMA MarkGrows ==
    ASSUME NEW ps \in Seq(StoredPlan), NEW i \in DOMAIN ps
    PROVE  /\ [ps EXCEPT ![i].consumed = TRUE] \in Seq(StoredPlan) /\ Grown(ps, [ps EXCEPT ![i].consumed = TRUE])
           /\ DOMAIN [ps EXCEPT ![i].consumed = TRUE] = DOMAIN ps
           /\ ps[i].revision # "none" =>
                 /\ [ps EXCEPT ![i].revision = "applied"] \in Seq(StoredPlan)
                 /\ Grown(ps, [ps EXCEPT ![i].revision = "applied"])
           /\ DOMAIN [ps EXCEPT ![i].revision = "applied"] = DOMAIN ps
<1>1. ps[i] \in StoredPlan
  OBVIOUS
<1>2. \A b \in BOOLEAN : [ps[i] EXCEPT !.consumed = b] \in StoredPlan /\ Reviewed(ps[i], [ps[i] EXCEPT !.consumed = b])
  BY <1>1 DEF StoredPlan, Reviewed
<1>3. [ps[i] EXCEPT !.revision = "applied"] \in StoredPlan
  BY <1>1 DEF StoredPlan
<1>4. ps[i].revision # "none" => Reviewed(ps[i], [ps[i] EXCEPT !.revision = "applied"])
  BY <1>1 DEF StoredPlan, Reviewed
<1>5. \A x \in StoredPlan : [ps EXCEPT ![i] = x] \in Seq(StoredPlan) /\ DOMAIN [ps EXCEPT ![i] = x] = DOMAIN ps
                            /\ (Reviewed(ps[i], x) => Grown(ps, [ps EXCEPT ![i] = x]))
  <2> TAKE x \in StoredPlan
  <2>1. [ps EXCEPT ![i] = x] \in Seq(StoredPlan) /\ DOMAIN [ps EXCEPT ![i] = x] = DOMAIN ps
    OBVIOUS
  <2>2. \A j \in DOMAIN ps : [ps EXCEPT ![i] = x][j] = IF j = i THEN x ELSE ps[j]
    OBVIOUS
  <2>3. \A j \in DOMAIN ps : Reviewed(ps[j], ps[j])
    BY DEF Reviewed
  <2> QED BY <2>1, <2>2, <2>3 DEF Grown
<1>6. /\ [ps EXCEPT ![i].revision = "applied"] = [ps EXCEPT ![i] = [ps[i] EXCEPT !.revision = "applied"]]
      /\ [ps EXCEPT ![i].consumed = TRUE] = [ps EXCEPT ![i] = [ps[i] EXCEPT !.consumed = TRUE]]
  BY Zenon
<1>t. TRUE \in BOOLEAN
  OBVIOUS
<1>7. [ps[i] EXCEPT !.consumed = TRUE] \in StoredPlan /\ Reviewed(ps[i], [ps[i] EXCEPT !.consumed = TRUE])
  BY <1>2, <1>t, Zenon
<1>8. /\ [ps EXCEPT ![i].consumed = TRUE] \in Seq(StoredPlan) /\ Grown(ps, [ps EXCEPT ![i].consumed = TRUE])
      /\ DOMAIN [ps EXCEPT ![i].consumed = TRUE] = DOMAIN ps
  BY <1>5, <1>6, <1>7, Zenon
<1>9. /\ [ps EXCEPT ![i].revision = "applied"] \in Seq(StoredPlan)
      /\ DOMAIN [ps EXCEPT ![i].revision = "applied"] = DOMAIN ps
      /\ ps[i].revision # "none" => Grown(ps, [ps EXCEPT ![i].revision = "applied"])
  BY <1>3, <1>4, <1>5, <1>6, Zenon
<1> QED BY <1>8, <1>9, Zenon

LEMMA RequestKept ==
    /\ \A q, ps, d : q.pc \in {"idle", "done"} => RequestOK(q, ps, d)
    /\ \A q, ps, qs, d : (RequestOK(q, ps, d) /\ Grown(ps, qs)) => RequestOK(q, qs, d)
BY DEF RequestOK, Grown, Reviewed

\* A request that somebody else's write disturbs.
Shaken(q) == IF q.pc \in {"idle", "done"} THEN q ELSE [q EXCEPT !.alone = FALSE]

LEMMA ShakenKept ==
    ASSUME NEW q \in Running
    PROVE  /\ Shaken(q) \in Running /\ Shaken(q).pc = q.pc
           /\ \A ps, d, e : (RequestOK(q, ps, d) /\ e # NoDocument) => RequestOK(Shaken(q), ps, e)
<1>1. \A b \in BOOLEAN : LET s == [q EXCEPT !.alone = b] IN
        /\ s \in Running /\ s.pc = q.pc /\ s.plan = q.plan /\ s.effective = q.effective /\ s.commands = q.commands
        /\ s.alone = b
  BY DEF Running
<1>2. FALSE \in BOOLEAN
  OBVIOUS
<1> DEFINE s == [q EXCEPT !.alone = FALSE]
<1>3. /\ s \in Running /\ s.pc = q.pc /\ s.plan = q.plan /\ s.effective = q.effective /\ s.commands = q.commands
      /\ s.alone = FALSE
  BY <1>1, <1>2, Zenon
<1>4. Shaken(q) = IF q.pc \in {"idle", "done"} THEN q ELSE s
  BY DEF Shaken
<1> HIDE DEF s
<1> QED BY <1>3, <1>4 DEF RequestOK

LEMMA FailKept ==
    ASSUME NEW q \in Running, NEW why \in Result
    PROVE  [q EXCEPT !.pc = "done", !.result = why] \in Running /\ [q EXCEPT !.pc = "done", !.result = why].pc = "done"
BY DEF Running, Stage

-----------------------------------------------------------------------------
(* Each action keeps DynSecInv.                                            *)

\* A step of one request that leaves the database alone.
LEMMA QuietStep ==
    ASSUME DynSecInv, NEW r \in Request, NEW x \in Running, req' = [req EXCEPT ![r] = x],
           db' = db, file' = file, backend' = backend, foreign' = foreign, UNCHANGED adoptVars,
           plans' \in Seq(StoredPlan), Grown(plans, plans'), DOMAIN plans' = DOMAIN plans,
           RequestOK(x, plans', db)
    PROVE  DynSecInv'
<1>0. adoptions' = adoptions /\ adopting' = adopting /\ cut' = cut
  BY DEF adoptVars
<1>1. DynSecTypeOK'
  BY <1>0 DEF DynSecInv, DynSecTypeOK
<1>2. PlansKept'
  BY PlanKept DEF DynSecInv, DynSecTypeOK, PlansKept, Grown
<1>3. RequestsKept'
  <2>1. \A q \in Request : req'[q] = IF q = r THEN x ELSE req[q]
    BY DEF DynSecInv, DynSecTypeOK
  <2>2. \A q \in Request : RequestOK(req[q], plans', db)
    BY RequestKept DEF DynSecInv, RequestsKept
  <2>3. \A q \in Request : RequestOK(req'[q], plans', db')
    BY <2>1, <2>2
  <2> QED BY <2>3 DEF RequestsKept
<1>4. FilesKept'
  BY DEF DynSecInv, FilesKept
<1>5. OnlyAdopted(plans, foreign)' => OnlyAdopted(plans, foreign) /\ LastOf(plans)' = LastOf(plans)
  BY LastKept DEF DynSecInv, DynSecTypeOK
<1>6. AdoptionsKept' /\ CredentialsKept'
  BY <1>0, <1>5 DEF DynSecInv, AdoptionsKept, CredentialsKept
<1> QED BY <1>1, <1>2, <1>3, <1>4, <1>6 DEF DynSecInv

\* A request that gives up keeps the invariant.
LEMMA FailStep ==
    ASSUME DynSecInv, NEW r \in Request, NEW why \in Result, Fail(r, why),
           db' = db, file' = file, backend' = backend, foreign' = foreign, UNCHANGED adoptVars,
           plans' \in Seq(StoredPlan), Grown(plans, plans'), DOMAIN plans' = DOMAIN plans
    PROVE  DynSecInv'
<1> DEFINE x == [req[r] EXCEPT !.pc = "done", !.result = why]
<1>1. req[r] \in Running
  BY DEF DynSecInv, DynSecTypeOK
<1>2. x \in Running /\ x.pc = "done"
  BY <1>1, FailKept
<1>3. req' = [req EXCEPT ![r] = x]
  BY DEF Fail
<1> HIDE DEF x
<1>4. RequestOK(x, plans', db)
  BY <1>2, RequestKept
<1> QED BY <1>2, <1>3, <1>4, QuietStep

LEMMA PlanOf ==
    ASSUME DynSecInv, NEW r \in Request, req[r].pc \notin {"idle", "done"}
    PROVE  /\ req[r] \in Running /\ req[r].plan \in DOMAIN plans /\ plans[req[r].plan] \in StoredPlan
           /\ PlanOK(plans[req[r].plan]) /\ req[r].effective \in Database
BY DEF DynSecInv, DynSecTypeOK, RequestsKept, RequestOK, PlansKept

LEMMA IdleFacts == Idle.pc = "idle" /\ Idle \in Running
<1>1. <<>> \in Seq(Command)
  OBVIOUS
<1>2. \A c \in Seq(Command), a \in BOOLEAN, b \in BOOLEAN, n \in Nat \cup {NoPlan}, d \in Database \cup {NoDocument} :
        /\ [pc |-> "idle", plan |-> n, effective |-> d, commands |-> c,
           read |-> d, alone |-> a, refused |-> b, result |-> "none"] \in Running
        /\ [pc |-> "idle", plan |-> n, effective |-> d, commands |-> c,
           read |-> d, alone |-> a, refused |-> b, result |-> "none"].pc = "idle"
  <2> TAKE c \in Seq(Command), a \in BOOLEAN, b \in BOOLEAN, n \in Nat \cup {NoPlan}, d \in Database \cup {NoDocument}
  <2>1. "idle" \in Stage
    BY DEF Stage
  <2>2. "none" \in Result
    BY DEF Result
  <2> QED BY <2>1, <2>2 DEF Running
<1>3. TRUE \in BOOLEAN /\ FALSE \in BOOLEAN /\ NoPlan \in Nat \cup {NoPlan} /\ NoDocument \in Database \cup {NoDocument}
  OBVIOUS
<1> QED BY <1>1, <1>2, <1>3, Zenon DEF Idle

LEMMA BeginApplyKept ==
    ASSUME DynSecInv, NEW r \in Request, NEW p \in DOMAIN plans, BeginApply(r, p)
    PROVE  DynSecInv'
<1>1. PICK d \in {plans[p].desired} \cup (Document \cap Resent(plans[p].desired)) :
        req' = [req EXCEPT ![r] = [Idle EXCEPT !.plan = p, !.effective = d,
                   !.pc = IF plans[p].revision = "none" THEN "read" ELSE "config"]]
  BY DEF BeginApply
<1>2. plans[p] \in StoredPlan /\ p \in Nat
  BY DEF DynSecInv, DynSecTypeOK
<1>3. d \in Database
  BY <1>2, DynSecAssumption DEF StoredPlan
<1> DEFINE stage == IF plans[p].revision = "none" THEN "read" ELSE "config"
<1>4. stage \in {"read", "config"} /\ (stage = "config" => plans[p].revision # "none")
  OBVIOUS
<1> DEFINE x == [Idle EXCEPT !.plan = p, !.effective = d, !.pc = stage]
<1> HIDE DEF stage
<1>5. x \in Running /\ x.pc = stage /\ x.plan = p /\ x.effective = d
  BY <1>2, <1>3, <1>4, IdleFacts DEF Running, Stage
<1>6. req' = [req EXCEPT ![r] = x]
  BY <1>1 DEF stage
<1> HIDE DEF x
<1>7. RequestOK(x, plans, db)
  BY <1>3, <1>4, <1>5 DEF RequestOK
<1>8. plans \in Seq(StoredPlan) /\ Grown(plans, plans)
  BY NoGrowth DEF DynSecInv, DynSecTypeOK
<1> QED BY <1>5, <1>6, <1>7, <1>8, QuietStep DEF BeginApply

LEMMA ConfigFailsKept ==
    ASSUME DynSecInv, NEW r \in Request, ConfigFails(r)
    PROVE  DynSecInv'
<1>1. req[r].pc = "config" /\ Fail(r, "config")
  BY DEF ConfigFails
<1>2. req[r].plan \in DOMAIN plans /\ plans \in Seq(StoredPlan) /\ plans[req[r].plan].revision # "none"
  BY <1>1, PlanOf DEF DynSecInv, DynSecTypeOK, RequestsKept, RequestOK
<1>3. plans' \in Seq(StoredPlan) /\ Grown(plans, plans') /\ DOMAIN plans' = DOMAIN plans
  <2>1. CASE UNCHANGED plans
    BY <1>2, <2>1, NoGrowth
  <2>2. CASE plans' = [plans EXCEPT ![req[r].plan].revision = "applied"]
    BY <1>2, <2>2, MarkGrows
  <2> QED BY <2>1, <2>2 DEF ConfigFails
<1>4. UNCHANGED <<db, file, backend, applies, foreign, adoptVars>>
  BY DEF ConfigFails
<1>5. "config" \in Result
  BY DEF Result
<1> QED BY <1>1, <1>3, <1>4, <1>5, FailStep

LEMMA PlainFailures ==
    ASSUME DynSecInv, NEW r \in Request, NEW why \in Result, Fail(r, why),
           UNCHANGED <<db, file, backend, plans, foreign, adoptVars>>
    PROVE  DynSecInv'
<1>1. plans' \in Seq(StoredPlan) /\ Grown(plans, plans') /\ DOMAIN plans' = DOMAIN plans
  BY NoGrowth DEF DynSecInv, DynSecTypeOK
<1> QED BY <1>1, FailStep

LEMMA FailuresKept ==
    ASSUME DynSecInv, NEW r \in Request, ReadFails(r) \/ SendFails(r) \/ ReadBackFails(r)
    PROVE  DynSecInv'
<1>1. \E why \in Result : Fail(r, why)
  BY DEF ReadFails, SendFails, ReadBackFails, Result
<1>2. UNCHANGED <<db, file, backend, plans, foreign, adoptVars>>
  BY DEF ReadFails, SendFails, ReadBackFails
<1> QED BY <1>1, <1>2, PlainFailures

LEMMA MaskEmpty ==
    ASSUME NEW c \in Seq(Command), maskDynSecPlan(c) = <<>>
    PROVE  c = <<>>
<1>1. DOMAIN maskDynSecPlan(c) = DOMAIN c
  BY DEF maskDynSecPlan
<1>2. DOMAIN c = {}
  BY <1>1
<1> QED BY <1>2

LEMMA ReadCurrentKept ==
    ASSUME DynSecInv, NEW r \in Request, ReadCurrent(r)
    PROVE  DynSecInv'
<1> DEFINE plan == BuildPlan(ReadDatabase, req[r].effective)
<1>1. req[r].pc = "read" /\ db # NoDocument /\ UNCHANGED <<db, file, backend, plans, foreign, adoptVars>>
  BY DEF ReadCurrent
<1>2. /\ req[r] \in Running /\ req[r].plan \in DOMAIN plans /\ plans[req[r].plan] \in StoredPlan
      /\ PlanOK(plans[req[r].plan]) /\ req[r].effective \in Database
  BY <1>1, PlanOf
<1>3. db \in Database
  BY <1>1 DEF DynSecInv, DynSecTypeOK
<1>4. ReadDatabase \in Database
  BY <1>3, DocumentViews DEF ReadDatabase
<1>5. plan \in Seq(Command)
  BY <1>2, <1>4, BuildPlanType
<1>6. CASE ~Accepted(r, plan)
  <2>1. Fail(r, "conflict")
    BY <1>6 DEF ReadCurrent
  <2>2. "conflict" \in Result
    BY DEF Result
  <2> QED BY <1>1, <2>1, <2>2, PlainFailures
<1>7. CASE Accepted(r, plan)
  <2> DEFINE stage == IF plan = <<>> THEN "verify" ELSE "send"
             x == [req[r] EXCEPT !.pc = stage, !.read = ReadDatabase, !.commands = plan, !.alone = TRUE]
  <2>1. req' = [req EXCEPT ![r] = x]
    BY <1>7 DEF ReadCurrent
  <2>2. stage \in {"verify", "send"} /\ (stage = "send" => plan # <<>>)
    OBVIOUS
  <2>3. BaseUnchanged(r) /\ maskDynSecPlan(plan) = plans[req[r].plan].commands
    BY <1>7 DEF Accepted, sameDynSecPlan
  <2> HIDE DEF plan, stage
  <2>4. \A b \in BOOLEAN : LET y == [req[r] EXCEPT !.pc = stage, !.read = ReadDatabase, !.commands = plan, !.alone = b] IN
           y \in Running /\ y.pc = stage /\ y.plan = req[r].plan /\ y.effective = req[r].effective /\ y.commands = plan
    BY <1>2, <1>4, <1>5, <2>2 DEF Running, Stage
  <2>5. TRUE \in BOOLEAN
    OBVIOUS
  <2>6. x \in Running /\ x.pc = stage /\ x.plan = req[r].plan /\ x.effective = req[r].effective /\ x.commands = plan
    BY <2>4, <2>5, Zenon
  <2> HIDE DEF x
  <2>7. stage = "send" => plans[req[r].plan].kind = "update"
    <3>1. plans[req[r].plan].kind = "adopt" => plan = <<>>
      BY <1>2, <1>5, <2>3, MaskEmpty DEF PlanOK
    <3>2. plans[req[r].plan].kind \in {"update", "adopt"}
      BY <1>2 DEF StoredPlan
    <3> QED BY <2>2, <3>1, <3>2
  <2>8. stage = "send" => Redacted(db) = plans[req[r].plan].base
    BY <2>3, <2>7 DEF BaseUnchanged, dynsecStateHash
  <2>9. RequestOK(x, plans, db)
    BY <1>1, <1>2, <2>2, <2>3, <2>6, <2>7, <2>8 DEF RequestOK
  <2>10. plans \in Seq(StoredPlan) /\ Grown(plans, plans)
    BY NoGrowth DEF DynSecInv, DynSecTypeOK
  <2> QED BY <1>1, <2>1, <2>6, <2>9, <2>10, QuietStep
<1> QED BY <1>6, <1>7

LEMMA ReadBackKept ==
    ASSUME DynSecInv, NEW r \in Request, ReadBack(r)
    PROVE  DynSecInv'
<1>1. req[r].pc = "verify" /\ UNCHANGED <<db, file, backend, plans, foreign, adoptVars>>
  BY DEF ReadBack
<1>2. req[r] \in Running /\ req[r].plan \in DOMAIN plans /\ req[r].effective \in Database
  BY <1>1, PlanOf
<1>3. CASE ~Verify(req[r].effective, ReadDatabase)
  <2>1. Fail(r, "unverified")
    BY <1>3 DEF ReadBack
  <2>2. "unverified" \in Result
    BY DEF Result
  <2> QED BY <1>1, <2>1, <2>2, PlainFailures
<1>4. CASE Verify(req[r].effective, ReadDatabase)
  <2> DEFINE x == [req[r] EXCEPT !.pc = "consume", !.read = ReadDatabase]
  <2>1. req' = [req EXCEPT ![r] = x]
    BY <1>4 DEF ReadBack
  <2>2. db \in Database
    BY <1>1 DEF DynSecInv, DynSecTypeOK, RequestsKept, RequestOK
  <2>d. ReadDatabase \in Database
    BY <2>2, DocumentViews DEF ReadDatabase
  <2>3. x \in Running /\ x.pc = "consume" /\ x.plan = req[r].plan /\ x.effective = req[r].effective
    BY <1>2, <2>d DEF Running, Stage
  <2> HIDE DEF x
  <2>4. RequestOK(x, plans, db)
    BY <1>2, <2>2, <2>3, DynSecAssumption DEF RequestOK
  <2>5. plans \in Seq(StoredPlan) /\ Grown(plans, plans)
    BY NoGrowth DEF DynSecInv, DynSecTypeOK
  <2> QED BY <1>1, <2>1, <2>3, <2>4, <2>5, QuietStep
<1> QED BY <1>3, <1>4

LEMMA ConsumeKept ==
    ASSUME DynSecInv, NEW r \in Request, Consume(r)
    PROVE  DynSecInv'
<1>1. req[r].pc = "consume" /\ UNCHANGED <<db, file, backend, foreign, adoptVars>>
      /\ plans' = [plans EXCEPT ![req[r].plan].consumed = TRUE]
  BY DEF Consume, ConsumeDynSecPlan
<1>2. req[r].plan \in DOMAIN plans /\ plans \in Seq(StoredPlan)
  BY <1>1, PlanOf DEF DynSecInv, DynSecTypeOK
<1>3. plans' \in Seq(StoredPlan) /\ Grown(plans, plans') /\ DOMAIN plans' = DOMAIN plans
  BY <1>1, <1>2, MarkGrows, Zenon
<1> DEFINE why == CASE plans[req[r].plan].consumed -> "consumed"
                    [] ~CheckControlChannel(req[r].read) -> "guard"
                    [] OTHER -> "ok"
<1>4. why \in Result
  BY DEF Result
<1>5. Fail(r, why)
  BY DEF Consume
<1> HIDE DEF why
<1> QED BY <1>1, <1>3, <1>4, <1>5, FailStep

\* What a step that writes the database keeps of the requests.
LEMMA SendFacts ==
    ASSUME DynSecInv, NEW r \in Request, Send(r)
    PROVE  /\ db \in Database /\ req[r].commands \in Seq(Command) /\ db' = Execute(db, req[r].commands).db
           /\ db' \in Database /\ plans[req[r].plan].kind = "update" /\ req[r].plan \in DOMAIN plans
           /\ maskDynSecPlan(req[r].commands) = plans[req[r].plan].commands
           /\ req' \in [Request -> Running]
           /\ req'[r].pc \in {"done", "verify"} /\ req'[r].plan = req[r].plan /\ req'[r].effective = req[r].effective
           /\ \A q \in Request : q # r => req'[q] = Shaken(req[q])
<1>1. req[r].pc = "send" /\ db' = Execute(db, req[r].commands).db
  BY DEF Send
<1>2. req[r] \in Running /\ req[r].plan \in DOMAIN plans
  BY <1>1, PlanOf
<1>3. /\ req[r].commands \in Seq(Command) /\ db \in Database
      /\ plans[req[r].plan].kind = "update" /\ maskDynSecPlan(req[r].commands) = plans[req[r].plan].commands
  BY <1>1, <1>2 DEF Running, DynSecInv, DynSecTypeOK, RequestsKept, RequestOK
<1>4. db' \in Database /\ Execute(db, req[r].commands).refused \in BOOLEAN
  BY <1>1, <1>3, ExecuteType DEF Accumulator
<1> DEFINE bad == Execute(db, req[r].commands).refused
<1> HIDE DEF bad
<1>5. PICK stage \in {"done", "verify"}, result \in Result :
         req' = [Disturbed(r) EXCEPT ![r] = [@ EXCEPT !.refused = bad, !.pc = stage, !.result = result]]
  <2>1. PICK answer \in Answers :
          req' = [Disturbed(r) EXCEPT ![r] =
                    [@ EXCEPT !.refused = bad,
                              !.pc = IF answer = "timeout" \/ (answer = "arrives" /\ bad) THEN "done" ELSE "verify",
                              !.result = IF answer = "timeout" THEN "timeout"
                                         ELSE IF answer = "arrives" /\ bad THEN "refused" ELSE "none"]]
    BY Zenon DEF Send, bad
  <2> DEFINE stage == IF answer = "timeout" \/ (answer = "arrives" /\ bad) THEN "done" ELSE "verify"
             result == IF answer = "timeout" THEN "timeout"
                       ELSE IF answer = "arrives" /\ bad THEN "refused" ELSE "none"
  <2>2. stage \in {"done", "verify"} /\ result \in Result
    BY DEF Result
  <2>3. req' = [Disturbed(r) EXCEPT ![r] = [@ EXCEPT !.refused = bad, !.pc = stage, !.result = result]]
    BY <2>1, Zenon
  <2> HIDE DEF stage, result
  <2> QED BY <2>2, <2>3
<1>6. /\ DOMAIN Disturbed(r) = Request /\ Disturbed(r) = [q \in Request |-> Disturbed(r)[q]]
      /\ Disturbed(r)[r] = req[r]
      /\ \A q \in Request : q # r => Disturbed(r)[q] = Shaken(req[q])
  BY Zenon DEF Disturbed, Shaken
<1>7. \A q \in Request : Shaken(req[q]) \in Running
  BY ShakenKept DEF DynSecInv, DynSecTypeOK
<1> DEFINE y == [req[r] EXCEPT !.refused = bad, !.pc = stage, !.result = result]
<1>8. y \in Running /\ y.pc = stage /\ y.plan = req[r].plan /\ y.effective = req[r].effective
  BY <1>2, <1>4 DEF Running, Stage, bad
<1>9. req' = [Disturbed(r) EXCEPT ![r] = y]
  BY <1>5, <1>6, Zenon
<1> HIDE DEF y
<1>10. /\ req' \in [Request -> Running] /\ req'[r] = y
       /\ \A q \in Request : q # r => req'[q] = Shaken(req[q])
  BY <1>6, <1>7, <1>8, <1>9
<1> QED BY <1>1, <1>2, <1>3, <1>4, <1>8, <1>10

\* Sending the commands keeps it, although the database changes under the others.
LEMMA SendKept ==
    ASSUME DynSecInv, NEW r \in Request, Send(r)
    PROVE  DynSecInv'
<1>1. /\ UNCHANGED <<backend, plans, foreign>> /\ adoptions' = adoptions /\ adopting' = adopting /\ cut' = cut
      /\ file' = db' /\ req[r].pc = "send"
  BY DEF Send, adoptVars
<1>2. /\ db \in Database /\ db' \in Database /\ plans[req[r].plan].kind = "update" /\ req[r].plan \in DOMAIN plans
      /\ req' \in [Request -> Running]
      /\ req'[r].pc \in {"done", "verify"} /\ req'[r].plan = req[r].plan /\ req'[r].effective = req[r].effective
      /\ \A q \in Request : q # r => req'[q] = Shaken(req[q])
  BY SendFacts
<1>3. db # NoDocument /\ db' # NoDocument
  BY <1>2, DynSecAssumption
<1>4. DynSecTypeOK'
  BY <1>1, <1>2 DEF DynSecInv, DynSecTypeOK
<1>5. PlansKept'
  BY <1>1 DEF DynSecInv, PlansKept
<1>6. RequestsKept'
  <2>1. ASSUME NEW q \in Request, q # r PROVE RequestOK(req'[q], plans, db')
    BY <1>2, <1>3, <2>1, ShakenKept DEF DynSecInv, DynSecTypeOK, RequestsKept
  <2>2. req[r].effective \in Database
    BY <1>1, PlanOf
  <2>3. RequestOK(req'[r], plans, db')
    BY <1>2, <1>3, <2>2 DEF RequestOK
  <2> QED BY <1>1, <2>1, <2>3 DEF RequestsKept
<1>7. FilesKept'
  BY <1>1, <1>3 DEF DynSecInv, FilesKept
<1>8. AdoptionsKept' /\ CredentialsKept'
  <2>1. ~OnlyAdopted(plans, foreign)'
    BY <1>1, <1>2 DEF OnlyAdopted
  <2>2. ~cut => adopting = {}
    BY <1>3 DEF DynSecInv, AdoptionsKept
  <2> QED BY <1>1, <2>1, <2>2 DEF AdoptionsKept, CredentialsKept
<1> QED BY <1>4, <1>5, <1>6, <1>7, <1>8 DEF DynSecInv

LEMMA ForeignKept ==
    ASSUME DynSecInv, NEW m \in Foreign, ForeignCommand(m)
    PROVE  DynSecInv'
<1>1. /\ db # NoDocument /\ foreign' = foreign + 1 /\ db' = Execute(db, <<m>>).db
      /\ UNCHANGED <<backend, plans>> /\ adoptions' = adoptions /\ adopting' = adopting /\ cut' = cut /\ file' = db'
  BY DEF ForeignCommand, adoptVars
<1>2. db \in Database /\ foreign \in Nat
  BY <1>1 DEF DynSecInv, DynSecTypeOK
<1>3. <<m>> \in Seq(Command)
  BY DynSecAssumption
<1>4. db' \in Database
  BY <1>1, <1>2, <1>3, ExecuteType DEF Accumulator
<1>5. req' = [q \in Request |-> Shaken(req[q])]
  BY Zenon DEF ForeignCommand, Shaken
<1>6. req' \in [Request -> Running] /\ \A q \in Request : req'[q] = Shaken(req[q])
  BY <1>5, ShakenKept DEF DynSecInv, DynSecTypeOK
<1>7. db' # NoDocument
  BY <1>4, DynSecAssumption
<1>8. DynSecTypeOK'
  BY <1>1, <1>2, <1>4, <1>6 DEF DynSecInv, DynSecTypeOK
<1>9. PlansKept'
  BY <1>1 DEF DynSecInv, PlansKept
<1>10. RequestsKept'
  BY <1>1, <1>6, <1>7, ShakenKept DEF DynSecInv, DynSecTypeOK, RequestsKept
<1>11. FilesKept'
  BY <1>1, <1>7 DEF DynSecInv, FilesKept
<1>12. AdoptionsKept' /\ CredentialsKept'
  <2>1. ~OnlyAdopted(plans, foreign)'
    BY <1>1, <1>2 DEF OnlyAdopted
  <2>2. ~cut => adopting = {}
    BY <1>1 DEF DynSecInv, AdoptionsKept
  <2> QED BY <1>1, <2>1, <2>2 DEF AdoptionsKept, CredentialsKept
<1> QED BY <1>8, <1>9, <1>10, <1>11, <1>12 DEF DynSecInv

LEMMA ApplyConfigKept ==
    ASSUME DynSecInv, NEW r \in Request, ApplyConfig(r)
    PROVE  DynSecInv'
<1>1. /\ req[r].pc = "config" /\ plans[req[r].plan].revision = "previewed" /\ file # NoDocument
      /\ plans' = [plans EXCEPT ![req[r].plan].revision = "applied"]
      /\ backend' = "dynamic-security" /\ db' = file
      /\ req' = [Disturbed(r) EXCEPT ![r].pc = "read"]
      /\ UNCHANGED <<file, foreign, adoptions, adopting>>
  BY DEF ApplyConfig
<1>c. ~cut' => ~cut /\ adopting = {}
  BY DEF ApplyConfig
<1>2. /\ req[r] \in Running /\ req[r].plan \in DOMAIN plans /\ plans[req[r].plan] \in StoredPlan
      /\ PlanOK(plans[req[r].plan]) /\ req[r].effective \in Database /\ plans \in Seq(StoredPlan)
  BY <1>1, PlanOf DEF DynSecInv, DynSecTypeOK
<1>4. file \in Database /\ file # NoDocument
  BY <1>1 DEF DynSecInv, DynSecTypeOK
<1>5. plans' \in Seq(StoredPlan) /\ Grown(plans, plans') /\ DOMAIN plans' = DOMAIN plans
  BY <1>1, <1>2, MarkGrows
<1>6. /\ DOMAIN Disturbed(r) = Request /\ Disturbed(r) = [q \in Request |-> Disturbed(r)[q]]
      /\ Disturbed(r)[r] = req[r]
      /\ \A q \in Request : q # r => Disturbed(r)[q] = Shaken(req[q])
  BY Zenon DEF Disturbed, Shaken
<1>7. \A q \in Request : Shaken(req[q]) \in Running
  BY ShakenKept DEF DynSecInv, DynSecTypeOK
<1> DEFINE y == [req[r] EXCEPT !.pc = "read"]
<1>8. y \in Running /\ y.pc = "read" /\ y.plan = req[r].plan /\ y.effective = req[r].effective
  BY <1>2 DEF Running, Stage
<1>9. req' = [Disturbed(r) EXCEPT ![r] = y]
  BY <1>1, <1>6, Zenon
<1> HIDE DEF y
<1>10. /\ req' \in [Request -> Running] /\ req'[r] = y
       /\ \A q \in Request : q # r => req'[q] = Shaken(req[q])
  BY <1>6, <1>7, <1>8, <1>9
<1>11. DynSecTypeOK'
  BY <1>1, <1>4, <1>5, <1>10 DEF DynSecInv, DynSecTypeOK
<1>12. PlansKept'
  BY <1>1, <1>5, PlanKept DEF DynSecInv, DynSecTypeOK, PlansKept, Grown
<1>13. RequestsKept'
  <2>1. ASSUME NEW q \in Request, q # r PROVE RequestOK(req'[q], plans', db')
    <3>1. RequestOK(req[q], plans', db)
      BY <1>5, RequestKept DEF DynSecInv, RequestsKept
    <3> QED BY <1>1, <1>4, <1>10, <2>1, <3>1, ShakenKept DEF DynSecInv, DynSecTypeOK
  <2>2. RequestOK(y, plans', db')
    BY <1>2, <1>5, <1>8 DEF RequestOK
  <2> QED BY <1>10, <2>1, <2>2 DEF RequestsKept
<1>14. FilesKept'
  BY <1>1, <1>4 DEF DynSecInv, FilesKept
<1>l. OnlyAdopted(plans, foreign)' => OnlyAdopted(plans, foreign) /\ LastOf(plans)' = LastOf(plans)
  BY <1>1, <1>2, <1>5, LastKept
<1>15. AdoptionsKept' /\ CredentialsKept'
  <2> SUFFICES ASSUME ~cut' PROVE AdoptionsKept' /\ CredentialsKept'
    BY DEF AdoptionsKept, CredentialsKept
  <2>1. ~cut /\ adopting = {} /\ adopting' = {}
    BY <1>1, <1>c
  <2>2. OnlyAdopted(plans, foreign)' => file.clients[User].password = Generated[LastOf(plans)']
    BY <1>l, <2>1 DEF DynSecInv, AdoptionsKept, NoneWritten
  <2> QED BY <1>1, <2>1, <2>2 DEF AdoptionsKept, CredentialsKept
<1> QED BY <1>11, <1>12, <1>13, <1>14, <1>15 DEF DynSecInv

LEMMA MaskType ==
    ASSUME NEW c \in Seq(Command)
    PROVE  maskDynSecPlan(c) \in Seq(Command)
<1> DEFINE Masking(m) == IF "password" \in DOMAIN m /\ m.password # NoPassword
                         THEN [m EXCEPT !.password = Masked] ELSE m
<1>1. ASSUME NEW m \in Command PROVE Masking(m) \in Command
  <2>1. /\ m.command \notin {"createClient", "setClientPassword"} => "password" \notin DOMAIN m
        /\ m.command = "createClient" => m \in [command : {"createClient"}, client : Client, roles : SUBSET Role, password : Secret]
        /\ m.command = "setClientPassword" => m \in [command : {"setClientPassword"}, client : Client, password : Secret]
    BY DEF Command
  <2>2. Masked \in Secret
    BY DEF Secret
  <2>3. CASE m.command = "createClient"
    <3>1. [m EXCEPT !.password = Masked] \in [command : {"createClient"}, client : Client, roles : SUBSET Role, password : Secret]
      BY <2>1, <2>2, <2>3
    <3>2. [m EXCEPT !.password = Masked] \in Command
      BY <3>1 DEF Command
    <3> QED BY <3>2
  <2>4. CASE m.command = "setClientPassword"
    <3>1. [m EXCEPT !.password = Masked] \in [command : {"setClientPassword"}, client : Client, password : Secret]
      BY <2>1, <2>2, <2>4
    <3>2. [m EXCEPT !.password = Masked] \in Command
      BY <3>1 DEF Command
    <3> QED BY <3>2
  <2> QED BY <2>1, <2>3, <2>4
<1>2. maskDynSecPlan(c) = [i \in DOMAIN c |-> Masking(c[i])]
  BY DEF maskDynSecPlan
<1> HIDE DEF Masking
<1>3. DOMAIN c = 1..Len(c) /\ Len(c) \in Nat /\ \A i \in 1..Len(c) : Masking(c[i]) \in Command
  BY <1>1
<1>4. [i \in 1..Len(c) |-> Masking(c[i])] \in Seq(Command)
  BY <1>3
<1> QED BY <1>2, <1>3, <1>4

\* One more plan, nothing else of the flow.
LEMMA PlanAdded ==
    ASSUME DynSecInv, NEW p \in StoredPlan, plans' = Append(plans, p), PlanOK(p),
           UNCHANGED <<db, file, req, backend, foreign, adoptions>>, adopting' \in SUBSET Adoption
    PROVE  DynSecTypeOK' /\ PlansKept' /\ RequestsKept'
<1>1. /\ plans' \in Seq(StoredPlan) /\ Grown(plans, plans')
      /\ \A i \in DOMAIN plans' : i \notin DOMAIN plans => plans'[i] = p
  BY AppendGrows DEF DynSecInv, DynSecTypeOK
<1>2. DynSecTypeOK'
  BY <1>1 DEF DynSecInv, DynSecTypeOK
<1>3. PlansKept'
  <2>1. ASSUME NEW i \in DOMAIN plans' PROVE PlanOK(plans'[i])
    <3>1. CASE i \in DOMAIN plans
      BY <1>1, <3>1, PlanKept DEF DynSecInv, DynSecTypeOK, PlansKept, Grown
    <3>2. CASE i \notin DOMAIN plans
      BY <1>1, <3>2
    <3> QED BY <3>1, <3>2
  <2> QED BY <2>1 DEF PlansKept
<1>4. RequestsKept'
  BY <1>1, RequestKept DEF DynSecInv, RequestsKept
<1> QED BY <1>2, <1>3, <1>4

LEMMA UpdateRecord ==
    ASSUME NEW b \in Database \cup {NoDocument}, NEW c \in Seq(Command), NEW d \in Database, NEW s \in Database
    PROVE  LET p == [kind |-> "update", base |-> b, commands |-> c, desired |-> d, revision |-> "none", over |-> "none",
                     generation |-> 0, consumed |-> FALSE, promised |-> s]
           IN  /\ p \in StoredPlan /\ p.kind = "update" /\ p.base = b /\ p.commands = c /\ p.desired = d
               /\ p.revision = "none" /\ p.promised = s
<1>1. \A f \in BOOLEAN : LET p == [kind |-> "update", base |-> b, commands |-> c, desired |-> d, revision |-> "none",
                     over |-> "none", generation |-> 0, consumed |-> f, promised |-> s]
           IN  /\ p \in StoredPlan /\ p.kind = "update" /\ p.base = b /\ p.commands = c /\ p.desired = d
               /\ p.revision = "none" /\ p.promised = s
  BY DEF StoredPlan
<1>2. FALSE \in BOOLEAN
  OBVIOUS
<1> QED BY <1>1, <1>2, Zenon

LEMMA AdoptRecord ==
    ASSUME NEW d \in Database, NEW w \in {"none", "file", "dynamic-security"}, NEW n \in Nat
    PROVE  LET p == [kind |-> "adopt", base |-> NoDocument, commands |-> <<>>, desired |-> d, revision |-> "previewed",
                     over |-> w, generation |-> n, consumed |-> FALSE, promised |-> d]
           IN  /\ p \in StoredPlan /\ p.kind = "adopt" /\ p.commands = <<>> /\ p.revision = "previewed"
               /\ p.generation = n
<1>1. \A f \in BOOLEAN : LET p == [kind |-> "adopt", base |-> NoDocument, commands |-> <<>>, desired |-> d, revision |-> "previewed",
                     over |-> w, generation |-> n, consumed |-> f, promised |-> d]
           IN  /\ p \in StoredPlan /\ p.kind = "adopt" /\ p.commands = <<>> /\ p.revision = "previewed"
               /\ p.generation = n
  BY DEF StoredPlan
<1>2. FALSE \in BOOLEAN
  OBVIOUS
<1> QED BY <1>1, <1>2, Zenon

\* A new plan satisfies what the invariant says of plans.
LEMMA PreviewKept ==
    ASSUME DynSecInv, NEW d \in Document, PreviewDynSec(d)
    PROVE  DynSecInv'
<1> DEFINE desired == Normalize(d)
           plan == BuildPlan(ReadDatabase, desired)
           p == [kind |-> "update", base |-> dynsecStateHash(db),
                             commands |-> maskDynSecPlan(plan), desired |-> Redacted(desired),
                             revision |-> "none", over |-> "none", generation |-> 0, consumed |-> FALSE,
                             promised |-> Redacted(Execute(db, plan).db)]
<1>1. /\ db # NoDocument /\ plans' = Append(plans, p)
      /\ UNCHANGED <<db, file, backend, req, foreign, adoptVars>>
  BY Zenon DEF PreviewDynSec, InsertDynSecPlan
<1>2. db \in Database /\ d \in Database
  BY <1>1, DynSecAssumption DEF DynSecInv, DynSecTypeOK
<1>3. desired \in Database /\ Redacted(desired) \in Database /\ ReadDatabase \in Database
  BY <1>2, DocumentViews DEF ReadDatabase
<1> HIDE DEF desired
<1>4. plan \in Seq(Command)
  BY <1>3, BuildPlanType
<1> HIDE DEF plan
<1>5. maskDynSecPlan(plan) \in Seq(Command)
  BY <1>4, MaskType
<1>6. Redacted(Execute(db, plan).db) \in Database
  BY <1>2, <1>4, ExecuteType, DocumentViews DEF Accumulator
<1>7. dynsecStateHash(db) = Redacted(db) /\ Redacted(db) \in Database
  BY <1>2, DocumentViews DEF dynsecStateHash
<1>8. dynsecStateHash(db) \in Database \cup {NoDocument}
  BY <1>7
<1>9. /\ p \in StoredPlan /\ p.kind = "update" /\ p.base = dynsecStateHash(db) /\ p.commands = maskDynSecPlan(plan)
      /\ p.revision = "none" /\ p.promised = Redacted(Execute(db, plan).db)
  BY <1>3, <1>5, <1>6, <1>8, UpdateRecord, ZenonT(60)
<1> HIDE DEF p
<1>10. Faithful(p)
  BY <1>2, <1>4, <1>7, <1>9 DEF Faithful
<1>11. PlanOK(p)
  BY <1>9, <1>10 DEF PlanOK
<1>u. adoptions' = adoptions /\ adopting' = adopting /\ cut' = cut
  BY <1>1 DEF adoptVars
<1>12. plans \in Seq(StoredPlan) /\ adopting' \in SUBSET Adoption
  BY <1>u DEF DynSecInv, DynSecTypeOK
<1>13. DynSecTypeOK' /\ PlansKept' /\ RequestsKept'
  BY <1>1, <1>u, <1>9, <1>11, <1>12, PlanAdded
<1>14. FilesKept'
  BY <1>1 DEF DynSecInv, FilesKept
<1>15. AdoptionsKept' /\ CredentialsKept'
  <2>1. Len(plans) + 1 \in DOMAIN plans' /\ plans'[Len(plans) + 1] = p
    BY <1>1, <1>12
  <2>2. plans'[Len(plans) + 1].kind # "adopt"
    BY <1>9, <2>1
  <2>3. ~OnlyAdopted(plans, foreign)'
    BY <2>1, <2>2 DEF OnlyAdopted
  <2> QED BY <1>1, <1>u, <2>3 DEF DynSecInv, AdoptionsKept, CredentialsKept
<1> QED BY <1>13, <1>14, <1>15 DEF DynSecInv

\* The adoptions under way.
LEMMA AdoptionFacts ==
    ASSUME NEW a \in Adoption
    PROVE  /\ a.anonymous \in BOOLEAN /\ a.generation \in Nat /\ Generated[a.generation] \in Password
           /\ a.stage \in {"built", "written"}
           /\ LET w == [a EXCEPT !.stage = "written"]
              IN  w \in Adoption /\ w.stage = "written" /\ w.generation = a.generation
<1>1. a.anonymous \in BOOLEAN
  BY Zenon DEF Adoption
<1>2. a.generation \in 1..Len(Generated) /\ a.stage \in {"built", "written"}
  BY DEF Adoption
<1>3. a.generation \in Nat /\ Generated[a.generation] \in Password
  BY <1>2, DynSecAssumption
<1>4. LET w == [a EXCEPT !.stage = "written"]
      IN  w \in Adoption /\ w.stage = "written" /\ w.generation = a.generation
  BY DEF Adoption
<1> QED BY <1>1, <1>2, <1>3, <1>4, Zenon

LEMMA NewAdoption ==
    ASSUME NEW n \in 1..Len(Generated), NEW b \in BOOLEAN
    PROVE  LET a == [stage |-> "built", anonymous |-> b, generation |-> n] IN a \in Adoption /\ a.stage = "built"
BY DEF Adoption

LEMMA BuildKept ==
    ASSUME DynSecInv, BuildAdopted
    PROVE  DynSecInv'
<1>1. PICK anonymous \in BOOLEAN :
        adopting' = adopting \cup {[stage |-> "built", anonymous |-> anonymous, generation |-> adoptions + 1]}
  BY Zenon DEF BuildAdopted
<1>2. /\ adoptions < Len(Generated) /\ backend # "dynamic-security" /\ adoptions' = adoptions + 1
      /\ UNCHANGED <<db, file, backend, plans, req, foreign>>
  BY DEF BuildAdopted, DetectAccessBackend
<1>c. ~cut' => ~cut /\ adopting = {}
  BY DEF BuildAdopted
<1>3. adoptions \in Nat /\ adoptions + 1 \in Nat /\ adoptions + 1 \in 1..Len(Generated)
  BY <1>2, DynSecAssumption DEF DynSecInv, DynSecTypeOK
<1> DEFINE a == [stage |-> "built", anonymous |-> anonymous, generation |-> adoptions + 1]
<1>4. a \in Adoption /\ a.stage = "built"
  BY <1>3, NewAdoption
<1>5. adopting' = adopting \cup {a}
  BY <1>1
<1> HIDE DEF a
<1>6. DynSecTypeOK' /\ PlansKept' /\ RequestsKept' /\ FilesKept'
  BY <1>2, <1>3, <1>4, <1>5 DEF DynSecInv, DynSecTypeOK, PlansKept, RequestsKept, FilesKept
<1>7. db = NoDocument
  BY <1>2 DEF DynSecInv, DynSecTypeOK, FilesKept
<1>8. CredentialsKept'
  BY <1>2, <1>7 DEF CredentialsKept
<1>9. AdoptionsKept'
  <2> SUFFICES ASSUME ~cut' PROVE AdoptionsKept'
    BY DEF AdoptionsKept
  <2>1. ~cut /\ adopting = {} /\ adopting' = {a}
    BY <1>5, <1>c
  <2>2. NoneWritten(adopting)
    BY <2>1 DEF NoneWritten
  <2>3. OnlyAdopted(plans, foreign) => file.clients[User].password = Generated[LastOf(plans)]
    BY <2>1, <2>2 DEF DynSecInv, AdoptionsKept
  <2>4. OnlyAdopted(plans, foreign)' => file'.clients[User].password = Generated[LastOf(plans)']
    BY <1>2, <2>3
  <2> QED BY <1>2, <1>4, <1>7, <2>1, <2>4 DEF AdoptionsKept
<1> QED BY <1>6, <1>8, <1>9 DEF DynSecInv

\* The document of an adoption under way, and the file written from it.
LEMMA AdoptedFacts ==
    ASSUME NEW a \in Adoption
    PROVE  /\ Adopted(a) \in Database /\ Redacted(Adopted(a)) \in Database
           /\ [Adopted(a) EXCEPT !.anonymous = NoGroup] \in Database
           /\ [Adopted(a) EXCEPT !.anonymous = NoGroup].clients[User].password = Generated[a.generation]
<1>1. a.anonymous \in BOOLEAN /\ Generated[a.generation] \in Password
  BY AdoptionFacts, Zenon
<1>2. /\ Adopted(a) \in Database /\ [Adopted(a) EXCEPT !.anonymous = NoGroup] \in Database
      /\ [Adopted(a) EXCEPT !.anonymous = NoGroup].clients[User].password = Generated[a.generation]
  BY <1>1, AdoptedType, Zenon DEF Adopted
<1> QED BY <1>2, DocumentViews

LEMMA WriteKept ==
    ASSUME DynSecInv, NEW a \in adopting, WriteAdopted(a)
    PROVE  DynSecInv'
<1> DEFINE w == [a EXCEPT !.stage = "written"]
<1>1. /\ file' = [Adopted(a) EXCEPT !.anonymous = NoGroup] /\ adopting' = (adopting \ {a}) \cup {w}
      /\ UNCHANGED <<db, backend, plans, req, foreign, adoptions, cut>>
  BY DEF WriteAdopted, writeDynsecDatabase
<1>2. a \in Adoption
  BY DEF DynSecInv, DynSecTypeOK
<1>3. w \in Adoption /\ w.stage = "written" /\ w.generation = a.generation
  BY <1>2, AdoptionFacts
<1> HIDE DEF w
<1>4. file' \in Database /\ file'.clients[User].password = Generated[a.generation]
  BY <1>1, <1>2, AdoptedFacts
<1>5. DynSecTypeOK' /\ PlansKept' /\ RequestsKept' /\ FilesKept'
  BY <1>1, <1>3, <1>4 DEF DynSecInv, DynSecTypeOK, PlansKept, RequestsKept, FilesKept
<1>6. CredentialsKept'
  BY <1>1 DEF DynSecInv, CredentialsKept
<1>7. AdoptionsKept'
  <2> SUFFICES ASSUME ~cut' PROVE AdoptionsKept'
    BY DEF AdoptionsKept
  <2>1. ~cut /\ db = NoDocument /\ \A b \in adopting : a = b
    BY <1>1 DEF DynSecInv, AdoptionsKept
  <2>2. adopting' = {w}
    BY <1>1, <2>1
  <2>3. ~NoneWritten(adopting')
    BY <1>3, <2>2 DEF NoneWritten
  <2> QED BY <1>1, <1>3, <1>4, <2>1, <2>2, <2>3 DEF AdoptionsKept
<1> QED BY <1>5, <1>6, <1>7 DEF DynSecInv

\* The plan an adoption stores.
LEMMA StoredAdoption ==
    ASSUME DynSecInv, NEW a \in adopting, StoreAdopted(a)
    PROVE  \E p \in StoredPlan : /\ p.kind = "adopt" /\ p.commands = <<>> /\ p.revision = "previewed"
                                 /\ p.generation = a.generation /\ plans' = Append(plans, p)
<1> DEFINE p == [kind |-> "adopt", base |-> NoDocument, commands |-> <<>>,
                 desired |-> Redacted(Adopted(a)), revision |-> "previewed",
                 over |-> backend, generation |-> a.generation, consumed |-> FALSE,
                 promised |-> Redacted(Adopted(a))]
<1>1. plans' = Append(plans, p)
  BY Zenon DEF StoreAdopted, InsertDynSecPlan, previewAdoptionConfig, DetectAccessBackend
<1>2. a \in Adoption /\ backend \in {"none", "file", "dynamic-security"} /\ plans \in Seq(StoredPlan)
  BY DEF DynSecInv, DynSecTypeOK
<1>3. Redacted(Adopted(a)) \in Database /\ a.generation \in Nat
  BY <1>2, AdoptedFacts, AdoptionFacts
<1>4. p \in StoredPlan /\ p.kind = "adopt" /\ p.commands = <<>> /\ p.revision = "previewed" /\ p.generation = a.generation
  BY <1>2, <1>3, AdoptRecord, Zenon
<1> HIDE DEF p
<1> QED BY <1>1, <1>4

LEMMA StoreKept ==
    ASSUME DynSecInv, NEW a \in adopting, StoreAdopted(a)
    PROVE  DynSecInv'
<1>p. PICK p \in StoredPlan : /\ p.kind = "adopt" /\ p.commands = <<>> /\ p.revision = "previewed"
                              /\ p.generation = a.generation /\ plans' = Append(plans, p)
  BY StoredAdoption
<1>1. /\ plans' = Append(plans, p) /\ a.stage = "written" /\ adopting' = adopting \ {a}
      /\ UNCHANGED <<db, file, backend, req, foreign, adoptions, cut>>
  BY <1>p DEF StoreAdopted
<1>2. plans \in Seq(StoredPlan)
  BY DEF DynSecInv, DynSecTypeOK
<1>4. p \in StoredPlan /\ p.kind = "adopt" /\ p.commands = <<>> /\ p.revision = "previewed" /\ p.generation = a.generation
  BY <1>p
<1>5. PlanOK(p)
  BY <1>4 DEF PlanOK
<1>6. adopting' \in SUBSET Adoption
  BY <1>1 DEF DynSecInv, DynSecTypeOK
<1>7. DynSecTypeOK' /\ PlansKept' /\ RequestsKept'
  BY <1>1, <1>4, <1>5, <1>6, PlanAdded
<1>8. FilesKept'
  BY <1>1 DEF DynSecInv, FilesKept
<1>9. LastOf(plans)' = a.generation
  <2>1. Len(plans') = Len(plans) + 1 /\ plans'[Len(plans) + 1] = p
    BY <1>1, <1>2, <1>4
  <2> QED BY <1>4, <2>1 DEF LastOf
<1>10. AdoptionsKept' /\ CredentialsKept'
  <2> SUFFICES ASSUME ~cut' PROVE AdoptionsKept' /\ CredentialsKept'
    BY DEF AdoptionsKept, CredentialsKept
  <2>1. ~cut /\ db = NoDocument /\ file.clients[User].password = Generated[a.generation] /\ \A b \in adopting : a = b
    BY <1>1 DEF DynSecInv, AdoptionsKept
  <2>2. adopting' = {}
    BY <1>1, <2>1
  <2> QED BY <1>1, <1>9, <2>1, <2>2 DEF AdoptionsKept, CredentialsKept
<1> QED BY <1>7, <1>8, <1>10 DEF DynSecInv

LEMMA AdoptFailsKept ==
    ASSUME DynSecInv, NEW a \in adopting, AdoptFails(a)
    PROVE  DynSecInv'
<1>1. /\ adopting' = adopting \ {a} /\ UNCHANGED <<db, backend, plans, req, foreign, adoptions>>
      /\ file' \in {file, NoDocument}
  BY DEF AdoptFails
<1>2. ~cut' => ~cut /\ file' = file /\ a.stage = "built"
  BY DEF AdoptFails
<1>3. DynSecTypeOK' /\ PlansKept' /\ RequestsKept' /\ FilesKept'
  BY <1>1 DEF DynSecInv, DynSecTypeOK, PlansKept, RequestsKept, FilesKept
<1>4. AdoptionsKept' /\ CredentialsKept'
  <2> SUFFICES ASSUME ~cut' PROVE AdoptionsKept' /\ CredentialsKept'
    BY DEF AdoptionsKept, CredentialsKept
  <2>1. ~cut /\ file' = file /\ a.stage = "built" /\ db = NoDocument /\ \A b \in adopting : a = b
    BY <1>2 DEF DynSecInv, AdoptionsKept
  <2>2. adopting' = {} /\ NoneWritten(adopting)
    BY <1>1, <2>1 DEF NoneWritten
  <2>3. OnlyAdopted(plans, foreign) => file.clients[User].password = Generated[LastOf(plans)]
    BY <2>1, <2>2 DEF DynSecInv, AdoptionsKept
  <2>4. OnlyAdopted(plans, foreign)' => file'.clients[User].password = Generated[LastOf(plans)']
    BY <1>1, <2>1, <2>3
  <2> QED BY <1>1, <2>1, <2>2, <2>4 DEF AdoptionsKept, CredentialsKept
<1> QED BY <1>3, <1>4 DEF DynSecInv

LEMMA AdoptKept ==
    ASSUME DynSecInv, AdoptDynSec
    PROVE  DynSecInv'
BY BuildKept, WriteKept, StoreKept, AdoptFailsKept DEF AdoptDynSec

-----------------------------------------------------------------------------
(* DynSecInv holds, and with it the first two theorems.                    *)

LEMMA DynSecStart == DynSecInit => DynSecInv
<1> SUFFICES ASSUME DynSecInit PROVE DynSecInv
  OBVIOUS
<1>1. /\ plans = <<>> /\ req = [r \in Request |-> Idle] /\ foreign = 0 /\ adoptions = 0 /\ file = db
      /\ adopting = {}
      /\ \/ db \in Start /\ backend = "dynamic-security"
         \/ db = NoDocument /\ backend = "file"
  BY DEF DynSecInit
<1>2. <<>> \in Seq(StoredPlan)
  OBVIOUS
<1>3. req \in [Request -> Running] /\ \A r \in Request : req[r].pc = "idle"
  BY <1>1, IdleFacts
<1>4. db \in Database \cup {NoDocument} /\ backend \in {"file", "dynamic-security"}
      /\ (db = NoDocument <=> backend = "file")
  BY <1>1, DynSecAssumption
<1>5. DynSecTypeOK
  BY <1>1, <1>2, <1>3, <1>4 DEF DynSecTypeOK
<1>6. PlansKept
  BY <1>1 DEF PlansKept
<1>7. RequestsKept
  BY <1>3, RequestKept DEF RequestsKept
<1>8. FilesKept
  BY <1>1, <1>4 DEF FilesKept
<1>9. AdoptionsKept /\ CredentialsKept
  BY <1>1 DEF AdoptionsKept, CredentialsKept, OnlyAdopted
<1> QED BY <1>5, <1>6, <1>7, <1>8, <1>9 DEF DynSecInv

LEMMA CrashKept ==
    ASSUME DynSecInv, Crash
    PROVE  DynSecInv'
<1>1. /\ req' = [r \in Request |-> Idle] /\ UNCHANGED <<db, file, backend, plans, foreign, adoptions>>
      /\ adopting' = {}
  BY DEF Crash
<1>c. ~cut' => ~cut /\ NoneWritten(adopting)
  BY DEF Crash, NoneWritten
<1>2. req' \in [Request -> Running] /\ \A r \in Request : req'[r].pc = "idle"
  BY <1>1, IdleFacts
<1>3. DynSecTypeOK' /\ PlansKept' /\ FilesKept'
  BY <1>1, <1>2 DEF DynSecInv, DynSecTypeOK, PlansKept, FilesKept
<1>5. AdoptionsKept' /\ CredentialsKept'
  <2> SUFFICES ASSUME ~cut' PROVE AdoptionsKept' /\ CredentialsKept'
    BY DEF AdoptionsKept, CredentialsKept
  <2>1. OnlyAdopted(plans, foreign) => file.clients[User].password = Generated[LastOf(plans)]
    BY <1>c DEF DynSecInv, AdoptionsKept
  <2>2. OnlyAdopted(plans, foreign)' => file'.clients[User].password = Generated[LastOf(plans)']
    BY <1>1, <2>1
  <2> QED BY <1>1, <1>c, <2>2 DEF DynSecInv, AdoptionsKept, CredentialsKept
<1>4. RequestsKept'
  BY <1>2, RequestKept DEF RequestsKept
<1> QED BY <1>3, <1>4, <1>5 DEF DynSecInv

\* DynSecInv is inductive.
LEMMA DynSecStep == DynSecInv /\ [DynSecNext]_dynsecVars => DynSecInv'
<1> SUFFICES ASSUME DynSecInv, [DynSecNext]_dynsecVars PROVE DynSecInv'
  OBVIOUS
<1>1. CASE \E d \in Document : PreviewDynSec(d)
  BY <1>1, PreviewKept
<1>2. CASE AdoptDynSec
  BY <1>2, AdoptKept
<1>3. CASE \E r \in Request, p \in DOMAIN plans : BeginApply(r, p)
  BY <1>3, BeginApplyKept
<1>4. ASSUME NEW r \in Request, ApplyStep(r) PROVE DynSecInv'
  BY <1>4, ApplyConfigKept, ConfigFailsKept, ReadCurrentKept, FailuresKept, SendKept, ReadBackKept, ConsumeKept DEF ApplyStep
<1>5. CASE \E m \in Foreign : ForeignCommand(m)
  BY <1>5, ForeignKept
<1>6. CASE Crash
  BY <1>6, CrashKept
<1>7. CASE UNCHANGED dynsecVars
  BY <1>7 DEF dynsecVars, adoptVars, DynSecInv, DynSecTypeOK, PlansKept, RequestsKept, FilesKept, AdoptionsKept,
     CredentialsKept
<1> QED BY <1>1, <1>2, <1>3, <1>4, <1>5, <1>6, <1>7 DEF DynSecNext, Operator

LEMMA DynSecInvariant == DynSecSpec => []DynSecInv
BY DynSecStart, DynSecStep, PTL DEF DynSecSpec

\* As long as only adoptions are planned and no other tool writes, no adoption
\* overlaps another or an apply, and none breaks off once it has touched the file:
\* whichever adoption is applied, whatever fails afterwards and whenever MCM is
\* killed, the password in force is the one the latest preview showed.
\* (writeDynsecDatabase.)
THEOREM CredentialsAreTheLatest == DynSecSpec => []LatestCredentials
<1>1. DynSecInv => LatestCredentials
  BY DEF DynSecInv, CredentialsKept, OnlyAdopted, LastOf, LatestCredentials
<1> QED BY <1>1, DynSecInvariant, PTL

\* What a request does alone is what its plan promised.
SentAsReviewed(r) ==
    (req[r].pc = "send" /\ req[r].alone /\ db' # db /\ req'[r].pc # "send" /\ foreign' = foreign)
       => Redacted(db') = plans[req[r].plan].promised

\* What is sent leaves what the plan promised when it was previewed.
LEMMA SendAsReviewed ==
    ASSUME DynSecInv, NEW r \in Request, Send(r), req[r].alone
    PROVE  Redacted(db') = plans[req[r].plan].promised
<1>1. /\ db \in Database /\ req[r].commands \in Seq(Command) /\ db' = Execute(db, req[r].commands).db
      /\ plans[req[r].plan].kind = "update" /\ req[r].plan \in DOMAIN plans
      /\ maskDynSecPlan(req[r].commands) = plans[req[r].plan].commands
  BY SendFacts
<1>2. Redacted(db) = plans[req[r].plan].base
  BY DEF Send, DynSecInv, RequestsKept, RequestOK
<1>3. Faithful(plans[req[r].plan])
  BY <1>1 DEF DynSecInv, PlansKept, PlanOK
<1>4. PICK d \in Database, c \in Seq(Command) :
        /\ plans[req[r].plan].base = Redacted(d) /\ plans[req[r].plan].commands = maskDynSecPlan(c)
        /\ plans[req[r].plan].promised = Redacted(Execute(d, c).db)
  BY <1>3 DEF Faithful
<1>5. Redacted(db) = Redacted(d) /\ maskDynSecPlan(req[r].commands) = maskDynSecPlan(c)
  BY <1>1, <1>2, <1>4
<1>6. Redacted(Execute(db, req[r].commands).db) = Redacted(Execute(d, c).db)
  BY <1>1, <1>5, ExecuteAlike
<1> QED BY <1>1, <1>4, <1>6

LEMMA ReviewedStep ==
    ASSUME DynSecInv, [DynSecNext]_dynsecVars, NEW r \in Request
    PROVE  SentAsReviewed(r)
<1> SUFFICES ASSUME req[r].pc = "send", req[r].alone, db' # db, req'[r].pc # "send", foreign' = foreign
             PROVE  Redacted(db') = plans[req[r].plan].promised
  BY DEF SentAsReviewed
<1>0. req \in [Request -> Running] /\ req[r] \in Running /\ foreign \in Nat
  BY DEF DynSecInv, DynSecTypeOK
<1>1. ~UNCHANGED dynsecVars
  BY DEF dynsecVars
<1>2. ~Operator
  BY DEF Operator, PreviewDynSec, AdoptDynSec, BuildAdopted, WriteAdopted, StoreAdopted, AdoptFails, BeginApply
<1>3. ~Crash
  BY DEF Crash
<1>4. ~\E m \in Foreign : ForeignCommand(m)
  <2> SUFFICES ASSUME NEW m \in Foreign, ForeignCommand(m) PROVE FALSE
    OBVIOUS
  <2>1. foreign' = foreign + 1
    BY DEF ForeignCommand
  <2> QED BY <1>0, <2>1
<1>5. PICK q \in Request : ApplyStep(q)
  BY <1>1, <1>2, <1>3, <1>4 DEF DynSecNext
<1>6. ApplyConfig(q) \/ Send(q)
  BY <1>5 DEF ApplyStep, ConfigFails, ReadCurrent, ReadFails, SendFails, ReadBack, ReadBackFails, Consume
<1>7. ~ApplyConfig(q)
  <2> SUFFICES ASSUME ApplyConfig(q) PROVE FALSE
    OBVIOUS
  <2>1. req[q].pc = "config" /\ req' = [Disturbed(q) EXCEPT ![q].pc = "read"]
    BY DEF ApplyConfig
  <2>2. q # r /\ DOMAIN Disturbed(q) = Request /\ Disturbed(q)[r] = Shaken(req[r])
    BY <2>1, Zenon DEF Disturbed, Shaken
  <2>3. req'[r] = Shaken(req[r])
    BY <2>1, <2>2
  <2>4. Shaken(req[r]).pc = "send"
    BY <1>0, ShakenKept
  <2> QED BY <2>3, <2>4
<1>8. Send(q)
  BY <1>6, <1>7
<1>9. q = r
  <2>1. q # r => req'[r] = Shaken(req[r])
    BY <1>8, SendFacts
  <2>2. Shaken(req[r]).pc = "send"
    BY <1>0, ShakenKept
  <2> QED BY <2>1, <2>2
<1> QED BY <1>8, <1>9, SendAsReviewed

\* An apply changes the database, but for passwords, exactly as its preview
\* showed, although the commands are planned again from what is read back: the
\* base of the plan is compared first.  (ApplyPlan.)
THEOREM AppliesWhatWasReviewed == DynSecSpec => ReviewedEffect
<1>1. DynSecInv /\ [DynSecNext]_dynsecVars => [\A r \in Request : SentAsReviewed(r)]_dynsecVars
  BY ReviewedStep
<1>2. DynSecSpec => [][\A r \in Request : SentAsReviewed(r)]_dynsecVars
  BY <1>1, DynSecInvariant, PTL DEF DynSecSpec
<1> QED BY <1>2 DEF ReviewedEffect, SentAsReviewed

-----------------------------------------------------------------------------
(* Rules for runs: sequencing, and loops over a sequence or a set.         *)

\* Whatever runs like it is the run.
LEMMA RunIs ==
    ASSUME NEW a, NEW plan \in Seq(Command), NEW g, g[0] = a,
           \A k \in 0..Len(plan) : k < Len(plan) => g[k + 1] = ExecuteOne(g[k], plan[k + 1])
    PROVE  RunFrom(a, plan) = g[Len(plan)]
<1>1. PICK f : /\ RunFrom(a, plan) = f[Len(plan)] /\ f[0] = a
               /\ \A k \in 0..Len(plan) : k < Len(plan) => f[k + 1] = ExecuteOne(f[k], plan[k + 1])
  BY RunSteps
<1> DEFINE N == Len(plan)
           S == {k \in 0..N : f[k] = g[k]}
<1>2. N \in Nat /\ S \in SUBSET Nat /\ 0 \in S
  BY <1>1
<1>3. ASSUME NEW k \in S, k < N PROVE k + 1 \in S
  <2>1. k \in 0..N /\ k + 1 \in 0..N /\ f[k] = g[k]
    BY <1>2, <1>3
  <2>2. f[k + 1] = g[k + 1]
    BY <1>1, <1>3, <2>1
  <2> QED BY <2>1, <2>2
<1>4. \A k \in S : k < N => k + 1 \in S
  BY <1>3
<1> HIDE DEF S
<1>5. \A k \in 0..N : k \in S
  BY <1>2, <1>4, SetInduction
<1> QED BY <1>1, <1>2, <1>5 DEF S

RunsTo(a, plan, f) == /\ RunFrom(a, plan) = f[Len(plan)] /\ f[0] = a
                      /\ \A k \in 0..Len(plan) : k < Len(plan) => f[k + 1] = ExecuteOne(f[k], plan[k + 1])

LEMMA RunsSomewhere == \A a : \A plan \in Seq(Command) : \E f : RunsTo(a, plan, f)
BY RunSteps DEF RunsTo

LEMMA RunNothing == \A a : RunFrom(a, <<>>) = a
<1> TAKE a
<1> DEFINE e == <<>>
<1>1. e \in Seq(Command) /\ Len(e) = 0
  OBVIOUS
<1> HIDE DEF e
<1>p. PICK f : RunsTo(a, e, f)
  BY <1>1, RunsSomewhere, Zenon
<1>2. /\ RunFrom(a, e) = f[Len(e)] /\ f[0] = a
      /\ \A k \in 0..Len(e) : k < Len(e) => f[k + 1] = ExecuteOne(f[k], e[k + 1])
  BY <1>p, Zenon DEF RunsTo
<1>3. RunFrom(a, e) = a
  BY <1>1, <1>2
<1> QED BY <1>3, Zenon DEF e

LEMMA RunOne == \A a : \A m \in Command : RunFrom(a, <<m>>) = ExecuteOne(a, m)
<1> TAKE a
<1> TAKE m \in Command
<1> DEFINE e == <<m>>
<1>1. e \in Seq(Command) /\ Len(e) = 1 /\ e[1] = m /\ 0 \in 0..1 /\ 0 < 1 /\ 0 + 1 = 1
  OBVIOUS
<1> HIDE DEF e
<1>p. PICK f : RunsTo(a, e, f)
  BY <1>1, RunsSomewhere, Zenon
<1>2. /\ RunFrom(a, e) = f[Len(e)] /\ f[0] = a
      /\ \A k \in 0..Len(e) : k < Len(e) => f[k + 1] = ExecuteOne(f[k], e[k + 1])
  BY <1>p, Zenon DEF RunsTo
<1>3. f[0 + 1] = ExecuteOne(f[0], e[0 + 1])
  BY <1>1, <1>2
<1>4. RunFrom(a, e) = ExecuteOne(a, m)
  BY <1>1, <1>2, <1>3
<1> QED BY <1>4, Zenon DEF e

\* Two plans in sequence.
LEMMA RunJoined ==
    ASSUME NEW a, NEW s \in Seq(Command), NEW t \in Seq(Command)
    PROVE  RunFrom(a, s \o t) = RunFrom(RunFrom(a, s), t)
<1> DEFINE u == s \o t
           A == Len(s)
           B == Len(t)
<1>1. /\ u \in Seq(Command) /\ A \in Nat /\ B \in Nat /\ Len(u) = A + B
      /\ \A i \in 1..A : u[i] = s[i]
      /\ \A i \in 1..B : u[A + i] = t[i]
  OBVIOUS
<1> HIDE DEF u
<1>p. PICK f : RunsTo(a, u, f)
  BY <1>1, RunsSomewhere, Zenon
<1>2. /\ RunFrom(a, u) = f[Len(u)] /\ f[0] = a
      /\ \A k \in 0..Len(u) : k < Len(u) => f[k + 1] = ExecuteOne(f[k], u[k + 1])
  BY <1>p, Zenon DEF RunsTo
<1>3. RunFrom(a, s) = f[A]
  <2>1. ASSUME NEW k \in 0..A, k < A PROVE f[k + 1] = ExecuteOne(f[k], s[k + 1])
    <3>1. k \in 0..Len(u) /\ k < Len(u) /\ k + 1 \in 1..A
      BY <1>1, <2>1
    <3> QED BY <1>1, <1>2, <3>1
  <2> QED BY <1>2, <2>1, RunIs
<1> DEFINE h == [k \in 0..B |-> f[A + k]]
<1>4. RunFrom(f[A], t) = h[B]
  <2>1. h[0] = f[A]
    BY <1>1
  <2>2. ASSUME NEW k \in 0..B, k < B PROVE h[k + 1] = ExecuteOne(h[k], t[k + 1])
    <3>1. /\ A + k \in 0..Len(u) /\ A + k < Len(u) /\ (A + k) + 1 = A + (k + 1) /\ k + 1 \in 1..B /\ k + 1 \in 0..B
      BY <1>1, <2>2
    <3>2. f[(A + k) + 1] = ExecuteOne(f[A + k], u[(A + k) + 1])
      BY <1>2, <3>1
    <3>3. u[A + (k + 1)] = t[k + 1]
      BY <1>1, <3>1
    <3> QED BY <3>1, <3>2, <3>3
  <2> HIDE DEF h
  <2> QED BY <2>1, <2>2, RunIs
<1>5. h[B] = f[A + B]
  BY <1>1
<1> QED BY <1>1, <1>2, <1>3, <1>4, <1>5 DEF u

\* A loop over commands: what holds before, and is carried from turn to turn, holds after.
LEMMA RunFlattened ==
    ASSUME NEW a, NEW parts \in Seq(Commands), NEW J, a \in J[0],
           \A k \in 0..Len(parts) : k < Len(parts) => \A b \in J[k] : RunFrom(b, parts[k + 1]) \in J[k + 1]
    PROVE  RunFrom(a, FlattenSeq(parts)) \in J[Len(parts)]
<1> DEFINE N == Len(parts)
           F == CHOOSE f : f = [i \in 1..N |-> IF i = 1 THEN parts[i] ELSE f[i - 1] \o parts[i]]
<1>1. N \in Nat /\ \A i \in 1..N : parts[i] \in Commands
  OBVIOUS
<1>2. CASE N = 0
  <2>1. FlattenSeq(parts) = <<>>
    BY <1>2 DEF FlattenSeq
  <2> QED BY <1>2, <2>1, RunNothing
<1>3. CASE N # 0
  <2>1. \E f : f = [i \in 1..N |-> IF i = 1 THEN parts[i] ELSE f[i - 1] \o parts[i]]
    BY <1>1, FlatExists DEF IsFlat
  <2>2. F = [i \in 1..N |-> IF i = 1 THEN parts[i] ELSE F[i - 1] \o parts[i]]
    BY <2>1
  <2>f. FlattenSeq(parts) = F[N]
    BY <1>3 DEF FlattenSeq, F
  <2> HIDE DEF F
  <2> DEFINE S == {k \in 0..N : k = 0 \/ (F[k] \in Commands /\ RunFrom(a, F[k]) \in J[k])}
  <2>3. 0 \in S /\ S \in SUBSET Nat
    BY <1>1
  <2>4. ASSUME NEW k \in S, k < N PROVE k + 1 \in S
    <3>1. k \in 0..N /\ k + 1 \in 1..N /\ k + 1 \in 0..N /\ (k + 1) - 1 = k /\ (k + 1 = 1 <=> k = 0)
      BY <1>1, <2>4
    <3>2. F[k + 1] = IF k + 1 = 1 THEN parts[k + 1] ELSE F[(k + 1) - 1] \o parts[k + 1]
      BY <2>2, <3>1
    <3>3. parts[k + 1] \in Commands
      BY <1>1, <3>1
    <3>4. CASE k = 0
      <4>1. F[k + 1] = parts[k + 1]
        BY <3>1, <3>2, <3>4
      <4>2. RunFrom(a, parts[k + 1]) \in J[k + 1]
        BY <2>4, <3>1, <3>4
      <4> QED BY <3>1, <3>3, <4>1, <4>2
    <3>5. CASE k # 0
      <4>1. F[k + 1] = F[k] \o parts[k + 1] /\ F[k] \in Commands /\ RunFrom(a, F[k]) \in J[k]
        BY <2>4, <3>1, <3>2, <3>5
      <4>2. RunFrom(RunFrom(a, F[k]), parts[k + 1]) \in J[k + 1]
        BY <2>4, <3>1, <4>1
      <4>3. RunFrom(a, F[k + 1]) = RunFrom(RunFrom(a, F[k]), parts[k + 1])
        BY <3>3, <4>1, RunJoined DEF Commands
      <4>4. F[k + 1] \in Commands
        BY <3>3, <4>1, Joined
      <4> QED BY <3>1, <4>2, <4>3, <4>4
    <3> QED BY <3>4, <3>5
  <2>a. \A k \in S : k < N => k + 1 \in S
    BY <2>4
  <2> HIDE DEF S
  <2>5. N \in S
    <3>1. \A k \in 0..N : k \in S
      BY <1>1, <2>3, <2>a, SetInduction
    <3> QED BY <1>1, <3>1
  <2>6. RunFrom(a, F[N]) \in J[N]
    BY <1>3, <2>5 DEF S
  <2> QED BY <2>f, <2>6
<1> QED BY <1>2, <1>3

LEMMA OrderCovers ==
    ASSUME NEW S, IsFiniteSet(S)
    PROVE  LET s == SetToSeq(S) IN /\ s \in Seq(S) /\ \A i, j \in 1..Len(s) : s[i] = s[j] => i = j
                                   /\ \A x \in S : \E i \in 1..Len(s) : s[i] = x
<1> DEFINE n == Cardinality(S)
           s == SetToSeq(S)
<1>1. n \in Nat /\ ExistsBijection(1..n, S)
  BY FS_CardinalityType
<1>2. \E f \in [1..n -> S] : IsInjective(f)
  BY <1>1 DEF ExistsBijection, Bijection, Injection, Surjection, IsInjective
<1>3. s \in [1..n -> S] /\ IsInjective(s)
  BY <1>2, Zenon DEF SetToSeq
<1> HIDE DEF s
<1>4. s \in Seq(S) /\ Len(s) = n
  BY <1>1, <1>3
<1>5. s \in Injection(1..n, S)
  BY <1>3 DEF Injection, IsInjective
<1>6. Cardinality(1..n) = n /\ IsFiniteSet(1..n)
  BY <1>1, FS_Interval
<1>7. s \in Surjection(1..n, S)
  BY <1>5, <1>6, FS_Injection
<1> QED BY <1>3, <1>4, <1>7 DEF Surjection, IsInjective, s

\* The same for a loop over a set: K[T] holds when the turns of T are done.
LEMMA RunEach ==
    ASSUME NEW a, NEW S, IsFiniteSet(S), NEW op \in [S -> Commands], NEW K, a \in K[{}],
           \A T \in SUBSET S : \A x \in S \ T : \A b \in K[T] : RunFrom(b, op[x]) \in K[T \cup {x}]
    PROVE  RunFrom(a, FlattenSeq([i \in 1..Len(SetToSeq(S)) |-> op[SetToSeq(S)[i]]])) \in K[S]
<1> DEFINE s == SetToSeq(S)
           N == Len(s)
           parts == [i \in 1..N |-> op[s[i]]]
           Done(k) == {s[i] : i \in 1..k}
           J == [k \in 0..N |-> K[Done(k)]]
<1>1. /\ s \in Seq(S) /\ \A i, j \in 1..Len(s) : s[i] = s[j] => i = j
      /\ \A x \in S : \E i \in 1..Len(s) : s[i] = x
  BY OrderCovers
<1> HIDE DEF s
<1>2. N \in Nat /\ \A i \in 1..N : s[i] \in S
  BY <1>1
<1>3. parts \in Seq(Commands) /\ Len(parts) = N
  BY <1>2
<1>4. Done(0) = {} /\ Done(N) = S
  BY <1>1, <1>2
<1>d. /\ \A k \in Nat : \A x \in Done(k) : \E i \in 1..k : x = s[i]
      /\ \A k \in Nat : Done(k + 1) = Done(k) \cup {s[k + 1]}
  OBVIOUS
<1> HIDE DEF Done
<1>z. J[0] = K[Done(0)] /\ J[N] = K[Done(N)]
  BY <1>2
<1>5. a \in J[0]
  BY <1>4, <1>z
<1>6. ASSUME NEW k \in 0..N, k < N, NEW b \in J[k] PROVE RunFrom(b, parts[k + 1]) \in J[k + 1]
  <2>1. k + 1 \in 1..N /\ k + 1 \in 0..N /\ \A i \in 1..k : i \in 1..N /\ i # k + 1
    BY <1>2, <1>6
  <2>2. Done(k) \in SUBSET S /\ s[k + 1] \in S \ Done(k)
    <3>1. k \in Nat
      BY <1>2, <1>6
    <3>2. \A x \in Done(k) : \E i \in 1..k : x = s[i]
      BY <1>d, <3>1
    <3>3. ASSUME NEW x \in Done(k) PROVE x \in S /\ x # s[k + 1]
      <4>1. PICK i \in 1..k : x = s[i]
        BY <3>2
      <4>2. i \in 1..N /\ k + 1 \in 1..N /\ i # k + 1
        BY <2>1
      <4>3. s[i] \in S /\ (s[i] = s[k + 1] => i = k + 1)
        BY <1>1, <1>2, <4>2
      <4> QED BY <4>1, <4>2, <4>3
    <3> QED BY <1>2, <2>1, <3>3
  <2>3. Done(k + 1) = Done(k) \cup {s[k + 1]}
    BY <1>2, <1>6, <1>d
  <2>4. b \in K[Done(k)]
    BY <1>6
  <2>5. RunFrom(b, op[s[k + 1]]) \in K[Done(k) \cup {s[k + 1]}]
    BY <2>2, <2>4
  <2>6. parts[k + 1] = op[s[k + 1]] /\ J[k + 1] = K[Done(k + 1)]
    BY <2>1
  <2> QED BY <2>3, <2>5, <2>6
<1>7. J[N] = K[S]
  BY <1>4, <1>z
<1> HIDE DEF J, parts
<1>8. \A k \in 0..N : k < N => \A b \in J[k] : RunFrom(b, parts[k + 1]) \in J[k + 1]
  BY <1>6
<1>9. RunFrom(a, FlattenSeq(parts)) \in J[Len(parts)]
  BY <1>3, <1>5, <1>8, RunFlattened
<1> QED BY <1>3, <1>7, <1>9 DEF parts, s

-----------------------------------------------------------------------------
(* The state of a run as a plan sees it, and what one command changes of   *)
(* it.                                                                     *)

\* What a plan is about: roles and enabling of the clients, roles and members
\* of the groups, the access entries, and the two settings.
RolesOf(f) == [x \in DOMAIN f |-> f[x].roles]
DisabledOf(f) == [x \in DOMAIN f |-> f[x].disabled]
MembersOf(f) == [x \in DOMAIN f |-> f[x].clients]

State(a, CR, CD, GR, GC, R, o, n, F) ==
    /\ a \in Accumulator
    /\ RolesOf(a.db.clients) = CR /\ DisabledOf(a.db.clients) = CD
    /\ RolesOf(a.db.groups) = GR /\ MembersOf(a.db.groups) = GC
    /\ a.db.roles = R /\ a.db.open = o /\ a.db.anonymous = n
    /\ a.refused => F

\* A refused command is noted.
LEMMA RefusedStays ==
    ASSUME NEW a, NEW CR, NEW CD, NEW GR, NEW GC, NEW R, NEW o, NEW n, NEW F \in BOOLEAN, NEW m \in Command,
           State(a, CR, CD, GR, GC, R, o, n, F), Refused(a.db, m)
    PROVE  F => State(ExecuteOne(a, m), CR, CD, GR, GC, R, o, n, F)
<1>1. a \in Accumulator
  BY Zenon DEF State
<1>2. ExecuteOne(a, m) \in Accumulator /\ ExecuteOne(a, m).db = a.db
  BY <1>1, StepType
<1> QED BY <1>2, Zenon DEF State

LEMMA EnrolledViews ==
    ASSUME NEW cs \in Clients, NEW gs
    PROVE  RolesOf(Enrolled(cs, gs)) = RolesOf(cs) /\ DisabledOf(Enrolled(cs, gs)) = DisabledOf(cs)
<1>1. \A c \in DOMAIN cs : cs[c] \in ClientRecord
  BY ClientPart
<1>2. DOMAIN Enrolled(cs, gs) = DOMAIN cs
  BY DEF Enrolled
<1>3. \A c \in DOMAIN cs : Enrolled(cs, gs)[c].roles = cs[c].roles /\ Enrolled(cs, gs)[c].disabled = cs[c].disabled
  BY <1>1 DEF Enrolled, ClientRecord
<1> QED BY <1>2, <1>3 DEF RolesOf, DisabledOf

\* A command that is carried out.
LEMMA CarriedOut ==
    ASSUME NEW a, NEW CR, NEW CD, NEW GR, NEW GC, NEW R, NEW o, NEW n, NEW F \in BOOLEAN, NEW m \in Command,
           State(a, CR, CD, GR, GC, R, o, n, F), ~Refused(a.db, m)
    PROVE  State(ExecuteOne(a, m),
                 RolesOf(ClientsAfter(a.db.clients, m)), DisabledOf(ClientsAfter(a.db.clients, m)),
                 RolesOf(GroupsAfter(a.db.groups, m)), MembersOf(GroupsAfter(a.db.groups, m)),
                 RolesAfter(R, m), OpenAfter(o, m), AnonymousAfter(n, m), F)
<1> DEFINE d == a.db
           C == ClientsAfter(d.clients, m)
           G == GroupsAfter(d.groups, m)
           X == RolesAfter(d.roles, m)
           O == OpenAfter(d.open, m)
           N == AnonymousAfter(d.anonymous, m)
           b == ExecuteOne(a, m)
<1>1. a \in Accumulator /\ (a.refused => F) /\ d.roles = R /\ d.open = o /\ d.anonymous = n
  BY Zenon DEF State
<1>2. d \in Database
  BY <1>1 DEF Accumulator
<1>3. Effect(d, m) = Doc(C, G, X, O, N) /\ Effect(d, m) \in Database
  BY <1>2, EffectSplit, EffectType
<1>4. b \in Accumulator /\ b.db = Normalize(Effect(d, m))
  BY <1>1, StepType
<1>5. b.refused => F
  <2>1. b = [a EXCEPT !.db = Normalize(Effect(a.db, m))]
    BY DEF ExecuteOne
  <2>2. b.refused = a.refused
    BY <1>1, <2>1 DEF Accumulator
  <2> QED BY <1>1, <2>2
<1> HIDE DEF C, G, X, O, N, b
<1>6. Doc(C, G, X, O, N).clients = C /\ Doc(C, G, X, O, N).groups = G
  BY DEF Doc
<1>7. C \in Clients
  BY <1>3, <1>6, DocType
<1>8. b.db = Doc(Enrolled(C, G), G, X, O, N)
  BY <1>3, <1>4, DocViews
<1>9. b.db.clients = Enrolled(C, G) /\ b.db.groups = G /\ b.db.roles = X /\ b.db.open = O /\ b.db.anonymous = N
  BY <1>8 DEF Doc
<1>10. RolesOf(b.db.clients) = RolesOf(C) /\ DisabledOf(b.db.clients) = DisabledOf(C)
  BY <1>7, <1>9, EnrolledViews
<1>11. State(b, RolesOf(C), DisabledOf(C), RolesOf(G), MembersOf(G), X, O, N, F)
  BY <1>4, <1>5, <1>9, <1>10, Zenon DEF State
<1> QED BY <1>1, <1>11, Zenon DEF C, G, X, O, N, b, d

\* Changes of a function whose values are sets, or any values.
Grow(f, x, v) == [f EXCEPT ![x] = @ \cup {v}]
Shrink(f, x, v) == [f EXCEPT ![x] = @ \ {v}]
Put(f, x, v) == [f EXCEPT ![x] = v]
Minus(f, v) == [x \in DOMAIN f |-> f[x] \ {v}]

\* What the changes of a part do to its views.
NewGroup(S) == [roles |-> S, clients |-> {}]
AddGroupRole(gs, x, r) == [gs EXCEPT ![x].roles = @ \cup {r}]
DropGroupRole(gs, x, r) == [gs EXCEPT ![x].roles = @ \ {r}]
AddMember(gs, x, c) == [gs EXCEPT ![x].clients = @ \cup {c}]
DropMember(gs, x, c) == [gs EXCEPT ![x].clients = @ \ {c}]
MemberGone(gs, c) == [g \in DOMAIN gs |-> [gs[g] EXCEPT !.clients = @ \ {c}]]

LEMMA ViewDomains ==
    /\ \A cs \in Clients : DOMAIN RolesOf(cs) = DOMAIN cs /\ DOMAIN DisabledOf(cs) = DOMAIN cs
    /\ \A gs \in Groups : DOMAIN RolesOf(gs) = DOMAIN gs /\ DOMAIN MembersOf(gs) = DOMAIN gs
BY DEF RolesOf, DisabledOf, MembersOf

LEMMA ClientCreated ==
    \A cs \in Clients : \A x, p : \A S : RolesOf(WithKey(cs, x, Fresh(S, p))) = WithKey(RolesOf(cs), x, S)
BY DEF RolesOf, WithKey, Fresh

LEMMA ClientEnabled ==
    ASSUME NEW cs \in Clients, NEW x, NEW p, NEW S
    PROVE  DisabledOf(WithKey(cs, x, Fresh(S, p))) = WithKey(DisabledOf(cs), x, FALSE)
<1> DEFINE v == Fresh(S, p)
<1>1. v.disabled = FALSE
  BY Zenon DEF Fresh
<1> HIDE DEF v
<1>2. DisabledOf(WithKey(cs, x, v)) = WithKey(DisabledOf(cs), x, v.disabled)
  BY DEF DisabledOf, WithKey
<1> QED BY <1>1, <1>2, Zenon DEF v

LEMMA ClientDeleted ==
    \A cs \in Clients : \A x : /\ RolesOf(WithoutKey(cs, x)) = WithoutKey(RolesOf(cs), x)
                                /\ DisabledOf(WithoutKey(cs, x)) = WithoutKey(DisabledOf(cs), x)
BY ClientPart DEF RolesOf, DisabledOf, ClientRecord, WithoutKey

LEMMA PasswordChanged ==
    \A cs \in Clients : \A x \in DOMAIN cs : \A p : RolesOf(SetPassword(cs, x, p)) = RolesOf(cs) /\ DisabledOf(SetPassword(cs, x, p)) = DisabledOf(cs)
<1>1. ASSUME NEW cs \in Clients, NEW x \in DOMAIN cs, NEW p
      PROVE  RolesOf(SetPassword(cs, x, p)) = RolesOf(cs) /\ DisabledOf(SetPassword(cs, x, p)) = DisabledOf(cs)
  <2>1. \A y \in DOMAIN cs : cs[y] \in ClientRecord
    BY ClientPart
  <2> QED BY <2>1 DEF RolesOf, DisabledOf, ClientRecord, SetPassword
<1> QED BY <1>1

LEMMA DisabledChanged ==
    \A cs \in Clients : \A x \in DOMAIN cs : \A b : RolesOf(SetDisabled(cs, x, b)) = RolesOf(cs) /\ DisabledOf(SetDisabled(cs, x, b)) = Put(DisabledOf(cs), x, b)
<1>1. ASSUME NEW cs \in Clients, NEW x \in DOMAIN cs, NEW b
      PROVE  RolesOf(SetDisabled(cs, x, b)) = RolesOf(cs) /\ DisabledOf(SetDisabled(cs, x, b)) = Put(DisabledOf(cs), x, b)
  <2>1. \A y \in DOMAIN cs : cs[y] \in ClientRecord
    BY ClientPart
  <2> QED BY <2>1 DEF RolesOf, DisabledOf, ClientRecord, SetDisabled, Put
<1> QED BY <1>1

LEMMA ClientRoleAdded ==
    \A cs \in Clients : \A x \in DOMAIN cs : \A r : RolesOf(AddRoleTo(cs, x, r)) = Grow(RolesOf(cs), x, r) /\ DisabledOf(AddRoleTo(cs, x, r)) = DisabledOf(cs)
<1>1. ASSUME NEW cs \in Clients, NEW x \in DOMAIN cs, NEW r
      PROVE  RolesOf(AddRoleTo(cs, x, r)) = Grow(RolesOf(cs), x, r) /\ DisabledOf(AddRoleTo(cs, x, r)) = DisabledOf(cs)
  <2>1. \A y \in DOMAIN cs : cs[y] \in ClientRecord
    BY ClientPart
  <2> QED BY <2>1 DEF RolesOf, DisabledOf, ClientRecord, AddRoleTo, Grow
<1> QED BY <1>1

LEMMA ClientRoleDropped ==
    \A cs \in Clients : \A x \in DOMAIN cs : \A r : RolesOf(RemoveRoleFrom(cs, x, r)) = Shrink(RolesOf(cs), x, r) /\ DisabledOf(RemoveRoleFrom(cs, x, r)) = DisabledOf(cs)
<1>1. ASSUME NEW cs \in Clients, NEW x \in DOMAIN cs, NEW r
      PROVE  RolesOf(RemoveRoleFrom(cs, x, r)) = Shrink(RolesOf(cs), x, r) /\ DisabledOf(RemoveRoleFrom(cs, x, r)) = DisabledOf(cs)
  <2>1. \A y \in DOMAIN cs : cs[y] \in ClientRecord
    BY ClientPart
  <2> QED BY <2>1 DEF RolesOf, DisabledOf, ClientRecord, RemoveRoleFrom, Shrink
<1> QED BY <1>1

LEMMA ClientRoleGone ==
    \A cs \in Clients : \A r : RolesOf(RoleGone(cs, r)) = Minus(RolesOf(cs), r) /\ DisabledOf(RoleGone(cs, r)) = DisabledOf(cs)
BY ClientPart DEF RolesOf, DisabledOf, ClientRecord, RoleGone, Minus

LEMMA GroupCreated ==
    \A gs \in Groups : \A x : \A S : /\ RolesOf(WithKey(gs, x, NewGroup(S))) = WithKey(RolesOf(gs), x, S)
                                       /\ MembersOf(WithKey(gs, x, NewGroup(S))) = WithKey(MembersOf(gs), x, {})
BY GroupPart DEF RolesOf, MembersOf, GroupRecord, WithKey, NewGroup

LEMMA GroupDeleted ==
    \A gs \in Groups : \A x : /\ RolesOf(WithoutKey(gs, x)) = WithoutKey(RolesOf(gs), x)
                                /\ MembersOf(WithoutKey(gs, x)) = WithoutKey(MembersOf(gs), x)
BY GroupPart DEF RolesOf, MembersOf, GroupRecord, WithoutKey

LEMMA GroupRoleAdded ==
    \A gs \in Groups : \A x \in DOMAIN gs : \A r : RolesOf(AddGroupRole(gs, x, r)) = Grow(RolesOf(gs), x, r) /\ MembersOf(AddGroupRole(gs, x, r)) = MembersOf(gs)
<1>1. ASSUME NEW gs \in Groups, NEW x \in DOMAIN gs, NEW r
      PROVE  RolesOf(AddGroupRole(gs, x, r)) = Grow(RolesOf(gs), x, r) /\ MembersOf(AddGroupRole(gs, x, r)) = MembersOf(gs)
  <2>1. \A y \in DOMAIN gs : gs[y] \in GroupRecord
    BY GroupPart
  <2> QED BY <2>1 DEF RolesOf, MembersOf, GroupRecord, AddGroupRole, Grow
<1> QED BY <1>1

LEMMA GroupRoleDropped ==
    \A gs \in Groups : \A x \in DOMAIN gs : \A r : RolesOf(DropGroupRole(gs, x, r)) = Shrink(RolesOf(gs), x, r) /\ MembersOf(DropGroupRole(gs, x, r)) = MembersOf(gs)
<1>1. ASSUME NEW gs \in Groups, NEW x \in DOMAIN gs, NEW r
      PROVE  RolesOf(DropGroupRole(gs, x, r)) = Shrink(RolesOf(gs), x, r) /\ MembersOf(DropGroupRole(gs, x, r)) = MembersOf(gs)
  <2>1. \A y \in DOMAIN gs : gs[y] \in GroupRecord
    BY GroupPart
  <2> QED BY <2>1 DEF RolesOf, MembersOf, GroupRecord, DropGroupRole, Shrink
<1> QED BY <1>1

LEMMA MemberAdded ==
    \A gs \in Groups : \A x \in DOMAIN gs : \A c : RolesOf(AddMember(gs, x, c)) = RolesOf(gs) /\ MembersOf(AddMember(gs, x, c)) = Grow(MembersOf(gs), x, c)
<1>1. ASSUME NEW gs \in Groups, NEW x \in DOMAIN gs, NEW c
      PROVE  RolesOf(AddMember(gs, x, c)) = RolesOf(gs) /\ MembersOf(AddMember(gs, x, c)) = Grow(MembersOf(gs), x, c)
  <2>1. \A y \in DOMAIN gs : gs[y] \in GroupRecord
    BY GroupPart
  <2> QED BY <2>1 DEF RolesOf, MembersOf, GroupRecord, AddMember, Grow
<1> QED BY <1>1

LEMMA MemberDropped ==
    \A gs \in Groups : \A x \in DOMAIN gs : \A c : RolesOf(DropMember(gs, x, c)) = RolesOf(gs) /\ MembersOf(DropMember(gs, x, c)) = Shrink(MembersOf(gs), x, c)
<1>1. ASSUME NEW gs \in Groups, NEW x \in DOMAIN gs, NEW c
      PROVE  RolesOf(DropMember(gs, x, c)) = RolesOf(gs) /\ MembersOf(DropMember(gs, x, c)) = Shrink(MembersOf(gs), x, c)
  <2>1. \A y \in DOMAIN gs : gs[y] \in GroupRecord
    BY GroupPart
  <2> QED BY <2>1 DEF RolesOf, MembersOf, GroupRecord, DropMember, Shrink
<1> QED BY <1>1

LEMMA GroupRoleGone ==
    \A gs \in Groups : \A r : RolesOf(RoleGone(gs, r)) = Minus(RolesOf(gs), r) /\ MembersOf(RoleGone(gs, r)) = MembersOf(gs)
BY GroupPart DEF RolesOf, MembersOf, GroupRecord, RoleGone, Minus

LEMMA GroupMemberGone ==
    \A gs \in Groups : \A c : RolesOf(MemberGone(gs, c)) = RolesOf(gs) /\ MembersOf(MemberGone(gs, c)) = Minus(MembersOf(gs), c)
BY GroupPart DEF RolesOf, MembersOf, GroupRecord, MemberGone, Minus

-----------------------------------------------------------------------------
(* One lemma per command: the state after it.                              *)

LEMMA StateFacts ==
    ASSUME NEW a, NEW CR, NEW CD, NEW GR, NEW GC, NEW R, NEW o, NEW n, NEW F,
           State(a, CR, CD, GR, GC, R, o, n, F)
    PROVE  /\ a \in Accumulator /\ a.db \in Database /\ a.db.clients \in Clients /\ a.db.groups \in Groups
           /\ a.db.roles = R /\ R \in Roles /\ a.db.open = o /\ a.db.anonymous = n
           /\ RolesOf(a.db.clients) = CR /\ DisabledOf(a.db.clients) = CD
           /\ RolesOf(a.db.groups) = GR /\ MembersOf(a.db.groups) = GC
           /\ DOMAIN CR = DOMAIN a.db.clients /\ DOMAIN CD = DOMAIN a.db.clients /\ DOMAIN CR \subseteq Client
           /\ DOMAIN GR = DOMAIN a.db.groups /\ DOMAIN GC = DOMAIN a.db.groups /\ DOMAIN GR \subseteq Group
           /\ DOMAIN R \subseteq Role /\ \A r \in DOMAIN R : R[r] \in Entries
           /\ \A g \in DOMAIN GC : a.db.groups[g].clients = GC[g]
           /\ \A c \in DOMAIN CR : CR[c] \subseteq Role
           /\ \A g \in DOMAIN GR : GR[g] \subseteq Role /\ GC[g] \subseteq Client
<1>1. /\ a \in Accumulator /\ a.db.roles = R /\ a.db.open = o /\ a.db.anonymous = n
      /\ RolesOf(a.db.clients) = CR /\ DisabledOf(a.db.clients) = CD
      /\ RolesOf(a.db.groups) = GR /\ MembersOf(a.db.groups) = GC
  BY Zenon DEF State
<1>2. a.db \in Database
  BY <1>1 DEF Accumulator
<1>3. a.db.clients \in Clients /\ a.db.groups \in Groups /\ R \in Roles
  BY <1>1, <1>2, DocType
<1>4. /\ DOMAIN CR = DOMAIN a.db.clients /\ DOMAIN CD = DOMAIN a.db.clients
      /\ DOMAIN GR = DOMAIN a.db.groups /\ DOMAIN GC = DOMAIN a.db.groups
  BY <1>1, <1>3, ViewDomains
<1>5. /\ DOMAIN a.db.clients \subseteq Client /\ DOMAIN a.db.groups \subseteq Group /\ DOMAIN R \subseteq Role
      /\ \A r \in DOMAIN R : R[r] \in Entries
  BY <1>3, ClientPart, GroupPart, RolePart
<1>6. /\ \A g \in DOMAIN GC : a.db.groups[g].clients = GC[g]
      /\ \A g \in DOMAIN GR : a.db.groups[g].roles = GR[g]
      /\ \A c \in DOMAIN CR : a.db.clients[c].roles = CR[c]
  BY <1>1, <1>4 DEF RolesOf, MembersOf
<1>7. /\ \A c \in DOMAIN CR : CR[c] \subseteq Role
      /\ \A g \in DOMAIN GR : GR[g] \subseteq Role /\ GC[g] \subseteq Client
  BY <1>3, <1>4, <1>6, ClientPart, GroupPart DEF ClientRecord, GroupRecord
<1> QED BY <1>1, <1>2, <1>3, <1>4, <1>5, <1>6, <1>7

LEMMA CreateRole ==
    ASSUME NEW a, NEW CR, NEW CD, NEW GR, NEW GC, NEW R, NEW o, NEW n, NEW F \in BOOLEAN,
           State(a, CR, CD, GR, GC, R, o, n, F),
           NEW r \in Role, NEW e \in Entries, r \notin DOMAIN R
    PROVE  State(RunFrom(a, <<[command |-> "createRole", role |-> r, acls |-> e]>>), CR, CD, GR, GC, WithKey(R, r, e), o, n, F)
<1> DEFINE m == [command |-> "createRole", role |-> r, acls |-> e]
<1>1. m \in Command /\ m.command = "createRole" /\ m.role = r /\ m.acls = e
  BY CommandFacts
<1>2. /\ a.db \in Database /\ a.db.clients \in Clients /\ a.db.groups \in Groups /\ a.db.roles = R
      /\ DOMAIN CR = DOMAIN a.db.clients /\ DOMAIN GR = DOMAIN a.db.groups
      /\ RolesOf(a.db.clients) = CR /\ DisabledOf(a.db.clients) = CD
      /\ RolesOf(a.db.groups) = GR /\ MembersOf(a.db.groups) = GC
      /\ DOMAIN GC = DOMAIN GR /\ \A h \in DOMAIN GC : a.db.groups[h].clients = GC[h]
  BY StateFacts
<1> HIDE DEF m
<1>3. ~Refused(a.db, m)
  BY <1>1, <1>2 DEF Refused
<1>4. /\ ClientsAfter(a.db.clients, m) = a.db.clients
      /\ GroupsAfter(a.db.groups, m) = a.db.groups
      /\ RolesAfter(R, m) = WithKey(R, r, e)
      /\ OpenAfter(o, m) = o /\ AnonymousAfter(n, m) = n
  BY <1>1, Zenon DEF ClientsAfter, GroupsAfter, RolesAfter, OpenAfter, AnonymousAfter, Fresh, NewGroup, SetPassword,
     SetDisabled, AddRoleTo, RemoveRoleFrom, RoleGone, AddGroupRole, DropGroupRole, AddMember, DropMember, MemberGone
<1>5. /\ RolesOf(a.db.clients) = CR /\ DisabledOf(a.db.clients) = CD
      /\ RolesOf(a.db.groups) = GR /\ MembersOf(a.db.groups) = GC
  BY <1>2
<1>6. RunFrom(a, <<m>>) = ExecuteOne(a, m)
  BY <1>1, RunOne
<1>7. State(ExecuteOne(a, m), RolesOf(ClientsAfter(a.db.clients, m)), DisabledOf(ClientsAfter(a.db.clients, m)),
            RolesOf(GroupsAfter(a.db.groups, m)), MembersOf(GroupsAfter(a.db.groups, m)),
            RolesAfter(R, m), OpenAfter(o, m), AnonymousAfter(n, m), F)
  BY <1>1, <1>3, CarriedOut
<1>8. State(ExecuteOne(a, m), CR, CD, GR, GC, WithKey(R, r, e), o, n, F)
  BY <1>4, <1>5, <1>7, Zenon
<1> QED BY <1>6, <1>8, Zenon DEF m

LEMMA AddAcl ==
    ASSUME NEW a, NEW CR, NEW CD, NEW GR, NEW GC, NEW R, NEW o, NEW n, NEW F \in BOOLEAN,
           State(a, CR, CD, GR, GC, R, o, n, F),
           NEW r \in Role, NEW t \in Topic, NEW x \in Entry, r \in DOMAIN R, t \notin DOMAIN R[r]
    PROVE  State(RunFrom(a, <<[command |-> "addRoleACL", role |-> r, topic |-> t, acl |-> x]>>), CR, CD, GR, GC, [R EXCEPT ![r] = WithKey(R[r], t, x)], o, n, F)
<1> DEFINE m == [command |-> "addRoleACL", role |-> r, topic |-> t, acl |-> x]
<1>1. m \in Command /\ m.command = "addRoleACL" /\ m.role = r /\ m.topic = t /\ m.acl = x
  BY CommandFacts
<1>2. /\ a.db \in Database /\ a.db.clients \in Clients /\ a.db.groups \in Groups /\ a.db.roles = R
      /\ DOMAIN CR = DOMAIN a.db.clients /\ DOMAIN GR = DOMAIN a.db.groups
      /\ RolesOf(a.db.clients) = CR /\ DisabledOf(a.db.clients) = CD
      /\ RolesOf(a.db.groups) = GR /\ MembersOf(a.db.groups) = GC
      /\ DOMAIN GC = DOMAIN GR /\ \A h \in DOMAIN GC : a.db.groups[h].clients = GC[h]
  BY StateFacts
<1> HIDE DEF m
<1>3. ~Refused(a.db, m)
  BY <1>1, <1>2 DEF Refused
<1>4. /\ ClientsAfter(a.db.clients, m) = a.db.clients
      /\ GroupsAfter(a.db.groups, m) = a.db.groups
      /\ RolesAfter(R, m) = [R EXCEPT ![r] = WithKey(R[r], t, x)]
      /\ OpenAfter(o, m) = o /\ AnonymousAfter(n, m) = n
  BY <1>1, Zenon DEF ClientsAfter, GroupsAfter, RolesAfter, OpenAfter, AnonymousAfter, Fresh, NewGroup, SetPassword,
     SetDisabled, AddRoleTo, RemoveRoleFrom, RoleGone, AddGroupRole, DropGroupRole, AddMember, DropMember, MemberGone
<1>5. /\ RolesOf(a.db.clients) = CR /\ DisabledOf(a.db.clients) = CD
      /\ RolesOf(a.db.groups) = GR /\ MembersOf(a.db.groups) = GC
  BY <1>2
<1>6. RunFrom(a, <<m>>) = ExecuteOne(a, m)
  BY <1>1, RunOne
<1>7. State(ExecuteOne(a, m), RolesOf(ClientsAfter(a.db.clients, m)), DisabledOf(ClientsAfter(a.db.clients, m)),
            RolesOf(GroupsAfter(a.db.groups, m)), MembersOf(GroupsAfter(a.db.groups, m)),
            RolesAfter(R, m), OpenAfter(o, m), AnonymousAfter(n, m), F)
  BY <1>1, <1>3, CarriedOut
<1>8. State(ExecuteOne(a, m), CR, CD, GR, GC, [R EXCEPT ![r] = WithKey(R[r], t, x)], o, n, F)
  BY <1>4, <1>5, <1>7, Zenon
<1> QED BY <1>6, <1>8, Zenon DEF m

LEMMA AddAclRefused ==
    ASSUME NEW a, NEW CR, NEW CD, NEW GR, NEW GC, NEW R, NEW o, NEW n, NEW F \in BOOLEAN,
           State(a, CR, CD, GR, GC, R, o, n, F),
           NEW r \in Role, NEW t \in Topic, NEW x \in Entry, r \in DOMAIN R, t \in DOMAIN R[r]
    PROVE  F => State(RunFrom(a, <<[command |-> "addRoleACL", role |-> r, topic |-> t, acl |-> x]>>), CR, CD, GR, GC, R, o, n, F)
<1> DEFINE m == [command |-> "addRoleACL", role |-> r, topic |-> t, acl |-> x]
<1>1. m \in Command /\ m.command = "addRoleACL" /\ m.role = r /\ m.topic = t /\ m.acl = x
  BY CommandFacts
<1>2. /\ a.db \in Database /\ a.db.roles = R /\ DOMAIN CR = DOMAIN a.db.clients /\ DOMAIN GR = DOMAIN a.db.groups
      /\ DOMAIN GC = DOMAIN GR /\ \A h \in DOMAIN GC : a.db.groups[h].clients = GC[h]
  BY StateFacts
<1> HIDE DEF m
<1>3. Refused(a.db, m)
  BY <1>1, <1>2 DEF Refused
<1>4. RunFrom(a, <<m>>) = ExecuteOne(a, m)
  BY <1>1, RunOne
<1>5. F => State(ExecuteOne(a, m), CR, CD, GR, GC, R, o, n, F)
  BY <1>1, <1>3, RefusedStays
<1> QED BY <1>4, <1>5, Zenon DEF m

LEMMA DropAcl ==
    ASSUME NEW a, NEW CR, NEW CD, NEW GR, NEW GC, NEW R, NEW o, NEW n, NEW F \in BOOLEAN,
           State(a, CR, CD, GR, GC, R, o, n, F),
           NEW r \in Role, NEW t \in Topic, r \in DOMAIN R, t \in DOMAIN R[r]
    PROVE  State(RunFrom(a, <<[command |-> "removeRoleACL", role |-> r, topic |-> t]>>), CR, CD, GR, GC, [R EXCEPT ![r] = WithoutKey(R[r], t)], o, n, F)
<1> DEFINE m == [command |-> "removeRoleACL", role |-> r, topic |-> t]
<1>1. m \in Command /\ m.command = "removeRoleACL" /\ m.role = r /\ m.topic = t
  BY CommandFacts
<1>2. /\ a.db \in Database /\ a.db.clients \in Clients /\ a.db.groups \in Groups /\ a.db.roles = R
      /\ DOMAIN CR = DOMAIN a.db.clients /\ DOMAIN GR = DOMAIN a.db.groups
      /\ RolesOf(a.db.clients) = CR /\ DisabledOf(a.db.clients) = CD
      /\ RolesOf(a.db.groups) = GR /\ MembersOf(a.db.groups) = GC
      /\ DOMAIN GC = DOMAIN GR /\ \A h \in DOMAIN GC : a.db.groups[h].clients = GC[h]
  BY StateFacts
<1> HIDE DEF m
<1>3. ~Refused(a.db, m)
  BY <1>1, <1>2 DEF Refused
<1>4. /\ ClientsAfter(a.db.clients, m) = a.db.clients
      /\ GroupsAfter(a.db.groups, m) = a.db.groups
      /\ RolesAfter(R, m) = [R EXCEPT ![r] = WithoutKey(R[r], t)]
      /\ OpenAfter(o, m) = o /\ AnonymousAfter(n, m) = n
  BY <1>1, Zenon DEF ClientsAfter, GroupsAfter, RolesAfter, OpenAfter, AnonymousAfter, Fresh, NewGroup, SetPassword,
     SetDisabled, AddRoleTo, RemoveRoleFrom, RoleGone, AddGroupRole, DropGroupRole, AddMember, DropMember, MemberGone
<1>5. /\ RolesOf(a.db.clients) = CR /\ DisabledOf(a.db.clients) = CD
      /\ RolesOf(a.db.groups) = GR /\ MembersOf(a.db.groups) = GC
  BY <1>2
<1>6. RunFrom(a, <<m>>) = ExecuteOne(a, m)
  BY <1>1, RunOne
<1>7. State(ExecuteOne(a, m), RolesOf(ClientsAfter(a.db.clients, m)), DisabledOf(ClientsAfter(a.db.clients, m)),
            RolesOf(GroupsAfter(a.db.groups, m)), MembersOf(GroupsAfter(a.db.groups, m)),
            RolesAfter(R, m), OpenAfter(o, m), AnonymousAfter(n, m), F)
  BY <1>1, <1>3, CarriedOut
<1>8. State(ExecuteOne(a, m), CR, CD, GR, GC, [R EXCEPT ![r] = WithoutKey(R[r], t)], o, n, F)
  BY <1>4, <1>5, <1>7, Zenon
<1> QED BY <1>6, <1>8, Zenon DEF m

LEMMA DeleteRole ==
    ASSUME NEW a, NEW CR, NEW CD, NEW GR, NEW GC, NEW R, NEW o, NEW n, NEW F \in BOOLEAN,
           State(a, CR, CD, GR, GC, R, o, n, F),
           NEW r \in Role, r \in DOMAIN R
    PROVE  State(RunFrom(a, <<[command |-> "deleteRole", role |-> r]>>), Minus(CR, r), CD, Minus(GR, r), GC, WithoutKey(R, r), o, n, F)
<1> DEFINE m == [command |-> "deleteRole", role |-> r]
<1>1. m \in Command /\ m.command = "deleteRole" /\ m.role = r
  BY CommandFacts
<1>2. /\ a.db \in Database /\ a.db.clients \in Clients /\ a.db.groups \in Groups /\ a.db.roles = R
      /\ DOMAIN CR = DOMAIN a.db.clients /\ DOMAIN GR = DOMAIN a.db.groups
      /\ RolesOf(a.db.clients) = CR /\ DisabledOf(a.db.clients) = CD
      /\ RolesOf(a.db.groups) = GR /\ MembersOf(a.db.groups) = GC
      /\ DOMAIN GC = DOMAIN GR /\ \A h \in DOMAIN GC : a.db.groups[h].clients = GC[h]
  BY StateFacts
<1> HIDE DEF m
<1>3. ~Refused(a.db, m)
  BY <1>1, <1>2 DEF Refused
<1>4. /\ ClientsAfter(a.db.clients, m) = RoleGone(a.db.clients, r)
      /\ GroupsAfter(a.db.groups, m) = RoleGone(a.db.groups, r)
      /\ RolesAfter(R, m) = WithoutKey(R, r)
      /\ OpenAfter(o, m) = o /\ AnonymousAfter(n, m) = n
  BY <1>1, Zenon DEF ClientsAfter, GroupsAfter, RolesAfter, OpenAfter, AnonymousAfter, Fresh, NewGroup, SetPassword,
     SetDisabled, AddRoleTo, RemoveRoleFrom, RoleGone, AddGroupRole, DropGroupRole, AddMember, DropMember, MemberGone
<1>v. /\ RolesOf(RoleGone(a.db.clients, r)) = Minus(RolesOf(a.db.clients), r) /\ DisabledOf(RoleGone(a.db.clients, r)) = DisabledOf(a.db.clients)
      /\ RolesOf(RoleGone(a.db.groups, r)) = Minus(RolesOf(a.db.groups), r) /\ MembersOf(RoleGone(a.db.groups, r)) = MembersOf(a.db.groups)
  BY <1>2, ClientRoleGone, GroupRoleGone, Zenon
<1>5. /\ RolesOf(RoleGone(a.db.clients, r)) = Minus(CR, r) /\ DisabledOf(RoleGone(a.db.clients, r)) = CD
      /\ RolesOf(RoleGone(a.db.groups, r)) = Minus(GR, r) /\ MembersOf(RoleGone(a.db.groups, r)) = GC
  BY <1>2, <1>v, Zenon
<1>6. RunFrom(a, <<m>>) = ExecuteOne(a, m)
  BY <1>1, RunOne
<1>7. State(ExecuteOne(a, m), RolesOf(ClientsAfter(a.db.clients, m)), DisabledOf(ClientsAfter(a.db.clients, m)),
            RolesOf(GroupsAfter(a.db.groups, m)), MembersOf(GroupsAfter(a.db.groups, m)),
            RolesAfter(R, m), OpenAfter(o, m), AnonymousAfter(n, m), F)
  BY <1>1, <1>3, CarriedOut
<1>8. State(ExecuteOne(a, m), Minus(CR, r), CD, Minus(GR, r), GC, WithoutKey(R, r), o, n, F)
  BY <1>4, <1>5, <1>7, Zenon
<1> QED BY <1>6, <1>8, Zenon DEF m

LEMMA CreateGroup ==
    ASSUME NEW a, NEW CR, NEW CD, NEW GR, NEW GC, NEW R, NEW o, NEW n, NEW F \in BOOLEAN,
           State(a, CR, CD, GR, GC, R, o, n, F),
           NEW g \in Group, NEW S \in SUBSET Role, g \notin DOMAIN GR, S \subseteq DOMAIN R
    PROVE  State(RunFrom(a, <<[command |-> "createGroup", group |-> g, roles |-> S]>>), CR, CD, WithKey(GR, g, S), WithKey(GC, g, {}), R, o, n, F)
<1> DEFINE m == [command |-> "createGroup", group |-> g, roles |-> S]
<1>1. m \in Command /\ m.command = "createGroup" /\ m.group = g /\ m.roles = S
  BY CommandFacts
<1>2. /\ a.db \in Database /\ a.db.clients \in Clients /\ a.db.groups \in Groups /\ a.db.roles = R
      /\ DOMAIN CR = DOMAIN a.db.clients /\ DOMAIN GR = DOMAIN a.db.groups
      /\ RolesOf(a.db.clients) = CR /\ DisabledOf(a.db.clients) = CD
      /\ RolesOf(a.db.groups) = GR /\ MembersOf(a.db.groups) = GC
      /\ DOMAIN GC = DOMAIN GR /\ \A h \in DOMAIN GC : a.db.groups[h].clients = GC[h]
  BY StateFacts
<1> HIDE DEF m
<1>3. ~Refused(a.db, m)
  BY <1>1, <1>2 DEF Refused
<1>4. /\ ClientsAfter(a.db.clients, m) = a.db.clients
      /\ GroupsAfter(a.db.groups, m) = WithKey(a.db.groups, g, NewGroup(S))
      /\ RolesAfter(R, m) = R
      /\ OpenAfter(o, m) = o /\ AnonymousAfter(n, m) = n
  BY <1>1, Zenon DEF ClientsAfter, GroupsAfter, RolesAfter, OpenAfter, AnonymousAfter, Fresh, NewGroup, SetPassword,
     SetDisabled, AddRoleTo, RemoveRoleFrom, RoleGone, AddGroupRole, DropGroupRole, AddMember, DropMember, MemberGone
<1>v. /\ RolesOf(a.db.clients) = RolesOf(a.db.clients) /\ DisabledOf(a.db.clients) = DisabledOf(a.db.clients)
      /\ RolesOf(WithKey(a.db.groups, g, NewGroup(S))) = WithKey(RolesOf(a.db.groups), g, S) /\ MembersOf(WithKey(a.db.groups, g, NewGroup(S))) = WithKey(MembersOf(a.db.groups), g, {})
  BY <1>2, GroupCreated, Zenon
<1>5. /\ RolesOf(a.db.clients) = CR /\ DisabledOf(a.db.clients) = CD
      /\ RolesOf(WithKey(a.db.groups, g, NewGroup(S))) = WithKey(GR, g, S) /\ MembersOf(WithKey(a.db.groups, g, NewGroup(S))) = WithKey(GC, g, {})
  BY <1>2, <1>v, Zenon
<1>6. RunFrom(a, <<m>>) = ExecuteOne(a, m)
  BY <1>1, RunOne
<1>7. State(ExecuteOne(a, m), RolesOf(ClientsAfter(a.db.clients, m)), DisabledOf(ClientsAfter(a.db.clients, m)),
            RolesOf(GroupsAfter(a.db.groups, m)), MembersOf(GroupsAfter(a.db.groups, m)),
            RolesAfter(R, m), OpenAfter(o, m), AnonymousAfter(n, m), F)
  BY <1>1, <1>3, CarriedOut
<1>8. State(ExecuteOne(a, m), CR, CD, WithKey(GR, g, S), WithKey(GC, g, {}), R, o, n, F)
  BY <1>4, <1>5, <1>7, Zenon
<1> QED BY <1>6, <1>8, Zenon DEF m

LEMMA DeleteGroup ==
    ASSUME NEW a, NEW CR, NEW CD, NEW GR, NEW GC, NEW R, NEW o, NEW n, NEW F \in BOOLEAN,
           State(a, CR, CD, GR, GC, R, o, n, F),
           NEW g \in Group, g \in DOMAIN GR
    PROVE  State(RunFrom(a, <<[command |-> "deleteGroup", group |-> g]>>), CR, CD, WithoutKey(GR, g), WithoutKey(GC, g), R, o, (IF n = g THEN NoGroup ELSE n), F)
<1> DEFINE m == [command |-> "deleteGroup", group |-> g]
<1>1. m \in Command /\ m.command = "deleteGroup" /\ m.group = g
  BY CommandFacts
<1>2. /\ a.db \in Database /\ a.db.clients \in Clients /\ a.db.groups \in Groups /\ a.db.roles = R
      /\ DOMAIN CR = DOMAIN a.db.clients /\ DOMAIN GR = DOMAIN a.db.groups
      /\ RolesOf(a.db.clients) = CR /\ DisabledOf(a.db.clients) = CD
      /\ RolesOf(a.db.groups) = GR /\ MembersOf(a.db.groups) = GC
      /\ DOMAIN GC = DOMAIN GR /\ \A h \in DOMAIN GC : a.db.groups[h].clients = GC[h]
  BY StateFacts
<1> HIDE DEF m
<1>3. ~Refused(a.db, m)
  BY <1>1, <1>2 DEF Refused
<1>4. /\ ClientsAfter(a.db.clients, m) = a.db.clients
      /\ GroupsAfter(a.db.groups, m) = WithoutKey(a.db.groups, g)
      /\ RolesAfter(R, m) = R
      /\ OpenAfter(o, m) = o /\ AnonymousAfter(n, m) = (IF n = g THEN NoGroup ELSE n)
  BY <1>1, Zenon DEF ClientsAfter, GroupsAfter, RolesAfter, OpenAfter, AnonymousAfter, Fresh, NewGroup, SetPassword,
     SetDisabled, AddRoleTo, RemoveRoleFrom, RoleGone, AddGroupRole, DropGroupRole, AddMember, DropMember, MemberGone
<1>d. g \in DOMAIN a.db.groups
  BY <1>2
<1>v. /\ RolesOf(a.db.clients) = RolesOf(a.db.clients) /\ DisabledOf(a.db.clients) = DisabledOf(a.db.clients)
      /\ RolesOf(WithoutKey(a.db.groups, g)) = WithoutKey(RolesOf(a.db.groups), g) /\ MembersOf(WithoutKey(a.db.groups, g)) = WithoutKey(MembersOf(a.db.groups), g)
  BY <1>2, <1>d, GroupDeleted, Zenon
<1>5. /\ RolesOf(a.db.clients) = CR /\ DisabledOf(a.db.clients) = CD
      /\ RolesOf(WithoutKey(a.db.groups, g)) = WithoutKey(GR, g) /\ MembersOf(WithoutKey(a.db.groups, g)) = WithoutKey(GC, g)
  BY <1>2, <1>v, Zenon
<1>6. RunFrom(a, <<m>>) = ExecuteOne(a, m)
  BY <1>1, RunOne
<1>7. State(ExecuteOne(a, m), RolesOf(ClientsAfter(a.db.clients, m)), DisabledOf(ClientsAfter(a.db.clients, m)),
            RolesOf(GroupsAfter(a.db.groups, m)), MembersOf(GroupsAfter(a.db.groups, m)),
            RolesAfter(R, m), OpenAfter(o, m), AnonymousAfter(n, m), F)
  BY <1>1, <1>3, CarriedOut
<1>8. State(ExecuteOne(a, m), CR, CD, WithoutKey(GR, g), WithoutKey(GC, g), R, o, (IF n = g THEN NoGroup ELSE n), F)
  BY <1>4, <1>5, <1>7, Zenon
<1> QED BY <1>6, <1>8, Zenon DEF m

LEMMA AddGroupRoleTo ==
    ASSUME NEW a, NEW CR, NEW CD, NEW GR, NEW GC, NEW R, NEW o, NEW n, NEW F \in BOOLEAN,
           State(a, CR, CD, GR, GC, R, o, n, F),
           NEW g \in Group, NEW r \in Role, g \in DOMAIN GR, r \in DOMAIN R
    PROVE  State(RunFrom(a, <<[command |-> "addGroupRole", group |-> g, role |-> r]>>), CR, CD, Grow(GR, g, r), GC, R, o, n, F)
<1> DEFINE m == [command |-> "addGroupRole", group |-> g, role |-> r]
<1>1. m \in Command /\ m.command = "addGroupRole" /\ m.group = g /\ m.role = r
  BY CommandFacts
<1>2. /\ a.db \in Database /\ a.db.clients \in Clients /\ a.db.groups \in Groups /\ a.db.roles = R
      /\ DOMAIN CR = DOMAIN a.db.clients /\ DOMAIN GR = DOMAIN a.db.groups
      /\ RolesOf(a.db.clients) = CR /\ DisabledOf(a.db.clients) = CD
      /\ RolesOf(a.db.groups) = GR /\ MembersOf(a.db.groups) = GC
      /\ DOMAIN GC = DOMAIN GR /\ \A h \in DOMAIN GC : a.db.groups[h].clients = GC[h]
  BY StateFacts
<1> HIDE DEF m
<1>3. ~Refused(a.db, m)
  BY <1>1, <1>2 DEF Refused
<1>4. /\ ClientsAfter(a.db.clients, m) = a.db.clients
      /\ GroupsAfter(a.db.groups, m) = AddGroupRole(a.db.groups, g, r)
      /\ RolesAfter(R, m) = R
      /\ OpenAfter(o, m) = o /\ AnonymousAfter(n, m) = n
  BY <1>1, Zenon DEF ClientsAfter, GroupsAfter, RolesAfter, OpenAfter, AnonymousAfter, Fresh, NewGroup, SetPassword,
     SetDisabled, AddRoleTo, RemoveRoleFrom, RoleGone, AddGroupRole, DropGroupRole, AddMember, DropMember, MemberGone
<1>d. g \in DOMAIN a.db.groups
  BY <1>2
<1>v. /\ RolesOf(a.db.clients) = RolesOf(a.db.clients) /\ DisabledOf(a.db.clients) = DisabledOf(a.db.clients)
      /\ RolesOf(AddGroupRole(a.db.groups, g, r)) = Grow(RolesOf(a.db.groups), g, r) /\ MembersOf(AddGroupRole(a.db.groups, g, r)) = MembersOf(a.db.groups)
  BY <1>2, <1>d, GroupRoleAdded, Zenon
<1>5. /\ RolesOf(a.db.clients) = CR /\ DisabledOf(a.db.clients) = CD
      /\ RolesOf(AddGroupRole(a.db.groups, g, r)) = Grow(GR, g, r) /\ MembersOf(AddGroupRole(a.db.groups, g, r)) = GC
  BY <1>2, <1>v, Zenon
<1>6. RunFrom(a, <<m>>) = ExecuteOne(a, m)
  BY <1>1, RunOne
<1>7. State(ExecuteOne(a, m), RolesOf(ClientsAfter(a.db.clients, m)), DisabledOf(ClientsAfter(a.db.clients, m)),
            RolesOf(GroupsAfter(a.db.groups, m)), MembersOf(GroupsAfter(a.db.groups, m)),
            RolesAfter(R, m), OpenAfter(o, m), AnonymousAfter(n, m), F)
  BY <1>1, <1>3, CarriedOut
<1>8. State(ExecuteOne(a, m), CR, CD, Grow(GR, g, r), GC, R, o, n, F)
  BY <1>4, <1>5, <1>7, Zenon
<1> QED BY <1>6, <1>8, Zenon DEF m

LEMMA DropGroupRoleFrom ==
    ASSUME NEW a, NEW CR, NEW CD, NEW GR, NEW GC, NEW R, NEW o, NEW n, NEW F \in BOOLEAN,
           State(a, CR, CD, GR, GC, R, o, n, F),
           NEW g \in Group, NEW r \in Role, g \in DOMAIN GR
    PROVE  State(RunFrom(a, <<[command |-> "removeGroupRole", group |-> g, role |-> r]>>), CR, CD, Shrink(GR, g, r), GC, R, o, n, F)
<1> DEFINE m == [command |-> "removeGroupRole", group |-> g, role |-> r]
<1>1. m \in Command /\ m.command = "removeGroupRole" /\ m.group = g /\ m.role = r
  BY CommandFacts
<1>2. /\ a.db \in Database /\ a.db.clients \in Clients /\ a.db.groups \in Groups /\ a.db.roles = R
      /\ DOMAIN CR = DOMAIN a.db.clients /\ DOMAIN GR = DOMAIN a.db.groups
      /\ RolesOf(a.db.clients) = CR /\ DisabledOf(a.db.clients) = CD
      /\ RolesOf(a.db.groups) = GR /\ MembersOf(a.db.groups) = GC
      /\ DOMAIN GC = DOMAIN GR /\ \A h \in DOMAIN GC : a.db.groups[h].clients = GC[h]
  BY StateFacts
<1> HIDE DEF m
<1>3. ~Refused(a.db, m)
  BY <1>1, <1>2 DEF Refused
<1>4. /\ ClientsAfter(a.db.clients, m) = a.db.clients
      /\ GroupsAfter(a.db.groups, m) = DropGroupRole(a.db.groups, g, r)
      /\ RolesAfter(R, m) = R
      /\ OpenAfter(o, m) = o /\ AnonymousAfter(n, m) = n
  BY <1>1, Zenon DEF ClientsAfter, GroupsAfter, RolesAfter, OpenAfter, AnonymousAfter, Fresh, NewGroup, SetPassword,
     SetDisabled, AddRoleTo, RemoveRoleFrom, RoleGone, AddGroupRole, DropGroupRole, AddMember, DropMember, MemberGone
<1>d. g \in DOMAIN a.db.groups
  BY <1>2
<1>v. /\ RolesOf(a.db.clients) = RolesOf(a.db.clients) /\ DisabledOf(a.db.clients) = DisabledOf(a.db.clients)
      /\ RolesOf(DropGroupRole(a.db.groups, g, r)) = Shrink(RolesOf(a.db.groups), g, r) /\ MembersOf(DropGroupRole(a.db.groups, g, r)) = MembersOf(a.db.groups)
  BY <1>2, <1>d, GroupRoleDropped, Zenon
<1>5. /\ RolesOf(a.db.clients) = CR /\ DisabledOf(a.db.clients) = CD
      /\ RolesOf(DropGroupRole(a.db.groups, g, r)) = Shrink(GR, g, r) /\ MembersOf(DropGroupRole(a.db.groups, g, r)) = GC
  BY <1>2, <1>v, Zenon
<1>6. RunFrom(a, <<m>>) = ExecuteOne(a, m)
  BY <1>1, RunOne
<1>7. State(ExecuteOne(a, m), RolesOf(ClientsAfter(a.db.clients, m)), DisabledOf(ClientsAfter(a.db.clients, m)),
            RolesOf(GroupsAfter(a.db.groups, m)), MembersOf(GroupsAfter(a.db.groups, m)),
            RolesAfter(R, m), OpenAfter(o, m), AnonymousAfter(n, m), F)
  BY <1>1, <1>3, CarriedOut
<1>8. State(ExecuteOne(a, m), CR, CD, Shrink(GR, g, r), GC, R, o, n, F)
  BY <1>4, <1>5, <1>7, Zenon
<1> QED BY <1>6, <1>8, Zenon DEF m

LEMMA AddMemberTo ==
    ASSUME NEW a, NEW CR, NEW CD, NEW GR, NEW GC, NEW R, NEW o, NEW n, NEW F \in BOOLEAN,
           State(a, CR, CD, GR, GC, R, o, n, F),
           NEW g \in Group, NEW c \in Client, g \in DOMAIN GR, c \in DOMAIN CR, c \notin GC[g]
    PROVE  State(RunFrom(a, <<[command |-> "addGroupClient", group |-> g, client |-> c]>>), CR, CD, GR, Grow(GC, g, c), R, o, n, F)
<1> DEFINE m == [command |-> "addGroupClient", group |-> g, client |-> c]
<1>1. m \in Command /\ m.command = "addGroupClient" /\ m.group = g /\ m.client = c
  BY CommandFacts
<1>2. /\ a.db \in Database /\ a.db.clients \in Clients /\ a.db.groups \in Groups /\ a.db.roles = R
      /\ DOMAIN CR = DOMAIN a.db.clients /\ DOMAIN GR = DOMAIN a.db.groups
      /\ RolesOf(a.db.clients) = CR /\ DisabledOf(a.db.clients) = CD
      /\ RolesOf(a.db.groups) = GR /\ MembersOf(a.db.groups) = GC
      /\ DOMAIN GC = DOMAIN GR /\ \A h \in DOMAIN GC : a.db.groups[h].clients = GC[h]
  BY StateFacts
<1> HIDE DEF m
<1>3. ~Refused(a.db, m)
  BY <1>1, <1>2 DEF Refused
<1>4. /\ ClientsAfter(a.db.clients, m) = a.db.clients
      /\ GroupsAfter(a.db.groups, m) = AddMember(a.db.groups, g, c)
      /\ RolesAfter(R, m) = R
      /\ OpenAfter(o, m) = o /\ AnonymousAfter(n, m) = n
  BY <1>1, Zenon DEF ClientsAfter, GroupsAfter, RolesAfter, OpenAfter, AnonymousAfter, Fresh, NewGroup, SetPassword,
     SetDisabled, AddRoleTo, RemoveRoleFrom, RoleGone, AddGroupRole, DropGroupRole, AddMember, DropMember, MemberGone
<1>d. g \in DOMAIN a.db.groups
  BY <1>2
<1>v. /\ RolesOf(a.db.clients) = RolesOf(a.db.clients) /\ DisabledOf(a.db.clients) = DisabledOf(a.db.clients)
      /\ RolesOf(AddMember(a.db.groups, g, c)) = RolesOf(a.db.groups) /\ MembersOf(AddMember(a.db.groups, g, c)) = Grow(MembersOf(a.db.groups), g, c)
  BY <1>2, <1>d, MemberAdded, Zenon
<1>5. /\ RolesOf(a.db.clients) = CR /\ DisabledOf(a.db.clients) = CD
      /\ RolesOf(AddMember(a.db.groups, g, c)) = GR /\ MembersOf(AddMember(a.db.groups, g, c)) = Grow(GC, g, c)
  BY <1>2, <1>v, Zenon
<1>6. RunFrom(a, <<m>>) = ExecuteOne(a, m)
  BY <1>1, RunOne
<1>7. State(ExecuteOne(a, m), RolesOf(ClientsAfter(a.db.clients, m)), DisabledOf(ClientsAfter(a.db.clients, m)),
            RolesOf(GroupsAfter(a.db.groups, m)), MembersOf(GroupsAfter(a.db.groups, m)),
            RolesAfter(R, m), OpenAfter(o, m), AnonymousAfter(n, m), F)
  BY <1>1, <1>3, CarriedOut
<1>8. State(ExecuteOne(a, m), CR, CD, GR, Grow(GC, g, c), R, o, n, F)
  BY <1>4, <1>5, <1>7, Zenon
<1> QED BY <1>6, <1>8, Zenon DEF m

LEMMA AddMemberRefused ==
    ASSUME NEW a, NEW CR, NEW CD, NEW GR, NEW GC, NEW R, NEW o, NEW n, NEW F \in BOOLEAN,
           State(a, CR, CD, GR, GC, R, o, n, F),
           NEW g \in Group, NEW c \in Client, g \in DOMAIN GR, c \notin DOMAIN CR \/ c \in GC[g]
    PROVE  F => State(RunFrom(a, <<[command |-> "addGroupClient", group |-> g, client |-> c]>>), CR, CD, GR, GC, R, o, n, F)
<1> DEFINE m == [command |-> "addGroupClient", group |-> g, client |-> c]
<1>1. m \in Command /\ m.command = "addGroupClient" /\ m.group = g /\ m.client = c
  BY CommandFacts
<1>2. /\ a.db \in Database /\ a.db.roles = R /\ DOMAIN CR = DOMAIN a.db.clients /\ DOMAIN GR = DOMAIN a.db.groups
      /\ DOMAIN GC = DOMAIN GR /\ \A h \in DOMAIN GC : a.db.groups[h].clients = GC[h]
  BY StateFacts
<1> HIDE DEF m
<1>3. Refused(a.db, m)
  BY <1>1, <1>2 DEF Refused
<1>4. RunFrom(a, <<m>>) = ExecuteOne(a, m)
  BY <1>1, RunOne
<1>5. F => State(ExecuteOne(a, m), CR, CD, GR, GC, R, o, n, F)
  BY <1>1, <1>3, RefusedStays
<1> QED BY <1>4, <1>5, Zenon DEF m

LEMMA DropMemberFrom ==
    ASSUME NEW a, NEW CR, NEW CD, NEW GR, NEW GC, NEW R, NEW o, NEW n, NEW F \in BOOLEAN,
           State(a, CR, CD, GR, GC, R, o, n, F),
           NEW g \in Group, NEW c \in Client, g \in DOMAIN GR
    PROVE  State(RunFrom(a, <<[command |-> "removeGroupClient", group |-> g, client |-> c]>>), CR, CD, GR, Shrink(GC, g, c), R, o, n, F)
<1> DEFINE m == [command |-> "removeGroupClient", group |-> g, client |-> c]
<1>1. m \in Command /\ m.command = "removeGroupClient" /\ m.group = g /\ m.client = c
  BY CommandFacts
<1>2. /\ a.db \in Database /\ a.db.clients \in Clients /\ a.db.groups \in Groups /\ a.db.roles = R
      /\ DOMAIN CR = DOMAIN a.db.clients /\ DOMAIN GR = DOMAIN a.db.groups
      /\ RolesOf(a.db.clients) = CR /\ DisabledOf(a.db.clients) = CD
      /\ RolesOf(a.db.groups) = GR /\ MembersOf(a.db.groups) = GC
      /\ DOMAIN GC = DOMAIN GR /\ \A h \in DOMAIN GC : a.db.groups[h].clients = GC[h]
  BY StateFacts
<1> HIDE DEF m
<1>3. ~Refused(a.db, m)
  BY <1>1, <1>2 DEF Refused
<1>4. /\ ClientsAfter(a.db.clients, m) = a.db.clients
      /\ GroupsAfter(a.db.groups, m) = DropMember(a.db.groups, g, c)
      /\ RolesAfter(R, m) = R
      /\ OpenAfter(o, m) = o /\ AnonymousAfter(n, m) = n
  BY <1>1, Zenon DEF ClientsAfter, GroupsAfter, RolesAfter, OpenAfter, AnonymousAfter, Fresh, NewGroup, SetPassword,
     SetDisabled, AddRoleTo, RemoveRoleFrom, RoleGone, AddGroupRole, DropGroupRole, AddMember, DropMember, MemberGone
<1>d. g \in DOMAIN a.db.groups
  BY <1>2
<1>v. /\ RolesOf(a.db.clients) = RolesOf(a.db.clients) /\ DisabledOf(a.db.clients) = DisabledOf(a.db.clients)
      /\ RolesOf(DropMember(a.db.groups, g, c)) = RolesOf(a.db.groups) /\ MembersOf(DropMember(a.db.groups, g, c)) = Shrink(MembersOf(a.db.groups), g, c)
  BY <1>2, <1>d, MemberDropped, Zenon
<1>5. /\ RolesOf(a.db.clients) = CR /\ DisabledOf(a.db.clients) = CD
      /\ RolesOf(DropMember(a.db.groups, g, c)) = GR /\ MembersOf(DropMember(a.db.groups, g, c)) = Shrink(GC, g, c)
  BY <1>2, <1>v, Zenon
<1>6. RunFrom(a, <<m>>) = ExecuteOne(a, m)
  BY <1>1, RunOne
<1>7. State(ExecuteOne(a, m), RolesOf(ClientsAfter(a.db.clients, m)), DisabledOf(ClientsAfter(a.db.clients, m)),
            RolesOf(GroupsAfter(a.db.groups, m)), MembersOf(GroupsAfter(a.db.groups, m)),
            RolesAfter(R, m), OpenAfter(o, m), AnonymousAfter(n, m), F)
  BY <1>1, <1>3, CarriedOut
<1>8. State(ExecuteOne(a, m), CR, CD, GR, Shrink(GC, g, c), R, o, n, F)
  BY <1>4, <1>5, <1>7, Zenon
<1> QED BY <1>6, <1>8, Zenon DEF m

LEMMA CreateClient ==
    ASSUME NEW a, NEW CR, NEW CD, NEW GR, NEW GC, NEW R, NEW o, NEW n, NEW F \in BOOLEAN,
           State(a, CR, CD, GR, GC, R, o, n, F),
           NEW c \in Client, NEW S \in SUBSET Role, NEW p \in Secret, c \notin DOMAIN CR, S \subseteq DOMAIN R
    PROVE  State(RunFrom(a, <<[command |-> "createClient", client |-> c, roles |-> S, password |-> p]>>), WithKey(CR, c, S), WithKey(CD, c, FALSE), GR, GC, R, o, n, F)
<1> DEFINE m == [command |-> "createClient", client |-> c, roles |-> S, password |-> p]
<1>1. m \in Command /\ m.command = "createClient" /\ m.client = c /\ m.roles = S /\ m.password = p
  BY CommandFacts
<1>2. /\ a.db \in Database /\ a.db.clients \in Clients /\ a.db.groups \in Groups /\ a.db.roles = R
      /\ DOMAIN CR = DOMAIN a.db.clients /\ DOMAIN GR = DOMAIN a.db.groups
      /\ RolesOf(a.db.clients) = CR /\ DisabledOf(a.db.clients) = CD
      /\ RolesOf(a.db.groups) = GR /\ MembersOf(a.db.groups) = GC
      /\ DOMAIN GC = DOMAIN GR /\ \A h \in DOMAIN GC : a.db.groups[h].clients = GC[h]
  BY StateFacts
<1> HIDE DEF m
<1>3. ~Refused(a.db, m)
  BY <1>1, <1>2 DEF Refused
<1>4. /\ ClientsAfter(a.db.clients, m) = WithKey(a.db.clients, c, Fresh(S, p))
      /\ GroupsAfter(a.db.groups, m) = a.db.groups
      /\ RolesAfter(R, m) = R
      /\ OpenAfter(o, m) = o /\ AnonymousAfter(n, m) = n
  BY <1>1, Zenon DEF ClientsAfter, GroupsAfter, RolesAfter, OpenAfter, AnonymousAfter, Fresh, NewGroup, SetPassword,
     SetDisabled, AddRoleTo, RemoveRoleFrom, RoleGone, AddGroupRole, DropGroupRole, AddMember, DropMember, MemberGone
<1>r. RolesOf(WithKey(a.db.clients, c, Fresh(S, p))) = WithKey(RolesOf(a.db.clients), c, S)
  BY <1>2, ClientCreated
<1>e. DisabledOf(WithKey(a.db.clients, c, Fresh(S, p))) = WithKey(DisabledOf(a.db.clients), c, FALSE)
  BY <1>2, ClientEnabled
<1>v. /\ RolesOf(WithKey(a.db.clients, c, Fresh(S, p))) = WithKey(RolesOf(a.db.clients), c, S) /\ DisabledOf(WithKey(a.db.clients, c, Fresh(S, p))) = WithKey(DisabledOf(a.db.clients), c, FALSE)
      /\ RolesOf(a.db.groups) = RolesOf(a.db.groups) /\ MembersOf(a.db.groups) = MembersOf(a.db.groups)
  BY <1>2, <1>r, <1>e, Zenon
<1>5. /\ RolesOf(WithKey(a.db.clients, c, Fresh(S, p))) = WithKey(CR, c, S) /\ DisabledOf(WithKey(a.db.clients, c, Fresh(S, p))) = WithKey(CD, c, FALSE)
      /\ RolesOf(a.db.groups) = GR /\ MembersOf(a.db.groups) = GC
  BY <1>2, <1>v, Zenon
<1>6. RunFrom(a, <<m>>) = ExecuteOne(a, m)
  BY <1>1, RunOne
<1>7. State(ExecuteOne(a, m), RolesOf(ClientsAfter(a.db.clients, m)), DisabledOf(ClientsAfter(a.db.clients, m)),
            RolesOf(GroupsAfter(a.db.groups, m)), MembersOf(GroupsAfter(a.db.groups, m)),
            RolesAfter(R, m), OpenAfter(o, m), AnonymousAfter(n, m), F)
  BY <1>1, <1>3, CarriedOut
<1>8. State(ExecuteOne(a, m), WithKey(CR, c, S), WithKey(CD, c, FALSE), GR, GC, R, o, n, F)
  BY <1>4, <1>5, <1>7, Zenon
<1> QED BY <1>6, <1>8, Zenon DEF m

LEMMA PasswordSet ==
    ASSUME NEW a, NEW CR, NEW CD, NEW GR, NEW GC, NEW R, NEW o, NEW n, NEW F \in BOOLEAN,
           State(a, CR, CD, GR, GC, R, o, n, F),
           NEW c \in Client, NEW p \in Secret, c \in DOMAIN CR
    PROVE  State(RunFrom(a, <<[command |-> "setClientPassword", client |-> c, password |-> p]>>), CR, CD, GR, GC, R, o, n, F)
<1> DEFINE m == [command |-> "setClientPassword", client |-> c, password |-> p]
<1>1. m \in Command /\ m.command = "setClientPassword" /\ m.client = c /\ m.password = p
  BY CommandFacts
<1>2. /\ a.db \in Database /\ a.db.clients \in Clients /\ a.db.groups \in Groups /\ a.db.roles = R
      /\ DOMAIN CR = DOMAIN a.db.clients /\ DOMAIN GR = DOMAIN a.db.groups
      /\ RolesOf(a.db.clients) = CR /\ DisabledOf(a.db.clients) = CD
      /\ RolesOf(a.db.groups) = GR /\ MembersOf(a.db.groups) = GC
      /\ DOMAIN GC = DOMAIN GR /\ \A h \in DOMAIN GC : a.db.groups[h].clients = GC[h]
  BY StateFacts
<1> HIDE DEF m
<1>3. ~Refused(a.db, m)
  BY <1>1, <1>2 DEF Refused
<1>4. /\ ClientsAfter(a.db.clients, m) = SetPassword(a.db.clients, c, p)
      /\ GroupsAfter(a.db.groups, m) = a.db.groups
      /\ RolesAfter(R, m) = R
      /\ OpenAfter(o, m) = o /\ AnonymousAfter(n, m) = n
  BY <1>1, Zenon DEF ClientsAfter, GroupsAfter, RolesAfter, OpenAfter, AnonymousAfter, Fresh, NewGroup, SetPassword,
     SetDisabled, AddRoleTo, RemoveRoleFrom, RoleGone, AddGroupRole, DropGroupRole, AddMember, DropMember, MemberGone
<1>d. c \in DOMAIN a.db.clients
  BY <1>2
<1>v. /\ RolesOf(SetPassword(a.db.clients, c, p)) = RolesOf(a.db.clients) /\ DisabledOf(SetPassword(a.db.clients, c, p)) = DisabledOf(a.db.clients)
      /\ RolesOf(a.db.groups) = RolesOf(a.db.groups) /\ MembersOf(a.db.groups) = MembersOf(a.db.groups)
  BY <1>2, <1>d, PasswordChanged, Zenon
<1>5. /\ RolesOf(SetPassword(a.db.clients, c, p)) = CR /\ DisabledOf(SetPassword(a.db.clients, c, p)) = CD
      /\ RolesOf(a.db.groups) = GR /\ MembersOf(a.db.groups) = GC
  BY <1>2, <1>v, Zenon
<1>6. RunFrom(a, <<m>>) = ExecuteOne(a, m)
  BY <1>1, RunOne
<1>7. State(ExecuteOne(a, m), RolesOf(ClientsAfter(a.db.clients, m)), DisabledOf(ClientsAfter(a.db.clients, m)),
            RolesOf(GroupsAfter(a.db.groups, m)), MembersOf(GroupsAfter(a.db.groups, m)),
            RolesAfter(R, m), OpenAfter(o, m), AnonymousAfter(n, m), F)
  BY <1>1, <1>3, CarriedOut
<1>8. State(ExecuteOne(a, m), CR, CD, GR, GC, R, o, n, F)
  BY <1>4, <1>5, <1>7, Zenon
<1> QED BY <1>6, <1>8, Zenon DEF m

LEMMA DisabledSet ==
    ASSUME NEW a, NEW CR, NEW CD, NEW GR, NEW GC, NEW R, NEW o, NEW n, NEW F \in BOOLEAN,
           State(a, CR, CD, GR, GC, R, o, n, F),
           NEW c \in Client, NEW b \in BOOLEAN, c \in DOMAIN CR
    PROVE  State(RunFrom(a, <<[command |-> "setClientDisabled", client |-> c, disabled |-> b]>>), CR, Put(CD, c, b), GR, GC, R, o, n, F)
<1> DEFINE m == [command |-> "setClientDisabled", client |-> c, disabled |-> b]
<1>1. m \in Command /\ m.command = "setClientDisabled" /\ m.client = c /\ m.disabled = b
  BY CommandFacts
<1>2. /\ a.db \in Database /\ a.db.clients \in Clients /\ a.db.groups \in Groups /\ a.db.roles = R
      /\ DOMAIN CR = DOMAIN a.db.clients /\ DOMAIN GR = DOMAIN a.db.groups
      /\ RolesOf(a.db.clients) = CR /\ DisabledOf(a.db.clients) = CD
      /\ RolesOf(a.db.groups) = GR /\ MembersOf(a.db.groups) = GC
      /\ DOMAIN GC = DOMAIN GR /\ \A h \in DOMAIN GC : a.db.groups[h].clients = GC[h]
  BY StateFacts
<1> HIDE DEF m
<1>3. ~Refused(a.db, m)
  BY <1>1, <1>2 DEF Refused
<1>4. /\ ClientsAfter(a.db.clients, m) = SetDisabled(a.db.clients, c, b)
      /\ GroupsAfter(a.db.groups, m) = a.db.groups
      /\ RolesAfter(R, m) = R
      /\ OpenAfter(o, m) = o /\ AnonymousAfter(n, m) = n
  BY <1>1, Zenon DEF ClientsAfter, GroupsAfter, RolesAfter, OpenAfter, AnonymousAfter, Fresh, NewGroup, SetPassword,
     SetDisabled, AddRoleTo, RemoveRoleFrom, RoleGone, AddGroupRole, DropGroupRole, AddMember, DropMember, MemberGone
<1>d. c \in DOMAIN a.db.clients
  BY <1>2
<1>v. /\ RolesOf(SetDisabled(a.db.clients, c, b)) = RolesOf(a.db.clients) /\ DisabledOf(SetDisabled(a.db.clients, c, b)) = Put(DisabledOf(a.db.clients), c, b)
      /\ RolesOf(a.db.groups) = RolesOf(a.db.groups) /\ MembersOf(a.db.groups) = MembersOf(a.db.groups)
  BY <1>2, <1>d, DisabledChanged, Zenon
<1>5. /\ RolesOf(SetDisabled(a.db.clients, c, b)) = CR /\ DisabledOf(SetDisabled(a.db.clients, c, b)) = Put(CD, c, b)
      /\ RolesOf(a.db.groups) = GR /\ MembersOf(a.db.groups) = GC
  BY <1>2, <1>v, Zenon
<1>6. RunFrom(a, <<m>>) = ExecuteOne(a, m)
  BY <1>1, RunOne
<1>7. State(ExecuteOne(a, m), RolesOf(ClientsAfter(a.db.clients, m)), DisabledOf(ClientsAfter(a.db.clients, m)),
            RolesOf(GroupsAfter(a.db.groups, m)), MembersOf(GroupsAfter(a.db.groups, m)),
            RolesAfter(R, m), OpenAfter(o, m), AnonymousAfter(n, m), F)
  BY <1>1, <1>3, CarriedOut
<1>8. State(ExecuteOne(a, m), CR, Put(CD, c, b), GR, GC, R, o, n, F)
  BY <1>4, <1>5, <1>7, Zenon
<1> QED BY <1>6, <1>8, Zenon DEF m

LEMMA AddClientRole ==
    ASSUME NEW a, NEW CR, NEW CD, NEW GR, NEW GC, NEW R, NEW o, NEW n, NEW F \in BOOLEAN,
           State(a, CR, CD, GR, GC, R, o, n, F),
           NEW c \in Client, NEW r \in Role, c \in DOMAIN CR, r \in DOMAIN R
    PROVE  State(RunFrom(a, <<[command |-> "addClientRole", client |-> c, role |-> r]>>), Grow(CR, c, r), CD, GR, GC, R, o, n, F)
<1> DEFINE m == [command |-> "addClientRole", client |-> c, role |-> r]
<1>1. m \in Command /\ m.command = "addClientRole" /\ m.client = c /\ m.role = r
  BY CommandFacts
<1>2. /\ a.db \in Database /\ a.db.clients \in Clients /\ a.db.groups \in Groups /\ a.db.roles = R
      /\ DOMAIN CR = DOMAIN a.db.clients /\ DOMAIN GR = DOMAIN a.db.groups
      /\ RolesOf(a.db.clients) = CR /\ DisabledOf(a.db.clients) = CD
      /\ RolesOf(a.db.groups) = GR /\ MembersOf(a.db.groups) = GC
      /\ DOMAIN GC = DOMAIN GR /\ \A h \in DOMAIN GC : a.db.groups[h].clients = GC[h]
  BY StateFacts
<1> HIDE DEF m
<1>3. ~Refused(a.db, m)
  BY <1>1, <1>2 DEF Refused
<1>4. /\ ClientsAfter(a.db.clients, m) = AddRoleTo(a.db.clients, c, r)
      /\ GroupsAfter(a.db.groups, m) = a.db.groups
      /\ RolesAfter(R, m) = R
      /\ OpenAfter(o, m) = o /\ AnonymousAfter(n, m) = n
  BY <1>1, Zenon DEF ClientsAfter, GroupsAfter, RolesAfter, OpenAfter, AnonymousAfter, Fresh, NewGroup, SetPassword,
     SetDisabled, AddRoleTo, RemoveRoleFrom, RoleGone, AddGroupRole, DropGroupRole, AddMember, DropMember, MemberGone
<1>d. c \in DOMAIN a.db.clients
  BY <1>2
<1>v. /\ RolesOf(AddRoleTo(a.db.clients, c, r)) = Grow(RolesOf(a.db.clients), c, r) /\ DisabledOf(AddRoleTo(a.db.clients, c, r)) = DisabledOf(a.db.clients)
      /\ RolesOf(a.db.groups) = RolesOf(a.db.groups) /\ MembersOf(a.db.groups) = MembersOf(a.db.groups)
  BY <1>2, <1>d, ClientRoleAdded, Zenon
<1>5. /\ RolesOf(AddRoleTo(a.db.clients, c, r)) = Grow(CR, c, r) /\ DisabledOf(AddRoleTo(a.db.clients, c, r)) = CD
      /\ RolesOf(a.db.groups) = GR /\ MembersOf(a.db.groups) = GC
  BY <1>2, <1>v, Zenon
<1>6. RunFrom(a, <<m>>) = ExecuteOne(a, m)
  BY <1>1, RunOne
<1>7. State(ExecuteOne(a, m), RolesOf(ClientsAfter(a.db.clients, m)), DisabledOf(ClientsAfter(a.db.clients, m)),
            RolesOf(GroupsAfter(a.db.groups, m)), MembersOf(GroupsAfter(a.db.groups, m)),
            RolesAfter(R, m), OpenAfter(o, m), AnonymousAfter(n, m), F)
  BY <1>1, <1>3, CarriedOut
<1>8. State(ExecuteOne(a, m), Grow(CR, c, r), CD, GR, GC, R, o, n, F)
  BY <1>4, <1>5, <1>7, Zenon
<1> QED BY <1>6, <1>8, Zenon DEF m

LEMMA DropClientRole ==
    ASSUME NEW a, NEW CR, NEW CD, NEW GR, NEW GC, NEW R, NEW o, NEW n, NEW F \in BOOLEAN,
           State(a, CR, CD, GR, GC, R, o, n, F),
           NEW c \in Client, NEW r \in Role, c \in DOMAIN CR
    PROVE  State(RunFrom(a, <<[command |-> "removeClientRole", client |-> c, role |-> r]>>), Shrink(CR, c, r), CD, GR, GC, R, o, n, F)
<1> DEFINE m == [command |-> "removeClientRole", client |-> c, role |-> r]
<1>1. m \in Command /\ m.command = "removeClientRole" /\ m.client = c /\ m.role = r
  BY CommandFacts
<1>2. /\ a.db \in Database /\ a.db.clients \in Clients /\ a.db.groups \in Groups /\ a.db.roles = R
      /\ DOMAIN CR = DOMAIN a.db.clients /\ DOMAIN GR = DOMAIN a.db.groups
      /\ RolesOf(a.db.clients) = CR /\ DisabledOf(a.db.clients) = CD
      /\ RolesOf(a.db.groups) = GR /\ MembersOf(a.db.groups) = GC
      /\ DOMAIN GC = DOMAIN GR /\ \A h \in DOMAIN GC : a.db.groups[h].clients = GC[h]
  BY StateFacts
<1> HIDE DEF m
<1>3. ~Refused(a.db, m)
  BY <1>1, <1>2 DEF Refused
<1>4. /\ ClientsAfter(a.db.clients, m) = RemoveRoleFrom(a.db.clients, c, r)
      /\ GroupsAfter(a.db.groups, m) = a.db.groups
      /\ RolesAfter(R, m) = R
      /\ OpenAfter(o, m) = o /\ AnonymousAfter(n, m) = n
  BY <1>1, Zenon DEF ClientsAfter, GroupsAfter, RolesAfter, OpenAfter, AnonymousAfter, Fresh, NewGroup, SetPassword,
     SetDisabled, AddRoleTo, RemoveRoleFrom, RoleGone, AddGroupRole, DropGroupRole, AddMember, DropMember, MemberGone
<1>d. c \in DOMAIN a.db.clients
  BY <1>2
<1>v. /\ RolesOf(RemoveRoleFrom(a.db.clients, c, r)) = Shrink(RolesOf(a.db.clients), c, r) /\ DisabledOf(RemoveRoleFrom(a.db.clients, c, r)) = DisabledOf(a.db.clients)
      /\ RolesOf(a.db.groups) = RolesOf(a.db.groups) /\ MembersOf(a.db.groups) = MembersOf(a.db.groups)
  BY <1>2, <1>d, ClientRoleDropped, Zenon
<1>5. /\ RolesOf(RemoveRoleFrom(a.db.clients, c, r)) = Shrink(CR, c, r) /\ DisabledOf(RemoveRoleFrom(a.db.clients, c, r)) = CD
      /\ RolesOf(a.db.groups) = GR /\ MembersOf(a.db.groups) = GC
  BY <1>2, <1>v, Zenon
<1>6. RunFrom(a, <<m>>) = ExecuteOne(a, m)
  BY <1>1, RunOne
<1>7. State(ExecuteOne(a, m), RolesOf(ClientsAfter(a.db.clients, m)), DisabledOf(ClientsAfter(a.db.clients, m)),
            RolesOf(GroupsAfter(a.db.groups, m)), MembersOf(GroupsAfter(a.db.groups, m)),
            RolesAfter(R, m), OpenAfter(o, m), AnonymousAfter(n, m), F)
  BY <1>1, <1>3, CarriedOut
<1>8. State(ExecuteOne(a, m), Shrink(CR, c, r), CD, GR, GC, R, o, n, F)
  BY <1>4, <1>5, <1>7, Zenon
<1> QED BY <1>6, <1>8, Zenon DEF m

LEMMA DeleteClient ==
    ASSUME NEW a, NEW CR, NEW CD, NEW GR, NEW GC, NEW R, NEW o, NEW n, NEW F \in BOOLEAN,
           State(a, CR, CD, GR, GC, R, o, n, F),
           NEW c \in Client, c \in DOMAIN CR
    PROVE  State(RunFrom(a, <<[command |-> "deleteClient", client |-> c]>>), WithoutKey(CR, c), WithoutKey(CD, c), GR, Minus(GC, c), R, o, n, F)
<1> DEFINE m == [command |-> "deleteClient", client |-> c]
<1>1. m \in Command /\ m.command = "deleteClient" /\ m.client = c
  BY CommandFacts
<1>2. /\ a.db \in Database /\ a.db.clients \in Clients /\ a.db.groups \in Groups /\ a.db.roles = R
      /\ DOMAIN CR = DOMAIN a.db.clients /\ DOMAIN GR = DOMAIN a.db.groups
      /\ RolesOf(a.db.clients) = CR /\ DisabledOf(a.db.clients) = CD
      /\ RolesOf(a.db.groups) = GR /\ MembersOf(a.db.groups) = GC
      /\ DOMAIN GC = DOMAIN GR /\ \A h \in DOMAIN GC : a.db.groups[h].clients = GC[h]
  BY StateFacts
<1> HIDE DEF m
<1>3. ~Refused(a.db, m)
  BY <1>1, <1>2 DEF Refused
<1>4. /\ ClientsAfter(a.db.clients, m) = WithoutKey(a.db.clients, c)
      /\ GroupsAfter(a.db.groups, m) = MemberGone(a.db.groups, c)
      /\ RolesAfter(R, m) = R
      /\ OpenAfter(o, m) = o /\ AnonymousAfter(n, m) = n
  BY <1>1, Zenon DEF ClientsAfter, GroupsAfter, RolesAfter, OpenAfter, AnonymousAfter, Fresh, NewGroup, SetPassword,
     SetDisabled, AddRoleTo, RemoveRoleFrom, RoleGone, AddGroupRole, DropGroupRole, AddMember, DropMember, MemberGone
<1>d. c \in DOMAIN a.db.clients
  BY <1>2
<1>v. /\ RolesOf(WithoutKey(a.db.clients, c)) = WithoutKey(RolesOf(a.db.clients), c) /\ DisabledOf(WithoutKey(a.db.clients, c)) = WithoutKey(DisabledOf(a.db.clients), c)
      /\ RolesOf(MemberGone(a.db.groups, c)) = RolesOf(a.db.groups) /\ MembersOf(MemberGone(a.db.groups, c)) = Minus(MembersOf(a.db.groups), c)
  BY <1>2, <1>d, ClientDeleted, GroupMemberGone, Zenon
<1>5. /\ RolesOf(WithoutKey(a.db.clients, c)) = WithoutKey(CR, c) /\ DisabledOf(WithoutKey(a.db.clients, c)) = WithoutKey(CD, c)
      /\ RolesOf(MemberGone(a.db.groups, c)) = GR /\ MembersOf(MemberGone(a.db.groups, c)) = Minus(GC, c)
  BY <1>2, <1>v, Zenon
<1>6. RunFrom(a, <<m>>) = ExecuteOne(a, m)
  BY <1>1, RunOne
<1>7. State(ExecuteOne(a, m), RolesOf(ClientsAfter(a.db.clients, m)), DisabledOf(ClientsAfter(a.db.clients, m)),
            RolesOf(GroupsAfter(a.db.groups, m)), MembersOf(GroupsAfter(a.db.groups, m)),
            RolesAfter(R, m), OpenAfter(o, m), AnonymousAfter(n, m), F)
  BY <1>1, <1>3, CarriedOut
<1>8. State(ExecuteOne(a, m), WithoutKey(CR, c), WithoutKey(CD, c), GR, Minus(GC, c), R, o, n, F)
  BY <1>4, <1>5, <1>7, Zenon
<1> QED BY <1>6, <1>8, Zenon DEF m

LEMMA AccessSet ==
    ASSUME NEW a, NEW CR, NEW CD, NEW GR, NEW GC, NEW R, NEW o, NEW n, NEW F \in BOOLEAN,
           State(a, CR, CD, GR, GC, R, o, n, F),
           NEW b \in BOOLEAN
    PROVE  State(RunFrom(a, <<[command |-> "setDefaultACLAccess", open |-> b]>>), CR, CD, GR, GC, R, b, n, F)
<1> DEFINE m == [command |-> "setDefaultACLAccess", open |-> b]
<1>1. m \in Command /\ m.command = "setDefaultACLAccess" /\ m.open = b
  BY CommandFacts
<1>2. /\ a.db \in Database /\ a.db.clients \in Clients /\ a.db.groups \in Groups /\ a.db.roles = R
      /\ DOMAIN CR = DOMAIN a.db.clients /\ DOMAIN GR = DOMAIN a.db.groups
      /\ RolesOf(a.db.clients) = CR /\ DisabledOf(a.db.clients) = CD
      /\ RolesOf(a.db.groups) = GR /\ MembersOf(a.db.groups) = GC
      /\ DOMAIN GC = DOMAIN GR /\ \A h \in DOMAIN GC : a.db.groups[h].clients = GC[h]
  BY StateFacts
<1> HIDE DEF m
<1>3. ~Refused(a.db, m)
  BY <1>1, <1>2 DEF Refused
<1>4. /\ ClientsAfter(a.db.clients, m) = a.db.clients
      /\ GroupsAfter(a.db.groups, m) = a.db.groups
      /\ RolesAfter(R, m) = R
      /\ OpenAfter(o, m) = b /\ AnonymousAfter(n, m) = n
  BY <1>1, Zenon DEF ClientsAfter, GroupsAfter, RolesAfter, OpenAfter, AnonymousAfter, Fresh, NewGroup, SetPassword,
     SetDisabled, AddRoleTo, RemoveRoleFrom, RoleGone, AddGroupRole, DropGroupRole, AddMember, DropMember, MemberGone
<1>5. /\ RolesOf(a.db.clients) = CR /\ DisabledOf(a.db.clients) = CD
      /\ RolesOf(a.db.groups) = GR /\ MembersOf(a.db.groups) = GC
  BY <1>2
<1>6. RunFrom(a, <<m>>) = ExecuteOne(a, m)
  BY <1>1, RunOne
<1>7. State(ExecuteOne(a, m), RolesOf(ClientsAfter(a.db.clients, m)), DisabledOf(ClientsAfter(a.db.clients, m)),
            RolesOf(GroupsAfter(a.db.groups, m)), MembersOf(GroupsAfter(a.db.groups, m)),
            RolesAfter(R, m), OpenAfter(o, m), AnonymousAfter(n, m), F)
  BY <1>1, <1>3, CarriedOut
<1>8. State(ExecuteOne(a, m), CR, CD, GR, GC, R, b, n, F)
  BY <1>4, <1>5, <1>7, Zenon
<1> QED BY <1>6, <1>8, Zenon DEF m

LEMMA AnonymousSet ==
    ASSUME NEW a, NEW CR, NEW CD, NEW GR, NEW GC, NEW R, NEW o, NEW n, NEW F \in BOOLEAN,
           State(a, CR, CD, GR, GC, R, o, n, F),
           NEW g \in Group \cup {NoGroup}, g \in DOMAIN GR
    PROVE  State(RunFrom(a, <<[command |-> "setAnonymousGroup", group |-> g]>>), CR, CD, GR, GC, R, o, g, F)
<1> DEFINE m == [command |-> "setAnonymousGroup", group |-> g]
<1>1. m \in Command /\ m.command = "setAnonymousGroup" /\ m.group = g
  BY CommandFacts
<1>2. /\ a.db \in Database /\ a.db.clients \in Clients /\ a.db.groups \in Groups /\ a.db.roles = R
      /\ DOMAIN CR = DOMAIN a.db.clients /\ DOMAIN GR = DOMAIN a.db.groups
      /\ RolesOf(a.db.clients) = CR /\ DisabledOf(a.db.clients) = CD
      /\ RolesOf(a.db.groups) = GR /\ MembersOf(a.db.groups) = GC
      /\ DOMAIN GC = DOMAIN GR /\ \A h \in DOMAIN GC : a.db.groups[h].clients = GC[h]
  BY StateFacts
<1> HIDE DEF m
<1>3. ~Refused(a.db, m)
  BY <1>1, <1>2 DEF Refused
<1>4. /\ ClientsAfter(a.db.clients, m) = a.db.clients
      /\ GroupsAfter(a.db.groups, m) = a.db.groups
      /\ RolesAfter(R, m) = R
      /\ OpenAfter(o, m) = o /\ AnonymousAfter(n, m) = g
  BY <1>1, Zenon DEF ClientsAfter, GroupsAfter, RolesAfter, OpenAfter, AnonymousAfter, Fresh, NewGroup, SetPassword,
     SetDisabled, AddRoleTo, RemoveRoleFrom, RoleGone, AddGroupRole, DropGroupRole, AddMember, DropMember, MemberGone
<1>5. /\ RolesOf(a.db.clients) = CR /\ DisabledOf(a.db.clients) = CD
      /\ RolesOf(a.db.groups) = GR /\ MembersOf(a.db.groups) = GC
  BY <1>2
<1>6. RunFrom(a, <<m>>) = ExecuteOne(a, m)
  BY <1>1, RunOne
<1>7. State(ExecuteOne(a, m), RolesOf(ClientsAfter(a.db.clients, m)), DisabledOf(ClientsAfter(a.db.clients, m)),
            RolesOf(GroupsAfter(a.db.groups, m)), MembersOf(GroupsAfter(a.db.groups, m)),
            RolesAfter(R, m), OpenAfter(o, m), AnonymousAfter(n, m), F)
  BY <1>1, <1>3, CarriedOut
<1>8. State(ExecuteOne(a, m), CR, CD, GR, GC, R, o, g, F)
  BY <1>4, <1>5, <1>7, Zenon
<1> QED BY <1>6, <1>8, Zenon DEF m

\* The command that names no group is refused.
LEMMA AnonymousRefused ==
    ASSUME NEW a, NEW CR, NEW CD, NEW GR, NEW GC, NEW R, NEW o, NEW n, NEW F \in BOOLEAN,
           State(a, CR, CD, GR, GC, R, o, n, F), NEW g \in Group \cup {NoGroup}, g = NoGroup
    PROVE  F => State(RunFrom(a, <<[command |-> "setAnonymousGroup", group |-> g]>>), CR, CD, GR, GC, R, o, n, F)
<1> DEFINE m == [command |-> "setAnonymousGroup", group |-> g]
<1>1. m \in Command /\ m.command = "setAnonymousGroup" /\ m.group = g
  BY CommandFacts
<1>2. a.db \in Database
  BY StateFacts
<1>d. NoGroup \notin DOMAIN a.db.groups
  BY <1>2, DatabaseFacts, NamesAssumption
<1> HIDE DEF m
<1>3. Refused(a.db, m)
  BY <1>1, <1>d DEF Refused
<1>4. RunFrom(a, <<m>>) = ExecuteOne(a, m)
  BY <1>1, RunOne
<1>5. F => State(ExecuteOne(a, m), CR, CD, GR, GC, R, o, n, F)
  BY <1>1, <1>3, RefusedStays
<1> QED BY <1>4, <1>5, Zenon DEF m

-----------------------------------------------------------------------------
(* One lemma per inner loop of BuildPlan: the commands of one object.      *)

\* A loop of BuildPlan: the commands of one object after the other.
Turns(S, op) == FlattenSeq([i \in 1..Len(SetToSeq(S)) |-> op[SetToSeq(S)[i]]])

LEMMA TurnsType ==
    ASSUME NEW S, IsFiniteSet(S), NEW op \in [S -> Commands]
    PROVE  Turns(S, op) \in Commands
<1> DEFINE s == SetToSeq(S)
           parts == [i \in 1..Len(s) |-> op[s[i]]]
<1>1. s \in Seq(S)
  BY OrderType
<1> HIDE DEF s
<1>2. parts \in Seq(Commands)
  BY <1>1
<1> HIDE DEF parts
<1>3. FlattenSeq(parts) \in Commands
  BY <1>2, Flattened
<1> QED BY <1>3 DEF Turns, parts, s

LEMMA RunTurns ==
    ASSUME NEW a, NEW S, IsFiniteSet(S), NEW op \in [S -> Commands], NEW K, a \in K[{}],
           \A T \in SUBSET S : \A x \in S \ T : \A b \in K[T] : RunFrom(b, op[x]) \in K[T \cup {x}]
    PROVE  RunFrom(a, Turns(S, op)) \in K[S]
BY RunEach DEF Turns

\* Changes by a whole set.
Join(f, x, S) == [f EXCEPT ![x] = @ \cup S]
Cut(f, x, S) == [f EXCEPT ![x] = @ \ S]
Without(f, S) == [x \in DOMAIN f \ S |-> f[x]]
MinusAll(f, S) == [x \in DOMAIN f |-> f[x] \ S]
IsFunction(f) == f = [x \in DOMAIN f |-> f[x]]

LEMMA SetChanges ==
    ASSUME NEW f, IsFunction(f)
    PROVE  /\ \A x \in DOMAIN f : Join(f, x, {}) = f /\ Cut(f, x, {}) = f
           /\ Without(f, {}) = f /\ MinusAll(f, {}) = f
           /\ \A x \in DOMAIN f : \A T, v : Grow(Join(f, x, T), x, v) = Join(f, x, T \cup {v})
           /\ \A x \in DOMAIN f : \A T, v : Shrink(Cut(f, x, T), x, v) = Cut(f, x, T \cup {v})
           /\ \A T, v : WithoutKey(Without(f, T), v) = Without(f, T \cup {v})
           /\ \A T, v : Minus(MinusAll(f, T), v) = MinusAll(f, T \cup {v})
           /\ \A x, T : DOMAIN Join(f, x, T) = DOMAIN f /\ DOMAIN Cut(f, x, T) = DOMAIN f
           /\ \A T : DOMAIN Without(f, T) = DOMAIN f \ T /\ DOMAIN MinusAll(f, T) = DOMAIN f
<1>1. \A x \in DOMAIN f : Join(f, x, {}) = f /\ Cut(f, x, {}) = f
  BY DEF Join, Cut, IsFunction
<1>2. Without(f, {}) = f /\ MinusAll(f, {}) = f
  BY DEF Without, MinusAll, IsFunction
<1>3. ASSUME NEW x \in DOMAIN f, NEW T, NEW v PROVE Grow(Join(f, x, T), x, v) = Join(f, x, T \cup {v})
  BY DEF Grow, Join
<1>4. ASSUME NEW x \in DOMAIN f, NEW T, NEW v PROVE Shrink(Cut(f, x, T), x, v) = Cut(f, x, T \cup {v})
  BY DEF Shrink, Cut
<1>5. \A T, v : WithoutKey(Without(f, T), v) = Without(f, T \cup {v})
  BY DEF WithoutKey, Without
<1>6. \A T, v : Minus(MinusAll(f, T), v) = MinusAll(f, T \cup {v})
  BY DEF Minus, MinusAll
<1>7. \A x, T : DOMAIN Join(f, x, T) = DOMAIN f /\ DOMAIN Cut(f, x, T) = DOMAIN f
  BY DEF Join, Cut
<1>8. \A T : DOMAIN Without(f, T) = DOMAIN f \ T /\ DOMAIN MinusAll(f, T) = DOMAIN f
  BY DEF Without, MinusAll
<1> QED BY <1>1, <1>2, <1>3, <1>4, <1>5, <1>6, <1>7, <1>8

LEMMA StateFunctions ==
    ASSUME NEW a, NEW CR, NEW CD, NEW GR, NEW GC, NEW R, NEW o, NEW n, NEW F,
           State(a, CR, CD, GR, GC, R, o, n, F)
    PROVE  IsFunction(CR) /\ IsFunction(CD) /\ IsFunction(GR) /\ IsFunction(GC) /\ IsFunction(R)
<1>1. /\ RolesOf(a.db.clients) = CR /\ DisabledOf(a.db.clients) = CD
      /\ RolesOf(a.db.groups) = GR /\ MembersOf(a.db.groups) = GC /\ R \in Roles
  BY StateFacts
<1>2. \A f : IsFunction(RolesOf(f)) /\ IsFunction(DisabledOf(f)) /\ IsFunction(MembersOf(f))
  BY DEF IsFunction, RolesOf, DisabledOf, MembersOf
<1>3. IsFunction(R)
  BY <1>1, MapsFacts DEF IsFunction, Roles
<1> QED BY <1>1, <1>2, <1>3, Zenon

\* A group gets roles.
LEMMA AddsGroupRoles ==
    ASSUME NEW a, NEW CR, NEW CD, NEW GR, NEW GC, NEW R, NEW o, NEW n, NEW F \in BOOLEAN,
           State(a, CR, CD, GR, GC, R, o, n, F),
           NEW g \in Group, NEW S \in SUBSET Role, g \in DOMAIN GR, S \subseteq DOMAIN R
    PROVE  State(RunFrom(a, Turns(S, [x \in S |-> <<[command |-> "addGroupRole", group |-> g, role |-> x]>>])), CR, CD, Join(GR, g, S), GC, R, o, n, F)
<1> DEFINE op == [x \in S |-> <<[command |-> "addGroupRole", group |-> g, role |-> x]>>]
           K == [T \in SUBSET S |-> {b \in Accumulator : State(b, CR, CD, Join(GR, g, T), GC, R, o, n, F)}]
<1>1. IsFiniteSet(S) /\ op \in [S -> Commands]
  <2>1. \A x \in S : [command |-> "addGroupRole", group |-> g, role |-> x] \in Command
    BY CommandFacts
  <2> QED BY <2>1, Finite, One
<1>2. /\ IsFunction(CR) /\ IsFunction(CD) /\ IsFunction(GR) /\ IsFunction(GC) /\ IsFunction(R)
      /\ a \in Accumulator /\ DOMAIN CR = DOMAIN CD /\ DOMAIN GR = DOMAIN GC /\ n \in Group \cup {NoGroup}
  BY StateFunctions, StateFacts, DocType
<1>3. a \in K[{}]
  <2>1. Join(GR, g, {}) = GR
    BY <1>2, SetChanges
  <2>2. State(a, CR, CD, Join(GR, g, {}), GC, R, o, n, F)
    BY <2>1, Zenon
  <2> QED BY <1>2, <2>2
<1>4. ASSUME NEW T \in SUBSET S, NEW x \in S \ T, NEW b \in K[T] PROVE RunFrom(b, op[x]) \in K[T \cup {x}]
  <2>1. State(b, CR, CD, Join(GR, g, T), GC, R, o, n, F)
    OBVIOUS
  <2>2. DOMAIN Join(GR, g, T) = DOMAIN GR /\ x \in Role /\ x \in DOMAIN R
    BY <1>2, SetChanges
  <2> DEFINE next == RunFrom(b, <<[command |-> "addGroupRole", group |-> g, role |-> x]>>)
  <2>3. State(next, CR, CD, Grow(Join(GR, g, T), g, x), GC, R, o, n, F)
    BY <2>1, <2>2, AddGroupRoleTo
  <2>4. Grow(Join(GR, g, T), g, x) = Join(GR, g, T \cup {x})
    BY <1>2, SetChanges
  <2> HIDE DEF next
  <2>5. State(next, CR, CD, Join(GR, g, T \cup {x}), GC, R, o, n, F)
    BY <2>3, <2>4, Zenon
  <2>6. next \in Accumulator
    BY <2>5, StateFacts
  <2>7. next \in K[T \cup {x}]
    BY <2>5, <2>6
  <2> QED BY <2>7 DEF next
<1>5. \A T \in SUBSET S : \A x \in S \ T : \A b \in K[T] : RunFrom(b, op[x]) \in K[T \cup {x}]
  BY <1>4
<1> HIDE DEF op, K
<1>6. RunFrom(a, Turns(S, op)) \in K[S]
  BY <1>1, <1>3, <1>5, RunTurns
<1> QED BY <1>6 DEF K, op

\* A group loses roles.
LEMMA DropsGroupRoles ==
    ASSUME NEW a, NEW CR, NEW CD, NEW GR, NEW GC, NEW R, NEW o, NEW n, NEW F \in BOOLEAN,
           State(a, CR, CD, GR, GC, R, o, n, F),
           NEW g \in Group, NEW S \in SUBSET Role, g \in DOMAIN GR
    PROVE  State(RunFrom(a, Turns(S, [x \in S |-> <<[command |-> "removeGroupRole", group |-> g, role |-> x]>>])), CR, CD, Cut(GR, g, S), GC, R, o, n, F)
<1> DEFINE op == [x \in S |-> <<[command |-> "removeGroupRole", group |-> g, role |-> x]>>]
           K == [T \in SUBSET S |-> {b \in Accumulator : State(b, CR, CD, Cut(GR, g, T), GC, R, o, n, F)}]
<1>1. IsFiniteSet(S) /\ op \in [S -> Commands]
  <2>1. \A x \in S : [command |-> "removeGroupRole", group |-> g, role |-> x] \in Command
    BY CommandFacts
  <2> QED BY <2>1, Finite, One
<1>2. /\ IsFunction(CR) /\ IsFunction(CD) /\ IsFunction(GR) /\ IsFunction(GC) /\ IsFunction(R)
      /\ a \in Accumulator /\ DOMAIN CR = DOMAIN CD /\ DOMAIN GR = DOMAIN GC /\ n \in Group \cup {NoGroup}
  BY StateFunctions, StateFacts, DocType
<1>3. a \in K[{}]
  <2>1. Cut(GR, g, {}) = GR
    BY <1>2, SetChanges
  <2>2. State(a, CR, CD, Cut(GR, g, {}), GC, R, o, n, F)
    BY <2>1, Zenon
  <2> QED BY <1>2, <2>2
<1>4. ASSUME NEW T \in SUBSET S, NEW x \in S \ T, NEW b \in K[T] PROVE RunFrom(b, op[x]) \in K[T \cup {x}]
  <2>1. State(b, CR, CD, Cut(GR, g, T), GC, R, o, n, F)
    OBVIOUS
  <2>2. DOMAIN Cut(GR, g, T) = DOMAIN GR /\ x \in Role
    BY <1>2, SetChanges
  <2> DEFINE next == RunFrom(b, <<[command |-> "removeGroupRole", group |-> g, role |-> x]>>)
  <2>3. State(next, CR, CD, Shrink(Cut(GR, g, T), g, x), GC, R, o, n, F)
    BY <2>1, <2>2, DropGroupRoleFrom
  <2>4. Shrink(Cut(GR, g, T), g, x) = Cut(GR, g, T \cup {x})
    BY <1>2, SetChanges
  <2> HIDE DEF next
  <2>5. State(next, CR, CD, Cut(GR, g, T \cup {x}), GC, R, o, n, F)
    BY <2>3, <2>4, Zenon
  <2>6. next \in Accumulator
    BY <2>5, StateFacts
  <2>7. next \in K[T \cup {x}]
    BY <2>5, <2>6
  <2> QED BY <2>7 DEF next
<1>5. \A T \in SUBSET S : \A x \in S \ T : \A b \in K[T] : RunFrom(b, op[x]) \in K[T \cup {x}]
  BY <1>4
<1> HIDE DEF op, K
<1>6. RunFrom(a, Turns(S, op)) \in K[S]
  BY <1>1, <1>3, <1>5, RunTurns
<1> QED BY <1>6 DEF K, op

\* A group loses members.
LEMMA DropsMembers ==
    ASSUME NEW a, NEW CR, NEW CD, NEW GR, NEW GC, NEW R, NEW o, NEW n, NEW F \in BOOLEAN,
           State(a, CR, CD, GR, GC, R, o, n, F),
           NEW g \in Group, NEW S \in SUBSET Client, g \in DOMAIN GR
    PROVE  State(RunFrom(a, Turns(S, [x \in S |-> <<[command |-> "removeGroupClient", group |-> g, client |-> x]>>])), CR, CD, GR, Cut(GC, g, S), R, o, n, F)
<1> DEFINE op == [x \in S |-> <<[command |-> "removeGroupClient", group |-> g, client |-> x]>>]
           K == [T \in SUBSET S |-> {b \in Accumulator : State(b, CR, CD, GR, Cut(GC, g, T), R, o, n, F)}]
<1>1. IsFiniteSet(S) /\ op \in [S -> Commands]
  <2>1. \A x \in S : [command |-> "removeGroupClient", group |-> g, client |-> x] \in Command
    BY CommandFacts
  <2> QED BY <2>1, Finite, One
<1>2. /\ IsFunction(CR) /\ IsFunction(CD) /\ IsFunction(GR) /\ IsFunction(GC) /\ IsFunction(R)
      /\ a \in Accumulator /\ DOMAIN CR = DOMAIN CD /\ DOMAIN GR = DOMAIN GC /\ n \in Group \cup {NoGroup}
  BY StateFunctions, StateFacts, DocType
<1>3. a \in K[{}]
  <2>1. Cut(GC, g, {}) = GC
    BY <1>2, SetChanges
  <2>2. State(a, CR, CD, GR, Cut(GC, g, {}), R, o, n, F)
    BY <2>1, Zenon
  <2> QED BY <1>2, <2>2
<1>4. ASSUME NEW T \in SUBSET S, NEW x \in S \ T, NEW b \in K[T] PROVE RunFrom(b, op[x]) \in K[T \cup {x}]
  <2>1. State(b, CR, CD, GR, Cut(GC, g, T), R, o, n, F)
    OBVIOUS
  <2>2. DOMAIN Cut(GC, g, T) = DOMAIN GC /\ x \in Client
    BY <1>2, SetChanges
  <2> DEFINE next == RunFrom(b, <<[command |-> "removeGroupClient", group |-> g, client |-> x]>>)
  <2>3. State(next, CR, CD, GR, Shrink(Cut(GC, g, T), g, x), R, o, n, F)
    BY <2>1, <2>2, DropMemberFrom
  <2>4. Shrink(Cut(GC, g, T), g, x) = Cut(GC, g, T \cup {x})
    BY <1>2, SetChanges
  <2> HIDE DEF next
  <2>5. State(next, CR, CD, GR, Cut(GC, g, T \cup {x}), R, o, n, F)
    BY <2>3, <2>4, Zenon
  <2>6. next \in Accumulator
    BY <2>5, StateFacts
  <2>7. next \in K[T \cup {x}]
    BY <2>5, <2>6
  <2> QED BY <2>7 DEF next
<1>5. \A T \in SUBSET S : \A x \in S \ T : \A b \in K[T] : RunFrom(b, op[x]) \in K[T \cup {x}]
  BY <1>4
<1> HIDE DEF op, K
<1>6. RunFrom(a, Turns(S, op)) \in K[S]
  BY <1>1, <1>3, <1>5, RunTurns
<1> QED BY <1>6 DEF K, op

\* A client gets roles.
LEMMA AddsClientRoles ==
    ASSUME NEW a, NEW CR, NEW CD, NEW GR, NEW GC, NEW R, NEW o, NEW n, NEW F \in BOOLEAN,
           State(a, CR, CD, GR, GC, R, o, n, F),
           NEW c \in Client, NEW S \in SUBSET Role, c \in DOMAIN CR, S \subseteq DOMAIN R
    PROVE  State(RunFrom(a, Turns(S, [x \in S |-> <<[command |-> "addClientRole", client |-> c, role |-> x]>>])), Join(CR, c, S), CD, GR, GC, R, o, n, F)
<1> DEFINE op == [x \in S |-> <<[command |-> "addClientRole", client |-> c, role |-> x]>>]
           K == [T \in SUBSET S |-> {b \in Accumulator : State(b, Join(CR, c, T), CD, GR, GC, R, o, n, F)}]
<1>1. IsFiniteSet(S) /\ op \in [S -> Commands]
  <2>1. \A x \in S : [command |-> "addClientRole", client |-> c, role |-> x] \in Command
    BY CommandFacts
  <2> QED BY <2>1, Finite, One
<1>2. /\ IsFunction(CR) /\ IsFunction(CD) /\ IsFunction(GR) /\ IsFunction(GC) /\ IsFunction(R)
      /\ a \in Accumulator /\ DOMAIN CR = DOMAIN CD /\ DOMAIN GR = DOMAIN GC /\ n \in Group \cup {NoGroup}
  BY StateFunctions, StateFacts, DocType
<1>3. a \in K[{}]
  <2>1. Join(CR, c, {}) = CR
    BY <1>2, SetChanges
  <2>2. State(a, Join(CR, c, {}), CD, GR, GC, R, o, n, F)
    BY <2>1, Zenon
  <2> QED BY <1>2, <2>2
<1>4. ASSUME NEW T \in SUBSET S, NEW x \in S \ T, NEW b \in K[T] PROVE RunFrom(b, op[x]) \in K[T \cup {x}]
  <2>1. State(b, Join(CR, c, T), CD, GR, GC, R, o, n, F)
    OBVIOUS
  <2>2. DOMAIN Join(CR, c, T) = DOMAIN CR /\ x \in Role /\ x \in DOMAIN R
    BY <1>2, SetChanges
  <2> DEFINE next == RunFrom(b, <<[command |-> "addClientRole", client |-> c, role |-> x]>>)
  <2>3. State(next, Grow(Join(CR, c, T), c, x), CD, GR, GC, R, o, n, F)
    BY <2>1, <2>2, AddClientRole
  <2>4. Grow(Join(CR, c, T), c, x) = Join(CR, c, T \cup {x})
    BY <1>2, SetChanges
  <2> HIDE DEF next
  <2>5. State(next, Join(CR, c, T \cup {x}), CD, GR, GC, R, o, n, F)
    BY <2>3, <2>4, Zenon
  <2>6. next \in Accumulator
    BY <2>5, StateFacts
  <2>7. next \in K[T \cup {x}]
    BY <2>5, <2>6
  <2> QED BY <2>7 DEF next
<1>5. \A T \in SUBSET S : \A x \in S \ T : \A b \in K[T] : RunFrom(b, op[x]) \in K[T \cup {x}]
  BY <1>4
<1> HIDE DEF op, K
<1>6. RunFrom(a, Turns(S, op)) \in K[S]
  BY <1>1, <1>3, <1>5, RunTurns
<1> QED BY <1>6 DEF K, op

\* A client loses roles.
LEMMA DropsClientRoles ==
    ASSUME NEW a, NEW CR, NEW CD, NEW GR, NEW GC, NEW R, NEW o, NEW n, NEW F \in BOOLEAN,
           State(a, CR, CD, GR, GC, R, o, n, F),
           NEW c \in Client, NEW S \in SUBSET Role, c \in DOMAIN CR
    PROVE  State(RunFrom(a, Turns(S, [x \in S |-> <<[command |-> "removeClientRole", client |-> c, role |-> x]>>])), Cut(CR, c, S), CD, GR, GC, R, o, n, F)
<1> DEFINE op == [x \in S |-> <<[command |-> "removeClientRole", client |-> c, role |-> x]>>]
           K == [T \in SUBSET S |-> {b \in Accumulator : State(b, Cut(CR, c, T), CD, GR, GC, R, o, n, F)}]
<1>1. IsFiniteSet(S) /\ op \in [S -> Commands]
  <2>1. \A x \in S : [command |-> "removeClientRole", client |-> c, role |-> x] \in Command
    BY CommandFacts
  <2> QED BY <2>1, Finite, One
<1>2. /\ IsFunction(CR) /\ IsFunction(CD) /\ IsFunction(GR) /\ IsFunction(GC) /\ IsFunction(R)
      /\ a \in Accumulator /\ DOMAIN CR = DOMAIN CD /\ DOMAIN GR = DOMAIN GC /\ n \in Group \cup {NoGroup}
  BY StateFunctions, StateFacts, DocType
<1>3. a \in K[{}]
  <2>1. Cut(CR, c, {}) = CR
    BY <1>2, SetChanges
  <2>2. State(a, Cut(CR, c, {}), CD, GR, GC, R, o, n, F)
    BY <2>1, Zenon
  <2> QED BY <1>2, <2>2
<1>4. ASSUME NEW T \in SUBSET S, NEW x \in S \ T, NEW b \in K[T] PROVE RunFrom(b, op[x]) \in K[T \cup {x}]
  <2>1. State(b, Cut(CR, c, T), CD, GR, GC, R, o, n, F)
    OBVIOUS
  <2>2. DOMAIN Cut(CR, c, T) = DOMAIN CR /\ x \in Role
    BY <1>2, SetChanges
  <2> DEFINE next == RunFrom(b, <<[command |-> "removeClientRole", client |-> c, role |-> x]>>)
  <2>3. State(next, Shrink(Cut(CR, c, T), c, x), CD, GR, GC, R, o, n, F)
    BY <2>1, <2>2, DropClientRole
  <2>4. Shrink(Cut(CR, c, T), c, x) = Cut(CR, c, T \cup {x})
    BY <1>2, SetChanges
  <2> HIDE DEF next
  <2>5. State(next, Cut(CR, c, T \cup {x}), CD, GR, GC, R, o, n, F)
    BY <2>3, <2>4, Zenon
  <2>6. next \in Accumulator
    BY <2>5, StateFacts
  <2>7. next \in K[T \cup {x}]
    BY <2>5, <2>6
  <2> QED BY <2>7 DEF next
<1>5. \A T \in SUBSET S : \A x \in S \ T : \A b \in K[T] : RunFrom(b, op[x]) \in K[T \cup {x}]
  BY <1>4
<1> HIDE DEF op, K
<1>6. RunFrom(a, Turns(S, op)) \in K[S]
  BY <1>1, <1>3, <1>5, RunTurns
<1> QED BY <1>6 DEF K, op

\* Clients are deleted.
LEMMA DeletesClients ==
    ASSUME NEW a, NEW CR, NEW CD, NEW GR, NEW GC, NEW R, NEW o, NEW n, NEW F \in BOOLEAN,
           State(a, CR, CD, GR, GC, R, o, n, F),
           NEW S \in SUBSET Client, S \subseteq DOMAIN CR
    PROVE  State(RunFrom(a, Turns(S, [x \in S |-> <<[command |-> "deleteClient", client |-> x]>>])), Without(CR, S), Without(CD, S), GR, MinusAll(GC, S), R, o, n, F)
<1> DEFINE op == [x \in S |-> <<[command |-> "deleteClient", client |-> x]>>]
           K == [T \in SUBSET S |-> {b \in Accumulator : State(b, Without(CR, T), Without(CD, T), GR, MinusAll(GC, T), R, o, n, F)}]
<1>1. IsFiniteSet(S) /\ op \in [S -> Commands]
  <2>1. \A x \in S : [command |-> "deleteClient", client |-> x] \in Command
    BY CommandFacts
  <2> QED BY <2>1, Finite, One
<1>2. /\ IsFunction(CR) /\ IsFunction(CD) /\ IsFunction(GR) /\ IsFunction(GC) /\ IsFunction(R)
      /\ a \in Accumulator /\ DOMAIN CR = DOMAIN CD /\ DOMAIN GR = DOMAIN GC /\ n \in Group \cup {NoGroup}
  BY StateFunctions, StateFacts, DocType
<1>3. a \in K[{}]
  <2>1. Without(CR, {}) = CR /\ Without(CD, {}) = CD /\ MinusAll(GC, {}) = GC
    BY <1>2, SetChanges
  <2>2. State(a, Without(CR, {}), Without(CD, {}), GR, MinusAll(GC, {}), R, o, n, F)
    BY <2>1, Zenon
  <2> QED BY <1>2, <2>2
<1>4. ASSUME NEW T \in SUBSET S, NEW x \in S \ T, NEW b \in K[T] PROVE RunFrom(b, op[x]) \in K[T \cup {x}]
  <2>1. State(b, Without(CR, T), Without(CD, T), GR, MinusAll(GC, T), R, o, n, F)
    OBVIOUS
  <2>2. x \in DOMAIN Without(CR, T) /\ x \in Client
    BY <1>2 DEF Without
  <2> DEFINE next == RunFrom(b, <<[command |-> "deleteClient", client |-> x]>>)
  <2>3. State(next, WithoutKey(Without(CR, T), x), WithoutKey(Without(CD, T), x), GR, Minus(MinusAll(GC, T), x), R, o, n, F)
    BY <2>1, <2>2, DeleteClient
  <2>4. /\ WithoutKey(Without(CR, T), x) = Without(CR, T \cup {x})
        /\ WithoutKey(Without(CD, T), x) = Without(CD, T \cup {x})
        /\ Minus(MinusAll(GC, T), x) = MinusAll(GC, T \cup {x})
    BY <1>2, SetChanges
  <2> HIDE DEF next
  <2>5. State(next, Without(CR, T \cup {x}), Without(CD, T \cup {x}), GR, MinusAll(GC, T \cup {x}), R, o, n, F)
    BY <2>3, <2>4, Zenon
  <2>6. next \in Accumulator
    BY <2>5, StateFacts
  <2>7. next \in K[T \cup {x}]
    BY <2>5, <2>6
  <2> QED BY <2>7 DEF next
<1>5. \A T \in SUBSET S : \A x \in S \ T : \A b \in K[T] : RunFrom(b, op[x]) \in K[T \cup {x}]
  BY <1>4
<1> HIDE DEF op, K
<1>6. RunFrom(a, Turns(S, op)) \in K[S]
  BY <1>1, <1>3, <1>5, RunTurns
<1> QED BY <1>6 DEF K, op

Unless(n, S) == IF n \in S THEN NoGroup ELSE n

LEMMA UnlessFacts == \A n \in Group \cup {NoGroup} : /\ Unless(n, {}) = n
     /\ \A T \in SUBSET Group : \A x \in Group : (IF Unless(n, T) = x THEN NoGroup ELSE Unless(n, T)) = Unless(n, T \cup {x})
BY NamesAssumption DEF Unless

\* Groups are deleted.
LEMMA DeletesGroups ==
    ASSUME NEW a, NEW CR, NEW CD, NEW GR, NEW GC, NEW R, NEW o, NEW n, NEW F \in BOOLEAN,
           State(a, CR, CD, GR, GC, R, o, n, F),
           NEW S \in SUBSET Group, S \subseteq DOMAIN GR
    PROVE  State(RunFrom(a, Turns(S, [x \in S |-> <<[command |-> "deleteGroup", group |-> x]>>])), CR, CD, Without(GR, S), Without(GC, S), R, o, Unless(n, S), F)
<1> DEFINE op == [x \in S |-> <<[command |-> "deleteGroup", group |-> x]>>]
           K == [T \in SUBSET S |-> {b \in Accumulator : State(b, CR, CD, Without(GR, T), Without(GC, T), R, o, Unless(n, T), F)}]
<1>1. IsFiniteSet(S) /\ op \in [S -> Commands]
  <2>1. \A x \in S : [command |-> "deleteGroup", group |-> x] \in Command
    BY CommandFacts
  <2> QED BY <2>1, Finite, One
<1>2. /\ IsFunction(CR) /\ IsFunction(CD) /\ IsFunction(GR) /\ IsFunction(GC) /\ IsFunction(R)
      /\ a \in Accumulator /\ DOMAIN CR = DOMAIN CD /\ DOMAIN GR = DOMAIN GC /\ n \in Group \cup {NoGroup}
  BY StateFunctions, StateFacts, DocType
<1>3. a \in K[{}]
  <2>1. Without(GR, {}) = GR /\ Without(GC, {}) = GC /\ Unless(n, {}) = n
    BY <1>2, SetChanges, UnlessFacts
  <2>2. State(a, CR, CD, Without(GR, {}), Without(GC, {}), R, o, Unless(n, {}), F)
    BY <2>1, Zenon
  <2> QED BY <1>2, <2>2
<1>4. ASSUME NEW T \in SUBSET S, NEW x \in S \ T, NEW b \in K[T] PROVE RunFrom(b, op[x]) \in K[T \cup {x}]
  <2>1. State(b, CR, CD, Without(GR, T), Without(GC, T), R, o, Unless(n, T), F)
    OBVIOUS
  <2>2. x \in DOMAIN Without(GR, T) /\ x \in Group
    BY <1>2 DEF Without
  <2> DEFINE next == RunFrom(b, <<[command |-> "deleteGroup", group |-> x]>>)
  <2>3. State(next, CR, CD, WithoutKey(Without(GR, T), x), WithoutKey(Without(GC, T), x), R, o, (IF Unless(n, T) = x THEN NoGroup ELSE Unless(n, T)), F)
    BY <2>1, <2>2, DeleteGroup
  <2>4. /\ WithoutKey(Without(GR, T), x) = Without(GR, T \cup {x})
        /\ WithoutKey(Without(GC, T), x) = Without(GC, T \cup {x})
        /\ (IF Unless(n, T) = x THEN NoGroup ELSE Unless(n, T)) = Unless(n, T \cup {x})
    BY <1>2, SetChanges, UnlessFacts
  <2> HIDE DEF next
  <2>5. State(next, CR, CD, Without(GR, T \cup {x}), Without(GC, T \cup {x}), R, o, Unless(n, T \cup {x}), F)
    BY <2>3, <2>4, Zenon
  <2>6. next \in Accumulator
    BY <2>5, StateFacts
  <2>7. next \in K[T \cup {x}]
    BY <2>5, <2>6
  <2> QED BY <2>7 DEF next
<1>5. \A T \in SUBSET S : \A x \in S \ T : \A b \in K[T] : RunFrom(b, op[x]) \in K[T \cup {x}]
  BY <1>4
<1> HIDE DEF op, K
<1>6. RunFrom(a, Turns(S, op)) \in K[S]
  BY <1>1, <1>3, <1>5, RunTurns
<1> QED BY <1>6 DEF K, op

\* Roles are deleted.
LEMMA DeletesRoles ==
    ASSUME NEW a, NEW CR, NEW CD, NEW GR, NEW GC, NEW R, NEW o, NEW n, NEW F \in BOOLEAN,
           State(a, CR, CD, GR, GC, R, o, n, F),
           NEW S \in SUBSET Role, S \subseteq DOMAIN R
    PROVE  State(RunFrom(a, Turns(S, [x \in S |-> <<[command |-> "deleteRole", role |-> x]>>])), MinusAll(CR, S), CD, MinusAll(GR, S), GC, Without(R, S), o, n, F)
<1> DEFINE op == [x \in S |-> <<[command |-> "deleteRole", role |-> x]>>]
           K == [T \in SUBSET S |-> {b \in Accumulator : State(b, MinusAll(CR, T), CD, MinusAll(GR, T), GC, Without(R, T), o, n, F)}]
<1>1. IsFiniteSet(S) /\ op \in [S -> Commands]
  <2>1. \A x \in S : [command |-> "deleteRole", role |-> x] \in Command
    BY CommandFacts
  <2> QED BY <2>1, Finite, One
<1>2. /\ IsFunction(CR) /\ IsFunction(CD) /\ IsFunction(GR) /\ IsFunction(GC) /\ IsFunction(R)
      /\ a \in Accumulator /\ DOMAIN CR = DOMAIN CD /\ DOMAIN GR = DOMAIN GC /\ n \in Group \cup {NoGroup}
  BY StateFunctions, StateFacts, DocType
<1>3. a \in K[{}]
  <2>1. MinusAll(CR, {}) = CR /\ MinusAll(GR, {}) = GR /\ Without(R, {}) = R
    BY <1>2, SetChanges
  <2>2. State(a, MinusAll(CR, {}), CD, MinusAll(GR, {}), GC, Without(R, {}), o, n, F)
    BY <2>1, Zenon
  <2> QED BY <1>2, <2>2
<1>4. ASSUME NEW T \in SUBSET S, NEW x \in S \ T, NEW b \in K[T] PROVE RunFrom(b, op[x]) \in K[T \cup {x}]
  <2>1. State(b, MinusAll(CR, T), CD, MinusAll(GR, T), GC, Without(R, T), o, n, F)
    OBVIOUS
  <2>2. x \in DOMAIN Without(R, T) /\ x \in Role
    BY <1>2 DEF Without
  <2> DEFINE next == RunFrom(b, <<[command |-> "deleteRole", role |-> x]>>)
  <2>3. State(next, Minus(MinusAll(CR, T), x), CD, Minus(MinusAll(GR, T), x), GC, WithoutKey(Without(R, T), x), o, n, F)
    BY <2>1, <2>2, DeleteRole
  <2>4. /\ Minus(MinusAll(CR, T), x) = MinusAll(CR, T \cup {x})
        /\ Minus(MinusAll(GR, T), x) = MinusAll(GR, T \cup {x})
        /\ WithoutKey(Without(R, T), x) = Without(R, T \cup {x})
    BY <1>2, SetChanges
  <2> HIDE DEF next
  <2>5. State(next, MinusAll(CR, T \cup {x}), CD, MinusAll(GR, T \cup {x}), GC, Without(R, T \cup {x}), o, n, F)
    BY <2>3, <2>4, Zenon
  <2>6. next \in Accumulator
    BY <2>5, StateFacts
  <2>7. next \in K[T \cup {x}]
    BY <2>5, <2>6
  <2> QED BY <2>7 DEF next
<1>5. \A T \in SUBSET S : \A x \in S \ T : \A b \in K[T] : RunFrom(b, op[x]) \in K[T \cup {x}]
  BY <1>4
<1> HIDE DEF op, K
<1>6. RunFrom(a, Turns(S, op)) \in K[S]
  BY <1>1, <1>3, <1>5, RunTurns
<1> QED BY <1>6 DEF K, op

\* A group gets members: those who do not exist yet, or are members already, are refused.
LEMMA AddsMembers ==
    ASSUME NEW a, NEW CR, NEW CD, NEW GR, NEW GC, NEW R, NEW o, NEW n, NEW F \in BOOLEAN,
           State(a, CR, CD, GR, GC, R, o, n, F),
           NEW g \in Group, NEW S \in SUBSET Client, g \in DOMAIN GR,
           \A x \in S : (x \notin DOMAIN CR \/ x \in GC[g]) => F
    PROVE  State(RunFrom(a, Turns(S, [x \in S |-> <<[command |-> "addGroupClient", group |-> g, client |-> x]>>])), CR, CD, GR, Join(GC, g, S \cap DOMAIN CR), R, o, n, F)
<1> DEFINE op == [x \in S |-> <<[command |-> "addGroupClient", group |-> g, client |-> x]>>]
           K == [T \in SUBSET S |-> {b \in Accumulator : State(b, CR, CD, GR, Join(GC, g, T \cap DOMAIN CR), R, o, n, F)}]
<1>1. IsFiniteSet(S) /\ op \in [S -> Commands]
  <2>1. \A x \in S : [command |-> "addGroupClient", group |-> g, client |-> x] \in Command
    BY CommandFacts
  <2> QED BY <2>1, Finite, One
<1>2. a \in Accumulator /\ IsFunction(GC) /\ DOMAIN GR = DOMAIN GC
  BY StateFunctions, StateFacts
<1>3. a \in K[{}]
  <2>1. Join(GC, g, {} \cap DOMAIN CR) = GC
    BY <1>2 DEF Join, IsFunction
  <2>2. State(a, CR, CD, GR, Join(GC, g, {} \cap DOMAIN CR), R, o, n, F)
    BY <2>1, Zenon
  <2> QED BY <1>2, <2>2
<1>4. ASSUME NEW T \in SUBSET S, NEW x \in S \ T, NEW b \in K[T] PROVE RunFrom(b, op[x]) \in K[T \cup {x}]
  <2> DEFINE M == Join(GC, g, T \cap DOMAIN CR)
             next == RunFrom(b, <<[command |-> "addGroupClient", group |-> g, client |-> x]>>)
  <2>1. State(b, CR, CD, GR, M, R, o, n, F)
    OBVIOUS
  <2>2. x \in Client /\ M[g] = GC[g] \cup (T \cap DOMAIN CR)
    BY <1>2 DEF Join
  <2>3. State(next, CR, CD, GR, Join(GC, g, (T \cup {x}) \cap DOMAIN CR), R, o, n, F)
    <3>1. CASE x \in DOMAIN CR /\ x \notin GC[g]
      <4>1. x \notin M[g]
        BY <2>2, <3>1
      <4>2. Grow(M, g, x) = Join(GC, g, (T \cup {x}) \cap DOMAIN CR)
        <5>1. (T \cup {x}) \cap DOMAIN CR = (T \cap DOMAIN CR) \cup {x}
          BY <3>1
        <5>2. Grow(Join(GC, g, T \cap DOMAIN CR), g, x) = Join(GC, g, (T \cap DOMAIN CR) \cup {x})
          BY <1>2, SetChanges
        <5> QED BY <5>1, <5>2, Zenon
      <4> HIDE DEF M
      <4>3. State(next, CR, CD, GR, Grow(M, g, x), R, o, n, F)
        BY <2>1, <2>2, <3>1, <4>1, AddMemberTo
      <4> HIDE DEF next
      <4> QED BY <4>2, <4>3, Zenon
    <3>2. CASE ~(x \in DOMAIN CR /\ x \notin GC[g])
      <4>1. F
        BY <3>2
      <4>2. Join(GC, g, (T \cup {x}) \cap DOMAIN CR) = M
        BY <1>2, <3>2 DEF Join
      <4>3. x \notin DOMAIN CR \/ x \in M[g]
        BY <2>2, <3>2
      <4> HIDE DEF M
      <4>4. F => State(next, CR, CD, GR, M, R, o, n, F)
        BY <2>1, <2>2, <4>3, AddMemberRefused
      <4> HIDE DEF next
      <4> QED BY <4>1, <4>2, <4>4, Zenon
    <3> QED BY <3>1, <3>2
  <2> HIDE DEF next
  <2>4. next \in Accumulator
    BY <2>3, StateFacts
  <2>5. next \in K[T \cup {x}]
    BY <2>3, <2>4
  <2> QED BY <2>5 DEF next
<1>5. \A T \in SUBSET S : \A x \in S \ T : \A b \in K[T] : RunFrom(b, op[x]) \in K[T \cup {x}]
  BY <1>4
<1> HIDE DEF op, K
<1>6. RunFrom(a, Turns(S, op)) \in K[S]
  BY <1>1, <1>3, <1>5, RunTurns
<1> QED BY <1>6 DEF K, op

-----------------------------------------------------------------------------
(* The access entries of one role.                                         *)

LEMMA PutFacts ==
    ASSUME NEW f, NEW x \in DOMAIN f
    PROVE  /\ \A v : DOMAIN Put(f, x, v) = DOMAIN f /\ Put(f, x, v)[x] = v
           /\ \A v, w : Put(Put(f, x, v), x, w) = Put(f, x, w)
           /\ IsFunction(f) => Put(f, x, f[x]) = f
BY DEF Put, IsFunction

\* A role loses access entries.
LEMMA DropsAcls ==
    ASSUME NEW a, NEW CR, NEW CD, NEW GR, NEW GC, NEW R, NEW o, NEW n, NEW F \in BOOLEAN,
           State(a, CR, CD, GR, GC, R, o, n, F),
           NEW r \in Role, r \in DOMAIN R, NEW S \in SUBSET Topic, S \subseteq DOMAIN R[r]
    PROVE  State(RunFrom(a, Turns(S, [x \in S |-> <<[command |-> "removeRoleACL", role |-> r, topic |-> x]>>])),
                 CR, CD, GR, GC, Put(R, r, Without(R[r], S)), o, n, F)
<1> DEFINE cmd(x) == [command |-> "removeRoleACL", role |-> r, topic |-> x]
           op == [x \in S |-> <<cmd(x)>>]
           K == [T \in SUBSET S |-> {b \in Accumulator : State(b, CR, CD, GR, GC, Put(R, r, Without(R[r], T)), o, n, F)}]
<1>1. IsFiniteSet(S) /\ op \in [S -> Commands]
  <2>1. \A x \in S : cmd(x) \in Command
    BY CommandFacts
  <2> QED BY <2>1, Finite, One
<1>2. a \in Accumulator /\ IsFunction(R) /\ R[r] \in Entries
  BY StateFunctions, StateFacts
<1>e. IsFunction(R[r])
  BY <1>2, MapsFacts DEF IsFunction, Entries
<1>3. a \in K[{}]
  <2>1. Put(R, r, Without(R[r], {})) = R
    <3>1. Without(R[r], {}) = R[r]
      BY <1>e, SetChanges
    <3>2. Put(R, r, R[r]) = R
      BY <1>2, PutFacts
    <3> QED BY <3>1, <3>2, Zenon
  <2>2. State(a, CR, CD, GR, GC, Put(R, r, Without(R[r], {})), o, n, F)
    BY <2>1, Zenon
  <2> QED BY <1>2, <2>2
<1>4. ASSUME NEW T \in SUBSET S, NEW x \in S \ T, NEW b \in K[T] PROVE RunFrom(b, op[x]) \in K[T \cup {x}]
  <2> DEFINE E == Without(R[r], T)
             M == Put(R, r, E)
             next == RunFrom(b, <<cmd(x)>>)
  <2>1. State(b, CR, CD, GR, GC, M, o, n, F)
    OBVIOUS
  <2>2. x \in Topic /\ x \in DOMAIN E
    BY DEF Without
  <2>3. WithoutKey(E, x) = Without(R[r], T \cup {x})
    BY <1>e, SetChanges
  <2> HIDE DEF E
  <2>4. DOMAIN M = DOMAIN R /\ M[r] = E /\ Put(M, r, WithoutKey(E, x)) = Put(R, r, WithoutKey(E, x))
    BY PutFacts
  <2> HIDE DEF M
  <2>a. r \in DOMAIN M /\ x \in DOMAIN M[r] /\ x \in Topic
    BY <2>2, <2>4
  <2>5. State(next, CR, CD, GR, GC, [M EXCEPT ![r] = WithoutKey(M[r], x)], o, n, F)
    BY <2>1, <2>a, DropAcl
  <2> HIDE DEF next
  <2>6. [M EXCEPT ![r] = WithoutKey(M[r], x)] = Put(R, r, Without(R[r], T \cup {x}))
    BY <2>3, <2>4, Zenon DEF Put
  <2>7. State(next, CR, CD, GR, GC, Put(R, r, Without(R[r], T \cup {x})), o, n, F)
    BY <2>5, <2>6, Zenon
  <2>8. next \in Accumulator
    BY <2>7, StateFacts
  <2>9. next \in K[T \cup {x}]
    BY <2>7, <2>8
  <2> QED BY <2>9 DEF next
<1>5. \A T \in SUBSET S : \A x \in S \ T : \A b \in K[T] : RunFrom(b, op[x]) \in K[T \cup {x}]
  BY <1>4
<1> HIDE DEF op, K
<1>6. RunFrom(a, Turns(S, op)) \in K[S]
  BY <1>1, <1>3, <1>5, RunTurns
<1> QED BY <1>6 DEF K, op

\* The entries of a role after some of the new ones were added: an entry with
\* the same priority as before is refused, and stays.
Kept(cur, des, t) == t \in DOMAIN cur /\ cur[t].priority = des[t].priority
Merged(cur, des, T) == [t \in (DOMAIN cur \cap DOMAIN des) \cup T |-> IF t \in T /\ ~Kept(cur, des, t) THEN des[t] ELSE cur[t]]
Settled(cur, des) == [t \in DOMAIN des |-> IF Kept(cur, des, t) THEN cur[t] ELSE des[t]]
DropEntry(r, t) == [command |-> "removeRoleACL", role |-> r, topic |-> t]
AddEntry(r, t, x) == [command |-> "addRoleACL", role |-> r, topic |-> t, acl |-> x]
Moved(cur, des, t) == t \in DOMAIN cur /\ cur[t].priority # des[t].priority

LEMMA EntryMerged ==
    ASSUME NEW cur \in Entries, NEW des \in Entries, NEW T, T \subseteq DOMAIN des, NEW t \in DOMAIN des, t \notin T
    PROVE  /\ t \in DOMAIN cur => t \in DOMAIN Merged(cur, des, T)
           /\ t \notin DOMAIN cur => t \notin DOMAIN Merged(cur, des, T)
           /\ t \notin DOMAIN cur => WithKey(Merged(cur, des, T), t, des[t]) = Merged(cur, des, T \cup {t})
           /\ Moved(cur, des, t) => WithKey(WithoutKey(Merged(cur, des, T), t), t, des[t]) = Merged(cur, des, T \cup {t})
           /\ Kept(cur, des, t) => Merged(cur, des, T) = Merged(cur, des, T \cup {t})
<1>1. /\ t \in DOMAIN cur => t \in DOMAIN Merged(cur, des, T)
      /\ t \notin DOMAIN cur => t \notin DOMAIN Merged(cur, des, T)
  BY DEF Merged
<1>2. ASSUME t \notin DOMAIN cur PROVE WithKey(Merged(cur, des, T), t, des[t]) = Merged(cur, des, T \cup {t})
  BY <1>2 DEF Merged, WithKey, Kept
<1>3. ASSUME Moved(cur, des, t) PROVE WithKey(WithoutKey(Merged(cur, des, T), t), t, des[t]) = Merged(cur, des, T \cup {t})
  BY <1>3 DEF Merged, WithKey, WithoutKey, Kept, Moved
<1>4. ASSUME Kept(cur, des, t) PROVE Merged(cur, des, T) = Merged(cur, des, T \cup {t})
  BY <1>4 DEF Merged, Kept
<1> QED BY <1>1, <1>2, <1>3, <1>4

\* One entry is added, after it was removed if its priority changes.
LEMMA AddsEntry ==
    ASSUME NEW a, NEW CR, NEW CD, NEW GR, NEW GC, NEW R, NEW o, NEW n, NEW F \in BOOLEAN,
           State(a, CR, CD, GR, GC, R, o, n, F),
           NEW r \in Role, r \in DOMAIN R, NEW cur \in Entries, NEW des \in Entries, NEW Q,
           NEW T, T \subseteq DOMAIN des, NEW t \in DOMAIN des, t \notin T, r \in DOMAIN Q,
           R = Put(Q, r, Merged(cur, des, T)), Kept(cur, des, t) => F
    PROVE  State(RunFrom(a, (IF Moved(cur, des, t) THEN <<DropEntry(r, t)>> ELSE <<>>) \o <<AddEntry(r, t, des[t])>>),
                 CR, CD, GR, GC, Put(Q, r, Merged(cur, des, T \cup {t})), o, n, F)
<1> DEFINE E == Merged(cur, des, T)
           N == Merged(cur, des, T \cup {t})
           drop == DropEntry(r, t)
           add == AddEntry(r, t, des[t])
<1>1. t \in Topic /\ des[t] \in Entry /\ drop \in Command /\ add \in Command
  BY EntriesFacts, CommandFacts DEF DropEntry, AddEntry
<1>2. R[r] = E /\ \A v : Put(R, r, v) = Put(Q, r, v)
  BY PutFacts
<1>3. /\ t \in DOMAIN cur => t \in DOMAIN E
      /\ t \notin DOMAIN cur => t \notin DOMAIN E
      /\ t \notin DOMAIN cur => WithKey(E, t, des[t]) = N
      /\ Moved(cur, des, t) => WithKey(WithoutKey(E, t), t, des[t]) = N
      /\ Kept(cur, des, t) => E = N
  BY EntryMerged
<1>j. <<>> \in Seq(Command) /\ <<drop>> \in Seq(Command) /\ <<add>> \in Seq(Command)
  BY <1>1
<1> HIDE DEF E, N, drop, add
<1>4. CASE Moved(cur, des, t)
  <2> DEFINE mid == RunFrom(a, <<drop>>)
             W == Put(R, r, WithoutKey(E, t))
  <2>1. t \in DOMAIN E
    BY <1>3, <1>4 DEF Moved
  <2>2. State(mid, CR, CD, GR, GC, [R EXCEPT ![r] = WithoutKey(R[r], t)], o, n, F)
    BY <1>1, <1>2, <2>1, DropAcl DEF drop, DropEntry
  <2>3. [R EXCEPT ![r] = WithoutKey(R[r], t)] = W
    BY <1>2, Zenon DEF Put
  <2>4. State(mid, CR, CD, GR, GC, W, o, n, F)
    BY <2>2, <2>3, Zenon
  <2>5. r \in DOMAIN W /\ W[r] = WithoutKey(E, t) /\ t \notin DOMAIN W[r]
    <3>1. r \in DOMAIN W /\ W[r] = WithoutKey(E, t)
      BY PutFacts
    <3>2. t \notin DOMAIN WithoutKey(E, t)
      BY DEF WithoutKey
    <3> QED BY <3>1, <3>2, Zenon
  <2>w. \A v : Put(W, r, v) = Put(R, r, v)
    BY PutFacts
  <2> HIDE DEF W
  <2>6. State(RunFrom(mid, <<add>>), CR, CD, GR, GC, [W EXCEPT ![r] = WithKey(W[r], t, des[t])], o, n, F)
    BY <1>1, <2>4, <2>5, AddAcl DEF add, AddEntry
  <2>7. [W EXCEPT ![r] = WithKey(W[r], t, des[t])] = Put(Q, r, N)
    <3>1. WithKey(W[r], t, des[t]) = N
      BY <1>3, <1>4, <2>5, Zenon
    <3>2. Put(W, r, N) = Put(Q, r, N)
      BY <1>2, <2>w, Zenon
    <3> QED BY <3>1, <3>2, Zenon DEF Put
  <2>8. RunFrom(a, <<drop>> \o <<add>>) = RunFrom(mid, <<add>>)
    BY <1>j, RunJoined
  <2> QED BY <1>4, <2>6, <2>7, <2>8, Zenon DEF N, drop, add
<1>5. ASSUME ~Moved(cur, des, t)
      PROVE  State(RunFrom(a, <<add>>), CR, CD, GR, GC, Put(Q, r, N), o, n, F)
  <2>1. CASE t \notin DOMAIN cur
    <3>1. t \notin DOMAIN R[r]
      BY <1>2, <1>3, <2>1
    <3>2. State(RunFrom(a, <<add>>), CR, CD, GR, GC, [R EXCEPT ![r] = WithKey(R[r], t, des[t])], o, n, F)
      BY <1>1, <3>1, AddAcl DEF add, AddEntry
    <3>3. [R EXCEPT ![r] = WithKey(R[r], t, des[t])] = Put(Q, r, N)
      BY <1>2, <1>3, <2>1, Zenon DEF Put
    <3> QED BY <3>2, <3>3, Zenon
  <2>2. CASE t \in DOMAIN cur
    <3>1. Kept(cur, des, t) /\ t \in DOMAIN R[r] /\ E = N
      BY <1>2, <1>3, <1>5, <2>2 DEF Moved, Kept
    <3>2. F => State(RunFrom(a, <<add>>), CR, CD, GR, GC, R, o, n, F)
      BY <1>1, <3>1, AddAclRefused DEF add, AddEntry
    <3>3. R = Put(Q, r, N)
      BY <3>1, Zenon DEF E
    <3> QED BY <3>1, <3>2, <3>3, Zenon
  <2> QED BY <2>1, <2>2
<1>6. CASE ~Moved(cur, des, t)
  <2>1. <<>> \o <<add>> = <<add>>
    BY <1>j
  <2> QED BY <1>5, <1>6, <2>1, Zenon DEF N, drop, add
<1> QED BY <1>4, <1>6

\* The entries of the document that are new or differ are added.
LEMMA AddsAcls ==
    ASSUME NEW a, NEW CR, NEW CD, NEW GR, NEW GC, NEW R, NEW o, NEW n, NEW F \in BOOLEAN,
           State(a, CR, CD, GR, GC, R, o, n, F),
           NEW r \in Role, NEW cur \in Entries, NEW des \in Entries, NEW Q, r \in DOMAIN Q,
           R = Put(Q, r, Merged(cur, des, {})), NEW S \in SUBSET (DOMAIN des),
           \A t \in S : Kept(cur, des, t) => F
    PROVE  State(RunFrom(a, Turns(S, [t \in S |-> (IF Moved(cur, des, t) THEN <<DropEntry(r, t)>> ELSE <<>>) \o <<AddEntry(r, t, des[t])>>])),
                 CR, CD, GR, GC, Put(Q, r, Merged(cur, des, S)), o, n, F)
<1> DEFINE turn(t) == (IF Moved(cur, des, t) THEN <<DropEntry(r, t)>> ELSE <<>>) \o <<AddEntry(r, t, des[t])>>
           op == [t \in S |-> turn(t)]
           K == [T \in SUBSET S |-> {b \in Accumulator : State(b, CR, CD, GR, GC, Put(Q, r, Merged(cur, des, T)), o, n, F)}]
<1>1. IsFiniteSet(S) /\ op \in [S -> Commands]
  <2>1. ASSUME NEW t \in S PROVE turn(t) \in Commands
    <3> DEFINE drop == DropEntry(r, t)
               add == AddEntry(r, t, des[t])
    <3>1. drop \in Command /\ add \in Command
      BY EntriesFacts, CommandFacts DEF DropEntry, AddEntry
    <3> HIDE DEF drop, add
    <3>2. <<drop>> \in Commands /\ <<add>> \in Commands /\ <<>> \in Commands
      BY <3>1, One, Nothing
    <3>3. (IF Moved(cur, des, t) THEN <<drop>> ELSE <<>>) \in Commands
      BY <3>2
    <3>4. (IF Moved(cur, des, t) THEN <<drop>> ELSE <<>>) \o <<add>> \in Commands
      BY <3>2, <3>3, Joined
    <3> QED BY <3>4, Zenon DEF drop, add
  <2> HIDE DEF turn
  <2>2. S \subseteq Topic
    BY EntriesFacts
  <2> QED BY <2>1, <2>2, Finite
<1> HIDE DEF turn
<1>2. a \in Accumulator
  BY StateFacts
<1>3. a \in K[{}]
  <2>1. State(a, CR, CD, GR, GC, Put(Q, r, Merged(cur, des, {})), o, n, F)
    BY Zenon
  <2> QED BY <1>2, <2>1
<1>4. ASSUME NEW T \in SUBSET S, NEW t \in S \ T, NEW b \in K[T] PROVE RunFrom(b, op[t]) \in K[T \cup {t}]
  <2> DEFINE M == Put(Q, r, Merged(cur, des, T))
             next == RunFrom(b, turn(t))
  <2>1. State(b, CR, CD, GR, GC, M, o, n, F)
    OBVIOUS
  <2>2. r \in DOMAIN M /\ T \subseteq DOMAIN des /\ t \in DOMAIN des /\ t \notin T /\ M = Put(Q, r, Merged(cur, des, T))
    BY PutFacts
  <2>3. Kept(cur, des, t) => F
    OBVIOUS
  <2> HIDE DEF M, next
  <2>4. State(RunFrom(b, turn(t)), CR, CD, GR, GC, Put(Q, r, Merged(cur, des, T \cup {t})), o, n, F)
    BY <2>1, <2>2, <2>3, AddsEntry DEF turn
  <2>5. State(next, CR, CD, GR, GC, Put(Q, r, Merged(cur, des, T \cup {t})), o, n, F)
    BY <2>4 DEF next
  <2>6. next \in Accumulator
    BY <2>5, StateFacts
  <2>7. next \in K[T \cup {t}]
    BY <2>5, <2>6
  <2> QED BY <2>7 DEF next
<1>5. \A T \in SUBSET S : \A x \in S \ T : \A b \in K[T] : RunFrom(b, op[x]) \in K[T \cup {x}]
  BY <1>4
<1> HIDE DEF op, K
<1>6. RunFrom(a, Turns(S, op)) \in K[S]
  BY <1>1, <1>3, <1>5, RunTurns
<1> QED BY <1>6 DEF K, op, turn

-----------------------------------------------------------------------------
(* roleUpdates, groupUpdates, clientUpdates and the memberships of one     *)
(* object.                                                                 *)

\* roleUpdates leaves the entries of the document, but those it flips.
LEMMA RoleUpdatesRun ==
    ASSUME NEW a, NEW CR, NEW CD, NEW GR, NEW GC, NEW R, NEW o, NEW n, NEW F \in BOOLEAN,
           State(a, CR, CD, GR, GC, R, o, n, F),
           NEW r \in Role, r \in DOMAIN R, NEW des \in Entries,
           \A t \in DOMAIN des : (t \in DOMAIN R[r] /\ R[r][t].priority = des[t].priority /\ R[r][t] # des[t]) => F
    PROVE  State(RunFrom(a, roleUpdates(r, R[r], des)), CR, CD, GR, GC, Put(R, r, Settled(R[r], des)), o, n, F)
<1> DEFINE cur == R[r]
           rem == diffACLs(cur, des).removed
           new == diffACLs(cur, des).added
           Drop(t) == <<[command |-> "removeRoleACL", role |-> r, topic |-> t]>>
           Add(t) == LET moved == t \in DOMAIN cur /\ cur[t].priority # des[t].priority
                     IN  (IF moved THEN Drop(t) ELSE <<>>)
                         \o <<[command |-> "addRoleACL", role |-> r, topic |-> t, acl |-> des[t]]>>
<1>1. cur \in Entries /\ IsFunction(R)
  BY StateFacts, StateFunctions
<1>2. DOMAIN cur \subseteq Topic /\ DOMAIN des \subseteq Topic
  BY <1>1, EntriesFacts
<1>3. /\ rem = DOMAIN cur \ DOMAIN des
      /\ new = {t \in DOMAIN des : t \in DOMAIN cur => cur[t] # des[t]}
  BY DEF diffACLs
<1>s. /\ rem \in SUBSET Topic /\ rem \subseteq DOMAIN cur
      /\ new \in SUBSET Topic /\ new \in SUBSET (DOMAIN des)
  BY <1>2, <1>3
<1>k. \A t \in new : Kept(cur, des, t) => F
  BY <1>3 DEF Kept
<1>m. Without(cur, rem) = Merged(cur, des, {}) /\ Merged(cur, des, new) = Settled(cur, des)
  <2>1. Without(cur, rem) = Merged(cur, des, {})
    BY <1>3 DEF Without, Merged
  <2>2. (DOMAIN cur \cap DOMAIN des) \cup new = DOMAIN des
    BY <1>3
  <2>3. ASSUME NEW t \in DOMAIN des
        PROVE  (IF t \in new /\ ~Kept(cur, des, t) THEN des[t] ELSE cur[t]) = (IF Kept(cur, des, t) THEN cur[t] ELSE des[t])
    BY <1>3 DEF Kept
  <2>4. Merged(cur, des, new) = Settled(cur, des)
    BY <2>2, <2>3 DEF Merged, Settled
  <2> QED BY <2>1, <2>4
<1>t. /\ \A t \in new : Add(t) = (IF Moved(cur, des, t) THEN <<DropEntry(r, t)>> ELSE <<>>) \o <<AddEntry(r, t, des[t])>>
      /\ [t \in rem |-> Drop(t)] = [x \in rem |-> <<[command |-> "removeRoleACL", role |-> r, topic |-> x]>>]
  BY Zenon DEF Moved, DropEntry, AddEntry
<1> DEFINE dropping == Turns(rem, [x \in rem |-> Drop(x)])
           adding == Turns(new, [x \in new |-> Add(x)])
           mid == RunFrom(a, dropping)
<1>d. State(mid, CR, CD, GR, GC, Put(R, r, Without(cur, rem)), o, n, F)
  BY <1>s, DropsAcls
<1>e. State(mid, CR, CD, GR, GC, Put(R, r, Merged(cur, des, {})), o, n, F)
  <2> HIDE DEF mid, cur
  <2> QED BY <1>d, <1>m, Zenon
<1>f. State(RunFrom(mid, adding), CR, CD, GR, GC, Put(R, r, Merged(cur, des, new)), o, n, F)
  <2> DEFINE P == Put(R, r, Merged(cur, des, {}))
             full == [t \in new |-> (IF Moved(cur, des, t) THEN <<DropEntry(r, t)>> ELSE <<>>) \o <<AddEntry(r, t, des[t])>>]
  <2>1. [x \in new |-> Add(x)] = full
    BY <1>t, Zenon
  <2>2. State(mid, CR, CD, GR, GC, P, o, n, F) /\ P = Put(R, r, Merged(cur, des, {}))
    BY <1>e
  <2> HIDE DEF mid, cur, P, Add, new
  <2>3. State(RunFrom(mid, Turns(new, full)), CR, CD, GR, GC, Put(R, r, Merged(cur, des, new)), o, n, F)
    BY <1>1, <1>s, <1>k, <2>2, AddsAcls
  <2> QED BY <2>1, <2>3, Zenon
<1>c. dropping \in Commands /\ adding \in Commands
  <2>1. \A t \in Topic : Drop(t) \in Commands
    BY CommandFacts, One
  <2>2. \A t \in DOMAIN des : Add(t) \in Commands
    <3> TAKE t \in DOMAIN des
    <3>1. [command |-> "addRoleACL", role |-> r, topic |-> t, acl |-> des[t]] \in Command
      BY EntriesFacts, CommandFacts
    <3>2. t \in Topic
      BY <1>2
    <3> HIDE DEF Drop
    <3> QED BY <2>1, <3>1, <3>2, One, Joined, Nothing
  <2> HIDE DEF Drop, Add, rem, new
  <2>3. [x \in rem |-> Drop(x)] \in [rem -> Commands] /\ [x \in new |-> Add(x)] \in [new -> Commands]
    BY <1>s, <2>1, <2>2
  <2> QED BY <1>s, <2>3, Finite, TurnsType
<1> HIDE DEF Drop, Add, rem, new
<1>4. Each(rem, Drop) = Turns(rem, [x \in rem |-> Drop(x)])
  <2>1. SetToSeq(rem) \in Seq(rem)
    BY <1>s, Finite, OrderType
  <2>2. [i \in 1..Len(SetToSeq(rem)) |-> Drop(SetToSeq(rem)[i])]
        = [i \in 1..Len(SetToSeq(rem)) |-> [x \in rem |-> Drop(x)][SetToSeq(rem)[i]]]
    BY <2>1
  <2> QED BY <2>2, Zenon DEF Each, Turns
<1>5. Each(new, Add) = Turns(new, [x \in new |-> Add(x)])
  <2>1. SetToSeq(new) \in Seq(new)
    BY <1>s, Finite, OrderType
  <2>2. [i \in 1..Len(SetToSeq(new)) |-> Add(SetToSeq(new)[i])]
        = [i \in 1..Len(SetToSeq(new)) |-> [x \in new |-> Add(x)][SetToSeq(new)[i]]]
    BY <2>1
  <2> QED BY <2>2, Zenon DEF Each, Turns
<1>6. roleUpdates(r, cur, des) = dropping \o adding
  BY <1>4, <1>5, Zenon DEF roleUpdates, Drop, Add, rem, new, dropping, adding
<1> HIDE DEF dropping, adding
<1>7. RunFrom(a, dropping \o adding) = RunFrom(mid, adding)
  BY <1>c, RunJoined DEF Commands
<1> HIDE DEF mid, cur
<1>8. State(RunFrom(a, roleUpdates(r, cur, des)), CR, CD, GR, GC, Put(R, r, Settled(cur, des)), o, n, F)
  BY <1>f, <1>m, <1>6, <1>7, Zenon
<1> QED BY <1>8 DEF cur

LEMMA SetsJoined ==
    ASSUME NEW f, IsFunction(f), NEW x \in DOMAIN f
    PROVE  /\ \A S, T : Cut(Join(f, x, S), x, T) = Put(f, x, (f[x] \cup S) \ T)
           /\ \A S : Join(f, x, S) = Put(f, x, f[x] \cup S)
<1>1. ASSUME NEW S, NEW T PROVE Cut(Join(f, x, S), x, T) = Put(f, x, (f[x] \cup S) \ T)
  BY DEF Cut, Join, Put
<1>2. \A S : Join(f, x, S) = Put(f, x, f[x] \cup S)
  BY DEF Join, Put
<1> QED BY <1>1, <1>2

\* groupUpdates leaves the roles of the document, and those of its members who exist.
LEMMA GroupUpdatesRun ==
    ASSUME NEW a, NEW CR, NEW CD, NEW GR, NEW GC, NEW R, NEW o, NEW n, NEW F \in BOOLEAN,
           State(a, CR, CD, GR, GC, R, o, n, F),
           NEW g \in Group, g \in DOMAIN GR, NEW cur \in GroupRecord, NEW des \in GroupRecord,
           cur.roles = GR[g], cur.clients = GC[g], des.roles \subseteq DOMAIN R,
           \A x \in des.clients : x \in cur.clients \/ F
    PROVE  State(RunFrom(a, groupUpdates(g, cur, des)), CR, CD, Put(GR, g, des.roles),
                 Put(GC, g, des.clients \cap (GC[g] \cup DOMAIN CR)), R, o, n, F)
<1> DEFINE S1 == des.roles \ cur.roles
           S2 == cur.roles \ des.roles
           S3 == des.clients \ cur.clients
           S4 == cur.clients \ des.clients
           AddRole(x) == <<[command |-> "addGroupRole", group |-> g, role |-> x]>>
           RemoveRole(x) == <<[command |-> "removeGroupRole", group |-> g, role |-> x]>>
           AddClient(x) == <<AddGroupClient(g, x)>>
           RemoveClient(x) == <<RemoveGroupClient(g, x)>>
           T1 == Turns(S1, [x \in S1 |-> AddRole(x)])
           T2 == Turns(S2, [x \in S2 |-> RemoveRole(x)])
           T3 == Turns(S3, [x \in S3 |-> AddClient(x)])
           T4 == Turns(S4, [x \in S4 |-> RemoveClient(x)])
           a1 == RunFrom(a, T1)
           a2 == RunFrom(a1, T2)
           a3 == RunFrom(a2, T3)
           a4 == RunFrom(a3, T4)
<1>1. /\ IsFunction(GR) /\ IsFunction(GC) /\ DOMAIN GR = DOMAIN GC
      /\ GR[g] \subseteq Role /\ GC[g] \subseteq Client
  BY StateFacts, StateFunctions
<1>2. /\ S1 \in SUBSET Role /\ S2 \in SUBSET Role /\ S3 \in SUBSET Client /\ S4 \in SUBSET Client
      /\ S1 \subseteq DOMAIN R
  BY DEF GroupRecord
<1>3. (GR[g] \cup S1) \ S2 = des.roles /\ (GC[g] \cup (S3 \cap DOMAIN CR)) \ S4 = des.clients \cap (GC[g] \cup DOMAIN CR)
  OBVIOUS
<1>4. \A x \in S3 : (x \notin DOMAIN CR \/ x \in GC[g]) => F
  OBVIOUS
<1>c. /\ \A x \in Role : AddRole(x) \in Commands /\ RemoveRole(x) \in Commands
      /\ \A x \in Client : AddClient(x) \in Commands /\ RemoveClient(x) \in Commands
  BY CommandFacts, One DEF AddGroupClient, RemoveGroupClient
<1> HIDE DEF S1, S2, S3, S4
<1>5. State(a1, CR, CD, Join(GR, g, S1), GC, R, o, n, F)
  BY <1>2, AddsGroupRoles
<1> HIDE DEF a1
<1>6. State(a2, CR, CD, Cut(Join(GR, g, S1), g, S2), GC, R, o, n, F)
  <2>1. g \in DOMAIN Join(GR, g, S1)
    BY <1>1, SetChanges
  <2> QED BY <1>2, <1>5, <2>1, DropsGroupRoles
<1>7. State(a2, CR, CD, Put(GR, g, des.roles), GC, R, o, n, F)
  <2> HIDE DEF a2
  <2>1. Cut(Join(GR, g, S1), g, S2) = Put(GR, g, des.roles)
    BY <1>1, <1>3, SetsJoined
  <2> QED BY <1>6, <2>1, Zenon
<1> HIDE DEF a2
<1>d. g \in DOMAIN Put(GR, g, des.roles)
  BY PutFacts
<1>8. State(a3, CR, CD, Put(GR, g, des.roles), Join(GC, g, S3 \cap DOMAIN CR), R, o, n, F)
  BY <1>2, <1>4, <1>7, <1>d, AddsMembers DEF AddGroupClient
<1> HIDE DEF a3
<1>9. State(a4, CR, CD, Put(GR, g, des.roles), Cut(Join(GC, g, S3 \cap DOMAIN CR), g, S4), R, o, n, F)
  BY <1>2, <1>8, <1>d, DropsMembers DEF RemoveGroupClient
<1> HIDE DEF a4
<1>10. State(a4, CR, CD, Put(GR, g, des.roles), Put(GC, g, des.clients \cap (GC[g] \cup DOMAIN CR)), R, o, n, F)
  <2>1. Cut(Join(GC, g, S3 \cap DOMAIN CR), g, S4) = Put(GC, g, des.clients \cap (GC[g] \cup DOMAIN CR))
    BY <1>1, <1>3, SetsJoined
  <2> QED BY <1>9, <2>1, Zenon
<1> HIDE DEF AddRole, RemoveRole, AddClient, RemoveClient
<1>11. Each(S1, AddRole) = Turns(S1, [x \in S1 |-> AddRole(x)])
  <2>1. SetToSeq(S1) \in Seq(S1)
    BY <1>2, Finite, OrderType
  <2>2. [i \in 1..Len(SetToSeq(S1)) |-> AddRole(SetToSeq(S1)[i])]
        = [i \in 1..Len(SetToSeq(S1)) |-> [x \in S1 |-> AddRole(x)][SetToSeq(S1)[i]]]
    BY <2>1
  <2> QED BY <2>2, Zenon DEF Each, Turns
<1>12. Each(S2, RemoveRole) = Turns(S2, [x \in S2 |-> RemoveRole(x)])
  <2>1. SetToSeq(S2) \in Seq(S2)
    BY <1>2, Finite, OrderType
  <2>2. [i \in 1..Len(SetToSeq(S2)) |-> RemoveRole(SetToSeq(S2)[i])]
        = [i \in 1..Len(SetToSeq(S2)) |-> [x \in S2 |-> RemoveRole(x)][SetToSeq(S2)[i]]]
    BY <2>1
  <2> QED BY <2>2, Zenon DEF Each, Turns
<1>13. Each(S3, AddClient) = Turns(S3, [x \in S3 |-> AddClient(x)])
  <2>1. SetToSeq(S3) \in Seq(S3)
    BY <1>2, Finite, OrderType
  <2>2. [i \in 1..Len(SetToSeq(S3)) |-> AddClient(SetToSeq(S3)[i])]
        = [i \in 1..Len(SetToSeq(S3)) |-> [x \in S3 |-> AddClient(x)][SetToSeq(S3)[i]]]
    BY <2>1
  <2> QED BY <2>2, Zenon DEF Each, Turns
<1>14. Each(S4, RemoveClient) = Turns(S4, [x \in S4 |-> RemoveClient(x)])
  <2>1. SetToSeq(S4) \in Seq(S4)
    BY <1>2, Finite, OrderType
  <2>2. [i \in 1..Len(SetToSeq(S4)) |-> RemoveClient(SetToSeq(S4)[i])]
        = [i \in 1..Len(SetToSeq(S4)) |-> [x \in S4 |-> RemoveClient(x)][SetToSeq(S4)[i]]]
    BY <2>1
  <2> QED BY <2>2, Zenon DEF Each, Turns
<1>15. T1 \in Commands /\ T2 \in Commands /\ T3 \in Commands /\ T4 \in Commands
  <2>1. /\ [x \in S1 |-> AddRole(x)] \in [S1 -> Commands] /\ [x \in S2 |-> RemoveRole(x)] \in [S2 -> Commands]
        /\ [x \in S3 |-> AddClient(x)] \in [S3 -> Commands] /\ [x \in S4 |-> RemoveClient(x)] \in [S4 -> Commands]
    BY <1>2, <1>c
  <2> QED BY <1>2, <2>1, Finite, TurnsType
<1>16. groupUpdates(g, cur, des) = T1 \o T2 \o T3 \o T4
  BY <1>11, <1>12, <1>13, <1>14, Zenon DEF groupUpdates, AddRole, RemoveRole, AddClient, RemoveClient, S1, S2, S3, S4
<1> HIDE DEF T1, T2, T3, T4
<1>17. RunFrom(a, T1 \o T2 \o T3 \o T4) = a4
  <2>1. T1 \o T2 \in Commands /\ T1 \o T2 \o T3 \in Commands
    BY <1>15, Joined
  <2>2. RunFrom(a, T1 \o T2 \o T3 \o T4) = RunFrom(RunFrom(a, T1 \o T2 \o T3), T4)
    BY <1>15, <2>1, RunJoined DEF Commands
  <2>3. RunFrom(a, T1 \o T2 \o T3) = RunFrom(RunFrom(a, T1 \o T2), T3)
    BY <1>15, <2>1, RunJoined DEF Commands
  <2>4. RunFrom(a, T1 \o T2) = RunFrom(RunFrom(a, T1), T2)
    BY <1>15, RunJoined DEF Commands
  <2> QED BY <2>2, <2>3, <2>4, Zenon DEF a1, a2, a3, a4
<1> QED BY <1>10, <1>16, <1>17, Zenon

\* clientUpdates leaves the roles of the document, and enables or disables.
LEMMA ClientUpdatesRun ==
    ASSUME NEW a, NEW CR, NEW CD, NEW GR, NEW GC, NEW R, NEW o, NEW n, NEW F \in BOOLEAN,
           State(a, CR, CD, GR, GC, R, o, n, F),
           NEW c \in Client, c \in DOMAIN CR, NEW cur \in ClientRecord, NEW des \in ClientRecord,
           cur.roles = CR[c], cur.disabled = CD[c], des.roles \subseteq DOMAIN R
    PROVE  State(RunFrom(a, clientUpdates(c, cur, des)), Put(CR, c, des.roles), Put(CD, c, des.disabled), GR, GC, R, o, n, F)
<1> DEFINE S1 == des.roles \ cur.roles
           S2 == cur.roles \ des.roles
           AddRole(x) == <<[command |-> "addClientRole", client |-> c, role |-> x]>>
           RemoveRole(x) == <<[command |-> "removeClientRole", client |-> c, role |-> x]>>
           P0 == <<[command |-> "setClientPassword", client |-> c, password |-> des.password]>>
           P1 == <<[command |-> "setClientDisabled", client |-> c, disabled |-> des.disabled]>>
           Q0 == IF des.password = NoPassword THEN <<>> ELSE P0
           Q1 == IF cur.disabled = des.disabled THEN <<>> ELSE P1
           T1 == Turns(S1, [x \in S1 |-> AddRole(x)])
           T2 == Turns(S2, [x \in S2 |-> RemoveRole(x)])
           a1 == RunFrom(a, Q0)
           a2 == RunFrom(a1, Q1)
           a3 == RunFrom(a2, T1)
           a4 == RunFrom(a3, T2)
<1>1. /\ IsFunction(CR) /\ IsFunction(CD) /\ DOMAIN CR = DOMAIN CD /\ CR[c] \subseteq Role
  BY StateFacts, StateFunctions
<1>2. /\ S1 \in SUBSET Role /\ S2 \in SUBSET Role /\ S1 \subseteq DOMAIN R /\ des.password \in Secret /\ des.disabled \in BOOLEAN
  BY DEF ClientRecord
<1>3. (CR[c] \cup S1) \ S2 = des.roles
  OBVIOUS
<1>c. /\ \A x \in Role : AddRole(x) \in Commands /\ RemoveRole(x) \in Commands
      /\ P0 \in Commands /\ P1 \in Commands /\ <<>> \in Commands
  BY <1>2, CommandFacts, One, Nothing
<1> HIDE DEF S1, S2
<1>4. State(a1, CR, CD, GR, GC, R, o, n, F)
  <2>1. State(RunFrom(a, P0), CR, CD, GR, GC, R, o, n, F)
    BY <1>2, PasswordSet
  <2>2. RunFrom(a, <<>>) = a
    BY RunNothing
  <2> HIDE DEF P0
  <2> QED BY <2>1, <2>2, Zenon
<1> HIDE DEF a1
<1>5. State(a2, CR, Put(CD, c, des.disabled), GR, GC, R, o, n, F)
  <2>1. State(RunFrom(a1, P1), CR, Put(CD, c, des.disabled), GR, GC, R, o, n, F)
    BY <1>2, <1>4, DisabledSet
  <2>2. RunFrom(a1, <<>>) = a1
    BY RunNothing
  <2>3. cur.disabled = des.disabled => Put(CD, c, des.disabled) = CD
    <3>1. Put(CD, c, CD[c]) = CD
      BY <1>1, PutFacts
    <3> QED BY <3>1, Zenon
  <2> HIDE DEF P1
  <2> QED BY <1>4, <2>1, <2>2, <2>3, Zenon
<1> HIDE DEF a2
<1>6. State(a3, Join(CR, c, S1), Put(CD, c, des.disabled), GR, GC, R, o, n, F)
  BY <1>2, <1>5, AddsClientRoles
<1> HIDE DEF a3
<1>7. State(a4, Cut(Join(CR, c, S1), c, S2), Put(CD, c, des.disabled), GR, GC, R, o, n, F)
  <2>1. c \in DOMAIN Join(CR, c, S1)
    BY <1>1, SetChanges
  <2> QED BY <1>2, <1>6, <2>1, DropsClientRoles
<1> HIDE DEF a4
<1>8. State(a4, Put(CR, c, des.roles), Put(CD, c, des.disabled), GR, GC, R, o, n, F)
  <2>1. Cut(Join(CR, c, S1), c, S2) = Put(CR, c, des.roles)
    BY <1>1, <1>3, SetsJoined
  <2> QED BY <1>7, <2>1, Zenon
<1> HIDE DEF AddRole, RemoveRole, P0, P1
<1>11. Each(S1, AddRole) = Turns(S1, [x \in S1 |-> AddRole(x)])
  <2>1. SetToSeq(S1) \in Seq(S1)
    BY <1>2, Finite, OrderType
  <2>2. [i \in 1..Len(SetToSeq(S1)) |-> AddRole(SetToSeq(S1)[i])]
        = [i \in 1..Len(SetToSeq(S1)) |-> [x \in S1 |-> AddRole(x)][SetToSeq(S1)[i]]]
    BY <2>1
  <2> QED BY <2>2, Zenon DEF Each, Turns
<1>12. Each(S2, RemoveRole) = Turns(S2, [x \in S2 |-> RemoveRole(x)])
  <2>1. SetToSeq(S2) \in Seq(S2)
    BY <1>2, Finite, OrderType
  <2>2. [i \in 1..Len(SetToSeq(S2)) |-> RemoveRole(SetToSeq(S2)[i])]
        = [i \in 1..Len(SetToSeq(S2)) |-> [x \in S2 |-> RemoveRole(x)][SetToSeq(S2)[i]]]
    BY <2>1
  <2> QED BY <2>2, Zenon DEF Each, Turns
<1>15. T1 \in Commands /\ T2 \in Commands /\ Q0 \in Commands /\ Q1 \in Commands
  <2>1. /\ [x \in S1 |-> AddRole(x)] \in [S1 -> Commands] /\ [x \in S2 |-> RemoveRole(x)] \in [S2 -> Commands]
    BY <1>2, <1>c
  <2>2. T1 \in Commands /\ T2 \in Commands
    BY <1>2, <2>1, Finite, TurnsType
  <2>3. Q0 \in Commands /\ Q1 \in Commands
    BY <1>c
  <2> QED BY <2>2, <2>3
<1>16. clientUpdates(c, cur, des) = Q0 \o Q1 \o T1 \o T2
  BY <1>11, <1>12, Zenon DEF clientUpdates, AddRole, RemoveRole, P0, P1, S1, S2
<1> HIDE DEF T1, T2, Q0, Q1
<1>17. RunFrom(a, Q0 \o Q1 \o T1 \o T2) = a4
  <2>1. Q0 \o Q1 \in Commands /\ Q0 \o Q1 \o T1 \in Commands
    BY <1>15, Joined
  <2>2. RunFrom(a, Q0 \o Q1 \o T1 \o T2) = RunFrom(RunFrom(a, Q0 \o Q1 \o T1), T2)
    BY <1>15, <2>1, RunJoined DEF Commands
  <2>3. RunFrom(a, Q0 \o Q1 \o T1) = RunFrom(RunFrom(a, Q0 \o Q1), T1)
    BY <1>15, <2>1, RunJoined DEF Commands
  <2>4. RunFrom(a, Q0 \o Q1) = RunFrom(RunFrom(a, Q0), Q1)
    BY <1>15, RunJoined DEF Commands
  <2> QED BY <2>2, <2>3, <2>4, Zenon DEF a1, a2, a3, a4
<1> QED BY <1>8, <1>16, <1>17, Zenon

\* groupMembershipUpdates adds the members of the document, and removes the
\* others who are not deleted anyway.
LEMMA MembershipRun ==
    ASSUME NEW a, NEW CR, NEW CD, NEW GR, NEW GC, NEW R, NEW o, NEW n, NEW F \in BOOLEAN,
           State(a, CR, CD, GR, GC, R, o, n, F),
           NEW g \in Group, g \in DOMAIN GR, NEW cur \in GroupRecord, NEW des \in GroupRecord, NEW deleted,
           des.clients \subseteq DOMAIN CR, \A x \in des.clients : x \in cur.clients \/ F
    PROVE  State(RunFrom(a, groupMembershipUpdates(g, cur, des, deleted)), CR, CD, GR,
                 Put(GC, g, (GC[g] \cup (des.clients \ cur.clients)) \ (cur.clients \ (des.clients \cup deleted))), R, o, n, F)
<1> DEFINE S3 == des.clients \ cur.clients
           S4 == cur.clients \ (des.clients \cup deleted)
           AddClient(x) == <<AddGroupClient(g, x)>>
           RemoveClient(x) == <<RemoveGroupClient(g, x)>>
           T3 == Turns(S3, [x \in S3 |-> AddClient(x)])
           T4 == Turns(S4, [x \in S4 |-> RemoveClient(x)])
           a3 == RunFrom(a, T3)
           a4 == RunFrom(a3, T4)
<1>1. IsFunction(GC) /\ DOMAIN GR = DOMAIN GC
  BY StateFacts, StateFunctions
<1>2. S3 \in SUBSET Client /\ S4 \in SUBSET Client /\ S3 \cap DOMAIN CR = S3
  BY DEF GroupRecord
<1>4. \A x \in S3 : (x \notin DOMAIN CR \/ x \in GC[g]) => F
  OBVIOUS
<1>c. \A x \in Client : AddClient(x) \in Commands /\ RemoveClient(x) \in Commands
  BY CommandFacts, One DEF AddGroupClient, RemoveGroupClient
<1> HIDE DEF S3, S4
<1>8. State(a3, CR, CD, GR, Join(GC, g, S3 \cap DOMAIN CR), R, o, n, F)
  BY <1>2, <1>4, AddsMembers DEF AddGroupClient
<1> HIDE DEF a3
<1>9. State(a4, CR, CD, GR, Cut(Join(GC, g, S3 \cap DOMAIN CR), g, S4), R, o, n, F)
  BY <1>2, <1>8, DropsMembers DEF RemoveGroupClient
<1> HIDE DEF a4
<1>10. State(a4, CR, CD, GR, Put(GC, g, (GC[g] \cup S3) \ S4), R, o, n, F)
  <2>1. Cut(Join(GC, g, S3 \cap DOMAIN CR), g, S4) = Put(GC, g, (GC[g] \cup S3) \ S4)
    BY <1>1, <1>2, SetsJoined
  <2> QED BY <1>9, <2>1, Zenon
<1> HIDE DEF AddClient, RemoveClient
<1>13. Each(S3, AddClient) = Turns(S3, [x \in S3 |-> AddClient(x)])
  <2>1. SetToSeq(S3) \in Seq(S3)
    BY <1>2, Finite, OrderType
  <2>2. [i \in 1..Len(SetToSeq(S3)) |-> AddClient(SetToSeq(S3)[i])]
        = [i \in 1..Len(SetToSeq(S3)) |-> [x \in S3 |-> AddClient(x)][SetToSeq(S3)[i]]]
    BY <2>1
  <2> QED BY <2>2, Zenon DEF Each, Turns
<1>14. Each(S4, RemoveClient) = Turns(S4, [x \in S4 |-> RemoveClient(x)])
  <2>1. SetToSeq(S4) \in Seq(S4)
    BY <1>2, Finite, OrderType
  <2>2. [i \in 1..Len(SetToSeq(S4)) |-> RemoveClient(SetToSeq(S4)[i])]
        = [i \in 1..Len(SetToSeq(S4)) |-> [x \in S4 |-> RemoveClient(x)][SetToSeq(S4)[i]]]
    BY <2>1
  <2> QED BY <2>2, Zenon DEF Each, Turns
<1>15. T3 \in Commands /\ T4 \in Commands
  <2>1. [x \in S3 |-> AddClient(x)] \in [S3 -> Commands] /\ [x \in S4 |-> RemoveClient(x)] \in [S4 -> Commands]
    BY <1>2, <1>c
  <2> QED BY <1>2, <2>1, Finite, TurnsType
<1>16. groupMembershipUpdates(g, cur, des, deleted) = T3 \o T4
  BY <1>13, <1>14, Zenon DEF groupMembershipUpdates, AddClient, RemoveClient, S3, S4
<1> HIDE DEF T3, T4
<1>17. RunFrom(a, T3 \o T4) = a4
  <2>4. RunFrom(a, T3 \o T4) = RunFrom(RunFrom(a, T3), T4)
    BY <1>15, RunJoined DEF Commands
  <2> QED BY <2>4, Zenon DEF a3, a4
<1> QED BY <1>10, <1>16, <1>17, Zenon DEF S3, S4

\* The members of a group that was created.
LEMMA NewMembersRun ==
    ASSUME NEW a, NEW CR, NEW CD, NEW GR, NEW GC, NEW R, NEW o, NEW n, NEW F \in BOOLEAN,
           State(a, CR, CD, GR, GC, R, o, n, F),
           NEW g \in Group, g \in DOMAIN GR, NEW S \in SUBSET Client, S \subseteq DOMAIN CR, GC[g] = {}
    PROVE  State(RunFrom(a, Turns(S, [x \in S |-> <<AddGroupClient(g, x)>>])), CR, CD, GR, Put(GC, g, S), R, o, n, F)
<1>1. IsFunction(GC) /\ DOMAIN GR = DOMAIN GC
  BY StateFacts, StateFunctions
<1>2. \A x \in S : (x \notin DOMAIN CR \/ x \in GC[g]) => F
  OBVIOUS
<1> DEFINE b == RunFrom(a, Turns(S, [x \in S |-> <<AddGroupClient(g, x)>>]))
<1>3. State(b, CR, CD, GR, Join(GC, g, S \cap DOMAIN CR), R, o, n, F)
  BY <1>2, AddsMembers DEF AddGroupClient
<1> HIDE DEF b
<1>4. S \cap DOMAIN CR = S /\ GC[g] \cup S = S
  OBVIOUS
<1>5. Join(GC, g, S \cap DOMAIN CR) = Put(GC, g, S)
  BY <1>1, <1>4, SetsJoined
<1>6. State(b, CR, CD, GR, Put(GC, g, S), R, o, n, F)
  BY <1>3, <1>5, Zenon
<1> QED BY <1>6 DEF b

-----------------------------------------------------------------------------
(* The phases of BuildPlan, each a loop over the objects of the document.  *)

\* The roles when some of the document's are done.
RoleOutcome(cr, dr, r) == IF r \in DOMAIN cr THEN Settled(cr[r], dr[r]) ELSE dr[r]
RolesDone(cr, dr, T) == [r \in DOMAIN cr \cup T |-> IF r \in T THEN RoleOutcome(cr, dr, r) ELSE cr[r]]

LEMMA RolePhaseRun ==
    ASSUME NEW a, NEW CR, NEW CD, NEW GR, NEW GC, NEW R, NEW o, NEW n, NEW F \in BOOLEAN,
           State(a, CR, CD, GR, GC, R, o, n, F),
           NEW cur \in Database, NEW des \in Database, R = cur.roles,
           \A r \in DOMAIN cur.roles \cap DOMAIN des.roles :
              \A t \in DOMAIN cur.roles[r] \cap DOMAIN des.roles[r] :
                 (cur.roles[r][t].priority = des.roles[r][t].priority /\ cur.roles[r][t] # des.roles[r][t]) => F
    PROVE  State(RunFrom(a, RolePhase(cur, des)), CR, CD, GR, GC, RolesDone(cur.roles, des.roles, DOMAIN des.roles), o, n, F)
<1> DEFINE S == DOMAIN des.roles
           Change(r) == IF r \in DOMAIN cur.roles
                        THEN roleUpdates(r, cur.roles[r], des.roles[r])
                        ELSE <<[command |-> "createRole", role |-> r, acls |-> des.roles[r]]>>
           op == [x \in S |-> Change(x)]
           K == [T \in SUBSET S |-> {b \in Accumulator : State(b, CR, CD, GR, GC, RolesDone(cur.roles, des.roles, T), o, n, F)}]
<1>1. S \subseteq Role /\ \A r \in S : des.roles[r] \in Entries
  BY DatabaseFacts
<1>2. \A r \in DOMAIN cur.roles : cur.roles[r] \in Entries
  BY DatabaseFacts
<1>f. IsFiniteSet(S)
  BY <1>1, Finite
<1>t. op \in [S -> Commands]
  <2>1. \A x \in S : Change(x) \in Commands
    BY <1>1, <1>2, RoleUpdatesType, CommandFacts, One
  <2> HIDE DEF Change
  <2> QED BY <2>1
<1>3. a \in K[{}]
  <2>1. a \in Accumulator /\ IsFunction(cur.roles)
    BY StateFacts, StateFunctions
  <2>2. RolesDone(cur.roles, des.roles, {}) = R
    BY <2>1 DEF RolesDone, IsFunction
  <2>3. State(a, CR, CD, GR, GC, RolesDone(cur.roles, des.roles, {}), o, n, F)
    BY <2>2, Zenon
  <2> QED BY <2>1, <2>3
<1>4. ASSUME NEW T \in SUBSET S, NEW x \in S \ T, NEW b \in K[T] PROVE RunFrom(b, op[x]) \in K[T \cup {x}]
  <2> DEFINE M == RolesDone(cur.roles, des.roles, T)
             N == RolesDone(cur.roles, des.roles, T \cup {x})
             next == RunFrom(b, Change(x))
  <2>1. State(b, CR, CD, GR, GC, M, o, n, F) /\ x \in Role
    BY <1>1
  <2>2. State(next, CR, CD, GR, GC, N, o, n, F)
    <3>1. CASE x \in DOMAIN cur.roles
      <4>1. x \in DOMAIN M /\ M[x] = cur.roles[x]
        BY <3>1 DEF RolesDone
      <4>2. Put(M, x, Settled(M[x], des.roles[x])) = N
        BY <3>1, <4>1 DEF RolesDone, RoleOutcome, Put
      <4>3. \A t \in DOMAIN des.roles[x] : (t \in DOMAIN M[x] /\ M[x][t].priority = des.roles[x][t].priority
                                            /\ M[x][t] # des.roles[x][t]) => F
        BY <3>1, <4>1
      <4> HIDE DEF M
      <4>4. State(RunFrom(b, roleUpdates(x, M[x], des.roles[x])), CR, CD, GR, GC, Put(M, x, Settled(M[x], des.roles[x])), o, n, F)
        BY <1>1, <2>1, <4>1, <4>3, RoleUpdatesRun
      <4> HIDE DEF N
      <4> QED BY <3>1, <4>1, <4>2, <4>4, Zenon
    <3>2. CASE x \notin DOMAIN cur.roles
      <4>1. x \notin DOMAIN M
        BY <3>2 DEF RolesDone
      <4>2. WithKey(M, x, des.roles[x]) = N
        BY <3>2, <4>1 DEF RolesDone, RoleOutcome, WithKey
      <4> HIDE DEF M
      <4>3. State(RunFrom(b, <<[command |-> "createRole", role |-> x, acls |-> des.roles[x]]>>), CR, CD, GR, GC, WithKey(M, x, des.roles[x]), o, n, F)
        BY <1>1, <2>1, <4>1, CreateRole
      <4> HIDE DEF N
      <4> QED BY <3>2, <4>2, <4>3, Zenon
    <3> QED BY <3>1, <3>2
  <2> HIDE DEF next
  <2>3. next \in Accumulator
    BY <2>2, StateFacts
  <2>4. next \in K[T \cup {x}]
    BY <2>2, <2>3
  <2> QED BY <2>4 DEF next
<1>5. \A T \in SUBSET S : \A x \in S \ T : \A b \in K[T] : RunFrom(b, op[x]) \in K[T \cup {x}]
  BY <1>4
<1> HIDE DEF op, K
<1>6. RunFrom(a, Turns(S, op)) \in K[S]
  BY <1>f, <1>t, <1>3, <1>5, RunTurns
<1> HIDE DEF Change
<1>7. Each(S, Change) = Turns(S, [x \in S |-> Change(x)])
  <2>1. SetToSeq(S) \in Seq(S)
    BY <1>1, Finite, OrderType
  <2>2. [i \in 1..Len(SetToSeq(S)) |-> Change(SetToSeq(S)[i])]
        = [i \in 1..Len(SetToSeq(S)) |-> [x \in S |-> Change(x)][SetToSeq(S)[i]]]
    BY <2>1
  <2> QED BY <2>2, Zenon DEF Each, Turns
<1>8. RolePhase(cur, des) = Turns(S, op)
  BY <1>7, Zenon DEF RolePhase, Change, op
<1> QED BY <1>6, <1>8, Zenon DEF K

\* The groups when some of the document's are done: the clients D exist.
ListsDone(cf, df, T) == [x \in DOMAIN cf \cup T |-> IF x \in T THEN df[x].roles ELSE cf[x].roles]
MembersDone(cg, dg, D, T) ==
    [g \in DOMAIN cg \cup T |-> IF g \in T THEN (IF g \in DOMAIN cg THEN dg[g].clients \cap (cg[g].clients \cup D) ELSE {})
                                ELSE cg[g].clients]

LEMMA GroupPhaseRun ==
    ASSUME NEW a, NEW CR, NEW CD, NEW GR, NEW GC, NEW R, NEW o, NEW n, NEW F \in BOOLEAN,
           State(a, CR, CD, GR, GC, R, o, n, F),
           NEW cur \in Database, NEW des \in Database, GR = RolesOf(cur.groups), GC = MembersOf(cur.groups),
           \A g \in DOMAIN des.groups : des.groups[g].roles \subseteq DOMAIN R,
           \A g \in DOMAIN cur.groups \cap DOMAIN des.groups :
              \A x \in des.groups[g].clients : x \in cur.groups[g].clients \/ F
    PROVE  State(RunFrom(a, GroupPhase(cur, des)), CR, CD, ListsDone(cur.groups, des.groups, DOMAIN des.groups),
                 MembersDone(cur.groups, des.groups, DOMAIN CR, DOMAIN des.groups), R, o, n, F)
<1> DEFINE S == DOMAIN des.groups
           Change(g) == IF g \in DOMAIN cur.groups
                        THEN groupUpdates(g, cur.groups[g], des.groups[g])
                        ELSE <<[command |-> "createGroup", group |-> g, roles |-> des.groups[g].roles]>>
           op == [x \in S |-> Change(x)]
           L(T) == ListsDone(cur.groups, des.groups, T)
           M(T) == MembersDone(cur.groups, des.groups, DOMAIN CR, T)
           K == [T \in SUBSET S |-> {b \in Accumulator : State(b, CR, CD, L(T), M(T), R, o, n, F)}]
<1>1. S \subseteq Group /\ \A g \in S : des.groups[g] \in GroupRecord
  BY DatabaseFacts
<1>2. \A g \in DOMAIN cur.groups : cur.groups[g] \in GroupRecord
  BY DatabaseFacts
<1>r. \A g \in S : des.groups[g].roles \in SUBSET Role
  BY <1>1 DEF GroupRecord
<1>f. IsFiniteSet(S)
  BY <1>1, Finite
<1>t. op \in [S -> Commands]
  <2>1. \A x \in S : Change(x) \in Commands
    BY <1>1, <1>2, <1>r, GroupUpdatesType, CommandFacts, One
  <2> HIDE DEF Change
  <2> QED BY <2>1
<1>3. a \in K[{}]
  <2>1. a \in Accumulator
    BY StateFacts
  <2>2. L({}) = GR /\ M({}) = GC
    BY DEF ListsDone, MembersDone, RolesOf, MembersOf
  <2> HIDE DEF L, M
  <2>3. State(a, CR, CD, L({}), M({}), R, o, n, F)
    BY <2>2, Zenon
  <2> QED BY <2>1, <2>3
<1>4. ASSUME NEW T \in SUBSET S, NEW x \in S \ T, NEW b \in K[T] PROVE RunFrom(b, op[x]) \in K[T \cup {x}]
  <2> DEFINE L0 == L(T)
             M0 == M(T)
             L1 == L(T \cup {x})
             M1 == M(T \cup {x})
             next == RunFrom(b, Change(x))
  <2>1. State(b, CR, CD, L0, M0, R, o, n, F) /\ x \in Group
    BY <1>1
  <2>2. State(next, CR, CD, L1, M1, R, o, n, F)
    <3> DEFINE cg == cur.groups[x]
               dg == des.groups[x]
    <3>1. CASE x \in DOMAIN cur.groups
      <4>1. x \in DOMAIN L0 /\ x \in DOMAIN M0 /\ cg.roles = L0[x] /\ cg.clients = M0[x]
        BY <3>1 DEF ListsDone, MembersDone
      <4>2. Put(L0, x, dg.roles) = L1
        BY <3>1, <4>1 DEF ListsDone, Put
      <4>m. Put(M0, x, dg.clients \cap (M0[x] \cup DOMAIN CR)) = M1
        BY <3>1, <4>1 DEF MembersDone, Put
      <4>3. /\ cg \in GroupRecord /\ dg \in GroupRecord /\ dg.roles \subseteq DOMAIN R
            /\ \A y \in dg.clients : y \in cg.clients \/ F
        BY <1>1, <1>2, <3>1
      <4> HIDE DEF L0, M0, cg, dg
      <4>4. State(RunFrom(b, groupUpdates(x, cg, dg)), CR, CD, Put(L0, x, dg.roles),
                  Put(M0, x, dg.clients \cap (M0[x] \cup DOMAIN CR)), R, o, n, F)
        BY <2>1, <4>1, <4>3, GroupUpdatesRun
      <4> HIDE DEF L1, M1
      <4> QED BY <3>1, <4>2, <4>m, <4>4, Zenon DEF cg, dg
    <3>2. CASE x \notin DOMAIN cur.groups
      <4>1. x \notin DOMAIN L0
        BY <3>2 DEF ListsDone
      <4>2. WithKey(L0, x, dg.roles) = L1
        BY <3>2 DEF ListsDone, WithKey
      <4>m. WithKey(M0, x, {}) = M1
        BY <3>2 DEF MembersDone, WithKey
      <4>3. dg.roles \in SUBSET Role /\ dg.roles \subseteq DOMAIN R
        BY <1>r
      <4> HIDE DEF L0, M0, dg
      <4>4. State(RunFrom(b, <<[command |-> "createGroup", group |-> x, roles |-> dg.roles]>>), CR, CD,
                  WithKey(L0, x, dg.roles), WithKey(M0, x, {}), R, o, n, F)
        BY <2>1, <4>1, <4>3, CreateGroup
      <4> HIDE DEF L1, M1
      <4> QED BY <3>2, <4>2, <4>m, <4>4, Zenon DEF dg
    <3> QED BY <3>1, <3>2
  <2> HIDE DEF next
  <2>3. next \in Accumulator
    BY <2>2, StateFacts
  <2>4. next \in K[T \cup {x}]
    BY <2>2, <2>3
  <2> QED BY <2>4 DEF next
<1>5. \A T \in SUBSET S : \A x \in S \ T : \A b \in K[T] : RunFrom(b, op[x]) \in K[T \cup {x}]
  BY <1>4
<1> HIDE DEF op, K
<1>6. RunFrom(a, Turns(S, op)) \in K[S]
  BY <1>f, <1>t, <1>3, <1>5, RunTurns
<1> HIDE DEF Change
<1>7. Each(S, Change) = Turns(S, [x \in S |-> Change(x)])
  <2>1. SetToSeq(S) \in Seq(S)
    BY <1>1, Finite, OrderType
  <2>2. [i \in 1..Len(SetToSeq(S)) |-> Change(SetToSeq(S)[i])]
        = [i \in 1..Len(SetToSeq(S)) |-> [x \in S |-> Change(x)][SetToSeq(S)[i]]]
    BY <2>1
  <2> QED BY <2>2, Zenon DEF Each, Turns
<1>8. GroupPhase(cur, des) = Turns(S, op)
  BY <1>7, Zenon DEF GroupPhase, Change, op
<1> QED BY <1>6, <1>8, Zenon DEF K

\* The clients when some of the document's are done; a new client is enabled.
DisabledDone(cc, dc, T) ==
    [c \in DOMAIN cc \cup T |-> IF c \in T THEN (IF c \in DOMAIN cc THEN dc[c].disabled ELSE FALSE) ELSE cc[c].disabled]

LEMMA DisabledStart == \A cc, dc : DisabledDone(cc, dc, {}) = DisabledOf(cc)
<1>1. \A cc, dc, f : [c \in DOMAIN cc \cup {} |-> IF c \in {} THEN (IF c \in DOMAIN cc THEN dc[c].disabled ELSE f) ELSE cc[c].disabled]
                    = DisabledOf(cc)
  BY DEF DisabledOf
<1> QED BY <1>1, Zenon DEF DisabledDone

LEMMA DisabledStill ==
    ASSUME NEW cc, NEW dc, NEW T, NEW x, x \notin T, x \in DOMAIN cc
    PROVE  DisabledDone(cc, dc, T)[x] = cc[x].disabled
<1>1. \A f : [c \in DOMAIN cc \cup T |-> IF c \in T THEN (IF c \in DOMAIN cc THEN dc[c].disabled ELSE f) ELSE cc[c].disabled][x]
             = cc[x].disabled
  OBVIOUS
<1> QED BY <1>1, Zenon DEF DisabledDone

LEMMA DisabledOld ==
    ASSUME NEW cc, NEW dc, NEW T, NEW x, x \notin T, x \in DOMAIN cc
    PROVE  Put(DisabledDone(cc, dc, T), x, dc[x].disabled) = DisabledDone(cc, dc, T \cup {x})
<1> DEFINE D(V, f) == [c \in DOMAIN cc \cup V |-> IF c \in V THEN (IF c \in DOMAIN cc THEN dc[c].disabled ELSE f) ELSE cc[c].disabled]
<1>1. ASSUME NEW f PROVE Put(D(T, f), x, dc[x].disabled) = D(T \cup {x}, f)
  BY DEF Put
<1> QED BY <1>1, Zenon DEF DisabledDone

LEMMA ClientPhaseRun ==
    ASSUME NEW a, NEW CR, NEW CD, NEW GR, NEW GC, NEW R, NEW o, NEW n, NEW F \in BOOLEAN,
           State(a, CR, CD, GR, GC, R, o, n, F),
           NEW cur \in Database, NEW des \in Database, CR = RolesOf(cur.clients), CD = DisabledOf(cur.clients),
           \A c \in DOMAIN des.clients : des.clients[c].roles \subseteq DOMAIN R
    PROVE  State(RunFrom(a, ClientPhase(cur, des)), ListsDone(cur.clients, des.clients, DOMAIN des.clients),
                 DisabledDone(cur.clients, des.clients, DOMAIN des.clients), GR, GC, R, o, n, F)
<1> DEFINE S == DOMAIN des.clients
           Change(c) == IF c \in DOMAIN cur.clients
                        THEN clientUpdates(c, cur.clients[c], des.clients[c])
                        ELSE <<[command  |-> "createClient", client |-> c, roles |-> des.clients[c].roles,
                                password |-> des.clients[c].password]>>
           op == [x \in S |-> Change(x)]
           L(T) == ListsDone(cur.clients, des.clients, T)
           M(T) == DisabledDone(cur.clients, des.clients, T)
           K == [T \in SUBSET S |-> {b \in Accumulator : State(b, L(T), M(T), GR, GC, R, o, n, F)}]
<1>1. S \subseteq Client /\ \A c \in S : des.clients[c] \in ClientRecord
  BY DatabaseFacts
<1>2. \A c \in DOMAIN cur.clients : cur.clients[c] \in ClientRecord
  BY DatabaseFacts
<1>r. \A c \in S : des.clients[c].roles \in SUBSET Role /\ des.clients[c].password \in Secret
  BY <1>1 DEF ClientRecord
<1>f. IsFiniteSet(S)
  BY <1>1, Finite
<1>t. op \in [S -> Commands]
  <2>1. \A x \in S : Change(x) \in Commands
    BY <1>1, <1>2, <1>r, ClientUpdatesType, CommandFacts, One
  <2> HIDE DEF Change
  <2> QED BY <2>1
<1>3. a \in K[{}]
  <2>1. a \in Accumulator
    BY StateFacts
  <2>2. L({}) = CR
    BY DEF ListsDone, RolesOf
  <2>m. M({}) = CD
    <3>1. M({}) = DisabledOf(cur.clients)
      BY DisabledStart, Zenon
    <3> QED BY <3>1, Zenon
  <2> HIDE DEF L, M
  <2>3. State(a, L({}), M({}), GR, GC, R, o, n, F)
    BY <2>2, <2>m, Zenon
  <2> QED BY <2>1, <2>3
<1>4. ASSUME NEW T \in SUBSET S, NEW x \in S \ T, NEW b \in K[T] PROVE RunFrom(b, op[x]) \in K[T \cup {x}]
  <2> DEFINE L0 == L(T)
             M0 == M(T)
             L1 == L(T \cup {x})
             M1 == M(T \cup {x})
             next == RunFrom(b, Change(x))
             cg == cur.clients[x]
             dg == des.clients[x]
  <2>1. State(b, L0, M0, GR, GC, R, o, n, F) /\ x \in Client /\ x \notin T
    BY <1>1
  <2>m. /\ x \in DOMAIN cur.clients => M0[x] = cg.disabled /\ Put(M0, x, dg.disabled) = M1
        /\ x \notin DOMAIN cur.clients => WithKey(M0, x, FALSE) = M1
    <3> HIDE DEF K, op
    <3>x. x \notin T
      OBVIOUS
    <3> DEFINE cc == cur.clients
               dc == des.clients
    <3>1. ASSUME x \in DOMAIN cc PROVE DisabledDone(cc, dc, T)[x] = cc[x].disabled
      <4> HIDE DEF cc, dc
      <4> QED BY <3>x, <3>1, DisabledStill
    <3>o. ASSUME x \in DOMAIN cc PROVE Put(DisabledDone(cc, dc, T), x, dc[x].disabled) = DisabledDone(cc, dc, T \cup {x})
      <4> HIDE DEF cc, dc
      <4> QED BY <3>x, <3>o, DisabledOld
    <3>2. ASSUME x \notin DOMAIN cc PROVE WithKey(DisabledDone(cc, dc, T), x, FALSE) = DisabledDone(cc, dc, T \cup {x})
      <4> HIDE DEF cc, dc
      <4> DEFINE D(V, f) == [c \in DOMAIN cc \cup V |-> IF c \in V THEN (IF c \in DOMAIN cc THEN dc[c].disabled ELSE f) ELSE cc[c].disabled]
      <4>1. ASSUME NEW f PROVE WithKey(D(T, f), x, f) = D(T \cup {x}, f)
        BY <3>x, <3>2 DEF WithKey
      <4> QED BY <4>1, Zenon DEF DisabledDone
    <3> QED BY <3>1, <3>2, <3>o, Zenon
  <2> HIDE DEF M0, M1
  <2>2. State(next, L1, M1, GR, GC, R, o, n, F)
    <3>1. CASE x \in DOMAIN cur.clients
      <4>1. x \in DOMAIN L0 /\ cg.roles = L0[x]
        BY <3>1 DEF ListsDone
      <4>2. Put(L0, x, dg.roles) = L1
        BY <3>1, <4>1 DEF ListsDone, Put
      <4>3. cg \in ClientRecord /\ dg \in ClientRecord /\ dg.roles \subseteq DOMAIN R
        BY <1>1, <1>2, <3>1
      <4>d. cg.disabled = M0[x]
        BY <2>m, <3>1, Zenon
      <4> HIDE DEF L0, cg, dg
      <4>4. State(RunFrom(b, clientUpdates(x, cg, dg)), Put(L0, x, dg.roles), Put(M0, x, dg.disabled), GR, GC, R, o, n, F)
        BY <2>1, <4>1, <4>3, <4>d, ClientUpdatesRun
      <4> HIDE DEF L1
      <4> QED BY <2>m, <3>1, <4>2, <4>4, Zenon DEF cg, dg
    <3>2. CASE x \notin DOMAIN cur.clients
      <4>1. x \notin DOMAIN L0
        BY <3>2 DEF ListsDone
      <4>2. WithKey(L0, x, dg.roles) = L1
        BY <3>2 DEF ListsDone, WithKey
      <4>3. dg.roles \in SUBSET Role /\ dg.roles \subseteq DOMAIN R /\ dg.password \in Secret
        BY <1>r
      <4> HIDE DEF L0, dg
      <4>4. State(RunFrom(b, <<[command |-> "createClient", client |-> x, roles |-> dg.roles, password |-> dg.password]>>),
                  WithKey(L0, x, dg.roles), WithKey(M0, x, FALSE), GR, GC, R, o, n, F)
        BY <2>1, <4>1, <4>3, CreateClient
      <4> HIDE DEF L1
      <4> QED BY <2>m, <3>2, <4>2, <4>4, Zenon DEF dg
    <3> QED BY <3>1, <3>2
  <2> HIDE DEF next
  <2>3. next \in Accumulator
    BY <2>2, StateFacts
  <2>4. next \in K[T \cup {x}]
    BY <2>2, <2>3 DEF M1
  <2> QED BY <2>4 DEF next
<1>5. \A T \in SUBSET S : \A x \in S \ T : \A b \in K[T] : RunFrom(b, op[x]) \in K[T \cup {x}]
  BY <1>4
<1> HIDE DEF op, K
<1>6. RunFrom(a, Turns(S, op)) \in K[S]
  BY <1>f, <1>t, <1>3, <1>5, RunTurns
<1> HIDE DEF Change
<1>7. Each(S, Change) = Turns(S, [x \in S |-> Change(x)])
  <2>1. SetToSeq(S) \in Seq(S)
    BY <1>1, Finite, OrderType
  <2>2. [i \in 1..Len(SetToSeq(S)) |-> Change(SetToSeq(S)[i])]
        = [i \in 1..Len(SetToSeq(S)) |-> [x \in S |-> Change(x)][SetToSeq(S)[i]]]
    BY <2>1
  <2> QED BY <2>2, Zenon DEF Each, Turns
<1>8. ClientPhase(cur, des) = Turns(S, op)
  BY <1>7, Zenon DEF ClientPhase, Change, op
<1> QED BY <1>6, <1>8, Zenon DEF K

\* The members when some of the document's groups are done.
Enlisted(GC, dg, T) == [g \in DOMAIN GC |-> IF g \in T THEN dg[g].clients ELSE GC[g]]

LEMMA MembershipPhaseRun ==
    ASSUME NEW a, NEW CR, NEW CD, NEW GR, NEW GC, NEW R, NEW o, NEW n, NEW F \in BOOLEAN,
           State(a, CR, CD, GR, GC, R, o, n, F),
           NEW cur \in Database, NEW des \in Database, NEW D, DOMAIN des.groups \subseteq DOMAIN GR,
           \A g \in DOMAIN des.groups : des.groups[g].clients \subseteq DOMAIN CR,
           \A g \in DOMAIN des.groups :
              GC[g] = IF g \in DOMAIN cur.groups THEN des.groups[g].clients \cap (cur.groups[g].clients \cup D) ELSE {},
           \A g \in DOMAIN cur.groups \cap DOMAIN des.groups :
              \A x \in des.groups[g].clients : x \in cur.groups[g].clients \/ F
    PROVE  State(RunFrom(a, MembershipPhase(cur, des)), CR, CD, GR, Enlisted(GC, des.groups, DOMAIN des.groups), R, o, n, F)
<1> DEFINE S == DOMAIN des.groups
           deleted == DOMAIN cur.clients \ DOMAIN des.clients
           Change(g) ==
             IF g \in DOMAIN cur.groups
             THEN groupMembershipUpdates(g, cur.groups[g], des.groups[g], deleted)
             ELSE LET Add(c) == <<AddGroupClient(g, c)>> IN Each(des.groups[g].clients, Add)
           op == [x \in S |-> Change(x)]
           M(T) == Enlisted(GC, des.groups, T)
           K == [T \in SUBSET S |-> {b \in Accumulator : State(b, CR, CD, GR, M(T), R, o, n, F)}]
<1>1. S \subseteq Group /\ \A g \in S : des.groups[g] \in GroupRecord
  BY DatabaseFacts
<1>2. \A g \in DOMAIN cur.groups : cur.groups[g] \in GroupRecord
  BY DatabaseFacts
<1>r. \A g \in S : des.groups[g].clients \in SUBSET Client
  BY <1>1 DEF GroupRecord
<1>f. IsFiniteSet(S)
  BY <1>1, Finite
<1>e. ASSUME NEW g \in S, g \notin DOMAIN cur.groups
      PROVE  /\ Change(g) = Turns(des.groups[g].clients, [x \in des.groups[g].clients |-> <<AddGroupClient(g, x)>>])
             /\ Change(g) \in Commands
  <2> DEFINE P == des.groups[g].clients
             Add(c) == <<AddGroupClient(g, c)>>
  <2>1. P \in SUBSET Client /\ g \in Group
    BY <1>1, <1>r
  <2>2. \A c \in Client : Add(c) \in Commands
    BY <2>1, CommandFacts, One DEF AddGroupClient
  <2> HIDE DEF P, Add
  <2>3. Each(P, Add) = Turns(P, [x \in P |-> Add(x)])
    <3>1. SetToSeq(P) \in Seq(P)
      BY <2>1, Finite, OrderType
    <3>2. [i \in 1..Len(SetToSeq(P)) |-> Add(SetToSeq(P)[i])]
          = [i \in 1..Len(SetToSeq(P)) |-> [x \in P |-> Add(x)][SetToSeq(P)[i]]]
      BY <3>1
    <3> QED BY <3>2, Zenon DEF Each, Turns
  <2>4. Turns(P, [x \in P |-> Add(x)]) \in Commands
    <3>1. [x \in P |-> Add(x)] \in [P -> Commands]
      BY <2>1, <2>2
    <3> QED BY <2>1, <3>1, Finite, TurnsType
  <2>5. Change(g) = Each(P, Add)
    BY <1>e, Zenon DEF P, Add
  <2> HIDE DEF Change
  <2>6. Change(g) = Turns(P, [x \in P |-> Add(x)]) /\ Change(g) \in Commands
    BY <2>3, <2>4, <2>5, Zenon
  <2> QED BY <2>6 DEF P, Add
<1>t. op \in [S -> Commands]
  <2>1. ASSUME NEW x \in S, x \in DOMAIN cur.groups PROVE Change(x) \in Commands
    BY <1>1, <1>2, <2>1, MembershipUpdatesType
  <2> HIDE DEF Change
  <2> QED BY <1>e, <2>1
<1>g. IsFunction(GC) /\ a \in Accumulator /\ DOMAIN GR = DOMAIN GC
  BY StateFacts, StateFunctions
<1>3. a \in K[{}]
  <2>2. M({}) = GC
    BY <1>g DEF Enlisted, IsFunction
  <2> HIDE DEF M
  <2>3. State(a, CR, CD, GR, M({}), R, o, n, F)
    BY <2>2, Zenon
  <2> QED BY <1>g, <2>3
<1>4. ASSUME NEW T \in SUBSET S, NEW x \in S \ T, NEW b \in K[T] PROVE RunFrom(b, op[x]) \in K[T \cup {x}]
  <2> DEFINE M0 == M(T)
             M1 == M(T \cup {x})
             next == RunFrom(b, Change(x))
             cg == cur.groups[x]
             dg == des.groups[x]
  <2>1. State(b, CR, CD, GR, M0, R, o, n, F) /\ x \in Group /\ x \in DOMAIN GR
    BY <1>1
  <2>p. x \in DOMAIN M0 /\ M0[x] = GC[x] /\ Put(M0, x, dg.clients) = M1
    <3>1. x \in DOMAIN M0 /\ M0[x] = GC[x]
      BY <1>g, <2>1 DEF Enlisted
    <3>2. Put(M0, x, dg.clients) = M1
      BY <3>1 DEF Enlisted, Put
    <3> QED BY <3>1, <3>2
  <2>c. dg.clients \subseteq DOMAIN CR
    OBVIOUS
  <2>2. State(next, CR, CD, GR, M1, R, o, n, F)
    <3>1. CASE x \in DOMAIN cur.groups
      <4>1. GC[x] = dg.clients \cap (cg.clients \cup D)
        BY <3>1
      <4>2. (M0[x] \cup (dg.clients \ cg.clients)) \ (cg.clients \ (dg.clients \cup deleted)) = dg.clients
        BY <2>p, <4>1
      <4>3. cg \in GroupRecord /\ dg \in GroupRecord /\ \A y \in dg.clients : y \in cg.clients \/ F
        BY <1>1, <1>2, <3>1
      <4> HIDE DEF M0, cg, dg, deleted
      <4>4. State(RunFrom(b, groupMembershipUpdates(x, cg, dg, deleted)), CR, CD, GR,
                  Put(M0, x, (M0[x] \cup (dg.clients \ cg.clients)) \ (cg.clients \ (dg.clients \cup deleted))), R, o, n, F)
        BY <2>1, <2>c, <4>3, MembershipRun
      <4>5. State(RunFrom(b, groupMembershipUpdates(x, cg, dg, deleted)), CR, CD, GR, Put(M0, x, dg.clients), R, o, n, F)
        BY <4>2, <4>4, Zenon
      <4> HIDE DEF M1
      <4> QED BY <2>p, <3>1, <4>5, Zenon DEF cg, dg, deleted
    <3>2. CASE x \notin DOMAIN cur.groups
      <4>1. M0[x] = {} /\ dg.clients \in SUBSET Client
        BY <1>r, <2>p, <3>2
      <4>2. Change(x) = Turns(dg.clients, [y \in dg.clients |-> <<AddGroupClient(x, y)>>])
        BY <1>e, <3>2, Zenon
      <4> HIDE DEF M0, dg
      <4>3. State(RunFrom(b, Turns(dg.clients, [y \in dg.clients |-> <<AddGroupClient(x, y)>>])), CR, CD, GR,
                  Put(M0, x, dg.clients), R, o, n, F)
        BY <2>1, <2>c, <4>1, NewMembersRun
      <4> HIDE DEF M1, Change
      <4> QED BY <2>p, <4>2, <4>3, Zenon
    <3> QED BY <3>1, <3>2
  <2> HIDE DEF next
  <2>3. next \in Accumulator
    BY <2>2, StateFacts
  <2>4. next \in K[T \cup {x}]
    BY <2>2, <2>3
  <2> QED BY <2>4 DEF next
<1>5. \A T \in SUBSET S : \A x \in S \ T : \A b \in K[T] : RunFrom(b, op[x]) \in K[T \cup {x}]
  BY <1>4
<1> HIDE DEF op, K
<1>6. RunFrom(a, Turns(S, op)) \in K[S]
  BY <1>f, <1>t, <1>3, <1>5, RunTurns
<1> HIDE DEF Change
<1>7. Each(S, Change) = Turns(S, [x \in S |-> Change(x)])
  <2>1. SetToSeq(S) \in Seq(S)
    BY <1>1, Finite, OrderType
  <2>2. [i \in 1..Len(SetToSeq(S)) |-> Change(SetToSeq(S)[i])]
        = [i \in 1..Len(SetToSeq(S)) |-> [x \in S |-> Change(x)][SetToSeq(S)[i]]]
    BY <2>1
  <2> QED BY <2>2, Zenon DEF Each, Turns
<1>8. MembershipPhase(cur, des) = Turns(S, op)
  BY <1>7, Zenon DEF MembershipPhase, Change, op, deleted
<1> QED BY <1>6, <1>8, Zenon DEF K

Deletions(a, S1, S2, S3) ==
    RunFrom(RunFrom(RunFrom(a, Turns(S1, [x \in S1 |-> <<[command |-> "deleteClient", client |-> x]>>])),
                    Turns(S2, [x \in S2 |-> <<[command |-> "deleteGroup", group |-> x]>>])),
            Turns(S3, [x \in S3 |-> <<[command |-> "deleteRole", role |-> x]>>]))

LEMMA DeletionsRun ==
    ASSUME NEW a, NEW CR, NEW CD, NEW GR, NEW GC, NEW R, NEW o, NEW n, NEW F \in BOOLEAN,
           State(a, CR, CD, GR, GC, R, o, n, F),
           NEW S1 \in SUBSET Client, NEW S2 \in SUBSET Group, NEW S3 \in SUBSET Role,
           S1 \subseteq DOMAIN CR, S2 \subseteq DOMAIN GR, S3 \subseteq DOMAIN R
    PROVE  State(Deletions(a, S1, S2, S3),
                 MinusAll(Without(CR, S1), S3), Without(CD, S1),
                 MinusAll(Without(GR, S2), S3), Without(MinusAll(GC, S1), S2), Without(R, S3), o, Unless(n, S2), F)
<1> DEFINE a1 == RunFrom(a, Turns(S1, [x \in S1 |-> <<[command |-> "deleteClient", client |-> x]>>]))
           a2 == RunFrom(a1, Turns(S2, [x \in S2 |-> <<[command |-> "deleteGroup", group |-> x]>>]))
           a3 == RunFrom(a2, Turns(S3, [x \in S3 |-> <<[command |-> "deleteRole", role |-> x]>>]))
<1>1. State(a1, Without(CR, S1), Without(CD, S1), GR, MinusAll(GC, S1), R, o, n, F)
  BY DeletesClients
<1> HIDE DEF a1
<1>2. State(a2, Without(CR, S1), Without(CD, S1), Without(GR, S2), Without(MinusAll(GC, S1), S2), R, o, Unless(n, S2), F)
  BY <1>1, DeletesGroups
<1> HIDE DEF a2
<1>3. State(a3, MinusAll(Without(CR, S1), S3), Without(CD, S1), MinusAll(Without(GR, S2), S3),
            Without(MinusAll(GC, S1), S2), Without(R, S3), o, Unless(n, S2), F)
  BY <1>2, DeletesRoles
<1> QED BY <1>3, Zenon DEF Deletions, a1, a2, a3

LEMMA DeletePhaseRun ==
    ASSUME NEW a, NEW CR, NEW CD, NEW GR, NEW GC, NEW R, NEW o, NEW n, NEW F \in BOOLEAN,
           State(a, CR, CD, GR, GC, R, o, n, F),
           NEW cur \in Database, NEW des \in Database, NEW S1, NEW S2, NEW S3,
           S1 = DOMAIN cur.clients \ DOMAIN des.clients, S2 = DOMAIN cur.groups \ DOMAIN des.groups,
           S3 = DOMAIN cur.roles \ DOMAIN des.roles,
           S1 \subseteq DOMAIN CR, S2 \subseteq DOMAIN GR, S3 \subseteq DOMAIN R
    PROVE  State(RunFrom(a, DeletePhase(cur, des)), MinusAll(Without(CR, S1), S3), Without(CD, S1),
                 MinusAll(Without(GR, S2), S3), Without(MinusAll(GC, S1), S2), Without(R, S3), o, Unless(n, S2), F)
<1> DEFINE Client1(x) == <<[command |-> "deleteClient", client |-> x]>>
           Group1(x) == <<[command |-> "deleteGroup", group |-> x]>>
           Role1(x) == <<[command |-> "deleteRole", role |-> x]>>
           T1 == Turns(S1, [x \in S1 |-> Client1(x)])
           T2 == Turns(S2, [x \in S2 |-> Group1(x)])
           T3 == Turns(S3, [x \in S3 |-> Role1(x)])
           a1 == RunFrom(a, T1)
           a2 == RunFrom(a1, T2)
           a3 == RunFrom(a2, T3)
<1>2. S1 \in SUBSET Client /\ S2 \in SUBSET Group /\ S3 \in SUBSET Role
  BY DatabaseFacts
<1>3. /\ \A x \in Client : Client1(x) \in Commands
      /\ \A x \in Group : Group1(x) \in Commands
      /\ \A x \in Role : Role1(x) \in Commands
  BY CommandFacts, One
<1>6. State(a3, MinusAll(Without(CR, S1), S3), Without(CD, S1), MinusAll(Without(GR, S2), S3),
            Without(MinusAll(GC, S1), S2), Without(R, S3), o, Unless(n, S2), F)
  <2>1. State(Deletions(a, S1, S2, S3), MinusAll(Without(CR, S1), S3), Without(CD, S1), MinusAll(Without(GR, S2), S3),
              Without(MinusAll(GC, S1), S2), Without(R, S3), o, Unless(n, S2), F)
    BY <1>2, DeletionsRun
  <2> QED BY <2>1, Zenon DEF Deletions
<1> HIDE DEF a3, Client1, Group1, Role1
<1>11. Each(S1, Client1) = Turns(S1, [x \in S1 |-> Client1(x)])
  <2>1. SetToSeq(S1) \in Seq(S1)
    BY <1>2, Finite, OrderType
  <2>2. [i \in 1..Len(SetToSeq(S1)) |-> Client1(SetToSeq(S1)[i])]
        = [i \in 1..Len(SetToSeq(S1)) |-> [x \in S1 |-> Client1(x)][SetToSeq(S1)[i]]]
    BY <2>1
  <2> QED BY <2>2, Zenon DEF Each, Turns
<1>12. Each(S2, Group1) = Turns(S2, [x \in S2 |-> Group1(x)])
  <2>1. SetToSeq(S2) \in Seq(S2)
    BY <1>2, Finite, OrderType
  <2>2. [i \in 1..Len(SetToSeq(S2)) |-> Group1(SetToSeq(S2)[i])]
        = [i \in 1..Len(SetToSeq(S2)) |-> [x \in S2 |-> Group1(x)][SetToSeq(S2)[i]]]
    BY <2>1
  <2> QED BY <2>2, Zenon DEF Each, Turns
<1>13. Each(S3, Role1) = Turns(S3, [x \in S3 |-> Role1(x)])
  <2>1. SetToSeq(S3) \in Seq(S3)
    BY <1>2, Finite, OrderType
  <2>2. [i \in 1..Len(SetToSeq(S3)) |-> Role1(SetToSeq(S3)[i])]
        = [i \in 1..Len(SetToSeq(S3)) |-> [x \in S3 |-> Role1(x)][SetToSeq(S3)[i]]]
    BY <2>1
  <2> QED BY <2>2, Zenon DEF Each, Turns
<1>15. T1 \in Commands /\ T2 \in Commands /\ T3 \in Commands
  <2>1. /\ [x \in S1 |-> Client1(x)] \in [S1 -> Commands] /\ [x \in S2 |-> Group1(x)] \in [S2 -> Commands]
        /\ [x \in S3 |-> Role1(x)] \in [S3 -> Commands]
    BY <1>2, <1>3
  <2> QED BY <1>2, <2>1, Finite, TurnsType
<1>16. DeletePhase(cur, des) = T1 \o T2 \o T3
  BY <1>11, <1>12, <1>13, Zenon DEF DeletePhase, Client1, Group1, Role1
<1> HIDE DEF T1, T2, T3
<1>17. RunFrom(a, T1 \o T2 \o T3) = a3
  <2>1. T1 \o T2 \in Commands
    BY <1>15, Joined
  <2>3. RunFrom(a, T1 \o T2 \o T3) = RunFrom(RunFrom(a, T1 \o T2), T3)
    BY <1>15, <2>1, RunJoined DEF Commands
  <2>4. RunFrom(a, T1 \o T2) = RunFrom(RunFrom(a, T1), T2)
    BY <1>15, RunJoined DEF Commands
  <2> QED BY <2>3, <2>4, Zenon DEF a1, a2, a3
<1> QED BY <1>6, <1>16, <1>17, Zenon

LEMMA SettingsPhaseRun ==
    ASSUME NEW a, NEW CR, NEW CD, NEW GR, NEW GC, NEW R, NEW o, NEW n, NEW F \in BOOLEAN,
           State(a, CR, CD, GR, GC, R, o, n, F),
           NEW cur \in Database, NEW des \in Database, cur.open = o,
           des.anonymous \in DOMAIN GR \cup {NoGroup}, cur.anonymous = des.anonymous => n = des.anonymous,
           ClearsAnonymous(cur, des) => F
    PROVE  State(RunFrom(a, SettingsPhase(cur, des)), CR, CD, GR, GC, R, des.open,
                 IF des.anonymous = NoGroup THEN n ELSE des.anonymous, F)
<1> DEFINE left == IF des.anonymous = NoGroup THEN n ELSE des.anonymous
<1> DEFINE P0 == <<[command |-> "setDefaultACLAccess", open |-> des.open]>>
           P1 == <<[command |-> "setAnonymousGroup", group |-> des.anonymous]>>
           Q0 == IF cur.open = des.open THEN <<>> ELSE P0
           Q1 == IF cur.anonymous = des.anonymous THEN <<>> ELSE P1
           a1 == RunFrom(a, Q0)
           a2 == RunFrom(a1, Q1)
<1>1. des.open \in BOOLEAN /\ des.anonymous \in Group \cup {NoGroup}
  BY DatabaseFacts
<1>2. P0 \in Commands /\ P1 \in Commands /\ <<>> \in Commands
  BY <1>1, CommandFacts, One, Nothing
<1>3. State(a1, CR, CD, GR, GC, R, des.open, n, F)
  <2>1. State(RunFrom(a, P0), CR, CD, GR, GC, R, des.open, n, F)
    BY <1>1, AccessSet
  <2>2. RunFrom(a, <<>>) = a
    BY RunNothing
  <2> HIDE DEF P0
  <2> QED BY <2>1, <2>2, Zenon
<1> HIDE DEF a1
<1>4. State(a2, CR, CD, GR, GC, R, des.open, left, F)
  <2>1. CASE cur.anonymous = des.anonymous
    <3>1. RunFrom(a1, <<>>) = a1
      BY RunNothing
    <3>2. left = n /\ Q1 = <<>>
      BY <2>1
    <3> HIDE DEF left, Q1
    <3> QED BY <1>3, <3>1, <3>2, Zenon
  <2>2. CASE cur.anonymous # des.anonymous /\ des.anonymous = NoGroup
    <3>1. F
      BY <2>2 DEF ClearsAnonymous
    <3>2. State(RunFrom(a1, P1), CR, CD, GR, GC, R, des.open, n, F)
      BY <1>1, <1>3, <2>2, <3>1, AnonymousRefused
    <3> HIDE DEF P1
    <3>3. left = n /\ Q1 = P1
      BY <2>2
    <3> HIDE DEF left, Q1
    <3> QED BY <3>2, <3>3, Zenon
  <2>3. CASE cur.anonymous # des.anonymous /\ des.anonymous # NoGroup
    <3>1. State(RunFrom(a1, P1), CR, CD, GR, GC, R, des.open, des.anonymous, F)
      BY <1>1, <1>3, <2>3, AnonymousSet
    <3> HIDE DEF P1
    <3>2. left = des.anonymous /\ Q1 = P1
      BY <2>3
    <3> HIDE DEF left, Q1
    <3> QED BY <3>1, <3>2, Zenon
  <2> QED BY <2>1, <2>2, <2>3, Zenon
<1> HIDE DEF a2, P0, P1
<1>5. Q0 \in Commands /\ Q1 \in Commands
  BY <1>2
<1>6. SettingsPhase(cur, des) = Q0 \o Q1
  BY Zenon DEF SettingsPhase, P0, P1
<1> HIDE DEF Q0, Q1
<1>7. RunFrom(a, Q0 \o Q1) = RunFrom(RunFrom(a, Q0), Q1)
  BY <1>5, RunJoined DEF Commands
<1> QED BY <1>4, <1>6, <1>7, Zenon DEF a1, a2

-----------------------------------------------------------------------------
(* The whole plan: the phases in the order BuildPlan puts them in.         *)

\* What a plan leaves: a client it creates is enabled, and an entry that keeps
\* its priority keeps its verdict.
EnabledOutcome(cc, dc) == [c \in DOMAIN dc |-> IF c \in DOMAIN cc THEN dc[c].disabled ELSE FALSE]
AccessOutcome(cr, dr) == [r \in DOMAIN dr |-> RoleOutcome(cr, dr, r)]
\* The anonymous clients keep their group unless it is deleted or replaced.
AnonymousOutcome(cur, des) ==
    IF des.anonymous = NoGroup THEN Unless(cur.anonymous, DOMAIN cur.groups \ DOMAIN des.groups) ELSE des.anonymous

LEMMA EnabledLeft ==
    ASSUME NEW cc, NEW dc, NEW S, S = DOMAIN cc \ DOMAIN dc
    PROVE  Without(DisabledDone(cc, dc, DOMAIN dc), S) = EnabledOutcome(cc, dc)
<1>1. \A f : [x \in DOMAIN [c \in DOMAIN cc \cup DOMAIN dc |-> IF c \in DOMAIN dc THEN (IF c \in DOMAIN cc THEN dc[c].disabled ELSE f) ELSE cc[c].disabled] \ S
               |-> [c \in DOMAIN cc \cup DOMAIN dc |-> IF c \in DOMAIN dc THEN (IF c \in DOMAIN cc THEN dc[c].disabled ELSE f) ELSE cc[c].disabled][x]]
             = [c \in DOMAIN dc |-> IF c \in DOMAIN cc THEN dc[c].disabled ELSE f]
  OBVIOUS
<1> QED BY <1>1, Zenon DEF Without, DisabledDone, EnabledOutcome

LEMMA ListsLeft ==
    ASSUME NEW cf, NEW df, NEW S, S = DOMAIN cf \ DOMAIN df, NEW V, \A x \in DOMAIN df : df[x].roles \cap V = {}
    PROVE  MinusAll(Without(ListsDone(cf, df, DOMAIN df), S), V) = RolesOf(df)
<1>1. Without(ListsDone(cf, df, DOMAIN df), S) = RolesOf(df)
  BY DEF Without, ListsDone, RolesOf
<1>2. \A x \in DOMAIN df : df[x].roles \ V = df[x].roles
  OBVIOUS
<1>3. MinusAll(RolesOf(df), V) = RolesOf(df)
  BY <1>2 DEF MinusAll, RolesOf
<1> QED BY <1>1, <1>3

LEMMA MembersLeft ==
    ASSUME NEW GC, NEW dg, NEW S, S = DOMAIN GC \ DOMAIN dg, NEW V, DOMAIN dg \subseteq DOMAIN GC,
           \A x \in DOMAIN dg : dg[x].clients \cap V = {}
    PROVE  Without(MinusAll(Enlisted(GC, dg, DOMAIN dg), V), S) = MembersOf(dg)
<1>1. \A x \in DOMAIN dg : dg[x].clients \ V = dg[x].clients
  OBVIOUS
<1> QED BY <1>1 DEF Without, MinusAll, Enlisted, MembersOf

LEMMA AccessLeft ==
    ASSUME NEW cr, NEW dr, NEW S, S = DOMAIN cr \ DOMAIN dr
    PROVE  Without(RolesDone(cr, dr, DOMAIN dr), S) = AccessOutcome(cr, dr)
<1> HIDE DEF RoleOutcome
<1> QED BY DEF Without, RolesDone, AccessOutcome

\* The members as the phase of the groups leaves them.
Begun(GC, cg, dg, D) == \A g \in DOMAIN dg : GC[g] = IF g \in DOMAIN cg THEN dg[g].clients \cap (cg[g].clients \cup D) ELSE {}
Joining(cg, dg, F) == \A g \in DOMAIN cg \cap DOMAIN dg : \A x \in dg[g].clients : x \in cg[g].clients \/ F

LEMMA MembershipPhaseEnds ==
    ASSUME NEW a, NEW CR, NEW CD, NEW GR, NEW GC, NEW R, NEW o, NEW n, NEW F \in BOOLEAN,
           State(a, CR, CD, GR, GC, R, o, n, F),
           NEW cur \in Database, NEW des \in Database, NEW D, DOMAIN des.groups \subseteq DOMAIN GR,
           \A g \in DOMAIN des.groups : des.groups[g].clients \subseteq DOMAIN CR,
           Begun(GC, cur.groups, des.groups, D), Joining(cur.groups, des.groups, F)
    PROVE  State(RunFrom(a, MembershipPhase(cur, des)), CR, CD, GR, Enlisted(GC, des.groups, DOMAIN des.groups), R, o, n, F)
BY MembershipPhaseRun DEF Begun, Joining

\* The whole plan, from the state it was made for.
LEMMA PlanRun ==
    ASSUME NEW a, NEW cur \in Database, NEW des \in Database, NEW F \in BOOLEAN,
           State(a, RolesOf(cur.clients), DisabledOf(cur.clients), RolesOf(cur.groups), MembersOf(cur.groups),
                 cur.roles, cur.open, cur.anonymous, F),
           References(des),
           \A r \in DOMAIN cur.roles \cap DOMAIN des.roles :
              \A t \in DOMAIN cur.roles[r] \cap DOMAIN des.roles[r] :
                 (cur.roles[r][t].priority = des.roles[r][t].priority /\ cur.roles[r][t] # des.roles[r][t]) => F,
           \A g \in DOMAIN cur.groups \cap DOMAIN des.groups :
              \A x \in des.groups[g].clients : x \in cur.groups[g].clients \/ F,
           ClearsAnonymous(cur, des) => F
    PROVE  State(RunFrom(a, BuildPlan(cur, des)), RolesOf(des.clients), EnabledOutcome(cur.clients, des.clients),
                 RolesOf(des.groups), MembersOf(des.groups), AccessOutcome(cur.roles, des.roles),
                 des.open, AnonymousOutcome(cur, des), F)
<1> DEFINE P1 == RolePhase(cur, des)
           P2 == GroupPhase(cur, des)
           P3 == ClientPhase(cur, des)
           P4 == MembershipPhase(cur, des)
           P5 == DeletePhase(cur, des)
           P6 == SettingsPhase(cur, des)
           CR0 == RolesOf(cur.clients)
           CD0 == DisabledOf(cur.clients)
           GR0 == RolesOf(cur.groups)
           GC0 == MembersOf(cur.groups)
           R1 == RolesDone(cur.roles, des.roles, DOMAIN des.roles)
           GR2 == ListsDone(cur.groups, des.groups, DOMAIN des.groups)
           GC2 == MembersDone(cur.groups, des.groups, DOMAIN CR0, DOMAIN des.groups)
           CR3 == ListsDone(cur.clients, des.clients, DOMAIN des.clients)
           CD3 == DisabledDone(cur.clients, des.clients, DOMAIN des.clients)
           GC4 == Enlisted(GC2, des.groups, DOMAIN des.groups)
           S1 == DOMAIN cur.clients \ DOMAIN des.clients
           S2 == DOMAIN cur.groups \ DOMAIN des.groups
           S3 == DOMAIN cur.roles \ DOMAIN des.roles
           n0 == cur.anonymous
           n5 == Unless(n0, S2)
           a1 == RunFrom(a, P1)
           a2 == RunFrom(a1, P2)
           a3 == RunFrom(a2, P3)
           a4 == RunFrom(a3, P4)
           a5 == RunFrom(a4, P5)
           a6 == RunFrom(a5, P6)
<1>r. /\ \A c \in DOMAIN des.clients : des.clients[c].roles \subseteq DOMAIN des.roles
      /\ \A g \in DOMAIN des.groups : des.groups[g].roles \subseteq DOMAIN des.roles
      /\ \A g \in DOMAIN des.groups : des.groups[g].clients \subseteq DOMAIN des.clients
      /\ des.anonymous \in DOMAIN des.groups \cup {NoGroup}
  BY DEF References
<1>t. /\ P1 \in Commands /\ P2 \in Commands /\ P3 \in Commands /\ P4 \in Commands /\ P5 \in Commands /\ P6 \in Commands
  BY PhaseTypes
<1>d. /\ DOMAIN R1 = DOMAIN cur.roles \cup DOMAIN des.roles
      /\ DOMAIN CR0 = DOMAIN cur.clients
      /\ DOMAIN GR2 = DOMAIN cur.groups \cup DOMAIN des.groups
      /\ DOMAIN GC2 = DOMAIN cur.groups \cup DOMAIN des.groups
      /\ DOMAIN CR3 = DOMAIN cur.clients \cup DOMAIN des.clients
      /\ \A g \in DOMAIN des.groups :
              GC2[g] = IF g \in DOMAIN cur.groups THEN des.groups[g].clients \cap (cur.groups[g].clients \cup DOMAIN CR0) ELSE {}
  <2>1. DOMAIN R1 = DOMAIN cur.roles \cup DOMAIN des.roles
    BY DEF RolesDone
  <2>2. /\ DOMAIN CR0 = DOMAIN cur.clients
        /\ DOMAIN GR2 = DOMAIN cur.groups \cup DOMAIN des.groups
        /\ DOMAIN CR3 = DOMAIN cur.clients \cup DOMAIN des.clients
    BY DEF ListsDone, RolesOf
  <2>3. DOMAIN GC2 = DOMAIN cur.groups \cup DOMAIN des.groups
    BY DEF MembersDone
  <2>4. \A g \in DOMAIN des.groups :
              GC2[g] = IF g \in DOMAIN cur.groups THEN des.groups[g].clients \cap (cur.groups[g].clients \cup DOMAIN CR0) ELSE {}
    BY DEF MembersDone
  <2> QED BY <2>1, <2>2, <2>3, <2>4
<1>0. State(a, CR0, CD0, GR0, GC0, cur.roles, cur.open, n0, F)
  OBVIOUS
<1>1. State(a1, CR0, CD0, GR0, GC0, R1, cur.open, n0, F)
  BY <1>0, RolePhaseRun, Zenon
<1> HIDE DEF a1, R1
<1>2. State(a2, CR0, CD0, GR2, GC2, R1, cur.open, n0, F)
  <2>1. \A g \in DOMAIN des.groups : des.groups[g].roles \subseteq DOMAIN R1
    BY <1>r, <1>d
  <2> QED BY <1>1, <2>1, GroupPhaseRun
<1> HIDE DEF a2, GR2, GC2
<1>3. State(a3, CR3, CD3, GR2, GC2, R1, cur.open, n0, F)
  <2>1. \A c \in DOMAIN des.clients : des.clients[c].roles \subseteq DOMAIN R1
    BY <1>r, <1>d
  <2> QED BY <1>2, <2>1, ClientPhaseRun, Zenon
<1> HIDE DEF a3, CR3, CD3
<1>4. State(a4, CR3, CD3, GR2, GC4, R1, cur.open, n0, F)
  <2>1. DOMAIN des.groups \subseteq DOMAIN GR2 /\ \A g \in DOMAIN des.groups : des.groups[g].clients \subseteq DOMAIN CR3
    BY <1>r, <1>d
  <2>2. GC4 = Enlisted(GC2, des.groups, DOMAIN des.groups) /\ a4 = RunFrom(a3, MembershipPhase(cur, des))
    BY Zenon
  <2> DEFINE D == DOMAIN CR0
  <2>3. Begun(GC2, cur.groups, des.groups, D) /\ Joining(cur.groups, des.groups, F)
    BY <1>d DEF Begun, Joining
  <2> HIDE DEF D, GC4, a4, n0
  <2>4. State(RunFrom(a3, MembershipPhase(cur, des)), CR3, CD3, GR2, Enlisted(GC2, des.groups, DOMAIN des.groups), R1, cur.open, n0, F)
    BY <1>3, <2>1, <2>3, MembershipPhaseEnds
  <2> QED BY <2>2, <2>4, Zenon
<1> HIDE DEF a4
<1>5. State(a5, MinusAll(Without(CR3, S1), S3), Without(CD3, S1), MinusAll(Without(GR2, S2), S3),
            Without(MinusAll(GC4, S1), S2), Without(R1, S3), cur.open, n5, F)
  <2>1. S1 \subseteq DOMAIN CR3 /\ S2 \subseteq DOMAIN GR2 /\ S3 \subseteq DOMAIN R1
    BY <1>d
  <2> HIDE DEF GC4
  <2> QED BY <1>4, <2>1, DeletePhaseRun
<1> HIDE DEF a5
<1>6. /\ MinusAll(Without(CR3, S1), S3) = RolesOf(des.clients) /\ MinusAll(Without(GR2, S2), S3) = RolesOf(des.groups)
      /\ Without(MinusAll(GC4, S1), S2) = MembersOf(des.groups) /\ Without(R1, S3) = AccessOutcome(cur.roles, des.roles)
  <2>1. MinusAll(Without(CR3, S1), S3) = RolesOf(des.clients)
    <3>1. \A x \in DOMAIN des.clients : des.clients[x].roles \cap S3 = {}
      BY <1>r
    <3> HIDE DEF S3
    <3> QED BY <3>1, ListsLeft DEF CR3
  <2>2. MinusAll(Without(GR2, S2), S3) = RolesOf(des.groups)
    <3>1. \A x \in DOMAIN des.groups : des.groups[x].roles \cap S3 = {}
      BY <1>r
    <3> HIDE DEF S3
    <3> QED BY <3>1, ListsLeft DEF GR2
  <2>3. Without(MinusAll(GC4, S1), S2) = MembersOf(des.groups)
    <3>1. \A x \in DOMAIN des.groups : des.groups[x].clients \cap S1 = {}
      BY <1>r
    <3>2. S2 = DOMAIN GC2 \ DOMAIN des.groups /\ DOMAIN des.groups \subseteq DOMAIN GC2
      BY <1>d
    <3> HIDE DEF S1, S2
    <3> QED BY <3>1, <3>2, MembersLeft
  <2>4. Without(R1, S3) = AccessOutcome(cur.roles, des.roles)
    BY AccessLeft DEF R1
  <2> QED BY <2>1, <2>2, <2>3, <2>4
<1>7. Without(CD3, S1) = EnabledOutcome(cur.clients, des.clients)
  BY EnabledLeft, Zenon DEF CD3
<1>8. State(a5, RolesOf(des.clients), EnabledOutcome(cur.clients, des.clients), RolesOf(des.groups), MembersOf(des.groups),
            AccessOutcome(cur.roles, des.roles), cur.open, n5, F)
  <2> HIDE DEF n5, CR3, CD3, GR2, GC4, R1, S1, S2, S3
  <2> QED BY <1>5, <1>6, <1>7, Zenon
<1>9. State(a6, RolesOf(des.clients), EnabledOutcome(cur.clients, des.clients), RolesOf(des.groups), MembersOf(des.groups),
            AccessOutcome(cur.roles, des.roles), des.open, AnonymousOutcome(cur, des), F)
  <2>1. cur.anonymous = des.anonymous => n5 = des.anonymous
    <3>1. NoGroup \notin DOMAIN cur.groups
      BY DatabaseFacts, NamesAssumption
    <3> QED BY <1>r, <3>1 DEF Unless
  <2>2. des.anonymous \in DOMAIN RolesOf(des.groups) \cup {NoGroup}
    BY <1>r DEF RolesOf
  <2>3. AnonymousOutcome(cur, des) = IF des.anonymous = NoGroup THEN n5 ELSE des.anonymous
    BY Zenon DEF AnonymousOutcome
  <2> HIDE DEF n5
  <2>4. State(a6, RolesOf(des.clients), EnabledOutcome(cur.clients, des.clients), RolesOf(des.groups), MembersOf(des.groups),
              AccessOutcome(cur.roles, des.roles), des.open, IF des.anonymous = NoGroup THEN n5 ELSE des.anonymous, F)
    BY <1>8, <2>1, <2>2, SettingsPhaseRun, Zenon
  <2> QED BY <2>3, <2>4, Zenon
<1> HIDE DEF a6, P1, P2, P3, P4, P5, P6
<1>10. BuildPlan(cur, des) = P1 \o P2 \o P3 \o P4 \o P5 \o P6
  BY Zenon DEF BuildPlan, P1, P2, P3, P4, P5, P6
<1>11. RunFrom(a, P1 \o P2 \o P3 \o P4 \o P5 \o P6) = a6
  <2>1. P1 \o P2 \in Commands
    BY <1>t, Joined
  <2>2. P1 \o P2 \o P3 \in Commands
    BY <1>t, <2>1, Joined
  <2>3. P1 \o P2 \o P3 \o P4 \in Commands
    BY <1>t, <2>2, Joined
  <2>4. P1 \o P2 \o P3 \o P4 \o P5 \in Commands
    BY <1>t, <2>3, Joined
  <2>5. RunFrom(a, P1 \o P2 \o P3 \o P4 \o P5 \o P6) = RunFrom(RunFrom(a, P1 \o P2 \o P3 \o P4 \o P5), P6)
    BY <1>t, <2>4, RunJoined, Zenon DEF Commands
  <2>6. RunFrom(a, P1 \o P2 \o P3 \o P4 \o P5) = RunFrom(RunFrom(a, P1 \o P2 \o P3 \o P4), P5)
    BY <1>t, <2>3, RunJoined, Zenon DEF Commands
  <2>7. RunFrom(a, P1 \o P2 \o P3 \o P4) = RunFrom(RunFrom(a, P1 \o P2 \o P3), P4)
    BY <1>t, <2>2, RunJoined, Zenon DEF Commands
  <2>8. RunFrom(a, P1 \o P2 \o P3) = RunFrom(RunFrom(a, P1 \o P2), P3)
    BY <1>t, <2>1, RunJoined, Zenon DEF Commands
  <2>9. RunFrom(a, P1 \o P2) = RunFrom(RunFrom(a, P1), P2)
    BY <1>t, RunJoined, Zenon DEF Commands
  <2> QED BY <2>5, <2>6, <2>7, <2>8, <2>9, Zenon DEF a1, a2, a3, a4, a5, a6
<1> QED BY <1>9, <1>10, <1>11, Zenon

-----------------------------------------------------------------------------
(* What an undisturbed plan leaves in the database. *)

LEMMA StartState ==
    ASSUME NEW d \in Database, NEW F \in BOOLEAN
    PROVE  State(StartOf(d), RolesOf(d.clients), DisabledOf(d.clients), RolesOf(d.groups), MembersOf(d.groups),
                 d.roles, d.open, d.anonymous, F)
<1>1. StartOf(d) \in Accumulator /\ StartOf(d).db = d
  BY StartType
<1>2. ~StartOf(d).refused
  <2>1. \A b : [db |-> d, refused |-> b].refused = b
    OBVIOUS
  <2>2. [db |-> d, refused |-> FALSE].refused = FALSE
    BY <2>1, Zenon
  <2> QED BY <2>2, Zenon DEF StartOf
<1> QED BY <1>1, <1>2, Zenon DEF State

LEMMA RedactedViews ==
    ASSUME NEW d \in Database
    PROVE  RolesOf(Redacted(d).clients) = RolesOf(d.clients) /\ DisabledOf(Redacted(d).clients) = DisabledOf(d.clients)
<1>1. Redacted(d).clients = Veiled(d.clients)
  BY RedactedParts
<1>2. \A c \in DOMAIN d.clients : d.clients[c] \in ClientRecord
  BY DatabaseFacts
<1>3. /\ DOMAIN Veiled(d.clients) = DOMAIN d.clients
      /\ \A c \in DOMAIN d.clients : Veiled(d.clients)[c].roles = d.clients[c].roles
                                     /\ Veiled(d.clients)[c].disabled = d.clients[c].disabled
  BY <1>2 DEF Veiled, ClientRecord
<1>4. RolesOf(Veiled(d.clients)) = RolesOf(d.clients) /\ DisabledOf(Veiled(d.clients)) = DisabledOf(d.clients)
  BY <1>3 DEF RolesOf, DisabledOf
<1> QED BY <1>1, <1>4, Zenon

\* What makes the plugin refuse a command of a plan.
Hampered(cur, des) == FlipsEntry(cur, des) \/ JoinsGroup(cur, des) \/ ClearsAnonymous(cur, des)

LEMMA HamperedOnly ==
    ASSUME NEW cur \in Database, NEW des \in Database
    PROVE  /\ \A r \in DOMAIN cur.roles \cap DOMAIN des.roles :
                \A t \in DOMAIN cur.roles[r] \cap DOMAIN des.roles[r] :
                   (cur.roles[r][t].priority = des.roles[r][t].priority /\ cur.roles[r][t] # des.roles[r][t])
                      => Hampered(cur, des)
           /\ \A g \in DOMAIN cur.groups \cap DOMAIN des.groups :
                \A x \in des.groups[g].clients : x \in cur.groups[g].clients \/ Hampered(cur, des)
           /\ ClearsAnonymous(cur, des) => Hampered(cur, des)
<1>1. ASSUME NEW r \in DOMAIN cur.roles \cap DOMAIN des.roles, NEW t \in DOMAIN cur.roles[r] \cap DOMAIN des.roles[r],
             cur.roles[r][t].priority = des.roles[r][t].priority, cur.roles[r][t] # des.roles[r][t]
      PROVE  Hampered(cur, des)
  <2>1. cur.roles[r] \in Entries /\ des.roles[r] \in Entries
    BY DatabaseFacts
  <2>2. cur.roles[r][t] \in Entry /\ des.roles[r][t] \in Entry
    BY <2>1, EntriesFacts
  <2>3. cur.roles[r][t].allow # des.roles[r][t].allow
    BY <1>1, <2>2 DEF Entry
  <2> QED BY <1>1, <2>3 DEF Hampered, FlipsEntry
<1>2. ASSUME NEW g \in DOMAIN cur.groups \cap DOMAIN des.groups, NEW x \in des.groups[g].clients,
             x \notin cur.groups[g].clients
      PROVE  Hampered(cur, des)
  BY <1>2 DEF Hampered, JoinsGroup
<1>3. ClearsAnonymous(cur, des) => Hampered(cur, des)
  BY DEF Hampered
<1> QED BY <1>1, <1>2, <1>3

\* What BuildPlan's commands leave in the database they were made for.
LEMMA PlanOutcome ==
    ASSUME NEW d \in Database, NEW des \in Database, References(des)
    PROVE  State(Execute(d, BuildPlan(Redacted(d), des)), RolesOf(des.clients), EnabledOutcome(d.clients, des.clients),
                 RolesOf(des.groups), MembersOf(des.groups), AccessOutcome(d.roles, des.roles),
                 des.open, AnonymousOutcome(d, des), Hampered(Redacted(d), des))
<1> DEFINE cur == Redacted(d)
           F == Hampered(cur, des)
           a == StartOf(d)
<1>1. /\ cur \in Database /\ cur.groups = d.groups /\ cur.roles = d.roles /\ cur.open = d.open
      /\ cur.anonymous = d.anonymous /\ DOMAIN cur.clients = DOMAIN d.clients
  BY RedactedParts
<1>2. F \in BOOLEAN
  BY DEF Hampered, FlipsEntry, JoinsGroup, ClearsAnonymous
<1>3. State(a, RolesOf(d.clients), DisabledOf(d.clients), RolesOf(d.groups), MembersOf(d.groups),
            d.roles, d.open, d.anonymous, F)
  BY <1>2, StartState
<1>4. RolesOf(cur.clients) = RolesOf(d.clients) /\ DisabledOf(cur.clients) = DisabledOf(d.clients)
  BY RedactedViews
<1> HIDE DEF cur, a
<1>5. State(a, RolesOf(cur.clients), DisabledOf(cur.clients), RolesOf(cur.groups), MembersOf(cur.groups),
            cur.roles, cur.open, cur.anonymous, F)
  BY <1>1, <1>3, <1>4, Zenon
<1>6. /\ \A r \in DOMAIN cur.roles \cap DOMAIN des.roles :
           \A t \in DOMAIN cur.roles[r] \cap DOMAIN des.roles[r] :
              (cur.roles[r][t].priority = des.roles[r][t].priority /\ cur.roles[r][t] # des.roles[r][t]) => F
      /\ \A g \in DOMAIN cur.groups \cap DOMAIN des.groups :
           \A x \in des.groups[g].clients : x \in cur.groups[g].clients \/ F
      /\ ClearsAnonymous(cur, des) => F
  BY <1>1, HamperedOnly
<1> HIDE DEF F
<1>7. State(RunFrom(a, BuildPlan(cur, des)), RolesOf(des.clients), EnabledOutcome(cur.clients, des.clients),
            RolesOf(des.groups), MembersOf(des.groups), AccessOutcome(cur.roles, des.roles), des.open,
            AnonymousOutcome(cur, des), F)
  BY <1>1, <1>2, <1>5, <1>6, PlanRun
<1>8. EnabledOutcome(cur.clients, des.clients) = EnabledOutcome(d.clients, des.clients)
  BY <1>1, Zenon DEF EnabledOutcome
<1>9. AnonymousOutcome(cur, des) = AnonymousOutcome(d, des)
  BY <1>1, Zenon DEF AnonymousOutcome
<1> QED BY <1>1, <1>7, <1>8, <1>9, ExecuteIsRun, Zenon DEF cur, a, F

\* The objects one by one.
LEMMA OutcomeParts ==
    ASSUME NEW d \in Database, NEW des \in Database, References(des), NEW out, out = Execute(d, BuildPlan(Redacted(d), des)).db
    PROVE  /\ out \in Database
           /\ DOMAIN out.clients = DOMAIN des.clients
           /\ \A c \in DOMAIN des.clients : out.clients[c].roles = des.clients[c].roles
           /\ DOMAIN out.groups = DOMAIN des.groups
           /\ \A g \in DOMAIN des.groups : out.groups[g].roles = des.groups[g].roles /\ out.groups[g].clients = des.groups[g].clients
           /\ DOMAIN out.roles = DOMAIN des.roles
           /\ \A r \in DOMAIN des.roles : out.roles[r] = RoleOutcome(d.roles, des.roles, r)
           /\ ~ClearsAnonymous(Redacted(d), des) => out.anonymous = des.anonymous
<1> DEFINE a == Execute(d, BuildPlan(Redacted(d), des))
           F == Hampered(Redacted(d), des)
<1>1. State(a, RolesOf(des.clients), EnabledOutcome(d.clients, des.clients),
            RolesOf(des.groups), MembersOf(des.groups), AccessOutcome(d.roles, des.roles), des.open,
            AnonymousOutcome(d, des), F)
  BY PlanOutcome
<1> HIDE DEF a, F
<1>2. /\ a.db \in Database /\ a.db.anonymous = AnonymousOutcome(d, des) /\ a.db.roles = AccessOutcome(d.roles, des.roles)
      /\ RolesOf(a.db.clients) = RolesOf(des.clients)
      /\ RolesOf(a.db.groups) = RolesOf(des.groups) /\ MembersOf(a.db.groups) = MembersOf(des.groups)
  BY <1>1, StateFacts
<1>3. out = a.db
  BY Zenon DEF a
<1>4. DOMAIN out.clients = DOMAIN des.clients /\ \A c \in DOMAIN des.clients : out.clients[c].roles = des.clients[c].roles
  BY <1>2, <1>3 DEF RolesOf
<1>5. DOMAIN out.groups = DOMAIN des.groups
      /\ \A g \in DOMAIN des.groups : out.groups[g].roles = des.groups[g].roles /\ out.groups[g].clients = des.groups[g].clients
  BY <1>2, <1>3 DEF RolesOf, MembersOf
<1>6. DOMAIN out.roles = DOMAIN des.roles /\ \A r \in DOMAIN des.roles : out.roles[r] = RoleOutcome(d.roles, des.roles, r)
  BY <1>2, <1>3 DEF AccessOutcome
<1>7. ~ClearsAnonymous(Redacted(d), des) => AnonymousOutcome(d, des) = des.anonymous
  <2>1. NoGroup \notin DOMAIN d.groups /\ Redacted(d).anonymous = d.anonymous
    BY DatabaseFacts, RedactedParts, NamesAssumption
  <2> QED BY <2>1 DEF ClearsAnonymous, AnonymousOutcome, Unless
<1> QED BY <1>2, <1>3, <1>4, <1>5, <1>6, <1>7

LEMMA OutcomeOpen ==
    ASSUME NEW d \in Database, NEW des \in Database, References(des)
    PROVE  Execute(d, BuildPlan(Redacted(d), des)).db.open = des.open
<1> DEFINE a == Execute(d, BuildPlan(Redacted(d), des))
           F == Hampered(Redacted(d), des)
<1>1. State(a, RolesOf(des.clients), EnabledOutcome(d.clients, des.clients),
            RolesOf(des.groups), MembersOf(des.groups), AccessOutcome(d.roles, des.roles), des.open,
            AnonymousOutcome(d, des), F)
  BY PlanOutcome
<1> HIDE DEF a, F
<1>2. a.db.open = des.open
  BY <1>1, Zenon DEF State
<1> QED BY <1>2 DEF a

\* A command of the plan is refused only in one of the three named cases.
LEMMA OutcomeRefused ==
    ASSUME NEW d \in Database, NEW des \in Database, References(des)
    PROVE  Execute(d, BuildPlan(Redacted(d), des)).refused => Hampered(Redacted(d), des)
<1> DEFINE a == Execute(d, BuildPlan(Redacted(d), des))
           F == Hampered(Redacted(d), des)
<1>1. State(a, RolesOf(des.clients), EnabledOutcome(d.clients, des.clients),
            RolesOf(des.groups), MembersOf(des.groups), AccessOutcome(d.roles, des.roles), des.open,
            AnonymousOutcome(d, des), F)
  BY PlanOutcome
<1> HIDE DEF a, F
<1>2. a.refused => F
  BY <1>1, Zenon DEF State
<1> QED BY <1>2, Zenon DEF a, F

LEMMA OutcomeEnabling ==
    ASSUME NEW d \in Database, NEW des \in Database, References(des), NEW c \in DOMAIN des.clients
    PROVE  Execute(d, BuildPlan(Redacted(d), des)).db.clients[c].disabled
             = IF c \in DOMAIN d.clients THEN des.clients[c].disabled ELSE FALSE
<1> DEFINE a == Execute(d, BuildPlan(Redacted(d), des))
           F == Hampered(Redacted(d), des)
<1>1. State(a, RolesOf(des.clients), EnabledOutcome(d.clients, des.clients),
            RolesOf(des.groups), MembersOf(des.groups), AccessOutcome(d.roles, des.roles), des.open,
            AnonymousOutcome(d, des), F)
  BY PlanOutcome
<1>d. DOMAIN a.db.clients = DOMAIN des.clients
  BY OutcomeParts
<1> HIDE DEF a, F
<1>2. DisabledOf(a.db.clients) = EnabledOutcome(d.clients, des.clients)
  BY <1>1, Zenon DEF State
<1>3. a.db.clients[c].disabled = DisabledOf(a.db.clients)[c]
  BY <1>d DEF DisabledOf
<1>4. a.db.clients[c].disabled = EnabledOutcome(d.clients, des.clients)[c]
  BY <1>2, <1>3, Zenon
<1>5. \A f : [x \in DOMAIN des.clients |-> IF x \in DOMAIN d.clients THEN des.clients[x].disabled ELSE f][c]
             = IF c \in DOMAIN d.clients THEN des.clients[c].disabled ELSE f
  OBVIOUS
<1>6. EnabledOutcome(d.clients, des.clients)[c] = IF c \in DOMAIN d.clients THEN des.clients[c].disabled ELSE FALSE
  BY <1>5, Zenon DEF EnabledOutcome
<1> QED BY <1>4, <1>6, Zenon DEF a

LEMMA OutcomeDisabled ==
    ASSUME NEW d \in Database, NEW des \in Database, References(des), ~CreatesDisabled(Redacted(d), des),
           NEW c \in DOMAIN des.clients
    PROVE  Execute(d, BuildPlan(Redacted(d), des)).db.clients[c].disabled = des.clients[c].disabled
<1>6. Execute(d, BuildPlan(Redacted(d), des)).db.clients[c].disabled
        = IF c \in DOMAIN d.clients THEN des.clients[c].disabled ELSE FALSE
  BY OutcomeEnabling
<1>7. c \notin DOMAIN d.clients => ~des.clients[c].disabled
  BY RedactedParts DEF CreatesDisabled
<1>8. des.clients[c].disabled \in BOOLEAN
  BY DatabaseFacts DEF ClientRecord
<1>9. c \notin DOMAIN d.clients => des.clients[c].disabled = FALSE
  BY <1>7, <1>8
<1> QED BY <1>6, <1>9, Zenon

\* An account the document does not disable may log in afterwards.
LEMMA OutcomeEnabled ==
    ASSUME NEW d \in Database, NEW des \in Database, References(des), NEW c \in DOMAIN des.clients,
           ~des.clients[c].disabled
    PROVE  ~Execute(d, BuildPlan(Redacted(d), des)).db.clients[c].disabled
<1>1. des.clients[c].disabled = FALSE
  BY DatabaseFacts DEF ClientRecord
<1> QED BY <1>1, OutcomeEnabling, Zenon

-----------------------------------------------------------------------------
(* Normal documents, and when the outcome of a plan passes the             *)
(* verification.                                                           *)

LEMMA EnrolledParts ==
    ASSUME NEW cs \in Clients, NEW gs
    PROVE  /\ DOMAIN Enrolled(cs, gs) = DOMAIN cs
           /\ \A c \in DOMAIN cs : Enrolled(cs, gs)[c].groups = {g \in DOMAIN gs : c \in gs[g].clients}
           /\ Enrolled(Enrolled(cs, gs), gs) = Enrolled(cs, gs)
<1>1. \A c \in DOMAIN cs : cs[c] \in ClientRecord
  BY ClientPart
<1>2. /\ DOMAIN Enrolled(cs, gs) = DOMAIN cs
      /\ \A c \in DOMAIN cs : Enrolled(cs, gs)[c].groups = {g \in DOMAIN gs : c \in gs[g].clients}
  BY <1>1 DEF Enrolled, ClientRecord
<1>3. \A c \in DOMAIN cs : \A S : [[cs[c] EXCEPT !.groups = S] EXCEPT !.groups = S] = [cs[c] EXCEPT !.groups = S]
  BY <1>1 DEF ClientRecord
<1>4. Enrolled(Enrolled(cs, gs), gs) = Enrolled(cs, gs)
  BY <1>3 DEF Enrolled
<1> QED BY <1>2, <1>4

LEMMA NormalizeParts ==
    ASSUME NEW d \in Database
    PROVE  /\ Normalize(d) \in Database /\ Normalize(Normalize(d)) = Normalize(d)
           /\ DOMAIN Normalize(d).clients = DOMAIN d.clients
           /\ \A c \in DOMAIN d.clients : Normalize(d).clients[c].groups = {g \in DOMAIN d.groups : c \in d.groups[g].clients}
           /\ Normalize(d).groups = d.groups /\ Normalize(d).roles = d.roles /\ Normalize(d).anonymous = d.anonymous
           /\ RolesOf(Normalize(d).clients) = RolesOf(d.clients)
<1>1. /\ Normalize(d) \in Database
      /\ Normalize(d) = Doc(Enrolled(d.clients, d.groups), d.groups, d.roles, d.open, d.anonymous)
  BY DocumentViews
<1>2. d.clients \in Clients
  BY DocType
<1>3. Normalize(Normalize(d)) = Doc(Enrolled(Enrolled(d.clients, d.groups), d.groups), d.groups, d.roles, d.open, d.anonymous)
  BY <1>1, DocViews
<1>4. Normalize(Normalize(d)) = Normalize(d)
  BY <1>1, <1>2, <1>3, EnrolledParts, Zenon
<1>5. /\ Normalize(d).clients = Enrolled(d.clients, d.groups) /\ Normalize(d).groups = d.groups
      /\ Normalize(d).roles = d.roles /\ Normalize(d).anonymous = d.anonymous
  BY <1>1 DEF Doc
<1> QED BY <1>1, <1>2, <1>4, <1>5, EnrolledParts, EnrolledViews

\* The plugin keeps the two views of a membership in step.
LEMMA ExecuteNormal ==
    ASSUME NEW d \in Database, d = Normalize(d), NEW plan \in Seq(Command)
    PROVE  Execute(d, plan).db = Normalize(Execute(d, plan).db)
<1>1. PICK f : /\ Execute(d, plan) = f[Len(plan)] /\ f[0] = StartOf(d)
               /\ \A k \in 0..Len(plan) : k < Len(plan) => f[k + 1] = ExecuteOne(f[k], plan[k + 1])
  BY ExecuteRun
<1> DEFINE N == Len(plan)
           S == {k \in 0..N : f[k] \in Accumulator /\ f[k].db = Normalize(f[k].db)}
<1>2. N \in Nat
  OBVIOUS
<1>3. S \in SUBSET Nat /\ 0 \in S
  BY <1>1, <1>2, StartType
<1>4. ASSUME NEW k \in S, k < N PROVE k + 1 \in S
  <2>1. k \in 0..N /\ k + 1 \in 1..N /\ k + 1 \in 0..N /\ f[k] \in Accumulator /\ f[k].db = Normalize(f[k].db)
    BY <1>2, <1>4
  <2>2. plan[k + 1] \in Command /\ f[k].db \in Database
    BY <2>1 DEF Accumulator
  <2>3. f[k + 1] = ExecuteOne(f[k], plan[k + 1])
    BY <1>1, <1>4, <2>1
  <2>4. f[k + 1] \in Accumulator
    BY <2>1, <2>2, <2>3, StepType
  <2>5. CASE Refused(f[k].db, plan[k + 1])
    <3>1. f[k + 1].db = f[k].db
      BY <2>1, <2>2, <2>3, <2>5, StepType
    <3> QED BY <2>1, <2>4, <3>1
  <2>6. CASE ~Refused(f[k].db, plan[k + 1])
    <3>1. f[k + 1].db = Normalize(Effect(f[k].db, plan[k + 1]))
      BY <2>1, <2>2, <2>3, <2>6, StepType
    <3>2. Effect(f[k].db, plan[k + 1]) \in Database
      BY <2>2, <2>6, EffectType
    <3>3. f[k + 1].db = Normalize(f[k + 1].db)
      BY <3>1, <3>2, NormalizeParts
    <3> QED BY <2>1, <2>4, <3>3
  <2> QED BY <2>5, <2>6
<1>5. \A k \in S : k < N => k + 1 \in S
  BY <1>4
<1> HIDE DEF S
<1>6. \A k \in 0..N : k \in S
  BY <1>2, <1>3, <1>5, SetInduction
<1> QED BY <1>1, <1>2, <1>6 DEF S

LEMMA RedactedClients ==
    ASSUME NEW d \in Database, NEW c \in DOMAIN d.clients
    PROVE  /\ Redacted(d).clients[c].roles = d.clients[c].roles /\ Redacted(d).clients[c].groups = d.clients[c].groups
           /\ Redacted(d).clients[c].disabled = d.clients[c].disabled
<1>1. Redacted(d).clients = Veiled(d.clients)
  BY RedactedParts
<1>2. d.clients[c] \in ClientRecord
  BY DatabaseFacts
<1> QED BY <1>1, <1>2 DEF Veiled, ClientRecord

LEMMA SettledEntry ==
    ASSUME NEW d \in Database, NEW des \in Database, NEW r \in DOMAIN des.roles
    PROVE  /\ DOMAIN RoleOutcome(d.roles, des.roles, r) = DOMAIN des.roles[r]
           /\ \A t \in DOMAIN des.roles[r] :
                 RoleOutcome(d.roles, des.roles, r)[t] =
                    IF r \in DOMAIN d.roles /\ t \in DOMAIN d.roles[r] /\ d.roles[r][t].priority = des.roles[r][t].priority
                    THEN d.roles[r][t] ELSE des.roles[r][t]
<1>1. CASE r \in DOMAIN d.roles
  <2>1. RoleOutcome(d.roles, des.roles, r) = Settled(d.roles[r], des.roles[r])
    BY <1>1 DEF RoleOutcome
  <2> QED BY <1>1, <2>1 DEF Settled, Kept
<1>2. CASE r \notin DOMAIN d.roles
  BY <1>2 DEF RoleOutcome
<1> QED BY <1>1, <1>2

\* Without the exempted cases the outcome is the document.
LEMMA OutcomeVerified ==
    ASSUME NEW d \in Database, d = Normalize(d), NEW des \in Database, des = Normalize(des), References(des),
           ~FlipsEntry(Redacted(d), des), ~CreatesDisabled(Redacted(d), des), ~ClearsAnonymous(Redacted(d), des)
    PROVE  Verify(des, Redacted(Execute(d, BuildPlan(Redacted(d), des)).db))
<1> DEFINE plan == BuildPlan(Redacted(d), des)
           out == Execute(d, plan).db
           seen == Redacted(out)
<1>1. Redacted(d) \in Database /\ Redacted(d).roles = d.roles
  BY RedactedParts
<1>2. plan \in Seq(Command)
  BY <1>1, BuildPlanType
<1>3. /\ out \in Database
      /\ DOMAIN out.clients = DOMAIN des.clients
      /\ \A c \in DOMAIN des.clients : out.clients[c].roles = des.clients[c].roles
      /\ DOMAIN out.groups = DOMAIN des.groups
      /\ \A g \in DOMAIN des.groups : out.groups[g].roles = des.groups[g].roles /\ out.groups[g].clients = des.groups[g].clients
      /\ DOMAIN out.roles = DOMAIN des.roles
      /\ \A r \in DOMAIN des.roles : out.roles[r] = RoleOutcome(d.roles, des.roles, r)
      /\ out.anonymous = des.anonymous
  BY OutcomeParts
<1>4. out.open = des.open
  BY OutcomeOpen
<1>5. \A c \in DOMAIN des.clients : out.clients[c].disabled = des.clients[c].disabled
  BY OutcomeDisabled
<1>6. out = Normalize(out)
  BY <1>2, ExecuteNormal
<1> HIDE DEF plan, out
<1>7. \A c \in DOMAIN des.clients : out.clients[c].groups = des.clients[c].groups
  <2> TAKE c \in DOMAIN des.clients
  <2>1. Normalize(out).clients[c].groups = {g \in DOMAIN out.groups : c \in out.groups[g].clients}
    BY <1>3, NormalizeParts
  <2>2. Normalize(des).clients[c].groups = {g \in DOMAIN des.groups : c \in des.groups[g].clients}
    BY NormalizeParts
  <2>3. {g \in DOMAIN out.groups : c \in out.groups[g].clients} = {g \in DOMAIN des.groups : c \in des.groups[g].clients}
    BY <1>3
  <2> QED BY <1>6, <2>1, <2>2, <2>3, Zenon
<1>8. \A r \in DOMAIN des.roles : sameACLs(des.roles[r], out.roles[r])
  <2> TAKE r \in DOMAIN des.roles
  <2> DEFINE x == RoleOutcome(d.roles, des.roles, r)
  <2>1. /\ DOMAIN x = DOMAIN des.roles[r]
        /\ \A t \in DOMAIN des.roles[r] :
              x[t] = IF r \in DOMAIN d.roles /\ t \in DOMAIN d.roles[r] /\ d.roles[r][t].priority = des.roles[r][t].priority
                     THEN d.roles[r][t] ELSE des.roles[r][t]
    BY SettledEntry
  <2> HIDE DEF x
  <2>2. ASSUME NEW t \in DOMAIN des.roles[r] PROVE des.roles[r][t].allow = x[t].allow
    <3>1. (r \in DOMAIN d.roles /\ t \in DOMAIN d.roles[r] /\ d.roles[r][t].priority = des.roles[r][t].priority)
             => d.roles[r][t].allow = des.roles[r][t].allow
      BY <1>1 DEF FlipsEntry
    <3> QED BY <2>1, <3>1
  <2>3. out.roles[r] = x
    BY <1>3 DEF x
  <2> QED BY <2>1, <2>2, <2>3 DEF sameACLs
<1>9. /\ seen.groups = out.groups /\ seen.roles = out.roles /\ seen.open = out.open /\ seen.anonymous = out.anonymous
      /\ DOMAIN seen.clients = DOMAIN out.clients
  BY <1>3, RedactedParts
<1>10. \A c \in DOMAIN out.clients : /\ seen.clients[c].roles = out.clients[c].roles /\ seen.clients[c].groups = out.clients[c].groups
                                     /\ seen.clients[c].disabled = out.clients[c].disabled
  BY <1>3, RedactedClients
<1> HIDE DEF seen
<1>11. Verify(des, seen)
  BY <1>3, <1>4, <1>5, <1>7, <1>8, <1>9, <1>10 DEF Verify, sameRefs
<1> QED BY <1>11 DEF seen, out, plan

\* Whether a document limits the control channel, or bars the account of MCM
\* from it, does not depend on passwords.
LEMMA LimitedRedacted ==
    ASSUME NEW d \in Database
    PROVE  (Limited(Redacted(d)) <=> Limited(d)) /\ (Barred(Redacted(d)) <=> Barred(d))
<1> DEFINE e == Redacted(d)
<1>1. /\ e.groups = d.groups /\ e.roles = d.roles /\ e.open = d.open /\ e.anonymous = d.anonymous
      /\ DOMAIN e.clients = DOMAIN d.clients
  BY RedactedParts
<1>2. \A c \in DOMAIN d.clients : e.clients[c].roles = d.clients[c].roles /\ e.clients[c].disabled = d.clients[c].disabled
  BY RedactedClients
<1> HIDE DEF e
<1>3. \A r : /\ roleGrantsControlChannel(e, r) <=> roleGrantsControlChannel(d, r)
             /\ roleDeniesControlChannel(e, r) <=> roleDeniesControlChannel(d, r)
  BY <1>1 DEF roleGrantsControlChannel, roleDeniesControlChannel
<1>c. \A c \in DOMAIN d.clients : Carries(e, c) = Carries(d, c)
  BY <1>1, <1>2 DEF Carries
<1>4. Principals(e) = Principals(d)
  BY <1>1, <1>3, <1>c DEF Principals
<1>5. GroupReaches(e, e.anonymous) <=> GroupReaches(d, d.anonymous)
  BY <1>1, <1>3 DEF GroupReaches
<1>6. Barred(e) <=> Barred(d)
  <2>1. CASE Management \notin DOMAIN d.clients
    BY <1>1, <2>1 DEF Barred
  <2>2. CASE Management \in DOMAIN d.clients
    <3>1. Carries(e, Management) = Carries(d, Management) /\ e.clients[Management].disabled = d.clients[Management].disabled
          /\ Management \in DOMAIN e.clients
      BY <1>1, <1>2, <1>c, <2>2, Zenon
    <3>2. (\E x \in Carries(e, Management) : roleDeniesControlChannel(e, x))
             <=> (\E x \in Carries(d, Management) : roleDeniesControlChannel(d, x))
      BY <1>3, <3>1, Zenon
    <3> QED BY <2>2, <3>1, <3>2, Zenon DEF Barred
  <2> QED BY <2>1, <2>2
<1>7. Limited(e) <=> Limited(d)
  BY <1>1, <1>4, <1>5, <1>6, Zenon DEF Limited
<1> QED BY <1>6, <1>7, Zenon DEF e

\* If both documents limit the control channel then so does the outcome.
LEMMA OutcomeLimited ==
    ASSUME NEW d \in Database, NEW des \in Database, des = Normalize(des), References(des),
           CheckControlChannel(des), ~PassesGuard(Redacted(d), des)
    PROVE  Limited(Execute(d, BuildPlan(Redacted(d), des)).db)
<1> DEFINE out == Execute(d, BuildPlan(Redacted(d), des)).db
<1>1. Redacted(d).roles = d.roles
  BY RedactedParts
<1>2. ~FlipsControl(Redacted(d), des) /\ ~ClearsAnonymous(Redacted(d), des) /\ ~Barred(des)
  BY DEF PassesGuard
<1>3. /\ out \in Database
      /\ DOMAIN out.clients = DOMAIN des.clients
      /\ \A c \in DOMAIN des.clients : out.clients[c].roles = des.clients[c].roles
      /\ DOMAIN out.groups = DOMAIN des.groups
      /\ \A g \in DOMAIN des.groups : out.groups[g].roles = des.groups[g].roles /\ out.groups[g].clients = des.groups[g].clients
      /\ DOMAIN out.roles = DOMAIN des.roles
      /\ \A r \in DOMAIN des.roles : out.roles[r] = RoleOutcome(d.roles, des.roles, r)
      /\ out.anonymous = des.anonymous
  BY <1>2, OutcomeParts
<1>4. out.open = des.open
  BY OutcomeOpen
<1>b. Management \in DOMAIN des.clients /\ ~des.clients[Management].disabled => ~out.clients[Management].disabled
  BY OutcomeEnabled
<1> HIDE DEF out
<1>5. ASSUME NEW r PROVE /\ roleGrantsControlChannel(out, r) <=> roleGrantsControlChannel(des, r)
                         /\ roleDeniesControlChannel(out, r) <=> roleDeniesControlChannel(des, r)
  <2>1. CASE r \in DOMAIN des.roles
    <3> DEFINE x == RoleOutcome(d.roles, des.roles, r)
    <3>1. /\ DOMAIN x = DOMAIN des.roles[r]
          /\ \A t \in DOMAIN des.roles[r] :
                x[t] = IF r \in DOMAIN d.roles /\ t \in DOMAIN d.roles[r] /\ d.roles[r][t].priority = des.roles[r][t].priority
                       THEN d.roles[r][t] ELSE des.roles[r][t]
      BY <2>1, SettledEntry
    <3> HIDE DEF x
    <3>2. ControlTopic \in DOMAIN des.roles[r] => x[ControlTopic].allow = des.roles[r][ControlTopic].allow
      <4>1. (r \in DOMAIN d.roles /\ ControlTopic \in DOMAIN d.roles[r] /\ ControlTopic \in DOMAIN des.roles[r]
               /\ d.roles[r][ControlTopic].priority = des.roles[r][ControlTopic].priority)
             => d.roles[r][ControlTopic].allow = des.roles[r][ControlTopic].allow
        BY <1>1, <1>2, <2>1 DEF FlipsControl
      <4> QED BY <3>1, <4>1
    <3>3. out.roles[r] = x
      BY <1>3, <2>1 DEF x
    <3> QED BY <1>3, <2>1, <3>1, <3>2, <3>3 DEF roleGrantsControlChannel, roleDeniesControlChannel
  <2>2. CASE r \notin DOMAIN des.roles
    BY <1>3, <2>2 DEF roleGrantsControlChannel, roleDeniesControlChannel
  <2> QED BY <2>1, <2>2
<1>c. \A c \in DOMAIN des.clients : Carries(out, c) = Carries(des, c)
  BY <1>3 DEF Carries
<1>6. Principals(out) = Principals(des)
  BY <1>3, <1>5, <1>c DEF Principals
<1>7. Principals(des) = {c \in DOMAIN des.clients : Reaches(des, c)}
  <2>1. \A c \in DOMAIN des.clients : des.clients[c].groups = {g \in DOMAIN des.groups : c \in des.groups[g].clients}
    BY NormalizeParts
  <2>2. ASSUME NEW c \in DOMAIN des.clients
        PROVE  Reaches(des, c) <=> \E x \in Carries(des, c) : roleGrantsControlChannel(des, x)
    BY <2>1 DEF Reaches, GroupReaches, Carries
  <2> QED BY <2>2 DEF Principals
<1>8. GroupReaches(out, out.anonymous) <=> GroupReaches(des, des.anonymous)
  BY <1>3, <1>5 DEF GroupReaches
<1>10. ~Barred(out)
  <2> SUFFICES ASSUME Management \in DOMAIN des.clients PROVE ~Barred(out)
    BY <1>3 DEF Barred
  <2>1. ~des.clients[Management].disabled /\ ~\E x \in Carries(des, Management) : roleDeniesControlChannel(des, x)
    BY <1>2 DEF Barred
  <2>2. ~out.clients[Management].disabled
    BY <1>b, <2>1
  <2>3. ~\E x \in Carries(out, Management) : roleDeniesControlChannel(out, x)
    BY <1>5, <1>c, <2>1
  <2> QED BY <2>2, <2>3, Zenon DEF Barred
<1>9. Limited(out)
  BY <1>4, <1>6, <1>7, <1>8, <1>10 DEF Limited, CheckControlChannel
<1> QED BY <1>9 DEF out

-----------------------------------------------------------------------------
(* Where a request stands: what it sends is the plan for what it read, and  *)
(* what it finds when it reads back is the document, unless the plan has one *)
(* of the shapes the plugin refuses. *)

Normal(d) == d = NoDocument \/ d = Normalize(d)

Exempt(cur, des) == FlipsEntry(cur, des) \/ JoinsGroup(cur, des) \/ CreatesDisabled(cur, des)
                    \/ ClearsAnonymous(cur, des) \/ des # Normalize(des)

Sending(q, d) == /\ q.commands = BuildPlan(q.read, q.effective) /\ References(q.effective)
                 /\ q.alone => q.read = Redacted(d)
Arrived(q, d) == Exempt(q.read, q.effective) \/ Verify(q.effective, Redacted(d))

Progress(q, d) == /\ q.pc # "done" => q.result = "none"
                  /\ q.pc = "send" => Sending(q, d)
                  /\ (q.pc = "verify" /\ q.alone) => Arrived(q, d)
                  /\ (q.result \in {"refused", "unverified"} /\ q.alone) => Exempt(q.read, q.effective)

\* What was promised keeps the control channel to the account of MCM.
Guarded(p) == p.kind = "update" => (~PassesGuard(p.base, p.desired) => Limited(p.promised))

PlansGuarded(ps) == \A i \in DOMAIN ps : Guarded(ps[i])
Progressing == \A r \in Request : Progress(req[r], db)

ConvergeInv == Normal(db) /\ Normal(file) /\ PlansGuarded(plans) /\ Progressing

LEMMA ProgressShaken ==
    ASSUME NEW q \in Running, NEW d, Progress(q, d), NEW e
    PROVE  Progress(Shaken(q), e)
<1>1. \A b \in BOOLEAN : LET s == [q EXCEPT !.alone = b] IN
        /\ s.pc = q.pc /\ s.effective = q.effective /\ s.commands = q.commands /\ s.read = q.read /\ s.result = q.result
        /\ s.alone = b
  BY DEF Running
<1>2. FALSE \in BOOLEAN
  OBVIOUS
<1> DEFINE s == [q EXCEPT !.alone = FALSE]
<1>3. /\ s.pc = q.pc /\ s.effective = q.effective /\ s.commands = q.commands /\ s.read = q.read /\ s.result = q.result
      /\ s.alone = FALSE
  BY <1>1, <1>2, Zenon
<1>4. Shaken(q) = IF q.pc \in {"idle", "done"} THEN q ELSE s
  BY DEF Shaken
<1> HIDE DEF s
<1>5. CASE q.pc \in {"idle", "done"}
  BY <1>4, <1>5 DEF Progress
<1>6. CASE q.pc \notin {"idle", "done"}
  BY <1>3, <1>4, <1>6 DEF Progress, Sending
<1> QED BY <1>5, <1>6

LEMMA ProgressPlain ==
    /\ \A q, d : (q.pc \notin {"send", "verify", "done"} /\ q.result = "none") => Progress(q, d)
    /\ \A q, d : (q.pc = "done" /\ q.result \notin {"refused", "unverified"}) => Progress(q, d)
BY DEF Progress

\* Plans are marked, and nothing the guard is about changes.
LEMMA MarkGuarded ==
    ASSUME NEW ps \in Seq(StoredPlan), PlansGuarded(ps), NEW i \in DOMAIN ps
    PROVE  PlansGuarded([ps EXCEPT ![i].consumed = TRUE]) /\ PlansGuarded([ps EXCEPT ![i].revision = "applied"])
<1>1. ps[i] \in StoredPlan /\ Guarded(ps[i])
  BY DEF PlansGuarded
<1>2. ASSUME NEW x, x.kind = ps[i].kind, x.base = ps[i].base, x.desired = ps[i].desired, x.promised = ps[i].promised
      PROVE  PlansGuarded([ps EXCEPT ![i] = x])
  <2>1. Guarded(x)
    BY <1>1, <1>2 DEF Guarded
  <2> QED BY <2>1 DEF PlansGuarded
<1>3. \A b : LET x == [ps[i] EXCEPT !.consumed = b] IN
        x.kind = ps[i].kind /\ x.base = ps[i].base /\ x.desired = ps[i].desired /\ x.promised = ps[i].promised
  BY <1>1 DEF StoredPlan
<1>4. LET x == [ps[i] EXCEPT !.revision = "applied"] IN
        x.kind = ps[i].kind /\ x.base = ps[i].base /\ x.desired = ps[i].desired /\ x.promised = ps[i].promised
  BY <1>1 DEF StoredPlan
<1>5. \A b : PlansGuarded([ps EXCEPT ![i] = [ps[i] EXCEPT !.consumed = b]])
  BY <1>2, <1>3
<1>6. PlansGuarded([ps EXCEPT ![i] = [ps[i] EXCEPT !.revision = "applied"]])
  BY <1>2, <1>4
<1>7. PlansGuarded([ps EXCEPT ![i] = [ps[i] EXCEPT !.consumed = TRUE]])
  BY <1>5, Zenon
<1>8. /\ [ps EXCEPT ![i].revision = "applied"] = [ps EXCEPT ![i] = [ps[i] EXCEPT !.revision = "applied"]]
      /\ [ps EXCEPT ![i].consumed = TRUE] = [ps EXCEPT ![i] = [ps[i] EXCEPT !.consumed = TRUE]]
  BY Zenon
<1> QED BY <1>6, <1>7, <1>8, Zenon

LEMMA AppendGuarded ==
    ASSUME NEW ps \in Seq(StoredPlan), PlansGuarded(ps), NEW p \in StoredPlan, Guarded(p)
    PROVE  PlansGuarded(Append(ps, p))
<1>1. \A i \in DOMAIN Append(ps, p) : i \notin DOMAIN ps => Append(ps, p)[i] = p
  BY AppendGrows
<1>2. \A i \in DOMAIN ps : Append(ps, p)[i] = ps[i]
  OBVIOUS
<1> QED BY <1>1, <1>2 DEF PlansGuarded

\* A step of one request that leaves the database alone.
LEMMA QuietProgress ==
    ASSUME DynSecInv, ConvergeInv, NEW r \in Request, NEW x, req' = [req EXCEPT ![r] = x],
           db' = db, file' = file, PlansGuarded(plans'), Progress(x, db)
    PROVE  ConvergeInv'
<1>1. \A q \in Request : req'[q] = IF q = r THEN x ELSE req[q]
  BY DEF DynSecInv, DynSecTypeOK
<1>2. \A q \in Request : Progress(req'[q], db')
  BY <1>1 DEF ConvergeInv, Progressing
<1>3. Progressing'
  BY <1>2 DEF Progressing
<1>4. Normal(db)' /\ Normal(file)'
  BY DEF ConvergeInv, Normal
<1> QED BY <1>3, <1>4 DEF ConvergeInv

LEMMA FailProgress ==
    ASSUME DynSecInv, ConvergeInv, NEW r \in Request, NEW why \in Result \ {"refused", "unverified"}, Fail(r, why),
           db' = db, file' = file, PlansGuarded(plans')
    PROVE  ConvergeInv'
<1> DEFINE x == [req[r] EXCEPT !.pc = "done", !.result = why]
<1>1. req[r] \in Running
  BY DEF DynSecInv, DynSecTypeOK
<1>2. x.pc = "done" /\ x.result = why
  BY <1>1 DEF Running
<1>3. req' = [req EXCEPT ![r] = x]
  BY DEF Fail
<1> HIDE DEF x
<1>4. Progress(x, db)
  BY <1>2, ProgressPlain
<1> QED BY <1>3, <1>4, QuietProgress

-----------------------------------------------------------------------------
(* Each action keeps ConvergeInv.                                          *)

LEMMA FailuresProgress ==
    ASSUME DynSecInv, ConvergeInv, NEW r \in Request,
           ReadFails(r) \/ SendFails(r) \/ ReadBackFails(r) \/ ConfigFails(r) \/ Consume(r)
    PROVE  ConvergeInv'
<1>1. CASE ReadFails(r) \/ SendFails(r) \/ ReadBackFails(r)
  <2>1. \E why \in Result \ {"refused", "unverified"} : Fail(r, why)
    BY <1>1 DEF ReadFails, SendFails, ReadBackFails, Result
  <2>2. db' = db /\ file' = file /\ PlansGuarded(plans')
    BY <1>1 DEF ReadFails, SendFails, ReadBackFails, ConvergeInv
  <2> QED BY <2>1, <2>2, FailProgress
<1>2. CASE ConfigFails(r)
  <2>1. "config" \in Result \ {"refused", "unverified"} /\ Fail(r, "config") /\ db' = db /\ file' = file /\ req[r].pc = "config"
    BY <1>2 DEF ConfigFails, Result
  <2>2. req[r].plan \in DOMAIN plans /\ plans \in Seq(StoredPlan)
    BY <2>1, PlanOf DEF DynSecInv, DynSecTypeOK
  <2>3. PlansGuarded(plans')
    <3>1. CASE UNCHANGED plans
      BY <3>1 DEF ConvergeInv
    <3>2. CASE plans' = [plans EXCEPT ![req[r].plan].revision = "applied"]
      BY <2>2, <3>2, MarkGuarded DEF ConvergeInv
    <3> QED BY <1>2, <3>1, <3>2 DEF ConfigFails
  <2> QED BY <2>1, <2>3, FailProgress
<1>3. CASE Consume(r)
  <2> DEFINE why == CASE plans[req[r].plan].consumed -> "consumed"
                      [] ~CheckControlChannel(req[r].read) -> "guard"
                      [] OTHER -> "ok"
  <2>1. req[r].pc = "consume" /\ db' = db /\ file' = file /\ Fail(r, why)
        /\ plans' = [plans EXCEPT ![req[r].plan].consumed = TRUE]
    BY <1>3 DEF Consume, ConsumeDynSecPlan
  <2>2. why \in Result \ {"refused", "unverified"}
    BY DEF Result
  <2>3. req[r].plan \in DOMAIN plans /\ plans \in Seq(StoredPlan)
    BY <2>1, PlanOf DEF DynSecInv, DynSecTypeOK
  <2> HIDE DEF why
  <2>4. PlansGuarded(plans')
    BY <2>1, <2>3, MarkGuarded, Zenon DEF ConvergeInv
  <2> QED BY <2>1, <2>2, <2>4, FailProgress
<1> QED BY <1>1, <1>2, <1>3

LEMMA IdleResult == Idle.result = "none"
<1>1. \A c, a, b, n, d : [pc |-> "idle", plan |-> n, effective |-> d, commands |-> c,
           read |-> d, alone |-> a, refused |-> b, result |-> "none"].result = "none"
  OBVIOUS
<1> QED BY <1>1, Zenon DEF Idle

LEMMA BeginApplyProgress ==
    ASSUME DynSecInv, ConvergeInv, NEW r \in Request, NEW p \in DOMAIN plans, BeginApply(r, p)
    PROVE  ConvergeInv'
<1>1. PICK d \in {plans[p].desired} \cup (Document \cap Resent(plans[p].desired)) :
        req' = [req EXCEPT ![r] = [Idle EXCEPT !.plan = p, !.effective = d,
                   !.pc = IF plans[p].revision = "none" THEN "read" ELSE "config"]]
  BY DEF BeginApply
<1> DEFINE stage == IF plans[p].revision = "none" THEN "read" ELSE "config"
           x == [Idle EXCEPT !.plan = p, !.effective = d, !.pc = stage]
<1>2. stage \in {"read", "config"}
  OBVIOUS
<1> HIDE DEF stage
<1>3. x.pc = stage /\ x.result = "none"
  <2>1. Idle \in Running /\ Idle.result = "none"
    BY IdleFacts, IdleResult
  <2> QED BY <2>1 DEF Running
<1>4. req' = [req EXCEPT ![r] = x]
  BY <1>1 DEF stage
<1> HIDE DEF x
<1>5. Progress(x, db)
  BY <1>2, <1>3, ProgressPlain
<1> QED BY <1>4, <1>5, QuietProgress DEF BeginApply, ConvergeInv

LEMMA ExecuteNothing == \A d \in Database : Execute(d, <<>>).db = d
<1> TAKE d \in Database
<1>1. RunFrom(StartOf(d), <<>>) = StartOf(d)
  BY RunNothing
<1>2. Execute(d, <<>>) = StartOf(d)
  BY <1>1, ExecuteIsRun
<1> QED BY <1>2, StartType

LEMMA ArrivedThen ==
    ASSUME NEW d \in Database, d = Normalize(d), NEW des \in Database, References(des), ~Exempt(Redacted(d), des)
    PROVE  Verify(des, Redacted(Execute(d, BuildPlan(Redacted(d), des)).db))
<1>1. /\ des = Normalize(des) /\ ~FlipsEntry(Redacted(d), des) /\ ~CreatesDisabled(Redacted(d), des)
      /\ ~ClearsAnonymous(Redacted(d), des)
  BY DEF Exempt
<1> QED BY <1>1, OutcomeVerified

LEMMA ReadCurrentProgress ==
    ASSUME DynSecInv, ConvergeInv, NEW r \in Request, ReadCurrent(r)
    PROVE  ConvergeInv'
<1> DEFINE plan == BuildPlan(ReadDatabase, req[r].effective)
<1>1. req[r].pc = "read" /\ db # NoDocument /\ UNCHANGED <<db, file, backend, plans, foreign>>
  BY DEF ReadCurrent
<1>2. req[r] \in Running /\ req[r].effective \in Database
  BY <1>1, PlanOf
<1>3. db \in Database /\ db = Normalize(db) /\ PlansGuarded(plans') /\ req[r].result = "none"
  BY <1>1 DEF DynSecInv, DynSecTypeOK, ConvergeInv, Normal, Progressing, Progress
<1>6. CASE ~Accepted(r, plan)
  <2>1. Fail(r, "conflict")
    BY <1>6 DEF ReadCurrent
  <2>2. "conflict" \in Result \ {"refused", "unverified"}
    BY DEF Result
  <2> QED BY <1>1, <1>3, <2>1, <2>2, FailProgress
<1>7. CASE Accepted(r, plan)
  <2> DEFINE stage == IF plan = <<>> THEN "verify" ELSE "send"
             x == [req[r] EXCEPT !.pc = stage, !.read = ReadDatabase, !.commands = plan, !.alone = TRUE]
  <2>1. req' = [req EXCEPT ![r] = x]
    BY <1>7 DEF ReadCurrent
  <2>2. stage \in {"verify", "send"} /\ (stage = "verify" => plan = <<>>)
    OBVIOUS
  <2>3. References(req[r].effective)
    BY <1>7 DEF Accepted, Validate
  <2>4. plan = BuildPlan(Redacted(db), req[r].effective)
    BY DEF ReadDatabase
  <2> HIDE DEF plan, stage
  <2>5. \A b \in BOOLEAN : LET y == [req[r] EXCEPT !.pc = stage, !.read = ReadDatabase, !.commands = plan, !.alone = b] IN
           y.pc = stage /\ y.effective = req[r].effective /\ y.commands = plan /\ y.read = ReadDatabase /\ y.result = req[r].result
    BY <1>2 DEF Running
  <2>6. TRUE \in BOOLEAN
    OBVIOUS
  <2>7. x.pc = stage /\ x.effective = req[r].effective /\ x.commands = plan /\ x.read = ReadDatabase /\ x.result = req[r].result
    BY <2>5, <2>6, Zenon
  <2> HIDE DEF x
  <2>8. stage = "verify" => Arrived(x, db)
    <3>1. plan = <<>> => Execute(db, plan).db = db
      BY <1>3, ExecuteNothing
    <3>2. ~Exempt(Redacted(db), req[r].effective) => Verify(req[r].effective, Redacted(Execute(db, plan).db))
      BY <1>2, <1>3, <2>3, <2>4, ArrivedThen
    <3> QED BY <2>2, <2>7, <3>1, <3>2 DEF Arrived, ReadDatabase
  <2>9. Sending(x, db)
    BY <2>3, <2>4, <2>7 DEF Sending, ReadDatabase
  <2>10. Progress(x, db)
    BY <1>3, <2>2, <2>7, <2>8, <2>9 DEF Progress
  <2> QED BY <1>1, <1>3, <2>1, <2>10, QuietProgress
<1> QED BY <1>6, <1>7

LEMMA ReadBackProgress ==
    ASSUME DynSecInv, ConvergeInv, NEW r \in Request, ReadBack(r)
    PROVE  ConvergeInv'
<1>1. req[r].pc = "verify" /\ db' = db /\ file' = file /\ plans' = plans
  BY DEF ReadBack
<1>2. req[r] \in Running /\ PlansGuarded(plans') /\ Progress(req[r], db)
  BY <1>1, PlanOf DEF ConvergeInv, Progressing
<1>3. CASE ~Verify(req[r].effective, ReadDatabase)
  <2> DEFINE x == [req[r] EXCEPT !.pc = "done", !.result = "unverified"]
  <2>1. req' = [req EXCEPT ![r] = x]
    BY <1>3 DEF ReadBack, Fail
  <2>2. x.pc = "done" /\ x.result = "unverified" /\ x.read = req[r].read /\ x.effective = req[r].effective /\ x.alone = req[r].alone
    BY <1>2 DEF Running
  <2> HIDE DEF x
  <2>3. req[r].alone => Exempt(req[r].read, req[r].effective)
    BY <1>1, <1>2, <1>3 DEF Progress, Arrived, ReadDatabase
  <2>4. Progress(x, db)
    BY <2>2, <2>3 DEF Progress
  <2> QED BY <1>1, <1>2, <2>1, <2>4, QuietProgress
<1>4. CASE Verify(req[r].effective, ReadDatabase)
  <2> DEFINE x == [req[r] EXCEPT !.pc = "consume", !.read = ReadDatabase]
  <2>1. req' = [req EXCEPT ![r] = x]
    BY <1>4 DEF ReadBack
  <2>2. x.pc = "consume" /\ x.result = req[r].result
    BY <1>2 DEF Running
  <2>3. req[r].result = "none"
    BY <1>1, <1>2 DEF Progress
  <2> HIDE DEF x
  <2>4. Progress(x, db)
    BY <2>2, <2>3, ProgressPlain
  <2> QED BY <1>1, <1>2, <2>1, <2>4, QuietProgress
<1> QED BY <1>3, <1>4

\* The database is written: every other request is disturbed.
LEMMA WriteProgress ==
    ASSUME DynSecInv, ConvergeInv, NEW r \in Request, Normal(db)', file' = file \/ file' = db', PlansGuarded(plans'),
           \A q \in Request : q # r => req'[q] = Shaken(req[q]), Progress(req'[r], db')
    PROVE  ConvergeInv'
<1>1. ASSUME NEW q \in Request, q # r PROVE Progress(req'[q], db')
  <2>1. req[q] \in Running /\ Progress(req[q], db)
    BY DEF DynSecInv, DynSecTypeOK, ConvergeInv, Progressing
  <2> QED BY <1>1, <2>1, ProgressShaken
<1>2. Progressing'
  BY <1>1 DEF Progressing
<1>3. Normal(file)'
  BY DEF ConvergeInv, Normal
<1> QED BY <1>2, <1>3 DEF ConvergeInv

\* A request that sends from the database it read finds the plan's outcome.
LEMMA SendResult ==
    ASSUME DynSecInv, NEW r \in Request, Send(r)
    PROVE  LET x == req'[r] IN
           /\ x.read = req[r].read /\ x.effective = req[r].effective /\ x.alone = req[r].alone
           /\ x.pc \in {"done", "verify"} /\ (x.pc = "verify" => x.result = "none")
           /\ x.result \in {"none", "timeout", "refused"}
           /\ x.result = "refused" => Execute(db, req[r].commands).refused
<1> DEFINE bad == Execute(db, req[r].commands).refused
<1> HIDE DEF bad
<1>1. req[r] \in Running
  BY DEF DynSecInv, DynSecTypeOK
<1>5. PICK stage, result :
         /\ req' = [Disturbed(r) EXCEPT ![r] = [@ EXCEPT !.refused = bad, !.pc = stage, !.result = result]]
         /\ stage \in {"done", "verify"} /\ (stage = "verify" => result = "none")
         /\ result \in {"none", "timeout", "refused"} /\ (result = "refused" => bad)
  <2>1. PICK answer \in Answers :
          req' = [Disturbed(r) EXCEPT ![r] =
                    [@ EXCEPT !.refused = bad,
                              !.pc = IF answer = "timeout" \/ (answer = "arrives" /\ bad) THEN "done" ELSE "verify",
                              !.result = IF answer = "timeout" THEN "timeout"
                                         ELSE IF answer = "arrives" /\ bad THEN "refused" ELSE "none"]]
    BY Zenon DEF Send, bad
  <2> DEFINE stage == IF answer = "timeout" \/ (answer = "arrives" /\ bad) THEN "done" ELSE "verify"
             result == IF answer = "timeout" THEN "timeout"
                       ELSE IF answer = "arrives" /\ bad THEN "refused" ELSE "none"
  <2>2. /\ stage \in {"done", "verify"} /\ (stage = "verify" => result = "none")
        /\ result \in {"none", "timeout", "refused"} /\ (result = "refused" => bad)
    OBVIOUS
  <2>3. req' = [Disturbed(r) EXCEPT ![r] = [@ EXCEPT !.refused = bad, !.pc = stage, !.result = result]]
    BY <2>1, Zenon
  <2> HIDE DEF stage, result
  <2> QED BY <2>2, <2>3
<1>6. DOMAIN Disturbed(r) = Request /\ Disturbed(r)[r] = req[r]
  BY Zenon DEF Disturbed
<1> DEFINE y == [req[r] EXCEPT !.refused = bad, !.pc = stage, !.result = result]
<1>8. y.pc = stage /\ y.result = result /\ y.read = req[r].read /\ y.effective = req[r].effective /\ y.alone = req[r].alone
  BY <1>1 DEF Running
<1>9. req' = [Disturbed(r) EXCEPT ![r] = y]
  BY <1>5, <1>6, Zenon
<1> HIDE DEF y
<1>10. req'[r] = y
  BY <1>6, <1>9
<1>11. /\ y.read = req[r].read /\ y.effective = req[r].effective /\ y.alone = req[r].alone
       /\ y.pc \in {"done", "verify"} /\ (y.pc = "verify" => y.result = "none")
       /\ y.result \in {"none", "timeout", "refused"} /\ (y.result = "refused" => bad)
  BY <1>5, <1>8
<1> QED BY <1>10, <1>11 DEF bad

LEMMA SendProgress ==
    ASSUME DynSecInv, ConvergeInv, NEW r \in Request, Send(r)
    PROVE  ConvergeInv'
<1>1. req[r].pc = "send" /\ file' = db' /\ plans' = plans
  BY DEF Send
<1>2. /\ db \in Database /\ req[r].commands \in Seq(Command) /\ db' = Execute(db, req[r].commands).db
      /\ \A q \in Request : q # r => req'[q] = Shaken(req[q])
  BY SendFacts
<1>3. db = Normalize(db) /\ PlansGuarded(plans') /\ Sending(req[r], db) /\ req[r].effective \in Database
  <2>1. db # NoDocument
    BY <1>2, DynSecAssumption
  <2> QED BY <1>1, <2>1, PlanOf DEF ConvergeInv, Normal, Progressing, Progress
<1>4. Normal(db)'
  BY <1>2, <1>3, ExecuteNormal DEF Normal
<1> DEFINE x == req'[r]
<1>5. /\ x.read = req[r].read /\ x.effective = req[r].effective /\ x.alone = req[r].alone
      /\ x.pc \in {"done", "verify"} /\ (x.pc = "verify" => x.result = "none")
      /\ x.result \in {"none", "timeout", "refused"}
      /\ x.result = "refused" => Execute(db, req[r].commands).refused
  BY SendResult
<1> HIDE DEF x
<1>6. ASSUME req[r].alone
      PROVE  /\ Execute(db, req[r].commands).refused => Exempt(x.read, x.effective)
             /\ Arrived(x, db')
  <2>1. /\ req[r].read = Redacted(db) /\ References(req[r].effective)
        /\ req[r].commands = BuildPlan(Redacted(db), req[r].effective)
    BY <1>3, <1>6 DEF Sending
  <2>2. Execute(db, req[r].commands).refused => Hampered(Redacted(db), req[r].effective)
    BY <1>2, <1>3, <2>1, OutcomeRefused
  <2>3. ~Exempt(Redacted(db), req[r].effective) => Verify(req[r].effective, Redacted(db'))
    BY <1>2, <1>3, <2>1, ArrivedThen
  <2>4. Hampered(Redacted(db), req[r].effective) => Exempt(Redacted(db), req[r].effective)
    BY DEF Hampered, Exempt
  <2> QED BY <1>5, <2>1, <2>2, <2>3, <2>4 DEF Arrived
<1>7. Progress(x, db')
  BY <1>5, <1>6 DEF Progress
<1> QED BY <1>1, <1>2, <1>3, <1>4, <1>7, WriteProgress DEF x

LEMMA ApplyConfigProgress ==
    ASSUME DynSecInv, ConvergeInv, NEW r \in Request, ApplyConfig(r)
    PROVE  ConvergeInv'
<1>1. /\ req[r].pc = "config" /\ plans' = [plans EXCEPT ![req[r].plan].revision = "applied"]
      /\ db' = file /\ file' = file /\ req' = [Disturbed(r) EXCEPT ![r].pc = "read"]
  BY DEF ApplyConfig
<1>2. req[r] \in Running /\ req[r].plan \in DOMAIN plans /\ plans \in Seq(StoredPlan) /\ Progress(req[r], db)
  BY <1>1, PlanOf DEF DynSecInv, DynSecTypeOK, ConvergeInv, Progressing
<1>3. PlansGuarded(plans') /\ Normal(db)'
  BY <1>1, <1>2, MarkGuarded DEF ConvergeInv, Normal
<1>6. /\ DOMAIN Disturbed(r) = Request /\ Disturbed(r)[r] = req[r]
      /\ \A q \in Request : q # r => Disturbed(r)[q] = Shaken(req[q])
  BY Zenon DEF Disturbed, Shaken
<1> DEFINE y == [req[r] EXCEPT !.pc = "read"]
<1>8. y.pc = "read" /\ y.result = req[r].result
  BY <1>2 DEF Running
<1>9. req' = [Disturbed(r) EXCEPT ![r] = y]
  BY <1>1, <1>6, Zenon
<1> HIDE DEF y
<1>10. req'[r] = y /\ \A q \in Request : q # r => req'[q] = Shaken(req[q])
  BY <1>6, <1>9
<1>11. req[r].result = "none"
  BY <1>1, <1>2 DEF Progress
<1>12. Progress(req'[r], db')
  BY <1>8, <1>10, <1>11, ProgressPlain
<1> QED BY <1>1, <1>3, <1>10, <1>12, WriteProgress

LEMMA ForeignProgress ==
    ASSUME DynSecInv, ConvergeInv, NEW m \in Foreign, ForeignCommand(m)
    PROVE  ConvergeInv'
<1>1. db # NoDocument /\ db' = Execute(db, <<m>>).db /\ file' = db' /\ plans' = plans
  BY DEF ForeignCommand
<1>2. db \in Database /\ <<m>> \in Seq(Command) /\ db = Normalize(db)
  BY <1>1, DynSecAssumption DEF DynSecInv, DynSecTypeOK, ConvergeInv, Normal
<1>3. Normal(db)' /\ Normal(file)' /\ PlansGuarded(plans')
  BY <1>1, <1>2, ExecuteNormal DEF Normal, ConvergeInv
<1>4. req' = [q \in Request |-> Shaken(req[q])]
  BY Zenon DEF ForeignCommand, Shaken
<1>5. ASSUME NEW q \in Request PROVE Progress(req'[q], db')
  <2>1. req[q] \in Running /\ Progress(req[q], db) /\ req'[q] = Shaken(req[q])
    BY <1>4 DEF DynSecInv, DynSecTypeOK, ConvergeInv, Progressing
  <2> QED BY <2>1, ProgressShaken
<1>6. Progressing'
  BY <1>5 DEF Progressing
<1> QED BY <1>3, <1>6 DEF ConvergeInv

LEMMA CrashProgress ==
    ASSUME ConvergeInv, Crash
    PROVE  ConvergeInv'
<1>1. req' = [r \in Request |-> Idle] /\ UNCHANGED <<db, file, plans>>
  BY DEF Crash
<1>2. Progress(Idle, db')
  BY IdleFacts, IdleResult, ProgressPlain
<1>3. \A r \in Request : req'[r] = Idle
  BY <1>1
<1>4. Progressing'
  BY <1>2, <1>3 DEF Progressing
<1> QED BY <1>1, <1>4 DEF ConvergeInv, Normal

LEMMA ReferencesNormal ==
    ASSUME NEW d \in Database, References(d)
    PROVE  References(Normalize(d))
<1> DEFINE n == Normalize(d)
<1>1. /\ DOMAIN n.clients = DOMAIN d.clients
      /\ \A c \in DOMAIN d.clients : n.clients[c].groups = {g \in DOMAIN d.groups : c \in d.groups[g].clients}
      /\ n.groups = d.groups /\ n.roles = d.roles /\ n.anonymous = d.anonymous
      /\ RolesOf(n.clients) = RolesOf(d.clients)
  BY NormalizeParts
<1>2. \A c \in DOMAIN d.clients : n.clients[c].roles = d.clients[c].roles
  BY <1>1 DEF RolesOf
<1> HIDE DEF n
<1>3. References(n)
  BY <1>1, <1>2 DEF References
<1> QED BY <1>3 DEF n

LEMMA PreviewProgress ==
    ASSUME DynSecInv, ConvergeInv, NEW d \in Document, PreviewDynSec(d)
    PROVE  ConvergeInv'
<1> DEFINE desired == Normalize(d)
           plan == BuildPlan(ReadDatabase, desired)
           p == [kind |-> "update", base |-> dynsecStateHash(db),
                             commands |-> maskDynSecPlan(plan), desired |-> Redacted(desired),
                             revision |-> "none", over |-> "none", generation |-> 0, consumed |-> FALSE,
                             promised |-> Redacted(Execute(db, plan).db)]
<1>1. /\ db # NoDocument /\ plans' = Append(plans, p) /\ CheckControlChannel(desired) /\ Validate(d)
      /\ UNCHANGED <<db, file, req>>
  BY Zenon DEF PreviewDynSec, InsertDynSecPlan
<1>2. db \in Database /\ d \in Database /\ plans \in Seq(StoredPlan)
  BY <1>1, DynSecAssumption DEF DynSecInv, DynSecTypeOK
<1>3. desired \in Database /\ Redacted(desired) \in Database /\ ReadDatabase \in Database /\ Normalize(desired) = desired
  BY <1>2, DocumentViews, NormalizeParts DEF ReadDatabase
<1>r. References(desired)
  BY <1>1, <1>2, ReferencesNormal DEF Validate
<1> HIDE DEF desired
<1>4. plan \in Seq(Command) /\ plan = BuildPlan(Redacted(db), desired)
  BY <1>3, BuildPlanType DEF ReadDatabase
<1> HIDE DEF plan
<1>5. maskDynSecPlan(plan) \in Seq(Command)
  BY <1>4, MaskType
<1>6. Execute(db, plan).db \in Database /\ Redacted(Execute(db, plan).db) \in Database
  BY <1>2, <1>4, ExecuteType, DocumentViews DEF Accumulator
<1>7. dynsecStateHash(db) = Redacted(db) /\ Redacted(db) \in Database
  BY <1>2, DocumentViews DEF dynsecStateHash
<1>8. dynsecStateHash(db) \in Database \cup {NoDocument}
  BY <1>7
<1>9. /\ p \in StoredPlan /\ p.kind = "update" /\ p.base = dynsecStateHash(db)
      /\ p.promised = Redacted(Execute(db, plan).db) /\ p.desired = Redacted(desired)
  BY <1>3, <1>5, <1>6, <1>8, UpdateRecord, ZenonT(60)
<1> HIDE DEF p
<1>11. Guarded(p)
  <2>1. FlipsControl(Redacted(db), Redacted(desired)) <=> FlipsControl(Redacted(db), desired)
    BY <1>3, RedactedParts DEF FlipsControl
  <2>2. ClearsAnonymous(Redacted(db), Redacted(desired)) <=> ClearsAnonymous(Redacted(db), desired)
    BY <1>3, RedactedParts DEF ClearsAnonymous
  <2>3. Barred(Redacted(desired)) <=> Barred(desired)
    BY <1>3, LimitedRedacted
  <2>4. PassesGuard(Redacted(db), Redacted(desired)) <=> PassesGuard(Redacted(db), desired)
    BY <2>1, <2>2, <2>3, Zenon DEF PassesGuard
  <2>5. ~PassesGuard(Redacted(db), desired) => Limited(Execute(db, plan).db)
    BY <1>1, <1>2, <1>3, <1>r, <1>4, OutcomeLimited
  <2>6. Limited(Redacted(Execute(db, plan).db)) <=> Limited(Execute(db, plan).db)
    BY <1>6, LimitedRedacted
  <2> QED BY <1>7, <1>9, <2>4, <2>5, <2>6 DEF Guarded
<1>12. PlansGuarded(plans')
  BY <1>1, <1>2, <1>9, <1>11, AppendGuarded DEF ConvergeInv
<1> QED BY <1>1, <1>12 DEF ConvergeInv, Normal, Progressing

-----------------------------------------------------------------------------
(* Adoption, the start, and the last two theorems.                         *)

LEMMA AdoptedNormal ==
    ASSUME NEW anonymous \in BOOLEAN, NEW password
    PROVE  LET written == [buildAdoptedDocument(anonymous, password) EXCEPT !.anonymous = NoGroup]
           IN  written = Normalize(written)
<1> DEFINE roleOf(c) == IF c = Management THEN ManagementRole ELSE UserRole
           secretOf(c) == IF c = Management THEN ManagementPassword ELSE password
           rec(c, b) == [roles |-> {roleOf(c)}, groups |-> {}, disabled |-> b, password |-> secretOf(c)]
           CC(b) == [c \in {Management, User} |-> rec(c, b)]
           G == IF anonymous THEN [g \in {AnonymousGroup} |-> [roles |-> {AnonymousRole}, clients |-> {}]] ELSE EmptyMap
           R == WithKey(migrateACLToDynsec(anonymous), ManagementRole, dynsecACLsForRule(ControlTopic, "readwrite"))
           A == IF anonymous THEN AnonymousGroup ELSE NoGroup
<1>1. buildAdoptedDocument(anonymous, password) = Doc(CC(FALSE), G, R, FALSE, A)
  BY Zenon DEF buildAdoptedDocument, Doc
<1>2. \A g \in DOMAIN G : G[g].clients = {}
  BY DEF EmptyMap
<1> HIDE DEF G, R, A
<1>3. ASSUME NEW b PROVE Enrolled(CC(b), G) = CC(b)
  <2>1. \A c : {g \in DOMAIN G : c \in G[g].clients} = {}
    BY <1>2
  <2>2. \A c : [rec(c, b) EXCEPT !.groups = {}] = rec(c, b)
    OBVIOUS
  <2> HIDE DEF rec
  <2>3. Enrolled(CC(b), G) = [c \in {Management, User} |-> [rec(c, b) EXCEPT !.groups = {g \in DOMAIN G : c \in G[g].clients}]]
    BY DEF Enrolled
  <2>4. \A c : [rec(c, b) EXCEPT !.groups = {g \in DOMAIN G : c \in G[g].clients}] = rec(c, b)
    BY <2>1, <2>2, Zenon
  <2> QED BY <2>3, <2>4, Zenon
<1> HIDE DEF CC
<1>4. \A b, o : [Doc(CC(b), G, R, o, A) EXCEPT !.anonymous = NoGroup] = Doc(CC(b), G, R, o, NoGroup)
  BY DEF Doc
<1>5. \A b, o : Normalize(Doc(CC(b), G, R, o, NoGroup)) = Doc(CC(b), G, R, o, NoGroup)
  BY <1>3, DocViews
<1>6. /\ [Doc(CC(FALSE), G, R, FALSE, A) EXCEPT !.anonymous = NoGroup] = Doc(CC(FALSE), G, R, FALSE, NoGroup)
      /\ Normalize(Doc(CC(FALSE), G, R, FALSE, NoGroup)) = Doc(CC(FALSE), G, R, FALSE, NoGroup)
  BY <1>4, <1>5, Zenon
<1> DEFINE bare == Doc(CC(FALSE), G, R, FALSE, NoGroup)
<1>7. [buildAdoptedDocument(anonymous, password) EXCEPT !.anonymous = NoGroup] = bare
  BY <1>1, <1>6, Zenon
<1>8. bare = Normalize(bare)
  BY <1>6, Zenon
<1> HIDE DEF bare
<1> QED BY <1>7, <1>8, Zenon

LEMMA AdoptProgress ==
    ASSUME DynSecInv, ConvergeInv, AdoptDynSec
    PROVE  ConvergeInv'
<1>t. adopting \subseteq Adoption /\ plans \in Seq(StoredPlan)
  BY DEF DynSecInv, DynSecTypeOK
<1>1. CASE BuildAdopted
  BY <1>1 DEF BuildAdopted, ConvergeInv, Normal, Progressing
<1>2. ASSUME NEW a \in adopting, WriteAdopted(a) PROVE ConvergeInv'
  <2>1. UNCHANGED <<db, plans, req>> /\ file' = [Adopted(a) EXCEPT !.anonymous = NoGroup]
    BY <1>2 DEF WriteAdopted, writeDynsecDatabase
  <2>2. a.anonymous \in BOOLEAN
    BY <1>t DEF Adoption
  <2>3. Normal(file)'
    BY <2>1, <2>2, AdoptedNormal DEF Normal, Adopted
  <2> QED BY <2>1, <2>3 DEF ConvergeInv, Normal, Progressing
<1>3. ASSUME NEW a \in adopting, StoreAdopted(a) PROVE ConvergeInv'
  <2>1. PICK p \in StoredPlan : p.kind = "adopt" /\ plans' = Append(plans, p)
    BY <1>3, StoredAdoption
  <2>2. Guarded(p)
    BY <2>1 DEF Guarded
  <2>3. PlansGuarded(plans')
    BY <1>t, <2>1, <2>2, AppendGuarded DEF ConvergeInv
  <2>4. UNCHANGED <<db, file, req>>
    BY <1>3 DEF StoreAdopted
  <2> QED BY <2>3, <2>4 DEF ConvergeInv, Normal, Progressing
<1>4. ASSUME NEW a \in adopting, AdoptFails(a) PROVE ConvergeInv'
  BY <1>4 DEF AdoptFails, ConvergeInv, Normal, Progressing
<1> QED BY <1>1, <1>2, <1>3, <1>4 DEF AdoptDynSec

LEMMA ConvergeStart == DynSecInit => ConvergeInv
<1> SUFFICES ASSUME DynSecInit PROVE ConvergeInv
  OBVIOUS
<1>1. /\ plans = <<>> /\ req = [r \in Request |-> Idle] /\ file = db
      /\ db \in Start \/ db = NoDocument
  BY DEF DynSecInit
<1>2. Normal(db) /\ Normal(file)
  BY <1>1, DynSecAssumption DEF Normal
<1>3. PlansGuarded(plans)
  BY <1>1 DEF PlansGuarded
<1>4. Progress(Idle, db)
  BY IdleFacts, IdleResult, ProgressPlain
<1>5. \A r \in Request : req[r] = Idle
  BY <1>1
<1>6. Progressing
  BY <1>4, <1>5 DEF Progressing
<1> QED BY <1>2, <1>3, <1>6 DEF ConvergeInv

\* ConvergeInv is inductive relative to DynSecInv.
LEMMA ConvergeStep == DynSecInv /\ ConvergeInv /\ [DynSecNext]_dynsecVars => ConvergeInv'
<1> SUFFICES ASSUME DynSecInv, ConvergeInv, [DynSecNext]_dynsecVars PROVE ConvergeInv'
  OBVIOUS
<1>1. CASE \E d \in Document : PreviewDynSec(d)
  BY <1>1, PreviewProgress
<1>2. CASE AdoptDynSec
  BY <1>2, AdoptProgress
<1>3. CASE \E r \in Request, p \in DOMAIN plans : BeginApply(r, p)
  BY <1>3, BeginApplyProgress
<1>4. ASSUME NEW r \in Request, ApplyStep(r) PROVE ConvergeInv'
  BY <1>4, ApplyConfigProgress, ReadCurrentProgress, FailuresProgress, SendProgress, ReadBackProgress DEF ApplyStep
<1>5. CASE \E m \in Foreign : ForeignCommand(m)
  BY <1>5, ForeignProgress
<1>6. CASE Crash
  BY <1>6, CrashProgress
<1>7. CASE UNCHANGED dynsecVars
  BY <1>7 DEF dynsecVars, ConvergeInv, Normal, Progressing
<1> QED BY <1>1, <1>2, <1>3, <1>4, <1>5, <1>6, <1>7 DEF DynSecNext, Operator

LEMMA ConvergeInvariant == DynSecSpec => [](DynSecInv /\ ConvergeInv)
BY DynSecStart, DynSecStep, ConvergeStart, ConvergeStep, PTL DEF DynSecSpec

\* plan.go, service.go: an undisturbed plan without one of the five named shapes
\* turns the database into the document, and is neither refused nor unverified.
THEOREM PlansConverge == DynSecSpec => []PlanConverges
<1>1. ConvergeInv => PlanConverges
  BY DEF ConvergeInv, Progressing, Progress, Exempt, PlanConverges
<1> QED BY <1>1, ConvergeInvariant, PTL

\* What a request does alone keeps the control channel to the account of MCM.
KeepsChannel(r) ==
    (req[r].pc = "send" /\ req[r].alone /\ db' # db /\ req'[r].pc # "send" /\ foreign' = foreign
       /\ ~PassesGuard(req[r].read, plans[req[r].plan].desired))
       => (Limited(db) => Limited(db'))

\* One step never opens the control channel.
LEMMA ChannelStep ==
    ASSUME DynSecInv, ConvergeInv, [DynSecNext]_dynsecVars, NEW r \in Request
    PROVE  KeepsChannel(r)
<1> SUFFICES ASSUME req[r].pc = "send", req[r].alone, db' # db, req'[r].pc # "send", foreign' = foreign,
                    ~PassesGuard(req[r].read, plans[req[r].plan].desired)
             PROVE  Limited(db')
  BY DEF KeepsChannel
<1>1. Redacted(db') = plans[req[r].plan].promised
  BY ReviewedStep DEF SentAsReviewed
<1>2. /\ req[r].plan \in DOMAIN plans /\ plans[req[r].plan].kind = "update"
      /\ Redacted(db) = plans[req[r].plan].base
  BY PlanOf DEF DynSecInv, RequestsKept, RequestOK
<1>3. req[r].read = Redacted(db)
  BY DEF ConvergeInv, Progressing, Progress, Sending
<1>4. Guarded(plans[req[r].plan])
  BY <1>2 DEF ConvergeInv, PlansGuarded
<1>5. Limited(Redacted(db'))
  BY <1>1, <1>2, <1>3, <1>4 DEF Guarded
<1>6. db' \in Database
  <2>1. DynSecInv'
    BY DynSecStep
  <2>2. db # NoDocument /\ backend # "file"
    BY DEF DynSecInv, RequestsKept, RequestOK, FilesKept
  <2>3. db' # NoDocument
    <3>1. backend' # "file"
      BY <2>2 DEF DynSecNext, Operator, PreviewDynSec, AdoptDynSec, BuildAdopted, WriteAdopted,
           StoreAdopted, AdoptFails, BeginApply, ApplyStep, ApplyConfig, ConfigFails, ReadCurrent,
           ReadFails, Send, SendFails, ReadBack, ReadBackFails, Consume, ForeignCommand, Crash, dynsecVars
    <3> QED BY <2>1, <3>1 DEF DynSecInv, FilesKept
  <2> QED BY <2>1, <2>3 DEF DynSecInv, DynSecTypeOK
<1> QED BY <1>5, <1>6, LimitedRedacted

\* dynsec.go, guard.go: no apply that runs alone takes the control channel from
\* the account of MCM or gives it to anybody else, whatever document it carried
\* and whichever of its commands the plugin refused.
THEOREM ControlChannelKept == DynSecSpec => ChannelStaysLimited
<1>1. DynSecInv /\ ConvergeInv /\ [DynSecNext]_dynsecVars => [\A r \in Request : KeepsChannel(r)]_dynsecVars
  BY ChannelStep
<1>2. DynSecSpec => [][\A r \in Request : KeepsChannel(r)]_dynsecVars
  BY <1>1, ConvergeInvariant, PTL DEF DynSecSpec
<1> QED BY <1>2 DEF ChannelStaysLimited, KeepsChannel
=============================================================================
