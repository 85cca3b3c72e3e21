------------------------------ MODULE AclFiles ------------------------------
(***************************************************************************)
(* The ACL files of the broker: the broker-wide one and one for each       *)
(* listener with rules of its own.  An operator edits rules and users,     *)
(* adopts a file he wrote by hand (POST /api/v1/acls/source/adopt) and     *)
(* deploys; the deploy renders the managed rules, composes them into the   *)
(* adopted source of the path and refuses to drop access MCM can neither   *)
(* reproduce nor attribute (internal/deploy/service.go).                   *)
(*                                                                         *)
(* The mutation lock makes each edit and each apply one step with respect  *)
(* to rules and users; the flow of an apply, its files and its rollback    *)
(* are the module Deploy.  The only mutation without the lock, the         *)
(* adoption, is one statement.                                             *)
(***************************************************************************)
EXTENDS AclDocument

CONSTANTS MaxRules,     \* bound on the stored rules
          Pool,         \* the rules an operator asks for
          Bodies,       \* the files an operator writes by hand
          Service,      \* the broker's service account
          Level, Depth, \* the levels of a topic, and bound on their number
          MaxOps        \* bound on the operator's steps

VARIABLES rules,        \* acl_rules: the rows in the order of their ids
          enabled,      \* mqtt_users: the enabled usernames
          stored,       \* mqtt_users: the usernames, enabled or not
          sources,      \* acl_sources: path -> adopted lines, or NoSource
          files,         \* path -> lines of the file, <<>> when there is none
          owned,        \* the listener files MCM wrote
          ops           \* steps taken, for the bound

aclVars == <<rules, enabled, stored, sources, files, owned, ops>>

NoSource == <<Line("none", "", "", <<>>)>>
Broker == ""                                \* the path of the broker-wide file
Paths == {Broker} \cup Range(ListenerIds)   \* ListenerACLPath: one path for each listener id

\* The topics a client may ask for.
Topics == UNION {[1..n -> Level] : n \in 1..Depth}

\* Everybody a rule may be evaluated for, and the filters that gives.
Everyone == [user : {""} \cup (Range(Principals) \ {Service}) \cup {r.who : r \in Pool}, client : {""}]
Filters == {ruleFilter(r, id) : r \in {q \in Pool : ValidateRule(q)}, id \in Everyone}

\* The rules are records of the six fields, and there are topics for every
\* filter: each level that is no wildcard, and one that no filter names.
Comparable ==
  /\ \A r \in Pool : r \in [sel : {r.sel}, who : {r.who}, scope : {r.scope}, listener : {r.listener},
                            filter : {r.filter}, perm : {r.perm}]
  /\ Filters \subseteq Seq(Level \cup {"+", "#"})
  /\ Depth \in Nat /\ Depth >= 3 /\ \A f \in Filters : 1 <= Len(f) /\ Len(f) <= Depth
  /\ \E w \in Level \ {"", "+", "#"} : \A f \in Filters : w \notin Range(f)

ASSUME TopicsAssumption == Comparable

-----------------------------------------------------------------------------
(* Reading the store *)

ListRules == rules

\* User rules whose principal is not an enabled user.
FindOrphanRules == {r \in Range(ListRules) : r.sel = "user" /\ r.who \notin enabled}

serviceUserACL ==
  <<[sel |-> "", who |-> Service, scope |-> "", listener |-> "", filter |-> <<"#">>, perm |-> "read"]>>

\* The active rules of a path: splitRulesByScope without the orphans.
splitRulesByScope(path) ==
  SelectSeq(ListRules, LAMBDA r : /\ ~(IsUserScoped(r) /\ r \in FindOrphanRules)
                                  /\ path = IF IsListenerScoped(r) THEN r.listener ELSE Broker)

adoptedACLSourceForPath(path) == sources[path]

\* The paths a render writes: the broker-wide file always, the file of a
\* listener only while it owns active rules.
RenderedPaths == {Broker} \cup {p \in Paths \ {Broker} : splitRulesByScope(p) # <<>>}

renderConfig(path) ==
  LET managed == splitRulesByScope(path) \o serviceUserACL
      source == adoptedACLSourceForPath(path)
  IN IF source = NoSource THEN RenderACLFile(managed)
     ELSE RenderDocument(ComposeACLDocument(ParseACLDocument(source), managed))

knownPrincipals == stored \cup {Service} \cup {r.who : r \in {x \in Range(ListRules) : IsUserScoped(x)}}

baseCarriesACLContent(doc) == \E i \in DOMAIN doc : doc[i].kind \in {"user", "topic", "pattern"}

\* What the apply of the broker-wide file would drop and may not.
blockingACLEntries(base, next) ==
  {k \in MissingSemanticEntries(base, next) :
     \/ k.kind = "unknown" /\ baseCarriesACLContent(base)
     \/ k.kind = "topic" /\ k.who # "" /\ k.who \notin knownPrincipals}

-----------------------------------------------------------------------------
(* The operator's steps *)

Counted == ops < MaxOps /\ ops' = ops + 1

CreateRule(r) ==
  /\ Counted /\ Len(rules) < MaxRules /\ ValidateRule(r)
  /\ rules' = Append(rules, Normalize(r))
  /\ UNCHANGED <<enabled, stored, sources, files, owned>>

UpdateRule(i, r) ==
  /\ Counted /\ ValidateRule(r)
  /\ rules' = [rules EXCEPT ![i] = Normalize(r)]
  /\ UNCHANGED <<enabled, stored, sources, files, owned>>

DeleteRule(i) ==
  /\ Counted
  /\ rules' = RemoveAt(rules, i)
  /\ UNCHANGED <<enabled, stored, sources, files, owned>>

DisableUser(n) ==
  /\ Counted /\ n \in enabled
  /\ enabled' = enabled \ {n}
  /\ UNCHANGED <<rules, stored, sources, files, owned>>

DeleteUser(n) ==
  /\ Counted /\ n \in stored
  /\ stored' = stored \ {n} /\ enabled' = enabled \ {n}
  /\ UNCHANGED <<rules, sources, files, owned>>

\* POST /api/v1/acls/source/adopt without a body: the file on disk is taken.
handleAdoptSource(path) ==
  /\ Counted /\ files[path] # <<>>
  /\ sources' = [sources EXCEPT ![path] = files[path]]
  /\ UNCHANGED <<rules, enabled, stored, files, owned>>

\* The apply looks at what it would drop from the broker-wide file only,
\* writes the files of the render and removes the files MCM wrote for
\* listeners that own no rules any more.
Apply ==
  /\ Counted
  /\ blockingACLEntries(ParseACLDocument(files[Broker]), ParseACLDocument(renderConfig(Broker))) = {}
  /\ files' = [p \in Paths |-> CASE p \in RenderedPaths -> renderConfig(p)
                                [] p \in owned \ RenderedPaths -> <<>>
                                [] OTHER -> files[p]]
  /\ owned' = RenderedPaths \ {Broker}
  /\ UNCHANGED <<rules, enabled, stored, sources>>

\* The operator edits a file by hand.
EditFile(path, body) ==
  /\ Counted /\ files[path] # body
  /\ files' = [files EXCEPT ![path] = body]
  /\ UNCHANGED <<rules, enabled, stored, sources, owned>>

AclInit ==
  /\ rules = <<>>
  /\ stored = Range(Principals) \ {Service} /\ enabled = stored
  /\ sources = [p \in Paths |-> NoSource]
  /\ \E b \in Bodies : files = [p \in Paths |-> IF p = Broker THEN b ELSE <<>>]
  /\ owned = {} /\ ops = 0

AclNext ==
  \/ \E r \in Pool : CreateRule(r) \/ \E i \in DOMAIN rules : UpdateRule(i, r)
  \/ \E i \in DOMAIN rules : DeleteRule(i)
  \/ \E n \in stored : DisableUser(n) \/ DeleteUser(n)
  \/ \E p \in Paths : handleAdoptSource(p) \/ \E b \in Bodies : EditFile(p, b)
  \/ Apply

AclSpec == AclInit /\ [][AclNext]_aclVars

-----------------------------------------------------------------------------
(* Questions an operator asks *)

\* The rules the simulator looks at: those of the scope it is asked about.
handleSimulate(path) ==
  {r \in Range(ListRules) : path = IF IsListenerScoped(r) THEN r.listener ELSE Broker}

\* The rules the effective view of a path looks at: those of the listener,
\* and every rule there is for the broker-wide file.
handleEffective(path) ==
  {r \in Range(ListRules) : path # Broker => IsListenerScoped(r) /\ r.listener = path}

\* The anonymous client, the enabled users and the principals of the rules.
identities ==
  {[user |-> n, client |-> ""] :
     n \in {""} \cup enabled \cup {r.who : r \in {x \in Range(ListRules) : IsUserScoped(x)}}}

-----------------------------------------------------------------------------
(* Properties *)

\* The file a render gives, read line by line as Mosquitto reads it, grants
\* exactly the access of the adopted source, of the rules of its path that
\* belong to no user or to an enabled one, and of the service account: no
\* rule lands in the section of another principal, none is lost, a disabled
\* or deleted user keeps none, and the lines of the source keep their order
\* (ComposeACLDocument, "keeps every original line verbatim").  Adopting
\* that file and rendering again changes nothing.
ComposedFaithful ==
  \A p \in Paths : \E lines \in {renderConfig(p)} :
    LET granted == {r \in Range(rules) : /\ p = IF r.scope = "listener" THEN r.listener ELSE Broker
                                         /\ r.sel = "user" => r.who \in enabled}
        kept == IF sources[p] = NoSource THEN <<>> ELSE sources[p]
    IN /\ SemanticKeys(ParseACLDocument(lines)) =
            {managedRuleKey(r) : r \in granted \cup Range(serviceUserACL)} \cup SemanticKeys(ParseACLDocument(kept))
       /\ FoldLeft(LAMBDA n, l : IF n < Len(kept) /\ l = kept[n + 1] THEN n + 1 ELSE n, 0, lines) = Len(kept)
       /\ RenderDocument(ComposeACLDocument(ParseACLDocument(lines), splitRulesByScope(p) \o serviceUserACL))
            = lines

\* No topic is the empty string, so that a deny of "+/#" leaves nothing of a
\* grant of "#", nor one of "/+/#" or "+/+/#" of a grant of "/#".  FilterCovers,
\* which "reports whether every topic matched by grantFilter is also matched by
\* denyFilter" (effective.go), does not see it.
LeavesOnlyEmpty(d, g) ==
  \/ d = <<"+", "#">> /\ g = <<"#">>
  \/ d \in {<<"", "+", "#">>, <<"+", "+", "#">>} /\ g = <<"", "#">>

\* The topics on which the simulator, asked about a path, allows an identity
\* an access that a grant speaks of.
AllowedOn(path, id, g) ==
  {t \in Topics : \E a \in {"read", "write"} :
     /\ PermissionGrants(g.perm, a)
     /\ TopicMatchesFilter(g.filter, t)
     /\ EffectivePermission(handleSimulate(path), id, t, a)}

\* The effective view (handleEffective) and the simulator (handleSimulate)
\* agree as far as they look at the same rules: a grant the view marks as
\* denied (EffectiveGrants, FilterCovers) is allowed on no topic it matches
\* when the deny rules the view looks at are all of that file, and a grant of
\* the file with a well-formed filter that the view leaves open is allowed on
\* some topic, unless several deny rules share the work (EffectivePermission).
DeniedMeansRefused ==
  \A p \in Paths : \A id \in identities : \A g \in EffectiveGrants(handleEffective(p), id) :
    /\ g.denied /\ (\A d \in handleEffective(p) : d.perm = "deny" => d \in handleSimulate(p))
         => AllowedOn(p, id, g) = {}
    /\ (/\ ~g.denied /\ ValidateTopicFilter(g.filter)
        /\ \E r \in applicableRules(handleSimulate(p), id) : r.perm = g.perm /\ ruleFilter(r, id) = g.filter
        /\ \A d, e \in handleSimulate(p) : d.perm = "deny" /\ e.perm = "deny" => d = e
        /\ \A d \in handleSimulate(p) : d.perm = "deny" => ~LeavesOnlyEmpty(ruleFilter(d, id), g.filter))
         => AllowedOn(p, id, g) # {}

\* "returns, per ACL file and per identity, the grants that apply and the
\* verdict the deny rules have on them" (docs/acl.md): a grant the view of a
\* file marks as denied is refused by the simulator asked about that file.
\* The view of the broker-wide file looks at the deny rules of the listeners
\* too (handleEffective), so that this does not hold.
ViewOfTheFile ==
  \A p \in Paths : \A id \in identities : \A g \in EffectiveGrants(handleEffective(p), id) :
    g.denied => AllowedOn(p, id, g) = {}
=============================================================================
