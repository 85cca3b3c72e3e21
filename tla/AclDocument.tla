---------------------------- MODULE AclDocument ----------------------------
(***************************************************************************)
(* The pure part of access control: ACL rules and how they are validated   *)
(* and normalised (internal/acl/acl.go), how they are evaluated            *)
(* (internal/acl/effective.go), how an ACL file is rendered and read       *)
(* (internal/mosquitto/acl.go) and how managed rules are composed into an  *)
(* adopted file (internal/mosquitto/acldoc.go).                            *)
(*                                                                         *)
(* A rule is [sel, who, scope, listener, filter, perm]; "" is Go's empty   *)
(* string.  A topic or a filter is the sequence of its levels.  A line of  *)
(* a file is [kind, who, perm, filter], an entry of a parsed document is   *)
(* its line, a topic line with the principal of its section in who.        *)
(***************************************************************************)
EXTENDS Integers, Sequences, FiniteSets, SequencesExt

CONSTANTS Principals,   \* the MQTT usernames, in lexicographic order
          ListenerIds   \* the listener ids, in lexicographic order

Selectors == {"user", "anonymous", "pattern"}
Permissions == {"read", "write", "readwrite", "deny"}

-----------------------------------------------------------------------------
(* Rules *)

EffectiveSelector(r) == IF r.sel = "" THEN "user" ELSE r.sel
EffectiveScope(r) == IF r.scope = "" THEN "global" ELSE r.scope
IsListenerScoped(r) == EffectiveScope(r) = "listener"
IsUserScoped(r) == EffectiveSelector(r) = "user"

Normalize(r) ==
  [r EXCEPT !.sel = EffectiveSelector(r), !.scope = EffectiveScope(r),
            !.listener = IF IsListenerScoped(r) THEN @ ELSE ""]

\* The empty string, as strings.Split gives its levels.
EmptyText == <<"">>

\* Levels in which a wildcard or a placeholder stands beside other characters.
MixedWildcard == {"a#", "a+"}
MixedPlaceholder == {"a%u"}

\* A wildcard has a level of its own, "#" the last one.
ValidateTopicFilter(f) ==
  /\ f # EmptyText /\ \A i \in DOMAIN f : f[i] \notin MixedWildcard
  /\ \A i \in 1..(Len(f) - 1) : f[i] # "#"

ValidatePatternPlaceholders(f) == \A i \in DOMAIN f : f[i] \notin MixedPlaceholder

\* A listener id that may become part of a file name.
ValidateListenerID(id) == id \in Range(ListenerIds)

ValidateRule(r) ==
  /\ EffectiveSelector(r) \in Selectors
  /\ (r.who = "") <=> ~IsUserScoped(r)
  /\ EffectiveScope(r) \in {"global", "listener"}
  /\ IF IsListenerScoped(r) THEN ValidateListenerID(r.listener) ELSE r.listener = ""
  /\ ValidateTopicFilter(r.filter)
  /\ EffectiveSelector(r) = "pattern" => ValidatePatternPlaceholders(r.filter)
  /\ r.perm \in Permissions

-----------------------------------------------------------------------------
(* Evaluation *)

\* A placeholder of a pattern is replaced level by level.
SubstitutePlaceholders(f, id) ==
  [i \in DOMAIN f |-> CASE f[i] = "%u" -> id.user [] f[i] = "%c" -> id.client [] OTHER -> f[i]]

ruleFilter(r, id) ==
  IF EffectiveSelector(r) = "pattern" THEN SubstitutePlaceholders(r.filter, id) ELSE r.filter

applicableRules(rules, id) ==
  {r \in rules : CASE EffectiveSelector(r) = "pattern" -> TRUE
                   [] EffectiveSelector(r) = "anonymous" -> id.user = ""
                   [] EffectiveSelector(r) = "user" -> id.user # "" /\ r.who = id.user}

PermissionGrants(perm, access) == perm \in {access, "readwrite"}

\* "#" ends a filter and matches the rest, nothing included; "+" one level.
TopicMatchesFilter(f, t) ==
  LET multi == Last(f) = "#"
      n == IF multi THEN Len(f) - 1 ELSE Len(f)
  IN /\ f # EmptyText /\ t # EmptyText
     /\ \A i \in 1..n : f[i] # "#"
     /\ IF multi THEN n <= Len(t) ELSE n = Len(t)
     /\ \A i \in 1..n : f[i] \in {"+", t[i]}

EffectivePermission(rules, id, topic, access) ==
  LET matched == {r \in applicableRules(rules, id) : TopicMatchesFilter(ruleFilter(r, id), topic)}
  IN /\ \A r \in matched : r.perm # "deny"
     /\ \E r \in matched : PermissionGrants(r.perm, access)

\* levelCovers where "+" is taken to cover the multi-level wildcard too.
MutLevelCovers(d, g) == d \in {"+", g}

levelCovers(d, g) == IF d = "+" THEN g # "#" ELSE d = g /\ g # "#"

FilterCovers(d, g) ==
  LET multi == Last(d) = "#"
      n == IF multi THEN Len(d) - 1 ELSE Len(d)
  IN /\ d # EmptyText /\ g # EmptyText
     /\ IF multi THEN n <= Len(g) ELSE n = Len(g)
     /\ \A i \in 1..n : levelCovers(d[i], g[i])

\* The grants of an identity with the verdict of the deny rules on each.
EffectiveGrants(rules, id) ==
  LET all == applicableRules(rules, id)
      denies == {r \in all : r.perm = "deny"}
  IN {[filter |-> ruleFilter(r, id), perm |-> r.perm,
       denied |-> \E d \in denies : FilterCovers(ruleFilter(d, id), ruleFilter(r, id))]
        : r \in all \ denies}

-----------------------------------------------------------------------------
(* Files *)

Line(kind, who, perm, filter) == [kind |-> kind, who |-> who, perm |-> perm, filter |-> filter]
UserLine(n) == Line("user", n, "", <<>>)
MosquittoACL(r) == Line("topic", "", r.perm, r.filter)
MosquittoPatternACL(r) == Line("pattern", "", r.perm, r.filter)

\* Anonymous rules, patterns, then one section for each user in name order.
RenderACLFile(rules) ==
  LET of(s) == SelectSeq(rules, LAMBDA r : EffectiveSelector(r) = s)
      user(n) == SelectSeq(rules, LAMBDA r : IsUserScoped(r) /\ r.who = n)
      section(n) == IF user(n) = <<>> THEN <<>>
                    ELSE <<UserLine(n)>> \o [i \in DOMAIN user(n) |-> MosquittoACL(user(n)[i])]
      topics == of("anonymous")
      patterns == of("pattern")
  IN [i \in DOMAIN topics |-> MosquittoACL(topics[i])]
       \o [i \in DOMAIN patterns |-> MosquittoPatternACL(patterns[i])]
       \o FlattenSeq([i \in DOMAIN Principals |-> section(Principals[i])])

\* The principal of the last user line before line i.
SectionOf(lines, i) ==
  LET heads == {j \in 1..(i - 1) : lines[j].kind = "user"}
  IN IF heads = {} THEN "" ELSE lines[CHOOSE j \in heads : \A k \in heads : k <= j].who

parseACLEntry(line, section) == IF line.kind = "topic" THEN [line EXCEPT !.who = section] ELSE line

ParseACLDocument(lines) == [i \in DOMAIN lines |-> parseACLEntry(lines[i], SectionOf(lines, i))]

\* Render writes the verbatim lines: the section of a topic is not part of it.
RenderDocument(doc) ==
  [i \in DOMAIN doc |-> IF doc[i].kind = "topic" THEN [doc[i] EXCEPT !.who = ""] ELSE doc[i]]

\* The access an entry describes; blank lines, comments and headers have none.
HasKey(e) == e.kind \in {"topic", "pattern", "unknown"}
SemanticKeys(doc) == {e \in Range(doc) : HasKey(e)}

MissingSemanticEntries(base, next) == SemanticKeys(base) \ SemanticKeys(next)

managedRuleKey(r) ==
  CASE EffectiveSelector(r) = "anonymous" -> Line("topic", "", r.perm, r.filter)
    [] EffectiveSelector(r) = "pattern" -> Line("pattern", "", r.perm, r.filter)
    [] EffectiveSelector(r) = "user" -> Line("topic", r.who, r.perm, r.filter)

\* The rules of a file as the deploy verifier reads them back.
ParseACLFile(lines) ==
  LET doc == ParseACLDocument(lines)
      rule(e) == [sel |-> CASE e.kind = "pattern" -> "pattern"
                            [] e.kind = "topic" /\ e.who = "" -> "anonymous"
                            [] OTHER -> "user",
                  who |-> e.who, scope |-> "global", listener |-> "",
                  filter |-> e.filter, perm |-> e.perm]
  IN {rule(e) : e \in {d \in Range(doc) : d.kind \in {"topic", "pattern"}}}

-----------------------------------------------------------------------------
(* Composition of managed rules into an adopted document.  A position is    *)
(* the index the new entry gets.                                            *)

FirstUser(doc) ==
  LET heads == {i \in DOMAIN doc : doc[i].kind = "user"}
  IN IF heads = {} THEN Len(doc) + 1 ELSE CHOOSE i \in heads : \A j \in heads : i <= j

LastOf(set, default) == IF set = {} THEN default ELSE CHOOSE i \in set : \A j \in set : j <= i

\* composeInsertIndex which looks for the last topic of the whole document.
MutComposeInsertIndex(doc, r) ==
  IF EffectiveSelector(r) = "pattern" THEN FirstUser(doc)
  ELSE 1 + LastOf({i \in DOMAIN doc : doc[i].kind = "topic"}, 0)

composeInsertIndex(doc, r) ==
  IF EffectiveSelector(r) = "pattern" THEN FirstUser(doc)
  ELSE 1 + LastOf({i \in 1..(FirstUser(doc) - 1) : doc[i].kind = "topic"}, 0)

\* Behind the last topic of the first section of the principal, 0 when it
\* has no section.
composeUserInsertIndex(doc, who) ==
  LET heads == {i \in DOMAIN doc : doc[i].kind = "user" /\ doc[i].who = who}
      head == CHOOSE i \in heads : \A j \in heads : i <= j
      inside == {j \in DOMAIN doc : /\ head < j
                                    /\ \A k \in (head + 1)..j : doc[k].kind # "user"
                                    /\ doc[j].kind = "topic" /\ doc[j].who = who}
  IN IF heads = {} THEN 0 ELSE 1 + LastOf(inside, head)

insertACLEntry(doc, at, e) == InsertAt(doc, at, e)

ComposeRule(doc, rule) ==
  LET r == Normalize(rule)
      key == managedRuleKey(rule)
      at == composeUserInsertIndex(doc, r.who)
  IN IF key \in SemanticKeys(doc) THEN doc
     ELSE IF r.sel # "user" THEN insertACLEntry(doc, composeInsertIndex(doc, r), key)
     ELSE IF at = 0 THEN doc \o <<UserLine(r.who), key>>
     ELSE insertACLEntry(doc, at, key)

ComposeACLDocument(doc, managed) == FoldLeft(ComposeRule, doc, managed)
=============================================================================
