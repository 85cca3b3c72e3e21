---------------------------- MODULE ConfEditors ----------------------------
(***************************************************************************)
(* The editors of mosquitto.conf: the settings form, the plugin page, the  *)
(* bridge page, the listener writer and the migration to the dynamic       *)
(* security plugin.  Each one parses the whole file, splices its own       *)
(* directives into the sequence of items and writes the file back, with    *)
(* its own idea of where a section begins and ends.  A preview applies     *)
(* only to the file it was made from (BrokerConfig), so an edit is here    *)
(* one step.  Comments and blank lines, which no editor reads, are left    *)
(* out.                                                                    *)
(***************************************************************************)
EXTENDS Integers, FiniteSets, SequencesExt

CONSTANTS
  Setting, Many,        \* the directives with a section in the catalog; the repeatable ones
  AnyScope,             \* the ones Mosquitto binds to the listener in scope
  KnownModule,          \* the paths of the one plugin the catalog knows
  DefaultModule, DatabaseFile,
  LocalPort(_),         \* the port of this host an address leads to, or ""
  Several,              \* the address of a connection with more than one
  PortOrder,            \* the ports of the listeners, ascending
  Keyword, Text,        \* the names of directives; values
  StartFile,            \* the files an operator starts from
  SettingsDocument, PluginsDocument, BridgesDocument, ListenersDocument

VARIABLES confItems,    \* the items of mosquitto.conf
          parts,        \* what Mosquitto reads in it at its next start
          aclFiles      \* the listeners whose ACL file the deploy has written

editVars == <<confItems, parts, aclFiles>>

\* An item: a directive, or the line that opens or closes a braced block.
Directive(key, values) == [kind |-> "directive", key |-> key, values |-> values, indent |-> FALSE]
Option(key, values)    == [kind |-> "directive", key |-> key, values |-> values, indent |-> TRUE]

IsDirective(f, i) == f[i].kind = "directive"

Kept(f, S) == FlattenSeq([i \in DOMAIN f |-> IF i \in S THEN <<f[i]>> ELSE <<>>])

\* The lines of a set in the order of the file.
Rank(S, i) == Cardinality({j \in S : j <= i})
InOrder(S) == [n \in 1..Cardinality(S) |-> CHOOSE i \in S : Rank(S, i) = n]

insertItems(f, at, items) == SubSeq(f, 1, at) \o items \o SubSeq(f, at + 1, Len(f))

\* The items inside a braced block.
blockItems(f) ==
    LET open  == {i \in DOMAIN f : f[i].kind = "open"}
        close == {i \in DOMAIN f : f[i].kind = "close"}
    IN  IF open = {} THEN {}
        ELSE {i \in DOMAIN f : /\ IsDirective(f, i)
                               /\ Cardinality({j \in open : j < i}) > Cardinality({j \in close : j < i})}

\* The directives at the top level.
Outside(f) == LET inside == blockItems(f)
              IN  {i \in DOMAIN f : IsDirective(f, i) /\ i \notin inside}

\* The number of items before the place for a new global directive: right
\* behind the last directive before the first section.
insertionIndexAtEnd(f) == Len(f)                    \* mutant: new directives are appended
insertionIndex(f) ==
    LET sections == {i \in DOMAIN f : \/ f[i].kind = "open"
                                      \/ IsDirective(f, i) /\ f[i].key \in {"listener", "bridge", "connection"}}
        head == {i \in DOMAIN f : IsDirective(f, i) /\ \A j \in sections : i < j}
    IN  IF head = {} THEN 0 ELSE Max(head)

-----------------------------------------------------------------------------
(* How Mosquitto reads the file: a directive of AnyScope belongs to the     *)
(* listener in scope, a connection directive to the last connection, an     *)
(* option of a plugin to the last plugin, and every other one is global.    *)

Lines(f, key) == {j \in Outside(f) : f[j].key = key}

\* The line of the set that item i follows, or 0.
Scope(lines, i) == LET before == {j \in lines : j < i} IN IF before = {} THEN 0 ELSE Max(before)

MatchModule(module) == module \in KnownModule

ConfigFile  == "plugin_opt_config_file"
OtherOption == "plugin_opt_other"

BrokerSettings(f) ==
    [k \in Setting |->
        LET listeners == Lines(f, "listener")
            at == InOrder({i \in Lines(f, k) : k \in AnyScope => Scope(listeners, i) = 0})
        IN  [n \in DOMAIN at |-> f[at[n]].values]]

BrokerPlugins(f) ==
    LET plugins == Lines(f, "plugin")
        options == Lines(f, ConfigFile) \cup Lines(f, OtherOption)
    IN  {[module  |-> f[g].values[1],
          options |-> {<<f[i].key, f[i].values>> : i \in {j \in options : Scope(plugins, j) = g}}] : g \in plugins}

\* topic <pattern> [<direction> [<local prefix> [<remote prefix>]]]
parseTopic(values) ==
    [topic     |-> values[1],
     direction |-> IF Len(values) < 2 THEN "both" ELSE values[2],
     local     |-> IF Len(values) < 3 THEN "" ELSE values[3],
     remote    |-> IF Len(values) < 4 THEN "" ELSE values[4]]

\* The remote brokers the lines of a connection name, all of them.
Addresses(f, lines) == {v \in UNION {Range(f[i].values) : i \in lines} : v # ""}

\* As one value: several are told apart from one, not from each other.
AddressList(S) == IF S = {} THEN "" ELSE IF \E v \in S : S = {v} THEN CHOOSE v \in S : TRUE ELSE Several

BrokerBridges(f) ==
    LET connections == Lines(f, "connection")
        at == InOrder(connections)
        line(n, key) == {i \in Lines(f, key) : Scope(connections, i) = at[n]}
        value(n, key) == IF line(n, key) = {} THEN "" ELSE f[Max(line(n, key))].values[1]
        rules(n) == InOrder(line(n, "topic"))
    IN  [n \in DOMAIN at |-> [name |-> f[at[n]].values[1],
                              address |-> AddressList(Addresses(f, line(n, "address") \cup line(n, "addresses"))),
                              password |-> value(n, "remote_password"),
                              keepalive |-> value(n, "keepalive_interval"),
                              topics |-> [r \in DOMAIN rules(n) |-> parseTopic(f[rules(n)[r]].values)]]]

Declared(f) == {i \in DOMAIN f : f[i].key = "listener" /\ f[i].kind # "close"}

BrokerPorts(f) == {f[i].values[1] : i \in Declared(f)}

\* The value an option has in the section of the listener line l.
InSection(f, l, key) ==
    LET listeners == Lines(f, "listener")
        at == {i \in Lines(f, key) : Scope(listeners, i) = l}
    IN  IF at = {} THEN <<>> ELSE f[Max(at)].values

BrokerReads(f) ==
    LET plugins == BrokerPlugins(f)
    IN  [settings |-> BrokerSettings(f),
         known    |-> {p \in plugins : MatchModule(p.module)},
         unknown  |-> {p \in plugins : ~MatchModule(p.module)},
         bridges  |-> BrokerBridges(f),
         ports    |-> BrokerPorts(f)]

\* AtomicWriteConf.
Written(file) == \E f \in {file} : confItems' = f /\ parts' = BrokerReads(f) /\ UNCHANGED aclFiles

-----------------------------------------------------------------------------
(* The settings form.  A document is a sequence of [directive, want]; an    *)
(* empty want means unset.                                                  *)

\* The occurrences of a setting the form owns.
analyse(f, k) ==
    LET ends == {j \in DOMAIN f : f[j].kind = "open" \/ f[j].key \in {"listener", "bridge"}}
    IN  {i \in Outside(f) : /\ f[i].key = k
                            /\ k \in AnyScope => \A j \in ends : i < j}

settingsExtractFirst(f) ==                          \* mutant: a repeated directive is read once
    [n \in 1..Cardinality(Setting) |->
        LET k == SetToSeq(Setting)[n] at == analyse(f, k)
        IN  [directive |-> k, want |-> IF at = {} THEN <<>> ELSE <<f[Min(at)].values>>]]

settingsExtract(f) ==
    LET values(k) == LET at == InOrder(analyse(f, k))
                     IN  [n \in DOMAIN at |-> f[at[n]].values]
    IN  [n \in 1..Cardinality(Setting) |->
            LET k == SetToSeq(Setting)[n] IN [directive |-> k, want |-> values(k)]]

settingsValidate(doc) ==
    \A n \in DOMAIN doc : /\ doc[n].directive \in Setting
                          /\ Len(doc[n].want) > 1 => doc[n].directive \in Many
                          /\ \A m \in DOMAIN doc : doc[m].directive = doc[n].directive => m = n

\* The occurrences beyond the wanted ones go, the others take their value.
rewriteSettings(f, doc) ==
    FlattenSeq([i \in DOMAIN f |->
        LET mine == {n \in DOMAIN doc : doc[n].directive = f[i].key /\ i \in analyse(f, doc[n].directive)}
        IN  IF mine = {} THEN <<f[i]>>
            ELSE LET e == doc[CHOOSE n \in mine : TRUE]
                     r == Rank(analyse(f, e.directive), i)
                 IN  IF r <= Len(e.want) THEN <<[f[i] EXCEPT !.values = e.want[r]]>> ELSE <<>>])

\* The missing ones go behind the last occurrence, or to the end of the head.
insertMissing(f, e) ==
    LET have    == analyse(f, e.directive)
        missing == SubSeq(e.want, Cardinality(have) + 1, Len(e.want))
        at      == IF have = {} THEN insertionIndex(f) ELSE Max(have)
    IN  insertItems(f, at, [n \in DOMAIN missing |-> Directive(e.directive, missing[n])])

settingsApply(f, doc) ==
    LET out[n \in 0..Len(doc)] == IF n = 0 THEN rewriteSettings(f, doc) ELSE insertMissing(out[n - 1], doc[n])
    IN  out[Len(doc)]

PreviewBrokerSettings ==
    \E doc \in SettingsDocument : /\ settingsValidate(doc)
                                  /\ Written(settingsApply(confItems, doc))

-----------------------------------------------------------------------------
(* The plugin page.  A document is a sequence of [module, file]: a module   *)
(* of the catalog with its database file, or one the catalog does not know  *)
(* with the value of its option, perhaps "".                                *)

ManagedOption(module) == IF MatchModule(module) THEN ConfigFile ELSE OtherOption

groups(f) == {i \in DOMAIN f : IsDirective(f, i) /\ f[i].key = "plugin"}

Module(f, g) == f[g].values[1]

\* The options of the plugin line g: of an option given twice, the first.
optionIndexes(f, g) ==
    {j \in (g + 1)..Len(f) :
        /\ IsDirective(f, j) /\ f[j].key \in {ConfigFile, OtherOption}
        /\ ~ \E i \in (g + 1)..(j - 1) : i \in groups(f) \/ (IsDirective(f, i) /\ f[i].key = f[j].key)}

lastOptionIndex(f, g) == Max({g} \cup optionIndexes(f, g))

optionValue(f, g, option) ==
    LET at == {j \in optionIndexes(f, g) : f[j].key = option}
    IN  IF at = {} THEN "" ELSE f[CHOOSE j \in at : TRUE].values[1]

pluginsExtract(f) ==
    LET g == InOrder(groups(f))
    IN  [n \in DOMAIN g |-> [module |-> Module(f, g[n]),
                             file |-> optionValue(f, g[n], ManagedOption(Module(f, g[n])))]]

\* One entry for the plugin of the catalog, with its required option.
pluginsValidate(doc) ==
    /\ Cardinality({n \in DOMAIN doc : MatchModule(doc[n].module)}) <= 1
    /\ \A n \in DOMAIN doc : MatchModule(doc[n].module) => doc[n].file # ""

\* The group each entry of the document claims, 0 for a new plugin.
matchGroups(f, doc) ==
    LET claimed[n \in 1..Len(doc)] ==
          LET free == {g \in groups(f) : /\ \A k \in 1..(n - 1) : claimed[k] # g
                                         /\ IF MatchModule(doc[n].module) THEN MatchModule(Module(f, g))
                                            ELSE Module(f, g) = doc[n].module}
          IN  IF free = {} THEN 0 ELSE Min(free)
    IN  claimed

pluginBlock(p) ==
    <<Directive("plugin", <<p.module>>)>> \o
    (IF p.file = "" THEN <<>> ELSE <<Directive(ManagedOption(p.module), <<p.file>>)>>)

\* An unclaimed plugin the catalog does not know stays.
removedItems(f, claimed) ==
    UNION {{g} \cup optionIndexes(f, g) :
              g \in {h \in groups(f) : MatchModule(Module(f, h)) /\ \A n \in DOMAIN claimed : claimed[n] # h}}

pluginsApply(f, doc) ==
    LET claimed == matchGroups(f, doc)
        managed == {n \in DOMAIN doc : claimed[n] # 0 /\ MatchModule(doc[n].module)}
        removed == removedItems(f, claimed)
        edited(i) ==
            LET m == {n \in managed : claimed[n] = i}
                o == {n \in managed : i \in optionIndexes(f, claimed[n]) /\ f[i].key = ConfigFile}
            IN  IF m # {} THEN [f[i] EXCEPT !.values = <<doc[CHOOSE n \in m : TRUE].module>>]
                ELSE IF o # {} THEN [f[i] EXCEPT !.values = <<doc[CHOOSE n \in o : TRUE].file>>]
                ELSE f[i]
        behind(i) ==
            LET a == {n \in managed : /\ lastOptionIndex(f, claimed[n]) = i
                                      /\ optionValue(f, claimed[n], ConfigFile) = ""}
            IN  IF a = {} THEN <<>>
                ELSE <<Directive(ConfigFile, <<doc[CHOOSE n \in a : TRUE].file>>)>>
        rebuilt == FlattenSeq([i \in DOMAIN f |-> IF i \in removed THEN <<>> ELSE <<edited(i)>> \o behind(i)])
        new     == FlattenSeq([n \in DOMAIN doc |-> IF claimed[n] = 0 THEN pluginBlock(doc[n]) ELSE <<>>])
    IN  insertItems(rebuilt, insertionIndex(rebuilt), new)

PreviewPlugins ==
    \E doc \in PluginsDocument : /\ pluginsValidate(doc)
                                 /\ Written(pluginsApply(confItems, doc))

\* The migration to the plugin drops the directives of the file backend,
\* the ones of the listeners too.
removeFileBackend(f) ==
    Kept(f, {i \in DOMAIN f : ~(IsDirective(f, i) /\ f[i].key \in {"password_file", "acl_file"})})

\* Only for a file that does not load the plugin yet.
previewAdoptionConfig ==
    /\ ~ \E g \in groups(confItems) : MatchModule(Module(confItems, g))
    /\ Written(removeFileBackend(pluginsApply(confItems,
                   Append(pluginsExtract(confItems), [module |-> DefaultModule, file |-> DatabaseFile]))))

-----------------------------------------------------------------------------
(* The bridge page.  A document is a sequence of [name, address, password,  *)
(* keepalive, topics]; "" is an option that is not set, a topic rule is a   *)
(* [topic, direction, local, remote] with its prefixes.  The form has one   *)
(* address: the others a file names, and its addresses lines, are read past *)
(* and rewritten without.                                                   *)

connectionKeys == {"address", "addresses", "remote_password", "keepalive_interval", "topic"}

IsConnectionKey(key) == key \in connectionKeys

\* The items the bridge page owns: from the first connection line on, every
\* connection directive outside a braced block.
connectionItems(f) ==
    LET lines == {i \in Outside(f) : f[i].key = "connection"}
    IN  lines \cup {i \in Outside(f) : IsConnectionKey(f[i].key) /\ \E c \in lines : c < i}

\* The last line counts; an empty address is passed over.
applyOption(f, at, key) ==
    LET S == {i \in at : f[i].key = key /\ (key = "address" => f[i].values[1] # "")}
    IN  IF S = {} THEN "" ELSE f[Max(S)].values[1]

bridgesParse(f) ==
    LET mine  == connectionItems(f)
        lines == InOrder({i \in mine : f[i].key = "connection"})
        at(n) == {i \in mine : lines[n] < i /\ (n < Len(lines) => i < lines[n + 1])}
        rules(n) == InOrder({i \in at(n) : f[i].key = "topic"})
    IN  [n \in DOMAIN lines |->
            [name      |-> f[lines[n]].values[1],
             address   |-> applyOption(f, at(n), "address"),
             password  |-> applyOption(f, at(n), "remote_password"),
             keepalive |-> applyOption(f, at(n), "keepalive_interval"),
             topics    |-> [r \in DOMAIN rules(n) |-> parseTopic(f[rules(n)[r]].values)]]]

LocalAddresses(f) ==
    {f[i].values[1] : i \in {j \in Outside(f) : f[j].key = "listener"}}

Outbound(rule) == rule.direction \in {"out", "both"}
Inbound(rule)  == rule.direction \in {"in", "both"}

\* The topic of a rule on this broker and on the remote one.
localTopic(rule)  == <<rule.local, rule.topic>>
remoteTopic(rule) == <<rule.remote, rule.topic>>

TopicsOverlap(a, b) ==
    \/ <<"", "#">> \in {a, b}
    \/ a[1] = b[1] /\ (a[2] = b[2] \/ "#" \in {a[2], b[2]})

\* A bridge to a listener of this broker; two rules that bounce the same
\* traffic; two bridges that meet at the same remote broker.
validateLoops(doc, local) ==
    /\ \A n \in DOMAIN doc : LocalPort(doc[n].address) \notin local
    /\ \A n \in DOMAIN doc : \A r, q \in DOMAIN doc[n].topics :
          LET out == doc[n].topics[r]
              in  == doc[n].topics[q]
          IN  r # q /\ Outbound(out) /\ Inbound(in)
                => ~ (/\ TopicsOverlap(remoteTopic(out), remoteTopic(in))
                      /\ TopicsOverlap(localTopic(in), localTopic(out)))
    /\ \A n, m \in DOMAIN doc : n < m /\ doc[n].address = doc[m].address =>
          \A r \in DOMAIN doc[n].topics, q \in DOMAIN doc[m].topics :
             LET both == {doc[n].topics[r], doc[m].topics[q]}
             IN  ~ (/\ TopicsOverlap(localTopic(doc[n].topics[r]), localTopic(doc[m].topics[q]))
                    /\ \E t \in both : Outbound(t)
                    /\ \E t \in both : Inbound(t))

validateTopicRule(b) ==
    \A r, q \in DOMAIN b.topics :
        b.topics[r].topic = b.topics[q].topic /\ b.topics[r].direction = b.topics[q].direction => r = q

validateBridge(b) == b.name # "" /\ b.address # "" /\ b.topics # <<>> /\ validateTopicRule(b)

bridgesValidate(doc, local) ==
    /\ \A n \in DOMAIN doc : validateBridge(doc[n])
    /\ \A n, m \in DOMAIN doc : doc[n].name = doc[m].name => n = m
    /\ validateLoops(doc, local)

\* The API never returns a password: one that is not sent again is kept.
mergeBridgeSecrets(doc, current) ==
    [n \in DOMAIN doc |->
        LET old == {m \in DOMAIN current : current[m].name = doc[n].name}
        IN  IF doc[n].password # "" \/ old = {} THEN doc[n]
            ELSE [doc[n] EXCEPT !.password = current[Min(old)].password]]

optionLine(key, value) == IF value = "" THEN <<>> ELSE <<Option(key, <<value>>)>>

\* The remote prefix goes behind a local one, or not at all.
renderTopic(rule) ==
    Option("topic", IF rule.local = "" THEN <<rule.topic, rule.direction>>
                    ELSE IF rule.remote = "" THEN <<rule.topic, rule.direction, rule.local>>
                    ELSE <<rule.topic, rule.direction, rule.local, rule.remote>>)

renderBridge(b) ==
    <<Directive("connection", <<b.name>>)>> \o optionLine("address", b.address)
    \o optionLine("remote_password", b.password) \o optionLine("keepalive_interval", b.keepalive)
    \o [r \in DOMAIN b.topics |-> renderTopic(b.topics[r])]

renderDocument(doc) == FlattenSeq([n \in DOMAIN doc |-> renderBridge(doc[n])])

\* The rendered sections take the place of the first one, or the end.
bridgesApply(f, doc) ==
    LET mine == connectionItems(f)
        kept == Kept(f, DOMAIN f \ mine)
        at   == IF mine = {} THEN Len(f) ELSE Min(mine) - 1
    IN  insertItems(kept, at, renderDocument(doc))

previewBridgesLocked ==
    \E doc \in BridgesDocument :
        LET merged == mergeBridgeSecrets(doc, bridgesParse(confItems))
        IN  /\ bridgesValidate(merged, LocalAddresses(confItems))
            /\ Written(bridgesApply(confItems, merged))

-----------------------------------------------------------------------------
(* The listener writer.  A document is a set of [port, acl]: acl is the     *)
(* path <<directory, name>> of the listener's own ACL file, or <<>>.        *)

defaultListenerPort == "1883"

securityDirectives == {"allow_anonymous", "password_file", "acl_file", "psk_file", "auth_plugin"}

ListenerACLFileName(port) == "acl." \o port

\* The path of a listener's file as the broker sees it; <<>>: not managed.
BrokerACLPath(path, globalACL, port) ==
    IF path = <<>> \/ globalACL = <<>> \/ path[2] # ListenerACLFileName(port) THEN <<>>
    ELSE <<globalACL[1], path[2]>>

\* The items of braced listeners.
listenerBlock(f) ==
    LET open == {o \in DOMAIN f : f[o].kind = "open" /\ f[o].key = "listener"}
    IN  {i \in DOMAIN f : \E o \in open : o <= i /\ ~ \E c \in o..(i - 1) : f[c].kind = "close"}

\* An indented directive behind a listener line, with nothing but indented
\* directives in between.
listenerOption(f, block, i) ==
    /\ f[i].indent
    /\ \E l \in 1..(i - 1) : /\ IsDirective(f, l) /\ f[l].key = "listener" /\ l \notin block
                             /\ \A j \in (l + 1)..(i - 1) : IsDirective(f, j) /\ j \notin block => f[j].indent

precedesListener(f, i) == i > 1 /\ f[i - 1].key = "listener"

filterListenerItems(f) ==
    LET block == listenerBlock(f)
    IN  Kept(f, {i \in DOMAIN f \ block :
            IsDirective(f, i) => /\ ~listenerOption(f, block, i)
                                 /\ f[i].key # "listener"
                                 /\ ~(f[i].key = "protocol" /\ precedesListener(f, i))})

\* The first value a directive has in the head, or <<>>.
globalDirectiveValue(head, key) ==
    LET at == {i \in DOMAIN head : IsDirective(head, i) /\ head[i].key = key}
    IN  IF at = {} THEN <<>> ELSE head[Min(at)].values

perListenerItems(head) == {i \in DOMAIN head : IsDirective(head, i) /\ head[i].key = "per_listener_settings"}

PerListenerDisabled(head) ==
    LET at == perListenerItems(head) IN at # {} /\ head[Min(at)].values # <<"true">>


insertPerListenerSettings(head) ==
    LET security == {i \in DOMAIN head : IsDirective(head, i) /\ head[i].key \in securityDirectives}
        at       == IF security = {} THEN Len(head) ELSE Min(security) - 1
    IN  insertItems(head, at, <<Directive("per_listener_settings", <<"true">>)>>)

\* A directive that is there already is moved.
ensurePerListenerSettings(head) ==
    insertPerListenerSettings(Kept(head, DOMAIN head \ perListenerItems(head)))

specsDeclareACLFile(specs) == \E s \in specs : s.acl # <<>>

DefaultListenerScope(specs) == \E s \in specs : s.port = defaultListenerPort /\ s.acl # <<>>

dropDefaultListenerSpec(specs) == {s \in specs : s.port # defaultListenerPort}

\* The options of a listener: its own ACL file under the broker's path, and
\* the global files it does not declare itself.
inheritGlobalAccessControl(s, head) ==
    LET globalACL == globalDirectiveValue(head, "acl_file")
        resolved  == BrokerACLPath(s.acl, globalACL, s.port)
    IN  [port |-> s.port,
         acl  |-> IF s.acl = <<>> THEN globalACL ELSE IF resolved = <<>> THEN s.acl ELSE resolved,
         password |-> globalDirectiveValue(head, "password_file")]

requireWrittenACLFiles(specs, head) ==
    \A s \in specs : BrokerACLPath(s.acl, globalDirectiveValue(head, "acl_file"), s.port) # <<>>
                       => s.port \in aclFiles

renderListener(l) ==
    <<Directive("listener", <<l.port>>), Option("protocol", <<"mqtt">>)>>
    \o (IF l.acl = <<>> THEN <<>> ELSE <<Option("acl_file", l.acl)>>)
    \o (IF l.password = <<>> THEN <<>> ELSE <<Option("password_file", l.password)>>)

RenderAll(rendered) ==
    FlattenSeq([n \in DOMAIN PortOrder |->
        LET here == {l \in rendered : l.port = PortOrder[n]}
        IN  IF here = {} THEN <<>> ELSE renderListener(CHOOSE l \in here : TRUE)])

WriteListeners ==
    \E specs \in ListenersDocument :
        LET bare   == filterListenerItems(confItems)
            head   == ensurePerListenerSettings(bare)
            scoped == dropDefaultListenerSpec(specs)
        IN  IF specsDeclareACLFile(specs)
            THEN /\ ~PerListenerDisabled(bare)
                 /\ ~DefaultListenerScope(specs)
                 /\ requireWrittenACLFiles(scoped, head)
                 /\ Written(head \o RenderAll({inheritGlobalAccessControl(s, head) : s \in scoped}))
            ELSE Written(bare \o RenderAll({[port |-> s.port, acl |-> <<>>, password |-> <<>>] : s \in specs}))

\* The deploy of the ACL rules writes the file of a listener (see Deploy).
DeployACLFile(port) == port \notin aclFiles /\ aclFiles' = aclFiles \cup {port} /\ UNCHANGED <<confItems, parts>>

-----------------------------------------------------------------------------
\* Types.  The forms of the settings, plugins and bridges have directives of
\* their own; a plugin line and its options have one value, an option of a
\* connection has at least one.
Item ==
    {x \in [kind : {"directive", "open", "close"}, key : Keyword, values : Seq(Text), indent : BOOLEAN] :
        /\ x.key \in {"plugin", ConfigFile, OtherOption} => Len(x.values) = 1
        /\ x.key \in connectionKeys \cup {"connection"} => x.values # <<>>}

Rule == [topic : Text, direction : Text, local : Text, remote : Text]

ASSUME ConfAssumption ==
    /\ IsFiniteSet(Setting) /\ Setting \subseteq Keyword
    /\ {"listener", "protocol", "acl_file", "password_file", "per_listener_settings"} \subseteq Keyword
    /\ connectionKeys \cup {"connection", "plugin", ConfigFile, OtherOption} \subseteq Keyword
    /\ Setting \cap (connectionKeys \cup {"connection", "plugin", ConfigFile, OtherOption}) = {}
    /\ {"", "true", "mqtt", "both", DefaultModule, DatabaseFile} \subseteq Text
    /\ PortOrder \in Seq(Text)
    /\ StartFile \subseteq Seq(Item)
    /\ SettingsDocument \subseteq Seq([directive : Keyword, want : Seq(Seq(Text))])
    /\ PluginsDocument \subseteq Seq([module : Text, file : Text])
    /\ BridgesDocument \subseteq Seq([name : Text, address : Text, password : Text, keepalive : Text,
                                     topics : Seq(Rule)])
    /\ \A specs \in ListenersDocument : \A s \in specs :
          s.port \in Text /\ s.acl \in {<<>>} \cup (Text \X Text)

InitFile == confItems \in StartFile /\ parts = BrokerReads(confItems) /\ aclFiles = {}

NextEdit == \/ PreviewBrokerSettings \/ PreviewPlugins \/ previewAdoptionConfig
            \/ previewBridgesLocked \/ WriteListeners
            \/ \E s \in UNION ListenersDocument : s.acl # <<>> /\ DeployACLFile(s.port)

EditSpec == InitFile /\ [][NextEdit]_editVars

-----------------------------------------------------------------------------
\* The documents as the promise speaks of them.
SettingsAsked ==
    {[k \in {doc[n].directive : n \in DOMAIN doc} |->
         doc[CHOOSE n \in DOMAIN doc : doc[n].directive = k].want] : doc \in SettingsDocument}

PluginsAsked ==
    {LET S == {[module |-> doc[n].module,
                options |-> IF doc[n].file = "" THEN {}
                            ELSE {<<ManagedOption(doc[n].module), <<doc[n].file>>>>}] : n \in DOMAIN doc}
     IN  [known |-> {p \in S : MatchModule(p.module)}, unknown |-> {p \in S : ~MatchModule(p.module)}] :
        doc \in PluginsDocument \cup {<<[module |-> DefaultModule, file |-> DatabaseFile]>>}}

\* What the lines of a bridge can say: no remote prefix without a local one.
Sayable(doc) ==
    [n \in DOMAIN doc |-> [doc[n] EXCEPT !.topics =
        [r \in DOMAIN @ |-> IF @[r].local = "" THEN [@[r] EXCEPT !.remote = ""] ELSE @[r]]]]

Promise == INSTANCE ConfSpec WITH
    SettingsDocs <- SettingsAsked,
    PluginDocs   <- PluginsAsked,
    BridgeDocs   <- BridgesDocument,
    ListenerDocs <- ListenersDocument,
    Merged       <- LAMBDA doc, current : mergeBridgeSecrets(Sayable(doc), current),
    Opened       <- LAMBDA specs : {s.port : s \in IF specsDeclareACLFile(specs)
                                                    THEN dropDefaultListenerSpec(specs) ELSE specs}

(* Whatever the editors did before, an edit changes the part of the        *)
(* configuration it is for, as Mosquitto reads it, into what the operator  *)
(* asked for, and nothing of what the other editors wrote: no setting      *)
(* slips into a listener, no option to another bridge or plugin, no plugin *)
(* the catalog does not know is lost.  Of a bridge it is what its lines    *)
(* can say (BridgesAsAsked has the rest).                                  *)
EditsStayApart == Promise!Spec

(* docs/bridges.md: "remote_prefix: Prefix added to the topic on the       *)
(* remote broker", a field of its own.  A document the page accepts is     *)
(* what Mosquitto reads out of the file afterwards, prefixes included.     *)
(* render.go writes the remote prefix behind a local one only.             *)
BridgesAsAsked ==
    \A doc \in BridgesDocument :
        LET merged == mergeBridgeSecrets(doc, bridgesParse(confItems))
        IN  bridgesValidate(merged, LocalAddresses(confItems))
              => BrokerBridges(bridgesApply(confItems, merged)) = merged

(* The form of the bridges can hold what the file says of them: each       *)
(* connection has one address, and each remote prefix follows a local one. *)
OneAddress(f, i, connections) ==
    /\ Len(f[i].values) = 1
    /\ \A j \in connectionItems(f) :
          f[j].key = "address" /\ Scope(connections, j) = Scope(connections, i) => j = i

FormHolds(f) ==
    \A i \in connectionItems(f) :
        /\ f[i].key # "addresses"
        /\ f[i].key = "address" => OneAddress(f, i, Lines(f, "connection"))
        /\ f[i].key = "topic" => (parseTopic(f[i].values).remote # "" => parseTopic(f[i].values).local # "")

(* Saving a form as it was loaded changes nothing: the settings and the    *)
(* plugins give the same items (settings.Extract, "saving it back without  *)
(* touching anything leaves the file unchanged"; the plugins when the page *)
(* accepts what it loaded), the bridges the same configuration to          *)
(* Mosquitto where the form can hold what the file says of them.           *)
SaveIsNoChange ==
    /\ settingsApply(confItems, settingsExtract(confItems)) = confItems
    /\ pluginsValidate(pluginsExtract(confItems)) => pluginsApply(confItems, pluginsExtract(confItems)) = confItems
    /\ FormHolds(confItems)
         => BrokerBridges(bridgesApply(confItems, bridgesParse(confItems))) = BrokerBridges(confItems)

\* Mosquitto's own list of security settings: a plugin is one too.
brokerSecurity == securityDirectives \cup {"plugin"}

\* The switch stands before every security setting that Mosquitto knows.
SwitchFirst(f) ==
    LET switch == perListenerItems(f)
    IN  /\ switch # {}
        /\ \A i \in DOMAIN f : IsDirective(f, i) /\ f[i].key \in brokerSecurity => Min(switch) < i

\* A plugin stands before all the settings the listener writer looks for.
PluginAhead(f) ==
    \E g \in groups(f) : \A i \in DOMAIN f : IsDirective(f, i) /\ f[i].key \in securityDirectives => g < i

BrokerWide(f) == globalDirectiveValue(f, "acl_file") # <<>> /\ globalDirectiveValue(f, "password_file") # <<>>

ScopedListeners(f) == {l \in Declared(f) : InSection(f, l, "acl_file") \notin {<<>>, globalDirectiveValue(f, "acl_file")}}

Guarded(f) ==
    /\ SwitchFirst(f) \/ PluginAhead(f)
    /\ perListenerItems(f) # {}
    /\ defaultListenerPort \notin BrokerPorts(f)
    /\ \A l \in Declared(f) :
          LET acl == InSection(f, l, "acl_file")
          IN  /\ acl # <<>> /\ acl[1] = globalDirectiveValue(f, "acl_file")[1]
              /\ InSection(f, l, "password_file") = globalDirectiveValue(f, "password_file")
              /\ acl[2] = ListenerACLFileName(f[l].values[1]) => f[l].values[1] \in aclFiles


(* ensurePerListenerSettings: "The directive is inserted before the first  *)
(* security setting of the configuration, because Mosquitto only honours   *)
(* it there".  The first one of Mosquitto, whose list has the plugins.     *)
SwitchComesFirst == ScopedListeners(confItems) # {} /\ BrokerWide(confItems) => SwitchFirst(confItems)
=============================================================================
