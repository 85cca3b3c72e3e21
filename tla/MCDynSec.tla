------------------------------ MODULE MCDynSec ------------------------------
(***************************************************************************)
(* Two accounts (MCM's and a user's), one group, two roles.  Start and     *)
(* Document enumerate every combination of what the role grants, what the  *)
(* user carries and who is in the group that the properties tell apart.    *)
(***************************************************************************)
EXTENDS DynSec, TLC

CONSTANTS mcm, alice, team, manage, reader, guest, data, control, p1, p2, p3

Acl(allow, priority) == [allow |-> allow, priority |-> priority]
Grants == {[t \in {data} |-> Acl(TRUE, 0)], [t \in {data} |-> Acl(FALSE, 0)],
           [t \in {data} |-> Acl(TRUE, 1)], [t \in {control} |-> Acl(TRUE, 0)],
           [t \in {control} |-> Acl(FALSE, 0)]}

Roles == {[r \in {manage} |-> [t \in {control} |-> Acl(TRUE, 0)]]}
         \cup {[r \in {manage, reader} |-> IF r = manage THEN [t \in {control} |-> Acl(TRUE, 0)] ELSE g] : g \in Grants}

Account(roles, disabled, password) ==
    [roles |-> roles, groups |-> {}, disabled |-> disabled, password |-> password]
Mcm == Account({manage}, FALSE, NoPassword)
Alices == {Account({reader}, FALSE, NoPassword), Account({}, TRUE, NoPassword), Account({}, FALSE, p1)}
Accounts == {[c \in {mcm} |-> Mcm]} \cup {[c \in {mcm, alice} |-> IF c = mcm THEN Mcm ELSE a] : a \in Alices}

Groups == {EmptyMap} \cup {[g \in {team} |-> x] : x \in {[roles |-> {reader}, clients |-> {}],
                                                        [roles |-> {reader}, clients |-> {alice}]}}

AllDocuments ==
    {d \in [clients : Accounts, groups : Groups, roles : Roles, open : {FALSE}, anonymous : {NoGroup, team}] :
        /\ Validate(d)
        /\ d.anonymous = team => d.groups[team].clients = {}}

Other == CHOOSE d \in AllDocuments : DOMAIN d.clients = {mcm} /\ DOMAIN d.roles = {manage, reader}
\* MCM's own account disabled, or with a second role.
Barring == {[Other EXCEPT !.clients[mcm].disabled = TRUE]}
           \cup {[d EXCEPT !.clients[mcm].roles = {manage, reader}] :
                    d \in {x \in AllDocuments : DOMAIN x.clients = {mcm} /\ x.groups = EmptyMap /\ reader \in DOMAIN x.roles}}
\* A group and a directly granted role in one document add nothing.
MCDocument == Barring \cup
    {d \in AllDocuments : d.groups = EmptyMap \/ \A c \in DOMAIN d.clients : reader \notin d.clients[c].roles}
MCStart ==
    {Redacted(Normalize(d)) :
       d \in {x \in MCDocument \ Barring :
                /\ CheckControlChannel(Normalize(x))
                /\ x.anonymous = team => DOMAIN x.clients = {mcm}
                /\ reader \in DOMAIN x.roles => x.roles[reader] \in {[t \in {data} |-> Acl(TRUE, 0)],
                                                                     [t \in {control} |-> Acl(TRUE, 0)]}}}
    \cup {[d EXCEPT !.open = TRUE] : d \in {Redacted(Normalize(x)) : x \in {Other}}}

\* The reviewed document with its passwords or with a stale list of groups, and another one.
Versions == [x \in {Redacted(Normalize(d)) : d \in MCDocument} |->
                {Other} \cup {d \in MCDocument : Redacted(Normalize(d)) = x /\ d # x}]
MCResent(desired) == IF desired \in DOMAIN Versions THEN Versions[desired] ELSE {Other}
Requests == Permutations(Request)

MCForeign == {[command |-> "removeRoleACL", role |-> reader, topic |-> data],
              [command |-> "deleteClient", client |-> alice],
              [command |-> "addGroupClient", group |-> team, client |-> alice]}
MCGenerated == <<p1, p2>>
=============================================================================
