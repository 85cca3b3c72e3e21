----------------------------- MODULE MCAclFiles -----------------------------
(* Two users, one listener, rules of every selector, scope and permission,  *)
(* and hand-written files whose sections make the placement of a managed    *)
(* rule matter.                                                             *)
EXTENDS AclFiles

MCPrincipals == <<"ann", "bob", "svc">>
MCListenerIds == <<"l1">>

A == <<"a">>
ASub == <<"a", "#">>

Rule(sel, who, filter, perm) ==
  [sel |-> sel, who |-> who, scope |-> "global", listener |-> "", filter |-> filter, perm |-> perm]
Of(l, r) == [r EXCEPT !.scope = "listener", !.listener = l]

MCPool ==
  {Rule("user", "ann", A, "read"), Rule("", "ann", ASub, "readwrite"),
   Rule("user", "ann", <<"+">>, "deny"), Rule("user", "bob", <<"+", "a">>, "write"),
   Rule("anonymous", "", ASub, "read"), Rule("anonymous", "", <<"a", "+">>, "deny"),
   Rule("pattern", "", <<"%u", "a">>, "readwrite"), Rule("pattern", "", ASub, "deny"),
   Rule("pattern", "", <<"a%u">>, "read"), Rule("pattern", "", <<"%u">>, "read"),
   Rule("anonymous", "", <<"#">>, "write"), Rule("anonymous", "", <<"+", "#">>, "deny"),
   Of("l1", Rule("user", "ann", ASub, "read")), Of("l1", Rule("pattern", "", ASub, "deny"))}

Topic(perm, filter) == Line("topic", "", perm, filter)
Comment == Line("comment", "", "", <<>>)

MCBodies ==
  {<<>>,
   <<Comment, UserLine("ann"), Topic("read", A), Comment, UserLine("bob"), Topic("read", A), UserLine("ann"),
     Topic("write", A)>>,
   <<Topic("read", A), Line("pattern", "", "read", A), UserLine("eve"), Topic("bogus", A)>>,
   <<Line("unknown", "", "", A), UserLine("bob"), Line("pattern", "", "deny", ASub)>>}

MCLevel == {"a", "b", "ann", "bob", ""}
=============================================================================
