---------------------------- MODULE MCConfEditors ----------------------------
EXTENDS ConfEditors

MCText     == STRING
MCSetting  == {"persistence", "log_dest", "max_connections"}
MCKnown    == {"alpine/dynsec.so", "debian/dynsec.so"}
MCLocalPort(address) == IF address = "localhost:1884" THEN "1884" ELSE ""
MCPorts    == <<"1883", "1884", "1885">>

Global == <<Directive("password_file", <<"broker", "passwd">>), Directive("acl_file", <<"broker", "acl">>)>>

\* One file as MCM ships it, and one by hand: a braced listener, the global
\* files behind it, per_listener_settings in the wrong place, a plugin the
\* catalog does not know, and a global directive among the options of a bridge,
\* whose lines the form of the bridges can hold, or cannot.
MCShipped ==
  { Global \o <<Directive("log_dest", <<"stdout">>), Directive("listener", <<"1883">>),
                Option("protocol", <<"mqtt">>)>> }

MCByHand(bridge) ==
    <<Directive("persistence", <<"true">>),
      [kind |-> "open", key |-> "listener", values |-> <<"1883">>, indent |-> FALSE],
      Option("max_connections", <<"10">>),
      [kind |-> "close", key |-> "", values |-> <<>>, indent |-> FALSE]>> \o Global \o
    <<Directive("per_listener_settings", <<"true">>),
      Directive("plugin", <<"custom.so">>), Directive("plugin_opt_other", <<"x">>),
      Directive("connection", <<"b1">>), Directive("address", <<"remote">>),
      Directive("log_dest", <<"syslog">>), Directive("remote_password", <<"secret">>)>> \o bridge

MCStart == MCShipped \cup
  { MCByHand(<<Directive("topic", <<"a", "out">>)>>),
    MCByHand(<<Directive("addresses", <<"spare">>), Directive("topic", <<"a", "out", "", "site">>)>>) }

Set(k, w) == [directive |-> k, want |-> w]
MCSettings == { <<Set("log_dest", <<<<"stdout">>, <<"file", "log">>>>), Set("persistence", <<<<"true">>>>), Set("max_connections", <<>>)>>,
                <<Set("log_dest", <<>>), Set("max_connections", <<<<"5">>>>)>> }

MCPlugins == { <<>>, <<[module |-> "debian/dynsec.so", file |-> "db"]>>,
               <<[module |-> "alpine/dynsec.so", file |-> "other"], [module |-> "custom.so", file |-> "x"]>> }

Bridge(name, address, password, keepalive, rules) ==
    [name |-> name, address |-> address, password |-> password, keepalive |-> keepalive, topics |-> rules]
T(topic, direction, local, remote) == [topic |-> topic, direction |-> direction, local |-> local, remote |-> remote]
MCBridges == { <<>>, <<Bridge("b1", "remote", "", "30", <<T("a", "out", "x", "y"), T("a", "in", "", "y"), T("b", "out", "", "")>>)>>,
               <<Bridge("b2", "localhost:1884", "pw", "", <<T("a", "both", "", "")>>),
                 Bridge("b1", "remote", "", "", <<T("a", "out", "", "")>>)>> }

Own(p) == [port |-> p, acl |-> <<"mcm", ListenerACLFileName(p)>>]
Plain(p) == [port |-> p, acl |-> <<>>]
MCListeners == { {Plain("1883")}, {Plain("1883"), Plain("1884"), Own("1885")} }
=============================================================================
