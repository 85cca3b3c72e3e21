------------------------------ MODULE ConfSpec ------------------------------
(***************************************************************************)
(* What the editors of mosquitto.conf promise, with no file in it: the     *)
(* broker has settings, plugins, bridges and listeners; an edit replaces   *)
(* one part by the document of the operator, and the parts of the other    *)
(* editors stay as they are.                                               *)
(***************************************************************************)
CONSTANTS SettingsDocs, PluginDocs, BridgeDocs, ListenerDocs,
          Merged(_, _),   \* a bridge document with the secrets not sent again
          Opened(_)       \* the ports that are declared for a listener document

VARIABLE parts            \* [settings, known, unknown, bridges, ports]

\* A directive the document does not name keeps its values.
EditSettings ==
    \E doc \in SettingsDocs :
        parts' = [parts EXCEPT !.settings = [k \in DOMAIN @ |-> IF k \in DOMAIN doc THEN doc[k] ELSE @[k]]]

\* A plugin the catalog does not know is added, never dropped.
EditPlugins ==
    \E doc \in PluginDocs : parts' = [parts EXCEPT !.known = doc.known, !.unknown = @ \cup doc.unknown]

EditBridges == \E doc \in BridgeDocs : parts' = [parts EXCEPT !.bridges = Merged(doc, @)]

EditListeners == \E doc \in ListenerDocs : parts' = [parts EXCEPT !.ports = Opened(doc)]

Next == EditSettings \/ EditPlugins \/ EditBridges \/ EditListeners

Spec == [][Next]_parts
=============================================================================
