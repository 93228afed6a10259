------------------------------ MODULE HotState ------------------------------
(***************************************************************************)
(* What hot reloading promises to the connections that read the published  *)
(* RuntimeState (runtime.rs): the value changes in single atomic steps,    *)
(* each of which either takes over a newer configuration together with the *)
(* data opened for it, or newer data of one kind and nothing else; and no  *)
(* step goes back to a file content older than the one it replaces.        *)
(***************************************************************************)
EXTENDS Naturals

CONSTANTS
    TomlFiles,  \* the files a configuration is read from
    DataFiles,  \* the ip2region databases and the security lists
    Kinds,      \* the kinds of data file
    KindOf,     \* the kind of each data file
    Invalid     \* the TOML contents that do not load

VARIABLE state  \* the Arc<RuntimeState> in the watch channel

NewerConfig(old, new) ==
    \A f \in TomlFiles : /\ new[f].gen >= old[f].gen
                         /\ new[f].gen = old[f].gen => new[f] = old[f]

NewerData(old, new) == \A d \in DataFiles : new[d] >= old[d]

Loads(config) == \A f \in TomlFiles : config[f].body \notin Invalid

Init == Loads(state.config)

\* A reload: the whole state at once.
Reload ==
    /\ Loads(state'.config)
    /\ NewerConfig(state.config, state'.config)
    /\ NewerData(state.data, state'.data)

\* A periodic update: data of one kind; the configuration, the language and
\* the other kind are carried over.
Refresh(k) ==
    /\ state'.config = state.config
    /\ NewerData(state.data, state'.data)
    /\ \A d \in DataFiles : KindOf[d] # k => state'.data[d] = state.data[d]

Next == Reload \/ \E k \in Kinds : Refresh(k)

Spec == Init /\ [][Next]_state
=============================================================================
