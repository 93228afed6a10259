------------------------------ MODULE MCWatcher ------------------------------
(* Constant values for checking Watcher with TLC.                          *)
EXTENDS Watcher, FiniteSets

MCBodies == {"on", "off", "bad", "missing"}
MCInvalid == {"bad", "missing"}
\* Half of the template ends inside a string, or between two entries.
MCCutShort == {"bad", "on"}
MCAutoUpdate == [b \in MCBodies |-> IF b = "on" THEN Kinds ELSE {}]
MCAutoDownload == [b \in MCBodies |-> IF b = "off" THEN {"ip2region"} ELSE Kinds]
MCNotOverlong == [b \in MCBodies |-> {}]
\* "on" asks for an interval that ends after the last Instant.
MCOverlong == [b \in MCBodies |-> IF b = "on" THEN {"security"} ELSE {}]
MCLogPath == [b \in MCBodies |-> IF b = "on" THEN "gateway.log" ELSE "other.log"]
MCKindOf(ds) == [d \in ds |-> IF d \in {"v4", "v6"} THEN "ip2region" ELSE "security"]

\* One database and one list.
MCTwoFiles == {"v4", "tor"}
MCTwoFilesKindOf == MCKindOf(MCTwoFiles)
MCTwoFilesOrder == [d \in MCTwoFiles |-> 1]

\* No data files.
MCNoFile == {}
MCNoFileKindOf == MCKindOf(MCNoFile)
MCNoFileOrder == [d \in MCNoFile |-> 1]

\* One list.
MCOneFile == {"tor"}
MCOneFileKindOf == MCKindOf(MCOneFile)
MCOneFileOrder == [d \in MCOneFile |-> 1]

\* Two lists, of which block_* maintains one, or both.
MCLists == {"tor", "spam"}
MCListsKindOf == MCKindOf(MCLists)
MCListsOrder == [tor |-> 1, spam |-> 2]

\* What was loaded at start: any config.toml, vhost and language files of one kind.
MCStartBodies == [f \in TomlFiles |-> IF f = "config" THEN {"on", "off"} ELSE {"on"}]

MCStartOn == [f \in TomlFiles |-> {"on"}]

MCNoEdits == [f \in TomlFiles |-> 0]
MCOneEdit == [f \in TomlFiles |-> IF f = "config" THEN 1 ELSE 0]
MCTwoFilesEdited == [f \in TomlFiles |-> IF f = "vhost" THEN 0 ELSE 1]
=============================================================================
