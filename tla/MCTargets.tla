----------------------------- MODULE MCTargets -----------------------------
(* Small configurations, requests and answers for TLC.                     *)
EXTENDS Targets, TLC

CONSTANTS s1, s2

MCSessions == {s1, s2}
Symmetric == Permutations(MCSessions)

MCBlank == {"", " "}
MCTexts == {"", " ", "alpha", "ALPHA.", "beta", "BETA.", "ghost", "CN", "cn", "JP", "steve", "alex"}
MCLower == [t \in MCTexts \cup {"ALPHA", "BETA"} |->
              CASE t = "ALPHA" -> "alpha" [] t = "BETA" -> "beta" [] t = "CN" -> "cn" [] t = "JP" -> "jp" [] OTHER -> t]
MCUndotted == [t \in MCTexts |-> IF t = "ALPHA." THEN "ALPHA" ELSE IF t = "BETA." THEN "BETA" ELSE t]
MCWithin == {<<"cloud", "Cloud Transit">>}

Target(host, srv) == [host |-> host, port |-> 25565, resolve_srv |-> srv]
Is(value) == [bang |-> FALSE, value |-> value]
Not(value) == [bang |-> TRUE, value |-> value]
Empty == [field \in Fields |-> {}]
Unasked == [kind \in Kinds |-> [expected |-> NONE, negated |-> FALSE]]
Rule(priority, line, group, only) ==
    [priority |-> priority, line |-> line, group |-> group, only |-> only, never |-> Empty,
     security |-> Unasked]

Rules == {
    Rule(0, "cn", NONE, [Empty EXCEPT !["countries"] = {Is("cn")}]),
    Rule(0, "", "pool", [Empty EXCEPT !["countries"] = {Not("CN")}]),
    Rule(3, "pool", " ", [Empty EXCEPT !["players"] = {Is("steve")}]),
    [Rule(5, "global", NONE, [Empty EXCEPT !["hosts"] = {Is("BETA.")}])
       EXCEPT !.never["players"] = {Is("alex")},
              !.security["vpn"] = [expected |-> TRUE, negated |-> FALSE]]}

Pool(mode) == [group_name |-> "pool", priority |-> 5, mode |-> mode, hosts |-> <<"p1", "p2">>,
               port |-> 25565, resolve_srv |-> FALSE]
Lines == [name \in {"global", "cn"} |-> Target(name, name = "global")]
RoutingOf(default, rules, mode) ==
    [default_line |-> default, lines |-> Lines, rules |-> rules, group |-> <<Pool(mode)>>]
Single(routing) == [routing |-> routing, vhosts |-> NONE]
File(name, routing) == [name |-> name, routing |-> routing]
Hosts(default, files) == [routing |-> NONE, vhosts |-> [default |-> default, files |-> files]]
ByGroup(mode) == RoutingOf("pool", <<>>, mode)

\* Files that validate() turns down: a duplicate vhost, a duplicate group, a
\* rule without its target, both kinds of routing.
Damaged == {
    Hosts("alpha", <<File("ALPHA.", FromSingleTarget(Target("a", TRUE))), File("alpha", ByGroup("random"))>>),
    Single([ByGroup("random") EXCEPT !.group = <<Pool("random"), Pool("ip_hash")>>]),
    Single([ByGroup("random") EXCEPT !.rules = <<Rule(0, "ghost", NONE, Empty)>>]),
    Single([ByGroup("random") EXCEPT !.rules = <<Rule(0, "cn", "pool", Empty)>>]),
    [routing |-> ByGroup("random"), vhosts |-> [default |-> "alpha", files |-> <<File("alpha", ByGroup("random"))>>]]}

FirstConfigs ==
    {Single(RoutingOf("global", <<pair[1], pair[2]>>, "round_robin")) :
       pair \in {p \in Rules \X Rules : p[1] # p[2]}}
      \cup {Single(RoutingOf("", <<rule>>, "round_robin")) : rule \in {r \in Rules : r.priority = 5}}
      \cup Damaged
LaterConfigs ==
    {Single(ByGroup("random")),
     Hosts("alpha", <<File("ALPHA.", FromSingleTarget(Target("a", TRUE))), File("beta", ByGroup("ip_hash"))>>)}
      \cup Damaged

MCFiles == FoldSet(LAMBDA config, files : Append(files, config), <<>>, FirstConfigs \cup LaterConfigs)
MCFirstFiles == {file \in DOMAIN MCFiles : MCFiles[file] \in FirstConfigs}
MCLaterFiles == {file \in DOMAIN MCFiles : MCFiles[file] \in LaterConfigs}

Listing(vpn) == [kind \in Kinds |-> IF kind = "vpn" THEN vpn ELSE {}]
MCLists == <<
    [enabled |-> TRUE, blocks |-> {"tor"}, allowlist |-> {}, lists |-> Listing({"ip1"}), isps |-> {}],
    [enabled |-> TRUE, blocks |-> {"vpn"}, allowlist |-> {"ip1"}, lists |-> Listing({"ip1"}), isps |-> {"cloud"}]>>

Asking(ip, host, country, isp, player) ==
    [ip |-> ip, says |-> [Empty EXCEPT !["hosts"] = host, !["countries"] = country, !["provinces"] = NONE,
                          !["cities"] = NONE, !["isp_contains"] = isp, !["players"] = player]]
MCRequests == <<
    Asking("ip1", "ghost", "CN", NONE, "alex"),
    Asking("ip2", "beta", "JP", "Cloud Transit", "steve")>>
MCHash == [ip \in {"ip1", "ip2"} |-> IF ip = "ip1" THEN 6 ELSE 9]

Record(priority, weight, host, port) ==
    [priority |-> priority, weight |-> weight, host |-> host, port |-> port]
MCAnswers == {
    <<>>,
    <<Record(0, 0, ".", 0)>>,
    <<Record(1, 2, "b1", 25565), Record(1, 0, "b2", 25565), Record(0, 9, ".", 1), Record(0, 9, "b3", 0),
      Record(2, 5, "b4", 25565), Record(1, 1, "b5", 25565)>>,
    <<Record(1, 0, "b1", 25565), Record(1, 0, "b2", 25565)>>}
=============================================================================
