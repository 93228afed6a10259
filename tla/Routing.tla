------------------------------ MODULE Routing ------------------------------
(***************************************************************************)
(* How a configuration chooses a line or a group for a request (config.rs),*)
(* and what validate() lets through.  Names, host names and keywords are   *)
(* plain values; the constants say how they compare.                       *)
(***************************************************************************)
EXTENDS Integers, Sequences

CONSTANTS
    NONE,      \* Option::None
    Blank,     \* texts that trim to nothing
    TooLong,   \* texts of more than 255 bytes
    Lower,     \* function: a text in lower case
    Undotted,  \* function: a text without its final dots
    Within     \* <<keyword, text>>: the text contains the keyword, ignoring case

Fields == {"hosts", "countries", "provinces", "cities", "isp_contains", "players"}
Kinds == {"tor", "vpn", "spam"}
Modes == {"round_robin", "random", "ip_hash"}

SameHost(a, b) == Lower[Undotted[a]] = Lower[Undotted[b]]

-----------------------------------------------------------------------------
(* The security check, which the rules may ask as well (security.rs).      *)

\* The address is in a list of that kind and not in the allowlist; a VPN may
\* be known by the name of its provider, too.
Listed(security, kind, request) ==
    /\ request.ip \notin security.allowlist
    /\ \/ request.ip \in security.lists[kind]
       \/ /\ kind = "vpn"
          /\ \E keyword \in security.isps : <<keyword, request.says["isp_contains"]>> \in Within

\* The reason to turn a client away; Tor is looked for first, Spam last.
Check(security, request) ==
    LET Found(kind) == security.enabled /\ kind \in security.blocks /\ Listed(security, kind, request)
    IN  IF Found("tor") THEN "tor"
        ELSE IF Found("vpn") THEN "vpn"
        ELSE IF Found("spam") THEN "spam" ELSE NONE

-----------------------------------------------------------------------------
(* Rules.  An entry of a list is a value, or the negation of one ("!CN").  *)

Hits(field, value, actual) ==
    CASE field = "hosts" -> SameHost(value, actual)
      [] field = "isp_contains" -> <<value, actual>> \in Within
      [] OTHER -> Lower[value] = Lower[actual]

\* matches_host_list, matches_text_list, matches_contains_list.
MatchesList(field, positive, negative, actual) ==
    LET wanted == {entry \in positive : ~entry.bang}
        unwanted == negative \cup (positive \ wanted)
        HitsOne(entries) == actual # NONE /\ \E entry \in entries : Hits(field, entry.value, actual)
    IN  (wanted = {} \/ HitsOne(wanted)) /\ ~HitsOne(unwanted)

\* A rule about players matches nobody while the name is not known.
MatchesPlayer(rule, request) ==
    rule.only["players"] \cup rule.never["players"] = {} \/ request.says["players"] # NONE

MatchesBool(condition, actual) ==
    /\ condition.expected \in {NONE, actual}
    /\ ~(condition.negated /\ actual)

Matches(rule, request, security) ==
    /\ \A field \in Fields :
          MatchesList(field, rule.only[field], rule.never[field], request.says[field])
    /\ MatchesPlayer(rule, request)
    /\ \A kind \in Kinds : MatchesBool(rule.security[kind], Listed(security, kind, request))

\* The positions of the groups of a name, the first of which is found.
Groups(routing, name) == {i \in DOMAIN routing.group : routing.group[i].group_name = name}
FindGroup(routing, name) ==
    LET named == Groups(routing, name) IN
    IF named = {} THEN 0 ELSE CHOOSE i \in named : \A j \in named : i <= j

HasGroup(rule) == rule.group # NONE /\ rule.group \notin Blank
HasLine(rule) == rule.line \notin Blank
GroupTargetName(rule) ==
    IF HasGroup(rule) THEN rule.group ELSE IF HasLine(rule) THEN rule.line ELSE NONE

EffectivePriority(rule, routing) ==
    LET i == FindGroup(routing, GroupTargetName(rule)) IN
    IF rule.priority = 0 /\ i # 0 THEN routing.group[i].priority ELSE rule.priority

\* One pass over the rules, in which a later one must have a higher priority to
\* replace the one selected; no rule may match.
SelectMatchingRule(routing, request, security) ==
    LET rules == routing.rules
        matching == {i \in DOMAIN rules : Matches(rules[i], request, security)}
        Priority(i) == EffectivePriority(rules[i], routing)
        Replaces(i, j) == Priority(i) > Priority(j)
    IN  {i \in matching : \A j \in matching : IF j < i THEN Replaces(i, j) ELSE ~Replaces(j, i)}

\* A route is a line, or a group by its position.  What selects one gives a set,
\* which is empty for None.
Line(name) == [name |-> name, group |-> 0]
Group(routing, name) == [name |-> name, group |-> FindGroup(routing, name)]

SelectTarget(routing, name) ==
    IF name \in DOMAIN routing.lines THEN {Line(name)}
    ELSE IF FindGroup(routing, name) # 0 THEN {Group(routing, name)}
    ELSE {}

SelectRoute(routing, request, security) ==
    LET selected == SelectMatchingRule(routing, request, security)
        lines == ({routing.rules[i].line : i \in selected} \cap DOMAIN routing.lines) \ Blank
        groups == {GroupTargetName(routing.rules[i]) : i \in selected}
    IN  IF lines # {} THEN {Line(name) : name \in lines}
        ELSE IF \E name \in groups : FindGroup(routing, name) # 0
        THEN {Group(routing, name) : name \in groups}
        ELSE SelectTarget(routing, routing.default_line)

\* A vhost file with nothing but a target.
FromSingleTarget(target) ==
    [default_line |-> "default", lines |-> [name \in {"default"} |-> target],
     rules |-> <<>>, group |-> <<>>]

-----------------------------------------------------------------------------
(* Virtual hosts: a sequence of names with their routing.                  *)

FindVhost(vhosts, host) ==
    LET named == {i \in DOMAIN vhosts.files : SameHost(vhosts.files[i].name, host)} IN
    IF named = {} THEN 0 ELSE CHOOSE i \in named : \A j \in named : i <= j

SelectVhost(vhosts, host) ==
    IF host # NONE /\ FindVhost(vhosts, host) # 0 THEN FindVhost(vhosts, host)
    ELSE FindVhost(vhosts, vhosts.default)

\* The routing a request meets; a configuration has vhosts or one routing.
RoutingFor(config, vhost) ==
    IF config.vhosts = NONE THEN config.routing ELSE config.vhosts.files[vhost].routing

\* The vhost, 0 for none, and the route in it.
Select(config, request, security) ==
    LET vhost == IF config.vhosts = NONE THEN 0 ELSE SelectVhost(config.vhosts, request.says["hosts"])
    IN  {[vhost |-> vhost, name |-> route.name, group |-> route.group] :
           route \in SelectRoute(RoutingFor(config, vhost), request, security)}

-----------------------------------------------------------------------------
(* validate(): what a configuration must satisfy to be published.          *)

ValidHost(host) == host \notin Blank \cup TooLong
ValidTarget(target) == ValidHost(target.host) /\ target.port # 0

ValidGroup(group) ==
    /\ group.group_name \notin Blank
    /\ group.hosts # <<>> /\ \A i \in DOMAIN group.hosts : ValidHost(group.hosts[i])
    /\ group.port # 0
    /\ group.mode \in Modes

HasTarget(routing, name) == name \in DOMAIN routing.lines \/ Groups(routing, name) # {}

ValidRule(routing, rule) ==
    /\ HasLine(rule) # HasGroup(rule)
    /\ HasLine(rule) => HasTarget(routing, rule.line)
    /\ HasGroup(rule) => Groups(routing, rule.group) # {}

ValidRouting(routing) ==
    /\ DOMAIN routing.lines # {} \/ routing.group # <<>>
    /\ IF routing.default_line = "" THEN routing.rules # <<>>
                                    ELSE HasTarget(routing, routing.default_line)
    /\ \A name \in DOMAIN routing.lines : ValidTarget(routing.lines[name])
    /\ \A i \in DOMAIN routing.group :
          /\ ValidGroup(routing.group[i])
          /\ routing.group[i].group_name \notin DOMAIN routing.lines
          /\ \A j \in 1..(i - 1) : routing.group[j].group_name # routing.group[i].group_name
    /\ \A i \in DOMAIN routing.rules : ValidRule(routing, routing.rules[i])

ValidVhosts(vhosts) ==
    /\ vhosts.files # <<>>
    /\ vhosts.default \notin Blank
    /\ FindVhost(vhosts, vhosts.default) # 0
    /\ \A i \in DOMAIN vhosts.files :
          /\ Undotted[vhosts.files[i].name] \notin {""} \cup TooLong
          /\ \A j \in 1..(i - 1) : ~SameHost(vhosts.files[j].name, vhosts.files[i].name)
          /\ ValidRouting(vhosts.files[i].routing)

Valid(config) ==
    /\ (config.routing = NONE) # (config.vhosts = NONE)
    /\ config.routing # NONE => ValidRouting(config.routing)
    /\ config.vhosts # NONE => ValidVhosts(config.vhosts)
=============================================================================
