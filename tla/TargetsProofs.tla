--------------------------- MODULE TargetsProofs ---------------------------
(***************************************************************************)
(* The routes, the turns and the records that sessions get, for all        *)
(* configurations, lists, requests and answers.                            *)
(***************************************************************************)
EXTENDS Targets, SrvProofs

-----------------------------------------------------------------------------
(* Routing: what validation lets through has one meaning.                  *)

\* At most one vhost has a given host's name, and it is found.
LEMMA OneVhostFound ==
  ASSUME NEW vhosts, IsSequence(vhosts.files), ValidVhosts(vhosts), NEW host,
         NEW v \in DOMAIN vhosts.files, SameHost(vhosts.files[v].name, host)
  PROVE  /\ {i \in DOMAIN vhosts.files : SameHost(vhosts.files[i].name, host)} = {v}
         /\ FindVhost(vhosts, host) = v /\ v # 0
<1> DEFINE named == {i \in DOMAIN vhosts.files : SameHost(vhosts.files[i].name, host)}
<1>1. DOMAIN vhosts.files \subseteq Nat \ {0}
  BY SequenceDomain
<1>2. ASSUME NEW i \in named, NEW j \in named, j < i PROVE FALSE
  <2>1. j \in 1 .. (i - 1)
    BY <1>1, <1>2, SequenceDomain
  <2>2. SameHost(vhosts.files[j].name, vhosts.files[i].name)
    BY DEF SameHost
  <2> QED
    BY <2>1, <2>2 DEF ValidVhosts
<1>3. named = {v}
  BY <1>1, <1>2
<1>4. FindVhost(vhosts, host) = CHOOSE i \in named : \A j \in named : i <= j
  BY <1>3 DEF FindVhost
<1>5. v <= v
  BY <1>1
<1> HIDE DEF named
<1>6. FindVhost(vhosts, host) = v
  BY <1>3, <1>4, <1>5
<1> QED
  BY <1>1, <1>3, <1>6 DEF named

\* Every host has exactly one vhost, and SelectVhost selects it.
LEMMA VhostChoice ==
  ASSUME NEW vhosts, IsSequence(vhosts.files), ValidVhosts(vhosts), NEW host
  PROVE  /\ SelectVhost(vhosts, host) \in DOMAIN vhosts.files
         /\ Serving(vhosts, host) = {SelectVhost(vhosts, host)}
<1> DEFINE Of(name) == {i \in DOMAIN vhosts.files : SameHost(vhosts.files[i].name, name)}
<1>1. ASSUME NEW name, Of(name) # {}
      PROVE  Of(name) = {FindVhost(vhosts, name)} /\ FindVhost(vhosts, name) # 0
  BY <1>1, OneVhostFound
<1>2. ASSUME NEW name, Of(name) = {} PROVE FindVhost(vhosts, name) = 0
  BY <1>2 DEF FindVhost
<1>3. Of(vhosts.default) # {}
  BY <1>2 DEF ValidVhosts
<1>4. Serving(vhosts, host) = IF host = NONE \/ Of(host) = {} THEN Of(vhosts.default) ELSE Of(host)
  BY DEF Serving
<1>5. \A name : Of(name) \subseteq DOMAIN vhosts.files
  OBVIOUS
<1> HIDE DEF Of
<1>6. CASE host = NONE \/ Of(host) = {}
  <2>1. SelectVhost(vhosts, host) = FindVhost(vhosts, vhosts.default)
    BY <1>2, <1>6 DEF SelectVhost
  <2> QED
    BY <1>1, <1>3, <1>4, <1>5, <1>6, <2>1
<1>7. CASE ~(host = NONE \/ Of(host) = {})
  <2>1. SelectVhost(vhosts, host) = FindVhost(vhosts, host)
    BY <1>1, <1>7 DEF SelectVhost
  <2> QED
    BY <1>1, <1>4, <1>5, <1>7, <2>1
<1> QED
  BY <1>6, <1>7

\* A name stands for at most one group, and that one is found.
LEMMA OneGroupFound ==
  ASSUME NEW routing, WellTyped(routing), ValidRouting(routing), NEW name,
         NEW g \in Groups(routing, name)
  PROVE  /\ Groups(routing, name) = {g}
         /\ FindGroup(routing, name) = g /\ g \in DOMAIN routing.group /\ g # 0
<1> DEFINE named == Groups(routing, name)
<1>1. DOMAIN routing.group = 1 .. Len(routing.group) /\ Len(routing.group) \in Nat
  BY SequenceDomain DEF WellTyped
<1>2. g \in DOMAIN routing.group /\ named \subseteq Nat /\ g # 0
  BY <1>1 DEF Groups
<1>3. ASSUME NEW i \in named, NEW j \in named, j < i PROVE FALSE
  <2>1. j \in 1 .. (i - 1) /\ i \in DOMAIN routing.group
    BY <1>1, <1>3 DEF Groups
  <2>2. routing.group[j].group_name = routing.group[i].group_name
    BY DEF Groups
  <2> QED
    BY <2>1, <2>2 DEF ValidRouting
<1>4. named = {g}
  BY <1>2, <1>3
<1>5. FindGroup(routing, name) = CHOOSE i \in named : \A j \in named : i <= j
  BY <1>4 DEF FindGroup
<1>6. g <= g
  BY <1>2
<1> HIDE DEF named
<1>7. FindGroup(routing, name) = g
  BY <1>4, <1>5, <1>6
<1> QED
  BY <1>2, <1>4, <1>7 DEF named

LEMMA NoGroupFound ==
  ASSUME NEW routing, NEW name, Groups(routing, name) = {}
  PROVE  FindGroup(routing, name) = 0
BY DEF FindGroup

LEMMA FoundOrNot ==
  ASSUME NEW routing, WellTyped(routing), ValidRouting(routing), NEW name
  PROVE  /\ FindGroup(routing, name) = 0 <=> Groups(routing, name) = {}
         /\ FindGroup(routing, name) # 0 => FindGroup(routing, name) \in DOMAIN routing.group
BY OneGroupFound, NoGroupFound

\* Priorities and names of the code are those README.md gives to a valid rule.
LEMMA RuleMeaning ==
  ASSUME NEW routing, WellTyped(routing), ValidRouting(routing), NEW k \in DOMAIN routing.rules
  PROVE  LET rule == routing.rules[k] IN
         /\ GroupTargetName(rule) = Named(rule)
         /\ EffectivePriority(rule, routing) = PriorityOf(rule, routing)
         /\ PriorityOf(rule, routing) \in Int
<1> DEFINE rule == routing.rules[k]
           name == Named(rule)
<1>1. ValidRule(routing, rule) /\ rule.priority \in Int
  BY DEF ValidRouting, WellTyped
<1>2. GroupTargetName(rule) = name
  BY <1>1 DEF ValidRule, HasLine, HasGroup, GroupTargetName, Named
<1>3. CASE Groups(routing, name) = {}
  <2>1. FindGroup(routing, GroupTargetName(rule)) = 0
    BY <1>2, <1>3, NoGroupFound
  <2> QED
    BY <1>1, <1>2, <1>3, <2>1 DEF EffectivePriority, PriorityOf
<1>4. CASE Groups(routing, name) # {}
  <2>1. PICK g : g \in Groups(routing, name)
    BY <1>4
  <2>2. Groups(routing, name) = {g} /\ FindGroup(routing, GroupTargetName(rule)) = g
        /\ g \in DOMAIN routing.group /\ g # 0
    BY <1>2, <2>1, OneGroupFound
  <2> DEFINE chosen == CHOOSE group \in ToSet(routing.group) : group.group_name = Named(rule)
  <2>3. chosen = routing.group[g]
    <3>1. routing.group[g] \in ToSet(routing.group) /\ routing.group[g].group_name = name
      BY <2>1, <2>2 DEF ToSet, Groups
    <3>2. ASSUME NEW group \in ToSet(routing.group), group.group_name = name
          PROVE  group = routing.group[g]
      <4>1. PICK i \in DOMAIN routing.group : group = routing.group[i]
        BY DEF ToSet
      <4>2. i \in Groups(routing, name)
        BY <3>2, <4>1 DEF Groups
      <4> QED
        BY <2>2, <4>1, <4>2
    <3> QED
      BY <3>1, <3>2
  <2>4. routing.group[g].priority \in Int
    BY <2>2 DEF WellTyped
  <2>5. PriorityOf(rule, routing) =
          IF rule.priority # 0 THEN rule.priority ELSE routing.group[g].priority
    <3>1. PriorityOf(rule, routing) =
            IF rule.priority # 0 \/ Groups(routing, Named(rule)) = {} THEN rule.priority ELSE chosen.priority
      BY Zenon DEF PriorityOf
    <3> QED
      BY <1>4, <2>3, <3>1
  <2>6. EffectivePriority(rule, routing) =
          IF rule.priority = 0 THEN routing.group[g].priority ELSE rule.priority
    BY <2>2 DEF EffectivePriority
  <2> HIDE DEF rule
  <2>7. EffectivePriority(rule, routing) = PriorityOf(rule, routing) /\ PriorityOf(rule, routing) \in Int
    BY <1>1, <2>4, <2>5, <2>6
  <2> QED
    BY <1>2, <2>7 DEF rule
<1> QED
  BY <1>3, <1>4

\* The selected rules are the best ones of NamedFor: at most one.
LEMMA RuleChoice ==
  ASSUME NEW routing, WellTyped(routing), ValidRouting(routing), NEW request, NEW security
  PROVE  LET selected == SelectMatchingRule(routing, request, security) IN
         \/ selected = {} /\ NamedFor(routing, request, security) = routing.default_line
         \/ \E k \in DOMAIN routing.rules :
               selected = {k} /\ NamedFor(routing, request, security) = Named(routing.rules[k])
<1> DEFINE rules == routing.rules
           matching == {i \in DOMAIN rules : Matches(rules[i], request, security)}
           P(i) == PriorityOf(rules[i], routing)
           best == {i \in matching : \A j \in matching : P(i) > P(j) \/ (P(i) = P(j) /\ i <= j)}
           selected == SelectMatchingRule(routing, request, security)
<1>1. matching \subseteq DOMAIN rules /\ DOMAIN rules \subseteq Nat
  BY SequenceDomain DEF WellTyped
<1>2. \A i \in DOMAIN rules : EffectivePriority(rules[i], routing) = P(i) /\ P(i) \in Int
  BY RuleMeaning
<1>3. selected = {i \in matching : \A j \in matching :
                    IF j < i THEN P(i) > P(j) ELSE ~(P(j) > P(i))}
  <2>1. \A i, j \in matching : (EffectivePriority(rules[i], routing) > EffectivePriority(rules[j], routing)) = (P(i) > P(j))
    BY <1>1, <1>2
  <2> QED
    BY <2>1 DEF SelectMatchingRule
<1>4. NamedFor(routing, request, security) =
        IF best = {} THEN routing.default_line ELSE Named(rules[CHOOSE i \in best : TRUE])
  BY DEF NamedFor
<1> HIDE DEF P, matching, selected
<1>5. selected = best
  <2>1. \A i, j \in matching : i \in Nat /\ j \in Nat /\ P(i) \in Int /\ P(j) \in Int
    BY <1>1, <1>2
  <2>2. \A i, j \in matching :
          (IF j < i THEN P(i) > P(j) ELSE ~(P(j) > P(i))) = (P(i) > P(j) \/ (P(i) = P(j) /\ i <= j))
    BY <2>1
  <2> QED
    BY <1>3, <2>2
<1>6. \A i, j \in best : i = j
  <2>1. \A i, j \in matching : i \in Nat /\ j \in Nat /\ P(i) \in Int /\ P(j) \in Int
    BY <1>1, <1>2
  <2> QED
    BY <2>1
<1>7. best \subseteq DOMAIN rules
  BY <1>1
<1> HIDE DEF best, rules
<1>8. CASE best = {}
  BY <1>4, <1>5, <1>8 DEF selected
<1>9. CASE best # {}
  <2>1. PICK k : best = {k}
    BY <1>6, <1>9
  <2>2. (CHOOSE i \in best : TRUE) = k
    BY <2>1
  <2>3. k \in DOMAIN rules
    BY <1>7, <2>1
  <2> QED
    BY <1>4, <1>5, <1>9, <2>1, <2>2, <2>3 DEF selected, rules
<1> QED
  BY <1>8, <1>9

LEMMA OneRoute ==
  ASSUME NEW n, NEW g, NEW routes, routes = {[name |-> n, group |-> g]}
  PROVE  routes # {} /\ \A route \in routes : route.name = n /\ route.group = g
OBVIOUS

\* The route is the one named, and only an empty default line gives none.
LEMMA RouteChoice ==
  ASSUME NEW routing, WellTyped(routing), ValidRouting(routing), NEW request, NEW security
  PROVE  LET routes == SelectRoute(routing, request, security)
             name == NamedFor(routing, request, security)
         IN  /\ routes = {} => name = ""
             /\ \A route \in routes :
                    /\ route.name = name
                    /\ route.group = 0 => name \in DOMAIN routing.lines
                    /\ route.group # 0 => route.group \in DOMAIN routing.group
<1> DEFINE name == NamedFor(routing, request, security)
           selected == SelectMatchingRule(routing, request, security)
           lines == ({routing.rules[i].line : i \in selected} \cap DOMAIN routing.lines) \ Blank
           groups == {GroupTargetName(routing.rules[i]) : i \in selected}
           routes == SelectRoute(routing, request, security)
           Good == /\ routes = {} => name = ""
                   /\ \A route \in routes :
                          /\ route.name = name
                          /\ route.group = 0 => name \in DOMAIN routing.lines
                          /\ route.group # 0 => route.group \in DOMAIN routing.group
<1> SUFFICES Good
  OBVIOUS
<1>1. routes = IF lines # {} THEN {Line(n) : n \in lines}
               ELSE IF \E n \in groups : FindGroup(routing, n) # 0
               THEN {Group(routing, n) : n \in groups}
               ELSE SelectTarget(routing, routing.default_line)
  BY DEF SelectRoute
<1>2. \A n : FindGroup(routing, n) # 0 => FindGroup(routing, n) \in DOMAIN routing.group
  BY FoundOrNot
<1>3. CASE selected = {} /\ name = routing.default_line
  <2>1. routes = SelectTarget(routing, name)
    BY <1>1, <1>3
  <2>2. name # "" => name \in DOMAIN routing.lines \/ FindGroup(routing, name) # 0
    BY <1>3, FoundOrNot DEF ValidRouting, HasTarget
  <2>3. FindGroup(routing, name) # 0 => FindGroup(routing, name) \in DOMAIN routing.group
    BY <1>2
  <2> HIDE DEF name, routes
  <2>4. CASE name \in DOMAIN routing.lines
    <3>1. routes = {[name |-> name, group |-> 0]}
      BY <2>1, <2>4 DEF SelectTarget, Line
    <3> QED
      BY <2>4, <3>1, OneRoute
  <2>5. CASE name \notin DOMAIN routing.lines /\ FindGroup(routing, name) # 0
    <3>1. routes = {[name |-> name, group |-> FindGroup(routing, name)]}
      BY <2>1, <2>5 DEF SelectTarget, Group
    <3>2. routes # {} /\ \A route \in routes : route.name = name /\ route.group = FindGroup(routing, name)
      BY <3>1, OneRoute
    <3>3. routes # {} /\ \A route \in routes :
            route.name = name /\ route.group # 0 /\ route.group \in DOMAIN routing.group
      BY <2>3, <2>5, <3>2
    <3> QED
      BY <3>3
  <2>6. CASE name \notin DOMAIN routing.lines /\ FindGroup(routing, name) = 0
    <3>1. routes = {} /\ name = ""
      BY <2>1, <2>2, <2>6 DEF SelectTarget
    <3> QED
      BY <3>1
  <2> QED
    BY <2>4, <2>5, <2>6
<1>4. ASSUME NEW k \in DOMAIN routing.rules, selected = {k}, name = Named(routing.rules[k])
      PROVE  Good
  <2> DEFINE rule == routing.rules[k]
  <2>1. GroupTargetName(rule) = name
    BY <1>4, RuleMeaning
  <2>2. ValidRule(routing, rule)
    BY DEF ValidRouting
  <2>3. lines = ({rule.line} \cap DOMAIN routing.lines) \ Blank /\ groups = {name}
    BY <1>4, <2>1
  <2>4. name = IF rule.line \in Blank THEN rule.group ELSE rule.line
    BY <1>4 DEF Named
  <2>5. lines = {} => FindGroup(routing, name) # 0
    <3>1. lines = {} => Groups(routing, name) # {}
      BY <2>2, <2>3, <2>4 DEF ValidRule, HasLine, HasGroup, HasTarget
    <3> QED
      BY <3>1, FoundOrNot
  <2>6. lines # {} => lines = {name} /\ name \in DOMAIN routing.lines
    BY <2>3, <2>4
  <2> HIDE DEF name, lines, groups, routes
  <2>7. CASE lines # {}
    <3>1. routes = {[name |-> name, group |-> 0]}
      BY <1>1, <2>6, <2>7 DEF Line
    <3>2. routes # {} /\ \A route \in routes : route.name = name /\ route.group = 0
      BY <3>1, OneRoute
    <3> QED
      BY <2>6, <2>7, <3>2
  <2>8. CASE lines = {}
    <3>1. routes = {[name |-> name, group |-> FindGroup(routing, name)]}
      BY <1>1, <2>3, <2>5, <2>8 DEF Group
    <3>2. FindGroup(routing, name) # 0 /\ FindGroup(routing, name) \in DOMAIN routing.group
      BY <1>2, <2>5, <2>8
    <3>3. routes # {} /\ \A route \in routes : route.name = name /\ route.group = FindGroup(routing, name)
      BY <3>1, OneRoute
    <3>4. routes # {} /\ \A route \in routes :
            route.name = name /\ route.group # 0 /\ route.group \in DOMAIN routing.group
      BY <3>2, <3>3
    <3> QED
      BY <3>4
  <2> QED
    BY <2>7, <2>8
<1> QED
  BY <1>3, <1>4, RuleChoice

\* A configuration that was loaded gives every request the route that is named
\* for it in its own vhost.
LEMMA SelectionIsRight ==
  ASSUME NEW file \in Loadable, NEW request, NEW security
  PROVE  LET config == Files[file]
             vhosts == config.vhosts
             serving == IF vhosts = NONE THEN {0} ELSE Serving(vhosts, request.says["hosts"])
             routes == Select(config, request, security)
         IN  \E vhost \in serving :
               LET name == NamedFor(RoutingFor(config, vhost), request, security) IN
               /\ serving = {vhost} /\ vhost \in Vhosts(config)
               /\ routes = {} => name = ""
               /\ \A route \in routes :
                     /\ route.vhost = vhost /\ route.name = name
                     /\ route.group # 0 => route.group \in DOMAIN RoutingFor(config, vhost).group
<1> DEFINE config == Files[file]
           host == request.says["hosts"]
           serving == IF config.vhosts = NONE THEN {0} ELSE Serving(config.vhosts, host)
           vhost == IF config.vhosts = NONE THEN 0 ELSE SelectVhost(config.vhosts, host)
           routing == RoutingFor(config, vhost)
           selected == SelectRoute(routing, request, security)
           routes == Select(config, request, security)
           name == NamedFor(routing, request, security)
<1>1. Valid(config) /\ file \in DOMAIN Files
  BY DEF Loadable
<1>2. vhost \in Vhosts(config) /\ serving = {vhost} /\ ValidRouting(routing)
  <2>1. CASE config.vhosts = NONE
    <3>1. ValidRouting(config.routing)
      BY <1>1, <2>1 DEF Valid
    <3> QED
      BY <2>1, <3>1 DEF Vhosts, RoutingFor
  <2>2. CASE config.vhosts # NONE
    <3>1. ValidVhosts(config.vhosts) /\ IsSequence(config.vhosts.files)
      BY <1>1, <2>2, TargetsAssumption DEF Valid, TargetsAssumption
    <3>2. SelectVhost(config.vhosts, host) \in DOMAIN config.vhosts.files
          /\ Serving(config.vhosts, host) = {SelectVhost(config.vhosts, host)}
      BY <3>1, VhostChoice
    <3>3. ValidRouting(config.vhosts.files[SelectVhost(config.vhosts, host)].routing)
      BY <3>1, <3>2 DEF ValidVhosts
    <3> QED
      BY <2>2, <3>2, <3>3 DEF Vhosts, RoutingFor
  <2> QED
    BY <2>1, <2>2
<1>3. WellTyped(routing)
  BY <1>2, TargetsAssumption DEF TargetsAssumption
<1>4. routes = {[vhost |-> vhost, name |-> route.name, group |-> route.group] : route \in selected}
  BY DEF Select
<1>5. /\ selected = {} => name = ""
      /\ \A route \in selected :
             /\ route.name = name
             /\ route.group # 0 => route.group \in DOMAIN routing.group
  BY <1>2, <1>3, RouteChoice
<1> DEFINE groups == DOMAIN routing.group
<1>51. /\ selected = {} => name = ""
      /\ \A route \in selected : route.name = name /\ (route.group # 0 => route.group \in groups)
  BY <1>5
<1> HIDE DEF config, serving, vhost, routing, selected, routes, name, groups
<1>6. /\ routes = {} => name = ""
      /\ \A route \in routes :
             /\ route.vhost = vhost /\ route.name = name
             /\ route.group # 0 => route.group \in groups
  <2>1. ASSUME NEW route \in routes
        PROVE  route.vhost = vhost /\ route.name = name /\ (route.group # 0 => route.group \in groups)
    <3>1. PICK r \in selected : route = [vhost |-> vhost, name |-> r.name, group |-> r.group]
      BY <1>4
    <3>2. route.vhost = vhost /\ route.name = r.name /\ route.group = r.group
      BY <3>1
    <3> QED
      BY <1>51, <3>2
  <2>2. routes = {} => selected = {}
    BY <1>4
  <2> QED
    BY <1>51, <2>1, <2>2
<1> QED
  BY <1>2, <1>6 DEF config, serving, routing, routes, name, groups

-----------------------------------------------------------------------------
(* A session by what it has decided.                                       *)

Told(told) ==
    \/ told = Idle
    \/ told \in [at : {"accepted", "refused", "no_route"}, state : States,
                 request : DOMAIN Requests, intent : {"status", "login"}]
    \/ /\ told.at \in {"routed", "resolved", "unavailable"}
       /\ told.state \in States
       /\ told.request \in DOMAIN Requests
       /\ told.intent \in {"status", "login"}

RequestOf(told) ==
    IF told.intent = "login" THEN Requests[told.request]
    ELSE [Requests[told.request] EXCEPT !.says["players"] = NONE]

RoutesFor(told) == Select(Files[told.state.file], RequestOf(told), Lists[told.state.lists])

ReasonFor(told) == Check(Lists[told.state.lists], Requests[told.request])

\* No session is both refused and sent on, and each for a reason of its own.
Decided(told) ==
    /\ told.at = "refused" => ReasonFor(told) # NONE
    /\ told.at \in {"no_route", "routed", "resolved", "unavailable"} => ReasonFor(told) = NONE
    /\ told.at = "no_route" => RoutesFor(told) = {}
    /\ told.at = "routed" => told.route \in RoutesFor(told)

LEMMA RoutesOfSession ==
  ASSUME NEW s
  PROVE  /\ RouteOf(s) = RoutesFor(session[s]) /\ RouteOf(s)' = RoutesFor(session[s]')
         /\ Reason(s) = ReasonFor(session[s]) /\ Reason(s)' = ReasonFor(session[s]')
BY DEF RouteOf, RoutesFor, Config, Request, Security, RequestOf, Reason, ReasonFor

LEMMA SameRoutes ==
  ASSUME NEW one, NEW other, one.state = other.state, one.request = other.request, one.intent = other.intent
  PROVE  RoutesFor(one) = RoutesFor(other) /\ ReasonFor(one) = ReasonFor(other)
BY DEF RoutesFor, RequestOf, ReasonFor

LEMMA SessionTypes ==
  ASSUME TypeOK, NEW s \in Sessions
  PROVE  /\ Told(session[s])
         /\ session[s].at # "idle" =>
              /\ session[s].state \in States /\ session[s].request \in DOMAIN Requests
              /\ session[s].intent \in {"status", "login"}
         /\ session[s].at = "accepted" =>
              session[s] \in [at : {"accepted"}, state : States,
                              request : DOMAIN Requests, intent : {"status", "login"}]
<1>1. Told(session[s])
  BY DEF TypeOK, Told
<1>2. Idle.at = "idle"
  BY DEF Idle
<1> QED
  BY <1>1, <1>2 DEF Told

\* A step of one session leaves the others alone.
LEMMA OneSessionSteps ==
  ASSUME TypeOK, NEW s \in Sessions, NEW told, Told(told), session' = [session EXCEPT ![s] = told]
  PROVE  /\ DOMAIN session' = Sessions
         /\ session'[s] = told
         /\ \A t \in Sessions \ {s} : session'[t] = session[t]
         /\ \A t \in Sessions : Told(session'[t])
<1>1. DOMAIN session = Sessions
  BY DEF TypeOK
<1>2. /\ DOMAIN session' = Sessions
      /\ session'[s] = told
      /\ \A t \in Sessions \ {s} : session'[t] = session[t]
  BY <1>1
<1>3. \A t \in Sessions : Told(session'[t])
  BY <1>2, SessionTypes
<1> QED
  BY <1>2, <1>3

\* What the steps of a session make of it.
LEMMA Ending ==
  ASSUME TypeOK, NEW s \in Sessions, session[s].at = "accepted",
         NEW at \in {"refused", "no_route"}, Ends(s, at)
  PROVE  \E told :
           /\ Told(told) /\ session' = [session EXCEPT ![s] = told]
           /\ told.at = at /\ told.state = session[s].state /\ told.request = session[s].request
           /\ told.intent = session[s].intent
<1> DEFINE told == [session[s] EXCEPT !.at = at]
<1>1. session[s] \in [at : {"accepted"}, state : States,
                      request : DOMAIN Requests, intent : {"status", "login"}]
  BY SessionTypes
<1>2. told \in [at : {at}, state : States, request : DOMAIN Requests, intent : {"status", "login"}]
      /\ told.state = session[s].state /\ told.request = session[s].request
      /\ told.intent = session[s].intent /\ told.at = at
  BY <1>1
<1>3. DOMAIN session = Sessions
  BY DEF TypeOK
<1>4. session' = [session EXCEPT ![s] = told]
  BY <1>3 DEF Ends
<1>5. told \in [at : {"accepted", "refused", "no_route"}, state : States,
                request : DOMAIN Requests, intent : {"status", "login"}]
  BY <1>2
<1> HIDE DEF told
<1>6. Told(told)
  BY <1>5 DEF Told
<1> QED
  BY <1>2, <1>4, <1>6

LEMMA Deciding ==
  ASSUME TypeOK, NEW s \in Sessions, session[s].at = "accepted", NEW route, NEW target,
         Routed(s, route, target)
  PROVE  \E told :
           /\ Told(told) /\ session' = [session EXCEPT ![s] = told]
           /\ told.at = "routed" /\ told.state = session[s].state /\ told.request = session[s].request
           /\ told.intent = session[s].intent /\ told.route = route
<1> DEFINE told == [at |-> "routed", state |-> session[s].state, request |-> session[s].request,
                    intent |-> session[s].intent, route |-> route, target |-> target]
<1>1. DOMAIN session = Sessions
  BY DEF TypeOK
<1>2. session' = [session EXCEPT ![s] = told]
  BY <1>1 DEF Routed
<1>3. told.at = "routed" /\ told.state = session[s].state /\ told.request = session[s].request
      /\ told.intent = session[s].intent /\ told.route = route
  OBVIOUS
<1> HIDE DEF told
<1>4. Told(told)
  BY <1>3, SessionTypes DEF Told
<1> QED
  BY <1>2, <1>3, <1>4

LEMMA Getting ==
  ASSUME TypeOK, NEW s \in Sessions, session[s].at = "routed", NEW at \in {"resolved", "unavailable"},
         NEW answer, NEW target, Got(s, at, answer, target)
  PROVE  \E told :
           /\ Told(told) /\ session' = [session EXCEPT ![s] = told]
           /\ told.at = at /\ told.state = session[s].state /\ told.request = session[s].request
           /\ told.target = session[s].target /\ told.answer = answer /\ told.got = target
<1> DEFINE told == [at |-> at, state |-> session[s].state, request |-> session[s].request,
                    intent |-> session[s].intent, route |-> session[s].route,
                    target |-> session[s].target, answer |-> answer, got |-> target]
<1>1. DOMAIN session = Sessions
  BY DEF TypeOK
<1>2. session' = [session EXCEPT ![s] = told]
  BY <1>1 DEF Got
<1>3. told.at = at /\ told.state = session[s].state /\ told.request = session[s].request
      /\ told.intent = session[s].intent /\ told.target = session[s].target
      /\ told.answer = answer /\ told.got = target
  OBVIOUS
<1> HIDE DEF told
<1>4. Told(told)
  BY <1>3, SessionTypes DEF Told
<1> QED
  BY <1>2, <1>3, <1>4

LEMMA Accepting ==
  ASSUME TypeOK, NEW s \in Sessions, NEW request \in DOMAIN Requests, NEW intent \in {"status", "login"},
         Accept(s, request, intent)
  PROVE  \E told :
           /\ Told(told) /\ session' = [session EXCEPT ![s] = told]
           /\ told.at = "accepted" /\ told.state = published
<1> DEFINE told == [at |-> "accepted", state |-> published, request |-> request, intent |-> intent]
<1>1. session' = [session EXCEPT ![s] = told]
  BY DEF Accept
<1>2. published \in States
  BY DEF TypeOK
<1>3. told \in [at : {"accepted", "refused", "no_route"}, state : States,
                request : DOMAIN Requests, intent : {"status", "login"}]
  BY <1>2
<1>4. told.at = "accepted" /\ told.state = published
  OBVIOUS
<1> HIDE DEF told
<1>5. Told(told)
  BY <1>3 DEF Told
<1> QED
  BY <1>1, <1>4, <1>5

\* SentAsAnswered, of what one session has decided.
AsksOf(told) == told.target.resolve_srv /\ told.state.resolver /\ told.target.host \notin Literals
SentRight(told) ==
    LET records == IF ~AsksOf(told) THEN {} ELSE ToSet(told.answer)
        usable == {record \in records : record.host # Root /\ record.port # 0}
    IN  IF usable = {}
        THEN told.got = IF \E record \in records : record.host = Root THEN NONE ELSE told.target
        ELSE \E record \in usable :
                /\ \A other \in usable : record.priority <= other.priority
                /\ told.got = [host |-> record.host, port |-> record.port, resolve_srv |-> FALSE]

\* The records by their positions.
LEMMA RecordsOfAnswer ==
  ASSUME NEW answer
  PROVE  /\ Usable(answer) = {} <=> {record \in ToSet(answer) : record.host # Root /\ record.port # 0} = {}
         /\ Unavailable(answer) <=> \E record \in ToSet(answer) : record.host = Root
         /\ \A i \in Candidates(answer) :
               /\ answer[i] \in ToSet(answer) /\ answer[i].host # Root /\ answer[i].port # 0
               /\ \A other \in ToSet(answer) :
                     other.host # Root /\ other.port # 0 => answer[i].priority <= other.priority
BY DEF Usable, Unavailable, Candidates, ToSet

LEMMA KeptRight ==
  ASSUME NEW s \in Sessions, NEW answer \in Answers, NEW told,
         told.state = session[s].state, told.target = session[s].target, told.answer = answer,
         \/ KeepConfigured(s, answer) /\ told.got = session[s].target
         \/ SayUnavailable(s, answer) /\ told.got = NONE
  PROVE  SentRight(told)
<1> DEFINE records == IF ~AsksOf(told) THEN {} ELSE ToSet(answer)
           usable == {record \in records : record.host # Root /\ record.port # 0}
<1>1. AsksOf(told) <=> Asks(s)
  BY DEF AsksOf, Asks
<1>2. usable = {}
  BY RecordsOfAnswer DEF KeepConfigured, SayUnavailable
<1>3. told.got = IF \E record \in records : record.host = Root THEN NONE ELSE told.target
  <2>1. CASE KeepConfigured(s, answer) /\ told.got = session[s].target
    BY <2>1, RecordsOfAnswer DEF KeepConfigured
  <2>2. CASE SayUnavailable(s, answer) /\ told.got = NONE
    BY <1>1, <2>2, RecordsOfAnswer DEF SayUnavailable
  <2> QED
    BY <2>1, <2>2
<1> QED
  BY <1>2, <1>3 DEF SentRight

LEMMA ResolvedRight ==
  ASSUME TypeOK, NEW s \in Sessions, NEW answer \in Answers, NEW told, ResolveTarget(s, answer),
         told.state = session[s].state, told.target = session[s].target, told.answer = answer,
         LET record == answer[Chosen(answer, sequence[session[s].state.load])] IN
         told.got = [host |-> record.host, port |-> record.port, resolve_srv |-> FALSE]
  PROVE  SentRight(told)
<1> DEFINE turn == sequence[session[s].state.load]
           i == Chosen(answer, turn)
           record == answer[i]
           usable == {other \in ToSet(answer) : other.host # Root /\ other.port # 0}
<1>1. AsksOf(told) /\ Usable(answer) # {}
  BY DEF ResolveTarget, AsksOf, Asks
<1>2. turn \in Nat
  <2>1. session[s].state \in States
    BY SessionTypes DEF ResolveTarget
  <2> QED
    BY <2>1 DEF TypeOK, States
<1>3. i \in Candidates(answer)
  <2>1. WellWeighed(answer)
    BY TargetsAssumption DEF TargetsAssumption
  <2> HIDE DEF turn
  <2> QED
    BY <1>1, <1>2, <2>1, ChosenIsCandidate
<1> HIDE DEF i
<1>4. record \in usable /\ \A other \in usable : record.priority <= other.priority
  BY <1>3, RecordsOfAnswer
<1>5. told.got = [host |-> record.host, port |-> record.port, resolve_srv |-> FALSE]
  BY DEF i
<1> HIDE DEF record
<1>6. usable = {other \in ToSet(told.answer) : other.host # Root /\ other.port # 0} /\ usable # {}
  BY <1>4
<1> QED
  BY <1>1, <1>4, <1>5, <1>6 DEF SentRight

\* What a step may make of a session: told stands for what session s has
\* decided then.
Becomes(s, told) ==
    \/ told.at = "accepted" /\ told.state = published
    \/ /\ told.state = session[s].state /\ session[s].at # "idle"
       /\ \/ /\ session[s].at = "accepted"
             /\ told.request = session[s].request /\ told.intent = session[s].intent
             /\ \/ told.at = "refused" /\ ReasonFor(session[s]) # NONE
                \/ /\ ReasonFor(session[s]) = NONE
                   /\ \/ told.at = "no_route" /\ RoutesFor(session[s]) = {}
                      \/ told.at = "routed" /\ told.route \in RoutesFor(session[s])
          \/ /\ session[s].at = "routed" /\ told.request = session[s].request
             /\ told.at \in {"resolved", "unavailable"} /\ told.answer \in Answers /\ SentRight(told)

LEMMA SessionStep ==
  ASSUME TypeOK, Next
  PROVE  \/ session' = session
         \/ \E s \in Sessions : \E told :
               Told(told) /\ session' = [session EXCEPT ![s] = told] /\ Becomes(s, told)
<1>1. CASE \/ \E file \in LaterFiles, lists \in DOMAIN Lists : Reload(file, lists)
           \/ \E lists \in DOMAIN Lists : Update(lists)
  BY <1>1 DEF Reload, Update
<1>2. ASSUME NEW s \in Sessions,
             \/ \E request \in DOMAIN Requests, intent \in {"status", "login"} : Accept(s, request, intent)
             \/ Refuse(s) \/ NoRoute(s) \/ RouteToLine(s) \/ RouteToGroup(s)
             \/ \E answer \in Answers :
                   KeepConfigured(s, answer) \/ SayUnavailable(s, answer) \/ ResolveTarget(s, answer)
      PROVE  \E told : Told(told) /\ session' = [session EXCEPT ![s] = told] /\ Becomes(s, told)
  <2>0. RouteOf(s) = RoutesFor(session[s]) /\ Reason(s) = ReasonFor(session[s])
    BY RoutesOfSession
  <2>1. ASSUME NEW request \in DOMAIN Requests, NEW intent \in {"status", "login"}, Accept(s, request, intent)
        PROVE  \E told : Told(told) /\ session' = [session EXCEPT ![s] = told] /\ Becomes(s, told)
    BY <2>1, Accepting DEF Becomes
  <2>2. CASE Refuse(s)
    BY <2>0, <2>2, Ending DEF Refuse, Becomes
  <2>3. CASE NoRoute(s)
    BY <2>0, <2>3, Ending DEF NoRoute, Becomes
  <2>4. CASE RouteToLine(s)
    <3>1. PICK route \in RouteOf(s) : Routed(s, route, RoutingFor(Config(s), route.vhost).lines[route.name])
      BY <2>4 DEF RouteToLine
    <3>2. session[s].at = "accepted" /\ Reason(s) = NONE
      BY <2>4 DEF RouteToLine
    <3> QED
      BY <2>0, <3>1, <3>2, Deciding DEF Becomes
  <2>5. CASE RouteToGroup(s)
    <3>1. PICK route \in RouteOf(s) : \E target : Routed(s, route, target)
      BY <2>5 DEF RouteToGroup
    <3>2. session[s].at = "accepted" /\ Reason(s) = NONE
      BY <2>5 DEF RouteToGroup
    <3> QED
      BY <2>0, <3>1, <3>2, Deciding DEF Becomes
  <2>6. ASSUME NEW answer \in Answers,
               KeepConfigured(s, answer) \/ SayUnavailable(s, answer) \/ ResolveTarget(s, answer)
        PROVE  \E told : Told(told) /\ session' = [session EXCEPT ![s] = told] /\ Becomes(s, told)
    <3>1. session[s].at = "routed"
      BY <2>6 DEF KeepConfigured, SayUnavailable, ResolveTarget
    <3>2. CASE KeepConfigured(s, answer)
      <4>1. Got(s, "resolved", answer, session[s].target)
        BY <3>2 DEF KeepConfigured
      <4> QED
        BY <3>1, <3>2, <4>1, Getting, KeptRight DEF Becomes
    <3>3. CASE SayUnavailable(s, answer)
      <4>1. Got(s, "unavailable", answer, NONE)
        BY <3>3 DEF SayUnavailable
      <4> QED
        BY <3>1, <3>3, <4>1, Getting, KeptRight DEF Becomes
    <3>4. CASE ResolveTarget(s, answer)
      <4> DEFINE record == answer[Chosen(answer, sequence[session[s].state.load])]
                 target == [host |-> record.host, port |-> record.port, resolve_srv |-> FALSE]
      <4>1. Got(s, "resolved", answer, target)
        BY <3>4 DEF ResolveTarget
      <4>2. PICK told :
              /\ Told(told) /\ session' = [session EXCEPT ![s] = told]
              /\ told.at = "resolved" /\ told.state = session[s].state /\ told.request = session[s].request
              /\ told.target = session[s].target /\ told.answer = answer /\ told.got = target
        BY <3>1, <4>1, Getting
      <4>3. SentRight(told)
        BY <3>4, <4>2, ResolvedRight
      <4> QED
        BY <3>1, <4>2, <4>3 DEF Becomes
    <3> QED
      BY <2>6, <3>2, <3>3, <3>4
  <2> QED
    BY <1>2, <2>1, <2>2, <2>3, <2>4, <2>5, <2>6
<1> QED
  BY <1>1, <1>2 DEF Next

-----------------------------------------------------------------------------
(* Types, routes, and the configuration of a load.                         *)

LEMMA RouteInVhost ==
  ASSUME NEW file \in Loadable, NEW request, NEW security, NEW route \in Select(Files[file], request, security)
  PROVE  /\ route.vhost \in Vhosts(Files[file])
         /\ route.group # 0 => route.group \in DOMAIN RoutingFor(Files[file], route.vhost).group
<1> DEFINE config == Files[file]
           serving == IF config.vhosts = NONE THEN {0} ELSE Serving(config.vhosts, request.says["hosts"])
           routes == Select(config, request, security)
<1>1. \E vhost \in serving :
        LET name == NamedFor(RoutingFor(config, vhost), request, security) IN
        /\ serving = {vhost} /\ vhost \in Vhosts(config)
        /\ routes = {} => name = ""
        /\ \A r \in routes :
              /\ r.vhost = vhost /\ r.name = name
              /\ r.group # 0 => r.group \in DOMAIN RoutingFor(config, vhost).group
  BY SelectionIsRight, Zenon
<1> HIDE DEF serving, routes
<1>2. PICK vhost \in serving :
        /\ vhost \in Vhosts(config)
        /\ \A r \in routes :
              r.vhost = vhost /\ (r.group # 0 => r.group \in DOMAIN RoutingFor(config, vhost).group)
  BY <1>1
<1> QED
  BY <1>2 DEF routes

LEMMA PoolOfRoute ==
  ASSUME TypeOK, NEW s \in Sessions, session[s].at = "accepted",
         NEW route \in RouteOf(s), route.group # 0
  PROVE  /\ <<route.vhost, route.group>> \in Pools
         /\ route.vhost \in Vhosts(Config(s))
         /\ route.group \in DOMAIN RoutingFor(Config(s), route.vhost).group
<1>1. session[s].state.file \in Loadable
  BY SessionTypes DEF States
<1>2. route.vhost \in Vhosts(Config(s)) /\ route.group \in DOMAIN RoutingFor(Config(s), route.vhost).group
  BY <1>1, RouteInVhost DEF Config, RouteOf
<1>3. <<route.vhost, route.group>> \in PoolsOf(Config(s))
  BY <1>2 DEF PoolsOf
<1> QED
  BY <1>1, <1>2, <1>3 DEF Pools, Config

LEMMA TargetsInit == Init => TargetsInv
<1> SUFFICES ASSUME Init PROVE TargetsInv
  OBVIOUS
<1>1. 1 \in Loads /\ 0 \in 0 .. MaxAccepts
  BY TargetsAssumption DEF TargetsAssumption, Loads
<1>2. published \in States /\ published.load = 1
  BY <1>1 DEF Init, Loaded, States
<1>3. Idle.at = "idle"
  BY DEF Idle
<1>4. given = EmptyBag /\ DOMAIN EmptyBag = {}
  BY DEF Init, EmptyBag, SetToBag
<1>5. TypeOK
  BY <1>1, <1>2 DEF Init, TypeOK
<1>6. KeepsRoute
  BY <1>3 DEF Init, KeepsRoute
<1>11. KeepsAnswer
  BY <1>3 DEF Init, KeepsAnswer
<1>7. Held = {published}
  BY DEF Init, Held
<1>8. OneFileEach
  BY <1>2, <1>7 DEF Init, OneFileEach
<1>9. GivenByLoad
  BY <1>4 DEF Init, GivenByLoad
<1>10. InRounds
  BY <1>4 DEF InRounds
<1> QED
  BY <1>5, <1>6, <1>8, <1>9, <1>10, <1>11 DEF TargetsInv

LEMMA TypeStep == TypeOK /\ [Next]_vars => TypeOK'
<1> SUFFICES ASSUME TypeOK, [Next]_vars PROVE TypeOK'
  OBVIOUS
<1> USE DEF Loads
<1>1. CASE UNCHANGED vars
  BY <1>1 DEF vars, TypeOK
<1>2. CASE Next
  <2>1. DOMAIN session' = Sessions /\ \A s \in Sessions : Told(session'[s])
    <3>1. CASE session' = session
      BY <3>1, SessionTypes DEF TypeOK
    <3>2. CASE session' # session
      BY <1>2, <3>2, SessionStep, OneSessionSteps
    <3> QED
      BY <3>1, <3>2
  <2>2. \A s \in Sessions : Told(session'[s]) = Told(session[s])'
    BY DEF Told
  <2>3. SUFFICES /\ published' \in States /\ loads' \in Loads
                 /\ turns' \in [Loads -> [Pools -> Nat]] /\ sequence' \in [Loads -> Nat]
                 /\ accepted' \in 0 .. MaxAccepts
    BY <2>1 DEF TypeOK, Told
  <2>4. ASSUME NEW file \in LaterFiles, NEW lists \in DOMAIN Lists, Reload(file, lists)
        PROVE  /\ published' \in States /\ loads' \in Loads
               /\ turns' \in [Loads -> [Pools -> Nat]] /\ sequence' \in [Loads -> Nat]
               /\ accepted' \in 0 .. MaxAccepts
    <3>1. file \in Loadable
      BY <2>4, TargetsAssumption DEF Reload, Loadable, TargetsAssumption
    <3>2. published.resolver \in BOOLEAN /\ loads + 1 \in Loads
      BY <2>4, TargetsAssumption DEF TypeOK, States, Reload, TargetsAssumption
    <3> QED
      BY <2>4, <3>1, <3>2 DEF TypeOK, States, Reload, Loaded
  <2>5. ASSUME NEW lists \in DOMAIN Lists, Update(lists)
        PROVE  /\ published' \in States /\ loads' \in Loads
               /\ turns' \in [Loads -> [Pools -> Nat]] /\ sequence' \in [Loads -> Nat]
               /\ accepted' \in 0 .. MaxAccepts
    BY <2>5 DEF TypeOK, States, Update
  <2>6. ASSUME NEW s \in Sessions, NEW request, NEW intent, Accept(s, request, intent)
        PROVE  /\ published' \in States /\ loads' \in Loads
               /\ turns' \in [Loads -> [Pools -> Nat]] /\ sequence' \in [Loads -> Nat]
               /\ accepted' \in 0 .. MaxAccepts
    BY <2>6, TargetsAssumption DEF TypeOK, Accept, TargetsAssumption
  <2>7. ASSUME NEW s \in Sessions,
               \/ Refuse(s) \/ NoRoute(s) \/ RouteToLine(s)
               \/ \E answer \in Answers : KeepConfigured(s, answer) \/ SayUnavailable(s, answer)
        PROVE  /\ published' \in States /\ loads' \in Loads
               /\ turns' \in [Loads -> [Pools -> Nat]] /\ sequence' \in [Loads -> Nat]
               /\ accepted' \in 0 .. MaxAccepts
    <3>1. UNCHANGED <<published, loads, turns, sequence, accepted>>
      BY <2>7 DEF Refuse, NoRoute, Ends, RouteToLine, KeepConfigured, SayUnavailable
    <3> QED
      BY <3>1 DEF TypeOK
  <2>8. ASSUME NEW s \in Sessions, RouteToGroup(s)
        PROVE  /\ published' \in States /\ loads' \in Loads
               /\ turns' \in [Loads -> [Pools -> Nat]] /\ sequence' \in [Loads -> Nat]
               /\ accepted' \in 0 .. MaxAccepts
    <3>1. PICK route \in RouteOf(s) :
            route.group # 0 /\ Turn(s, <<route.vhost, route.group>>,
                                     RoutingFor(Config(s), route.vhost).group[route.group])
      BY <2>8 DEF RouteToGroup
    <3>2. <<route.vhost, route.group>> \in Pools
      BY <2>8, <3>1, PoolOfRoute DEF RouteToGroup
    <3>3. session[s].state.load \in Loads
      BY <2>8, SessionTypes DEF RouteToGroup, States
    <3>4. turns' \in [Loads -> [Pools -> Nat]]
      BY <3>1, <3>2, <3>3 DEF TypeOK, Turn
    <3> QED
      BY <2>8, <3>4 DEF RouteToGroup, TypeOK
  <2>9. ASSUME NEW s \in Sessions, NEW answer \in Answers, ResolveTarget(s, answer)
        PROVE  /\ published' \in States /\ loads' \in Loads
               /\ turns' \in [Loads -> [Pools -> Nat]] /\ sequence' \in [Loads -> Nat]
               /\ accepted' \in 0 .. MaxAccepts
    <3>1. session[s].state.load \in Loads
      BY <2>9, SessionTypes DEF ResolveTarget, States
    <3>2. sequence' = [sequence EXCEPT ![session[s].state.load] = @ + 1]
      BY <2>9 DEF ResolveTarget
    <3> QED
      BY <2>9, <3>1, <3>2 DEF ResolveTarget, TypeOK
  <2> QED
    BY <1>2, <2>4, <2>5, <2>6, <2>7, <2>8, <2>9 DEF Next
<1> QED
  BY <1>1, <1>2

LEMMA RouteStep == TypeOK /\ KeepsRoute /\ [Next]_vars => KeepsRoute'
<1> SUFFICES ASSUME TypeOK, KeepsRoute, [Next]_vars, NEW s \in Sessions
             PROVE  Decided(session'[s])
  BY RoutesOfSession DEF KeepsRoute, Decided
<1>1. \A t \in Sessions : Decided(session[t])
  BY RoutesOfSession DEF KeepsRoute, Decided
<1>2. CASE session' = session
  BY <1>1, <1>2
<1>3. ASSUME NEW r \in Sessions, NEW told, Told(told), session' = [session EXCEPT ![r] = told], Becomes(r, told)
      PROVE  Decided(session'[s])
  <2>1. session'[r] = told /\ (s # r => session'[s] = session[s])
    BY <1>3, OneSessionSteps
  <2>2. CASE told.at = "accepted"
    BY <1>1, <2>1, <2>2 DEF Decided
  <2>3. CASE /\ session[r].at = "accepted" /\ told.state = session[r].state
             /\ told.request = session[r].request /\ told.intent = session[r].intent
    <3>1. RoutesFor(told) = RoutesFor(session[r]) /\ ReasonFor(told) = ReasonFor(session[r])
      BY <2>3, SameRoutes
    <3>2. told.at # "accepted" => Decided(told)
      BY <1>3, <2>3, <3>1 DEF Becomes, Decided
    <3> QED
      BY <1>1, <2>1, <2>2, <3>2
  <2>4. CASE /\ session[r].at = "routed" /\ told.state = session[r].state
             /\ told.request = session[r].request /\ told.at \in {"resolved", "unavailable"}
    <3>1. ReasonFor(told) = ReasonFor(session[r])
      BY <2>4 DEF ReasonFor
    <3>2. ReasonFor(session[r]) = NONE
      BY <1>1, <2>4 DEF Decided
    <3> QED
      BY <1>1, <2>1, <2>4, <3>1, <3>2 DEF Decided
  <2> QED
    BY <1>3, <2>2, <2>3, <2>4 DEF Becomes
<1> QED
  BY <1>2, <1>3, SessionStep DEF vars

\* The states held after a step: a new one is the one that is published.
LEMMA HeldStep ==
  ASSUME TypeOK, Next
  PROVE  Held' \subseteq Held \cup {published'}
<1> SUFFICES ASSUME NEW s \in Sessions, session'[s] # Idle
             PROVE  session'[s].state \in Held \cup {published'}
  BY DEF Held
<1>1. \A t \in Sessions : session[t].at # "idle" => session[t].state \in Held
  BY DEF Held, Idle
<1>2. \A t \in Sessions : session[t] # Idle => session[t].state \in Held
  BY DEF Held
<1>3. CASE session' = session
  BY <1>2, <1>3
<1>4. ASSUME NEW r \in Sessions, NEW told, Told(told), session' = [session EXCEPT ![r] = told], Becomes(r, told)
      PROVE  session'[s].state \in Held \cup {published'}
  <2>1. session'[r] = told /\ (s # r => session'[s] = session[s])
    BY <1>4, OneSessionSteps
  <2>2. told.state \in Held
    BY <1>1, <1>4 DEF Becomes, Held
  <2> QED
    BY <1>2, <2>1, <2>2
<1> QED
  BY <1>3, <1>4, SessionStep

\* A reload is a load of its own; only a session that is sent to a group has a turn.
LEMMA StepKinds ==
  ASSUME TypeOK, published.load = loads, Next
  PROVE  /\ published'.load = loads'
         /\ \/ loads' = loads /\ published'.file = published.file
            \/ loads' = loads + 1
         /\ \/ turns' = turns /\ given' = given
            \/ \E s \in Sessions : RouteToGroup(s)
<1>1. ASSUME NEW file, NEW lists, Reload(file, lists)
      PROVE  published'.load = loads' /\ loads' = loads + 1 /\ turns' = turns /\ given' = given
  BY <1>1 DEF Reload, Loaded
<1>2. ASSUME NEW lists, Update(lists)
      PROVE  /\ published'.load = loads' /\ loads' = loads /\ published'.file = published.file
             /\ turns' = turns /\ given' = given
  <2>1. published \in States
    BY DEF TypeOK
  <2> QED
    BY <1>2, <2>1 DEF Update, States
<1>3. ASSUME NEW s \in Sessions,
             \/ \E request, intent : Accept(s, request, intent)
             \/ Refuse(s) \/ NoRoute(s) \/ RouteToLine(s)
             \/ \E answer : KeepConfigured(s, answer) \/ SayUnavailable(s, answer) \/ ResolveTarget(s, answer)
      PROVE  published' = published /\ loads' = loads /\ turns' = turns /\ given' = given
  BY <1>3 DEF Accept, Refuse, NoRoute, Ends, RouteToLine, KeepConfigured, SayUnavailable, ResolveTarget
<1>4. ASSUME NEW s \in Sessions, RouteToGroup(s)
      PROVE  published' = published /\ loads' = loads
  BY <1>4 DEF RouteToGroup
<1> QED
  BY <1>1, <1>2, <1>3, <1>4 DEF Next

LEMMA HeldTypes ==
  ASSUME TypeOK, OneFileEach
  PROVE  /\ published \in Held /\ loads \in Nat /\ published.load = loads
         /\ \A state \in Held : state \in States /\ state.load <= loads /\ state.load \in Nat
<1>1. \A s \in Sessions : session[s] # Idle => session[s].state \in States
  BY SessionTypes DEF Told
<1>2. \A state \in Held : state \in States
  BY <1>1 DEF Held, TypeOK
<1>3. Loads \subseteq Nat
  BY DEF Loads
<1> QED
  BY <1>2, <1>3 DEF OneFileEach, Held, TypeOK, States

LEMMA AnswerStep == TypeOK /\ KeepsAnswer /\ [Next]_vars => KeepsAnswer'
<1> SUFFICES ASSUME TypeOK, KeepsAnswer, [Next]_vars, NEW s \in Sessions,
                    session'[s].at \in {"resolved", "unavailable"}
             PROVE  session'[s].answer \in Answers
  BY DEF KeepsAnswer
<1>1. CASE session' = session
  BY <1>1 DEF KeepsAnswer
<1>2. ASSUME NEW r \in Sessions, NEW told, Told(told), session' = [session EXCEPT ![r] = told], Becomes(r, told)
      PROVE  session'[s].answer \in Answers
  <2>1. session'[r] = told /\ (s # r => session'[s] = session[s])
    BY <1>2, OneSessionSteps
  <2> QED
    BY <1>2, <2>1 DEF Becomes, KeepsAnswer
<1> QED
  BY <1>1, <1>2, SessionStep DEF vars

LEMMA FileStep == TypeOK /\ OneFileEach /\ [Next]_vars => OneFileEach'
<1> SUFFICES ASSUME TypeOK, OneFileEach, [Next]_vars PROVE OneFileEach'
  OBVIOUS
<1>1. CASE UNCHANGED vars
  BY <1>1 DEF vars, OneFileEach, Held
<1>2. CASE Next
  <2>1. Held' \subseteq Held \cup {published'}
    BY <1>2, HeldStep
  <2>2. /\ published'.load = loads'
        /\ \/ loads' = loads /\ published'.file = published.file
           \/ loads' = loads + 1
    BY <1>2, StepKinds, HeldTypes
  <2> DEFINE held == Held'
  <2>3. \A one, other \in Held : one.load = other.load => one.file = other.file
    BY DEF OneFileEach
  <2>4. \A state \in held : state.load <= loads'
    BY <2>1, <2>2, HeldTypes
  <2>5. \A one, other \in held : one.load = other.load => one.file = other.file
    BY <2>1, <2>2, <2>3, HeldTypes
  <2> QED
    BY <2>2, <2>4, <2>5 DEF OneFileEach
<1> QED
  BY <1>1, <1>2

-----------------------------------------------------------------------------
(* The turns of a group.                                                   *)

LEMMA EntryFields ==
  ASSUME NEW load, NEW pool, NEW group, NEW i
  PROVE  LET one == Entry(load, pool, group, i) IN
         one.load = load /\ one.pool = pool /\ one.group = group /\ one.index = i
BY DEF Entry

\* How often an entry is in a bag; Times is the same for the bag of turns.
TimesIn(bag, one) == IF one \in DOMAIN bag THEN bag[one] ELSE 0

LEMMA OneMore ==
  ASSUME NEW bag, \A one \in DOMAIN bag : bag[one] \in Nat, NEW new
  PROVE  LET more == bag (+) SetToBag({new}) IN
         /\ DOMAIN more = DOMAIN bag \cup {new}
         /\ \A one \in DOMAIN more : more[one] \in Nat
         /\ \A one : /\ TimesIn(bag, one) \in Nat
                    /\ TimesIn(more, one) = TimesIn(bag, one) + (IF one = new THEN 1 ELSE 0)
<1> DEFINE more == bag (+) SetToBag({new})
<1>1. more = [one \in DOMAIN bag \cup {new} |-> TimesIn(bag, one) + (IF one = new THEN 1 ELSE 0)]
  BY DEF (+), SetToBag, TimesIn
<1>2. \A one : TimesIn(bag, one) \in Nat
  BY DEF TimesIn
<1> HIDE DEF more
<1>3. DOMAIN more = DOMAIN bag \cup {new}
      /\ \A one \in DOMAIN more : more[one] = TimesIn(bag, one) + (IF one = new THEN 1 ELSE 0)
  BY <1>1
<1>4. ASSUME NEW one PROVE TimesIn(more, one) = TimesIn(bag, one) + (IF one = new THEN 1 ELSE 0)
  <2>1. CASE one \in DOMAIN more
    <3>1. TimesIn(more, one) = more[one]
      BY <2>1 DEF TimesIn
    <3> QED
      BY <1>3, <2>1, <3>1
  <2>2. CASE one \notin DOMAIN more
    BY <1>3, <2>2 DEF TimesIn
  <2> QED
    BY <2>1, <2>2
<1>5. \A one \in DOMAIN more : more[one] \in Nat
  BY <1>2, <1>3
<1>6. DOMAIN more = DOMAIN bag \cup {new}
  BY <1>3
<1> QED
  BY <1>2, <1>4, <1>5, <1>6, Zenon DEF more

LEMMA OneRemainder ==
  ASSUME NEW n \in Nat \ {0}, NEW d \in Nat, NEW e \in Nat,
         NEW m \in 0 .. (n - 1), NEW k \in 0 .. (n - 1), n * d + m = n * e + k
  PROVE  m = k
<1>1. ASSUME NEW a \in Nat, NEW b \in Nat, a < b PROVE n * b >= n * a + n
  <2>1. n * (a + 1) = n * a + n /\ b - (a + 1) \in Nat
    BY <1>1
  <2>2. n * (b - (a + 1)) \in Nat
    BY <2>1
  <2>3. n * b = n * (a + 1) + n * (b - (a + 1))
    BY <1>1
  <2> QED
    BY <2>1, <2>2, <2>3
<1>2. n * d \in Nat /\ n * e \in Nat
  OBVIOUS
<1>3. CASE d = e
  BY <1>2, <1>3
<1>4. CASE d < e
  BY <1>1, <1>2, <1>4
<1>5. CASE e < d
  BY <1>1, <1>2, <1>5
<1> QED
  BY <1>3, <1>4, <1>5

\* The counter's place moves on by one, and from the last place to the first.
LEMMA NextPlace ==
  ASSUME NEW turn \in Nat, NEW n \in Nat \ {0}
  PROVE  /\ turn % n \in 0 .. (n - 1)
         /\ (turn + 1) % n = IF (turn % n) + 1 = n THEN 0 ELSE (turn % n) + 1
<1> DEFINE m == turn % n
           d == turn \div n
           k == (turn + 1) % n
           e == (turn + 1) \div n
<1>1. /\ m \in 0 .. (n - 1) /\ d \in Nat /\ turn = n * d + m
      /\ k \in 0 .. (n - 1) /\ e \in Nat /\ turn + 1 = n * e + k
  <2>1. turn + 1 \in Nat
    OBVIOUS
  <2> QED
    BY <2>1, DivMod
<1> HIDE DEF m, d, k, e
<1>2. n * d \in Nat /\ n * (d + 1) = n * d + n
  BY <1>1
<1>3. CASE m + 1 = n
  <2>1. n * (d + 1) + 0 = n * e + k
    BY <1>1, <1>2, <1>3
  <2>2. d + 1 \in Nat /\ 0 \in 0 .. (n - 1)
    BY <1>1
  <2>3. 0 = k
    BY <1>1, <2>1, <2>2, OneRemainder
  <2> QED
    BY <1>1, <1>3, <2>3 DEF m, k
<1>4. CASE m + 1 # n
  <2>1. n * d + (m + 1) = n * e + k
    BY <1>1, <1>2
  <2>2. m + 1 \in 0 .. (n - 1)
    BY <1>1, <1>4
  <2>3. m + 1 = k
    BY <1>1, <2>1, <2>2, OneRemainder
  <2> QED
    BY <1>1, <1>4, <2>3 DEF m, k
<1> QED
  BY <1>3, <1>4

LEMMA LoadedRouting ==
  ASSUME NEW file \in Loadable, NEW vhost \in Vhosts(Files[file])
  PROVE  /\ ValidRouting(RoutingFor(Files[file], vhost))
         /\ WellTyped(RoutingFor(Files[file], vhost))
<1>1. Valid(Files[file]) /\ WellTyped(RoutingFor(Files[file], vhost))
  BY TargetsAssumption DEF TargetsAssumption, Loadable
<1>2. CASE Files[file].vhosts = NONE
  BY <1>1, <1>2 DEF Valid, RoutingFor
<1>3. CASE Files[file].vhosts # NONE
  BY <1>1, <1>3 DEF Valid, ValidVhosts, RoutingFor, Vhosts
<1> QED
  BY <1>1, <1>2, <1>3

\* A turn is for a group of the configuration that the session has, and moves
\* the counter of that group on.
GroupTurn(state, pool, group, i) ==
    /\ state.load \in Loads /\ state.file \in Loadable
    /\ group = RoutingFor(Files[state.file], pool[1]).group[pool[2]]
    /\ Len(group.hosts) \in Nat \ {0} /\ DOMAIN group.hosts = 1 .. Len(group.hosts)
    /\ group.mode = "round_robin" =>
          /\ i = (turns[state.load][pool] % Len(group.hosts)) + 1
          /\ turns' = [turns EXCEPT ![state.load][pool] = @ + 1]
    /\ turns' \in {turns, [turns EXCEPT ![state.load][pool] = @ + 1]}
    /\ given' = given (+) SetToBag({Entry(state.load, pool, group, i)})
    /\ published' = published /\ loads' = loads

LEMMA GroupStep ==
  ASSUME TypeOK, NEW s \in Sessions, RouteToGroup(s)
  PROVE  \E state \in Held, pool \in Pools : \E group, i : GroupTurn(state, pool, group, i)
<1> DEFINE state == session[s].state
<1>1. state \in Held /\ state.load \in Loads /\ state.file \in Loadable /\ session[s].at = "accepted"
  <2>1. session[s].at = "accepted" /\ session[s] # Idle
    BY DEF RouteToGroup, Idle
  <2> QED
    BY <2>1, SessionTypes DEF Held, States
<1>2. PICK route \in RouteOf(s) :
        LET load == state.load
            pool == <<route.vhost, route.group>>
            group == RoutingFor(Config(s), route.vhost).group[route.group]
        IN  /\ route.group # 0
            /\ \E i \in Picks(group, turns[load][pool], Request(s).ip) :
                  given' = given (+) SetToBag({Entry(load, pool, group, i)})
            /\ Turn(s, pool, group)
  BY DEF RouteToGroup
<1> DEFINE pool == <<route.vhost, route.group>>
           routing == RoutingFor(Config(s), route.vhost)
           group == routing.group[route.group]
<1>3. pool \in Pools /\ route.vhost \in Vhosts(Files[state.file]) /\ route.group \in DOMAIN routing.group
  BY <1>1, <1>2, PoolOfRoute DEF Config
<1>4. WellTyped(routing) /\ ValidRouting(routing)
  BY <1>1, <1>3, LoadedRouting DEF Config
<1>5. ValidGroup(group) /\ IsSequence(group.hosts)
  BY <1>3, <1>4 DEF WellTyped, ValidRouting
<1>6. Len(group.hosts) \in Nat \ {0} /\ DOMAIN group.hosts = 1 .. Len(group.hosts)
  BY <1>5, SequenceDomain DEF ValidGroup
<1>7. group = RoutingFor(Files[state.file], pool[1]).group[pool[2]]
  BY DEF Config
<1> DEFINE turn == turns[state.load][pool]
<1>8. PICK i \in Picks(group, turn, Request(s).ip) : given' = given (+) SetToBag({Entry(state.load, pool, group, i)})
  BY <1>2 DEF Entry
<1>9. Turn(s, pool, group)
  BY <1>2
<1>10. published' = published /\ loads' = loads
  BY DEF RouteToGroup
<1> HIDE DEF state, pool, group
<1>11. group.mode = "round_robin" => i = (turn % Len(group.hosts)) + 1
  <2>1. group.mode = "round_robin" => Picks(group, turn, Request(s).ip) = {(turn % Len(group.hosts)) + 1}
    BY DEF Picks
  <2> QED
    BY <1>8, <2>1
<1>12. turns' = IF group.mode = "ip_hash" THEN turns ELSE [turns EXCEPT ![state.load][pool] = @ + 1]
  BY <1>9 DEF Turn, state
<1> QED
  BY <1>1, <1>3, <1>6, <1>7, <1>8, <1>10, <1>11, <1>12 DEF GroupTurn

\* The bag and the counters after a turn, as the invariants see them.
TurnEffect(state, pool, group, i) ==
    /\ state.load \in Loads /\ state.load \in 1 .. loads
    /\ group = RoutingFor(Files[state.file], pool[1]).group[pool[2]]
    /\ Len(group.hosts) \in Nat \ {0} /\ DOMAIN group.hosts = 1 .. Len(group.hosts)
    /\ group.mode = "round_robin" =>
          /\ i = (turns[state.load][pool] % Len(group.hosts)) + 1
          /\ turns'[state.load][pool] = turns[state.load][pool] + 1
    /\ \A load \in Loads, other \in Pools :
          load # state.load \/ other # pool => turns'[load][other] = turns[load][other]
    /\ DOMAIN given' = DOMAIN given \cup {Entry(state.load, pool, group, i)}
    /\ \A one \in DOMAIN given' : given'[one] \in Nat
    /\ \A one :
          /\ TimesIn(given, one) \in Nat
          /\ TimesIn(given', one) =
                TimesIn(given, one) + (IF one = Entry(state.load, pool, group, i) THEN 1 ELSE 0)
    /\ loads' = loads /\ Held' \subseteq Held

LEMMA TurnHasEffect ==
  ASSUME TypeOK, OneFileEach, GivenByLoad, NEW s \in Sessions, RouteToGroup(s)
  PROVE  \E state \in Held, pool \in Pools : \E group, i : TurnEffect(state, pool, group, i)
<1>a. PICK state \in Held, pool \in Pools : \E group, i : GroupTurn(state, pool, group, i)
  BY GroupStep
<1>b. PICK group, i : GroupTurn(state, pool, group, i)
  BY <1>a
<1>1. /\ state.load \in Loads /\ state.file \in Loadable
      /\ group = RoutingFor(Files[state.file], pool[1]).group[pool[2]]
      /\ Len(group.hosts) \in Nat \ {0} /\ DOMAIN group.hosts = 1 .. Len(group.hosts)
      /\ group.mode = "round_robin" =>
            /\ i = (turns[state.load][pool] % Len(group.hosts)) + 1
            /\ turns' = [turns EXCEPT ![state.load][pool] = @ + 1]
      /\ turns' \in {turns, [turns EXCEPT ![state.load][pool] = @ + 1]}
      /\ given' = given (+) SetToBag({Entry(state.load, pool, group, i)})
      /\ published' = published /\ loads' = loads
  BY <1>b DEF GroupTurn
<1> DEFINE new == Entry(state.load, pool, group, i)
           load == state.load
<1>2. /\ DOMAIN given' = DOMAIN given \cup {new}
      /\ \A one \in DOMAIN given' : given'[one] \in Nat
      /\ \A one : /\ TimesIn(given, one) \in Nat
                 /\ TimesIn(given', one) = TimesIn(given, one) + (IF one = new THEN 1 ELSE 0)
  <2>1. \A one \in DOMAIN given : given[one] \in Nat
    BY DEF GivenByLoad
  <2> DEFINE more == given (+) SetToBag({new})
  <2>2. /\ DOMAIN more = DOMAIN given \cup {new}
        /\ \A one \in DOMAIN more : more[one] \in Nat
        /\ \A one : /\ TimesIn(given, one) \in Nat
                   /\ TimesIn(more, one) = TimesIn(given, one) + (IF one = new THEN 1 ELSE 0)
    BY <2>1, OneMore, Zenon
  <2>3. given' = more
    BY <1>1
  <2> HIDE DEF more
  <2> QED
    BY <2>2, <2>3
<1>3. /\ group.mode = "round_robin" => turns'[load][pool] = turns[load][pool] + 1
      /\ \A l \in Loads, other \in Pools : l # load \/ other # pool => turns'[l][other] = turns[l][other]
  <2>1. turns \in [Loads -> [Pools -> Nat]]
    BY DEF TypeOK
  <2> QED
    BY <1>1, <2>1
<1>4. Held' \subseteq Held
  <2>1. Next
    BY DEF Next
  <2> QED
    BY <1>1, <2>1, HeldStep, HeldTypes
<1>5. load \in 1 .. loads
  BY <1>1, HeldTypes DEF Loads
<1>6. /\ state.load \in Loads /\ state.load \in 1 .. loads
      /\ group = RoutingFor(Files[state.file], pool[1]).group[pool[2]]
      /\ Len(group.hosts) \in Nat \ {0} /\ DOMAIN group.hosts = 1 .. Len(group.hosts)
      /\ loads' = loads
  BY <1>1, <1>5
<1>7. group.mode = "round_robin" => i = (turns[state.load][pool] % Len(group.hosts)) + 1
  BY <1>1
<1>8. TurnEffect(state, pool, group, i)
  BY <1>2, <1>3, <1>4, <1>6, <1>7 DEF TurnEffect
<1> QED
  BY <1>8

LEMMA GivenStep == TypeOK /\ OneFileEach /\ GivenByLoad /\ [Next]_vars => GivenByLoad'
<1> SUFFICES ASSUME TypeOK, OneFileEach, GivenByLoad, [Next]_vars PROVE GivenByLoad'
  OBVIOUS
<1>0. /\ \A one \in DOMAIN given :
            /\ one = EntryOf(one, one.index) /\ one.load \in 1 .. loads /\ one.pool \in Pools
            /\ given[one] \in Nat
      /\ \A one, other \in DOMAIN given :
            (one.load = other.load /\ one.pool = other.pool) => one.group = other.group
      /\ \A state \in Held : \A one \in DOMAIN given : one.load = state.load =>
            one.group = RoutingFor(Files[state.file], one.pool[1]).group[one.pool[2]]
      /\ \A load \in Loads, pool \in Pools :
            {one \in DOMAIN given : one.load = load /\ one.pool = pool} = {} => turns[load][pool] = 0
  BY DEF GivenByLoad, GivenFor, EntryOf, Entry
<1>1. SUFFICES /\ \A one \in DOMAIN given' :
                     /\ one = EntryOf(one, one.index) /\ one.load \in 1 .. loads' /\ one.pool \in Pools
                     /\ given'[one] \in Nat
               /\ \A one, other \in DOMAIN given' :
                     (one.load = other.load /\ one.pool = other.pool) => one.group = other.group
               /\ \A state \in Held' : \A one \in DOMAIN given' : one.load = state.load =>
                     one.group = RoutingFor(Files[state.file], one.pool[1]).group[one.pool[2]]
               /\ \A load \in Loads, pool \in Pools :
                     {one \in DOMAIN given' : one.load = load /\ one.pool = pool} = {} => turns'[load][pool] = 0
  BY DEF GivenByLoad, GivenFor, EntryOf, Entry
<1>2. CASE UNCHANGED vars
  BY <1>0, <1>2 DEF vars, Held
<1>3. CASE Next /\ turns' = turns /\ given' = given
  <2>1. Held' \subseteq Held \cup {published'}
    BY <1>3, HeldStep
  <2>2. /\ published'.load = loads'
        /\ \/ loads' = loads /\ published'.file = published.file
           \/ loads' = loads + 1
    BY <1>3, StepKinds, HeldTypes
  <2>3. \A one \in DOMAIN given : one.load \in 1 .. loads'
    BY <1>0, <2>2, HeldTypes
  <2>4. ASSUME NEW state \in Held', NEW one \in DOMAIN given, one.load = state.load
        PROVE  one.group = RoutingFor(Files[state.file], one.pool[1]).group[one.pool[2]]
    <3>1. CASE state \in Held
      BY <1>0, <2>4, <3>1
    <3>2. CASE state = published'
      <4>1. loads' # loads + 1
        BY <1>0, <2>2, <2>4, <3>2, HeldTypes
      <4>2. published \in Held /\ one.load = published.load /\ state.file = published.file
        BY <2>2, <2>4, <3>2, <4>1, HeldTypes
      <4> QED
        BY <1>0, <4>2
    <3> QED
      BY <2>1, <3>1, <3>2
  <2> QED
    BY <1>0, <1>3, <2>3, <2>4
<1>4. ASSUME NEW state \in Held, NEW pool \in Pools, NEW group, NEW i, TurnEffect(state, pool, group, i)
      PROVE  /\ \A one \in DOMAIN given' :
                   /\ one = EntryOf(one, one.index) /\ one.load \in 1 .. loads' /\ one.pool \in Pools
                   /\ given'[one] \in Nat
             /\ \A one, other \in DOMAIN given' :
                   (one.load = other.load /\ one.pool = other.pool) => one.group = other.group
             /\ \A held \in Held' : \A one \in DOMAIN given' : one.load = held.load =>
                   one.group = RoutingFor(Files[held.file], one.pool[1]).group[one.pool[2]]
             /\ \A load \in Loads, other \in Pools :
                   {one \in DOMAIN given' : one.load = load /\ one.pool = other} = {} => turns'[load][other] = 0
  <2> DEFINE new == Entry(state.load, pool, group, i)
  <2>1. new.load = state.load /\ new.pool = pool /\ new.group = group /\ new = EntryOf(new, new.index)
    BY DEF Entry, EntryOf
  <2>2. /\ DOMAIN given' = DOMAIN given \cup {new} /\ state.load \in 1 .. loads
        /\ \A one \in DOMAIN given' : given'[one] \in Nat
        /\ loads' = loads /\ Held' \subseteq Held
        /\ group = RoutingFor(Files[state.file], pool[1]).group[pool[2]]
        /\ \A load \in Loads, other \in Pools :
              load # state.load \/ other # pool => turns'[load][other] = turns[load][other]
    BY <1>4 DEF TurnEffect
  <2> HIDE DEF new
  <2>3. \A held \in Held : held.load = state.load => held.file = state.file
    BY DEF OneFileEach
  <2>4. \A one \in DOMAIN given' :
          /\ one = EntryOf(one, one.index) /\ one.load \in 1 .. loads' /\ one.pool \in Pools
          /\ given'[one] \in Nat
    BY <1>0, <2>1, <2>2
  <2>5. \A one \in DOMAIN given : (one.load = new.load /\ one.pool = new.pool) => one.group = new.group
    BY <1>0, <2>1, <2>2
  <2>6. \A one, other \in DOMAIN given' :
          (one.load = other.load /\ one.pool = other.pool) => one.group = other.group
    BY <1>0, <2>2, <2>5
  <2>7. \A held \in Held' : \A one \in DOMAIN given' : one.load = held.load =>
          one.group = RoutingFor(Files[held.file], one.pool[1]).group[one.pool[2]]
    BY <1>0, <2>1, <2>2, <2>3
  <2>8. ASSUME NEW load \in Loads, NEW other \in Pools,
               {one \in DOMAIN given' : one.load = load /\ one.pool = other} = {}
        PROVE  turns'[load][other] = 0
    <3>1. {one \in DOMAIN given : one.load = load /\ one.pool = other} = {}
      BY <2>2, <2>8
    <3>2. load # state.load \/ other # pool
      BY <2>1, <2>2, <2>8
    <3> QED
      BY <1>0, <2>2, <3>1, <3>2
  <2> QED
    BY <2>4, <2>6, <2>7, <2>8
<1>5. CASE Next /\ \E s \in Sessions : RouteToGroup(s)
  BY <1>4, <1>5, TurnHasEffect
<1> QED
  BY <1>2, <1>3, <1>5, StepKinds, HeldTypes

\* One turn more in a round makes the next state of the round.
LEMMA RoundsGoOn ==
  ASSUME NEW n \in Nat \ {0}, NEW turn \in Nat, NEW q \in 0 .. turn
  PROVE  \E r \in 0 .. turn + 1 : \A i \in 1 .. n :
           q + (IF i <= turn % n THEN 1 ELSE 0) + (IF i = (turn % n) + 1 THEN 1 ELSE 0)
             = r + (IF i <= (turn + 1) % n THEN 1 ELSE 0)
<1> DEFINE m == turn % n
           k == (turn + 1) % n
<1>1. m \in 0 .. (n - 1) /\ k = IF m + 1 = n THEN 0 ELSE m + 1
  BY NextPlace
<1> HIDE DEF m, k
<1>2. CASE m + 1 = n
  <2>1. \A i \in 1 .. n : q + (IF i <= m THEN 1 ELSE 0) + (IF i = m + 1 THEN 1 ELSE 0)
                          = (q + 1) + (IF i <= k THEN 1 ELSE 0)
    BY <1>1, <1>2
  <2>2. q + 1 \in 0 .. turn + 1
    OBVIOUS
  <2> QED
    BY <2>1, <2>2 DEF m, k
<1>3. CASE m + 1 # n
  <2>1. \A i \in 1 .. n : q + (IF i <= m THEN 1 ELSE 0) + (IF i = m + 1 THEN 1 ELSE 0)
                          = q + (IF i <= k THEN 1 ELSE 0)
    BY <1>1, <1>3
  <2>2. q \in 0 .. turn + 1
    OBVIOUS
  <2> QED
    BY <2>1, <2>2 DEF m, k
<1> QED
  BY <1>2, <1>3

\* InRounds, of any bag and counters.
Rounds(bag, turn, load, pool, group) ==
    \E q \in 0 .. turn : \A i \in DOMAIN group.hosts :
        TimesIn(bag, Entry(load, pool, group, i)) = q + (IF i <= turn % Len(group.hosts) THEN 1 ELSE 0)

AllInRounds(bag, counts) ==
    \A one \in DOMAIN bag : one.group.mode = "round_robin" =>
        /\ one.index \in DOMAIN one.group.hosts
        /\ Rounds(bag, counts[one.load][one.pool], one.load, one.pool, one.group)

LEMMA InRoundsMeaning ==
  /\ InRounds <=> AllInRounds(given, turns)
  /\ InRounds' <=> AllInRounds(given', turns')
BY DEF InRounds, AllInRounds, Rounds, Times, TimesIn, EntryOf

\* A pool whose turns are in rounds, or that had none yet, has them so after a turn.
LEMMA TurnKeepsRounds ==
  ASSUME NEW bag, NEW more, NEW load, NEW pool, NEW group, NEW turn \in Nat,
         Len(group.hosts) \in Nat \ {0}, DOMAIN group.hosts = 1 .. Len(group.hosts),
         \A one : TimesIn(bag, one) \in Nat,
         LET new == Entry(load, pool, group, (turn % Len(group.hosts)) + 1) IN
         \A one : TimesIn(more, one) = TimesIn(bag, one) + (IF one = new THEN 1 ELSE 0),
         Rounds(bag, turn, load, pool, group)
  PROVE  Rounds(more, turn + 1, load, pool, group)
<1> DEFINE n == Len(group.hosts)
           At(i) == Entry(load, pool, group, i)
           new == At((turn % n) + 1)
<1>1. PICK q \in 0 .. turn : \A i \in 1 .. n : TimesIn(bag, At(i)) = q + (IF i <= turn % n THEN 1 ELSE 0)
  BY DEF Rounds
<1>2. \A i \in 1 .. n :
        TimesIn(more, At(i)) = TimesIn(bag, At(i)) + (IF i = (turn % n) + 1 THEN 1 ELSE 0)
  <2> SUFFICES ASSUME NEW i \in 1 .. n
               PROVE  TimesIn(more, At(i)) = TimesIn(bag, At(i)) + (IF i = (turn % n) + 1 THEN 1 ELSE 0)
    OBVIOUS
  <2>1. At(i) = new <=> i = (turn % n) + 1
    BY DEF Entry
  <2> HIDE DEF new
  <2>2. TimesIn(more, At(i)) = TimesIn(bag, At(i)) + (IF At(i) = new THEN 1 ELSE 0)
    BY DEF new
  <2> QED
    BY <2>1, <2>2
<1>3. PICK r \in 0 .. turn + 1 : \A i \in 1 .. n :
        q + (IF i <= turn % n THEN 1 ELSE 0) + (IF i = (turn % n) + 1 THEN 1 ELSE 0)
          = r + (IF i <= (turn + 1) % n THEN 1 ELSE 0)
  BY RoundsGoOn
<1>4. \A i \in 1 .. n : TimesIn(more, At(i)) = r + (IF i <= (turn + 1) % n THEN 1 ELSE 0)
  BY <1>1, <1>2, <1>3
<1> QED
  BY <1>4 DEF Rounds

\* A pool without turns is in a round that has not begun.
LEMMA NoTurnsYet ==
  ASSUME NEW bag, NEW load, NEW pool, NEW group, NEW turn \in Nat, turn = 0,
         Len(group.hosts) \in Nat \ {0}, DOMAIN group.hosts = 1 .. Len(group.hosts),
         \A i : TimesIn(bag, Entry(load, pool, group, i)) = 0
  PROVE  Rounds(bag, turn, load, pool, group)
<1> DEFINE n == Len(group.hosts)
           m == turn % n
           d == turn \div n
<1>1. n \in Nat \ {0} /\ m \in 0 .. (n - 1) /\ d \in Nat /\ turn = n * d + m
  BY DivMod
<1> HIDE DEF m, d, n
<1>2. m = 0
  <2>1. n * d \in Nat
    BY <1>1
  <2> QED
    BY <1>1, <2>1
<1>3. \A i \in 1 .. n : TimesIn(bag, Entry(load, pool, group, i)) = 0 + (IF i <= m THEN 1 ELSE 0)
  BY <1>2
<1>4. 0 \in 0 .. turn
  OBVIOUS
<1> QED
  BY <1>3, <1>4 DEF Rounds, n, m

LEMMA RoundStep == TypeOK /\ OneFileEach /\ GivenByLoad /\ InRounds /\ [Next]_vars => InRounds'
<1> SUFFICES ASSUME TypeOK, OneFileEach, GivenByLoad, InRounds, [Next]_vars PROVE AllInRounds(given', turns')
  BY InRoundsMeaning
<1>1. AllInRounds(given, turns)
  BY InRoundsMeaning
<1>2. CASE given' = given /\ turns' = turns
  BY <1>1, <1>2
<1>3. ASSUME NEW state \in Held, NEW pool \in Pools, NEW group, NEW i, TurnEffect(state, pool, group, i)
      PROVE  AllInRounds(given', turns')
  <2> DEFINE load == state.load
             turn == turns[load][pool]
             n == Len(group.hosts)
             new == Entry(load, pool, group, i)
  <2>1. /\ load \in Loads
        /\ group = RoutingFor(Files[state.file], pool[1]).group[pool[2]]
        /\ n \in Nat \ {0} /\ DOMAIN group.hosts = 1 .. n
        /\ group.mode = "round_robin" => i = (turn % n) + 1 /\ turns'[load][pool] = turn + 1
        /\ \A l \in Loads, other \in Pools : l # load \/ other # pool => turns'[l][other] = turns[l][other]
        /\ DOMAIN given' = DOMAIN given \cup {new}
        /\ \A one : /\ TimesIn(given, one) \in Nat
                   /\ TimesIn(given', one) = TimesIn(given, one) + (IF one = new THEN 1 ELSE 0)
    BY <1>3 DEF TurnEffect
  <2>2. new.load = load /\ new.pool = pool /\ new.group = group /\ new.index = i
    BY DEF Entry
  <2>3. turn \in Nat
    BY <2>1 DEF TypeOK
  <2>4. /\ \A one \in DOMAIN given : one.load \in Loads /\ one.pool \in Pools
        /\ \A one \in DOMAIN given : one.load = load /\ one.pool = pool => one.group = group
        /\ {one \in DOMAIN given : one.load = load /\ one.pool = pool} = {} => turn = 0
    <3>1. \A one \in DOMAIN given : one.load \in Loads /\ one.pool \in Pools
      BY TargetsAssumption, HeldTypes DEF GivenByLoad, TypeOK, Loads, TargetsAssumption
    <3>2. \A one \in DOMAIN given : one.load = load /\ one.pool = pool => one.group = group
      BY <2>1 DEF GivenByLoad
    <3>3. {one \in DOMAIN given : one.load = load /\ one.pool = pool} = {} => turn = 0
      BY <2>1 DEF GivenByLoad, GivenFor
    <3> QED
      BY <3>1, <3>2, <3>3
  <2> HIDE DEF new, turn, n, load
  <2>5. ASSUME group.mode = "round_robin"
        PROVE  i \in DOMAIN group.hosts /\ Rounds(given', turn + 1, load, pool, group)
    <3>1. Rounds(given, turn, load, pool, group)
      <4>1. CASE {one \in DOMAIN given : one.load = load /\ one.pool = pool} = {}
        <5>1. \A j : TimesIn(given, Entry(load, pool, group, j)) = 0
          BY <4>1 DEF TimesIn, Entry
        <5>2. turn = 0
          BY <2>4, <4>1
        <5> QED
          BY <2>1, <5>1, <5>2, NoTurnsYet DEF n
      <4>2. ASSUME NEW one \in DOMAIN given, one.load = load, one.pool = pool
            PROVE  Rounds(given, turn, load, pool, group)
        <5>1. one.group = group
          BY <2>4, <4>2
        <5> QED
          BY <1>1, <2>5, <4>2, <5>1 DEF AllInRounds, turn
      <4> QED
        BY <4>1, <4>2
    <3>2. i = (turn % n) + 1
      BY <2>1, <2>5
    <3>3. Rounds(given', turn + 1, load, pool, group)
      BY <2>1, <2>3, <3>1, <3>2, TurnKeepsRounds DEF new, n
    <3>4. turn % n \in 0 .. (n - 1)
      BY <2>1, <2>3, DivMod
    <3> QED
      BY <2>1, <3>2, <3>3, <3>4
  <2>6. ASSUME NEW one \in DOMAIN given', one.group.mode = "round_robin"
        PROVE  /\ one.index \in DOMAIN one.group.hosts
               /\ Rounds(given', turns'[one.load][one.pool], one.load, one.pool, one.group)
    <3>1. CASE one.load = load /\ one.pool = pool
      <4>1. one.group = group
        BY <2>1, <2>2, <2>4, <3>1
      <4>2. turns'[one.load][one.pool] = turn + 1
        BY <2>1, <2>6, <3>1, <4>1
      <4>3. one.index \in DOMAIN one.group.hosts
        BY <1>1, <2>1, <2>2, <2>5, <2>6, <4>1 DEF AllInRounds
      <4> QED
        BY <2>5, <2>6, <3>1, <4>1, <4>2, <4>3
    <3>2. CASE one.load # load \/ one.pool # pool
      <4>1. one \in DOMAIN given
        BY <2>1, <2>2, <3>2
      <4>2. turns'[one.load][one.pool] = turns[one.load][one.pool]
        BY <2>1, <2>4, <3>2, <4>1
      <4>3. \A j : TimesIn(given', Entry(one.load, one.pool, one.group, j))
                    = TimesIn(given, Entry(one.load, one.pool, one.group, j))
        <5> SUFFICES ASSUME NEW j
                     PROVE  TimesIn(given', Entry(one.load, one.pool, one.group, j))
                              = TimesIn(given, Entry(one.load, one.pool, one.group, j))
          OBVIOUS
        <5>1. Entry(one.load, one.pool, one.group, j) # new
          BY <3>2 DEF new, Entry
        <5> QED
          BY <2>1, <5>1
      <4>4. one.index \in DOMAIN one.group.hosts
            /\ Rounds(given, turns[one.load][one.pool], one.load, one.pool, one.group)
        BY <1>1, <2>6, <4>1 DEF AllInRounds
      <4> QED
        BY <4>2, <4>3, <4>4 DEF Rounds
    <3> QED
      BY <3>1, <3>2
  <2> QED
    BY <2>6 DEF AllInRounds
<1>4. CASE Next /\ \E s \in Sessions : RouteToGroup(s)
  BY <1>3, <1>4, TurnHasEffect
<1> QED
  BY <1>2, <1>4, StepKinds, HeldTypes DEF vars

-----------------------------------------------------------------------------
(* What holds throughout.                                                  *)

\* Routes, loads, types and rounds are kept by every step, whatever reloads,
\* updates and sessions come in between.
THEOREM TargetsInvariance == Spec => []TargetsInv
<1>1. Init => TargetsInv
  BY TargetsInit
<1>2. TargetsInv /\ [Next]_vars => TargetsInv'
  BY TypeStep, RouteStep, AnswerStep, FileStep, GivenStep, RoundStep DEF TargetsInv
<1> QED
  BY <1>1, <1>2, PTL DEF Spec

\* The variables keep their types.
THEOREM TypeCorrect == Spec => []TypeOK
<1>1. TargetsInv => TypeOK
  BY DEF TargetsInv
<1> QED
  BY <1>1, TargetsInvariance, PTL

\* check() finds a reason exactly when a list that blocks names the client.
LEMMA ReasonMeaning ==
  ASSUME NEW s
  PROVE  Reason(s) # NONE <=> TurnedAway(s)
<1> DEFINE lists == Security(s)
           request == Requests[session[s].request]
           Blocks(kind) == kind \in lists.blocks /\ Listed(lists, kind, request)
<1>1. NONE # "tor" /\ NONE # "vpn" /\ NONE # "spam"
  BY TargetsAssumption DEF TargetsAssumption, Kinds
<1>2. Reason(s) # NONE <=> lists.enabled /\ (Blocks("tor") \/ Blocks("vpn") \/ Blocks("spam"))
  BY <1>1, Zenon DEF Reason, Check
<1>3. Blocks("tor") \/ Blocks("vpn") \/ Blocks("spam") <=> \E kind \in Kinds : Blocks(kind)
  BY DEF Kinds
<1>4. TurnedAway(s) <=> lists.enabled /\ \E kind \in Kinds : Blocks(kind)
  BY Zenon DEF TurnedAway, Listed
<1> QED
  BY <1>2, <1>3, <1>4

LEMMA ServedByOwnState ==
  ASSUME TypeOK, KeepsRoute, NEW s \in Sessions, session[s].at \in {"no_route", "routed"}
  PROVE  LET vhosts == Config(s).vhosts
             serving == IF vhosts = NONE THEN {0} ELSE Serving(vhosts, Request(s).says["hosts"])
         IN  \E vhost \in serving :
               LET name == NamedFor(RoutingFor(Config(s), vhost), Request(s), Security(s))
               IN  /\ serving = {vhost}
                   /\ IF session[s].at = "no_route" THEN name = ""
                      ELSE session[s].route.vhost = vhost /\ session[s].route.name = name
<1> DEFINE config == Config(s)
           serving == IF config.vhosts = NONE THEN {0} ELSE Serving(config.vhosts, Request(s).says["hosts"])
           Name(vhost) == NamedFor(RoutingFor(config, vhost), Request(s), Security(s))
           routes == RouteOf(s)
<1>1. session[s].state.file \in Loadable
  BY SessionTypes DEF States
<1>2. \E vhost \in serving :
        LET name == Name(vhost) IN
        /\ serving = {vhost} /\ vhost \in Vhosts(config)
        /\ routes = {} => name = ""
        /\ \A r \in routes :
              /\ r.vhost = vhost /\ r.name = name
              /\ r.group # 0 => r.group \in DOMAIN RoutingFor(config, vhost).group
  BY <1>1, SelectionIsRight, Zenon DEF Config, RouteOf
<1>3. /\ session[s].at = "no_route" => routes = {}
      /\ session[s].at = "routed" => session[s].route \in routes
  BY DEF KeepsRoute
<1> HIDE DEF serving, routes, Name
<1>4. PICK vhost \in serving :
        /\ serving = {vhost}
        /\ routes = {} => Name(vhost) = ""
        /\ \A r \in routes : r.vhost = vhost /\ r.name = Name(vhost)
  BY <1>2
<1>5. /\ serving = {vhost}
      /\ IF session[s].at = "no_route" THEN Name(vhost) = ""
         ELSE session[s].route.vhost = vhost /\ session[s].route.name = Name(vhost)
  BY <1>3, <1>4
<1> QED
  BY <1>5 DEF serving, Name

LEMMA RoutedInOwnState == TypeOK /\ KeepsRoute => RoutedByOwnState
<1> SUFFICES ASSUME TypeOK, KeepsRoute, NEW s \in Sessions
             PROVE  session[s].at \notin {"idle", "accepted"} => (session[s].at = "refused" <=> TurnedAway(s))
  BY ServedByOwnState DEF RoutedByOwnState
<1>1. session[s].at \in {"idle", "accepted", "refused", "no_route", "routed", "resolved", "unavailable"}
  BY SessionTypes DEF Told, Idle
<1> QED
  BY <1>1, ReasonMeaning DEF KeepsRoute

\* Every session is refused for the lists it was accepted with, or served by the
\* one vhost and the target that the README names for its request in the
\* configuration it was accepted with: check, SelectVhost and SelectRoute find
\* what validation left unique.
THEOREM RightTarget == Spec => []RoutedByOwnState
<1>1. TargetsInv => RoutedByOwnState
  BY RoutedInOwnState DEF TargetsInv
<1> QED
  BY <1>1, TargetsInvariance, PTL

LEMMA RoundsAreEven == TypeOK /\ GivenByLoad /\ InRounds => EvenTurns
<1> SUFFICES ASSUME TypeOK, GivenByLoad, InRounds, NEW one \in DOMAIN given,
                    one.group.mode = "round_robin", NEW i \in DOMAIN one.group.hosts
             PROVE  Times(EntryOf(one, i)) >= Times(one) - 1
  BY DEF EvenTurns
<1> DEFINE turn == turns[one.load][one.pool]
           More(j) == IF j <= turn % Len(one.group.hosts) THEN 1 ELSE 0
<1>1. one = EntryOf(one, one.index) /\ one.load \in Loads /\ one.pool \in Pools
  BY TargetsAssumption DEF GivenByLoad, TypeOK, Loads, TargetsAssumption
<1>2. turn \in Nat
  BY <1>1 DEF TypeOK
<1>3. one.index \in DOMAIN one.group.hosts
  BY DEF InRounds
<1>4. PICK q \in 0 .. turn : \A j \in DOMAIN one.group.hosts : Times(EntryOf(one, j)) = q + More(j)
  BY DEF InRounds
<1>5. More(i) \in {0, 1} /\ More(one.index) \in {0, 1}
  OBVIOUS
<1> HIDE DEF More, turn
<1>6. Times(EntryOf(one, i)) = q + More(i) /\ Times(one) = q + More(one.index)
  BY <1>1, <1>3, <1>4
<1> QED
  BY <1>2, <1>5, <1>6

\* However reloads and updates come in between, the hosts of a round_robin group
\* have had as many turns each, one more or less, over all sessions of a load.
THEOREM TurnsAreEven == Spec => []EvenTurns
<1>1. TargetsInv => EvenTurns
  BY RoundsAreEven DEF TargetsInv
<1> QED
  BY <1>1, TargetsInvariance, PTL

LEMMA SentMeaning ==
  /\ SentAsAnswered <=>
       \A s \in Sessions : session[s].at \in {"resolved", "unavailable"} => SentRight(session[s])
  /\ SentAsAnswered' <=>
       \A s \in Sessions : session'[s].at \in {"resolved", "unavailable"} => SentRight(session'[s])
BY DEF SentAsAnswered, SentRight, Asks, AsksOf

LEMMA SentStep == TypeOK /\ SentAsAnswered /\ [Next]_vars => SentAsAnswered'
<1> SUFFICES ASSUME TypeOK, SentAsAnswered, [Next]_vars, NEW s \in Sessions,
                    session'[s].at \in {"resolved", "unavailable"}
             PROVE  SentRight(session'[s])
  BY SentMeaning
<1>1. session[s].at \in {"resolved", "unavailable"} => SentRight(session[s])
  BY SentMeaning
<1>2. CASE session' = session
  BY <1>1, <1>2
<1>3. ASSUME NEW r \in Sessions, NEW told, Told(told), session' = [session EXCEPT ![r] = told], Becomes(r, told)
      PROVE  SentRight(session'[s])
  <2>1. session'[r] = told /\ (s # r => session'[s] = session[s])
    BY <1>3, OneSessionSteps
  <2> QED
    BY <1>1, <1>3, <2>1 DEF Becomes
<1> QED
  BY <1>2, <1>3, SessionStep DEF vars

\* What a session hands out is a record of the lowest priority of its own answer,
\* never one for the root or port 0, or its configured target where there is
\* none; resolve_target gives up only when the answer denies the service.
THEOREM SentOut == Spec => []SentAsAnswered
<1>1. Init => SentAsAnswered
  BY DEF Init, SentAsAnswered, Idle
<1>2. TargetsInv /\ SentAsAnswered /\ [Next]_vars => SentAsAnswered'
  BY SentStep DEF TargetsInv
<1> QED
  BY <1>1, <1>2, TargetsInvariance, PTL DEF Spec

LEMMA SharesByWeight == TypeOK /\ KeepsAnswer => FairShares
<1> SUFFICES ASSUME TypeOK, KeepsAnswer, NEW s \in Sessions, session[s].at = "resolved",
                    NEW i \in Usable(session[s].answer)
             PROVE  Cardinality({k \in 1 .. Round(session[s].answer) :
                        Chosen(session[s].answer, sequence[session[s].state.load] + k) = i})
                      = Share(session[s].answer, i)
  BY DEF FairShares, Share, First, Total, Round, Candidates
<1>1. sequence[session[s].state.load] \in Nat
  <2>1. session[s].state \in States
    BY SessionTypes
  <2> QED
    BY <2>1 DEF TypeOK, States
<1>2. WellWeighed(session[s].answer)
  BY TargetsAssumption DEF TargetsAssumption, KeepsAnswer
<1> QED
  BY <1>1, <1>2, SharesAreFair

\* Whichever turn a session had, the round that follows gives each record of its
\* answer its share: the weight, and one turn more for the record with the turn
\* to spare; the same number to all where none has a weight.
THEOREM RoundsAreFair == Spec => []FairShares
<1>1. TargetsInv => FairShares
  BY SharesByWeight DEF TargetsInv
<1> QED
  BY <1>1, TargetsInvariance, PTL
=============================================================================
