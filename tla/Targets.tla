------------------------------ MODULE Targets ------------------------------
(***************************************************************************)
(* Which target a session hands out while configurations are reloaded and  *)
(* data files updated: the choice of a route (config.rs), the turns of a   *)
(* group and the SRV lookup (dns.rs) as server.rs calls them.  A session   *)
(* keeps the state it was accepted with; the counters of the groups and of *)
(* the resolver are shared by all sessions of that state, and by the states*)
(* that updates of data files derive from it.                              *)
(***************************************************************************)
EXTENDS Routing, Srv, SequencesExt

CONSTANTS
    Sessions,    \* sessions that may be under way at a time
    Files,       \* what the configuration files may say, by number
    FirstFiles,  \* the numbers of those at the start
    LaterFiles,  \* and of those that edits may make of them
    Lists,       \* what the lists and the [security] section may say, by number
    Requests,    \* who asks for what, by number
    Answers,     \* what a lookup may return; a failed one returns nothing
    Hash,        \* function: the hash of an address
    MaxLoads,    \* bound: configurations loaded
    MaxAccepts   \* bound: sessions accepted

Loads == 1..MaxLoads

\* The groups of a configuration, by vhost (0 without vhosts) and position.
Vhosts(config) == IF config.vhosts = NONE THEN {0} ELSE DOMAIN config.vhosts.files
PoolsOf(config) ==
    UNION {{<<vhost, i>> : i \in DOMAIN RoutingFor(config, vhost).group} : vhost \in Vhosts(config)}
Loadable == {file \in DOMAIN Files : Valid(Files[file])}
Pools == UNION {PoolsOf(Files[file]) : file \in Loadable}

WellTyped(routing) ==
    /\ IsSequence(routing.rules) /\ IsSequence(routing.group)
    /\ \A i \in DOMAIN routing.rules : routing.rules[i].priority \in Int
    /\ \A i \in DOMAIN routing.group :
          routing.group[i].priority \in Int /\ IsSequence(routing.group[i].hosts)

ASSUME TargetsAssumption ==
    /\ NONE \notin Kinds
    /\ MaxLoads \in Nat \ {0} /\ MaxAccepts \in Nat
    /\ LaterFiles \subseteq DOMAIN Files
    /\ \A file \in Loadable :
          /\ Files[file].vhosts # NONE => IsSequence(Files[file].vhosts.files)
          /\ \A vhost \in Vhosts(Files[file]) : WellTyped(RoutingFor(Files[file], vhost))
    /\ \A answer \in Answers : WellWeighed(answer)

VARIABLES
    published,  \* the state new sessions get
    loads,      \* configurations loaded so far; names the counters of a load
    turns,      \* the counters of the groups, by load, vhost and group
    sequence,   \* the counters of the resolvers, by load
    session,    \* what each session has decided
    accepted,   \* sessions accepted so far, for the bound
    given       \* history: the bag of the hosts that turns have given

vars == <<published, loads, turns, sequence, session, accepted, given>>

States == [load : Loads, file : Loadable, lists : DOMAIN Lists, resolver : BOOLEAN]
Idle == [at |-> "idle"]

\* The configuration, the lists and the request that a session has; a status
\* request comes without a name.
Config(s) == Files[session[s].state.file]
Security(s) == Lists[session[s].state.lists]
Request(s) ==
    IF session[s].intent = "login" THEN Requests[session[s].request]
    ELSE [Requests[session[s].request] EXCEPT !.says["players"] = NONE]

TypeOK ==
    /\ published \in States
    /\ loads \in Loads
    /\ turns \in [Loads -> [Pools -> Nat]]
    /\ sequence \in [Loads -> Nat]
    /\ accepted \in 0..MaxAccepts
    /\ DOMAIN session = Sessions
    /\ \A s \in Sessions :
          \/ session[s] = Idle
          \/ session[s] \in [at : {"accepted", "refused", "no_route"}, state : States,
                             request : DOMAIN Requests, intent : {"status", "login"}]
          \/ /\ session[s].at \in {"routed", "resolved", "unavailable"}
             /\ session[s].state \in States
             /\ session[s].request \in DOMAIN Requests
             /\ session[s].intent \in {"status", "login"}

\* RuntimeState::load: fresh counters with every configuration.  A system
\* without DNS configuration has no resolver, which is taken not to change.
Loaded(load, file, lists, resolver) ==
    [load |-> load, file |-> file, lists |-> lists, resolver |-> resolver]

Init ==
    /\ \E file \in FirstFiles \cap Loadable, lists \in DOMAIN Lists, resolver \in BOOLEAN :
          published = Loaded(1, file, lists, resolver)
    /\ loads = 1
    /\ turns = [load \in Loads |-> [pool \in Pools |-> 0]]
    /\ sequence = [load \in Loads |-> 0]
    /\ session = [s \in Sessions |-> Idle]
    /\ accepted = 0
    /\ given = EmptyBag

\* Mutant: what does not pass validate() is published, too.
ReloadUnchecked(file, lists) ==
    /\ loads < MaxLoads
    /\ loads' = loads + 1
    /\ published' = Loaded(loads + 1, file, lists, published.resolver)
    /\ UNCHANGED <<turns, sequence, session, accepted, given>>

Reload(file, lists) ==
    /\ loads < MaxLoads
    /\ Valid(Files[file])
    /\ loads' = loads + 1
    /\ published' = Loaded(loads + 1, file, lists, published.resolver)
    /\ UNCHANGED <<turns, sequence, session, accepted, given>>

\* with_security, after an update of the lists: configuration, counters and
\* resolver are shared with the state before.
Update(lists) ==
    /\ published' = [published EXCEPT !.lists = lists]
    /\ UNCHANGED <<loads, turns, sequence, session, accepted, given>>

Accept(s, request, intent) ==
    /\ session[s].at \notin {"accepted", "routed"}
    /\ accepted < MaxAccepts
    /\ accepted' = accepted + 1
    /\ session' = [session EXCEPT ![s] =
                     [at |-> "accepted", state |-> published, request |-> request, intent |-> intent]]
    /\ UNCHANGED <<published, loads, turns, sequence, given>>

-----------------------------------------------------------------------------
(* The decision.                                                           *)

Ends(s, at) ==
    /\ session' = [session EXCEPT ![s] = [@ EXCEPT !.at = at]]
    /\ UNCHANGED <<published, loads, turns, sequence, accepted, given>>

Routed(s, route, target) ==
    session' = [session EXCEPT ![s] =
                  [at |-> "routed", state |-> @.state, request |-> @.request, intent |-> @.intent,
                   route |-> route, target |-> target]]

Reason(s) == Check(Security(s), Requests[session[s].request])

\* Mutant: the rules ask the lists of the moment.
RouteByPublishedLists(s) == Select(Config(s), Request(s), Lists[published.lists])

RouteOf(s) == Select(Config(s), Request(s), Security(s))

Refuse(s) ==
    /\ session[s].at = "accepted"
    /\ Reason(s) # NONE
    /\ Ends(s, "refused")

NoRoute(s) ==
    /\ session[s].at = "accepted"
    /\ Reason(s) = NONE
    /\ RouteOf(s) = {}
    /\ Ends(s, "no_route")

RouteToLine(s) ==
    /\ session[s].at = "accepted"
    /\ Reason(s) = NONE
    /\ \E route \in RouteOf(s) :
       /\ route.group = 0
       /\ Routed(s, route, RoutingFor(Config(s), route.vhost).lines[route.name])
    /\ UNCHANGED <<published, loads, turns, sequence, accepted, given>>

\* The places in the list of hosts that a group may pick in a turn; what is
\* random for an observer is a free choice.
Picks(group, turn, ip) ==
    CASE group.mode = "round_robin" -> {(turn % Len(group.hosts)) + 1}
      [] group.mode = "random" -> DOMAIN group.hosts
      [] group.mode = "ip_hash" -> {(Hash[ip] % Len(group.hosts)) + 1}

\* Mutant: only a login moves the counter on.
TurnOfLogins(s, pool, group) ==
    turns' = IF group.mode = "ip_hash" \/ session[s].intent = "status" THEN turns
             ELSE [turns EXCEPT ![session[s].state.load][pool] = @ + 1]

\* fetch_add; a hash needs no turn.
Turn(s, pool, group) ==
    turns' = IF group.mode = "ip_hash" THEN turns
             ELSE [turns EXCEPT ![session[s].state.load][pool] = @ + 1]

\* A turn, as given records it: in which load, pool and group, and the place.
Entry(load, pool, group, i) == [load |-> load, pool |-> pool, group |-> group, index |-> i]

RouteToGroup(s) ==
    /\ session[s].at = "accepted"
    /\ Reason(s) = NONE
    /\ \E route \in RouteOf(s) :
       LET load == session[s].state.load
           pool == <<route.vhost, route.group>>
           group == RoutingFor(Config(s), route.vhost).group[route.group]
       IN  /\ route.group # 0
           /\ \E i \in Picks(group, turns[load][pool], Request(s).ip) :
                 /\ Routed(s, route, [host |-> group.hosts[i], port |-> group.port,
                                      resolve_srv |-> group.resolve_srv])
                 /\ given' = given (+) SetToBag({Entry(load, pool, group, i)})
           /\ Turn(s, pool, group)
    /\ UNCHANGED <<published, loads, sequence, accepted>>

-----------------------------------------------------------------------------
(* The lookup, an await later.                                             *)

Asks(s) == session[s].target.resolve_srv /\ session[s].state.resolver
             /\ session[s].target.host \notin Literals

Got(s, at, answer, target) ==
    session' = [session EXCEPT ![s] =
                  [at |-> at, state |-> @.state, request |-> @.request, intent |-> @.intent,
                   route |-> @.route, target |-> @.target, answer |-> answer, got |-> target]]

\* The configured target is good without a lookup, after a failed one and when
\* the answer has no record for it.
KeepConfigured(s, answer) ==
    /\ session[s].at = "routed"
    /\ Usable(answer) = {} /\ ~Unavailable(answer)
    /\ ~Asks(s) => answer = <<>>
    /\ Got(s, "resolved", answer, session[s].target)
    /\ UNCHANGED <<published, loads, turns, sequence, accepted, given>>

SayUnavailable(s, answer) ==
    /\ session[s].at = "routed"
    /\ Asks(s)
    /\ Usable(answer) = {} /\ Unavailable(answer)
    /\ Got(s, "unavailable", answer, NONE)
    /\ UNCHANGED <<published, loads, turns, sequence, accepted, given>>

ResolveTarget(s, answer) ==
    /\ session[s].at = "routed"
    /\ Asks(s)
    /\ Usable(answer) # {}
    /\ LET load == session[s].state.load
           record == answer[Chosen(answer, sequence[load])]
       IN  /\ Got(s, "resolved", answer,
                  [host |-> record.host, port |-> record.port, resolve_srv |-> FALSE])
           /\ sequence' = [sequence EXCEPT ![load] = @ + 1]
    /\ UNCHANGED <<published, loads, turns, accepted, given>>

Next ==
    \/ \E file \in LaterFiles, lists \in DOMAIN Lists : Reload(file, lists)
    \/ \E lists \in DOMAIN Lists : Update(lists)
    \/ \E s \in Sessions :
          \/ \E request \in DOMAIN Requests, intent \in {"status", "login"} : Accept(s, request, intent)
          \/ Refuse(s) \/ NoRoute(s) \/ RouteToLine(s) \/ RouteToGroup(s)
          \/ \E answer \in Answers :
                KeepConfigured(s, answer) \/ SayUnavailable(s, answer) \/ ResolveTarget(s, answer)

Spec == Init /\ [][Next]_vars

-----------------------------------------------------------------------------
(* Properties.                                                             *)

\* The vhosts that README.md names for a host: the one of that name, else the
\* default one.
Serving(vhosts, host) ==
    LET Of(name) == {i \in DOMAIN vhosts.files : SameHost(vhosts.files[i].name, name)} IN
    IF host = NONE \/ Of(host) = {} THEN Of(vhosts.default) ELSE Of(host)

\* The target a rule names, and the priority README.md gives it.
Named(rule) == IF rule.line \in Blank THEN rule.group ELSE rule.line
PriorityOf(rule, routing) ==
    IF rule.priority # 0 \/ Groups(routing, Named(rule)) = {} THEN rule.priority
    ELSE (CHOOSE group \in ToSet(routing.group) : group.group_name = Named(rule)).priority

\* The name of the target for a request: that of the first rule among those of
\* the highest priority that match, else the default line.
NamedFor(routing, request, security) ==
    LET matching == {i \in DOMAIN routing.rules : Matches(routing.rules[i], request, security)}
        Before(i, j) == LET p == PriorityOf(routing.rules[i], routing)
                            q == PriorityOf(routing.rules[j], routing)
                        IN  p > q \/ (p = q /\ i <= j)
        best == {i \in matching : \A j \in matching : Before(i, j)}
    IN  IF best = {} THEN routing.default_line ELSE Named(routing.rules[CHOOSE i \in best : TRUE])

\* The client is on a list that blocks, or its provider is, and not allowed.
TurnedAway(s) ==
    LET lists == Security(s)
        request == Requests[session[s].request]
        ByName == \E keyword \in lists.isps : <<keyword, request.says["isp_contains"]>> \in Within
    IN  /\ lists.enabled
        /\ request.ip \notin lists.allowlist
        /\ \E kind \in Kinds \cap lists.blocks :
              request.ip \in lists.lists[kind] \/ (kind = "vpn" /\ ByName)

\* A session is refused exactly when the lists it was accepted with turn its
\* client away.  Else it is served by exactly one vhost and by the very target
\* that its best rule names, in the configuration it was accepted with,
\* whatever is published meanwhile: a configuration that validate() has passed
\* never leaves a rule without its target, nor two vhosts for one host.  Only
\* an empty default line leaves a session without a route.
RoutedByOwnState ==
    \A s \in Sessions :
        /\ session[s].at \notin {"idle", "accepted"} => (session[s].at = "refused" <=> TurnedAway(s))
        /\ session[s].at \in {"no_route", "routed"} =>
              LET vhosts == Config(s).vhosts
                  serving == IF vhosts = NONE THEN {0} ELSE Serving(vhosts, Request(s).says["hosts"])
              IN  \E vhost \in serving :
                      LET name == NamedFor(RoutingFor(Config(s), vhost), Request(s), Security(s))
                      IN  /\ serving = {vhost}
                          /\ IF session[s].at = "no_route" THEN name = ""
                             ELSE session[s].route.vhost = vhost /\ session[s].route.name = name

\* Another place of the same group, and how often a turn has given a place.
EntryOf(one, i) == Entry(one.load, one.pool, one.group, i)
Times(one) == IF one \in DOMAIN given THEN given[one] ELSE 0

\* The hosts of a round_robin group get as many sessions each, one more or
\* less, over all sessions of one load, before and after updates of the lists.
EvenTurns ==
    \A one \in DOMAIN given : one.group.mode = "round_robin" =>
        \A i \in DOMAIN one.group.hosts : Times(EntryOf(one, i)) >= Times(one) - 1

\* From any turn on, a record of the lowest priority is chosen as many times in
\* a round as its weight says.  One more turn goes to the first record without
\* weight, or, where all have one, to the first; records without any weight
\* share a round equally.
FairShares ==
    \A s \in Sessions : session[s].at = "resolved" =>
        LET answer == session[s].answer
            turn == sequence[session[s].state.load]
            usable == Usable(answer)
            lowest == {i \in usable : \A j \in usable : answer[i].priority <= answer[j].priority}
            total == Weight(answer, lowest)
            light == {i \in lowest : answer[i].weight = 0}
            Spare(i) == i \in lowest /\ i = Min(IF light = {} THEN lowest ELSE light)
            round == IF total = 0 THEN Cardinality(lowest) ELSE total + 1
            Share(i) == IF i \notin lowest THEN 0
                        ELSE IF total = 0 THEN 1
                        ELSE answer[i].weight + (IF Spare(i) THEN 1 ELSE 0)
        IN  \A i \in usable :
                Share(i) = Cardinality({k \in 1..round : Chosen(answer, turn + k) = i})

\* What a session hands out is a record of lowest priority of the answer it
\* got itself, never one for the root or for port 0, or else its configured
\* target; it gives up only when the answer says that there is no service.
SentAsAnswered ==
    \A s \in Sessions : session[s].at \in {"resolved", "unavailable"} =>
        LET answer == session[s].answer
            got == session[s].got
            records == IF ~Asks(s) THEN {} ELSE ToSet(answer)
            usable == {record \in records : record.host # Root /\ record.port # 0}
        IN  IF usable = {}
            THEN got = IF \E record \in records : record.host = Root THEN NONE ELSE session[s].target
            ELSE \E record \in usable :
                    /\ \A other \in usable : record.priority <= other.priority
                    /\ got = [host |-> record.host, port |-> record.port, resolve_srv |-> FALSE]

-----------------------------------------------------------------------------
(* The inductive invariant behind these properties.                        *)

\* A session's decision is one that its own configuration, lists and request
\* give, and remains so: a reason for a refusal, else none; and its route, or
\* none.
KeepsRoute ==
    \A s \in Sessions :
        /\ session[s].at = "refused" => Reason(s) # NONE
        /\ session[s].at \in {"no_route", "routed", "resolved", "unavailable"} => Reason(s) = NONE
        /\ session[s].at = "no_route" => RouteOf(s) = {}
        /\ session[s].at = "routed" => session[s].route \in RouteOf(s)

\* What a lookup returned is one of the answers there are.
KeepsAnswer ==
    \A s \in Sessions : session[s].at \in {"resolved", "unavailable"} => session[s].answer \in Answers

\* The states that are published or held by a session.
Held == {published} \cup {session[s].state : s \in {s \in Sessions : session[s] # Idle}}

\* A load has one configuration, and loads that are to come have no state yet.
OneFileEach ==
    /\ published.load = loads
    /\ \A state \in Held : state.load <= loads
    /\ \A one, other \in Held : one.load = other.load => one.file = other.file

\* The turns that were given in the pools of a load.
GivenFor(load, pool) == {one \in DOMAIN given : one.load = load /\ one.pool = pool}

\* What was given belongs to the configuration of its load.
GivenByLoad ==
    /\ \A one \in DOMAIN given :
          /\ one = EntryOf(one, one.index)
          /\ one.load \in 1..loads
          /\ one.pool \in Pools
          /\ given[one] \in Nat
    /\ \A one, other \in DOMAIN given :
          one.load = other.load /\ one.pool = other.pool => one.group = other.group
    /\ \A state \in Held : \A one \in DOMAIN given : one.load = state.load =>
          one.group = RoutingFor(Files[state.file], one.pool[1]).group[one.pool[2]]
    /\ \A load \in Loads, pool \in Pools : GivenFor(load, pool) = {} => turns[load][pool] = 0

\* After q rounds, the hosts of a group had q turns, those before the counter's
\* place one more.
InRounds ==
    \A one \in DOMAIN given : one.group.mode = "round_robin" =>
        LET turn == turns[one.load][one.pool]
            places == DOMAIN one.group.hosts
        IN  /\ one.index \in places
            /\ \E q \in 0..turn : \A i \in places :
                  Times(EntryOf(one, i)) = q + (IF i <= turn % Len(one.group.hosts) THEN 1 ELSE 0)

TargetsInv == TypeOK /\ KeepsRoute /\ KeepsAnswer /\ OneFileEach /\ GivenByLoad /\ InRounds
=============================================================================
