------------------------------- MODULE IpTrie -------------------------------
(***************************************************************************)
(* The binary trie of security.rs that holds one address family of an IP   *)
(* list.  Nodes live in a growing array and refer to each other by index;  *)
(* insert walks down the bits of a network and creates what is missing,    *)
(* contains walks down the bits of an address until a network ends.  Every *)
(* pass through one of the two loops is a step.                            *)
(***************************************************************************)
EXTENDS IpNetworks, Sequences, FiniteSets

CONSTANT MaxInserts  \* bound: networks in the list

ASSUME TrieAssumption == Bits \in Nat /\ MaxInserts \in Nat

VARIABLES
    nodes,     \* the array; a child of 0 is None
    entries,   \* the number of networks
    job,       \* what is going on
    at,        \* node_index
    depth,     \* bits walked so far
    answer,    \* what the last contains was asked and returned
    path,      \* history: the network that each node stands for
    networks,  \* history: the networks inserted so far
    inserts    \* inserts so far, for the bound

vars == <<nodes, entries, job, at, depth, answer, path, networks, inserts>>

Node == [children : [{0, 1} -> Nat], terminal : BOOLEAN]
EmptyNode == [children |-> [bit \in {0, 1} |-> 0], terminal |-> FALSE]
Nothing == [op |-> "nothing"]
Jobs == {Nothing} \cup [op : {"insert"}, network : Networks]
                  \cup [op : {"contains"}, address : Addresses]
NoAnswer == [asked |-> "nothing"]
Answers == {NoAnswer} \cup [asked : Addresses, listed : BOOLEAN]

TypeOK ==
    /\ nodes \in Seq(Node)
    /\ entries \in Nat
    /\ job \in Jobs
    /\ at \in Nat
    /\ depth \in 0..Bits
    /\ answer \in Answers
    /\ path \in Seq(Networks)
    /\ networks \in SUBSET Networks
    /\ inserts \in Nat

Init ==
    /\ nodes = <<EmptyNode>>
    /\ entries = 0
    /\ job = Nothing
    /\ at = 1
    /\ depth = 0
    /\ answer = NoAnswer
    /\ path = <<Cut([i \in 1..Bits |-> 0], 0)>>
    /\ networks = {}
    /\ inserts = 0

\* Both walks start at the root.
Start(task) ==
    /\ job = Nothing
    /\ job' = task
    /\ at' = 1
    /\ depth' = 0

Done == job' = Nothing /\ UNCHANGED <<at, depth>>

-----------------------------------------------------------------------------
(* insert                                                                  *)

BeginInsert(network) ==
    /\ inserts < MaxInserts
    /\ inserts' = inserts + 1
    /\ Start([op |-> "insert", network |-> network])
    /\ UNCHANGED <<nodes, entries, answer, path, networks>>

Walking == job.op = "insert" /\ depth < job.network.prefix
Bit == job.network.bits[depth + 1]

Follow ==
    /\ Walking
    /\ nodes[at].children[Bit] # 0
    /\ at' = nodes[at].children[Bit]
    /\ depth' = depth + 1
    /\ UNCHANGED <<nodes, entries, job, answer, path, networks, inserts>>

\* The network one bit longer.
Longer(network, bit) ==
    [prefix |-> network.prefix + 1, bits |-> [network.bits EXCEPT ![network.prefix + 1] = bit]]

Linked(node, bit, child) ==
    [children |-> [node.children EXCEPT ![bit] = child], terminal |-> node.terminal]

Create ==
    /\ Walking
    /\ nodes[at].children[Bit] = 0
    /\ nodes' = Append([nodes EXCEPT ![at] = Linked(@, Bit, Len(nodes) + 1)], EmptyNode)
    /\ path' = Append(path, Longer(path[at], Bit))
    /\ at' = Len(nodes) + 1
    /\ depth' = depth + 1
    /\ UNCHANGED <<entries, job, answer, networks, inserts>>

\* Mutant: a network that is in the list already is counted again.
MarkCounting ==
    /\ job.op = "insert" /\ depth = job.network.prefix
    /\ nodes' = [nodes EXCEPT ![at].terminal = TRUE]
    /\ entries' = entries + 1
    /\ networks' = networks \cup {job.network}
    /\ Done
    /\ UNCHANGED <<answer, path, inserts>>

\* The walk is over: the network ends here.
Mark ==
    /\ job.op = "insert" /\ depth = job.network.prefix
    /\ nodes' = [nodes EXCEPT ![at].terminal = TRUE]
    /\ entries' = IF nodes[at].terminal THEN entries ELSE entries + 1
    /\ networks' = networks \cup {job.network}
    /\ Done
    /\ UNCHANGED <<answer, path, inserts>>

-----------------------------------------------------------------------------
(* contains                                                                *)

BeginContains(address) ==
    /\ Start([op |-> "contains", address |-> address])
    /\ UNCHANGED <<nodes, entries, answer, path, networks, inserts>>

Return(listed) ==
    /\ answer' = [asked |-> job.address, listed |-> listed]
    /\ Done
    /\ UNCHANGED <<nodes, entries, path, networks, inserts>>

\* Mutant: the root is passed without a look at it.
FoundBelow ==
    /\ job.op = "contains"
    /\ nodes[at].terminal
    /\ Return(depth # 0)

\* A network ends at the root or at the node just reached.
Found ==
    /\ job.op = "contains"
    /\ nodes[at].terminal
    /\ Return(TRUE)

Child == nodes[at].children[job.address[depth + 1]]

NotFound ==
    /\ job.op = "contains"
    /\ ~nodes[at].terminal
    /\ depth < Bits => Child = 0
    /\ Return(FALSE)

Descend ==
    /\ job.op = "contains"
    /\ ~nodes[at].terminal
    /\ depth < Bits
    /\ Child # 0
    /\ at' = Child
    /\ depth' = depth + 1
    /\ UNCHANGED <<nodes, entries, job, answer, path, networks, inserts>>

-----------------------------------------------------------------------------
Next ==
    \/ \E network \in Networks : BeginInsert(network)
    \/ Follow \/ Create \/ Mark
    \/ \E address \in Addresses : BeginContains(address)
    \/ Found \/ NotFound \/ Descend

Spec == Init /\ [][Next]_vars

-----------------------------------------------------------------------------
(* Properties.                                                             *)

\* The trie answers as the set of all addresses in its networks does: neither
\* the sharing of nodes, nor a network within another one, nor the prefixes 0
\* and Bits mislead it.
Listed == {address \in Addresses : \E network \in networks : Covers(network, address)}
Set == INSTANCE AddressSet WITH Bits <- Bits, listed <- Listed, answer <- answer
AnswersAsASet == Set!Spec

\* len() and is_empty() count different networks, duplicate lines once.
CountsNetworks == entries = Cardinality(networks)

-----------------------------------------------------------------------------
(* The inductive invariant behind these properties.                        *)

Indices == 1..Len(nodes)

\* Children are the networks one bit longer, and whoever is one is a child.
LinksRight ==
    \A i \in Indices, bit \in {0, 1} :
        LET child == nodes[i].children[bit] IN
        child # 0 => /\ child \in Indices
                     /\ path[i].prefix < Bits
                     /\ path[child] = Longer(path[i], bit)

LinksComplete ==
    \A i, j \in Indices, bit \in {0, 1} :
        path[i].prefix < Bits /\ path[j] = Longer(path[i], bit) => nodes[i].children[bit] = j

OneNodeEach == \A i, j \in Indices : path[i] = path[j] => i = j

\* With a node come the nodes of all shorter prefixes.
NoGaps ==
    \A j \in Indices : \A prefix \in 0..path[j].prefix :
        \E i \in Indices : path[i] = Cut(path[j].bits, prefix)

EndsMarked ==
    /\ \A i \in Indices : nodes[i].terminal <=> path[i] \in networks
    /\ \A network \in networks : \E i \in Indices : path[i] = network

\* The walk has followed the bits; contains has passed no end of a network.
WalkRight ==
    /\ job.op = "insert" => /\ depth <= job.network.prefix
                            /\ path[at] = Cut(job.network.bits, depth)
    /\ job.op = "contains" =>
         /\ path[at] = Cut(job.address, depth)
         /\ \A network \in networks : Covers(network, job.address) => network.prefix >= depth

IInv ==
    /\ TypeOK
    /\ at \in Indices
    /\ Len(path) = Len(nodes)
    /\ path[1].prefix = 0
    /\ LinksRight
    /\ LinksComplete
    /\ OneNodeEach
    /\ NoGaps
    /\ EndsMarked
    /\ WalkRight
    /\ IsFiniteSet(networks)
    /\ CountsNetworks
=============================================================================
