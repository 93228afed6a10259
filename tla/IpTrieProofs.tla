---------------------------- MODULE IpTrieProofs ----------------------------
(***************************************************************************)
(* The trie answers as a set does, for every width of an address and every *)
(* list of networks.                                                       *)
(***************************************************************************)
EXTENDS IpTrie, FiniteSetTheorems, TLAPS

USE TrieAssumption DEF TrieAssumption

-----------------------------------------------------------------------------
(* Networks.                                                               *)

LEMMA CutType ==
  ASSUME NEW address \in Addresses, NEW prefix \in 0..Bits
  PROVE  /\ Cut(address, prefix) \in Networks
         /\ Cut(address, prefix).prefix = prefix
         /\ Cut(address, prefix).bits \in Addresses
<1>1. \A i \in 1..Bits : (IF i <= prefix THEN address[i] ELSE 0) \in {0, 1}
  BY DEF Addresses
<1>2. Cut(address, prefix).bits \in Addresses
  BY <1>1 DEF Cut, Addresses
<1>3. Cut(address, prefix) \in Networks
  BY DEF Networks
<1> QED
  BY <1>2, <1>3 DEF Cut

LEMMA NetworkType ==
  ASSUME NEW network \in Networks
  PROVE  /\ network.prefix \in 0..Bits
         /\ network.bits \in Addresses
         /\ network = Cut(network.bits, network.prefix)
<1>1. PICK address \in Addresses, prefix \in 0..Bits : network = Cut(address, prefix)
  BY DEF Networks
<1>2. Cut(network.bits, prefix).bits = network.bits
  BY <1>1 DEF Cut, Addresses
<1> QED
  BY <1>1, <1>2, CutType DEF Cut

\* Cutting twice is cutting at the shorter prefix.
LEMMA CutAgain ==
  ASSUME NEW address \in Addresses, NEW long \in 0..Bits, NEW short \in 0..long
  PROVE  Cut(Cut(address, long).bits, short) = Cut(address, short)
<1>1. \A i \in 1..Bits : i <= short => i <= long
  OBVIOUS
<1>2. [i \in 1..Bits |-> IF i <= short THEN Cut(address, long).bits[i] ELSE 0]
        = [i \in 1..Bits |-> IF i <= short THEN address[i] ELSE 0]
  BY <1>1 DEF Cut
<1> QED
  BY <1>2 DEF Cut

LEMMA LongerIsCut ==
  ASSUME NEW address \in Addresses, NEW prefix \in 0..Bits, prefix < Bits
  PROVE  Longer(Cut(address, prefix), address[prefix + 1]) = Cut(address, prefix + 1)
<1>1. \A i \in 1..Bits : i <= prefix + 1 <=> i <= prefix \/ i = prefix + 1
  OBVIOUS
<1>2. [Cut(address, prefix).bits EXCEPT ![prefix + 1] = address[prefix + 1]]
        = [i \in 1..Bits |-> IF i <= prefix + 1 THEN address[i] ELSE 0]
  BY <1>1 DEF Cut
<1> QED
  BY <1>2 DEF Longer, Cut

LEMMA LongerType ==
  ASSUME NEW network \in Networks, network.prefix < Bits, NEW bit \in {0, 1}
  PROVE  /\ Longer(network, bit) \in Networks
         /\ Longer(network, bit).prefix = network.prefix + 1
<1> DEFINE address == [network.bits EXCEPT ![network.prefix + 1] = bit]
<1>1. address \in Addresses /\ network.prefix + 1 \in 0..Bits
  BY NetworkType DEF Addresses
<1>2. address = Cut(address, network.prefix + 1).bits
  <2>1. \A i \in 1..Bits : network.bits[i] = IF i <= network.prefix THEN network.bits[i] ELSE 0
    BY NetworkType DEF Cut
  <2>2. \A i \in 1..Bits : address[i] = IF i <= network.prefix + 1 THEN address[i] ELSE 0
    BY <2>1, NetworkType DEF Addresses
  <2> QED
    BY <1>1, <2>2 DEF Cut, Addresses
<1>3. Longer(network, bit) = Cut(address, network.prefix + 1)
  BY <1>2 DEF Longer, Cut
<1> QED
  BY <1>1, <1>3, CutType

LEMMA LongerInjective ==
  ASSUME NEW first \in Networks, NEW second \in Networks, first.prefix < Bits, second.prefix < Bits,
         NEW b \in {0, 1}, NEW c \in {0, 1}, Longer(first, b) = Longer(second, c)
  PROVE  first = second /\ b = c
<1>1. first.prefix \in Nat /\ second.prefix \in Nat /\ first.prefix + 1 = second.prefix + 1
  BY NetworkType DEF Longer
<1>2. first.prefix = second.prefix
  BY <1>1
<1> DEFINE last == first.prefix + 1
<1>3. [first.bits EXCEPT ![last] = b] = [second.bits EXCEPT ![last] = c]
  BY <1>2 DEF Longer
<1>4. first.bits \in [1..Bits -> {0, 1}] /\ second.bits \in [1..Bits -> {0, 1}] /\ last \in 1..Bits
  BY NetworkType DEF Addresses
<1>5. b = c /\ \A i \in 1..Bits : i # last => first.bits[i] = second.bits[i]
  BY <1>3, <1>4
<1>6. first.bits[last] = 0 /\ second.bits[last] = 0
  BY <1>1, <1>2, <1>4, NetworkType DEF Cut
<1>7. first.bits = second.bits
  BY <1>4, <1>5, <1>6
<1> QED
  BY <1>2, <1>5, <1>7, NetworkType

-----------------------------------------------------------------------------
(* The inductive invariant.                                                *)

LEMMA RootType == Cut([i \in 1..Bits |-> 0], 0) \in Networks /\ Cut([i \in 1..Bits |-> 0], 0).prefix = 0
<1>1. [i \in 1..Bits |-> 0] \in Addresses
  BY DEF Addresses
<1> QED
  BY <1>1, CutType

\* There is only one network of prefix 0.
LEMMA OnlyRoot ==
  ASSUME NEW network \in Networks, network.prefix = 0, NEW address \in Addresses
  PROVE  network = Cut(address, 0)
<1>1. [i \in 1..Bits |-> IF i <= 0 THEN network.bits[i] ELSE 0]
        = [i \in 1..Bits |-> IF i <= 0 THEN address[i] ELSE 0]
  OBVIOUS
<1> QED
  BY <1>1, NetworkType DEF Cut

LEMMA InitInv == Init => IInv
<1> SUFFICES ASSUME Init PROVE IInv
  OBVIOUS
<1>1. EmptyNode \in Node
  BY DEF EmptyNode, Node
<1>2. nodes \in Seq(Node) /\ path \in Seq(Networks) /\ Len(nodes) = 1 /\ Len(path) = 1
  BY <1>1, RootType DEF Init
<1>3. TypeOK
  BY <1>2 DEF Init, TypeOK, Jobs, Answers
<1>4. at \in Indices /\ path[1].prefix = 0 /\ OneNodeEach
  BY <1>2, RootType DEF Init, Indices, OneNodeEach
<1>5. LinksRight
  BY <1>2 DEF Init, Indices, LinksRight, EmptyNode
<1>6. LinksComplete
  BY <1>2, <1>4, RootType, LongerType DEF Init, Indices, LinksComplete
<1>7. NoGaps
  BY <1>2, <1>4, RootType, NetworkType, OnlyRoot DEF Init, Indices, NoGaps
<1>8. EndsMarked /\ WalkRight
  BY <1>2 DEF Init, Indices, EndsMarked, WalkRight, EmptyNode, Nothing
<1>9. IsFiniteSet(networks) /\ CountsNetworks
  BY FS_EmptySet DEF Init, CountsNetworks
<1> QED
  BY <1>2, <1>3, <1>4, <1>5, <1>6, <1>7, <1>8, <1>9 DEF IInv

\* The parts of the invariant that speak about the nodes only.
Tree ==
    /\ nodes \in Seq(Node) /\ path \in Seq(Networks) /\ Len(path) = Len(nodes) /\ Len(nodes) > 0
    /\ path[1].prefix = 0
    /\ LinksRight /\ LinksComplete /\ OneNodeEach /\ NoGaps

LEMMA InvTree == IInv => Tree
BY DEF IInv, Tree, TypeOK, Indices

\* The walk of insert stands above the place of the next node.
LEMMA WalkPlace ==
  ASSUME IInv, Walking
  PROVE  /\ at \in Indices
         /\ path[at] \in Networks /\ path[at].prefix = depth /\ depth < Bits
         /\ Bit \in {0, 1}
         /\ Longer(path[at], Bit) = Cut(job.network.bits, depth + 1)
<1>1. job.network \in Networks /\ depth \in 0..Bits /\ path[at] = Cut(job.network.bits, depth)
  BY DEF IInv, TypeOK, Walking, Jobs, Nothing, WalkRight
<1>2. job.network.prefix \in 0..Bits /\ job.network.bits \in Addresses
  BY <1>1, NetworkType
<1>3. depth < Bits
  BY <1>1, <1>2 DEF Walking
<1>4. at \in Indices
  BY DEF IInv
<1>5. path[at] \in Networks /\ path[at].prefix = depth
  BY <1>1, <1>2, CutType
<1>6. depth + 1 \in 1..Bits
  BY <1>1, <1>3, TrieAssumption
<1>7. Bit \in {0, 1}
  BY <1>2, <1>6 DEF Bit, Addresses
<1>8. Longer(path[at], Bit) = Cut(job.network.bits, depth + 1)
  BY <1>1, <1>2, <1>3, LongerIsCut DEF Bit
<1> QED
  BY <1>3, <1>4, <1>5, <1>7, <1>8

LEMMA CreateTree ==
  ASSUME IInv, Create
  PROVE  Tree' /\ (\A i \in Indices : path'[i] = path[i]) /\ path'[Len(nodes) + 1] = Longer(path[at], Bit)
<1> DEFINE new == Len(nodes) + 1
<1> DEFINE node == Linked(nodes[at], Bit, new)
<1> DEFINE linked == [nodes EXCEPT ![at] = node]
<1>0. Tree /\ at \in Indices /\ Len(nodes) \in Nat /\ Len(path) = Len(nodes)
  BY InvTree DEF IInv, Tree
<1>1. /\ path[at] \in Networks /\ path[at].prefix = depth /\ depth < Bits /\ depth \in Nat
      /\ Bit \in {0, 1}
      /\ nodes[at].children[Bit] = 0
  BY WalkPlace DEF Create, IInv, TypeOK
<1>2. Longer(path[at], Bit) \in Networks /\ Longer(path[at], Bit).prefix = depth + 1
  BY <1>1, LongerType
<1>3. /\ EmptyNode \in Node /\ nodes[at] \in Node
      /\ node \in Node /\ node.children[Bit] = new /\ node.terminal = nodes[at].terminal
      /\ \A bit \in {0, 1} : bit # Bit => node.children[bit] = nodes[at].children[bit]
  <2>1. EmptyNode \in Node
    BY DEF EmptyNode, Node
  <2>2. nodes[at] \in Node
    BY <1>0 DEF Tree, Indices
  <2> QED
    BY <1>0, <1>1, <2>1, <2>2 DEF Linked, Node
<1>4. /\ linked \in Seq(Node) /\ Len(linked) = Len(nodes)
      /\ linked[at].children[Bit] = new
      /\ \A bit \in {0, 1} : bit # Bit => linked[at].children[bit] = nodes[at].children[bit]
      /\ \A i \in Indices : i # at => linked[i] = nodes[i]
      /\ \A i \in Indices : linked[i].terminal = nodes[i].terminal
  <2> HIDE DEF node
  <2>1. linked \in Seq(Node) /\ Len(linked) = Len(nodes) /\ linked[at] = node
        /\ \A i \in Indices : i # at => linked[i] = nodes[i]
    BY <1>0, <1>3 DEF Tree, Indices
  <2> QED
    BY <1>3, <2>1
<1>5. /\ nodes' \in Seq(Node) /\ Len(nodes') = new
      /\ nodes'[new] = EmptyNode
      /\ \A i \in Indices : nodes'[i] = linked[i]
  BY <1>3, <1>4 DEF Create, Indices
<1>6. /\ path' \in Seq(Networks) /\ Len(path') = new
      /\ path'[new] = Longer(path[at], Bit)
      /\ \A i \in Indices : path'[i] = path[i]
  BY <1>0, <1>2 DEF Create, Indices, Tree
<1>7. Indices' = Indices \cup {new} /\ new \notin Indices /\ 1 \in Indices
  BY <1>0, <1>5 DEF Indices, Tree
<1>8. \A i \in Indices : path[i] \in Networks /\ path[i] # Longer(path[at], Bit)
  BY <1>0, <1>1, <1>7 DEF Tree, LinksComplete, Indices
<1>9. LinksRight'
  <2> SUFFICES ASSUME NEW i \in Indices', NEW bit \in {0, 1}, nodes'[i].children[bit] # 0
               PROVE  /\ nodes'[i].children[bit] \in Indices'
                      /\ path'[i].prefix < Bits
                      /\ path'[nodes'[i].children[bit]] = Longer(path'[i], bit)
    BY DEF LinksRight
  <2>1. CASE i = new
    BY <1>5, <2>1 DEF EmptyNode
  <2>2. CASE i = at /\ bit = Bit
    BY <1>0, <1>1, <1>4, <1>5, <1>6, <1>7, <2>2
  <2>3. CASE i \in Indices /\ ~(i = at /\ bit = Bit)
    <3>1. nodes'[i].children[bit] = nodes[i].children[bit]
      BY <1>4, <1>5, <2>3
    <3> QED
      BY <1>0, <1>6, <1>7, <2>3, <3>1 DEF Tree, LinksRight
  <2> QED
    BY <1>7, <2>1, <2>2, <2>3
<1>10. LinksComplete'
  <2> SUFFICES ASSUME NEW i \in Indices', NEW j \in Indices', NEW bit \in {0, 1},
                      path'[i].prefix < Bits, path'[j] = Longer(path'[i], bit)
               PROVE  nodes'[i].children[bit] = j
    BY DEF LinksComplete
  <2>1. CASE i \in Indices /\ j \in Indices
    <3>1. nodes[i].children[bit] = j
      BY <1>0, <1>6, <2>1 DEF Tree, LinksComplete
    <3> QED
      BY <1>0, <1>1, <1>4, <1>5, <2>1, <3>1 DEF Indices
  <2>2. CASE i \in Indices /\ j = new
    <3>1. path[i] = path[at] /\ bit = Bit
      BY <1>1, <1>6, <1>8, <2>2, LongerInjective
    <3> QED
      BY <1>0, <1>4, <1>5, <2>2, <3>1 DEF Tree, OneNodeEach
  <2>3. CASE i = new
    <3>1. path'[i].prefix = depth + 1 /\ path'[i] \in Networks
      BY <1>2, <1>6, <2>3
    <3>2. path'[j].prefix = depth + 2
      BY <1>1, <3>1 DEF Longer
    <3>3. j \in Indices
      BY <1>1, <1>2, <1>6, <1>7, <3>2
    <3>4. \E k \in Indices : path[k] = Cut(path[j].bits, depth + 1)
      BY <1>0, <1>1, <1>6, <3>2, <3>3 DEF Tree, NoGaps
    <3>5. Cut(path[j].bits, depth + 1) = path'[i]
      <4>1. path[j] \in Networks /\ path[j].bits = [path'[i].bits EXCEPT ![depth + 2] = bit]
        BY <1>1, <1>6, <1>8, <3>1, <3>3 DEF Longer
      <4>2. path'[i] = Cut(path'[i].bits, depth + 1) /\ path'[i].bits \in Addresses
        BY <3>1, NetworkType
      <4>3. [k \in 1..Bits |-> IF k <= depth + 1 THEN path[j].bits[k] ELSE 0]
              = [k \in 1..Bits |-> IF k <= depth + 1 THEN path'[i].bits[k] ELSE 0]
        BY <1>1, <4>1, <4>2 DEF Addresses
      <4> QED
        BY <4>2, <4>3 DEF Cut
    <3> QED
      BY <1>6, <1>8, <2>3, <3>4, <3>5
  <2> QED
    BY <1>7, <2>1, <2>2, <2>3
<1>11. OneNodeEach'
  BY <1>0, <1>6, <1>7, <1>8 DEF OneNodeEach, Tree
<1>12. NoGaps'
  <2> SUFFICES ASSUME NEW j \in Indices', NEW prefix \in 0..path'[j].prefix
               PROVE  \E i \in Indices' : path'[i] = Cut(path'[j].bits, prefix)
    BY DEF NoGaps
  <2>1. CASE j \in Indices
    BY <1>0, <1>6, <1>7, <2>1 DEF Tree, NoGaps
  <2>2. CASE j = new /\ prefix = depth + 1
    BY <1>2, <1>6, <2>2, NetworkType
  <2>3. CASE j = new /\ prefix # depth + 1
    <3>1. prefix \in 0..depth
      BY <1>1, <1>2, <1>6, <2>3
    <3>2. PICK i \in Indices : path[i] = Cut(path[at].bits, prefix)
      BY <1>0, <1>1, <3>1 DEF Tree, NoGaps
    <3>3. path'[j].bits = [path[at].bits EXCEPT ![depth + 1] = Bit] /\ path[at].bits \in Addresses
      BY <1>1, <1>6, <2>3, NetworkType DEF Longer
    <3>4. [k \in 1..Bits |-> IF k <= prefix THEN path'[j].bits[k] ELSE 0]
            = [k \in 1..Bits |-> IF k <= prefix THEN path[at].bits[k] ELSE 0]
      BY <1>1, <3>1, <3>3 DEF Addresses
    <3> QED
      BY <1>6, <1>7, <3>2, <3>4 DEF Cut
  <2> QED
    BY <1>7, <2>1, <2>2, <2>3
<1> QED
  BY <1>0, <1>5, <1>6, <1>7, <1>9, <1>10, <1>11, <1>12 DEF Tree

LEMMA CreateStep == IInv /\ Create => IInv'
<1> SUFFICES ASSUME IInv, Create PROVE IInv'
  OBVIOUS
<1> DEFINE new == Len(nodes) + 1
<1>1. Tree' /\ (\A i \in Indices : path'[i] = path[i]) /\ path'[new] = Longer(path[at], Bit)
  BY CreateTree
<1>2. Tree /\ TypeOK /\ Walking
  BY InvTree DEF IInv, Create
<1>3. Len(nodes') = new /\ new \in Nat /\ Len(path') = new /\ nodes'[new] = EmptyNode
      /\ Indices' = Indices \cup {new} /\ new \notin Indices
  BY <1>2 DEF Create, Tree, Indices
<1>4. \A i \in Indices : nodes'[i].terminal = nodes[i].terminal
  BY <1>2 DEF Create, Tree, Indices, Linked
<1>5. /\ at \in Indices /\ path[at] \in Networks /\ path[at].prefix = depth /\ depth < Bits /\ Bit \in {0, 1}
      /\ Longer(path[at], Bit) = Cut(job.network.bits, depth + 1)
      /\ nodes[at].children[Bit] = 0
  BY <1>2, WalkPlace DEF Create
<1>6. TypeOK'
  BY <1>1, <1>2, <1>3, <1>5 DEF Create, TypeOK, Tree
<1>7. \A network \in networks : network # Longer(path[at], Bit)
  <2> SUFFICES ASSUME NEW network \in networks, network = Longer(path[at], Bit) PROVE FALSE
    OBVIOUS
  <2>1. PICK i \in Indices : path[i] = network
    BY DEF IInv, EndsMarked
  <2> QED
    BY <1>2, <1>5, <2>1 DEF Tree, LinksComplete, Indices
<1>8. EndsMarked'
  <2>1. networks' = networks /\ EndsMarked /\ nodes'[new].terminal = FALSE
    BY <1>3 DEF IInv, Create, EmptyNode
  <2>2. \A i \in Indices' : nodes'[i].terminal <=> path'[i] \in networks'
    BY <1>1, <1>3, <1>4, <1>7, <2>1 DEF EndsMarked
  <2>3. \A network \in networks' : \E i \in Indices' : path'[i] = network
    BY <1>1, <1>3, <2>1 DEF EndsMarked
  <2> QED
    BY <2>2, <2>3 DEF EndsMarked
<1>9. WalkRight'
  <2>1. job.op = "insert" /\ job' = job /\ depth' = depth + 1 /\ at' = new
    BY <1>2 DEF Create, Walking
  <2>2. depth + 1 <= job.network.prefix
    <3>1. job.network \in Networks
      BY <1>2, <2>1 DEF TypeOK, Jobs, Nothing
    <3>2. job.network.prefix \in Nat /\ depth \in Nat /\ depth < job.network.prefix
      BY <1>2, <3>1, NetworkType DEF TypeOK, Walking
    <3> QED
      BY <3>2
  <2> QED
    BY <1>1, <1>5, <2>1, <2>2 DEF WalkRight
<1>10. IsFiniteSet(networks') /\ CountsNetworks'
  BY DEF IInv, CountsNetworks, Create
<1>11. at' \in Indices'
  BY <1>3 DEF Create
<1> QED
  BY <1>1, <1>3, <1>6, <1>8, <1>9, <1>10, <1>11 DEF IInv, Tree

\* What the steps that leave the nodes alone keep.
LEMMA NodesKept ==
  ASSUME IInv, UNCHANGED <<nodes, entries, path, networks>>, TypeOK', at' \in Indices, WalkRight'
  PROVE  IInv'
<1>1. Indices' = Indices /\ Tree
  BY InvTree DEF Indices
<1> QED
  BY <1>1 DEF IInv, Tree, LinksRight, LinksComplete, OneNodeEach, NoGaps, EndsMarked, CountsNetworks

LEMMA BeginStep ==
  ASSUME IInv, NEW network \in Networks, NEW address \in Addresses,
         BeginInsert(network) \/ BeginContains(address)
  PROVE  IInv'
<1>1. TypeOK'
  BY DEF IInv, TypeOK, BeginInsert, BeginContains, Start, Jobs
<1>2. at' = 1 /\ depth' = 0 /\ 1 \in Indices /\ path' = path
  BY InvTree DEF BeginInsert, BeginContains, Start, Tree, Indices
<1>3. path[1] \in Networks /\ path[1].prefix = 0
  BY <1>2, InvTree DEF Tree, Indices
<1>4. \A n \in networks : n.prefix >= 0
  BY NetworkType DEF IInv, TypeOK
<1>5. WalkRight'
  <2>1. CASE BeginInsert(network)
    <3>1. network.bits \in Addresses /\ network.prefix >= 0
      BY NetworkType
    <3> QED
      BY <1>2, <1>3, <2>1, <3>1, OnlyRoot DEF BeginInsert, Start, WalkRight
  <2>2. CASE BeginContains(address)
    BY <1>2, <1>3, <1>4, <2>2, OnlyRoot DEF BeginContains, Start, WalkRight
  <2> QED
    BY <2>1, <2>2
<1> QED
  BY <1>1, <1>2, <1>5, NodesKept DEF BeginInsert, BeginContains

LEMMA FollowStep == IInv /\ Follow => IInv'
<1> SUFFICES ASSUME IInv, Follow PROVE IInv'
  OBVIOUS
<1>1. /\ at \in Indices /\ path[at] \in Networks /\ path[at].prefix = depth /\ depth < Bits /\ Bit \in {0, 1}
      /\ Longer(path[at], Bit) = Cut(job.network.bits, depth + 1)
  BY WalkPlace DEF Follow
<1>2. at' \in Indices /\ path[at'] = Cut(job.network.bits, depth + 1)
  BY <1>1, InvTree DEF Follow, Tree, LinksRight
<1>3. TypeOK'
  BY <1>1, <1>2 DEF IInv, TypeOK, Follow, Indices
<1>4. depth + 1 <= job.network.prefix /\ job.op = "insert"
  <2>1. job.network \in Networks
    BY DEF IInv, TypeOK, Follow, Walking, Jobs, Nothing
  <2>2. job.network.prefix \in Nat /\ depth \in Nat
    BY <2>1, NetworkType DEF IInv, TypeOK
  <2> QED
    BY <2>2 DEF Follow, Walking
<1>5. WalkRight'
  BY <1>2, <1>4 DEF Follow, WalkRight
<1> QED
  BY <1>2, <1>3, <1>5, NodesKept DEF Follow

LEMMA MarkStep == IInv /\ Mark => IInv'
<1> SUFFICES ASSUME IInv, Mark PROVE IInv'
  OBVIOUS
<1>1. TypeOK /\ Tree /\ at \in Indices /\ nodes[at] \in Node
  BY InvTree DEF IInv, Tree, Indices
<1>2. job.network \in Networks /\ path[at] = job.network
  <2>1. job.network \in Networks /\ path[at] = Cut(job.network.bits, depth) /\ depth = job.network.prefix
    BY <1>1 DEF IInv, TypeOK, Mark, Jobs, Nothing, WalkRight
  <2> QED
    BY <2>1, NetworkType
<1> DEFINE node == [nodes[at] EXCEPT !.terminal = TRUE]
<1>3. node \in Node /\ node.terminal = TRUE /\ node.children = nodes[at].children
  BY <1>1 DEF Node
<1>4. nodes' \in Seq(Node) /\ Len(nodes') = Len(nodes) /\ nodes'[at] = node
      /\ \A i \in Indices : i # at => nodes'[i] = nodes[i]
  <2>1. nodes' = [nodes EXCEPT ![at] = node]
    BY DEF Mark
  <2> HIDE DEF node
  <2> QED
    BY <1>1, <1>3, <2>1 DEF Tree, Indices
<1> HIDE DEF node
<1>5. Indices' = Indices /\ path' = path /\ \A i \in Indices : nodes'[i].children = nodes[i].children
  BY <1>3, <1>4 DEF Indices, Mark
<1>6. LinksRight' /\ LinksComplete' /\ OneNodeEach' /\ NoGaps'
  BY <1>1, <1>5 DEF Tree, LinksRight, LinksComplete, OneNodeEach, NoGaps
<1>7. EndsMarked'
  <2>1. \A i \in Indices : nodes'[i].terminal <=> path[i] \in networks \cup {job.network}
    BY <1>1, <1>2, <1>3, <1>4 DEF IInv, EndsMarked, Tree, OneNodeEach
  <2> QED
    BY <1>1, <1>2, <1>5, <2>1 DEF IInv, EndsMarked, Mark
<1>8. IsFiniteSet(networks') /\ CountsNetworks'
  <2>1. IsFiniteSet(networks)
    BY DEF IInv
  <2>2. nodes[at].terminal <=> job.network \in networks
    BY <1>1, <1>2 DEF IInv, EndsMarked
  <2>3. CASE job.network \in networks
    <3>1. networks' = networks
      BY <2>3 DEF Mark
    <3> QED
      BY <2>1, <2>2, <2>3, <3>1 DEF Mark, IInv, CountsNetworks
  <2>4. CASE job.network \notin networks
    <3>1. Cardinality(networks \cup {job.network}) = Cardinality(networks) + 1
          /\ IsFiniteSet(networks \cup {job.network})
      BY <2>1, <2>4, FS_AddElement
    <3> QED
      BY <2>1, <2>2, <2>4, <3>1 DEF Mark, IInv, CountsNetworks
  <2> QED
    BY <2>3, <2>4
<1>9. TypeOK' /\ WalkRight'
  BY <1>1, <1>2, <1>4, <1>5 DEF TypeOK, Mark, Done, Jobs, WalkRight, Nothing
<1> QED
  BY <1>1, <1>4, <1>5, <1>6, <1>7, <1>8, <1>9 DEF IInv, Tree, Mark, Done

LEMMA Asking ==
  ASSUME IInv, job.op = "contains"
  PROVE  /\ at \in Indices /\ depth \in 0..Bits /\ job.address \in Addresses
         /\ path[at] = Cut(job.address, depth) /\ path[at].prefix = depth
         /\ \A network \in networks : Covers(network, job.address) => network.prefix >= depth
<1>1. job.address \in Addresses /\ depth \in 0..Bits
  BY DEF IInv, TypeOK, Jobs, Nothing
<1> QED
  BY <1>1, CutType DEF IInv, WalkRight

LEMMA DescendStep == IInv /\ Descend => IInv'
<1> SUFFICES ASSUME IInv, Descend PROVE IInv'
  OBVIOUS
<1>1. /\ at \in Indices /\ depth \in 0..Bits /\ depth < Bits /\ job.address \in Addresses
      /\ path[at] = Cut(job.address, depth) /\ path[at].prefix = depth
      /\ \A network \in networks : Covers(network, job.address) => network.prefix >= depth
  BY Asking DEF Descend
<1> DEFINE bit == job.address[depth + 1]
<1>2. bit \in {0, 1} /\ Longer(path[at], bit) = Cut(job.address, depth + 1)
  BY <1>1, LongerIsCut DEF Addresses
<1>3. at' \in Indices /\ path[at'] = Cut(job.address, depth + 1)
  BY <1>1, <1>2, InvTree DEF Descend, Child, Tree, LinksRight
<1>4. TypeOK'
  BY <1>1, <1>3 DEF IInv, TypeOK, Descend, Indices
\* A network that ends at this node would have made it terminal.
<1>5. \A network \in networks : Covers(network, job.address) => network.prefix >= depth + 1
  <2> SUFFICES ASSUME NEW network \in networks, Covers(network, job.address), network.prefix = depth
               PROVE  FALSE
    <3>1. \A network \in networks : network.prefix \in Nat
      BY NetworkType DEF IInv, TypeOK
    <3> QED
      BY <1>1, <3>1
  <2>1. network = path[at]
    BY <1>1 DEF Covers
  <2> QED
    BY <1>1, <2>1 DEF Descend, IInv, EndsMarked
<1>6. WalkRight'
  BY <1>3, <1>5 DEF Descend, WalkRight
<1> QED
  BY <1>3, <1>4, <1>6, NodesKept DEF Descend

LEMMA ReturnStep == IInv /\ (Found \/ NotFound) => IInv'
<1> SUFFICES ASSUME IInv, Found \/ NotFound PROVE IInv'
  OBVIOUS
<1>1. job.address \in Addresses /\ at \in Indices
  BY Asking DEF Found, NotFound
<1>2. TypeOK'
  <2>1. job' = Nothing /\ UNCHANGED <<nodes, entries, at, depth, path, networks, inserts>>
    BY DEF Found, NotFound, Return, Done
  <2>2. PICK listed \in BOOLEAN : answer' = [asked |-> job.address, listed |-> listed]
    BY DEF Found, NotFound, Return
  <2>3. answer' \in Answers
    BY <1>1, <2>2 DEF Answers
  <2> QED
    BY <2>1, <2>3 DEF IInv, TypeOK, Jobs
<1>3. WalkRight'
  BY DEF Found, NotFound, Return, Done, Nothing, WalkRight
<1> QED
  BY <1>1, <1>2, <1>3, NodesKept DEF Found, NotFound, Return, Done

LEMMA InvStep == IInv /\ [Next]_vars => IInv'
<1> SUFFICES ASSUME IInv, [Next]_vars PROVE IInv'
  OBVIOUS
<1>1. [i \in 1..Bits |-> 0] \in Addresses
  BY DEF Addresses
<1>2. ASSUME NEW network \in Networks, BeginInsert(network) PROVE IInv'
  BY <1>1, <1>2, BeginStep
<1>3. ASSUME NEW address \in Addresses, BeginContains(address) PROVE IInv'
  BY <1>1, <1>3, RootType, BeginStep
<1>4. CASE UNCHANGED vars
  <2>1. TypeOK' /\ WalkRight' /\ at' \in Indices
    BY <1>4 DEF vars, IInv, TypeOK, WalkRight
  <2> QED
    BY <1>4, <2>1, NodesKept DEF vars
<1> QED
  BY <1>2, <1>3, <1>4, FollowStep, CreateStep, MarkStep, ReturnStep, DescendStep DEF Next

\* The shape of the trie and the place of a walk in it hold at every step of
\* insert and contains of security.rs, among them that len() counts each
\* network once.
THEOREM Invariance == Spec => []IInv
<1> QED
  BY InitInv, InvStep, PTL DEF Spec

\* len() and is_empty() count different networks, whatever is inserted.
THEOREM Counts == Spec => []CountsNetworks
<1>1. IInv => CountsNetworks
  BY DEF IInv
<1> QED
  BY <1>1, Invariance, PTL

-----------------------------------------------------------------------------
(* The refinement.                                                         *)

LEMMA FoundRight == IInv /\ Found => job.address \in Listed
<1> SUFFICES ASSUME IInv, Found PROVE job.address \in Listed
  OBVIOUS
<1>1. /\ at \in Indices /\ job.address \in Addresses
      /\ path[at] = Cut(job.address, depth) /\ path[at].prefix = depth
  BY Asking DEF Found
<1>2. path[at] \in networks
  BY <1>1 DEF Found, IInv, EndsMarked
<1> QED
  BY <1>1, <1>2 DEF Listed, Covers

LEMMA NotFoundRight == IInv /\ NotFound => job.address \notin Listed
<1> SUFFICES ASSUME IInv, NotFound, NEW network \in networks, Covers(network, job.address)
             PROVE  FALSE
  BY DEF Listed
<1>1. /\ at \in Indices /\ depth \in 0..Bits /\ job.address \in Addresses
      /\ path[at] = Cut(job.address, depth) /\ path[at].prefix = depth
      /\ network.prefix >= depth
  BY Asking DEF NotFound
<1>2. network \in Networks /\ network.prefix \in 0..Bits /\ network = Cut(job.address, network.prefix)
  BY NetworkType DEF IInv, TypeOK, Covers
<1>3. CASE network.prefix = depth
  BY <1>1, <1>2, <1>3 DEF NotFound, IInv, EndsMarked
<1>4. CASE network.prefix > depth
  <2> DEFINE bit == job.address[depth + 1]
  <2>1. depth < Bits /\ depth + 1 \in 0..network.prefix
    BY <1>1, <1>2, <1>4
  <2>2. bit \in {0, 1} /\ Longer(path[at], bit) = Cut(job.address, depth + 1)
    BY <1>1, <2>1, LongerIsCut DEF Addresses
  <2>3. PICK j \in Indices : path[j] = network
    BY DEF IInv, EndsMarked
  <2>4. PICK i \in Indices : path[i] = Cut(network.bits, depth + 1)
    BY <2>1, <2>3, InvTree DEF Tree, NoGaps
  <2>5. path[i] = Longer(path[at], bit)
    BY <1>1, <1>2, <2>1, <2>2, <2>4, CutAgain
  <2>6. nodes[at].children[bit] = i
    BY <1>1, <2>1, <2>2, <2>5, InvTree DEF Tree, LinksComplete
  <2> QED
    BY <2>1, <2>6 DEF NotFound, Child, Indices
<1> QED
  BY <1>1, <1>2, <1>3, <1>4

LEMMA MarkInserts == IInv /\ Mark => Set!Insert(job.network)
<1> SUFFICES ASSUME IInv, Mark PROVE Set!Insert(job.network)
  OBVIOUS
<1>1. Listed' = Listed \cup {address \in Addresses : Covers(job.network, address)}
  BY DEF Mark, Listed
<1> QED
  BY <1>1 DEF Mark, Set!Insert, Set!Addresses, Set!Covers, Set!Cut, Addresses, Covers, Cut

LEMMA StepRefines == IInv /\ [Next]_vars => [Set!Next]_<<Listed, answer>>
<1> SUFFICES ASSUME IInv, [Next]_vars PROVE [Set!Next]_<<Listed, answer>>
  OBVIOUS
<1>1. CASE Mark
  <2>1. job.network \in Networks
    BY <1>1 DEF IInv, TypeOK, Mark, Jobs, Nothing
  <2>2. job.network \in Set!Networks
    BY <2>1 DEF Networks, Set!Networks, Addresses, Set!Addresses, Cut, Set!Cut
  <2> QED
    BY <1>1, <2>2, MarkInserts DEF Set!Next
<1>2. CASE Found \/ NotFound
  <2>1. job.address \in Addresses
    BY <1>2, Asking DEF Found, NotFound
  <2>2. answer' = [asked |-> job.address, listed |-> job.address \in Listed] /\ networks' = networks
    <3>1. networks' = networks
      BY <1>2 DEF Found, NotFound, Return
    <3>2. CASE Found
      <4>1. (job.address \in Listed) = TRUE
        BY <3>2, FoundRight
      <4> QED
        BY <3>1, <3>2, <4>1 DEF Found, Return
    <3>3. CASE NotFound
      <4>1. (job.address \in Listed) = FALSE
        BY <3>3, NotFoundRight
      <4> QED
        BY <3>1, <3>3, <4>1 DEF NotFound, Return
    <3> QED
      BY <1>2, <3>2, <3>3
  <2>3. Set!Contains(job.address) /\ job.address \in Set!Addresses
    BY <2>1, <2>2 DEF Set!Contains, Listed, Addresses, Set!Addresses
  <2> QED
    BY <2>3 DEF Set!Next
<1>3. CASE ~(Mark \/ Found \/ NotFound)
  <2>1. networks' = networks /\ answer' = answer
    BY <1>3 DEF Next, BeginInsert, BeginContains, Follow, Create, Descend, vars
  <2> QED
    BY <2>1 DEF Listed
<1> QED
  BY <1>1, <1>2, <1>3

\* Whatever networks are inserted, in whatever order, contains answers for
\* every address as the set of all their addresses does.
THEOREM Refinement == Spec => AnswersAsASet
<1>1. Init => Set!Init
  BY DEF Init, Set!Init, Listed, NoAnswer, Set!NoAnswer
<1> QED
  BY <1>1, Invariance, StepRefines, PTL DEF Spec, AnswersAsASet, Set!Spec
=============================================================================
