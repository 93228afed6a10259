-------------------------------- MODULE Srv --------------------------------
(***************************************************************************)
(* How an SRV answer and a turn give the target (dns.rs).  An answer is a  *)
(* sequence of records; the records that are kept are named by their       *)
(* positions in it.                                                        *)
(***************************************************************************)
EXTENDS Integers, Sequences, FiniteSets

CONSTANT Literals  \* hosts that are IP addresses or empty: there is no query name

Root == "."

IsSequence(seq) == seq \in Seq({seq[i] : i \in DOMAIN seq})

\* What priorities and weights are: they have no sign on the wire.
WellWeighed(answer) ==
    /\ IsSequence(answer)
    /\ \A i \in DOMAIN answer : answer[i].priority \in Nat /\ answer[i].weight \in Nat

\* Mutant: a record for port 0 is as good as any.
UsableAnyPort(answer) == {i \in DOMAIN answer : answer[i].host # Root}

\* Records for the root say that there is no service, records for port 0 are
\* left out.
Usable(answer) == {i \in DOMAIN answer : answer[i].host # Root /\ answer[i].port # 0}

Unavailable(answer) == \E i \in DOMAIN answer : answer[i].host = Root

\* The records of the lowest priority.
Candidates(answer) ==
    {i \in Usable(answer) : \A j \in Usable(answer) : answer[i].priority <= answer[j].priority}

\* The sum of the weights of some records.
Weight(answer, records) == Cardinality(UNION {{i} \X (1..answer[i].weight) : i \in records})

\* Mutant: the records stay in the order of the answer.
NotAfterUnsorted(answer, i, j) == i <= j

\* The stable sort: records without weight come first.
NotAfter(answer, i, j) ==
    \/ answer[i].weight = 0 /\ answer[j].weight # 0
    \/ (answer[i].weight = 0 <=> answer[j].weight = 0) /\ i <= j

\* The first candidate whose running weight reaches the turn; without weights,
\* the candidates in turn.
Chosen(answer, turn) ==
    LET candidates == Candidates(answer)
        total == Weight(answer, candidates)
        UpTo(i) == {j \in candidates : NotAfter(answer, j, i)}
        Reaches(i) == Weight(answer, UpTo(i)) >= turn % (total + 1)
    IN  IF total = 0
        THEN CHOOSE i \in candidates : Cardinality(UpTo(i)) = (turn % Cardinality(candidates)) + 1
        ELSE CHOOSE i \in candidates :
                Reaches(i) /\ \A j \in candidates : Reaches(j) => NotAfter(answer, i, j)
=============================================================================
