------------------------ MODULE SemanticMap_proofs ------------------------
(***************************************************************************)
(* What the semantic map and its snapshots keep, for every set of labels,  *)
(* observations, clouds and route files.                                   *)
(*                                                                         *)
(* A cell is described without the order of its labels: the set of them is *)
(* the join of the strong observations of the cell (Learnt), and while no  *)
(* review asks about a confirmed cell, one label leads strictly and the    *)
(* cost is one of that label (Settled).  Both survive that a snapshot      *)
(* sorts the labels.  A map then knows its input (Knows), and the node     *)
(* keeps this of its map, of the file and of the baseline, each with the   *)
(* input it has taken (MapInv).                                            *)
(***************************************************************************)
EXTENDS MCSideBySide, TLAPS, SequenceTheorems, FiniteSetTheorems

Routes == UNION {f.rows : f \in RouteFiles}

Entries == [label : Mapping!Labels, confidence : 0 .. 100]

(* What the code has of its parameters: labels differ, costs and           *)
(* confidences are in range, the grid is finite.                           *)
MappingParameters ==
    /\ Lexical \in Seq(Mapping!Labels)
    /\ \A i, j \in DOMAIN Lexical : Lexical[i] = Lexical[j] => i = j
    /\ Base \in [Mapping!Labels -> 0 .. 10]
    /\ ChangeThreshold \in Nat /\ ConfirmationThreshold \in Nat \ {0}
    /\ Observations \subseteq [cell : Mapping!SeenCells, label :
               Mapping!Labels, confidence : 0 .. 100]
    /\ IsFiniteSet(Mapping!SeenCells)
    /\ \A r \in Routes : Len(r) \in Nat
    /\ MinOverlap \in 0 .. 100 /\ MaxDelta \in Nat

-----------------------------------------------------------------------------
(* Numbers.                                                                *)
LEMMA SameCardinality == \A S : Mapping!Cardinality(S) = Cardinality(S)
    BY DEF Mapping!Cardinality, Cardinality

LEMMA LeastNat ==
    ASSUME NEW T, T \subseteq Nat, T # {}
    PROVE  \E n \in T : \A m \in T : n <= m
<1>1. PICK n \in T : \A m \in T : ~(<<m, n>> \in OpToRel(<, Nat))
    BY WFMin, NatLessThanWellFounded
<1>2. \A m \in T : ~(m < n)
    BY <1>1 DEF OpToRel
<1> QED
    BY <1>2

LEMMA MinIsLeast ==
    ASSUME NEW T, T \subseteq Nat, T # {}
    PROVE  Mapping!Min(T) \in T /\ \A m \in T : Mapping!Min(T) <= m
    BY LeastNat DEF Mapping!Min

LEMMA MaxIsGreatest ==
    ASSUME NEW T, T \subseteq 0 .. 100, T # {}
    PROVE  Mapping!Max(T) \in T /\ \A m \in T : m <= Mapping!Max(T)
<1> DEFINE Below == {100 - m : m \in T}
<1>1. Below \subseteq Nat /\ Below # {}
  <2>1. PICK m \in T : TRUE
      OBVIOUS
  <2>2. 100 - m \in Below
      OBVIOUS
  <2> QED
      BY <2>2
<1>2. PICK b \in Below : \A c \in Below : b <= c
    BY <1>1, LeastNat
<1>3. PICK n \in T : b = 100 - n
    OBVIOUS
<1>4. \A m \in T : n >= m
  <2> TAKE m \in T
  <2>1. 100 - m \in Below
      OBVIOUS
  <2>2. 100 - n <= 100 - m
      BY <1>2, <1>3, <2>1
  <2> QED
      BY <2>2
<1>5. \E x \in T : \A y \in T : x >= y
    BY <1>4
<1>6. Mapping!Max(T) \in T /\ \A y \in T : Mapping!Max(T) >= y
    BY <1>5 DEF Mapping!Max
<1> QED
    BY <1>6

-----------------------------------------------------------------------------
(* What the labels of a cell say, whatever their order.                    *)
Unique(E) == \A e, f \in E : e.label = f.label => e = f

Leads(e, E) == e \in E /\ \A f \in E : f # e => f.confidence < e.confidence

LEMMA EntryType == \A e \in Entries : e.label \in Mapping!Labels /\ e.confidence \in Int
                                       /\ 0 <= e.confidence /\ e.confidence <= 100
<1> TAKE e \in Entries
<1>1. e.label \in Mapping!Labels /\ e.confidence \in 0 .. 100
    BY DEF Entries
<1> QED
    BY <1>1

LEMMA TopIsBest ==
    ASSUME NEW labels \in Seq(Entries), labels # << >>
    PROVE  /\ \E e \in Mapping!ToSet(labels) :
                  e.confidence = Mapping!TopConfidence(labels)
           /\ \A e \in Mapping!ToSet(labels) :
                      e.confidence <= Mapping!TopConfidence(labels)
<1>1. /\ DOMAIN labels = 1 .. Len(labels) /\ Len(labels) \in Nat /\ Len(labels) # 0
      /\ \A i \in DOMAIN labels : labels[i] \in Entries
    BY EmptySeq, LenProperties, ElementOfSeq
<1>2. Mapping!Confidences(labels) \subseteq 0 .. 100
    BY <1>1 DEF Mapping!Confidences, Entries
<1>3. 1 \in DOMAIN labels
    BY <1>1
<1>4. Mapping!Confidences(labels) # {}
    BY <1>3 DEF Mapping!Confidences
<1>5. /\ Mapping!TopConfidence(labels) \in Mapping!Confidences(labels)
      /\ \A m \in Mapping!Confidences(labels) : m <= Mapping!TopConfidence(labels)
    BY <1>2, <1>4, MaxIsGreatest DEF Mapping!TopConfidence
<1> QED
    BY <1>5 DEF Mapping!Confidences, Mapping!ToSet

LEMMA LeaderIsTop ==
    ASSUME NEW labels \in Seq(Entries), NEW e, Leads(e, Mapping!ToSet(labels))
    PROVE  Mapping!TopLabel(labels) = {e.label}
           /\ Mapping!TopConfidence(labels) = e.confidence
<1>1. /\ DOMAIN labels = 1 .. Len(labels) /\ Len(labels) \in Nat
      /\ \A i \in DOMAIN labels : labels[i] \in Entries
    BY LenProperties, ElementOfSeq
<1>2. PICK k \in DOMAIN labels : labels[k] = e
    BY DEF Leads, Mapping!ToSet
<1>3. labels # << >>
    BY <1>1, <1>2, EmptySeq
<1>0. e.confidence \in Int /\ \A i \in DOMAIN labels : labels[i].confidence \in Int
    BY <1>1, <1>2, EntryType
<1>4. \A i \in DOMAIN labels : labels[i].confidence <= e.confidence
                             /\ (labels[i].confidence = e.confidence => labels[i] = e)
  <2> TAKE i \in DOMAIN labels
  <2>1. labels[i] \in Mapping!ToSet(labels)
      BY DEF Mapping!ToSet
  <2>2. labels[i] # e => labels[i].confidence < e.confidence
      BY <2>1 DEF Leads
  <2>3. labels[i].confidence \in Int /\ e.confidence \in Int
      BY <1>0, <1>1
  <2>4. CASE labels[i] = e
      BY <2>3, <2>4
  <2>5. CASE labels[i] # e
      BY <2>2, <2>3, <2>5
  <2> QED
      BY <2>4, <2>5
<1>5. Mapping!TopConfidence(labels) = e.confidence
  <2>1. PICK i \in DOMAIN labels : labels[i].confidence = Mapping!TopConfidence(labels)
      BY <1>3, TopIsBest DEF Mapping!ToSet
  <2>2. e.confidence <= Mapping!TopConfidence(labels)
      BY <1>3, TopIsBest DEF Leads
  <2>3. e.confidence \in Int /\ labels[i].confidence \in Int
      BY <1>0, <1>1
  <2>4. labels[i].confidence <= e.confidence
      BY <1>4
  <2> QED
      BY <2>1, <2>2, <2>3, <2>4
<1> DEFINE best == {i \in DOMAIN labels :
            labels[i].confidence = Mapping!TopConfidence(labels)}
<1>6. best \subseteq Nat /\ best # {}
    BY <1>1, <1>2, <1>5
<1>7. Mapping!Min(best) \in best
    BY <1>6, MinIsLeast
<1>8. labels[Mapping!Min(best)] = e
    BY <1>4, <1>5, <1>7
<1>9. Mapping!TopLabel(labels) = {labels[Mapping!Min(best)].label}
    BY <1>3 DEF Mapping!TopLabel
<1> QED
    BY <1>5, <1>8, <1>9

(* The best confidence of a label, among those known and a new one.        *)
Best(E, label, confidence, best) ==
    /\ best \in 0 .. 100 /\ confidence <= best
    /\ best = confidence \/ [label |-> label, confidence |-> best] \in E
    /\ \A e \in E : e.label = label => e.confidence <= best

Joined(E, label, best) ==
    {e \in E : e.label # label} \cup {[label |-> label, confidence |-> best]}

Joins(new, labels, label, confidence) ==
    /\ new \in Seq(Entries)
    /\ \E best : /\ Best(Mapping!ToSet(labels), label, confidence, best)
                 /\ Mapping!ToSet(new) = Joined(Mapping!ToSet(labels), label, best)

LEMMA WithLabelJoins ==
    ASSUME NEW labels \in Seq(Entries), Unique(Mapping!ToSet(labels)),
           NEW label \in Mapping!Labels, NEW confidence \in 0 .. 100
    PROVE  Joins(Mapping!WithLabel(labels, label, confidence), labels, label, confidence)
<1>1. /\ DOMAIN labels = 1 .. Len(labels) /\ Len(labels) \in Nat
      /\ \A i \in DOMAIN labels : labels[i] \in Entries
      /\ Mapping!ToSet(labels) \subseteq Entries
    BY LenProperties, ElementOfSeq DEF Mapping!ToSet
<1> DEFINE new == Mapping!WithLabel(labels, label, confidence)
           Entry(b) == [label |-> label, confidence |-> b]
<1>2. CASE \E i \in DOMAIN labels : labels[i].label = label
  <2>1. PICK k \in DOMAIN labels : labels[k].label = label
      BY <1>2
  <2> DEFINE was == labels[k].confidence
             best == Mapping!Max({was, confidence})
  <2>2. was \in 0 .. 100 /\ labels[k] = Entry(was)
      BY <1>1, <2>1 DEF Entries
  <2>3. best \in {was, confidence} /\ was <= best /\ confidence <= best
      BY <2>2, MaxIsGreatest
  <2>4. \A i \in DOMAIN labels : labels[i].label = label => labels[i] = Entry(was)
    <3>1. \A i \in DOMAIN labels : labels[i] \in Mapping!ToSet(labels)
        BY DEF Mapping!ToSet
    <3> QED
        BY <2>1, <2>2, <3>1 DEF Unique
  <2>5. new = [i \in DOMAIN labels |->
                 IF labels[i].label = label
                 THEN [labels[i] EXCEPT !.confidence = Mapping!Max({@,
                     confidence})] ELSE labels[i]]
      BY <1>2 DEF Mapping!WithLabel
  <2>6. \A i \in DOMAIN labels :
           new[i] = IF labels[i].label = label THEN Entry(best) ELSE labels[i]
    <3> TAKE i \in DOMAIN labels
    <3>1. CASE labels[i].label = label
      <4>1. labels[i] = Entry(was)
          BY <2>4, <3>1
      <4>2. new[i] = [Entry(was) EXCEPT !.confidence = Mapping!Max({@, confidence})]
          BY <2>5, <3>1, <4>1
      <4> QED
          BY <3>1, <4>2
    <3>2. CASE labels[i].label # label
        BY <2>5, <3>2
    <3> QED
        BY <3>1, <3>2
  <2> HIDE DEF new, was, best
  <2>7. Entry(best) \in Entries
      BY <2>2, <2>3 DEF Entries
  <2>8. DOMAIN new = 1 .. Len(labels) /\ \A i \in 1 .. Len(labels) : new[i] \in Entries
      BY <1>1, <2>5, <2>6, <2>7
  <2>9. new \in Seq(Entries)
    <3>1. new \in [1 .. Len(labels) -> Entries]
        BY <2>5, <2>8, <1>1
    <3> QED
        BY <1>1, <3>1, IsASeq
  <2>10. Mapping!ToSet(new) = Joined(Mapping!ToSet(labels), label, best)
    <3>1. \A x \in Mapping!ToSet(new) : x \in Joined(Mapping!ToSet(labels), label, best)
        BY <1>1, <2>6, <2>8 DEF Mapping!ToSet, Joined
    <3>2. Entry(best) \in Mapping!ToSet(new)
        BY <1>1, <2>1, <2>6, <2>8 DEF Mapping!ToSet
    <3>3. \A x \in Mapping!ToSet(labels) : x.label # label => x \in Mapping!ToSet(new)
        BY <1>1, <2>6, <2>8 DEF Mapping!ToSet
    <3> QED
        BY <3>1, <3>2, <3>3 DEF Joined
  <2>11. Best(Mapping!ToSet(labels), label, confidence, best)
    <3>1. best \in 0 .. 100
        BY <2>2, <2>3
    <3>2. best = confidence \/ Entry(best) \in Mapping!ToSet(labels)
      <4>1. Entry(was) \in Mapping!ToSet(labels)
          BY <2>1, <2>2 DEF Mapping!ToSet
      <4> QED
          BY <2>3, <4>1
    <3>3. \A e \in Mapping!ToSet(labels) : e.label = label => e.confidence <= best
        BY <2>3, <2>4 DEF Mapping!ToSet
    <3> QED
        BY <2>3, <3>1, <3>2, <3>3 DEF Best
  <2> QED
      BY <2>9, <2>10, <2>11 DEF Joins, new
<1>3. CASE ~ \E i \in DOMAIN labels : labels[i].label = label
  <2>1. new = Append(labels, Entry(confidence))
      BY <1>3 DEF Mapping!WithLabel
  <2>2. Entry(confidence) \in Entries
      BY DEF Entries
  <2>3. /\ new \in Seq(Entries) /\ Len(new) = Len(labels) + 1
        /\ DOMAIN new = 1 .. Len(new)
        /\ \A i \in 1 .. Len(labels) : new[i] = labels[i]
        /\ new[Len(labels) + 1] = Entry(confidence)
      BY <2>1, <2>2, AppendProperties, LenProperties
  <2> HIDE DEF new
  <2>4. Mapping!ToSet(new) = Mapping!ToSet(labels) \cup {Entry(confidence)}
    <3>1. \A i \in DOMAIN new : i \in DOMAIN labels \/ i = Len(labels) + 1
        BY <1>1, <2>3
    <3>2. Mapping!ToSet(new) \subseteq Mapping!ToSet(labels) \cup {Entry(confidence)}
        BY <1>1, <2>3, <3>1 DEF Mapping!ToSet
    <3>3. DOMAIN labels \subseteq DOMAIN new /\ Len(labels) + 1 \in DOMAIN new
        BY <1>1, <2>3
    <3> QED
        BY <1>1, <2>3, <3>2, <3>3 DEF Mapping!ToSet
  <2>5. \A e \in Mapping!ToSet(labels) : e.label # label
      BY <1>3 DEF Mapping!ToSet
  <2>6. Mapping!ToSet(new) = Joined(Mapping!ToSet(labels), label, confidence)
      BY <2>4, <2>5 DEF Joined
  <2>7. Best(Mapping!ToSet(labels), label, confidence, confidence)
      BY <2>5 DEF Best
  <2> QED
      BY <2>3, <2>6, <2>7 DEF Joins, new
<1> QED
    BY <1>2, <1>3

-----------------------------------------------------------------------------
(* How a snapshot lists the labels of a cell: some list exists (by         *)
(* induction on the ranks of the labels), and what is written depends on   *)
(* the set of labels alone.                                                *)
LEMMA NatInd ==
    ASSUME NEW T, T \subseteq Nat, 0 \in T, \A n \in T : n + 1 \in T
    PROVE  T = Nat
<1> SUFFICES ASSUME Nat \ T # {} PROVE FALSE
    OBVIOUS
<1>1. PICK n \in Nat \ T : \A m \in Nat \ T : n <= m
    BY LeastNat
<1>2. n - 1 \in Nat
    BY <1>1
<1>3. n - 1 \in T
    BY <1>1, <1>2
<1> QED
    BY <1>1, <1>3

LEMMA RankIsPlace ==
    ASSUME MappingParameters, NEW l \in Mapping!Labels
    PROVE  Mapping!Rank(l) \in 1 .. Len(Lexical) /\ Len(Lexical) \in Nat
           /\ Lexical[Mapping!Rank(l)] = l
<1>1. DOMAIN Lexical = 1 .. Len(Lexical) /\ Len(Lexical) \in Nat
    BY LenProperties DEF MappingParameters
<1>2. \E i \in DOMAIN Lexical : Lexical[i] = l
    BY DEF Mapping!Labels, Mapping!ToSet
<1> QED
    BY <1>1, <1>2 DEF Mapping!Rank

(* A sequence that lists the entries of a set once, sorted by their labels.*)
Lists(s, E) ==
    /\ s \in Seq(E) /\ Mapping!ToSet(s) = E
    /\ \A i, j \in DOMAIN s : i < j => Mapping!Rank(s[i].label) < Mapping!Rank(s[j].label)

UpTo(E, n) == {e \in E : Mapping!Rank(e.label) <= n}

LEMMA ListIsLonger ==
    ASSUME NEW E, NEW s, NEW e, Lists(s, E), e \notin E, Mapping!Rank(e.label) \in Int,
           \A f \in E : Mapping!Rank(f.label) < Mapping!Rank(e.label)
    PROVE  Lists(Append(s, e), E \cup {e})
<1> DEFINE new == Append(s, e)
           F == E \cup {e}
<1>1. /\ s \in Seq(F) /\ Len(s) \in Nat /\ DOMAIN s = 1 .. Len(s)
      /\ \A i \in 1 .. Len(s) : s[i] \in E
  <2>1. s \in Seq(E)
      BY DEF Lists
  <2>2. Len(s) \in Nat /\ DOMAIN s = 1 .. Len(s) /\ \A i \in 1 .. Len(s) : s[i] \in E
      BY <2>1, LenProperties, ElementOfSeq
  <2>3. \A i \in 1 .. Len(s) : s[i] \in F
      BY <2>2
  <2>4. s = [i \in 1 .. Len(s) |-> s[i]]
      BY <2>1, LenProperties
  <2>5. s \in [1 .. Len(s) -> F]
      BY <2>3, <2>4, Zenon
  <2> QED
      BY <2>2, <2>5, IsASeq
<1>2. /\ new \in Seq(F) /\ Len(new) = Len(s) + 1 /\ DOMAIN new = 1 .. Len(new)
      /\ \A i \in 1 .. Len(s) : new[i] = s[i]
      /\ new[Len(s) + 1] = e
    BY <1>1, AppendProperties, LenProperties
<1> HIDE DEF new
<1>3. Mapping!ToSet(new) = F
  <2>1. \A i \in DOMAIN new : i \in 1 .. Len(s) \/ i = Len(s) + 1
      BY <1>1, <1>2
  <2>2. Mapping!ToSet(new) \subseteq F
      BY <1>1, <1>2, <2>1 DEF Mapping!ToSet
  <2>3. 1 .. Len(s) \subseteq DOMAIN new /\ Len(s) + 1 \in DOMAIN new
      BY <1>1, <1>2
  <2>4. E = {s[i] : i \in 1 .. Len(s)}
      BY <1>1 DEF Lists, Mapping!ToSet
  <2>5. E \subseteq Mapping!ToSet(new)
      BY <1>2, <2>3, <2>4 DEF Mapping!ToSet
  <2>6. e \in Mapping!ToSet(new)
      BY <1>2, <2>3 DEF Mapping!ToSet
  <2> QED
      BY <2>2, <2>5, <2>6
<1>4. ASSUME NEW i \in DOMAIN new, NEW j \in DOMAIN new, i < j
      PROVE  Mapping!Rank(new[i].label) < Mapping!Rank(new[j].label)
  <2>1. i \in 1 .. Len(s) /\ new[i] = s[i] /\ new[i] \in E
      BY <1>1, <1>2, <1>4
  <2>2. CASE j \in 1 .. Len(s)
    <3>1. new[j] = s[j]
        BY <1>2, <2>2
    <3> QED
        BY <1>1, <1>4, <2>1, <2>2, <3>1 DEF Lists
  <2>3. CASE j = Len(s) + 1
      BY <1>2, <2>1, <2>3
  <2> QED
      BY <1>1, <1>2, <2>2, <2>3
<1> QED
    BY <1>2, <1>3, <1>4 DEF Lists, new

Listed(E, n) == \E s : Lists(s, UpTo(E, n))

LEMMA MoreListed ==
    ASSUME MappingParameters, NEW E, E \subseteq Entries, Unique(E),
           NEW n \in Nat, Listed(E, n)
    PROVE  Listed(E, n + 1)
<1>1. PICK s : Lists(s, UpTo(E, n))
    BY DEF Listed
<1>2. \A e \in E : Mapping!Rank(e.label) \in Nat
    BY EntryType, RankIsPlace
<1>3. CASE \E e \in E : Mapping!Rank(e.label) = n + 1
  <2>1. PICK e \in E : Mapping!Rank(e.label) = n + 1
      BY <1>3
  <2>2. \A f \in E : Mapping!Rank(f.label) = n + 1 => f = e
    <3> SUFFICES ASSUME NEW f \in E, Mapping!Rank(f.label) = n + 1 PROVE f = e
        OBVIOUS
    <3>1. f.label = e.label
      <4>1. f.label \in Mapping!Labels /\ e.label \in Mapping!Labels
          BY EntryType
      <4> QED
          BY <2>1, <4>1, RankIsPlace
    <3> QED
        BY <3>1 DEF Unique
  <2>3. UpTo(E, n + 1) = UpTo(E, n) \cup {e}
    <3>1. \A f \in E : Mapping!Rank(f.label) <= n + 1 <=> (Mapping!Rank(f.label) <= n
          \/ f = e)
        BY <1>2, <2>1, <2>2
    <3> QED
        BY <3>1 DEF UpTo
  <2>4. e \notin UpTo(E, n)
        /\ \A f \in UpTo(E, n) : Mapping!Rank(f.label) < Mapping!Rank(e.label)
      BY <1>2, <2>1 DEF UpTo
  <2>5. Mapping!Rank(e.label) \in Int
      BY <1>2
  <2>6. Lists(Append(s, e), UpTo(E, n) \cup {e})
      BY <1>1, <2>4, <2>5, ListIsLonger
  <2> QED
      BY <2>3, <2>6 DEF Listed
<1>4. CASE ~ \E e \in E : Mapping!Rank(e.label) = n + 1
  <2>1. UpTo(E, n + 1) = UpTo(E, n)
    <3>1. \A f \in E : Mapping!Rank(f.label) <= n + 1 <=> Mapping!Rank(f.label) <= n
        BY <1>2, <1>4
    <3> QED
        BY <3>1 DEF UpTo
  <2> QED
      BY <1>1, <2>1 DEF Listed
<1> QED
    BY <1>3, <1>4

LEMMA SomeList ==
    ASSUME MappingParameters, NEW E, E \subseteq Entries, Unique(E)
    PROVE  \E s : Lists(s, E)
<1> DEFINE T == {n \in Nat : Listed(E, n)}
<1>1. \A e \in E : Mapping!Rank(e.label) \in 1 .. Len(Lexical) /\ Len(Lexical) \in Nat
    BY EntryType, RankIsPlace
<1>2. Listed(E, 0)
  <2>1. UpTo(E, 0) = {}
      BY <1>1 DEF UpTo
  <2>2. << >> \in Seq({}) /\ DOMAIN << >> = {} /\ Mapping!ToSet(<< >>) = {}
      BY EmptySeq DEF Mapping!ToSet
  <2>3. Lists(<< >>, {})
      BY <2>2 DEF Lists
  <2> QED
      BY <2>1, <2>3 DEF Listed
<1>3. \A n \in T : n + 1 \in T
    BY MoreListed
<1>4. T = Nat
    BY <1>2, <1>3, NatInd
<1>5. Len(Lexical) \in Nat
    BY LenProperties DEF MappingParameters
<1>6. UpTo(E, Len(Lexical)) = E
    BY <1>1 DEF UpTo
<1>7. Listed(E, Len(Lexical))
    BY <1>4, <1>5
<1> QED
    BY <1>6, <1>7 DEF Listed

SortedSeqs(E) ==
    {s \in Mapping!SetToSeqs(E) : \A i, j \in DOMAIN s :
            i < j => Mapping!Rank(s[i].label) < Mapping!Rank(s[j].label)}

LEMMA ListIsSorted ==
    ASSUME MappingParameters, NEW E, E \subseteq Entries, NEW s, Lists(s, E)
    PROVE  s \in SortedSeqs(E) /\ IsFiniteSet(E)
<1>1. Len(s) \in Nat /\ DOMAIN s = 1 .. Len(s) /\ s \in [1 .. Len(s) -> E]
    BY LenProperties DEF Lists
<1>2. \A i, j \in 1 .. Len(s) : i # j => s[i] # s[j]
  <2> SUFFICES ASSUME NEW i \in 1 .. Len(s), NEW j \in 1 .. Len(s), i # j, s[i] = s[j]
               PROVE  FALSE
      OBVIOUS
  <2>1. Mapping!Rank(s[i].label) \in Nat
      BY <1>1, EntryType, RankIsPlace
  <2>2. i < j \/ j < i
      BY <1>1
  <2> QED
      BY <1>1, <2>1, <2>2 DEF Lists
<1>3. s \in Surjection(1 .. Len(s), E)
  <2>1. \A e \in E : \E i \in 1 .. Len(s) : s[i] = e
      BY <1>1 DEF Lists, Mapping!ToSet
  <2> QED
      BY <1>1, <2>1 DEF Surjection
<1>4. s \in Injection(1 .. Len(s), E)
    BY <1>1, <1>2 DEF Injection, IsInjective
<1>5. IsFiniteSet(1 .. Len(s)) /\ Cardinality(1 .. Len(s)) = Len(s)
    BY <1>1, FS_Interval
<1>6. IsFiniteSet(E) /\ Cardinality(E) = Len(s)
    BY <1>3, <1>4, <1>5, FS_Surjection
<1>7. s \in Mapping!SetToSeqs(E)
    BY <1>1, <1>2, <1>6, SameCardinality DEF Mapping!SetToSeqs
<1> QED
    BY <1>6, <1>7 DEF SortedSeqs, Lists

LEMMA EntriesOf ==
    ASSUME NEW labels \in Seq(Entries)
    PROVE  Mapping!ToSet(labels) \subseteq Entries
           /\ (Mapping!ToSet(labels) = {} <=> labels = << >>)
<1>1. Len(labels) \in Nat /\ DOMAIN labels = 1 .. Len(labels)
      /\ \A i \in 1 .. Len(labels) : labels[i] \in Entries
    BY LenProperties, ElementOfSeq
<1>2. Mapping!ToSet(labels) = {labels[i] : i \in 1 .. Len(labels)}
    BY <1>1 DEF Mapping!ToSet
<1>3. Mapping!ToSet(labels) = {} => Len(labels) = 0
  <2>1. Len(labels) # 0 => 1 \in 1 .. Len(labels)
      BY <1>1
  <2> QED
      BY <1>2, <2>1
<1>4. Len(labels) = 0 <=> labels = << >>
    BY EmptySeq
<1>5. Len(labels) = 0 => Mapping!ToSet(labels) = {}
    BY <1>2
<1> QED
    BY <1>1, <1>2, <1>3, <1>4, <1>5

LEMMA WrittenSaysTheSame ==
    ASSUME MappingParameters, NEW labels \in Seq(Entries), Unique(Mapping!ToSet(labels))
    PROVE  /\ Mapping!Written(labels) \in Seq(Entries)
           /\ Mapping!ToSet(Mapping!Written(labels)) = Mapping!ToSet(labels)
<1> DEFINE E == Mapping!ToSet(labels)
           w == Mapping!Written(labels)
<1>1. E \subseteq Entries
    BY EntriesOf
<1>2. PICK s : Lists(s, E)
    BY <1>1, SomeList
<1>3. s \in SortedSeqs(E) /\ IsFiniteSet(E)
    BY <1>1, <1>2, ListIsSorted
<1>4. w \in Mapping!SetToSeqs(E)
    BY <1>3 DEF SortedSeqs, Mapping!Written
<1> HIDE DEF w, E
<1>5. /\ w \in [1 .. Cardinality(E) -> E] /\ Cardinality(E) \in Nat
      /\ \A i, j \in 1 .. Cardinality(E) : i # j => w[i] # w[j]
    BY <1>3, <1>4, FS_CardinalityType, SameCardinality DEF Mapping!SetToSeqs
<1>6. w \in Injection(1 .. Cardinality(E), E)
    BY <1>5 DEF Injection, IsInjective
<1>7. Cardinality(1 .. Cardinality(E)) = Cardinality(E)
    BY <1>5, FS_Interval
<1>8. w \in Surjection(1 .. Cardinality(E), E)
    BY <1>3, <1>6, <1>7, FS_Injection
<1>9. Mapping!ToSet(w) = E
    BY <1>5, <1>8 DEF Mapping!ToSet, Surjection
<1>10. w \in [1 .. Cardinality(E) -> Entries]
    BY <1>1, <1>5
<1>11. w \in Seq(Entries)
    BY <1>5, <1>10, IsASeq
<1> QED
    BY <1>9, <1>11 DEF w, E

LEMMA WrittenBySet ==
    ASSUME NEW one, NEW other, Mapping!ToSet(one) = Mapping!ToSet(other)
    PROVE  Mapping!Written(one) = Mapping!Written(other)
    BY DEF Mapping!Written

-----------------------------------------------------------------------------
(* What the strong observations of a cell have taught it.                  *)
Learnt(E, known) ==
    /\ Unique(E)
    /\ \A e \in E : \E o \in known : e = [label |-> o.label, confidence |-> o.confidence]
    /\ \A o \in known : \E e \in E : e.label = o.label /\ o.confidence <= e.confidence

(* A confirmed cell has one best label, and its cost is a cost of it.      *)
Settled(E, cost) ==
    (\E e \in E : e.confidence >= ConfirmationThreshold)
       => \E e \in E : Leads(e, E) /\ cost \in Mapping!CostOf(e.label)

LEMMA ObservationType ==
    ASSUME MappingParameters
    PROVE  \A o \in Observations :
             /\ o.cell \in Mapping!SeenCells /\ o.label \in Mapping!Labels
             /\ o.confidence \in 0 .. 100
             /\ o.confidence \in Int /\ 0 <= o.confidence /\ o.confidence <= 100
<1> TAKE o \in Observations
<1>1. o \in [cell : Mapping!SeenCells, label : Mapping!Labels, confidence : 0 .. 100]
    BY DEF MappingParameters
<1>2. o.cell \in Mapping!SeenCells /\ o.label \in Mapping!Labels
      /\ o.confidence \in 0 .. 100
    BY <1>1
<1> QED
    BY <1>2

LEMMA JoinedEntries ==
    ASSUME MappingParameters, NEW E, E \subseteq Entries, NEW obs \in Observations,
           NEW best,
           Best(E, obs.label, obs.confidence, best)
    PROVE  /\ Joined(E, obs.label, best) \subseteq Entries
           /\ best \in Int /\ obs.confidence <= best
<1>1. obs.label \in Mapping!Labels /\ best \in 0 .. 100 /\ obs.confidence <= best
    BY ObservationType DEF Best
<1>2. [label |-> obs.label, confidence |-> best] \in Entries
    BY <1>1 DEF Entries
<1> QED
    BY <1>1, <1>2 DEF Joined

LEMMA LearnMore ==
    ASSUME MappingParameters, NEW E, E \subseteq Entries,
           NEW known, known \subseteq Observations,
           Learnt(E, known), NEW obs \in Observations, NEW best,
           Best(E, obs.label, obs.confidence, best)
    PROVE  Learnt(Joined(E, obs.label, best), known \cup {obs})
<1> DEFINE x == [label |-> obs.label, confidence |-> best]
           F == Joined(E, obs.label, best)
<1>1. F = {e \in E : e.label # obs.label} \cup {x} /\ x.label = obs.label
    BY DEF Joined
<1>2. best \in Int /\ obs.confidence <= best
      /\ \A e \in E : e.label = obs.label => e.confidence <= best
    BY JoinedEntries DEF Best
<1>3. best = obs.confidence \/ x \in E
    BY DEF Best
<1> HIDE DEF F
<1>4. Unique(F)
    BY <1>1 DEF Unique, Learnt
<1>5. ASSUME NEW e \in F
      PROVE  \E o \in known \cup {obs} :
                 e = [label |-> o.label, confidence |-> o.confidence]
  <2>1. CASE e \in E
      BY <2>1 DEF Learnt
  <2>2. CASE e = x /\ best = obs.confidence
      BY <2>2
  <2> QED
      BY <1>1, <1>3, <2>1, <2>2
<1>6. ASSUME NEW o \in known \cup {obs}
      PROVE  \E e \in F : e.label = o.label /\ o.confidence <= e.confidence
  <2>1. CASE o = obs
    <3>1. x \in F /\ x.label = o.label /\ x.confidence = best /\ o.confidence <= best
        BY <1>1, <1>2, <2>1
    <3>2. x \in F /\ x.label = o.label /\ o.confidence <= x.confidence
        BY <3>1
    <3> QED
        BY <3>2
  <2>2. CASE o \in known
    <3>1. PICK e \in E : e.label = o.label /\ o.confidence <= e.confidence
        BY <2>2 DEF Learnt
    <3>2. CASE e.label # obs.label
        BY <1>1, <3>1, <3>2
    <3>3. CASE e.label = obs.label
      <4>1. o.confidence \in Int /\ e.confidence \in Int /\ e.confidence <= best
          BY <1>2, <2>2, <3>3, ObservationType, EntryType
      <4>2. o.confidence <= best
          BY <1>2, <3>1, <4>1
      <4>3. x \in F /\ x.label = o.label /\ x.confidence = best
          BY <1>1, <3>1, <3>3
      <4>4. x \in F /\ x.label = o.label /\ o.confidence <= x.confidence
          BY <4>2, <4>3
      <4> QED
          BY <4>4
    <3> QED
        BY <3>2, <3>3
  <2> QED
      BY <2>1, <2>2
<1> QED
    BY <1>4, <1>5, <1>6 DEF Learnt, F

LEMMA SettleMore ==
    ASSUME MappingParameters, NEW labels \in Seq(Entries),
           NEW cost, Settled(Mapping!ToSet(labels), cost),
           NEW obs \in Observations, Mapping!Strong(obs),
               obs.confidence >= ConfirmationThreshold,
           ~Mapping!ChangeDetected(labels, obs), NEW best,
           Best(Mapping!ToSet(labels), obs.label, obs.confidence, best)
    PROVE  Settled(Joined(Mapping!ToSet(labels), obs.label, best),
                   Mapping!TraversabilityForLabel(obs.label, obs.confidence))
<1> DEFINE x == [label |-> obs.label, confidence |-> best]
           E == Mapping!ToSet(labels)
           F == Joined(E, obs.label, best)
<1>1. F = {e \in E : e.label # obs.label} \cup {x} /\ x.label = obs.label
      /\ x.confidence = best
    BY DEF Joined
<1>2. E \subseteq Entries
    BY EntriesOf
<1>3. /\ best \in Int /\ obs.confidence <= best
      /\ \A e \in E : e.label = obs.label => e.confidence <= best
    BY <1>2, JoinedEntries DEF Best
<1>4. obs.confidence \in Int /\ ConfirmationThreshold \in Int
    BY ObservationType DEF MappingParameters
<1>5. ASSUME NEW f \in E, f.label # obs.label PROVE f.confidence < best
  <2>1. labels # << >>
      BY EntriesOf
  <2>2. f.confidence \in Int /\ f.confidence <= Mapping!TopConfidence(labels)
      BY <1>2, <2>1, EntryType, TopIsBest
  <2>3. PICK t \in E : t.confidence = Mapping!TopConfidence(labels)
      BY <2>1, TopIsBest
  <2>4. Mapping!TopConfidence(labels) \in Int
      BY <1>2, <2>3, EntryType
  <2>5. CASE Mapping!TopConfidence(labels) < ConfirmationThreshold
      BY <1>3, <1>4, <2>2, <2>4, <2>5
  <2>6. CASE Mapping!TopConfidence(labels) >= ConfirmationThreshold
    <3>1. PICK e \in E : Leads(e, E)
        BY <2>3, <2>6 DEF Settled
    <3>2. Mapping!TopLabel(labels) = {e.label}
        BY <3>1, LeaderIsTop
    <3>3. e.label = obs.label
        BY <2>6, <3>2 DEF Mapping!ChangeDetected
    <3>4. f.confidence < e.confidence
        BY <1>5, <3>1, <3>3 DEF Leads
    <3>5. e.confidence <= best /\ e.confidence \in Int
        BY <1>2, <1>3, <3>3, EntryType
    <3> QED
        BY <1>3, <2>2, <3>4, <3>5
  <2> QED
      BY <1>4, <2>4, <2>5, <2>6
<1>6. Leads(x, F)
    BY <1>1, <1>5 DEF Leads
<1>7. Mapping!TraversabilityForLabel(obs.label,
      obs.confidence) \in Mapping!CostOf(x.label)
  <2>1. obs.confidence \in ChangeThreshold .. 100
      BY ObservationType DEF Mapping!Strong, MappingParameters
  <2> QED
      BY <1>1, <2>1 DEF Mapping!CostOf
<1>8. x \in F
    BY <1>1
<1> QED
    BY <1>6, <1>7, <1>8 DEF Settled

LEMMA CostInRange ==
    ASSUME MappingParameters, NEW l \in Mapping!Labels, NEW c \in 0 .. 100
    PROVE  Mapping!TraversabilityForLabel(l, c) \in 0 .. 1000
<1>1. Base[l] \in 0 .. 10
    BY DEF MappingParameters
<1>2. \A d \in 0 .. 10 : d * c \in 0 .. 1000 - 10 * (100 - c)
    OBVIOUS
<1>3. PICK p \in 0 .. 1000 - 10 * (100 - c) : p = Base[l] * c
    BY <1>1, <1>2
<1>4. 5 * (100 - c) + p \in 0 .. 1000
    OBVIOUS
<1> QED
    BY <1>3, <1>4 DEF Mapping!TraversabilityForLabel

-----------------------------------------------------------------------------
(* Maps, what they know, and how a cloud adds to it.                       *)
CellStates ==
    [occupancy : {50, 75}, labels : Seq(Entries), traversability :
            0 .. 1000, observations : Nat]

Decisions == [cell : Mapping!SeenCells, label : Mapping!Labels, reason : Mapping!Reasons]

Maps == [metric : SUBSET Mapping!SeenCells, cells :
        UNION {[D -> CellStates] : D \in SUBSET Mapping!SeenCells},
         route : Routes \cup {<< >>}, review : Seq(Decisions)]

Strongly(c, input) == {o \in input \cap Observations : o.cell = c /\ Mapping!Strong(o)}

Marked(input) == {c \in Mapping!SeenCells : [cell |-> c] \in input}

Asked(review, c) == \E i \in DOMAIN review : review[i].cell = c

CellKnown(state, review, c, input) ==
    /\ state \in CellStates
    /\ Learnt(Mapping!ToSet(state.labels), Strongly(c, input))
    /\ Asked(review, c) \/ Settled(Mapping!ToSet(state.labels), state.traversability)

(* A map knows its input.                                                  *)
Knows(m, input) ==
    /\ m \in Maps
    /\ m.metric = Marked(input) \cup {c \in Mapping!SeenCells : Strongly(c, input) # {}}
    /\ m.metric \subseteq DOMAIN m.cells
    /\ \A c \in Mapping!SeenCells :
               CellKnown(Mapping!StateOf(m.cells, c), m.review, c, input)

LEMMA MapType ==
    ASSUME NEW m \in Maps
    PROVE  /\ m.metric \subseteq Mapping!SeenCells
           /\ DOMAIN m.cells \subseteq Mapping!SeenCells
           /\ m.cells \in [DOMAIN m.cells -> CellStates]
           /\ m.review \in Seq(Decisions) /\ m.route \in Routes \cup {<< >>}
           /\ m = [metric |-> m.metric, cells |-> m.cells, route |-> m.route,
                  review |-> m.review]
<1>1. /\ m.metric \in SUBSET Mapping!SeenCells
      /\ m.cells \in UNION {[D -> CellStates] : D \in SUBSET Mapping!SeenCells}
      /\ m.review \in Seq(Decisions) /\ m.route \in Routes \cup {<< >>}
      /\ m = [metric |-> m.metric, cells |-> m.cells, route |-> m.route,
             review |-> m.review]
    BY DEF Maps
<1>2. PICK D \in SUBSET Mapping!SeenCells : m.cells \in [D -> CellStates]
    BY <1>1
<1> QED
    BY <1>1, <1>2

LEMMA MapMade ==
    ASSUME NEW D \in SUBSET Mapping!SeenCells, NEW metric \in SUBSET Mapping!SeenCells,
           NEW cells \in [D -> CellStates], NEW route \in Routes \cup {<< >>},
           NEW review \in Seq(Decisions)
    PROVE  [metric |-> metric, cells |-> cells, route |-> route,
           review |-> review] \in Maps
<1>1. cells \in UNION {[E -> CellStates] : E \in SUBSET Mapping!SeenCells}
    OBVIOUS
<1> QED
    BY <1>1 DEF Maps

Map(metric, cells, route, review) ==
    [metric |-> metric, cells |-> cells, route |-> route, review |-> review]

(* A map with some of its fields replaced.                                 *)
With(m, metric, cells, review) ==
    [m EXCEPT !.cells = cells, !.review = review, !.metric = metric]
WithCloud(m, metric, cells) == [m EXCEPT !.cells = cells, !.metric = metric]
WithReview(m, cells, review) == [m EXCEPT !.cells = cells, !.review = review]
WithCells(m, cells) == [m EXCEPT !.cells = cells]
WithRoute(m, route) == [m EXCEPT !.route = route]

LEMMA MapReplaced ==
    ASSUME NEW m \in Maps, NEW metric, NEW cells, NEW route, NEW review
    PROVE  /\ With(m, metric, cells, review) = Map(metric, cells, m.route, review)
           /\ WithCloud(m, metric, cells) = Map(metric, cells, m.route, m.review)
           /\ WithReview(m, cells, review) = Map(m.metric, cells, m.route, review)
           /\ WithCells(m, cells) = Map(m.metric, cells, m.route, m.review)
           /\ WithRoute(m, route) = Map(m.metric, m.cells, route, m.review)
<1>1. m = Map(m.metric, m.cells, m.route, m.review)
    BY MapType DEF Map
<1>2. PICK one : one = [m EXCEPT !.cells = cells]
    OBVIOUS
<1>3. PICK two : two = [one EXCEPT !.review = review]
    OBVIOUS
<1>4. one = Map(m.metric, cells, m.route, m.review)
    BY <1>1, <1>2 DEF Map
<1>5. two = Map(m.metric, cells, m.route, review)
    BY <1>3, <1>4 DEF Map
<1>6. [one EXCEPT !.metric = metric] = Map(metric, cells, m.route, m.review)
    BY <1>4 DEF Map
<1>7. [two EXCEPT !.metric = metric] = Map(metric, cells, m.route, review)
    BY <1>5 DEF Map
<1>8. /\ WithCloud(m, metric, cells) = [one EXCEPT !.metric = metric]
      /\ With(m, metric, cells, review) = [two EXCEPT !.metric = metric]
      /\ WithReview(m, cells, review) = two
      /\ WithCells(m, cells) = one
    BY <1>2, <1>3 DEF With, WithCloud, WithReview, WithCells
<1>9. WithRoute(m, route) = Map(m.metric, m.cells, route, m.review)
    BY <1>1 DEF WithRoute, Map
<1> QED
    BY <1>4, <1>5, <1>6, <1>7, <1>8, <1>9

LEMMA Occupied ==
    ASSUME NEW s \in CellStates
    PROVE  /\ [s EXCEPT !.occupancy = 75] \in CellStates
           /\ [s EXCEPT !.occupancy = 75].labels = s.labels
           /\ [s EXCEPT !.occupancy = 75].traversability = s.traversability
<1>1. /\ s.labels \in Seq(Entries) /\ s.traversability \in 0 .. 1000
      /\ s.observations \in Nat
      /\ s = [occupancy |-> s.occupancy, labels |-> s.labels,
              traversability |-> s.traversability, observations |-> s.observations]
    BY DEF CellStates
<1>2. PICK t : t = [s EXCEPT !.occupancy = 75]
    OBVIOUS
<1>3. t = [occupancy |-> 75, labels |-> s.labels, traversability |-> s.traversability,
           observations |-> s.observations]
    BY <1>1, <1>2
<1>4. t \in CellStates /\ t.labels = s.labels /\ t.traversability = s.traversability
    BY <1>1, <1>3 DEF CellStates
<1> QED
    BY <1>2, <1>4

LEMMA NothingKnown ==
    ASSUME NEW c
    PROVE  Mapping!NewCell \in CellStates /\ Mapping!ToSet(Mapping!NewCell.labels) = {}
           /\ Mapping!NewCell.labels = << >>
           /\ Learnt({}, {}) /\ Settled({}, Mapping!NewCell.traversability)
<1>1. << >> \in Seq(Entries) /\ Mapping!ToSet(<< >>) = {}
    BY EmptySeq DEF Mapping!ToSet
<1>2. Mapping!NewCell.labels = << >> /\ Mapping!NewCell \in CellStates
    BY <1>1 DEF Mapping!NewCell, CellStates
<1>3. Learnt({}, {}) /\ Settled({}, Mapping!NewCell.traversability)
    BY DEF Learnt, Settled, Unique
<1> QED
    BY <1>1, <1>2, <1>3

LEMMA EmptyIsKnown == Knows(Mapping!EmptyMap, {})
<1>1. Mapping!EmptyMap = [metric |-> {}, cells |-> << >>, route |-> << >>,
      review |-> << >>]
    BY DEF Mapping!EmptyMap
<1>2. << >> \in [{} -> CellStates] /\ << >> \in Seq(Decisions)
    BY EmptySeq
<1>3. Mapping!EmptyMap \in Maps
  <2>1. {} \in SUBSET Mapping!SeenCells
      OBVIOUS
  <2>2. PICK none : none = << >>
      OBVIOUS
  <2>3. none \in [{} -> CellStates] /\ none \in Seq(Decisions)
      BY <1>2, <2>2
  <2>4. none \in Routes \cup {<< >>}
      BY <2>2
  <2>5. [metric |-> {}, cells |-> none, route |-> none, review |-> none] \in Maps
      BY <2>1, <2>3, <2>4, MapMade
  <2> QED
      BY <1>1, <2>2, <2>5
<1>4. Marked({}) = {} /\ \A c : Strongly(c, {}) = {}
    BY DEF Marked, Strongly
<1>5. ASSUME NEW c \in Mapping!SeenCells
      PROVE CellKnown(Mapping!StateOf(Mapping!EmptyMap.cells, c),
      Mapping!EmptyMap.review, c, {})
  <2>1. Mapping!StateOf(Mapping!EmptyMap.cells, c) = Mapping!NewCell
      BY <1>1, <1>2 DEF Mapping!StateOf
  <2> QED
      BY <1>4, <2>1, NothingKnown DEF CellKnown
<1> QED
    BY <1>1, <1>3, <1>4, <1>5 DEF Knows

(* A cloud teaches nothing but where there is something.                   *)
LEMMA CloudIsNoObservation ==
    ASSUME MappingParameters, NEW c
    PROVE  [cell |-> c] \notin Observations
<1> SUFFICES ASSUME [cell |-> c] \in Observations PROVE FALSE
    OBVIOUS
<1>1. [cell |-> c] \in [cell : Mapping!SeenCells, label : Mapping!Labels, confidence :
          0 .. 100]
    BY DEF MappingParameters
<1>2. DOMAIN [cell |-> c] = {"cell", "label", "confidence"}
    BY <1>1
<1> QED
    BY <1>2

LEMMA CloudKnown ==
    ASSUME MappingParameters, NEW m, NEW input, Knows(m, input),
           NEW marked \in SUBSET CloudCells
    PROVE  Knows(Mapping!MarkOccupied(m, marked), input \cup {[cell |-> c] :
               c \in marked})
<1> DEFINE n == Mapping!MarkOccupied(m, marked)
           more == input \cup {[cell |-> c] : c \in marked}
<1>1. m \in Maps
    BY DEF Knows
<1>2. marked \subseteq Mapping!SeenCells
    BY DEF Mapping!SeenCells
<1>3. /\ n.metric = m.metric \cup marked /\ n.route = m.route /\ n.review = m.review
      /\ n.cells = [c \in DOMAIN m.cells \cup marked |->
                      IF c \in marked THEN [Mapping!StateOf(m.cells,
                          c) EXCEPT !.occupancy = 75]
                      ELSE m.cells[c]]
      /\ n = [metric |-> n.metric, cells |-> n.cells, route |-> n.route,
             review |-> n.review]
  <2> DEFINE cells == [c \in DOMAIN m.cells \cup marked |->
                         IF c \in marked THEN [Mapping!StateOf(m.cells,
                             c) EXCEPT !.occupancy = 75]
                         ELSE m.cells[c]]
             metric == m.metric \cup marked
  <2>1. n = WithCloud(m, metric, cells)
      BY DEF Mapping!MarkOccupied, WithCloud
  <2> HIDE DEF cells, metric
  <2>2. n = [metric |-> metric, cells |-> cells, route |-> m.route, review |-> m.review]
      BY <1>1, <2>1, MapReplaced DEF Map
  <2>3. n.metric = metric /\ n.cells = cells /\ n.route = m.route /\ n.review = m.review
      BY <2>2
  <2> QED
      BY <2>2, <2>3 DEF cells, metric
<1> HIDE DEF n
<1>4. \A c : Strongly(c, more) = Strongly(c, input)
    BY CloudIsNoObservation DEF Strongly
<1>5. Marked(more) = Marked(input) \cup marked
    BY <1>2 DEF Marked
<1>6. ASSUME NEW c \in Mapping!SeenCells
      PROVE  /\ Mapping!StateOf(n.cells,
                c) = IF c \in marked THEN [Mapping!StateOf(m.cells,
                c) EXCEPT !.occupancy = 75]
                                      ELSE Mapping!StateOf(m.cells, c)
             /\ Mapping!StateOf(n.cells, c) \in CellStates
             /\ Mapping!StateOf(n.cells, c).labels = Mapping!StateOf(m.cells, c).labels
             /\ Mapping!StateOf(n.cells, c).traversability = Mapping!StateOf(m.cells,
                    c).traversability
  <2>1. Mapping!StateOf(n.cells,
        c) = IF c \in marked THEN [Mapping!StateOf(m.cells, c) EXCEPT !.occupancy = 75]
                              ELSE Mapping!StateOf(m.cells, c)
      BY <1>3 DEF Mapping!StateOf
  <2>2. Mapping!StateOf(m.cells, c) \in CellStates
      BY DEF Knows, CellKnown
  <2>3. /\ [Mapping!StateOf(m.cells, c) EXCEPT !.occupancy = 75] \in CellStates
        /\ [Mapping!StateOf(m.cells,
               c) EXCEPT !.occupancy = 75].labels = Mapping!StateOf(m.cells, c).labels
        /\ [Mapping!StateOf(m.cells, c) EXCEPT !.occupancy = 75].traversability
             = Mapping!StateOf(m.cells, c).traversability
      BY <2>2, Occupied
  <2> QED
      BY <2>1, <2>2, <2>3
<1>7. n.cells \in [DOMAIN m.cells \cup marked -> CellStates]
      /\ DOMAIN m.cells \cup marked \subseteq Mapping!SeenCells
  <2>1. DOMAIN m.cells \cup marked \subseteq Mapping!SeenCells
      BY <1>1, <1>2, MapType
  <2>2. \A c \in DOMAIN n.cells : n.cells[c] = Mapping!StateOf(n.cells, c)
      BY DEF Mapping!StateOf
  <2>3. DOMAIN n.cells = DOMAIN m.cells \cup marked
      BY <1>3
  <2>4. \A c \in DOMAIN n.cells : n.cells[c] \in CellStates
      BY <1>6, <2>1, <2>2, <2>3
  <2>5. n.cells = [c \in DOMAIN n.cells |-> n.cells[c]]
      BY <1>3
  <2> QED
      BY <2>1, <2>3, <2>4, <2>5
<1>8. n \in Maps
  <2>1. n.metric \in SUBSET Mapping!SeenCells
      BY <1>1, <1>2, <1>3, MapType
  <2>2. n.review \in Seq(Decisions) /\ n.route \in Routes \cup {<< >>}
      BY <1>1, <1>3, MapType
  <2>3. [metric |-> n.metric, cells |-> n.cells, route |-> n.route,
        review |-> n.review] \in Maps
      BY <1>7, <2>1, <2>2, MapMade
  <2> QED
      BY <1>3, <2>3
<1>9. n.metric = Marked(more) \cup {c \in Mapping!SeenCells : Strongly(c, more) # {}}
    BY <1>3, <1>4, <1>5 DEF Knows
<1>10. n.metric \subseteq DOMAIN n.cells
    BY <1>3 DEF Knows
<1>11. ASSUME NEW c \in Mapping!SeenCells
       PROVE CellKnown(Mapping!StateOf(n.cells, c), n.review, c, more)
    BY <1>3, <1>4, <1>6 DEF Knows, CellKnown
<1> HIDE DEF more
<1>12. Knows(n, more)
    BY <1>8, <1>9, <1>10, <1>11 DEF Knows
<1> QED
    BY <1>12 DEF n, more

-----------------------------------------------------------------------------
(* How an observation adds to what a map knows.                            *)
LEMMA StatePut ==
    ASSUME NEW m \in Maps, NEW state \in CellStates, NEW cell \in Mapping!SeenCells,
           NEW review \in Seq(Decisions), NEW metric \in SUBSET Mapping!SeenCells
    PROVE  /\ Map(metric, Mapping!WithState(m.cells, cell, state), m.route,
              review) \in Maps
           /\ DOMAIN Mapping!WithState(m.cells, cell, state) = DOMAIN m.cells \cup {cell}
           /\ \A c : Mapping!StateOf(Mapping!WithState(m.cells, cell, state), c)
                       = IF c = cell THEN state ELSE Mapping!StateOf(m.cells, c)
<1> DEFINE D == DOMAIN m.cells \cup {cell}
           cells == Mapping!WithState(m.cells, cell, state)
<1>1. D \in SUBSET Mapping!SeenCells
    BY MapType
<1>2. cells = [c \in D |-> IF c = cell THEN state ELSE m.cells[c]]
    BY DEF Mapping!WithState
<1>3. \A c \in D : (IF c = cell THEN state ELSE m.cells[c]) \in CellStates
    BY MapType
<1> HIDE DEF cells, D
<1>4. cells \in [D -> CellStates]
    BY <1>2, <1>3
<1>5. m.route \in Routes \cup {<< >>}
    BY MapType
<1>6. Map(metric, cells, m.route, review) \in Maps
    BY <1>1, <1>4, <1>5, MapMade DEF Map
<1>7. \A c : Mapping!StateOf(cells,
      c) = IF c = cell THEN state ELSE Mapping!StateOf(m.cells, c)
    BY <1>2 DEF Mapping!StateOf, D
<1>8. DOMAIN cells = D
    BY <1>2
<1> QED
    BY <1>6, <1>7, <1>8 DEF cells, D

LEMMA Queued ==
    ASSUME NEW review \in Seq(Decisions), NEW d \in Decisions
    PROVE  /\ Append(review, d) \in Seq(Decisions)
           /\ Asked(Append(review, d), d.cell)
           /\ \A c : Asked(review, c) => Asked(Append(review, d), c)
<1> DEFINE more == Append(review, d)
<1>1. /\ Len(review) \in Nat /\ DOMAIN review = 1 .. Len(review)
      /\ more \in Seq(Decisions) /\ DOMAIN more = 1 .. Len(review) + 1
      /\ \A i \in 1 .. Len(review) : more[i] = review[i]
      /\ more[Len(review) + 1] = d
    BY AppendProperties, LenProperties
<1> HIDE DEF more
<1>2. Len(review) + 1 \in DOMAIN more /\ DOMAIN review \subseteq DOMAIN more
    BY <1>1
<1> QED
    BY <1>1, <1>2 DEF Asked, more

LEMMA WeakKnown ==
    ASSUME MappingParameters, NEW m, NEW input, Knows(m, input), NEW obs \in Observations,
           ~Mapping!Strong(obs), NEW d \in Decisions
    PROVE  Knows(Map(m.metric,
           Mapping!WithState(m.cells, obs.cell, Mapping!StateOf(m.cells, obs.cell)),
           m.route,
                     Append(m.review, d)),
                 input \cup {obs})
<1> DEFINE old == Mapping!StateOf(m.cells, obs.cell)
           cells == Mapping!WithState(m.cells, obs.cell, old)
           review == Append(m.review, d)
           n == Map(m.metric, cells, m.route, review)
           more == input \cup {obs}
<1>1. m \in Maps /\ obs.cell \in Mapping!SeenCells
    BY ObservationType DEF Knows
<1>2. old \in CellStates
    BY <1>1 DEF Knows, CellKnown
<1>3. m.review \in Seq(Decisions) /\ m.metric \in SUBSET Mapping!SeenCells
    BY <1>1, MapType
<1>4. review \in Seq(Decisions) /\ \A c : Asked(m.review, c) => Asked(review, c)
    BY <1>3, Queued
<1>5. /\ n \in Maps /\ DOMAIN cells = DOMAIN m.cells \cup {obs.cell}
      /\ \A c : Mapping!StateOf(cells, c) = Mapping!StateOf(m.cells, c)
  <2>1. PICK state : state = old
      OBVIOUS
  <2>2. PICK queue : queue = review
      OBVIOUS
  <2> DEFINE put == Mapping!WithState(m.cells, obs.cell, state)
  <2> HIDE DEF n, cells, old, review
  <2>3. /\ Map(m.metric, put, m.route, queue) \in Maps
        /\ DOMAIN put = DOMAIN m.cells \cup {obs.cell}
        /\ \A c : Mapping!StateOf(put,
               c) = IF c = obs.cell THEN state ELSE Mapping!StateOf(m.cells, c)
    <3>1. state \in CellStates /\ queue \in Seq(Decisions)
          /\ m.metric \in SUBSET Mapping!SeenCells
        BY <1>2, <1>3, <1>4, <2>1, <2>2
    <3> QED
        BY <1>1, <3>1, StatePut
  <2>4. \A c : c = obs.cell => state = Mapping!StateOf(m.cells, c)
      BY <2>1 DEF old
  <2>5. put = cells /\ Map(m.metric, put, m.route, queue) = n
      BY <2>1, <2>2 DEF cells, n
  <2> HIDE DEF put
  <2> QED
      BY <2>3, <2>4, <2>5
<1>6. n.metric = m.metric /\ n.cells = cells /\ n.review = review
    BY DEF Map
<1>7. \A c : Strongly(c, more) = Strongly(c, input)
    BY DEF Strongly
<1>8. Marked(more) = Marked(input)
    BY CloudIsNoObservation DEF Marked
<1> HIDE DEF n, more, cells, review
<1>9. \A c \in Mapping!SeenCells :
          CellKnown(Mapping!StateOf(n.cells, c), n.review, c, more)
    BY <1>4, <1>5, <1>6, <1>7 DEF Knows, CellKnown
<1>10. Knows(n, more)
    BY <1>5, <1>6, <1>7, <1>8, <1>9 DEF Knows
<1> QED
    BY <1>10 DEF n, more, cells, review

LEMMA StrongKnown ==
    ASSUME MappingParameters, NEW m, NEW input, Knows(m, input), NEW obs \in Observations,
           Mapping!Strong(obs), NEW new \in CellStates, NEW review \in Seq(Decisions),
           CellKnown(new, review, obs.cell, input \cup {obs}),
           \A c : Asked(m.review, c) => Asked(review, c)
    PROVE  Knows(Map(m.metric \cup {obs.cell}, Mapping!WithState(m.cells, obs.cell, new),
           m.route, review),
                 input \cup {obs})
<1> DEFINE cells == Mapping!WithState(m.cells, obs.cell, new)
           metric == m.metric \cup {obs.cell}
           n == Map(metric, cells, m.route, review)
           more == input \cup {obs}
<1>1. m \in Maps /\ obs.cell \in Mapping!SeenCells
    BY ObservationType DEF Knows
<1>2. metric \in SUBSET Mapping!SeenCells
    BY <1>1, MapType
<1>3. /\ n \in Maps /\ DOMAIN cells = DOMAIN m.cells \cup {obs.cell}
      /\ \A c : Mapping!StateOf(cells,
             c) = IF c = obs.cell THEN new ELSE Mapping!StateOf(m.cells, c)
    BY <1>1, <1>2, StatePut
<1>4. n.metric = metric /\ n.cells = cells /\ n.review = review
    BY DEF Map
<1>5. \A c : c # obs.cell => Strongly(c, more) = Strongly(c, input)
    BY DEF Strongly
<1>6. obs \in Strongly(obs.cell, more)
    BY DEF Strongly
<1>7. Marked(more) = Marked(input)
    BY CloudIsNoObservation DEF Marked
<1> HIDE DEF n, more, cells
<1>8. n.metric = Marked(more) \cup {c \in Mapping!SeenCells : Strongly(c, more) # {}}
  <2>1. m.metric = Marked(input) \cup {c \in Mapping!SeenCells : Strongly(c, input) # {}}
      BY DEF Knows
  <2>2. {c \in Mapping!SeenCells : Strongly(c, more) # {}}
          = {c \in Mapping!SeenCells : Strongly(c, input) # {}} \cup {obs.cell}
      BY <1>1, <1>5, <1>6
  <2> QED
      BY <1>4, <1>7, <2>1, <2>2
<1>9. n.metric \subseteq DOMAIN n.cells
    BY <1>3, <1>4 DEF Knows
<1>10. ASSUME NEW c \in Mapping!SeenCells
       PROVE CellKnown(Mapping!StateOf(n.cells, c), n.review, c, more)
  <2>1. CASE c = obs.cell
      BY <1>3, <1>4, <2>1 DEF more
  <2>2. CASE c # obs.cell
      BY <1>3, <1>4, <1>5, <2>2 DEF Knows, CellKnown
  <2> QED
      BY <2>1, <2>2
<1>11. Knows(n, more)
    BY <1>3, <1>8, <1>9, <1>10 DEF Knows
<1> QED
    BY <1>11 DEF n, more, cells

(* A cell that has taken an observation.                                   *)
Observed(s, learnt, price) ==
    [s EXCEPT !.labels = learnt, !.traversability = price, !.observations = @ + 1]

Shows(s, labels, cost) == s \in CellStates /\ s.labels = labels /\ s.traversability = cost

LEMMA StateMade ==
    ASSUME NEW s \in CellStates, NEW learnt \in Seq(Entries), NEW price \in 0 .. 1000
    PROVE  Shows(Observed(s, learnt, price), learnt, price)
<1>0. PICK t : t = Observed(s, learnt, price)
    OBVIOUS
<1>1. s.occupancy \in {50, 75} /\ s.observations \in Nat
    BY DEF CellStates
<1>2. PICK k \in Nat : k = s.observations + 1
    BY <1>1
<1>3. s = [occupancy |-> s.occupancy, labels |-> s.labels,
      traversability |-> s.traversability,
           observations |-> s.observations]
    BY DEF CellStates
<1>4. PICK one : one = [s EXCEPT !.labels = learnt]
    OBVIOUS
<1>5. PICK two : two = [one EXCEPT !.traversability = price]
    OBVIOUS
<1>6. PICK three : three = [two EXCEPT !.observations = k]
    OBVIOUS
<1>7. t = three
    BY <1>0, <1>2, <1>4, <1>5, <1>6 DEF Observed
<1>8. one = [occupancy |-> s.occupancy, labels |-> learnt,
      traversability |-> s.traversability,
             observations |-> s.observations]
    BY <1>3, <1>4
<1>9. two = [occupancy |-> s.occupancy, labels |-> learnt, traversability |-> price,
             observations |-> s.observations]
    BY <1>5, <1>8
<1>10. three = [occupancy |-> s.occupancy, labels |-> learnt, traversability |-> price,
                observations |-> k]
    BY <1>6, <1>9
<1> QED
    BY <1>0, <1>1, <1>2, <1>7, <1>10 DEF CellStates, Shows

LEMMA ObservationKnown ==
    ASSUME MappingParameters, NEW m, NEW input, Knows(m, input), NEW obs \in Observations
    PROVE  Knows(Mapping!Apply(m, obs), input \cup {obs})
<1> DEFINE old == Mapping!StateOf(m.cells, obs.cell)
           change == Mapping!ChangeDetected(old.labels, obs)
           weak == obs.confidence < ChangeThreshold
           decision == [cell |-> obs.cell, label |-> obs.label,
                        reason |-> IF weak THEN "low_confidence"
                                   ELSE IF change THEN "change_detected" ELSE "applied"]
           asks == weak \/ change \/ obs.confidence < ConfirmationThreshold
           review == IF asks THEN Append(m.review, decision) ELSE m.review
           labels == Mapping!WithLabel(old.labels, obs.label, obs.confidence)
           cost == Mapping!TraversabilityForLabel(obs.label, obs.confidence)
           new == [old EXCEPT !.labels = labels, !.traversability = cost,
               !.observations = @ + 1]
           more == input \cup {obs}
<1>1. m \in Maps /\ m.review \in Seq(Decisions)
    BY MapType DEF Knows
<1>2. /\ obs.cell \in Mapping!SeenCells /\ obs.label \in Mapping!Labels
      /\ obs.confidence \in 0 .. 100
      /\ obs.confidence \in Int /\ ChangeThreshold \in Int
      /\ ConfirmationThreshold \in Int
    BY ObservationType DEF MappingParameters
<1>3. decision \in Decisions /\ decision.cell = obs.cell
    BY <1>2 DEF Decisions, Mapping!Reasons
<1>4. weak <=> ~Mapping!Strong(obs)
    BY <1>2 DEF Mapping!Strong
<1>5. CASE weak
  <2>1. review = Append(m.review, decision)
      BY <1>5
  <2>2. PICK cells :
            cells = Mapping!WithState(m.cells, obs.cell,
            Mapping!StateOf(m.cells, obs.cell))
      OBVIOUS
  <2>3. PICK queue : queue = Append(m.review, decision)
      OBVIOUS
  <2>4. Mapping!Apply(m, obs) = WithReview(m, cells, queue)
      BY <1>5, <2>1, <2>2, <2>3 DEF Mapping!Apply, WithReview
  <2>5. Mapping!Apply(m, obs) = Map(m.metric, cells, m.route, queue)
      BY <1>1, <2>4, MapReplaced
  <2>6. PICK d \in Decisions : d = decision
      BY <1>3
  <2> HIDE DEF decision
  <2>7. ~Mapping!Strong(obs)
      BY <1>4, <1>5
  <2> HIDE DEF weak
  <2>8. Knows(Map(m.metric,
        Mapping!WithState(m.cells, obs.cell, Mapping!StateOf(m.cells, obs.cell)), m.route,
                  Append(m.review, d)),
              input \cup {obs})
      BY <2>7, WeakKnown
  <2> QED
      BY <2>2, <2>3, <2>5, <2>6, <2>8
<1>6. CASE ~weak
  <2>1. Mapping!Apply(m, obs) = Map(m.metric \cup {obs.cell},
        Mapping!WithState(m.cells, obs.cell, new), m.route,
                            review)
    <3>1. PICK cells : cells = Mapping!WithState(m.cells, obs.cell, new)
        OBVIOUS
    <3>2. PICK queue : queue = review
        OBVIOUS
    <3>3. PICK metric : metric = m.metric \cup {obs.cell}
        OBVIOUS
    <3>4. Mapping!Apply(m, obs) = With(m, metric, cells, queue)
        BY <1>6, <3>1, <3>2, <3>3 DEF Mapping!Apply, With
    <3>5. Mapping!Apply(m, obs) = Map(metric, cells, m.route, queue)
        BY <1>1, <3>4, MapReplaced
    <3> HIDE DEF new, review
    <3> QED
        BY <3>1, <3>2, <3>3, <3>5
  <2>3. CellKnown(old, m.review, obs.cell, input)
      BY <1>2 DEF Knows
  <2>4. /\ old.labels \in Seq(Entries) /\ old \in CellStates
        /\ Learnt(Mapping!ToSet(old.labels), Strongly(obs.cell, input))
        /\ Unique(Mapping!ToSet(old.labels))
      BY <2>3 DEF CellKnown, CellStates, Learnt
  <2>5. Mapping!ToSet(old.labels) \subseteq Entries
      BY <2>4, EntriesOf
  <2>6. Joins(labels, old.labels, obs.label, obs.confidence)
      BY <1>2, <2>4, WithLabelJoins
  <2>7. PICK best : /\ Best(Mapping!ToSet(old.labels), obs.label, obs.confidence, best)
                    /\ Mapping!ToSet(labels) = Joined(Mapping!ToSet(old.labels),
                           obs.label, best)
      BY <2>6 DEF Joins
  <2>8. cost \in 0 .. 1000 /\ labels \in Seq(Entries)
      BY <1>2, <2>6, CostInRange DEF Joins
  <2> HIDE DEF labels, cost, old, decision
  <2>9. new \in CellStates /\ new.labels = labels /\ new.traversability = cost
    <3>1. new = Observed(old, labels, cost)
        BY DEF Observed
    <3>2. old \in CellStates /\ labels \in Seq(Entries) /\ cost \in 0 .. 1000
        BY <2>4, <2>8
    <3> HIDE DEF new
    <3>3. Shows(Observed(old, labels, cost), labels, cost)
        BY <3>2, StateMade
    <3> QED
        BY <3>1, <3>3 DEF Shows
  <2> HIDE DEF new
  <2>10. Strongly(obs.cell, more) = Strongly(obs.cell, input) \cup {obs}
      BY <1>4, <1>6 DEF Strongly
  <2>11. Strongly(obs.cell, input) \subseteq Observations
      BY DEF Strongly
  <2>12. Learnt(Mapping!ToSet(labels), Strongly(obs.cell, more))
    <3> HIDE DEF more
    <3>1. Learnt(Joined(Mapping!ToSet(old.labels), obs.label, best),
          Strongly(obs.cell, input) \cup {obs})
        BY <2>4, <2>5, <2>7, <2>11, LearnMore
    <3> QED
        BY <2>7, <2>10, <3>1
  <2>13. /\ review \in Seq(Decisions)
         /\ \A c : Asked(m.review, c) => Asked(review, c)
         /\ asks => Asked(review, obs.cell)
      BY <1>1, <1>3, Queued
  <2>14. ~asks => review = m.review
      OBVIOUS
  <2>15. Asked(review, obs.cell) \/ Settled(Mapping!ToSet(labels), cost)
    <3>1. CASE asks
        BY <2>13, <3>1
    <3>2. CASE ~asks
      <4>1. ~change /\ obs.confidence >= ConfirmationThreshold /\ Mapping!Strong(obs)
          BY <1>2, <1>4, <3>2
      <4>2. CASE Asked(m.review, obs.cell)
          BY <2>13, <4>2
      <4>3. CASE Settled(Mapping!ToSet(old.labels), old.traversability)
        <5>1. Settled(Joined(Mapping!ToSet(old.labels), obs.label, best),
                      Mapping!TraversabilityForLabel(obs.label, obs.confidence))
            BY <2>4, <2>7, <4>1, <4>3, SettleMore
        <5> QED
            BY <2>7, <5>1 DEF cost
      <4> QED
          BY <2>3, <4>2, <4>3 DEF CellKnown
    <3> QED
        BY <3>1, <3>2
  <2> HIDE DEF review, more
  <2>16. CellKnown(new, review, obs.cell, more)
      BY <2>9, <2>12, <2>15 DEF CellKnown
  <2>17. Knows(Map(m.metric \cup {obs.cell}, Mapping!WithState(m.cells, obs.cell, new),
         m.route, review),
               more)
      BY <1>4, <1>6, <2>9, <2>13, <2>16, StrongKnown DEF more
  <2> QED
      BY <2>1, <2>17 DEF more, new, review
<1> QED
    BY <1>5, <1>6

-----------------------------------------------------------------------------
(* A snapshot knows what its map knew; a route changes none of it.         *)
Sorted(m) == \A c \in DOMAIN m.cells :
        m.cells[c].labels = Mapping!Written(m.cells[c].labels)

SaysTheSame(new, old) ==
    /\ new \in CellStates /\ new.traversability = old.traversability
    /\ Mapping!ToSet(new.labels) = Mapping!ToSet(old.labels)
    /\ new.labels = Mapping!Written(new.labels)
    /\ [new EXCEPT !.labels = << >>] = [old EXCEPT !.labels = << >>]

LEMMA WrittenCellSame ==
    ASSUME MappingParameters, NEW s \in CellStates, Unique(Mapping!ToSet(s.labels))
    PROVE  SaysTheSame(Mapping!WrittenCell(s), s)
<1> DEFINE w == Mapping!Written(s.labels)
<1>1. s.labels \in Seq(Entries)
    BY DEF CellStates
<1>2. w \in Seq(Entries) /\ Mapping!ToSet(w) = Mapping!ToSet(s.labels)
    BY <1>1, WrittenSaysTheSame
<1>3. Mapping!Written(w) = w
    BY <1>2, WrittenBySet
<1>4. PICK t : t = [s EXCEPT !.labels = w]
    OBVIOUS
<1>5. Mapping!WrittenCell(s) = t
    BY <1>4 DEF Mapping!WrittenCell
<1> HIDE DEF w
<1>6. t \in CellStates /\ t.labels = w /\ t.traversability = s.traversability
  <2>1. /\ s.occupancy \in {50, 75} /\ s.traversability \in 0 .. 1000
        /\ s.observations \in Nat
        /\ s = [occupancy |-> s.occupancy, labels |-> s.labels,
                traversability |-> s.traversability, observations |-> s.observations]
      BY DEF CellStates
  <2>2. t = [occupancy |-> s.occupancy, labels |-> w, traversability |-> s.traversability,
             observations |-> s.observations]
      BY <1>4, <2>1
  <2> QED
      BY <1>2, <2>1, <2>2 DEF CellStates
<1>7. [t EXCEPT !.labels = << >>] = [s EXCEPT !.labels = << >>]
    BY <1>4 DEF CellStates
<1> QED
    BY <1>2, <1>3, <1>5, <1>6, <1>7 DEF SaysTheSame

LEMMA UniqueLabels ==
    ASSUME NEW m, NEW input, Knows(m, input), NEW c \in DOMAIN m.cells
    PROVE  /\ c \in Mapping!SeenCells /\ m.cells[c] \in CellStates
           /\ Unique(Mapping!ToSet(m.cells[c].labels))
           /\ CellKnown(m.cells[c], m.review, c, input)
<1>1. c \in Mapping!SeenCells
    BY MapType DEF Knows
<1>2. Mapping!StateOf(m.cells, c) = m.cells[c]
    BY DEF Mapping!StateOf
<1> QED
    BY <1>1, <1>2 DEF Knows, CellKnown, Learnt

SnapshotOf(n, m) ==
    /\ n.metric = m.metric /\ n.route = m.route /\ n.review = m.review
    /\ DOMAIN n.cells = DOMAIN m.cells
    /\ \A c \in DOMAIN m.cells : SaysTheSame(n.cells[c], m.cells[c])

LEMMA SnapshotShape ==
    ASSUME MappingParameters, NEW m, NEW input, Knows(m, input)
    PROVE  SnapshotOf(Mapping!ToSnapshot(m), m) /\ Mapping!ToSnapshot(m) \in Maps
<1>1. m \in Maps
    BY DEF Knows
<1> DEFINE cells == [c \in DOMAIN m.cells |-> Mapping!WrittenCell(m.cells[c])]
<1>2. Mapping!ToSnapshot(m) = WithCells(m, cells)
    BY DEF Mapping!ToSnapshot, WithCells
<1>3. Mapping!ToSnapshot(m) = Map(m.metric, cells, m.route, m.review)
  <2>1. PICK f : f = cells
      OBVIOUS
  <2>2. WithCells(m, f) = Map(m.metric, f, m.route, m.review)
      BY <1>1, MapReplaced
  <2> HIDE DEF cells
  <2> QED
      BY <1>2, <2>1, <2>2
<1>4. \A c \in DOMAIN m.cells : SaysTheSame(Mapping!WrittenCell(m.cells[c]), m.cells[c])
    BY UniqueLabels, WrittenCellSame
<1>5. cells \in [DOMAIN m.cells -> CellStates]
    BY <1>4 DEF SaysTheSame
<1>6. DOMAIN cells = DOMAIN m.cells
      /\ \A c \in DOMAIN m.cells : SaysTheSame(cells[c], m.cells[c])
    BY <1>4
<1>7. /\ DOMAIN m.cells \in SUBSET Mapping!SeenCells
      /\ m.metric \in SUBSET Mapping!SeenCells
      /\ m.route \in Routes \cup {<< >>} /\ m.review \in Seq(Decisions)
    BY <1>1, MapType
<1> HIDE DEF cells
<1>8. Map(m.metric, cells, m.route, m.review) \in Maps
    BY <1>5, <1>7, MapMade DEF Map
<1>9. SnapshotOf(Map(m.metric, cells, m.route, m.review), m)
    BY <1>6 DEF SnapshotOf, Map
<1> QED
    BY <1>3, <1>8, <1>9

LEMMA SnapshotKnown ==
    ASSUME MappingParameters, NEW m, NEW input, Knows(m, input)
    PROVE  Knows(Mapping!ToSnapshot(m), input) /\ Sorted(Mapping!ToSnapshot(m))
<1> DEFINE n == Mapping!ToSnapshot(m)
<1>1. SnapshotOf(n, m) /\ n \in Maps
    BY SnapshotShape
<1> HIDE DEF n
<1>2. Sorted(n)
    BY <1>1 DEF Sorted, SnapshotOf, SaysTheSame
<1>3. ASSUME NEW c \in Mapping!SeenCells
      PROVE CellKnown(Mapping!StateOf(n.cells, c), n.review, c, input)
  <2>1. CASE c \in DOMAIN m.cells
    <3>1. Mapping!StateOf(n.cells, c) = n.cells[c]
          /\ Mapping!StateOf(m.cells, c) = m.cells[c]
        BY <1>1, <2>1 DEF Mapping!StateOf, SnapshotOf
    <3>2. SaysTheSame(n.cells[c], m.cells[c])
        BY <1>1, <2>1 DEF SnapshotOf
    <3>3. CellKnown(m.cells[c], m.review, c, input)
        BY <3>1 DEF Knows
    <3> QED
        BY <1>1, <3>1, <3>2, <3>3 DEF CellKnown, SaysTheSame, SnapshotOf
  <2>2. CASE c \notin DOMAIN m.cells
    <3>1. Mapping!StateOf(n.cells, c) = Mapping!StateOf(m.cells, c)
        BY <1>1, <2>2 DEF Mapping!StateOf, SnapshotOf
    <3> QED
        BY <1>1, <3>1 DEF Knows, SnapshotOf
  <2> QED
      BY <2>1, <2>2
<1>4. Knows(n, input)
    BY <1>1, <1>3 DEF Knows, SnapshotOf
<1> QED
    BY <1>2, <1>4 DEF n

LEMMA RouteKnown ==
    ASSUME NEW m, NEW input, Knows(m, input), NEW routes \in RouteFiles,
           NEW n \in Mapping!LoadRoute(m, routes)
    PROVE  /\ Knows(n, input)
           /\ n.metric = m.metric /\ n.cells = m.cells /\ n.review = m.review
<1>1. m \in Maps
    BY DEF Knows
<1>2. CASE n = m
    BY <1>2
<1>3. CASE n # m
  <2>1. PICK r \in routes.rows : n = WithRoute(m, r)
      BY <1>3 DEF Mapping!LoadRoute, WithRoute
  <2>2. n = Map(m.metric, m.cells, r, m.review)
      BY <1>1, <2>1, MapReplaced
  <2>3. r \in Routes \cup {<< >>}
      BY DEF Routes
  <2>4. /\ m.cells \in [DOMAIN m.cells -> CellStates]
        /\ DOMAIN m.cells \in SUBSET Mapping!SeenCells
        /\ m.metric \in SUBSET Mapping!SeenCells /\ m.review \in Seq(Decisions)
      BY <1>1, MapType
  <2>5. n \in Maps
      BY <2>2, <2>3, <2>4, MapMade DEF Map
  <2>6. n.metric = m.metric /\ n.cells = m.cells /\ n.review = m.review
      BY <2>2 DEF Map
  <2> QED
      BY <2>5, <2>6 DEF Knows
<1> QED
    BY <1>2, <1>3

-----------------------------------------------------------------------------
(* The node: its map, its file and the baseline know their input.  The file*)
(* holds what was saved, but during a save and after a crash inside one.   *)
MapInv ==
    /\ phase \in {"down", "up", "saving"}
    /\ Knows(hd_map, seen)
    /\ died_saving \in BOOLEAN
    /\ phase = "saving" \/ died_saving => file = {} /\ file_seen = {}
    /\ phase # "saving" /\ ~died_saving =>
         /\ file = {Mapping!ToSnapshot(s) : s \in saved}
         /\ \A s \in saved : Knows(s, file_seen)
         /\ saved = {} => file_seen = {}
    /\ \A s, t \in saved : s = t
    /\ \A s \in baseline : Knows(s, baseline_seen) /\ Sorted(s)

LEMMA FileKnown ==
    ASSUME MappingParameters, MapInv
    PROVE  \A s \in file : Knows(s, file_seen) /\ Sorted(s)
    BY SnapshotKnown DEF MapInv

LEMMA MapInit ==
    ASSUME Mapping!Init
    PROVE  MapInv
    BY EmptyIsKnown DEF Mapping!Init, MapInv

LEMMA MapStep ==
    ASSUME MappingParameters, MapInv, [Mapping!Next]_(Mapping!vars)
    PROVE  MapInv'
<1>1. CASE \E routes \in RouteFiles : Mapping!Start(routes)
  <2>1. PICK routes \in RouteFiles : Mapping!Start(routes)
      BY <1>1
  <2>2. PICK m \in IF file = {} THEN {Mapping!EmptyMap} ELSE {Mapping!FromSnapshot(s) :
            s \in file} :
           hd_map' \in Mapping!LoadRoute(m, routes)
      BY <2>1 DEF Mapping!Start
  <2>3. Knows(m, file_seen)
    <3>1. CASE file = {}
      <4>1. file_seen = {}
        <5>1. CASE died_saving
            BY <5>1 DEF MapInv
        <5>2. CASE ~died_saving
          <6>1. phase # "saving"
              BY <2>1 DEF Mapping!Start
          <6>2. saved = {}
              BY <3>1, <5>2, <6>1 DEF MapInv
          <6> QED
              BY <5>2, <6>1, <6>2 DEF MapInv
        <5> QED
            BY <5>1, <5>2
      <4>2. m = Mapping!EmptyMap
          BY <2>2, <3>1
      <4> QED
          BY <4>1, <4>2, EmptyIsKnown
    <3>2. CASE file # {}
        BY <2>2, <3>2, FileKnown DEF Mapping!FromSnapshot
    <3> QED
        BY <3>1, <3>2
  <2>4. Knows(hd_map', file_seen)
      BY <2>2, <2>3, RouteKnown
  <2> QED
      BY <2>1, <2>4 DEF Mapping!Start, MapInv
<1>2. CASE \E cells \in (SUBSET CloudCells) \ {{}} : Mapping!OnCloud(cells)
    BY <1>2, CloudKnown DEF Mapping!OnCloud, MapInv
<1>3. CASE \E obs \in Observations : Mapping!OnObservation(obs)
    BY <1>3, ObservationKnown DEF Mapping!OnObservation, MapInv
<1>4. CASE Mapping!BeginSave
    BY <1>4 DEF Mapping!BeginSave, MapInv
<1>5. CASE Mapping!EndSave
    BY <1>5 DEF Mapping!EndSave, MapInv
<1>6. CASE Mapping!Crash
    BY <1>6, EmptyIsKnown DEF Mapping!Crash, MapInv
<1>7. CASE Mapping!Promote
    BY <1>7, FileKnown DEF Mapping!Promote, MapInv
<1>8. CASE Mapping!NewPass
    BY <1>8 DEF Mapping!NewPass, MapInv
<1>9. CASE Mapping!PutAway
    BY <1>9 DEF Mapping!PutAway, MapInv
<1>10. CASE UNCHANGED Mapping!vars
    BY <1>10 DEF Mapping!vars, MapInv
<1> QED
    BY <1>1, <1>2, <1>3, <1>4, <1>5, <1>6, <1>7, <1>8, <1>9, <1>10 DEF Mapping!Next

-----------------------------------------------------------------------------
(* A map that knows its input keeps it.                                    *)
LEMMA KnownTypes ==
    ASSUME MappingParameters, Knows(hd_map, seen), phase \in {"down", "up", "saving"}
    PROVE  Mapping!MapTypeOK
<1>1. hd_map \in Maps
    BY DEF Knows
<1>2. hd_map.metric \subseteq DOMAIN hd_map.cells
    BY DEF Knows
<1>3. Mapping!SemanticCells(hd_map) \subseteq hd_map.metric
  <2> SUFFICES ASSUME NEW c \in DOMAIN hd_map.cells, hd_map.cells[c].labels # << >>
               PROVE  c \in hd_map.metric
      BY DEF Mapping!SemanticCells
  <2>1. c \in Mapping!SeenCells /\ CellKnown(hd_map.cells[c], hd_map.review, c, seen)
      BY UniqueLabels
  <2>2. hd_map.cells[c].labels \in Seq(Entries)
      BY <2>1 DEF CellKnown, CellStates
  <2>3. Mapping!ToSet(hd_map.cells[c].labels) # {}
      BY <2>2, EntriesOf
  <2>4. Strongly(c, seen) # {}
      BY <2>1, <2>3 DEF CellKnown, Learnt
  <2> QED
      BY <2>1, <2>4 DEF Knows
<1>4. ASSUME NEW c \in DOMAIN hd_map.cells
      PROVE  /\ c \in Mapping!SeenCells
             /\ hd_map.cells[c].traversability \in 0 .. 1000
             /\ hd_map.cells[c].observations \in Nat
  <2>1. c \in Mapping!SeenCells /\ hd_map.cells[c] \in CellStates
      BY UniqueLabels
  <2> QED
      BY <2>1 DEF CellStates
<1>5. ASSUME NEW i \in DOMAIN hd_map.review
      PROVE hd_map.review[i].reason \in Mapping!Reasons
  <2>1. hd_map.review \in Seq(Decisions)
      BY <1>1, MapType
  <2>2. hd_map.review[i] \in Decisions
      BY <2>1, ElementOfSeq, LenProperties
  <2> QED
      BY <2>2 DEF Decisions
<1> QED
    BY <1>2, <1>3, <1>4, <1>5 DEF Mapping!MapTypeOK

(* The labels of a cell are the join of what it saw.                       *)
JoinOf(c, input) ==
    {[label |-> o.label, confidence |-> o.confidence] :
       o \in {x \in input \cap Observations : x.cell = c /\ Mapping!Strong(x) /\
                \A y \in input \cap Observations :
                   y.cell = c /\ y.label = x.label => y.confidence <= x.confidence}}

LEMMA LearntIsJoin ==
    ASSUME MappingParameters, NEW E, NEW c, NEW input, Learnt(E, Strongly(c, input))
    PROVE  E = JoinOf(c, input)
<1> DEFINE Best0(x) == \A y \in input \cap Observations :
                          y.cell = c /\ y.label = x.label => y.confidence <= x.confidence
<1>1. ASSUME NEW e \in E PROVE e \in JoinOf(c, input)
  <2>1. PICK o \in Strongly(c, input) :
            e = [label |-> o.label, confidence |-> o.confidence]
      BY DEF Learnt
  <2>2. o \in input \cap Observations /\ o.cell = c /\ Mapping!Strong(o)
        /\ o.confidence \in Int
      BY <2>1, ObservationType DEF Strongly
  <2>3. ASSUME NEW y \in input \cap Observations, y.cell = c, y.label = o.label
        PROVE  y.confidence <= o.confidence
    <3>1. y.confidence \in Int /\ ChangeThreshold \in Int
        BY ObservationType DEF MappingParameters
    <3>2. CASE ~Mapping!Strong(y)
        BY <2>2, <3>1, <3>2 DEF Mapping!Strong
    <3>3. CASE Mapping!Strong(y)
      <4>1. y \in Strongly(c, input)
          BY <2>3, <3>3 DEF Strongly
      <4>2. PICK f \in E : f.label = y.label /\ y.confidence <= f.confidence
          BY <4>1 DEF Learnt
      <4>3. f.label = e.label
          BY <2>1, <2>3, <4>2
      <4>4. f = e
          BY <4>3 DEF Learnt, Unique
      <4> QED
          BY <2>1, <4>2, <4>4
    <3> QED
        BY <3>2, <3>3
  <2> QED
      BY <2>1, <2>2, <2>3 DEF JoinOf
<1>2. ASSUME NEW e \in JoinOf(c, input) PROVE e \in E
  <2>1. PICK o \in input \cap Observations :
           /\ o.cell = c /\ Mapping!Strong(o) /\ Best0(o)
           /\ e = [label |-> o.label, confidence |-> o.confidence]
      BY DEF JoinOf
  <2>2. o \in Strongly(c, input)
      BY <2>1 DEF Strongly
  <2>3. PICK f \in E : f.label = o.label /\ o.confidence <= f.confidence
      BY <2>2 DEF Learnt
  <2>4. PICK p \in Strongly(c, input) :
            f = [label |-> p.label, confidence |-> p.confidence]
      BY DEF Learnt
  <2>5. p \in input \cap Observations /\ p.cell = c
      BY DEF Strongly
  <2>6. p.label = o.label /\ f.confidence = p.confidence /\ p.confidence <= o.confidence
      BY <2>1, <2>3, <2>4, <2>5
  <2>7. p.confidence \in Int /\ o.confidence \in Int
      BY <2>5, ObservationType
  <2>8. p.confidence = o.confidence
      BY <2>3, <2>6, <2>7
  <2>9. f = e
      BY <2>1, <2>4, <2>6, <2>8
  <2> QED
      BY <2>9
<1> QED
    BY <1>1, <1>2

LEMMA KnownIsJoin ==
    ASSUME MappingParameters, Knows(hd_map, seen)
    PROVE  Mapping!LabelsAreJoin
<1>1. \A c \in Mapping!SeenCells :
          Mapping!ToSet(Mapping!StateOf(hd_map.cells, c).labels) = JoinOf(c, seen)
    BY LearntIsJoin DEF Knows, CellKnown
<1> QED
    BY <1>1 DEF Mapping!LabelsAreJoin, JoinOf

LEMMA KnownConflicts ==
    ASSUME MappingParameters, Knows(hd_map, seen)
    PROVE  Mapping!ConflictIsReviewed
<1> SUFFICES ASSUME NEW c \in DOMAIN hd_map.cells,
                    Mapping!TopConfidence(hd_map.cells[c].labels) >= ConfirmationThreshold,
                    \A label \in Mapping!TopLabel(hd_map.cells[c].labels) :
                       hd_map.cells[c].traversability \notin Mapping!CostOf(label),
                    ~Asked(hd_map.review, c)
             PROVE  FALSE
    BY DEF Mapping!ConflictIsReviewed, Asked
<1> DEFINE state == hd_map.cells[c]
           E == Mapping!ToSet(state.labels)
<1>1. CellKnown(state, hd_map.review, c, seen)
    BY UniqueLabels
<1>2. Settled(E, state.traversability) /\ state.labels \in Seq(Entries)
    BY <1>1 DEF CellKnown, CellStates
<1>3. state.labels # << >>
    BY DEF Mapping!TopConfidence, MappingParameters
<1>4. \E e \in E : e.confidence = Mapping!TopConfidence(state.labels)
    BY <1>2, <1>3, TopIsBest
<1>5. \E e \in E : e.confidence >= ConfirmationThreshold
    BY <1>4
<1>6. PICK e \in E : Leads(e, E) /\ state.traversability \in Mapping!CostOf(e.label)
    BY <1>2, <1>5 DEF Settled
<1>7. Mapping!TopLabel(state.labels) = {e.label}
    BY <1>2, <1>6, LeaderIsTop
<1> QED
    BY <1>6, <1>7

LEMMA InvKeepsInput ==
    ASSUME MappingParameters, MapInv
    PROVE  Mapping!MapKeepsInput
    BY KnownTypes, KnownIsJoin, KnownConflicts DEF MapInv, Mapping!MapKeepsInput

-----------------------------------------------------------------------------
(* Snapshots that know the same agree.                                     *)
LEMMA Shares ==
    ASSUME MappingParameters, NEW S, IsFiniteSet(S)
    PROVE  Mapping!Overlaps(S \cap S, S)
<1>1. Cardinality(S) \in Nat /\ MinOverlap \in 0 .. 100 /\ S \cap S = S
    BY FS_CardinalityType DEF MappingParameters
<1>2. \A n \in Nat, k \in 0 .. 100 : 100 * n >= k * n
  <2> TAKE n \in Nat, k \in 0 .. 100
  <2>1. (100 - k) * n >= 0
      OBVIOUS
  <2>2. (100 - k) * n = 100 * n - k * n
      OBVIOUS
  <2>3. k * n \in Int /\ 100 * n \in Int
      OBVIOUS
  <2> QED
      BY <2>1, <2>2, <2>3
<1>3. 100 * Mapping!Cardinality(S) >= MinOverlap * Mapping!Cardinality(S)
    BY <1>1, <1>2, SameCardinality
<1> QED
    BY <1>1, <1>3 DEF Mapping!Overlaps

LEMMA SnapshotsAgree ==
    ASSUME MappingParameters, NEW old, NEW new, NEW input,
           Knows(old, input), Knows(new, input), Sorted(old), Sorted(new),
           Len(old.route) = Len(new.route)
    PROVE  Mapping!Compare(old, new) \subseteq {"high_risk_delta", "review_queue_delta"}
<1>1. old.metric = new.metric
    BY DEF Knows
<1>2. IsFiniteSet(old.metric)
  <2>1. old.metric \subseteq Mapping!SeenCells
      BY MapType DEF Knows
  <2> QED
      BY <2>1, FS_Subset DEF MappingParameters
<1>3. Mapping!Overlaps(old.metric \cap new.metric, old.metric)
    BY <1>1, <1>2, Shares
<1>4. Mapping!Edges(old) = Mapping!Edges(new) /\ IsFiniteSet(Mapping!Edges(old))
  <2>1. Len(old.route) \in Int
    <3>1. old.route \in Routes \cup {<< >>}
        BY MapType DEF Knows
    <3>2. Len(<< >>) = 0
        BY EmptySeq
    <3> QED
        BY <3>1, <3>2 DEF MappingParameters
  <2> QED
      BY <2>1, FS_Interval DEF Mapping!Edges
<1>5. Mapping!Overlaps(Mapping!Edges(old) \cap Mapping!Edges(new), Mapping!Edges(old))
    BY <1>4, Shares
<1> DEFINE changed == {c \in DOMAIN old.cells \cap DOMAIN new.cells :
                         Mapping!TopLabel(old.cells[c].labels) # Mapping!TopLabel(new.cells[c].labels)}
<1>6. changed = {}
  <2> SUFFICES ASSUME NEW c \in DOMAIN old.cells \cap DOMAIN new.cells
               PROVE  old.cells[c].labels = new.cells[c].labels
      OBVIOUS
  <2>1. /\ CellKnown(old.cells[c], old.review, c, input)
        /\ CellKnown(new.cells[c], new.review, c, input)
      BY UniqueLabels
  <2>2. Mapping!ToSet(old.cells[c].labels) = Mapping!ToSet(new.cells[c].labels)
    <3>1. Mapping!ToSet(old.cells[c].labels) = JoinOf(c, input)
        BY <2>1, LearntIsJoin DEF CellKnown
    <3>2. Mapping!ToSet(new.cells[c].labels) = JoinOf(c, input)
        BY <2>1, LearntIsJoin DEF CellKnown
    <3> QED
        BY <3>1, <3>2
  <2>3. Mapping!Written(old.cells[c].labels) = Mapping!Written(new.cells[c].labels)
      BY <2>2, WrittenBySet
  <2> QED
      BY <2>3 DEF Sorted
<1>7. ~(Mapping!Cardinality(changed) > MaxDelta)
  <2>1. Mapping!Cardinality(changed) = 0
      BY <1>6, FS_EmptySet, SameCardinality
  <2> QED
      BY <2>1 DEF MappingParameters
<1> HIDE DEF changed
<1> DEFINE failed == [
             metric_overlap_ratio |-> ~Mapping!Overlaps(old.metric \cap new.metric,
                 old.metric),
             route_overlap_ratio |-> ~Mapping!Overlaps(Mapping!Edges(old) \cap Mapping!Edges(new), Mapping!Edges(old)),
             label_changes |-> Mapping!Cardinality(changed) > MaxDelta,
             high_risk_delta |-> Mapping!Distance(Mapping!Cardinality(Mapping!HighRiskCells(old)),
                                          Mapping!Cardinality(Mapping!HighRiskCells(new))) > MaxDelta,
             review_queue_delta |-> Mapping!Distance(Len(old.review),
                 Len(new.review)) > MaxDelta]
<1>8. Mapping!Compare(old, new) = {f \in DOMAIN failed : failed[f]}
    BY DEF Mapping!Compare, changed
<1>9. ~failed["metric_overlap_ratio"]
    BY <1>3, Zenon
<1>11. ~failed["route_overlap_ratio"]
    BY <1>5, Zenon
<1>12. ~failed["label_changes"]
    BY <1>7, Zenon
<1>10. DOMAIN failed = {"metric_overlap_ratio", "route_overlap_ratio", "label_changes",
                        "high_risk_delta", "review_queue_delta"}
    OBVIOUS
<1> HIDE DEF failed
<1> QED
    BY <1>8, <1>9, <1>10, <1>11, <1>12

LEMMA InvAgrees ==
    ASSUME MappingParameters, MapInv
    PROVE  Mapping!RepeatPassAgrees
    BY FileKnown, SnapshotsAgree DEF MapInv, Mapping!RepeatPassAgrees

-----------------------------------------------------------------------------
(* A restart restores what was saved.                                      *)
LEMMA UntiedTopKept ==
    ASSUME NEW old \in Seq(Entries),
           NEW new \in Seq(Entries), Mapping!ToSet(old) = Mapping!ToSet(new)
    PROVE  Mapping!Tied(old) \/ Mapping!TopLabel(new) = Mapping!TopLabel(old)
<1>1. CASE old = << >>
  <2>1. new = << >>
      BY <1>1, EntriesOf
  <2> QED
      BY <1>1, <2>1
<1>2. CASE old # << >> /\ ~Mapping!Tied(old)
  <2>1. PICK e \in Mapping!ToSet(old) : e.confidence = Mapping!TopConfidence(old)
      BY <1>2, TopIsBest
  <2>2. PICK i \in DOMAIN old : old[i] = e
      BY DEF Mapping!ToSet
  <2>3. ASSUME NEW f \in Mapping!ToSet(old), f # e PROVE f.confidence < e.confidence
    <3>1. PICK j \in DOMAIN old : old[j] = f
        BY DEF Mapping!ToSet
    <3>2. f.confidence # e.confidence
        BY <1>2, <2>1, <2>2, <2>3, <3>1 DEF Mapping!Tied
    <3>3. f.confidence <= e.confidence
        BY <1>2, <2>1, TopIsBest
    <3>4. f \in Entries /\ e \in Entries
        BY EntriesOf
    <3>5. f.confidence \in Int /\ e.confidence \in Int
        BY <3>4, EntryType
    <3> QED
        BY <3>2, <3>3, <3>5
  <2>4. Leads(e, Mapping!ToSet(old))
      BY <2>3 DEF Leads
  <2>5. Mapping!TopLabel(old) = {e.label} /\ Mapping!TopLabel(new) = {e.label}
    <3>1. Mapping!TopLabel(old) = {e.label}
        BY <2>4, LeaderIsTop
    <3>2. Leads(e, Mapping!ToSet(new))
        BY <2>4
    <3>3. Mapping!TopLabel(new) = {e.label}
        BY <3>2, LeaderIsTop
    <3> QED
        BY <3>1, <3>3
  <2> QED
      BY <2>5
<1> QED
    BY <1>1, <1>2

LEMMA SnapshotRestores ==
    ASSUME MappingParameters, NEW s, NEW input, Knows(s, input),
           NEW routes \in RouteFiles,
           NEW m \in Mapping!LoadRoute(Mapping!FromSnapshot(Mapping!ToSnapshot(s)),
               routes)
    PROVE  Mapping!Restores(s, m)
<1> DEFINE n == Mapping!ToSnapshot(s)
<1>1. SnapshotOf(n, s) /\ Knows(n, input)
    BY SnapshotShape, SnapshotKnown
<1>2. m.metric = n.metric /\ m.cells = n.cells /\ m.review = n.review
    BY <1>1, RouteKnown DEF Mapping!FromSnapshot
<1> HIDE DEF n
<1>3. m.metric = s.metric /\ m.review = s.review /\ DOMAIN m.cells = DOMAIN s.cells
    BY <1>1, <1>2 DEF SnapshotOf
<1>4. ASSUME NEW c \in DOMAIN s.cells
      PROVE  /\ [m.cells[c] EXCEPT !.labels = << >>] = [s.cells[c] EXCEPT !.labels = << >>]
             /\ Mapping!Tied(s.cells[c].labels)
                    \/ Mapping!TopLabel(m.cells[c].labels) = Mapping!TopLabel(s.cells[c].labels)
  <2>1. SaysTheSame(m.cells[c], s.cells[c])
      BY <1>1, <1>2 DEF SnapshotOf
  <2>2. [m.cells[c] EXCEPT !.labels = << >>] = [s.cells[c] EXCEPT !.labels = << >>]
      BY <2>1 DEF SaysTheSame
  <2>3. s.cells[c] \in CellStates
      BY UniqueLabels
  <2>4. /\ s.cells[c].labels \in Seq(Entries) /\ m.cells[c].labels \in Seq(Entries)
        /\ Mapping!ToSet(s.cells[c].labels) = Mapping!ToSet(m.cells[c].labels)
      BY <2>1, <2>3 DEF CellStates, SaysTheSame
  <2>5. Mapping!Tied(s.cells[c].labels)
        \/ Mapping!TopLabel(m.cells[c].labels) = Mapping!TopLabel(s.cells[c].labels)
      BY <2>4, UntiedTopKept
  <2> QED
      BY <2>2, <2>5
<1> QED
    BY <1>3, <1>4 DEF Mapping!Restores

(* A node without a snapshot starts with what its route file holds.        *)
LEMMA EmptyRestores ==
    ASSUME MappingParameters, NEW routes \in RouteFiles,
           NEW m \in Mapping!LoadRoute(Mapping!EmptyMap, routes)
    PROVE  Mapping!Restores(Mapping!EmptyMap, m)
<1>1. /\ m.metric = Mapping!EmptyMap.metric /\ m.cells = Mapping!EmptyMap.cells
      /\ m.review = Mapping!EmptyMap.review
    BY EmptyIsKnown, RouteKnown
<1>2. DOMAIN Mapping!EmptyMap.cells = {}
    BY DEF Mapping!EmptyMap
<1> QED
    BY <1>1, <1>2 DEF Mapping!Restores

LEMMA StepRestores ==
    ASSUME MappingParameters, MapInv, [Mapping!Next]_(Mapping!vars)
    PROVE  \A s \in saved : phase = "down" /\ phase' = "up" =>
              Mapping!Restores(IF died_saving THEN Mapping!EmptyMap ELSE s, hd_map')
<1> SUFFICES ASSUME NEW s \in saved, phase = "down", phase' = "up"
             PROVE  Mapping!Restores(IF died_saving THEN Mapping!EmptyMap ELSE s, hd_map')
    OBVIOUS
<1>1. PICK routes \in RouteFiles : Mapping!Start(routes)
    BY DEF Mapping!Next, Mapping!vars, Mapping!OnCloud, Mapping!OnObservation,
       Mapping!BeginSave, Mapping!EndSave, Mapping!Crash, Mapping!Promote, Mapping!NewPass,
       Mapping!PutAway
<1>2. CASE ~died_saving
  <2>1. file = {Mapping!ToSnapshot(s)} /\ Knows(s, file_seen)
      BY <1>2 DEF MapInv
  <2>2. hd_map' \in Mapping!LoadRoute(Mapping!FromSnapshot(Mapping!ToSnapshot(s)), routes)
      BY <1>1, <2>1 DEF Mapping!Start
  <2>3. Mapping!Restores(s, hd_map')
      BY <2>1, <2>2, SnapshotRestores
  <2> QED
      BY <1>2, <2>3
<1>3. CASE died_saving
  <2>1. file = {}
      BY <1>3 DEF MapInv
  <2>2. hd_map' \in Mapping!LoadRoute(Mapping!EmptyMap, routes)
      BY <1>1, <2>1 DEF Mapping!Start
  <2>3. Mapping!Restores(Mapping!EmptyMap, hd_map')
      BY <2>2, EmptyRestores
  <2> QED
      BY <1>3, <2>3
<1> QED
    BY <1>2, <1>3 DEF MapInv

(* What the map knows of a cell is the best of what was observed, in any   *)
(* order and across restarts, and where the cost disagrees with the label  *)
(* of a confirmed cell a person is asked.                                  *)
THEOREM MapAlwaysKeepsInput ==
    ASSUME MappingParameters
    PROVE  Mapping!Spec => []MapKeepsInput
<1>1. Mapping!Spec => []MapInv
    BY MapInit, MapStep, PTL DEF Mapping!Spec
<1>2. MapInv => MapKeepsInput
    BY InvKeepsInput DEF MapKeepsInput
<1> QED
    BY <1>1, <1>2, PTL

(* Two passes that saw the same, on routes of one length, never differ in  *)
(* their labels, metric cells or edges, whatever the order and the crashes.*)
THEOREM RepeatedPassesAgree ==
    ASSUME MappingParameters
    PROVE  Mapping!Spec => []RepeatPassAgrees
<1>1. Mapping!Spec => []MapInv
    BY MapInit, MapStep, PTL DEF Mapping!Spec
<1>2. MapInv => RepeatPassAgrees
    BY InvAgrees DEF RepeatPassAgrees
<1> QED
    BY <1>1, <1>2, PTL

(* A node that starts again continues with its last whole save, but for    *)
(* which of two labels that tie is on top; and with nothing of its pass    *)
(* when a crash since then fell inside the write.                          *)
THEOREM RestartsRestore ==
    ASSUME MappingParameters
    PROVE  Mapping!Spec => RestartRestores
<1>1. Mapping!Spec => []MapInv
    BY MapInit, MapStep, PTL DEF Mapping!Spec
<1> DEFINE Restored ==
            \A s \in saved : phase = "down" /\ phase' = "up" =>
               Mapping!Restores(IF died_saving THEN Mapping!EmptyMap ELSE s, hd_map')
<1>2. ASSUME MapInv, [Mapping!Next]_(Mapping!vars) PROVE [Restored]_(Mapping!vars)
    BY <1>2, StepRestores
<1>3. Mapping!Spec => [][Restored]_(Mapping!vars)
    BY <1>1, <1>2, PTL DEF Mapping!Spec
<1> QED
    BY <1>3 DEF RestartRestores, Mapping!RestartRestores
=============================================================================
