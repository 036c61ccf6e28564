----------------------------- MODULE LaneProofs -----------------------------
(***************************************************************************)
(* The Fast lane and the log it writes, for any number of messages, lines, *)
(* generations and sentences: a GUIDE the rep heard is not said again, and *)
(* what Slow is told of it is true and stays.                              *)
(***************************************************************************)
EXTENDS Heard, SequenceTheorems, FiniteSetTheorems, TLAPS

-----------------------------------------------------------------------------
(* The queue of triggers. *)

Msgs == {"guide", "msg", "notice"} \X Nat
AskSet == [kind : Kinds \cup {"none"}, msg : SUBSET Msgs, acks : SUBSET Msgs,
           guides : SUBSET Nat, again : BOOLEAN]

(* A waiting trigger carries the GUIDE of a turn that was never heard.     *)
Carries(q, g) == \E i \in DOMAIN q : g \in q[i].guides

(* One of each kind waits, Slow messages apart, and a GUIDE is carried once.*)
OneOfEach(q) ==
    \A i, j \in DOMAIN q : i # j =>
        /\ q[i].kind = q[j].kind => q[i].kind = "slow_msg"
        /\ q[i].guides \cap q[j].guides = {}

Queue(q) == q \in Seq(AskSet) /\ OneOfEach(q)

LEMMA WithoutOne ==
    ASSUME NEW S, NEW q \in Seq(S), NEW i \in DOMAIN q
    PROVE  /\ Without(q, i) \in Seq(S) /\ Len(Without(q, i)) = Len(q) - 1
           /\ \A j \in DOMAIN Without(q, i) :
                 /\ Without(q, i)[j] = q[IF j < i THEN j ELSE j + 1]
                 /\ (IF j < i THEN j ELSE j + 1) \in DOMAIN q \ {i}
<1> DEFINE a == SubSeq(q, 1, i - 1)
           b == SubSeq(q, i + 1, Len(q))
           n == Len(q)
<1>1. n \in Nat /\ i \in 1..n /\ DOMAIN q = 1..n
  OBVIOUS
<1>2. a \in Seq(S) /\ Len(a) = i - 1 /\ \A j \in 1..i - 1 : a[j] = q[j]
  BY <1>1, SubSeqProperties
<1>3. b \in Seq(S) /\ Len(b) = n - i /\ \A j \in 1..n - i : b[j] = q[i + j]
  <2>1. CASE i = n
    <3>1. b = <<>>
      BY <1>1, <2>1, SubSeqEmpty
    <3> QED
      BY <1>1, <2>1, <3>1
  <2>2. CASE i # n
    <3>1. /\ i + 1 \in 1..n + 1 /\ n \in i..n
          /\ b \in Seq(S) /\ Len(b) = n - (i + 1) + 1
          /\ \A j \in 1..n - (i + 1) + 1 : b[j] = q[i + 1 + j - 1]
      BY <1>1, <2>2, SubSeqProperties
    <3>2. n - (i + 1) + 1 = n - i /\ \A j \in 1..n - i : i + 1 + j - 1 = i + j
      BY <1>1
    <3> QED
      BY <3>1, <3>2
  <2> QED
    BY <2>1, <2>2
<1> HIDE DEF a, b, n
<1>4. a \o b \in Seq(S) /\ Len(a \o b) = n - 1
  <2>1. a \o b \in Seq(S) /\ Len(a \o b) = Len(a) + Len(b)
    BY <1>2, <1>3, ConcatProperties
  <2> QED
    BY <1>1, <1>2, <1>3, <2>1
<1>5. \A j \in 1..n - 1 : (a \o b)[j] = q[IF j < i THEN j ELSE j + 1]
  <2> SUFFICES ASSUME NEW j \in 1..n - 1
               PROVE  (a \o b)[j] = q[IF j < i THEN j ELSE j + 1]
    OBVIOUS
  <2>1. (a \o b)[j] = IF j <= Len(a) THEN a[j] ELSE b[j - Len(a)]
    BY <1>1, <1>2, <1>3
  <2>2. CASE j < i
    BY <1>1, <1>2, <2>1, <2>2
  <2>3. CASE ~(j < i)
    <3>1. j - (i - 1) \in 1..n - i /\ i + (j - (i - 1)) = j + 1
      BY <1>1, <2>3
    <3>2. (a \o b)[j] = b[j - (i - 1)]
      BY <1>1, <1>2, <2>1, <2>3
    <3>3. b[j - (i - 1)] = q[j + 1]
      BY <1>3, <3>1
    <3> QED
      BY <2>3, <3>2, <3>3
  <2> QED
    BY <2>2, <2>3
<1>6. DOMAIN (a \o b) = 1..n - 1
  BY <1>1, <1>4
<1>7. \A j \in 1..n - 1 : (IF j < i THEN j ELSE j + 1) \in 1..n \ {i}
  BY <1>1
<1> QED
  BY <1>1, <1>4, <1>5, <1>6, <1>7 DEF Without, a, b, n

(* What is left when one is taken. *)
LEMMA QueueTaken ==
    ASSUME NEW q, Queue(q), NEW i \in DOMAIN q
    PROVE  /\ Queue(Without(q, i))
           /\ \A g : Carries(Without(q, i), g) <=> Carries(q, g) /\ g \notin q[i].guides
           /\ \A j \in DOMAIN Without(q, i) :
                 \E k \in DOMAIN q \ {i} : Without(q, i)[j] = q[k]
<1> DEFINE r == Without(q, i)
           At(j) == IF j < i THEN j ELSE j + 1
           n == Len(q)
<1>1. q \in Seq(AskSet) /\ n \in Nat /\ DOMAIN q = 1..n /\ i \in 1..n
  BY DEF Queue
<1>2. /\ r \in Seq(AskSet) /\ Len(r) = n - 1
      /\ \A j \in DOMAIN r : r[j] = q[At(j)] /\ At(j) \in DOMAIN q \ {i}
  BY <1>1, WithoutOne
<1>3. DOMAIN r = 1..n - 1
  BY <1>1, <1>2
<1> HIDE DEF r, n
<1>4. \A j, k \in DOMAIN r : j # k => At(j) # At(k)
  BY <1>1, <1>3
<1>5. \A k \in DOMAIN q \ {i} : \E j \in DOMAIN r : At(j) = k
  <2> SUFFICES ASSUME NEW k \in DOMAIN q \ {i} PROVE \E j \in DOMAIN r : At(j) = k
    OBVIOUS
  <2>1. CASE k < i
    <3>1. k \in DOMAIN r /\ At(k) = k
      BY <1>1, <1>3, <2>1
    <3> QED
      BY <3>1
  <2>2. CASE ~(k < i)
    <3>1. k - 1 \in DOMAIN r /\ At(k - 1) = k
      BY <1>1, <1>3, <2>2
    <3> QED
      BY <3>1
  <2> QED
    BY <2>1, <2>2
<1> HIDE DEF At
<1>6. OneOfEach(r)
  BY <1>2, <1>4 DEF Queue, OneOfEach
<1>7. \A g : Carries(r, g) <=> Carries(q, g) /\ g \notin q[i].guides
  <2>1. ASSUME NEW g, Carries(r, g)
        PROVE  Carries(q, g) /\ g \notin q[i].guides
    <3>1. PICK j \in DOMAIN r : g \in r[j].guides
      BY <2>1 DEF Carries
    <3>2. g \in q[At(j)].guides /\ At(j) \in DOMAIN q /\ At(j) # i
      BY <1>2, <3>1
    <3> QED
      BY <3>2 DEF Carries, Queue, OneOfEach
  <2>2. ASSUME NEW g, Carries(q, g), g \notin q[i].guides
        PROVE  Carries(r, g)
    <3>1. PICK k \in DOMAIN q \ {i} : g \in q[k].guides
      BY <2>2 DEF Carries
    <3>2. PICK j \in DOMAIN r : At(j) = k
      BY <1>5
    <3> QED
      BY <1>2, <3>1, <3>2 DEF Carries
  <2> QED
    BY <2>1, <2>2
<1> QED
  BY <1>2, <1>6, <1>7 DEF Queue, r

(* One more, of a kind that no other has and with GUIDEs none carries.     *)
LEMMA QueueJoined ==
    ASSUME NEW q, Queue(q), NEW a \in AskSet, NEW first,
           \A i \in DOMAIN q : q[i].kind = a.kind => a.kind = "slow_msg",
           \A g \in a.guides : ~Carries(q, g)
    PROVE  LET r == IF first THEN <<a>> \o q ELSE Append(q, a)
           IN  /\ Queue(r) /\ \A g : Carries(r, g) <=> Carries(q, g) \/ g \in a.guides
               /\ r # <<>> /\ \A j \in DOMAIN r : r[j] = a \/ \E k \in DOMAIN q : r[j] = q[k]
<1> DEFINE n == Len(q)
           r == IF first THEN <<a>> \o q ELSE Append(q, a)
           Of(j) == IF first THEN j - 1 ELSE j
           new == IF first THEN 1 ELSE n + 1
<1>1. q \in Seq(AskSet) /\ n \in Nat /\ DOMAIN q = 1..n
  BY DEF Queue
<1>2. /\ r \in Seq(AskSet) /\ DOMAIN r = 1..n + 1 /\ r[new] = a /\ new \in 1..n + 1
      /\ \A j \in 1..n + 1 : j # new => r[j] = q[Of(j)] /\ Of(j) \in DOMAIN q
  <2>1. CASE first
    <3>1. <<a>> \in Seq(AskSet) /\ Len(<<a>>) = 1 /\ <<a>>[1] = a
      OBVIOUS
    <3>2. r = <<a>> \o q /\ new = 1 /\ \A j : Of(j) = j - 1
      BY <2>1
    <3>3. r \in Seq(AskSet) /\ Len(r) = n + 1
      BY <1>1, <3>1, <3>2
    <3>4. \A j \in 1..n + 1 : r[j] = IF j <= 1 THEN <<a>>[j] ELSE q[j - 1]
      BY <1>1, <3>1, <3>2
    <3> HIDE DEF r, Of, new
    <3> QED
      BY <1>1, <3>1, <3>2, <3>3, <3>4
  <2>2. CASE ~first
    <3>1. r = Append(q, a) /\ new = n + 1 /\ \A j : Of(j) = j
      BY <2>2
    <3> QED
      BY <1>1, <3>1
  <2> QED
    BY <2>1, <2>2
<1>3. \A j, k \in 1..n + 1 : j # k /\ j # new /\ k # new => Of(j) # Of(k)
  BY <1>1
<1>4. \A k \in DOMAIN q : \E j \in 1..n + 1 : j # new /\ Of(j) = k
  <2> SUFFICES ASSUME NEW k \in DOMAIN q PROVE \E j \in 1..n + 1 : j # new /\ Of(j) = k
    OBVIOUS
  <2>1. CASE first
    <3>1. k + 1 \in 1..n + 1 /\ k + 1 # new /\ Of(k + 1) = k
      BY <1>1, <2>1
    <3> QED
      BY <3>1
  <2>2. CASE ~first
    <3>1. k \in 1..n + 1 /\ k # new /\ Of(k) = k
      BY <1>1, <2>2
    <3> QED
      BY <3>1
  <2> QED
    BY <2>1, <2>2
<1> HIDE DEF r, new, Of, n
<1>5. OneOfEach(r)
  <2> SUFFICES ASSUME NEW j \in DOMAIN r, NEW k \in DOMAIN r, j # k
               PROVE  /\ r[j].kind = r[k].kind => r[j].kind = "slow_msg"
                      /\ r[j].guides \cap r[k].guides = {}
    BY DEF OneOfEach
  <2>1. CASE j # new /\ k # new
    BY <1>2, <1>3, <2>1 DEF Queue, OneOfEach
  <2>2. CASE j = new
    BY <1>2, <2>2 DEF Carries
  <2>3. CASE k = new
    BY <1>2, <2>3 DEF Carries
  <2> QED
    BY <2>1, <2>2, <2>3
<1>6. \A g : Carries(r, g) <=> Carries(q, g) \/ g \in a.guides
  <2>1. ASSUME NEW g, Carries(r, g)
        PROVE  Carries(q, g) \/ g \in a.guides
    BY <1>2, <2>1 DEF Carries
  <2>2. ASSUME NEW g, Carries(q, g)
        PROVE  Carries(r, g)
    <3>1. PICK k \in DOMAIN q : g \in q[k].guides
      BY <2>2 DEF Carries
    <3>2. PICK j \in 1..n + 1 : j # new /\ Of(j) = k
      BY <1>4
    <3> QED
      BY <1>2, <3>1, <3>2 DEF Carries
  <2>3. ASSUME NEW g \in a.guides
        PROVE  Carries(r, g)
    BY <1>2 DEF Carries
  <2> QED
    BY <2>1, <2>2, <2>3
<1>7. r # <<>>
  <2>1. 1 \in DOMAIN r
    BY <1>1, <1>2
  <2> QED
    BY <2>1
<1> QED
  BY <1>2, <1>5, <1>6, <1>7 DEF Queue, r

LEMMA AddJoins ==
    ASSUME NEW q, Queue(q), NEW a \in AskSet, NEW first,
           \A g \in a.guides : ~Carries(q, g)
    PROVE  /\ Queue(Add(q, a, first)) /\ Add(q, a, first) # <<>>
           /\ \A g : Carries(Add(q, a, first), g) <=> Carries(q, g) \/ g \in a.guides
<1> DEFINE same == {i \in DOMAIN q : q[i].kind = a.kind /\ a.kind # "slow_msg"}
           new == [a EXCEPT !.acks = @ \cup UNION {q[i].acks : i \in same},
                            !.guides = @ \cup UNION {q[i].guides : i \in same}]
           rest == IF same = {} THEN q ELSE Without(q, CHOOSE i \in same : TRUE)
<1>1. Add(q, a, first) = IF first THEN <<new>> \o rest ELSE Append(rest, new)
  BY DEF Add
<1>2. q \in Seq(AskSet) /\ \A i \in DOMAIN q : q[i] \in AskSet
  BY DEF Queue
<1>3. /\ new \in AskSet /\ new.kind = a.kind
      /\ new.guides = a.guides \cup UNION {q[i].guides : i \in same}
  <2>1. UNION {q[i].acks : i \in same} \in SUBSET Msgs
    BY <1>2 DEF AskSet
  <2>2. UNION {q[i].guides : i \in same} \in SUBSET Nat
    BY <1>2 DEF AskSet
  <2> QED
    BY <2>1, <2>2 DEF AskSet
<1>4. /\ Queue(rest) /\ \A i \in DOMAIN rest : rest[i].kind = a.kind => a.kind = "slow_msg"
      /\ \A g : Carries(rest, g) <=> Carries(q, g) /\ g \notin UNION {q[i].guides : i \in same}
  <2>1. CASE same = {}
    <3>1. rest = q
      BY <2>1
    <3>2. \A i \in DOMAIN q : q[i].kind = a.kind => a.kind = "slow_msg"
      BY <2>1
    <3>3. UNION {q[i].guides : i \in same} = {}
      BY <2>1
    <3> HIDE DEF rest, same
    <3> QED
      BY <3>1, <3>2, <3>3
  <2>2. CASE same # {}
    <3> DEFINE k == CHOOSE i \in same : TRUE
    <3>1. k \in same
      BY <2>2
    <3>2. k \in DOMAIN q /\ q[k].kind = a.kind /\ a.kind # "slow_msg"
      BY <3>1
    <3>3. \A i \in DOMAIN q : i # k => q[i].kind # a.kind
      BY <3>2 DEF Queue, OneOfEach
    <3>4. rest = Without(q, k)
      BY <2>2
    <3>5. same = {k}
      BY <3>2, <3>3
    <3> HIDE DEF k, same, rest
    <3>6. UNION {q[i].guides : i \in same} = q[k].guides
      BY <3>5
    <3> QED
      BY <3>2, <3>3, <3>4, <3>6, QueueTaken
  <2> QED
    BY <2>1, <2>2
<1>5. \A g \in new.guides : ~Carries(rest, g)
  BY <1>3, <1>4
<1>6. \A g : g \in UNION {q[i].guides : i \in same} => Carries(q, g)
  BY DEF Carries
<1> HIDE DEF same, new, rest
<1>7. /\ Queue(Add(q, a, first)) /\ Add(q, a, first) # <<>>
      /\ \A g : Carries(Add(q, a, first), g) <=> Carries(rest, g) \/ g \in new.guides
  <2> DEFINE r == IF first THEN <<new>> \o rest ELSE Append(rest, new)
  <2>1. Queue(rest) /\ new \in AskSet
    BY <1>3, <1>4
  <2>2. \A i \in DOMAIN rest : rest[i].kind = new.kind => new.kind = "slow_msg"
    BY <1>3, <1>4
  <2>3. Queue(r) /\ r # <<>> /\ \A g : Carries(r, g) <=> Carries(rest, g) \/ g \in new.guides
    BY <1>5, <2>1, <2>2, QueueJoined
  <2>4. r = Add(q, a, first)
    BY <1>1
  <2> HIDE DEF r
  <2> QED
    BY <2>3, <2>4
<1> QED
  BY <1>3, <1>4, <1>6, <1>7

-----------------------------------------------------------------------------
(* A GUIDE is voiced by one.                                               *)

LaneTypes ==
    /\ Queue(pending) /\ ask \in AskSet /\ newest \in Nat
    /\ phase \in {"idle", "asked", "floor", "speaking", "loop"}
    /\ voices \in SUBSET (1..newest) /\ said \in SUBSET (1..newest)
    /\ sent \in [msgs : Nat, notices : Nat, lines : Nat, epochs : Nat]
    /\ unvoiced \in SUBSET Msgs

(* Whose turn it is to voice a GUIDE: it waits unvoiced, or a trigger       *)
(* carries it, or the generation at work; once heard, nobody's.            *)
Tokens ==
    /\ \A g : g \in 1..newest \/ (Guide(g) \notin unvoiced /\ ~Carries(pending, g)
                                    /\ g \notin ask.guides)
    /\ \A g : Carries(pending, g) => Guide(g) \notin unvoiced /\ g \notin said
    /\ \A g \in said : Guide(g) \notin unvoiced

Serving ==
    /\ phase = "asked" =>
          /\ \A g \in ask.guides :
                Guide(g) \notin unvoiced /\ g \notin said /\ ~Carries(pending, g)
          /\ \A g \in voices : Guide(g) \in unvoiced \/ g \in ask.guides
    /\ phase \in {"floor", "speaking"} =>
          \A g \in voices :
             Guide(g) \notin unvoiced /\ g \notin said /\ ~Carries(pending, g)

LaneInv == LaneTypes /\ Tokens /\ Serving

LEMMA AskTypes == \A kind \in Kinds \cup {"none"} :
    Ask(kind) \in AskSet /\ Ask(kind).guides = {} /\ Ask(kind).kind = kind
BY DEF Ask, AskSet

(* A trigger without GUIDEs comes, and nothing else changes that matters.  *)
LEMMA Triggered ==
    ASSUME LaneInv, NEW a \in AskSet, a.guides = {},
           pending' \in {pending, Add(pending, a, FALSE)},
           ask' = ask, newest' = newest, phase' = phase, voices' = voices, said' = said,
           sent' \in [msgs : Nat, notices : Nat, lines : Nat, epochs : Nat],
           unvoiced' \in SUBSET Msgs, \A g : Guide(g) \in unvoiced' <=> Guide(g) \in unvoiced
    PROVE  LaneInv'
<1>1. Queue(pending') /\ \A g : Carries(pending', g) <=> Carries(pending, g)
  <2>1. Queue(pending)
    BY DEF LaneInv, LaneTypes
  <2>2. CASE pending' = pending
    BY <2>1, <2>2
  <2>3. CASE pending' = Add(pending, a, FALSE)
    <3>1. /\ Queue(Add(pending, a, FALSE))
          /\ \A g : Carries(Add(pending, a, FALSE), g) <=> Carries(pending, g) \/ g \in a.guides
      BY <2>1, AddJoins
    <3> QED
      BY <2>3, <3>1
  <2> QED
    BY <2>2, <2>3
<1>2. LaneTypes'
  BY <1>1 DEF LaneInv, LaneTypes, Queue, OneOfEach
<1>3. Tokens'
  BY <1>1 DEF LaneInv, Tokens, Carries, Guide
<1>4. Serving'
  BY <1>1 DEF LaneInv, Serving, Carries, Guide
<1> QED
  BY <1>2, <1>3, <1>4 DEF LaneInv

LEMMA LaneInit == Init => LaneInv
<1> SUFFICES ASSUME Init PROVE LaneInv
  OBVIOUS
<1>1. Queue(pending) /\ \A g : ~Carries(pending, g)
  BY DEF Init, Queue, OneOfEach, Carries
<1>2. LaneTypes
  BY <1>1, AskTypes DEF Init, LaneTypes, NoAsk
<1>3. Tokens /\ Serving
  BY <1>1, AskTypes DEF Init, Tokens, Serving, NoAsk
<1> QED
  BY <1>2, <1>3 DEF LaneInv

-----------------------------------------------------------------------------

(* A bounded set of numbers has a least and a greatest member: its initial *)
(* parts are finite sets, one of which has no smaller one in it.           *)
LEMMA Least ==
    ASSUME NEW n \in Nat, NEW S \in SUBSET (0..n), S # {}
    PROVE  \E x \in S : \A y \in S : x <= y
<1> DEFINE U == 0..n
           R == StrictSubsetOrdering(U)
           T == {S \cap (0..x) : x \in S}
<1>1. IsWellFoundedOn(R, FiniteSubsetsOf(U))
  BY FS_StrictSubsetOrderingWellFounded
<1>2. T \subseteq FiniteSubsetsOf(U) /\ T # {}
  <2>1. IsFiniteSet(U)
    BY FS_Interval
  <2>2. \A t \in T : t \subseteq U
    OBVIOUS
  <2>3. \A t \in T : t \in SUBSET U /\ IsFiniteSet(t)
    BY <2>1, <2>2, FS_Subset
  <2> QED
    BY <2>3 DEF FiniteSubsetsOf
<1> HIDE DEF R, T
<1>3. PICK t \in T : \A s \in T : <<s, t>> \notin R
  BY <1>1, <1>2, WFMin
<1>4. PICK x \in S : t = S \cap (0..x)
  BY DEF T
<1>5. ASSUME NEW y \in S, y < x
      PROVE  FALSE
  <2> DEFINE s == S \cap (0..y)
  <2>1. x \in Nat /\ y \in Nat
    OBVIOUS
  <2>2. x \in t /\ x \notin s
    BY <1>4, <1>5, <2>1
  <2>3. s \subseteq t /\ s # t
    BY <1>4, <1>5, <2>1, <2>2
  <2>4. s \in SUBSET U /\ t \in SUBSET U
    BY <1>4
  <2>5. s \in T
    BY DEF T
  <2> HIDE DEF s, U
  <2>6. <<s, t>> \in R
    BY <2>3, <2>4 DEF R, StrictSubsetOrdering
  <2> QED
    BY <1>3, <2>5, <2>6
<1>6. \A y \in S : x <= y
  <2>1. TAKE y \in S
  <2>2. ~(y < x) /\ x \in Int /\ y \in Int
    BY <1>5
  <2> QED
    BY <2>2
<1> QED
  BY <1>6

LEMMA Greatest ==
    ASSUME NEW n \in Nat, NEW S \in SUBSET (0..n), S # {}
    PROVE  \E x \in S : \A y \in S : x >= y
<1> DEFINE T == {n - x : x \in S}
<1>1. T \in SUBSET (0..n)
  OBVIOUS
<1>2. T # {}
  OBVIOUS
<1> HIDE DEF T
<1>3. PICK t \in T : \A y \in T : t <= y
  BY <1>1, <1>2, Least
<1>4. PICK x \in S : t = n - x
  BY DEF T
<1>5. \A y \in S : n - y \in T
  BY DEF T
<1>6. \A y \in S : n - x <= n - y
  BY <1>3, <1>4, <1>5
<1>7. \A y \in S : x >= y
  <2>1. TAKE y \in S
  <2>2. x \in Int /\ y \in Int /\ n - x <= n - y
    BY <1>6
  <2> QED
    BY <2>2
<1> QED
  BY <1>7

LEMMA MinIn ==
    ASSUME NEW n \in Nat, NEW S \in SUBSET (0..n), S # {}
    PROVE  Min(S) \in S /\ \A y \in S : Min(S) <= y
<1>1. \E x \in S : \A y \in S : x <= y
  BY Least
<1> QED
  BY <1>1 DEF Min

LEMMA MaxIn ==
    ASSUME NEW n \in Nat, NEW S \in SUBSET (0..n), S # {}
    PROVE  Max(S) \in S /\ \A y \in S : Max(S) >= y
<1>1. \E x \in S : \A y \in S : x >= y
  BY Greatest
<1> QED
  BY <1>1 DEF Max

(* The one served is in the queue. *)
LEMMA FirstWaits == ASSUME NEW q \in Seq(AskSet), q # <<>> PROVE First(q) \in DOMAIN q
<1> DEFINE urgent == {i \in DOMAIN q : q[i].kind \in URGENT}
<1>1. Len(q) \in Nat /\ Len(q) # 0 /\ DOMAIN q = 1..Len(q)
  OBVIOUS
<1>2. CASE urgent = {}
  BY <1>1, <1>2 DEF First
<1>3. CASE urgent # {}
  <2>1. urgent \in SUBSET (0..Len(q))
    BY <1>1
  <2>2. First(q) = CHOOSE i \in urgent : \A j \in urgent : i <= j
    BY <1>3 DEF First
  <2> HIDE DEF urgent
  <2>3. \E i \in urgent : \A j \in urgent : i <= j
    BY <1>1, <1>3, <2>1, Least
  <2>4. First(q) \in urgent
    BY <2>2, <2>3
  <2> QED
    BY <2>4 DEF urgent
<1> QED
  BY <1>2, <1>3

-----------------------------------------------------------------------------
(* Each action. *)

LEMMA TriggersKeep == ASSUME LaneInv, Triggers PROVE LaneInv'
<1> USE DEF generation, memory
<1>1. CASE RepLine
  <2>1. Ask("rep_spoke") \in AskSet /\ Ask("rep_spoke").guides = {}
    BY AskTypes DEF Kinds, URGENT
  <2> QED
    BY <1>1, <2>1, Triggered DEF RepLine, LaneInv, LaneTypes
<1>2. CASE UserMsg
  <2>1. Ask("user_msg") \in AskSet /\ Ask("user_msg").guides = {}
    BY AskTypes DEF Kinds, URGENT
  <2> QED
    BY <1>2, <2>1, Triggered DEF UserMsg, LaneInv, LaneTypes
<1>3. CASE Guidance
  <2>1. Ask("guidance") \in AskSet /\ Ask("guidance").guides = {} /\ Queue(pending)
    BY AskTypes DEF Kinds, URGENT, LaneInv, LaneTypes
  <2>2. Queue(pending') /\ \A g : Carries(pending', g) <=> Carries(pending, g)
    <3>1. CASE closed
      BY <1>3, <2>1, <3>1 DEF Guidance
    <3>2. CASE ~closed
      <4>1. pending' = Add(pending, Ask("guidance"), FALSE)
        BY <1>3, <3>2 DEF Guidance
      <4> QED
        BY <2>1, <4>1, AddJoins
    <3> QED
      BY <3>1, <3>2
  <2>3. newest \in Nat /\ newest' = newest + 1 /\ 1..newest' = 1..newest \cup {newest'}
    BY <1>3 DEF Guidance, LaneInv, LaneTypes
  <2>4. \A g : Guide(g) \in unvoiced' <=> Guide(g) \in unvoiced \/ g = newest'
    BY <1>3 DEF Guidance, Guide
  <2>5. LaneTypes'
    <3>1. Guide(newest') \in Msgs
      BY <2>3 DEF Guide, Msgs
    <3>2. unvoiced' \in SUBSET Msgs
      BY <1>3, <3>1 DEF Guidance, LaneInv, LaneTypes
    <3>3. voices' \in SUBSET (1..newest') /\ said' \in SUBSET (1..newest')
      BY <1>3, <2>3 DEF Guidance, LaneInv, LaneTypes
    <3>4. ask' \in AskSet /\ phase' = phase /\ sent' = sent /\ newest' \in Nat
      BY <1>3, <2>3 DEF Guidance, LaneInv, LaneTypes
    <3>5. Queue(pending)'
      BY <2>2 DEF Queue, OneOfEach
    <3>6. /\ phase \in {"idle", "asked", "floor", "speaking", "loop"}
          /\ sent \in [msgs : Nat, notices : Nat, lines : Nat, epochs : Nat]
      BY DEF LaneInv, LaneTypes
    <3> QED
      BY <3>2, <3>3, <3>4, <3>5, <3>6 DEF LaneTypes
  <2>6. newest' \notin 1..newest
    BY <2>3
  <2>7. newest' \notin ask.guides /\ ~Carries(pending, newest') /\ newest' \notin said
        /\ newest' \notin voices
    BY <2>6 DEF LaneInv, LaneTypes, Tokens
  <2>8. Tokens'
    <3>1. ask' = ask /\ said' = said
      BY <1>3 DEF Guidance
    <3>2. \A g : g \in 1..newest' \/ (Guide(g) \notin unvoiced'
                    /\ ~Carries(pending', g) /\ g \notin ask.guides)
      BY <2>2, <2>3, <2>4 DEF LaneInv, Tokens
    <3>3. /\ \A g : Carries(pending', g) => Guide(g) \notin unvoiced' /\ g \notin said
          /\ \A g \in said : Guide(g) \notin unvoiced'
      BY <2>2, <2>4, <2>7 DEF LaneInv, Tokens
    <3> QED
      BY <3>1, <3>2, <3>3 DEF Tokens, Carries, Guide
  <2>9. Serving'
    BY <1>3, <2>2, <2>4, <2>7 DEF Guidance, LaneInv, Serving, Carries, Guide
  <2> QED
    BY <2>5, <2>8, <2>9 DEF LaneInv
<1>4. CASE SlowMessage
  <2> DEFINE m == <<"msg", sent'.msgs>>
             a == [Ask("slow_msg") EXCEPT !.msg = {m}]
  <2>1. sent \in [msgs : Nat, notices : Nat, lines : Nat, epochs : Nat]
    BY DEF LaneInv, LaneTypes
  <2>2. /\ sent' \in [msgs : Nat, notices : Nat, lines : Nat, epochs : Nat]
        /\ sent'.msgs \in Nat
    BY <1>4, <2>1 DEF SlowMessage
  <2>3. m \in Msgs /\ \A g : Guide(g) # m
    BY <2>2 DEF Msgs, Guide
  <2>4. a \in AskSet /\ a.guides = {}
    BY <2>3 DEF Ask, AskSet, Kinds
  <2>5. unvoiced' = unvoiced \cup {m} /\ pending' = Add(pending, a, FALSE)
    BY <1>4 DEF SlowMessage
  <2>6. unvoiced' \in SUBSET Msgs /\ \A g : Guide(g) \in unvoiced' <=> Guide(g) \in unvoiced
    BY <2>3, <2>5 DEF LaneInv, LaneTypes
  <2> HIDE DEF m, a
  <2> QED
    BY <1>4, <2>2, <2>4, <2>5, <2>6, Triggered DEF SlowMessage
<1>5. CASE Notice
  <2> DEFINE m == <<"notice", sent'.notices>>
             a == [Ask("approval_card") EXCEPT !.acks = {m}]
  <2>1. sent \in [msgs : Nat, notices : Nat, lines : Nat, epochs : Nat]
    BY DEF LaneInv, LaneTypes
  <2>2. /\ sent' \in [msgs : Nat, notices : Nat, lines : Nat, epochs : Nat]
        /\ sent'.notices \in Nat
    BY <1>5, <2>1 DEF Notice
  <2>3. m \in Msgs /\ \A g : Guide(g) # m
    BY <2>2 DEF Msgs, Guide
  <2>4. a \in AskSet /\ a.guides = {}
    BY <2>3 DEF Ask, AskSet, Kinds
  <2>5. unvoiced' = unvoiced \cup {m} /\ pending' = Add(pending, a, FALSE)
    BY <1>5 DEF Notice
  <2>6. unvoiced' \in SUBSET Msgs /\ \A g : Guide(g) \in unvoiced' <=> Guide(g) \in unvoiced
    BY <2>3, <2>5 DEF LaneInv, LaneTypes
  <2> HIDE DEF m, a
  <2> QED
    BY <1>5, <2>2, <2>4, <2>5, <2>6, Triggered DEF Notice
<1>6. CASE CardDecided \/ EpochMoves \/ VerbatimHeard \/ Closes
  <2>1. /\ pending' = pending /\ ask' = ask /\ newest' = newest /\ phase' = phase
        /\ voices' = voices /\ said' = said /\ unvoiced' = unvoiced
    BY <1>6 DEF CardDecided, EpochMoves, VerbatimHeard, Closes
  <2>2. sent' \in [msgs : Nat, notices : Nat, lines : Nat, epochs : Nat]
    BY <1>6 DEF CardDecided, EpochMoves, VerbatimHeard, Closes, LaneInv, LaneTypes
  <2>3. NoAsk \in AskSet /\ NoAsk.guides = {}
    BY AskTypes DEF NoAsk
  <2> QED
    BY <2>1, <2>2, <2>3, Triggered DEF LaneInv, LaneTypes
<1> QED
  BY <1>1, <1>2, <1>3, <1>4, <1>5, <1>6 DEF Triggers

LEMMA ServesKeeps == ASSUME LaneInv, Serves PROVE LaneInv'
<1> USE DEF memory
<1> DEFINE i == First(pending)
           a == pending[i]
<1>1. Queue(pending) /\ pending # <<>> /\ pending \in Seq(AskSet)
  BY DEF Serves, LaneInv, LaneTypes, Queue
<1>2. i \in DOMAIN pending /\ a \in AskSet
  BY <1>1, FirstWaits
<1>3. pending' = Without(pending, i)
  BY DEF Serves
<1> HIDE DEF i
<1>4. /\ Queue(pending')
      /\ \A g : Carries(pending', g) <=> Carries(pending, g) /\ g \notin a.guides
  BY <1>1, <1>2, <1>3, QueueTaken
<1>5. \A g \in a.guides : Carries(pending, g)
  BY <1>2 DEF Carries
<1>6. UNCHANGED <<newest, said, unvoiced, sent>>
  BY DEF Serves
<1>7. CASE Moot(a)
  <2>1. phase' \in {"idle", "loop"} /\ ask' = ask /\ voices' = voices
    BY <1>7 DEF Serves, i
  <2>2. LaneTypes'
    BY <1>4, <1>6, <2>1 DEF LaneInv, LaneTypes, Queue, OneOfEach
  <2>3. Tokens'
    BY <1>4, <1>6, <2>1 DEF LaneInv, Tokens, Carries, Guide
  <2>4. Serving'
    BY <2>1 DEF Serving
  <2> QED
    BY <2>2, <2>3, <2>4 DEF LaneInv
<1>8. CASE ~Moot(a)
  <2>1. phase' = "asked" /\ ask' = a /\ voices' = Voices(a)
    BY <1>8 DEF Serves, i
  <2> HIDE DEF a
  <2>2. voices' \subseteq 1..newest
        /\ \A g \in voices' : Guide(g) \in unvoiced \/ g \in a.guides
    BY <1>5, <2>1 DEF Voices, LaneInv, Tokens
  <2>3. LaneTypes'
    BY <1>2, <1>4, <1>6, <2>1, <2>2 DEF LaneInv, LaneTypes, Queue, OneOfEach
  <2>4. Tokens'
    BY <1>4, <1>5, <1>6, <2>1 DEF LaneInv, Tokens, Carries, Guide
  <2>5. Serving'
    BY <1>4, <1>5, <1>6, <2>1, <2>2 DEF LaneInv, Tokens, Serving, Carries, Guide
  <2> QED
    BY <2>3, <2>4, <2>5 DEF LaneInv
<1> QED
  BY <1>7, <1>8

(* The generation ends: nobody voices anything. *)
LEMMA Ended ==
    ASSUME LaneInv, Ends, Queue(pending'),
           \A g : Carries(pending', g) => Carries(pending, g) \/ g \in ask.guides
                                             \/ g \in voices,
           \A g : Carries(pending', g) => Guide(g) \notin unvoiced' /\ g \notin said',
           \A g : g \in said' => g \in said \/ g \in voices,
           \A g \in said' : Guide(g) \notin unvoiced', unvoiced' \subseteq unvoiced,
           newest' = newest, sent' = sent
    PROVE  LaneInv'
<1>1. phase' \in {"idle", "loop"} /\ ask' = NoAsk /\ voices' = {}
  BY DEF Ends
<1>2. NoAsk \in AskSet /\ NoAsk.guides = {}
  BY AskTypes DEF NoAsk
<1>3. LaneTypes'
  BY <1>1, <1>2 DEF LaneInv, LaneTypes, Queue, OneOfEach, NoAsk, Ask
<1>4. Tokens'
  <2>1. \A g : g \in 1..newest \/ (Guide(g) \notin unvoiced' /\ ~Carries(pending', g))
    BY DEF LaneInv, LaneTypes, Tokens
  <2> QED
    BY <1>1, <1>2, <2>1 DEF Tokens, Carries, Guide
<1>5. Serving'
  BY <1>1 DEF Serving
<1> QED
  BY <1>3, <1>4, <1>5 DEF LaneInv

LEMMA StaleEpochKeeps == ASSUME LaneInv, StaleEpoch PROVE LaneInv'
<1> USE DEF memory
<1> DEFINE a == [ask EXCEPT !.again = TRUE]
<1>1. Queue(pending) /\ ask \in AskSet
  BY DEF LaneInv, LaneTypes
<1>2. a \in AskSet /\ a.guides = ask.guides
  BY <1>1 DEF AskSet
<1>3. /\ \A g \in ask.guides :
            Guide(g) \notin unvoiced /\ g \notin said /\ ~Carries(pending, g)
      /\ Ends /\ UNCHANGED <<newest, said, unvoiced, sent>>
  BY DEF StaleEpoch, LaneInv, Serving
<1>4. pending' = pending \/ pending' = Add(pending, a, TRUE)
  BY DEF StaleEpoch, Again
<1>5. Queue(pending') /\ \A g : Carries(pending', g) => Carries(pending, g) \/ g \in ask.guides
  <2>1. CASE pending' = pending
    BY <1>1, <2>1
  <2>2. CASE pending' = Add(pending, a, TRUE)
    BY <1>1, <1>2, <1>3, <2>2, AddJoins
  <2> QED
    BY <1>4, <2>1, <2>2
<1>6. \A g : Carries(pending', g) => Guide(g) \notin unvoiced' /\ g \notin said'
  BY <1>3, <1>5 DEF LaneInv, Tokens
<1>7. \A g \in said' : Guide(g) \notin unvoiced'
  BY <1>3 DEF LaneInv, Tokens
<1> QED
  BY <1>3, <1>5, <1>6, <1>7, Ended

LEMMA TurnedKeeps ==
    ASSUME LaneInv, NEW acts \in BOOLEAN, NEW speaks \in BOOLEAN, NEW h \in BOOLEAN,
           Turned(acts, speaks, h)
    PROVE  LaneInv'
<1> DEFINE empty == voices # {} /\ ~acts
           again == IF empty THEN (voices \ ask.guides) \ retried ELSE {}
           now   == IF empty THEN {} ELSE voices
<1>1. /\ phase = "asked" /\ now \subseteq voices /\ newest' = newest /\ said' = said
      /\ sent' = sent
      /\ pending' = pending \/ pending' = Add(pending, Ask("guidance"), FALSE)
      /\ unvoiced' = unvoiced \ ({Guide(g) : g \in now} \cup ask.msg \cup ask.acks)
  BY DEF Turned
<1>2. \/ speaks /\ phase' = "floor" /\ voices' = now /\ ask' = ask
      \/ ~speaks /\ Ends
  BY DEF Turned
<1> HIDE DEF now, again, empty
<1>3. Ask("guidance") \in AskSet /\ Ask("guidance").guides = {} /\ Queue(pending)
  BY AskTypes DEF Kinds, LaneInv, LaneTypes
<1>4. Queue(pending') /\ \A g : Carries(pending', g) <=> Carries(pending, g)
  <2>1. CASE pending' = pending
    BY <1>3, <2>1
  <2>2. CASE pending' = Add(pending, Ask("guidance"), FALSE)
    BY <1>3, <2>2, AddJoins
  <2> QED
    BY <1>1, <2>1, <2>2
<1>5. unvoiced' \subseteq unvoiced /\ \A g \in now : Guide(g) \notin unvoiced'
  BY <1>1
<1>6. \A g : Carries(pending', g) => Guide(g) \notin unvoiced' /\ g \notin said'
  BY <1>1, <1>4, <1>5 DEF LaneInv, Tokens
<1>7. \A g \in said' : Guide(g) \notin unvoiced'
  BY <1>1, <1>5 DEF LaneInv, Tokens
<1>8. CASE Ends
  BY <1>1, <1>4, <1>5, <1>6, <1>7, <1>8, Ended
<1>9. CASE phase' = "floor" /\ voices' = now /\ ask' = ask
  <2>1. LaneTypes'
    BY <1>1, <1>4, <1>5, <1>9 DEF LaneInv, LaneTypes, Queue, OneOfEach
  <2>2. Tokens'
    <3>1. \A g : g \in 1..newest \/ (Guide(g) \notin unvoiced' /\ ~Carries(pending', g)
                                       /\ g \notin ask.guides)
      BY <1>4, <1>5 DEF LaneInv, Tokens
    <3> QED
      BY <1>1, <1>6, <1>7, <1>9, <3>1 DEF Tokens, Carries, Guide
  <2>3. \A g \in now : Guide(g) \notin unvoiced' /\ g \notin said /\ ~Carries(pending, g)
    BY <1>1, <1>5 DEF LaneInv, Tokens, Serving
  <2>4. Serving'
    BY <1>1, <1>4, <1>9, <2>3 DEF Serving, Carries, Guide
  <2> QED
    BY <2>1, <2>2, <2>4 DEF LaneInv
<1> QED
  BY <1>2, <1>8, <1>9

LEMMA StaleFloorKeeps == ASSUME LaneInv, StaleFloor PROVE LaneInv'
<1> USE DEF memory
<1> DEFINE a == [ask EXCEPT !.guides = voices, !.again = TRUE]
<1>1. Queue(pending) /\ ask \in AskSet /\ voices \in SUBSET Nat
  BY DEF LaneInv, LaneTypes
<1>2. a \in AskSet /\ a.guides = voices
  BY <1>1 DEF AskSet
<1>3. /\ \A g \in voices :
            Guide(g) \notin unvoiced /\ g \notin said /\ ~Carries(pending, g)
      /\ Ends /\ UNCHANGED <<newest, said, unvoiced, sent>>
      /\ pending' = Add(pending, a, TRUE)
  BY DEF StaleFloor, LaneInv, Serving
<1> HIDE DEF a
<1>4. Queue(pending') /\ \A g : Carries(pending', g) => Carries(pending, g) \/ g \in voices
  BY <1>1, <1>2, <1>3, AddJoins
<1>5. \A g : Carries(pending', g) => Guide(g) \notin unvoiced' /\ g \notin said'
  BY <1>3, <1>4 DEF LaneInv, Tokens
<1>6. \A g \in said' : Guide(g) \notin unvoiced'
  BY <1>3 DEF LaneInv, Tokens
<1> QED
  BY <1>3, <1>4, <1>5, <1>6, Ended

LEMMA TakesFloorKeeps == ASSUME LaneInv, TakesFloor PROVE LaneInv'
<1>1. /\ UNCHANGED <<pending, ask, voices, newest, said, unvoiced, sent>>
      /\ phase = "floor" /\ phase' = "speaking"
  BY DEF TakesFloor, memory
<1>2. LaneTypes'
  BY <1>1 DEF LaneInv, LaneTypes, Queue, OneOfEach
<1>3. Tokens'
  BY <1>1 DEF LaneInv, Tokens, Carries, Guide
<1>4. Serving'
  BY <1>1 DEF LaneInv, Serving, Carries, Guide
<1> QED
  BY <1>2, <1>3, <1>4 DEF LaneInv

LEMMA SpokenKeeps == ASSUME LaneInv, Spoken \/ Cut PROVE LaneInv'
<1>1. /\ pending' = pending /\ Ends /\ UNCHANGED <<newest, unvoiced, sent>>
      /\ said' = said \cup voices \/ said' = said
      /\ \A g \in voices : Guide(g) \notin unvoiced /\ ~Carries(pending, g)
  BY DEF Spoken, Cut, memory, LaneInv, Serving
<1>2. Queue(pending')
  BY <1>1 DEF LaneInv, LaneTypes
<1>3. \A g : Carries(pending', g) => Guide(g) \notin unvoiced' /\ g \notin said'
  BY <1>1 DEF LaneInv, Tokens
<1>4. \A g \in said' : Guide(g) \notin unvoiced'
  BY <1>1 DEF LaneInv, Tokens
<1> QED
  BY <1>1, <1>2, <1>3, <1>4, Ended

LEMMA LaneStep == LaneInv /\ [Next]_vars => LaneInv'
<1> SUFFICES ASSUME LaneInv, [Next]_vars PROVE LaneInv'
  OBVIOUS
<1>1. CASE Triggers
  BY <1>1, TriggersKeep
<1>2. CASE Run
  <2>1. CASE Turns
    BY <2>1, TurnedKeeps DEF Turns
  <2> QED
    BY <1>2, <2>1, ServesKeeps, StaleEpochKeeps, StaleFloorKeeps, TakesFloorKeeps,
       SpokenKeeps DEF Run
<1>3. CASE UNCHANGED vars
  <2>1. UNCHANGED <<pending, ask, voices, newest, said, unvoiced, sent, phase>>
    BY <1>3 DEF vars
  <2>2. LaneTypes'
    BY <2>1 DEF LaneInv, LaneTypes, Queue, OneOfEach
  <2>3. Tokens'
    BY <2>1 DEF LaneInv, Tokens, Carries, Guide
  <2>4. Serving'
    BY <2>1 DEF LaneInv, Serving, Carries, Guide
  <2> QED
    BY <2>2, <2>3, <2>4 DEF LaneInv
<1> QED
  BY <1>1, <1>2, <1>3 DEF Next

LEMMA LaneSafe == LaneInv => GuideHeardOnce
BY DEF LaneInv, Serving, GuideHeardOnce

(* A GUIDE the rep heard whole is not voiced by a turn that takes the      *)
(* floor later (kernel/lanes.py, _said), for any number of GUIDEs, lines   *)
(* and re-runs.                                                            *)
THEOREM HeardOnce == Spec => []GuideHeardOnce
<1>1. Spec => []LaneInv
  BY LaneInit, LaneStep, PTL DEF Spec
<1> QED
  BY <1>1, LaneSafe, PTL

-----------------------------------------------------------------------------
(* What a lane owes is kept.                                               *)

Has(q, m) == \E i \in DOMAIN q : m \in q[i].msg

(* Only a Slow message's own trigger carries it. *)
Addressed(q) == \A i \in DOMAIN q : q[i].msg # {} => q[i].kind = "slow_msg"

LEMMA WithoutHas ==
    ASSUME NEW q \in Seq(AskSet), NEW i \in DOMAIN q
    PROVE  /\ \A j \in DOMAIN Without(q, i) : \E k \in DOMAIN q : Without(q, i)[j] = q[k]
           /\ \A m : Has(q, m) => Has(Without(q, i), m) \/ m \in q[i].msg
<1> DEFINE r == Without(q, i)
           n == Len(q)
           At(j) == IF j < i THEN j ELSE j + 1
<1>1. n \in Nat /\ DOMAIN q = 1..n /\ i \in 1..n
  OBVIOUS
<1>2. /\ r \in Seq(AskSet) /\ Len(r) = n - 1
      /\ \A j \in DOMAIN r : r[j] = q[At(j)] /\ At(j) \in DOMAIN q \ {i}
  BY WithoutOne
<1>3. DOMAIN r = 1..n - 1
  BY <1>1, <1>2
<1> HIDE DEF r, n
<1>4. ASSUME NEW k \in DOMAIN q, k # i PROVE \E j \in DOMAIN r : r[j] = q[k]
  <2>1. CASE k < i
    <3>1. k \in DOMAIN r /\ At(k) = k
      BY <1>1, <1>3, <2>1
    <3> QED
      BY <1>2, <3>1
  <2>2. CASE ~(k < i)
    <3>1. k - 1 \in DOMAIN r /\ At(k - 1) = k
      BY <1>1, <1>3, <1>4, <2>2
    <3> QED
      BY <1>2, <3>1
  <2> QED
    BY <2>1, <2>2
<1>5. ASSUME NEW m, Has(q, m) PROVE Has(r, m) \/ m \in q[i].msg
  <2>1. PICK k \in DOMAIN q : m \in q[k].msg
    BY <1>5 DEF Has
  <2>2. k # i => \E j \in DOMAIN r : r[j] = q[k]
    BY <1>4
  <2> QED
    BY <2>1, <2>2 DEF Has
<1> QED
  BY <1>2, <1>5 DEF r

LEMMA JoinedHas ==
    ASSUME NEW q \in Seq(AskSet), NEW a \in AskSet, NEW first
    PROVE  LET r == IF first THEN <<a>> \o q ELSE Append(q, a)
           IN  /\ \A j \in DOMAIN r : r[j] = a \/ \E k \in DOMAIN q : r[j] = q[k]
               /\ \A m : Has(q, m) \/ m \in a.msg => Has(r, m)
<1> DEFINE n == Len(q)
           r == IF first THEN <<a>> \o q ELSE Append(q, a)
           At(k) == IF first THEN k + 1 ELSE k
           New == IF first THEN 1 ELSE n + 1
<1>1. n \in Nat /\ DOMAIN q = 1..n
  OBVIOUS
<1>2. DOMAIN r = 1..n + 1
  <2>1. CASE first
    BY <1>1, <2>1
  <2>2. CASE ~first
    BY <1>1, <2>2
  <2> QED
    BY <2>1, <2>2
<1>3. New \in DOMAIN r /\ r[New] = a
  <2>1. CASE first
    BY <1>1, <1>2, <2>1
  <2>2. CASE ~first
    BY <1>1, <1>2, <2>2
  <2> QED
    BY <2>1, <2>2
<1>4. \A k \in DOMAIN q : At(k) \in DOMAIN r /\ r[At(k)] = q[k]
  <2>1. CASE first
    BY <1>1, <1>2, <2>1
  <2>2. CASE ~first
    BY <1>1, <1>2, <2>2
  <2> QED
    BY <2>1, <2>2
<1>5. \A j \in DOMAIN r : j = New \/ \E k \in DOMAIN q : j = At(k)
  <2> SUFFICES ASSUME NEW j \in DOMAIN r, j # New PROVE \E k \in DOMAIN q : j = At(k)
    OBVIOUS
  <2>1. CASE first
    <3>1. j - 1 \in DOMAIN q /\ j = At(j - 1)
      BY <1>1, <1>2, <2>1
    <3> QED
      BY <3>1
  <2>2. CASE ~first
    <3>1. j \in DOMAIN q /\ j = At(j)
      BY <1>1, <1>2, <2>2
    <3> QED
      BY <3>1
  <2> QED
    BY <2>1, <2>2
<1> HIDE DEF r, At, New, n
<1>6. \A j \in DOMAIN r : r[j] = a \/ \E k \in DOMAIN q : r[j] = q[k]
  BY <1>3, <1>4, <1>5
<1>7. \A m : Has(q, m) \/ m \in a.msg => Has(r, m)
  BY <1>3, <1>4 DEF Has
<1> QED
  BY <1>6, <1>7 DEF r

(* A trigger that comes displaces no message. *)
LEMMA AddHas ==
    ASSUME NEW q, Queue(q), Addressed(q), NEW a \in AskSet, NEW first
    PROVE  /\ \A j \in DOMAIN Add(q, a, first) :
                 \/ Add(q, a, first)[j].kind = a.kind /\ Add(q, a, first)[j].msg = a.msg
                 \/ \E k \in DOMAIN q : Add(q, a, first)[j] = q[k]
           /\ \A m : Has(q, m) \/ m \in a.msg => Has(Add(q, a, first), m)
<1> DEFINE same == {i \in DOMAIN q : q[i].kind = a.kind /\ a.kind # "slow_msg"}
           new == [a EXCEPT !.acks = @ \cup UNION {q[i].acks : i \in same},
                            !.guides = @ \cup UNION {q[i].guides : i \in same}]
           rest == IF same = {} THEN q ELSE Without(q, CHOOSE i \in same : TRUE)
           r == IF first THEN <<new>> \o rest ELSE Append(rest, new)
<1>1. Add(q, a, first) = r
  BY DEF Add
<1>2. q \in Seq(AskSet) /\ \A i \in DOMAIN q : q[i] \in AskSet
  BY DEF Queue
<1>3. new \in AskSet /\ new.kind = a.kind /\ new.msg = a.msg
  <2>1. UNION {q[i].acks : i \in same} \in SUBSET Msgs
    BY <1>2 DEF AskSet
  <2>2. UNION {q[i].guides : i \in same} \in SUBSET Nat
    BY <1>2 DEF AskSet
  <2> QED
    BY <2>1, <2>2 DEF AskSet
<1>4. /\ rest \in Seq(AskSet) /\ \A m : Has(q, m) => Has(rest, m)
      /\ \A j \in DOMAIN rest : \E k \in DOMAIN q : rest[j] = q[k]
  <2>1. CASE same = {}
    <3>1. rest = q
      BY <2>1
    <3> HIDE DEF rest
    <3> QED
      BY <1>2, <3>1
  <2>2. CASE same # {}
    <3> DEFINE i == CHOOSE i \in same : TRUE
    <3>1. i \in same
      BY <2>2
    <3>2. i \in DOMAIN q /\ q[i].kind # "slow_msg"
      BY <3>1
    <3>3. rest = Without(q, i)
      BY <2>2
    <3>4. q[i].msg = {}
      BY <3>2 DEF Addressed
    <3> HIDE DEF i, rest, same
    <3>5. Without(q, i) \in Seq(AskSet)
      BY <1>2, <3>2, WithoutOne
    <3> QED
      BY <1>2, <3>2, <3>3, <3>4, <3>5, WithoutHas
  <2> QED
    BY <2>1, <2>2
<1> HIDE DEF new, rest
<1>5. /\ \A j \in DOMAIN r : r[j] = new \/ \E k \in DOMAIN rest : r[j] = rest[k]
      /\ \A m : Has(rest, m) \/ m \in new.msg => Has(r, m)
  BY <1>3, <1>4, JoinedHas
<1> HIDE DEF r
<1> QED
  BY <1>1, <1>3, <1>4, <1>5

NoCard(q) == \A i \in DOMAIN q : q[i].kind # "approval_card"

(* What comes to which lane: GUIDEs and closes to the rep's, messages and  *)
(* notices to the user's.                                                  *)
Sided ==
    /\ lane \in {"user", "cp"}
    /\ lane = "user" => ~closed /\ newest = 0
    /\ lane = "cp" => sent.msgs = 0 /\ ask.kind # "approval_card" /\ NoCard(pending)
    /\ Addressed(pending) /\ (ask.msg # {} => ask.kind = "slow_msg")

DebtInv == LaneInv /\ Sided /\ DebtsKept

(* A trigger joins, and what waits goes on waiting. *)
LEMMA OneJoins ==
    ASSUME NEW q, Queue(q), Addressed(q), NEW a \in AskSet, NEW first,
           a.msg # {} => a.kind = "slow_msg",
           \A g \in a.guides : ~Carries(q, g)
    PROVE  /\ Addressed(Add(q, a, first)) /\ Add(q, a, first) # <<>>
           /\ NoCard(q) /\ a.kind # "approval_card" => NoCard(Add(q, a, first))
           /\ \A m : Has(q, m) \/ m \in a.msg => Has(Add(q, a, first), m)
<1> DEFINE r == Add(q, a, first)
<1>1. /\ \A j \in DOMAIN r : \/ r[j].kind = a.kind /\ r[j].msg = a.msg
                             \/ \E k \in DOMAIN q : r[j] = q[k]
      /\ \A m : Has(q, m) \/ m \in a.msg => Has(r, m)
  BY AddHas
<1>2. r # <<>>
  BY AddJoins
<1> HIDE DEF r
<1>3. Addressed(r)
  BY <1>1 DEF Addressed
<1>4. NoCard(q) /\ a.kind # "approval_card" => NoCard(r)
  BY <1>1 DEF NoCard
<1> QED
  BY <1>1, <1>2, <1>3, <1>4 DEF r

(* The debts, given what a step keeps: the newest GUIDE's and the messages'.*)
LEMMA DebtsFrom ==
    ASSUME newest' > 0 /\ Owes(newest)' /\ ~Settled(newest)' =>
               pending' # <<>> \/ (phase' = "asked" /\ newest' \in voices'),
           \A n \in 1..sent'.msgs : <<"msg", n>> \in unvoiced' =>
               \/ phase' = "asked" /\ <<"msg", n>> \in ask'.msg
               \/ Has(pending', <<"msg", n>>)
    PROVE  DebtsKept'
BY DEF DebtsKept, Waits, Carried, Has, Owes, Settled

LEMMA TriggersOwe == ASSUME DebtInv, Triggers PROVE Sided' /\ DebtsKept'
<1> USE DEF generation, memory
<1>0. /\ Sided /\ DebtsKept /\ LaneInv /\ Queue(pending) /\ Addressed(pending)
      /\ lane = "cp" => NoCard(pending)
  BY DEF DebtInv, LaneInv, LaneTypes, Sided
<1>1. \A kind \in Kinds : Ask(kind) \in AskSet /\ Ask(kind).guides = {}
                            /\ Ask(kind).msg = {} /\ Ask(kind).kind = kind
  BY AskTypes DEF Ask
<1>2. \A n \in 1..sent.msgs : <<"msg", n>> \in unvoiced =>
          (phase = "asked" /\ <<"msg", n>> \in ask.msg) \/ Has(pending, <<"msg", n>>)
  BY <1>0 DEF DebtsKept, Waits, Carried, Has
<1>3. newest > 0 /\ Guide(newest) \in unvoiced /\ newest \notin retried /\ ~closed =>
          pending # <<>> \/ (phase = "asked" /\ newest \in voices)
  BY <1>0 DEF DebtsKept, Owes, Settled
<1>4. CASE RepLine \/ UserMsg
  <2>1. PICK kind \in URGENT : pending' = Add(pending, Ask(kind), FALSE)
    BY <1>4 DEF RepLine, UserMsg, URGENT
  <2>2. UNCHANGED <<lane, closed, phase, ask, voices, newest, unvoiced, retried, sent>>
    BY <1>4 DEF RepLine, UserMsg
  <2>3. /\ Ask(kind) \in AskSet /\ Ask(kind).guides = {} /\ Ask(kind).msg = {}
        /\ Ask(kind).kind # "approval_card"
    BY <1>1, <2>1 DEF Kinds, URGENT
  <2>4. /\ Addressed(pending)' /\ pending' # <<>>
        /\ lane = "cp" => NoCard(pending)'
        /\ \A m : Has(pending, m) => Has(pending', m)
    <3>1. /\ Addressed(Add(pending, Ask(kind), FALSE)) /\ Add(pending, Ask(kind), FALSE) # <<>>
          /\ NoCard(pending) => NoCard(Add(pending, Ask(kind), FALSE))
          /\ \A m : Has(pending, m) => Has(Add(pending, Ask(kind), FALSE), m)
      BY <1>0, <2>3, OneJoins
    <3> QED
      BY <1>0, <2>1, <3>1 DEF Addressed, NoCard
  <2>5. Sided'
    BY <1>0, <2>2, <2>4 DEF Sided
  <2> QED
    BY <1>2, <2>2, <2>4, <2>5, DebtsFrom
<1>5. CASE Guidance
  <2>1. /\ UNCHANGED <<lane, closed, phase, ask, voices, sent>> /\ lane = "cp"
        /\ pending' = IF closed THEN pending ELSE Add(pending, Ask("guidance"), FALSE)
        /\ unvoiced' = unvoiced \cup {Guide(newest')}
    BY <1>5 DEF Guidance
  <2>2. /\ Ask("guidance") \in AskSet /\ Ask("guidance").guides = {}
        /\ Ask("guidance").msg = {} /\ Ask("guidance").kind = "guidance"
    BY <1>1 DEF Kinds
  <2>3. /\ Addressed(pending)'
        /\ NoCard(pending)'
        /\ ~closed => pending' # <<>>
    <3> DEFINE r == Add(pending, Ask("guidance"), FALSE)
    <3>1. Addressed(r) /\ r # <<>> /\ NoCard(r)
      BY <1>0, <2>1, <2>2, OneJoins
    <3>2. pending' = pending \/ pending' = r
      BY <2>1
    <3> HIDE DEF r
    <3>3. ~closed => pending' = r
      BY <2>1 DEF r
    <3> QED
      BY <1>0, <2>1, <3>1, <3>2, <3>3 DEF Addressed, NoCard
  <2>4. Sided'
    BY <1>0, <2>1, <2>3 DEF Sided
  <2>5. sent'.msgs = 0
    BY <1>0, <2>1 DEF Sided
  <2>6. ~Settled(newest)' => pending' # <<>>
    BY <2>1, <2>3 DEF Settled
  <2>7. \A n \in 1..sent'.msgs : FALSE
    BY <2>5
  <2> QED
    BY <2>4, <2>6, <2>7, DebtsFrom
<1>6. CASE SlowMessage
  <2> DEFINE m == <<"msg", sent'.msgs>>
             a == [Ask("slow_msg") EXCEPT !.msg = {m}]
  <2>1. sent \in [msgs : Nat, notices : Nat, lines : Nat, epochs : Nat]
    BY DEF DebtInv, LaneInv, LaneTypes
  <2>2. /\ sent'.msgs = sent.msgs + 1 /\ sent'.msgs \in Nat /\ lane = "user"
        /\ UNCHANGED <<lane, closed, phase, ask, voices, newest, retried>>
        /\ unvoiced' = unvoiced \cup {m} /\ pending' = Add(pending, a, FALSE)
    BY <1>6, <2>1 DEF SlowMessage
  <2>3. m \in Msgs
    BY <2>2 DEF Msgs
  <2>4. a \in AskSet /\ a.guides = {} /\ a.kind = "slow_msg" /\ a.msg = {m}
    BY <2>3 DEF Ask, AskSet, Kinds
  <2> HIDE DEF a
  <2>5. Addressed(pending)' /\ (\A x : Has(pending, x) => Has(pending', x)) /\ Has(pending', m)
    <3> DEFINE r == Add(pending, a, FALSE)
    <3>1. /\ Addressed(r) /\ \A x : Has(pending, x) => Has(r, x)
          /\ Has(r, m)
      <4> HIDE DEF m
      <4> QED
        BY <1>0, <2>4, OneJoins
    <3> HIDE DEF r, m
    <3>2. pending' = r
      BY <2>2 DEF r
    <3> QED
      BY <3>1, <3>2 DEF Addressed
  <2>6. Sided'
    BY <1>0, <2>2, <2>5 DEF Sided
  <2>7. \A n \in 1..sent'.msgs : n \in 1..sent.msgs \/ n = sent'.msgs
    BY <2>1, <2>2
  <2>8. \A n \in 1..sent'.msgs : <<"msg", n>> \in unvoiced' =>
           (phase' = "asked" /\ <<"msg", n>> \in ask'.msg) \/ Has(pending', <<"msg", n>>)
    <3> HIDE DEF m
    <3>1. ASSUME NEW n \in 1..sent.msgs, <<"msg", n>> \in unvoiced'
          PROVE  (phase' = "asked" /\ <<"msg", n>> \in ask'.msg) \/ Has(pending', <<"msg", n>>)
      <4>1. CASE <<"msg", n>> = m
        BY <2>5, <4>1
      <4>2. CASE <<"msg", n>> # m
        BY <1>2, <2>2, <2>5, <3>1, <4>2
      <4> QED
        BY <4>1, <4>2
    <3> QED
      BY <2>5, <2>7, <3>1 DEF m
  <2>9. newest' = 0
    BY <1>0, <2>2 DEF Sided
  <2> QED
    BY <2>6, <2>8, <2>9, DebtsFrom
<1>7. CASE Notice
  <2> DEFINE m == <<"notice", sent'.notices>>
             a == [Ask("approval_card") EXCEPT !.acks = {m}]
  <2>1. sent \in [msgs : Nat, notices : Nat, lines : Nat, epochs : Nat]
    BY DEF DebtInv, LaneInv, LaneTypes
  <2>2. /\ sent'.msgs = sent.msgs /\ sent'.notices \in Nat /\ lane = "user"
        /\ UNCHANGED <<lane, closed, phase, ask, voices, newest, retried>>
        /\ unvoiced' = unvoiced \cup {m} /\ pending' = Add(pending, a, FALSE)
    BY <1>7, <2>1 DEF Notice
  <2>8. m \in Msgs
    BY <2>2 DEF Msgs
  <2>3. a \in AskSet /\ a.guides = {} /\ a.kind = "approval_card" /\ a.msg = {}
    BY <2>8 DEF Ask, AskSet, Kinds
  <2> HIDE DEF a
  <2>4. Addressed(pending)' /\ \A x : Has(pending, x) => Has(pending', x)
    <3> DEFINE r == Add(pending, a, FALSE)
    <3>1. Addressed(r) /\ \A x : Has(pending, x) => Has(r, x)
      BY <1>0, <2>3, OneJoins
    <3> HIDE DEF r
    <3>2. pending' = r
      BY <2>2 DEF r
    <3> QED
      BY <3>1, <3>2 DEF Addressed
  <2>5. Sided' /\ newest' = 0
    BY <1>0, <2>2, <2>4 DEF Sided
  <2>6. \A n : <<"msg", n>> \in unvoiced' => <<"msg", n>> \in unvoiced
    BY <2>2
  <2>7. \A n \in 1..sent'.msgs : <<"msg", n>> \in unvoiced' =>
           (phase' = "asked" /\ <<"msg", n>> \in ask'.msg) \/ Has(pending', <<"msg", n>>)
    <3> HIDE DEF m
    <3> QED
      BY <1>2, <2>2, <2>4, <2>6
  <2>9. ~(newest' > 0)
    BY <2>5
  <2> QED
    BY <2>5, <2>7, <2>9, DebtsFrom
<1>8. CASE CardDecided \/ EpochMoves \/ VerbatimHeard \/ Closes
  <2>1. /\ UNCHANGED <<lane, pending, phase, ask, voices, newest, unvoiced, retried>>
        /\ sent'.msgs = sent.msgs /\ (~closed' => ~closed)
        /\ lane = "user" => closed' = closed
    BY <1>8 DEF CardDecided, EpochMoves, VerbatimHeard, Closes, DebtInv, LaneInv, LaneTypes
  <2>2. Sided'
    BY <1>0, <2>1 DEF Sided, Addressed, NoCard
  <2> QED
    BY <1>2, <1>3, <2>1, <2>2, DebtsFrom DEF Has, Owes, Settled
<1> QED
  BY <1>4, <1>5, <1>6, <1>7, <1>8 DEF Triggers

LEMMA ServesOwes == ASSUME DebtInv, Serves PROVE Sided' /\ DebtsKept'
<1> USE DEF memory
<1> DEFINE i == First(pending)
           a == pending[i]
<1>0. Sided /\ DebtsKept /\ LaneInv
  BY DEF DebtInv
<1>1. pending \in Seq(AskSet) /\ pending # <<>> /\ i \in DOMAIN pending /\ phase # "asked"
  BY FirstWaits DEF Serves, DebtInv, LaneInv, LaneTypes, Queue
<1>2. /\ pending' = Without(pending, i)
      /\ UNCHANGED <<lane, closed, newest, said, retried, unvoiced, card, sent>>
  BY DEF Serves
<1>3. \/ Moot(a) /\ phase' # "asked" /\ UNCHANGED <<ask, voices>>
      \/ phase' = "asked" /\ ask' = a /\ voices' = Voices(a) /\ ~Moot(a)
  BY DEF Serves
<1> HIDE DEF i
<1>4. /\ \A j \in DOMAIN pending' : \E k \in DOMAIN pending : pending'[j] = pending[k]
      /\ \A m : Has(pending, m) => Has(pending', m) \/ m \in a.msg
  BY <1>1, <1>2, WithoutHas
<1>5. a.msg # {} => a.kind = "slow_msg"
  BY <1>0, <1>1 DEF Sided, Addressed, NoCard
<1>6. Sided'
  BY <1>0, <1>1, <1>2, <1>3, <1>4, <1>5 DEF Sided, Addressed, NoCard
<1>7. \A n \in 1..sent'.msgs : <<"msg", n>> \in unvoiced' =>
          (phase' = "asked" /\ <<"msg", n>> \in ask'.msg) \/ Has(pending', <<"msg", n>>)
  <2> SUFFICES ASSUME NEW n \in 1..sent'.msgs, <<"msg", n>> \in unvoiced',
                      ~Has(pending', <<"msg", n>>)
               PROVE  phase' = "asked" /\ <<"msg", n>> \in ask'.msg
    OBVIOUS
  <2>1. Has(pending, <<"msg", n>>)
    BY <1>0, <1>1, <1>2 DEF DebtsKept, Waits, Carried, Has
  <2>2. <<"msg", n>> \in a.msg /\ a.kind = "slow_msg"
    BY <1>4, <1>5, <2>1
  <2>3. lane # "cp"
    <3>1. sent.msgs # 0
      BY <1>2
    <3> QED
      BY <1>0, <3>1 DEF Sided
  <2>4. ~Moot(a)
    BY <1>0, <2>2, <2>3 DEF Moot, Sided
  <2> QED
    BY <1>3, <2>2, <2>4
<1>8. ASSUME newest' > 0, Owes(newest)', ~Settled(newest)'
      PROVE  phase' = "asked" /\ newest' \in voices'
  <2>1. newest > 0 /\ Guide(newest) \in unvoiced /\ ~closed
    BY <1>2, <1>8 DEF Owes, Settled, Guide
  <2>2. newest \notin said
    BY <1>0, <2>1 DEF LaneInv, Tokens
  <2>3. lane = "cp" /\ a.kind # "approval_card"
    <3>1. lane = "cp" /\ NoCard(pending)
      BY <1>0, <2>1 DEF Sided
    <3> QED
      BY <1>1, <3>1 DEF NoCard
  <2>4. ~Moot(a)
    BY <2>1, <2>2, <2>3 DEF Moot
  <2> HIDE DEF a
  <2>5. phase' = "asked" /\ voices' = Voices(a)
    BY <1>3, <2>4
  <2> QED
    BY <1>2, <2>1, <2>5 DEF Voices
<1> QED
  BY <1>6, <1>7, <1>8, DebtsFrom

(* A generation that ends leaves its trigger, or what it owed is voiced. *)
LEMMA EndedOwes ==
    ASSUME DebtInv, Ends, Addressed(pending)', UNCHANGED <<lane, closed, newest, sent>>,
           lane = "cp" => NoCard(pending)',
           retried \subseteq retried', unvoiced' \subseteq unvoiced,
           \A m : Has(pending, m) => Has(pending', m),
           \A n : <<"msg", n>> \in unvoiced' /\ phase = "asked" /\ <<"msg", n>> \in ask.msg =>
                      Has(pending', <<"msg", n>>),
           pending # <<>> => pending' # <<>>,
           phase = "asked" /\ newest \in voices /\ newest > 0 /\ Guide(newest) \in unvoiced'
               /\ newest \notin retried' => pending' # <<>>
    PROVE  Sided' /\ DebtsKept'
<1>1. Sided /\ DebtsKept
  BY DEF DebtInv
<1>2. ask' = NoAsk /\ NoAsk.msg = {} /\ NoAsk.kind = "none"
  BY DEF Ends, NoAsk, Ask
<1>3. Sided'
  BY <1>1, <1>2 DEF Sided
<1>4. \A n \in 1..sent'.msgs : <<"msg", n>> \in unvoiced' => Has(pending', <<"msg", n>>)
  BY <1>1 DEF DebtsKept, Waits, Carried, Has
<1>5. newest' > 0 /\ Owes(newest)' /\ ~Settled(newest)' => pending' # <<>>
  BY <1>1 DEF DebtsKept, Owes, Settled, Guide
<1> QED
  BY <1>3, <1>4, <1>5, DebtsFrom

LEMMA StaleEpochOwes == ASSUME DebtInv, StaleEpoch PROVE Sided' /\ DebtsKept'
<1> USE DEF memory
<1> DEFINE a == [ask EXCEPT !.again = TRUE]
<1>1. LaneInv /\ Sided /\ ask \in AskSet /\ phase = "asked"
  BY DEF DebtInv, LaneInv, LaneTypes, StaleEpoch
<1>2. a \in AskSet /\ a.guides = ask.guides /\ a.kind = ask.kind /\ a.msg = ask.msg
  BY <1>1 DEF AskSet
<1>3. /\ UNCHANGED <<lane, closed, newest, said, retried, unvoiced, sent>> /\ Ends
      /\ \A g \in ask.guides : ~Carries(pending, g)
  BY <1>1 DEF StaleEpoch, LaneInv, Serving
<1>4. \/ ask.kind = "approval_card" /\ pending' = pending
      \/ pending' = Add(pending, a, TRUE)
  BY DEF StaleEpoch, Again
<1>5. ask.msg # {} => ask.kind = "slow_msg"
  BY <1>1 DEF Sided
<1>6. lane = "cp" => ask.kind # "approval_card"
  BY <1>1 DEF Sided
<1> HIDE DEF a
<1>7. /\ Addressed(pending)' /\ (pending # <<>> => pending' # <<>>)
      /\ lane = "cp" => NoCard(pending)'
      /\ \A m : Has(pending, m) => Has(pending', m)
      /\ pending' = Add(pending, a, TRUE) =>
             pending' # <<>> /\ \A m \in a.msg : Has(pending', m)
  <2> DEFINE r == Add(pending, a, TRUE)
  <2>1. Queue(pending) /\ Addressed(pending) /\ (lane = "cp" => NoCard(pending))
    BY <1>1 DEF LaneInv, LaneTypes, Sided
  <2>2. /\ Addressed(r) /\ r # <<>> /\ (lane = "cp" => NoCard(r))
        /\ \A m : Has(pending, m) \/ m \in a.msg => Has(r, m)
    BY <1>2, <1>3, <1>5, <1>6, <2>1, OneJoins
  <2> HIDE DEF r
  <2>3. pending' = pending \/ pending' = r
    BY <1>4 DEF r
  <2>4. CASE pending' = pending /\ pending' # r
    BY <2>1, <2>4 DEF Addressed, NoCard, r
  <2>5. CASE pending' = r
    BY <2>2, <2>5 DEF Addressed, NoCard
  <2> QED
    BY <2>3, <2>4, <2>5
<1>8. \A m \in ask.msg : Has(pending', m)
  BY <1>2, <1>4, <1>5, <1>7
<1>9. newest > 0 => pending' # <<>>
  <2>1. newest > 0 => lane = "cp"
    BY <1>1 DEF Sided
  <2> QED
    BY <1>4, <1>6, <1>7, <2>1
<1> QED
  BY <1>3, <1>7, <1>8, <1>9, EndedOwes

LEMMA TurnedOwes ==
    ASSUME DebtInv, NEW acts \in BOOLEAN, NEW speaks \in BOOLEAN, NEW h \in BOOLEAN,
           Turned(acts, speaks, h)
    PROVE  Sided' /\ DebtsKept'
<1> DEFINE empty == voices # {} /\ ~acts
           again == IF empty THEN (voices \ ask.guides) \ retried ELSE {}
           now   == IF empty THEN {} ELSE voices
<1>0. LaneInv /\ Sided /\ DebtsKept
  BY DEF DebtInv
<1>1. /\ phase = "asked" /\ UNCHANGED <<lane, closed, newest, said, sent>>
      /\ retried' = retried \cup again
      /\ pending' = IF again = {} THEN pending ELSE Add(pending, Ask("guidance"), FALSE)
      /\ unvoiced' = unvoiced \ ({Guide(g) : g \in now} \cup ask.msg \cup ask.acks)
  BY DEF Turned
<1>2. /\ Ask("guidance") \in AskSet /\ Ask("guidance").guides = {}
      /\ Ask("guidance").msg = {} /\ Ask("guidance").kind = "guidance"
  BY AskTypes DEF Kinds, Ask
<1>3. /\ Addressed(pending)' /\ (pending # <<>> => pending' # <<>>)
      /\ lane = "cp" => NoCard(pending)'
      /\ \A m : Has(pending, m) => Has(pending', m)
  <2> DEFINE r == Add(pending, Ask("guidance"), FALSE)
  <2>1. Queue(pending) /\ Addressed(pending) /\ (lane = "cp" => NoCard(pending))
    BY <1>0 DEF LaneInv, LaneTypes, Sided
  <2>2. /\ Addressed(r) /\ r # <<>> /\ (lane = "cp" => NoCard(r))
        /\ \A m : Has(pending, m) => Has(r, m)
    BY <1>2, <2>1, OneJoins
  <2>3. pending' = pending \/ pending' = r
    BY <1>1
  <2> HIDE DEF r
  <2>4. CASE pending' = pending
    BY <2>1, <2>4 DEF Addressed, NoCard
  <2>5. CASE pending' = r
    BY <2>2, <2>5 DEF Addressed, NoCard
  <2> QED
    BY <2>3, <2>4, <2>5
(* What it voiced is no longer owed. *)
<1>4. /\ unvoiced' \subseteq unvoiced /\ \A m \in ask.msg : m \notin unvoiced'
      /\ newest \in voices /\ Guide(newest) \in unvoiced' => newest \in retried'
  <2>1. newest \in voices /\ Guide(newest) \in unvoiced' => empty
    BY <1>1
  <2>2. newest \in ask.guides => Guide(newest) \notin unvoiced
    BY <1>0, <1>1 DEF LaneInv, Serving
  <2> QED
    BY <1>1, <2>1, <2>2
<1>5. CASE Ends
  BY <1>1, <1>3, <1>4, <1>5, EndedOwes
<1>6. CASE phase' = "floor" /\ UNCHANGED ask
  <2>1. Sided'
    BY <1>0, <1>1, <1>3, <1>6 DEF Sided
  <2>2. \A n \in 1..sent'.msgs : <<"msg", n>> \in unvoiced' => Has(pending', <<"msg", n>>)
    BY <1>0, <1>1, <1>3, <1>4 DEF DebtsKept, Waits, Carried, Has
  <2>3. newest' > 0 /\ Owes(newest)' /\ ~Settled(newest)' => pending' # <<>>
    BY <1>0, <1>1, <1>3, <1>4 DEF DebtsKept, Owes, Settled, Guide
  <2> QED
    BY <2>1, <2>2, <2>3, DebtsFrom
<1> QED
  BY <1>5, <1>6 DEF Turned

LEMMA FloorOwes ==
    ASSUME DebtInv, StaleFloor \/ TakesFloor \/ Spoken \/ Cut PROVE Sided' /\ DebtsKept'
<1> USE DEF memory
<1>0. LaneInv /\ Sided /\ DebtsKept /\ phase \in {"floor", "speaking"}
  BY DEF DebtInv, StaleFloor, TakesFloor, Spoken, Cut
<1>1. CASE StaleFloor
  <2> DEFINE a == [ask EXCEPT !.guides = voices, !.again = TRUE]
  <2>1. ask \in AskSet /\ voices \in SUBSET Nat
    BY <1>0 DEF LaneInv, LaneTypes
  <2>2. a \in AskSet /\ a.guides = voices /\ a.kind = ask.kind /\ a.msg = ask.msg
    BY <2>1 DEF AskSet
  <2>3. /\ UNCHANGED <<lane, closed, newest, said, retried, unvoiced, sent>> /\ Ends
        /\ pending' = Add(pending, a, TRUE) /\ \A g \in voices : ~Carries(pending, g)
    BY <1>0, <1>1 DEF StaleFloor, LaneInv, Serving
  <2>4. (ask.msg # {} => ask.kind = "slow_msg") /\ (lane = "cp" => ask.kind # "approval_card")
    BY <1>0 DEF Sided
  <2> HIDE DEF a
  <2>5. /\ Addressed(pending)' /\ pending' # <<>>
        /\ lane = "cp" => NoCard(pending)'
        /\ \A m : Has(pending, m) => Has(pending', m)
    <3> DEFINE r == Add(pending, a, TRUE)
    <3>1. Queue(pending) /\ Addressed(pending) /\ (lane = "cp" => NoCard(pending))
      BY <1>0 DEF LaneInv, LaneTypes, Sided
    <3>2. /\ Addressed(r) /\ r # <<>> /\ (lane = "cp" => NoCard(r))
          /\ \A m : Has(pending, m) => Has(r, m)
      BY <2>2, <2>3, <2>4, <3>1, OneJoins
    <3> HIDE DEF r
    <3>3. pending' = r
      BY <2>3 DEF r
    <3> QED
      BY <3>2, <3>3 DEF Addressed, NoCard
  <2> QED
    BY <1>0, <2>3, <2>5, EndedOwes
<1>2. CASE TakesFloor
  <2>1. /\ UNCHANGED <<lane, closed, pending, ask, newest, retried, unvoiced, sent>>
        /\ phase' = "speaking"
    BY <1>2 DEF TakesFloor
  <2>2. Sided'
    BY <1>0, <2>1 DEF Sided, Addressed, NoCard
  <2> QED
    BY <1>0, <2>1, <2>2, DebtsFrom DEF DebtsKept, Waits, Carried, Has, Owes, Settled, Guide
<1>3. CASE Spoken \/ Cut
  <2>1. UNCHANGED <<lane, closed, pending, newest, retried, unvoiced, sent>> /\ Ends
    BY <1>3 DEF Spoken, Cut
  <2>2. /\ Addressed(pending)' /\ \A m : Has(pending, m) => Has(pending', m)
        /\ lane = "cp" => NoCard(pending)'
    BY <1>0, <2>1 DEF Sided, Addressed, NoCard, Has
  <2> QED
    BY <1>0, <2>1, <2>2, EndedOwes
<1> QED
  BY <1>1, <1>2, <1>3 DEF StaleFloor, TakesFloor, Spoken, Cut

LEMMA DebtStep == DebtInv /\ [Next]_vars => DebtInv'
<1> SUFFICES ASSUME DebtInv, [Next]_vars PROVE Sided' /\ DebtsKept'
  BY LaneStep DEF DebtInv
<1>1. CASE Triggers
  BY <1>1, TriggersOwe
<1>2. CASE Turns
  BY <1>2, TurnedOwes DEF Turns
<1>3. CASE Serves \/ StaleEpoch \/ StaleFloor \/ TakesFloor \/ Spoken \/ Cut
  BY <1>3, ServesOwes, StaleEpochOwes, FloorOwes
<1>4. CASE UNCHANGED vars
  BY <1>4 DEF vars, DebtInv, Sided, Addressed, NoCard, DebtsKept, Waits, Carried, Owes, Settled, Guide
<1> QED
  BY <1>1, <1>2, <1>3, <1>4 DEF Next, Run

(* The newest GUIDE and each Slow message keep a trigger or a generation   *)
(* until they are settled (kernel/lanes.py, _add and _again): the safety   *)
(* half of Answers.                                                        *)
THEOREM NothingOwedIsLost == Spec => []DebtsKept
<1>1. Init => DebtInv
  <2>1. Init => Sided /\ DebtsKept
    BY DEF Init, Sided, Addressed, NoCard, DebtsKept, NoAsk, Ask
  <2> QED
    BY <2>1, LaneInit DEF DebtInv
<1>2. DebtInv => DebtsKept
  BY DEF DebtInv
<1> QED
  BY <1>1, <1>2, DebtStep, PTL DEF Spec

-----------------------------------------------------------------------------
(* The log.  A generation is voiced by the newest GUIDE there was at its   *)
(* request; it is at work, or its turn has ended; what was heard whole is  *)
(* what the lane remembers.                                                *)

Gen == [after : Nat, event : {"request", "turn", "cancelled"}, voiced : SUBSET Nat,
        of : Nat, ends : Seq(Nat), cut : BOOLEAN]

AtWork == phase \in {"asked", "floor", "speaking"}
Whole(g) == g.event # "cancelled" /\ g.of # 0 /\ ~g.cut /\ Len(g.ends) = g.of
Over(g) ==
    /\ g.event # "request"
    /\ g.event = "cancelled" \/ g.of = 0 \/ g.cut \/ Len(g.ends) = g.of \/ closed
HeardIn(m) == \E i \in DOMAIN gens : m \in gens[i].voiced /\ Whole(gens[i])

LogTypes ==
    /\ lane = "cp" /\ moves \in Seq(Moves) /\ Len(moves) = newest
    /\ gens \in Seq(Gen) /\ lines \in Seq({"rep", "agent"})

Logged(g) ==
    /\ g.after <= newest /\ g.voiced \subseteq {g.after} /\ Len(g.ends) <= g.of
    /\ g.event = "request" => g.voiced = {}
    /\ \A k \in DOMAIN g.ends : g.ends[k] <= Len(lines)

LogGens ==
    \A i \in DOMAIN gens :
        /\ Logged(gens[i])
        /\ \A j \in DOMAIN gens : i <= j => gens[i].after <= gens[j].after
        /\ Over(gens[i]) \/ (i = This /\ AtWork)

Working ==
    AtWork =>
      /\ This # 0
      /\ phase = "asked" =>
           /\ gens[This].event = "request" /\ gens[This].of = 0 /\ gens[This].ends = <<>>
           /\ voices \subseteq {gens[This].after} /\ ~gens[This].cut
           /\ Guide(gens[This].after) \in unvoiced => gens[This].after \in voices
      /\ phase # "asked" =>
           /\ gens[This].event = "turn" /\ gens[This].voiced = voices
           /\ Len(gens[This].ends) < gens[This].of /\ ~gens[This].cut

Remembers ==
    /\ \A m : HeardIn(m) => m \in said
    /\ ~closed => \A m \in said : HeardIn(m)

HeardInv == LaneInv /\ LogTypes /\ LogGens /\ Working /\ Remembers /\ fates = Fates

LEMMA HeardInit == HInit => HeardInv
<1> SUFFICES ASSUME HInit PROVE HeardInv
  OBVIOUS
<1>1. LaneInv
  BY LaneInit DEF HInit
<1>2. /\ moves = <<>> /\ gens = <<>> /\ lines = <<>> /\ fates = <<>> /\ lane = "cp"
      /\ newest = 0 /\ phase = "idle" /\ said = {}
  BY DEF HInit, Init
<1>3. LogTypes /\ LogGens /\ Working /\ Remembers
  BY <1>2 DEF LogTypes, LogGens, Working, AtWork, Remembers, HeardIn
<1>4. fates = Fates
  <2>1. DOMAIN moves = {}
    BY <1>2
  <2>2. Fates = <<>>
    BY <2>1 DEF Fates
  <2> QED
    BY <1>2, <2>2
<1> QED
  BY <1>1, <1>3, <1>4 DEF HeardInv

LEMMA StepOfLane == HStep => [Next]_vars
<1> SUFFICES ASSUME HStep PROVE [Next]_vars
  OBVIOUS
<1>1. ASSUME phase # "loop", GuideSent \/ RepSays \/ RepCloses \/ VerbatimLine \/ Epoch
      PROVE  Triggers
  BY <1>1 DEF GuideSent, RepSays, RepCloses, VerbatimLine, Epoch, Triggers
<1>2. ASSUME \/ Requested \/ CancelledEpoch \/ CancelledStale \/ Speaks
             \/ TurnHeard \/ TurnCut
      PROVE  Run
  BY <1>2 DEF Requested, CancelledEpoch, CancelledStale, Speaks, TurnHeard, TurnCut, Run
<1>3. ASSUME TurnLogged PROVE Run
  <2>1. PICK acts \in BOOLEAN, n \in 0..MaxSentences : Turned(acts, n > 0, FALSE)
    BY <1>3 DEF TurnLogged
  <2>2. (n > 0) \in BOOLEAN /\ FALSE \in BOOLEAN
    OBVIOUS
  <2> QED
    BY <2>1, <2>2 DEF Run, Turns
<1>4. ASSUME SentenceHeard PROVE UNCHANGED vars
  BY <1>4 DEF SentenceHeard
<1> QED
  BY <1>1, <1>2, <1>3, <1>4 DEF HStep, Next

(* The log only grows, and only the generation at work changes.            *)
Extends(s, t) == Len(s) <= Len(t) /\ \A i \in DOMAIN s : t[i] = s[i]

Grows ==
    /\ Extends(moves, moves') /\ Extends(lines, lines')
    /\ Len(gens) <= Len(gens')
    /\ \A i \in DOMAIN gens :
          \/ gens'[i] = gens[i]
          \/ /\ i = This /\ AtWork /\ gens'[i].after = gens[i].after
             /\ gens'[i].voiced = gens[i].voiced \/ gens[i].event = "request"
             /\ gens[i].event = "request" => gens'[i].voiced \subseteq {gens[i].after}
             /\ gens'[i].event # "request"
    /\ \A i \in DOMAIN gens' \ DOMAIN gens : gens'[i] = Asked

(* The generation at work is not heard whole yet. *)
LEMMA NotYet == ASSUME Working, AtWork, LogTypes PROVE ~Whole(gens[This])
<1>1. This \in DOMAIN gens /\ gens[This] \in Gen
  BY DEF Working, LogTypes, This
<1> QED
  BY <1>1 DEF Working, AtWork, Whole, Gen

LEMMA Longer == ASSUME NEW S, NEW s \in Seq(S), NEW x \in S
                PROVE  Append(s, x) \in Seq(S) /\ Extends(s, Append(s, x))
                       /\ Len(Append(s, x)) = Len(s) + 1
BY DEF Extends

LEMMA Same == ASSUME NEW S, NEW s \in Seq(S) PROVE Extends(s, s)
BY DEF Extends

(* The generations are as they were, at work or not. *)
LEMMA Untouched ==
    ASSUME HeardInv, LogTypes', gens' = gens, Len(lines) <= Len(lines'),
           newest' \in Nat, newest <= newest', voices' = voices, said' = said, closed => closed',
           \/ phase' = phase
           \/ phase \in {"floor", "speaking"} /\ phase' \in {"floor", "speaking"}
           \/ ~AtWork /\ ~AtWork',
           \A g \in 0..newest : Guide(g) \in unvoiced' => Guide(g) \in unvoiced
    PROVE  LogGens' /\ Working' /\ Remembers'
<1>1. /\ gens \in Seq(Gen) /\ newest \in Nat /\ Len(lines) \in Nat /\ Len(lines') \in Nat
      /\ AtWork' <=> AtWork
  BY DEF HeardInv, LaneInv, LaneTypes, LogTypes, AtWork
<1>2. \A i \in DOMAIN gens : gens[i] \in Gen
  BY <1>1
<1>3. LogGens'
  <2>1. \A i \in DOMAIN gens : Logged(gens[i]) => Logged(gens[i])'
    <3> SUFFICES ASSUME NEW i \in DOMAIN gens, Logged(gens[i]) PROVE Logged(gens[i])'
      OBVIOUS
    <3>1. gens[i].after <= newest'
      BY <1>1, <1>2 DEF Logged, Gen
    <3>2. \A k \in DOMAIN gens[i].ends : gens[i].ends[k] <= Len(lines')
      BY <1>1, <1>2 DEF Logged, Gen
    <3> QED
      BY <3>1, <3>2 DEF Logged
  <2>2. \A i \in DOMAIN gens : Over(gens[i]) => Over(gens[i])'
    BY DEF Over
  <2> QED
    BY <1>1, <2>1, <2>2 DEF HeardInv, LogGens, This
<1>4. Working'
  <2> SUFFICES ASSUME AtWork' PROVE Working'
    BY DEF Working
  <2>1. This \in DOMAIN gens /\ gens[This] \in Gen /\ gens[This].after \in 0..newest
    BY <1>1, <1>2 DEF HeardInv, Working, LogGens, Logged, This, Gen
  <2>2. AtWork /\ This' = This /\ (phase' = "asked" <=> phase = "asked")
    BY <1>1 DEF This, AtWork
  <2> QED
    BY <2>1, <2>2 DEF HeardInv, Working, Guide
<1>5. Remembers'
  BY DEF HeardInv, Remembers, HeardIn, Whole
<1> QED
  BY <1>3, <1>4, <1>5

(* The generation at work goes on, or ends. *)
LEMMA Changed ==
    ASSUME HeardInv, AtWork, LogTypes', NEW x \in Gen, gens' = [gens EXCEPT ![This] = x],
           x.after = gens[This].after, x.voiced \subseteq {x.after}, x.event # "request",
           Len(x.ends) <= x.of, \A k \in DOMAIN x.ends : x.ends[k] <= Len(lines'),
           Len(lines) <= Len(lines'), newest' = newest, closed' = closed,
           \/ /\ phase' \in {"floor", "speaking"} /\ x.event = "turn"
              /\ x.voiced = voices' /\ Len(x.ends) < x.of /\ ~x.cut
           \/ ~AtWork' /\ (x.event = "cancelled" \/ x.of = 0 \/ x.cut
                             \/ Len(x.ends) = x.of \/ closed),
           said \subseteq said', Whole(x) => x.voiced \subseteq said',
           \A m \in said' \ said : closed \/ (m \in x.voiced /\ Whole(x))
    PROVE  LogGens' /\ Working' /\ Remembers'
<1>1. /\ gens \in Seq(Gen) /\ newest \in Nat /\ Len(lines) \in Nat /\ Len(lines') \in Nat
      /\ This \in DOMAIN gens
  BY DEF HeardInv, LaneInv, LaneTypes, LogTypes, Working, This
<1>2. /\ \A i \in DOMAIN gens : gens[i] \in Gen
      /\ This' = This /\ DOMAIN gens' = DOMAIN gens /\ gens'[This] = x
      /\ \A i \in DOMAIN gens : i # This => gens'[i] = gens[i]
  BY <1>1 DEF This
<1>3. LogGens'
  <2>1. \A i \in DOMAIN gens : \A g : g = gens'[i] => Logged(g)'
    <3> SUFFICES ASSUME NEW i \in DOMAIN gens, NEW g, g = gens'[i] PROVE Logged(g)'
      OBVIOUS
    <3>1. CASE i = This
      <4>1. x.after <= newest' /\ g = x
        BY <1>1, <1>2, <3>1 DEF HeardInv, LogGens, Logged
      <4> QED
        BY <4>1 DEF Logged
    <3>2. CASE i # This
      <4>1. g = gens[i] /\ g \in Gen /\ Logged(g)
        BY <1>2, <3>2 DEF HeardInv, LogGens
      <4>2. \A k \in DOMAIN g.ends : g.ends[k] \in Nat /\ g.ends[k] <= Len(lines)
        BY <4>1 DEF Logged, Gen
      <4>3. \A k \in DOMAIN g.ends : g.ends[k] <= Len(lines')
        BY <1>1, <4>2
      <4> QED
        BY <4>1, <4>3 DEF Logged
    <3> QED
      BY <3>1, <3>2
  <2>2. \A i \in DOMAIN gens : gens'[i].after = gens[i].after
    BY <1>2
  <2>3. \A i \in DOMAIN gens : \A g : g = gens'[i] => Over(g)' \/ (i = This /\ AtWork')
    <3> SUFFICES ASSUME NEW i \in DOMAIN gens, NEW g, g = gens'[i]
                 PROVE  Over(g)' \/ (i = This /\ AtWork')
      OBVIOUS
    <3>1. CASE i = This
      BY <1>2, <3>1 DEF Over, AtWork
    <3>2. CASE i # This
      BY <1>2, <3>2 DEF Over, HeardInv, LogGens
    <3> QED
      BY <3>1, <3>2
  <2>4. \A i, j \in DOMAIN gens : i <= j => gens'[i].after <= gens'[j].after
    BY <2>2 DEF HeardInv, LogGens
  <2> QED
    BY <1>2, <2>1, <2>3, <2>4 DEF LogGens
<1>4. Working'
  <2>1. CASE ~AtWork'
    BY <2>1 DEF Working
  <2>2. CASE phase' \in {"floor", "speaking"} /\ x.event = "turn"
             /\ x.voiced = voices' /\ Len(x.ends) < x.of /\ ~x.cut
    <3>1. This' # 0
      BY <1>1, <1>2
    <3> QED
      BY <1>2, <2>2, <3>1 DEF Working
  <2> QED
    BY <2>1, <2>2
<1>5. Remembers'
  <2>1. ~Whole(gens[This])
    BY NotYet DEF HeardInv
  <2>2. \A m : HeardIn(m)' <=> HeardIn(m) \/ (m \in x.voiced /\ Whole(x))
    <3>1. ASSUME NEW m, HeardIn(m)' PROVE HeardIn(m) \/ (m \in x.voiced /\ Whole(x))
      <4>1. PICK i \in DOMAIN gens : m \in gens'[i].voiced /\ Whole(gens'[i])
        BY <1>2, <3>1 DEF HeardIn, Whole
      <4> QED
        BY <1>2, <4>1 DEF HeardIn
    <3>2. ASSUME NEW m, HeardIn(m) PROVE HeardIn(m)'
      <4>1. PICK i \in DOMAIN gens : m \in gens[i].voiced /\ Whole(gens[i])
        BY <3>2 DEF HeardIn
      <4>2. gens'[i] = gens[i] /\ i \in DOMAIN gens'
        BY <1>2, <2>1, <4>1
      <4> QED
        BY <4>1, <4>2 DEF HeardIn, Whole
    <3>3. ASSUME NEW m, m \in x.voiced, Whole(x) PROVE HeardIn(m)'
      <4>1. This \in DOMAIN gens' /\ gens'[This] = x
        BY <1>1, <1>2
      <4> QED
        BY <3>3, <4>1 DEF HeardIn, Whole
    <3> QED
      BY <3>1, <3>2, <3>3
  <2> QED
    BY <2>2 DEF HeardInv, Remembers
<1> QED
  BY <1>3, <1>4, <1>5

HeardKept == LogTypes' /\ LogGens' /\ Working' /\ Remembers' /\ Grows

LEMMA HeardFacts ==
    ASSUME HeardInv
    PROVE  /\ lane = "cp" /\ moves \in Seq(Moves) /\ Len(moves) = newest /\ newest \in Nat
           /\ gens \in Seq(Gen) /\ lines \in Seq({"rep", "agent"})
           /\ \A g \in 0..newest + 1 : Guide(g) \in unvoiced => g \in 1..newest
BY DEF HeardInv, LaneInv, LaneTypes, Tokens, LogTypes

LEMMA GuideSentKeeps == ASSUME HeardInv, GuideSent PROVE HeardKept
<1>1. PICK m \in Moves : moves' = Append(moves, m)
  BY DEF GuideSent
<1>2. /\ gens' = gens /\ lines' = lines /\ lane' = lane /\ newest' = newest + 1
      /\ voices' = voices /\ said' = said /\ closed' = closed /\ phase' = phase
      /\ unvoiced' = unvoiced \cup {Guide(newest')}
  BY DEF GuideSent, Guidance, generation
<1>3. /\ moves' \in Seq(Moves) /\ Extends(moves, moves') /\ Len(moves') = Len(moves) + 1
  BY <1>1, HeardFacts, Longer
<1>4. LogTypes'
  BY <1>2, <1>3, HeardFacts DEF LogTypes
<1>5. \A g \in 0..newest : Guide(g) \in unvoiced' => Guide(g) \in unvoiced
  BY <1>2, HeardFacts DEF Guide
<1>6. newest' \in Nat /\ newest <= newest' /\ Len(lines) <= Len(lines')
  BY <1>2, HeardFacts
<1>7. LogGens' /\ Working' /\ Remembers'
  BY <1>2, <1>4, <1>5, <1>6, Untouched
<1>8. Grows
  BY <1>2, <1>3, HeardFacts, Same DEF Grows
<1> QED
  BY <1>4, <1>7, <1>8 DEF HeardKept

(* A line, or none, and the generations as they were. *)
LEMMA LineKeeps ==
    ASSUME HeardInv, lines' = lines \/ lines' = Append(lines, "rep")
                       \/ lines' = Append(lines, "agent"),
           UNCHANGED <<moves, gens, lane, newest, voices, said, unvoiced>>,
           closed => closed',
           \/ phase' = phase
           \/ phase \in {"floor", "speaking"} /\ phase' \in {"floor", "speaking"}
           \/ ~AtWork /\ ~AtWork'
    PROVE  HeardKept
<1>1. lines' \in Seq({"rep", "agent"}) /\ Extends(lines, lines') /\ Len(lines) <= Len(lines')
  <2>1. CASE lines' = lines
    BY <2>1, HeardFacts, Same
  <2>2. CASE lines' = Append(lines, "rep")
    BY <2>2, HeardFacts, Longer
  <2>3. CASE lines' = Append(lines, "agent")
    BY <2>3, HeardFacts, Longer
  <2> QED
    BY <2>1, <2>2, <2>3
<1>2. LogTypes'
  BY <1>1, HeardFacts DEF LogTypes
<1>3. newest' \in Nat /\ newest <= newest'
  BY HeardFacts
<1>4. LogGens' /\ Working' /\ Remembers'
  BY <1>1, <1>2, <1>3, Untouched
<1>5. Grows
  BY <1>1, HeardFacts, Same DEF Grows
<1> QED
  BY <1>2, <1>4, <1>5 DEF HeardKept

LEMMA OthersKeep ==
    ASSUME HeardInv, RepSays \/ RepCloses \/ VerbatimLine \/ Epoch \/ Speaks PROVE HeardKept
<1> USE DEF generation, memory, log
<1>1. CASE RepSays
  BY <1>1, LineKeeps DEF RepSays, RepLine
<1>2. CASE RepCloses
  BY <1>2, LineKeeps DEF RepCloses, Closes
<1>3. CASE VerbatimLine
  BY <1>3, LineKeeps DEF VerbatimLine, VerbatimHeard
<1>4. CASE Epoch
  BY <1>4, LineKeeps DEF Epoch, EpochMoves
<1>5. CASE Speaks
  BY <1>5, LineKeeps DEF Speaks, TakesFloor
<1> QED
  BY <1>1, <1>2, <1>3, <1>4, <1>5

LEMMA RequestedKeeps == ASSUME HeardInv, Requested PROVE HeardKept
<1> USE DEF memory
<1>1. /\ Serves /\ moves' = moves /\ lines' = lines
      /\ gens' = IF phase' = "asked" THEN Append(gens, Asked) ELSE gens
      /\ UNCHANGED <<lane, closed, newest, said, unvoiced>>
      /\ phase \in {"idle", "loop"}
  BY DEF Requested, Serves
<1>2. CASE Moot(pending[First(pending)])
  <2>1. phase' \in {"idle", "loop"} /\ voices' = voices
    BY <1>1, <1>2 DEF Serves
  <2> QED
    BY <1>1, <2>1, LineKeeps DEF AtWork
<1>3. CASE ~Moot(pending[First(pending)])
  <2>1. phase' = "asked" /\ voices' = Voices(pending[First(pending)])
    BY <1>1, <1>3 DEF Serves
  <2>2. /\ gens' = Append(gens, Asked) /\ voices' \subseteq {newest}
        /\ Guide(newest) \in unvoiced => newest \in voices'
    BY <1>1, <2>1 DEF Voices
  <2>3. Asked \in Gen /\ Asked.after = newest /\ Asked.event = "request" /\ Asked.of = 0
        /\ Asked.voiced = {} /\ Asked.ends = <<>> /\ ~Asked.cut
    BY HeardFacts DEF Asked, Gen
  <2>4. /\ gens' \in Seq(Gen) /\ Len(gens') = Len(gens) + 1 /\ Len(gens) \in Nat
        /\ DOMAIN gens = 1..Len(gens) /\ DOMAIN gens' = 1..Len(gens')
        /\ gens'[Len(gens')] = Asked /\ \A i \in DOMAIN gens : gens'[i] = gens[i]
    BY <2>2, <2>3, HeardFacts
  <2>5. LogTypes'
    BY <1>1, <2>4, HeardFacts DEF LogTypes
  <2>6. Grows
    <3>1. Extends(moves, moves') /\ Extends(lines, lines')
      BY <1>1, HeardFacts, Same
    <3>2. \A i \in DOMAIN gens' \ DOMAIN gens : i = Len(gens')
      BY <2>4
    <3> QED
      BY <2>4, <3>1, <3>2 DEF Grows
  <2>7. LogGens'
    <3>1. \A i \in DOMAIN gens : /\ Logged(gens[i]) /\ Over(gens[i])
                                 /\ gens[i].after <= newest
      BY <1>1 DEF HeardInv, LogGens, AtWork, Logged
    <3>2. \A i \in DOMAIN gens' : i \in DOMAIN gens \/ i = Len(gens')
      BY <2>4
    <3>3. \A i \in DOMAIN gens' : \A g : g = gens'[i] => Logged(g)'
      <4> SUFFICES ASSUME NEW i \in DOMAIN gens', NEW g, g = gens'[i] PROVE Logged(g)'
        OBVIOUS
      <4>1. CASE i \in DOMAIN gens
        BY <1>1, <2>4, <3>1, <4>1 DEF Logged
      <4>2. CASE i = Len(gens')
        <5>1. g.after = newest /\ g.voiced = {} /\ g.ends = <<>> /\ g.of = 0
          BY <2>3, <2>4, <4>2
        <5> QED
          BY <1>1, <5>1, HeardFacts DEF Logged
      <4> QED
        BY <3>2, <4>1, <4>2
    <3>4. \A i \in DOMAIN gens' : \A g : g = gens'[i] => Over(g)' \/ (i = This' /\ AtWork')
      BY <1>1, <2>1, <2>4, <3>1, <3>2 DEF Over, This, AtWork
    <3>5. \A i \in DOMAIN gens' : \A j \in DOMAIN gens' :
             i <= j => gens'[i].after <= gens'[j].after
      <4> SUFFICES ASSUME NEW i \in DOMAIN gens', NEW j \in DOMAIN gens', i <= j
                   PROVE  gens'[i].after <= gens'[j].after
        OBVIOUS
      <4>1. CASE j \in DOMAIN gens
        BY <2>4, <4>1 DEF HeardInv, LogGens
      <4>2. CASE i \in DOMAIN gens /\ j = Len(gens')
        BY <2>3, <2>4, <3>1, <4>2
      <4>3. CASE i = Len(gens') /\ j = Len(gens')
        BY <2>3, <2>4, <4>3, HeardFacts
      <4> QED
        BY <2>4, <3>2, <4>1, <4>2, <4>3
    <3> QED
      BY <3>3, <3>4, <3>5 DEF LogGens
  <2>8. Working'
    <3>1. This' # 0 /\ gens'[This'] = Asked
      BY <2>4 DEF This
    <3> QED
      BY <1>1, <2>1, <2>2, <2>3, <3>1 DEF Working, Guide
  <2>9. Remembers'
    <3>1. \A m : HeardIn(m)' <=> HeardIn(m)
      <4>1. ASSUME NEW m, HeardIn(m)' PROVE HeardIn(m)
        <5>1. PICK i \in DOMAIN gens' : m \in gens'[i].voiced /\ Whole(gens'[i])
          BY <4>1 DEF HeardIn, Whole
        <5>2. i \in DOMAIN gens
          BY <2>3, <2>4, <5>1
        <5> QED
          BY <2>4, <5>1, <5>2 DEF HeardIn
      <4>2. ASSUME NEW m, HeardIn(m) PROVE HeardIn(m)'
        <5>1. PICK i \in DOMAIN gens : m \in gens[i].voiced /\ Whole(gens[i])
          BY <4>2 DEF HeardIn
        <5>2. i \in DOMAIN gens' /\ gens'[i] = gens[i]
          BY <2>4
        <5> QED
          BY <5>1, <5>2 DEF HeardIn, Whole
      <4> QED
        BY <4>1, <4>2
    <3> QED
      BY <1>1, <3>1 DEF HeardInv, Remembers
  <2> QED
    BY <2>5, <2>6, <2>7, <2>8, <2>9 DEF HeardKept
<1> QED
  BY <1>2, <1>3

LEMMA WorkKept ==
    ASSUME HeardInv, AtWork, NEW x \in Gen, gens' = [gens EXCEPT ![This] = x],
           x.after = gens[This].after, x.voiced \subseteq {x.after}, x.event # "request",
           x.voiced = gens[This].voiced \/ gens[This].event = "request",
           Len(x.ends) <= x.of, \A k \in DOMAIN x.ends : x.ends[k] <= Len(lines'),
           lines' = lines \/ lines' = Append(lines, "agent"),
           UNCHANGED <<moves, lane, newest, closed>>,
           \/ /\ phase' \in {"floor", "speaking"} /\ x.event = "turn"
              /\ x.voiced = voices' /\ Len(x.ends) < x.of /\ ~x.cut
           \/ ~AtWork' /\ (x.event = "cancelled" \/ x.of = 0 \/ x.cut
                             \/ Len(x.ends) = x.of \/ closed),
           said \subseteq said', Whole(x) => x.voiced \subseteq said',
           \A m \in said' \ said : closed \/ (m \in x.voiced /\ Whole(x))
    PROVE  HeardKept
<1>1. /\ gens' \in Seq(Gen) /\ Len(gens') = Len(gens) /\ This \in DOMAIN gens
      /\ DOMAIN gens' = DOMAIN gens /\ gens'[This] = x
      /\ \A i \in DOMAIN gens : i # This => gens'[i] = gens[i]
  BY HeardFacts DEF HeardInv, Working, This
<1>2. lines' \in Seq({"rep", "agent"}) /\ Extends(lines, lines')
  <2>1. CASE lines' = lines
    BY <2>1, HeardFacts, Same
  <2>2. CASE lines' = Append(lines, "agent")
    BY <2>2, HeardFacts, Longer
  <2> QED
    BY <2>1, <2>2
<1>3. Len(lines) <= Len(lines')
  BY <1>2 DEF Extends
<1>4. LogTypes'
  BY <1>1, <1>2, HeardFacts DEF LogTypes
<1>5. LogGens' /\ Working' /\ Remembers'
  BY <1>3, <1>4, Changed
<1>6. Grows
  <2>1. Extends(moves, moves')
    BY HeardFacts, Same
  <2>2. gens[This].event = "request" => x.voiced \subseteq {gens[This].after}
    OBVIOUS
  <2> QED
    BY <1>1, <1>2, <2>1, <2>2, HeardFacts DEF Grows
<1> QED
  BY <1>4, <1>5, <1>6 DEF HeardKept

LEMMA ThisIs ==
    ASSUME HeardInv, AtWork
    PROVE  /\ This \in DOMAIN gens /\ gens[This] \in Gen /\ Logged(gens[This])
           /\ phase = "asked" =>
                /\ gens[This].event = "request" /\ gens[This].of = 0
                /\ gens[This].ends = <<>> /\ voices \subseteq {gens[This].after}
                /\ ~gens[This].cut
           /\ phase # "asked" =>
                /\ gens[This].event = "turn" /\ gens[This].voiced = voices
                /\ Len(gens[This].ends) < gens[This].of /\ ~gens[This].cut
<1>1. This \in DOMAIN gens
  BY HeardFacts DEF HeardInv, Working, This
<1> QED
  BY <1>1, HeardFacts DEF HeardInv, Working, LogGens

LEMMA CancelsKeep == ASSUME HeardInv, CancelledEpoch \/ CancelledStale PROVE HeardKept
<1> DEFINE x == [gens[This] EXCEPT !.event = "cancelled"]
<1>1. /\ AtWork /\ ~AtWork' /\ gens' = [gens EXCEPT ![This].event = "cancelled"]
      /\ UNCHANGED <<moves, lines, lane, newest, closed, said>>
  BY DEF CancelledEpoch, CancelledStale, StaleEpoch, StaleFloor, Ends, AtWork, memory
<1>2. gens' = [gens EXCEPT ![This] = x]
  BY <1>1
<1>3. /\ gens[This] \in Gen /\ Logged(gens[This])
  BY <1>1, ThisIs
<1>4. /\ x \in Gen /\ x.after = gens[This].after /\ x.voiced = gens[This].voiced
      /\ x.event = "cancelled" /\ x.of = gens[This].of /\ x.ends = gens[This].ends
  BY <1>3 DEF Gen
<1>5. /\ x.voiced \subseteq {x.after} /\ Len(x.ends) <= x.of
      /\ \A k \in DOMAIN x.ends : x.ends[k] <= Len(lines') /\ ~Whole(x)
  BY <1>1, <1>3, <1>4 DEF Logged, Whole
<1> HIDE DEF x
<1> QED
  BY <1>1, <1>2, <1>4, <1>5, WorkKept DEF Whole

LEMMA TurnLoggedKeeps == ASSUME HeardInv, TurnLogged PROVE HeardKept
<1>1. PICK acts \in BOOLEAN : \E n \in 0..MaxSentences :
        /\ Turned(acts, n > 0, FALSE)
        /\ gens' = [gens EXCEPT ![This].event = "turn", ![This].of = n,
                                ![This].voiced = IF acts THEN voices ELSE {}]
        /\ UNCHANGED <<moves, lines>>
  BY DEF TurnLogged
<1>2. PICK n \in 0..MaxSentences :
        /\ Turned(acts, n > 0, FALSE)
        /\ gens' = [gens EXCEPT ![This].event = "turn", ![This].of = n,
                                ![This].voiced = IF acts THEN voices ELSE {}]
        /\ UNCHANGED <<moves, lines>>
  BY <1>1
<1> DEFINE spoken == IF acts THEN voices ELSE {}
           x == [gens[This] EXCEPT !.event = "turn", !.of = n, !.voiced = spoken]
<1>3. /\ phase = "asked" /\ UNCHANGED <<lane, closed, newest, said>>
      /\ IF n > 0 THEN phase' = "floor" /\ voices' = spoken ELSE ~AtWork'
  BY <1>2 DEF Turned, Ends, AtWork
<1>4. AtWork
  BY <1>3 DEF AtWork
<1>5. /\ This \in DOMAIN gens /\ gens[This] \in Gen /\ Logged(gens[This])
      /\ gens[This].event = "request" /\ gens[This].ends = <<>>
      /\ voices \subseteq {gens[This].after} /\ ~gens[This].cut
  BY <1>3, <1>4, ThisIs
<1>6. gens' = [gens EXCEPT ![This] = x]
  BY <1>2, <1>5, HeardFacts DEF Gen
<1>7. n \in Nat /\ spoken \subseteq {gens[This].after} /\ spoken \in SUBSET Nat
  BY <1>5 DEF Gen
<1> HIDE DEF spoken
<1>8. /\ x \in Gen /\ x.after = gens[This].after /\ x.voiced = spoken
      /\ x.event = "turn" /\ x.of = n /\ x.ends = <<>> /\ ~x.cut
  BY <1>5, <1>7 DEF Gen
<1> HIDE DEF x
<1>9. Len(x.ends) = 0 /\ DOMAIN x.ends = {} /\ ~Whole(x)
  BY <1>8 DEF Whole
<1>10. /\ Len(x.ends) <= x.of /\ x.voiced \subseteq {x.after} /\ x.event # "request"
       /\ \A k \in DOMAIN x.ends : x.ends[k] <= Len(lines')
  BY <1>7, <1>8, <1>9
<1>11. \/ /\ phase' \in {"floor", "speaking"} /\ x.event = "turn"
          /\ x.voiced = voices' /\ Len(x.ends) < x.of /\ ~x.cut
       \/ ~AtWork' /\ (x.event = "cancelled" \/ x.of = 0 \/ x.cut
                          \/ Len(x.ends) = x.of \/ closed)
  BY <1>3, <1>7, <1>8, <1>9
<1>12. UNCHANGED <<moves, lines, lane, newest, closed, said>>
  BY <1>2, <1>3
<1> QED
  BY <1>4, <1>5, <1>6, <1>8, <1>9, <1>10, <1>11, <1>12, WorkKept

(* A sentence is delivered, whole or cut; or the call closed and what is   *)
(* left is not said.                                                       *)
LEMMA SpeakingIs ==
    ASSUME HeardInv, phase = "speaking"
    PROVE  /\ AtWork /\ This \in DOMAIN gens /\ gens[This] \in Gen /\ Logged(gens[This])
           /\ gens[This].event = "turn" /\ gens[This].voiced = voices
           /\ Len(gens[This].ends) < gens[This].of /\ ~gens[This].cut
<1>1. AtWork
  BY DEF AtWork
<1> QED
  BY <1>1, ThisIs

LEMMA HeardWhole ==
    ASSUME HeardInv, phase = "speaking", Delivered(TRUE)
    PROVE  LET x == [gens[This] EXCEPT !.ends = Append(@, Len(lines'))]
           IN  /\ x \in Gen /\ gens' = [gens EXCEPT ![This] = x]
               /\ x.after = gens[This].after /\ x.voiced = gens[This].voiced
               /\ x.event = "turn" /\ ~x.cut /\ x.of = gens[This].of
               /\ Len(x.ends) = Len(gens[This].ends) + 1
               /\ \A k \in DOMAIN x.ends : x.ends[k] <= Len(lines')
<1> DEFINE g == gens[This]
           x == [g EXCEPT !.ends = Append(@, Len(lines'))]
<1>1. /\ This \in DOMAIN gens /\ g \in Gen /\ Logged(g) /\ g.event = "turn" /\ ~g.cut
  BY SpeakingIs
<1>2. /\ lines' = Append(lines, "agent")
      /\ gens' = [gens EXCEPT ![This].ends = Append(@, Len(lines'))]
  BY DEF Delivered
<1>3. Len(lines) \in Nat /\ Len(lines') = Len(lines) + 1
  BY <1>2, HeardFacts
<1>4. gens' = [gens EXCEPT ![This] = x]
  BY <1>2
<1> HIDE DEF g
<1>5. g.ends \in Seq(Nat)
  BY <1>1 DEF Gen
<1>6. Append(g.ends, Len(lines')) \in Seq(Nat)
  BY <1>3, <1>5
<1>7. /\ x \in Gen /\ x.after = g.after /\ x.voiced = g.voiced /\ x.event = g.event
      /\ x.cut = g.cut /\ x.of = g.of /\ x.ends = Append(g.ends, Len(lines'))
  BY <1>1, <1>6 DEF Gen
<1>8. Len(x.ends) = Len(g.ends) + 1
  BY <1>5, <1>7
<1>9. \A k \in DOMAIN x.ends : x.ends[k] <= Len(lines')
  <2> SUFFICES ASSUME NEW k \in DOMAIN x.ends PROVE x.ends[k] <= Len(lines')
    OBVIOUS
  <2>1. k \in DOMAIN g.ends \/ k = Len(g.ends) + 1
    BY <1>5, <1>7, <1>8
  <2>2. CASE k \in DOMAIN g.ends
    <3>1. x.ends[k] = g.ends[k] /\ g.ends[k] \in Nat /\ g.ends[k] <= Len(lines)
      BY <1>1, <1>5, <1>7, <2>2 DEF Logged
    <3> QED
      BY <1>3, <3>1
  <2>3. CASE k = Len(g.ends) + 1
    <3>1. x.ends[k] = Len(lines')
      BY <1>5, <1>7, <2>3
    <3> QED
      BY <1>3, <3>1
  <2> QED
    BY <2>1, <2>2, <2>3
<1> HIDE DEF x
<1> QED
  BY <1>1, <1>4, <1>7, <1>8, <1>9 DEF g, x

LEMMA SentencesKeep == ASSUME HeardInv, SentenceHeard PROVE HeardKept
<1> DEFINE x == [gens[This] EXCEPT !.ends = Append(@, Len(lines'))]
<1>1. /\ phase = "speaking" /\ Delivered(TRUE) /\ UNCHANGED vars
      /\ gens[This].of - Len(gens[This].ends) > 1
  BY DEF SentenceHeard, Left
<1>2. /\ x \in Gen /\ gens' = [gens EXCEPT ![This] = x]
      /\ x.after = gens[This].after /\ x.voiced = gens[This].voiced
      /\ x.event = "turn" /\ ~x.cut /\ x.of = gens[This].of
      /\ Len(x.ends) = Len(gens[This].ends) + 1
      /\ \A k \in DOMAIN x.ends : x.ends[k] <= Len(lines')
  BY <1>1, HeardWhole
<1> HIDE DEF x
<1>3. /\ AtWork /\ gens[This] \in Gen /\ Logged(gens[This]) /\ gens[This].voiced = voices
  BY <1>1, SpeakingIs
<1>4. /\ UNCHANGED <<lane, newest, closed, said, voices, phase>>
      /\ UNCHANGED moves /\ lines' = Append(lines, "agent")
  BY <1>1 DEF vars, Delivered
<1>5. Len(gens[This].ends) \in Nat /\ gens[This].of \in Nat
  BY <1>3 DEF Gen
<1>6. Len(x.ends) < x.of /\ Len(x.ends) <= x.of /\ ~Whole(x)
  BY <1>1, <1>2, <1>5 DEF Whole
<1>7. x.voiced \subseteq {x.after} /\ phase' = "speaking" /\ x.voiced = voices'
  BY <1>1, <1>2, <1>3, <1>4 DEF Logged
<1> QED
  BY <1>2, <1>3, <1>4, <1>6, <1>7, WorkKept

LEMMA TurnHeardKeeps == ASSUME HeardInv, TurnHeard PROVE HeardKept
<1>1. /\ phase = "speaking" /\ ~AtWork' /\ said' = said \cup voices
      /\ UNCHANGED <<lane, newest, closed, moves>>
  BY DEF TurnHeard, Spoken, Ends, AtWork, Delivered, log
<1>2. /\ AtWork /\ This \in DOMAIN gens /\ gens[This] \in Gen /\ Logged(gens[This])
      /\ gens[This].event = "turn" /\ gens[This].voiced = voices
      /\ Len(gens[This].ends) < gens[This].of /\ ~gens[This].cut
  BY <1>1, SpeakingIs
<1>3. Len(gens[This].ends) \in Nat /\ gens[This].of \in Nat
  BY <1>2 DEF Gen
<1>4. CASE (gens[This].of - Len(gens[This].ends) = 1 \/ closed) /\ Delivered(TRUE)
  <2> DEFINE x == [gens[This] EXCEPT !.ends = Append(@, Len(lines'))]
  <2>1. /\ x \in Gen /\ gens' = [gens EXCEPT ![This] = x]
        /\ x.after = gens[This].after /\ x.voiced = gens[This].voiced
        /\ x.event = "turn" /\ ~x.cut /\ x.of = gens[This].of
        /\ Len(x.ends) = Len(gens[This].ends) + 1
        /\ \A k \in DOMAIN x.ends : x.ends[k] <= Len(lines')
    BY <1>1, <1>4, HeardWhole
  <2> HIDE DEF x
  <2>2. Len(x.ends) <= x.of /\ (Len(x.ends) = x.of \/ closed)
    BY <1>2, <1>3, <1>4, <2>1
  <2>3. Whole(x) \/ closed
    BY <1>2, <1>3, <2>1, <2>2 DEF Whole
  <2>4. lines' = Append(lines, "agent")
    BY <1>4 DEF Delivered
  <2>5. x.voiced \subseteq {x.after}
    BY <1>2, <2>1 DEF Logged
  <2> QED
    BY <1>1, <1>2, <2>1, <2>2, <2>3, <2>4, <2>5, WorkKept
<1>5. CASE closed /\ UNCHANGED log
  <2>1. gens' = [gens EXCEPT ![This] = gens[This]] /\ lines' = lines
    BY <1>5, HeardFacts DEF log
  <2>2. \A k \in DOMAIN gens[This].ends : gens[This].ends[k] <= Len(lines')
    BY <1>2, <2>1 DEF Logged
  <2>3. /\ gens[This].voiced \subseteq {gens[This].after}
        /\ Len(gens[This].ends) <= gens[This].of /\ ~Whole(gens[This])
    BY <1>2, <1>3 DEF Logged, Whole
  <2> DEFINE x == gens[This]
  <2>4. x \in Gen /\ gens' = [gens EXCEPT ![This] = x] /\ x.event # "request"
    BY <1>2, <2>1
  <2> QED
    BY <1>1, <1>2, <1>5, <2>1, <2>2, <2>3, <2>4, WorkKept
<1> QED
  BY <1>4, <1>5 DEF TurnHeard, Left

LEMMA TurnCutKeeps == ASSUME HeardInv, TurnCut PROVE HeardKept
<1> DEFINE x == [gens[This] EXCEPT !.cut = TRUE]
<1>1. /\ phase = "speaking" /\ ~AtWork' /\ lines' = Append(lines, "agent")
      /\ gens' = [gens EXCEPT ![This].cut = TRUE]
      /\ UNCHANGED <<lane, newest, closed, moves, said>>
  BY DEF TurnCut, Cut, Ends, AtWork, Delivered, memory
<1>2. /\ AtWork /\ gens[This] \in Gen /\ Logged(gens[This])
      /\ gens[This].event = "turn"
  BY <1>1, SpeakingIs
<1>3. gens' = [gens EXCEPT ![This] = x]
  BY <1>1
<1>4. /\ x \in Gen /\ x.after = gens[This].after /\ x.voiced = gens[This].voiced
      /\ x.event = "turn" /\ x.of = gens[This].of /\ x.ends = gens[This].ends /\ x.cut
  BY <1>2 DEF Gen
<1> HIDE DEF x
<1>5. Len(lines) \in Nat /\ Len(lines') = Len(lines) + 1
  BY <1>1, HeardFacts
<1>6. x.voiced \subseteq {x.after} /\ Len(x.ends) <= x.of /\ ~Whole(x)
  BY <1>2, <1>4 DEF Logged, Whole
<1>7. \A k \in DOMAIN x.ends : x.ends[k] <= Len(lines')
  <2>1. x.ends \in Seq(Nat)
    BY <1>4 DEF Gen
  <2>2. \A k \in DOMAIN x.ends : x.ends[k] \in Nat /\ x.ends[k] <= Len(lines)
    BY <1>2, <1>4, <2>1 DEF Logged
  <2> QED
    BY <1>5, <2>2
<1> QED
  BY <1>1, <1>2, <1>3, <1>4, <1>6, <1>7, WorkKept DEF Whole

LEMMA HeardStep == ASSUME HeardInv, HStep PROVE HeardKept
BY GuideSentKeeps, OthersKeep, RequestedKeeps, CancelsKeep, TurnLoggedKeeps,
   SentencesKeep, TurnHeardKeeps, TurnCutKeeps DEF HStep

LEMMA HeardNext == HeardInv /\ [HNext]_hvars => HeardInv'
<1> SUFFICES ASSUME HeardInv, [HNext]_hvars PROVE HeardInv'
  OBVIOUS
<1>1. CASE HNext
  <2>1. LaneInv'
    BY <1>1, StepOfLane, LaneStep DEF HeardInv, HNext
  <2>2. HeardKept
    BY <1>1, HeardStep DEF HNext
  <2> QED
    BY <1>1, <2>1, <2>2 DEF HeardInv, HeardKept, HNext
<1>2. CASE UNCHANGED hvars
  <2>1. UNCHANGED <<vars, moves, gens, lines, fates>>
    BY <1>2 DEF hvars, log
  <2>2. LaneInv'
    BY <2>1, LaneStep DEF HeardInv
  <2>3. LogTypes' /\ LogGens' /\ Working' /\ Remembers'
    BY <2>1 DEF vars, HeardInv, LogTypes, LogGens, Logged, Over, AtWork, This, Working,
                Remembers, HeardIn, Whole, Guide
  <2>4. Fates' = Fates
    BY <2>1 DEF Fates, Fate, FateIn, Rendered, Dead, Playing, Superseded, Unknown
  <2> QED
    BY <2>1, <2>2, <2>3, <2>4 DEF HeardInv
<1> QED
  BY <1>1, <1>2

-----------------------------------------------------------------------------
(* What the log says of a GUIDE. *)

NotVoiced(m) == \A i \in DOMAIN gens : m \notin gens[i].voiced

FirstHeard(i, m) ==
    /\ i \in DOMAIN gens /\ m \in gens[i].voiced /\ Whole(gens[i])
    /\ \A j \in DOMAIN gens : m \in gens[j].voiced /\ Whole(gens[j]) => i <= j

FatesRead ==
    /\ DOMAIN fates = DOMAIN moves
    /\ \A m \in DOMAIN moves :
         /\ fates[m].state = "heard" <=> HeardIn(m)
         /\ HeardIn(m) => \E i \in DOMAIN gens :
                             FirstHeard(i, m) /\ fates[m] = FateIn(gens[i])
         /\ fates[m].state = "playing" =>
               \E i \in DOMAIN gens : m \in gens[i].voiced /\ (~Over(gens[i]) \/ closed)
         /\ fates[m].state = "none" => NotVoiced(m) /\ (m = Len(moves) \/ Rendered(m))
         /\ fates[m].state = "superseded" =>
               NotVoiced(m) /\ m < Len(moves) /\ ~Rendered(m) /\ fates[m] = Superseded
         /\ NotVoiced(m) /\ m < Len(moves) /\ ~Rendered(m) => fates[m] = Superseded
         /\ fates[m].at \in 0..Len(lines)
         /\ fates[m].state \in {"heard", "playing", "dead", "superseded", "none"}

LEMMA FateOfTurn ==
    ASSUME HeardInv, NEW i \in DOMAIN gens, gens[i].voiced # {}
    PROVE  /\ FateIn(gens[i]).state = "heard" <=> Whole(gens[i])
           /\ FateIn(gens[i]).state \in {"heard", "playing", "dead"}
           /\ FateIn(gens[i]).state = "playing" => ~Over(gens[i]) \/ closed
           /\ FateIn(gens[i]).at \in 0..Len(lines)
<1> DEFINE g == gens[i]
           T == {g.ends[k] : k \in DOMAIN g.ends}
<1>1. /\ g \in Gen /\ Logged(g) /\ g.event # "request" /\ Len(lines) \in Nat
  BY HeardFacts DEF HeardInv, LogGens, Logged
<1>2. CASE g.event = "cancelled" \/ g.of = 0 \/ g.cut
  <2>1. FateIn(g) = Dead /\ ~Whole(g)
    BY <1>2 DEF FateIn, Whole
  <2> QED
    BY <1>1, <2>1 DEF Dead
<1>3. CASE ~(g.event = "cancelled" \/ g.of = 0 \/ g.cut) /\ Len(g.ends) = g.of
  <2>1. FateIn(g) = [state |-> "heard", at |-> Max(T)] /\ Whole(g)
    BY <1>3 DEF FateIn, Whole
  <2>2. T \in SUBSET (0..Len(lines)) /\ T # {}
    <3>1. g.ends \in Seq(Nat) /\ Len(g.ends) \in Nat /\ Len(g.ends) # 0
      BY <1>1, <1>3 DEF Gen
    <3>2. \A k \in DOMAIN g.ends : g.ends[k] \in Nat /\ g.ends[k] <= Len(lines)
      BY <1>1, <3>1 DEF Logged
    <3>3. 1 \in DOMAIN g.ends
      BY <3>1
    <3>4. \A k \in DOMAIN g.ends : g.ends[k] \in 0..Len(lines)
      BY <1>1, <3>2
    <3>5. g.ends[1] \in T
      BY <3>3
    <3> QED
      BY <3>4, <3>5
  <2> HIDE DEF T, g
  <2>3. Max(T) \in 0..Len(lines)
    BY <1>1, <2>2, MaxIn
  <2> QED
    BY <2>1, <2>3 DEF g
<1>4. CASE ~(g.event = "cancelled" \/ g.of = 0 \/ g.cut) /\ Len(g.ends) # g.of
  <2>1. FateIn(g) = Playing /\ ~Whole(g) /\ (~Over(g) \/ closed)
    BY <1>4 DEF FateIn, Whole, Over
  <2> QED
    BY <1>1, <2>1 DEF Playing
<1> QED
  BY <1>2, <1>3, <1>4

LEMMA FateRead ==
    ASSUME HeardInv, NEW m \in DOMAIN moves
    PROVE  LET f == Fate(m)
           IN  /\ f.state = "heard" <=> HeardIn(m)
               /\ HeardIn(m) => \E i \in DOMAIN gens : FirstHeard(i, m) /\ f = FateIn(gens[i])
               /\ f.state = "playing" =>
                     \E i \in DOMAIN gens : m \in gens[i].voiced /\ (~Over(gens[i]) \/ closed)
               /\ f.state = "none" => NotVoiced(m) /\ (m = Len(moves) \/ Rendered(m))
               /\ f.state = "superseded" =>
                     NotVoiced(m) /\ m < Len(moves) /\ ~Rendered(m) /\ f = Superseded
               /\ NotVoiced(m) /\ m < Len(moves) /\ ~Rendered(m) => f = Superseded
               /\ f.at \in 0..Len(lines)
               /\ f.state \in {"heard", "playing", "dead", "superseded", "none"}
<1> DEFINE turns == {i \in DOMAIN gens : m \in gens[i].voiced}
           In(state) == {i \in turns : FateIn(gens[i]).state = state}
<1>1. /\ DOMAIN gens = 1..Len(gens) /\ Len(gens) \in Nat /\ Len(lines) \in Nat
      /\ m \in 1..Len(moves) /\ Len(moves) \in Nat
  BY HeardFacts
<1>2. \A i \in turns : /\ FateIn(gens[i]).state = "heard" <=> Whole(gens[i])
                       /\ FateIn(gens[i]).state \in {"heard", "playing", "dead"}
                       /\ FateIn(gens[i]).state = "playing" => ~Over(gens[i]) \/ closed
                       /\ FateIn(gens[i]).at \in 0..Len(lines)
  BY FateOfTurn
<1>3. /\ In("heard") = {i \in DOMAIN gens : m \in gens[i].voiced /\ Whole(gens[i])}
      /\ HeardIn(m) <=> In("heard") # {}
  BY <1>2 DEF HeardIn
<1>4. NotVoiced(m) <=> turns = {}
  BY DEF NotVoiced
<1>5. Fate(m) = IF In("heard") # {} THEN FateIn(gens[Min(In("heard"))])
                ELSE IF In("playing") # {} THEN Playing
                ELSE IF turns # {} THEN Dead
                ELSE IF m < Len(moves) /\ ~Rendered(m) THEN Superseded ELSE Unknown
  BY DEF Fate
<1>6. In("heard") \subseteq turns /\ In("playing") \subseteq turns
  OBVIOUS
<1>7. CASE In("heard") # {}
  <2> DEFINE i == Min(In("heard"))
  <2>1. In("heard") \in SUBSET (0..Len(gens))
    BY <1>1
  <2>2. i \in In("heard") /\ \A j \in In("heard") : i <= j
    <3> HIDE DEF In
    <3> QED
      BY <1>1, <1>7, <2>1, MinIn
  <2>3. Fate(m) = FateIn(gens[i])
    BY <1>5, <1>7
  <2> HIDE DEF i
  <2>4. i \in turns /\ FateIn(gens[i]).state = "heard" /\ Whole(gens[i])
    BY <1>2, <2>2
  <2>5. FirstHeard(i, m)
    BY <1>3, <2>2, <2>4 DEF FirstHeard
  <2>6. turns # {}
    BY <2>4
  <2> QED
    BY <1>2, <1>3, <1>4, <1>7, <2>3, <2>4, <2>5, <2>6
<1>8. CASE In("heard") = {} /\ In("playing") # {}
  <2>1. Fate(m) = Playing
    BY <1>5, <1>8
  <2>2. PICK i \in turns : FateIn(gens[i]).state = "playing"
    BY <1>8
  <2>3. ~Over(gens[i]) \/ closed
    BY <1>2, <2>2
  <2>4. turns # {}
    BY <2>2
  <2> QED
    BY <1>1, <1>3, <1>4, <1>8, <2>1, <2>2, <2>3, <2>4 DEF Playing
<1>9. CASE In("heard") = {} /\ In("playing") = {} /\ turns # {}
  <2>1. Fate(m) = Dead
    BY <1>5, <1>9
  <2> QED
    BY <1>1, <1>3, <1>4, <1>9, <2>1 DEF Dead
<1>10. CASE turns = {}
  <2>1. In("heard") = {} /\ In("playing") = {}
    BY <1>10
  <2>2. Fate(m) = IF m < Len(moves) /\ ~Rendered(m) THEN Superseded ELSE Unknown
    BY <1>5, <1>10, <2>1
  <2>3. m = Len(moves) \/ m < Len(moves)
    BY <1>1
  <2> QED
    BY <1>1, <1>3, <1>4, <1>10, <2>1, <2>2, <2>3 DEF Superseded, Unknown
<1> QED
  BY <1>6, <1>7, <1>8, <1>9, <1>10

LEMMA FatesKnown == HeardInv => FatesRead
<1> SUFFICES ASSUME HeardInv PROVE FatesRead
  OBVIOUS
<1>1. DOMAIN fates = DOMAIN moves /\ \A m \in DOMAIN moves : fates[m] = Fate(m)
  BY DEF HeardInv, Fates
<1> QED
  BY <1>1, FateRead DEF FatesRead

(* The lane and Slow agree (kernel/lanes.py, slow/heard.py). *)
LEMMA LaneAndSlowAgree == HeardInv => Agree
<1> SUFFICES ASSUME HeardInv PROVE Agree
  OBVIOUS
<1>1. FatesRead /\ DOMAIN moves = 1..newest /\ said \subseteq 1..newest
  BY FatesKnown, HeardFacts DEF HeardInv, LaneInv, LaneTypes
<1>2. \A m : m \in HeardOnes => HeardIn(m)
  BY <1>1 DEF HeardOnes, FatesRead
<1>3. \A m \in 1..newest : HeardIn(m) => m \in HeardOnes
  BY <1>1 DEF HeardOnes, FatesRead
<1> QED
  BY <1>1, <1>2, <1>3 DEF Agree, HeardInv, Remembers

(* A generation still open voices the newest GUIDE there was, if that      *)
(* waits for a voice.                                                      *)
LEMMA OpenVoices ==
    ASSUME HeardInv, NEW m, Rendered(m), Guide(m) \in unvoiced PROVE m \in voices
<1>1. PICK i \in DOMAIN gens : gens[i].after = m /\ gens[i].event = "request"
  BY DEF Rendered
<1>2. i = This /\ AtWork
  BY <1>1 DEF HeardInv, LogGens, Over
<1> QED
  BY <1>1, <1>2 DEF HeardInv, Working

(* Slow waits only for what can still be heard (slow/state.py). *)
LEMMA SlowWaits == HeardInv => WaitsHonest
<1> SUFFICES ASSUME HeardInv PROVE WaitsHonest
  OBVIOUS
<1>1. FatesRead /\ DOMAIN moves = 1..newest /\ Len(moves) = newest /\ newest \in Nat
  BY FatesKnown, HeardFacts
<1>2. \A m \in DOMAIN moves : fates[m].state = "playing" => ComesYet(m)
  <2> SUFFICES ASSUME NEW m \in DOMAIN moves, fates[m].state = "playing", ~closed
               PROVE  m \in voices
    BY DEF ComesYet
  <2>1. PICK i \in DOMAIN gens : m \in gens[i].voiced /\ ~Over(gens[i])
    BY <1>1 DEF FatesRead
  <2>2. i = This /\ AtWork
    BY <2>1 DEF HeardInv, LogGens
  <2>3. phase # "asked"
    BY <2>1, <2>2 DEF HeardInv, LogGens, Logged, Working
  <2> QED
    BY <2>1, <2>2, <2>3 DEF HeardInv, Working
<1>3. \A m \in DOMAIN moves : fates[m].state = "none" /\ Guide(m) \in unvoiced => ComesYet(m)
  BY <1>1, OpenVoices DEF FatesRead, ComesYet
<1>4. \A m \in DOMAIN moves : Shown(m) = "waiting" => ComesYet(m)
  <2> SUFFICES ASSUME NEW m \in DOMAIN moves, Shown(m) = "waiting" PROVE ComesYet(m)
    OBVIOUS
  <2>1. \/ fates[m].state = "playing"
        \/ fates[m].state = "none" /\ Guide(m) \in unvoiced
    <3>1. fates[m].state \in {"heard", "playing", "dead", "superseded", "none"}
      BY <1>1 DEF FatesRead
    <3> QED
      BY <3>1 DEF Shown
  <2> QED
    BY <1>2, <1>3, <2>1
<1>5. FinalPending => ComesYet(Max(Sends("final")))
  <2> SUFFICES ASSUME FinalPending PROVE ComesYet(Max(Sends("final")))
    OBVIOUS
  <2>1. Sends("final") \in SUBSET (0..newest) /\ Sends("final") # {}
    BY <1>1 DEF Sends, FinalPending
  <2>2. Max(Sends("final")) \in Sends("final")
    BY <1>1, <2>1, MaxIn
  <2>3. Max(Sends("final")) \in DOMAIN moves
    BY <2>2 DEF Sends
  <2> QED
    BY <1>2, <1>3, <2>3 DEF FinalPending
<1> QED
  BY <1>4, <1>5 DEF WaitsHonest

(* What the log says of a GUIDE, once it was heard whole or superseded, it *)
(* says for ever.                                                          *)
LEMMA HeardFirst ==
    ASSUME HeardInv, HeardInv', Grows, NEW m \in DOMAIN moves, HeardIn(m)
    PROVE  m \in DOMAIN moves' /\ HeardIn(m)' /\ fates'[m] = fates[m]
<1>1. FatesRead
  BY FatesKnown
<1>2. HeardInv' => FatesRead'
  BY FatesKnown, PTL
<1>3. FatesRead'
  BY <1>2
<1>4. \A i \in DOMAIN gens : Whole(gens[i]) => gens'[i] = gens[i] /\ i \in DOMAIN gens'
  <2> SUFFICES ASSUME NEW i \in DOMAIN gens, Whole(gens[i])
               PROVE  gens'[i] = gens[i] /\ i \in DOMAIN gens'
    OBVIOUS
  <2>1. gens'[i] = gens[i]
    BY NotYet DEF Grows, HeardInv
  <2>2. i \in 1..Len(gens) /\ Len(gens) <= Len(gens') /\ Len(gens) \in Nat
        /\ Len(gens') \in Nat /\ DOMAIN gens' = 1..Len(gens')
    BY HeardFacts DEF Grows, HeardInv, LogTypes
  <2> QED
    BY <2>1, <2>2
<1>5. m \in DOMAIN moves'
  <2>1. m \in 1..Len(moves) /\ Len(moves) <= Len(moves') /\ Len(moves) \in Nat
        /\ Len(moves') \in Nat /\ DOMAIN moves' = 1..Len(moves')
    BY HeardFacts DEF Grows, Extends, HeardInv, LogTypes
  <2> QED
    BY <2>1
<1>6. PICK i \in DOMAIN gens : FirstHeard(i, m) /\ fates[m] = FateIn(gens[i])
  BY <1>1 DEF FatesRead
<1>7. i \in DOMAIN gens' /\ m \in gens'[i].voiced /\ Whole(gens'[i]) /\ gens'[i] = gens[i]
  BY <1>4, <1>6 DEF FirstHeard
<1>8. HeardIn(m)'
  BY <1>7 DEF HeardIn, Whole
<1>9. PICK j \in DOMAIN gens' : FirstHeard(j, m)' /\ fates'[m] = FateIn(gens'[j])
  BY <1>3, <1>5, <1>8 DEF FatesRead, FateIn
<1>10. m \in gens'[j].voiced /\ Whole(gens'[j]) /\ j <= i
  BY <1>7, <1>9 DEF FirstHeard, Whole
<1>11. j = i
  <2>1. Len(gens) \in Nat /\ DOMAIN gens = 1..Len(gens) /\ i \in 1..Len(gens)
        /\ DOMAIN gens' = 1..Len(gens')
    BY HeardFacts DEF HeardInv, LogTypes
  <2>2. CASE j = This \/ j \notin DOMAIN gens
    BY <1>10, <2>1, <2>2 DEF This
  <2>3. CASE j \in DOMAIN gens /\ j # This
    <3>1. gens'[j] = gens[j]
      BY <2>3 DEF Grows
    <3>2. i <= j
      BY <1>6, <1>10, <2>3, <3>1 DEF FirstHeard
    <3> QED
      BY <1>10, <2>1, <2>3, <3>2
  <2> QED
    BY <2>2, <2>3
<1> QED
  BY <1>5, <1>6, <1>7, <1>8, <1>9, <1>11

LEMMA SupersededStays ==
    ASSUME HeardInv, HeardInv', Grows, NEW m \in DOMAIN moves, fates[m].state = "superseded"
    PROVE  m \in DOMAIN moves' /\ fates'[m] = fates[m]
<1>1. FatesRead
  BY FatesKnown
<1>2. HeardInv' => FatesRead'
  BY FatesKnown, PTL
<1>3. NotVoiced(m) /\ m < Len(moves) /\ ~Rendered(m) /\ fates[m] = Superseded
  BY <1>1 DEF FatesRead
<1>4. m \in DOMAIN moves' /\ m < Len(moves')
  <2>1. m \in 1..Len(moves) /\ Len(moves) <= Len(moves') /\ Len(moves) \in Nat
        /\ Len(moves') \in Nat /\ DOMAIN moves' = 1..Len(moves')
    BY HeardFacts DEF Grows, Extends, HeardInv, LogTypes
  <2> QED
    BY <1>3, <2>1
<1>5. Asked.voiced = {} /\ Asked.after = Len(moves)
  BY HeardFacts DEF Asked
<1>6. ASSUME NEW i \in DOMAIN gens'
      PROVE  /\ m \notin gens'[i].voiced
             /\ ~(gens'[i].after = m /\ gens'[i].event = "request")
  <2>1. CASE i \notin DOMAIN gens
    <3>1. gens'[i] = Asked
      BY <1>6, <2>1 DEF Grows
    <3>2. m # Len(moves)
      BY <1>3, HeardFacts
    <3> QED
      BY <1>5, <3>1, <3>2
  <2>2. CASE i \in DOMAIN gens /\ gens'[i] = gens[i]
    BY <1>3, <2>2 DEF NotVoiced, Rendered
  <2>3. CASE i \in DOMAIN gens /\ gens'[i] # gens[i]
    <3>1. /\ gens'[i].voiced = gens[i].voiced \/ gens[i].event = "request"
          /\ gens[i].event = "request" => gens'[i].voiced \subseteq {gens[i].after}
          /\ gens'[i].event # "request"
      BY <2>3 DEF Grows
    <3> QED
      BY <1>3, <2>3, <3>1 DEF NotVoiced, Rendered
  <2> QED
    BY <2>1, <2>2, <2>3
<1>7. NotVoiced(m)' /\ ~Rendered(m)'
  BY <1>6 DEF NotVoiced, Rendered
<1>8. fates'[m] = Superseded
  BY <1>2, <1>4, <1>7 DEF FatesRead, Superseded
<1> QED
  BY <1>3, <1>4, <1>8

LEMMA HeardInOrder ==
    ASSUME HeardInv, HeardInv', Grows, NEW m \in HeardOnes' \ HeardOnes, NEW k \in HeardOnes
    PROVE  k < m
<1>1. FatesRead
  BY FatesKnown
<1>2. HeardInv' => FatesRead'
  BY FatesKnown, PTL
<1>3. /\ DOMAIN moves = 1..newest /\ newest \in Nat /\ said \subseteq 1..newest
  BY HeardFacts DEF HeardInv, LaneInv, LaneTypes
<1>4. HeardIn(m)'
  BY <1>2 DEF HeardOnes, FatesRead
<1>5. ~HeardIn(m)
  <2> SUFFICES ASSUME HeardIn(m) PROVE FALSE
    OBVIOUS
  <2>1. m \in DOMAIN moves
    BY <1>3 DEF HeardInv, Remembers
  <2> QED
    BY <1>1, <2>1 DEF FatesRead, HeardOnes
<1>6. HeardIn(k)
  BY <1>1 DEF HeardOnes, FatesRead
<1>7. PICK i \in DOMAIN gens' : m \in gens'[i].voiced /\ Whole(gens'[i])
  BY <1>4 DEF HeardIn, Whole
<1>8. i \in DOMAIN gens /\ gens'[i] # gens[i]
  <2>1. Asked.voiced = {}
    BY DEF Asked
  <2>2. i \in DOMAIN gens
    BY <1>7, <2>1 DEF Grows
  <2> QED
    BY <1>5, <1>7, <2>2 DEF HeardIn
<1>9. i = This /\ gens'[i].after = gens[i].after
  BY <1>8 DEF Grows
<1>10. m = gens[This].after
  BY <1>7, <1>9 DEF HeardInv, LogGens, Logged
<1>11. PICK j \in DOMAIN gens : k \in gens[j].voiced /\ Whole(gens[j])
  BY <1>6 DEF HeardIn
<1>12. k = gens[j].after /\ gens[j].after <= gens[This].after
  <2>1. j <= This /\ This \in DOMAIN gens
    BY <1>8, <1>9, HeardFacts DEF This
  <2> QED
    BY <1>11, <2>1 DEF HeardInv, LogGens, Logged
<1>13. k \in Nat /\ m \in Nat /\ k # m
  <2>1. gens[j] \in Gen /\ gens[This] \in Gen
    BY <1>8, <1>9, <1>11, HeardFacts
  <2>2. k # m
    BY <1>5, <1>6
  <2> QED
    BY <1>10, <1>12, <2>1, <2>2 DEF Gen
<1> QED
  BY <1>10, <1>12, <1>13

LEMMA AnswersStay ==
    ASSUME HeardInv, HeardInv', Grows, NEW move, Sent(move) = "answered"
    PROVE  Sent(move)' = "answered"
<1>1. FatesRead
  BY FatesKnown
<1>2. PICK m \in Sends(move) : Shown(m) = "answered"
  BY DEF Sent
<1>3. m \in DOMAIN moves /\ moves[m] = move
  BY <1>2 DEF Sends
<1>4. fates[m].state \in {"heard", "playing", "dead", "superseded", "none"}
  BY <1>1, <1>3 DEF FatesRead
<1>5. /\ fates[m].state = "heard"
      /\ \E n \in fates[m].at + 1..Len(lines) : lines[n] = "rep"
  BY <1>2, <1>4 DEF Shown
<1>6. PICK n \in fates[m].at + 1..Len(lines) : lines[n] = "rep"
  BY <1>5
<1>7. HeardIn(m) /\ fates[m].at \in 0..Len(lines)
  BY <1>1, <1>3, <1>5 DEF FatesRead
<1>8. m \in DOMAIN moves' /\ fates'[m] = fates[m]
  BY <1>3, <1>7, HeardFirst
<1>9. n \in fates'[m].at + 1..Len(lines') /\ lines'[n] = "rep"
  <2>1. /\ Len(lines) \in Nat /\ Len(lines') \in Nat /\ Len(lines) <= Len(lines')
        /\ DOMAIN lines = 1..Len(lines)
    BY HeardFacts DEF Grows, Extends, HeardInv, LogTypes
  <2>2. n \in DOMAIN lines
    BY <1>6, <1>7, <2>1
  <2>3. lines'[n] = lines[n]
    BY <2>2 DEF Grows, Extends
  <2> QED
    BY <1>6, <1>7, <1>8, <2>1, <2>3
<1>10. Shown(m)' = "answered"
  BY <1>5, <1>8, <1>9 DEF Shown
<1>11. m \in Sends(move)'
  BY <1>3, <1>8 DEF Grows, Extends, Sends
<1> QED
  BY <1>10, <1>11 DEF Sent

LEMMA WindowStays == ASSUME HeardInv, HeardInv', Grows PROVE AskedFinal' >= AskedFinal
<1> DEFINE T == {0} \cup {fates[m].at : m \in Sends("final") \cap HeardOnes}
           U == {0} \cup {fates'[m].at : m \in Sends("final")' \cap HeardOnes'}
<1>1. FatesRead
  BY FatesKnown
<1>2. HeardInv' => FatesRead'
  BY FatesKnown, PTL
<1>3. Len(lines) \in Nat /\ Len(lines') \in Nat
  BY HeardFacts DEF HeardInv, LogTypes
<1>4. T \in SUBSET (0..Len(lines)) /\ U \in SUBSET (0..Len(lines')) /\ T # {} /\ U # {}
  <2>1. \A m \in HeardOnes : fates[m].at \in 0..Len(lines)
    BY <1>1 DEF FatesRead, HeardOnes
  <2>2. \A m \in HeardOnes' : fates'[m].at \in 0..Len(lines')
    BY <1>2 DEF FatesRead, HeardOnes
  <2> QED
    BY <1>3, <2>1, <2>2
<1>5. T \subseteq U
  <2> SUFFICES ASSUME NEW m \in Sends("final") \cap HeardOnes PROVE fates[m].at \in U
    OBVIOUS
  <2>1. m \in DOMAIN moves /\ HeardIn(m) /\ fates[m].state = "heard"
    BY <1>1 DEF HeardOnes, FatesRead
  <2>2. m \in DOMAIN moves' /\ HeardIn(m)' /\ fates'[m] = fates[m]
    BY <2>1, HeardFirst
  <2>3. m \in HeardOnes'
    BY <1>2, <2>1, <2>2 DEF HeardOnes, FatesRead
  <2>4. m \in Sends("final")'
    BY <2>1, <2>2 DEF Sends, Grows, Extends
  <2> QED
    BY <2>2, <2>3, <2>4
<1>6. AskedFinal = Max(T) /\ AskedFinal' = Max(U)
  BY DEF AskedFinal
<1> HIDE DEF T, U
<1>7. Max(T) \in T
  BY <1>3, <1>4, MaxIn
<1>8. \A y \in U : Max(U) >= y
  BY <1>3, <1>4, MaxIn
<1> QED
  BY <1>5, <1>6, <1>7, <1>8

LEMMA FatesKeep == HeardInv /\ HeardInv' /\ Grows => FatesStay
<1> SUFFICES ASSUME HeardInv, HeardInv', Grows PROVE FatesStay
  OBVIOUS
<1>1. FatesRead
  BY FatesKnown
<1>2. ASSUME NEW m \in DOMAIN fates, fates[m].state \in {"heard", "superseded"}
      PROVE  fates'[m] = fates[m]
  <2>1. m \in DOMAIN moves /\ (fates[m].state = "heard" => HeardIn(m))
    BY <1>1, <1>2 DEF FatesRead
  <2> QED
    BY <1>2, <2>1, HeardFirst, SupersededStays
<1>3. \A move \in Moves : Sent(move) = "answered" => Sent(move)' = "answered"
  BY AnswersStay
<1>4. \A m \in HeardOnes' \ HeardOnes : \A k \in HeardOnes : k < m
  BY HeardInOrder
<1>5. AskedFinal' >= AskedFinal
  BY WindowStays
<1> QED
  BY <1>2, <1>3, <1>4, <1>5 DEF FatesStay

LEMMA HeardAlways == HSpec => []HeardInv
<1>1. HInit => HeardInv
  BY HeardInit
<1>2. HeardInv /\ [HNext]_hvars => HeardInv'
  BY HeardNext
<1> QED
  BY <1>1, <1>2, PTL DEF HSpec

(* The lane and Slow agree on what the rep heard, and Slow waits only for  *)
(* what can still be heard (kernel/lanes.py, slow/heard.py), for any       *)
(* number of GUIDEs, generations, sentences and lines.                     *)
THEOREM HeardAlike == HSpec => [](Agree /\ WaitsHonest /\ GuideHeardOnce)
<1>1. HeardInv => Agree /\ WaitsHonest /\ GuideHeardOnce
  BY LaneAndSlowAgree, SlowWaits, LaneSafe DEF HeardInv
<1> QED
  BY <1>1, HeardAlways, PTL

(* What Slow is told of a GUIDE, once settled, stays (slow/heard.py).      *)
THEOREM FatesSettled == HSpec => [][FatesStay]_hvars
<1>1. HeardInv /\ HeardInv' /\ [HNext]_hvars => [FatesStay]_hvars
  <2> SUFFICES ASSUME HeardInv, HeardInv', HNext PROVE FatesStay
    OBVIOUS
  <2>1. Grows
    BY HeardStep DEF HNext, HeardKept
  <2> QED
    BY <2>1, FatesKeep
<1> QED
  BY <1>1, HeardAlways, PTL DEF HSpec
=============================================================================
