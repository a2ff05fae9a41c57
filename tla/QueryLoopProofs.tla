--------------------------- MODULE QueryLoopProofs ---------------------------
(***************************************************************************)
(* The loop of a Session, for every number of runs, deaths, rounds, calls, *)
(* retries and refusals; and the requirements that the messages of a       *)
(* Session tighten (runtime/state.py), for all requirements.               *)
(***************************************************************************)
EXTENDS QueryLoop, CompletionRequirements, FiniteSetTheorems, SequenceTheorems, TLAPS

-----------------------------------------------------------------------------
(* The transcript.  A call is named by the place of its message and its    *)
(* place in it; the results of a message have the names of its calls.      *)

\* The ids of n calls that the message at place p makes.
Named(body, p) == \A i \in 1..Len(body) : body[i].id = <<p, i>>

\* The last message calls tools and no result follows.
Dangling(messages) ==
  /\ Len(messages) > 0
  /\ messages[Len(messages)].kind = "assistant" /\ messages[Len(messages)].body # <<>>

\* The message at place p answers the one before it.
Answered(messages, p) ==
  /\ p > 1 /\ messages[p - 1].kind = "assistant" /\ messages[p - 1].body # <<>>
  /\ Len(messages[p].body) = Len(messages[p - 1].body)
  /\ Named(messages[p].body, p - 1)

Paired(messages) ==
  \A p \in 1..Len(messages) :
    /\ messages[p].kind = "assistant" =>
         /\ Named(messages[p].body, p)
         /\ messages[p].body # <<>> /\ p < Len(messages) => messages[p + 1].kind = "results"
    /\ messages[p].kind = "results" => Answered(messages, p)

\* A message has a body that is a sequence.
LEMMA MessageTypes ==
  ASSUME NEW m \in Message
  PROVE  /\ m.kind \in {"user", "recovery", "skill", "gate", "assistant", "results"}
         /\ m.kind = "assistant" => m.body \in Seq(Call)
         /\ m.kind = "results" => m.body \in Seq([id : Id, code : Code])
         /\ m.kind = "assistant" => m = Assistant(m.body)
         /\ m.kind = "gate" => \E r \in Reasons : m = Gate(r)
BY DEF Message, User, Recovery, Skill, Gate, Assistant

\* What the shapes of messages are.
LEMMA MessageForms ==
  /\ User \in Message /\ Recovery \in Message /\ Skill \in Message
  /\ \A r \in Reasons : Gate(r) \in Message
  /\ \A b \in Seq(Call) : Assistant(b) \in Message
  /\ \A b \in Seq([id : Id, code : Code]) : Results(b) \in Message
BY DEF Message, User, Recovery, Skill, Gate, Assistant, Results

\* A message that is appended keeps the pairs if it makes the calls that its place
\* names, and answers the last one exactly when that waits for an answer.
LEMMA PairsAppend ==
  ASSUME NEW m \in Seq(Message), NEW x \in Message, Paired(m),
         Dangling(m) <=> x.kind = "results",
         x.kind = "assistant" => Named(x.body, Len(m) + 1),
         x.kind = "results" =>
           Len(x.body) = Len(m[Len(m)].body) /\ Named(x.body, Len(m))
  PROVE  Paired(Append(m, x))
<1> DEFINE n == Append(m, x)
<1>1. /\ n \in Seq(Message) /\ Len(n) = Len(m) + 1 /\ Len(m) \in Nat
      /\ \A i \in 1..Len(m) : n[i] = m[i]
      /\ n[Len(m) + 1] = x
  BY AppendProperties, LenProperties
<1> HIDE DEF n
<1>2. SUFFICES ASSUME NEW p \in 1..Len(n)
               PROVE  /\ n[p].kind = "assistant" =>
                           /\ Named(n[p].body, p)
                           /\ n[p].body # <<>> /\ p < Len(n) => n[p + 1].kind = "results"
                      /\ n[p].kind = "results" => Answered(n, p)
  BY DEF Paired, n
<1>3. CASE p = Len(m) + 1
  <2>1. n[p] = x /\ p - 1 = Len(m)
    BY <1>1, <1>3
  <2>2. ASSUME x.kind = "results"
        PROVE  Answered(n, p)
    <3>1. Len(m) \in 1..Len(m) /\ m[Len(m)].kind = "assistant" /\ m[Len(m)].body # <<>>
      BY <1>1, <2>2 DEF Dangling
    <3>2. n[p - 1] = m[Len(m)]
      BY <1>1, <2>1, <3>1
    <3> QED
      BY <1>1, <1>3, <2>1, <2>2, <3>1, <3>2 DEF Answered
  <2> QED
    BY <1>1, <1>3, <2>1, <2>2
<1>4. CASE p \in 1..Len(m)
  <2>1. n[p] = m[p]
    BY <1>1, <1>4
  <2>2. n[p].kind = "assistant" => Named(n[p].body, p)
    BY <1>4, <2>1 DEF Paired
  <2>3. n[p].kind = "results" => Answered(n, p)
    <3>1. m[p].kind = "results" => Answered(m, p)
      BY <1>4 DEF Paired
    <3>2. p > 1 => n[p - 1] = m[p - 1]
      BY <1>1, <1>4
    <3> QED
      BY <2>1, <3>1, <3>2 DEF Answered
  <2>4. ASSUME n[p].kind = "assistant", n[p].body # <<>>
        PROVE  n[p + 1].kind = "results"
    <3>1. CASE p = Len(m)
      BY <1>1, <1>4, <2>1, <2>4, <3>1 DEF Dangling
    <3>2. CASE p < Len(m)
      <4>1. p + 1 \in 1..Len(m)
        BY <1>1, <1>4, <3>2
      <4>2. m[p + 1].kind = "results"
        BY <1>4, <2>1, <2>4, <3>2 DEF Paired
      <4> QED
        BY <1>1, <4>1, <4>2
    <3> QED
      BY <1>1, <1>4, <3>1, <3>2
  <2> QED
    BY <2>2, <2>3, <2>4
<1> QED
  BY <1>1, <1>3, <1>4

\* Pairs are what providers demand.
LEMMA PairedFollows ==
  Paired(log) => ResultsFollowCalls
<1> SUFFICES ASSUME Paired(log), NEW p \in 1..Len(log)
             PROVE  /\ (log[p].kind = "assistant" /\ log[p].body # <<>> /\ p < Len(log)) =>
                         /\ log[p + 1].kind = "results"
                         /\ Len(log[p + 1].body) = Len(log[p].body)
                         /\ \A i \in 1..Len(log[p].body) :
                              log[p + 1].body[i].id = log[p].body[i].id
                    /\ log[p].kind = "results" =>
                         p > 1 /\ log[p - 1].kind = "assistant" /\ log[p - 1].body # <<>>
  BY DEF ResultsFollowCalls
<1>1. log[p].kind = "results" =>
        p > 1 /\ log[p - 1].kind = "assistant" /\ log[p - 1].body # <<>>
  BY DEF Paired, Answered
<1>2. ASSUME log[p].kind = "assistant", log[p].body # <<>>, p < Len(log)
      PROVE  /\ log[p + 1].kind = "results"
             /\ Len(log[p + 1].body) = Len(log[p].body)
             /\ \A i \in 1..Len(log[p].body) : log[p + 1].body[i].id = log[p].body[i].id
  <2>1. log[p + 1].kind = "results" /\ Named(log[p].body, p)
    BY <1>2 DEF Paired
  <2>2. p + 1 \in 1..Len(log) /\ (p + 1) - 1 = p
    BY <1>2
  <2>3. Answered(log, p + 1)
    BY <2>1, <2>2 DEF Paired
  <2>4. Len(log[p + 1].body) = Len(log[p].body) /\ Named(log[p + 1].body, p)
    BY <2>2, <2>3 DEF Answered
  <2> QED
    BY <2>1, <2>4 DEF Named
<1> QED
  BY <1>1, <1>2

-----------------------------------------------------------------------------
(* The members of a set in order.                                          *)

\* A function on 1..n is a sequence of length n.
LEMMA FunctionIsSeq ==
  ASSUME NEW S, NEW n \in Nat, NEW f \in [1..n -> S]
  PROVE  f \in Seq(S) /\ Len(f) = n
<1>1. f \in Seq(S)
  BY SeqDef
<1>2. DOMAIN f = 1..Len(f) /\ Len(f) \in Nat
  BY <1>1, LenProperties
<1>3. 1..Len(f) = 1..n
  BY <1>2
<1> QED
  BY <1>1, <1>2, <1>3

\* What is up to x in S.
UpTo(S, x) == {j \in S : j <= x}

\* The rank of a member tells it from the others, and the ranks are 1..n.
LEMMA Ranks ==
  ASSUME NEW S \in SUBSET Nat, IsFiniteSet(S)
  PROVE  /\ Cardinality(S) \in Nat
         /\ \A x \in S : Cardinality(UpTo(S, x)) \in 1..Cardinality(S)
         /\ \A x, y \in S : x < y => Cardinality(UpTo(S, x)) < Cardinality(UpTo(S, y))
         /\ \A k \in 1..Cardinality(S) : \E x \in S : Cardinality(UpTo(S, x)) = k
<1> DEFINE r == [x \in S |-> Cardinality(UpTo(S, x))]
<1>1. Cardinality(S) \in Nat
  BY FS_CardinalityType
<1>2. \A x \in S : UpTo(S, x) \in SUBSET S /\ IsFiniteSet(UpTo(S, x))
  <2> SUFFICES ASSUME NEW x \in S PROVE UpTo(S, x) \in SUBSET S /\ IsFiniteSet(UpTo(S, x))
    OBVIOUS
  <2>1. UpTo(S, x) \in SUBSET S
    BY DEF UpTo
  <2> QED
    BY <2>1, FS_Subset
<1>3. \A x \in S : Cardinality(UpTo(S, x)) \in 1..Cardinality(S)
  <2> SUFFICES ASSUME NEW x \in S PROVE Cardinality(UpTo(S, x)) \in 1..Cardinality(S)
    OBVIOUS
  <2>1. Cardinality(UpTo(S, x)) \in Nat /\ Cardinality(UpTo(S, x)) <= Cardinality(S)
    BY <1>2, FS_CardinalityType, FS_Subset
  <2>2. x \in UpTo(S, x)
    BY DEF UpTo
  <2>3. Cardinality(UpTo(S, x)) # 0
    BY <1>2, <2>2, FS_EmptySet
  <2> QED
    BY <1>1, <2>1, <2>3
<1>4. \A x, y \in S : x < y => Cardinality(UpTo(S, x)) < Cardinality(UpTo(S, y))
  <2> SUFFICES ASSUME NEW x \in S, NEW y \in S, x < y
               PROVE  Cardinality(UpTo(S, x)) < Cardinality(UpTo(S, y))
    OBVIOUS
  <2>1. UpTo(S, x) \in SUBSET UpTo(S, y) /\ y \in UpTo(S, y) /\ y \notin UpTo(S, x)
    <3>1. S \subseteq Nat /\ x \in Nat /\ y \in Nat
      OBVIOUS
    <3>2. \A j \in S : j <= x => j <= y
      BY <3>1
    <3> QED
      <4>1. x <= y /\ y <= y /\ ~(y <= x)
        BY <3>1
      <4> QED
        BY <3>2, <4>1 DEF UpTo
  <2>2. /\ Cardinality(UpTo(S, x)) <= Cardinality(UpTo(S, y))
        /\ Cardinality(UpTo(S, y)) = Cardinality(UpTo(S, x)) => UpTo(S, y) = UpTo(S, x)
    BY <1>2, <2>1, FS_Subset
  <2>3. Cardinality(UpTo(S, x)) # Cardinality(UpTo(S, y))
    BY <2>1, <2>2
  <2> QED
    BY <1>3, <2>2, <2>3
<1>5. r \in Injection(S, 1..Cardinality(S))
  <2>1. r \in [S -> 1..Cardinality(S)]
    BY <1>3
  <2>2. ASSUME NEW x \in S, NEW y \in S, r[x] = r[y]
        PROVE  x = y
    <3>1. r[x] \in Nat /\ r[y] \in Nat /\ (x < y => r[x] < r[y]) /\ (y < x => r[y] < r[x])
      BY <1>3, <1>4
    <3> QED
      BY <2>2, <3>1
  <2> QED
    BY <2>1, <2>2 DEF Injection, IsInjective
<1>6. r \in Surjection(S, 1..Cardinality(S))
  <2>1. IsFiniteSet(1..Cardinality(S)) /\ Cardinality(1..Cardinality(S)) = Cardinality(S)
    BY <1>1, FS_Interval
  <2> HIDE DEF r
  <2> QED
    BY <1>5, <2>1, FS_Injection
<1>7. \A k \in 1..Cardinality(S) : \E x \in S : Cardinality(UpTo(S, x)) = k
  BY <1>6 DEF Surjection
<1> QED
  BY <1>1, <1>3, <1>4, <1>7

\* Ordered lists every member of a set once and in order.
LEMMA OrderedIsOrdered ==
  ASSUME NEW S \in SUBSET Nat, IsFiniteSet(S)
  PROVE  /\ Ordered(S) \in Seq(S) /\ Len(Ordered(S)) = Cardinality(S)
         /\ \A i, k \in 1..Len(Ordered(S)) : i < k => Ordered(S)[i] < Ordered(S)[k]
         /\ \A x \in S : \E k \in 1..Len(Ordered(S)) : Ordered(S)[k] = x
<1> DEFINE o == Ordered(S)
           rank(x) == Cardinality(UpTo(S, x))
<1>1. \A k \in 1..Cardinality(S) : o[k] \in S /\ rank(o[k]) = k
  <2> SUFFICES ASSUME NEW k \in 1..Cardinality(S) PROVE o[k] \in S /\ rank(o[k]) = k
    OBVIOUS
  <2>1. o[k] = CHOOSE i \in S : Cardinality({j \in S : j <= i}) = k
    BY DEF Ordered
  <2>2. \E i \in S : Cardinality({j \in S : j <= i}) = k
    BY Ranks DEF UpTo
  <2> QED
    BY <2>1, <2>2 DEF UpTo
<1>2. o \in [1..Cardinality(S) -> S]
  BY <1>1 DEF Ordered
<1>3. Cardinality(S) \in Nat
  BY Ranks
<1>4. o \in Seq(S) /\ Len(o) = Cardinality(S)
  BY <1>2, <1>3, FunctionIsSeq
<1>5. \A x, y \in S : rank(x) \in Nat /\ (x < y => rank(x) < rank(y))
  BY Ranks
<1> HIDE DEF o, rank
<1>6. ASSUME NEW i \in 1..Cardinality(S), NEW k \in 1..Cardinality(S), i < k
      PROVE  o[i] < o[k]
  <2>1. o[i] \in S /\ o[k] \in S /\ rank(o[i]) = i /\ rank(o[k]) = k
    BY <1>1
  <2>2. o[k] < o[i] => k < i
    BY <1>5, <2>1
  <2>3. o[i] \in Nat /\ o[k] \in Nat /\ i \in Nat /\ k \in Nat
    <3>1. i \in Nat /\ k \in Nat
      BY <1>3
    <3>2. S \subseteq Nat
      OBVIOUS
    <3> QED
      BY <2>1, <3>1, <3>2
  <2>4. ~(k < i) /\ o[i] # o[k]
    BY <1>6, <2>1, <2>3
  <2> QED
    BY <2>2, <2>3, <2>4
<1>7. ASSUME NEW x \in S
      PROVE  \E k \in 1..Cardinality(S) : o[k] = x
  <2>1. rank(x) \in 1..Cardinality(S)
    BY Ranks DEF rank
  <2>2. o[rank(x)] \in S /\ rank(o[rank(x)]) = rank(x)
    BY <1>1, <2>1
  <2>3. o[rank(x)] = x
    <3> DEFINE y == o[rank(x)]
    <3>1. y \in S /\ rank(y) = rank(x) /\ x \in Nat /\ y \in Nat /\ rank(x) \in Nat
      BY <1>5, <2>2
    <3>2. (x < y => rank(x) < rank(y)) /\ (y < x => rank(y) < rank(x))
      BY <1>5, <3>1
    <3> HIDE DEF y
    <3>3. x = y
      BY <3>1, <3>2
    <3> QED
      BY <3>3 DEF y
  <2> QED
    BY <2>1, <2>3
<1> QED
  BY <1>4, <1>6, <1>7 DEF o

\* 1..n is in order.
LEMMA OrderedInterval ==
  ASSUME NEW n \in Nat
  PROVE  Len(Ordered(1..n)) = n /\ \A k \in 1..n : Ordered(1..n)[k] = k
<1> DEFINE o == Ordered(1..n)
<1>1. IsFiniteSet(1..n) /\ Cardinality(1..n) = n
  BY FS_Interval
<1>2. Len(o) = n
  BY <1>1, OrderedIsOrdered
<1>3. ASSUME NEW k \in 1..n
      PROVE  o[k] = k
  <2>1. o[k] = CHOOSE i \in 1..n : Cardinality({j \in 1..n : j <= i}) = k
    BY <1>1 DEF Ordered
  <2>2. \A i \in 1..n : Cardinality({j \in 1..n : j <= i}) = i
    <3> SUFFICES ASSUME NEW i \in 1..n PROVE Cardinality({j \in 1..n : j <= i}) = i
      OBVIOUS
    <3>1. {j \in 1..n : j <= i} = 1..i
      OBVIOUS
    <3> QED
      <4>1. i \in Nat /\ i >= 1
        OBVIOUS
      <4>2. Cardinality(1..i) = i
        BY <4>1, FS_Interval
      <4> QED
        BY <3>1, <4>2
  <2> QED
    BY <2>1, <2>2
<1> QED
  BY <1>2, <1>3

-----------------------------------------------------------------------------
(* Repair of a transcript whose pairs are kept.                            *)

\* Named items have as many ids as there are items.
LEMMA NamedIds ==
  ASSUME NEW S, NEW body \in Seq(S), NEW p, Named(body, p)
  PROVE  /\ Ids(body) = {<<p, i>> : i \in 1..Len(body)}
         /\ Cardinality(Ids(body)) = Len(body)
<1> DEFINE n == Len(body)
           f == [i \in 1..n |-> <<p, i>>]
<1>1. n \in Nat
  BY LenProperties
<1>2. Ids(body) = {<<p, i>> : i \in 1..n}
  BY DEF Ids, Named
<1>3. f \in Bijection(1..n, Ids(body))
  <2>1. f \in [1..n -> Ids(body)]
    BY <1>2
  <2>2. IsInjective(f)
    BY DEF IsInjective
  <2>3. \A t \in Ids(body) : \E s \in 1..n : f[s] = t
    BY <1>2
  <2> HIDE DEF f
  <2> QED
    BY <2>1, <2>2, <2>3 DEF Bijection, Injection, Surjection
<1>4. Cardinality(Ids(body)) = n
  <2> HIDE DEF f, n
  <2> QED
    BY <1>1, <1>3, FS_CountingElements DEF ExistsBijection
<1> QED
  BY <1>2, <1>4

\* What is open after a message are the calls it makes.
LEMMA OpenAfter ==
  ASSUME NEW m \in Seq(Message), Paired(m), NEW p \in 0..Len(m)
  PROVE  Open(m, p) = IF p > 0 /\ m[p].kind = "assistant" THEN Ids(m[p].body) ELSE {}
<1>1. Len(m) \in Nat /\ p \in Nat
  BY LenProperties
<1>2. \A q \in 1..p : m[q] \in Message /\ q \in 1..Len(m)
  BY <1>1, ElementOfSeq
<1>3. \A q \in 1..p : m[q].kind = "assistant" =>
        Ids(m[q].body) = {<<q, i>> : i \in 1..Len(m[q].body)}
  <2> SUFFICES ASSUME NEW q \in 1..p, m[q].kind = "assistant"
               PROVE  Ids(m[q].body) = {<<q, i>> : i \in 1..Len(m[q].body)}
    OBVIOUS
  <2>1. m[q].body \in Seq(Call) /\ Named(m[q].body, q)
    BY <1>2, MessageTypes DEF Paired
  <2> QED
    BY <2>1, NamedIds
<1>4. \A q \in 1..p : m[q].kind = "results" =>
        /\ q > 1 /\ m[q - 1].kind = "assistant"
        /\ Ids(m[q].body) = {<<q - 1, i>> : i \in 1..Len(m[q - 1].body)}
  <2> SUFFICES ASSUME NEW q \in 1..p, m[q].kind = "results"
               PROVE  /\ q > 1 /\ m[q - 1].kind = "assistant"
                      /\ Ids(m[q].body) = {<<q - 1, i>> : i \in 1..Len(m[q - 1].body)}
    OBVIOUS
  <2>1. m[q].body \in Seq([id : Id, code : Code]) /\ Answered(m, q)
    BY <1>2, MessageTypes DEF Paired
  <2>2. Ids(m[q].body) = {<<q - 1, i>> : i \in 1..Len(m[q].body)}
    BY <2>1, NamedIds DEF Answered
  <2> QED
    BY <2>1, <2>2 DEF Answered
<1>5. Open(m, p) \subseteq IF p > 0 /\ m[p].kind = "assistant" THEN Ids(m[p].body) ELSE {}
  <2> SUFFICES ASSUME NEW id \in Made(m, p), id \notin Resolved(m, p)
               PROVE  p > 0 /\ m[p].kind = "assistant" /\ id \in Ids(m[p].body)
    BY DEF Open
  <2>1. PICK q \in 1..p : m[q].kind = "assistant" /\ id \in Ids(m[q].body)
    BY DEF Made, Before
  <2>2. PICK i \in 1..Len(m[q].body) : id = <<q, i>>
    BY <1>3, <2>1
  <2>3. CASE q = p
    BY <1>1, <2>1, <2>3
  <2>4. CASE q < p
    <3>1. m[q].body # <<>>
      BY <2>2
    <3>2. q < Len(m) /\ q + 1 \in 1..p /\ (q + 1) - 1 = q /\ q \in 1..Len(m)
      BY <1>1, <2>4
    <3>3. m[q + 1].kind = "results"
      BY <2>1, <3>1, <3>2 DEF Paired
    <3>4. id \in Ids(m[q + 1].body)
      BY <1>4, <2>2, <3>2, <3>3
    <3>5. id \in Resolved(m, p)
      BY <3>2, <3>3, <3>4 DEF Resolved, Before
    <3> QED
      BY <3>5
  <2> QED
    BY <1>1, <2>3, <2>4
<1>6. ASSUME p > 0, m[p].kind = "assistant", NEW id \in Ids(m[p].body)
      PROVE  id \in Open(m, p)
  <2>1. p \in 1..p
    BY <1>1, <1>6
  <2>2. id \in Made(m, p)
    BY <1>6, <2>1 DEF Made, Before
  <2>3. PICK i \in 1..Len(m[p].body) : id = <<p, i>>
    BY <1>3, <1>6, <2>1
  <2>4. ASSUME id \in Resolved(m, p)
        PROVE  FALSE
    <3>1. PICK q \in 1..p : m[q].kind = "results" /\ id \in Ids(m[q].body)
      BY <2>4 DEF Resolved, Before
    <3>2. PICK k \in 1..Len(m[q - 1].body) : id = <<q - 1, k>>
      BY <1>4, <3>1
    <3>3. p = q - 1
      BY <2>3, <3>2
    <3> QED
      BY <1>1, <3>3
  <2> QED
    BY <2>2, <2>4 DEF Open
<1> QED
  BY <1>5, <1>6

\* Such a transcript can be repaired, and only what its last message calls is open.
LEMMA PairedIsRepairable ==
  ASSUME NEW m \in Seq(Message), Paired(m)
  PROVE  /\ Repairable(m)
         /\ Open(m, Len(m)) = IF Dangling(m) THEN Ids(m[Len(m)].body) ELSE {}
<1>1. Len(m) \in Nat
  BY LenProperties
<1>2. ASSUME NEW p \in 1..Len(m)
      PROVE  /\ m[p].kind = "assistant" =>
                  /\ Open(m, p - 1) = {} /\ Ids(m[p].body) \intersect Made(m, p - 1) = {}
             /\ m[p].kind = "results" => Ids(m[p].body) \subseteq Open(m, p - 1)
             /\ m[p].kind \in {"assistant", "results"} =>
                  Cardinality(Ids(m[p].body)) = Len(m[p].body)
  <2>1. p - 1 \in 0..Len(m) /\ m[p] \in Message
    BY <1>1, ElementOfSeq
  <2>2. ASSUME m[p].kind = "assistant"
        PROVE  Open(m, p - 1) = {}
    <3>1. CASE p = 1
      <4>1. p - 1 = 0
        BY <3>1
      <4> QED
        BY <2>1, <4>1, OpenAfter
    <3>2. CASE p > 1
      <4>1. ASSUME m[p - 1].kind = "assistant", m[p - 1].body # <<>>
            PROVE  FALSE
        <5>1. p - 1 \in 1..Len(m) /\ p - 1 < Len(m) /\ (p - 1) + 1 = p
          BY <1>1, <3>2
        <5>2. m[p].kind = "results"
          BY <4>1, <5>1 DEF Paired
        <5> QED
          BY <2>2, <5>2
      <4>2. Ids(<<>>) = {}
        BY DEF Ids
      <4>3. m[p - 1].kind = "assistant" => Ids(m[p - 1].body) = {}
        BY <4>1, <4>2
      <4> QED
        BY <2>1, <4>3, OpenAfter
    <3> QED
      BY <1>1, <3>1, <3>2
  <2>3. ASSUME m[p].kind = "assistant"
        PROVE  Ids(m[p].body) \intersect Made(m, p - 1) = {}
    <3>1. m[p].body \in Seq(Call) /\ Named(m[p].body, p)
      BY <2>1, <2>3, MessageTypes DEF Paired
    <3>2. Ids(m[p].body) = {<<p, i>> : i \in 1..Len(m[p].body)}
      BY <3>1, NamedIds
    <3>3. ASSUME NEW id \in Made(m, p - 1)
          PROVE  id \notin Ids(m[p].body)
      <4>1. PICK q \in 1..p - 1 : m[q].kind = "assistant" /\ id \in Ids(m[q].body)
        BY <3>3 DEF Made, Before
      <4>2. q \in 1..Len(m) /\ q # p
        BY <1>1
      <4>3. m[q].body \in Seq(Call) /\ Named(m[q].body, q)
        BY <4>1, <4>2, ElementOfSeq, MessageTypes DEF Paired
      <4>4. Ids(m[q].body) = {<<q, i>> : i \in 1..Len(m[q].body)}
        BY <4>3, NamedIds
      <4>5. PICK k \in 1..Len(m[q].body) : id = <<q, k>>
        BY <4>1, <4>4
      <4> QED
        BY <3>2, <4>2, <4>5
    <3> QED
      BY <3>3
  <2>4. ASSUME m[p].kind = "results"
        PROVE  Ids(m[p].body) \subseteq Open(m, p - 1)
    <3>1. Answered(m, p) /\ m[p].body \in Seq([id : Id, code : Code])
      BY <2>1, <2>4, MessageTypes DEF Paired
    <3>2. p > 1 /\ m[p - 1].kind = "assistant" /\ Len(m[p].body) = Len(m[p - 1].body)
      BY <3>1 DEF Answered
    <3>3. Ids(m[p].body) = {<<p - 1, i>> : i \in 1..Len(m[p].body)}
      BY <3>1, NamedIds DEF Answered
    <3>4. p - 1 \in 1..Len(m)
      BY <1>1, <3>2
    <3>5. m[p - 1].body \in Seq(Call) /\ Named(m[p - 1].body, p - 1)
      BY <3>2, <3>4, ElementOfSeq, MessageTypes DEF Paired
    <3>6. Ids(m[p - 1].body) = {<<p - 1, i>> : i \in 1..Len(m[p - 1].body)}
      BY <3>5, NamedIds
    <3>7. Open(m, p - 1) = Ids(m[p - 1].body)
      BY <2>1, <3>2, <3>4, OpenAfter
    <3> QED
      BY <3>2, <3>3, <3>6, <3>7
  <2>5. ASSUME m[p].kind \in {"assistant", "results"}
        PROVE  Cardinality(Ids(m[p].body)) = Len(m[p].body)
    <3>1. CASE m[p].kind = "assistant"
      <4>1. m[p].body \in Seq(Call) /\ Named(m[p].body, p)
        BY <2>1, <3>1, MessageTypes DEF Paired
      <4> QED
        BY <4>1, NamedIds
    <3>2. CASE m[p].kind = "results"
      <4>1. m[p].body \in Seq([id : Id, code : Code]) /\ Named(m[p].body, p - 1)
        BY <2>1, <3>2, MessageTypes DEF Paired, Answered
      <4> QED
        BY <4>1, NamedIds
    <3> QED
      BY <2>5, <3>1, <3>2
  <2> QED
    BY <2>2, <2>3, <2>4, <2>5
<1>3. Open(m, Len(m)) = IF Dangling(m) THEN Ids(m[Len(m)].body) ELSE {}
  <2>1. Ids(<<>>) = {}
    BY DEF Ids
  <2>2. Open(m, Len(m)) = IF Len(m) > 0 /\ m[Len(m)].kind = "assistant"
                          THEN Ids(m[Len(m)].body) ELSE {}
    BY <1>1, OpenAfter
  <2> QED
    BY <2>1, <2>2 DEF Dangling
<1> QED
  BY <1>2, <1>3 DEF Repairable

\* The repair answers every call of the last message, in order.
LEMMA InterruptedAnswers ==
  ASSUME NEW m \in Seq(Message), Paired(m), Dangling(m)
  PROVE  /\ Interrupted(m) \in Message /\ Interrupted(m).kind = "results"
         /\ Len(Interrupted(m).body) = Len(m[Len(m)].body)
         /\ Named(Interrupted(m).body, Len(m))
         /\ \A i \in 1..Len(Interrupted(m).body) : Interrupted(m).body[i].code = "interrupted"
<1> DEFINE last  == CHOOSE p \in 1..Len(m) :
                      /\ m[p].kind = "assistant"
                      /\ \A q \in p + 1..Len(m) : m[q].kind # "assistant"
           calls == m[last].body
           open  == {i \in 1..Len(calls) : calls[i].id \in Open(m, Len(m))}
           n     == Len(m[Len(m)].body)
           body  == [k \in 1..n |-> [id |-> <<Len(m), k>>, code |-> "interrupted"]]
<1>1. Len(m) \in Nat /\ Len(m) > 0 /\ m[Len(m)].kind = "assistant"
  BY LenProperties DEF Dangling
<1>2. last = Len(m)
  <2>1. \E p \in 1..Len(m) :
          /\ m[p].kind = "assistant"
          /\ \A q \in p + 1..Len(m) : m[q].kind # "assistant"
    BY <1>1
  <2>2. /\ last \in 1..Len(m)
        /\ \A q \in last + 1..Len(m) : m[q].kind # "assistant"
    BY <2>1
  <2> HIDE DEF last
  <2> QED
    BY <1>1, <2>2
<1>3. m[Len(m)].body \in Seq(Call) /\ Named(m[Len(m)].body, Len(m)) /\ n \in Nat
  <2>1. m[Len(m)] \in Message /\ Len(m) \in 1..Len(m)
    BY <1>1, ElementOfSeq
  <2>2. m[Len(m)].body \in Seq(Call) /\ Named(m[Len(m)].body, Len(m))
    BY <1>1, <2>1, MessageTypes DEF Paired
  <2> QED
    BY <2>2, LenProperties
<1>4. open = 1..n
  <2>1. Open(m, Len(m)) = Ids(m[Len(m)].body)
    BY PairedIsRepairable
  <2> HIDE DEF last
  <2> QED
    BY <1>2, <2>1 DEF Ids
<1>5. /\ Len(Ordered(open)) = n
      /\ \A k \in 1..n : Ordered(open)[k] = k
  BY <1>3, <1>4, OrderedInterval
<1>6. Interrupted(m) =
        Results([k \in 1..Len(Ordered(open)) |->
                   [id |-> calls[Ordered(open)[k]].id, code |-> "interrupted"]])
  BY DEF Interrupted
<1>7. [k \in 1..Len(Ordered(open)) |->
         [id |-> calls[Ordered(open)[k]].id, code |-> "interrupted"]] = body
  <2>1. \A k \in 1..n : calls[Ordered(open)[k]].id = <<Len(m), k>>
    BY <1>2, <1>3, <1>5 DEF Named
  <2> HIDE DEF last, calls, open, n
  <2> QED
    BY <1>5, <2>1
<1>8. Interrupted(m) = Results(body)
  BY <1>6, <1>7
<1>9. body \in Seq([id : Id, code : Code]) /\ Len(body) = n
  <2>1. \A k \in 1..n : <<Len(m), k>> \in Id /\ "interrupted" \in Code
    BY <1>1 DEF Id, Code
  <2>2. body \in [1..n -> [id : Id, code : Code]]
    BY <2>1
  <2> HIDE DEF body, n
  <2> QED
    BY <1>3, <2>2, FunctionIsSeq
<1> HIDE DEF n
<1>10. \A k \in 1..n : body[k].id = <<Len(m), k>> /\ body[k].code = "interrupted"
  OBVIOUS
<1>11. Results(body) \in Message
  BY <1>9, MessageForms
<1> HIDE DEF body
<1> QED
  BY <1>8, <1>9, <1>10, <1>11 DEF Results, Named, n

-----------------------------------------------------------------------------
(* What is saved of the calls.                                             *)

Applied(effects, id) == \E k \in 1..Len(effects) : effects[k] = id

InCallOrder(effects) ==
  \A i, k \in 1..Len(effects) : i < k => Earlier(effects[i], effects[k])

\* The transcript tells of its calls what is saved of them.
Told(messages, effects) ==
  \A p \in 1..Len(messages) : messages[p].kind = "results" =>
    \A i \in 1..Len(messages[p].body) :
      LET o == messages[p].body[i]
      IN  /\ o.code = "real" => Applied(effects, o.id)
          /\ o.code \in {"cancelled", "not_executed"} => ~Applied(effects, o.id)

\* A message that is no result tells nothing; a result tells what it should.
LEMMA ToldAppend ==
  ASSUME NEW m \in Seq(Message), NEW x \in Message, NEW effects, Told(m, effects),
         x.kind = "results" =>
           \A i \in 1..Len(x.body) :
             /\ x.body[i].code = "real" => Applied(effects, x.body[i].id)
             /\ x.body[i].code \in {"cancelled", "not_executed"} =>
                  ~Applied(effects, x.body[i].id)
  PROVE  Told(Append(m, x), effects)
<1> DEFINE n == Append(m, x)
<1>1. /\ Len(n) = Len(m) + 1 /\ Len(m) \in Nat
      /\ \A i \in 1..Len(m) : n[i] = m[i]
      /\ n[Len(m) + 1] = x
  BY AppendProperties, LenProperties
<1> HIDE DEF n
<1>2. \A p \in 1..Len(n) : p \in 1..Len(m) \/ p = Len(m) + 1
  BY <1>1
<1>3. Told(n, effects)
  BY <1>1, <1>2 DEF Told
<1> QED
  BY <1>3 DEF n

\* New changes of the last message say nothing of the results in the transcript.
LEMMA ToldOfOlder ==
  ASSUME NEW m \in Seq(Message), Paired(m), NEW old, NEW new, Told(m, old),
         \A p \in 1..Len(m), i \in Nat :
           p < Len(m) => (Applied(new, <<p, i>>) <=> Applied(old, <<p, i>>))
  PROVE  Told(m, new)
<1> SUFFICES ASSUME NEW p \in 1..Len(m), m[p].kind = "results",
                    NEW i \in 1..Len(m[p].body)
             PROVE  Applied(new, m[p].body[i].id) <=> Applied(old, m[p].body[i].id)
  BY DEF Told
<1>1. Len(m) \in Nat
  BY LenProperties
<1>2. Answered(m, p)
  BY DEF Paired
<1>3. m[p].body[i].id = <<p - 1, i>> /\ p - 1 \in 1..Len(m) /\ p - 1 < Len(m) /\ i \in Nat
  BY <1>1, <1>2 DEF Answered, Named
<1> QED
  BY <1>3

\* The changes of some calls of the last message, put behind older changes.
LEMMA ConcatChanges ==
  ASSUME NEW L \in Nat, NEW old \in Seq(Id), NEW new \in Seq(Id),
         InCallOrder(old), InCallOrder(new),
         \A k \in 1..Len(old) : old[k][1] <= L,
         \A k \in 1..Len(new) : new[k][1] = L,
         \A k \in 1..Len(old), j \in 1..Len(new) : old[k][1] = L => old[k][2] < new[j][2]
  PROVE  /\ old \o new \in Seq(Id)
         /\ InCallOrder(old \o new)
         /\ \A k \in 1..Len(old \o new) : (old \o new)[k][1] <= L
         /\ \A id : Applied(old \o new, id) <=> Applied(old, id) \/ Applied(new, id)
<1> DEFINE all == old \o new
<1>1. /\ Len(old) \in Nat /\ Len(new) \in Nat
      /\ all \in Seq(Id) /\ Len(all) = Len(old) + Len(new)
      /\ \A i \in 1..Len(old) + Len(new) :
           all[i] = IF i <= Len(old) THEN old[i] ELSE new[i - Len(old)]
  BY ConcatProperties, LenProperties
<1>2. /\ \A i \in 1..Len(old) : i \in 1..Len(all) /\ all[i] = old[i]
      /\ \A i \in 1..Len(new) : i + Len(old) \in 1..Len(all) /\ all[i + Len(old)] = new[i]
  <2>1. \A i \in 1..Len(old) : i \in 1..Len(all) /\ i <= Len(old)
    BY <1>1
  <2>2. \A i \in 1..Len(new) :
          i + Len(old) \in 1..Len(all) /\ ~(i + Len(old) <= Len(old)) /\ (i + Len(old)) - Len(old) = i
    BY <1>1
  <2> QED
    BY <1>1, <2>1, <2>2
<1>3. \A i \in 1..Len(all) :
        \/ i \in 1..Len(old) /\ all[i] = old[i]
        \/ i - Len(old) \in 1..Len(new) /\ all[i] = new[i - Len(old)] /\ i > Len(old)
  BY <1>1
<1> HIDE DEF all
<1>4. ASSUME NEW k \in 1..Len(all)
      PROVE  all[k][1] <= L
  <2>1. CASE k \in 1..Len(old) /\ all[k] = old[k]
    BY <2>1
  <2>2. CASE k - Len(old) \in 1..Len(new) /\ all[k] = new[k - Len(old)]
    <3>1. all[k][1] = L
      BY <2>2
    <3> QED
      BY <3>1
  <2> QED
    BY <1>3, <2>1, <2>2
<1>5. \A k \in 1..Len(old) : old[k][1] \in Nat /\ old[k][2] \in Nat
  BY ElementOfSeq DEF Id
<1>6. \A k \in 1..Len(new) : new[k][1] \in Nat /\ new[k][2] \in Nat
  BY ElementOfSeq DEF Id
<1>7. ASSUME NEW i \in 1..Len(all), NEW k \in 1..Len(all), i < k
      PROVE  Earlier(all[i], all[k])
  <2>1. CASE k \in 1..Len(old) /\ all[k] = old[k]
    <3>1. i \in 1..Len(old)
      BY <1>1, <1>7, <2>1
    <3> QED
      BY <1>2, <1>7, <2>1, <3>1 DEF InCallOrder
  <2>2. CASE k - Len(old) \in 1..Len(new) /\ all[k] = new[k - Len(old)] /\ k > Len(old)
    <3>1. CASE i \in 1..Len(old) /\ all[i] = old[i]
      <4>1. old[i][1] <= L /\ new[k - Len(old)][1] = L
        BY <2>2, <3>1
      <4>2. old[i][1] = L => old[i][2] < new[k - Len(old)][2]
        BY <2>2, <3>1
      <4> QED
        BY <1>5, <2>2, <3>1, <4>1, <4>2 DEF Earlier
    <3>2. CASE i - Len(old) \in 1..Len(new) /\ all[i] = new[i - Len(old)]
      <4>1. i - Len(old) < k - Len(old)
        BY <1>1, <1>7
      <4> QED
        BY <2>2, <3>2, <4>1 DEF InCallOrder
    <3> QED
      BY <1>3, <3>1, <3>2
  <2> QED
    BY <1>3, <2>1, <2>2
<1>8. \A id : Applied(all, id) <=> Applied(old, id) \/ Applied(new, id)
  <2> SUFFICES ASSUME NEW id PROVE Applied(all, id) <=> Applied(old, id) \/ Applied(new, id)
    OBVIOUS
  <2>1. Applied(all, id) => Applied(old, id) \/ Applied(new, id)
    BY <1>3 DEF Applied
  <2>2. Applied(old, id) => Applied(all, id)
    BY <1>2 DEF Applied
  <2>3. Applied(new, id) => Applied(all, id)
    BY <1>2 DEF Applied
  <2> QED
    BY <2>1, <2>2, <2>3
<1> QED
  BY <1>1, <1>4, <1>7, <1>8 DEF InCallOrder, all

-----------------------------------------------------------------------------
(* Messages of a kind, counted.                                            *)

\* What an append adds to the messages of a kind.
LEMMA BeforeAppend ==
  ASSUME NEW m \in Seq(Message), NEW x \in Message, NEW kind
  PROVE  /\ Before(m, Len(m), kind) \subseteq 1..Len(m)
         /\ IsFiniteSet(Before(m, Len(m), kind))
         /\ Cardinality(Before(m, Len(m), kind)) \in Nat
         /\ Before(Append(m, x), Len(Append(m, x)), kind) =
              Before(m, Len(m), kind) \union (IF x.kind = kind THEN {Len(m) + 1} ELSE {})
         /\ Cardinality(Before(Append(m, x), Len(Append(m, x)), kind)) =
              Cardinality(Before(m, Len(m), kind)) + (IF x.kind = kind THEN 1 ELSE 0)
<1> DEFINE n == Append(m, x)
           B == Before(m, Len(m), kind)
           C == Before(n, Len(n), kind)
<1>1. /\ Len(n) = Len(m) + 1 /\ Len(m) \in Nat
      /\ \A i \in 1..Len(m) : n[i] = m[i]
      /\ n[Len(m) + 1] = x
  BY AppendProperties, LenProperties
<1>2. B \subseteq 1..Len(m)
  BY DEF Before
<1>3. IsFiniteSet(B) /\ Cardinality(B) \in Nat
  <2>1. IsFiniteSet(1..Len(m))
    BY <1>1, FS_Interval
  <2> HIDE DEF B
  <2> QED
    BY <1>2, <2>1, FS_Subset, FS_CardinalityType
<1>4. C = B \union (IF x.kind = kind THEN {Len(m) + 1} ELSE {})
  <2> HIDE DEF n
  <2>1. 1..Len(n) = 1..Len(m) \union {Len(m) + 1}
    BY <1>1
  <2> QED
    BY <1>1, <2>1 DEF Before
<1>5. Cardinality(C) = Cardinality(B) + (IF x.kind = kind THEN 1 ELSE 0)
  <2>1. CASE x.kind = kind
    <3>1. C = B \union {Len(m) + 1}
      BY <1>4, <2>1
    <3>2. Len(m) + 1 \notin B
      BY <1>1, <1>2
    <3> HIDE DEF B, C
    <3> QED
      BY <1>3, <2>1, <3>1, <3>2, FS_AddElement
  <2>2. CASE x.kind # kind
    <3>1. C = B
      BY <1>4, <2>2
    <3> HIDE DEF B, C
    <3> QED
      BY <1>3, <2>2, <3>1
  <2> QED
    BY <2>1, <2>2
<1> QED
  BY <1>2, <1>3, <1>4, <1>5

Refusals(messages) == Before(messages, Len(messages), "gate")

\* The last n refusals were for these reasons.
LastRefused(messages, n, reasons) ==
  \A p \in Refusals(messages) :
    Cardinality({q \in Refusals(messages) : q >= p}) <= n => messages[p] = Gate(reasons)

\* Among the refusals from p on there is p.
LEMMA RefusalsFrom ==
  ASSUME NEW m \in Seq(Message), NEW p \in Refusals(m)
  PROVE  /\ IsFiniteSet({q \in Refusals(m) : q >= p})
         /\ Cardinality({q \in Refusals(m) : q >= p}) \in Nat \ {0}
<1> DEFINE T == {q \in Refusals(m) : q >= p}
<1>1. Refusals(m) \subseteq 1..Len(m) /\ IsFiniteSet(Refusals(m))
  BY BeforeAppend, MessageForms DEF Refusals
<1>2. T \in SUBSET Refusals(m)
  OBVIOUS
<1>3. p \in T
  <2>1. Len(m) \in Nat
    BY LenProperties
  <2>2. p \in Nat
    BY <1>1, <2>1
  <2> QED
    BY <2>2
<1> HIDE DEF T
<1>4. IsFiniteSet(T) /\ Cardinality(T) \in Nat /\ Cardinality(T) # 0
  BY <1>1, <1>2, <1>3, FS_Subset, FS_CardinalityType, FS_EmptySet
<1> QED
  BY <1>4 DEF T

\* Nothing is claimed of the last zero refusals.
LEMMA NoneRefused ==
  ASSUME NEW m \in Seq(Message), NEW reasons
  PROVE  LastRefused(m, 0, reasons)
<1> SUFFICES ASSUME NEW p \in Refusals(m)
             PROVE  ~(Cardinality({q \in Refusals(m) : q >= p}) <= 0)
  BY DEF LastRefused
<1>1. Cardinality({q \in Refusals(m) : q >= p}) \in Nat \ {0}
  BY RefusalsFrom
<1> QED
  BY <1>1

\* A message that is no refusal leaves them, one more refusal for the same reasons
\* makes one more.
LEMMA LastRefusedAppend ==
  ASSUME NEW m \in Seq(Message), NEW x \in Message, NEW n \in Nat, NEW reasons,
         LastRefused(m, n, reasons)
  PROVE  /\ x.kind # "gate" => LastRefused(Append(m, x), n, reasons)
         /\ x = Gate(reasons) => LastRefused(Append(m, x), n + 1, reasons)
<1> DEFINE a == Append(m, x)
           From(messages, p) == {q \in Refusals(messages) : q >= p}
<1>1. /\ Len(a) = Len(m) + 1 /\ Len(m) \in Nat
      /\ \A i \in 1..Len(m) : a[i] = m[i]
      /\ a[Len(m) + 1] = x
  BY AppendProperties, LenProperties
<1>2. /\ Refusals(m) \subseteq 1..Len(m)
      /\ Refusals(a) = Refusals(m) \union (IF x.kind = "gate" THEN {Len(m) + 1} ELSE {})
  BY BeforeAppend DEF Refusals
<1> HIDE DEF a
<1>3. ASSUME x.kind # "gate"
      PROVE  LastRefused(a, n, reasons)
  <2>1. Refusals(a) = Refusals(m)
    BY <1>2, <1>3
  <2>2. \A p \in Refusals(m) : a[p] = m[p]
    BY <1>1, <1>2
  <2> QED
    BY <2>1, <2>2 DEF LastRefused
<1>4. ASSUME x = Gate(reasons), NEW p \in Refusals(a), Cardinality(From(a, p)) <= n + 1
      PROVE  a[p] = Gate(reasons)
  <2>1. x.kind = "gate"
    BY <1>4 DEF Gate
  <2>2. CASE p = Len(m) + 1
    BY <1>1, <1>4, <2>2
  <2>3. CASE p \in Refusals(m)
    <3>1. p \in 1..Len(m)
      BY <1>2, <2>3
    <3>2. From(a, p) = From(m, p) \union {Len(m) + 1} /\ Len(m) + 1 \notin From(m, p)
      <4>1. Len(m) + 1 >= p /\ Len(m) + 1 \notin Refusals(m)
        BY <1>1, <1>2, <3>1
      <4> QED
        BY <1>2, <2>1, <4>1
    <3>3. IsFiniteSet(From(m, p)) /\ Cardinality(From(m, p)) \in Nat
      BY <2>3, RefusalsFrom
    <3>4. Cardinality(From(a, p)) = Cardinality(From(m, p)) + 1
      <4> HIDE DEF From
      <4> QED
        BY <3>2, <3>3, FS_AddElement
    <3>5. Cardinality(From(m, p)) <= n
      BY <1>4, <3>3, <3>4
    <3>6. m[p] = Gate(reasons)
      BY <2>3, <3>5 DEF LastRefused
    <3> QED
      BY <1>1, <3>1, <3>6
  <2> QED
    BY <1>2, <1>4, <2>1, <2>2, <2>3
<1> QED
  BY <1>3, <1>4 DEF LastRefused, a

-----------------------------------------------------------------------------
(* The inductive invariant.                                                *)

Opening == {"idle", "starting", "resuming", "opened"}
Asked   == {"model", "cut", "stopping", "tools", "results", "extras"}

RunState ==
  [pc : Opening \union Asked \union {"head", "refused"},
   rounds : 0..MaxRounds, attempt : Nat, compactions : Nat, large : BOOLEAN,
   recoveries : Nat, same : Nat, shape : Seq(CallKind),
   blocks : Nat, reasons : Seq(Reasons), effects : Seq(Id),
   calls : Seq(Call), done : SUBSET Nat, failed : SUBSET Nat, committed : Nat,
   extras : Nat, end : {"none", "cancelled", "not_executed"}]

Types ==
  /\ log \in Seq(Message)
  /\ saved \in [status : Status, effects : Seq(Id)]
  /\ run \in RunState
  /\ run.done \subseteq 1..Len(run.calls) /\ run.failed \subseteq run.done
  /\ runs \in 0..MaxRuns /\ faults \in 0..MaxFaults

\* Where a run has to be while the last message waits for its results.
Transcript ==
  /\ Paired(log)
  /\ saved.status = "none" => log = <<>> /\ At("idle")
  /\ Dangling(log) => run.pc \in {"idle", "tools", "results"}
  /\ run.pc \in {"tools", "results"} =>
       Len(log) > 0 /\ log[Len(log)] = Assistant(run.calls) /\ run.calls # <<>>

\* The calls of the last message whose changes are saved are those of the
\* committed batches, and in the end those that have returned.
Saved ==
  /\ run.pc \notin Opening => run.effects = saved.effects
  /\ \A k \in 1..Len(saved.effects) : saved.effects[k][1] <= Len(log)
  /\ InCallOrder(saved.effects) /\ Told(log, saved.effects)
  /\ At("tools") =>
       /\ run.committed < Len(run.calls)
       /\ 1..run.committed \subseteq run.done
       /\ run.done \subseteq 1..run.committed \union Batch
       /\ \A i \in Nat : Applied(saved.effects, <<Len(log), i>>) <=> i \in 1..run.committed
  /\ At("results") =>
       /\ run.end = "none" => run.done = 1..Len(run.calls)
       /\ \A i \in Nat : Applied(saved.effects, <<Len(log), i>>) <=> i \in run.done

\* What a run has used of its limits.
Limited ==
  /\ Recoveries(log) <= RecoveryLimit
  /\ run.pc \notin Opening =>
       /\ run.recoveries = Recoveries(log)
       /\ run.blocks <= Cardinality(Refusals(log))
       /\ LastRefused(log, run.blocks, run.reasons[1])
       /\ run.blocks <= run.rounds
  /\ run.pc \in Asked => run.blocks < run.rounds
  /\ IF At("refused") THEN run.blocks = StopLimit ELSE run.blocks < StopLimit

Inv == Types /\ Transcript /\ Saved /\ Limited

-----------------------------------------------------------------------------
(* Batches and changes.                                                    *)

\* A batch is a piece of the calls that begins after the committed ones.
LEMMA BatchIsInterval ==
  ASSUME Types, run.committed < Len(run.calls)
  PROVE  /\ IsFiniteSet(Batch) /\ Cardinality(Batch) \in Nat \ {0}
         /\ Batch = run.committed + 1..run.committed + Cardinality(Batch)
         /\ run.committed + Cardinality(Batch) <= Len(run.calls)
<1> DEFINE first == run.committed + 1
           n == Len(run.calls)
           out == {i \in first..n + 1 : i \notin Batch}
<1>1. run.committed \in Nat /\ n \in Nat /\ first \in Nat /\ first <= n
  BY LenProperties DEF Types, RunState
<1>2. Batch \subseteq first..n /\ first \in Batch
  BY <1>1 DEF Batch
<1>3. \A i \in Batch, k \in first..n : k <= i => k \in Batch
  <2> SUFFICES ASSUME NEW i \in Batch, NEW k \in first..n, k <= i, k # first
               PROVE  \A j \in first..k : Safe(run.calls[j])
    BY <1>2 DEF Batch
  <2>1. i \in first..n /\ i # first
    BY <1>1, <1>2
  <2>2. \A j \in first..i : Safe(run.calls[j])
    BY <2>1 DEF Batch
  <2> QED
    BY <1>1, <2>1, <2>2
<1>4. PICK e \in out : \A y \in out : ~(y < e)
  <2>1. out \subseteq Nat
    BY <1>1
  <2>2. n + 1 \in out
    BY <1>1, <1>2
  <2> HIDE DEF out
  <2>3. PICK e \in out : \A y \in out : ~(<<y, e>> \in OpToRel(<, Nat))
    BY <2>1, <2>2, WFMin, NatLessThanWellFounded
  <2>4. \A y \in out : y < e => <<y, e>> \in OpToRel(<, Nat)
    BY <2>1 DEF OpToRel
  <2> QED
    BY <2>3, <2>4
<1>5. e \in first + 1..n + 1 /\ e \notin Batch
  BY <1>1, <1>2
<1>6. \A y \in first..e - 1 : y \in Batch
  <2> SUFFICES ASSUME NEW y \in first..e - 1, y \notin Batch PROVE FALSE
    OBVIOUS
  <2>1. y \in out /\ y \in Nat /\ e \in Nat /\ y < e
    BY <1>1, <1>5
  <2> QED
    BY <1>4, <2>1
<1>7. Batch = first..e - 1
  <2>1. ASSUME NEW i \in Batch
        PROVE  i \in first..e - 1
    <3>1. i \in first..n
      BY <1>2
    <3>2. ~(e <= i)
      BY <1>1, <1>3, <1>5, <3>1
    <3> QED
      BY <1>1, <1>5, <3>1, <3>2
  <2> QED
    BY <1>6, <2>1
<1> HIDE DEF first, n, out
<1>8. IsFiniteSet(Batch) /\ Cardinality(Batch) = (e - 1) - first + 1
  <2>1. first \in Int /\ e - 1 \in Int /\ ~(first > e - 1)
    BY <1>1, <1>5
  <2> QED
    BY <1>7, <2>1, FS_Interval
<1>9. Cardinality(Batch) = e - first /\ e - first \in Nat \ {0}
  BY <1>1, <1>5, <1>8
<1>10. run.committed + (e - first) = e - 1
  BY <1>1, <1>5 DEF first
<1>11. e - 1 <= n
  BY <1>1, <1>5
<1> QED
  BY <1>7, <1>8, <1>9, <1>10, <1>11 DEF first, n

\* The changes of some calls of the last message are theirs, and in their order.
LEMMA ChangesOfCalls ==
  ASSUME Types, NEW L \in Nat, Named(run.calls, L), NEW S \in SUBSET (1..Len(run.calls))
  PROVE  /\ IsFiniteSet(S)
         /\ Changes(S) \in Seq(Id) /\ InCallOrder(Changes(S))
         /\ \A k \in 1..Len(Changes(S)) : Changes(S)[k][1] = L /\ Changes(S)[k][2] \in S
         /\ \A i \in Nat : Applied(Changes(S), <<L, i>>) <=> i \in S
         /\ \A p, i \in Nat : p # L => ~Applied(Changes(S), <<p, i>>)
<1> DEFINE o == Ordered(S)
           c == Changes(S)
<1>1. Len(run.calls) \in Nat /\ run.calls \in Seq(Call)
  BY LenProperties DEF Types, RunState
<1>2. S \in SUBSET Nat /\ IsFiniteSet(S)
  <2>1. IsFiniteSet(1..Len(run.calls))
    BY <1>1, FS_Interval
  <2>2. IsFiniteSet(S)
    BY <2>1, FS_Subset
  <2> QED
    BY <1>1, <2>2
<1>3. /\ o \in Seq(S) /\ Len(o) \in Nat
      /\ \A i, k \in 1..Len(o) : i < k => o[i] < o[k]
      /\ \A x \in S : \E k \in 1..Len(o) : o[k] = x
  BY <1>2, OrderedIsOrdered, LenProperties
<1>4. \A k \in 1..Len(o) : o[k] \in S
  BY <1>3, ElementOfSeq
<1> HIDE DEF o
<1>5. c = [k \in 1..Len(o) |-> run.calls[o[k]].id]
  BY DEF Changes, o
<1>6. \A k \in 1..Len(o) : c[k] = <<L, o[k]>> /\ c[k] \in Id
  <2> SUFFICES ASSUME NEW k \in 1..Len(o) PROVE c[k] = <<L, o[k]>> /\ c[k] \in Id
    OBVIOUS
  <2>1. o[k] \in 1..Len(run.calls)
    BY <1>4
  <2>2. c[k] = run.calls[o[k]].id
    BY <1>5
  <2>3. run.calls[o[k]] \in Call
    BY <1>1, <2>1, ElementOfSeq
  <2>4. run.calls[o[k]].id \in Id
    BY <2>3 DEF Call
  <2> QED
    BY <2>1, <2>2, <2>4 DEF Named
<1>7. c \in Seq(Id) /\ Len(c) = Len(o)
  <2>1. c \in [1..Len(o) -> Id]
    BY <1>5, <1>6
  <2> HIDE DEF c
  <2> QED
    BY <1>3, <2>1, FunctionIsSeq
<1> HIDE DEF c
<1>8. InCallOrder(c)
  BY <1>3, <1>6, <1>7 DEF InCallOrder, Earlier
<1>9. \A k \in 1..Len(c) : c[k][1] = L /\ c[k][2] \in S
  BY <1>4, <1>6, <1>7
<1>10. \A i \in Nat : Applied(c, <<L, i>>) <=> i \in S
  BY <1>3, <1>4, <1>6, <1>7 DEF Applied
<1>11. \A p, i \in Nat : p # L => ~Applied(c, <<p, i>>)
  BY <1>6, <1>7 DEF Applied
<1> QED
  BY <1>2, <1>7, <1>8, <1>9, <1>10, <1>11 DEF c

-----------------------------------------------------------------------------
(* Types.                                                                  *)

\* The numbers among the constants.
LEMMA Constants ==
  ASSUME LoopAssumption
  PROVE  /\ MaxRuns \in Nat /\ MaxFaults \in Nat /\ RecoveryLimit \in Nat
         /\ MaxRounds \in Nat \ {0} /\ StopLimit \in Nat \ {0}
BY DEF LoopAssumption

\* The start has the types.
LEMMA TypesInit ==
  ASSUME LoopAssumption, Init
  PROVE  Types
<1>1. run = Idle /\ log = <<>> /\ saved = [status |-> "none", effects |-> <<>>]
      /\ runs = 0 /\ faults = 0
  BY DEF Init
<1>2. <<>> \in Seq(Message) /\ <<>> \in Seq(Id) /\ <<>> \in Seq(CallKind)
      /\ <<>> \in Seq(Reasons) /\ <<>> \in Seq(Call)
  OBVIOUS
<1>3. Idle \in RunState
  BY <1>2 DEF Idle, RunState, Opening, LoopAssumption
<1> QED
  BY <1>1, <1>2, <1>3 DEF Types, Idle, Status, LoopAssumption

\* Idle is a run without calls.
LEMMA IdleTypes ==
  ASSUME LoopAssumption
  PROVE  Idle \in RunState /\ Idle.done = {} /\ Idle.failed = {}
<1>1. <<>> \in Seq(Id) /\ <<>> \in Seq(CallKind) /\ <<>> \in Seq(Reasons) /\ <<>> \in Seq(Call)
  OBVIOUS
<1> QED
  BY <1>1 DEF Idle, RunState, Opening, LoopAssumption

\* An end of the run leaves the types.
LEMMA StopTypes ==
  ASSUME LoopAssumption, Types, NEW status \in Status, Stop(status)
  PROVE  Types'
<1>1. run' = Idle /\ saved' = [status |-> status, effects |-> run.effects]
      /\ UNCHANGED <<log, runs, faults>>
  BY DEF Stop, Persist
<1>2. run.effects \in Seq(Id)
  BY DEF Types, RunState
<1> QED
  BY <1>1, <1>2, IdleTypes DEF Types

\* A new message has its type.
LEMMA WriteTypes ==
  ASSUME log \in Seq(Message), NEW x \in Message, Write(x)
  PROVE  log' \in Seq(Message)
BY AppendProperties DEF Write

\* Fresh calls have the ids of their place.
LEMMA FreshCalls ==
  ASSUME LoopAssumption, log \in Seq(Message), NEW kinds \in CallLists
  PROVE  /\ kinds \in Seq(CallKind) /\ Fresh(kinds) \in Seq(Call) /\ Fresh(kinds) # <<>>
         /\ Len(Fresh(kinds)) = Len(kinds) /\ Len(kinds) \in 1..MaxCalls
         /\ Named(Fresh(kinds), Len(log) + 1)
<1>1. PICK n \in 1..MaxCalls : kinds \in [1..n -> Kinds]
  BY DEF CallLists
<1>2. n \in Nat \ {0} /\ Kinds \subseteq CallKind /\ Len(log) \in Nat
  BY <1>1, LenProperties DEF LoopAssumption
<1>3. kinds \in [1..n -> CallKind]
  BY <1>1, <1>2
<1>4. kinds \in Seq(CallKind) /\ Len(kinds) = n
  BY <1>2, <1>3, FunctionIsSeq
<1>5. Fresh(kinds) = [i \in 1..n |-> [id |-> <<Len(log) + 1, i>>, kind |-> kinds[i]]]
  BY <1>4 DEF Fresh
<1>6. Fresh(kinds) \in [1..n -> Call]
  <2>1. \A i \in 1..n : <<Len(log) + 1, i>> \in Id
    BY <1>2 DEF Id
  <2>2. \A i \in 1..n : [id |-> <<Len(log) + 1, i>>, kind |-> kinds[i]] \in Call
    BY <1>3, <2>1 DEF Call
  <2> QED
    BY <1>5, <2>2
<1>7. \A i \in 1..n : Fresh(kinds)[i].id = <<Len(log) + 1, i>>
  BY <1>5
<1>8. Fresh(kinds) \in Seq(Call) /\ Len(Fresh(kinds)) = n
  <2> DEFINE f == Fresh(kinds)
  <2>1. f \in [1..n -> Call] /\ n \in Nat
    BY <1>2, <1>6
  <2> HIDE DEF f
  <2>2. f \in Seq(Call) /\ Len(f) = n
    BY <2>1, FunctionIsSeq
  <2> QED
    BY <2>2 DEF f
<1>9. Fresh(kinds) # <<>>
  BY <1>2, <1>8, EmptySeq
<1> QED
  BY <1>1, <1>4, <1>7, <1>8, <1>9 DEF Named

\* What the results of a tool round are.
LEMMA OutcomesAnswer ==
  ASSUME Inv, At("results")
  PROVE  LET body == [i \in 1..Len(run.calls) |-> Outcome(i)]
         IN  /\ body \in Seq([id : Id, code : Code]) /\ Len(body) = Len(run.calls)
             /\ Len(log) \in Nat \ {0} /\ log[Len(log)] = Assistant(run.calls)
             /\ Dangling(log) /\ Named(run.calls, Len(log)) /\ Named(body, Len(log))
             /\ \A i \in 1..Len(run.calls) :
                  body[i].code = IF i \in run.done THEN "real" ELSE run.end
<1> DEFINE n == Len(run.calls)
           body == [i \in 1..n |-> Outcome(i)]
<1>1. /\ log \in Seq(Message) /\ run.calls \in Seq(Call) /\ n \in Nat /\ run.done \subseteq 1..n
      /\ run.end \in {"none", "cancelled", "not_executed"}
  BY LenProperties DEF Inv, Types, RunState
<1>2. /\ Len(log) \in Nat \ {0} /\ log[Len(log)] = Assistant(run.calls) /\ run.calls # <<>>
  BY <1>1, LenProperties DEF Inv, Transcript, At
<1>3. Dangling(log)
  BY <1>2 DEF Dangling, Assistant
<1>4. Named(run.calls, Len(log))
  BY <1>2 DEF Inv, Transcript, Paired, Assistant
<1>5. \A i \in 1..n : i \notin run.done => run.end \in {"cancelled", "not_executed"}
  BY <1>1 DEF Inv, Saved
<1>6. \A i \in 1..n : /\ Outcome(i) = [id |-> <<Len(log), i>>,
                                       code |-> IF i \in run.done THEN "real" ELSE run.end]
                      /\ Outcome(i) \in [id : Id, code : Code]
  <2> SUFFICES ASSUME NEW i \in 1..n
               PROVE  /\ Outcome(i) = [id |-> <<Len(log), i>>,
                                       code |-> IF i \in run.done THEN "real" ELSE run.end]
                      /\ Outcome(i) \in [id : Id, code : Code]
    OBVIOUS
  <2>1. run.calls[i].id = <<Len(log), i>>
    BY <1>4 DEF Named
  <2>2. <<Len(log), i>> \in Id
    BY <1>1, <1>2 DEF Id
  <2>3. (IF i \in run.done THEN "real" ELSE run.end) \in Code
    BY <1>5 DEF Code
  <2> QED
    BY <2>1, <2>2, <2>3 DEF Outcome
<1>7. body \in Seq([id : Id, code : Code]) /\ Len(body) = n
  <2>1. body \in [1..n -> [id : Id, code : Code]]
    BY <1>6
  <2> HIDE DEF body, n
  <2> QED
    BY <1>1, <2>1, FunctionIsSeq
<1>8. \A i \in 1..n : body[i].id = <<Len(log), i>>
                      /\ body[i].code = IF i \in run.done THEN "real" ELSE run.end
  BY <1>6
<1>9. Named(body, Len(log))
  <2> HIDE DEF body
  <2> QED
    BY <1>7, <1>8 DEF Named
<1> QED
  BY <1>2, <1>3, <1>4, <1>7, <1>8, <1>9

\* Every step keeps the types.
LEMMA TypesStep ==
  ASSUME LoopAssumption, Inv, Next
  PROVE  Types'
<1> USE DEF Opening, Asked
<1>1. /\ Types /\ log \in Seq(Message) /\ saved \in [status : Status, effects : Seq(Id)]
      /\ run \in RunState /\ runs \in 0..MaxRuns /\ faults \in 0..MaxFaults
      /\ run.done \subseteq 1..Len(run.calls) /\ run.failed \subseteq run.done
  BY DEF Inv, Types
<1>2. CASE Start
  <2>1. run' \in RunState /\ run'.done = {} /\ run'.failed = {}
    BY <1>2, IdleTypes DEF Start, RunState
  <2>2. runs' \in 0..MaxRuns
    BY <1>1, <1>2 DEF Start, LoopAssumption
  <2> QED
    BY <1>1, <1>2, <2>1, <2>2 DEF Start, Types, Status
<1>3. CASE Resume
  <2>1. log' \in Seq(Message)
    <3>1. CASE Open(log, Len(log)) = {}
      BY <1>1, <1>3, <3>1 DEF Resume
    <3>2. CASE Open(log, Len(log)) # {}
      <4>1. Paired(log)
        BY DEF Inv, Transcript
      <4>2. Dangling(log)
        BY <1>1, <3>2, <4>1, PairedIsRepairable
      <4>3. Interrupted(log) \in Message
        BY <1>1, <4>1, <4>2, InterruptedAnswers
      <4>4. log' = Append(log, Interrupted(log))
        BY <1>3, <3>2 DEF Resume
      <4> QED
        BY <1>1, <4>3, <4>4, AppendProperties
    <3> QED
      BY <3>1, <3>2
  <2> QED
    <3>1. run' \in RunState /\ run'.done = {} /\ run'.failed = {}
      BY <1>3, IdleTypes DEF Resume, RunState
    <3>2. runs' \in 0..MaxRuns
      <4>1. runs < MaxRuns /\ runs' = runs + 1
        BY <1>3 DEF Resume
      <4> QED
        BY <1>1, <4>1, Constants
    <3> QED
      BY <1>1, <1>3, <2>1, <3>1, <3>2 DEF Resume, Types
<1>4. CASE AppendInput
  <2>1. log' \in Seq(Message)
    BY <1>1, <1>4, WriteTypes, MessageForms DEF AppendInput
  <2> QED
    BY <1>1, <1>4, <2>1 DEF AppendInput, Types, RunState
<1>5. CASE Begin
  <2>1. Recoveries(log) \in Nat
    BY <1>1, BeforeAppend, MessageForms DEF Recoveries
  <2> QED
    BY <1>1, <1>5, <2>1, IdleTypes DEF Begin, Opened, Types, RunState, Idle, Status
<1>6. CASE HeadFails \/ ModelFails \/ CutFails \/ StopHookFails \/ Complete \/ Blocked \/ StopTools
  <2>1. PICK status \in Status : Stop(status)
    BY <1>6 DEF HeadFails, ModelFails, CutFails, StopHookFails, Complete, Blocked, StopTools, Status
  <2> QED
    BY <1>1, <2>1, StopTypes
<1>7. CASE EnterRound
  <2>1. run.rounds + 1 \in 0..MaxRounds
    <3>1. run.rounds \in 0..MaxRounds /\ run.rounds < MaxRounds
      BY <1>1, <1>7 DEF EnterRound, RunState
    <3> QED
      BY <3>1, Constants
  <2> QED
    BY <1>1, <1>7, <2>1 DEF EnterRound, Types, RunState
<1>8. CASE RetryAttempt
  <2>1. run.attempt + 1 \in Nat
    BY <1>1 DEF RunState
  <2> QED
    BY <1>1, <1>8, <2>1 DEF RetryAttempt, Types, RunState
<1>9. CASE ContextTooLong
  <2>1. run.compactions + 1 \in Nat
    BY <1>1 DEF RunState
  <2> QED
    BY <1>1, <1>9, <2>1 DEF ContextTooLong, Types, RunState
<1>10. CASE Escalate
  BY <1>1, <1>10 DEF Escalate, Types, RunState
<1>11. CASE AnswerCut \/ AnswerFinal
  <2>1. log' \in Seq(Message)
    <3>1. Assistant(<<>>) \in Message
      <4>1. <<>> \in Seq(Call)
        OBVIOUS
      <4> QED
        BY <4>1, MessageForms
    <3> QED
      BY <1>1, <1>11, <3>1, WriteTypes DEF AnswerCut, AnswerFinal
  <2> QED
    <3>1. CASE AnswerCut
      BY <1>1, <2>1, <3>1 DEF AnswerCut, Types, RunState
    <3>2. CASE AnswerFinal
      BY <1>1, <2>1, <3>2 DEF AnswerFinal, Types, RunState
    <3> QED
      BY <1>11, <3>1, <3>2
<1>12. CASE Continue
  <2>1. log' \in Seq(Message)
    BY <1>1, <1>12, WriteTypes, MessageForms DEF Continue
  <2>2. run.recoveries + 1 \in Nat
    BY <1>1 DEF RunState
  <2> QED
    BY <1>1, <1>12, <2>1, <2>2 DEF Continue, Types, RunState
<1>13. ASSUME NEW reasons \in Reasons, Refuse(reasons)
       PROVE  Types'
  <2>1. log' \in Seq(Message)
    BY <1>1, <1>13, WriteTypes, MessageForms DEF Refuse
  <2>2. <<reasons>> \in Seq(Reasons) /\ BlocksAfter(reasons) \in Nat
    BY <1>1 DEF BlocksAfter, RunState
  <2> QED
    BY <1>1, <1>13, <2>1, <2>2 DEF Refuse, Types, RunState
<1>14. ASSUME NEW kinds \in CallLists, NEW repeated \in BOOLEAN, AnswerCalls(kinds, repeated)
       PROVE  Types'
  <2>1. Fresh(kinds) \in Seq(Call) /\ kinds \in Seq(CallKind)
    BY <1>1, FreshCalls
  <2>2. log' \in Seq(Message)
    BY <1>1, <1>14, <2>1, WriteTypes, MessageForms DEF AnswerCalls
  <2>3. (IF repeated THEN run.same + 1 ELSE 0) \in Nat
    BY <1>1 DEF RunState
  <2> QED
    BY <1>1, <1>14, <2>1, <2>2, <2>3 DEF AnswerCalls, Types, RunState
<1>15. ASSUME NEW i \in 1..MaxCalls, NEW hookFails \in BOOLEAN, FinishCall(i, hookFails)
       PROVE  Types'
  <2>1. i \in 1..Len(run.calls) /\ i \in Nat
    <3>1. Len(run.calls) \in Nat /\ run.committed \in Nat
      BY <1>1, LenProperties DEF RunState
    <3> QED
      BY <1>15, <3>1 DEF FinishCall, Running, Batch
  <2> QED
    BY <1>1, <1>15, <2>1 DEF FinishCall, Types, RunState
<1>16. CASE CommitBatch
  <2>1. /\ Len(log) \in Nat /\ Named(run.calls, Len(log)) /\ run.committed < Len(run.calls)
    BY <1>1, <1>16, LenProperties DEF CommitBatch, Inv, Saved, Transcript, Paired, At, Assistant
  <2>2. /\ Cardinality(Batch) \in Nat \ {0} /\ Batch \in SUBSET (1..Len(run.calls))
    <3>1. run.committed \in Nat /\ Len(run.calls) \in Nat
      BY <1>1, LenProperties DEF RunState
    <3>2. /\ Cardinality(Batch) \in Nat \ {0}
          /\ Batch = run.committed + 1..run.committed + Cardinality(Batch)
          /\ run.committed + Cardinality(Batch) <= Len(run.calls)
      BY <1>1, <2>1, BatchIsInterval
    <3> QED
      BY <3>1, <3>2
  <2>3. Changes(Batch) \in Seq(Id)
    BY <1>1, <2>1, <2>2, ChangesOfCalls
  <2>4. run.effects \o Changes(Batch) \in Seq(Id)
    BY <1>1, <2>3, ConcatProperties DEF RunState
  <2>5. run.committed + Cardinality(Batch) \in Nat
    BY <1>1, <2>2 DEF RunState
  <2> QED
    BY <1>1, <1>16, <2>4, <2>5 DEF CommitBatch, Commit, AfterBatch, Types, RunState, Status
<1>17. ASSUME NEW settled \in SUBSET (1..MaxCalls), CancelTools(settled)
       PROVE  Types'
  <2>1. /\ Len(log) \in Nat /\ Named(run.calls, Len(log)) /\ run.committed < Len(run.calls)
    BY <1>1, <1>17, LenProperties DEF CancelTools, Inv, Saved, Transcript, Paired, At, Assistant
  <2>2. Batch \in SUBSET (1..Len(run.calls)) /\ Batch \subseteq Nat
    <3>1. run.committed \in Nat /\ Len(run.calls) \in Nat
      BY <1>1, LenProperties DEF RunState
    <3> QED
      BY <3>1 DEF Batch
  <2> DEFINE next == [run EXCEPT !.pc = "results", !.end = "cancelled",
                                 !.done = @ \union settled]
  <2>3. /\ next \in RunState /\ next.done \subseteq 1..Len(next.calls)
        /\ next.failed \subseteq next.done /\ next.effects = run.effects
        /\ next.done = run.done \union settled
    BY <1>1, <1>17, <2>2 DEF CancelTools, Running, RunState
  <2> DEFINE returned == Batch \intersect next.done
  <2>4. run.effects \o Changes(returned) \in Seq(Id)
    <3>1. returned \in SUBSET (1..Len(run.calls))
      BY <2>2
    <3>2. Changes(returned) \in Seq(Id)
      BY <1>1, <2>1, <3>1, ChangesOfCalls
    <3> QED
      BY <1>1, <3>2, ConcatProperties DEF RunState
  <2>5. \/ run' = next /\ UNCHANGED saved
        \/ Commit(returned, next)
    BY <1>17 DEF CancelTools
  <2>6. UNCHANGED <<log, runs, faults>>
    BY <1>17 DEF CancelTools
  <2> HIDE DEF next, returned
  <2>7. CASE run' = next /\ UNCHANGED saved
    BY <1>1, <2>3, <2>6, <2>7 DEF Types
  <2>8. CASE Commit(returned, next)
    <3>1. /\ saved' = [status |-> "running", effects |-> run.effects \o Changes(returned)]
          /\ run' = [next EXCEPT !.effects = run.effects \o Changes(returned)]
      BY <2>8 DEF Commit
    <3>2. run' \in RunState /\ run'.done = next.done /\ run'.failed = next.failed
          /\ run'.calls = next.calls
      BY <2>3, <2>4, <3>1 DEF RunState
    <3> QED
      BY <1>1, <2>3, <2>4, <2>6, <3>1, <3>2 DEF Types, Status
  <2> QED
    BY <2>5, <2>7, <2>8
<1>18. CASE WriteResults
  <2>1. log' \in Seq(Message)
    <3>1. [i \in 1..Len(run.calls) |-> Outcome(i)] \in Seq([id : Id, code : Code])
      BY <1>18, OutcomesAnswer DEF WriteResults
    <3> QED
      BY <1>1, <1>18, <3>1, WriteTypes, MessageForms DEF WriteResults
  <2>2. Cardinality({i \in run.done : run.calls[i].kind = "skill"}) \in Nat
    <3>1. IsFiniteSet(1..Len(run.calls))
      <4>1. Len(run.calls) \in Nat
        BY <1>1, LenProperties DEF RunState
      <4> QED
        BY <4>1, FS_Interval
    <3>2. {i \in run.done : run.calls[i].kind = "skill"} \in SUBSET (1..Len(run.calls))
      BY <1>1
    <3> QED
      BY <3>1, <3>2, FS_Subset, FS_CardinalityType
  <2> QED
    BY <1>1, <1>18, <2>1, <2>2 DEF WriteResults, Types, RunState
<1>19. CASE WriteExtra
  <2>1. log' \in Seq(Message)
    BY <1>1, <1>19, WriteTypes, MessageForms DEF WriteExtra
  <2>2. run.extras - 1 \in Nat
    BY <1>1, <1>19 DEF WriteExtra, RunState
  <2> QED
    BY <1>1, <1>19, <2>1, <2>2 DEF WriteExtra, Types, RunState
<1>20. CASE NextRound
  <2>1. <<>> \in Seq(Call)
    OBVIOUS
  <2> QED
    BY <1>1, <1>20, <2>1 DEF NextRound, Types, RunState
<1>21. CASE Cancel
  BY <1>1, <1>21, IdleTypes DEF Cancel, Types, Status
<1>22. CASE Die
  BY <1>1, <1>22, IdleTypes DEF Die, Types, LoopAssumption
<1> QED
  BY <1>2, <1>3, <1>4, <1>5, <1>6, <1>7, <1>8, <1>9, <1>10, <1>11, <1>12, <1>13, <1>14, <1>15,
     <1>16, <1>17, <1>18, <1>19, <1>20, <1>21, <1>22 DEF Next, Advance

-----------------------------------------------------------------------------
(* The transcript.                                                         *)

\* What an append does to the end of the transcript.
LEMMA WritePairs ==
  ASSUME log \in Seq(Message), Paired(log), NEW x \in Message, Write(x),
         Dangling(log) <=> x.kind = "results",
         x.kind = "assistant" => Named(x.body, Len(log) + 1),
         x.kind = "results" =>
           Len(x.body) = Len(log[Len(log)].body) /\ Named(x.body, Len(log))
  PROVE  /\ Paired(log') /\ Len(log') > 0 /\ log'[Len(log')] = x
         /\ Dangling(log') <=> x.kind = "assistant" /\ x.body # <<>>
<1>1. log' = Append(log, x)
  BY DEF Write
<1>2. Paired(log')
  BY <1>1, PairsAppend
<1>3. Len(log') = Len(log) + 1 /\ Len(log) \in Nat /\ log'[Len(log) + 1] = x
  BY <1>1, AppendProperties, LenProperties
<1> QED
  BY <1>2, <1>3 DEF Dangling

\* The shapes of the messages that are neither calls nor results.
LEMMA PlainKinds ==
  /\ User.kind = "user" /\ Recovery.kind = "recovery" /\ Skill.kind = "skill"
  /\ \A r : Gate(r).kind = "gate"
  /\ \A b : Assistant(b).kind = "assistant" /\ Assistant(b).body = b
  /\ \A b : Results(b).kind = "results" /\ Results(b).body = b
BY DEF User, Recovery, Skill, Gate, Assistant, Results

\* A message without calls, written outside a tool round, leaves nothing open.
LEMMA PlainWrite ==
  ASSUME log \in Seq(Message), Transcript, ~Dangling(log), NEW x \in Message, Write(x),
         x.kind # "results", x.kind = "assistant" => x.body = <<>>
  PROVE  Paired(log') /\ ~Dangling(log') /\ Len(log') > 0
<1>1. x.kind = "assistant" => Named(x.body, Len(log) + 1)
  BY DEF Named
<1> QED
  BY <1>1, WritePairs DEF Transcript

\* The start has an empty transcript.
LEMMA TranscriptInit ==
  ASSUME Init
  PROVE  Transcript
BY DEF Init, Transcript, Paired, Dangling, Idle, At

\* Every step keeps the transcript whole.
LEMMA TranscriptStep ==
  ASSUME LoopAssumption, Inv, Next
  PROVE  Transcript'
<1>1. /\ log \in Seq(Message) /\ run \in RunState /\ Transcript /\ Paired(log)
      /\ saved \in [status : Status, effects : Seq(Id)]
      /\ Dangling(log) => run.pc \in {"idle", "tools", "results"}
      /\ saved.status = "none" => log = <<>> /\ At("idle")
  BY DEF Inv, Types, Transcript
<1>2. run' \in RunState /\ saved' \in [status : Status, effects : Seq(Id)]
  BY TypesStep DEF Types
<1>3. CASE Start
  <2>1. saved'.status = "created" /\ run'.pc = "starting" /\ log' = <<>>
    BY <1>1, <1>3 DEF Start, Idle
  <2> QED
    BY <2>1 DEF Transcript, Paired, Dangling, At
<1>4. CASE Resume
  <2>1. saved'.status # "none" /\ run'.pc = "resuming"
    BY <1>4 DEF Resume, Idle
  <2>2. Paired(log') /\ ~Dangling(log')
    <3>1. CASE Dangling(log)
      <4>1. log[Len(log)].body # <<>> /\ log[Len(log)].kind = "assistant" /\ Len(log) \in 1..Len(log)
        BY <1>1, <3>1, LenProperties DEF Dangling
      <4>2. log[Len(log)].body \in Seq(Call)
        BY <1>1, <4>1, ElementOfSeq, MessageTypes
      <4>3. Len(log[Len(log)].body) \in Nat \ {0}
        BY <4>1, <4>2, EmptySeq
      <4>4. Open(log, Len(log)) # {}
        <5>1. Open(log, Len(log)) = Ids(log[Len(log)].body)
          BY <1>1, <3>1, PairedIsRepairable
        <5>2. 1 \in 1..Len(log[Len(log)].body)
          BY <4>3
        <5> QED
          BY <5>1, <5>2 DEF Ids
      <4>5. Write(Interrupted(log))
        BY <1>4, <4>4 DEF Resume, Write
      <4> QED
        BY <1>1, <3>1, <4>5, InterruptedAnswers, WritePairs
    <3>2. CASE ~Dangling(log)
      <4>1. Open(log, Len(log)) = {}
        BY <1>1, <3>2, PairedIsRepairable
      <4> QED
        BY <1>1, <1>4, <3>2, <4>1 DEF Resume
    <3> QED
      BY <3>1, <3>2
  <2> QED
    BY <2>1, <2>2 DEF Transcript, At
<1>5. CASE AppendInput
  <2>1. run'.pc = "opened" /\ saved'.status # "none" /\ ~Dangling(log)
    BY <1>1, <1>5 DEF AppendInput, RunState, At
  <2>2. Paired(log') /\ ~Dangling(log')
    BY <1>1, <1>5, <2>1, PlainWrite, PlainKinds, MessageForms DEF AppendInput
  <2> QED
    BY <2>1, <2>2 DEF Transcript, At
<1>6. CASE Begin
  BY <1>1, <1>6 DEF Begin, Opened, Idle, Transcript, At
<1>7. ASSUME NEW status \in Status \ {"none"}, Stop(status), ~Dangling(log)
      PROVE  Transcript'
  BY <1>1, <1>7 DEF Stop, Persist, Idle, Transcript, At
<1>8. CASE HeadFails \/ ModelFails \/ CutFails \/ StopHookFails \/ Complete \/ Blocked \/ StopTools
  <2>1. PICK status \in Status \ {"none"} : Stop(status)
    BY <1>8 DEF HeadFails, ModelFails, CutFails, StopHookFails, Complete, Blocked, StopTools, Status
  <2>2. ~Dangling(log)
    BY <1>1, <1>8
      DEF HeadFails, ModelFails, CutFails, StopHookFails, Complete, Blocked, StopTools, At
  <2> QED
    BY <1>7, <2>1, <2>2
<1>9. ASSUME log' = log, saved' = saved, run.pc \notin {"idle", "tools", "results"},
             run'.pc \notin {"idle", "tools", "results"}
      PROVE  Transcript'
  BY <1>1, <1>9 DEF Transcript, At
<1>10. CASE EnterRound \/ RetryAttempt \/ ContextTooLong \/ Escalate \/ NextRound
  <2>1. run'.pc \in {"head", "model"} /\ run.pc \in {"head", "model", "extras"}
    BY <1>1, <1>10 DEF EnterRound, RetryAttempt, ContextTooLong, Escalate, NextRound, RunState, At
  <2>2. log' = log /\ saved' = saved
    BY <1>10 DEF EnterRound, RetryAttempt, ContextTooLong, Escalate, NextRound
  <2> QED
    BY <1>9, <2>1, <2>2
<1>11. ASSUME NEW x \in Message, Write(x), UNCHANGED saved, x.kind # "results",
              x.kind = "assistant" => x.body = <<>>,
              run.pc \in {"model", "cut", "stopping", "extras"},
              run'.pc \in {"cut", "head", "stopping", "refused", "extras"}
       PROVE  Transcript'
  <2>1. ~Dangling(log) /\ saved.status # "none"
    BY <1>1, <1>11 DEF At
  <2>2. Paired(log') /\ ~Dangling(log')
    BY <1>1, <1>11, <2>1, PlainWrite
  <2> QED
    BY <1>11, <2>1, <2>2 DEF Transcript, At
<1>12. CASE AnswerCut \/ AnswerFinal
  <2>1. Write(Assistant(<<>>)) /\ UNCHANGED saved /\ run.pc = "model"
    BY <1>12 DEF AnswerCut, AnswerFinal, At
  <2>2. run'.pc \in {"cut", "stopping"}
    BY <1>1, <1>12 DEF AnswerCut, AnswerFinal, RunState
  <2>3. Assistant(<<>>) \in Message
    <3>1. <<>> \in Seq(Call)
      OBVIOUS
    <3> QED
      BY <3>1, MessageForms
  <2> QED
    BY <1>11, <2>1, <2>2, <2>3, PlainKinds
<1>13. CASE Continue
  <2>1. run'.pc = "head" /\ run.pc = "cut" /\ Write(Recovery) /\ UNCHANGED saved
    BY <1>1, <1>13 DEF Continue, RunState, At
  <2> QED
    BY <1>11, <2>1, PlainKinds, MessageForms
<1>14. ASSUME NEW reasons \in Reasons, Refuse(reasons)
       PROVE  Transcript'
  <2>1. run'.pc \in {"head", "refused"} /\ run.pc = "stopping"
    BY <1>1, <1>14 DEF Refuse, RunState, At
  <2>2. Write(Gate(reasons)) /\ UNCHANGED saved
    BY <1>14 DEF Refuse
  <2> QED
    BY <1>11, <2>1, <2>2, PlainKinds, MessageForms
<1>15. ASSUME NEW kinds \in CallLists, NEW repeated \in BOOLEAN, AnswerCalls(kinds, repeated)
       PROVE  Transcript'
  <2>1. /\ run'.pc = "tools" /\ run'.calls = Fresh(kinds) /\ run.pc = "model"
    BY <1>1, <1>15 DEF AnswerCalls, RunState, At
  <2>2. /\ Fresh(kinds) \in Seq(Call) /\ Fresh(kinds) # <<>>
        /\ Named(Fresh(kinds), Len(log) + 1)
    BY <1>1, FreshCalls
  <2>3. Write(Assistant(Fresh(kinds))) /\ UNCHANGED saved /\ Assistant(Fresh(kinds)) \in Message
    BY <1>15, <2>2, MessageForms DEF AnswerCalls
  <2>4. ~Dangling(log) /\ saved.status # "none"
    BY <1>1, <2>1 DEF At
  <2>5. Paired(log') /\ Len(log') > 0 /\ log'[Len(log')] = Assistant(Fresh(kinds))
    BY <1>1, <2>2, <2>3, <2>4, WritePairs, PlainKinds
  <2> QED
    BY <2>1, <2>2, <2>3, <2>4, <2>5 DEF Transcript, At
<1>16. ASSUME log' = log, saved'.status # "none", At("tools"),
              run'.pc \in {"tools", "results"}, run'.calls = run.calls
       PROVE  Transcript'
  BY <1>1, <1>16 DEF Transcript, At
<1>17. ASSUME NEW i \in 1..MaxCalls, NEW hookFails \in BOOLEAN, FinishCall(i, hookFails)
       PROVE  Transcript'
  <2>1. run'.pc = run.pc /\ run'.calls = run.calls
    BY <1>1, <1>17 DEF FinishCall, RunState
  <2>2. At("tools") /\ log' = log /\ saved' = saved
    BY <1>17 DEF FinishCall
  <2> QED
    BY <1>1, <1>16, <2>1, <2>2 DEF At
<1>18. CASE CommitBatch
  <2>1. At("tools") /\ log' = log /\ saved'.status # "none"
    BY <1>18 DEF CommitBatch, Commit
  <2>2. run'.pc \in {"tools", "results"} /\ run'.calls = run.calls
    BY <1>1, <1>18 DEF CommitBatch, Commit, AfterBatch, RunState
  <2> QED
    BY <1>16, <2>1, <2>2
<1>19. ASSUME NEW settled \in SUBSET (1..MaxCalls), CancelTools(settled)
       PROVE  Transcript'
  <2>1. At("tools") /\ log' = log /\ saved'.status # "none"
    BY <1>1, <1>19 DEF CancelTools, Commit, At
  <2>2. run'.pc = "results" /\ run'.calls = run.calls
    BY <1>1, <1>19 DEF CancelTools, Commit, RunState
  <2> QED
    BY <1>16, <2>1, <2>2
<1>20. CASE WriteResults
  <2> DEFINE body == [i \in 1..Len(run.calls) |-> Outcome(i)]
  <2>1. /\ body \in Seq([id : Id, code : Code]) /\ Len(body) = Len(run.calls)
        /\ log[Len(log)] = Assistant(run.calls)
        /\ Dangling(log) /\ Named(body, Len(log))
    BY <1>20, OutcomesAnswer DEF WriteResults
  <2>2. run'.pc = "extras" /\ run.pc = "results"
    BY <1>1, <1>20 DEF WriteResults, RunState, At
  <2>3. Write(Results(body)) /\ UNCHANGED saved
    BY <1>20 DEF WriteResults
  <2> HIDE DEF body
  <2>4. Results(body) \in Message
    BY <2>1, MessageForms
  <2>5. Paired(log') /\ ~Dangling(log')
    BY <1>1, <2>1, <2>3, <2>4, WritePairs, PlainKinds
  <2> QED
    BY <1>1, <2>2, <2>3, <2>5 DEF Transcript, At
<1>21. CASE WriteExtra
  <2>1. run'.pc = "extras" /\ run.pc = "extras" /\ Write(Skill) /\ UNCHANGED saved
    BY <1>1, <1>21 DEF WriteExtra, RunState, At
  <2> QED
    BY <1>11, <2>1, PlainKinds, MessageForms
<1>22. CASE Cancel
  BY <1>1, <1>22 DEF Cancel, Transcript, Idle, At
<1>23. CASE Die
  BY <1>1, <1>23 DEF Die, Transcript, Idle, At
<1> QED
  BY <1>3, <1>4, <1>5, <1>6, <1>8, <1>10, <1>12, <1>13, <1>14, <1>15, <1>17, <1>18, <1>19,
     <1>20, <1>21, <1>22, <1>23 DEF Next, Advance

-----------------------------------------------------------------------------
(* What is saved.                                                          *)

\* At the start nothing is saved.
LEMMA SavedInit ==
  ASSUME Init
  PROVE  Saved
<1>1. log = <<>> /\ saved.effects = <<>> /\ run.pc = "idle"
  BY DEF Init, Idle
<1>2. Len(saved.effects) = 0 /\ Len(log) = 0
  BY <1>1
<1> QED
  BY <1>1, <1>2 DEF Saved, InCallOrder, Told, At, Opening

\* Outside tool rounds the saved changes stay, and the transcript may only gain
\* messages that tell nothing wrong of them.
LEMMA SavedStays ==
  ASSUME log \in Seq(Message), saved.effects \in Seq(Id), Saved,
         saved'.effects = saved.effects,
         run'.pc \notin {"tools", "results"},
         run'.pc \notin Opening => run'.effects = saved.effects,
         \/ log' = log
         \/ \E x \in Message :
              /\ Write(x)
              /\ x.kind = "results" =>
                   \A i \in 1..Len(x.body) :
                     /\ x.body[i].code = "real" => Applied(saved.effects, x.body[i].id)
                     /\ x.body[i].code \in {"cancelled", "not_executed"} =>
                          ~Applied(saved.effects, x.body[i].id)
  PROVE  Saved'
<1>1. Told(log', saved.effects)
  BY ToldAppend DEF Saved, Write
<1>2. Len(log') >= Len(log) /\ Len(log) \in Nat /\ Len(log') \in Nat
  BY AppendProperties, LenProperties DEF Write
<1>3. ASSUME NEW k \in 1..Len(saved.effects)
      PROVE  saved.effects[k][1] <= Len(log')
  <2>1. saved.effects[k][1] <= Len(log) /\ saved.effects[k][1] \in Nat
    <3>1. saved.effects[k] \in Id
      BY ElementOfSeq
    <3> QED
      BY <3>1 DEF Saved, Id
  <2>2. CASE log' = log
    BY <2>1, <2>2
  <2>3. CASE log' # log
    <3>1. PICK x \in Message : Write(x)
      BY <2>3
    <3>2. Len(log') = Len(log) + 1
      BY <3>1, AppendProperties DEF Write
    <3> QED
      BY <1>2, <2>1, <3>2
  <2> QED
    BY <2>2, <2>3
<1> QED
  BY <1>1, <1>3 DEF Saved, At

\* An end of the run saves what is saved already.
LEMMA StopSaves ==
  ASSUME log \in Seq(Message), saved.effects \in Seq(Id), Saved, run.pc \notin Opening,
         NEW status, Stop(status)
  PROVE  Saved'
<1>1. log' = log /\ saved' = [status |-> status, effects |-> run.effects] /\ run' = Idle
  BY DEF Stop, Persist
<1>2. saved'.effects = saved.effects /\ run'.pc = "idle"
  BY <1>1 DEF Saved, Idle
<1> QED
  BY <1>1, <1>2, SavedStays DEF Opening

\* Where a tool round stands.
LEMMA ToolRound ==
  ASSUME Inv, At("tools")
  PROVE  /\ log \in Seq(Message) /\ Len(log) \in Nat \ {0} /\ Named(run.calls, Len(log))
         /\ run.committed \in Nat /\ Len(run.calls) \in Nat /\ run.effects = saved.effects
         /\ saved.effects \in Seq(Id)
         /\ IsFiniteSet(Batch) /\ Cardinality(Batch) \in Nat \ {0}
         /\ Batch = run.committed + 1..run.committed + Cardinality(Batch)
         /\ run.committed + Cardinality(Batch) <= Len(run.calls)
<1>1. /\ Types /\ run.committed < Len(run.calls) /\ run.effects = saved.effects
      /\ log[Len(log)] = Assistant(run.calls) /\ Len(log) > 0 /\ Paired(log)
  BY DEF Inv, Saved, Transcript, At, Opening
<1>2. /\ log \in Seq(Message) /\ run.calls \in Seq(Call) /\ run.committed \in Nat
      /\ saved.effects \in Seq(Id)
  BY <1>1 DEF Types, RunState
<1>3. Len(log) \in Nat \ {0} /\ Len(run.calls) \in Nat
  BY <1>1, <1>2, LenProperties
<1>4. Named(run.calls, Len(log))
  BY <1>1, <1>3 DEF Paired, Assistant
<1> QED
  BY <1>1, <1>2, <1>3, <1>4, BatchIsInterval

\* A commit adds the changes of some calls behind the committed ones.
LEMMA CommitAdds ==
  ASSUME Inv, At("tools"), NEW S \in SUBSET Batch, log' = log,
         saved'.effects = run.effects \o Changes(S)
  PROVE  /\ \A k \in 1..Len(saved'.effects) : saved'.effects[k][1] <= Len(log)
         /\ InCallOrder(saved'.effects) /\ Told(log, saved'.effects)
         /\ \A i \in Nat : Applied(saved'.effects, <<Len(log), i>>) <=>
                             i \in 1..run.committed \/ i \in S
<1> DEFINE L == Len(log)
           old == saved.effects
           new == Changes(S)
<1>1. /\ log \in Seq(Message) /\ L \in Nat \ {0} /\ Named(run.calls, L)
      /\ run.committed \in Nat /\ Len(run.calls) \in Nat
      /\ Batch = run.committed + 1..run.committed + Cardinality(Batch)
      /\ Cardinality(Batch) \in Nat \ {0}
      /\ run.committed + Cardinality(Batch) <= Len(run.calls)
      /\ saved'.effects = old \o new /\ old \in Seq(Id)
  BY ToolRound
<1>2. S \in SUBSET (1..Len(run.calls)) /\ \A i \in S : i > run.committed /\ i \in Nat
  BY <1>1
<1>3. /\ new \in Seq(Id) /\ InCallOrder(new)
      /\ \A k \in 1..Len(new) : new[k][1] = L /\ new[k][2] \in S
      /\ \A i \in Nat : Applied(new, <<L, i>>) <=> i \in S
      /\ \A p, i \in Nat : p # L => ~Applied(new, <<p, i>>)
  <2>1. Types
    BY DEF Inv
  <2> QED
    BY <1>1, <1>2, <2>1, ChangesOfCalls
<1>4. /\ Paired(log) /\ Told(log, old) /\ InCallOrder(old)
      /\ \A k \in 1..Len(old) : old[k][1] <= L
      /\ \A i \in Nat : Applied(old, <<L, i>>) <=> i \in 1..run.committed
  BY DEF Inv, Transcript, Saved
<1> HIDE DEF new, old
<1>5. \A k \in 1..Len(old) : old[k][1] = L => old[k][2] \in 1..run.committed
  <2> SUFFICES ASSUME NEW k \in 1..Len(old), old[k][1] = L
               PROVE  old[k][2] \in 1..run.committed
    OBVIOUS
  <2>1. old[k] \in Id
    BY <1>1, ElementOfSeq
  <2>2. old[k] = <<L, old[k][2]>> /\ old[k][2] \in Nat
    BY <2>1 DEF Id
  <2>3. Applied(old, <<L, old[k][2]>>)
    BY <2>2 DEF Applied
  <2> QED
    BY <1>4, <2>2, <2>3
<1>6. \A k \in 1..Len(old), j \in 1..Len(new) : old[k][1] = L => old[k][2] < new[j][2]
  <2> SUFFICES ASSUME NEW k \in 1..Len(old), NEW j \in 1..Len(new), old[k][1] = L
               PROVE  old[k][2] < new[j][2]
    OBVIOUS
  <2>1. old[k][2] \in 1..run.committed
    BY <1>5
  <2>2. new[j][2] > run.committed /\ new[j][2] \in Nat
    <3>1. new[j][2] \in S
      BY <1>3
    <3> QED
      BY <1>2, <3>1
  <2>3. run.committed \in Nat
    BY <1>1
  <2> QED
    BY <2>1, <2>2, <2>3
<1>7. L \in Nat
  BY <1>1
<1>8. \A k \in 1..Len(new) : new[k][1] = L
  BY <1>3
<1> HIDE DEF L
<1>9. /\ InCallOrder(old \o new)
      /\ \A k \in 1..Len(old \o new) : (old \o new)[k][1] <= L
      /\ \A id : Applied(old \o new, id) <=> Applied(old, id) \/ Applied(new, id)
  BY <1>1, <1>3, <1>4, <1>6, <1>7, <1>8, ConcatChanges
<1>10. \A p \in 1..L, i \in Nat :
         p < L => (Applied(old \o new, <<p, i>>) <=> Applied(old, <<p, i>>))
  BY <1>3, <1>7, <1>9
<1>11. Told(log, old \o new)
  BY <1>1, <1>4, <1>10, ToldOfOlder DEF L
<1>12. \A i \in Nat : Applied(old \o new, <<L, i>>) <=> i \in 1..run.committed \/ i \in S
  BY <1>3, <1>4, <1>9
<1> QED
  BY <1>1, <1>9, <1>11, <1>12 DEF L

\* Every step saves what the transcript tells, or will tell.
LEMMA SavedStep ==
  ASSUME LoopAssumption, Inv, Next
  PROVE  Saved'
<1>1. /\ log \in Seq(Message) /\ run \in RunState /\ Saved /\ Paired(log)
      /\ saved \in [status : Status, effects : Seq(Id)] /\ Len(log) \in Nat
      /\ saved.effects \in Seq(Id)
      /\ run.pc \notin Opening => run.effects = saved.effects
  BY LenProperties DEF Inv, Types, Transcript, Saved
<1>2. CASE Start
  <2>1. log' = log /\ saved'.effects = saved.effects /\ run'.pc = "starting"
    BY <1>1, <1>2 DEF Start, Idle
  <2> QED
    BY <1>1, <2>1, SavedStays DEF Opening
<1>3. CASE Resume
  <2>1. saved'.effects = saved.effects /\ run'.pc = "resuming"
    BY <1>1, <1>3 DEF Resume, Idle
  <2>2. CASE Open(log, Len(log)) = {}
    <3>1. log' = log
      BY <1>3, <2>2 DEF Resume
    <3> QED
      BY <1>1, <2>1, <3>1, SavedStays DEF Opening
  <2>3. CASE Open(log, Len(log)) # {}
    <3>1. Dangling(log)
      BY <1>1, <2>3, PairedIsRepairable
    <3>2. Write(Interrupted(log))
      BY <1>3, <2>3 DEF Resume, Write
    <3>3. /\ Interrupted(log) \in Message
          /\ \A i \in 1..Len(Interrupted(log).body) :
               Interrupted(log).body[i].code = "interrupted"
      BY <1>1, <3>1, InterruptedAnswers
    <3> QED
      BY <1>1, <2>1, <3>2, <3>3, SavedStays DEF Opening
  <2> QED
    BY <2>2, <2>3
<1>4. CASE AppendInput
  <2>1. saved'.effects = saved.effects /\ run'.pc = "opened" /\ Write(User)
    BY <1>1, <1>4 DEF AppendInput, RunState
  <2> QED
    BY <1>1, <2>1, SavedStays, PlainKinds, MessageForms DEF Opening
<1>5. CASE Begin
  <2>1. /\ log' = log /\ saved'.effects = saved.effects
        /\ run'.pc = "head" /\ run'.effects = saved.effects
    BY <1>1, <1>5 DEF Begin, Opened, Idle
  <2> QED
    BY <1>1, <2>1, SavedStays
<1>6. CASE HeadFails \/ ModelFails \/ CutFails \/ StopHookFails \/ Complete \/ Blocked \/ StopTools
  <2>1. PICK status \in Status : Stop(status)
    BY <1>6 DEF HeadFails, ModelFails, CutFails, StopHookFails, Complete, Blocked, StopTools, Status
  <2>2. run.pc \notin Opening
    BY <1>6 DEF HeadFails, ModelFails, CutFails, StopHookFails, Complete, Blocked, StopTools,
                At, Opening
  <2> QED
    BY <1>1, <2>1, <2>2, StopSaves
<1>7. CASE EnterRound \/ RetryAttempt \/ ContextTooLong \/ Escalate \/ NextRound
  <2>1. /\ run'.pc \in {"head", "model"} /\ run'.effects = run.effects
        /\ run.pc \in {"head", "model", "extras"}
    BY <1>1, <1>7 DEF EnterRound, RetryAttempt, ContextTooLong, Escalate, NextRound, RunState, At
  <2>2. log' = log /\ saved' = saved
    BY <1>7 DEF EnterRound, RetryAttempt, ContextTooLong, Escalate, NextRound
  <2> QED
    BY <1>1, <2>1, <2>2, SavedStays DEF Opening
<1>8. ASSUME NEW x \in Message, Write(x), UNCHANGED saved, x.kind # "results",
             run.pc \in {"model", "cut", "stopping", "extras"}, run'.effects = run.effects,
             run'.pc \in {"cut", "head", "stopping", "refused", "extras"}
      PROVE  Saved'
  BY <1>1, <1>8, SavedStays DEF Opening
<1>9. CASE AnswerCut \/ AnswerFinal
  <2>1. Write(Assistant(<<>>)) /\ UNCHANGED saved /\ run.pc = "model"
    BY <1>9 DEF AnswerCut, AnswerFinal, At
  <2>2. run'.pc \in {"cut", "stopping"} /\ run'.effects = run.effects
    BY <1>1, <1>9 DEF AnswerCut, AnswerFinal, RunState
  <2>3. Assistant(<<>>) \in Message
    <3>1. <<>> \in Seq(Call)
      OBVIOUS
    <3> QED
      BY <3>1, MessageForms
  <2> QED
    BY <1>8, <2>1, <2>2, <2>3, PlainKinds
<1>10. CASE Continue
  <2>1. /\ run'.pc = "head" /\ run.pc = "cut" /\ run'.effects = run.effects
        /\ Write(Recovery) /\ UNCHANGED saved
    BY <1>1, <1>10 DEF Continue, RunState, At
  <2> QED
    BY <1>8, <2>1, PlainKinds, MessageForms
<1>11. ASSUME NEW reasons \in Reasons, Refuse(reasons)
       PROVE  Saved'
  <2>1. /\ run'.pc \in {"head", "refused"} /\ run.pc = "stopping"
        /\ run'.effects = run.effects
    BY <1>1, <1>11 DEF Refuse, RunState, At
  <2>2. Write(Gate(reasons)) /\ UNCHANGED saved
    BY <1>11 DEF Refuse
  <2> QED
    BY <1>8, <2>1, <2>2, PlainKinds, MessageForms
<1>12. ASSUME NEW kinds \in CallLists, NEW repeated \in BOOLEAN, AnswerCalls(kinds, repeated)
       PROVE  Saved'
  <2>1. /\ run'.pc = "tools" /\ run'.calls = Fresh(kinds) /\ run'.done = {}
        /\ run'.committed = 0 /\ run'.effects = run.effects /\ run.pc = "model"
    BY <1>1, <1>12 DEF AnswerCalls, RunState, At
  <2>2. /\ Fresh(kinds) \in Seq(Call) /\ Len(Fresh(kinds)) = Len(kinds) /\ Len(kinds) \in 1..MaxCalls
    BY <1>1, FreshCalls
  <2>3. Write(Assistant(Fresh(kinds))) /\ saved' = saved /\ Assistant(Fresh(kinds)) \in Message
    BY <1>12, <2>2, MessageForms DEF AnswerCalls
  <2>4. Len(log') = Len(log) + 1
    BY <1>1, <2>3, AppendProperties DEF Write
  <2>5. Told(log', saved.effects)
    BY <1>1, <2>3, ToldAppend, PlainKinds DEF Saved, Write
  <2>6. \A k \in 1..Len(saved.effects) :
          saved.effects[k][1] \in Nat /\ saved.effects[k][1] <= Len(log)
    <3>1. saved.effects \in Seq(Id)
      BY <1>1
    <3>2. \A k \in 1..Len(saved.effects) : saved.effects[k] \in Id
      BY <3>1, ElementOfSeq
    <3> QED
      BY <1>1, <3>2 DEF Saved, Id
  <2>7. \A k \in 1..Len(saved.effects) : saved.effects[k][1] <= Len(log') /\ saved.effects[k][1] # Len(log')
    BY <1>1, <2>4, <2>6
  <2>8. \A i \in Nat : ~Applied(saved.effects, <<Len(log'), i>>)
    BY <2>7 DEF Applied
  <2>9. run'.committed < Len(run'.calls) /\ 1..run'.committed = {}
    BY <2>1, <2>2
  <2> QED
    BY <1>1, <2>1, <2>3, <2>5, <2>7, <2>8, <2>9 DEF Saved, At, Opening
<1>13. ASSUME NEW i \in 1..MaxCalls, NEW hookFails \in BOOLEAN, FinishCall(i, hookFails)
       PROVE  Saved'
  <2>1. /\ run'.pc = "tools" /\ run'.calls = run.calls /\ run'.committed = run.committed
        /\ run'.done = run.done \union {i} /\ run'.effects = run.effects
    BY <1>1, <1>13 DEF FinishCall, RunState, At
  <2>2. run.pc = "tools" /\ log' = log /\ saved' = saved /\ i \in Batch
    BY <1>13 DEF FinishCall, At, Running
  <2>3. Batch' = Batch
    BY <2>1 DEF Batch, Safe
  <2> QED
    BY <1>1, <2>1, <2>2, <2>3 DEF Saved, At, Opening
<1>14. CASE CommitBatch
  <2> DEFINE end == run.committed + Cardinality(Batch)
  <2>1. At("tools") /\ log' = log /\ saved'.effects = run.effects \o Changes(Batch)
        /\ Batch \subseteq run.done
    BY <1>14 DEF CommitBatch, Commit, Running
  <2>2. /\ run.committed \in Nat /\ Len(run.calls) \in Nat
        /\ Cardinality(Batch) \in Nat \ {0}
        /\ Batch = run.committed + 1..end /\ end <= Len(run.calls)
    BY <2>1, ToolRound
  <2>3. /\ \A k \in 1..Len(saved'.effects) : saved'.effects[k][1] <= Len(log)
        /\ InCallOrder(saved'.effects) /\ Told(log, saved'.effects)
        /\ \A i \in Nat : Applied(saved'.effects, <<Len(log), i>>) <=>
                            i \in 1..run.committed \/ i \in Batch
    BY <2>1, CommitAdds
  <2>4. 1..run.committed \subseteq run.done /\ run.done \subseteq 1..run.committed \union Batch
    BY <1>1, <2>1 DEF Saved
  <2>5. 1..run.committed \union Batch = 1..end /\ end \in Nat
    BY <2>2
  <2>6. run.done = 1..end
    BY <2>1, <2>4, <2>5
  <2>7. /\ run'.calls = run.calls /\ run'.done = run.done /\ run'.committed = end
        /\ run'.effects = saved'.effects
        /\ \/ run'.pc = "tools" /\ end # Len(run.calls)
           \/ run'.pc = "results" /\ (run'.end = "none" => end = Len(run.calls))
    BY <1>1, <1>14 DEF CommitBatch, Commit, AfterBatch, RunState
  <2>8. \A i \in Nat : Applied(saved'.effects, <<Len(log), i>>) <=> i \in 1..end
    BY <2>3, <2>5
  <2> HIDE DEF end
  <2>9. CASE run'.pc = "tools" /\ end # Len(run.calls)
    <3>1. run'.committed < Len(run'.calls)
      BY <2>2, <2>5, <2>7, <2>9
    <3> QED
      BY <2>1, <2>3, <2>6, <2>7, <2>8, <2>9, <3>1 DEF Saved, At
  <2>10. CASE run'.pc = "results" /\ (run'.end = "none" => end = Len(run.calls))
    BY <2>1, <2>3, <2>6, <2>7, <2>8, <2>10 DEF Saved, At
  <2> QED
    BY <2>7, <2>9, <2>10
<1>15. ASSUME NEW settled \in SUBSET (1..MaxCalls), CancelTools(settled)
       PROVE  Saved'
  <2> DEFINE next == [run EXCEPT !.pc = "results", !.end = "cancelled",
                                 !.done = @ \union settled]
             returned == Batch \intersect next.done
  <2>1. At("tools") /\ log' = log /\ settled \subseteq Batch
    BY <1>15 DEF CancelTools, Running
  <2>2. /\ next.pc = "results" /\ next.end = "cancelled" /\ next.done = run.done \union settled
        /\ next.effects = run.effects /\ next.calls = run.calls /\ next \in RunState
    <3>1. settled \subseteq Nat
      BY <2>1, ToolRound
    <3> QED
      BY <1>1, <3>1 DEF RunState, Asked
  <2>3. /\ 1..run.committed \subseteq run.done
        /\ run.done \subseteq 1..run.committed \union Batch
        /\ run.effects = saved.effects
        /\ \A i \in Nat : Applied(saved.effects, <<Len(log), i>>) <=> i \in 1..run.committed
    BY <1>1, <2>1 DEF Saved, At, Opening
  <2>4. next.done = 1..run.committed \union returned
    BY <2>1, <2>2, <2>3
  <2>5. \/ run' = next /\ saved' = saved /\ returned = {}
        \/ Commit(returned, next)
    BY <1>15 DEF CancelTools
  <2> HIDE DEF next
  <2>6. CASE run' = next /\ saved' = saved /\ returned = {}
    BY <1>1, <2>1, <2>2, <2>3, <2>4, <2>6 DEF Saved, At
  <2>7. CASE Commit(returned, next)
    <3>1. /\ saved'.effects = run.effects \o Changes(returned)
          /\ run' = [next EXCEPT !.effects = run.effects \o Changes(returned)]
      BY <2>7 DEF Commit
    <3>2. /\ run'.pc = "results" /\ run'.end = "cancelled" /\ run'.done = next.done
          /\ run'.calls = run.calls /\ run'.effects = saved'.effects
      BY <2>2, <3>1 DEF RunState
    <3>3. /\ \A k \in 1..Len(saved'.effects) : saved'.effects[k][1] <= Len(log)
          /\ InCallOrder(saved'.effects) /\ Told(log, saved'.effects)
          /\ \A i \in Nat : Applied(saved'.effects, <<Len(log), i>>) <=>
                              i \in 1..run.committed \/ i \in returned
      BY <2>1, <3>1, CommitAdds
    <3> QED
      BY <2>1, <2>4, <3>2, <3>3 DEF Saved, At
  <2> QED
    BY <2>5, <2>6, <2>7
<1>16. CASE WriteResults
  <2> DEFINE body == [i \in 1..Len(run.calls) |-> Outcome(i)]
  <2>1. /\ body \in Seq([id : Id, code : Code]) /\ Len(body) = Len(run.calls)
        /\ Named(body, Len(log))
        /\ \A i \in 1..Len(run.calls) :
             body[i].code = IF i \in run.done THEN "real" ELSE run.end
    BY <1>16, OutcomesAnswer DEF WriteResults
  <2>2. run'.pc = "extras" /\ run.pc = "results" /\ run'.effects = run.effects
    BY <1>1, <1>16 DEF WriteResults, RunState, At
  <2>3. Write(Results(body)) /\ UNCHANGED saved
    BY <1>16 DEF WriteResults
  <2>4. \A i \in Nat : Applied(saved.effects, <<Len(log), i>>) <=> i \in run.done
    BY <1>1, <2>2 DEF Saved, At
  <2> HIDE DEF body
  <2>5. Results(body) \in Message
    BY <2>1, MessageForms
  <2>6. \A i \in 1..Len(body) :
          /\ body[i].code = "real" => Applied(saved.effects, body[i].id)
          /\ body[i].code \in {"cancelled", "not_executed"} => ~Applied(saved.effects, body[i].id)
    <3> SUFFICES ASSUME NEW i \in 1..Len(body)
                 PROVE  /\ body[i].code = "real" => Applied(saved.effects, body[i].id)
                        /\ body[i].code \in {"cancelled", "not_executed"} =>
                             ~Applied(saved.effects, body[i].id)
      OBVIOUS
    <3>1. body[i].id = <<Len(log), i>> /\ i \in Nat
      BY <2>1 DEF Named
    <3>2. body[i].code = IF i \in run.done THEN "real" ELSE run.end
      BY <2>1
    <3>3. i \notin run.done => run.end # "real"
      BY <1>1 DEF RunState
    <3> QED
      BY <2>4, <3>1, <3>2, <3>3
  <2> QED
    BY <1>1, <2>2, <2>3, <2>5, <2>6, SavedStays, PlainKinds DEF Opening
<1>17. CASE WriteExtra
  <2>1. /\ run'.pc = "extras" /\ run.pc = "extras" /\ run'.effects = run.effects
        /\ Write(Skill) /\ UNCHANGED saved
    BY <1>1, <1>17 DEF WriteExtra, RunState, At
  <2> QED
    BY <1>8, <2>1, PlainKinds, MessageForms
<1>18. CASE Cancel \/ Die
  <2>1. log' = log /\ saved'.effects = saved.effects /\ run'.pc = "idle"
    BY <1>1, <1>18 DEF Cancel, Die, Idle
  <2> QED
    BY <1>1, <2>1, SavedStays DEF Opening
<1> QED
  BY <1>2, <1>3, <1>4, <1>5, <1>6, <1>7, <1>9, <1>10, <1>11, <1>12, <1>13, <1>14, <1>15,
     <1>16, <1>17, <1>18 DEF Next, Advance

-----------------------------------------------------------------------------
(* Limits.                                                                 *)

\* At the start nothing is used of the limits.
LEMMA LimitedInit ==
  ASSUME LoopAssumption, Init
  PROVE  Limited
<1>1. log = <<>> /\ run.pc = "idle" /\ run.blocks = 0
  BY DEF Init, Idle
<1>2. Before(<<>>, Len(<<>>), "recovery") = {}
  BY DEF Before
<1>3. Recoveries(log) = 0
  BY <1>1, <1>2, FS_EmptySet DEF Recoveries
<1>4. Recoveries(log) <= RecoveryLimit /\ run.blocks < StopLimit
  BY <1>1, <1>3, Constants
<1> QED
  BY <1>1, <1>4 DEF Limited, At, Opening, Asked

\* A message that is neither a recovery nor a refusal uses nothing.
LEMMA SameCounts ==
  ASSUME log \in Seq(Message), NEW n \in Nat, NEW reasons, LastRefused(log, n, reasons),
         \/ log' = log
         \/ \E x \in Message : Write(x) /\ x.kind \notin {"recovery", "gate"}
  PROVE  /\ Recoveries(log') = Recoveries(log)
         /\ Cardinality(Refusals(log')) = Cardinality(Refusals(log))
         /\ LastRefused(log', n, reasons)
<1>1. CASE log' = log
  BY <1>1
<1>2. CASE \E x \in Message : Write(x) /\ x.kind \notin {"recovery", "gate"}
  <2>1. PICK x \in Message : log' = Append(log, x) /\ x.kind # "recovery" /\ x.kind # "gate"
    BY <1>2 DEF Write
  <2>2. Recoveries(log') = Recoveries(log) + 0 /\ Recoveries(log) \in Nat
    BY <2>1, BeforeAppend DEF Recoveries
  <2>3. /\ Cardinality(Refusals(log')) = Cardinality(Refusals(log)) + 0
        /\ Cardinality(Refusals(log)) \in Nat
    BY <2>1, BeforeAppend DEF Refusals
  <2>4. LastRefused(log', n, reasons)
    BY <2>1, LastRefusedAppend
  <2> QED
    BY <2>2, <2>3, <2>4
<1> QED
  BY <1>1, <1>2

\* A step that counts nothing keeps the limits, in a run and at its end.
LEMMA LimitsStay ==
  ASSUME LoopAssumption, log \in Seq(Message), run \in RunState, Limited,
         \/ log' = log
         \/ \E x \in Message : Write(x) /\ x.kind \notin {"recovery", "gate"},
         \/ run'.pc \in Opening /\ run'.blocks = 0
         \/ /\ run.pc \notin Opening /\ run.pc # "refused" /\ run'.pc # "refused"
            /\ run'.recoveries = run.recoveries /\ run'.blocks = run.blocks
            /\ run'.reasons = run.reasons /\ run'.rounds = run.rounds
            /\ run'.pc \in Asked => run.pc \in Asked
  PROVE  Limited'
<1>1. run.blocks \in Nat /\ StopLimit \in Nat \ {0}
  BY Constants DEF RunState
<1>2. Recoveries(log') = Recoveries(log)
  BY SameCounts, NoneRefused
<1>3. CASE run'.pc \in Opening /\ run'.blocks = 0
  <2>1. run'.pc \notin Asked /\ run'.pc # "refused" /\ run'.blocks < StopLimit
    BY <1>1, <1>3 DEF Opening, Asked
  <2> QED
    BY <1>2, <1>3, <2>1 DEF Limited, At
<1>4. CASE /\ run.pc \notin Opening /\ run.pc # "refused" /\ run'.pc # "refused"
           /\ run'.recoveries = run.recoveries /\ run'.blocks = run.blocks
           /\ run'.reasons = run.reasons /\ run'.rounds = run.rounds
           /\ run'.pc \in Asked => run.pc \in Asked
  <2>1. LastRefused(log, run.blocks, run.reasons[1])
    BY <1>4 DEF Limited
  <2>2. /\ Cardinality(Refusals(log')) = Cardinality(Refusals(log))
        /\ LastRefused(log', run.blocks, run.reasons[1])
    BY <1>1, <2>1, SameCounts
  <2> QED
    BY <1>2, <1>4, <2>2 DEF Limited, At
<1> QED
  BY <1>3, <1>4

\* Every step keeps within the limits.
LEMMA LimitedStep ==
  ASSUME LoopAssumption, Inv, Next
  PROVE  Limited'
<1> USE DEF Opening, Asked
<1>1. log \in Seq(Message) /\ run \in RunState /\ Limited /\ Types
  BY DEF Inv, Types
<1>2. CASE Start \/ Resume
  <2>1. run'.pc \in Opening /\ run'.blocks = 0
    BY <1>2 DEF Start, Resume, Idle
  <2>2. \/ log' = log
        \/ \E x \in Message : Write(x) /\ x.kind \notin {"recovery", "gate"}
    <3>1. CASE Start
      BY <3>1 DEF Start
    <3>2. CASE Resume /\ Open(log, Len(log)) = {}
      BY <3>2 DEF Resume
    <3>3. CASE Resume /\ Open(log, Len(log)) # {}
      <4>1. Paired(log) /\ Dangling(log)
        BY <1>1, <3>3, PairedIsRepairable DEF Inv, Transcript
      <4>2. Interrupted(log) \in Message /\ Interrupted(log).kind = "results"
        BY <1>1, <4>1, InterruptedAnswers
      <4> QED
        BY <3>3, <4>2 DEF Resume, Write
    <3> QED
      BY <1>2, <3>1, <3>2, <3>3
  <2> QED
    BY <1>1, <2>1, <2>2, LimitsStay
<1>3. CASE AppendInput
  <2>1. run'.pc \in Opening /\ run'.blocks = run.blocks /\ run.pc \in {"starting", "resuming"}
        /\ Write(User)
    BY <1>1, <1>3 DEF AppendInput, RunState
  <2>2. \E x \in Message : Write(x) /\ x.kind \notin {"recovery", "gate"}
    BY <2>1, PlainKinds, MessageForms
  <2>3. Recoveries(log') = Recoveries(log)
    BY <1>1, <2>2, SameCounts, NoneRefused
  <2> QED
    BY <1>1, <2>1, <2>3 DEF Limited, At
<1>4. CASE Begin
  <2>1. /\ log' = log /\ run'.pc = "head" /\ run'.recoveries = Recoveries(log)
        /\ run'.blocks = 0 /\ run'.rounds = 0
    BY <1>4 DEF Begin, Opened, Idle
  <2>2. LastRefused(log, 0, run'.reasons[1]) /\ Cardinality(Refusals(log)) \in Nat
    BY <1>1, NoneRefused, BeforeAppend, MessageForms DEF Refusals
  <2>3. 0 < StopLimit
    BY Constants
  <2> QED
    BY <1>1, <2>1, <2>2, <2>3 DEF Limited, At
<1>5. CASE HeadFails \/ ModelFails \/ CutFails \/ StopHookFails \/ Complete \/ Blocked \/ StopTools
           \/ Cancel \/ Die
  <2>1. log' = log /\ run' = Idle
    BY <1>5 DEF HeadFails, ModelFails, CutFails, StopHookFails, Complete, Blocked, StopTools,
                Cancel, Die, Stop
  <2> QED
    BY <1>1, <2>1, LimitsStay DEF Idle
<1>6. CASE EnterRound
  <2>1. /\ log' = log /\ run.pc = "head" /\ run'.pc = "model" /\ run'.rounds = run.rounds + 1
        /\ run'.recoveries = run.recoveries /\ run'.blocks = run.blocks
        /\ run'.reasons = run.reasons
    BY <1>1, <1>6 DEF EnterRound, RunState, At
  <2>2. run.blocks <= run.rounds /\ run.blocks \in Nat /\ run.rounds \in Nat
    <3>1. MaxRounds \in Nat
      BY Constants
    <3> QED
      BY <1>1, <2>1, <3>1 DEF Limited, RunState
  <2>3. run'.blocks < run'.rounds /\ run'.blocks <= run'.rounds
    BY <2>1, <2>2
  <2> QED
    BY <1>1, <2>1, <2>3 DEF Limited, At
<1>7. CASE RetryAttempt \/ ContextTooLong \/ Escalate \/ NextRound
  <2>1. /\ log' = log /\ run.pc \in Asked /\ run'.pc \in Asked \union {"head"}
        /\ run'.recoveries = run.recoveries /\ run'.blocks = run.blocks
        /\ run'.reasons = run.reasons /\ run'.rounds = run.rounds
    BY <1>1, <1>7 DEF RetryAttempt, ContextTooLong, Escalate, NextRound, RunState, At
  <2> QED
    BY <1>1, <2>1, LimitsStay
<1>8. CASE AnswerCut \/ AnswerFinal
  <2>1. /\ Write(Assistant(<<>>)) /\ run.pc = "model" /\ run'.pc \in {"cut", "stopping"}
        /\ run'.recoveries = run.recoveries /\ run'.blocks = run.blocks
        /\ run'.reasons = run.reasons /\ run'.rounds = run.rounds
    BY <1>1, <1>8 DEF AnswerCut, AnswerFinal, RunState, At
  <2>2. Assistant(<<>>) \in Message /\ Assistant(<<>>).kind = "assistant"
    <3>1. <<>> \in Seq(Call)
      OBVIOUS
    <3> QED
      BY <3>1, MessageForms, PlainKinds
  <2> QED
    BY <1>1, <2>1, <2>2, LimitsStay
<1>9. CASE Continue
  <2>1. /\ Write(Recovery) /\ run.pc = "cut" /\ run'.pc = "head"
        /\ run.recoveries < RecoveryLimit /\ run'.recoveries = run.recoveries + 1
        /\ run'.blocks = run.blocks /\ run'.reasons = run.reasons /\ run'.rounds = run.rounds
    BY <1>1, <1>9 DEF Continue, RunState, At
  <2>2. run.recoveries = Recoveries(log) /\ run.recoveries \in Nat /\ RecoveryLimit \in Nat
    BY <1>1, <2>1, Constants DEF Limited, RunState
  <2>3. Recovery \in Message /\ Recovery.kind = "recovery" /\ Recovery.kind # "gate"
    BY MessageForms, PlainKinds
  <2>4. log' = Append(log, Recovery)
    BY <2>1 DEF Write
  <2>5. Recoveries(log') = Recoveries(log) + 1
    BY <1>1, <2>3, <2>4, BeforeAppend DEF Recoveries
  <2>6. /\ Cardinality(Refusals(log')) = Cardinality(Refusals(log)) + 0
        /\ Cardinality(Refusals(log)) \in Nat
    BY <1>1, <2>3, <2>4, BeforeAppend DEF Refusals
  <2>7. LastRefused(log, run.blocks, run.reasons[1]) /\ run.blocks \in Nat
    BY <1>1, <2>1 DEF Limited, RunState
  <2>8. LastRefused(log', run.blocks, run.reasons[1])
    BY <1>1, <2>3, <2>4, <2>7, LastRefusedAppend
  <2>9. Recoveries(log') <= RecoveryLimit /\ run'.recoveries = Recoveries(log')
    BY <2>1, <2>2, <2>5
  <2> QED
    BY <1>1, <2>1, <2>6, <2>8, <2>9 DEF Limited, At
<1>10. ASSUME NEW reasons \in Reasons, Refuse(reasons)
       PROVE  Limited'
  <2> DEFINE blocks == BlocksAfter(reasons)
  <2>1. /\ log' = Append(log, Gate(reasons)) /\ run.pc = "stopping"
        /\ run'.pc = (IF blocks >= StopLimit THEN "refused" ELSE "head")
        /\ run'.blocks = blocks /\ run'.reasons = <<reasons>> /\ run'.rounds = run.rounds
        /\ run'.recoveries = run.recoveries
    BY <1>1, <1>10 DEF Refuse, Write, RunState, At
  <2>2. /\ run.blocks \in Nat /\ run.rounds \in Nat /\ StopLimit \in Nat \ {0}
        /\ run.blocks < run.rounds /\ run.blocks < StopLimit
        /\ run.blocks <= Cardinality(Refusals(log))
        /\ LastRefused(log, run.blocks, run.reasons[1])
        /\ run.recoveries = Recoveries(log) /\ Recoveries(log) <= RecoveryLimit
    <3>1. MaxRounds \in Nat /\ StopLimit \in Nat \ {0}
      BY Constants
    <3> QED
      BY <1>1, <2>1, <3>1 DEF Limited, RunState, At
  <2>3. Gate(reasons) \in Message /\ Gate(reasons).kind = "gate" /\ Gate(reasons).kind # "recovery"
    BY MessageForms, PlainKinds
  <2>4. Recoveries(log') = Recoveries(log) + 0 /\ Recoveries(log) \in Nat
    BY <1>1, <2>1, <2>3, BeforeAppend DEF Recoveries
  <2>5. /\ Cardinality(Refusals(log')) = Cardinality(Refusals(log)) + 1
        /\ Cardinality(Refusals(log)) \in Nat
    BY <1>1, <2>1, <2>3, BeforeAppend DEF Refusals
  <2>6. blocks \in Nat \ {0} /\ blocks <= run.blocks + 1
    BY <2>2 DEF BlocksAfter
  <2>7. LastRefused(log', blocks, reasons)
    <3>1. CASE run.reasons = <<reasons>>
      <4>1. blocks = run.blocks + 1 /\ run.reasons[1] = reasons
        BY <3>1 DEF BlocksAfter
      <4>2. LastRefused(log, run.blocks, reasons)
        BY <2>2, <4>1
      <4> HIDE DEF blocks
      <4> QED
        BY <1>1, <2>1, <2>2, <2>3, <4>1, <4>2, LastRefusedAppend
    <3>2. CASE run.reasons # <<reasons>>
      <4>1. blocks = 0 + 1
        BY <3>2 DEF BlocksAfter
      <4>2. LastRefused(log, 0, reasons)
        BY <1>1, NoneRefused
      <4> HIDE DEF blocks
      <4>3. LastRefused(log', 0 + 1, reasons)
        BY <1>1, <2>1, <2>3, <4>2, LastRefusedAppend
      <4> QED
        BY <4>1, <4>3
    <3> QED
      BY <3>1, <3>2
  <2> HIDE DEF blocks
  <2>8. run'.reasons[1] = reasons
    BY <2>1
  <2>9. /\ blocks <= Cardinality(Refusals(log')) /\ blocks <= run'.rounds
        /\ run'.pc = "refused" => blocks = StopLimit
        /\ run'.pc # "refused" => blocks < StopLimit
    BY <2>1, <2>2, <2>5, <2>6
  <2>10. Recoveries(log') = Recoveries(log)
    BY <2>4
  <2> QED
    BY <2>1, <2>2, <2>7, <2>8, <2>9, <2>10 DEF Limited, At
<1>11. ASSUME NEW kinds \in CallLists, NEW repeated \in BOOLEAN, AnswerCalls(kinds, repeated)
       PROVE  Limited'
  <2>1. /\ Write(Assistant(Fresh(kinds))) /\ run.pc = "model" /\ run'.pc = "tools"
        /\ run'.recoveries = run.recoveries /\ run'.blocks = run.blocks
        /\ run'.reasons = run.reasons /\ run'.rounds = run.rounds
    BY <1>1, <1>11 DEF AnswerCalls, RunState, At
  <2>2. Assistant(Fresh(kinds)) \in Message /\ Assistant(Fresh(kinds)).kind = "assistant"
    <3>1. Fresh(kinds) \in Seq(Call)
      BY <1>1, FreshCalls
    <3> QED
      BY <3>1, MessageForms, PlainKinds
  <2> QED
    BY <1>1, <2>1, <2>2, LimitsStay
<1>12. ASSUME NEW i \in 1..MaxCalls, NEW hookFails \in BOOLEAN, FinishCall(i, hookFails)
       PROVE  Limited'
  <2>1. /\ log' = log /\ run.pc = "tools" /\ run'.pc = "tools"
        /\ run'.recoveries = run.recoveries /\ run'.blocks = run.blocks
        /\ run'.reasons = run.reasons /\ run'.rounds = run.rounds
    BY <1>1, <1>12 DEF FinishCall, RunState, At
  <2> QED
    BY <1>1, <2>1, LimitsStay
<1>13. CASE CommitBatch
  <2>1. /\ log' = log /\ run.pc = "tools" /\ run'.pc \in {"tools", "results"}
        /\ run'.recoveries = run.recoveries /\ run'.blocks = run.blocks
        /\ run'.reasons = run.reasons /\ run'.rounds = run.rounds
    BY <1>1, <1>13 DEF CommitBatch, Commit, AfterBatch, RunState, At
  <2> QED
    BY <1>1, <2>1, LimitsStay
<1>14. ASSUME NEW settled \in SUBSET (1..MaxCalls), CancelTools(settled)
       PROVE  Limited'
  <2>1. /\ log' = log /\ run.pc = "tools" /\ run'.pc = "results"
        /\ run'.recoveries = run.recoveries /\ run'.blocks = run.blocks
        /\ run'.reasons = run.reasons /\ run'.rounds = run.rounds
    BY <1>1, <1>14 DEF CancelTools, Commit, RunState, At
  <2> QED
    BY <1>1, <2>1, LimitsStay
<1>15. CASE WriteResults
  <2> DEFINE body == [i \in 1..Len(run.calls) |-> Outcome(i)]
  <2>1. /\ Write(Results(body)) /\ run.pc = "results" /\ run'.pc = "extras"
        /\ run'.recoveries = run.recoveries /\ run'.blocks = run.blocks
        /\ run'.reasons = run.reasons /\ run'.rounds = run.rounds
    BY <1>1, <1>15 DEF WriteResults, RunState, At
  <2>2. body \in Seq([id : Id, code : Code])
    BY <1>15, OutcomesAnswer DEF WriteResults
  <2> HIDE DEF body
  <2>3. Results(body) \in Message /\ Results(body).kind = "results"
    BY <2>2, MessageForms, PlainKinds
  <2> QED
    BY <1>1, <2>1, <2>3, LimitsStay
<1>16. CASE WriteExtra
  <2>1. /\ Write(Skill) /\ run.pc = "extras" /\ run'.pc = "extras"
        /\ run'.recoveries = run.recoveries /\ run'.blocks = run.blocks
        /\ run'.reasons = run.reasons /\ run'.rounds = run.rounds
    BY <1>1, <1>16 DEF WriteExtra, RunState, At
  <2> QED
    BY <1>1, <2>1, LimitsStay, PlainKinds, MessageForms
<1> QED
  BY <1>2, <1>3, <1>4, <1>5, <1>6, <1>7, <1>8, <1>9, <1>10, <1>11, <1>12, <1>13, <1>14,
     <1>15, <1>16 DEF Next, Advance

-----------------------------------------------------------------------------
(* The theorems.                                                           *)

\* What holds at the start and what every step keeps.
LEMMA InvHolds ==
  ASSUME LoopAssumption
  PROVE  Spec => []Inv
<1>1. Init => Inv
  BY TypesInit, TranscriptInit, SavedInit, LimitedInit DEF Inv
<1>2. Inv /\ [Next]_vars => Inv'
  <2>1. ASSUME Inv, Next PROVE Inv'
    BY <2>1, TypesStep, TranscriptStep, SavedStep, LimitedStep DEF Inv
  <2>2. ASSUME Inv, UNCHANGED vars PROVE Inv'
    BY <2>2 DEF vars, Inv, Types, Transcript, Saved, Limited, At, Batch, Safe
  <2> QED
    BY <2>1, <2>2
<1> QED
  BY <1>1, <1>2, PTL DEF Spec

\* Every variable keeps its shape, and no run exceeds its rounds.
THEOREM LoopTypeOK ==
  ASSUME LoopAssumption
  PROVE  Spec => []TypeOK
<1>1. Inv => TypeOK
  <2> SUFFICES ASSUME Inv PROVE TypeOK
    OBVIOUS
  <2>1. Types /\ run.blocks \in Nat /\ StopLimit \in Nat \ {0}
    BY Constants DEF Inv, Types, RunState
  <2>2. run.blocks \in 0..StopLimit
    <3>1. run.blocks <= StopLimit
      BY <2>1 DEF Inv, Limited
    <3> QED
      BY <2>1, <3>1
  <2> QED
    BY <2>1, <2>2 DEF TypeOK, Types, RunState
<1> QED
  BY <1>1, InvHolds, PTL

\* Whatever cancels or kills the runs of a Session, however many there are, its
\* transcript answers each call once, next to it and in order.
THEOREM ResultsAlwaysFollowCalls ==
  ASSUME LoopAssumption
  PROVE  Spec => []ResultsFollowCalls
<1>1. Inv => ResultsFollowCalls
  BY PairedFollows DEF Inv, Transcript
<1> QED
  BY <1>1, InvHolds, PTL

\* A state change is saved exactly for the calls whose real results the model sees,
\* in the order of the calls, each at most once.
THEOREM EffectsAlwaysFollowCalls ==
  ASSUME LoopAssumption
  PROVE  Spec => []EffectsFollowCalls
<1>1. Inv => EffectsFollowCalls
  BY DEF Inv, Saved, InCallOrder, Told, Applied,
         EffectsFollowCalls, EffectsMatchResults, EffectsInCallOrder
<1> QED
  BY <1>1, InvHolds, PTL

\* The limit on recoveries holds over all runs of the Session, and a run is blocked
\* only by refusals of its own, the last ones, for the same reasons.
THEOREM LimitsAlwaysHold ==
  ASSUME LoopAssumption
  PROVE  Spec => []LimitsHold
<1>1. Inv => LimitsHold
  <2> SUFFICES ASSUME Inv PROVE LimitsHold
    OBVIOUS
  <2>1. Limited /\ log \in Seq(Message) /\ run \in RunState
    BY DEF Inv, Types
  <2>2. RecoveriesBounded
    BY <2>1 DEF Limited, RecoveriesBounded
  <2>3. BlockedAfterRepeats
    BY <2>1 DEF Limited, LastRefused, Refusals, BlockedAfterRepeats, At, Opening
  <2> QED
    BY <2>2, <2>3 DEF LimitsHold
<1> QED
  BY <1>1, InvHolds, PTL

\* _repair_interrupted_tool_uses never raises: a Session that this loop wrote can
\* always be resumed.
THEOREM AlwaysRepairable ==
  ASSUME LoopAssumption
  PROVE  Spec => []Repairable(log)
<1>1. Inv => Repairable(log)
  BY PairedIsRepairable DEF Inv, Types, Transcript
<1> QED
  BY <1>1, InvHolds, PTL

-----------------------------------------------------------------------------
(* Requirements.  The state changes of a tool round tighten what the       *)
(* completion of the run demands.                                          *)

\* What a merge demands without a waiver is what either side does, so a
\* strict demand survives every further merge.
LEMMA StrictOfTighten ==
  ASSUME NEW a \in Requirements, NEW b \in Requirements
  PROVE  Strict(Tighten(a, b)) = Strict(a) \union Strict(b)
BY DEF Strict, Tighten, Requirements

\* A merge is a valid CompletionRequirements again.
LEMMA TightenIsValid ==
  ASSUME NEW a \in Requirements, NEW b \in Requirements
  PROVE  Tighten(a, b) \in Requirements
BY DEF Strict, Tighten, Requirements

\* Two merges with the same demands and the same strict demands are equal.
LEMMA SameRequirements ==
  ASSUME NEW a \in Requirements, NEW b \in Requirements,
         a.required = b.required, Strict(a) = Strict(b)
  PROVE  a = b
<1>1. a.waivable = a.required \ Strict(a) /\ b.waivable = b.required \ Strict(b)
  BY DEF Strict, Requirements
<1>2. a.waivable = b.waivable
  BY <1>1
<1> QED
  BY <1>2 DEF Requirements

\* completion/models.py promises that merging requirements only tightens and
\* does not depend on the order of the merges: applications, skills and
\* resumed Sessions may contribute in any order, any number of times.
THEOREM TightenIsOrderIndependent ==
  ASSUME NEW a \in Requirements, NEW b \in Requirements, NEW c \in Requirements
  PROVE  /\ Tighten(a, b) = Tighten(b, a)
         /\ Tighten(a, Tighten(b, c)) = Tighten(Tighten(a, b), c)
         /\ Tighten(a, a) = a
         /\ Strict(a) \subseteq Strict(Tighten(a, b))
<1>1. Tighten(a, b) \in Requirements /\ Tighten(b, c) \in Requirements
      /\ Tighten(b, a) \in Requirements /\ Tighten(a, a) \in Requirements
  BY TightenIsValid
<1>2. Tighten(a, Tighten(b, c)) \in Requirements /\ Tighten(Tighten(a, b), c) \in Requirements
  BY <1>1, TightenIsValid
<1>3. Tighten(a, b) = Tighten(b, a)
  <2>1. Tighten(a, b).required = Tighten(b, a).required
    BY DEF Tighten
  <2>2. Strict(Tighten(a, b)) = Strict(Tighten(b, a))
    <3>1. Strict(Tighten(a, b)) = Strict(a) \union Strict(b)
      BY StrictOfTighten
    <3>2. Strict(Tighten(b, a)) = Strict(b) \union Strict(a)
      BY StrictOfTighten
    <3>3. Strict(a) \union Strict(b) = Strict(b) \union Strict(a)
      OBVIOUS
    <3> QED
      BY <3>1, <3>2, <3>3
  <2> QED
    BY <1>1, <2>1, <2>2, SameRequirements
<1>4. Tighten(a, Tighten(b, c)) = Tighten(Tighten(a, b), c)
  <2>1. Tighten(a, Tighten(b, c)).required = Tighten(Tighten(a, b), c).required
    BY DEF Tighten
  <2>2. Strict(Tighten(a, Tighten(b, c))) = Strict(a) \union (Strict(b) \union Strict(c))
    BY <1>1, StrictOfTighten
  <2>3. Strict(Tighten(Tighten(a, b), c)) = (Strict(a) \union Strict(b)) \union Strict(c)
    BY <1>1, StrictOfTighten
  <2> QED
    BY <1>2, <2>1, <2>2, <2>3, SameRequirements
<1>5. Tighten(a, a) = a
  <2>1. Tighten(a, a).required = a.required
    BY DEF Tighten
  <2>2. Strict(Tighten(a, a)) = Strict(a)
    <3>1. Strict(Tighten(a, a)) = Strict(a) \union Strict(a)
      BY StrictOfTighten
    <3>2. Strict(a) \union Strict(a) = Strict(a)
      OBVIOUS
    <3> QED
      BY <3>1, <3>2
  <2> QED
    BY <1>1, <2>1, <2>2, SameRequirements
<1> QED
  BY <1>3, <1>4, <1>5, StrictOfTighten

=============================================================================
