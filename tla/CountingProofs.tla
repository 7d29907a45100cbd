--------------------------- MODULE CountingProofs ---------------------------
(***************************************************************************)
(* Facts about natural numbers, counting, and joined and filtered          *)
(* sequences, for the proofs about rate limits, webhook registrations and  *)
(* the requests to the model services. The second half proves from them    *)
(* what the API, the dashboard and the command line tell of the runs,      *)
(* which is nothing but lists cut, filtered and counted.                   *)
(***************************************************************************)
EXTENDS Views, FiniteSetTheorems, TLAPS

\* Induction over the naturals, with a set in the place of a predicate: what
\* holds 0, and n + 1 with every n, holds all of them. Otherwise adding one
\* would map the members below a missing number into those that are not 0.
LEMMA AllNaturals ==
    ASSUME NEW T, 0 \in T, \A n \in Nat : n \in T => n + 1 \in T
    PROVE  \A n \in Nat : n \in T
<1> SUFFICES ASSUME NEW n \in Nat, n \notin T
             PROVE  FALSE
  OBVIOUS
<1> DEFINE below == {i \in 0 .. n : i \in T}
           next == [i \in below |-> i + 1]
<1>1. IsFiniteSet(below) /\ 0 \in below
  <2>1. IsFiniteSet(0 .. n)
    BY FS_Interval
  <2> QED
    BY <2>1, FS_Subset
<1>2. next \in Injection(below, below \ {0})
  <2>1. \A i \in below : i + 1 \in below \ {0}
    OBVIOUS
  <2> QED
    BY <2>1 DEF Injection, IsInjective
<1> HIDE DEF below, next
<1>3. /\ IsFiniteSet(below \ {0})
      /\ Cardinality(below \ {0}) = Cardinality(below) - 1
      /\ Cardinality(below) \in Nat
  BY <1>1, FS_RemoveElement, FS_CardinalityType
<1>4. Cardinality(below) <= Cardinality(below \ {0})
  BY <1>1, <1>2, <1>3, FS_Injection
<1> QED
  BY <1>3, <1>4

\* A set of positive numbers up to n that holds every positive number below
\* its members is an interval.
LEMMA InitialSegment ==
    ASSUME NEW n \in Nat, NEW D, D \subseteq 1 .. n,
           \A i \in D : \A j \in 1 .. i : j \in D
    PROVE  Cardinality(D) \in 0 .. n /\ D = 1 .. Cardinality(D)
<1>1. PICK d \in 0 .. n : D = 1 .. d
  <2> DEFINE T == {i \in Nat : i <= n => 1 .. i \subseteq D \/ \E d \in 0 .. i : D = 1 .. d}
  <2>1. 0 \in T
    OBVIOUS
  <2>2. ASSUME NEW i \in Nat, i \in T
        PROVE  i + 1 \in T
    <3> SUFFICES ASSUME i + 1 <= n
                 PROVE  1 .. (i + 1) \subseteq D \/ \E d \in 0 .. (i + 1) : D = 1 .. d
      OBVIOUS
    <3>1. CASE \E d \in 0 .. i : D = 1 .. d
      BY <3>1
    <3>2. CASE 1 .. i \subseteq D /\ i + 1 \in D
      BY <3>2
    <3>3. CASE 1 .. i \subseteq D /\ i + 1 \notin D
      <4>1. ASSUME NEW j \in D
            PROVE  j \in 1 .. i
        <5>1. j \in 1 .. n /\ (i + 1 \in 1 .. j => i + 1 \in D)
          OBVIOUS
        <5> QED
          BY <3>3, <5>1
      <4>2. D = 1 .. i
        BY <3>3, <4>1
      <4> QED
        BY <4>2
    <3> QED
      BY <2>2, <3>1, <3>2, <3>3
  <2> HIDE DEF T
  <2>3. n \in T
    BY <2>1, <2>2, AllNaturals
  <2>4. 1 .. n \subseteq D \/ \E d \in 0 .. n : D = 1 .. d
    BY <2>3 DEF T
  <2>5. CASE 1 .. n \subseteq D
    <3>1. D = 1 .. n
      BY <2>5
    <3> WITNESS n \in 0 .. n
    <3> QED
      BY <3>1
  <2> QED
    BY <2>4, <2>5
<1>2. Cardinality(1 .. d) = d
  BY <1>1, FS_Interval
<1> QED
  BY <1>1, <1>2

\* A sequence is a function on its indices.
LEMMA SequenceOf ==
    ASSUME NEW S, NEW s \in Seq(S)
    PROVE  /\ Len(s) \in Nat /\ DOMAIN s = 1 .. Len(s)
           /\ \A i \in 1 .. Len(s) : s[i] \in S
           /\ s \in [1 .. Len(s) -> S]
           /\ s = [i \in 1 .. Len(s) |-> s[i]]
  OBVIOUS

\* A function on 1 .. n is a sequence of length n.
LEMMA FunctionIsSequence ==
    ASSUME NEW S, NEW n \in Nat, NEW s \in [1 .. n -> S]
    PROVE  s \in Seq(S) /\ Len(s) = n /\ DOMAIN s = 1 .. n
  OBVIOUS

\* A concatenation of sequences over one set.
LEMMA Concatenation ==
    ASSUME NEW S, NEW s \in Seq(S), NEW t \in Seq(S)
    PROVE  /\ s \o t \in Seq(S)
           /\ Len(s \o t) = Len(s) + Len(t)
           /\ \A i \in 1 .. Len(s) : (s \o t)[i] = s[i]
           /\ \A i \in 1 .. Len(t) : (s \o t)[Len(s) + i] = t[i]
           /\ s \o <<>> = s
           /\ <<>> \o s = s
  OBVIOUS

\* f tells what the loop of Joined has after each of its rounds.
JoinedUpTo(f, seqs) ==
    /\ f[0] = <<>>
    /\ \A i \in 1 .. Len(seqs) : f[i] = f[i - 1] \o seqs[i]
    /\ Joined(seqs) = f[Len(seqs)]

\* The loop of Joined has a value after every round: a function with these
\* values exists, and the one that Joined chooses is like it.
LEMMA JoinedRounds ==
    ASSUME NEW S, NEW seqs \in Seq(Seq(S))
    PROVE  \E f \in [0 .. Len(seqs) -> Seq(S)] : JoinedUpTo(f, seqs)
<1> DEFINE n == Len(seqs)
           Round(f, i) == IF i = 0 THEN <<>> ELSE f[i - 1] \o seqs[i]
           Loop(f, m) == \A i \in 0 .. m : f[i] = Round(f, i)
<1>1. n \in Nat /\ \A i \in 1 .. n : seqs[i] \in Seq(S)
  OBVIOUS
<1>2. /\ \A f : Round(f, 0) = <<>>
      /\ \A f, g : \A m \in Nat : f[m] = g[m] => Round(f, m + 1) = Round(g, m + 1)
  OBVIOUS
<1>3. ASSUME NEW f, NEW m \in Nat, m + 1 <= n, f[m] \in Seq(S)
      PROVE  Round(f, m + 1) \in Seq(S)
  <2>1. m + 1 \in 1 .. n /\ m + 1 # 0 /\ (m + 1) - 1 = m
    BY <1>1, <1>3
  <2>2. seqs[m + 1] \in Seq(S)
    BY <1>1, <2>1
  <2>3. Round(f, m + 1) = f[m] \o seqs[m + 1]
    BY <2>1
  <2> HIDE DEF n, Round
  <2>4. f[m] \in Seq(S)
    BY <1>3
  <2>5. f[m] \o seqs[m + 1] \in Seq(S)
    BY ONLY <2>2, <2>4, Concatenation
  <2> QED
    BY <2>3, <2>5
<1>4. Joined(seqs) = (CHOOSE f : f = [i \in 0 .. n |-> Round(f, i)])[n]
  BY DEF Joined
<1>5. ASSUME NEW f, Loop(f, n)
      PROVE  \A i \in 1 .. n : f[i] = f[i - 1] \o seqs[i]
  <2> TAKE i \in 1 .. n
  <2>1. i \in 0 .. n /\ i # 0
    BY <1>1
  <2>2. f[i] = Round(f, i)
    BY <1>5, <2>1
  <2> QED
    BY <2>1, <2>2
<1> HIDE DEF n, Round
<1>6. PICK f \in [0 .. n -> Seq(S)] : Loop(f, n)
  <2> DEFINE Some(m) == \E f \in [0 .. m -> Seq(S)] : Loop(f, m)
             T == {m \in Nat : m <= n => Some(m)}
  <2>1. Some(0)
    <3> DEFINE f == [i \in 0 .. 0 |-> <<>>]
    <3>1. f \in [0 .. 0 -> Seq(S)] /\ \A i \in 0 .. 0 : f[i] = Round(f, i)
      BY <1>2
    <3> QED
      BY <3>1
  <2>2. ASSUME NEW m \in Nat, m + 1 <= n, Some(m)
        PROVE  Some(m + 1)
    <3>1. PICK f \in [0 .. m -> Seq(S)] : Loop(f, m)
      BY <2>2
    <3> DEFINE last == Round(f, m + 1)
               g == [i \in 0 .. (m + 1) |-> IF i = m + 1 THEN last ELSE f[i]]
    <3>2. last \in Seq(S)
      BY <1>3, <2>2, <3>1
    <3> HIDE DEF last
    <3>3. g \in [0 .. (m + 1) -> Seq(S)] /\ g[m + 1] = last /\ \A i \in 0 .. m : g[i] = f[i]
      BY <3>1, <3>2
    <3> HIDE DEF g
    <3>4. ASSUME NEW i \in 0 .. (m + 1)
          PROVE  g[i] = Round(g, i)
      <4>1. CASE i = 0
        BY <1>2, <3>1, <3>3, <4>1
      <4>2. CASE i # 0
        <5>1. PICK k \in 0 .. m : i = k + 1
          <6>1. i - 1 \in 0 .. m /\ i = (i - 1) + 1
            BY <4>2
          <6> QED
            BY <6>1
        <5>2. Round(g, i) = Round(f, i)
          <6>1. g[k] = f[k] /\ k \in Nat
            BY <3>3
          <6> QED
            BY <1>2, <5>1, <6>1
        <5>3. g[i] = Round(f, i)
          <6>1. CASE k = m
            BY <3>3, <5>1, <6>1 DEF last
          <6>2. CASE k # m
            <7>1. i \in 0 .. m
              BY <5>1, <6>2
            <7> QED
              BY <3>1, <3>3, <7>1
          <6> QED
            BY <6>1, <6>2
        <5> QED
          BY <5>2, <5>3
      <4> QED
        BY <4>1, <4>2
    <3> QED
      BY <3>3, <3>4
  <2> HIDE DEF Some
  <2>3. 0 \in T /\ \A m \in Nat : m \in T => m + 1 \in T
    BY <1>1, <2>1, <2>2
  <2> HIDE DEF T
  <2>4. n \in T
    BY <1>1, <2>3, AllNaturals
  <2>5. Some(n)
    BY <1>1, <2>4 DEF T
  <2> QED
    BY <2>5 DEF Some
<1> DEFINE chosen == CHOOSE g : g = [i \in 0 .. n |-> Round(g, i)]
<1>7. chosen = [i \in 0 .. n |-> Round(chosen, i)]
  <2>1. f = [i \in 0 .. n |-> Round(f, i)]
    BY <1>6
  <2>2. \E g : g = [i \in 0 .. n |-> Round(g, i)]
    BY <2>1
  <2> QED
    BY <2>2
<1>8. Joined(seqs) = chosen[n]
  BY <1>4
<1> HIDE DEF chosen
<1>9. chosen[n] = f[n]
  <2> DEFINE T == {m \in Nat : m <= n => chosen[m] = f[m]}
  <2>1. 0 \in T
    <3>1. chosen[0] = Round(chosen, 0) /\ f[0] = Round(f, 0)
      BY <1>1, <1>6, <1>7
    <3> QED
      BY <1>2, <3>1
  <2>2. ASSUME NEW m \in Nat, m + 1 <= n, chosen[m] = f[m]
        PROVE  chosen[m + 1] = f[m + 1]
    <3>1. m + 1 \in 0 .. n
      BY <1>1, <2>2
    <3>2. chosen[m + 1] = Round(chosen, m + 1)
      BY <1>7, <3>1
    <3>3. f[m + 1] = Round(f, m + 1)
      BY <1>6, <3>1
    <3> QED
      BY <1>2, <2>2, <3>2, <3>3
  <2>3. \A m \in Nat : m \in T => m + 1 \in T
    BY <1>1, <2>2
  <2> HIDE DEF T
  <2>4. n \in T
    BY <1>1, <2>1, <2>3, AllNaturals
  <2> QED
    BY <1>1, <2>4 DEF T
<1>10. f[0] = <<>>
  BY <1>1, <1>2, <1>6
<1>11. \A i \in 1 .. n : f[i] = f[i - 1] \o seqs[i]
  BY <1>5, <1>6
<1> QED
  BY <1>6, <1>8, <1>9, <1>10, <1>11 DEF n, JoinedUpTo

\* f tells what the loop of Kept has after each of its rounds.
AfterRounds(f, seq, keep) ==
    /\ f[0] = <<>>
    /\ \A i \in 1 .. Len(seq) :
         f[i] = IF i \in keep THEN Append(f[i - 1], seq[i]) ELSE f[i - 1]
    /\ Kept(seq, keep) = f[Len(seq)]

\* A round of Kept joins one element or none.
LEMMA KeptRounds ==
    ASSUME NEW S, NEW seq \in Seq(S), NEW keep
    PROVE  \E f \in [0 .. Len(seq) -> Seq(S)] : AfterRounds(f, seq, keep)
<1> DEFINE n == Len(seq)
           parts == [i \in 1 .. n |-> IF i \in keep THEN <<seq[i]>> ELSE <<>>]
<1>1. n \in Nat /\ \A i \in 1 .. n : seq[i] \in S
  OBVIOUS
<1>2. parts \in Seq(Seq(S)) /\ Len(parts) = n
  <2>1. ASSUME NEW i \in 1 .. n
        PROVE  (IF i \in keep THEN <<seq[i]>> ELSE <<>>) \in Seq(S)
    <3>1. CASE i \in keep
      BY <1>1, <3>1
    <3>2. CASE i \notin keep
      BY <3>2
    <3> QED
      BY <3>1, <3>2
  <2>2. parts \in [1 .. n -> Seq(S)]
    BY <2>1
  <2> HIDE DEF parts, n
  <2> QED
    BY <1>1, <2>2
<1>3. Kept(seq, keep) = Joined(parts)
  BY DEF Kept
<1>4. PICK f \in [0 .. n -> Seq(S)] : JoinedUpTo(f, parts)
  <2> HIDE DEF parts
  <2> QED
    BY <1>2, JoinedRounds
<1>5. f[0] = <<>> /\ Kept(seq, keep) = f[n] /\ \A i \in 1 .. n : f[i] = f[i - 1] \o parts[i]
  BY <1>2, <1>3, <1>4 DEF JoinedUpTo
<1>6. ASSUME NEW i \in 1 .. n
      PROVE  f[i] = IF i \in keep THEN Append(f[i - 1], seq[i]) ELSE f[i - 1]
  <2>1. i - 1 \in 0 .. n /\ f[i - 1] \in Seq(S) /\ seq[i] \in S
    BY <1>1, <1>4
  <2>2. CASE i \in keep
    <3>1. f[i] = f[i - 1] \o <<seq[i]>>
      BY <1>5, <2>2
    <3> HIDE DEF parts, n
    <3> QED
      BY <2>1, <2>2, <3>1
  <2>3. CASE i \notin keep
    <3>1. f[i] = f[i - 1] \o <<>>
      BY <1>5, <2>3
    <3> HIDE DEF parts, n
    <3> QED
      BY <2>1, <2>3, <3>1
  <2> QED
    BY <2>2, <2>3
<1> HIDE DEF parts
<1> QED
  BY <1>4, <1>5, <1>6 DEF AfterRounds

\* Counting the elements of a sequence: none in the empty one, and Append
\* adds its element if that is counted.
LEMMA CountAppend ==
    ASSUME NEW S, NEW seq \in Seq(S), NEW e \in S, NEW Q
    PROVE  /\ CountIn(seq, Q) \in 0 .. Len(seq)
           /\ CountIn(Append(seq, e), Q) = CountIn(seq, Q) + (IF e \in Q THEN 1 ELSE 0)
<1> DEFINE n == Len(seq)
           Counted == {i \in 1 .. n : seq[i] \in Q}
<1>1. /\ n \in Nat /\ DOMAIN seq = 1 .. n
      /\ DOMAIN Append(seq, e) = 1 .. (n + 1)
      /\ Append(seq, e)[n + 1] = e /\ \A i \in 1 .. n : Append(seq, e)[i] = seq[i]
  OBVIOUS
<1> HIDE DEF n
<1>2. IsFiniteSet(1 .. n) /\ Cardinality(1 .. n) = n
  BY <1>1, FS_Interval
<1>3. IsFiniteSet(Counted) /\ Cardinality(Counted) \in 0 .. n
  BY <1>1, <1>2, FS_Subset, FS_CardinalityType
<1>4. CountIn(seq, Q) = Cardinality(Counted)
  BY <1>1 DEF CountIn
<1>5. {i \in DOMAIN Append(seq, e) : Append(seq, e)[i] \in Q}
        = IF e \in Q THEN Counted \cup {n + 1} ELSE Counted
  BY <1>1
<1>6. n + 1 \notin Counted
  BY <1>1
<1> HIDE DEF Counted
<1>7. Cardinality(Counted \cup {n + 1}) = Cardinality(Counted) + 1
  BY <1>3, <1>6, FS_AddElement
<1>8. CountIn(Append(seq, e), Q) = Cardinality(IF e \in Q THEN Counted \cup {n + 1} ELSE Counted)
  BY <1>5 DEF CountIn
<1>9. CASE e \in Q
  BY <1>3, <1>4, <1>7, <1>8, <1>9 DEF n
<1>10. CASE e \notin Q
  BY <1>3, <1>4, <1>8, <1>10 DEF n
<1> QED
  BY <1>9, <1>10

\* The empty sequence has no element to count.
LEMMA CountEmpty == \A Q : CountIn(<<>>, Q) = 0
<1> SUFFICES ASSUME NEW Q
             PROVE  CountIn(<<>>, Q) = 0
  OBVIOUS
<1>1. {i \in DOMAIN <<>> : <<>>[i] \in Q} = {}
  OBVIOUS
<1> QED
  BY <1>1, FS_EmptySet DEF CountIn

\* The kept elements of seq that are in Q, by their indices.
KeptIn(seq, keep, Q) == {i \in DOMAIN seq : i \in keep /\ seq[i] \in Q}

\* A filtered sequence has elements of the original one, and of each kind as
\* many as the filter lets through.
LEMMA KeptElements ==
    ASSUME NEW S, NEW seq \in Seq(S), NEW keep, NEW Q
    PROVE  /\ Kept(seq, keep) \in Seq(S)
           /\ CountIn(Kept(seq, keep), Q) = Cardinality(KeptIn(seq, keep, Q))
<1> DEFINE n == Len(seq)
           Passing(m) == {i \in 1 .. m : i \in keep /\ seq[i] \in Q}
<1>1. PICK f \in [0 .. n -> Seq(S)] : AfterRounds(f, seq, keep)
  BY KeptRounds
<1>2. n \in Nat /\ DOMAIN seq = 1 .. n /\ \A i \in 1 .. n : seq[i] \in S
  OBVIOUS
<1> HIDE DEF n
<1>3. ASSUME NEW m \in Nat
      PROVE  IsFiniteSet(Passing(m)) /\ Cardinality(Passing(m)) \in Nat
  <2>1. IsFiniteSet(1 .. m)
    BY FS_Interval
  <2> QED
    BY <2>1, FS_Subset, FS_CardinalityType
<1> DEFINE Same(m) == CountIn(f[m], Q) = Cardinality(Passing(m))
           T == {m \in Nat : m <= n => Same(m)}
<1>4. Same(0)
  <2>1. Passing(0) = {}
    OBVIOUS
  <2> QED
    BY <1>1, <2>1, CountEmpty, FS_EmptySet DEF AfterRounds
<1>5. ASSUME NEW m \in Nat, m + 1 <= n, Same(m)
      PROVE  Same(m + 1)
  <2>1. /\ m \in 0 .. n /\ m + 1 \in 1 .. n /\ (m + 1) - 1 = m
        /\ f[m] \in Seq(S) /\ seq[m + 1] \in S
    BY <1>1, <1>2, <1>5
  <2>2. f[m + 1] = IF m + 1 \in keep THEN Append(f[m], seq[m + 1]) ELSE f[m]
    BY <1>1, <2>1 DEF AfterRounds, n
  <2>3. Passing(m + 1) = IF m + 1 \in keep /\ seq[m + 1] \in Q
                         THEN Passing(m) \cup {m + 1} ELSE Passing(m)
    OBVIOUS
  <2>4. m + 1 \notin Passing(m)
    OBVIOUS
  <2> HIDE DEF Passing
  <2>5. Cardinality(Passing(m) \cup {m + 1}) = Cardinality(Passing(m)) + 1
    BY <1>3, <2>4, FS_AddElement
  <2>6. CountIn(Append(f[m], seq[m + 1]), Q)
          = CountIn(f[m], Q) + (IF seq[m + 1] \in Q THEN 1 ELSE 0)
    <3>1. f[m] \in Seq(S) /\ seq[m + 1] \in S
      BY <2>1
    <3> QED
      BY ONLY <3>1, CountAppend
  <2>7. CASE m + 1 \in keep /\ seq[m + 1] \in Q
    BY <1>5, <2>2, <2>3, <2>5, <2>6, <2>7
  <2>8. CASE m + 1 \in keep /\ seq[m + 1] \notin Q
    <3>1. CountIn(f[m], Q) \in Nat
      BY <2>1, CountAppend
    <3> QED
      BY <1>5, <2>2, <2>3, <2>6, <2>8, <3>1
  <2>9. CASE m + 1 \notin keep
    BY <1>5, <2>2, <2>3, <2>9
  <2> QED
    BY <2>7, <2>8, <2>9
<1> HIDE DEF Same
<1>6. 0 \in T /\ \A m \in Nat : m \in T => m + 1 \in T
  BY <1>2, <1>4, <1>5
<1> HIDE DEF T
<1>7. n \in T
  BY <1>2, <1>6, AllNaturals
<1>8. CountIn(f[n], Q) = Cardinality(Passing(n))
  BY <1>2, <1>7 DEF T, Same
<1>9. f[n] \in Seq(S)
  BY <1>1, <1>2
<1>10. Kept(seq, keep) = f[n]
  BY <1>1 DEF AfterRounds, n
<1>11. Passing(n) = KeptIn(seq, keep, Q)
  BY <1>2 DEF KeptIn
<1> QED
  BY <1>8, <1>9, <1>10, <1>11

\* Joining one sequence gives it back.
LEMMA JoinedOne ==
    ASSUME NEW S, NEW seqs \in Seq(Seq(S)), Len(seqs) = 1
    PROVE  Joined(seqs) = seqs[1]
<1>1. PICK f \in [0 .. 1 -> Seq(S)] : JoinedUpTo(f, seqs)
  BY JoinedRounds
<1>2. f[0] = <<>> /\ f[1] = f[0] \o seqs[1] /\ Joined(seqs) = f[1]
  <2>1. 1 \in 1 .. Len(seqs) /\ 1 - 1 = 0
    OBVIOUS
  <2> QED
    BY <1>1, <2>1 DEF JoinedUpTo
<1>3. seqs[1] \in Seq(S)
  <2>1. \A i \in 1 .. Len(seqs) : seqs[i] \in Seq(S)
    BY SequenceOf
  <2> QED
    BY <2>1
<1> QED
  BY <1>2, <1>3, Concatenation

\* Joining the elements of a sequence, each on its own, gives it back.
LEMMA JoinedSingletons ==
    ASSUME NEW S, NEW seq \in Seq(S)
    PROVE  Joined([i \in 1 .. Len(seq) |-> <<seq[i]>>]) = seq
<1> DEFINE n == Len(seq)
           parts == [i \in 1 .. n |-> <<seq[i]>>]
           UpTo(m) == [i \in 1 .. m |-> seq[i]]
<1>1. n \in Nat /\ \A i \in 1 .. n : seq[i] \in S
  OBVIOUS
<1>2. parts \in Seq(Seq(S)) /\ Len(parts) = n /\ \A i \in 1 .. n : parts[i] = <<seq[i]>>
  <2>1. \A i \in 1 .. n : <<seq[i]>> \in Seq(S)
    BY <1>1
  <2>2. parts \in [1 .. n -> Seq(S)] /\ \A i \in 1 .. n : parts[i] = <<seq[i]>>
    BY <2>1
  <2> HIDE DEF parts, n
  <2> QED
    BY <1>1, <2>2
<1>3. UpTo(0) = <<>> /\ UpTo(n) = seq
  OBVIOUS
<1>4. ASSUME NEW m \in Nat, m + 1 <= n
      PROVE  UpTo(m) \o <<seq[m + 1]>> = UpTo(m + 1)
  <2>1. seq[m + 1] \in S /\ \A i \in 1 .. m : seq[i] \in S
    BY <1>1, <1>4
  <2>2. UpTo(m) \in Seq(S) /\ Len(UpTo(m)) = m /\ \A i \in 1 .. m : UpTo(m)[i] = seq[i]
    BY <2>1
  <2> DEFINE more == UpTo(m) \o <<seq[m + 1]>>
  <2>3. /\ more \in Seq(S) /\ Len(more) = m + 1
        /\ \A i \in 1 .. m : more[i] = seq[i]
        /\ more[m + 1] = seq[m + 1]
    <3> HIDE DEF UpTo
    <3> QED
      BY <2>1, <2>2
  <2> HIDE DEF more
  <2>4. more = [i \in 1 .. (m + 1) |-> more[i]]
    BY <2>3
  <2>5. \A i \in 1 .. (m + 1) : more[i] = seq[i]
    BY <2>3
  <2> QED
    BY <2>4, <2>5 DEF more
<1> HIDE DEF parts, UpTo
<1>5. PICK f \in [0 .. n -> Seq(S)] : JoinedUpTo(f, parts)
  BY <1>2, JoinedRounds
<1> DEFINE T == {m \in Nat : m <= n => f[m] = UpTo(m)}
<1>6. 0 \in T
  BY <1>3, <1>5 DEF JoinedUpTo
<1>7. ASSUME NEW m \in Nat, m \in T
      PROVE  m + 1 \in T
  <2> SUFFICES ASSUME m + 1 <= n PROVE f[m + 1] = UpTo(m + 1)
    OBVIOUS
  <2>1. m + 1 \in 1 .. n /\ (m + 1) - 1 = m /\ f[m] = UpTo(m)
    BY <1>1, <1>7
  <2>2. f[m + 1] = f[m] \o <<seq[m + 1]>>
    BY <1>2, <1>5, <2>1 DEF JoinedUpTo
  <2> QED
    BY <1>4, <2>1, <2>2
<1> HIDE DEF T
<1>8. n \in T
  BY <1>1, <1>6, <1>7, AllNaturals
<1>9. f[n] = UpTo(n)
  BY <1>1, <1>8 DEF T
<1>10. Joined(parts) = f[n]
  BY <1>2, <1>5 DEF JoinedUpTo
<1> QED
  BY <1>3, <1>9, <1>10 DEF parts

\* The end of a sequence.
LEMMA EndPart ==
    ASSUME NEW S, NEW s \in Seq(S), NEW b \in 1 .. (Len(s) + 1)
    PROVE  /\ SubSeq(s, b, Len(s)) \in Seq(S)
           /\ Len(SubSeq(s, b, Len(s))) = Len(s) - b + 1
           /\ \A i \in 1 .. (Len(s) - b + 1) : SubSeq(s, b, Len(s))[i] = s[(b - 1) + i]
  OBVIOUS

\* The beginning of a sequence.
LEMMA BeginPart ==
    ASSUME NEW S, NEW s \in Seq(S), NEW k \in 0 .. Len(s)
    PROVE  /\ SubSeq(s, 1, k) \in Seq(S) /\ Len(SubSeq(s, 1, k)) = k
           /\ \A i \in 1 .. k : SubSeq(s, 1, k)[i] = s[i]
  OBVIOUS

\* Two sequences with the same elements.
LEMMA SameSequence ==
    ASSUME NEW S, NEW s \in Seq(S), NEW t \in Seq(S), Len(s) = Len(t),
           \A i \in 1 .. Len(s) : s[i] = t[i]
    PROVE  s = t
<1>1. s = [i \in 1 .. Len(s) |-> s[i]] /\ t = [i \in 1 .. Len(t) |-> t[i]]
  BY SequenceOf
<1>2. [i \in 1 .. Len(s) |-> s[i]] = [i \in 1 .. Len(t) |-> t[i]]
  OBVIOUS
<1> QED
  BY <1>1, <1>2

\* Two sequences, one after the other.
Followed(s, t) == s \o t

\* Three sequences, one after the other, in either way.
LEMMA FollowedTwice ==
    ASSUME NEW S, NEW s \in Seq(S), NEW t \in Seq(S), NEW u \in Seq(S)
    PROVE  Followed(Followed(s, t), u) = Followed(s, Followed(t, u))
<1>1. (s \o t) \o u = s \o (t \o u)
  OBVIOUS
<1> QED
  BY <1>1 DEF Followed

\* Joining two lists of sequences, one after the other.
LEMMA JoinedConcatenation ==
    ASSUME NEW S, NEW ss \in Seq(Seq(S)), NEW tt \in Seq(Seq(S))
    PROVE  /\ Joined(ss \o tt) = Joined(ss) \o Joined(tt)
           /\ Joined(ss) \in Seq(S)
<1> DEFINE m == Len(ss)
           n == Len(tt)
           all == ss \o tt
<1>1. m \in Nat /\ n \in Nat
  OBVIOUS
<1>2. /\ all \in Seq(Seq(S)) /\ Len(all) = m + n
      /\ \A i \in 1 .. m : all[i] = ss[i]
      /\ \A i \in 1 .. n : all[m + i] = tt[i]
  <2>1. ss \in Seq(Seq(S)) /\ tt \in Seq(Seq(S))
    OBVIOUS
  <2> QED
    BY ONLY <2>1, Concatenation
<1> HIDE DEF all, m, n
<1>3. PICK f \in [0 .. (m + n) -> Seq(S)] : JoinedUpTo(f, all)
  BY <1>2, JoinedRounds
<1>4. PICK g \in [0 .. m -> Seq(S)] : JoinedUpTo(g, ss)
  BY JoinedRounds DEF m
<1>5. PICK h \in [0 .. n -> Seq(S)] : JoinedUpTo(h, tt)
  BY JoinedRounds DEF n
<1>6. /\ f[0] = <<>> /\ Joined(all) = f[m + n]
      /\ \A i \in 1 .. (m + n) : f[i] = f[i - 1] \o all[i]
  BY <1>2, <1>3 DEF JoinedUpTo
<1>7. g[0] = <<>> /\ Joined(ss) = g[m] /\ \A i \in 1 .. m : g[i] = g[i - 1] \o ss[i]
  BY <1>4 DEF JoinedUpTo, m
<1>8. h[0] = <<>> /\ Joined(tt) = h[n] /\ \A i \in 1 .. n : h[i] = h[i - 1] \o tt[i]
  BY <1>5 DEF JoinedUpTo, n
<1>9. f[m] = g[m]
  <2> DEFINE T == {k \in Nat : k <= m => f[k] = g[k]}
  <2>1. 0 \in T
    BY <1>6, <1>7
  <2>2. ASSUME NEW k \in Nat, k \in T
        PROVE  k + 1 \in T
    <3> SUFFICES ASSUME k + 1 <= m PROVE f[k + 1] = g[k + 1]
      OBVIOUS
    <3>1. /\ k + 1 \in 1 .. m /\ k + 1 \in 1 .. (m + n) /\ (k + 1) - 1 = k /\ f[k] = g[k]
      BY <1>1, <2>2
    <3>2. f[k + 1] = f[k] \o all[k + 1] /\ g[k + 1] = g[k] \o ss[k + 1]
      BY <1>6, <1>7, <3>1
    <3>3. all[k + 1] = ss[k + 1]
      BY <1>2, <3>1
    <3> QED
      BY <3>1, <3>2, <3>3
  <2> HIDE DEF T
  <2>3. m \in T
    BY <1>1, <2>1, <2>2, AllNaturals
  <2> QED
    BY <1>1, <2>3 DEF T
<1>10. g[m] \in Seq(S) /\ \A k \in 0 .. n : h[k] \in Seq(S)
  BY <1>1, <1>4, <1>5
<1>11. \A i \in 1 .. n : tt[i] \in Seq(S)
  BY SequenceOf DEF n
<1>12. f[m + n] = g[m] \o h[n]
  <2> DEFINE Split(k) == f[m + k] = g[m] \o h[k]
             T == {k \in Nat : k <= n => Split(k)}
  <2>1. 0 \in T
    <3>1. g[m] \o <<>> = g[m]
      BY ONLY <1>10, Concatenation
    <3>2. f[m + 0] = g[m] \o h[0]
      BY <1>1, <1>8, <1>9, <3>1
    <3> QED
      BY <3>2
  <2>2. ASSUME NEW k \in Nat, k \in T
        PROVE  k + 1 \in T
    <3> HIDE DEF Split
    <3> SUFFICES ASSUME k + 1 <= n PROVE Split(k + 1)
      OBVIOUS
    <3>1. /\ k + 1 \in 1 .. n /\ m + (k + 1) \in 1 .. (m + n) /\ (k + 1) - 1 = k
          /\ (m + (k + 1)) - 1 = m + k /\ k \in 0 .. n
      BY <1>1
    <3>2. f[m + k] = g[m] \o h[k]
      <4>1. Split(k)
        BY <1>1, <2>2, <3>1
      <4> QED
        BY <4>1 DEF Split
    <3>3. f[m + (k + 1)] = f[(m + (k + 1)) - 1] \o all[m + (k + 1)]
      BY <1>6, <3>1
    <3>4. h[k + 1] = h[(k + 1) - 1] \o tt[k + 1]
      BY <1>8, <3>1
    <3>5. all[m + (k + 1)] = tt[k + 1]
      BY <1>2, <3>1
    <3>6. f[m + (k + 1)] = (g[m] \o h[k]) \o tt[k + 1]
      BY <3>1, <3>2, <3>3, <3>5
    <3>7. (g[m] \o h[k]) \o tt[k + 1] = g[m] \o (h[k] \o tt[k + 1])
      <4>1. g[m] \in Seq(S) /\ h[k] \in Seq(S) /\ tt[k + 1] \in Seq(S)
        BY <1>10, <1>11, <3>1
      <4>2. Followed(Followed(g[m], h[k]), tt[k + 1]) = Followed(g[m], Followed(h[k], tt[k + 1]))
        BY <4>1, FollowedTwice
      <4> QED
        BY <4>2 DEF Followed
    <3> QED
      BY <3>1, <3>4, <3>6, <3>7 DEF Split
  <2> HIDE DEF T
  <2>3. n \in T
    BY <1>1, <2>1, <2>2, AllNaturals
  <2> QED
    BY <1>1, <2>3 DEF T
<1> QED
  BY <1>6, <1>7, <1>8, <1>9, <1>10, <1>12 DEF all

\* A set of positive numbers up to some number has a least one.
LEMMA LeastIndex ==
    ASSUME NEW n \in Nat, NEW D \in SUBSET (1 .. n), D # {}
    PROVE  \E i \in D : \A j \in D : i <= j
<1> SUFFICES ASSUME \A i \in D : \E j \in D : ~ (i <= j) PROVE FALSE
  OBVIOUS
<1> DEFINE T == {m \in Nat : \A i \in D : i > m}
<1>1. 0 \in T
  OBVIOUS
<1>2. ASSUME NEW m \in Nat, m \in T
      PROVE  m + 1 \in T
  <2> SUFFICES ASSUME NEW i \in D PROVE i > m + 1
    OBVIOUS
  <2>1. i > m /\ i \in Nat
    BY <1>2
  <2>2. CASE i = m + 1
    <3>1. PICK j \in D : ~ (i <= j)
      OBVIOUS
    <3>2. j > m /\ j \in Nat
      BY <1>2
    <3> QED
      BY <2>2, <3>1, <3>2
  <2> QED
    BY <2>1, <2>2
<1> HIDE DEF T
<1>3. n \in T
  BY <1>1, <1>2, AllNaturals
<1>4. \A i \in D : i > n
  BY <1>3 DEF T
<1>5. PICK i \in D : TRUE
  OBVIOUS
<1>6. i \in 1 .. n /\ i > n
  BY <1>4
<1> QED
  BY <1>6

\* A product with a larger number is not smaller.
LEMMA TimesMonotone ==
    ASSUME NEW s \in Nat, NEW c \in Nat, NEW n \in Nat, c <= n
    PROVE  s * c <= s * n
<1>1. PICK d \in Nat : n = c + d
  <2>1. n - c \in Nat /\ n = c + (n - c)
    OBVIOUS
  <2> QED
    BY <2>1
<1>2. s * n = s * c + s * d
  BY <1>1
<1>3. s * d \in Nat /\ s * c \in Nat
  BY <1>1
<1> QED
  BY <1>2, <1>3

-----------------------------------------------------------------------------
(* The views.                                                              *)

\* One run, if the filter lets it through.
OneOf(r, a) == IF a \in {AnyAgent, r.agent} THEN <<r>> ELSE <<>>
PartsOf(runs, a) == [i \in 1 .. Len(runs) |-> OneOf(runs[i], a)]

\* The filter joins what it lets through of every run.
LEMMA OfAgentParts ==
    ASSUME NEW S, NEW runs \in Seq(S), NEW a
    PROVE  PartsOf(runs, a) \in Seq(Seq(S)) /\ OfAgent(runs, a) = Joined(PartsOf(runs, a))
<1> DEFINE n == Len(runs)
           keep == {i \in DOMAIN runs : a \in {AnyAgent, runs[i].agent}}
<1>1. n \in Nat /\ DOMAIN runs = 1 .. n /\ \A i \in 1 .. n : runs[i] \in S
  BY SequenceOf
<1>2. ASSUME NEW i \in 1 .. n
      PROVE  OneOf(runs[i], a) \in Seq(S)
  <2>1. CASE a \in {AnyAgent, runs[i].agent}
    <3>1. <<runs[i]>> \in Seq(S)
      BY <1>1
    <3> QED
      BY <2>1, <3>1 DEF OneOf
  <2>2. CASE a \notin {AnyAgent, runs[i].agent}
    BY <2>2 DEF OneOf
  <2> QED
    BY <2>1, <2>2
<1>3. PartsOf(runs, a) \in [1 .. n -> Seq(S)]
  BY <1>2 DEF PartsOf
<1>4. \A i \in 1 .. n : (IF i \in keep THEN <<runs[i]>> ELSE <<>>) = OneOf(runs[i], a)
  BY <1>1 DEF OneOf
<1>5. [i \in 1 .. n |-> IF i \in keep THEN <<runs[i]>> ELSE <<>>] = PartsOf(runs, a)
  <2> HIDE DEF keep
  <2> QED
    BY <1>4 DEF PartsOf
<1>6. OfAgent(runs, a) = Joined([i \in 1 .. n |-> IF i \in keep THEN <<runs[i]>> ELSE <<>>])
  BY DEF OfAgent, Kept
<1>7. OfAgent(runs, a) = Joined(PartsOf(runs, a))
  BY <1>5, <1>6
<1> QED
  BY <1>1, <1>3, <1>7, FunctionIsSequence

\* Filtering two lists, one after the other.
LEMMA OfAgentConcatenation ==
    ASSUME NEW S, NEW runs \in Seq(S), NEW more \in Seq(S), NEW a
    PROVE  /\ OfAgent(runs, a) \in Seq(S)
           /\ OfAgent(Followed(runs, more), a) = Followed(OfAgent(runs, a), OfAgent(more, a))
<1> DEFINE m == Len(runs)
           n == Len(more)
           all == runs \o more
           p == PartsOf(runs, a)
           q == PartsOf(more, a)
           pq == PartsOf(all, a)
<1>1. /\ all \in Seq(S) /\ Len(all) = m + n /\ m \in Nat /\ n \in Nat
      /\ \A i \in 1 .. m : all[i] = runs[i]
      /\ \A i \in 1 .. n : all[m + i] = more[i]
  BY Concatenation, SequenceOf
<1>2. p \in Seq(Seq(S)) /\ q \in Seq(Seq(S)) /\ OfAgent(runs, a) = Joined(p) /\ OfAgent(more, a) = Joined(q)
  BY OfAgentParts
<1>3. pq \in Seq(Seq(S)) /\ OfAgent(all, a) = Joined(pq)
  <2> HIDE DEF all
  <2> QED
    BY <1>1, OfAgentParts
<1>4. pq = p \o q
  <2>1. /\ Len(p) = m /\ \A i \in 1 .. m : p[i] = OneOf(runs[i], a)
        /\ Len(q) = n /\ \A i \in 1 .. n : q[i] = OneOf(more[i], a)
    BY <1>1 DEF PartsOf
  <2> HIDE DEF all
  <2>2. Len(pq) = m + n /\ \A i \in 1 .. (m + n) : pq[i] = OneOf(all[i], a)
    BY <1>1 DEF PartsOf
  <2> HIDE DEF p, q, pq, m, n
  <2> DEFINE c == p \o q
  <2>3. /\ c \in Seq(Seq(S)) /\ Len(c) = m + n
        /\ \A i \in 1 .. m : c[i] = p[i]
        /\ \A i \in 1 .. n : c[m + i] = q[i]
    <3>1. /\ p \o q \in Seq(Seq(S)) /\ Len(p \o q) = Len(p) + Len(q)
          /\ \A i \in 1 .. Len(p) : (p \o q)[i] = p[i]
          /\ \A i \in 1 .. Len(q) : (p \o q)[Len(p) + i] = q[i]
      BY ONLY <1>2, Concatenation
    <3> QED
      BY <2>1, <3>1
  <2> HIDE DEF c
  <2>4. ASSUME NEW i \in 1 .. (m + n)
        PROVE  pq[i] = c[i]
    <3>1. CASE i <= m
      <4>1. i \in 1 .. m
        BY <1>1, <3>1
      <4>2. c[i] = OneOf(runs[i], a) /\ all[i] = runs[i]
        BY <1>1, <2>1, <2>3, <4>1
      <4> QED
        BY <2>2, <4>2
    <3>2. CASE i > m
      <4>1. PICK j \in 1 .. n : i = m + j
        <5>1. i - m \in 1 .. n /\ i = m + (i - m)
          BY <1>1, <3>2
        <5> QED
          BY <5>1
      <4>2. c[i] = OneOf(more[j], a) /\ all[i] = more[j]
        BY <1>1, <2>1, <2>3, <4>1
      <4> QED
        BY <2>2, <4>2
    <3> QED
      BY <1>1, <3>1, <3>2
  <2>5. pq = c
    BY <1>3, <2>2, <2>3, <2>4, SameSequence
  <2> QED
    BY <2>5 DEF c
<1>5. Joined(p \o q) = Joined(p) \o Joined(q) /\ Joined(p) \in Seq(S)
  <2> HIDE DEF p, q
  <2> QED
    BY <1>2, JoinedConcatenation
<1> QED
  BY <1>2, <1>3, <1>4, <1>5 DEF all, Followed

\* The filter on one run.
LEMMA OfAgentOne ==
    ASSUME NEW S, NEW r \in S, NEW a
    PROVE  OfAgent(<<r>>, a) = OneOf(r, a)
<1> DEFINE p == PartsOf(<<r>>, a)
<1>1. <<r>> \in Seq(S) /\ Len(<<r>>) = 1 /\ <<r>>[1] = r
  OBVIOUS
<1>2. p \in Seq(Seq(S)) /\ OfAgent(<<r>>, a) = Joined(p)
  BY <1>1, OfAgentParts
<1>3. Len(p) = 1 /\ p[1] = OneOf(r, a)
  BY <1>1 DEF PartsOf
<1> HIDE DEF p
<1> QED
  BY <1>2, <1>3, JoinedOne

\* The newest first.
LEMMA NewestRuns ==
    ASSUME NEW S, NEW runs \in Seq(S)
    PROVE  /\ Newest(runs) \in Seq(S) /\ Len(Newest(runs)) = Len(runs)
           /\ \A i \in 1 .. Len(runs) : Newest(runs)[i] = runs[Len(runs) + 1 - i]
<1> DEFINE n == Len(runs)
           new == Newest(runs)
<1>1. n \in Nat /\ DOMAIN runs = 1 .. n /\ \A i \in 1 .. n : runs[i] \in S
  BY SequenceOf
<1>2. \A i \in 1 .. n : n + 1 - i \in 1 .. n
  BY <1>1
<1>3. new \in [1 .. n -> S] /\ \A i \in 1 .. n : new[i] = runs[n + 1 - i]
  BY <1>1, <1>2 DEF Newest
<1> HIDE DEF n, new
<1>4. new \in Seq(S) /\ Len(new) = n
  BY <1>1, <1>3, FunctionIsSequence
<1> QED
  BY <1>3, <1>4 DEF n, new

\* The newest of two lists, one after the other, are the second's.
LEMMA NewestConcatenation ==
    ASSUME NEW S, NEW runs \in Seq(S), NEW more \in Seq(S)
    PROVE  Newest(runs \o more) = Newest(more) \o Newest(runs)
<1> DEFINE m == Len(runs)
           n == Len(more)
           all == runs \o more
           x == Newest(all)
           p == Newest(more)
           q == Newest(runs)
           c == p \o q
<1>1. m \in Nat /\ n \in Nat
  BY SequenceOf
<1>2. /\ all \in Seq(S) /\ Len(all) = m + n
      /\ \A i \in 1 .. m : all[i] = runs[i]
      /\ \A i \in 1 .. n : all[m + i] = more[i]
  <2>1. runs \in Seq(S) /\ more \in Seq(S)
    OBVIOUS
  <2> QED
    BY ONLY <2>1, Concatenation
<1>3. /\ p \in Seq(S) /\ Len(p) = n /\ \A i \in 1 .. n : p[i] = more[n + 1 - i]
      /\ q \in Seq(S) /\ Len(q) = m /\ \A i \in 1 .. m : q[i] = runs[m + 1 - i]
  BY NewestRuns
<1> HIDE DEF all, p, q, m, n
<1>4. x \in Seq(S) /\ Len(x) = m + n /\ \A i \in 1 .. (m + n) : x[i] = all[m + n + 1 - i]
  BY <1>2, NewestRuns
<1>5. /\ c \in Seq(S) /\ Len(c) = n + m
      /\ \A i \in 1 .. n : c[i] = p[i]
      /\ \A i \in 1 .. m : c[n + i] = q[i]
  <2>0. p \in Seq(S) /\ q \in Seq(S)
    BY <1>3
  <2>1. /\ p \o q \in Seq(S) /\ Len(p \o q) = Len(p) + Len(q)
        /\ \A i \in 1 .. Len(p) : (p \o q)[i] = p[i]
        /\ \A i \in 1 .. Len(q) : (p \o q)[Len(p) + i] = q[i]
    BY ONLY <2>0, Concatenation
  <2> QED
    BY <1>3, <2>1
<1> HIDE DEF x, c
<1>6. ASSUME NEW i \in 1 .. (m + n)
      PROVE  x[i] = c[i]
  <2>1. CASE i <= n
    <3>1. i \in 1 .. n /\ n + 1 - i \in 1 .. n /\ m + n + 1 - i = m + (n + 1 - i)
      BY <1>1, <2>1
    <3>2. c[i] = more[n + 1 - i]
      BY <1>3, <1>5, <3>1
    <3>3. all[m + (n + 1 - i)] = more[n + 1 - i]
      BY <1>2, <3>1
    <3> QED
      BY <1>4, <3>1, <3>2, <3>3
  <2>2. CASE i > n
    <3>1. PICK j \in 1 .. m : i = n + j
      <4>1. i - n \in 1 .. m /\ i = n + (i - n)
        BY <1>1, <2>2
      <4> QED
        BY <4>1
    <3>2. m + 1 - j \in 1 .. m /\ m + n + 1 - i = m + 1 - j
      BY <1>1, <3>1
    <3>3. c[i] = runs[m + 1 - j]
      BY <1>3, <1>5, <3>1
    <3>4. all[m + 1 - j] = runs[m + 1 - j]
      BY <1>2, <3>2
    <3> QED
      BY <1>4, <3>2, <3>3, <3>4
  <2> QED
    BY <1>1, <2>1, <2>2
<1>7. Len(x) = Len(c) /\ \A i \in 1 .. Len(x) : x[i] = c[i]
  BY <1>1, <1>4, <1>5, <1>6
<1>8. x = c
  BY <1>4, <1>5, <1>7, SameSequence
<1> QED
  BY <1>8 DEF x, c, all, p, q

\* Filtering the sorted runs and sorting the filtered runs give the same.
LEMMA NewestOfAgent ==
    ASSUME NEW S, NEW all \in Seq(S), NEW a
    PROVE  OfAgent(Newest(all), a) = Newest(OfAgent(all, a))
<1> DEFINE Same(runs) == OfAgent(Newest(runs), a) = Newest(OfAgent(runs, a))
           T == {n \in Nat : \A runs \in Seq(S) : Len(runs) = n => Same(runs)}
<1>1. 0 \in T
  <2> SUFFICES ASSUME NEW runs \in Seq(S), Len(runs) = 0 PROVE Same(runs)
    OBVIOUS
  <2>1. runs = <<>>
    OBVIOUS
  <2>2. OfAgent(<<>>, a) = <<>>
    <3> DEFINE p == PartsOf(<<>>, a)
    <3>1. p = <<>>
      BY DEF PartsOf
    <3>2. <<>> \in Seq(Seq(S)) /\ <<>> \in Seq(S)
      OBVIOUS
    <3>3. OfAgent(<<>>, a) = Joined(<<>>)
      BY <3>1, <3>2, OfAgentParts
    <3>4. PICK f : JoinedUpTo(f, <<>>)
      BY <3>2, JoinedRounds
    <3> QED
      BY <3>3, <3>4 DEF JoinedUpTo
  <2>3. Newest(<<>>) = <<>>
    BY DEF Newest
  <2> QED
    BY <2>1, <2>2, <2>3
<1>2. ASSUME NEW n \in Nat, n \in T
      PROVE  n + 1 \in T
  <2> HIDE DEF Same
  <2> SUFFICES ASSUME NEW runs \in Seq(S), Len(runs) = n + 1 PROVE Same(runs)
    OBVIOUS
  <2> DEFINE front == SubSeq(runs, 1, n)
             last == runs[n + 1]
             one == <<last>>
  <2>1. last \in S /\ one \in Seq(S) /\ Len(one) = 1 /\ one[1] = last
    <3>1. last \in S
      BY SequenceOf
    <3> HIDE DEF last
    <3> QED
      BY <3>1
  <2>2. front \in Seq(S) /\ Len(front) = n /\ runs = front \o one
    OBVIOUS
  <2>3. Same(front)
    BY <1>2, <2>2
  <2> HIDE DEF front, last
  <2> DEFINE f == OfAgent(front, a)
             o == OneOf(last, a)
  <2>4. OfAgent(one, a) = o
    BY <2>1, OfAgentOne
  <2>5. f \in Seq(S) /\ o \in Seq(S) /\ OfAgent(runs, a) = f \o o
    <3>1. f \in Seq(S) /\ OfAgent(front \o one, a) = f \o OfAgent(one, a) /\ OfAgent(one, a) \in Seq(S)
      <4> HIDE DEF one, f
      <4>1. /\ OfAgent(front, a) \in Seq(S) /\ OfAgent(one, a) \in Seq(S)
            /\ OfAgent(Followed(front, one), a) = Followed(OfAgent(front, a), OfAgent(one, a))
        BY <2>1, <2>2, OfAgentConcatenation
      <4> QED
        BY <4>1 DEF f, Followed
    <3> QED
      BY <2>2, <2>4, <3>1
  <2>6. Newest(one) = one /\ Newest(o) = o
    <3>1. Newest(one) = one
      BY DEF Newest
    <3>2. CASE a \in {AnyAgent, last.agent}
      BY <3>1, <3>2 DEF OneOf
    <3>3. CASE a \notin {AnyAgent, last.agent}
      <4>1. o = <<>>
        BY <3>3 DEF OneOf
      <4> QED
        BY <4>1 DEF Newest
    <3> QED
      BY <3>1, <3>2, <3>3
  <2> HIDE DEF o, f, one
  <2>7. Newest(runs) = one \o Newest(front)
    BY <2>1, <2>2, <2>6, NewestConcatenation
  <2>8. Newest(front) \in Seq(S)
    BY <2>2, NewestRuns
  <2>9. OfAgent(Newest(runs), a) = o \o OfAgent(Newest(front), a)
    <3>1. OfAgent(one \o Newest(front), a) = OfAgent(one, a) \o OfAgent(Newest(front), a)
      <4>1. one \in Seq(S) /\ Newest(front) \in Seq(S)
        BY <2>1, <2>8
      <4>2. OfAgent(Followed(one, Newest(front)), a)
              = Followed(OfAgent(one, a), OfAgent(Newest(front), a))
        BY <4>1, OfAgentConcatenation
      <4> QED
        BY <4>2 DEF Followed
    <3> QED
      BY <2>4, <2>7, <3>1
  <2>10. Newest(f \o o) = o \o Newest(f)
    BY <2>5, <2>6, NewestConcatenation
  <2> QED
    BY <2>3, <2>5, <2>9, <2>10 DEF Same, f
<1> HIDE DEF T
<1>3. Len(all) \in T
  <2>1. Len(all) \in Nat
    BY SequenceOf
  <2> QED
    BY <1>1, <1>2, <2>1, AllNaturals
<1> QED
  BY <1>3 DEF T

\* v is the beginning of base, and not empty unless base is.
Cut(v, base) ==
    /\ Len(v) \in 0 .. Len(base) /\ DOMAIN v = 1 .. Len(v)
    /\ \A i \in 1 .. Len(v) : v[i] = base[i]
    /\ Len(base) # 0 => Len(v) # 0

\* A limit cuts a list.
LEMMA FirstCuts ==
    ASSUME NEW S, NEW base \in Seq(S), NEW n \in Nat \ {0}
    PROVE  First(base, n) \in Seq(S) /\ Cut(First(base, n), base)
<1> DEFINE k == IF Len(base) < n THEN Len(base) ELSE n
           v == First(base, n)
<1>1. Len(base) \in Nat
  BY SequenceOf
<1>2. k \in 0 .. Len(base) /\ (Len(base) # 0 => k # 0)
  BY <1>1
<1>3. v = SubSeq(base, 1, k)
  BY DEF First
<1> HIDE DEF k, v
<1>4. v \in Seq(S) /\ Len(v) = k /\ \A i \in 1 .. k : v[i] = base[i]
  BY <1>1, <1>2, <1>3
<1>5. DOMAIN v = 1 .. k
  BY <1>4, SequenceOf
<1> QED
  BY <1>2, <1>4, <1>5 DEF Cut, v

\* A limit above the length changes nothing.
LEMMA FirstAll ==
    ASSUME NEW S, NEW base \in Seq(S), NEW n \in Nat, Len(base) <= n
    PROVE  First(base, n) = base
<1> DEFINE v == First(base, n)
<1>1. Len(base) \in Nat
  BY SequenceOf
<1>2. v = SubSeq(base, 1, Len(base))
  <2>1. CASE Len(base) < n
    BY <2>1 DEF First
  <2>2. CASE ~ (Len(base) < n)
    <3>1. n = Len(base)
      BY <1>1, <2>2
    <3> QED
      BY <2>2, <3>1 DEF First
  <2> QED
    BY <2>1, <2>2
<1> HIDE DEF v
<1>3. v \in Seq(S) /\ Len(v) = Len(base) /\ \A i \in 1 .. Len(base) : v[i] = base[i]
  BY <1>1, <1>2
<1>4. v = base
  BY <1>3, SameSequence
<1> QED
  BY <1>4 DEF v

\* A cut of a cut, and two cuts of one list.
LEMMA Cuts ==
    ASSUME NEW S, NEW base \in Seq(S), NEW v, NEW w, Cut(w, base)
    PROVE  /\ Cut(v, w) => Cut(v, base)
           /\ Cut(v, base) => Prefix(v, w) \/ Prefix(w, v)
<1>1. Len(base) \in Nat /\ Len(w) \in 0 .. Len(base)
  BY SequenceOf DEF Cut
<1>2. ASSUME Cut(v, w)
      PROVE  Cut(v, base)
  <2>1. Len(v) \in 0 .. Len(w) /\ DOMAIN v = 1 .. Len(v)
    BY <1>2 DEF Cut
  <2>2. ASSUME NEW i \in 1 .. Len(v)
        PROVE  v[i] = base[i]
    <3>1. i \in 1 .. Len(w)
      BY <1>1, <2>1
    <3> QED
      BY <1>2, <3>1 DEF Cut
  <2>3. Len(base) # 0 => Len(v) # 0
    BY <1>2 DEF Cut
  <2> QED
    BY <1>1, <2>1, <2>2, <2>3 DEF Cut
<1>3. ASSUME Cut(v, base)
      PROVE  Prefix(v, w) \/ Prefix(w, v)
  <2>1. Len(v) \in 0 .. Len(base) /\ DOMAIN v = 1 .. Len(v) /\ DOMAIN w = 1 .. Len(w)
    BY <1>3 DEF Cut
  <2>2. CASE Len(v) <= Len(w)
    <3>1. ASSUME NEW i \in 1 .. Len(v)
          PROVE  v[i] = w[i]
      <4>1. i \in 1 .. Len(w)
        BY <1>1, <2>1, <2>2
      <4> QED
        BY <1>3, <4>1 DEF Cut
    <3> QED
      BY <2>1, <2>2, <3>1 DEF Prefix
  <2>3. CASE Len(w) <= Len(v)
    <3>1. ASSUME NEW i \in 1 .. Len(w)
          PROVE  w[i] = v[i]
      <4>1. i \in 1 .. Len(v)
        BY <1>1, <2>1, <2>3
      <4> QED
        BY <1>3, <4>1 DEF Cut
    <3> QED
      BY <2>1, <2>3, <3>1 DEF Prefix
  <2> QED
    BY <1>1, <2>1, <2>2, <2>3
<1> QED
  BY <1>2, <1>3

\* The loop of runsList, which filters as it prints, cuts the filtered list too.
LEMMA RunsListCuts ==
    ASSUME ViewTypeOK, NEW a
    PROVE  Cut(runsList(a), Newest(OfAgent(stored, a)))
<1> DEFINE base == Newest(OfAgent(stored, a))
           sorted == Newest(stored)
           L == Len(sorted)
           Seen(i) == {j \in 1 .. i : a \in {AnyAgent, sorted[j].agent}}
           last == {i \in DOMAIN sorted : Cardinality(Seen(i)) = CliLimit}
           end == IF last = {} THEN L ELSE CHOOSE i \in last : \A j \in last : i <= j
           shown == SubSeq(sorted, 1, end)
           rest == SubSeq(sorted, end + 1, L)
<1>1. stored \in Seq(ViewRun) /\ CliLimit \in Nat \ {0}
  BY ViewConstants DEF ViewTypeOK
<1>2. sorted \in Seq(ViewRun) /\ L \in Nat /\ DOMAIN sorted = 1 .. L
  BY <1>1, NewestRuns, SequenceOf
<1>3. runsList(a) = OfAgent(shown, a)
  BY DEF runsList
<1>4. OfAgent(sorted, a) = base
  BY <1>1, NewestOfAgent
<1> HIDE DEF base, sorted, L
<1>5. end \in 0 .. L /\ (last # {} => end \in last)
  <2>1. CASE last = {}
    <3> HIDE DEF last
    <3>1. end = L
      BY <2>1
    <3> HIDE DEF end
    <3> QED
      BY <1>2, <2>1, <3>1
  <2>2. CASE last # {}
    <3> HIDE DEF Seen
    <3>1. last \in SUBSET (1 .. L)
      BY <1>2
    <3> HIDE DEF last
    <3>2. \E i \in last : \A j \in last : i <= j
      BY <1>2, <2>2, <3>1, LeastIndex
    <3>3. end \in last
      BY <2>2, <3>2
    <3> HIDE DEF end
    <3> QED
      BY <1>2, <3>1, <3>3
  <2> QED
    BY <2>1, <2>2
<1>6. last # {} => Cardinality(Seen(end)) = CliLimit
  <2> HIDE DEF end, Seen
  <2> QED
    BY <1>5
<1> HIDE DEF end, last
<1>7. /\ shown \in Seq(ViewRun) /\ Len(shown) = end /\ \A i \in 1 .. end : shown[i] = sorted[i]
      /\ rest \in Seq(ViewRun) /\ Len(rest) = L - end
      /\ \A i \in 1 .. (L - end) : rest[i] = sorted[end + i]
  <2>1. end \in Nat /\ end <= L /\ end + 1 \in 1 .. (L + 1) /\ L - (end + 1) + 1 = L - end
        /\ (end + 1) - 1 = end
    BY <1>2, <1>5
  <2>2. /\ SubSeq(sorted, 1, end) \in Seq(ViewRun) /\ Len(SubSeq(sorted, 1, end)) = end
        /\ \A i \in 1 .. end : SubSeq(sorted, 1, end)[i] = sorted[i]
    BY <1>2, <2>1, BeginPart DEF L
  <2>3. /\ rest \in Seq(ViewRun) /\ Len(rest) = L - (end + 1) + 1
        /\ \A i \in 1 .. (L - (end + 1) + 1) : rest[i] = sorted[((end + 1) - 1) + i]
    <3> DEFINE b == end + 1
    <3>1. b \in 1 .. (Len(sorted) + 1)
      BY <2>1 DEF L
    <3> HIDE DEF b
    <3>2. /\ SubSeq(sorted, b, Len(sorted)) \in Seq(ViewRun)
          /\ Len(SubSeq(sorted, b, Len(sorted))) = Len(sorted) - b + 1
          /\ \A i \in 1 .. (Len(sorted) - b + 1) :
               SubSeq(sorted, b, Len(sorted))[i] = sorted[(b - 1) + i]
      BY <1>2, <3>1, EndPart
    <3> QED
      BY <3>2 DEF b, L
  <2> HIDE DEF rest
  <2> QED
    BY <2>1, <2>2, <2>3
<1>8. sorted = Followed(shown, rest)
  <2> HIDE DEF shown, rest
  <2>1. /\ shown \o rest \in Seq(ViewRun) /\ Len(shown \o rest) = Len(shown) + Len(rest)
        /\ \A i \in 1 .. Len(shown) : (shown \o rest)[i] = shown[i]
        /\ \A i \in 1 .. Len(rest) : (shown \o rest)[Len(shown) + i] = rest[i]
    <3>1. shown \in Seq(ViewRun) /\ rest \in Seq(ViewRun)
      BY <1>7
    <3> QED
      BY ONLY <3>1, Concatenation
  <2> DEFINE c == shown \o rest
  <2>2. /\ c \in Seq(ViewRun) /\ Len(c) = end + (L - end)
        /\ \A i \in 1 .. end : c[i] = sorted[i]
        /\ \A i \in 1 .. (L - end) : c[end + i] = sorted[end + i]
    BY <1>7, <2>1
  <2> HIDE DEF c
  <2>3. Len(c) = L
    BY <1>2, <1>5, <2>2
  <2>4. ASSUME NEW i \in 1 .. L
        PROVE  sorted[i] = c[i]
    <3>1. CASE i <= end
      BY <1>2, <1>5, <2>2, <3>1
    <3>2. CASE i > end
      <4>1. PICK j \in 1 .. (L - end) : i = end + j
        <5>1. i - end \in 1 .. (L - end) /\ i = end + (i - end)
          BY <1>2, <1>5, <3>2
        <5> QED
          BY <5>1
      <4> QED
        BY <2>2, <4>1
    <3> QED
      BY <1>2, <1>5, <3>1, <3>2
  <2>5. sorted = c
    BY <1>2, <2>2, <2>3, <2>4, SameSequence DEF L
  <2> QED
    BY <2>5 DEF c, Followed
<1> DEFINE v == OfAgent(shown, a)
           w == OfAgent(rest, a)
<1>9. v \in Seq(ViewRun) /\ w \in Seq(ViewRun) /\ base = v \o w
  <2> HIDE DEF shown, rest
  <2>1. OfAgent(Followed(shown, rest), a) = Followed(OfAgent(shown, a), OfAgent(rest, a))
    BY <1>7, OfAgentConcatenation
  <2>2. v \in Seq(ViewRun) /\ w \in Seq(ViewRun)
    BY <1>7, OfAgentConcatenation
  <2> QED
    BY <1>4, <1>8, <2>1, <2>2 DEF Followed
<1> HIDE DEF shown, rest
<1>10. /\ Len(base) = Len(v) + Len(w) /\ Len(v) \in Nat /\ Len(w) \in Nat
       /\ \A i \in 1 .. Len(v) : v[i] = base[i]
       /\ DOMAIN v = 1 .. Len(v)
  <2> HIDE DEF v, w
  <2> QED
    BY <1>9
<1>11. ASSUME Len(base) # 0
       PROVE  Len(v) # 0
  <2>1. CASE last = {}
    <3>1. end = L
      BY <2>1 DEF end
    <3>2. Len(rest) = 0
      BY <1>2, <1>7, <3>1
    <3>3. rest = <<>>
      BY <1>7, <3>2
    <3>4. shown = sorted
      BY <1>2, <1>7, <3>1, SameSequence DEF L
    <3>5. v = base
      BY <1>4, <3>4
    <3> QED
      BY <1>11, <3>5
  <2>2. CASE last # {}
    <3> DEFINE keep == {i \in DOMAIN shown : a \in {AnyAgent, shown[i].agent}}
    <3>1. v = Kept(shown, keep)
      BY DEF OfAgent
    <3>2. CountIn(Kept(shown, keep), ViewRun) = Cardinality(KeptIn(shown, keep, ViewRun))
      <4> HIDE DEF keep
      <4> QED
        BY <1>7, KeptElements
    <3>3. KeptIn(shown, keep, ViewRun) = Seen(end)
      <4>1. DOMAIN shown = 1 .. end /\ \A i \in 1 .. end : shown[i] \in ViewRun
        BY <1>7, SequenceOf
      <4> QED
        BY <1>7, <4>1 DEF KeptIn
    <3>4. CountIn(v, ViewRun) = CliLimit
      BY <1>6, <2>2, <3>1, <3>2, <3>3
    <3>5. v # <<>>
      BY <1>1, <3>4, CountEmpty
    <3> HIDE DEF v
    <3> QED
      BY <1>9, <3>5
  <2> QED
    BY <2>1, <2>2
<1>12. Len(v) \in 0 .. Len(base)
  BY <1>10
<1>13. Cut(v, base)
  BY <1>10, <1>11, <1>12 DEF Cut
<1> QED
  BY <1>3, <1>13 DEF base

\* Without a filter the whole store is listed.
LEMMA AnyAgentLists ==
    ASSUME NEW S, NEW runs \in Seq(S)
    PROVE  OfAgent(runs, AnyAgent) = runs
<1>1. PartsOf(runs, AnyAgent) = [i \in 1 .. Len(runs) |-> <<runs[i]>>]
  BY DEF PartsOf, OneOf
<1> QED
  BY <1>1, OfAgentParts, JoinedSingletons

\* The lists agree, whatever the store holds.
LEMMA ListsAgree == ViewTypeOK => ViewsAgree
<1> SUFFICES ASSUME ViewTypeOK, NEW a \in ViewAgents \cup {AnyAgent}
             PROVE  LET views == {handleListRuns(a), handleAuditTrail(a, 0), runsList(a),
                                  runsListViaAPI(a), listRuns(a, 1), listRuns(a, 2)}
                    IN /\ \A v, w \in views : Prefix(v, w) \/ Prefix(w, v)
                       /\ OfAgent(stored, a) # <<>> => <<>> \notin views
  BY DEF ViewsAgree
<1> DEFINE of == OfAgent(stored, a)
           base == Newest(of)
<1>1. stored \in Seq(ViewRun) /\ ApiLimit \in Nat \ {0} /\ CliLimit \in Nat \ {0}
  BY ViewConstants DEF ViewTypeOK
<1>2. of \in Seq(ViewRun)
  BY <1>1, OfAgentConcatenation
<1> HIDE DEF of
<1>3. base \in Seq(ViewRun) /\ Len(base) = Len(of)
  BY <1>2, NewestRuns
<1>4. Cut(runsList(a), base)
  BY RunsListCuts DEF of
<1> HIDE DEF base
<1>5. handleListRuns(a) \in Seq(ViewRun) /\ Cut(handleListRuns(a), base)
  BY <1>1, <1>3, FirstCuts DEF handleListRuns, base, of
<1>6. Cut(listRuns(a, 1), base) /\ Cut(listRuns(a, 2), base)
  BY <1>3, FirstCuts DEF listRuns, base, of
<1>7. Cut(runsListViaAPI(a), base)
  <2>1. Cut(runsListViaAPI(a), handleListRuns(a))
    BY <1>1, <1>5, FirstCuts DEF runsListViaAPI
  <2> QED
    BY <1>3, <1>5, <2>1, Cuts
<1>8. Cut(handleAuditTrail(a, 0), base)
  <2>1. SubSeq(stored, 0 + 1, Len(stored)) = stored
    BY <1>1
  <2>2. handleAuditTrail(a, 0) = base
    BY <2>1 DEF handleAuditTrail, base, of
  <2>3. Len(base) \in Nat /\ DOMAIN base = 1 .. Len(base)
    BY <1>3, SequenceOf
  <2> QED
    BY <2>2, <2>3 DEF Cut
<1> DEFINE views == {handleListRuns(a), handleAuditTrail(a, 0), runsList(a),
                     runsListViaAPI(a), listRuns(a, 1), listRuns(a, 2)}
<1>9. \A v \in views : Cut(v, base)
  BY <1>4, <1>5, <1>6, <1>7, <1>8
<1> HIDE DEF views
<1>10. ASSUME NEW v \in views, NEW w \in views
       PROVE  Prefix(v, w) \/ Prefix(w, v)
  BY <1>3, <1>9, Cuts
<1>11. ASSUME of # <<>>
       PROVE  <<>> \notin views
  <2>1. Len(base) # 0
    BY <1>2, <1>3, <1>11
  <2>2. \A v \in views : Len(v) # 0
    BY <1>9, <2>1 DEF Cut
  <2> QED
    BY <2>2
<1> QED
  BY <1>10, <1>11 DEF views, of

-----------------------------------------------------------------------------
(* The counts.                                                             *)

PhaseIndices(runs, phases) == {i \in DOMAIN runs : runs[i].phase \in phases}

\* Counting is finite and at most the number of runs.
LEMMA PhaseCount ==
    ASSUME NEW runs \in Seq(ViewRun), NEW phases
    PROVE  /\ InPhases(runs, phases) = Cardinality(PhaseIndices(runs, phases))
           /\ IsFiniteSet(PhaseIndices(runs, phases))
           /\ InPhases(runs, phases) \in 0 .. Len(runs)
<1> DEFINE n == Len(runs)
           C == PhaseIndices(runs, phases)
<1>1. n \in Nat /\ C \in SUBSET (1 .. n)
  BY SequenceOf DEF PhaseIndices
<1>2. InPhases(runs, phases) = Cardinality(C)
  BY DEF InPhases, PhaseIndices
<1> HIDE DEF C, n
<1>3. IsFiniteSet(1 .. n) /\ Cardinality(1 .. n) = n
  BY <1>1, FS_Interval
<1>4. IsFiniteSet(C) /\ Cardinality(C) <= n /\ Cardinality(C) \in Nat
  BY <1>1, <1>3, FS_Subset, FS_CardinalityType
<1> QED
  BY <1>1, <1>2, <1>4 DEF C, n

\* Sorting does not change how many runs are in a phase.
LEMMA PhaseNewest ==
    ASSUME NEW runs \in Seq(ViewRun), NEW phases
    PROVE  InPhases(Newest(runs), phases) = InPhases(runs, phases)
<1> DEFINE n == Len(runs)
           new == Newest(runs)
           C == PhaseIndices(runs, phases)
           D == PhaseIndices(new, phases)
           f == [i \in C |-> n + 1 - i]
<1>1. n \in Nat /\ DOMAIN runs = 1 .. n
  BY SequenceOf
<1>2. new \in Seq(ViewRun) /\ Len(new) = n /\ \A i \in 1 .. n : new[i] = runs[n + 1 - i]
  BY NewestRuns
<1> HIDE DEF new, n
<1>3. DOMAIN new = 1 .. n
  BY <1>2, SequenceOf
<1>4. /\ \A i \in C : i \in 1 .. n /\ runs[i].phase \in phases
      /\ \A i \in D : i \in 1 .. n /\ new[i].phase \in phases
      /\ \A i \in 1 .. n : runs[i].phase \in phases => i \in C
      /\ \A i \in 1 .. n : new[i].phase \in phases => i \in D
  BY <1>1, <1>3 DEF PhaseIndices
<1> HIDE DEF C, D
<1>5. ASSUME NEW i \in 1 .. n
      PROVE  n + 1 - i \in 1 .. n /\ n + 1 - (n + 1 - i) = i /\ new[n + 1 - i] = runs[i]
  <2>1. n + 1 - i \in 1 .. n /\ n + 1 - (n + 1 - i) = i
    BY <1>1
  <2> QED
    BY <1>2, <2>1
<1>6. ASSUME NEW i \in C
      PROVE  n + 1 - i \in D
  <2>1. i \in 1 .. n /\ n + 1 - i \in 1 .. n /\ new[n + 1 - i].phase \in phases
    BY <1>4, <1>5
  <2> QED
    BY <1>4, <2>1
<1>7. f \in [C -> D] /\ \A i \in C : f[i] = n + 1 - i
  BY <1>6
<1>8. \A i, j \in C : f[i] = f[j] => i = j
  <2> SUFFICES ASSUME NEW i \in C, NEW j \in C, n + 1 - i = n + 1 - j PROVE i = j
    BY <1>7
  <2> QED
    BY <1>1, <1>4
<1>9. \A d \in D : \E i \in C : f[i] = d
  <2> SUFFICES ASSUME NEW d \in D PROVE \E i \in C : f[i] = d
    OBVIOUS
  <2> DEFINE i == n + 1 - d
  <2>1. d \in 1 .. n /\ i \in 1 .. n /\ n + 1 - i = d /\ new[d] = runs[i] /\ new[d].phase \in phases
    BY <1>2, <1>4, <1>5
  <2> HIDE DEF i
  <2>2. i \in C
    BY <1>4, <2>1
  <2> QED
    BY <1>7, <2>1, <2>2
<1> HIDE DEF f
<1>10. f \in Bijection(C, D)
  BY <1>7, <1>8, <1>9 DEF Bijection, Injection, Surjection, IsInjective
<1>11. IsFiniteSet(C) /\ InPhases(runs, phases) = Cardinality(C) /\ InPhases(new, phases) = Cardinality(D)
  BY <1>2, PhaseCount DEF C, D
<1>12. Cardinality(D) = Cardinality(C)
  <2>1. ExistsBijection(C, D)
    BY <1>10 DEF ExistsBijection
  <2> QED
    BY <1>11, <2>1, FS_Bijection
<1> QED
  BY <1>11, <1>12 DEF new

\* While no limit cuts it short, the dashboard's share is not above the command
\* line's.
LEMMA OverviewBelow ==
    ASSUME ViewTypeOK, Len(stored) <= OverviewLimit
    PROVE  buildOverviewData.succeeded * handleStatus.completed
             <= handleStatus.succeeded * buildOverviewData.completed
<1> DEFINE n == Len(stored)
           shown == listRuns(AnyAgent, OverviewLimit)
           s == InPhases(stored, {"Succeeded"})
           c == InPhases(stored, {"Succeeded", "Failed"})
<1>1. stored \in Seq(ViewRun) /\ n \in Nat /\ OverviewLimit \in Nat
  BY ViewConstants, SequenceOf DEF ViewTypeOK
<1>2. Newest(stored) \in Seq(ViewRun) /\ Len(Newest(stored)) = n
  BY <1>1, NewestRuns
<1>3. shown = Newest(stored)
  <2>1. shown = First(Newest(stored), OverviewLimit)
    BY <1>1, AnyAgentLists DEF listRuns
  <2> QED
    BY <1>1, <1>2, <2>1, FirstAll
<1>4. InPhases(shown, {"Succeeded"}) = s /\ Len(shown) = n
  BY <1>1, <1>2, <1>3, PhaseNewest
<1>5. buildOverviewData.succeeded = s /\ buildOverviewData.completed = n
  BY <1>4 DEF buildOverviewData
<1>6. handleStatus.succeeded = s /\ handleStatus.completed = c
  BY DEF handleStatus, StatusCounts
<1>7. s \in 0 .. n /\ c \in 0 .. n
  BY <1>1, PhaseCount
<1> HIDE DEF s, c, n
<1>8. s \in Nat /\ c \in Nat /\ c <= n
  BY <1>1, <1>7
<1>9. s * c <= s * n
  BY <1>1, <1>8, TimesMonotone
<1> QED
  BY <1>5, <1>6, <1>9

\* A run of a phase is added: what that does to the counts.
LEMMA PhaseAdded ==
    ASSUME NEW runs \in Seq(ViewRun), NEW r \in ViewRun, NEW phases, r.phase \notin phases
    PROVE  InPhases(Append(runs, r), phases) = InPhases(runs, phases)
<1> DEFINE n == Len(runs)
           more == Append(runs, r)
<1>1. /\ n \in Nat /\ DOMAIN runs = 1 .. n /\ DOMAIN more = 1 .. (n + 1)
      /\ more[n + 1] = r /\ \A i \in 1 .. n : more[i] = runs[i]
  OBVIOUS
<1> HIDE DEF more, n
<1>2. ASSUME NEW i \in 1 .. (n + 1)
      PROVE  more[i].phase \in phases <=> i \in 1 .. n /\ runs[i].phase \in phases
  <2>1. CASE i = n + 1
    BY <1>1, <2>1
  <2>2. CASE i \in 1 .. n
    BY <1>1, <2>2
  <2> QED
    BY <1>1, <2>1, <2>2
<1>3. 1 .. n \subseteq 1 .. (n + 1)
  BY <1>1
<1>4. {i \in 1 .. (n + 1) : more[i].phase \in phases} = {i \in 1 .. n : runs[i].phase \in phases}
  BY <1>2, <1>3
<1> QED
  BY <1>1, <1>4 DEF InPhases, more

\* The runs when one of them has reached a phase.
WithPhase(runs, i, phase) == [runs EXCEPT ![i].phase = phase]

\* A run goes to a phase, from one that is not counted.
LEMMA PhaseReached ==
    ASSUME NEW runs \in Seq(ViewRun), NEW i \in DOMAIN runs, NEW phase \in ViewPhases,
           NEW phases, runs[i].phase \notin phases,
           NEW new, new = WithPhase(runs, i, phase)
    PROVE  /\ new \in Seq(ViewRun)
           /\ InPhases(new, phases) = InPhases(runs, phases) + (IF phase \in phases THEN 1 ELSE 0)
<1> DEFINE n == Len(runs)
           r == [runs[i] EXCEPT !.phase = phase]
           C == PhaseIndices(runs, phases)
           D == PhaseIndices(new, phases)
<1>1. n \in Nat /\ DOMAIN runs = 1 .. n /\ runs \in [1 .. n -> ViewRun] /\ runs[i] \in ViewRun
  BY SequenceOf
<1>2. r \in ViewRun /\ r.phase = phase
  BY <1>1 DEF ViewRun
<1>3. new = [runs EXCEPT ![i] = r]
  BY DEF WithPhase
<1> HIDE DEF r, n
<1>4. new \in [1 .. n -> ViewRun] /\ new[i] = r /\ \A j \in 1 .. n : j # i => new[j] = runs[j]
  BY <1>1, <1>2, <1>3
<1>5. new \in Seq(ViewRun) /\ DOMAIN new = 1 .. n
  BY <1>1, <1>4, FunctionIsSequence
<1>6. i \notin C /\ D = (IF phase \in phases THEN C \cup {i} ELSE C)
  <2>1. i \notin C
    BY DEF PhaseIndices
  <2>2. CASE phase \in phases
    <3>1. \A j \in 1 .. n : new[j].phase \in phases <=> (j = i \/ runs[j].phase \in phases)
      BY <1>2, <1>4, <2>2
    <3>2. D = C \cup {i}
      BY <1>1, <1>5, <3>1 DEF PhaseIndices
    <3> QED
      BY <2>1, <2>2, <3>2
  <2>3. CASE phase \notin phases
    <3>1. \A j \in 1 .. n : new[j].phase \in phases <=> runs[j].phase \in phases
      BY <1>2, <1>4, <2>3
    <3>2. D = C
      BY <1>1, <1>5, <3>1 DEF PhaseIndices
    <3> QED
      BY <2>1, <2>3, <3>2
  <2> QED
    BY <2>2, <2>3
<1>7. /\ IsFiniteSet(C) /\ InPhases(runs, phases) = Cardinality(C) /\ Cardinality(C) \in Nat
      /\ InPhases(new, phases) = Cardinality(D)
  <2>1. InPhases(runs, phases) \in 0 .. n
    BY PhaseCount DEF n
  <2>2. IsFiniteSet(C) /\ InPhases(runs, phases) = Cardinality(C)
    BY PhaseCount
  <2>3. InPhases(new, phases) = Cardinality(D)
    BY <1>5, PhaseCount
  <2> QED
    BY <1>1, <2>1, <2>2, <2>3
<1> HIDE DEF C, D
<1>8. Cardinality(C \cup {i}) = Cardinality(C) + 1
  BY <1>6, <1>7, FS_AddElement
<1>9. InPhases(new, phases) = InPhases(runs, phases) + (IF phase \in phases THEN 1 ELSE 0)
  BY <1>6, <1>7, <1>8
<1> QED
  BY <1>5, <1>9

\* A run is deleted.
LEMMA PhaseDeleted ==
    ASSUME NEW runs \in Seq(ViewRun), NEW i \in DOMAIN runs, NEW phases
    PROVE  /\ Kept(runs, DOMAIN runs \ {i}) \in Seq(ViewRun)
           /\ InPhases(Kept(runs, DOMAIN runs \ {i}), phases)
                = InPhases(runs, phases) - (IF runs[i].phase \in phases THEN 1 ELSE 0)
<1> DEFINE keep == DOMAIN runs \ {i}
           new == Kept(runs, keep)
           Q == {r \in ViewRun : r.phase \in phases}
           C == PhaseIndices(runs, phases)
<1>1. new \in Seq(ViewRun) /\ CountIn(new, Q) = Cardinality(KeptIn(runs, keep, Q))
  <2> HIDE DEF keep, Q
  <2> QED
    BY KeptElements
<1>2. \A j \in DOMAIN runs : runs[j] \in ViewRun
  BY SequenceOf
<1>3. KeptIn(runs, keep, Q) = C \ {i}
  BY <1>2 DEF KeptIn, PhaseIndices
<1> HIDE DEF new
<1>4. \A j \in DOMAIN new : new[j] \in ViewRun
  BY <1>1, SequenceOf
<1>5. InPhases(new, phases) = CountIn(new, Q)
  <2>1. {j \in DOMAIN new : new[j].phase \in phases} = {j \in DOMAIN new : new[j] \in Q}
    BY <1>4
  <2> QED
    BY <2>1 DEF InPhases, CountIn
<1>6. IsFiniteSet(C) /\ InPhases(runs, phases) = Cardinality(C)
  BY PhaseCount
<1>7. i \in C <=> runs[i].phase \in phases
  BY DEF PhaseIndices
<1> HIDE DEF C
<1>8. Cardinality(C \ {i}) = IF i \in C THEN Cardinality(C) - 1 ELSE Cardinality(C)
  BY <1>6, FS_RemoveElement
<1>9. Cardinality(C) \in Nat
  BY <1>6, FS_CardinalityType
<1>10. InPhases(new, phases) = InPhases(runs, phases) - (IF runs[i].phase \in phases THEN 1 ELSE 0)
  <2>1. InPhases(new, phases) = Cardinality(C \ {i})
    BY <1>1, <1>3, <1>5
  <2> QED
    BY <1>6, <1>7, <1>8, <1>9, <2>1
<1> QED
  BY <1>1, <1>10 DEF new

\* A step keeps the types, and changes the number of succeeded runs only with
\* the number of those that succeeded or failed.
LEMMA ViewStep ==
    ASSUME ViewTypeOK, [ViewNext]_viewVars
    PROVE  /\ ViewTypeOK'
           /\ InPhases(stored, {"Succeeded", "Failed"}) = InPhases(stored', {"Succeeded", "Failed"})
                => InPhases(stored, {"Succeeded"}) = InPhases(stored', {"Succeeded"})
<1> DEFINE P == {"Succeeded"}
           Q == {"Succeeded", "Failed"}
<1>1. stored \in Seq(ViewRun)
  BY DEF ViewTypeOK
<1>2. InPhases(stored, P) \in Nat /\ InPhases(stored, Q) \in Nat
  <2>1. Len(stored) \in Nat
    BY <1>1, SequenceOf
  <2>2. InPhases(stored, P) \in 0 .. Len(stored) /\ InPhases(stored, Q) \in 0 .. Len(stored)
    BY <1>1, PhaseCount
  <2> HIDE DEF P, Q
  <2> QED
    BY <2>1, <2>2
<1> SUFFICES stored' \in Seq(ViewRun) /\ (InPhases(stored, Q) = InPhases(stored', Q)
                                            => InPhases(stored, P) = InPhases(stored', P))
  BY DEF ViewTypeOK
<1>3. ASSUME NEW a \in ViewAgents, CreateViewRun(a)
      PROVE  stored' \in Seq(ViewRun) /\ InPhases(stored, P) = InPhases(stored', P)
  <2>1. PICK id \in 1 .. MaxStored : stored' = Append(stored, [id |-> id, agent |-> a, phase |-> "Pending"])
    BY <1>3 DEF CreateViewRun
  <2> DEFINE r == [id |-> id, agent |-> a, phase |-> "Pending"]
  <2>2. r \in ViewRun /\ r.phase \notin P
    BY DEF ViewRun, ViewPhases
  <2> HIDE DEF r, P
  <2>3. stored' = Append(stored, r)
    BY <2>1 DEF r
  <2> QED
    BY <1>1, <2>2, <2>3, PhaseAdded
<1>4. ASSUME NEW i \in DOMAIN stored, NEW phase \in ViewPhases, FinishViewRun(i, phase)
      PROVE  stored' \in Seq(ViewRun) /\ (InPhases(stored, Q) = InPhases(stored', Q)
                                            => InPhases(stored, P) = InPhases(stored', P))
  <2>1. /\ stored' = WithPhase(stored, i, phase)
        /\ stored[i].phase \notin P /\ stored[i].phase \notin Q
    BY <1>4 DEF FinishViewRun, WithPhase
  <2>2. phase \in P => phase \in Q
    OBVIOUS
  <2> HIDE DEF P, Q
  <2>3. /\ stored' \in Seq(ViewRun)
        /\ InPhases(stored', P) = InPhases(stored, P) + (IF phase \in P THEN 1 ELSE 0)
        /\ InPhases(stored', Q) = InPhases(stored, Q) + (IF phase \in Q THEN 1 ELSE 0)
    BY <1>1, <2>1, PhaseReached
  <2> QED
    BY <1>2, <2>2, <2>3
<1>5. ASSUME NEW i \in DOMAIN stored, DeleteViewRun(i)
      PROVE  stored' \in Seq(ViewRun) /\ (InPhases(stored, Q) = InPhases(stored', Q)
                                            => InPhases(stored, P) = InPhases(stored', P))
  <2>1. stored' = Kept(stored, DOMAIN stored \ {i})
    BY <1>5 DEF DeleteViewRun
  <2>2. stored[i].phase \in P => stored[i].phase \in Q
    OBVIOUS
  <2> HIDE DEF P, Q
  <2>3. /\ stored' \in Seq(ViewRun)
        /\ InPhases(stored', P) = InPhases(stored, P) - (IF stored[i].phase \in P THEN 1 ELSE 0)
        /\ InPhases(stored', Q) = InPhases(stored, Q) - (IF stored[i].phase \in Q THEN 1 ELSE 0)
    BY <1>1, <2>1, PhaseDeleted
  <2> QED
    BY <1>2, <2>2, <2>3
<1>6. CASE UNCHANGED viewVars
  <2>1. stored' = stored
    BY <1>6 DEF viewVars
  <2> QED
    BY <1>1, <2>1
<1> HIDE DEF P, Q
<1> QED
  BY <1>3, <1>4, <1>5, <1>6 DEF ViewNext

(* The lists of the API, the dashboard and the command line agree in every *)
(* state, for any store and any limits.                                    *)
THEOREM ViewInvariant == ViewSpec => []ViewInv
<1>1. ViewInit => ViewTypeOK
  BY DEF ViewInit, ViewTypeOK
<1>2. ViewTypeOK /\ [ViewNext]_viewVars => ViewTypeOK'
  BY ViewStep
<1>3. ViewTypeOK => ViewInv
  BY ListsAgree DEF ViewInv
<1> QED
  BY <1>1, <1>2, <1>3, PTL DEF ViewSpec

(* The lists of one agent's runs are prefixes of each other, whatever      *)
(* their limits and wherever they filter; the success rate changes only    *)
(* when the number of runs that succeeded or failed does; and the          *)
(* dashboard's rate is not above the command line's while no limit cuts    *)
(* its list short.                                                         *)
THEOREM ViewsDoTellTheSame == ViewSpec => ViewsTellTheSame
<1> DEFINE A == stored' # stored =>
                  LET before == handleStatus
                      after == handleStatus'
                  IN /\ ViewsAgree
                     /\ (before.succeeded * after.completed # after.succeeded * before.completed
                           => InPhases(stored, {"Succeeded", "Failed"})
                                # InPhases(stored', {"Succeeded", "Failed"}))
                     /\ (Len(stored) <= OverviewLimit
                           => buildOverviewData.succeeded * before.completed
                                <= before.succeeded * buildOverviewData.completed)
<1>1. ViewInv /\ [ViewNext]_viewVars => A
  <2> SUFFICES ASSUME ViewInv, [ViewNext]_viewVars PROVE A
    OBVIOUS
  <2>1. ViewTypeOK /\ ViewsAgree
    BY DEF ViewInv
  <2>2. /\ handleStatus.succeeded = InPhases(stored, {"Succeeded"})
        /\ handleStatus.completed = InPhases(stored, {"Succeeded", "Failed"})
        /\ handleStatus'.succeeded = InPhases(stored', {"Succeeded"})
        /\ handleStatus'.completed = InPhases(stored', {"Succeeded", "Failed"})
    BY DEF handleStatus, StatusCounts
  <2>3. InPhases(stored, {"Succeeded", "Failed"}) = InPhases(stored', {"Succeeded", "Failed"})
          => handleStatus.succeeded = handleStatus'.succeeded /\ handleStatus.completed = handleStatus'.completed
    BY <2>1, <2>2, ViewStep
  <2>4. Len(stored) <= OverviewLimit
          => buildOverviewData.succeeded * handleStatus.completed
               <= handleStatus.succeeded * buildOverviewData.completed
    BY <2>1, OverviewBelow
  <2> QED
    BY <2>1, <2>3, <2>4
<1>2. A => [A]_viewVars
  OBVIOUS
<1> HIDE DEF A
<1>3. ViewSpec => [][A]_viewVars
  BY <1>1, ViewInvariant, PTL DEF ViewSpec
<1> QED
  BY <1>3 DEF A, ViewsTellTheSame

=============================================================================
