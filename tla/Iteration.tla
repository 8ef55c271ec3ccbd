------------------------------- MODULE Iteration -------------------------------
(***************************************************************************)
(* Induction over numbers and functions defined by iteration, in the form  *)
(* in which the other proofs use them: about sets and functions, not about *)
(* operators. They follow from the well-foundedness of the naturals.       *)
(***************************************************************************)
EXTENDS Naturals, Lists, SequenceTheorems, WellFoundedInduction, TLAPS

\* A set of numbers that is not empty has a least one.
LEMMA LeastNat ==
  ASSUME NEW S \in SUBSET Nat, S # {}
  PROVE  \E i \in S : \A j \in S : i <= j
<1>1. PICK i \in S : \A j \in S : ~(<<j, i>> \in OpToRel(<, Nat))
  BY NatLessThanWellFounded, WFMin
<1>2. ASSUME NEW j \in S, j < i PROVE FALSE
  <2> DEFINE ji == <<j, i>>
  <2>1. ji \in Nat \X Nat /\ ji[1] < ji[2]
    BY <1>2
  <2> HIDE DEF ji
  <2>2. ji \in OpToRel(<, Nat)
    BY <2>1, Zenon DEF OpToRel
  <2>3. QED
    BY <2>2, <1>1, Zenon DEF ji
<1>3. \A j \in S : i <= j
  BY <1>2
<1>4. QED
  BY <1>3

\* A set with 0 and with the successor of each of its numbers has them all.
LEMMA Induction ==
  ASSUME NEW T, 0 \in T, \A n \in Nat : n \in T => n + 1 \in T
  PROVE  \A n \in Nat : n \in T
<1> DEFINE Rest == {n \in Nat : n \notin T}
<1>1. ASSUME Rest # {} PROVE FALSE
  <2>1. PICK i \in Rest : \A j \in Rest : i <= j
    BY <1>1, LeastNat
  <2>2. i # 0 /\ i - 1 \in Nat
    BY <2>1
  <2>3. i - 1 \in T
    BY <2>1, <2>2
  <2>4. QED
    BY <2>1, <2>2, <2>3
<1>2. QED
  BY <1>1

\* f starts with base, and step i takes its value at i - 1 to the one at i.
Iterates(f, n, base, step) ==
  f[0] = base /\ \A i \in 1..n : f[i] = step[i][f[i - 1]]

\* A function may be defined by what it is at 0 and by one step after another.
LEMMA IterationExists ==
  ASSUME NEW n \in Nat, NEW S, NEW base \in S, NEW step \in [1..n -> [S -> S]]
  PROVE  \E f \in [0..n -> S] : Iterates(f, n, base, step)
<1> USE DEF Iterates
<1> DEFINE Upto(m, f) == Iterates(f, m, base, step)
           T == {m \in Nat : m <= n => \E f \in [0..m -> S] : Upto(m, f)}
<1>1. 0 \in T
  <2>1. [j \in 0..0 |-> base] \in [0..0 -> S] /\ Upto(0, [j \in 0..0 |-> base])
    OBVIOUS
  <2>2. QED
    BY <2>1
<1>2. ASSUME NEW m \in Nat, m \in T PROVE m + 1 \in T
  <2> SUFFICES ASSUME m + 1 <= n PROVE \E f \in [0..(m + 1) -> S] : Upto(m + 1, f)
    OBVIOUS
  <2>1. PICK f \in [0..m -> S] : Upto(m, f)
    BY <1>2
  <2> DEFINE g == [j \in 0..(m + 1) |-> IF j = m + 1 THEN step[m + 1][f[m]] ELSE f[j]]
  <2>2. g \in [0..(m + 1) -> S]
    <3>1. step[m + 1][f[m]] \in S
      BY <2>1
    <3>2. QED
      BY <2>1, <3>1
  <2>3. g[m + 1] = step[m + 1][f[m]] /\ \A j \in 0..m : g[j] = f[j]
    OBVIOUS
  <2> HIDE DEF g
  <2>4. Upto(m + 1, g)
    <3>1. g[0] = base
      BY <2>1, <2>3
    <3>2. ASSUME NEW i \in 1..(m + 1) PROVE g[i] = step[i][g[i - 1]]
      <4>1. i - 1 \in 0..m /\ g[i - 1] = f[i - 1]
        BY <2>3
      <4>2. CASE i = m + 1
        BY <2>3, <4>1, <4>2
      <4>3. CASE i # m + 1
        <5>1. i \in 1..m /\ i \in 0..m
          BY <4>3
        <5>2. f[i] = step[i][f[i - 1]]
          BY <2>1, <5>1
        <5>3. QED
          BY <2>3, <4>1, <5>1, <5>2
      <4>4. QED
        BY <4>2, <4>3
    <3>3. QED
      BY <3>1, <3>2
  <2>5. QED
    BY <2>2, <2>4
<1>3. n \in T
  BY <1>1, <1>2, Induction
<1>4. QED
  BY <1>3

\* Two functions start alike, and each step of theirs is the same.
InStep(f, g, n) ==
  f[0] = g[0] /\ \A i \in 1..n : f[i - 1] = g[i - 1] => f[i] = g[i]

\* Then they are the same.
LEMMA SameIteration ==
  \A n \in Nat : \A f, g : InStep(f, g, n) => \A i \in 0..n : f[i] = g[i]
<1> SUFFICES ASSUME NEW n \in Nat, NEW f, NEW g, InStep(f, g, n)
             PROVE  \A i \in 0..n : f[i] = g[i]
  BY Zenon
<1> USE DEF InStep
<1> DEFINE T == {m \in Nat : m <= n => f[m] = g[m]}
<1>1. 0 \in T
  OBVIOUS
<1>2. ASSUME NEW m \in Nat, m \in T PROVE m + 1 \in T
  <2>1. m + 1 <= n => m + 1 \in 1..n /\ f[(m + 1) - 1] = g[(m + 1) - 1]
    BY <1>2
  <2>2. QED
    BY <2>1
<1>3. \A m \in Nat : m \in T
  <2> HIDE DEF T
  <2>1. QED
    BY <1>1, <1>2, Induction
<1>4. QED
  BY <1>3

-----------------------------------------------------------------------------
(* Elements that are kept *)

\* One step of the loop of Those.
Keep(r, x, S) == IF x \in S THEN Append(r, x) ELSE r

KeepsThose(f, s, S) ==
  f[0] = <<>> /\ \A i \in 1..Len(s) : f[i] = Keep(f[i - 1], s[i], S)

\* The function that Those computes.
LEMMA ThoseLoop ==
  ASSUME NEW T, NEW s \in Seq(T), NEW S
  PROVE  \E f \in [0..Len(s) -> Seq(T)] : KeepsThose(f, s, S) /\ Those(s, S) = f[Len(s)]
<1> DEFINE n == Len(s)
           Q == Seq(T)
           step == [i \in 1..n |-> [r \in Q |-> Keep(r, s[i], S)]]
           Loop(f) == f = [i \in 0..n |-> IF i = 0 THEN <<>>
                                          ELSE IF s[i] \in S THEN Append(f[i - 1], s[i])
                                          ELSE f[i - 1]]
<1>1. n \in Nat /\ <<>> \in Q
  OBVIOUS
<1>2. ASSUME NEW i \in 1..n, NEW r \in Q PROVE Keep(r, s[i], S) \in Q
  BY DEF Keep
<1>3. step \in [1..n -> [Q -> Q]]
  BY <1>2
<1>4. PICK f \in [0..n -> Q] : f[0] = <<>> /\ \A i \in 1..n : f[i] = step[i][f[i - 1]]
  <2>1. PICK base \in Q : base = <<>>
    BY <1>1
  <2> HIDE DEF step, Q, n
  <2>2. \E f \in [0..n -> Q] : Iterates(f, n, base, step)
    BY <1>1, <1>3, <2>1, IterationExists
  <2>3. QED
    BY <2>1, <2>2 DEF Iterates
<1>5. ASSUME NEW i \in 1..n PROVE f[i] = Keep(f[i - 1], s[i], S)
  <2> HIDE DEF Q
  <2>1. f[i - 1] \in Q
    BY <1>1
  <2>2. QED
    BY <1>4, <2>1
<1>6. Loop(f)
  <2> HIDE DEF Q
  <2>1. \A i \in 0..n : i # 0 => i \in 1..n
    BY <1>1
  <2>2. QED
    BY <1>4, <1>5, <2>1 DEF Keep
<1>7. PICK g : g = CHOOSE h : Loop(h)
  OBVIOUS
<1>8. Loop(g)
  BY <1>6, <1>7, Zenon
<1>9. Those(s, S) = g[n]
  BY <1>7 DEF Those
<1>10. g[0] = <<>> /\ \A i \in 1..n : g[i] = Keep(g[i - 1], s[i], S)
  <2>1. 0 \in 0..n /\ \A i \in 1..n : i \in 0..n /\ i # 0
    BY <1>1
  <2> HIDE DEF n
  <2>2. QED
    BY <1>8, <2>1 DEF Keep
<1>11. \A i \in 0..n : g[i] = f[i]
  <2>1. InStep(g, f, n)
    BY <1>4, <1>5, <1>10 DEF InStep
  <2> HIDE DEF n, Q, Loop
  <2>2. QED
    BY <1>1, <2>1, SameIteration
<1>12. n \in 0..n
  BY <1>1
<1>13. QED
  <2> HIDE DEF Q
  <2>1. Those(s, S) = f[n]
    BY <1>9, <1>11, <1>12
  <2>2. KeepsThose(f, s, S)
    BY <1>4, <1>5 DEF KeepsThose
  <2>3. QED
    BY <2>1, <2>2 DEF Q

\* Those of no elements are none.
LEMMA ThoseEmpty == ASSUME NEW S PROVE Those(<<>>, S) = <<>>
<1>1. PICK s \in Seq({S}) : s = <<>> /\ Len(s) = 0
  <2>1. <<>> \in Seq({S}) /\ Len(<<>>) = 0
    OBVIOUS
  <2>2. QED
    BY <2>1
<1>2. PICK f \in [0..Len(s) -> Seq({S})] : KeepsThose(f, s, S) /\ Those(s, S) = f[Len(s)]
  BY ThoseLoop
<1>3. QED
  BY <1>1, <1>2 DEF KeepsThose

\* The elements kept are elements.
LEMMA ThoseType ==
  ASSUME NEW T, NEW s \in Seq(T), NEW S
  PROVE  Those(s, S) \in Seq(T)
<1>1. Len(s) \in 0..Len(s)
  OBVIOUS
<1>2. QED
  BY <1>1, ThoseLoop

\* and they are in the set.
LEMMA ThoseIn ==
  ASSUME NEW T, NEW s \in Seq(T), NEW S
  PROVE  Those(s, S) \in Seq(S)
<1> DEFINE n == Len(s)
<1>1. PICK f \in [0..n -> Seq(T)] : KeepsThose(f, s, S) /\ Those(s, S) = f[n]
  BY ThoseLoop
<1> DEFINE I == {m \in Nat : m <= n => f[m] \in Seq(S)}
<1>2. 0 \in I
  BY <1>1 DEF KeepsThose
<1>3. ASSUME NEW m \in Nat, m \in I PROVE m + 1 \in I
  <2> SUFFICES ASSUME m + 1 <= n PROVE f[m + 1] \in Seq(S)
    OBVIOUS
  <2>1. m <= n /\ m + 1 \in 1..n /\ (m + 1) - 1 = m
    OBVIOUS
  <2>2. f[m] \in Seq(S)
    BY <1>3, <2>1
  <2>3. f[m + 1] = Keep(f[m], s[m + 1], S)
    BY <1>1, <2>1 DEF KeepsThose
  <2>4. QED
    BY <2>2, <2>3 DEF Keep
<1>4. n \in I
  <2>1. n \in Nat
    OBVIOUS
  <2> HIDE DEF I
  <2>2. \A m \in Nat : m \in I
    BY <1>2, <1>3, Induction
  <2>3. QED
    BY <2>1, <2>2
<1>5. QED
  BY <1>1, <1>4

\* An element more is kept at the end, or is not.
LEMMA ThoseAppend ==
  ASSUME NEW T, NEW s \in Seq(T), NEW x \in T, NEW S
  PROVE  Those(Append(s, x), S) = Keep(Those(s, S), x, S)
<1> DEFINE n == Len(s)
           t == Append(s, x)
<1>1. n \in Nat /\ t \in Seq(T) /\ Len(t) = n + 1 /\ t[n + 1] = x
  OBVIOUS
<1>2. \A i \in 1..n : t[i] = s[i] /\ i \in 1..(n + 1)
  OBVIOUS
<1>3. PICK f \in [0..n -> Seq(T)] : KeepsThose(f, s, S) /\ Those(s, S) = f[n]
  <2> HIDE DEF t
  <2>1. QED
    BY ThoseLoop
<1> HIDE DEF t
<1>4. PICK g \in [0..Len(t) -> Seq(T)] : KeepsThose(g, t, S) /\ Those(t, S) = g[Len(t)]
  BY <1>1, ThoseLoop
<1>5. \A i \in 0..n : f[i] = g[i]
  <2>1. InStep(f, g, n)
    <3>1. \A i \in 1..n : g[i] = Keep(g[i - 1], s[i], S)
      BY <1>1, <1>2, <1>4 DEF KeepsThose
    <3>2. QED
      BY <1>3, <1>4, <3>1, Zenon DEF InStep, KeepsThose, n
  <2>2. n \in Nat
    BY <1>1
  <2> HIDE DEF n
  <2>3. QED
    BY <2>1, <2>2, SameIteration, ZenonT(30)
<1>6. g[n + 1] = Keep(g[n], x, S) /\ n \in 0..n
  <2>1. n + 1 \in 1..(n + 1) /\ (n + 1) - 1 = n
    BY <1>1
  <2>2. QED
    BY <1>1, <1>4, <2>1 DEF KeepsThose
<1>7. QED
  BY <1>1, <1>3, <1>4, <1>5, <1>6 DEF t

\* The same for one element more of a sequence that is gone through.
LEMMA ThoseNext ==
  ASSUME NEW T, NEW s \in Seq(T), NEW n \in 1..Len(s), NEW S
  PROVE  Those(SubSeq(s, 1, n), S) = Keep(Those(SubSeq(s, 1, n - 1), S), s[n], S)
<1> DEFINE r == SubSeq(s, 1, n - 1)
<1>1. r \in Seq(T) /\ s[n] \in T
  <2>1. \A i \in 1..(n - 1) : s[i] \in T
    OBVIOUS
  <2>2. QED
    BY <2>1, SubSeqProperties
<1>2. SubSeq(s, 1, n) = r \o <<s[n]>>
  <2>1. 1 \in 1..Len(s) /\ n \in 1..Len(s)
    OBVIOUS
  <2>2. QED
    BY <2>1, SubSeqRecursiveSecond
<1> HIDE DEF r
<1>3. r \o <<s[n]>> = Append(r, s[n])
  BY <1>1
<1>4. Those(Append(r, s[n]), S) = Keep(Those(r, S), s[n], S)
  BY <1>1, ThoseAppend
<1>5. QED
  BY <1>2, <1>3, <1>4, Zenon DEF r

\* Nothing is kept if no element is in the set.
LEMMA ThoseNone ==
  ASSUME NEW T, NEW s \in Seq(T), NEW S
  PROVE  Those(s, S) = <<>> <=> \A i \in DOMAIN s : s[i] \notin S
<1> DEFINE n == Len(s)
<1>1. PICK f \in [0..n -> Seq(T)] : KeepsThose(f, s, S) /\ Those(s, S) = f[n]
  BY ThoseLoop
<1> DEFINE I == {m \in Nat : m <= n => (f[m] = <<>> <=> \A i \in 1..m : s[i] \notin S)}
<1>2. 0 \in I
  BY <1>1 DEF KeepsThose
<1>3. ASSUME NEW m \in Nat, m \in I PROVE m + 1 \in I
  <2> SUFFICES ASSUME m + 1 <= n
               PROVE  f[m + 1] = <<>> <=> \A i \in 1..(m + 1) : s[i] \notin S
    OBVIOUS
  <2>1. m + 1 \in 1..n /\ (m + 1) - 1 = m /\ m <= n /\ m \in 0..n
    OBVIOUS
  <2>2. f[m + 1] = Keep(f[m], s[m + 1], S)
    BY <1>1, <2>1 DEF KeepsThose
  <2>3. f[m] \in Seq(T) /\ s[m + 1] \in T
    <3>1. s[m + 1] \in T
      BY <2>1
    <3>2. f[m] \in Seq(T)
      BY <2>1, Zenon
    <3>3. QED
      BY <3>1, <3>2
  <2>4. Append(f[m], s[m + 1]) # <<>>
    BY <2>3, AppendProperties
  <2>5. f[m + 1] = <<>> <=> f[m] = <<>> /\ s[m + 1] \notin S
    BY <2>2, <2>4, Zenon DEF Keep
  <2>6. f[m] = <<>> <=> \A i \in 1..m : s[i] \notin S
    BY <1>3, <2>1
  <2>7. \A i : i \in 1..(m + 1) <=> i \in 1..m \/ i = m + 1
    OBVIOUS
  <2>8. QED
    BY <2>5, <2>6, <2>7, Zenon
<1>4. n \in I
  <2>1. n \in Nat
    OBVIOUS
  <2> HIDE DEF I
  <2>2. \A m \in Nat : m \in I
    BY <1>2, <1>3, Induction
  <2>3. QED
    BY <2>1, <2>2
<1>5. QED
  BY <1>1, <1>4

-----------------------------------------------------------------------------
(* Joined sequences *)

\* The loop of Concat.
Joins(f, s) ==
  f[0] = <<>> /\ \A i \in 1..Len(s) : f[i] = f[i - 1] \o s[i]

\* The function that Concat computes.
LEMMA ConcatLoop ==
  ASSUME NEW T, NEW s \in Seq(Seq(T))
  PROVE  \E f \in [0..Len(s) -> Seq(T)] : Joins(f, s) /\ Concat(s) = f[Len(s)]
<1> DEFINE n == Len(s)
           Q == Seq(T)
           step == [i \in 1..n |-> [r \in Q |-> r \o s[i]]]
           Loop(f) == f = [i \in 0..n |-> IF i = 0 THEN <<>> ELSE f[i - 1] \o s[i]]
<1>1. n \in Nat /\ <<>> \in Q /\ \A i \in 1..n : s[i] \in Q
  OBVIOUS
<1>2. ASSUME NEW i \in 1..n, NEW r \in Q PROVE r \o s[i] \in Q
  BY <1>1
<1>3. step \in [1..n -> [Q -> Q]]
  BY <1>2
<1>4. PICK f \in [0..n -> Q] : f[0] = <<>> /\ \A i \in 1..n : f[i] = step[i][f[i - 1]]
  <2>1. PICK base \in Q : base = <<>>
    BY <1>1
  <2> HIDE DEF step, Q, n
  <2>2. \E f \in [0..n -> Q] : Iterates(f, n, base, step)
    BY <1>1, <1>3, <2>1, IterationExists
  <2>3. QED
    BY <2>1, <2>2 DEF Iterates
<1>5. ASSUME NEW i \in 1..n PROVE f[i] = f[i - 1] \o s[i]
  <2> HIDE DEF Q
  <2>1. f[i - 1] \in Q
    BY <1>1
  <2>2. f[i] = step[i][f[i - 1]]
    BY <1>4
  <2>3. step[i] = [r \in Q |-> r \o s[i]]
    OBVIOUS
  <2> HIDE DEF step
  <2>4. QED
    BY <2>1, <2>2, <2>3
<1>6. Loop(f)
  <2> HIDE DEF Q
  <2>1. \A i \in 0..n : i # 0 => i \in 1..n
    BY <1>1
  <2>2. QED
    BY <1>4, <1>5, <2>1
<1>7. PICK g : g = CHOOSE h : Loop(h)
  OBVIOUS
<1>8. Loop(g)
  BY <1>6, <1>7, Zenon
<1>9. Concat(s) = g[n]
  BY <1>7 DEF Concat
<1>10. g[0] = <<>> /\ \A i \in 1..n : g[i] = g[i - 1] \o s[i]
  <2>1. 0 \in 0..n /\ \A i \in 1..n : i \in 0..n /\ i # 0
    BY <1>1
  <2> HIDE DEF n
  <2>2. QED
    BY <1>8, <2>1
<1>11. \A i \in 0..n : g[i] = f[i]
  <2>1. InStep(g, f, n)
    <3> HIDE DEF n
    <3>1. QED
      BY <1>4, <1>5, <1>10, Zenon DEF InStep
  <2> HIDE DEF n, Q, Loop
  <2>2. QED
    BY <1>1, <2>1, SameIteration
<1>12. n \in 0..n
  BY <1>1
<1>13. QED
  <2> HIDE DEF Q
  <2>1. Concat(s) = f[n]
    BY <1>9, <1>11, <1>12
  <2>2. Joins(f, s)
    BY <1>4, <1>5 DEF Joins
  <2>3. QED
    BY <2>1, <2>2 DEF Q

\* Nothing joined is nothing.
LEMMA ConcatEmpty == Concat(<<>>) = <<>>
<1>1. PICK s \in Seq(Seq({0})) : s = <<>> /\ Len(s) = 0
  <2>1. <<>> \in Seq(Seq({0})) /\ Len(<<>>) = 0
    OBVIOUS
  <2>2. QED
    BY <2>1
<1>2. PICK f \in [0..Len(s) -> Seq({0})] : Joins(f, s) /\ Concat(s) = f[Len(s)]
  BY ConcatLoop
<1>3. QED
  BY <1>1, <1>2 DEF Joins

\* Joined sequences have the elements of theirs.
LEMMA ConcatType ==
  ASSUME NEW T, NEW s \in Seq(Seq(T))
  PROVE  Concat(s) \in Seq(T)
<1>1. Len(s) \in 0..Len(s)
  OBVIOUS
<1>2. QED
  BY <1>1, ConcatLoop

\* A sequence more is joined at the end.
LEMMA ConcatAppend ==
  ASSUME NEW T, NEW s \in Seq(Seq(T)), NEW x \in Seq(T)
  PROVE  Concat(Append(s, x)) = Concat(s) \o x
<1> DEFINE n == Len(s)
           t == Append(s, x)
<1>1. n \in Nat /\ t \in Seq(Seq(T)) /\ Len(t) = n + 1 /\ t[n + 1] = x
  OBVIOUS
<1>2. \A i \in 1..n : t[i] = s[i] /\ i \in 1..(n + 1)
  OBVIOUS
<1>3. PICK f \in [0..n -> Seq(T)] : Joins(f, s) /\ Concat(s) = f[n]
  <2> HIDE DEF t
  <2>1. QED
    BY ConcatLoop
<1> HIDE DEF t
<1>4. PICK g \in [0..Len(t) -> Seq(T)] : Joins(g, t) /\ Concat(t) = g[Len(t)]
  BY <1>1, ConcatLoop
<1>5. \A i \in 0..n : f[i] = g[i]
  <2>1. InStep(f, g, n)
    <3>1. \A i \in 1..n : g[i] = g[i - 1] \o s[i]
      BY <1>1, <1>2, <1>4 DEF Joins
    <3>2. QED
      BY <1>3, <1>4, <3>1, Zenon DEF InStep, Joins, n
  <2>2. n \in Nat
    BY <1>1
  <2> HIDE DEF n
  <2>3. QED
    BY <2>1, <2>2, SameIteration, ZenonT(30)
<1>6. g[n + 1] = g[n] \o x /\ n \in 0..n
  <2>1. n + 1 \in 1..Len(t) /\ (n + 1) - 1 = n /\ n \in 0..n
    BY <1>1
  <2>2. g[n + 1] = g[(n + 1) - 1] \o t[n + 1]
    BY <1>4, <2>1, Zenon DEF Joins
  <2>3. QED
    BY <1>1, <2>1, <2>2, Zenon
<1>7. QED
  BY <1>1, <1>3, <1>4, <1>5, <1>6 DEF t

\* What one element more adds to the beginning of a sequence.
LEMMA FirstNext ==
  ASSUME NEW T, NEW s \in Seq(T), NEW n \in 1..Len(s)
  PROVE  /\ SubSeq(s, 1, n - 1) \in Seq(T) /\ s[n] \in T
         /\ SubSeq(s, 1, n) = Append(SubSeq(s, 1, n - 1), s[n])
<1> DEFINE r == SubSeq(s, 1, n - 1)
<1>1. r \in Seq(T) /\ s[n] \in T
  <2>1. \A i \in 1..(n - 1) : s[i] \in T
    OBVIOUS
  <2>2. QED
    BY <2>1, SubSeqProperties
<1>2. SubSeq(s, 1, n) = r \o <<s[n]>>
  <2>1. 1 \in 1..Len(s) /\ n \in 1..Len(s)
    OBVIOUS
  <2>2. QED
    BY <2>1, SubSeqRecursiveSecond
<1> HIDE DEF r
<1>3. r \o <<s[n]>> = Append(r, s[n])
  BY <1>1
<1>4. QED
  BY <1>1, <1>2, <1>3 DEF r

\* The beginning of no elements, and that of all.
LEMMA FirstNoneAll ==
  ASSUME NEW T, NEW s \in Seq(T)
  PROVE  /\ SubSeq(s, 1, 0) = <<>>
         /\ SubSeq(s, 1, Len(s)) = s
<1>1. QED
  BY SubSeqEmpty, SubSeqFull

\* All is kept if each element is in the set.
LEMMA ThoseAll ==
  ASSUME NEW T, NEW s \in Seq(T), NEW S, \A i \in DOMAIN s : s[i] \in S
  PROVE  Those(s, S) = s
<1> DEFINE n == Len(s)
           First(m) == SubSeq(s, 1, m)
<1>1. PICK f \in [0..n -> Seq(T)] : KeepsThose(f, s, S) /\ Those(s, S) = f[n]
  BY ThoseLoop
<1> DEFINE I == {m \in Nat : m <= n => f[m] = First(m)}
<1>2. 0 \in I
  BY <1>1, FirstNoneAll DEF KeepsThose
<1>3. ASSUME NEW m \in Nat, m \in I PROVE m + 1 \in I
  <2> SUFFICES ASSUME m + 1 <= n PROVE f[m + 1] = First(m + 1)
    OBVIOUS
  <2>1. m + 1 \in 1..n /\ (m + 1) - 1 = m /\ m <= n
    OBVIOUS
  <2>2. f[m + 1] = Keep(f[m], s[m + 1], S) /\ s[m + 1] \in S
    BY <1>1, <2>1 DEF KeepsThose
  <2>3. First(m + 1) = Append(First(m), s[m + 1])
    BY <2>1, FirstNext
  <2>4. f[m] = First(m)
    BY <1>3, <2>1
  <2> HIDE DEF First
  <2>5. QED
    BY <2>2, <2>3, <2>4, Zenon DEF Keep
<1>4. n \in I
  <2>1. n \in Nat
    OBVIOUS
  <2> HIDE DEF I
  <2>2. \A m \in Nat : m \in I
    BY <1>2, <1>3, Induction
  <2>3. QED
    BY <2>1, <2>2
<1>5. First(n) = s
  BY FirstNoneAll
<1>6. QED
  BY <1>1, <1>4, <1>5

\* The same for one sequence more that is gone through.
LEMMA ConcatNext ==
  ASSUME NEW T, NEW s \in Seq(Seq(T)), NEW n \in 1..Len(s)
  PROVE  /\ Concat(SubSeq(s, 1, n)) = Concat(SubSeq(s, 1, n - 1)) \o s[n]
         /\ Concat(SubSeq(s, 1, n - 1)) \in Seq(T)
<1> DEFINE r == SubSeq(s, 1, n - 1)
<1>1. r \in Seq(Seq(T)) /\ s[n] \in Seq(T) /\ SubSeq(s, 1, n) = Append(r, s[n])
  BY FirstNext
<1> HIDE DEF r
<1>2. Concat(Append(r, s[n])) = Concat(r) \o s[n] /\ Concat(r) \in Seq(T)
  BY <1>1, ConcatAppend, ConcatType
<1>3. QED
  BY <1>1, <1>2 DEF r

\* An element more at the end of the second of two sequences.
LEMMA AppendToConcat ==
  ASSUME NEW T, NEW a \in Seq(T), NEW b \in Seq(T), NEW x \in T
  PROVE  a \o Append(b, x) = Append(a \o b, x) /\ a \o b \in Seq(T)
<1>1. Append(b, x) = b \o <<x>> /\ Append(a \o b, x) = (a \o b) \o <<x>> /\ <<x>> \in Seq(T)
  BY AppendIsConcat
<1>2. (a \o b) \o <<x>> = a \o (b \o <<x>>)
  BY <1>1, ConcatAssociative
<1>3. QED
  BY <1>1, <1>2

\* What is kept of two sequences is what is kept of the one, and of the other.
LEMMA ThoseConcat ==
  ASSUME NEW T, NEW a \in Seq(T), NEW b \in Seq(T), NEW S
  PROVE  Those(a \o b, S) = Those(a, S) \o Those(b, S)
<1> DEFINE First(m) == SubSeq(b, 1, m)
           Same(m) == Those(a \o First(m), S) = Those(a, S) \o Those(First(m), S)
           I == {m \in Nat : m <= Len(b) => Same(m)}
<1>1. Those(a, S) \in Seq(T)
  BY ThoseType
<1>2. 0 \in I
  <2>1. First(0) = <<>> /\ Those(<<>>, S) = <<>>
    BY FirstNoneAll, ThoseEmpty
  <2>2. a \o <<>> = a /\ Those(a, S) \o <<>> = Those(a, S)
    BY <1>1, ConcatEmptySeq
  <2> HIDE DEF First
  <2>3. Same(0)
    BY <2>1, <2>2, Zenon
  <2>4. QED
    BY <2>3
<1>3. ASSUME NEW m \in Nat, m \in I PROVE m + 1 \in I
  <2> SUFFICES ASSUME m + 1 <= Len(b) PROVE Same(m + 1)
    OBVIOUS
  <2> DEFINE x == b[m + 1]
  <2>1. First(m) \in Seq(T) /\ x \in T /\ First(m + 1) = Append(First(m), x)
    <3>1. m + 1 \in 1..Len(b) /\ (m + 1) - 1 = m
      OBVIOUS
    <3>2. QED
      BY <3>1, FirstNext
  <2>2. Same(m)
    BY <1>3
  <2> HIDE DEF First, x
  <2>3. a \o First(m + 1) = Append(a \o First(m), x) /\ a \o First(m) \in Seq(T)
    <3>1. a \o Append(First(m), x) = Append(a \o First(m), x) /\ a \o First(m) \in Seq(T)
      BY <2>1, AppendToConcat
    <3>2. QED
      BY <2>1, <3>1, Zenon
  <2>4. Those(a \o First(m + 1), S) = Keep(Those(a \o First(m), S), x, S)
    BY <2>1, <2>3, ThoseAppend
  <2>5. Those(First(m + 1), S) = Keep(Those(First(m), S), x, S)
    BY <2>1, ThoseAppend
  <2>6. Those(First(m), S) \in Seq(T)
    BY <2>1, ThoseType
  <2>7. Those(a, S) \o Append(Those(First(m), S), x) = Append(Those(a, S) \o Those(First(m), S), x)
    <3>1. Those(a, S) \in Seq(T)
      BY ThoseType
    <3>2. \A u, v \in Seq(T) : \A y \in T : u \o Append(v, y) = Append(u \o v, y)
      BY AppendToConcat
    <3>3. QED
      BY <2>1, <2>6, <3>1, <3>2, Zenon
  <2>8. QED
    BY <2>2, <2>4, <2>5, <2>7, Zenon DEF Keep
<1>4. Len(b) \in I
  <2>1. Len(b) \in Nat
    OBVIOUS
  <2> HIDE DEF I
  <2>2. \A m \in Nat : m \in I
    BY <1>2, <1>3, Induction
  <2>3. QED
    BY <2>1, <2>2
<1>5. First(Len(b)) = b
  BY FirstNoneAll
<1> HIDE DEF First
<1>6. QED
  BY <1>4, <1>5

\* Joined sequences are empty if each of them is.
LEMMA ConcatNothing ==
  ASSUME NEW T, NEW s \in Seq(Seq(T))
  PROVE  Concat(s) = <<>> <=> \A i \in DOMAIN s : s[i] = <<>>
<1> DEFINE n == Len(s)
<1>1. PICK f \in [0..n -> Seq(T)] : Joins(f, s) /\ Concat(s) = f[n]
  BY ConcatLoop
<1> DEFINE I == {m \in Nat : m <= n => (f[m] = <<>> <=> \A i \in 1..m : s[i] = <<>>)}
<1>2. 0 \in I
  BY <1>1 DEF Joins
<1>3. ASSUME NEW m \in Nat, m \in I PROVE m + 1 \in I
  <2> SUFFICES ASSUME m + 1 <= n
               PROVE  f[m + 1] = <<>> <=> \A i \in 1..(m + 1) : s[i] = <<>>
    OBVIOUS
  <2>1. m + 1 \in 1..n /\ (m + 1) - 1 = m /\ m <= n /\ m \in 0..n
    OBVIOUS
  <2>2. f[m + 1] = f[m] \o s[m + 1]
    BY <1>1, <2>1 DEF Joins
  <2>3. f[m] \in Seq(T) /\ s[m + 1] \in Seq(T)
    <3>1. s[m + 1] \in Seq(T)
      BY <2>1
    <3>2. f[m] \in Seq(T)
      BY <2>1, Zenon
    <3>3. QED
      BY <3>1, <3>2
  <2>4. f[m + 1] = <<>> <=> f[m] = <<>> /\ s[m + 1] = <<>>
    BY <2>2, <2>3
  <2>5. f[m] = <<>> <=> \A i \in 1..m : s[i] = <<>>
    BY <1>3, <2>1
  <2>6. (\A i \in 1..(m + 1) : s[i] = <<>>) <=> (\A i \in 1..m : s[i] = <<>>) /\ s[m + 1] = <<>>
    <3>1. \A i : i \in 1..(m + 1) <=> i \in 1..m \/ i = m + 1
      OBVIOUS
    <3>2. QED
      BY <3>1, Zenon
  <2>7. QED
    BY <2>4, <2>5, <2>6
<1>4. n \in I
  <2>1. n \in Nat
    OBVIOUS
  <2> HIDE DEF I
  <2>2. \A m \in Nat : m \in I
    BY <1>2, <1>3, Induction
  <2>3. QED
    BY <2>1, <2>2
<1>5. QED
  BY <1>1, <1>4

\* A sequence has an element more if one is appended.
LEMMA RangeAppend ==
  ASSUME NEW T, NEW s \in Seq(T), NEW x \in T
  PROVE  Range(Append(s, x)) = Range(s) \union {x}
<1>1. Append(s, x) = s \o <<x>> /\ <<x>> \in Seq(T)
  BY AppendIsConcat
<1>2. Range(<<x>>) = {x}
  BY DEF Range
<1>3. \A t \in Seq(T) : Range(s \o t) = Range(s) \union Range(t)
  BY RangeConcatenation
<1>4. QED
  BY <1>1, <1>2, <1>3, Zenon

\* What is kept are the elements that are in the set.
LEMMA ThoseElements ==
  ASSUME NEW T, NEW s \in Seq(T), NEW S
  PROVE  Range(Those(s, S)) = Range(s) \cap S
<1> DEFINE n == Len(s)
           First(m) == {s[i] : i \in 1..m}
<1>1. PICK f \in [0..n -> Seq(T)] : KeepsThose(f, s, S) /\ Those(s, S) = f[n]
  BY ThoseLoop
<1> DEFINE I == {m \in Nat : m <= n => Range(f[m]) = First(m) \cap S}
<1>2. 0 \in I
  <2>1. Range(<<>>) = {}
    BY DEF Range
  <2>2. First(0) = {}
    OBVIOUS
  <2>3. QED
    BY <1>1, <2>1, <2>2 DEF KeepsThose
<1>3. ASSUME NEW m \in Nat, m \in I PROVE m + 1 \in I
  <2> SUFFICES ASSUME m + 1 <= n PROVE Range(f[m + 1]) = First(m + 1) \cap S
    OBVIOUS
  <2>1. m + 1 \in 1..n /\ (m + 1) - 1 = m /\ m <= n /\ m \in 0..n
    OBVIOUS
  <2>2. f[m + 1] = Keep(f[m], s[m + 1], S)
    BY <1>1, <2>1 DEF KeepsThose
  <2>3. f[m] \in Seq(T) /\ s[m + 1] \in T
    <3>1. s[m + 1] \in T
      BY <2>1
    <3>2. f[m] \in Seq(T)
      BY <2>1, Zenon
    <3>3. QED
      BY <3>1, <3>2
  <2>4. Range(Append(f[m], s[m + 1])) = Range(f[m]) \union {s[m + 1]}
    BY <2>3, RangeAppend
  <2>5. First(m + 1) = First(m) \union {s[m + 1]}
    <3>1. \A i : i \in 1..(m + 1) <=> i \in 1..m \/ i = m + 1
      OBVIOUS
    <3>2. QED
      BY <3>1, Zenon
  <2>6. Range(f[m]) = First(m) \cap S
    BY <1>3, <2>1
  <2> HIDE DEF First
  <2>7. QED
    BY <2>2, <2>4, <2>5, <2>6 DEF Keep
<1>4. n \in I
  <2>1. n \in Nat
    OBVIOUS
  <2> HIDE DEF I
  <2>2. \A m \in Nat : m \in I
    BY <1>2, <1>3, Induction
  <2>3. QED
    BY <2>1, <2>2
<1>5. Range(s) = First(n)
  BY RangeEquality
<1>6. QED
  BY <1>1, <1>4, <1>5

\* The elements of joined sequences are those of each of them.
LEMMA ConcatElements ==
  ASSUME NEW T, NEW s \in Seq(Seq(T))
  PROVE  Range(Concat(s)) = UNION {Range(s[i]) : i \in DOMAIN s}
<1> DEFINE n == Len(s)
           First(m) == UNION {Range(s[i]) : i \in 1..m}
<1>1. PICK f \in [0..n -> Seq(T)] : Joins(f, s) /\ Concat(s) = f[n]
  BY ConcatLoop
<1> DEFINE I == {m \in Nat : m <= n => Range(f[m]) = First(m)}
<1>2. 0 \in I
  <2>1. Range(<<>>) = {}
    BY DEF Range
  <2>2. First(0) = {}
    OBVIOUS
  <2>3. QED
    BY <1>1, <2>1, <2>2 DEF Joins
<1>3. ASSUME NEW m \in Nat, m \in I PROVE m + 1 \in I
  <2> SUFFICES ASSUME m + 1 <= n PROVE Range(f[m + 1]) = First(m + 1)
    OBVIOUS
  <2>1. m + 1 \in 1..n /\ (m + 1) - 1 = m /\ m <= n /\ m \in 0..n
    OBVIOUS
  <2>2. f[m + 1] = f[m] \o s[m + 1]
    BY <1>1, <2>1 DEF Joins
  <2>3. f[m] \in Seq(T) /\ s[m + 1] \in Seq(T)
    <3>1. s[m + 1] \in Seq(T)
      BY <2>1
    <3>2. f[m] \in Seq(T)
      BY <2>1, Zenon
    <3>3. QED
      BY <3>1, <3>2
  <2>4. Range(f[m] \o s[m + 1]) = Range(f[m]) \union Range(s[m + 1])
    BY <2>3, RangeConcatenation
  <2>5. First(m + 1) = First(m) \union Range(s[m + 1])
    <3>1. \A i : i \in 1..(m + 1) <=> i \in 1..m \/ i = m + 1
      OBVIOUS
    <3>2. QED
      BY <3>1, Zenon
  <2>6. Range(f[m]) = First(m)
    BY <1>3, <2>1
  <2> HIDE DEF First
  <2>7. QED
    BY <2>2, <2>4, <2>5, <2>6
<1>4. n \in I
  <2>1. n \in Nat
    OBVIOUS
  <2> HIDE DEF I
  <2>2. \A m \in Nat : m \in I
    BY <1>2, <1>3, Induction
  <2>3. QED
    BY <2>1, <2>2
<1>5. DOMAIN s = 1..n
  OBVIOUS
<1>6. Range(f[n]) = First(n)
  BY <1>4
<1>7. QED
  BY <1>1, <1>5, <1>6, Zenon

================================================================================
