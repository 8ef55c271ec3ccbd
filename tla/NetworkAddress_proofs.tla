-------------------------- MODULE NetworkAddress_proofs --------------------------
(***************************************************************************)
(* Proofs about NetworkAddress, for values of any length: an address of    *)
(* the documented form is found, alone and behind a key; and what is found *)
(* is an address, and the only one.                                        *)
(*                                                                         *)
(* What these say of a value holds of every sequence of tokens, so that    *)
(* the invariant is only that a value is one.                              *)
(***************************************************************************)
EXTENDS NetworkAddress, Iteration

-----------------------------------------------------------------------------
(* Lemmas about the operators on values *)

LEMMA LeastIs ==
  ASSUME NEW S \in SUBSET Nat, S # {}
  PROVE  Min(S) \in S /\ \A y \in S : Min(S) <= y
<1>1. \E x \in S : \A y \in S : x <= y
  BY LeastNat
<1>2. QED
  BY <1>1, Zenon DEF Min

LEMMA LesserIs ==
  ASSUME NEW a \in Nat, NEW b \in Nat
  PROVE  Min({a, b}) = IF a <= b THEN a ELSE b
<1> DEFINE S == {a, b}
<1>1. S \in SUBSET Nat /\ S # {} /\ a \in S /\ b \in S
  OBVIOUS
<1> HIDE DEF S
<1>2. Min(S) \in S /\ \A y \in S : Min(S) <= y
  BY <1>1, LeastIs
<1>3. (Min(S) = a \/ Min(S) = b) /\ Min(S) <= a /\ Min(S) <= b
  BY <1>1, <1>2 DEF S
<1>4. Min(S) = IF a <= b THEN a ELSE b
  BY <1>3
<1>5. QED
  BY <1>4 DEF S

\* FirstOf is a position, or just past the end, and nothing before it is in ts.
FirstIn(v, ts, n) ==
  /\ n \in 1..(Len(v) + 1)
  /\ \A i \in 1..(n - 1) : v[i] \notin ts
  /\ n <= Len(v) => v[n] \in ts

LEMMA FirstOfIs ==
  ASSUME NEW v \in Seq(Tokens), NEW ts
  PROVE  FirstIn(v, ts, FirstOf(v, ts))
<1> DEFINE found == {i \in DOMAIN v : v[i] \in ts}
           n == Len(v)
<1>1. n \in Nat /\ DOMAIN v = 1..n
  OBVIOUS
<1>2. CASE found = {}
  <2>1. FirstOf(v, ts) = n + 1
    BY <1>2, Zenon DEF FirstOf
  <2>2. \A i \in 1..n : v[i] \notin ts
    BY <1>1, <1>2
  <2> HIDE DEF found
  <2>3. (n + 1) - 1 = n /\ n + 1 \in 1..(n + 1) /\ ~(n + 1 <= n)
    BY <1>1
  <2>4. QED
    BY <2>1, <2>2, <2>3, Zenon DEF FirstIn, n
<1>3. CASE found # {}
  <2> DEFINE m == Min(found)
  <2>1. FirstOf(v, ts) = m
    BY <1>3, Zenon DEF FirstOf
  <2>2. found \in SUBSET Nat
    BY <1>1
  <2>3. m \in found /\ \A i \in found : m <= i
    <3> HIDE DEF found
    <3>1. QED
      BY <1>3, <2>2, LeastIs
  <2>4. m \in 1..n /\ v[m] \in ts
    BY <1>1, <2>3
  <2>5. ASSUME NEW i \in 1..(m - 1) PROVE v[i] \notin ts
    <3>1. i \in DOMAIN v /\ ~(m <= i)
      BY <1>1, <2>4
    <3>2. QED
      BY <2>3, <3>1
  <2> HIDE DEF m, n, found
  <2>6. m \in 1..(n + 1)
    BY <1>1, <2>4
  <2>7. QED
    BY <2>1, <2>4, <2>5, <2>6, Zenon DEF FirstIn, n
<1>4. QED
  BY <1>2, <1>3

LEMMA FirstOfUnique ==
  ASSUME NEW v \in Seq(Tokens), NEW ts, NEW n, FirstIn(v, ts, n)
  PROVE  FirstOf(v, ts) = n
<1> DEFINE m == FirstOf(v, ts)
<1>1. FirstIn(v, ts, m)
  BY FirstOfIs
<1> HIDE DEF m
<1>2. ~(m < n) /\ ~(n < m)
  BY <1>1 DEF FirstIn
<1>3. m \in Int /\ n \in Int
  BY <1>1 DEF FirstIn
<1>4. QED
  BY <1>2, <1>3 DEF m

\* Sets that are alike on the tokens of v have the same first position.
LEMMA FirstOfAlike ==
  ASSUME NEW v \in Seq(Tokens), NEW ts, NEW us,
         \A i \in DOMAIN v : v[i] \in ts <=> v[i] \in us
  PROVE  FirstOf(v, ts) = FirstOf(v, us)
<1>1. {i \in DOMAIN v : v[i] \in ts} = {i \in DOMAIN v : v[i] \in us}
  OBVIOUS
<1>2. QED
  BY <1>1, Zenon DEF FirstOf

LEMMA NoneFirst ==
  ASSUME NEW v \in Seq(Tokens), NEW ts, \A i \in DOMAIN v : v[i] \notin ts
  PROVE  FirstOf(v, ts) = Len(v) + 1
<1>1. FirstIn(v, ts, Len(v) + 1)
  BY DEF FirstIn
<1>2. QED
  BY <1>1, FirstOfUnique

LEMMA SuffixIs ==
  ASSUME NEW v \in Seq(Tokens), NEW i \in 1..(Len(v) + 1)
  PROVE  /\ Suffix(v, i) \in Seq(Tokens)
         /\ Len(Suffix(v, i)) = Len(v) - i + 1
         /\ \A k \in 1..(Len(v) - i + 1) : Suffix(v, i)[k] = v[k + i - 1]
<1> DEFINE n == Len(v)
<1>1. n \in Nat /\ \A k \in i..n : v[k] \in Tokens
  OBVIOUS
<1> HIDE DEF n
<1>2. /\ SubSeq(v, i, n) \in Seq(Tokens)
      /\ Len(SubSeq(v, i, n)) = IF i <= n THEN n - i + 1 ELSE 0
      /\ \A k \in 1..(n - i + 1) : SubSeq(v, i, n)[k] = v[i + k - 1]
  BY <1>1, SubSeqProperties
<1>3. i \in 1..(n + 1)
  BY DEF n
<1>4. Len(SubSeq(v, i, n)) = n - i + 1 /\ \A k \in 1..(n - i + 1) : i + k - 1 = k + i - 1
  BY <1>1, <1>2, <1>3
<1>5. QED
  BY <1>2, <1>4 DEF Suffix, n

LEMMA BeforeIs ==
  ASSUME NEW v \in Seq(Tokens), NEW i \in 1..(Len(v) + 1)
  PROVE  /\ Before(v, i) = SubSeq(v, 1, i - 1)
         /\ Before(v, i) \in Seq(Tokens)
         /\ Len(Before(v, i)) = i - 1
         /\ \A k \in 1..(i - 1) : Before(v, i)[k] = v[k]
<1> DEFINE n == Len(v)
<1>1. n \in Nat /\ i - 1 \in Nat /\ i - 1 <= n /\ \A k \in 1..(i - 1) : v[k] \in Tokens
  OBVIOUS
<1> HIDE DEF n
<1>2. Min({i - 1, n}) = i - 1
  BY <1>1, LesserIs
<1>3. Before(v, i) = SubSeq(v, 1, i - 1)
  BY <1>2 DEF Before, n
<1>4. /\ SubSeq(v, 1, i - 1) \in Seq(Tokens)
      /\ Len(SubSeq(v, 1, i - 1)) = IF 1 <= i - 1 THEN (i - 1) - 1 + 1 ELSE 0
      /\ \A k \in 1..((i - 1) - 1 + 1) : SubSeq(v, 1, i - 1)[k] = v[1 + k - 1]
  BY <1>1, SubSeqProperties
<1>5. /\ Len(SubSeq(v, 1, i - 1)) = i - 1
      /\ \A k \in 1..(i - 1) : SubSeq(v, 1, i - 1)[k] = v[k]
  BY <1>1, <1>4
<1>6. QED
  BY <1>3, <1>4, <1>5

LEMMA WholeSuffix == ASSUME NEW v \in Seq(Tokens) PROVE Suffix(v, 1) = v
  BY SubSeqFull DEF Suffix

-----------------------------------------------------------------------------
(* What is accepted as an address *)

\* networkAddressFromSuffix returns a host that passes its tests.
ValidPort(a) ==
  \A i \in DOMAIN a : FirstOf(a, {":"}) = i =>
    IsPortName(Suffix(a, i + 1)) \/ IsPortNum(Suffix(a, i + 1))
Valid(a) ==
  ValidPort(a) /\ IsSubdomain(HostNoPort(a)) /\ ~IsInteger(HostNoPort(a))

LEMMA ValidHosts == \A v : AddressFromSuffix(v) = {host \in HostFromURL(v) : Valid(host)}
  BY Zenon DEF AddressFromSuffix, Valid, ValidPort

PortTokens == {"name", "port", "number", "-"}
HostTokens == Alnum \union {".", "-"}

\* Before its first colon an address has what hosts have, behind it what the
\* names and numbers of ports have.
LEMMA ValidTokens ==
  ASSUME NEW a \in Seq(Tokens), Valid(a), NEW c, c = FirstOf(a, {":"})
  PROVE  /\ a # <<>> /\ c > 1
         /\ \A i \in DOMAIN a : i < c => a[i] \in HostTokens
         /\ \A i \in DOMAIN a : i = c => a[i] = ":"
         /\ \A i \in DOMAIN a : i > c => a[i] \in PortTokens
<1> DEFINE n == Len(a)
           h == HostNoPort(a)
<1>1. FirstIn(a, {":"}, c)
  BY FirstOfIs
<1>2. n \in Nat /\ DOMAIN a = 1..n /\ c \in 1..(n + 1) /\ c \in Nat
  BY <1>1 DEF FirstIn
<1>3. /\ h \in Seq(Tokens) /\ Len(h) = c - 1
      /\ \A k \in 1..(c - 1) : h[k] = a[k]
  BY <1>2, BeforeIs DEF HostNoPort
<1>4. h # <<>> /\ \A i \in DOMAIN h : h[i] \in HostTokens
  BY Zenon DEF Valid, IsSubdomain, HostTokens
<1>5. c - 1 > 0
  <2> HIDE DEF h
  <2>1. QED
    BY <1>2, <1>3, <1>4
<1>6. \A i \in 1..n : i < c => a[i] \in HostTokens
  <2> SUFFICES ASSUME NEW i \in 1..n, i < c PROVE a[i] \in HostTokens
    OBVIOUS
  <2> HIDE DEF h, n
  <2>1. i \in 1..(c - 1) /\ i \in DOMAIN h
    BY <1>2, <1>3
  <2>2. QED
    BY <1>3, <1>4, <2>1, Zenon
<1>7. c <= n => a[c] = ":"
  BY <1>1 DEF FirstIn
<1>8. ASSUME NEW i \in 1..n, i > c PROVE a[i] \in PortTokens
  <2> DEFINE p == Suffix(a, c + 1)
  <2> HIDE DEF h
  <2>1. c \in DOMAIN a /\ c + 1 \in 1..(n + 1)
    BY <1>2, <1>8
  <2>2. IsPortName(p) \/ IsPortNum(p)
    BY <2>1, Zenon DEF Valid, ValidPort
  <2>3. \A k \in DOMAIN p : p[k] \in PortTokens
    <3>1. CASE IsPortName(p)
      BY <3>1, Zenon DEF IsPortName, PortTokens
    <3>2. CASE IsPortNum(p)
      <4> HIDE DEF p
      <4>1. QED
        BY <3>2 DEF IsPortNum, PortTokens
    <3>3. QED
      BY <2>2, <3>1, <3>2
  <2>4. /\ p \in Seq(Tokens) /\ Len(p) = n - (c + 1) + 1
        /\ \A k \in 1..(n - (c + 1) + 1) : p[k] = a[k + (c + 1) - 1]
    BY <2>1, SuffixIs
  <2> HIDE DEF p
  <2> DEFINE k == i - c
  <2>5. k \in 1..(n - (c + 1) + 1) /\ k \in DOMAIN p /\ k + (c + 1) - 1 = i
    BY <1>2, <1>8, <2>4
  <2> HIDE DEF k
  <2>6. QED
    BY <2>3, <2>4, <2>5, Zenon
<1>9. a # <<>> /\ c > 1
  BY <1>2, <1>5
<1> HIDE DEF h, n
<1>10. QED
  BY <1>2, <1>6, <1>7, <1>8, <1>9

-----------------------------------------------------------------------------
(* The host of a URL *)

\* getHostFromURL returns one string, if any.
LEMMA OneHost == \A v : \E h : HostFromURL(v) \subseteq {h}
  BY Zenon DEF HostFromURL, Host

\* An address that begins with a letter is its own host: what stands before
\* its colon is taken for a scheme, and no root follows.
LEMMA SelfHost ==
  ASSUME NEW a \in Seq(Tokens), Valid(a), a[1] \in Letters
  PROVE  HostFromURL(a) = {a}
<1> DEFINE n == Len(a)
           c == FirstOf(a, {":"})
           s == SchemeLen(a)
           rest == Suffix(a, s + 1)
<1>1. FirstIn(a, {":"}, c)
  BY FirstOfIs
<1>2. n \in Nat /\ DOMAIN a = 1..n /\ c \in 1..(n + 1)
  BY <1>1 DEF FirstIn
<1>3. /\ a # <<>> /\ c > 1
      /\ \A i \in DOMAIN a : i < c => a[i] \in HostTokens
      /\ \A i \in DOMAIN a : i = c => a[i] = ":"
      /\ \A i \in DOMAIN a : i > c => a[i] \in PortTokens
  BY ValidTokens
<1>4. FirstOf(a, Tokens \ (Alnum \union {".", "-"})) = c
  <2>1. \A i \in DOMAIN a : a[i] \in Tokens \ (Alnum \union {".", "-"}) <=> a[i] \in {":"}
    <3> HIDE DEF c
    <3>1. \A i \in DOMAIN a : a[i] \in HostTokens \union {":"} \union PortTokens
      BY <1>2, <1>3
    <3>2. QED
      BY <3>1 DEF HostTokens, PortTokens, Tokens, Alnum, Letters, Numbers, Slashes
  <2>2. QED
    BY <2>1, FirstOfAlike
<1>5. s = IF c <= n THEN c ELSE 0
  <2>1. c <= n => a[c] = ":"
    BY <1>1 DEF FirstIn
  <2> HIDE DEF c
  <2>2. QED
    BY <1>4, <2>1 DEF SchemeLen
<1> HIDE DEF c, s, n
<1>6. s + 1 \in 1..(n + 1)
  BY <1>2, <1>5
<1>7. /\ rest \in Seq(Tokens) /\ Len(rest) = n - (s + 1) + 1
      /\ \A k \in 1..(n - (s + 1) + 1) : rest[k] = a[k + (s + 1) - 1]
  BY <1>6, SuffixIs DEF n
<1>8. rest # <<>> => rest[1] # "//"
  <2> SUFFICES ASSUME rest # <<>> PROVE rest[1] # "//"
    OBVIOUS
  <2>1. Len(rest) \in Nat /\ Len(rest) # 0
    <3> HIDE DEF rest
    <3>1. QED
      BY <1>7
  <2>2. 1 \in 1..(n - (s + 1) + 1) /\ 1 + (s + 1) - 1 = s + 1 /\ s + 1 \in DOMAIN a
    BY <1>2, <1>5, <1>7, <2>1
  <2>3. rest[1] = a[s + 1]
    BY <1>7, <2>2, Zenon
  <2> HIDE DEF rest
  <2>4. s + 1 < c \/ s + 1 > c
    BY <1>2, <1>3, <1>5
  <2>5. a[s + 1] \in HostTokens \/ a[s + 1] \in PortTokens
    BY <1>3, <2>2, <2>4
  <2>6. QED
    BY <2>3, <2>5 DEF HostTokens, PortTokens, Alnum, Letters, Numbers
<1>9. ~(s = 0 /\ c < FirstOf(a, Slashes))
  <2> SUFFICES ASSUME s = 0 PROVE ~(c < FirstOf(a, Slashes))
    OBVIOUS
  <2>1. c = n + 1
    BY <1>2, <1>5
  <2>2. FirstIn(a, Slashes, FirstOf(a, Slashes))
    BY FirstOfIs
  <2>3. FirstOf(a, Slashes) \in 1..(n + 1)
    BY <2>2 DEF FirstIn, n
  <2>4. QED
    BY <1>2, <2>1, <2>3
<1>10. HostFromURL(a) = {a} \ {u \in {a} : s = 0 /\ FirstOf(u, {":"}) < FirstOf(u, Slashes)}
  BY <1>8, Zenon DEF HostFromURL, s, rest
<1>11. QED
  BY <1>9, <1>10 DEF c

-----------------------------------------------------------------------------
(* Addresses of the documented form *)

LEMMA ServiceAddressValid ==
  ASSUME NEW a \in Seq(Tokens), IsServiceAddress(a)
  PROVE  Valid(a) /\ a[1] \in Letters
<1> DEFINE h == HostNoPort(a)
           c == FirstOf(a, {":"})
<1>1. /\ IsSubdomain(h) /\ a[1] \in Letters
      /\ c <= Len(a) => Suffix(a, c + 1) = <<"port">>
  BY Zenon DEF IsServiceAddress, HostNoPort
<1>2. FirstIn(a, {":"}, c)
  BY FirstOfIs
<1>3. c \in 1..(Len(a) + 1)
  BY <1>2 DEF FirstIn
<1>4. Len(h) = c - 1 /\ \A k \in 1..(c - 1) : h[k] = a[k]
  BY <1>3, BeforeIs DEF HostNoPort
<1>5. ValidPort(a)
  <2> SUFFICES ASSUME NEW i \in DOMAIN a, c = i PROVE IsPortNum(Suffix(a, i + 1))
    BY Zenon DEF ValidPort
  <2> HIDE DEF c
  <2>1. c <= Len(a)
    OBVIOUS
  <2>2. QED
    BY <1>1, <2>1 DEF IsPortNum
<1>6. ~IsInteger(h)
  <2> SUFFICES ASSUME NEW n \in Numbers, h = <<n>> PROVE FALSE
    BY Zenon DEF IsInteger
  <2>1. Len(h) = 1 /\ h[1] = n
    OBVIOUS
  <2> HIDE DEF h, c
  <2>2. h[1] = a[1]
    BY <1>3, <1>4, <2>1
  <2>3. QED
    BY <1>1, <2>1, <2>2 DEF Letters, Numbers
<1>7. QED
  BY <1>1, <1>5, <1>6 DEF Valid

LEMMA GreatestOfTwo == ASSUME NEW c \in Nat PROVE Max({c} \union {0}) = c
<1> DEFINE S == {c} \union {0}
<1>1. c \in S /\ \A y \in S : c >= y
  OBVIOUS
<1>2. \A x \in S : (\A y \in S : x >= y) => x = c
  OBVIOUS
<1> HIDE DEF S
<1>3. Max(S) = c
  BY <1>1, <1>2, Zenon DEF Max
<1>4. QED
  BY <1>3 DEF S

\* Such an address is the authority of a URL.
LEMMA ServiceAuthority ==
  ASSUME NEW a \in Seq(Tokens), IsServiceAddress(a)
  PROVE  ValidAuthority(a)
<1> DEFINE c == FirstOf(a, {":"})
           colons == {i \in DOMAIN a : a[i] = ":"}
<1>1. FirstIn(a, {":"}, c)
  BY FirstOfIs
<1>2. c \in 1..(Len(a) + 1) /\ c \in Nat /\ Len(a) \in Nat
  BY <1>1 DEF FirstIn
<1>3. Valid(a)
  BY ServiceAddressValid
<1>4. /\ \A i \in DOMAIN a : i < c => a[i] \in HostTokens
      /\ \A i \in DOMAIN a : i = c => a[i] = ":"
      /\ \A i \in DOMAIN a : i > c => a[i] \in PortTokens
  BY <1>3, ValidTokens
<1>5. ":" \notin HostTokens /\ ":" \notin PortTokens
  BY DEF HostTokens, PortTokens, Alnum, Letters, Numbers
<1>6. c <= Len(a) => Suffix(a, c + 1) = <<"port">>
  BY Zenon DEF IsServiceAddress
<1> HIDE DEF c
<1>7. colons # {} => colons = {c} /\ c <= Len(a)
  <2>1. ASSUME NEW i \in colons PROVE i = c
    <3>1. i \in DOMAIN a /\ i \in Nat /\ a[i] = ":"
      OBVIOUS
    <3>2. ~(i < c) /\ ~(i > c)
      BY <1>4, <1>5, <3>1, Zenon
    <3>3. QED
      BY <1>2, <3>1, <3>2
  <2>2. \A i \in colons : i <= Len(a)
    OBVIOUS
  <2> HIDE DEF colons
  <2>3. QED
    BY <2>1, <2>2
<1> HIDE DEF colons
<1>8. colons # {} => Suffix(a, Max(colons \union {0}) + 1) \in {<<n>> : n \in Numbers}
  <2> SUFFICES ASSUME colons # {}
               PROVE  Suffix(a, Max(colons \union {0}) + 1) \in {<<n>> : n \in Numbers}
    OBVIOUS
  <2>1. Max(colons \union {0}) = c
    BY <1>2, <1>7, GreatestOfTwo
  <2>2. Suffix(a, c + 1) = <<"port">> /\ "port" \in Numbers
    BY <1>6, <1>7 DEF Numbers
  <2>3. QED
    BY <2>1, <2>2, Zenon
<1>9. QED
  BY <1>8, Zenon DEF ValidAuthority, colons

LEMMA ProtocolIs ==
  ASSUME NEW v \in Seq(Tokens), Before(v, 4) = Protocol
  PROVE  /\ Len(v) \in Nat /\ Len(v) >= 3
         /\ v[1] = "name" /\ v[2] = ":" /\ v[3] = "//"
<1> DEFINE n == Len(v)
<1>1. n \in Nat /\ n + 1 \in 1..(n + 1) /\ (n + 1) - 1 = n
  OBVIOUS
<1>2. Len(Protocol) = 3 /\ Protocol[1] = "name" /\ Protocol[2] = ":" /\ Protocol[3] = "//"
  BY DEF Protocol
<1>3. n >= 3
  <2> SUFFICES ASSUME n < 3 PROVE FALSE
    BY <1>1
  <2>1. Min({3, n}) = n /\ Min({n, n}) = n
    BY <1>1, LesserIs
  <2> HIDE DEF n
  <2>2. Before(v, 4) = Before(v, n + 1)
    <3>1. 4 - 1 = 3 /\ (n + 1) - 1 = n
      BY <1>1
    <3>2. QED
      BY <2>1, <3>1, Zenon DEF Before, n
  <2>3. Len(Before(v, n + 1)) = n
    <3>1. Len(Before(v, n + 1)) = (n + 1) - 1
      <4>1. n + 1 \in 1..(Len(v) + 1)
        BY <1>1 DEF n
      <4>2. QED
        BY <4>1, BeforeIs
    <3>2. QED
      BY <1>1, <3>1
  <2>4. Len(Protocol) = n
    BY <2>2, <2>3, Zenon
  <2>5. QED
    BY <1>1, <1>2, <2>4
<1>4. 4 \in 1..(n + 1)
  BY <1>1, <1>3
<1>5. \A k \in 1..(4 - 1) : Before(v, 4)[k] = v[k]
  BY <1>4, BeforeIs
<1>6. QED
  BY <1>1, <1>2, <1>3, <1>5

\* The host of a URL with a protocol is what follows it.
LEMMA ProtocolHost ==
  ASSUME NEW v \in Seq(Tokens), Before(v, 4) = Protocol, IsServiceAddress(Suffix(v, 4))
  PROVE  Suffix(v, 4) \in Seq(Tokens) /\ HostFromURL(v) = {Suffix(v, 4)}
<1> DEFINE n == Len(v)
           a == Suffix(v, 4)
           s == SchemeLen(v)
           rest == Suffix(v, s + 1)
           afterRoot == Suffix(rest, 2)
           path == FirstOf(afterRoot, Slashes)
<1>1. n \in Nat /\ n >= 3 /\ v[1] = "name" /\ v[2] = ":" /\ v[3] = "//"
  BY ProtocolIs
<1>2. /\ a \in Seq(Tokens) /\ Len(a) = n - 4 + 1
      /\ \A k \in 1..(n - 4 + 1) : a[k] = v[k + 4 - 1]
  BY <1>1, SuffixIs
<1>3. s = 2
  <2> DEFINE stop == Tokens \ (Alnum \union {".", "-"})
  <2>1. "name" \notin stop /\ ":" \in stop /\ "name" \in Letters
    BY DEF Tokens, Alnum, Letters, Numbers, Slashes
  <2> HIDE DEF stop
  <2>2. FirstIn(v, stop, 2)
    BY <1>1, <2>1 DEF FirstIn
  <2>3. FirstOf(v, stop) = 2
    BY <2>2, FirstOfUnique
  <2>4. QED
    BY <1>1, <2>1, <2>3 DEF SchemeLen, stop
<1>4. /\ Suffix(v, 3) \in Seq(Tokens) /\ Len(Suffix(v, 3)) = n - 3 + 1
      /\ \A k \in 1..(n - 3 + 1) : Suffix(v, 3)[k] = v[k + 3 - 1]
  BY <1>1, SuffixIs
<1>5. rest = Suffix(v, 3)
  <2> HIDE DEF s
  <2>1. QED
    BY <1>3
<1> HIDE DEF s, rest
<1>6. rest # <<>> /\ rest[1] = "//"
  <2>1. rest[1] = v[1 + 3 - 1] /\ Len(rest) > 0
    BY <1>1, <1>4, <1>5
  <2>2. QED
    BY <1>1, <2>1
<1>7. /\ afterRoot \in Seq(Tokens) /\ Len(afterRoot) = Len(rest) - 2 + 1
      /\ \A k \in 1..(Len(rest) - 2 + 1) : afterRoot[k] = rest[k + 2 - 1]
  <2>1. rest \in Seq(Tokens) /\ 2 \in 1..(Len(rest) + 1)
    BY <1>1, <1>4, <1>5
  <2>2. QED
    BY <2>1, SuffixIs
<1>8. afterRoot = a
  <2> HIDE DEF afterRoot, a
  <2>1. Len(afterRoot) = n - 3 /\ Len(a) = n - 3
    BY <1>1, <1>2, <1>4, <1>5, <1>7
  <2>2. ASSUME NEW k \in 1..(n - 3) PROVE afterRoot[k] = a[k]
    <3>1. /\ k \in 1..(Len(rest) - 2 + 1) /\ k + 1 \in 1..(n - 3 + 1) /\ k \in 1..(n - 4 + 1)
          /\ k + 2 - 1 = k + 1 /\ (k + 1) + 3 - 1 = k + 3 /\ k + 4 - 1 = k + 3
      BY <1>1, <1>4, <1>5
    <3>2. afterRoot[k] = rest[k + 1] /\ a[k] = v[k + 3]
      BY <1>2, <1>7, <3>1, Zenon
    <3>3. rest[k + 1] = v[k + 3]
      BY <1>4, <1>5, <3>1, Zenon
    <3>4. QED
      BY <3>2, <3>3
  <2>3. QED
    BY <1>2, <1>7, <2>1, <2>2, SeqEqual
<1>9. Valid(a) /\ ValidAuthority(a)
  BY <1>2, ServiceAddressValid, ServiceAuthority
<1> HIDE DEF a
<1>10. path = Len(a) + 1
  <2>1. \A i \in DOMAIN a : a[i] \in HostTokens \union {":"} \union PortTokens
    <3> DEFINE c == FirstOf(a, {":"})
    <3>1. FirstIn(a, {":"}, c)
      BY <1>2, FirstOfIs
    <3>2. c \in Int
      BY <3>1 DEF FirstIn
    <3>3. /\ \A i \in DOMAIN a : i < c => a[i] \in HostTokens
          /\ \A i \in DOMAIN a : i = c => a[i] = ":"
          /\ \A i \in DOMAIN a : i > c => a[i] \in PortTokens
      BY <1>2, <1>9, ValidTokens
    <3> HIDE DEF c
    <3>4. \A i \in DOMAIN a : i < c \/ i = c \/ i > c
      BY <1>2, <3>2
    <3>5. QED
      BY <3>3, <3>4, Zenon
  <2>2. \A i \in DOMAIN a : a[i] \notin Slashes
    BY <2>1 DEF HostTokens, PortTokens, Slashes, Alnum, Letters, Numbers
  <2>3. FirstOf(a, Slashes) = Len(a) + 1
    BY <1>2, <2>2, NoneFirst
  <2>4. QED
    BY <1>8, <2>3, Zenon
<1>11. Before(afterRoot, path) = a /\ path..Len(afterRoot) = {}
  <2>1. Len(a) \in Nat
    BY <1>2
  <2>2. Before(a, Len(a) + 1) = a
    <3>1. Len(a) + 1 \in 1..(Len(a) + 1) /\ (Len(a) + 1) - 1 = Len(a)
      BY <2>1
    <3>2. Before(a, Len(a) + 1) = SubSeq(a, 1, (Len(a) + 1) - 1)
      BY <1>2, <3>1, BeforeIs
    <3>3. SubSeq(a, 1, Len(a)) = a
      BY <1>2, SubSeqFull
    <3>4. QED
      BY <3>1, <3>2, <3>3, Zenon
  <2>3. (Len(a) + 1)..Len(a) = {}
    BY <2>1
  <2> HIDE DEF afterRoot, path
  <2>4. QED
    BY <1>8, <1>10, <2>2, <2>3, Zenon
<1>12. HostFromURL(v) =
         {Host(b) : b \in {b \in {Before(afterRoot, path)} :
            ValidAuthority(b) /\ \A i \in path..Len(afterRoot) : afterRoot[i] # "%"}}
  BY <1>6, Zenon DEF HostFromURL, rest, s
<1> HIDE DEF afterRoot, path
<1>13. HostFromURL(v) = {a}
  BY <1>9, <1>11, <1>12, Zenon DEF Host
<1>14. QED
  BY <1>2, <1>13 DEF a

\* A value of the documented form is, as it stands, an address.
LEMMA ExpectedIsFound ==
  ASSUME NEW v \in Seq(Tokens), NEW a \in ExpectedAddress(v)
  PROVE  AddressFromSuffix(v) = {a} /\ Len(v) > 0 /\ v[1] \in Letters
<1>1. /\ a = v \/ (a = Suffix(v, 4) /\ Before(v, 4) = Protocol)
      /\ IsServiceAddress(a)
  BY Zenon DEF ExpectedAddress
<1>2. CASE a = v
  <2>1. Valid(v) /\ v[1] \in Letters
    BY <1>1, <1>2, ServiceAddressValid
  <2>2. HostFromURL(v) = {v}
    BY <2>1, SelfHost
  <2>3. v # <<>>
    <3> DEFINE c == FirstOf(v, {":"})
    <3>1. v # <<>> /\ c > 1
      BY <2>1, ValidTokens
    <3>2. QED
      BY <3>1
  <2>4. QED
    BY <1>2, <2>1, <2>2, <2>3, ValidHosts
<1>3. CASE a = Suffix(v, 4) /\ Before(v, 4) = Protocol
  <2>1. a \in Seq(Tokens) /\ HostFromURL(v) = {a}
    BY <1>1, <1>3, ProtocolHost
  <2>2. Valid(a)
    BY <1>1, <2>1, ServiceAddressValid
  <2>3. Len(v) > 0 /\ v[1] \in Letters
    BY <1>3, ProtocolIs DEF Letters
  <2>4. AddressFromSuffix(v) = {a}
    BY <2>1, <2>2, ValidHosts, Zenon
  <2>5. QED
    BY <2>3, <2>4
<1>4. QED
  BY <1>1, <1>2, <1>3

-----------------------------------------------------------------------------
(* What an address is a piece of *)

\* a stands in w, behind the first o tokens.
PieceAt(a, w, o) ==
  o \in Nat /\ o + Len(a) <= Len(w) /\ \A m \in 1..Len(a) : a[m] = w[o + m]

LEMMA PieceSuffix ==
  ASSUME NEW v \in Seq(Tokens), NEW i \in 1..(Len(v) + 1)
  PROVE  Suffix(v, i) \in Seq(Tokens) /\ PieceAt(Suffix(v, i), v, i - 1)
<1> DEFINE n == Len(v)
           a == Suffix(v, i)
<1>1. n \in Nat /\ i \in 1..(n + 1)
  OBVIOUS
<1>2. a \in Seq(Tokens) /\ Len(a) = n - i + 1 /\ \A k \in 1..(n - i + 1) : a[k] = v[k + i - 1]
  BY SuffixIs
<1> HIDE DEF n, a
<1>3. i - 1 \in Nat /\ (i - 1) + Len(a) <= n
  BY <1>1, <1>2
<1>4. \A m \in 1..(n - i + 1) : m + i - 1 = (i - 1) + m
  BY <1>1
<1>5. \A m \in 1..Len(a) : a[m] = v[(i - 1) + m]
  BY <1>2, <1>4
<1>6. QED
  BY <1>2, <1>3, <1>5, Zenon DEF PieceAt, a, n

LEMMA PieceBefore ==
  ASSUME NEW v \in Seq(Tokens), NEW i \in 1..(Len(v) + 1)
  PROVE  Before(v, i) \in Seq(Tokens) /\ PieceAt(Before(v, i), v, 0)
<1> DEFINE n == Len(v)
           a == Before(v, i)
<1>1. n \in Nat /\ i \in 1..(n + 1)
  OBVIOUS
<1>2. a \in Seq(Tokens) /\ Len(a) = i - 1 /\ \A k \in 1..(i - 1) : a[k] = v[k]
  BY BeforeIs
<1> HIDE DEF n, a
<1>3. 0 \in Nat /\ 0 + Len(a) <= n
  BY <1>1, <1>2
<1>4. \A m \in 1..Len(a) : a[m] = v[0 + m]
  BY <1>1, <1>2
<1>5. QED
  BY <1>2, <1>3, <1>4, Zenon DEF PieceAt, a, n

LEMMA PieceOfPiece ==
  ASSUME NEW a \in Seq(Tokens), NEW b \in Seq(Tokens), NEW c \in Seq(Tokens),
         NEW o, NEW p, PieceAt(a, b, o), PieceAt(b, c, p)
  PROVE  PieceAt(a, c, p + o)
<1> DEFINE la == Len(a)
           lb == Len(b)
           lc == Len(c)
<1>1. la \in Nat /\ lb \in Nat /\ lc \in Nat
  OBVIOUS
<1>2. /\ o \in Nat /\ o + la <= lb /\ \A m \in 1..la : a[m] = b[o + m]
      /\ p \in Nat /\ p + lb <= lc /\ \A m \in 1..lb : b[m] = c[p + m]
  BY DEF PieceAt
<1> HIDE DEF la, lb, lc
<1>3. p + o \in Nat /\ (p + o) + la <= lc
  BY <1>1, <1>2
<1>4. ASSUME NEW m \in 1..la PROVE a[m] = c[(p + o) + m]
  <2>1. o + m \in 1..lb /\ p + (o + m) = (p + o) + m
    BY <1>1, <1>2
  <2>2. QED
    BY <1>2, <2>1, Zenon
<1>5. QED
  BY <1>3, <1>4, Zenon DEF PieceAt, la, lc

LEMMA WholePiece == ASSUME NEW v \in Seq(Tokens) PROVE PieceAt(v, v, 0)
<1>1. Len(v) \in Nat
  OBVIOUS
<1>2. \A m \in 1..Len(v) : 0 + m = m
  BY <1>1
<1>3. 0 \in Nat /\ 0 + Len(v) <= Len(v)
  BY <1>1
<1>4. QED
  BY <1>2, <1>3 DEF PieceAt

\* A piece is a subsequence.
LEMMA PieceSubSeq ==
  ASSUME NEW a \in Seq(Tokens), NEW w \in Seq(Tokens), NEW o, PieceAt(a, w, o), a # <<>>
  PROVE  \E i \in DOMAIN w : SubSeq(w, i, i + Len(a) - 1) = a
<1> DEFINE la == Len(a)
           n == Len(w)
           i == o + 1
           j == i + la - 1
           u == SubSeq(w, i, j)
<1>1. la \in Nat /\ la # 0 /\ n \in Nat /\ DOMAIN w = 1..n /\ \A k \in 1..n : w[k] \in Tokens
  OBVIOUS
<1>2. o \in Nat /\ o + la <= n /\ \A m \in 1..la : a[m] = w[o + m]
  BY DEF PieceAt
<1> HIDE DEF la, n
<1>3. i \in 1..n /\ i \in Nat /\ j \in Nat /\ i <= j /\ j <= n /\ j - i + 1 = la
  BY <1>1, <1>2
<1> HIDE DEF j
<1>4. \A k \in i..j : w[k] \in Tokens
  BY <1>1, <1>3
<1>5. i \in Int /\ j \in Int
  BY <1>3
<1> HIDE DEF i
<1>6. /\ u \in Seq(Tokens)
      /\ Len(u) = IF i <= j THEN j - i + 1 ELSE 0
      /\ \A k \in 1..(j - i + 1) : u[k] = w[i + k - 1]
  BY <1>4, <1>3, SubSeqProperties
<1> HIDE DEF u
<1>7. Len(u) = la /\ \A k \in 1..la : u[k] = w[i + k - 1]
  BY <1>3, <1>6
<1>8. ASSUME NEW k \in 1..la PROVE u[k] = a[k]
  <2>1. i + k - 1 = o + k
    BY <1>1, <1>2 DEF i
  <2>2. QED
    BY <1>2, <1>7, <2>1, Zenon
<1>9. u = a
  BY <1>6, <1>7, <1>8, SeqEqual DEF la
<1>10. QED
  BY <1>1, <1>3, <1>9 DEF u, j, la

LEMMA SchemeLenIs ==
  ASSUME NEW v \in Seq(Tokens)
  PROVE  SchemeLen(v) + 1 \in 1..(Len(v) + 1)
<1> DEFINE c == FirstOf(v, Tokens \ (Alnum \union {".", "-"}))
           n == Len(v)
<1>1. n \in Nat
  OBVIOUS
<1>2. c \in 1..(n + 1)
  <2>1. FirstIn(v, Tokens \ (Alnum \union {".", "-"}), c)
    BY FirstOfIs
  <2>2. QED
    BY <2>1 DEF FirstIn
<1>3. (SchemeLen(v) = c /\ c <= n) \/ SchemeLen(v) = 0
  BY Zenon DEF SchemeLen
<1> HIDE DEF c, n
<1>4. QED
  BY <1>1, <1>2, <1>3 DEF n

\* getHostFromURL cuts its result out of the value.
LEMMA HostPiece ==
  ASSUME NEW v \in Seq(Tokens), NEW h \in HostFromURL(v)
  PROVE  h \in Seq(Tokens) /\ \E o : PieceAt(h, v, o)
<1> DEFINE s == SchemeLen(v)
           rest == Suffix(v, s + 1)
           afterRoot == Suffix(rest, 2)
           path == FirstOf(afterRoot, Slashes)
           b == Before(afterRoot, path)
<1>1. h = v \/ (rest # <<>> /\ h = b)
  BY Zenon DEF HostFromURL, Host
<1>2. CASE h = v
  BY <1>2, WholePiece
<1>3. CASE rest # <<>> /\ h = b
  <2>1. rest \in Seq(Tokens) /\ PieceAt(rest, v, (s + 1) - 1)
    BY SchemeLenIs, PieceSuffix
  <2> HIDE DEF rest
  <2>2. 2 \in 1..(Len(rest) + 1)
    BY <1>3, <2>1
  <2>3. afterRoot \in Seq(Tokens) /\ PieceAt(afterRoot, rest, 2 - 1)
    BY <2>1, <2>2, PieceSuffix
  <2> HIDE DEF afterRoot
  <2>4. path \in 1..(Len(afterRoot) + 1)
    <3>1. FirstIn(afterRoot, Slashes, path)
      BY <2>3, FirstOfIs
    <3>2. QED
      BY <3>1 DEF FirstIn
  <2>5. b \in Seq(Tokens) /\ PieceAt(b, afterRoot, 0)
    BY <2>3, <2>4, PieceBefore
  <2> HIDE DEF b
  <2>6. PieceAt(b, rest, (2 - 1) + 0)
    BY <2>1, <2>3, <2>5, PieceOfPiece
  <2>7. PieceAt(b, v, ((s + 1) - 1) + ((2 - 1) + 0))
    BY <2>1, <2>5, <2>6, PieceOfPiece
  <2>8. QED
    BY <1>3, <2>5, <2>7
<1>4. QED
  BY <1>1, <1>2, <1>3

\* What a suffix is taken for: at most one valid address, a piece of it.
LEMMA SuffixAddress ==
  ASSUME NEW v \in Seq(Tokens), NEW a \in AddressFromSuffix(v)
  PROVE  /\ AddressFromSuffix(v) = {a} /\ a \in Seq(Tokens) /\ Valid(a)
         /\ \E o : PieceAt(a, v, o)
<1>1. a \in HostFromURL(v) /\ Valid(a)
  BY ValidHosts, Zenon
<1>2. PICK h : HostFromURL(v) \subseteq {h}
  BY OneHost
<1>3. AddressFromSuffix(v) \subseteq HostFromURL(v)
  BY ValidHosts, Zenon
<1>4. AddressFromSuffix(v) = {a}
  BY <1>2, <1>3
<1>5. QED
  BY <1>1, <1>4, HostPiece

-----------------------------------------------------------------------------
(* The suffixes of a value are tried in turn *)

\* Where the suffixes begin that are addresses.
Good(v) == {i \in SuffixStarts(v) : AddressFromSuffix(Suffix(v, i)) # {}}

\* m is the first of them, and its address is the one that is found.
FoundAt(v, m) ==
  /\ m \in Good(v)
  /\ \A i \in Good(v) : m <= i
  /\ NetworkAddress(v) = AddressFromSuffix(Suffix(v, m))

LEMMA StartsIn ==
  ASSUME NEW v \in Seq(Tokens)
  PROVE  SuffixStarts(v) \subseteq 1..(Len(v) + 1)
<1> DEFINE n == Len(v)
<1>1. n \in Nat /\ 3..n \subseteq 1..(n + 1) /\ 1 \in 1..(n + 1)
  OBVIOUS
<1> HIDE DEF n
<1>2. SuffixStarts(v) \subseteq {1} \union 3..n
  BY Zenon DEF SuffixStarts, n
<1>3. QED
  BY <1>1, <1>2 DEF n

LEMMA FirstGood ==
  ASSUME NEW v \in Seq(Tokens)
  PROVE  IF Good(v) = {} THEN NetworkAddress(v) = {} ELSE \E m : FoundAt(v, m)
<1> DEFINE G == Good(v)
           tried == {i \in SuffixStarts(v) : \A j \in SuffixStarts(v) :
                       j < i => ~(AddressFromSuffix(Suffix(v, j)) # {})}
<1>1. NetworkAddress(v) = UNION {AddressFromSuffix(Suffix(v, i)) : i \in tried}
  BY Zenon DEF NetworkAddress
<1>2. \A i \in tried : i \in G \/ AddressFromSuffix(Suffix(v, i)) = {}
  BY Zenon DEF Good
<1>3. CASE G = {}
  <2> HIDE DEF tried, G
  <2>1. NetworkAddress(v) = {}
    BY <1>1, <1>2, <1>3
  <2>2. QED
    BY <1>3, <2>1 DEF G
<1>4. CASE G # {}
  <2>1. SuffixStarts(v) \subseteq Nat
    BY StartsIn
  <2>2. G \in SUBSET Nat /\ G \subseteq SuffixStarts(v)
    BY <2>1 DEF Good
  <2>3. PICK m \in G : \A i \in G : m <= i
    <3> HIDE DEF G
    <3>1. QED
      BY <1>4, <2>2, LeastNat
  <2>4. m \in tried
    <3> SUFFICES ASSUME NEW j \in SuffixStarts(v), j < m
                 PROVE  ~(AddressFromSuffix(Suffix(v, j)) # {})
      BY <2>2, <2>3
    <3>1. j \notin G
      <4> HIDE DEF G
      <4>1. QED
        BY <2>1, <2>2, <2>3
    <3>2. QED
      BY <3>1, Zenon DEF Good
  <2>5. \A i \in tried : i \in G => i = m
    <3> SUFFICES ASSUME NEW i \in tried, i \in G PROVE i = m
      BY Zenon
    <3>1. ~(m < i)
      BY <2>2, <2>3, Zenon DEF Good
    <3> HIDE DEF G, tried
    <3>2. QED
      BY <2>2, <2>3, <3>1
  <2> HIDE DEF tried
  <2>6. NetworkAddress(v) = AddressFromSuffix(Suffix(v, m))
    <3> HIDE DEF G
    <3>1. QED
      BY <1>1, <1>2, <2>4, <2>5
  <2>7. FoundAt(v, m)
    BY <2>3, <2>6, Zenon DEF FoundAt
  <2>8. QED
    BY <1>4, <2>7
<1>5. QED
  BY <1>3, <1>4

\* A value that is an address as it stands is found whole.
LEMMA FoundWhole ==
  ASSUME NEW v \in Seq(Tokens), NEW a, AddressFromSuffix(v) = {a}
  PROVE  NetworkAddress(v) = {a}
<1>1. Suffix(v, 1) = v
  BY WholeSuffix
<1>2. 1 \in Good(v)
  BY <1>1, Zenon DEF Good, SuffixStarts
<1>3. PICK m : FoundAt(v, m)
  BY <1>2, FirstGood
<1>4. m = 1
  <2>1. m \in 1..(Len(v) + 1) /\ m <= 1
    BY <1>2, <1>3, StartsIn DEF FoundAt, Good
  <2>2. QED
    BY <2>1
<1>5. QED
  BY <1>1, <1>3, <1>4, Zenon DEF FoundAt

\* What is found is the one address of the first suffix that is one.
LEMMA FoundAddress ==
  ASSUME NEW v \in Seq(Tokens), NEW a \in NetworkAddress(v)
  PROVE  /\ NetworkAddress(v) = {a} /\ a \in Seq(Tokens) /\ Valid(a)
         /\ \E o : PieceAt(a, v, o)
<1>1. PICK m : FoundAt(v, m)
  BY FirstGood
<1>2. m \in 1..(Len(v) + 1) /\ a \in AddressFromSuffix(Suffix(v, m))
      /\ NetworkAddress(v) = AddressFromSuffix(Suffix(v, m))
  BY <1>1, StartsIn DEF FoundAt, Good
<1>3. Suffix(v, m) \in Seq(Tokens) /\ PieceAt(Suffix(v, m), v, m - 1)
  BY <1>2, PieceSuffix
<1>4. /\ AddressFromSuffix(Suffix(v, m)) = {a} /\ a \in Seq(Tokens) /\ Valid(a)
      /\ \E o : PieceAt(a, Suffix(v, m), o)
  BY <1>2, <1>3, SuffixAddress
<1>5. PICK o : PieceAt(a, Suffix(v, m), o)
  BY <1>4
<1>6. PieceAt(a, v, (m - 1) + o)
  BY <1>3, <1>4, <1>5, PieceOfPiece
<1>7. QED
  BY <1>2, <1>4, <1>6

-----------------------------------------------------------------------------
(* What networkAddressFromStr finds in any value *)

\* A value yields one address, of at least a character, or none; and the empty
\* value none. So what Workloads is given, a function from values to what they
\* yield which is nothing on the empty one, is what this module computes.
THEOREM OneAddress ==
  /\ \A v \in Seq(Tokens) : \A a \in NetworkAddress(v) :
       NetworkAddress(v) = {a} /\ a \in Seq(Tokens) \ {<<>>}
  /\ NetworkAddress(<<>>) = {}
<1>1. ASSUME NEW v \in Seq(Tokens), NEW a \in NetworkAddress(v)
      PROVE  /\ NetworkAddress(v) = {a} /\ a \in Seq(Tokens) \ {<<>>}
             /\ \E o : PieceAt(a, v, o)
  <2>1. NetworkAddress(v) = {a} /\ a \in Seq(Tokens) /\ Valid(a) /\ \E o : PieceAt(a, v, o)
    BY FoundAddress
  <2>2. a # <<>>
    <3> DEFINE c == FirstOf(a, {":"})
    <3>1. a # <<>> /\ c > 1
      BY <2>1, ValidTokens
    <3>2. QED
      BY <3>1
  <2>3. QED
    BY <2>1, <2>2
<1>2. NetworkAddress(<<>>) = {}
  <2> SUFFICES ASSUME NEW a \in NetworkAddress(<<>>) PROVE FALSE
    OBVIOUS
  <2>1. <<>> \in Seq(Tokens) /\ Len(<<>>) = 0
    OBVIOUS
  <2>2. a \in Seq(Tokens) \ {<<>>} /\ \E o : PieceAt(a, <<>>, o)
    BY <1>1, <2>1
  <2>3. PICK o : PieceAt(a, <<>>, o)
    BY <2>2
  <2>4. o \in Nat /\ o + Len(a) <= 0 /\ Len(a) \in Nat /\ Len(a) # 0
    BY <2>1, <2>2, <2>3 DEF PieceAt
  <2>5. QED
    BY <2>4
<1>3. QED
  BY <1>1, <1>2

LEMMA PatternFoundIn ==
  ASSUME NEW v \in Seq(Tokens), NEW a \in ExpectedAddress(v)
  PROVE  NetworkAddress(v) = {a}
<1>1. AddressFromSuffix(v) = {a}
  BY ExpectedIsFound
<1>2. QED
  BY <1>1, FoundWhole

LEMMA SuffixFoundIn ==
  ASSUME NEW v \in Seq(Tokens), NEW i \in 3..Len(v), v[i - 1] \in Separators,
         NEW a \in ExpectedAddress(Suffix(v, i))
  PROVE  \/ NetworkAddress(v) = {a}
         \/ \E j \in 1..(i - 1) : \E b \in AddressFromSuffix(Suffix(v, j)) :
              NetworkAddress(v) = {b}
<1> DEFINE u == Suffix(v, i)
           n == Len(v)
<1> HIDE DEF u, n
<1>0. n \in Nat /\ i \in 3..n
  BY DEF n
<1>1. i \in 1..(n + 1) /\ i \in Int
  BY <1>0
<1>2. /\ u \in Seq(Tokens) /\ Len(u) = Len(v) - i + 1
      /\ \A k \in 1..(Len(v) - i + 1) : u[k] = v[k + i - 1]
  BY <1>1, SuffixIs DEF u, n
<1>3. AddressFromSuffix(u) = {a} /\ u[1] \in Letters
  BY <1>2, ExpectedIsFound DEF u
<1>4. u[1] = v[i]
  <2>1. 1 \in 1..(n - i + 1) /\ 1 + i - 1 = i
    BY <1>0
  <2>2. QED
    BY <1>2, <2>1, Zenon DEF n
<1>5. i \in SuffixStarts(v)
  BY <1>3, <1>4, Zenon DEF SuffixStarts
<1>6. i \in Good(v)
  BY <1>3, <1>5, Zenon DEF Good, u
<1>7. PICK m : FoundAt(v, m)
  BY <1>6, FirstGood
<1>8. /\ m \in 1..(n + 1) /\ m <= i
      /\ AddressFromSuffix(Suffix(v, m)) # {}
      /\ NetworkAddress(v) = AddressFromSuffix(Suffix(v, m))
  BY <1>6, <1>7, StartsIn DEF FoundAt, Good, n
<1>9. PICK b : b \in AddressFromSuffix(Suffix(v, m))
  BY <1>8
<1>10. NetworkAddress(v) = {b}
  BY <1>8, <1>9, FoundAddress
<1>11. CASE m = i
  BY <1>3, <1>8, <1>11, Zenon DEF u
<1>12. CASE m # i
  <2>1. m \in 1..(i - 1)
    BY <1>0, <1>8, <1>12
  <2>2. QED
    BY <1>9, <1>10, <2>1, Zenon
<1>13. QED
  BY <1>11, <1>12

LEMMA CleanAddressIn ==
  ASSUME NEW v \in Seq(Tokens), NEW a \in NetworkAddress(v)
  PROVE  /\ \E i \in DOMAIN v : SubSeq(v, i, i + Len(a) - 1) = a
         /\ FirstOf(a, Tokens \ (Alnum \union {".", "-", ":"})) > Len(a)
         /\ a[1] \in Letters => NetworkAddress(a) = {a}
<1>1. a \in Seq(Tokens) /\ Valid(a) /\ \E o : PieceAt(a, v, o)
  BY FoundAddress
<1> DEFINE c == FirstOf(a, {":"})
<1>2. /\ a # <<>>
      /\ \A i \in DOMAIN a : i < c => a[i] \in HostTokens
      /\ \A i \in DOMAIN a : i = c => a[i] = ":"
      /\ \A i \in DOMAIN a : i > c => a[i] \in PortTokens
  BY <1>1, ValidTokens
<1>3. c \in Int
  <2>1. FirstIn(a, {":"}, c)
    BY <1>1, FirstOfIs
  <2>2. QED
    BY <2>1 DEF FirstIn
<1> HIDE DEF c
<1>4. \E i \in DOMAIN v : SubSeq(v, i, i + Len(a) - 1) = a
  BY <1>1, <1>2, PieceSubSeq
<1>5. FirstOf(a, Tokens \ (Alnum \union {".", "-", ":"})) > Len(a)
  <2>1. \A i \in DOMAIN a : i < c \/ i = c \/ i > c
    BY <1>1, <1>3
  <2>2. \A i \in DOMAIN a : a[i] \in HostTokens \union {":"} \union PortTokens
    BY <1>2, <2>1, Zenon
  <2>3. \A i \in DOMAIN a : a[i] \notin Tokens \ (Alnum \union {".", "-", ":"})
    BY <2>2 DEF HostTokens, PortTokens, Alnum, Letters, Numbers
  <2>4. FirstOf(a, Tokens \ (Alnum \union {".", "-", ":"})) = Len(a) + 1
    BY <1>1, <2>3, NoneFirst
  <2>5. Len(a) \in Nat
    BY <1>1
  <2>6. QED
    BY <2>4, <2>5
<1>6. ASSUME a[1] \in Letters PROVE NetworkAddress(a) = {a}
  <2>1. HostFromURL(a) = {a}
    BY <1>1, <1>6, SelfHost
  <2>2. AddressFromSuffix(a) = {a}
    BY <1>1, <2>1, ValidHosts
  <2>3. QED
    BY <1>1, <2>2, FoundWhole
<1>7. QED
  BY <1>4, <1>5, <1>6

-----------------------------------------------------------------------------
(* The invariants *)

ValueType == value \in Seq(Tokens)

\* A value is a sequence of tokens, however it grows.
LEMMA ValueTypeHolds == Spec => []ValueType
<1>1. Init => ValueType
  BY ValuesAssumption DEF Init, ValueType
<1>2. ValueType /\ [Grow]_<<value, growth>> => ValueType'
  BY DEF ValueType, Grow
<1>3. QED
  BY <1>1, <1>2, PTL DEF Spec

\* Every value of the pattern that README.md gives for network addresses, of
\* any number of labels, yields its address, without the protocol and with the
\* port.
THEOREM PatternFoundHolds == Spec => []PatternFound
<1>1. ValueType => PatternFound
  BY PatternFoundIn DEF ValueType, PatternFound
<1>2. QED
  BY <1>1, ValueTypeHolds, PTL

\* An address behind a key and a separator is found, however long the value,
\* unless a suffix that begins before it is an address, which is found then.
THEOREM SuffixFoundHolds == Spec => []SuffixFound
<1>1. ValueType => SuffixFound
  BY SuffixFoundIn, Zenon DEF ValueType, SuffixFound, Separators
<1>2. QED
  BY <1>1, ValueTypeHolds, PTL

\* What is found is a piece of the value with nothing in it that addresses do
\* not have, and yields itself.
THEOREM CleanAddressHolds == Spec => []CleanAddress
<1>1. ValueType => CleanAddress
  BY CleanAddressIn DEF ValueType, CleanAddress
<1>2. QED
  BY <1>1, ValueTypeHolds, PTL

================================================================================
