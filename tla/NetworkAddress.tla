---------------------------- MODULE NetworkAddress ----------------------------
(***************************************************************************)
(* networkAddressFromStr of info_to_resource.go: whether a configuration   *)
(* value, or a suffix of it, is a network address. A value is a sequence   *)
(* of tokens, each the longest piece of its kind:                          *)
(*   - "name" is a DNS label of letters and digits that begins with a      *)
(*     letter, "longname" one that is too long for the name of a port;     *)
(*   - "port" is a number from 1 to 65535, "number" another one;           *)
(*   - "%" is a percent sign that starts no escape, the rest themselves.   *)
(* There are no capital letters, fragments, queries and user names.        *)
(***************************************************************************)
EXTENDS Naturals, Sequences, FiniteSetsExt

CONSTANTS
  Seeds,      \* values to start from
  Tested,     \* the values of TestNetworkAddressValue, with what is expected
  MaxGrowth   \* bound on the tokens appended to a seed, for model checking

Letters == {"name", "longname"}
Numbers == {"port", "number"}
Alnum == Letters \union Numbers
Slashes == {"/", "//"}
Tokens == Alnum \union Slashes \union {":", "=", " ", ".", "-", "%"}

ASSUME ValuesAssumption == Seeds \union DOMAIN Tested \subseteq Seq(Tokens)

\* The index of the first token of v that is in ts, or one past the end.
FirstOf(v, ts) ==
  LET found == {i \in DOMAIN v : v[i] \in ts}
  IN  IF found = {} THEN Len(v) + 1 ELSE Min(found)

Suffix(v, i) == SubSeq(v, i, Len(v))
Before(v, i) == SubSeq(v, 1, Min({i - 1, Len(v)}))

-----------------------------------------------------------------------------
(* url.Parse and the validators, as far as these tokens go *)

\* The number of characters of v, of whose names and numbers each kind has one
\* length.
Chars(v) ==
  LET width == [t \in Tokens |-> CASE t \in {"name", "port"} -> 3
                                   [] t = "number" -> 5
                                   [] t = "longname" -> 16
                                   [] t = "//" -> 2
                                   [] OTHER -> 1]
  IN  MapThenSumSet(LAMBDA i : width[v[i]], DOMAIN v)

\* The length of "scheme:" at the start of v, or 0.
SchemeLen(v) ==
  LET colon == FirstOf(v, Tokens \ (Alnum \union {".", "-"}))
  IN  IF colon <= Len(v) /\ v[colon] = ":" /\ v[1] \in Letters THEN colon ELSE 0

\* The authority of a URL may end in a colon and digits, or a colon.
ValidAuthority(a) ==
  LET colons == {i \in DOMAIN a : a[i] = ":"}
      last == Max(colons \union {0})
  IN  colons # {} => Suffix(a, last + 1) \in {<<>>} \union {<<n>> : n \in Numbers}

\* validation.IsDNS1123Subdomain: labels joined by dots, not too many.
IsSubdomain(v) ==
  /\ v # <<>>
  /\ \A i \in DOMAIN v : v[i] \in Alnum \union {".", "-"}
  /\ v[1] \in Alnum /\ v[Len(v)] \in Alnum
  /\ \A i \in DOMAIN v : v[i] = "." => v[i - 1] \in Alnum /\ v[i + 1] \in Alnum
  /\ Chars(v) <= 253

\* validation.IsValidPortName: no long name, no two dashes, at least a letter.
IsPortName(v) ==
  /\ v # <<>>
  /\ \A i \in DOMAIN v : v[i] \in {"name", "port", "number", "-"}
  /\ v[1] # "-" /\ v[Len(v)] # "-"
  /\ \A i \in 1..(Len(v) - 1) : v[i] = "-" => v[i + 1] # "-"
  /\ \E i \in DOMAIN v : v[i] = "name"
  /\ Chars(v) <= 15

\* validation.IsValidPortNum after strconv.Atoi
IsPortNum(v) == v = <<"port">>

IsInteger(v) == \E n \in Numbers : v = <<n>>

-----------------------------------------------------------------------------
(* info_to_resource.go *)

\* Mutant: url.Hostname is taken, which has no port.
Host_NoPort(authority) == Before(authority, FirstOf(authority, {":"}))

\* url.Host
Host(authority) == authority

\* getHostFromURL: the authority of a URL; or else the value itself, be it
\* scheme:opaque or a path; nothing if url.Parse fails.
HostFromURL(v) ==
  LET s == SchemeLen(v)
      rest == Suffix(v, s + 1)
      afterRoot == Suffix(rest, 2)
      path == FirstOf(afterRoot, Slashes)
  IN  IF rest # <<>> /\ rest[1] = "//"
        THEN {Host(a) : a \in {a \in {Before(afterRoot, path)} :
                ValidAuthority(a) /\ \A i \in path..Len(afterRoot) : afterRoot[i] # "%"}}
      ELSE {v} \ {u \in {v} : s = 0 /\ FirstOf(u, {":"}) < FirstOf(u, Slashes)}

HostNoPort(host) == Before(host, FirstOf(host, {":"}))

\* Mutant: the port is not validated.
AddressFromSuffix_AnyPort(v) ==
  {host \in HostFromURL(v) : IsSubdomain(HostNoPort(host)) /\ ~IsInteger(HostNoPort(host))}

\* networkAddressFromSuffix: the address that v is, if it is one.
AddressFromSuffix(v) ==
  {host \in HostFromURL(v) :
     /\ \A i \in DOMAIN host : FirstOf(host, {":"}) = i =>
          IsPortName(Suffix(host, i + 1)) \/ IsPortNum(Suffix(host, i + 1))
     /\ IsSubdomain(HostNoPort(host))
     /\ ~IsInteger(HostNoPort(host))}

\* Mutant: a space before an address is not expected.
Separators_NoSpace == {":", "="}

Separators == {":", "=", " "}

\* possibleSuffixes: the value, and what follows a separator with a letter.
\* The test i > 1 on byte offsets passes over a letter after the first byte.
SuffixStarts(v) ==
  {1} \union {i \in 3..Len(v) : v[i] \in Letters /\ v[i - 1] \in Separators}

\* networkAddressFromStr: the first suffix that is an address.
NetworkAddress(v) ==
  LET IsGood(i) == AddressFromSuffix(Suffix(v, i)) # {}
      tried == {i \in SuffixStarts(v) : \A j \in SuffixStarts(v) : j < i => ~IsGood(j)}
  IN  UNION {AddressFromSuffix(Suffix(v, i)) : i \in tried}

-----------------------------------------------------------------------------
(* All values: seeds grown token by token *)

VARIABLES value, growth

\* Two tokens that would be one, or one string in two ways, do not meet.
MayFollow(v, t) ==
  v # <<>> =>
    /\ ~(v[Len(v)] \in Alnum /\ t \in Alnum)
    /\ ~(v[Len(v)] = "/" /\ t \in Slashes)

Init == value \in Seeds \union DOMAIN Tested /\ growth = 0

Grow ==
  /\ growth < MaxGrowth
  /\ \E t \in Tokens : MayFollow(value, t) /\ value' = Append(value, t)
  /\ growth' = growth + 1

Spec == Init /\ [][Grow]_<<value, growth>>

-----------------------------------------------------------------------------
\* The model agrees with what info_to_resource_test.go expects of the code.
AsTested == value \in DOMAIN Tested => NetworkAddress(value) = Tested[value]

\* <svc>(.<label>)*(:<portNum>)?, a little more than README.md expects.
IsServiceAddress(v) ==
  LET colon == FirstOf(v, {":"}) IN
  /\ IsSubdomain(Before(v, colon))
  /\ v[1] \in Letters
  /\ colon <= Len(v) => Suffix(v, colon + 1) = <<"port">>

\* http://, or that of another protocol.
Protocol == <<"name", ":", "//">>

\* The address in v if v is what README.md expects.
ExpectedAddress(v) ==
  {a \in {v, Suffix(v, 4)} :
     (a # v => Before(v, 4) = Protocol) /\ IsServiceAddress(a)}

\* Every value of the pattern that README.md gives for network addresses
\* yields its address, without the protocol and with the port.
PatternFound == \A a \in ExpectedAddress(value) : NetworkAddress(value) = {a}

\* An address behind a key and a separator is not lost: it is found, unless
\* the key and what stands before it already hold an address.
SuffixFound ==
  \A i \in 3..Len(value) : value[i - 1] \in {":", "=", " "} =>
    \A a \in ExpectedAddress(Suffix(value, i)) :
      \/ NetworkAddress(value) = {a}
      \/ \E j \in 1..(i - 1) : \E b \in AddressFromSuffix(Suffix(value, j)) :
           NetworkAddress(value) = {b}

\* What is found is a piece of the value without protocol, path or key, and
\* found again in itself, so that it does not matter how often, or in how many
\* ConfigMaps, it is passed on. (An address of numbers only comes from a URL.)
CleanAddress ==
  \A a \in NetworkAddress(value) :
    /\ \E i \in DOMAIN value : SubSeq(value, i, i + Len(a) - 1) = a
    /\ FirstOf(a, Tokens \ (Alnum \union {".", "-", ":"})) > Len(a)
    /\ a[1] \in Letters => NetworkAddress(a) = {a}

=============================================================================
