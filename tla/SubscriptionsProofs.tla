------------------------- MODULE SubscriptionsProofs -------------------------
(***************************************************************************)
(* Subscriptions for every set of texts and every MAX_NODES.  Of a link no *)
(* more is assumed than that it is one: what its parser returns is a node  *)
(* or nothing, and a node that comes from a link carries what its          *)
(* serializer requires.                                                    *)
(***************************************************************************)
EXTENDS Subscriptions, WellFoundedInduction, TLAPS

-----------------------------------------------------------------------------
(* Counting, and the sequences that are built by it.                       *)

Below == {ss \in Nat \X Nat : ss[1] < ss[2]}

\* A set of natural numbers with 0 and every successor is all of them.
LEMMA Counting ==
  ASSUME NEW S \in SUBSET Nat, 0 \in S, \A n \in S : n + 1 \in S
  PROVE  S = Nat
<1>1. IsWellFoundedOn(Below, Nat)
  BY NatLessThanWellFounded DEF OpToRel, Below
<1> SUFFICES ASSUME Nat \ S # {} PROVE FALSE
  OBVIOUS
<1>2. PICK x \in Nat \ S : \A y \in Nat \ S : ~ (<<y, x>> \in Below)
  <2>1. Nat \ S \subseteq Nat
    OBVIOUS
  <2> HIDE DEF Below
  <2> QED
    BY <1>1, <2>1, WFMin
<1>3. \A y \in Nat \ S : ~ (y < x)
  BY <1>2 DEF Below
<1>4. x - 1 \in Nat /\ x - 1 < x
  BY <1>2
<1> QED
  BY <1>2, <1>3, <1>4

\* g[k] is the concatenation of the first k sequences.
Joins(g, seqs) ==
  /\ g[0] = <<>>
  /\ \A i \in 1 .. Len(seqs) : g[i] = g[i - 1] \o seqs[i]
  /\ FlattenSeq(seqs) = g[Len(seqs)]

\* FlattenSeq makes a sequence of sequences one sequence, by joining them one
\* after the other.
LEMMA Flattened ==
  ASSUME NEW S, NEW seqs \in Seq(Seq(S))
  PROVE  /\ FlattenSeq(seqs) \in Seq(S)
         /\ \E g \in [0 .. Len(seqs) -> Seq(S)] : Joins(g, seqs)
<1> DEFINE n == Len(seqs)
           Longer(g, i) == IF i = 1 THEN seqs[i] ELSE g[i-1] \o seqs[i]
           Flat(g) == [i \in 1..n |-> Longer(g, i)]
           f == CHOOSE g : g = Flat(g)
<1>1. n \in Nat /\ \A i \in 1..n : seqs[i] \in Seq(S)
  OBVIOUS
<1>0. ASSUME NEW g, NEW k \in Nat, k # 0
      PROVE  Longer(g, k + 1) = g[k] \o seqs[k + 1]
  <2>1. (k + 1) - 1 = k /\ k + 1 # 1
    BY <1>0
  <2>2. Longer(g, k + 1) = g[(k + 1) - 1] \o seqs[k + 1]
    BY <2>1, Zenon
  <2> QED
    BY <2>1, <2>2, Zenon
<1>2. FlattenSeq(seqs) = IF n = 0 THEN seqs ELSE f[n]
  BY DEF FlattenSeq
<1>3. n = 0 => seqs \in Seq(S)
  OBVIOUS
<1>4. \E g : g = Flat(g)
  <2> DEFINE Begun(k, g) == \A i \in 1..k : i <= n => g[i] = Longer(g, i)
             Good == {k \in Nat : \E g \in [1..k -> Seq(S)] : Begun(k, g)}
  <2>1. 0 \in Good
    <3>1. <<>> \in [1..0 -> Seq(S)] /\ Begun(0, <<>>)
      OBVIOUS
    <3> QED
      BY <3>1
  <2>2. ASSUME NEW k \in Good PROVE k + 1 \in Good
    <3>1. PICK g \in [1..k -> Seq(S)] : Begun(k, g)
      BY <2>2
    <3> DEFINE last == IF k + 1 <= n THEN Longer(g, k + 1) ELSE <<>>
               h == [i \in 1..k+1 |-> IF i <= k THEN g[i] ELSE last]
    <3>2. k \in Nat /\ k + 1 \in Nat
      OBVIOUS
    <3>3. last \in Seq(S)
      <4>1. CASE k + 1 <= n /\ k + 1 # 1
        <5>1. g[k] \in Seq(S) /\ seqs[k + 1] \in Seq(S)
          BY <1>1, <3>2, <4>1
        <5>2. last = g[k] \o seqs[k + 1]
          <6>1. last = Longer(g, k + 1)
            BY <4>1, Zenon
          <6>2. k \in Nat /\ k # 0
            BY <3>2, <4>1
          <6> QED
            BY <1>0, <6>1, <6>2, Zenon
        <5> QED
          BY <5>1, <5>2
      <4>2. CASE k + 1 <= n /\ k + 1 = 1
        BY <1>1, <4>2
      <4>3. CASE ~(k + 1 <= n)
        BY <4>3
      <4> QED
        BY <4>1, <4>2, <4>3
    <3>4. h \in [1..k+1 -> Seq(S)]
      <4> HIDE DEF last
      <4> QED
        BY <3>2, <3>3
    <3>5. ASSUME NEW i \in 1..k+1, i <= n PROVE h[i] = Longer(h, i)
      <4>1. CASE i <= k
        <5>1. h[i] = g[i] /\ (i # 1 => h[i - 1] = g[i - 1])
          BY <3>2, <4>1
        <5>2. g[i] = Longer(g, i)
          <6> HIDE DEF Longer, h
          <6>1. i \in 1..k
            BY <3>2, <4>1
          <6> QED
            BY <3>1, <3>5, <6>1
        <5>3. Longer(g, i) = Longer(h, i)
          <6> HIDE DEF h
          <6> QED
            BY <5>1, Zenon
        <5> QED
          BY <5>1, <5>2, <5>3, Zenon
      <4>2. CASE i = k + 1
        <5>1. h[i] = Longer(g, k + 1) /\ (i # 1 => h[i - 1] = g[i - 1])
          BY <3>2, <3>5, <4>2
        <5> QED
          BY <3>2, <4>2, <5>1
      <4> QED
        BY <3>2, <4>1, <4>2
    <3> HIDE DEF h
    <3> QED
      BY <3>2, <3>4, <3>5
  <2>3. Good = Nat
    <3> HIDE DEF Good
    <3>1. Good \subseteq Nat
      BY DEF Good
    <3> QED
      BY <2>1, <2>2, <3>1, Counting
  <2>4. PICK g \in [1..n -> Seq(S)] : Begun(n, g)
    <3>1. n \in Good
      BY <1>1, <2>3
    <3> QED
      BY <3>1
  <2>5. g = Flat(g)
    <3> HIDE DEF Longer, n
    <3>1. \A i \in 1..n : g[i] = Longer(g, i)
      BY <1>1, <2>4
    <3> QED
      BY <2>4, <3>1
  <2> QED
    BY <2>5
<1>5. f = Flat(f)
  <2> HIDE DEF Flat
  <2> QED
    BY <1>4
<1>6. \A i \in 1..n : f[i] = Longer(f, i)
  <2> HIDE DEF f, Longer
  <2> QED
    BY <1>5
<1> HIDE DEF f
<1>7. {k \in Nat : k \in 1..n => f[k] \in Seq(S)} = Nat
  <2> DEFINE Good == {k \in Nat : k \in 1..n => f[k] \in Seq(S)}
  <2>1. 0 \in Good
    OBVIOUS
  <2>2. ASSUME NEW k \in Good PROVE k + 1 \in Good
    <3>1. k \in Nat /\ k + 1 \in Nat
      OBVIOUS
    <3>2. ASSUME k + 1 \in 1..n PROVE f[k + 1] \in Seq(S)
      <4>1. CASE k = 0
        BY <1>1, <1>6, <3>2, <4>1
      <4>2. CASE k # 0
        <5>1. f[k] \in Seq(S) /\ seqs[k + 1] \in Seq(S)
          BY <1>1, <2>2, <3>1, <3>2, <4>2
        <5>2. f[k + 1] = f[k] \o seqs[k + 1]
          <6>1. f[k + 1] = Longer(f, k + 1)
            BY <1>6, <3>2
          <6> QED
            BY <1>0, <3>1, <4>2, <6>1, Zenon
        <5> QED
          BY <5>1, <5>2
      <4> QED
        BY <4>1, <4>2
    <3> QED
      BY <3>1, <3>2
  <2> HIDE DEF Good
  <2>3. Good \subseteq Nat
    BY DEF Good
  <2>4. Good = Nat
    BY <2>1, <2>2, <2>3, Counting
  <2> QED
    BY <2>4 DEF Good
<1>8. n # 0 => f[n] \in Seq(S)
  BY <1>1, <1>7
<1>9. \E g \in [0 .. n -> Seq(S)] : Joins(g, seqs)
  <2> DEFINE g == [i \in 0 .. n |-> IF i = 0 THEN <<>> ELSE f[i]]
  <2>1. \A i \in 1 .. n : f[i] \in Seq(S)
    BY <1>1, <1>7
  <2>2. g \in [0 .. n -> Seq(S)]
    <3>1. <<>> \in Seq(S)
      OBVIOUS
    <3> QED
      BY <1>1, <2>1, <3>1
  <2>3. g[0] = <<>> /\ \A i \in 1 .. n : g[i] = f[i]
    BY <1>1
  <2>4. ASSUME NEW i \in 1 .. n PROVE g[i] = g[i - 1] \o seqs[i]
    <3>1. CASE i = 1
      <4>1. f[i] = seqs[i] /\ seqs[i] \in Seq(S)
        BY <1>1, <1>6, <3>1
      <4>2. g[i] = seqs[i] /\ g[i - 1] = <<>>
        BY <2>3, <3>1, <4>1
      <4>3. <<>> \o seqs[i] = seqs[i]
        BY <4>1
      <4> HIDE DEF g
      <4> QED
        BY <4>2, <4>3
    <3>2. CASE i # 1
      <4> DEFINE k == i - 1
      <4>1. k \in Nat /\ k # 0 /\ k + 1 = i /\ k \in 1 .. n
        BY <1>1, <3>2
      <4>2. f[k + 1] = Longer(f, k + 1)
        BY <1>6, <4>1
      <4>3. f[k + 1] = f[k] \o seqs[k + 1]
        BY <1>0, <4>1, <4>2, Zenon
      <4> QED
        BY <2>3, <4>1, <4>3
    <3> QED
      BY <3>1, <3>2
  <2>5. FlattenSeq(seqs) = g[n]
    <3>1. CASE n = 0
      BY <1>2, <2>3, <3>1
    <3>2. CASE n # 0
      BY <1>1, <1>2, <2>3, <3>2
    <3> QED
      BY <3>1, <3>2
  <2> HIDE DEF g
  <2> QED
    BY <2>2, <2>3, <2>4, <2>5 DEF Joins
<1> QED
  BY <1>2, <1>3, <1>8, <1>9

-----------------------------------------------------------------------------
(* What a parser returns: a node with these credentials, or nothing.       *)

Parses(l, server, id, password, crypto, aid) ==
  LET n == parse_line(l)[1] IN
  /\ parse_line(l) = <<n>>
  /\ n.kind = l.scheme /\ n.name = l.name /\ n.server = server /\ n.port = l.port
  /\ n.uuid = id /\ n.password = password /\ n.crypto = crypto /\ n.alter_id = aid

Raw(opt) == {t.raw : t \in opt}
Ciphers(l) == {Cipher(m) : m \in Value(l, "cipher")}

\* A parser of URIs that got as far as the address ends with it.
LEMMA UriParser ==
  ASSUME NEW l, NEW id, NEW password, NEW tls, NEW transport,
         parse_line(l) = OkUri(l, Node(l, id, password, tls, transport))
  PROVE  /\ l.port = 0 => parse_line(l) = <<>>
         /\ l.port # 0 => Parses(l, Address(l), id, password, {}, {})
<1> DEFINE n == [Node(l, id, password, tls, transport) EXCEPT !.server = Address(l)]
<1>1. parse_line(l) = IF l.port = 0 THEN <<>> ELSE <<n>>
  BY DEF OkUri, Ok
<1>2. /\ n.kind = l.scheme /\ n.name = l.name /\ n.server = Address(l) /\ n.port = l.port
      /\ n.uuid = id /\ n.password = password /\ n.crypto = {} /\ n.alter_id = {}
  BY DEF Node
<1> HIDE DEF n
<1> QED
  BY <1>1, <1>2 DEF Parses

\* ss: the user information is base64, or plain text of a method that is known.
LEMMA SsParser ==
  ASSUME NEW l, l.scheme = "ss"
  PROVE  CASE l.secret = {} \/ Value(l, "cipher") = {} \/ l.port = 0 -> parse_line(l) = <<>>
           [] /\ ~(l.secret = {} \/ Value(l, "cipher") = {} \/ l.port = 0)
              /\ l.form = "base64" ->
                Parses(l, Address(l), {}, Raw(l.secret), Ciphers(l), {})
           [] OTHER ->
                \/ parse_line(l) = <<>>
                \/ Parses(l, Address(l), {}, Decoded(l.secret), Ciphers(l), {})
<1>1. parse_line(l) = parse_ss(l)
  BY DEF parse_line
<1>2. CASE l.secret = {} \/ Value(l, "cipher") = {}
  BY <1>1, <1>2 DEF parse_ss
<1>3. CASE ~(l.secret = {} \/ Value(l, "cipher") = {}) /\ l.form = "base64"
  BY <1>1, <1>3 DEF parse_ss, OkUri, Ok, WithCipher, Node, Parses, Raw, Ciphers
<1>4. CASE /\ ~(l.secret = {} \/ Value(l, "cipher") = {}) /\ l.form # "base64"
           /\ l.form = "plain" /\ Value(l, "cipher") \subseteq KnownMethods /\ Decodes(l.secret)
  BY <1>1, <1>4 DEF parse_ss, OkUri, Ok, WithCipher, Node, Parses, Ciphers
<1>5. CASE /\ ~(l.secret = {} \/ Value(l, "cipher") = {}) /\ l.form # "base64"
           /\ ~(/\ l.form = "plain" /\ Value(l, "cipher") \subseteq KnownMethods
                /\ Decodes(l.secret))
  BY <1>1, <1>5 DEF parse_ss
<1> QED
  BY <1>2, <1>3, <1>4, <1>5

\* ssr: base64 as a whole, of an address without colons.
LEMMA SsrParser ==
  ASSUME NEW l, l.scheme = "ssr"
  PROVE  IF \/ l.form # "base64" \/ l.server \in Colons \cup {"[v6]"} \/ Value(l, "cipher") = {}
            \/ Raw(l.secret) \in {{}, {NotUtf8}} \/ l.port = 0
         THEN parse_line(l) = <<>>
         ELSE Parses(l, l.server, {}, Raw(l.secret), Ciphers(l), {})
<1> DEFINE n == WithCipher(l, Node(l, {}, Raw(l.secret), {}, {}))
<1>1. parse_line(l) =
        IF \/ l.form # "base64" \/ l.server \in Colons \cup {"[v6]"} \/ Value(l, "cipher") = {}
           \/ Raw(l.secret) \in {{}, {NotUtf8}}
        THEN <<>> ELSE IF l.port = 0 THEN <<>> ELSE <<n>>
  BY DEF parse_line, parse_ssr, Ok, Raw
<1>2. /\ n.kind = l.scheme /\ n.name = l.name /\ n.server = l.server /\ n.port = l.port
      /\ n.uuid = {} /\ n.password = Raw(l.secret) /\ n.crypto = Ciphers(l)
      /\ n.alter_id = {}
  BY DEF WithCipher, Node, Ciphers
<1> HIDE DEF n
<1> QED
  BY <1>1, <1>2 DEF Parses

\* vmess: whatever its JSON says.
LEMMA VmessParser ==
  ASSUME NEW l, l.scheme = "vmess"
  PROVE  IF l.form # "base64" \/ l.port = 0 THEN parse_line(l) = <<>>
         ELSE Parses(l, l.server, l.id, {}, {}, Value(l, "aid"))
<1>1. parse_line(l) = parse_vmess(l)
  BY DEF parse_line
<1>2. CASE l.form # "base64" \/ l.port = 0
  BY <1>1, <1>2 DEF parse_vmess, Ok
<1>3. CASE ~(l.form # "base64" \/ l.port = 0)
  <2> DEFINE n(tls, transport) ==
               [Node(l, l.id, {}, tls, transport) EXCEPT !.alter_id = Value(l, "aid")]
  <2>1. \A tls, transport :
          /\ n(tls, transport).kind = l.scheme /\ n(tls, transport).name = l.name
          /\ n(tls, transport).server = l.server /\ n(tls, transport).port = l.port
          /\ n(tls, transport).uuid = l.id /\ n(tls, transport).password = {}
          /\ n(tls, transport).crypto = {} /\ n(tls, transport).alter_id = Value(l, "aid")
    BY DEF Node
  <2>2. ASSUME NEW tls, NEW transport
        PROVE  Ok(l, n(tls, transport)) = <<n(tls, transport)>>
    BY <1>3 DEF Ok
  <2> HIDE DEF n
  <2>3. \E tls, transport : parse_vmess(l) = Ok(l, n(tls, transport))
    BY <1>3, Zenon DEF parse_vmess, n
  <2>4. PICK tls, transport : parse_line(l) = <<n(tls, transport)>>
    BY <1>1, <2>2, <2>3
  <2>5. parse_line(l)[1] = n(tls, transport)
    BY <2>4
  <2> QED
    BY <1>3, <2>1, <2>4, <2>5 DEF Parses
<1> QED
  BY <1>2, <1>3

\* vless: a user that is not empty.
LEMMA VlessParser ==
  ASSUME NEW l, l.scheme = "vless"
  PROVE  IF l.id \subseteq {""} \/ l.port = 0 THEN parse_line(l) = <<>>
         ELSE Parses(l, Address(l), l.id, {}, {}, {})
<1>1. parse_line(l) = parse_vless(l)
  BY DEF parse_line
<1>2. CASE l.id \subseteq {""}
  BY <1>1, <1>2 DEF parse_vless
<1>3. CASE ~(l.id \subseteq {""})
  <2>1. \E tls, transport : parse_line(l) = OkUri(l, Node(l, l.id, {}, tls, transport))
    BY <1>1, <1>3, Zenon DEF parse_vless
  <2> QED
    BY <1>3, <2>1, UriParser
<1> QED
  BY <1>2, <1>3

\* trojan: a password that is not empty, and UTF-8.
LEMMA TrojanParser ==
  ASSUME NEW l, l.scheme = "trojan"
  PROVE  IF ~Decodes(l.secret) \/ Decoded(l.secret) \subseteq {""} \/ l.port = 0
         THEN parse_line(l) = <<>>
         ELSE Parses(l, Address(l), {}, Decoded(l.secret), {}, {})
<1>1. parse_line(l) = parse_trojan(l)
  BY DEF parse_line
<1>2. CASE ~Decodes(l.secret) \/ Decoded(l.secret) \subseteq {""}
  BY <1>1, <1>2 DEF parse_trojan
<1>3. CASE ~(~Decodes(l.secret) \/ Decoded(l.secret) \subseteq {""})
  <2>1. \E tls, transport :
          parse_line(l) = OkUri(l, Node(l, {}, Decoded(l.secret), tls, transport))
    BY <1>1, <1>3, Zenon DEF parse_trojan
  <2> QED
    BY <1>3, <2>1, UriParser
<1> QED
  BY <1>2, <1>3

\* tuic: a password, be it empty.
LEMMA TuicParser ==
  ASSUME NEW l, l.scheme = "tuic"
  PROVE  IF l.secret = {} \/ ~Decodes(l.secret) \/ l.port = 0 THEN parse_line(l) = <<>>
         ELSE Parses(l, Address(l), {OrElse(l.id, "")}, Decoded(l.secret), {}, {})
<1>1. parse_line(l) = parse_tuic(l)
  BY DEF parse_line
<1>2. CASE l.secret = {} \/ ~Decodes(l.secret)
  BY <1>1, <1>2 DEF parse_tuic
<1>3. CASE ~(l.secret = {} \/ ~Decodes(l.secret))
  <2>1. \E tls, transport :
          parse_line(l) =
            OkUri(l, Node(l, {OrElse(l.id, "")}, Decoded(l.secret), tls, transport))
    BY <1>1, <1>3, Zenon DEF parse_tuic
  <2> QED
    BY <1>3, <2>1, UriParser
<1> QED
  BY <1>2, <1>3

\* hysteria requires nothing.
LEMMA HysteriaParser ==
  ASSUME NEW l, l.scheme = "hysteria"
  PROVE  IF l.port = 0 THEN parse_line(l) = <<>>
         ELSE Parses(l, Address(l), {}, Param(l, "auth"), {}, {})
<1>1. parse_line(l) = OkUri(l, Node(l, {}, Param(l, "auth"), OneAlpnTls(l), {}))
  BY DEF parse_line, parse_hysteria
<1> QED
  BY <1>1, UriParser

\* hysteria2: a password that is UTF-8, or none.
LEMMA Hysteria2Parser ==
  ASSUME NEW l, l.scheme = "hysteria2"
  PROVE  IF ~Decodes(l.secret) \/ l.port = 0 THEN parse_line(l) = <<>>
         ELSE Parses(l, Address(l), {}, Decoded(l.secret) \ {""}, {}, {})
<1>1. parse_line(l) = parse_hysteria2(l)
  BY DEF parse_line
<1>2. CASE ~Decodes(l.secret)
  BY <1>1, <1>2 DEF parse_hysteria2
<1>3. CASE Decodes(l.secret)
  <2>1. parse_line(l) = OkUri(l, Node(l, {}, Decoded(l.secret) \ {""}, OneAlpnTls(l), {}))
    BY <1>1, <1>3 DEF parse_hysteria2
  <2> QED
    BY <1>3, <2>1, UriParser
<1> QED
  BY <1>2, <1>3

PublicKey(l) == Or(Param(l, "publicKey"), Decoded(l.secret) \ {""})

\* wireguard: a public key.
LEMMA WireguardParser ==
  ASSUME NEW l, l.scheme = "wireguard"
  PROVE  IF ~Decodes(l.secret) \/ PublicKey(l) = {} \/ l.port = 0 THEN parse_line(l) = <<>>
         ELSE Parses(l, Address(l), Param(l, "privateKey"), PublicKey(l), {}, {})
<1>1. parse_line(l) = parse_wireguard(l)
  BY DEF parse_line
<1>2. CASE ~Decodes(l.secret) \/ PublicKey(l) = {}
  BY <1>1, <1>2 DEF parse_wireguard, PublicKey
<1>3. CASE ~(~Decodes(l.secret) \/ PublicKey(l) = {})
  <2>1. parse_line(l) = OkUri(l, Node(l, Param(l, "privateKey"), PublicKey(l), {}, {}))
    BY <1>1, <1>3 DEF parse_wireguard, PublicKey
  <2> QED
    BY <1>3, <2>1, UriParser
<1> QED
  BY <1>2, <1>3

\* socks5 and http: no user without a password.
LEMMA HttpParsers ==
  ASSUME NEW l, l.scheme \in {"socks5", "http"}
  PROVE  IF \/ l.scheme = "socks5" /\ ~Decodes(BareAll(l.id))
            \/ (l.id # {} /\ l.secret = {}) \/ ~Decodes(l.secret) \/ l.port = 0
         THEN parse_line(l) = <<>>
         ELSE Parses(l, Address(l), {}, AfterUser(l), {}, {})
<1>1. parse_line(l) =
        IF l.scheme = "socks5" /\ ~Decodes(BareAll(l.id)) THEN <<>> ELSE parse_http(l)
  BY DEF parse_line, parse_socks5
<1>2. CASE l.scheme = "socks5" /\ ~Decodes(BareAll(l.id))
  BY <1>1, <1>2
<1>3. CASE /\ ~(l.scheme = "socks5" /\ ~Decodes(BareAll(l.id)))
           /\ (l.id # {} /\ l.secret = {}) \/ ~Decodes(l.secret)
  BY <1>1, <1>3 DEF parse_http
<1>4. CASE /\ ~(l.scheme = "socks5" /\ ~Decodes(BareAll(l.id)))
           /\ ~((l.id # {} /\ l.secret = {}) \/ ~Decodes(l.secret))
  <2>1. parse_line(l) = OkUri(l, Node(l, {}, AfterUser(l), {}, {}))
    BY <1>1, <1>4 DEF parse_http
  <2> QED
    BY <1>4, <2>1, UriParser
<1> QED
  BY <1>2, <1>3, <1>4

-----------------------------------------------------------------------------
(* What the parsers leave for the serializers.                             *)

\* A node of the v2ray format that can be written and read again.
Linked(n) ==
  /\ n.kind \in {"ss", "ssr"} => n.crypto # {} /\ n.password # {}
  /\ n.kind = "ssr" => n.server \notin Colons
  /\ n.kind = "vless" => n.uuid # {} /\ n.uuid # {""}
  /\ n.kind = "trojan" => n.password # {} /\ n.password # {""}

\* Every parser returns one node or none, and what it takes from a link of the
\* v2ray format is enough to write the node again.
LEMMA ParsedLinked ==
  ASSUME NEW l
  PROVE  \/ parse_line(l) = <<>>
         \/ parse_line(l) = <<parse_line(l)[1]>> /\ Linked(parse_line(l)[1])
<1> DEFINE n == parse_line(l)[1]
<1>1. CASE l.scheme = "ss"
  <2>1. CASE l.secret = {} \/ Value(l, "cipher") = {} \/ l.port = 0
    BY <1>1, <2>1, SsParser
  <2>2. CASE ~(l.secret = {} \/ Value(l, "cipher") = {} \/ l.port = 0)
    <3>1. Raw(l.secret) # {} /\ Decoded(l.secret) # {} /\ Ciphers(l) # {}
      BY <2>2 DEF Raw, Decoded, Ciphers
    <3> QED
      BY <1>1, <2>2, <3>1, SsParser DEF Parses, Linked
  <2> QED
    BY <2>1, <2>2
<1>2. CASE l.scheme = "ssr"
  <2>1. Value(l, "cipher") # {} => Ciphers(l) # {}
    BY DEF Ciphers
  <2> QED
    BY <1>2, <2>1, SsrParser DEF Parses, Linked
<1>3. CASE l.scheme = "vless"
  BY <1>3, VlessParser DEF Parses, Linked
<1>4. CASE l.scheme = "trojan"
  BY <1>4, TrojanParser DEF Parses, Linked
<1>5. CASE l.scheme \in {"vmess", "tuic"}
  BY <1>5, VmessParser, TuicParser DEF Parses, Linked
<1>6. CASE l.scheme \in {"hysteria", "hysteria2"}
  BY <1>6, HysteriaParser, Hysteria2Parser DEF Parses, Linked
<1>7. CASE l.scheme = "wireguard"
  BY <1>7, WireguardParser DEF Parses, Linked
<1>8. CASE l.scheme \in {"socks5", "http"}
  <2>1. parse_line(l) = <<>> \/ Parses(l, Address(l), {}, AfterUser(l), {}, {})
    BY <1>8, HttpParsers
  <2> QED
    BY <1>8, <2>1 DEF Parses, Linked
<1>9. CASE l.scheme \notin Kinds
  BY <1>9 DEF parse_line, Kinds
<1> QED
  BY <1>1, <1>2, <1>3, <1>4, <1>5, <1>6, <1>7, <1>8, <1>9 DEF Kinds

\* Such a node is written, and its link is one that can be read.
LEMMA LinkedWritten ==
  ASSUME NEW n, Linked(n), n.kind \in V2rayKinds, format # "clash"
  PROVE  Serialize(n) # <<>> /\ ~Unreadable(n)
<1>1. Serialize(n) # <<>>
  <2>1. CASE n.kind \in {"ss", "ssr"}
    BY <2>1 DEF Linked, Serialize, serialize_ss, serialize_ssr
  <2>2. CASE n.kind \in {"vless", "trojan"}
    BY <2>2 DEF Linked, Serialize, serialize_vless, serialize_trojan
  <2>3. CASE n.kind \in {"vmess", "tuic"}
    BY <2>3 DEF Serialize, serialize_vmess, serialize_tuic
  <2> QED
    BY <2>1, <2>2, <2>3 DEF V2rayKinds
<1>2. ~Unreadable(n)
  BY DEF Linked, V2rayKinds, Unreadable
<1> QED
  BY <1>1, <1>2

-----------------------------------------------------------------------------
(* What is written of a node and read again.                               *)

\* An Option is empty or has one member, which is what unwrap_or takes.
LEMMA Options ==
  ASSUME NEW S, IsOption(S), NEW default
  PROVE  /\ S = {} => OrElse(S, default) = default
         /\ S # {} => S = {OrElse(S, default)}
<1>1. CASE S = {}
  <2>1. OrElse(S, default) = CHOOSE x \in {default} : TRUE
    BY <1>1 DEF OrElse, Or
  <2>2. (CHOOSE x \in {default} : TRUE) \in {default}
    OBVIOUS
  <2> QED
    BY <1>1, <2>1, <2>2
<1>2. CASE S # {}
  <2>1. OrElse(S, default) = CHOOSE x \in S : TRUE
    BY <1>2 DEF OrElse, Or
  <2>2. (CHOOSE x \in S : TRUE) \in S
    BY <1>2
  <2> QED
    BY <1>2, <2>1, <2>2 DEF IsOption
<1> QED
  BY <1>1, <1>2

\* unwrap_or_default of an Option is the text or an empty one, and UTF-8 if the
\* text is.
LEMMA OrEmpty ==
  ASSUME NEW S, IsOption(S), NotUtf8 \notin S
  PROVE  LET p == {OrElse(S, "")} IN
         Same(p, S) /\ NotUtf8 \notin p /\ ("" \notin S => p \ {""} = S)
<1>1. NotUtf8 # ""
  BY DEF NotUtf8
<1>2. CASE S = {}
  <2>1. OrElse(S, "") = ""
    BY <1>2, Options
  <2> QED
    BY <1>1, <1>2, <2>1 DEF Same
<1>3. CASE S # {}
  <2>1. {OrElse(S, "")} = S
    BY <1>3, Options
  <2> QED
    BY <2>1 DEF Same
<1> QED
  BY <1>2, <1>3

\* A text is the same as itself.
LEMMA SameItself == ASSUME NEW S PROVE Same(S, S)
BY Zenon DEF Same

\* What was escaped is read as it was, unless it is no UTF-8; what was written
\* bare in base64 is read as it was.
LEMMA Escaped ==
  ASSUME NEW S
  PROVE  /\ Raw(BareAll(S)) = S /\ Decoded(Encoded(S)) = S
         /\ NotUtf8 \notin S => Decodes(Encoded(S))
<1>1. \A x : Bare(x).raw = x /\ percent_decode(urlencode(x)) = x
  BY DEF Bare, urlencode, percent_decode
<1>2. Raw(BareAll(S)) = S
  BY <1>1 DEF Raw, BareAll
<1>3. Decoded(Encoded(S)) = S
  BY <1>1 DEF Decoded, Encoded
<1>4. NotUtf8 \notin S => Decodes(Encoded(S))
  BY <1>1 DEF Decodes, Encoded
<1> QED
  BY <1>2, <1>3, <1>4

\* A parameter of a URI that was written escaped.
LEMMA EscapedParam ==
  ASSUME NEW l, NEW k, NEW S, l.params[k] = Encoded(S), NotUtf8 \notin S
  PROVE  Param(l, k) = S
<1>1. Decoded(l.params[k]) = S
  BY Escaped
<1> QED
  BY <1>1 DEF Param

\* A method that was read is the one that is written: "plain" stays.
LEMMA CipherOnce == \A m : Cipher(Cipher(m)) = Cipher(m)
BY DEF Cipher

\* The line w of a node n: its link, whose name may have been cut in two.
LineOf(w, n, id, secret, params, form) ==
  /\ w.scheme = n.kind /\ w.server = n.server /\ w.port = n.port
  /\ w.id = id /\ w.secret = secret /\ w.params = params /\ w.form = form
  /\ (n.name # TwoLines \/ n.kind \in NameInPayload) => w.name = n.name
  /\ w.name # TwoLines \/ n.kind \in NameInPayload

\* The first line of a link says all that the link says, and a second one says
\* nothing.
LEMMA FirstLine ==
  ASSUME NEW n, NEW id, NEW secret, NEW params, NEW form, form \notin {"entry", "no text"}
  PROVE  LET lines == Lines(Link(n, id, secret, params, form)) IN
         /\ LineOf(lines[1], n, id, secret, params, form)
         /\ lines = <<lines[1]>> \/ lines = <<lines[1], Junk>>
<1> DEFINE k == Link(n, id, secret, params, form)
           cut == [k EXCEPT !.name = "two"]
<1>1. Lines(k) = IF /\ k.name = TwoLines /\ k.scheme \notin NameInPayload
                    /\ k.form \notin {"entry", "no text"}
                 THEN <<cut, Junk>> ELSE <<k>>
  BY DEF Lines
<1>2. /\ k.scheme = n.kind /\ k.name = n.name /\ k.form = form
      /\ ~(k.name = TwoLines /\ k.scheme \notin NameInPayload)
         => LineOf(k, n, id, secret, params, form)
  BY DEF Link, LineOf
<1>3. k.name = TwoLines /\ k.scheme \notin NameInPayload
      => LineOf(cut, n, id, secret, params, form)
  BY DEF Link, LineOf, TwoLines
<1>6. \A a, b : <<a>>[1] = a /\ <<a, b>>[1] = a
  OBVIOUS
<1> HIDE DEF k, cut
<1>4. CASE k.name = TwoLines /\ k.scheme \notin NameInPayload
  <2>1. Lines(k) = <<cut, Junk>>
    BY <1>1, <1>2, <1>4
  <2>2. Lines(k)[1] = cut /\ LineOf(cut, n, id, secret, params, form)
    BY <1>3, <1>4, <1>6, <2>1, Zenon
  <2> QED
    BY <2>1, <2>2, Zenon DEF k
<1>5. CASE ~(k.name = TwoLines /\ k.scheme \notin NameInPayload)
  <2>1. Lines(k) = <<k>>
    BY <1>1, <1>5
  <2>2. Lines(k)[1] = k /\ LineOf(k, n, id, secret, params, form)
    BY <1>2, <1>5, <1>6, <2>1, Zenon
  <2> QED
    BY <2>1, <2>2, Zenon DEF k
<1> QED
  BY <1>4, <1>5

\* What the link of a node holds of its credentials, in the kinds that v2ray has:
\* what is missing is written as an empty text, or as 0.
Filled(S) == {OrElse(S, "")}
HeldId(n) ==
  IF n.kind \in {"vmess", "tuic"} THEN Filled(n.uuid)
  ELSE IF n.kind = "vless" THEN n.uuid ELSE {}
HeldPassword(n) ==
  IF n.kind = "tuic" THEN Filled(n.password)
  ELSE IF n.kind \in {"ss", "ssr", "trojan"} THEN n.password ELSE {}
HeldCrypto(n) == IF n.kind \in {"ss", "ssr"} THEN n.crypto ELSE {}
HeldAlterId(n) == IF n.kind = "vmess" THEN {OrElse(n.alter_id, "0")} ELSE {}
Holds(n, m) ==
  /\ m.kind = n.kind /\ m.server = n.server /\ m.port = n.port
  /\ m.uuid = HeldId(n) /\ m.password = HeldPassword(n)
  /\ m.crypto = HeldCrypto(n) /\ m.alter_id = HeldAlterId(n)
  /\ m.name # TwoLines \/ m.kind \in NameInPayload

\* A line is read as the node that it was written from, or cannot be read.
ReadAs(w, n) ==
  IF Unreadable(n) THEN parse_line(w) = <<>>
  ELSE /\ parse_line(w) = <<parse_line(w)[1]>> /\ SameProxy(n, parse_line(w)[1])
       /\ n.kind \in V2rayKinds => Holds(n, parse_line(w)[1])

\* The same credentials behind the same address are the same proxy.
LEMMA SameRead ==
  ASSUME NEW n, NEW w, NEW id, NEW secret, NEW params, NEW form,
         NEW uuid, NEW password, NEW crypto, NEW aid,
         LineOf(w, n, id, secret, params, form),
         Parses(w, n.server, uuid, password, crypto, aid),
         ~Unreadable(n), format # "clash",
         n.kind \in {"ss", "ssr"} => crypto = n.crypto,
         n.kind = "vmess" => Same(aid \ {"0"}, n.alter_id \ {"0"}),
         n.kind \in {"vmess", "vless", "tuic", "wireguard"} => Same(uuid, n.uuid),
         n.kind \in WritesPassword \cup {"wireguard"} =>
           \/ Same(password, n.password)
           \/ n.kind \in {"socks5", "http"} /\ (n.server \in Colons \/ n.password = {"p%41"}),
         n.kind \in V2rayKinds =>
           /\ uuid = HeldId(n) /\ password = HeldPassword(n)
           /\ crypto = HeldCrypto(n) /\ aid = HeldAlterId(n)
  PROVE  ReadAs(w, n)
<1> DEFINE m == parse_line(w)[1]
<1>1. /\ parse_line(w) = <<m>> /\ m.kind = w.scheme /\ m.name = w.name
      /\ m.server = n.server /\ m.port = w.port
      /\ m.uuid = uuid /\ m.password = password /\ m.crypto = crypto /\ m.alter_id = aid
  BY DEF Parses
<1> HIDE DEF m
<1>2. SameCredentials(n, m)
  BY <1>1 DEF SameCredentials, Kept, KeptCipher
<1>3. SameProxy(n, m)
  BY <1>1, <1>2 DEF SameProxy, LineOf
<1>4. n.kind \in V2rayKinds => Holds(n, m)
  BY <1>1 DEF Holds, LineOf
<1> QED
  BY <1>1, <1>3, <1>4 DEF ReadAs, m

\* A node as the parsers leave it: one of the protocols, its fields are Options,
\* its method is a name that is kept, and what was decoded is UTF-8.
Undecoded == {"ss", "socks5", "http"}
Whole(n) ==
  /\ n.kind \in Kinds /\ n.port # 0
  /\ n.kind # "vmess" => n.server # "[v6]"
  /\ IsOption(n.uuid) /\ IsOption(n.password) /\ IsOption(n.crypto) /\ IsOption(n.alter_id)
  /\ \A m \in n.crypto : Cipher(m) = m
  /\ n.kind \notin Undecoded => NotUtf8 \notin n.password
  /\ n.kind = "wireguard" => NotUtf8 \notin n.uuid

\* An address that was read is read as it is.
LEMMA AddressOnce ==
  ASSUME NEW w, w.server # "[v6]" PROVE Address(w) = w.server
BY DEF Address

\* ss and ssr: everything is in base64.
LEMMA SsBack ==
  ASSUME NEW n, n.kind \in {"ss", "ssr"}, Whole(n), format # "clash",
         n.crypto # {}, n.password # {}, NEW w,
         LineOf(w, n, {}, BareAll(n.password),
                [NoParams EXCEPT !["cipher"] = BareAll(n.crypto)], "base64")
  PROVE  ReadAs(w, n)
<1> DEFINE params == [NoParams EXCEPT !["cipher"] = BareAll(n.crypto)]
<1>1. /\ w.scheme = n.kind /\ w.server = n.server /\ w.port = n.port /\ w.form = "base64"
      /\ w.secret = BareAll(n.password) /\ w.params["cipher"] = BareAll(n.crypto)
  BY DEF LineOf, NoParams, Keys
<1>2. Raw(w.secret) = n.password /\ Value(w, "cipher") = n.crypto
  BY <1>1, Escaped DEF Raw, Value
<1>3. Ciphers(w) = n.crypto
  BY <1>2 DEF Ciphers, Whole
<1>4. w.secret # {}
  BY <1>2 DEF Raw
<1>5. ASSUME ~(n.kind = "ssr" /\ n.server \in Colons)
      PROVE  Parses(w, n.server, {}, n.password, n.crypto, {})
  <2>1. CASE n.kind = "ss"
    <3>1. Address(w) = n.server /\ w.port # 0
      BY <1>1, <2>1, AddressOnce DEF Whole
    <3> QED
      BY <1>1, <1>2, <1>3, <1>4, <2>1, <3>1, SsParser
  <2>2. CASE n.kind = "ssr"
    BY <1>1, <1>2, <1>3, <1>5, <2>2, SsrParser DEF Whole, Undecoded
  <2> QED
    BY <2>1, <2>2
<1>6. CASE n.kind = "ssr" /\ n.server \in Colons
  <2>1. parse_line(w) = <<>>
    BY <1>1, <1>6, SsrParser
  <2>2. Unreadable(n)
    BY <1>6 DEF Unreadable
  <2> QED
    BY <2>1, <2>2 DEF ReadAs
<1>7. CASE ~(n.kind = "ssr" /\ n.server \in Colons)
  <2>1. ~Unreadable(n)
    BY <1>7 DEF Unreadable
  <2> HIDE DEF params
  <2> QED
    BY <1>5, <1>7, <2>1, SameRead
      DEF params, Same, HeldId, HeldPassword, HeldCrypto, HeldAlterId
<1> QED
  BY <1>6, <1>7

\* vmess: its JSON holds the user and the number that is 0 when it is missing.
LEMMA VmessBack ==
  ASSUME NEW n, n.kind = "vmess", Whole(n), format # "clash", NEW w, NEW params,
         params["aid"] = BareAll({OrElse(n.alter_id, "0")}),
         LineOf(w, n, {OrElse(n.uuid, "")}, {}, params, "base64")
  PROVE  ReadAs(w, n)
<1>1. /\ w.scheme = "vmess" /\ w.server = n.server /\ w.port # 0 /\ w.form = "base64"
      /\ w.id = {OrElse(n.uuid, "")} /\ w.params["aid"] = BareAll({OrElse(n.alter_id, "0")})
  BY DEF LineOf, Whole
<1>2. Value(w, "aid") = {OrElse(n.alter_id, "0")}
  BY <1>1, Escaped DEF Raw, Value
<1>3. Parses(w, n.server, {OrElse(n.uuid, "")}, {}, {}, {OrElse(n.alter_id, "0")})
  BY <1>1, <1>2, VmessParser
<1>4. Same({OrElse(n.uuid, "")}, n.uuid)
  BY Options DEF Same, Whole
<1>5. Same({OrElse(n.alter_id, "0")} \ {"0"}, n.alter_id \ {"0"})
  BY Options DEF Same, Whole
<1>6. ~Unreadable(n)
  BY DEF Unreadable
<1>7. /\ {OrElse(n.uuid, "")} = HeldId(n) /\ {} = HeldPassword(n) /\ {} = HeldCrypto(n)
      /\ {OrElse(n.alter_id, "0")} = HeldAlterId(n)
  BY Zenon DEF Filled, HeldId, HeldPassword, HeldCrypto, HeldAlterId
<1> QED
  BY <1>3, <1>4, <1>5, <1>6, <1>7, SameRead DEF WritesPassword

\* vless: the user, as it is.
LEMMA VlessBack ==
  ASSUME NEW n, n.kind = "vless", Whole(n), format # "clash", n.uuid # {},
         NEW w, NEW params,
         LineOf(w, n, n.uuid, {}, params, "plain")
  PROVE  ReadAs(w, n)
<1>1. /\ w.scheme = "vless" /\ w.server = n.server /\ w.port # 0
      /\ w.id = n.uuid /\ Address(w) = n.server
  BY AddressOnce DEF LineOf, Whole
<1>2. w.id \subseteq {""} <=> Unreadable(n)
  BY <1>1 DEF Unreadable
<1>3. CASE Unreadable(n)
  BY <1>1, <1>2, <1>3, VlessParser DEF ReadAs
<1>4. CASE ~Unreadable(n)
  <2>1. Parses(w, n.server, n.uuid, {}, {}, {})
    BY <1>1, <1>2, <1>4, VlessParser
  <2> QED
    BY <1>4, <2>1, SameRead
      DEF WritesPassword, Same, HeldId, HeldPassword, HeldCrypto, HeldAlterId
<1> QED
  BY <1>3, <1>4

\* trojan: the password, escaped.
LEMMA TrojanBack ==
  ASSUME NEW n, n.kind = "trojan", Whole(n), format # "clash", n.password # {},
         NEW w, NEW params, LineOf(w, n, {}, Encoded(n.password), params, "plain")
  PROVE  ReadAs(w, n)
<1>1. /\ w.scheme = "trojan" /\ w.server = n.server /\ w.port # 0
      /\ w.secret = Encoded(n.password) /\ Address(w) = n.server
  BY AddressOnce DEF LineOf, Whole
<1>2. Decodes(w.secret) /\ Decoded(w.secret) = n.password
  BY <1>1, Escaped DEF Whole, Undecoded
<1>3. Decoded(w.secret) \subseteq {""} <=> Unreadable(n)
  BY <1>2 DEF Unreadable
<1>4. CASE Unreadable(n)
  BY <1>1, <1>3, <1>4, TrojanParser DEF ReadAs
<1>5. CASE ~Unreadable(n)
  <2>1. Parses(w, n.server, {}, n.password, {}, {})
    BY <1>1, <1>2, <1>3, <1>5, TrojanParser
  <2> QED
    BY <1>5, <2>1, SameRead
      DEF WritesPassword, Same, HeldId, HeldPassword, HeldCrypto, HeldAlterId
<1> QED
  BY <1>4, <1>5

\* tuic: a user and a password that may be missing are written as empty ones.
LEMMA TuicBack ==
  ASSUME NEW n, n.kind = "tuic", Whole(n), format # "clash", NEW w, NEW params,
         LineOf(w, n, {OrElse(n.uuid, "")}, {urlencode(OrElse(n.password, ""))}, params, "plain")
  PROVE  ReadAs(w, n)
<1> DEFINE p == {OrElse(n.password, "")}
           u == {OrElse(n.uuid, "")}
<1>1. /\ w.scheme = "tuic" /\ w.server = n.server /\ w.port # 0 /\ w.id = u
      /\ w.secret = Encoded(p) /\ w.secret # {} /\ Address(w) = n.server
  BY AddressOnce DEF LineOf, Whole, Encoded
<1>2. Same(p, n.password) /\ NotUtf8 \notin p
  BY OrEmpty DEF Whole, Undecoded
<1>3. Same(u, n.uuid)
  BY Options DEF Same, Whole
<1>4. OrElse(w.id, "") = OrElse(n.uuid, "")
  <2>1. IsOption(u)
    BY DEF IsOption
  <2> QED
    BY <1>1, <2>1, Options
<1>5. Decodes(w.secret) /\ Decoded(w.secret) = p
  <2> HIDE DEF p
  <2> QED
    BY <1>1, <1>2, Escaped
<1>6. Parses(w, n.server, u, p, {}, {})
  BY <1>1, <1>4, <1>5, TuicParser
<1>7. ~Unreadable(n)
  BY DEF Unreadable
<1>8. u = HeldId(n) /\ p = HeldPassword(n) /\ {} = HeldCrypto(n) /\ {} = HeldAlterId(n)
  BY Zenon DEF Filled, HeldId, HeldPassword, HeldCrypto, HeldAlterId
<1> HIDE DEF p, u
<1> QED
  BY <1>2, <1>3, <1>6, <1>7, <1>8, SameRead DEF WritesPassword, Same, u, p

\* hysteria2: so is its password.
LEMMA Hysteria2Back ==
  ASSUME NEW n, n.kind = "hysteria2", Whole(n), format # "clash", NEW w, NEW params,
         LineOf(w, n, {}, {urlencode(OrElse(n.password, ""))}, params, "plain")
  PROVE  ReadAs(w, n)
<1> DEFINE p == {OrElse(n.password, "")}
<1>1. /\ w.scheme = "hysteria2" /\ w.server = n.server /\ w.port # 0
      /\ w.secret = Encoded(p) /\ Address(w) = n.server
  BY AddressOnce DEF LineOf, Whole, Encoded
<1>2. Same(p, n.password) /\ NotUtf8 \notin p
  BY OrEmpty DEF Whole, Undecoded
<1>3. Decodes(w.secret) /\ Decoded(w.secret) = p
  <2> HIDE DEF p
  <2> QED
    BY <1>1, <1>2, Escaped
<1> HIDE DEF p
<1>4. Parses(w, n.server, {}, p \ {""}, {}, {})
  BY <1>1, <1>2, <1>3, Hysteria2Parser
<1>5. Same(p \ {""}, n.password)
  BY <1>2 DEF Same
<1>6. ~Unreadable(n)
  BY DEF Unreadable
<1> QED
  BY <1>4, <1>5, <1>6, SameRead DEF WritesPassword, V2rayKinds

\* hysteria: the password is a parameter.
LEMMA HysteriaBack ==
  ASSUME NEW n, n.kind = "hysteria", Whole(n), format # "clash", NEW w, NEW params,
         params["auth"] = {urlencode(OrElse(n.password, ""))},
         LineOf(w, n, {}, {}, params, "plain")
  PROVE  ReadAs(w, n)
<1> DEFINE p == {OrElse(n.password, "")}
<1>1. /\ w.scheme = "hysteria" /\ w.server = n.server /\ w.port # 0
      /\ w.params["auth"] = Encoded(p) /\ Address(w) = n.server
  BY AddressOnce DEF LineOf, Whole, Encoded
<1>2. Same(p, n.password) /\ NotUtf8 \notin p
  BY OrEmpty DEF Whole, Undecoded
<1> HIDE DEF p
<1>3. Param(w, "auth") = p
  BY <1>1, <1>2, EscapedParam
<1>4. Parses(w, n.server, {}, p, {}, {})
  BY <1>1, <1>3, HysteriaParser
<1>5. ~Unreadable(n)
  BY DEF Unreadable
<1> QED
  BY <1>2, <1>4, <1>5, SameRead DEF WritesPassword, V2rayKinds

\* wireguard: both keys are parameters.
LEMMA WireguardBack ==
  ASSUME NEW n, n.kind = "wireguard", Whole(n), format # "clash", n.password # {},
         NEW w, NEW params, params["publicKey"] = Encoded(n.password),
         params["privateKey"] = Encoded(n.uuid),
         LineOf(w, n, {}, Encoded(n.password), params, "plain")
  PROVE  ReadAs(w, n)
<1>1. /\ w.scheme = "wireguard" /\ w.server = n.server /\ w.port # 0
      /\ w.secret = Encoded(n.password) /\ Address(w) = n.server
      /\ w.params["publicKey"] = Encoded(n.password) /\ w.params["privateKey"] = Encoded(n.uuid)
  BY AddressOnce DEF LineOf, Whole
<1>2. /\ Decodes(w.secret) /\ Param(w, "publicKey") = n.password
      /\ Param(w, "privateKey") = n.uuid
  BY <1>1, Escaped, EscapedParam DEF Whole, Undecoded
<1>3. PublicKey(w) = n.password
  BY <1>2 DEF PublicKey, Or
<1>4. Parses(w, n.server, n.uuid, n.password, {}, {})
  BY <1>1, <1>2, <1>3, WireguardParser
<1>5. ~Unreadable(n)
  BY DEF Unreadable
<1> QED
  BY <1>4, <1>5, SameRead DEF WritesPassword, Same, V2rayKinds

\* socks5 and http: the server stands for the user, and the password is bare.
LEMMA HttpBack ==
  ASSUME NEW n, n.kind \in {"socks5", "http"}, Whole(n), format # "clash", NEW w,
         LineOf(w, n, UserOf(n), BareAll(n.password), NoParams, "plain")
  PROVE  ReadAs(w, n)
<1>1. /\ w.scheme = n.kind /\ w.server = n.server /\ w.port # 0 /\ Address(w) = n.server
      /\ w.id = IF n.password = {} THEN {} ELSE {n.server}
      /\ w.secret = BareAll(n.password)
  BY AddressOnce DEF LineOf, Whole, UserOf
<1>2. w.id # {} => w.secret # {}
  BY <1>1 DEF BareAll
<1>3. \A x : percent_decode(Bare(x)) = CASE x = "p%41" -> "pA" [] x = "p%FF" -> NotUtf8
                                         [] OTHER -> x
  BY DEF percent_decode, Bare
<1>4. /\ ~Unreadable(n) => Decodes(w.secret)
      /\ Decodes(w.secret) /\ (w.scheme = "socks5" => Decodes(BareAll(w.id)))
           <=> ~Unreadable(n)
  <2>1. \A S, T : Decodes(S \cup T) <=> Decodes(S) /\ Decodes(T)
    BY DEF Decodes
  <2>2. w.id = UserOf(n)
    BY DEF LineOf
  <2> QED
    BY <1>1, <2>1, <2>2 DEF Unreadable
<1>5. CASE Unreadable(n)
  BY <1>1, <1>4, <1>5, HttpParsers DEF ReadAs
<1>6. CASE ~Unreadable(n)
  <2>1. Parses(w, n.server, {}, AfterUser(w), {}, {})
    BY <1>1, <1>2, <1>4, <1>6, HttpParsers
  <2>2. \/ AfterUser(w) = n.password
        \/ n.server \in Colons \/ n.password = {"p%41"}
    <3> SUFFICES ASSUME n.server \notin Colons, n.password # {"p%41"}
                 PROVE  AfterUser(w) = n.password
      OBVIOUS
    <3>1. ~(w.id # {} /\ w.id \subseteq Colons)
      BY <1>1
    <3>2. "p%41" \notin n.password /\ "p%FF" \notin n.password
      <4>1. "p%41" \notin n.password
        BY DEF Whole, IsOption
      <4>2. ASSUME "p%FF" \in n.password PROVE FALSE
        <5>1. Bare("p%FF") \in w.secret
          BY <1>1, <4>2 DEF BareAll
        <5> QED
          BY <1>3, <1>4, <1>6, <5>1 DEF Decodes
      <4> QED
        BY <4>1, <4>2
    <3>3. \A x \in n.password : percent_decode(Bare(x)) = x
      BY <1>3, <3>2
    <3>4. Decoded(w.secret) = n.password
      BY <1>1, <3>3 DEF Decoded, BareAll
    <3> QED
      BY <3>1, <3>4 DEF AfterUser
  <2> QED
    BY <1>6, <2>1, <2>2, SameRead DEF Same, V2rayKinds
<1> QED
  BY <1>5, <1>6

\* What a parser takes the credentials from: Options.
CredentialKeys == {"cipher", "aid", "auth", "publicKey", "privateKey"}
Fields(l) ==
  /\ IsOption(l.id) /\ IsOption(l.secret)
  /\ \A k \in CredentialKeys : IsOption(l.params[k])

\* What is read of an Option is an Option.
LEMMA ReadOptions ==
  ASSUME NEW S, IsOption(S)
  PROVE  /\ IsOption(Raw(S)) /\ IsOption(Decoded(S))
         /\ Decodes(S) => NotUtf8 \notin Decoded(S)
BY DEF IsOption, Raw, Decoded, Decodes

\* So is a parameter of a URI, which is UTF-8.
LEMMA ReadParam ==
  ASSUME NEW l, NEW k, IsOption(l.params[k])
  PROVE  IsOption(Param(l, k)) /\ NotUtf8 \notin Param(l, k)
<1>1. IsOption(Decoded(l.params[k]))
  BY ReadOptions
<1>2. NotUtf8 # ""
  BY DEF NotUtf8
<1> QED
  BY <1>1, <1>2 DEF Param, IsOption

\* Nothing is an Option.
LEMMA NoOption == IsOption({}) /\ \A x : IsOption({x})
BY DEF IsOption

\* A node of such credentials is whole.
LEMMA ParsesWhole ==
  ASSUME NEW l, NEW server, NEW id, NEW password, NEW crypto, NEW aid,
         Parses(l, server, id, password, crypto, aid),
         l.scheme \in Kinds, l.port # 0, l.scheme # "vmess" => server # "[v6]",
         IsOption(id), IsOption(password), IsOption(crypto), IsOption(aid),
         \A m \in crypto : Cipher(m) = m,
         l.scheme \notin Undecoded => NotUtf8 \notin password,
         l.scheme = "wireguard" => NotUtf8 \notin id
  PROVE  Whole(parse_line(l)[1])
BY DEF Parses, Whole

\* Every parser leaves a whole node.
LEMMA ParsedWhole ==
  ASSUME NEW l, Fields(l), parse_line(l) # <<>>
  PROVE  Whole(parse_line(l)[1]) /\ parse_line(l) = <<parse_line(l)[1]>>
<1>1. IsOption(l.id) /\ IsOption(l.secret)
  BY DEF Fields
<1>2. \A k \in CredentialKeys : IsOption(l.params[k])
  BY DEF Fields
<1>3. /\ IsOption(Raw(l.secret)) /\ IsOption(Decoded(l.secret))
      /\ Decodes(l.secret) => NotUtf8 \notin Decoded(l.secret)
  BY <1>1, ReadOptions
<1>4. \A k \in CredentialKeys : IsOption(Param(l, k)) /\ NotUtf8 \notin Param(l, k)
  BY <1>2, ReadParam
<1>5. Address(l) # "[v6]"
  BY DEF Address
<1>6. \A k \in CredentialKeys : IsOption(Value(l, k))
  <2> SUFFICES ASSUME NEW k \in CredentialKeys PROVE IsOption(Value(l, k))
    OBVIOUS
  <2>1. Value(l, k) = Raw(l.params[k])
    BY DEF Value, Raw
  <2> QED
    BY <1>2, <2>1, ReadOptions
<1>7. IsOption(Ciphers(l)) /\ \A m \in Ciphers(l) : Cipher(m) = m
  <2>1. IsOption(Value(l, "cipher"))
    BY <1>6 DEF CredentialKeys
  <2> QED
    BY <2>1, CipherOnce DEF Ciphers, IsOption
<1>8. \A m \in {} : Cipher(m) = m
  OBVIOUS
<1>9. parse_line(l) = <<parse_line(l)[1]>>
  BY ParsedLinked
<1> SUFFICES Whole(parse_line(l)[1])
  BY <1>9
<1>10. CASE l.scheme = "ss"
  <2>1. l.port # 0
    BY <1>10, SsParser
  <2>2. \/ Parses(l, Address(l), {}, Raw(l.secret), Ciphers(l), {})
        \/ Parses(l, Address(l), {}, Decoded(l.secret), Ciphers(l), {})
    BY <1>10, SsParser
  <2>3. l.scheme \in Kinds /\ l.scheme \in Undecoded
    BY <1>10 DEF Kinds, Undecoded
  <2> QED
    BY <1>3, <1>5, <1>7, <1>10, <2>1, <2>2, <2>3, NoOption, ParsesWhole
<1>11. CASE l.scheme = "ssr"
  <2>1. /\ l.port # 0 /\ l.server # "[v6]" /\ Raw(l.secret) # {NotUtf8}
        /\ Parses(l, l.server, {}, Raw(l.secret), Ciphers(l), {})
    BY <1>11, SsrParser
  <2>2. NotUtf8 \notin Raw(l.secret)
    BY <1>3, <2>1 DEF IsOption
  <2>3. l.scheme \in Kinds
    BY <1>11 DEF Kinds
  <2> QED
    BY <1>3, <1>7, <1>11, <2>1, <2>2, <2>3, NoOption, ParsesWhole
<1>12. CASE l.scheme = "vmess"
  <2>1. l.port # 0 /\ Parses(l, l.server, l.id, {}, {}, Value(l, "aid"))
    BY <1>12, VmessParser
  <2>2. l.scheme \in Kinds /\ IsOption(Value(l, "aid"))
    BY <1>6, <1>12 DEF Kinds, CredentialKeys
  <2> QED
    BY <1>1, <1>8, <1>12, <2>1, <2>2, NoOption, ParsesWhole
<1>13. CASE l.scheme = "vless"
  <2>1. l.port # 0 /\ Parses(l, Address(l), l.id, {}, {}, {})
    BY <1>13, VlessParser
  <2>2. l.scheme \in Kinds
    BY <1>13 DEF Kinds
  <2> QED
    BY <1>1, <1>5, <1>8, <1>13, <2>1, <2>2, NoOption, ParsesWhole
<1>14. CASE l.scheme = "trojan"
  <2>1. /\ l.port # 0 /\ Decodes(l.secret)
        /\ Parses(l, Address(l), {}, Decoded(l.secret), {}, {})
    BY <1>14, TrojanParser
  <2>2. l.scheme \in Kinds
    BY <1>14 DEF Kinds
  <2> QED
    BY <1>3, <1>5, <1>8, <1>14, <2>1, <2>2, NoOption, ParsesWhole
<1>15. CASE l.scheme = "tuic"
  <2>1. /\ l.port # 0 /\ Decodes(l.secret)
        /\ Parses(l, Address(l), {OrElse(l.id, "")}, Decoded(l.secret), {}, {})
    BY <1>15, TuicParser
  <2>2. l.scheme \in Kinds
    BY <1>15 DEF Kinds
  <2> DEFINE u == {OrElse(l.id, "")}
  <2> HIDE DEF u
  <2>3. Parses(l, Address(l), u, Decoded(l.secret), {}, {}) /\ IsOption(u)
    BY <2>1, NoOption DEF u
  <2> QED
    BY <1>3, <1>5, <1>8, <1>15, <2>1, <2>2, <2>3, NoOption, ParsesWhole
<1>16. CASE l.scheme = "hysteria"
  <2>1. l.port # 0 /\ Parses(l, Address(l), {}, Param(l, "auth"), {}, {})
    BY <1>16, HysteriaParser
  <2>2. l.scheme \in Kinds /\ IsOption(Param(l, "auth")) /\ NotUtf8 \notin Param(l, "auth")
    BY <1>4, <1>16 DEF Kinds, CredentialKeys
  <2> QED
    BY <1>5, <1>8, <1>16, <2>1, <2>2, NoOption, ParsesWhole
<1>17. CASE l.scheme = "hysteria2"
  <2>1. /\ l.port # 0 /\ Decodes(l.secret)
        /\ Parses(l, Address(l), {}, Decoded(l.secret) \ {""}, {}, {})
    BY <1>17, Hysteria2Parser
  <2>2. IsOption(Decoded(l.secret) \ {""}) /\ NotUtf8 \notin Decoded(l.secret) \ {""}
    BY <1>3, <2>1 DEF IsOption
  <2>3. l.scheme \in Kinds
    BY <1>17 DEF Kinds
  <2> DEFINE p == Decoded(l.secret) \ {""}
  <2> HIDE DEF p
  <2>4. Parses(l, Address(l), {}, p, {}, {}) /\ IsOption(p) /\ NotUtf8 \notin p
    BY <2>1, <2>2 DEF p
  <2> QED
    BY <1>5, <1>8, <1>17, <2>1, <2>3, <2>4, NoOption, ParsesWhole
<1>18. CASE l.scheme = "wireguard"
  <2>1. /\ l.port # 0 /\ Decodes(l.secret)
        /\ Parses(l, Address(l), Param(l, "privateKey"), PublicKey(l), {}, {})
    BY <1>18, WireguardParser
  <2>2. /\ IsOption(Param(l, "privateKey")) /\ NotUtf8 \notin Param(l, "privateKey")
        /\ IsOption(Param(l, "publicKey")) /\ NotUtf8 \notin Param(l, "publicKey")
    BY <1>4 DEF CredentialKeys
  <2>3. IsOption(PublicKey(l)) /\ NotUtf8 \notin PublicKey(l)
    <3>1. PublicKey(l) = Param(l, "publicKey") \/ PublicKey(l) = Decoded(l.secret) \ {""}
      BY DEF PublicKey, Or
    <3>2. IsOption(Decoded(l.secret) \ {""}) /\ NotUtf8 \notin Decoded(l.secret) \ {""}
      BY <1>3, <2>1 DEF IsOption
    <3> QED
      BY <2>2, <3>1, <3>2
  <2>4. l.scheme \in Kinds
    BY <1>18 DEF Kinds
  <2> QED
    BY <1>5, <1>8, <1>18, <2>1, <2>2, <2>3, <2>4, NoOption, ParsesWhole
<1>19. CASE l.scheme \in {"socks5", "http"}
  <2>1. l.port # 0 /\ Parses(l, Address(l), {}, AfterUser(l), {}, {})
    BY <1>19, HttpParsers
  <2>2. IsOption(AfterUser(l))
    BY <1>3 DEF AfterUser, IsOption
  <2>3. l.scheme \in Kinds /\ l.scheme \in Undecoded
    BY <1>19 DEF Kinds, Undecoded
  <2> QED
    BY <1>5, <1>8, <1>19, <2>1, <2>2, <2>3, NoOption, ParsesWhole
<1>20. CASE l.scheme \notin Kinds
  BY <1>20 DEF parse_line, Kinds
<1> QED
  BY <1>10, <1>11, <1>12, <1>13, <1>14, <1>15, <1>16, <1>17, <1>18, <1>19, <1>20 DEF Kinds

\* What is written of an Option is one.
LEMMA WrittenOptions ==
  ASSUME NEW S, IsOption(S) PROVE IsOption(BareAll(S)) /\ IsOption(Encoded(S))
BY DEF IsOption, BareAll, Encoded

\* Every serializer writes what its parser reads, in a link whose fields are
\* Options.
LEMMA WrittenBack ==
  ASSUME NEW n, Whole(n), Serialize(n) # <<>>, format # "clash"
  PROVE  LET k == Serialize(n)[1] IN
         /\ ReadAs(Lines(k)[1], n) /\ Fields(Lines(k)[1])
         /\ Lines(k)[1].form \in {"base64", "plain"}
         /\ Lines(k)[1].params = k.params /\ Lines(k)[1].scheme = n.kind
         /\ Lines(k) = <<Lines(k)[1]>> \/ Lines(k) = <<Lines(k)[1], Junk>>
<1> DEFINE k == Serialize(n)[1]
           w == Lines(k)[1]
           Good(params) == \A c \in CredentialKeys : IsOption(params[c])
<1> SUFFICES /\ ReadAs(w, n) /\ Fields(w) /\ w.form \in {"base64", "plain"}
             /\ w.params = k.params /\ w.scheme = n.kind
             /\ Lines(k) = <<w>> \/ Lines(k) = <<w, Junk>>
  OBVIOUS
<1>0. ASSUME NEW id, NEW secret, NEW params, NEW form \in {"base64", "plain"},
             IsOption(id), IsOption(secret), Good(params),
             k = Link(n, id, secret, params, form)
      PROVE  /\ LineOf(w, n, id, secret, params, form) /\ w.form \in {"base64", "plain"}
             /\ Lines(k) = <<w>> \/ Lines(k) = <<w, Junk>>
             /\ Fields(w) /\ w.params = k.params /\ w.scheme = n.kind
  <2>1. form \notin {"entry", "no text"}
    OBVIOUS
  <2>2. LineOf(w, n, id, secret, params, form)
    BY <1>0, <2>1, FirstLine, Zenon
  <2>3. Lines(k) = <<w>> \/ Lines(k) = <<w, Junk>>
    BY <1>0, <2>1, FirstLine, Zenon
  <2>4. /\ w.form = form /\ w.id = id /\ w.secret = secret /\ w.params = params
        /\ w.scheme = n.kind
    BY <2>2, Zenon DEF LineOf
  <2>5. Fields(w)
    <3> HIDE DEF w
    <3> QED
      BY <1>0, <2>4 DEF Fields
  <2>6. k.params = params
    <3>1. Link(n, id, secret, params, form).params = params
      BY DEF Link
    <3> QED
      BY <1>0, <3>1, Zenon
  <2> QED
    BY <2>2, <2>3, <2>4, <2>5, <2>6
<1>a. IsOption(n.uuid) /\ IsOption(n.password) /\ IsOption(n.crypto)
  BY DEF Whole
<1>b. /\ IsOption(BareAll(n.password)) /\ IsOption(BareAll(n.crypto))
      /\ IsOption(Encoded(n.password)) /\ IsOption(Encoded(n.uuid))
  BY <1>a, WrittenOptions
<1>c. Good(NoParams)
  BY NoOption DEF NoParams, CredentialKeys, Keys
<1>d. ASSUME NEW c \in CredentialKeys, NEW S, IsOption(S)
      PROVE  Good([NoParams EXCEPT ![c] = S])
  BY <1>d, NoOption DEF NoParams, CredentialKeys, Keys
<1>e. Good(UriParams(n))
  BY NoOption DEF UriParams, NoParams, CredentialKeys, Keys
<1>f. Good(OneAlpnParams(n)) /\ DOMAIN OneAlpnParams(n) = Keys
  BY NoOption DEF OneAlpnParams, NoParams, CredentialKeys, Keys
<1>1. CASE n.kind \in {"ss", "ssr"}
  <2> DEFINE params == [NoParams EXCEPT !["cipher"] = BareAll(n.crypto)]
  <2>1. n.crypto # {} /\ n.password # {} /\ k = Link(n, {}, BareAll(n.password), params, "base64")
    BY <1>1 DEF Serialize, serialize_ssr, serialize_ss
  <2>2. ASSUME NEW v, LineOf(v, n, {}, BareAll(n.password), params, "base64") PROVE ReadAs(v, n)
    BY <1>1, <2>1, <2>2, SsBack
  <2>3. Good(params)
    BY <1>b, <1>d DEF CredentialKeys
  <2> HIDE DEF k, w, params, Good
  <2> QED
    BY <1>0, <1>b, <2>1, <2>2, <2>3, NoOption
<1>2. CASE n.kind = "vmess"
  <2>1. \E params : /\ params["aid"] = BareAll({OrElse(n.alter_id, "0")}) /\ Good(params)
                    /\ k = Link(n, {OrElse(n.uuid, "")}, {}, params, "base64")
    <3> DEFINE aid == BareAll({OrElse(n.alter_id, "0")})
               params ==
                 [NoParams EXCEPT
                    !["aid"] = aid,
                    !["type"] = BareAll({IF Net(n) = "httpupgrade" THEN "http" ELSE Net(n)}),
                    !["path"] = BareAll({OrElse(Path(n), "")}), !["host"] = BareAll(Host(n)),
                    !["security"] = BareAll({IF n.tls = {} THEN "none" ELSE "tls"}),
                    !["sni"] = BareAll(Sni(n) \ {""}),
                    !["alpn"] = BareAll(Alpn(n, Comma) \ {""}),
                    !["fp"] = BareAll(Fingerprint(n) \ {""}),
                    !["insecure"] = BareAll({OrElse(Insecure(n), "0")})]
    <3>1. k = Link(n, {OrElse(n.uuid, "")}, {}, params, "base64")
      BY <1>2 DEF Serialize, serialize_vmess
    <3>2. IsOption(aid)
      BY NoOption, WrittenOptions
    <3>3. params["aid"] = aid /\ Good(params)
      <4> HIDE DEF aid
      <4> QED
        BY <3>2, NoOption DEF NoParams, Keys, CredentialKeys
    <3> HIDE DEF params, k, Good
    <3> QED
      BY <3>1, <3>3
  <2>2. PICK params : /\ params["aid"] = BareAll({OrElse(n.alter_id, "0")}) /\ Good(params)
                      /\ k = Link(n, {OrElse(n.uuid, "")}, {}, params, "base64")
    BY <2>1, Zenon
  <2>3. IsOption({OrElse(n.uuid, "")})
    BY NoOption
  <2> HIDE DEF k, w, Good
  <2>4. /\ LineOf(w, n, {OrElse(n.uuid, "")}, {}, params, "base64")
        /\ w.form \in {"base64", "plain"}
        /\ Lines(k) = <<w>> \/ Lines(k) = <<w, Junk>>
        /\ Fields(w) /\ w.params = k.params /\ w.scheme = n.kind
    BY <1>0, <2>2, <2>3, NoOption
  <2> QED
    BY <1>2, <2>2, <2>4, VmessBack
<1>3. CASE n.kind = "vless"
  <2>1. n.uuid # {} /\ k = Link(n, n.uuid, {}, UriParams(n), "plain")
    BY <1>3 DEF Serialize, serialize_vless
  <2> HIDE DEF k, w, Good
  <2> QED
    BY <1>0, <1>3, <1>a, <1>e, <2>1, NoOption, VlessBack
<1>4. CASE n.kind = "trojan"
  <2>1. n.password # {} /\ k = Link(n, {}, Encoded(n.password), UriParams(n), "plain")
    BY <1>4 DEF Serialize, serialize_trojan
  <2> HIDE DEF k, w, Good
  <2> QED
    BY <1>0, <1>4, <1>b, <1>e, <2>1, NoOption, TrojanBack
<1>5. CASE n.kind = "tuic"
  <2> DEFINE params ==
        [NoParams EXCEPT !["sni"] = Encoded(Sni(n)), !["alpn"] = Encoded(Alpn(n, Comma)),
                         !["insecure"] = BareAll(Insecure(n))]
  <2>1. k = Link(n, {OrElse(n.uuid, "")}, {urlencode(OrElse(n.password, ""))}, params, "plain")
    BY <1>5 DEF Serialize, serialize_tuic
  <2>2. Good(params)
    BY NoOption DEF NoParams, CredentialKeys, Keys
  <2>3. IsOption({OrElse(n.uuid, "")}) /\ IsOption({urlencode(OrElse(n.password, ""))})
    BY NoOption
  <2> HIDE DEF k, w, params, Good
  <2> QED
    BY <1>0, <1>5, <2>1, <2>2, <2>3, TuicBack
<1>6. CASE n.kind = "hysteria"
  <2> DEFINE auth == {urlencode(OrElse(n.password, ""))}
             params == [OneAlpnParams(n) EXCEPT !["auth"] = auth]
  <2>1. k = Link(n, {}, {}, params, "plain")
    BY <1>6 DEF Serialize, serialize_hysteria
  <2>2. IsOption(auth)
    BY NoOption
  <2>3. params["auth"] = auth /\ Good(params)
    <3> HIDE DEF auth
    <3> QED
      BY <1>f, <2>2 DEF CredentialKeys, Keys
  <2>4. params["auth"] = {urlencode(OrElse(n.password, ""))}
    BY <2>3
  <2> HIDE DEF k, w, params, Good
  <2> QED
    BY <1>0, <1>6, <2>1, <2>3, <2>4, NoOption, HysteriaBack
<1>7. CASE n.kind = "hysteria2"
  <2>1. k = Link(n, {}, {urlencode(OrElse(n.password, ""))}, OneAlpnParams(n), "plain")
    BY <1>7 DEF Serialize, serialize_hysteria2
  <2>2. IsOption({urlencode(OrElse(n.password, ""))})
    BY NoOption
  <2> HIDE DEF k, w, Good
  <2> QED
    BY <1>0, <1>7, <1>f, <2>1, <2>2, NoOption, Hysteria2Back
<1>8. CASE n.kind = "wireguard"
  <2> DEFINE params == [NoParams EXCEPT !["publicKey"] = Encoded(n.password),
                                        !["privateKey"] = Encoded(n.uuid)]
  <2>1. n.password # {} /\ k = Link(n, {}, Encoded(n.password), params, "plain")
    BY <1>8 DEF Serialize, serialize_wireguard
  <2>2. params["publicKey"] = Encoded(n.password) /\ params["privateKey"] = Encoded(n.uuid)
    BY DEF NoParams, Keys
  <2>3. Good(params)
    BY <1>b, NoOption DEF NoParams, CredentialKeys, Keys
  <2> HIDE DEF k, w, params, Good
  <2> QED
    BY <1>0, <1>8, <1>b, <2>1, <2>2, <2>3, NoOption, WireguardBack
<1>9. CASE n.kind \in {"socks5", "http"}
  <2>1. k = Link(n, UserOf(n), BareAll(n.password), NoParams, "plain")
    BY <1>9 DEF Serialize, serialize_socks5, serialize_http, UserOf
  <2>2. IsOption(UserOf(n))
    BY NoOption DEF UserOf
  <2> HIDE DEF k, w, Good
  <2> QED
    BY <1>0, <1>9, <1>b, <1>c, <2>1, <2>2, HttpBack
<1> QED
  BY <1>1, <1>2, <1>3, <1>4, <1>5, <1>6, <1>7, <1>8, <1>9 DEF Whole, Kinds

-----------------------------------------------------------------------------
(* The same of an entry of a Clash configuration.                          *)

\* The form of the entry that is written of a node.
EntryForm(n) == IF n.name = "12" \/ n.server \in NoText THEN "no text" ELSE "entry"

EntryCipher(e) == {Cipher(m) : m \in Entry(e, "cipher") \ {"auto"}}

\* An entry is a node, if it is one of the protocols and has an address.
LEMMA EntryParser ==
  ASSUME NEW e
  PROVE  LET n == clash_proxy_to_node(e)[1] IN
         IF e.scheme \notin Kinds \/ e.form # "entry" \/ e.port = 0
         THEN clash_proxy_to_node(e) = <<>>
         ELSE /\ clash_proxy_to_node(e) = <<n>>
              /\ n.kind = e.scheme /\ n.name = e.name /\ n.server = e.server /\ n.port = e.port
              /\ n.uuid = AsStr(e.id) /\ n.password = AsStr(e.secret)
              /\ n.crypto = EntryCipher(e) /\ n.alter_id = Value(e, "aid")
<1> DEFINE n(tls, transport) ==
             [Node(e, AsStr(e.id), AsStr(e.secret), tls, transport)
                EXCEPT !.alter_id = Value(e, "aid"), !.crypto = EntryCipher(e)]
<1>1. \A tls, transport :
        LET m == n(tls, transport) IN
        /\ m.kind = e.scheme /\ m.name = e.name /\ m.server = e.server /\ m.port = e.port
        /\ m.uuid = AsStr(e.id) /\ m.password = AsStr(e.secret)
        /\ m.crypto = EntryCipher(e) /\ m.alter_id = Value(e, "aid")
  BY DEF Node
<1>2. CASE e.scheme \notin Kinds \/ e.form # "entry"
  BY <1>2 DEF clash_proxy_to_node
<1>3. CASE ~(e.scheme \notin Kinds \/ e.form # "entry")
  <2>1. \E tls, transport : clash_proxy_to_node(e) = Ok(e, n(tls, transport))
    BY <1>3, Zenon DEF clash_proxy_to_node, EntryCipher
  <2> HIDE DEF n
  <2>2. PICK tls, transport : clash_proxy_to_node(e) = Ok(e, n(tls, transport))
    BY <2>1
  <2>3. CASE e.port = 0
    BY <2>2, <2>3 DEF Ok
  <2>4. CASE e.port # 0
    <3>1. clash_proxy_to_node(e) = <<n(tls, transport)>>
      BY <2>2, <2>4 DEF Ok
    <3> QED
      BY <1>1, <1>3, <2>4, <3>1
  <2> QED
    BY <2>3, <2>4
<1> QED
  BY <1>2, <1>3

\* What an entry has to be for its node to be whole.
EntryFields(e) ==
  /\ Fields(e)
  /\ e.scheme # "vmess" => e.server # "[v6]"
  /\ e.scheme \notin Undecoded => NotUtf8 \notin Raw(e.secret)
  /\ e.scheme = "wireguard" => NotUtf8 \notin Raw(e.id)

\* as_str leaves out what is a number.
LEMMA AsStrOption ==
  ASSUME NEW S PROVE AsStr(S) \subseteq Raw(S) /\ (IsOption(S) => IsOption(AsStr(S)))
BY DEF AsStr, Raw, IsOption

\* An entry leaves a whole node.
LEMMA EntryWhole ==
  ASSUME NEW e, EntryFields(e), clash_proxy_to_node(e) # <<>>
  PROVE  /\ Whole(clash_proxy_to_node(e)[1])
         /\ clash_proxy_to_node(e) = <<clash_proxy_to_node(e)[1]>>
<1> DEFINE n == clash_proxy_to_node(e)[1]
<1>1. ~(e.scheme \notin Kinds \/ e.form # "entry" \/ e.port = 0)
  BY EntryParser
<1>2. /\ clash_proxy_to_node(e) = <<n>>
      /\ n.kind = e.scheme /\ n.name = e.name /\ n.server = e.server /\ n.port = e.port
      /\ n.uuid = AsStr(e.id) /\ n.password = AsStr(e.secret)
      /\ n.crypto = EntryCipher(e) /\ n.alter_id = Value(e, "aid")
  BY <1>1, EntryParser
<1>3. /\ IsOption(AsStr(e.id)) /\ IsOption(AsStr(e.secret))
      /\ AsStr(e.id) \subseteq Raw(e.id) /\ AsStr(e.secret) \subseteq Raw(e.secret)
  BY AsStrOption DEF EntryFields, Fields
<1>4. IsOption(Value(e, "aid"))
  <2>1. Value(e, "aid") = Raw(e.params["aid"])
    BY DEF Value, Raw
  <2> QED
    BY <2>1, ReadOptions DEF EntryFields, Fields, CredentialKeys
<1>5. IsOption(EntryCipher(e)) /\ \A m \in EntryCipher(e) : Cipher(m) = m
  <2>1. IsOption(Entry(e, "cipher"))
    BY AsStrOption DEF Entry, EntryFields, Fields, CredentialKeys
  <2> QED
    BY <2>1, CipherOnce DEF EntryCipher, IsOption
<1> HIDE DEF n
<1>6. Whole(n)
  BY <1>1, <1>2, <1>3, <1>4, <1>5 DEF Whole, EntryFields
<1> QED
  BY <1>2, <1>6 DEF n

\* A text of YAML is read as it is, but for bare digits.
LEMMA YamlText ==
  ASSUME NEW S
  PROVE  /\ AsStr(clash_yaml_str(S)) = S \ {"12"} /\ Raw(clash_yaml_str(S)) = S
         /\ IsOption(S) => IsOption(clash_yaml_str(S))
<1> DEFINE y(s) == [raw |-> s, escaped |-> s = ""]
<1>1. \A s : y(s).raw = s /\ ((y(s).escaped \/ y(s).raw \notin {"12", ""}) <=> s # "12")
  <2>1. "12" # ""
    OBVIOUS
  <2>2. \A s : y(s).raw = s /\ y(s).escaped = (s = "")
    OBVIOUS
  <2> QED
    BY <2>1, <2>2, Zenon
<1> HIDE DEF y
<1>2. clash_yaml_str(S) = {y(s) : s \in S}
  BY DEF clash_yaml_str, y
<1>3. \A u \in clash_yaml_str(S) :
        u.raw \in S /\ ((u.escaped \/ u.raw \notin {"12", ""}) <=> u.raw # "12")
  BY <1>1, <1>2, Zenon
<1>4. AsStr(clash_yaml_str(S)) \subseteq S \ {"12"}
  BY <1>3, Zenon DEF AsStr
<1>5. S \ {"12"} \subseteq AsStr(clash_yaml_str(S))
  <2> SUFFICES ASSUME NEW s \in S, s # "12" PROVE s \in AsStr(clash_yaml_str(S))
    OBVIOUS
  <2>1. y(s) \in clash_yaml_str(S) /\ y(s).raw = s
        /\ (y(s).escaped \/ y(s).raw \notin {"12", ""})
    BY <1>1, <1>2, Zenon
  <2> QED
    BY <2>1, Zenon DEF AsStr
<1>6. Raw(clash_yaml_str(S)) = S
  <2>1. \A s : y(s).raw = s
    BY <1>1, Zenon
  <2> QED
    BY <1>2, <2>1 DEF Raw
<1>7. IsOption(S) => IsOption(clash_yaml_str(S))
  BY <1>2 DEF IsOption
<1> QED
  BY <1>4, <1>5, <1>6, <1>7

\* What an entry says of the connection of its node.
EntrySays(params, n) ==
  /\ params["security"] = BareAll({"tls" : t \in n.tls})
  /\ params["sni"] = clash_yaml_str(Sni(n)) /\ params["fp"] = clash_yaml_str(Fingerprint(n))
  /\ params["alpn"] = BareAll(Alpn(n, Dash)) /\ params["insecure"] = BareAll(Insecure(n))
  /\ params["type"] = BareAll({IF t.net = "httpupgrade" THEN "http" ELSE t.net
                                 : t \in n.transport})
  /\ params["path"] = clash_yaml_str(ServiceName(n))
  /\ params["host"] =
       clash_yaml_str(UNION {t.host : t \in {u \in n.transport : u.net = "ws"}})

\* The kinds whose entry has a user.
WritesId == {"vmess", "vless", "tuic", "hysteria", "hysteria2"}

\* The entry of a node says no more than the node does.
LEMMA EntryWritten ==
  ASSUME NEW n, Whole(n), proxy_to_clash(n) # <<>>
  PROVE  LET w == proxy_to_clash(n)[1] IN
         /\ EntryFields(w) /\ Lines(w) = <<w>> /\ EntrySays(w.params, n)
         /\ w.scheme = n.kind /\ w.server = n.server /\ w.port = n.port /\ w.name = n.name
         /\ w.form = EntryForm(n)
         /\ w.id = IF n.kind \in WritesId THEN clash_yaml_str(n.uuid) ELSE {}
         /\ w.secret = IF n.kind \in WritesPassword THEN clash_yaml_str(n.password) ELSE {}
         /\ w.params["cipher"] = IF n.kind \in {"ss", "ssr"} THEN clash_yaml_str(n.crypto) ELSE {}
         /\ w.params["aid"] =
              IF n.kind = "vmess" THEN BareAll({OrElse(n.alter_id, "0")}) ELSE {}
<1> DEFINE w == proxy_to_clash(n)[1]
           id == IF n.kind \in WritesId THEN clash_yaml_str(n.uuid) ELSE {}
           secret == IF n.kind \in WritesPassword THEN clash_yaml_str(n.password) ELSE {}
           cipher == IF n.kind \in {"ss", "ssr"} THEN clash_yaml_str(n.crypto) ELSE {}
           aid == IF n.kind = "vmess" THEN BareAll({OrElse(n.alter_id, "0")}) ELSE {}
           form == EntryForm(n)
           security == BareAll({"tls" : t \in n.tls})
           type == BareAll({IF t.net = "httpupgrade" THEN "http" ELSE t.net : t \in n.transport})
           path == clash_yaml_str({t.path : t \in n.transport})
           host == clash_yaml_str(UNION {t.host : t \in {u \in n.transport : u.net = "ws"}})
           params ==
             [NoParams EXCEPT
                !["cipher"] = cipher, !["aid"] = aid, !["security"] = security,
                !["sni"] = clash_yaml_str(Sni(n)), !["fp"] = clash_yaml_str(Fingerprint(n)),
                !["alpn"] = BareAll(Alpn(n, Dash)), !["insecure"] = BareAll(Insecure(n)),
                !["type"] = type, !["path"] = path, !["host"] = host]
<1>1. w = Link(n, id, secret, params, form)
  BY DEF proxy_to_clash, WritesId, EntryForm
<1>2. IsOption(id) /\ Raw(id) \subseteq n.uuid
  BY YamlText, NoOption DEF Whole, Raw
<1>3. IsOption(secret) /\ Raw(secret) \subseteq n.password
  BY YamlText, NoOption DEF Whole, Raw
<1>4. IsOption(cipher) /\ IsOption(aid)
  BY YamlText, NoOption, WrittenOptions DEF Whole
<1>5. /\ params["cipher"] = cipher /\ params["aid"] = aid
      /\ \A k \in CredentialKeys : IsOption(params[k])
  <2> HIDE DEF cipher, aid, security, type, path, host
  <2> QED
    BY <1>4, NoOption DEF NoParams, Keys, CredentialKeys
<1>10. EntrySays(params, n)
  <2> HIDE DEF cipher, aid, security, type, path, host
  <2>1. /\ params["security"] = security /\ params["sni"] = clash_yaml_str(Sni(n))
        /\ params["fp"] = clash_yaml_str(Fingerprint(n))
        /\ params["alpn"] = BareAll(Alpn(n, Dash)) /\ params["insecure"] = BareAll(Insecure(n))
        /\ params["type"] = type /\ params["path"] = path /\ params["host"] = host
    BY DEF NoParams, Keys
  <2> HIDE DEF params
  <2> QED
    BY <2>1, Zenon DEF EntrySays, ServiceName, security, type, path, host
<1> HIDE DEF w, id, secret, cipher, aid, form, params
<1>6. /\ w.scheme = n.kind /\ w.server = n.server /\ w.port = n.port /\ w.name = n.name
      /\ w.id = id /\ w.secret = secret /\ w.params = params /\ w.form = form
  BY <1>1 DEF Link
<1>7. EntryFields(w)
  <2>1. Fields(w)
    BY <1>2, <1>3, <1>5, <1>6 DEF Fields
  <2> QED
    BY <1>2, <1>3, <1>6, <2>1 DEF EntryFields, Whole
<1>8. Lines(w) = <<w>>
  <2>1. form \in {"entry", "no text"}
    BY DEF form, EntryForm
  <2> QED
    BY <1>6, <2>1 DEF Lines
<1>9. /\ id = IF n.kind \in WritesId THEN clash_yaml_str(n.uuid) ELSE {}
      /\ secret = IF n.kind \in WritesPassword THEN clash_yaml_str(n.password) ELSE {}
      /\ cipher = IF n.kind \in {"ss", "ssr"} THEN clash_yaml_str(n.crypto) ELSE {}
      /\ aid = IF n.kind = "vmess" THEN BareAll({OrElse(n.alter_id, "0")}) ELSE {}
      /\ form = EntryForm(n)
  BY DEF id, secret, cipher, aid, form
<1> QED
  BY <1>5, <1>6, <1>7, <1>8, <1>9, <1>10 DEF w

\* What an entry holds of a node's credentials: all but digits.
EntryHolds(n, m) ==
  /\ m.kind = n.kind /\ m.name = n.name /\ m.server = n.server /\ m.port = n.port
  /\ m.uuid = IF n.kind \in WritesId THEN n.uuid \ {"12"} ELSE {}
  /\ m.password = IF n.kind \in WritesPassword THEN n.password \ {"12"} ELSE {}
  /\ m.crypto = IF n.kind \in {"ss", "ssr"} THEN n.crypto \ {"12", "auto"} ELSE {}
  /\ m.alter_id = HeldAlterId(n)

\* An entry is read as the node that it was written from, or cannot be read.
LEMMA EntryBack ==
  ASSUME NEW n, Whole(n), format = "clash", proxy_to_clash(n) # <<>>
  PROVE  LET w == proxy_to_clash(n)[1]
             m == clash_proxy_to_node(w)[1] IN
         IF Unreadable(n) THEN clash_proxy_to_node(w) = <<>>
         ELSE clash_proxy_to_node(w) = <<m>> /\ SameProxy(n, m) /\ EntryHolds(n, m)
<1> DEFINE w == proxy_to_clash(n)[1]
           m == clash_proxy_to_node(w)[1]
<1>1. /\ w.scheme = n.kind /\ w.server = n.server /\ w.port = n.port /\ w.name = n.name
      /\ w.form = EntryForm(n)
      /\ w.id = IF n.kind \in WritesId THEN clash_yaml_str(n.uuid) ELSE {}
      /\ w.secret = IF n.kind \in WritesPassword THEN clash_yaml_str(n.password) ELSE {}
      /\ w.params["cipher"] = IF n.kind \in {"ss", "ssr"} THEN clash_yaml_str(n.crypto) ELSE {}
      /\ w.params["aid"] =
           IF n.kind = "vmess" THEN BareAll({OrElse(n.alter_id, "0")}) ELSE {}
  BY EntryWritten
<1>2. Unreadable(n) <=> EntryForm(n) # "entry"
  BY DEF Unreadable, EntryForm
<1> HIDE DEF w
<1>3. CASE EntryForm(n) # "entry"
  BY <1>1, <1>2, <1>3, EntryParser DEF w
<1>4. CASE EntryForm(n) = "entry"
  <2>1. /\ clash_proxy_to_node(w) = <<m>>
        /\ m.kind = w.scheme /\ m.name = w.name /\ m.server = w.server /\ m.port = w.port
        /\ m.uuid = AsStr(w.id) /\ m.password = AsStr(w.secret)
        /\ m.crypto = EntryCipher(w) /\ m.alter_id = Value(w, "aid")
    BY <1>1, <1>4, EntryParser DEF Whole
  <2> HIDE DEF m
  <2>9. AsStr({}) = {} /\ Raw({}) = {}
    BY DEF AsStr, Raw
  <2>2. m.uuid = IF n.kind \in WritesId THEN n.uuid \ {"12"} ELSE {}
    BY <1>1, <2>1, <2>9, YamlText
  <2>3. m.password = IF n.kind \in WritesPassword THEN n.password \ {"12"} ELSE {}
    BY <1>1, <2>1, <2>9, YamlText
  <2>4. m.crypto = IF n.kind \in {"ss", "ssr"} THEN n.crypto \ {"12", "auto"} ELSE {}
    <3>1. Entry(w, "cipher") = IF n.kind \in {"ss", "ssr"} THEN n.crypto \ {"12"} ELSE {}
      BY <1>1, <2>9, YamlText DEF Entry
    <3> QED
      BY <2>1, <3>1 DEF EntryCipher, Whole
  <2>5. m.alter_id = HeldAlterId(n) /\ {OrElse(n.alter_id, "0")} \ {"0"} = n.alter_id \ {"0"}
    <3>1. Value(w, "aid") = IF n.kind = "vmess" THEN {OrElse(n.alter_id, "0")} ELSE {}
      <4>1. Value(w, "aid") = Raw(w.params["aid"])
        BY DEF Value, Raw
      <4> QED
        BY <1>1, <2>9, <4>1, Escaped
    <3>2. {OrElse(n.alter_id, "0")} \ {"0"} = n.alter_id \ {"0"}
      BY Options DEF Whole
    <3> QED
      BY <2>1, <3>1, <3>2 DEF HeldAlterId
  <2>8. EntryHolds(n, m)
    BY <1>1, <2>1, <2>2, <2>3, <2>4, <2>5 DEF EntryHolds
  <2>6. SameCredentials(n, m)
    BY <2>2, <2>3, <2>4, <2>5, SameItself
      DEF SameCredentials, Kept, KeptCipher, HeldAlterId, WritesId
  <2>7. SameProxy(n, m)
    BY <1>1, <2>1, <2>6 DEF SameProxy
  <2> QED
    BY <1>2, <1>4, <2>1, <2>7, <2>8 DEF w, m
<1> QED
  BY <1>3, <1>4

-----------------------------------------------------------------------------
(* How the proxy is reached: TLS and transport.                            *)

\* An Option of a text that is UTF-8.
Text(S) == IsOption(S) /\ NotUtf8 \notin S

\* A list of application protocols, as the parsers leave it.
IsAlpn(a) == a = <<>> \/ a = <<"h2", "h3">> \/ \E s : s # NotUtf8 /\ a = <<s>>

\* What the parsers leave of TLS and of the transport, of which a node has one
\* or none.
SoundTls(S) ==
  IsOption(S) /\ \A t \in S : Text(t.sni) /\ Text(t.fingerprint) /\ IsAlpn(t.alpn)
SoundTransport(S) ==
  /\ IsOption(S)
  /\ \A t \in S :
       /\ t.net \in {"ws", "grpc", "httpupgrade"}
       /\ Text(t.host) /\ t.path # NotUtf8
       /\ t.net = "grpc" => t.host = {} /\ Trims(t.path)
Connected(n) == SoundTls(n.tls) /\ SoundTransport(n.transport)

\* unwrap_or of a text that there is.
LEMMA Only == ASSUME NEW x, NEW default PROVE OrElse({x}, default) = x
<1>1. {x} = {OrElse({x}, default)}
  BY NoOption, Options
<1> QED
  BY <1>1

\* An Option that is something is one thing.
LEMMA One == ASSUME NEW S, IsOption(S), S # {} PROVE \E t : S = {t}
BY DEF IsOption

\* The names of a list.
LEMMA NamesOf ==
  /\ Names(<<>>) = {} /\ Names(<<"h2", "h3">>) = {"h2", "h3"}
  /\ \A s : Names(<<s>>) = IF s \in {Both(Comma), Both(Dash)} THEN {"h2", "h3"} ELSE {s}
<1>1. ToSet(<<>>) = {} /\ ToSet(<<"h2", "h3">>) = {"h2", "h3"} /\ \A s : ToSet(<<s>>) = {s}
  BY DEF ToSet
<1>2. "h2" \notin {Both(Comma), Both(Dash)} /\ "h3" \notin {Both(Comma), Both(Dash)}
  BY DEF Both, Comma, Dash
<1> QED
  BY <1>1, <1>2 DEF Names

\* A text that is split is a list.
LEMMA AlpnRead ==
  ASSUME NEW S, Text(S), NEW sep PROVE IsAlpn(AlpnList(S, sep))
<1>1. CASE S = {}
  BY <1>1 DEF AlpnList, IsAlpn
<1>2. CASE S # {}
  <2> DEFINE s == OrElse(S, "")
  <2>1. s # NotUtf8
    <3>1. S = {s}
      BY <1>2, Options DEF Text
    <3> QED
      BY <3>1 DEF Text
  <2>2. AlpnList(S, sep) = Split(s, sep)
    BY <1>2 DEF AlpnList
  <2> HIDE DEF s
  <2> QED
    BY <2>1, <2>2 DEF Split, IsAlpn
<1> QED
  BY <1>1, <1>2

\* A list that is joined and split has the names that it had.
LEMMA AlpnOnce ==
  ASSUME NEW a, IsAlpn(a), a # <<>>, NEW sep \in {Comma, Dash}
  PROVE  Join(a, sep) # NotUtf8 /\ Names(Split(Join(a, sep), sep)) = Names(a)
<1>1. Both(sep) \in {Both(Comma), Both(Dash)} /\ Both(sep) # NotUtf8
  BY DEF Both, Comma, Dash, NotUtf8
<1>2. CASE a = <<"h2", "h3">>
  BY <1>1, <1>2 DEF Join, Split
<1>3. CASE \E s : s # NotUtf8 /\ a = <<s>>
  <2>1. PICK s : s # NotUtf8 /\ a = <<s>>
    BY <1>3
  <2>2. Join(a, sep) = s
    BY <2>1 DEF Join
  <2>3. CASE s = Both(sep)
    <3>1. Names(a) = {"h2", "h3"}
      BY <1>1, <2>1, <2>3, NamesOf
    <3> QED
      BY <1>1, <2>2, <2>3, <3>1, NamesOf DEF Split
  <2>4. CASE s # Both(sep)
    BY <2>1, <2>2, <2>4 DEF Split
  <2> QED
    BY <2>3, <2>4
<1> QED
  BY <1>2, <1>3 DEF IsAlpn

\* What is said of the TLS that a node has.
Says(n, t) ==
  /\ Sni(n) = t.sni /\ Fingerprint(n) = t.fingerprint
  /\ Insecure(n) = IF t.insecure THEN {"1"} ELSE {}
  /\ FirstAlpn(n) = IF t.alpn = <<>> THEN {} ELSE {t.alpn[1]}
  /\ \A sep : Alpn(n, sep) = IF t.alpn = <<>> THEN {} ELSE {Join(t.alpn, sep)}
LEMMA TlsFields == ASSUME NEW n, NEW t, n.tls = {t} PROVE Says(n, t)
<1>1. Sni(n) = t.sni /\ Fingerprint(n) = t.fingerprint
  BY DEF Sni, Fingerprint
<1>2. Insecure(n) = IF t.insecure THEN {"1"} ELSE {}
  BY DEF Insecure
<1>3. FirstAlpn(n) = IF t.alpn = <<>> THEN {} ELSE {t.alpn[1]}
  BY DEF FirstAlpn
<1>4. \A sep : Alpn(n, sep) = IF t.alpn = <<>> THEN {} ELSE {Join(t.alpn, sep)}
  BY DEF Alpn
<1> QED
  BY <1>1, <1>2, <1>3, <1>4 DEF Says

\* The names of its list.
LEMMA TlsNames ==
  ASSUME NEW n, NEW t, n.tls = {t} PROVE AlpnOf(n) = Names(t.alpn)
BY DEF AlpnOf

\* Of TLS that there is not, nothing is said.
LEMMA NoTlsFields ==
  ASSUME NEW n, n.tls = {}
  PROVE  /\ Sni(n) = {} /\ Fingerprint(n) = {} /\ Insecure(n) = {} /\ FirstAlpn(n) = {}
         /\ \A sep : Alpn(n, sep) = {}
BY DEF Sni, Fingerprint, Insecure, FirstAlpn, Alpn

\* What is written of TLS are Options of texts.
LEMMA TlsTexts ==
  ASSUME NEW n, SoundTls(n.tls)
  PROVE  /\ Text(Sni(n)) /\ Text(Fingerprint(n)) /\ Text(FirstAlpn(n)) /\ Text(Insecure(n))
         /\ \A sep \in {Comma, Dash} : Text(Alpn(n, sep))
<1>1. Text({}) /\ \A x : x # NotUtf8 => Text({x})
  BY NoOption DEF Text
<1>2. CASE n.tls = {}
  BY <1>1, <1>2, NoTlsFields
<1>3. CASE n.tls # {}
  <2>1. PICK t : n.tls = {t}
    BY <1>3 DEF SoundTls, IsOption
  <2>2. Text(t.sni) /\ Text(t.fingerprint) /\ IsAlpn(t.alpn)
    BY <2>1 DEF SoundTls
  <2>3. \A a : IsAlpn(a) /\ a # <<>> => a[1] # NotUtf8
    <3>1. <<"h2", "h3">>[1] # NotUtf8 /\ \A x : <<x>>[1] = x
      BY DEF NotUtf8
    <3> QED
      BY <3>1, Zenon DEF IsAlpn
  <2>4. t.alpn # <<>> => \A sep \in {Comma, Dash} : Join(t.alpn, sep) # NotUtf8
    BY <2>2, AlpnOnce
  <2>5. "1" # NotUtf8
    BY DEF NotUtf8
  <2>6. Says(n, t)
    BY <2>1, TlsFields
  <2>7. Text(Sni(n)) /\ Text(Fingerprint(n)) /\ Text(Insecure(n))
    BY <1>1, <2>2, <2>5, <2>6, Zenon DEF Says
  <2>8. Text(FirstAlpn(n)) /\ \A sep \in {Comma, Dash} : Text(Alpn(n, sep))
    BY <1>1, <2>2, <2>3, <2>4, <2>6, Zenon DEF Says
  <2> QED
    BY <2>7, <2>8
<1> QED
  BY <1>2, <1>3

\* A list that is joined, written but for the texts D, which are no list, and
\* split has the names that it had, but for those texts.
LEMMA AlpnKept ==
  ASSUME NEW n, SoundTls(n.tls), n.tls # {}, NEW sep \in {Comma, Dash},
         NEW D, D \cap {Both(Comma), Both(Dash), "h2", "h3"} = {},
         NEW m, NEW t, m.tls = {t}, t.alpn = AlpnList(Alpn(n, sep) \ D, sep)
  PROVE  Same(AlpnOf(m), AlpnOf(n) \ D)
<1>1. PICK s : n.tls = {s}
  BY DEF SoundTls, IsOption
<1> DEFINE a == s.alpn
<1>2. IsAlpn(a) /\ Alpn(n, sep) = IF a = <<>> THEN {} ELSE {Join(a, sep)}
  BY <1>1, TlsFields DEF SoundTls, Says
<1>4. AlpnOf(n) = Names(a) /\ AlpnOf(m) = Names(t.alpn)
  BY <1>1, TlsNames
<1> HIDE DEF a
<1>3. Names(t.alpn) = Names(a) \ D
  <2>1. CASE a = <<>>
    <3>1. t.alpn = <<>>
      BY <1>2, <2>1 DEF AlpnList
    <3> QED
      BY <2>1, <3>1, NamesOf
  <2>2. CASE a # <<>> /\ Join(a, sep) \notin D
    <3>1. t.alpn = Split(Join(a, sep), sep)
      <4>1. Alpn(n, sep) \ D = {Join(a, sep)}
        BY <1>2, <2>2
      <4>2. OrElse({Join(a, sep)}, "") = Join(a, sep)
        BY Only
      <4>3. {Join(a, sep)} # {}
        OBVIOUS
      <4> QED
        BY <4>1, <4>2, <4>3, Zenon DEF AlpnList
    <3>2. Names(t.alpn) = Names(a)
      BY <1>2, <2>2, <3>1, AlpnOnce
    <3>3. Names(a) \ D = Names(a)
      <4>1. CASE a = <<"h2", "h3">>
        BY <4>1, NamesOf
      <4>2. CASE \E x : a = <<x>>
        <5>1. PICK x : a = <<x>>
          BY <4>2
        <5>2. Join(a, sep) = x
          BY <5>1 DEF Join
        <5>3. Names(a) = {x} \/ Names(a) = {"h2", "h3"}
          BY <5>1, NamesOf
        <5> QED
          BY <2>2, <5>2, <5>3
      <4> QED
        BY <1>2, <2>2, <4>1, <4>2 DEF IsAlpn
    <3> QED
      BY <3>2, <3>3
  <2>3. CASE a # <<>> /\ Join(a, sep) \in D
    <3>1. t.alpn = <<>>
      <4>1. Alpn(n, sep) \ D = {}
        BY <1>2, <2>3
      <4> QED
        BY <4>1 DEF AlpnList
    <3>2. Names(a) \ D = {}
      <4>1. CASE a = <<"h2", "h3">>
        <5>1. Join(a, sep) = Both(sep)
          BY <4>1 DEF Join
        <5> QED
          BY <2>3, <5>1
      <4>2. CASE \E x : a = <<x>>
        <5>1. PICK x : a = <<x>>
          BY <4>2
        <5>2. Join(a, sep) = x
          BY <5>1 DEF Join
        <5>3. Names(a) = {x}
          BY <2>3, <5>1, <5>2, NamesOf
        <5> QED
          BY <2>3, <5>2, <5>3
      <4> QED
        BY <1>2, <2>3, <4>1, <4>2 DEF IsAlpn
    <3> QED
      BY <3>1, <3>2, NamesOf
  <2> QED
    BY <2>1, <2>2, <2>3
<1> QED
  BY <1>3, <1>4, Zenon DEF Same

\* What is said of the transport that a node has.
Rides(n, t) ==
  /\ Net(n) = t.net /\ Hosts(n) = t.host /\ ServiceName(n) = {t.path}
  /\ Path(n) = {IF t.net = "grpc" THEN Slashed(t.path) ELSE t.path}
LEMMA TransportFields == ASSUME NEW n, NEW t, n.transport = {t} PROVE Rides(n, t)
<1>1. {x.net : x \in n.transport} = {t.net}
  OBVIOUS
<1>2. Net(n) = t.net
  BY <1>1, Only DEF Net
<1>3. Hosts(n) = t.host /\ ServiceName(n) = {t.path}
  BY DEF Hosts, ServiceName
<1>4. Path(n) = {IF t.net = "grpc" THEN Slashed(t.path) ELSE t.path}
  BY DEF Path
<1> QED
  BY <1>2, <1>3, <1>4 DEF Rides

\* Without a transport it is TCP.
LEMMA NoTransportFields ==
  ASSUME NEW n, n.transport = {}
  PROVE  Net(n) = "tcp" /\ Hosts(n) = {} /\ ServiceName(n) = {} /\ Path(n) = {}
<1>1. {x.net : x \in n.transport} = {}
  OBVIOUS
<1>2. Net(n) = "tcp"
  BY <1>1, NoOption, Options DEF Net
<1>3. Hosts(n) = {} /\ ServiceName(n) = {} /\ Path(n) = {}
  BY DEF Hosts, ServiceName, Path
<1> QED
  BY <1>2, <1>3

\* What the parsers make of a transport.
LEMMA Transports ==
  ASSUME NEW net, NEW path, NEW host
  PROVE  Transport(net, path, host) =
           IF net = "ws" THEN {[net |-> "ws", path |-> path, host |-> host]}
           ELSE IF net = "grpc" THEN {[net |-> "grpc", path |-> Service(path), host |-> {}]}
           ELSE IF net \in {"httpupgrade", "http"}
           THEN {[net |-> "httpupgrade", path |-> path, host |-> host]} ELSE {}
BY DEF Transport

\* Trimming is done once.
LEMMA TrimsOnce == ASSUME NEW p, Trims(p) PROVE Trims(Service(p))
BY DEF Trims

\* A transport that was read can be written.
LEMMA TransportRead ==
  ASSUME NEW net, NEW path, path # NotUtf8, NEW host, Text(host),
         net = "grpc" => Trims(Service(path))
  PROVE  SoundTransport(Transport(net, path, host))
<1>1. Service(path) # NotUtf8
  BY DEF Service, NotUtf8
<1>2. Text({})
  BY NoOption DEF Text
<1>3. CASE net = "ws"
  <2> DEFINE t == [net |-> "ws", path |-> path, host |-> host]
  <2>1. t.net = "ws" /\ t.path = path /\ t.host = host
    OBVIOUS
  <2> HIDE DEF t
  <2>2. Transport(net, path, host) = {t}
    BY <1>3, Transports DEF t
  <2> QED
    BY <2>1, <2>2, NoOption DEF SoundTransport
<1>4. CASE net = "grpc"
  <2> DEFINE t == [net |-> "grpc", path |-> Service(path), host |-> {}]
  <2>1. t.net = "grpc" /\ t.path = Service(path) /\ t.host = {}
    OBVIOUS
  <2> HIDE DEF t
  <2>2. Transport(net, path, host) = {t}
    BY <1>4, Transports DEF t
  <2> QED
    BY <1>1, <1>2, <1>4, <2>1, <2>2, NoOption DEF SoundTransport
<1>5. CASE net \in {"httpupgrade", "http"}
  <2> DEFINE t == [net |-> "httpupgrade", path |-> path, host |-> host]
  <2>1. t.net = "httpupgrade" /\ t.path = path /\ t.host = host
    OBVIOUS
  <2> HIDE DEF t
  <2>2. Transport(net, path, host) = {t}
    BY <1>5, Transports DEF t
  <2> QED
    BY <2>1, <2>2, NoOption DEF SoundTransport
<1>6. CASE net \notin {"ws", "grpc", "httpupgrade", "http"}
  <2>1. Transport(net, path, host) = {}
    BY <1>6, Transports
  <2> QED
    BY <2>1, NoOption DEF SoundTransport
<1> QED
  BY <1>3, <1>4, <1>5, <1>6

\* An empty host is none.
LEMMA HostOf ==
  ASSUME NEW n
  PROVE  /\ Text(Hosts(n)) => Text(Host(n))
         /\ Hosts(n) = {} => Host(n) = {}
         /\ \A m : Hosts(m) = Host(n) \/ Hosts(m) = Hosts(n) => Host(m) = Host(n)
         /\ \A m : Hosts(m) = Hosts(n) \ {"12"} => Host(m) = Host(n) \ {"12"}
<1> DEFINE none == {""}
<1>1. \A x : Host(x) = Hosts(x) \ none
  BY Zenon DEF Host
<1> HIDE DEF none
<1> QED
  BY <1>1 DEF Text, IsOption

\* A transport that is written into a link is read as it was.
LEMMA TransportKept ==
  ASSUME NEW n, SoundTransport(n.transport), format # "clash", NEW m, NEW net, NEW p,
         net = Net(n) \/ (net = "http" /\ Net(n) = "httpupgrade"),
         Path(n) \subseteq {p}, m.transport = Transport(net, p, Host(n))
  PROVE  SoundTransport(m.transport) /\ SameTransport(n, m) /\ Host(m) = Host(n)
<1>1. \A S : Kept(S) = S
  BY DEF Kept
<1>2. CASE n.transport = {}
  <2>1. Net(n) = "tcp" /\ Host(n) = {} /\ Path(n) = {}
    BY <1>2, NoTransportFields, HostOf
  <2>2. net = "tcp"
    BY <2>1
  <2>3. m.transport = {}
    BY <2>2, Transports
  <2>4. Net(m) = "tcp" /\ Host(m) = {} /\ Path(m) = {}
    BY <2>3, NoTransportFields, HostOf
  <2>5. SoundTransport(m.transport)
    BY <2>3, NoOption DEF SoundTransport
  <2>6. SameTransport(n, m)
    BY <1>1, <2>1, <2>4 DEF SameTransport, Same
  <2> QED
    BY <2>1, <2>4, <2>5, <2>6
<1>3. CASE n.transport # {}
  <2>1. PICK t : n.transport = {t}
    BY <1>3, One, Zenon DEF SoundTransport
  <2>2. /\ t.net \in {"ws", "grpc", "httpupgrade"} /\ Text(t.host) /\ t.path # NotUtf8
        /\ t.net = "grpc" => t.host = {} /\ Trims(t.path)
    BY <2>1 DEF SoundTransport
  <2>3. /\ Net(n) = t.net /\ Hosts(n) = t.host /\ ServiceName(n) = {t.path}
        /\ Path(n) = {IF t.net = "grpc" THEN Slashed(t.path) ELSE t.path}
    BY <2>1, TransportFields DEF Rides
  <2>4. p = IF t.net = "grpc" THEN Slashed(t.path) ELSE t.path
    BY <2>3
  <2>5. Text(Host(n))
    BY <2>2, <2>3, HostOf
  <2>6. /\ p # NotUtf8
        /\ t.net = "grpc" => Trims(Service(p)) /\ Service(p) = Service(t.path)
    <3>1. Trims(t.path) => Slashed(t.path) # NotUtf8 /\ Service(Slashed(t.path)) = Service(t.path)
      BY DEF Trims
    <3> QED
      BY <2>2, <2>4, <3>1, TrimsOnce
  <2>8. SoundTransport(m.transport)
    BY <2>3, <2>5, <2>6, TransportRead
  <2>9. \E u : /\ m.transport = {u} /\ u.net = t.net
               /\ t.net = "grpc" => u.path = Service(t.path) /\ u.host = {}
               /\ t.net # "grpc" => u.path = t.path /\ u.host = Host(n)
    <3>1. CASE t.net = "ws"
      <4> DEFINE u == [net |-> "ws", path |-> t.path, host |-> Host(n)]
      <4>1. m.transport = {u}
        BY <2>3, <2>4, <3>1, Transports
      <4>2. u.net = t.net /\ u.path = t.path /\ u.host = Host(n)
        BY <3>1
      <4> QED
        BY <3>1, <4>1, <4>2, Zenon
    <3>2. CASE t.net = "grpc"
      BY <2>3, <2>6, <3>2, Transports
    <3>3. CASE t.net = "httpupgrade"
      <4> DEFINE u == [net |-> "httpupgrade", path |-> t.path, host |-> Host(n)]
      <4>1. m.transport = {u}
        BY <2>3, <2>4, <3>3, Transports
      <4>2. u.net = t.net /\ u.path = t.path /\ u.host = Host(n)
        BY <3>3
      <4> QED
        BY <3>3, <4>1, <4>2, Zenon
    <3> QED
      BY <2>2, <3>1, <3>2, <3>3
  <2>10. PICK u : /\ m.transport = {u} /\ u.net = t.net
                  /\ t.net = "grpc" => u.path = Service(t.path) /\ u.host = {}
                  /\ t.net # "grpc" => u.path = t.path /\ u.host = Host(n)
    BY <2>9
  <2>11. /\ Net(m) = u.net /\ Hosts(m) = u.host /\ ServiceName(m) = {u.path}
         /\ Path(m) = {IF u.net = "grpc" THEN Slashed(u.path) ELSE u.path}
    BY <2>10, TransportFields DEF Rides
  <2>12. Host(m) = Host(n)
    BY <2>2, <2>3, <2>10, <2>11, HostOf
  <2>13. t.net = "grpc" => Same(ServiceName(m), KeptService(n))
    BY <2>3, <2>10, <2>11, SameItself DEF KeptService
  <2>14. t.net # "grpc" => Same(Path(m), Path(n))
    BY <2>3, <2>10, <2>11, SameItself
  <2>15. SameTransport(n, m)
    <3>1. Net(m) = Net(n) /\ Host(m) = Kept(Host(n))
      BY <1>1, <2>3, <2>10, <2>11, <2>12
    <3>2. IF Net(n) = "grpc" THEN Same(ServiceName(m), KeptService(n))
          ELSE Same(Path(m), Kept(Path(n)))
      BY <1>1, <2>3, <2>13, <2>14
    <3> QED
      BY <3>1, <3>2, Zenon DEF SameTransport
  <2> QED
    BY <2>8, <2>12, <2>15
<1> QED
  BY <1>2, <1>3

\* The host stands for a server name that is missing, or empty: with both
\* choices the same is read again.
LEMMA HostForSni ==
  ASSUME NEW none, NEW S, NEW H, H \cap none = {},
         NEW R, R = Or(S, H) \/ R = Or(S \ none, H)
  PROVE  (IF R \ none = {} THEN H ELSE R) \ none = (IF S \ none = {} THEN H ELSE S) \ none
<1>1. CASE S \ none = {}
  <2>1. R = H \/ R = S
    BY <1>1 DEF Or
  <2> QED
    BY <1>1, <2>1
<1>2. CASE S \ none # {}
  <2>1. R = S \/ R = S \ none
    BY <1>2 DEF Or
  <2> QED
    BY <1>2, <2>1
<1> QED
  BY <1>1, <1>2

\* That is how the server name of m comes from that of n.
HostStands(n, m) ==
  /\ Sni(m) = Or(Sni(n), Host(n)) \/ Sni(m) = Or(Sni(n) \ {""}, Host(n))
  /\ Host(m) = Host(n) /\ m.kind = n.kind
LEMMA SniKept ==
  ASSUME NEW n, NEW m, n.kind \in {"vmess", "vless", "trojan"}, format # "clash",
         HostStands(n, m)
  PROVE  Same(SniOf(m), Kept(SniOf(n)))
<1> DEFINE none == {""}
           Chosen(S) == IF S \ none = {} THEN Host(n) ELSE S
<1>1. SniOf(n) = Chosen(Sni(n)) /\ SniOf(m) = Chosen(Sni(m))
  BY Zenon DEF SniOf, HostStands
<1>2. Host(n) = Hosts(n) \ none
  BY Zenon DEF Host
<1>3. Sni(m) = Or(Sni(n), Host(n)) \/ Sni(m) = Or(Sni(n) \ none, Host(n))
  BY Zenon DEF HostStands
<1> HIDE DEF none
<1>4. Host(n) \cap none = {}
  BY <1>2, Zenon
<1>5. Chosen(Sni(m)) \ none = Chosen(Sni(n)) \ none
  <2> DEFINE R == Sni(m)
             S == Sni(n)
             H == Host(n)
  <2>1. (R = Or(S, H) \/ R = Or(S \ none, H)) /\ H \cap none = {}
    BY <1>3, <1>4
  <2> HIDE DEF R, S, H
  <2>2. (IF R \ none = {} THEN H ELSE R) \ none = (IF S \ none = {} THEN H ELSE S) \ none
    BY <2>1, HostForSni
  <2> QED
    BY <2>2 DEF R, S, H
<1> HIDE DEF Chosen
<1>6. Kept(SniOf(n)) = SniOf(n)
  BY DEF Kept
<1> QED
  BY <1>1, <1>5, <1>6, Zenon DEF Same, none

\* A parameter that was written as it is, and does not look like an encoded one.
LEMMA BareParam ==
  ASSUME NEW l, NEW k, NEW S, l.params[k] = BareAll(S), Text(S),
         "p%41" \notin S, "p%FF" \notin S
  PROVE  Param(l, k) = S
<1>1. \A x : x # "p%41" /\ x # "p%FF" => percent_decode(Bare(x)) = x
  BY DEF percent_decode, Bare
<1>2. Decoded(l.params[k]) = S
  BY <1>1 DEF Decoded, BareAll
<1> QED
  BY <1>2 DEF Param, Text

\* A path that is left out is an empty one.
LEMMA LeftOut ==
  ASSUME NEW S, IsOption(S), NEW e PROVE S \subseteq {OrElse(S \ {e}, e)}
<1>1. IsOption(S \ {e})
  BY DEF IsOption
<1>2. CASE S \ {e} = {}
  BY <1>1, <1>2, Options
<1>3. CASE S \ {e} # {}
  <2>1. S \ {e} = {OrElse(S \ {e}, e)}
    BY <1>1, <1>3, Options
  <2> QED
    BY <2>1 DEF IsOption
<1> QED
  BY <1>2, <1>3

\* What is written of the transport are texts.
LEMMA TransportTexts ==
  ASSUME NEW n, SoundTransport(n.transport)
  PROVE  /\ Net(n) \in {"tcp", "ws", "grpc", "httpupgrade"}
         /\ Text(Host(n)) /\ Text(Path(n)) /\ Text(PathParam(n))
         /\ Path(n) \subseteq {OrElse(PathParam(n), "")}
<1> DEFINE none == {""}
<1>1. Net(n) \in {"tcp", "ws", "grpc", "httpupgrade"} /\ Text(Hosts(n)) /\ Text(Path(n))
  <2>1. CASE n.transport = {}
    BY <2>1, NoTransportFields, NoOption DEF Text
  <2>2. CASE n.transport # {}
    <3>1. PICK t : n.transport = {t}
      BY <2>2, One, Zenon DEF SoundTransport
    <3>2. /\ t.net \in {"ws", "grpc", "httpupgrade"} /\ Text(t.host) /\ t.path # NotUtf8
          /\ t.net = "grpc" => Slashed(t.path) # NotUtf8
      BY <3>1 DEF SoundTransport, Trims
    <3>3. /\ Net(n) = t.net /\ Hosts(n) = t.host
          /\ Path(n) = {IF t.net = "grpc" THEN Slashed(t.path) ELSE t.path}
      BY <3>1, TransportFields DEF Rides
    <3> QED
      BY <3>2, <3>3, NoOption DEF Text
  <2> QED
    BY <2>1, <2>2
<1>2. PathParam(n) = Path(n) \ none
  BY Zenon DEF PathParam
<1>3. Path(n) \subseteq {OrElse(PathParam(n), "")}
  BY <1>1, LeftOut, Zenon DEF PathParam, Text
<1> HIDE DEF none
<1>4. Text(PathParam(n))
  BY <1>1, <1>2 DEF Text, IsOption
<1> QED
  BY <1>1, <1>3, <1>4, HostOf, Zenon

\* What is read where there was a choice are texts.
LEMMA OrText == ASSUME NEW a, Text(a), NEW b, Text(b) PROVE Text(Or(a, b))
BY DEF Or

\* The parameters of vless and trojan, read.
LEMMA UriParamsRead ==
  ASSUME NEW n, Connected(n), NEW w, w.params = UriParams(n)
  PROVE  /\ Param(w, "type") = {Net(n)} \ {"tcp"} /\ Param(w, "host") = Host(n)
         /\ Param(w, "path") = PathParam(n)
         /\ Param(w, "security") = {"tls" : x \in n.tls} /\ Param(w, "insecure") = {}
         /\ Param(w, "sni") = Sni(n) /\ Param(w, "fp") = Fingerprint(n)
         /\ Param(w, "alpn") = Alpn(n, Comma)
<1>1. /\ w.params["type"] = BareAll({Net(n)} \ {"tcp"})
      /\ w.params["security"] = BareAll({"tls" : x \in n.tls})
      /\ w.params["sni"] = Encoded(Sni(n)) /\ w.params["fp"] = Encoded(Fingerprint(n))
      /\ w.params["alpn"] = Encoded(Alpn(n, Comma))
      /\ w.params["host"] = Encoded(Host(n)) /\ w.params["path"] = Encoded(PathParam(n))
  BY DEF UriParams, NoParams, Keys
<1>2. w.params["insecure"] = BareAll({})
  BY DEF UriParams, NoParams, Keys, BareAll
<1>3. /\ Text(Sni(n)) /\ Text(Fingerprint(n)) /\ Text(Alpn(n, Comma))
      /\ Text(Host(n)) /\ Text(PathParam(n)) /\ Net(n) \in {"tcp", "ws", "grpc", "httpupgrade"}
  BY TlsTexts, TransportTexts DEF Connected
<1>4. /\ Param(w, "sni") = Sni(n) /\ Param(w, "fp") = Fingerprint(n)
      /\ Param(w, "alpn") = Alpn(n, Comma)
      /\ Param(w, "host") = Host(n) /\ Param(w, "path") = PathParam(n)
  BY <1>1, <1>3, EscapedParam DEF Text
<1>5. Text({Net(n)} \ {"tcp"}) /\ Text({"tls" : x \in n.tls}) /\ Text({})
  BY <1>3 DEF Text, IsOption, NotUtf8
<1>6. Param(w, "type") = {Net(n)} \ {"tcp"}
  BY <1>1, <1>3, <1>5, BareParam
<1>7. Param(w, "security") = {"tls" : x \in n.tls}
  BY <1>1, <1>5, BareParam
<1>8. Param(w, "insecure") = {}
  BY <1>2, <1>5, BareParam
<1> QED
  BY <1>4, <1>6, <1>7, <1>8

\* What they say of TLS and of the transport.
LEMMA UriSaid ==
  ASSUME NEW n, Connected(n), NEW w, w.params = UriParams(n)
  PROVE  /\ UriTls(w) = Tls(Or(Sni(n), Host(n)), AlpnList(Alpn(n, Comma), Comma), FALSE,
                            Fingerprint(n))
         /\ UriTransport(w) = Transport(Net(n), OrElse(PathParam(n), ""), Host(n))
<1>1. /\ Param(w, "type") = {Net(n)} \ {"tcp"} /\ Param(w, "host") = Host(n)
      /\ Param(w, "path") = PathParam(n) /\ Param(w, "insecure") = {}
      /\ Param(w, "sni") = Sni(n) /\ Param(w, "fp") = Fingerprint(n)
      /\ Param(w, "alpn") = Alpn(n, Comma)
  BY UriParamsRead
<1>2. ({} = {"1"}) = FALSE
  OBVIOUS
<1>3. UriTls(w) = Tls(Or(Sni(n), Host(n)), AlpnList(Alpn(n, Comma), Comma), FALSE,
                      Fingerprint(n))
  BY <1>1, <1>2, Zenon DEF UriTls
<1>4. OrElse(Param(w, "type"), "tcp") = Net(n)
  <2>1. CASE Net(n) = "tcp"
    <3>1. Param(w, "type") = {}
      BY <1>1, <2>1
    <3> QED
      BY <2>1, <3>1, NoOption, Options
  <2>2. CASE Net(n) # "tcp"
    <3>1. Param(w, "type") = {Net(n)}
      BY <1>1, <2>2
    <3> QED
      BY <3>1, Only
  <2> QED
    BY <2>1, <2>2
<1>5. Net(n) # "http"
  <2>1. Net(n) \in {"tcp", "ws", "grpc", "httpupgrade"}
    BY TransportTexts, Zenon DEF Connected
  <2> QED
    BY <2>1
<1> QED
  BY <1>1, <1>3, <1>4, <1>5, Zenon DEF UriTransport

\* What vless and trojan write of TLS and of the transport is what they read.
LEMMA UriKept ==
  ASSUME NEW n, Connected(n), n.kind \in {"vless", "trojan"}, format # "clash",
         NEW w, w.params = UriParams(n), NEW m, m.kind = n.kind,
         m.tls = (IF n.tls # {} \/ n.kind = "trojan" THEN {UriTls(w)} ELSE {}),
         m.transport = UriTransport(w)
  PROVE  SameConnection(n, m) /\ Connected(m)
<1> DEFINE t == UriTls(w)
<1>1. /\ t = Tls(Or(Sni(n), Host(n)), AlpnList(Alpn(n, Comma), Comma), FALSE, Fingerprint(n))
      /\ m.transport = Transport(Net(n), OrElse(PathParam(n), ""), Host(n))
  BY UriSaid, Zenon
<1>2. /\ Text(Sni(n)) /\ Text(Fingerprint(n)) /\ Text(Alpn(n, Comma))
      /\ Text(Host(n)) /\ Net(n) \in {"tcp", "ws", "grpc", "httpupgrade"}
  BY TlsTexts, TransportTexts, Zenon DEF Connected
<1>10. Path(n) \subseteq {OrElse(PathParam(n), "")}
  BY TransportTexts, Zenon DEF Connected
<1>3. t.sni = Or(Sni(n), Host(n)) /\ t.alpn = AlpnList(Alpn(n, Comma), Comma)
      /\ t.insecure = FALSE /\ t.fingerprint = Fingerprint(n)
  <2>1. t = Tls(Or(Sni(n), Host(n)), AlpnList(Alpn(n, Comma), Comma), FALSE, Fingerprint(n))
    BY <1>1, Zenon
  <2> HIDE DEF t
  <2> QED
    BY <2>1 DEF Tls
<1>6. SoundTransport(m.transport) /\ SameTransport(n, m) /\ Host(m) = Host(n)
  BY <1>1, <1>10, TransportKept, Zenon DEF Connected
<1> HIDE DEF t
<1>7. SoundTls(m.tls)
  <2>1. Text(t.sni) /\ IsAlpn(t.alpn)
    BY <1>2, <1>3, OrText, AlpnRead
  <2>2. SoundTls({t}) /\ SoundTls({})
    BY <1>2, <1>3, <2>1, NoOption DEF SoundTls
  <2> QED
    BY <2>2, Zenon DEF t
<1>8. SameTls(n, m)
  <2>1. m.tls # {} <=> n.tls # {} \/ n.kind \in AlwaysTls
    BY DEF AlwaysTls, HasTls
  <2>2. ASSUME n.tls # {}
        PROVE  /\ Same(SniOf(m), Kept(SniOf(n))) /\ Same(AlpnOf(m), Kept(AlpnOf(n)))
               /\ Insecure(m) = {} /\ Same(Fingerprint(m), Kept(Fingerprint(n)))
    <3>1. m.tls = {t}
      BY <2>2 DEF t
    <3>2. Sni(m) = t.sni /\ Fingerprint(m) = t.fingerprint /\ Insecure(m) = {}
      BY <1>3, <3>1, TlsFields DEF Says
    <3>3. Same(SniOf(m), Kept(SniOf(n)))
      <4>1. HostStands(n, m)
        BY <1>3, <1>6, <3>2, Zenon DEF HostStands
      <4>2. n.kind \in {"vmess", "vless", "trojan"}
        OBVIOUS
      <4> QED
        BY <4>1, <4>2, SniKept
    <3>4. Same(AlpnOf(m), AlpnOf(n) \ {})
      BY <1>3, <2>2, <3>1, AlpnKept DEF Connected
    <3>5. \A S : Kept(S) = S /\ S \ {} = S
      BY DEF Kept
    <3> QED
      BY <1>3, <3>2, <3>3, <3>4, <3>5, SameItself, Zenon
  <2>3. n.kind \notin OneAlpn
    BY DEF OneAlpn
  <2> QED
    BY <2>1, <2>2, <2>3, Zenon DEF SameTls
<1>9. SameConnection(n, m)
  BY <1>6, <1>8 DEF SameConnection
<1> QED
  BY <1>6, <1>7, <1>9 DEF Connected

\* What a link says of the connection to its server.
Secured(security) == security \in {{"tls"}, {"reality"}}
VmessTls(l) ==
  Tls(VmessSni(l), AlpnList(Value(l, "alpn") \ {""}, Comma),
      Value(l, "insecure") = {"1"}, Value(l, "fp") \ {""})
VmessTransport(l) ==
  Transport(OrElse(Value(l, "type"), "tcp"), OrElse(Value(l, "path"), ""), Value(l, "host"))
TuicTls(l) ==
  Tls(Param(l, "sni"), AlpnList(Param(l, "alpn"), Comma), Param(l, "insecure") = {"1"}, {})

LinkTls(l) ==
  IF l.scheme = "vmess"
  THEN IF Secured(Value(l, "security")) THEN {VmessTls(l)} ELSE {}
  ELSE IF l.scheme = "vless"
  THEN IF Secured(Param(l, "security")) THEN {UriTls(l)} ELSE {}
  ELSE IF l.scheme = "trojan"
  THEN IF Param(l, "security") = {"none"} THEN {} ELSE {UriTls(l)}
  ELSE IF l.scheme = "tuic" THEN {TuicTls(l)}
  ELSE IF l.scheme \in OneAlpn THEN OneAlpnTls(l) ELSE {}
LinkTransport(l) ==
  IF l.scheme = "vmess" THEN VmessTransport(l)
  ELSE IF l.scheme \in {"vless", "trojan"} THEN UriTransport(l) ELSE {}

\* A node has these fields and no more.
IsNode(n) ==
  n = [kind |-> n.kind, name |-> n.name, server |-> n.server, port |-> n.port,
       crypto |-> n.crypto, password |-> n.password, uuid |-> n.uuid,
       alter_id |-> n.alter_id, tls |-> n.tls, transport |-> n.transport]

\* One whose fields were changed still has them.
LEMMA Changed ==
  ASSUME NEW n, IsNode(n)
  PROVE  /\ \A v : IsNode([n EXCEPT !.server = v]) /\ IsNode([n EXCEPT !.crypto = v])
               /\ IsNode([n EXCEPT !.alter_id = v])
<1> DEFINE F == {"kind", "name", "server", "port", "crypto", "password", "uuid", "alter_id",
                 "tls", "transport"}
<1>1. \A x : IsNode(x) <=> x = [f \in F |-> x[f]]
  <2> SUFFICES ASSUME NEW x PROVE IsNode(x) <=> x = [f \in F |-> x[f]]
    OBVIOUS
  <2>1. [kind |-> x.kind, name |-> x.name, server |-> x.server, port |-> x.port,
         crypto |-> x.crypto, password |-> x.password, uuid |-> x.uuid,
         alter_id |-> x.alter_id, tls |-> x.tls, transport |-> x.transport]
        = [f \in F |-> x[f]]
    OBVIOUS
  <2> QED
    BY <2>1, Zenon DEF IsNode
<1> HIDE DEF F
<1>2. ASSUME NEW f, NEW v PROVE IsNode([n EXCEPT ![f] = v])
  <2>1. n = [g \in F |-> n[g]]
    BY <1>1
  <2> DEFINE x == [n EXCEPT ![f] = v]
  <2>2. x = [g \in F |-> IF g = f THEN v ELSE n[g]]
    BY <2>1
  <2> HIDE DEF x
  <2>3. x = [g \in F |-> x[g]]
    BY <2>2
  <2> QED
    BY <1>1, <2>3 DEF x
<1> QED
  BY <1>2

LEMMA NewNode ==
  ASSUME NEW l, NEW id, NEW password, NEW S, NEW T PROVE IsNode(Node(l, id, password, S, T))
<1> DEFINE n == Node(l, id, password, S, T)
           none == {}
<1> HIDE DEF none
<1>1. n = [kind |-> l.scheme, name |-> l.name, server |-> l.server, port |-> l.port,
           crypto |-> none, password |-> password, uuid |-> id, alter_id |-> none,
           tls |-> S, transport |-> T]
  BY Zenon DEF Node, none
<1> HIDE DEF n
<1>2. /\ n.kind = l.scheme /\ n.name = l.name /\ n.server = l.server /\ n.port = l.port
      /\ n.crypto = none /\ n.password = password /\ n.uuid = id /\ n.alter_id = none
      /\ n.tls = S /\ n.transport = T
  BY <1>1
<1>3. IsNode(n)
  BY <1>1, <1>2, Zenon DEF IsNode
<1> QED
  BY <1>3 DEF n

Reaches(r, S, T) ==
  r = <<>> \/ (r = <<r[1]>> /\ IsNode(r[1]) /\ r[1].tls = S /\ r[1].transport = T)

\* The end of the parsers keeps them.
LEMMA EndReaches ==
  ASSUME NEW l, NEW id, NEW password, NEW S, NEW T, NEW aid
  PROVE  LET n == Node(l, id, password, S, T) IN
         /\ Reaches(OkUri(l, n), S, T) /\ Reaches(OkUri(l, WithCipher(l, n)), S, T)
         /\ Reaches(Ok(l, WithCipher(l, n)), S, T)
         /\ Reaches(Ok(l, [n EXCEPT !.alter_id = aid]), S, T)
         /\ Reaches(<<>>, S, T)
<1> DEFINE n == Node(l, id, password, S, T)
<1>1. \A x : IsNode(x) /\ x.tls = S /\ x.transport = T => Reaches(Ok(l, x), S, T)
  <2> SUFFICES ASSUME NEW x, IsNode(x), x.tls = S, x.transport = T
               PROVE  Reaches(Ok(l, x), S, T)
    OBVIOUS
  <2>1. Ok(l, x) = <<>> \/ Ok(l, x) = <<x>>
    BY DEF Ok
  <2>2. <<x>>[1] = x
    OBVIOUS
  <2> QED
    BY <2>1, <2>2 DEF Reaches
<1>2. /\ n.tls = S /\ n.transport = T
      /\ \A s : [n EXCEPT !.server = s].tls = S /\ [n EXCEPT !.server = s].transport = T
      /\ \A x : [n EXCEPT !.alter_id = x].tls = S /\ [n EXCEPT !.alter_id = x].transport = T
  BY DEF Node
<1>3. /\ WithCipher(l, n).tls = S /\ WithCipher(l, n).transport = T
      /\ \A s : /\ [WithCipher(l, n) EXCEPT !.server = s].tls = S
                /\ [WithCipher(l, n) EXCEPT !.server = s].transport = T
  BY DEF WithCipher, Node
<1>4. Reaches(<<>>, S, T)
  BY DEF Reaches
<1>7. /\ IsNode(n) /\ IsNode(WithCipher(l, n))
      /\ \A s : IsNode([n EXCEPT !.server = s]) /\ IsNode([WithCipher(l, n) EXCEPT !.server = s])
      /\ \A x : IsNode([n EXCEPT !.alter_id = x])
  BY NewNode, Changed DEF WithCipher
<1> HIDE DEF n
<1>5. Reaches(OkUri(l, n), S, T) /\ Reaches(OkUri(l, WithCipher(l, n)), S, T)
  BY <1>1, <1>2, <1>3, <1>7, Zenon DEF OkUri
<1>6. Reaches(Ok(l, WithCipher(l, n)), S, T) /\ Reaches(Ok(l, [n EXCEPT !.alter_id = aid]), S, T)
  BY <1>1, <1>2, <1>3, <1>7, Zenon
<1> QED
  BY <1>4, <1>5, <1>6 DEF n

LEMMA LinkReaches == ASSUME NEW l PROVE Reaches(parse_line(l), LinkTls(l), LinkTransport(l))
<1>1. CASE l.scheme = "vmess"
  <2> DEFINE S == IF Secured(Value(l, "security")) THEN {VmessTls(l)} ELSE {}
  <2>1. parse_line(l) = parse_vmess(l)
    BY <1>1 DEF parse_line
  <2>2. parse_vmess(l) = IF l.form # "base64" THEN <<>>
          ELSE Ok(l, [Node(l, l.id, {}, S, VmessTransport(l)) EXCEPT !.alter_id = Value(l, "aid")])
    BY Zenon DEF parse_vmess, VmessTls, VmessTransport, Secured
  <2>3. LinkTls(l) = S /\ LinkTransport(l) = VmessTransport(l)
    BY <1>1 DEF LinkTls, LinkTransport
  <2> HIDE DEF S
  <2> DEFINE T == VmessTransport(l)
             n == [Node(l, l.id, {}, S, T) EXCEPT !.alter_id = Value(l, "aid")]
  <2>4. Reaches(Ok(l, n), S, T) /\ Reaches(<<>>, S, T)
    BY EndReaches
  <2>5. parse_vmess(l) = <<>> \/ parse_vmess(l) = Ok(l, n)
    BY <2>2
  <2> HIDE DEF n, T
  <2>6. Reaches(parse_line(l), S, T)
    BY <2>1, <2>4, <2>5, Zenon
  <2> QED
    BY <2>3, <2>6 DEF T
<1>2. CASE l.scheme = "vless"
  <2> DEFINE S == IF Secured(Param(l, "security")) THEN {UriTls(l)} ELSE {}
  <2>1. parse_line(l) = parse_vless(l)
    BY <1>2 DEF parse_line
  <2>2. parse_vless(l) = <<>> \/ parse_vless(l) = OkUri(l, Node(l, l.id, {}, S, UriTransport(l)))
    BY Zenon DEF parse_vless, Secured
  <2>3. LinkTls(l) = S /\ LinkTransport(l) = UriTransport(l)
    BY <1>2 DEF LinkTls, LinkTransport
  <2> HIDE DEF S
  <2> QED
    BY <2>1, <2>2, <2>3, EndReaches, Zenon
<1>3. CASE l.scheme = "trojan"
  <2> DEFINE S == IF Param(l, "security") = {"none"} THEN {} ELSE {UriTls(l)}
  <2>1. parse_line(l) = parse_trojan(l)
    BY <1>3 DEF parse_line
  <2>2. \/ parse_trojan(l) = <<>>
        \/ parse_trojan(l) = OkUri(l, Node(l, {}, Decoded(l.secret), S, UriTransport(l)))
    BY Zenon DEF parse_trojan
  <2>3. LinkTls(l) = S /\ LinkTransport(l) = UriTransport(l)
    BY <1>3 DEF LinkTls, LinkTransport
  <2> HIDE DEF S
  <2> QED
    BY <2>1, <2>2, <2>3, EndReaches, Zenon
<1>4. CASE l.scheme = "tuic"
  <2>1. parse_line(l) = parse_tuic(l)
    BY <1>4 DEF parse_line
  <2>2. \/ parse_tuic(l) = <<>>
        \/ \E id : parse_tuic(l) = OkUri(l, Node(l, id, Decoded(l.secret), {TuicTls(l)}, {}))
    BY Zenon DEF parse_tuic, TuicTls
  <2>3. LinkTls(l) = {TuicTls(l)} /\ LinkTransport(l) = {}
    BY <1>4 DEF LinkTls, LinkTransport
  <2> QED
    BY <2>1, <2>2, <2>3, EndReaches, Zenon
<1>5. CASE l.scheme \in OneAlpn
  <2>1. parse_line(l) = parse_hysteria(l) \/ parse_line(l) = parse_hysteria2(l)
    BY <1>5 DEF parse_line, OneAlpn
  <2>2. \/ parse_line(l) = <<>>
        \/ \E pw : parse_line(l) = OkUri(l, Node(l, {}, pw, OneAlpnTls(l), {}))
    BY <2>1, Zenon DEF parse_hysteria, parse_hysteria2
  <2>3. LinkTls(l) = OneAlpnTls(l) /\ LinkTransport(l) = {}
    BY <1>5 DEF LinkTls, LinkTransport, OneAlpn
  <2> QED
    BY <2>2, <2>3, EndReaches, Zenon
<1>6. CASE l.scheme \notin HasTls
  <2>1. \/ parse_line(l) = parse_ss(l) \/ parse_line(l) = parse_ssr(l)
        \/ parse_line(l) = parse_http(l) \/ parse_line(l) = parse_wireguard(l)
        \/ parse_line(l) = <<>>
    BY <1>6 DEF parse_line, parse_socks5, HasTls
  <2>2. LinkTls(l) = {} /\ LinkTransport(l) = {}
    BY <1>6 DEF LinkTls, LinkTransport, OneAlpn, HasTls
  <2>3. ASSUME parse_line(l) = parse_ss(l)
        PROVE  \/ parse_line(l) = <<>>
               \/ \E pw : parse_line(l) = OkUri(l, WithCipher(l, Node(l, {}, pw, {}, {})))
    <3>1. CASE l.secret = {} \/ Value(l, "cipher") = {}
      BY <2>3, <3>1 DEF parse_ss
    <3>2. CASE ~(l.secret = {} \/ Value(l, "cipher") = {}) /\ l.form = "base64"
      BY <2>3, <3>2 DEF parse_ss
    <3>3. CASE /\ ~(l.secret = {} \/ Value(l, "cipher") = {}) /\ l.form # "base64"
               /\ l.form = "plain" /\ Value(l, "cipher") \subseteq KnownMethods
               /\ Decodes(l.secret)
      BY <2>3, <3>3 DEF parse_ss
    <3>4. CASE /\ ~(l.secret = {} \/ Value(l, "cipher") = {}) /\ l.form # "base64"
               /\ ~(/\ l.form = "plain" /\ Value(l, "cipher") \subseteq KnownMethods
                    /\ Decodes(l.secret))
      BY <2>3, <3>4 DEF parse_ss
    <3> QED
      BY <3>1, <3>2, <3>3, <3>4
  <2>4. ASSUME parse_line(l) = parse_ssr(l)
        PROVE  \/ parse_line(l) = <<>>
               \/ \E pw : parse_line(l) = Ok(l, WithCipher(l, Node(l, {}, pw, {}, {})))
    BY <2>4, Zenon DEF parse_ssr
  <2>5. ASSUME parse_line(l) = parse_http(l) \/ parse_line(l) = parse_wireguard(l)
        PROVE  \/ parse_line(l) = <<>>
               \/ \E id, pw : parse_line(l) = OkUri(l, Node(l, id, pw, {}, {}))
    BY <2>5, Zenon DEF parse_http, parse_wireguard
  <2>6. Reaches(<<>>, {}, {})
    BY DEF Reaches
  <2>7. parse_line(l) = parse_ss(l) => Reaches(parse_line(l), {}, {})
    BY <2>3, <2>6, EndReaches, Zenon
  <2>8. parse_line(l) = parse_ssr(l) => Reaches(parse_line(l), {}, {})
    BY <2>4, <2>6, EndReaches, Zenon
  <2>9. parse_line(l) = parse_http(l) \/ parse_line(l) = parse_wireguard(l) =>
          Reaches(parse_line(l), {}, {})
    BY <2>5, <2>6, EndReaches, Zenon
  <2> QED
    BY <2>1, <2>2, <2>6, <2>7, <2>8, <2>9, Zenon
<1> QED
  BY <1>1, <1>2, <1>3, <1>4, <1>5, <1>6 DEF HasTls, OneAlpn

\* A value that was written into the JSON of vmess.
LEMMA BareValue ==
  ASSUME NEW l, NEW k, NEW S, l.params[k] = BareAll(S) PROVE Value(l, k) = S
<1>1. Value(l, k) = Raw(BareAll(S))
  BY DEF Value, Raw
<1> QED
  BY <1>1, Escaped

\* The JSON of vmess, read.
LEMMA VmessParamsRead ==
  ASSUME NEW n, NEW w, w.params = serialize_vmess(n)[1].params
  PROVE  /\ Value(w, "type") = {IF Net(n) = "httpupgrade" THEN "http" ELSE Net(n)}
         /\ Value(w, "path") = {OrElse(Path(n), "")} /\ Value(w, "host") = Host(n)
         /\ Value(w, "security") = {IF n.tls = {} THEN "none" ELSE "tls"}
         /\ Value(w, "sni") = Sni(n) \ {""} /\ Value(w, "alpn") = Alpn(n, Comma) \ {""}
         /\ Value(w, "fp") = Fingerprint(n) \ {""}
         /\ Value(w, "insecure") = {OrElse(Insecure(n), "0")}
<1> DEFINE aid == BareAll({OrElse(n.alter_id, "0")})
           type == {IF Net(n) = "httpupgrade" THEN "http" ELSE Net(n)}
           path == {OrElse(Path(n), "")}
           security == {IF n.tls = {} THEN "none" ELSE "tls"}
           sni == Sni(n) \ {""}
           alpn == Alpn(n, Comma) \ {""}
           fp == Fingerprint(n) \ {""}
           insecure == {OrElse(Insecure(n), "0")}
           id == {OrElse(n.uuid, "")}
           params ==
             [NoParams EXCEPT
                !["aid"] = aid, !["type"] = BareAll(type),
                !["path"] = BareAll(path), !["host"] = BareAll(Host(n)),
                !["security"] = BareAll(security), !["sni"] = BareAll(sni),
                !["alpn"] = BareAll(alpn), !["fp"] = BareAll(fp),
                !["insecure"] = BareAll(insecure)]
<1>1. serialize_vmess(n) = <<Link(n, id, {}, params, "base64")>>
  BY Zenon DEF serialize_vmess
<1> HIDE DEF aid, type, path, security, sni, alpn, fp, insecure, id
<1>2. w.params = params
  <2> HIDE DEF params
  <2>1. serialize_vmess(n)[1] = Link(n, id, {}, params, "base64")
    BY <1>1
  <2>2. Link(n, id, {}, params, "base64").params = params
    BY DEF Link
  <2> QED
    BY <2>1, <2>2
<1>3. /\ w.params["type"] = BareAll(type) /\ w.params["path"] = BareAll(path)
      /\ w.params["host"] = BareAll(Host(n)) /\ w.params["security"] = BareAll(security)
      /\ w.params["sni"] = BareAll(sni) /\ w.params["alpn"] = BareAll(alpn)
      /\ w.params["fp"] = BareAll(fp) /\ w.params["insecure"] = BareAll(insecure)
  BY <1>2 DEF NoParams, Keys
<1> HIDE DEF params
<1>4. /\ Value(w, "type") = type /\ Value(w, "path") = path /\ Value(w, "host") = Host(n)
      /\ Value(w, "security") = security /\ Value(w, "sni") = sni
      /\ Value(w, "alpn") = alpn /\ Value(w, "fp") = fp /\ Value(w, "insecure") = insecure
  BY <1>3, BareValue
<1> QED
  BY <1>4, Zenon DEF type, path, security, sni, alpn, fp, insecure

\* Texts but for some are texts.
LEMMA TextLess == ASSUME NEW S, Text(S), NEW D PROVE Text(S \ D) /\ (S \ D) \ D = S \ D
BY DEF Text, IsOption

\* TLS of texts and a list is sound, and so is none.
LEMMA TlsSound ==
  ASSUME NEW t, Text(t.sni), Text(t.fingerprint), IsAlpn(t.alpn)
  PROVE  SoundTls({t}) /\ SoundTls({})
BY NoOption DEF SoundTls

\* What it says of TLS and of the transport.
LEMMA VmessSaid ==
  ASSUME NEW n, Connected(n), NEW w, w.params = serialize_vmess(n)[1].params
  PROVE  /\ VmessTls(w) = Tls(Or(Sni(n) \ {""}, Host(n)),
                              AlpnList(Alpn(n, Comma) \ {""}, Comma), Insecure(n) = {"1"},
                              Fingerprint(n) \ {""})
         /\ VmessTransport(w) =
              Transport(IF Net(n) = "httpupgrade" THEN "http" ELSE Net(n),
                        OrElse(Path(n), ""), Host(n))
         /\ Path(n) \subseteq {OrElse(Path(n), "")}
         /\ Secured(Value(w, "security")) <=> n.tls # {}
<1> DEFINE none == {""}
           alpn == Alpn(n, Comma)
           path == OrElse(Path(n), "")
           net == IF Net(n) = "httpupgrade" THEN "http" ELSE Net(n)
<1>1. /\ Value(w, "type") = {net} /\ Value(w, "path") = {path} /\ Value(w, "host") = Host(n)
      /\ Value(w, "security") = {IF n.tls = {} THEN "none" ELSE "tls"}
      /\ Value(w, "sni") = Sni(n) \ none /\ Value(w, "alpn") = alpn \ none
      /\ Value(w, "fp") = Fingerprint(n) \ none
      /\ Value(w, "insecure") = {OrElse(Insecure(n), "0")}
  BY VmessParamsRead, Zenon
<1>2. VmessTls(w) = Tls(Or((Sni(n) \ none) \ none, Host(n)), AlpnList((alpn \ none) \ none, Comma),
                        Value(w, "insecure") = {"1"}, (Fingerprint(n) \ none) \ none)
  <2>1. VmessSni(w) = Or((Sni(n) \ none) \ none, Host(n))
    BY <1>1, Zenon DEF VmessSni
  <2> QED
    BY <1>1, <2>1, Zenon DEF VmessTls
<1>3. OrElse(Value(w, "path"), "") = path /\ OrElse(Value(w, "type"), "tcp") = net
  BY <1>1, Only, Zenon
<1>4. VmessTransport(w) = Transport(net, path, Host(n))
  BY <1>1, <1>3, Zenon DEF VmessTransport
<1>5. Path(n) \subseteq {path}
  <2>1. IsOption(Path(n))
    BY TransportTexts, Zenon DEF Connected, Text
  <2>2. Path(n) = {} \/ Path(n) = {path}
    BY <2>1, Options, Zenon
  <2> QED
    BY <2>2, Zenon
<1> HIDE DEF none, path
<1>6. \A S : (S \ none) \ none = S \ none
  OBVIOUS
<1>7. (Value(w, "insecure") = {"1"}) = (Insecure(n) = {"1"})
  <2>1. Insecure(n) \in {{}, {"1"}} /\ IsOption(Insecure(n))
    BY NoOption DEF Insecure
  <2>2. {OrElse(Insecure(n), "0")} = {"1"} <=> Insecure(n) = {"1"}
    <3>1. CASE Insecure(n) = {}
      BY <2>1, <3>1, Options
    <3>2. CASE Insecure(n) = {"1"}
      BY <3>2, Only
    <3> QED
      BY <2>1, <3>1, <3>2
  <2> QED
    BY <1>1, <2>2
<1>8. VmessTls(w) = Tls(Or(Sni(n) \ none, Host(n)), AlpnList(alpn \ none, Comma),
                        Insecure(n) = {"1"}, Fingerprint(n) \ none)
  BY <1>2, <1>6, <1>7
<1>9. Secured(Value(w, "security")) <=> n.tls # {}
  <2>1. Secured({"tls"}) /\ ~Secured({"none"})
    BY DEF Secured
  <2> QED
    BY <1>1, <2>1
<1> QED
  BY <1>4, <1>5, <1>8, <1>9, Zenon DEF none, path

\* What vmess writes of TLS and of the transport is what it reads.
LEMMA VmessKept ==
  ASSUME NEW n, Connected(n), n.kind = "vmess", format # "clash",
         NEW w, w.params = serialize_vmess(n)[1].params, NEW m, m.kind = n.kind,
         m.tls = (IF Secured(Value(w, "security")) THEN {VmessTls(w)} ELSE {}),
         m.transport = VmessTransport(w)
  PROVE  SameConnection(n, m) /\ Connected(m)
<1> DEFINE none == {""}
           t == VmessTls(w)
           alpn == Alpn(n, Comma)
           path == OrElse(Path(n), "")
           net == IF Net(n) = "httpupgrade" THEN "http" ELSE Net(n)
<1>1. /\ t = Tls(Or(Sni(n) \ none, Host(n)), AlpnList(alpn \ none, Comma),
                 Insecure(n) = {"1"}, Fingerprint(n) \ none)
      /\ m.transport = Transport(net, path, Host(n)) /\ Path(n) \subseteq {path}
      /\ Secured(Value(w, "security")) <=> n.tls # {}
  BY VmessSaid, Zenon
<1>6. /\ Text(Sni(n)) /\ Text(Fingerprint(n)) /\ Text(alpn)
      /\ Text(Host(n))
  BY TlsTexts, TransportTexts, Zenon DEF Connected
<1>7. none \cap {Both(Comma), Both(Dash), "h2", "h3"} = {}
  BY Zenon DEF Both, Comma, Dash
<1>8. Host(n) = Hosts(n) \ none /\ \A a, b : Same(a, b) <=> a \ none = b \ none
  BY Zenon DEF Host, Same
<1>9. /\ \A x : Sni(x) = Or(Sni(n) \ none, Host(n)) /\ Host(x) = Host(n) /\ x.kind = n.kind
              => HostStands(n, x)
  BY Zenon DEF HostStands
<1> HIDE DEF none, path, alpn
<1>10. SoundTransport(m.transport) /\ SameTransport(n, m) /\ Host(m) = Host(n)
  <2>2. net = Net(n) \/ (net = "http" /\ Net(n) = "httpupgrade")
    OBVIOUS
  <2> HIDE DEF net
  <2> QED
    BY <1>1, <2>2, TransportKept DEF Connected
<1>11. t.sni = Or(Sni(n) \ none, Host(n)) /\ t.fingerprint = Fingerprint(n) \ none
       /\ t.alpn = AlpnList(alpn \ none, Comma) /\ t.insecure = (Insecure(n) = {"1"})
  <2> HIDE DEF t
  <2> QED
    BY <1>1 DEF Tls
<1>12. Insecure(n) \in {{}, {"1"}}
  BY DEF Insecure
<1>13. m.tls = IF n.tls = {} THEN {} ELSE {t}
  BY <1>1 DEF t
<1> HIDE DEF t
<1>14. SoundTls(m.tls)
  <2>1. Text(Sni(n) \ none) /\ Text(Fingerprint(n) \ none) /\ Text(alpn \ none)
    BY <1>6, TextLess
  <2>2. Text(t.sni) /\ Text(t.fingerprint) /\ IsAlpn(t.alpn)
    BY <1>6, <1>11, <2>1, OrText, AlpnRead
  <2> QED
    BY <1>13, <2>2, TlsSound
<1>15. SameTls(n, m)
  <2>1. m.tls # {} <=> n.tls # {} \/ n.kind \in AlwaysTls
    BY <1>13 DEF AlwaysTls, HasTls
  <2>2. ASSUME n.tls # {}
        PROVE  /\ Same(SniOf(m), Kept(SniOf(n))) /\ Same(AlpnOf(m), Kept(AlpnOf(n)))
               /\ Insecure(m) = Insecure(n) /\ Same(Fingerprint(m), Kept(Fingerprint(n)))
    <3>1. m.tls = {t}
      BY <1>13, <2>2
    <3>2. Says(m, t)
      BY <3>1, TlsFields
    <3>3. Same(SniOf(m), Kept(SniOf(n)))
      <4>1. HostStands(n, m)
        BY <1>9, <1>10, <1>11, <3>2, Zenon DEF Says
      <4> QED
        BY <4>1, SniKept
    <3>4. Same(AlpnOf(m), AlpnOf(n) \ none)
      BY <1>7, <1>11, <2>2, <3>1, AlpnKept DEF Connected, alpn
    <3>5. \A S : Kept(S) = S
      BY DEF Kept
    <3>6. Insecure(m) = Insecure(n)
      BY <1>11, <1>12, <3>2 DEF Says
    <3>7. Same(AlpnOf(m), Kept(AlpnOf(n))) /\ Same(Fingerprint(m), Kept(Fingerprint(n)))
      <4>1. \A S : (S \ none) \ none = S \ none
        OBVIOUS
      <4>2. Fingerprint(m) = Fingerprint(n) \ none
        BY <1>11, <3>2 DEF Says
      <4>3. AlpnOf(m) \ none = AlpnOf(n) \ none
        BY <1>8, <3>4, <4>1
      <4> QED
        BY <1>8, <3>5, <4>1, <4>2, <4>3
    <3> QED
      BY <3>3, <3>6, <3>7
  <2>3. n.kind \notin OneAlpn /\ n.kind \notin {"vless", "trojan"}
    BY DEF OneAlpn
  <2> QED
    BY <2>1, <2>2, <2>3, Zenon DEF SameTls
<1>16. SameConnection(n, m)
  BY <1>10, <1>15 DEF SameConnection
<1> QED
  BY <1>10, <1>14, <1>16 DEF Connected

\* The other kinds read the server name that is written.
LEMMA OwnSni ==
  ASSUME NEW n, n.kind \notin {"vmess", "vless", "trojan"}, format # "clash",
         NEW m, m.kind = n.kind, Sni(m) = Sni(n)
  PROVE  Same(SniOf(m), Kept(SniOf(n)))
<1>1. \A x : x.kind = n.kind => SniOf(x) = Sni(x)
  BY Zenon DEF SniOf
<1>2. SniOf(m) = SniOf(n)
  BY <1>1
<1> QED
  BY <1>2, SameItself DEF Kept

\* They have no transport.
LEMMA NoTransport == SoundTransport({})
BY NoOption DEF SoundTransport

\* What the URIs with TLS of their own write of it.
LEMMA TlsParamsRead ==
  ASSUME NEW n, SoundTls(n.tls), NEW w, NEW alpn, Text(alpn),
         w.params["sni"] = Encoded(Sni(n)), w.params["alpn"] = Encoded(alpn),
         w.params["insecure"] = BareAll(Insecure(n))
  PROVE  Param(w, "sni") = Sni(n) /\ Param(w, "alpn") = alpn /\ Param(w, "insecure") = Insecure(n)
<1>1. Text(Sni(n)) /\ Text(Insecure(n)) /\ Insecure(n) \in {{}, {"1"}}
  BY TlsTexts DEF Insecure
<1>2. Param(w, "sni") = Sni(n) /\ Param(w, "alpn") = alpn
  BY <1>1, EscapedParam DEF Text
<1>3. Param(w, "insecure") = Insecure(n)
  <2>1. "p%41" \notin Insecure(n) /\ "p%FF" \notin Insecure(n)
    BY <1>1
  <2> QED
    BY <1>1, <2>1, BareParam
<1> QED
  BY <1>2, <1>3

\* What tuic says of TLS.
LEMMA TuicSaid ==
  ASSUME NEW n, Connected(n), NEW w, w.params = serialize_tuic(n)[1].params
  PROVE  TuicTls(w) = Tls(Sni(n), AlpnList(Alpn(n, Comma), Comma), Insecure(n) = {"1"}, {})
<1> DEFINE alpn == Alpn(n, Comma)
           id == {OrElse(n.uuid, "")}
           secret == {urlencode(OrElse(n.password, ""))}
           params ==
             [NoParams EXCEPT !["sni"] = Encoded(Sni(n)), !["alpn"] = Encoded(alpn),
                              !["insecure"] = BareAll(Insecure(n))]
<1>1. serialize_tuic(n) = <<Link(n, id, secret, params, "plain")>>
  BY Zenon DEF serialize_tuic
<1> HIDE DEF id, secret
<1>2. w.params = params
  <2> HIDE DEF params
  <2>1. serialize_tuic(n)[1] = Link(n, id, secret, params, "plain")
    BY <1>1
  <2>2. Link(n, id, secret, params, "plain").params = params
    BY DEF Link
  <2> QED
    BY <2>1, <2>2
<1>3. /\ w.params["sni"] = Encoded(Sni(n)) /\ w.params["alpn"] = Encoded(alpn)
      /\ w.params["insecure"] = BareAll(Insecure(n))
  BY <1>2 DEF NoParams, Keys
<1> HIDE DEF params
<1>4. Text(Sni(n)) /\ Text(alpn) /\ SoundTls(n.tls)
  BY TlsTexts DEF Connected
<1>5. Param(w, "sni") = Sni(n) /\ Param(w, "alpn") = alpn /\ Param(w, "insecure") = Insecure(n)
  BY <1>3, <1>4, TlsParamsRead
<1> QED
  BY <1>5 DEF TuicTls, alpn

\* What tuic writes of TLS is what it reads.
LEMMA TuicKept ==
  ASSUME NEW n, Connected(n), n.kind = "tuic", format # "clash",
         NEW w, w.params = serialize_tuic(n)[1].params, NEW m, m.kind = n.kind,
         m.tls = {TuicTls(w)}, m.transport = {}
  PROVE  SameConnection(n, m) /\ Connected(m)
<1> DEFINE t == TuicTls(w)
           alpn == Alpn(n, Comma)
<1>4. Text(Sni(n)) /\ Text(alpn) /\ Text({}) /\ SoundTls(n.tls)
  BY TlsTexts, NoOption DEF Connected, Text
<1>6. /\ t.sni = Sni(n) /\ t.fingerprint = {} /\ t.alpn = AlpnList(alpn, Comma)
      /\ t.insecure = (Insecure(n) = {"1"})
  BY TuicSaid DEF Tls
<1>7. m.tls = {t}
  OBVIOUS
<1> HIDE DEF t
<1>8. Says(m, t) /\ Insecure(n) \in {{}, {"1"}}
  BY <1>7, TlsFields DEF Insecure
<1>9. Connected(m)
  <2>1. IsAlpn(t.alpn)
    BY <1>4, <1>6, AlpnRead
  <2>2. SoundTls({t})
    BY <1>4, <1>6, <2>1, TlsSound
  <2> QED
    BY <1>7, <2>2, NoTransport DEF Connected
<1>10. SameTls(n, m)
  <2>1. m.tls # {} /\ n.kind \in AlwaysTls
    BY <1>7 DEF AlwaysTls, HasTls
  <2>2. \A S : Kept(S) = S
    BY DEF Kept
  <2>3. Same(SniOf(m), Kept(SniOf(n))) /\ Insecure(m) = Insecure(n)
    <3>1. Sni(m) = Sni(n) /\ Insecure(m) = Insecure(n)
      BY <1>6, <1>8 DEF Says
    <3> QED
      BY <3>1, OwnSni
  <2>4. n.tls # {} => Same(AlpnOf(m), Kept(AlpnOf(n)))
    <3>1. \A S : S \ {} = S
      OBVIOUS
    <3>2. t.alpn = AlpnList(Alpn(n, Comma) \ {}, Comma)
      BY <1>6, <3>1 DEF alpn
    <3>3. n.tls # {} => Same(AlpnOf(m), AlpnOf(n) \ {})
      BY <1>4, <1>7, <3>2, AlpnKept
    <3> QED
      BY <2>2, <3>1, <3>3
  <2>5. n.kind \notin OneAlpn /\ n.kind \notin {"vmess", "vless", "trojan"}
    BY DEF OneAlpn
  <2> QED
    BY <2>1, <2>3, <2>4, <2>5, Zenon DEF SameTls
<1> QED
  BY <1>9, <1>10 DEF SameConnection

\* What hysteria writes of TLS is what it reads, but for the list of protocols
\* after the first.
LEMMA HysteriaKept ==
  ASSUME NEW n, Connected(n), n.kind \in OneAlpn, format # "clash", NEW w,
         w.params["sni"] = Encoded(Sni(n)), w.params["alpn"] = Encoded(FirstAlpn(n)),
         w.params["insecure"] = BareAll(Insecure(n)), NEW m, m.kind = n.kind,
         m.tls = OneAlpnTls(w), m.transport = {}
  PROVE  SameConnection(n, m) /\ Connected(m)
<1> DEFINE a == OrElse(Param(w, "alpn"), "")
           t == Tls(Param(w, "sni"), IF Param(w, "alpn") = {} THEN <<>> ELSE <<a>>,
                    Param(w, "insecure") = {"1"}, {})
<1>1. m.tls = {t}
  BY Zenon DEF OneAlpnTls
<1>2. SoundTls(n.tls) /\ Text(Sni(n)) /\ Text(FirstAlpn(n)) /\ Text({})
  BY TlsTexts, NoOption DEF Connected, Text
<1>3. /\ Param(w, "sni") = Sni(n) /\ Param(w, "alpn") = FirstAlpn(n)
      /\ Param(w, "insecure") = Insecure(n)
  BY <1>2, TlsParamsRead
<1>4. FirstAlpn(n) = {} \/ FirstAlpn(n) = {a}
  BY <1>2, <1>3, Options, Zenon DEF Text
<1> HIDE DEF a
<1>5. /\ t.sni = Sni(n) /\ t.fingerprint = {} /\ t.insecure = (Insecure(n) = {"1"})
      /\ t.alpn = IF FirstAlpn(n) = {} THEN <<>> ELSE <<a>>
  BY <1>3 DEF Tls
<1> HIDE DEF t
<1>6. Says(m, t) /\ Insecure(n) \in {{}, {"1"}}
  BY <1>1, TlsFields DEF Insecure
<1>7. FirstAlpn(m) = FirstAlpn(n)
  <2>1. <<a>>[1] = a /\ <<a>> # <<>>
    OBVIOUS
  <2> QED
    BY <1>4, <1>5, <1>6, <2>1 DEF Says
<1>8. Connected(m)
  <2>1. IsAlpn(t.alpn)
    BY <1>2, <1>4, <1>5 DEF IsAlpn, Text
  <2> QED
    BY <1>1, <1>2, <1>5, <2>1, TlsSound, NoTransport DEF Connected
<1>9. SameTls(n, m)
  <2>1. m.tls # {} /\ n.kind \in AlwaysTls /\ n.kind \notin {"vmess", "vless", "trojan"}
    BY <1>1 DEF AlwaysTls, HasTls, OneAlpn
  <2>2. Same(SniOf(m), Kept(SniOf(n))) /\ Insecure(m) = Insecure(n)
    <3>1. Sni(m) = Sni(n) /\ Insecure(m) = Insecure(n)
      BY <1>5, <1>6 DEF Says
    <3> QED
      BY <2>1, <3>1, OwnSni
  <2>3. Same(FirstAlpn(m), FirstAlpn(n))
    BY <1>7, SameItself
  <2> QED
    BY <2>1, <2>2, <2>3, Zenon DEF SameTls
<1> QED
  BY <1>8, <1>9 DEF SameConnection, OneAlpn

\* What vless and trojan write.
LEMMA UriWritten ==
  ASSUME NEW n, n.kind \in {"vless", "trojan"}, Serialize(n) # <<>>
  PROVE  Serialize(n)[1].params = UriParams(n)
<1>1. \A id, secret, params, form : <<Link(n, id, secret, params, form)>>[1].params = params
  BY DEF Link
<1> QED
  BY <1>1 DEF Serialize, serialize_vless, serialize_trojan

\* And whether there is TLS: trojan always has it.
LEMMA UriTlsSaid ==
  ASSUME NEW n, Connected(n), NEW w, w.params = UriParams(n), w.scheme \in {"vless", "trojan"}
  PROVE  LinkTls(w) = IF n.tls # {} \/ w.scheme = "trojan" THEN {UriTls(w)} ELSE {}
<1>1. Param(w, "security") = {"tls" : x \in n.tls}
  BY UriParamsRead
<1>2. (n.tls # {} => Param(w, "security") = {"tls"}) /\ (n.tls = {} => Param(w, "security") = {})
  BY <1>1
<1>3. Secured({"tls"}) /\ ~Secured({}) /\ {"tls"} # {"none"} /\ {} # {"none"}
  BY DEF Secured
<1>4. CASE w.scheme = "vless"
  <2>1. LinkTls(w) = IF Secured(Param(w, "security")) THEN {UriTls(w)} ELSE {}
    BY <1>4 DEF LinkTls
  <2> QED
    BY <1>2, <1>3, <1>4, <2>1
<1>5. CASE w.scheme = "trojan"
  <2>1. LinkTls(w) = IF Param(w, "security") = {"none"} THEN {} ELSE {UriTls(w)}
    BY <1>5 DEF LinkTls
  <2> QED
    BY <1>2, <1>3, <1>5, <2>1
<1> QED
  BY <1>4, <1>5

\* A link that is read again reaches its proxy as the node did.
LEMMA LinkKept ==
  ASSUME NEW n, Connected(n), n.kind \in Kinds, format # "clash", Serialize(n) # <<>>,
         NEW w, w.scheme = n.kind, w.params = Serialize(n)[1].params,
         parse_line(w) # <<>>, parse_line(w)[1].kind = n.kind
  PROVE  SameConnection(n, parse_line(w)[1]) /\ Connected(parse_line(w)[1])
<1> DEFINE m == parse_line(w)[1]
<1>1. m.tls = LinkTls(w) /\ m.transport = LinkTransport(w) /\ m.kind = n.kind
  BY LinkReaches DEF Reaches
<1>2. \A id, secret, params, form : <<Link(n, id, secret, params, form)>>[1].params = params
  BY DEF Link
<1> HIDE DEF m
<1>3. CASE n.kind = "vmess"
  <2>1. Serialize(n) = serialize_vmess(n)
    BY <1>3 DEF Serialize
  <2>2. /\ m.tls = IF Secured(Value(w, "security")) THEN {VmessTls(w)} ELSE {}
        /\ m.transport = VmessTransport(w)
    BY <1>1, <1>3 DEF LinkTls, LinkTransport
  <2>3. SameConnection(n, m) /\ Connected(m)
    BY <1>1, <1>3, <2>1, <2>2, VmessKept
  <2> QED
    BY <2>3 DEF m
<1>4. CASE n.kind \in {"vless", "trojan"}
  <2>1. w.params = UriParams(n)
    BY <1>4, UriWritten
  <2>3. m.tls = IF n.tls # {} \/ n.kind = "trojan" THEN {UriTls(w)} ELSE {}
    BY <1>1, <1>4, <2>1, UriTlsSaid
  <2>4. m.transport = UriTransport(w)
    BY <1>1, <1>4 DEF LinkTransport
  <2>5. SameConnection(n, m) /\ Connected(m)
    BY <1>1, <1>4, <2>1, <2>3, <2>4, UriKept
  <2> QED
    BY <2>5 DEF m
<1>5. CASE n.kind = "tuic"
  <2>1. Serialize(n) = serialize_tuic(n)
    BY <1>5 DEF Serialize
  <2>2. m.tls = {TuicTls(w)} /\ m.transport = {}
    BY <1>1, <1>5 DEF LinkTls, LinkTransport
  <2>3. SameConnection(n, m) /\ Connected(m)
    BY <1>1, <1>5, <2>1, <2>2, TuicKept
  <2> QED
    BY <2>3 DEF m
<1>6. CASE n.kind \in OneAlpn
  <2>1. \A k \in {"sni", "alpn", "insecure"} : w.params[k] = OneAlpnParams(n)[k]
    <3> DEFINE auth == {urlencode(OrElse(n.password, ""))}
               longer == [OneAlpnParams(n) EXCEPT !["auth"] = auth]
    <3>1. \/ Serialize(n) = <<Link(n, {}, {}, longer, "plain")>>
          \/ Serialize(n) = <<Link(n, {}, auth, OneAlpnParams(n), "plain")>>
      <4>1. Serialize(n) = serialize_hysteria(n) \/ Serialize(n) = serialize_hysteria2(n)
        BY <1>6 DEF Serialize, OneAlpn
      <4> QED
        BY <4>1, Zenon DEF serialize_hysteria, serialize_hysteria2
    <3> HIDE DEF auth
    <3>2. \A k \in {"sni", "alpn", "insecure"} : longer[k] = OneAlpnParams(n)[k]
      BY DEF OneAlpnParams, NoParams, Keys
    <3>3. w.params = longer \/ w.params = OneAlpnParams(n)
      <4> HIDE DEF longer
      <4> QED
        BY <1>2, <3>1
    <3> HIDE DEF longer
    <3> QED
      BY <3>2, <3>3
  <2>2. /\ w.params["sni"] = Encoded(Sni(n)) /\ w.params["alpn"] = Encoded(FirstAlpn(n))
        /\ w.params["insecure"] = BareAll(Insecure(n))
    BY <2>1 DEF OneAlpnParams, NoParams, Keys
  <2>3. m.tls = OneAlpnTls(w) /\ m.transport = {}
    BY <1>1, <1>6 DEF LinkTls, LinkTransport, OneAlpn
  <2>4. SameConnection(n, m) /\ Connected(m)
    BY <1>1, <1>6, <2>2, <2>3, HysteriaKept
  <2> QED
    BY <2>4 DEF m
<1>7. CASE n.kind \notin HasTls
  <2>1. m.tls = {} /\ m.transport = {}
    BY <1>1, <1>7 DEF LinkTls, LinkTransport, HasTls, OneAlpn
  <2>2. Connected(m)
    BY <2>1, NoTransport, NoOption DEF Connected, SoundTls
  <2>3. SameConnection(n, m)
    BY <1>7 DEF SameConnection, HasTls
  <2> QED
    BY <2>2, <2>3 DEF m
<1> QED
  BY <1>3, <1>4, <1>5, <1>6, <1>7 DEF HasTls, OneAlpn

\* What a line or an entry has to be for its node to be connected.
Connectable(l) ==
  /\ Trims("")
  /\ \A k \in Keys : IsOption(l.params[k]) /\ NotUtf8 \notin Value(l, k)
  /\ \A p \in Value(l, "path") \cup Param(l, "path") : Trims(p)

\* Its texts are Options and UTF-8.
LEMMA ReadTexts ==
  ASSUME NEW l, Connectable(l), NEW k \in Keys
  PROVE  Text(Param(l, k)) /\ Text(Value(l, k)) /\ Text(Entry(l, k))
<1>1. IsOption(l.params[k]) /\ NotUtf8 \notin Value(l, k)
  BY Zenon DEF Connectable
<1>2. Text(Param(l, k))
  BY <1>1, ReadParam DEF Text
<1>3. Value(l, k) = Raw(l.params[k])
  BY DEF Value, Raw
<1>4. Text(Value(l, k))
  BY <1>1, <1>3, ReadOptions DEF Text
<1>5. Text(Entry(l, k))
  BY <1>1, <1>3, AsStrOption DEF Text, Entry
<1> QED
  BY <1>2, <1>4, <1>5

\* Its path can be written, and that of its service.
LEMMA PathRead ==
  ASSUME NEW l, Connectable(l), NEW S, Text(S),
         S \subseteq Value(l, "path") \cup Param(l, "path"), NEW p, p = OrElse(S, "")
  PROVE  p # NotUtf8 /\ Trims(p) /\ Trims(Service(p))
<1>1. \A q \in S : Trims(q) /\ q # NotUtf8
  <2>1. \A q \in Value(l, "path") \cup Param(l, "path") : Trims(q)
    BY Zenon DEF Connectable
  <2> HIDE DEF Connectable
  <2> QED
    BY <2>1, Zenon DEF Text
<1>2. p \in S \/ p = ""
  <2>1. S = {} => p = ""
    BY Options, Zenon DEF Text
  <2>2. S # {} => S = {p}
    BY Options, Zenon DEF Text
  <2> QED
    BY <2>1, <2>2, Zenon
<1>3. Trims("") /\ "" # NotUtf8
  BY Zenon DEF Connectable, NotUtf8
<1>4. p # NotUtf8 /\ Trims(p)
  BY <1>1, <1>2, <1>3, Zenon
<1> QED
  BY <1>4, TrimsOnce, Zenon

\* A node that was read from a link is connected.
LEMMA LinkConnected ==
  ASSUME NEW l, Connectable(l), parse_line(l) # <<>>
  PROVE  Connected(parse_line(l)[1])
<1> DEFINE m == parse_line(l)[1]
<1>1. m.tls = LinkTls(l) /\ m.transport = LinkTransport(l)
  BY LinkReaches DEF Reaches
<1>2. Text({}) /\ \A k \in Keys : Text(Param(l, k)) /\ Text(Value(l, k))
  BY ReadTexts, NoOption DEF Text
<1>3. SoundTls({UriTls(l)}) /\ SoundTls({})
  <2>1. UriTls(l) = Tls(Or(Param(l, "sni"), Param(l, "host")), AlpnList(Param(l, "alpn"), Comma),
                        Param(l, "insecure") = {"1"}, Param(l, "fp"))
    BY DEF UriTls
  <2> DEFINE t == UriTls(l)
  <2>2. /\ t.sni = Or(Param(l, "sni"), Param(l, "host")) /\ t.fingerprint = Param(l, "fp")
        /\ t.alpn = AlpnList(Param(l, "alpn"), Comma)
    BY <2>1 DEF Tls
  <2> HIDE DEF t
  <2>3. Text(t.sni) /\ Text(t.fingerprint) /\ IsAlpn(t.alpn)
    BY <1>2, <2>2, OrText, AlpnRead DEF Keys
  <2> QED
    BY <2>3, TlsSound DEF t
<1>4. SoundTls({VmessTls(l)})
  <2> DEFINE none == {""}
             t == VmessTls(l)
  <2>1. t = Tls(VmessSni(l), AlpnList(Value(l, "alpn") \ none, Comma),
                Value(l, "insecure") = {"1"}, Value(l, "fp") \ none)
    BY Zenon DEF VmessTls
  <2>2. VmessSni(l) = Or(Value(l, "sni") \ none, Value(l, "host"))
    BY Zenon DEF VmessSni
  <2> HIDE DEF none, t
  <2>3. /\ t.sni = Or(Value(l, "sni") \ none, Value(l, "host"))
        /\ t.fingerprint = Value(l, "fp") \ none
        /\ t.alpn = AlpnList(Value(l, "alpn") \ none, Comma)
    BY <2>1, <2>2 DEF Tls
  <2>4. /\ Text(Value(l, "sni") \ none) /\ Text(Value(l, "fp") \ none)
        /\ Text(Value(l, "alpn") \ none) /\ Text(Value(l, "host"))
    BY <1>2, TextLess DEF Keys
  <2>5. Text(t.sni) /\ Text(t.fingerprint) /\ IsAlpn(t.alpn)
    BY <2>3, <2>4, OrText, AlpnRead
  <2> QED
    BY <2>5, TlsSound DEF t
<1>5. SoundTls({TuicTls(l)})
  <2> DEFINE t == TuicTls(l)
  <2>1. /\ t.sni = Param(l, "sni") /\ t.fingerprint = {}
        /\ t.alpn = AlpnList(Param(l, "alpn"), Comma)
    BY DEF TuicTls, Tls
  <2> HIDE DEF t
  <2>2. Text(t.sni) /\ Text(t.fingerprint) /\ IsAlpn(t.alpn)
    BY <1>2, <2>1, AlpnRead DEF Keys
  <2> QED
    BY <2>2, TlsSound DEF t
<1>6. SoundTls(OneAlpnTls(l))
  <2> DEFINE a == OrElse(Param(l, "alpn"), "")
             t == Tls(Param(l, "sni"), IF Param(l, "alpn") = {} THEN <<>> ELSE <<a>>,
                      Param(l, "insecure") = {"1"}, {})
  <2>1. OneAlpnTls(l) = {t}
    BY Zenon DEF OneAlpnTls
  <2>2. Text(Param(l, "alpn")) /\ Text(Param(l, "sni"))
    BY <1>2 DEF Keys
  <2>3. Param(l, "alpn") = {} \/ Param(l, "alpn") = {a}
    BY <2>2, Options, Zenon DEF Text
  <2> HIDE DEF a
  <2>4. /\ t.sni = Param(l, "sni") /\ t.fingerprint = {}
        /\ t.alpn = IF Param(l, "alpn") = {} THEN <<>> ELSE <<a>>
    BY DEF Tls
  <2> HIDE DEF t
  <2>5. IsAlpn(t.alpn)
    BY <2>2, <2>3, <2>4 DEF IsAlpn, Text
  <2> QED
    BY <1>2, <2>1, <2>2, <2>4, <2>5, TlsSound
<1>7. ASSUME NEW net, NEW S, Text(S), S \subseteq Value(l, "path") \cup Param(l, "path"),
             NEW host, Text(host)
      PROVE  SoundTransport(Transport(net, OrElse(S, ""), host))
  BY <1>7, PathRead, TransportRead, Zenon
<1>8. SoundTransport(VmessTransport(l)) /\ SoundTransport(UriTransport(l)) /\ SoundTransport({})
  <2>1. "path" \in Keys /\ "host" \in Keys
    BY DEF Keys
  <2>2. SoundTransport(VmessTransport(l))
    BY <1>2, <1>7, <2>1, Zenon DEF VmessTransport
  <2>3. SoundTransport(Transport(OrElse(Param(l, "type"), "tcp"), OrElse(Param(l, "path"), ""),
                                 Param(l, "host")))
    BY <1>2, <1>7, <2>1, Zenon
  <2>4. SoundTransport(UriTransport(l))
    BY <2>3, NoTransport, Zenon DEF UriTransport
  <2> QED
    BY <2>2, <2>4, NoTransport
<1>9. SoundTls(LinkTls(l))
  BY <1>3, <1>4, <1>5, <1>6 DEF LinkTls
<1>10. SoundTransport(LinkTransport(l))
  BY <1>8 DEF LinkTransport
<1> QED
  BY <1>1, <1>9, <1>10 DEF Connected

\* What an entry says of the connection.
EntryTls(e) ==
  IF e.scheme = "trojan" \/ Entry(e, "security") \ {"none"} # {}
  THEN {Tls(Entry(e, "sni"), AlpnList(Entry(e, "alpn"), Dash),
            Entry(e, "insecure") = {"1"}, Entry(e, "fp"))}
  ELSE {}
EntryRides(net, path, host) ==
  IF net = "ws" THEN Transport("ws", path, host)
  ELSE IF net = "grpc" THEN {[net |-> "grpc", path |-> path, host |-> {}]} ELSE {}
EntryTransport(e) ==
  EntryRides(OrElse(Entry(e, "type"), "tcp"), OrElse(Entry(e, "path"), ""), Entry(e, "host"))

LEMMA EntryReaches ==
  ASSUME NEW e PROVE Reaches(clash_proxy_to_node(e), EntryTls(e), EntryTransport(e))
<1> DEFINE Cased(net, path, host) ==
             CASE net = "ws" -> Transport("ws", path, host)
               [] net = "grpc" -> {[net |-> "grpc", path |-> path, host |-> {}]}
               [] OTHER -> {}
           S == EntryTls(e)
           T == Cased(OrElse(Entry(e, "type"), "tcp"), OrElse(Entry(e, "path"), ""),
                      Entry(e, "host"))
           n == [Node(e, AsStr(e.id), AsStr(e.secret), S, T)
                   EXCEPT !.alter_id = Value(e, "aid"), !.crypto = EntryCipher(e)]
<1>1. clash_proxy_to_node(e) = <<>> \/ clash_proxy_to_node(e) = Ok(e, n)
  BY Zenon DEF clash_proxy_to_node, EntryTls, EntryCipher
<1>2. \A net, path, host : Cased(net, path, host) = EntryRides(net, path, host)
  BY DEF EntryRides
<1> HIDE DEF Cased
<1>3. T = EntryTransport(e)
  BY <1>2, Zenon DEF EntryTransport
<1> HIDE DEF S, T
<1>4. n.tls = S /\ n.transport = T
  BY DEF Node
<1>7. IsNode(n)
  <2> DEFINE x == Node(e, AsStr(e.id), AsStr(e.secret), S, T)
             y == [x EXCEPT !.alter_id = Value(e, "aid")]
  <2>1. IsNode(x)
    BY NewNode
  <2> HIDE DEF x
  <2>2. IsNode(y)
    BY <2>1, Changed
  <2> HIDE DEF y
  <2>3. IsNode([y EXCEPT !.crypto = EntryCipher(e)])
    BY <2>2, Changed
  <2> QED
    BY <2>3 DEF x, y
<1> HIDE DEF n
<1>5. Ok(e, n) = <<>> \/ Ok(e, n) = <<n>>
  BY DEF Ok
<1>6. Reaches(Ok(e, n), S, T) /\ Reaches(<<>>, S, T)
  BY <1>4, <1>5, <1>7 DEF Reaches
<1> QED
  BY <1>1, <1>3, <1>6, Zenon DEF S

\* A transport of an entry can be written.
LEMMA EntryTransportRead ==
  ASSUME NEW net, NEW path, path # NotUtf8, net = "grpc" => Trims(path),
         NEW host, Text(host)
  PROVE  SoundTransport(EntryRides(net, path, host))
<1>1. CASE net = "ws"
  BY <1>1, TransportRead DEF EntryRides
<1>2. CASE net = "grpc"
  <2> DEFINE t == [net |-> "grpc", path |-> path, host |-> {}]
  <2>1. t.net = "grpc" /\ t.path = path /\ t.host = {}
    OBVIOUS
  <2> HIDE DEF t
  <2>2. EntryRides(net, path, host) = {t}
    BY <1>2 DEF EntryRides, t
  <2> QED
    BY <1>2, <2>1, <2>2, NoOption DEF SoundTransport, Text
<1>3. CASE net \notin {"ws", "grpc"}
  BY <1>3, NoTransport DEF EntryRides
<1> QED
  BY <1>1, <1>2, <1>3

\* A node that was read from an entry is connected.
LEMMA EntryConnected ==
  ASSUME NEW e, Connectable(e), clash_proxy_to_node(e) # <<>>
  PROVE  Connected(clash_proxy_to_node(e)[1])
<1> DEFINE m == clash_proxy_to_node(e)[1]
           t == Tls(Entry(e, "sni"), AlpnList(Entry(e, "alpn"), Dash),
                    Entry(e, "insecure") = {"1"}, Entry(e, "fp"))
<1>1. m.tls = EntryTls(e) /\ m.transport = EntryTransport(e)
  BY EntryReaches DEF Reaches
<1>2. \A k \in Keys : Text(Entry(e, k))
  BY ReadTexts
<1>3. SoundTls({t}) /\ SoundTls({})
  <2>1. t.sni = Entry(e, "sni") /\ t.fingerprint = Entry(e, "fp")
        /\ t.alpn = AlpnList(Entry(e, "alpn"), Dash)
    BY DEF Tls
  <2> HIDE DEF t
  <2>2. Text(t.sni) /\ Text(t.fingerprint) /\ IsAlpn(t.alpn)
    BY <1>2, <2>1, AlpnRead DEF Keys
  <2> QED
    BY <2>2, TlsSound
<1>4. SoundTls(EntryTls(e))
  BY <1>3 DEF EntryTls
<1>5. SoundTransport(EntryTransport(e))
  <2> DEFINE path == OrElse(Entry(e, "path"), "")
  <2>1. Entry(e, "path") \subseteq Value(e, "path") \cup Param(e, "path")
    BY DEF Entry, Value, AsStr
  <2>2. Text(Entry(e, "path")) /\ Text(Entry(e, "host"))
    BY <1>2 DEF Keys
  <2>3. path # NotUtf8 /\ Trims(path)
    BY <2>1, <2>2, PathRead, Zenon
  <2>4. EntryTransport(e) = EntryRides(OrElse(Entry(e, "type"), "tcp"), path, Entry(e, "host"))
    BY Zenon DEF EntryTransport
  <2> HIDE DEF path
  <2> QED
    BY <2>2, <2>3, <2>4, EntryTransportRead
<1> QED
  BY <1>1, <1>4, <1>5 DEF Connected

\* What is read of an Option of YAML, but for digits.
LEMMA YamlRead ==
  ASSUME NEW e, NEW k, NEW S
  PROVE  /\ e.params[k] = clash_yaml_str(S) => Entry(e, k) = S \ {"12"}
         /\ e.params[k] = BareAll(S) => Entry(e, k) = S \ {"12", ""}
<1>1. e.params[k] = clash_yaml_str(S) => Entry(e, k) = S \ {"12"}
  BY YamlText, Zenon DEF Entry
<1>2. \A s : Bare(s).raw = s /\ ~Bare(s).escaped
  BY DEF Bare
<1>3. AsStr(BareAll(S)) = S \ {"12", ""}
  <2> DEFINE left == {"12", ""}
  <2>1. AsStr(BareAll(S)) = {u.raw : u \in {v \in BareAll(S) : v.escaped \/ v.raw \notin left}}
    BY Zenon DEF AsStr
  <2> HIDE DEF left
  <2>2. AsStr(BareAll(S)) = S \ left
    BY <1>2, <2>1 DEF BareAll
  <2> QED
    BY <2>2, Zenon DEF left
<1> QED
  BY <1>1, <1>3, Zenon DEF Entry

\* The entry of a node, read.
LEMMA EntryParamsRead ==
  ASSUME NEW n, Connected(n), NEW w, EntrySays(w.params, n)
  PROVE  /\ Entry(w, "security") = {"tls" : x \in n.tls}
         /\ Entry(w, "sni") = Sni(n) \ {"12"} /\ Entry(w, "fp") = Fingerprint(n) \ {"12"}
         /\ Entry(w, "alpn") = Alpn(n, Dash) \ {"12", ""} /\ Entry(w, "insecure") = Insecure(n)
         /\ Entry(w, "path") = ServiceName(n) \ {"12"}
<1> DEFINE left == {"12", ""}
           tls == {"tls" : x \in n.tls}
<1>0. \A k, S : /\ w.params[k] = clash_yaml_str(S) => Entry(w, k) = S \ {"12"}
                /\ w.params[k] = BareAll(S) => Entry(w, k) = S \ left
  BY YamlRead, Zenon
<1>2. "tls" \notin left /\ "1" \notin left
  OBVIOUS
<1> HIDE DEF left
<1>1. /\ Entry(w, "security") = tls \ left /\ Entry(w, "alpn") = Alpn(n, Dash) \ left
      /\ Entry(w, "insecure") = Insecure(n) \ left
      /\ Entry(w, "sni") = Sni(n) \ {"12"} /\ Entry(w, "fp") = Fingerprint(n) \ {"12"}
      /\ Entry(w, "path") = ServiceName(n) \ {"12"}
  BY <1>0 DEF EntrySays
<1>3. tls \ left = tls
  BY <1>2
<1> HIDE DEF tls
<1>4. Insecure(n) \ left = Insecure(n)
  BY <1>2 DEF Insecure
<1> QED
  BY <1>1, <1>3, <1>4, Zenon DEF left, tls

\* A transport in YAML: the network, and the host of a websocket.
LEMMA EntryTransportSaid ==
  ASSUME NEW n, SoundTransport(n.transport), NEW w, EntrySays(w.params, n)
  PROVE  /\ n.transport = {} => Entry(w, "type") = {} /\ Entry(w, "host") = {}
         /\ n.transport # {} =>
              /\ Entry(w, "type") = {IF Net(n) = "httpupgrade" THEN "http" ELSE Net(n)}
              /\ Entry(w, "host") = IF Net(n) = "ws" THEN Hosts(n) \ {"12"} ELSE {}
<1> DEFINE left == {"12", ""}
           type == {IF t.net = "httpupgrade" THEN "http" ELSE t.net : t \in n.transport}
           host == UNION {t.host : t \in {u \in n.transport : u.net = "ws"}}
<1>0. \A k, S : /\ w.params[k] = clash_yaml_str(S) => Entry(w, k) = S \ {"12"}
                /\ w.params[k] = BareAll(S) => Entry(w, k) = S \ left
  BY YamlRead, Zenon
<1>2. \A x \in {"http", "ws", "grpc"} : x \notin left
  OBVIOUS
<1> HIDE DEF left
<1>1. Entry(w, "type") = type \ left /\ Entry(w, "host") = host \ {"12"}
  BY <1>0 DEF EntrySays
<1>3. CASE n.transport = {}
  <2>1. type = {} /\ host = {}
    BY <1>3
  <2> HIDE DEF type, host
  <2> QED
    BY <1>1, <1>3, <2>1
<1>4. CASE n.transport # {}
  <2>1. PICK t : n.transport = {t}
    BY <1>4, One, Zenon DEF SoundTransport
  <2>2. t.net \in {"ws", "grpc", "httpupgrade"}
    BY <2>1 DEF SoundTransport
  <2>3. Net(n) = t.net /\ Hosts(n) = t.host
    BY <2>1, TransportFields DEF Rides
  <2>4. type = {IF t.net = "httpupgrade" THEN "http" ELSE t.net}
    BY <2>1
  <2>5. host = IF t.net = "ws" THEN t.host ELSE {}
    BY <2>1
  <2> HIDE DEF type, host
  <2>6. type \ left = type
    BY <1>2, <2>2, <2>4
  <2> QED
    BY <1>1, <1>4, <2>3, <2>4, <2>5, <2>6
<1> QED
  BY <1>3, <1>4

\* A transport that is written into an entry is read as it was, but for
\* httpupgrade, which the entries do not have.
LEMMA EntryTransportKept ==
  ASSUME NEW n, Connected(n), format = "clash", NEW w, EntrySays(w.params, n),
         NEW m, m.transport = EntryTransport(w)
  PROVE  SoundTransport(m.transport) /\ SameTransport(n, m)
<1> DEFINE path == OrElse(Entry(w, "path"), "")
           none == {""}
<1>1. EntryTransport(w) = EntryRides(OrElse(Entry(w, "type"), "tcp"), path, Entry(w, "host"))
  BY Zenon DEF EntryTransport
<1>2. Entry(w, "path") = ServiceName(n) \ {"12"}
  BY EntryParamsRead
<1>3. SoundTransport(n.transport)
  BY DEF Connected
<1>4. \A S : Kept(S) = S \ {"12"}
  BY DEF Kept
<1>5. CASE n.transport = {}
  <2>1. Entry(w, "type") = {}
    BY <1>3, <1>5, EntryTransportSaid
  <2>2. OrElse(Entry(w, "type"), "tcp") = "tcp"
    BY <2>1, NoOption, Options
  <2> HIDE DEF path, none
  <2>3. m.transport = {}
    BY <1>1, <2>2 DEF EntryRides
  <2>4. /\ Net(n) = "tcp" /\ Host(n) = {} /\ Path(n) = {}
        /\ Net(m) = "tcp" /\ Host(m) = {} /\ Path(m) = {}
    BY <1>5, <2>3, NoTransportFields, HostOf
  <2>5. SameTransport(n, m)
    BY <1>4, <2>4 DEF SameTransport, Same
  <2> QED
    BY <2>3, <2>5, NoTransport
<1>6. CASE n.transport # {}
  <2>1. PICK t : n.transport = {t}
    BY <1>3, <1>6, One, Zenon DEF SoundTransport
  <2>2. /\ t.net \in {"ws", "grpc", "httpupgrade"} /\ Text(t.host) /\ t.path # NotUtf8
        /\ t.net = "grpc" => t.host = {} /\ Trims(t.path)
    BY <1>3, <2>1 DEF SoundTransport
  <2>3. /\ Net(n) = t.net /\ Hosts(n) = t.host /\ ServiceName(n) = {t.path}
        /\ Path(n) = {IF t.net = "grpc" THEN Slashed(t.path) ELSE t.path}
    BY <2>1, TransportFields DEF Rides
  <2>4. /\ Entry(w, "type") = {IF t.net = "httpupgrade" THEN "http" ELSE t.net}
        /\ Entry(w, "host") = IF t.net = "ws" THEN t.host \ {"12"} ELSE {}
    BY <1>3, <1>6, <2>3, EntryTransportSaid
  <2>5. OrElse(Entry(w, "type"), "tcp") = IF t.net = "httpupgrade" THEN "http" ELSE t.net
    BY <2>4, Only
  <2>6. path = IF t.path = "12" THEN "" ELSE t.path
    <3>1. CASE t.path = "12"
      <4>1. Entry(w, "path") = {}
        BY <1>2, <2>3, <3>1
      <4>2. path = ""
        BY <4>1, NoOption, Options, Zenon
      <4> QED
        BY <3>1, <4>2, Zenon
    <3>2. CASE t.path # "12"
      <4>1. Entry(w, "path") = {t.path}
        BY <1>2, <2>3, <3>2
      <4>2. path = t.path
        BY <4>1, Only, Zenon
      <4> QED
        BY <3>2, <4>2, Zenon
    <3> QED
      BY <3>1, <3>2
  <2>7. /\ path # NotUtf8 /\ (t.net = "grpc" => Trims(path))
        /\ {path} \ none = ({t.path} \ {"12"}) \ none
    <3>1. Trims("") /\ "" # NotUtf8
      BY PathAssumption, Zenon DEF NotUtf8
    <3>2. path # NotUtf8 /\ (t.net = "grpc" => Trims(path))
      BY <2>2, <2>6, <3>1, Zenon
    <3>3. \A x : x = "" => {x} \ none = {}
      BY Zenon
    <3>4. (path = t.path /\ t.path # "12") \/ (t.path = "12" /\ {path} \ none = {})
      <4>1. CASE t.path = "12"
        <5>1. path = ""
          BY <2>6, <4>1, Zenon
        <5>2. {path} \ none = {}
          BY <3>3, <5>1, Zenon
        <5> QED
          BY <4>1, <5>2, Zenon
      <4>2. CASE t.path # "12"
        BY <2>6, <4>2, Zenon
      <4> QED
        BY <4>1, <4>2, Zenon
    <3> HIDE DEF path, none
    <3>5. {path} \ none = ({t.path} \ {"12"}) \ none
      BY <3>4
    <3> QED
      BY <3>2, <3>5
  <2>8. /\ Host(n) = Hosts(n) \ none
        /\ \A a, b : Same(a, b) <=> a \ none = b \ none
    BY Zenon DEF Host, Same
  <2> HIDE DEF path, none
  <2>9. Text(t.host \ {"12"}) /\ Text({})
    BY <2>2, TextLess, NoOption DEF Text
  <2>10. SoundTransport(m.transport)
    BY <1>1, <2>4, <2>5, <2>7, <2>9, EntryTransportRead
  <2>11. CASE t.net = "ws"
    <3> DEFINE u == [net |-> "ws", path |-> path, host |-> t.host \ {"12"}]
    <3>1. m.transport = {u}
      BY <1>1, <2>4, <2>5, <2>11, Transports DEF EntryRides
    <3>2. u.net = "ws" /\ u.path = path /\ u.host = t.host \ {"12"}
      OBVIOUS
    <3> HIDE DEF u
    <3>3. Net(m) = "ws" /\ Hosts(m) = Hosts(n) \ {"12"} /\ Path(m) = {path}
      BY <2>3, <3>1, <3>2, TransportFields DEF Rides
    <3>4. Host(m) = Host(n) \ {"12"}
      BY <3>3, HostOf
    <3>5. Same(Path(m), Kept(Path(n)))
      BY <1>4, <2>3, <2>7, <2>8, <2>11, <3>3
    <3> QED
      BY <1>4, <2>3, <2>10, <2>11, <3>3, <3>4, <3>5 DEF SameTransport
  <2>12. CASE t.net = "grpc"
    <3> DEFINE u == [net |-> "grpc", path |-> path, host |-> {}]
    <3>1. m.transport = {u}
      BY <1>1, <2>5, <2>12 DEF EntryRides
    <3>2. u.net = "grpc" /\ u.path = path /\ u.host = {}
      OBVIOUS
    <3> HIDE DEF u
    <3>3. Net(m) = "grpc" /\ Hosts(m) = {} /\ ServiceName(m) = {path}
      BY <3>1, <3>2, TransportFields DEF Rides
    <3>4. Host(m) = {} /\ Host(n) = {}
      BY <2>2, <2>3, <2>12, <3>3, HostOf
    <3>5. Same(ServiceName(m), KeptService(n))
      BY <1>4, <2>3, <2>7, <2>8, <3>3 DEF KeptService
    <3> QED
      BY <1>4, <2>3, <2>10, <2>12, <3>3, <3>4, <3>5 DEF SameTransport
  <2>13. CASE t.net = "httpupgrade"
    <3>1. m.transport = {}
      BY <1>1, <2>5, <2>13 DEF EntryRides
    <3> QED
      BY <2>3, <2>10, <2>13, <3>1 DEF SameTransport
  <2> QED
    BY <2>2, <2>11, <2>12, <2>13
<1> QED
  BY <1>5, <1>6

\* TLS in YAML: trojan always has it.
LEMMA EntryTlsSaid ==
  ASSUME NEW n, Connected(n), NEW w, EntrySays(w.params, n)
  PROVE  EntryTls(w) =
           IF w.scheme = "trojan" \/ n.tls # {}
           THEN {Tls(Sni(n) \ {"12"}, AlpnList(Alpn(n, Dash) \ {"12", ""}, Dash),
                     Insecure(n) = {"1"}, Fingerprint(n) \ {"12"})}
           ELSE {}
<1> DEFINE left == {"12", ""}
           t == Tls(Sni(n) \ {"12"}, AlpnList(Alpn(n, Dash) \ left, Dash),
                    Insecure(n) = {"1"}, Fingerprint(n) \ {"12"})
<1>1. /\ Entry(w, "security") = {"tls" : x \in n.tls}
      /\ Entry(w, "sni") = Sni(n) \ {"12"} /\ Entry(w, "fp") = Fingerprint(n) \ {"12"}
      /\ Entry(w, "alpn") = Alpn(n, Dash) \ left /\ Entry(w, "insecure") = Insecure(n)
  BY EntryParamsRead, Zenon
<1> HIDE DEF left
<1>2. Entry(w, "security") \ {"none"} = {"tls" : x \in n.tls}
  BY <1>1
<1>3. {"tls" : x \in n.tls} # {} <=> n.tls # {}
  OBVIOUS
<1>4. EntryTls(w) = IF w.scheme = "trojan" \/ Entry(w, "security") \ {"none"} # {} THEN {t} ELSE {}
  BY <1>1 DEF EntryTls
<1> HIDE DEF t
<1>5. EntryTls(w) = IF w.scheme = "trojan" \/ n.tls # {} THEN {t} ELSE {}
  BY <1>2, <1>3, <1>4
<1> QED
  BY <1>5, Zenon DEF t, left

\* An entry that is read again reaches its proxy as the node did.
LEMMA EntryKept ==
  ASSUME NEW n, Connected(n), format = "clash", NEW w, w.scheme = n.kind,
         EntrySays(w.params, n), clash_proxy_to_node(w) # <<>>,
         clash_proxy_to_node(w)[1].kind = n.kind
  PROVE  LET m == clash_proxy_to_node(w)[1] IN SameConnection(n, m) /\ Connected(m)
<1> DEFINE m == clash_proxy_to_node(w)[1]
           left == {"12", ""}
           alpn == Alpn(n, Dash)
           t == Tls(Sni(n) \ {"12"}, AlpnList(alpn \ left, Dash), Insecure(n) = {"1"},
                    Fingerprint(n) \ {"12"})
<1>1. m.tls = EntryTls(w) /\ m.transport = EntryTransport(w) /\ m.kind = n.kind
  BY EntryReaches DEF Reaches
<1>6. m.tls = IF n.kind = "trojan" \/ n.tls # {} THEN {t} ELSE {}
  BY <1>1, EntryTlsSaid, Zenon
<1>3. left \cap {Both(Comma), Both(Dash), "h2", "h3"} = {}
  BY Zenon DEF Both, Comma, Dash
<1>4. \A S, T : Same(S, T \ left) => Same(S, T \ {"12"})
  <2> DEFINE none == {""}
  <2>1. left = {"12"} \cup none /\ \A S, T : Same(S, T) <=> S \ none = T \ none
    BY Zenon DEF Same
  <2> HIDE DEF none, left
  <2> QED
    BY <2>1
<1> HIDE DEF m, left, alpn
<1>5. /\ t.sni = Sni(n) \ {"12"} /\ t.fingerprint = Fingerprint(n) \ {"12"}
      /\ t.alpn = AlpnList(alpn \ left, Dash) /\ t.insecure = (Insecure(n) = {"1"})
  BY DEF Tls
<1> HIDE DEF t
<1>7. SoundTls(n.tls) /\ Text(Sni(n)) /\ Text(Fingerprint(n)) /\ Text(alpn)
  BY TlsTexts DEF Connected, alpn
<1>8. SoundTls(m.tls)
  <2>1. Text(Sni(n) \ {"12"}) /\ Text(Fingerprint(n) \ {"12"}) /\ Text(alpn \ left)
    BY <1>7, TextLess
  <2>2. Text(t.sni) /\ Text(t.fingerprint) /\ IsAlpn(t.alpn)
    BY <1>5, <2>1, AlpnRead
  <2> QED
    BY <1>6, <2>2, TlsSound
<1>9. SoundTransport(m.transport) /\ SameTransport(n, m)
  BY <1>1, EntryTransportKept
<1>10. SameTls(n, m)
  <2>1. m.tls # {} <=> n.tls # {} \/ n.kind \in AlwaysTls
    BY <1>6 DEF AlwaysTls
  <2>2. ASSUME n.tls # {}
        PROVE  /\ Same(SniOf(m), Kept(SniOf(n))) /\ Same(AlpnOf(m), Kept(AlpnOf(n)))
               /\ Insecure(m) = Insecure(n) /\ Same(Fingerprint(m), Kept(Fingerprint(n)))
    <3>1. m.tls = {t}
      BY <1>6, <2>2
    <3>2. Says(m, t) /\ Insecure(n) \in {{}, {"1"}}
      BY <3>1, TlsFields DEF Insecure
    <3>3. SniOf(m) = Sni(m) /\ SniOf(n) = Sni(n)
      BY Zenon DEF SniOf
    <3>4. Sni(m) = Kept(Sni(n)) /\ Fingerprint(m) = Kept(Fingerprint(n)) /\ Insecure(m) = Insecure(n)
      BY <1>5, <3>2 DEF Says, Kept
    <3>5. Same(AlpnOf(m), AlpnOf(n) \ left)
      BY <1>3, <1>5, <1>7, <2>2, <3>1, AlpnKept DEF alpn
    <3>6. Same(AlpnOf(m), Kept(AlpnOf(n)))
      BY <1>4, <3>5 DEF Kept
    <3> QED
      BY <3>3, <3>4, <3>6, SameItself
  <2> QED
    BY <2>1, <2>2, Zenon DEF SameTls
<1> QED
  BY <1>8, <1>9, <1>10 DEF Connected, SameConnection, m

-----------------------------------------------------------------------------
(* What was read is written as it was read.                                *)

\* A list that was split is joined to the text that it was.
LEMMA AlpnBack ==
  ASSUME NEW S, IsOption(S), NEW sep \in {Comma, Dash}, NEW m, NEW t, m.tls = {t},
         t.alpn = AlpnList(S, sep)
  PROVE  Alpn(m, sep) = S
<1>4. Says(m, t)
  BY TlsFields
<1>1. Alpn(m, sep) = IF t.alpn = <<>> THEN {} ELSE {Join(t.alpn, sep)}
  BY <1>4, Zenon DEF Says
<1>2. CASE S = {}
  BY <1>1, <1>2 DEF AlpnList
<1>3. CASE S # {}
  <2>1. PICK s : S = {s}
    BY <1>3, One, Zenon
  <2>2. t.alpn = Split(s, sep)
    <3>1. OrElse(S, "") = s
      BY <2>1, Only, Zenon
    <3> QED
      BY <1>3, <3>1, Zenon DEF AlpnList
  <2>3. Split(s, sep) # <<>> /\ Join(Split(s, sep), sep) = s
    BY DEF Split, Join
  <2> QED
    BY <1>1, <2>1, <2>2, <2>3
<1> QED
  BY <1>2, <1>3

\* A transport that was read from a link is read from its own.
LEMMA TransportSteady ==
  ASSUME NEW n, SoundTransport(n.transport), format # "clash", NEW m, NEW net, NEW p,
         net = Net(n) \/ (net = "http" /\ Net(n) = "httpupgrade"),
         Path(n) \subseteq {p}, m.transport = Transport(net, p, Host(n)),
         NEW again, again = Net(m) \/ (again = "http" /\ Net(m) = "httpupgrade"),
         NEW q, Path(m) \subseteq {q}
  PROVE  Transport(again, q, Host(m)) = m.transport
<1>1. Host(m) = Host(n)
  BY TransportKept
<1>2. CASE n.transport = {}
  <2>1. Net(n) = "tcp"
    BY <1>2, NoTransportFields
  <2>2. m.transport = {}
    BY <2>1, Transports
  <2>3. Net(m) = "tcp"
    BY <2>2, NoTransportFields
  <2> QED
    BY <2>2, <2>3, Transports
<1>3. CASE n.transport # {}
  <2>1. PICK t : n.transport = {t}
    BY <1>3, One, Zenon DEF SoundTransport
  <2>2. t.net \in {"ws", "grpc", "httpupgrade"} /\ (t.net = "grpc" => Trims(t.path))
    BY <2>1 DEF SoundTransport
  <2>3. Net(n) = t.net /\ Path(n) = {IF t.net = "grpc" THEN Slashed(t.path) ELSE t.path}
    BY <2>1, TransportFields DEF Rides
  <2>4. p = IF t.net = "grpc" THEN Slashed(t.path) ELSE t.path
    BY <2>3
  <2>5. CASE t.net = "ws"
    <3> DEFINE u == [net |-> "ws", path |-> p, host |-> Host(n)]
    <3>1. m.transport = {u}
      BY <2>3, <2>5, Transports
    <3>2. u.net = "ws" /\ u.path = p
      OBVIOUS
    <3> HIDE DEF u
    <3>3. Net(m) = "ws" /\ Path(m) = {p}
      BY <3>1, <3>2, TransportFields DEF Rides
    <3>4. again = "ws" /\ q = p
      BY <3>3
    <3> QED
      BY <1>1, <3>1, <3>4, Transports DEF u
  <2>6. CASE t.net = "httpupgrade"
    <3> DEFINE u == [net |-> "httpupgrade", path |-> p, host |-> Host(n)]
    <3>1. m.transport = {u}
      BY <2>3, <2>6, Transports
    <3>2. u.net = "httpupgrade" /\ u.path = p
      OBVIOUS
    <3> HIDE DEF u
    <3>3. Net(m) = "httpupgrade" /\ Path(m) = {p}
      BY <3>1, <3>2, TransportFields DEF Rides
    <3>4. again \in {"httpupgrade", "http"} /\ q = p
      BY <3>3
    <3> QED
      BY <1>1, <3>1, <3>4, Transports DEF u
  <2>7. CASE t.net = "grpc"
    <3> DEFINE u == [net |-> "grpc", path |-> Service(p), host |-> {}]
    <3>1. m.transport = {u}
      BY <2>3, <2>7, Transports
    <3>2. u.net = "grpc" /\ u.path = Service(p)
      OBVIOUS
    <3> HIDE DEF u
    <3>3. Net(m) = "grpc" /\ Path(m) = {Slashed(Service(p))}
      BY <3>1, <3>2, TransportFields DEF Rides
    <3>4. again = "grpc" /\ q = Slashed(Service(p))
      BY <3>3
    <3>5. Service(q) = Service(p)
      <4>1. Trims(t.path)
        BY <2>2, <2>7
      <4>2. /\ Service(Slashed(t.path)) = Service(t.path)
            /\ Service(Slashed(Service(t.path))) = Service(t.path)
        BY <4>1 DEF Trims
      <4> QED
        BY <2>4, <2>7, <3>4, <4>2
    <3> QED
      BY <3>1, <3>4, <3>5, Transports DEF u
  <2> QED
    BY <2>2, <2>5, <2>6, <2>7
<1> QED
  BY <1>2, <1>3

\* So are TLS and transport of vless and trojan.
LEMMA UriSteady ==
  ASSUME NEW n, Connected(n), n.kind \in {"vless", "trojan"}, format # "clash",
         NEW w, w.params = UriParams(n), NEW m, m.kind = n.kind,
         m.tls = (IF n.tls # {} \/ n.kind = "trojan" THEN {UriTls(w)} ELSE {}),
         m.transport = UriTransport(w), NEW x, x.params = UriParams(m)
  PROVE  /\ m.tls = IF m.tls # {} \/ m.kind = "trojan" THEN {UriTls(x)} ELSE {}
         /\ UriTransport(x) = m.transport
<1> DEFINE t == UriTls(w)
           p == OrElse(PathParam(n), "")
           q == OrElse(PathParam(m), "")
<1>1. SameConnection(n, m) /\ Connected(m)
  BY UriKept
<1>2. /\ t = Tls(Or(Sni(n), Host(n)), AlpnList(Alpn(n, Comma), Comma), FALSE, Fingerprint(n))
      /\ m.transport = Transport(Net(n), p, Host(n))
  BY UriSaid, Zenon
<1>3. /\ UriTls(x) = Tls(Or(Sni(m), Host(m)), AlpnList(Alpn(m, Comma), Comma), FALSE,
                         Fingerprint(m))
      /\ UriTransport(x) = Transport(Net(m), q, Host(m))
  BY <1>1, UriSaid, Zenon
<1>4. Path(n) \subseteq {p} /\ Path(m) \subseteq {q}
  BY <1>1, TransportTexts, Zenon DEF Connected
<1>9. Text(Alpn(n, Comma))
  BY TlsTexts, Zenon DEF Connected
<1> HIDE DEF p, q, t
<1>5. UriTransport(x) = m.transport
  BY <1>2, <1>3, <1>4, TransportSteady DEF Connected
<1>6. Host(m) = Host(n)
  BY <1>2, <1>4, TransportKept DEF Connected
<1>7. ASSUME m.tls = {t} PROVE UriTls(x) = t
  <2>1. /\ t.sni = Or(Sni(n), Host(n)) /\ t.alpn = AlpnList(Alpn(n, Comma), Comma)
        /\ t.fingerprint = Fingerprint(n)
    BY <1>2 DEF Tls
  <2>2. Sni(m) = Or(Sni(n), Host(n)) /\ Fingerprint(m) = Fingerprint(n)
    BY <1>7, <2>1, TlsFields DEF Says
  <2>3. Alpn(m, Comma) = Alpn(n, Comma)
    BY <1>7, <1>9, <2>1, AlpnBack DEF Text
  <2>4. Or(Sni(m), Host(m)) = Sni(m)
    BY <1>6, <2>2 DEF Or
  <2> QED
    BY <1>2, <1>3, <2>2, <2>3, <2>4
<1>8. m.tls = IF n.tls # {} \/ n.kind = "trojan" THEN {t} ELSE {}
  BY DEF t
<1> QED
  BY <1>5, <1>7, <1>8

\* And of vmess.
LEMMA VmessSteady ==
  ASSUME NEW n, Connected(n), n.kind = "vmess", format # "clash",
         NEW w, w.params = serialize_vmess(n)[1].params, NEW m, m.kind = n.kind,
         m.tls = (IF Secured(Value(w, "security")) THEN {VmessTls(w)} ELSE {}),
         m.transport = VmessTransport(w), NEW x, x.params = serialize_vmess(m)[1].params
  PROVE  /\ m.tls = IF Secured(Value(x, "security")) THEN {VmessTls(x)} ELSE {}
         /\ VmessTransport(x) = m.transport
<1> DEFINE none == {""}
           t == VmessTls(w)
           p == OrElse(Path(n), "")
           q == OrElse(Path(m), "")
           net == IF Net(n) = "httpupgrade" THEN "http" ELSE Net(n)
           again == IF Net(m) = "httpupgrade" THEN "http" ELSE Net(m)
<1>1. SameConnection(n, m) /\ Connected(m)
  BY VmessKept
<1>2. /\ t = Tls(Or(Sni(n) \ none, Host(n)), AlpnList(Alpn(n, Comma) \ none, Comma),
                 Insecure(n) = {"1"}, Fingerprint(n) \ none)
      /\ m.transport = Transport(net, p, Host(n)) /\ Path(n) \subseteq {p}
      /\ Secured(Value(w, "security")) <=> n.tls # {}
  BY VmessSaid, Zenon
<1>3. /\ VmessTls(x) = Tls(Or(Sni(m) \ none, Host(m)), AlpnList(Alpn(m, Comma) \ none, Comma),
                           Insecure(m) = {"1"}, Fingerprint(m) \ none)
      /\ VmessTransport(x) = Transport(again, q, Host(m)) /\ Path(m) \subseteq {q}
      /\ Secured(Value(x, "security")) <=> m.tls # {}
  BY <1>1, VmessSaid, Zenon
<1>4. Host(n) = Hosts(n) \ none
  BY Zenon DEF Host
<1>5. Text(Alpn(n, Comma))
  BY TlsTexts, Zenon DEF Connected
<1> HIDE DEF none, t, p, q
<1>6. /\ net = Net(n) \/ (net = "http" /\ Net(n) = "httpupgrade")
      /\ again = Net(m) \/ (again = "http" /\ Net(m) = "httpupgrade")
  OBVIOUS
<1> HIDE DEF net, again
<1>7. VmessTransport(x) = m.transport /\ Host(m) = Host(n)
  BY <1>2, <1>3, <1>6, TransportKept, TransportSteady DEF Connected
<1>8. ASSUME m.tls = {t} PROVE VmessTls(x) = t
  <2>1. /\ t.sni = Or(Sni(n) \ none, Host(n)) /\ t.fingerprint = Fingerprint(n) \ none
        /\ t.alpn = AlpnList(Alpn(n, Comma) \ none, Comma) /\ t.insecure = (Insecure(n) = {"1"})
    BY <1>2 DEF Tls
  <2>2. Says(m, t) /\ Insecure(n) \in {{}, {"1"}}
    BY <1>8, TlsFields DEF Insecure
  <2>3. /\ Sni(m) = Or(Sni(n) \ none, Host(n)) /\ Fingerprint(m) = Fingerprint(n) \ none
        /\ Insecure(m) = Insecure(n)
    BY <2>1, <2>2 DEF Says
  <2>4. Alpn(m, Comma) = Alpn(n, Comma) \ none
    <3>1. IsOption(Alpn(n, Comma) \ none)
      BY <1>5, TextLess DEF Text
    <3> QED
      BY <1>8, <2>1, <3>1, AlpnBack
  <2>5. Or(Sni(m) \ none, Host(m)) = Or(Sni(n) \ none, Host(n))
    <3>1. Sni(m) \ none = Sni(m)
      BY <1>4, <2>3 DEF Or
    <3> QED
      BY <1>7, <2>3, <3>1 DEF Or
  <2>6. \A S : (S \ none) \ none = S \ none
    OBVIOUS
  <2> QED
    BY <1>2, <1>3, <2>3, <2>4, <2>5, <2>6
<1>9. m.tls = IF Secured(Value(w, "security")) THEN {t} ELSE {}
  BY DEF t
<1> QED
  BY <1>3, <1>7, <1>8, <1>9

\* And TLS of tuic.
LEMMA TuicSteady ==
  ASSUME NEW n, Connected(n), NEW w, w.params = serialize_tuic(n)[1].params,
         NEW m, Connected(m), m.tls = {TuicTls(w)},
         NEW x, x.params = serialize_tuic(m)[1].params
  PROVE  TuicTls(x) = TuicTls(w)
<1> DEFINE t == TuicTls(w)
<1>1. /\ t = Tls(Sni(n), AlpnList(Alpn(n, Comma), Comma), Insecure(n) = {"1"}, {})
      /\ TuicTls(x) = Tls(Sni(m), AlpnList(Alpn(m, Comma), Comma), Insecure(m) = {"1"}, {})
  BY TuicSaid
<1>2. IsOption(Alpn(n, Comma)) /\ Insecure(n) \in {{}, {"1"}}
  BY TlsTexts DEF Connected, Text, Insecure
<1> HIDE DEF t
<1>3. /\ t.sni = Sni(n) /\ t.alpn = AlpnList(Alpn(n, Comma), Comma)
      /\ t.insecure = (Insecure(n) = {"1"})
  BY <1>1 DEF Tls
<1>4. m.tls = {t}
  BY DEF t
<1>5. Says(m, t) /\ Alpn(m, Comma) = Alpn(n, Comma)
  BY <1>2, <1>3, <1>4, TlsFields, AlpnBack
<1>6. Sni(m) = Sni(n) /\ Insecure(m) = Insecure(n)
  BY <1>2, <1>3, <1>5 DEF Says
<1> QED
  BY <1>1, <1>5, <1>6 DEF t

\* What a link says of the connection of a node that was read is what the node has.
LEMMA LinkSteady ==
  ASSUME NEW n, Connected(n), n.kind \in V2rayKinds, format # "clash", Serialize(n) # <<>>,
         NEW w, w.scheme = n.kind, w.params = Serialize(n)[1].params,
         NEW m, m.kind = n.kind, m.tls = LinkTls(w), m.transport = LinkTransport(w), Connected(m),
         Serialize(m) # <<>>, NEW x, x.scheme = m.kind, x.params = Serialize(m)[1].params
  PROVE  LinkTls(x) = m.tls /\ LinkTransport(x) = m.transport
<1>1. CASE n.kind = "vmess"
  <2>1. Serialize(n) = serialize_vmess(n) /\ Serialize(m) = serialize_vmess(m)
    BY <1>1 DEF Serialize
  <2>2. \A l : l.scheme = "vmess" =>
          /\ LinkTls(l) = IF Secured(Value(l, "security")) THEN {VmessTls(l)} ELSE {}
          /\ LinkTransport(l) = VmessTransport(l)
    BY DEF LinkTls, LinkTransport
  <2> QED
    <3>1. /\ m.tls = IF Secured(Value(w, "security")) THEN {VmessTls(w)} ELSE {}
          /\ m.transport = VmessTransport(w)
          /\ w.params = serialize_vmess(n)[1].params /\ x.params = serialize_vmess(m)[1].params
      BY <1>1, <2>1, <2>2
    <3>2. /\ m.tls = IF Secured(Value(x, "security")) THEN {VmessTls(x)} ELSE {}
          /\ VmessTransport(x) = m.transport
      BY <1>1, <3>1, VmessSteady
    <3> QED
      BY <1>1, <2>2, <3>2
<1>2. CASE n.kind \in {"vless", "trojan"}
  <2>1. w.params = UriParams(n) /\ x.params = UriParams(m)
    BY <1>2, UriWritten
  <2>2. /\ LinkTls(w) = IF n.tls # {} \/ n.kind = "trojan" THEN {UriTls(w)} ELSE {}
        /\ LinkTls(x) = IF m.tls # {} \/ m.kind = "trojan" THEN {UriTls(x)} ELSE {}
    BY <1>2, <2>1, UriTlsSaid
  <2>3. LinkTransport(w) = UriTransport(w) /\ LinkTransport(x) = UriTransport(x)
    BY <1>2 DEF LinkTransport
  <2> QED
    <3>1. /\ m.tls = IF n.tls # {} \/ n.kind = "trojan" THEN {UriTls(w)} ELSE {}
          /\ m.transport = UriTransport(w)
      BY <2>2, <2>3
    <3>2. /\ m.tls = IF m.tls # {} \/ m.kind = "trojan" THEN {UriTls(x)} ELSE {}
          /\ UriTransport(x) = m.transport
      BY <1>2, <2>1, <3>1, UriSteady
    <3> QED
      BY <2>2, <2>3, <3>2
<1>3. CASE n.kind = "tuic"
  <2>1. Serialize(n) = serialize_tuic(n) /\ Serialize(m) = serialize_tuic(m)
    BY <1>3 DEF Serialize
  <2>2. \A l : l.scheme = "tuic" => LinkTls(l) = {TuicTls(l)} /\ LinkTransport(l) = {}
    BY DEF LinkTls, LinkTransport
  <2> QED
    <3>1. w.params = serialize_tuic(n)[1].params /\ x.params = serialize_tuic(m)[1].params
      BY <2>1
    <3>2. m.tls = {TuicTls(w)} /\ m.transport = {}
      BY <1>3, <2>2
    <3>3. TuicTls(x) = TuicTls(w)
      BY <3>1, <3>2, TuicSteady
    <3> QED
      BY <1>3, <2>2, <3>2, <3>3
<1>4. CASE n.kind \in {"ss", "ssr"}
  BY <1>4 DEF LinkTls, LinkTransport, OneAlpn
<1> QED
  BY <1>1, <1>2, <1>3, <1>4 DEF V2rayKinds

\* The transport of an entry, from the node that was written.
LEMMA EntryTransportOf ==
  ASSUME NEW n, Connected(n), NEW w, EntrySays(w.params, n)
  PROVE  EntryTransport(w) =
           EntryRides(Net(n), OrElse(ServiceName(n) \ {"12"}, ""), Hosts(n) \ {"12"})
<1> DEFINE path == OrElse(ServiceName(n) \ {"12"}, "")
<1>1. EntryTransport(w) = EntryRides(OrElse(Entry(w, "type"), "tcp"), path, Entry(w, "host"))
  BY EntryParamsRead, Zenon DEF EntryTransport
<1>2. SoundTransport(n.transport)
  BY DEF Connected
<1> HIDE DEF path
<1>3. CASE n.transport = {}
  <2>1. OrElse(Entry(w, "type"), "tcp") = "tcp" /\ Net(n) = "tcp"
    BY <1>2, <1>3, EntryTransportSaid, NoTransportFields, NoOption, Options
  <2>2. \A p, h : EntryRides("tcp", p, h) = {}
    BY DEF EntryRides
  <2> QED
    BY <1>1, <2>1, <2>2, Zenon DEF path
<1>4. CASE n.transport # {}
  <2>1. /\ Entry(w, "type") = {IF Net(n) = "httpupgrade" THEN "http" ELSE Net(n)}
        /\ Entry(w, "host") = IF Net(n) = "ws" THEN Hosts(n) \ {"12"} ELSE {}
    BY <1>2, <1>4, EntryTransportSaid
  <2>2. OrElse(Entry(w, "type"), "tcp") = IF Net(n) = "httpupgrade" THEN "http" ELSE Net(n)
    BY <2>1, Only
  <2>3. /\ \A p, h, g : EntryRides("grpc", p, h) = EntryRides("grpc", p, g)
        /\ \A net, p, h : net \notin {"ws", "grpc"} => EntryRides(net, p, h) = {}
    BY DEF EntryRides
  <2>4. EntryTransport(w) = EntryRides(Net(n), path, Hosts(n) \ {"12"})
    <3>1. CASE Net(n) = "ws"
      BY <1>1, <2>1, <2>2, <3>1
    <3>2. CASE Net(n) = "grpc"
      BY <1>1, <2>2, <2>3, <3>2
    <3>3. CASE Net(n) \notin {"ws", "grpc"}
      BY <1>1, <2>2, <2>3, <3>3
    <3> QED
      BY <3>1, <3>2, <3>3
  <2> QED
    BY <2>4, Zenon DEF path
<1> QED
  BY <1>3, <1>4

\* What an entry says of the connection of a node that was read is what the node has.
LEMMA EntrySteady ==
  ASSUME NEW n, Connected(n), NEW w, w.scheme = n.kind, EntrySays(w.params, n),
         NEW m, m.kind = n.kind, m.tls = EntryTls(w), m.transport = EntryTransport(w),
         Connected(m), NEW x, x.scheme = m.kind, EntrySays(x.params, m)
  PROVE  EntryTls(x) = m.tls /\ EntryTransport(x) = m.transport
<1> DEFINE left == {"12", ""}
           T(k) == Tls(Sni(k) \ {"12"}, AlpnList(Alpn(k, Dash) \ left, Dash),
                       Insecure(k) = {"1"}, Fingerprint(k) \ {"12"})
           Way(k) == OrElse(ServiceName(k) \ {"12"}, "")
<1>1. /\ m.tls = IF n.kind = "trojan" \/ n.tls # {} THEN {T(n)} ELSE {}
      /\ EntryTls(x) = IF n.kind = "trojan" \/ m.tls # {} THEN {T(m)} ELSE {}
  BY EntryTlsSaid, Zenon
<1>2. /\ m.transport = EntryRides(Net(n), Way(n), Hosts(n) \ {"12"})
      /\ EntryTransport(x) = EntryRides(Net(m), Way(m), Hosts(m) \ {"12"})
  BY EntryTransportOf, Zenon
<1>3. Way(n) # "12" /\ \A k, p : p # "12" /\ ServiceName(k) = {p} => Way(k) = p
  <2>1. \A k, p : p # "12" /\ ServiceName(k) = {p} => Way(k) = p
    <3>1. \A p : p # "12" => {p} \ {"12"} = {p}
      OBVIOUS
    <3> QED
      BY <3>1, Only, Zenon
  <2>2. Way(n) # "12"
    <3> DEFINE S == ServiceName(n) \ {"12"}
    <3>1. IsOption(S)
      <4>1. IsOption(ServiceName(n))
        BY DEF Connected, SoundTransport, ServiceName, IsOption
      <4> QED
        BY <4>1 DEF IsOption
    <3>2. "12" \notin S
      OBVIOUS
    <3> HIDE DEF S
    <3>3. (S = {} => OrElse(S, "") = "") /\ (S # {} => S = {OrElse(S, "")})
      BY <3>1, Options
    <3>4. OrElse(S, "") # "12"
      BY <3>2, <3>3, Zenon
    <3> QED
      BY <3>4 DEF S
  <2> QED
    BY <2>1, <2>2
<1> HIDE DEF Way
<1>4. EntryTransport(x) = m.transport
  <2>1. CASE Net(n) = "ws"
    <3> DEFINE u == [net |-> "ws", path |-> Way(n), host |-> Hosts(n) \ {"12"}]
    <3>1. m.transport = {u} /\ u.net = "ws" /\ u.path = Way(n) /\ u.host = Hosts(n) \ {"12"}
      BY <1>2, <2>1 DEF EntryRides, Transport
    <3> HIDE DEF u
    <3>2. Net(m) = "ws" /\ ServiceName(m) = {Way(n)} /\ Hosts(m) = Hosts(n) \ {"12"}
      BY <3>1, TransportFields DEF Rides
    <3>3. Way(m) = Way(n) /\ Hosts(m) \ {"12"} = Hosts(n) \ {"12"}
      BY <1>3, <3>2
    <3> QED
      BY <1>2, <2>1, <3>2, <3>3
  <2>2. CASE Net(n) = "grpc"
    <3> DEFINE u == [net |-> "grpc", path |-> Way(n), host |-> {}]
    <3>1. m.transport = {u} /\ u.net = "grpc" /\ u.path = Way(n)
      BY <1>2, <2>2 DEF EntryRides
    <3> HIDE DEF u
    <3>2. Net(m) = "grpc" /\ ServiceName(m) = {Way(n)}
      BY <3>1, TransportFields DEF Rides
    <3>3. Way(m) = Way(n)
      BY <1>3, <3>2
    <3> QED
      BY <1>2, <2>2, <3>2, <3>3 DEF EntryRides
  <2>3. CASE Net(n) \notin {"ws", "grpc"}
    <3>1. m.transport = {}
      BY <1>2, <2>3 DEF EntryRides
    <3>2. Net(m) = "tcp"
      BY <3>1, NoTransportFields
    <3> QED
      BY <1>2, <3>1, <3>2 DEF EntryRides
  <2> QED
    BY <2>1, <2>2, <2>3
<1> HIDE DEF left
<1>5. ASSUME m.tls = {T(n)} PROVE T(m) = T(n)
  <2> DEFINE t == T(n)
  <2>1. /\ t.sni = Sni(n) \ {"12"} /\ t.alpn = AlpnList(Alpn(n, Dash) \ left, Dash)
        /\ t.insecure = (Insecure(n) = {"1"}) /\ t.fingerprint = Fingerprint(n) \ {"12"}
    BY DEF Tls
  <2>2. IsOption(Alpn(n, Dash) \ left) /\ Insecure(n) \in {{}, {"1"}}
    BY TlsTexts, TextLess DEF Connected, Text, Insecure
  <2>3. m.tls = {t}
    BY <1>5
  <2> HIDE DEF t
  <2>4. Says(m, t) /\ Alpn(m, Dash) = Alpn(n, Dash) \ left
    BY <2>1, <2>2, <2>3, TlsFields, AlpnBack
  <2>5. /\ Sni(m) = Sni(n) \ {"12"} /\ Fingerprint(m) = Fingerprint(n) \ {"12"}
        /\ Insecure(m) = Insecure(n)
    BY <2>1, <2>2, <2>4 DEF Says
  <2>6. \A S, D : (S \ D) \ D = S \ D
    OBVIOUS
  <2> QED
    BY <2>4, <2>5, <2>6
<1> HIDE DEF T
<1> QED
  BY <1>1, <1>4, <1>5

\* How what was written is read in each format.
ReadItem(item) == IF format = "clash" THEN clash_proxy_to_node(item) ELSE parse_line(item)

\* A node that is its own copy: it is written as one line or entry, which is
\* read as this node.
Settles(n) ==
  LET w == Written(n)[1] IN
  /\ ~Unreadable(n)
  /\ Written(n) = <<w>> /\ Lines(w) = <<w>> /\ ReadItem(w) = <<n>>

\* Nodes of the same fields are the same.
LEMMA SameNode ==
  ASSUME NEW n, NEW m, IsNode(n), IsNode(m),
         m.kind = n.kind, m.name = n.name, m.server = n.server, m.port = n.port,
         m.crypto = n.crypto, m.password = n.password, m.uuid = n.uuid,
         m.alter_id = n.alter_id, m.tls = n.tls, m.transport = n.transport
  PROVE  m = n
BY Zenon DEF IsNode

\* What a link holds of the credentials, the next one holds of what it holds.
LEMMA HeldOnce ==
  ASSUME NEW n, NEW m, Holds(n, m)
  PROVE  /\ HeldId(m) = m.uuid /\ HeldPassword(m) = m.password
         /\ HeldCrypto(m) = m.crypto /\ HeldAlterId(m) = m.alter_id
<1>1. \A S : Filled(Filled(S)) = Filled(S)
  BY Only, Zenon DEF Filled
<1>2. \A S : {OrElse({OrElse(S, "0")}, "0")} = {OrElse(S, "0")}
  BY Only, Zenon
<1>3. m.kind = n.kind /\ m.uuid = HeldId(n) /\ m.password = HeldPassword(n)
  BY DEF Holds
<1>4. m.crypto = HeldCrypto(n) /\ m.alter_id = HeldAlterId(n)
  BY DEF Holds
<1>5. HeldId(m) = m.uuid
  BY <1>1, <1>3 DEF HeldId
<1>6. HeldPassword(m) = m.password
  BY <1>1, <1>3 DEF HeldPassword
<1>7. HeldCrypto(m) = m.crypto /\ HeldAlterId(m) = m.alter_id
  BY <1>2, <1>3, <1>4 DEF HeldCrypto, HeldAlterId
<1> QED
  BY <1>5, <1>6, <1>7

\* A link of the v2ray format is one line, unless its name is two.
LEMMA LinkAlone ==
  ASSUME NEW n, n.kind \in V2rayKinds, Serialize(n) # <<>>,
         n.name # TwoLines \/ n.kind \in NameInPayload
  PROVE  LET k == Serialize(n)[1] IN Serialize(n) = <<k>> /\ Lines(k) = <<k>>
<1>1. \A id, secret, params, form :
        Lines(Link(n, id, secret, params, form)) = <<Link(n, id, secret, params, form)>>
  BY DEF Lines, Link
<1>2. \E id, secret, params, form : Serialize(n) = <<Link(n, id, secret, params, form)>>
  <2>1. CASE n.kind \in {"ss", "ssr"}
    BY <2>1, Zenon DEF Serialize, serialize_ss, serialize_ssr
  <2>2. CASE n.kind \in {"vless", "trojan"}
    BY <2>2, Zenon DEF Serialize, serialize_vless, serialize_trojan
  <2>3. CASE n.kind \in {"vmess", "tuic"}
    BY <2>3, Zenon DEF Serialize, serialize_vmess, serialize_tuic
  <2> QED
    BY <2>1, <2>2, <2>3 DEF V2rayKinds
<1>3. \A k : Serialize(n) = <<k>> => Serialize(n)[1] = k
  OBVIOUS
<1> QED
  BY <1>1, <1>2, <1>3, Zenon

\* A node that was read from the link of another is its own copy.
LEMMA LinkSettles ==
  ASSUME NEW n, Connected(n), n.kind \in V2rayKinds, format # "clash", Serialize(n) # <<>>,
         ~Unreadable(n), NEW w, ReadAs(w, n), w.scheme = n.kind,
         w.params = Serialize(n)[1].params,
         NEW m, parse_line(w) = <<m>>, Whole(m), Connected(m), Serialize(m) # <<>>
  PROVE  Settles(m)
<1> DEFINE k == Serialize(m)[1]
           r == parse_line(k)[1]
<1>1. Holds(n, m)
  BY DEF ReadAs
<1>2. IsNode(m) /\ m.tls = LinkTls(w) /\ m.transport = LinkTransport(w)
  <2>1. Reaches(<<m>>, LinkTls(w), LinkTransport(w))
    BY LinkReaches
  <2> QED
    BY <2>1 DEF Reaches
<1>3. m.kind = n.kind /\ (m.name # TwoLines \/ m.kind \in NameInPayload)
  BY <1>1 DEF Holds
<1>4. ~Unreadable(m)
  <2>1. /\ m.kind = n.kind /\ m.server = n.server
        /\ n.kind = "vless" => m.uuid = n.uuid
        /\ n.kind = "trojan" => m.password = n.password
    BY <1>1 DEF Holds, HeldId, HeldPassword
  <2> QED
    BY <2>1 DEF Unreadable, V2rayKinds
<1>5. Serialize(m) = <<k>> /\ Lines(k) = <<k>>
  BY <1>3, LinkAlone
<1>6. ReadAs(k, m) /\ k.scheme = m.kind
  <2>1. ReadAs(Lines(k)[1], m) /\ Lines(k)[1].scheme = m.kind
    BY WrittenBack
  <2>2. Lines(k)[1] = k
    BY <1>5
  <2> QED
    BY <2>1, <2>2
<1>7. LinkTls(k) = m.tls /\ LinkTransport(k) = m.transport
  <2>1. k.params = Serialize(m)[1].params
    OBVIOUS
  <2> HIDE DEF k
  <2> QED
    BY <1>2, <1>3, <1>6, <2>1, LinkSteady
<1> HIDE DEF k
<1>8. /\ parse_line(k) = <<r>> /\ SameProxy(m, r) /\ Holds(m, r)
  BY <1>3, <1>4, <1>6 DEF ReadAs
<1>9. IsNode(r) /\ r.tls = LinkTls(k) /\ r.transport = LinkTransport(k)
  <2> HIDE DEF r
  <2>1. Reaches(<<r>>, LinkTls(k), LinkTransport(k))
    BY <1>8, LinkReaches
  <2> QED
    BY <2>1 DEF Reaches
<1> HIDE DEF r
<1>10. r.name = m.name /\ r.kind = m.kind /\ r.server = m.server /\ r.port = m.port
  BY <1>3, <1>8 DEF SameProxy
<1>11. /\ r.uuid = m.uuid /\ r.password = m.password
       /\ r.crypto = m.crypto /\ r.alter_id = m.alter_id
  BY <1>1, <1>8, HeldOnce DEF Holds
<1>12. r = m
  BY <1>2, <1>7, <1>9, <1>10, <1>11, SameNode
<1> QED
  BY <1>4, <1>5, <1>8, <1>12 DEF Settles, Written, ReadItem, k

\* A node that was read from the entry of another is its own copy.
LEMMA EntrySettles ==
  ASSUME NEW n, Connected(n), format = "clash", ~Unreadable(n),
         NEW w, w.scheme = n.kind, EntrySays(w.params, n),
         NEW m, clash_proxy_to_node(w) = <<m>>, EntryHolds(n, m),
         Whole(m), Connected(m), proxy_to_clash(m) # <<>>
  PROVE  Settles(m)
<1> DEFINE k == proxy_to_clash(m)[1]
           r == clash_proxy_to_node(k)[1]
<1>1. IsNode(m) /\ m.tls = EntryTls(w) /\ m.transport = EntryTransport(w)
  BY EntryReaches DEF Reaches
<1>2. m.kind = n.kind /\ m.name = n.name /\ m.server = n.server
  BY DEF EntryHolds
<1>3. ~Unreadable(m)
  BY <1>2 DEF Unreadable
<1>4. EntrySays(k.params, m) /\ k.scheme = m.kind /\ Lines(k) = <<k>>
  BY EntryWritten
<1>5. proxy_to_clash(m) = <<k>>
  BY DEF proxy_to_clash
<1>6. clash_proxy_to_node(k) = <<r>> /\ EntryHolds(m, r)
  BY <1>3, EntryBack
<1> HIDE DEF k
<1>7. EntryTls(k) = m.tls /\ EntryTransport(k) = m.transport
  BY <1>1, <1>2, <1>4, EntrySteady
<1>8. IsNode(r) /\ r.tls = EntryTls(k) /\ r.transport = EntryTransport(k)
  BY <1>6, EntryReaches DEF Reaches
<1> HIDE DEF r
<1>9. r.name = m.name /\ r.kind = m.kind /\ r.server = m.server /\ r.port = m.port
  BY <1>6 DEF EntryHolds
<1>10. r.uuid = m.uuid /\ r.password = m.password /\ r.crypto = m.crypto
  BY <1>2, <1>6 DEF EntryHolds
<1>11. r.alter_id = m.alter_id
  <2>1. \A S : {OrElse({OrElse(S, "0")}, "0")} = {OrElse(S, "0")}
    BY Only, Zenon
  <2>2. m.alter_id = HeldAlterId(n) /\ r.alter_id = HeldAlterId(m)
    BY <1>6 DEF EntryHolds
  <2> QED
    BY <1>2, <2>1, <2>2 DEF HeldAlterId
<1>12. r = m
  BY <1>1, <1>7, <1>8, <1>9, <1>10, <1>11, SameNode
<1> QED
  BY <1>3, <1>4, <1>5, <1>6, <1>12 DEF Settles, Written, ReadItem, k

-----------------------------------------------------------------------------
(* Reading and writing.                                                    *)

Listed(s) == s \in Seq(ToSet(s))

\* The invariant.  A Clash configuration that was written can only be read
\* again with format=clash.
ReadingInv ==
  /\ Listed(text.items) /\ Listed(nodes) /\ Listed(out)
  /\ format \in Formats /\ text.clash \in BOOLEAN
  /\ phase \in {"reading", "writing", "done", "failed", "panicked"}
  /\ skipped \in Nat /\ at \in Nat \ {0}
  /\ phase = "reading" =>
       /\ at <= Len(text.items) + 1
       /\ ~text.clash => Len(nodes) + skipped = at - 1
  /\ LinesAccounted
  /\ ~text.clash => \A i \in DOMAIN nodes : Linked(nodes[i])
  /\ phase = "failed" => text.clash

\* A sequence and one more element.
LEMMA ListedAppend ==
  ASSUME NEW s, Listed(s), NEW x
  PROVE  /\ Listed(s \o <<x>>) /\ Len(s \o <<x>>) = Len(s) + 1
         /\ \A i \in DOMAIN (s \o <<x>>) :
              (s \o <<x>>)[i] = IF i = Len(s) + 1 THEN x ELSE s[i]
         /\ DOMAIN (s \o <<x>>) = 1 .. Len(s) + 1
<1>1. s \in Seq(ToSet(s) \cup {x}) /\ <<x>> \in Seq(ToSet(s) \cup {x})
  BY DEF Listed
<1>2. /\ s \o <<x>> \in Seq(ToSet(s) \cup {x}) /\ Len(s \o <<x>>) = Len(s) + 1
      /\ \A i \in 1 .. Len(s) + 1 : (s \o <<x>>)[i] = IF i = Len(s) + 1 THEN x ELSE s[i]
  BY <1>1
<1>3. DOMAIN (s \o <<x>>) = 1 .. Len(s) + 1
  BY <1>2
<1>4. \A t \in Seq(ToSet(s) \cup {x}) : Listed(t)
  BY DEF Listed, ToSet
<1> QED
  BY <1>2, <1>3, <1>4

\* Joined sequences are one, of any elements.
LEMMA ListedConcat == ASSUME NEW s, Listed(s), NEW t, Listed(t) PROVE Listed(s \o t)
<1> DEFINE S == ToSet(s) \cup ToSet(t)
<1>1. s \in Seq(S) /\ t \in Seq(S)
  <2>1. \A T, U : T \subseteq U => Seq(T) \subseteq Seq(U)
    OBVIOUS
  <2> QED
    BY <2>1 DEF Listed
<1>2. s \o t \in Seq(S)
  <2> HIDE DEF S
  <2> QED
    BY <1>1
<1>3. \A u \in Seq(S) : Listed(u)
  BY DEF Listed, ToSet
<1> QED
  BY <1>2, <1>3

\* The empty sequence is listed.
LEMMA ListedEmpty == Listed(<<>>)
BY DEF Listed, ToSet

\* A sequence of some set is listed.
LEMMA ListedSeq == ASSUME NEW S, NEW s \in Seq(S) PROVE Listed(s)
BY DEF Listed, ToSet

\* The first text is one of Texts, and nothing is read yet.
LEMMA InitReading == Init => ReadingInv
<1> SUFFICES ASSUME Init PROVE ReadingInv
  OBVIOUS
<1>1. Listed(text.items) /\ text.clash \in BOOLEAN
  BY SubscriptionsAssumption DEF Init, Listed
<1>2. Listed(nodes) /\ Listed(out) /\ Len(nodes) = 0 /\ DOMAIN nodes = {}
  BY ListedEmpty DEF Init
<1>3. MaxNodes \in Nat
  BY SubscriptionsAssumption
<1>4. Len(text.items) \in Nat
  BY <1>1 DEF Listed
<1> QED
  BY <1>1, <1>2, <1>3, <1>4 DEF Init, ReadingInv, LinesAccounted, Reading, ReadingEnded

\* Reading a line: it yields one node, or is counted.
LEMMA ReadLineStep ==
  ASSUME ReadingInv, ReadNode \/ SkipLine \/ LinePanics \/ LinesRead
  PROVE  ReadingInv'
<1>1. /\ Listed(text.items) /\ Listed(nodes) /\ Listed(out)
      /\ Len(nodes) \in Nat /\ Len(text.items) \in Nat /\ DOMAIN nodes = 1 .. Len(nodes)
      /\ skipped \in Nat /\ at \in Nat \ {0} /\ MaxNodes \in Nat
      /\ Reading /\ Len(nodes) <= MaxNodes
      /\ at <= Len(text.items) + 1 /\ Len(nodes) + skipped = at - 1
      /\ \A i \in DOMAIN nodes : Linked(nodes[i])
  BY SubscriptionsAssumption DEF ReadingInv, LinesAccounted, Listed, ReadNode, SkipLine,
    LinePanics, LinesRead, Reading
<1>2. UNCHANGED <<format, text, out>>
  BY DEF ReadNode, SkipLine, LinePanics, LinesRead
<1>3. CASE ReadNode
  <2> DEFINE n == parse_line(text.items[at])[1]
  <2>1. nodes' = nodes \o <<n>> /\ Linked(n)
    BY <1>3, ParsedLinked DEF ReadNode
  <2>2. /\ at' = at + 1 /\ skipped' = skipped /\ phase' = "reading"
        /\ at <= Len(text.items) /\ Len(nodes) < MaxNodes
    BY <1>1, <1>3 DEF ReadNode, More, Reading
  <2> HIDE DEF n
  <2>3. /\ Listed(nodes') /\ Len(nodes') = Len(nodes) + 1
        /\ \A i \in DOMAIN nodes' : Linked(nodes'[i])
    <3>1. \A i \in DOMAIN nodes' : nodes'[i] = n \/ (i \in DOMAIN nodes /\ nodes'[i] = nodes[i])
      BY <1>1, <2>1, ListedAppend
    <3>2. Listed(nodes') /\ Len(nodes') = Len(nodes) + 1
      BY <1>1, <2>1, ListedAppend
    <3> QED
      BY <1>1, <2>1, <3>1, <3>2
  <2> QED
    BY <1>1, <1>2, <2>2, <2>3 DEF ReadingInv, LinesAccounted, Reading, ReadingEnded
<1>4. CASE SkipLine
  <2>1. /\ at' = at + 1 /\ skipped' = skipped + 1 /\ phase' = "reading" /\ nodes' = nodes
        /\ at <= Len(text.items)
    BY <1>1, <1>4 DEF SkipLine, More, Reading
  <2> QED
    BY <1>1, <1>2, <2>1 DEF ReadingInv, LinesAccounted, Reading, ReadingEnded
<1>5. CASE LinePanics
  BY <1>1, <1>2, <1>5 DEF LinePanics, ReadingInv, LinesAccounted, Reading, ReadingEnded
<1>6. CASE LinesRead
  <2>1. /\ phase' = "writing" /\ at' = 1 /\ nodes' = nodes /\ skipped' = skipped
        /\ ~(at <= Len(text.items) /\ Len(nodes) < MaxNodes)
    BY <1>6 DEF LinesRead, More
  <2>2. \/ Len(nodes) + skipped = Len(text.items)
        \/ Len(nodes) = MaxNodes /\ Len(nodes) + skipped < Len(text.items)
    <3>1. ASSUME NEW k \in Nat, NEW s \in Nat, NEW l \in Nat, NEW m \in Nat,
                 NEW a \in Nat \ {0},
                 k <= m, a <= l + 1, k + s = a - 1, ~(a <= l /\ k < m)
          PROVE  k + s = l \/ (k = m /\ k + s < l)
      BY <3>1
    <3> QED
      BY <1>1, <2>1, <3>1, Zenon
  <2>3. LinesAccounted'
    BY <1>1, <1>2, <2>1, <2>2 DEF LinesAccounted, Reading, ReadingEnded
  <2> QED
    BY <1>1, <1>2, <2>1, <2>3 DEF ReadingInv
<1> QED
  BY <1>3, <1>4, <1>5, <1>6

\* Reading a Clash configuration: its nodes are cut off at MAX_NODES.
LEMMA ReadClashStep == ASSUME ReadingInv, parse_clash_yaml PROVE ReadingInv'
<1> DEFINE parsed == [i \in DOMAIN text.items |-> clash_proxy_to_node(text.items[i])]
           S == {clash_proxy_to_node(text.items[i])[1] : i \in DOMAIN text.items}
           all == FlattenSeq(parsed)
           kept == IF Len(all) < MaxNodes THEN Len(all) ELSE MaxNodes
<1>1. /\ phase' = "writing" /\ at' = 1 /\ text.clash /\ nodes' = SubSeq(all, 1, kept)
      /\ UNCHANGED <<format, text, skipped, out>>
  BY DEF parse_clash_yaml
<1>2. all \in Seq(S)
  <2>1. \A e : clash_proxy_to_node(e) = <<>>
               \/ clash_proxy_to_node(e) = <<clash_proxy_to_node(e)[1]>>
    BY DEF clash_proxy_to_node, Ok
  <2>2. \A i \in DOMAIN text.items : clash_proxy_to_node(text.items[i]) \in Seq(S)
    <3> SUFFICES ASSUME NEW i \in DOMAIN text.items
                 PROVE  clash_proxy_to_node(text.items[i]) \in Seq(S)
      OBVIOUS
    <3>1. clash_proxy_to_node(text.items[i])[1] \in S
      OBVIOUS
    <3> DEFINE node == clash_proxy_to_node(text.items[i])
    <3>2. node = <<>> \/ node = <<node[1]>>
      BY <2>1
    <3> HIDE DEF S, node
    <3>3. node[1] \in S
      BY <3>1 DEF node
    <3>4. \A x \in S : <<x>> \in Seq(S)
      OBVIOUS
    <3>5. <<>> \in Seq(S)
      OBVIOUS
    <3>6. <<node[1]>> \in Seq(S)
      BY <3>3, <3>4, Zenon
    <3>7. node \in Seq(S)
      BY <3>2, <3>5, <3>6, Zenon
    <3> QED
      BY <3>7 DEF node
  <2>3. DOMAIN text.items = 1 .. Len(text.items) /\ Len(text.items) \in Nat
    BY DEF ReadingInv, Listed
  <2> HIDE DEF S
  <2>4. parsed \in Seq(Seq(S))
    BY <2>2, <2>3
  <2> HIDE DEF parsed
  <2> QED
    BY <2>4, Flattened
<1> HIDE DEF all, S
<1>3. Listed(nodes') /\ Len(nodes') <= MaxNodes
  <2>1. MaxNodes \in Nat /\ Len(all) \in Nat
    BY <1>2, SubscriptionsAssumption
  <2>2. nodes' \in Seq(S) /\ Len(nodes') <= MaxNodes
    BY <1>1, <1>2, <2>1
  <2> QED
    BY <2>2, ListedSeq
<1>4. at' = 1 /\ at' \in Nat \ {0} /\ text'.clash /\ phase' = "writing"
  BY <1>1
<1>5. /\ Listed(text'.items) /\ Listed(out') /\ format' \in Formats
      /\ text'.clash \in BOOLEAN /\ skipped' \in Nat
  BY <1>1 DEF ReadingInv
<1>6. LinesAccounted'
  BY <1>3, <1>4 DEF LinesAccounted
<1> HIDE DEF kept
<1> QED
  BY <1>3, <1>4, <1>5, <1>6 DEF ReadingInv

\* Writing changes nothing of what was read, and fails for no node of a link.
LEMMA WriteStep ==
  ASSUME ReadingInv, WriteNode \/ SkipNode \/ WriteFails \/ Joined PROVE ReadingInv'
<1>1. phase = "writing" /\ UNCHANGED <<format, text, nodes, skipped>> /\ at \in Nat \ {0}
  BY DEF ReadingInv, WriteNode, SkipNode, WriteFails, Joined, Writing
<1>2. CASE WriteNode
  <2>1. \A k : Lines(k) = <<k>> \/ \E m : Lines(k) = <<m, Junk>>
    BY DEF Lines
  <2>2. \A k : Listed(Lines(k))
    <3>1. \A k, m : Listed(<<k>>) /\ Listed(<<k, m>>)
      BY DEF Listed, ToSet
    <3> QED
      BY <2>1, <3>1
  <2>3. out' = out \o Lines(Written(nodes[at])[1]) /\ phase' = "writing" /\ at' = at + 1
    BY <1>1, <1>2 DEF WriteNode
  <2>4. Listed(out')
    BY <2>2, <2>3, ListedConcat DEF ReadingInv
  <2> QED
    BY <1>1, <2>3, <2>4 DEF ReadingInv, LinesAccounted, Reading, ReadingEnded
<1>3. CASE SkipNode
  BY <1>1, <1>3 DEF SkipNode, ReadingInv, LinesAccounted, Reading, ReadingEnded
<1>4. CASE WriteFails
  <2>1. /\ phase' = "failed" /\ at' = at /\ out' = out
        /\ format = "v2ray" /\ at <= Len(nodes)
        /\ nodes[at].kind \in V2rayKinds /\ Serialize(nodes[at]) = <<>>
    BY <1>4 DEF WriteFails, Writing, InFormat, Written
  <2>2. at \in DOMAIN nodes
    BY <1>1, <2>1 DEF ReadingInv, Listed
  <2>3. text.clash
    BY <2>1, <2>2, LinkedWritten DEF ReadingInv
  <2> QED
    BY <1>1, <2>1, <2>3 DEF ReadingInv, LinesAccounted, Reading, ReadingEnded
<1>5. CASE Joined
  BY <1>1, <1>5 DEF Joined, ReadingInv, LinesAccounted, Reading, ReadingEnded
<1> QED
  BY <1>2, <1>3, <1>4, <1>5

\* The answer is read like any other text.
LEMMA ReadAgainStep == ASSUME ReadingInv, ReadAgain PROVE ReadingInv'
<1>1. /\ text' = TextOf(out) /\ phase' = "reading" /\ at' = 1 /\ nodes' = <<>>
      /\ skipped' = 0 /\ out' = <<>> /\ format' = format
  BY DEF ReadAgain
<1>2. Listed(text'.items) /\ text'.clash \in BOOLEAN
  <2>1. text'.clash \in BOOLEAN
    BY <1>1 DEF TextOf
  <2>2. text'.items = out \/ text'.items = [i \in DOMAIN out |-> Junk]
    BY <1>1 DEF TextOf
  <2>3. Listed([i \in DOMAIN out |-> Junk])
    <3>1. [i \in DOMAIN out |-> Junk] \in Seq({Junk})
      BY DEF ReadingInv, Listed
    <3> QED
      BY <3>1, ListedSeq
  <2> QED
    BY <2>1, <2>2, <2>3 DEF ReadingInv
<1>3. Listed(nodes') /\ Listed(out') /\ Len(nodes') = 0 /\ DOMAIN nodes' = {}
  BY <1>1, ListedEmpty
<1>4. MaxNodes \in Nat /\ Len(text'.items) \in Nat
  BY <1>2, SubscriptionsAssumption DEF Listed
<1> QED
  BY <1>1, <1>2, <1>3, <1>4 DEF ReadingInv, LinesAccounted, Reading, ReadingEnded

\* Every step keeps the invariant.
LEMMA NextReading == ReadingInv /\ [Next]_vars => ReadingInv'
<1> SUFFICES ASSUME ReadingInv, [Next]_vars PROVE ReadingInv'
  OBVIOUS
<1>1. CASE UNCHANGED vars
  BY <1>1 DEF vars, ReadingInv, LinesAccounted, Reading, ReadingEnded
<1>2. CASE Next
  BY <1>1, <1>2, ReadLineStep, ReadClashStep, WriteStep, ReadAgainStep DEF Next, Terminated
<1> QED
  BY <1>1, <1>2

\* The invariant holds throughout.
LEMMA SpecReading == Spec => []ReadingInv
BY InitReading, NextReading, PTL DEF Spec

\* MAX_NODES bounds what any text yields, and every line that was read is a
\* node or is counted as skipped (parser.rs, parse_lines), for every text and
\* every bound.
THEOREM LinesAreAccounted == Spec => []LinesAccounted
<1>1. ReadingInv => LinesAccounted
  BY DEF ReadingInv
<1> QED
  BY <1>1, SpecReading, PTL

\* serialize_v2ray_plain gives up its whole answer for one node, and no node of
\* any link makes it do so: what a parser requires is what the serializer
\* requires.
THEOREM LinksAreServed == Spec => []LinksServed
<1>1. ReadingInv => LinksServed
  <2> SUFFICES ASSUME ReadingInv, ~text.clash, format = "v2ray",
                      NEW i \in DOMAIN nodes, InFormat(nodes[i])
               PROVE  ~Unreadable(nodes[i])
    BY DEF LinksServed, ReadingInv
  <2>1. Linked(nodes[i]) /\ nodes[i].kind \in V2rayKinds
    BY DEF ReadingInv, InFormat
  <2> QED
    BY <2>1, LinkedWritten
<1> QED
  BY <1>1, SpecReading, PTL

\* A link that was read and written by the serializer of its protocol is read
\* again as the same proxy (tests/roundtrip.rs), whatever its fields, or it is
\* of the nodes that Unreadable names; the line is passed on to the parser and
\* does not panic, and what a name of two lines leaves behind is no link.
THEOREM LinkReadBack ==
  ASSUME NEW l, Fields(l), format # "clash",
         parse_line(l) # <<>>, Serialize(parse_line(l)[1]) # <<>>
  PROVE  LET n == parse_line(l)[1]
             lines == Lines(Serialize(n)[1]) IN
         /\ ReadAs(lines[1], n)
         /\ \A i \in DOMAIN lines : ~Oversized(lines[i]) /\ ~Panics(lines[i])
         /\ \A i \in DOMAIN lines : i # 1 => parse_line(lines[i]) = <<>>
<1> DEFINE n == parse_line(l)[1]
           lines == Lines(Serialize(n)[1])
<1>1. Whole(n)
  BY ParsedWhole
<1> HIDE DEF n
<1>2. /\ ReadAs(lines[1], n) /\ lines[1].form \in {"base64", "plain"}
      /\ lines = <<lines[1]>> \/ lines = <<lines[1], Junk>>
  BY <1>1, WrittenBack DEF n
<1> HIDE DEF lines
<1>3. \A i \in DOMAIN lines : i = 1 \/ lines[i] = Junk
  BY <1>2
<1>4. Junk.form = "plain" /\ parse_line(Junk) = <<>>
  BY DEF Junk, parse_line
<1>5. \A i \in DOMAIN lines : ~Oversized(lines[i]) /\ ~Panics(lines[i])
  <2>1. \A i \in DOMAIN lines : lines[i].form \in {"base64", "plain"}
    BY <1>2, <1>3, <1>4
  <2> QED
    BY <2>1 DEF Oversized, Panics
<1> QED
  BY <1>2, <1>3, <1>4, <1>5 DEF n, lines
-----------------------------------------------------------------------------
(* What was written, and where it is read.                                 *)

\* Nothing is missing of a node, it is the one that was written, and the next
\* copy of it is the same.
Intact(n) == Whole(n) /\ Connected(n)
Restored(n, m) ==
  /\ SameProxy(n, m) /\ SameConnection(n, m) /\ Intact(m)
  /\ (format = "clash" \/ n.kind \in V2rayKinds) /\ Written(m) # <<>> => Settles(m)
  /\ Settles(n) => m = n

ReadsAs(item, n) ==
  LET m == ReadItem(item)[1] IN
  /\ ReadItem(item) = <<m>> /\ Restored(n, m)
  /\ format = "clash" => item.name = n.name /\ item.server = n.server

\* Every node of the history is read from the line or entry where it begins;
\* all others are passed over.
Origin(items, from) ==
  /\ Listed(from)
  /\ \A i \in DOMAIN from :
       from[i].line \in DOMAIN items /\ ReadsAs(items[from[i].line], from[i].node)
  /\ \A i, j \in DOMAIN from : i < j => from[i].line < from[j].line
  /\ \A k \in DOMAIN items :
       /\ ~Oversized(items[k])
       /\ (\A i \in DOMAIN from : from[i].line # k) => ReadItem(items[k]) = <<>>

\* The nodes that begin in the first k items are read.
ReadSoFar(ns, k, from) ==
  /\ Len(ns) <= Len(from)
  /\ \A i \in DOMAIN from : i <= Len(ns) <=> from[i].line <= k
  /\ \A i \in DOMAIN ns : Restored(from[i].node, ns[i])

\* A whole node is written as an item that is read as the node, or not at all;
\* a second line is junk.
LEMMA WrittenItem ==
  ASSUME NEW n, Intact(n), Written(n) # <<>>
  PROVE  LET lines == Lines(Written(n)[1])
             w == lines[1] IN
         /\ lines = <<w>> \/ lines = <<w, Junk>>
         /\ ~Oversized(w)
         /\ IF Unreadable(n) THEN ReadItem(w) = <<>> ELSE ReadsAs(w, n)
<1> DEFINE lines == Lines(Written(n)[1])
           w == lines[1]
<1>0. Whole(n) /\ Connected(n)
  BY DEF Intact
<1>3. ASSUME ReadItem(w) # <<>>, lines = <<w>> \/ lines = <<w, Junk>>
      PROVE  Settles(n) => ReadItem(w)[1] = n
  <2> SUFFICES ASSUME Settles(n) PROVE ReadItem(w)[1] = n
    OBVIOUS
  <2>1. Lines(Written(n)[1]) = <<Written(n)[1]>> /\ ReadItem(Written(n)[1]) = <<n>>
    BY DEF Settles
  <2>2. w = Written(n)[1]
    BY <2>1
  <2> QED
    BY <2>1, <2>2
<1>1. CASE format = "clash"
  <2> DEFINE e == proxy_to_clash(n)[1]
  <2>1. Written(n) = proxy_to_clash(n) /\ ReadItem(e) = clash_proxy_to_node(e)
    BY <1>1 DEF Written, ReadItem
  <2>2. /\ EntryFields(e) /\ Lines(e) = <<e>> /\ e.form \in {"entry", "no text"}
        /\ EntrySays(e.params, n) /\ e.scheme = n.kind /\ e.name = n.name
        /\ e.server = n.server
    <3>1. proxy_to_clash(n) # <<>>
      BY <1>0, <2>1
    <3>2. /\ EntryFields(e) /\ Lines(e) = <<e>> /\ e.form = EntryForm(n)
          /\ EntrySays(e.params, n) /\ e.scheme = n.kind /\ e.name = n.name
          /\ e.server = n.server
      BY <1>0, <3>1, EntryWritten, Zenon
    <3>3. EntryForm(n) \in {"entry", "no text"}
      BY Zenon DEF EntryForm
    <3> HIDE DEF e
    <3> QED
      BY <3>2, <3>3, Zenon
  <2>3. Written(n)[1] = e /\ lines = <<e>> /\ w = e
    <3>1. \A x : <<x>>[1] = x
      OBVIOUS
    <3>2. Written(n)[1] = e /\ lines = <<e>>
      BY <2>1, <2>2, Zenon
    <3> HIDE DEF e, lines
    <3> QED
      BY <3>1, <3>2
  <2>4. IF Unreadable(n) THEN ReadItem(e) = <<>>
        ELSE ReadItem(e) = <<ReadItem(e)[1]>> /\ SameProxy(n, ReadItem(e)[1])
             /\ EntryHolds(n, ReadItem(e)[1])
    BY <1>0, <1>1, <2>1, EntryBack
  <2>5. ReadItem(e) # <<>> => Whole(ReadItem(e)[1])
    BY <2>1, <2>2, EntryWhole
  <2>7. ASSUME ~Unreadable(n)
        PROVE  LET m == ReadItem(e)[1] IN SameConnection(n, m) /\ Connected(m)
    <3>1. clash_proxy_to_node(e) # <<>> /\ clash_proxy_to_node(e)[1].kind = n.kind
      BY <2>1, <2>4, <2>7 DEF SameProxy
    <3> HIDE DEF e
    <3> QED
      BY <1>0, <1>1, <2>1, <2>2, <3>1, EntryKept
  <2>8. ASSUME ~Unreadable(n), Written(ReadItem(e)[1]) # <<>>
        PROVE  Settles(ReadItem(e)[1])
    <3> DEFINE m == ReadItem(e)[1]
    <3>1. clash_proxy_to_node(e) = <<m>> /\ EntryHolds(n, m) /\ Whole(m) /\ Connected(m)
      BY <2>1, <2>4, <2>5, <2>7, <2>8
    <3>2. proxy_to_clash(m) # <<>>
      BY <1>1, <2>8 DEF Written
    <3> HIDE DEF m, e
    <3>3. Settles(m)
      BY <1>0, <1>1, <2>2, <2>8, <3>1, <3>2, EntrySettles
    <3> QED
      BY <3>3 DEF m
  <2>9. ~Unreadable(n) => (Settles(n) => ReadItem(e)[1] = n)
    BY <1>3, <2>3, <2>4
  <2> HIDE DEF e, lines
  <2>6. IF Unreadable(n) THEN ReadItem(e) = <<>> ELSE ReadsAs(e, n)
    <3> DEFINE m == ReadItem(e)[1]
    <3>1. CASE Unreadable(n)
      BY <2>4, <3>1
    <3>2. CASE ~Unreadable(n)
      <4>1. ReadItem(e) = <<m>> /\ SameProxy(n, m)
        BY <2>4, <3>2
      <4>2. ReadItem(e) # <<>>
        BY <4>1
      <4> HIDE DEF m
      <4>3. Whole(m) /\ SameConnection(n, m) /\ Connected(m)
        BY <2>5, <2>7, <3>2, <4>2 DEF m
      <4>4. /\ Written(m) # <<>> => Settles(m)
            /\ Settles(n) => m = n
        BY <2>8, <2>9, <3>2 DEF m
      <4>5. e.name = n.name /\ e.server = n.server
        BY <2>2
      <4>6. Restored(n, m)
        BY <4>1, <4>3, <4>4 DEF Restored, Intact
      <4> QED
        BY <3>2, <4>1, <4>5, <4>6 DEF ReadsAs, m
    <3> QED
      BY <3>1, <3>2
  <2> QED
    BY <2>2, <2>3, <2>6 DEF Oversized, lines
<1>2. CASE format # "clash"
  <2> DEFINE k == Serialize(n)[1]
  <2>1. Written(n) = Serialize(n) /\ Written(n)[1] = k /\ ReadItem(w) = parse_line(w)
    BY <1>2 DEF Written, ReadItem
  <2>2. /\ ReadAs(w, n) /\ Fields(w) /\ w.form \in {"base64", "plain"}
        /\ w.params = k.params /\ w.scheme = n.kind
        /\ lines = <<w>> \/ lines = <<w, Junk>>
    BY <1>0, <1>2, <2>1, WrittenBack
  <2> HIDE DEF lines
  <2>3. ReadItem(w) # <<>> => Whole(ReadItem(w)[1])
    BY <2>1, <2>2, ParsedWhole
  <2>5. ASSUME ~Unreadable(n)
        PROVE  LET m == ReadItem(w)[1] IN SameConnection(n, m) /\ Connected(m)
    <3>1. parse_line(w) # <<>> /\ parse_line(w)[1].kind = n.kind
      BY <2>2, <2>5 DEF ReadAs, SameProxy
    <3>3. n.kind \in Kinds
      BY <1>0 DEF Whole
    <3> HIDE DEF w
    <3> QED
      BY <1>0, <1>2, <2>1, <2>2, <3>1, <3>3, LinkKept
  <2>6. ASSUME ~Unreadable(n), n.kind \in V2rayKinds, Written(ReadItem(w)[1]) # <<>>
        PROVE  Settles(ReadItem(w)[1])
    <3> DEFINE m == ReadItem(w)[1]
    <3>1. parse_line(w) = <<m>>
      BY <2>1, <2>2, <2>6 DEF ReadAs
    <3>2. Whole(m) /\ Connected(m)
      BY <2>1, <2>3, <2>5, <2>6, <3>1
    <3>3. Serialize(m) # <<>> /\ Serialize(n) # <<>>
      BY <1>2, <2>1, <2>6 DEF Written
    <3> HIDE DEF m, w
    <3>4. Settles(m)
      BY <1>0, <1>2, <2>2, <2>6, <3>1, <3>2, <3>3, LinkSettles
    <3> QED
      BY <3>4 DEF m
  <2>7. ~Unreadable(n) => ReadItem(w) = <<ReadItem(w)[1]>> /\ SameProxy(n, ReadItem(w)[1])
    BY <2>1, <2>2 DEF ReadAs
  <2>8. ~Unreadable(n) => (Settles(n) => ReadItem(w)[1] = n)
    BY <1>3, <2>2, <2>7
  <2>4. IF Unreadable(n) THEN ReadItem(w) = <<>> ELSE ReadsAs(w, n)
    <3>1. Unreadable(n) => ReadItem(w) = <<>>
      BY <2>1, <2>2 DEF ReadAs
    <3> HIDE DEF w
    <3> QED
      BY <1>2, <2>3, <2>5, <2>6, <2>7, <2>8, <3>1 DEF ReadsAs, Restored, Intact
  <2> QED
    BY <2>2, <2>4 DEF Oversized, lines
<1> QED
  BY <1>1, <1>2

\* Junk is passed over in every format.
LEMMA JunkPassed == ReadItem(Junk) = <<>> /\ ~Oversized(Junk) /\ parse_line(Junk) = <<>>
BY DEF ReadItem, Junk, Oversized, parse_line, clash_proxy_to_node

\* One more item that is passed over.
LEMMA OriginSkips ==
  ASSUME NEW items, Listed(items), NEW from, Origin(items, from),
         NEW x, ~Oversized(x), ReadItem(x) = <<>>
  PROVE  Origin(items \o <<x>>, from) /\ Listed(items \o <<x>>)
<1> DEFINE t == items \o <<x>>
<1>1. /\ Listed(t) /\ DOMAIN t = 1 .. Len(items) + 1
      /\ \A i \in DOMAIN t : t[i] = IF i = Len(items) + 1 THEN x ELSE items[i]
  BY ListedAppend
<1>2. DOMAIN items = 1 .. Len(items) /\ Len(items) \in Nat
  BY DEF Listed
<1> HIDE DEF t
<1>3. \A i \in DOMAIN items : i \in DOMAIN t /\ t[i] = items[i]
  BY <1>1, <1>2
<1>4. \A i \in DOMAIN t : i \in DOMAIN items \/ t[i] = x
  BY <1>1, <1>2
<1>5. Origin(t, from)
  BY <1>3, <1>4 DEF Origin
<1> QED
  BY <1>1, <1>5 DEF t

\* One more item that is a node.
LEMMA OriginReads ==
  ASSUME NEW items, Listed(items), NEW from, Origin(items, from),
         NEW x, ~Oversized(x), NEW n, ReadsAs(x, n)
  PROVE  /\ Origin(items \o <<x>>, from \o <<[node |-> n, line |-> Len(items) + 1]>>)
         /\ Listed(items \o <<x>>)
<1> DEFINE t == items \o <<x>>
           r == [node |-> n, line |-> Len(items) + 1]
           f == from \o <<r>>
<1>1. /\ Listed(t) /\ DOMAIN t = 1 .. Len(items) + 1
      /\ \A i \in DOMAIN t : t[i] = IF i = Len(items) + 1 THEN x ELSE items[i]
  BY ListedAppend
<1>2. DOMAIN items = 1 .. Len(items) /\ Len(items) \in Nat
  BY DEF Listed
<1>3. /\ Listed(f) /\ DOMAIN f = 1 .. Len(from) + 1
      /\ \A i \in DOMAIN f : f[i] = IF i = Len(from) + 1 THEN r ELSE from[i]
  BY ListedAppend DEF Origin
<1>4. DOMAIN from = 1 .. Len(from) /\ Len(from) \in Nat
  BY DEF Origin, Listed
<1>5. r.node = n /\ r.line = Len(items) + 1
  OBVIOUS
<1> HIDE DEF t, r, f
<1>6. \A i \in DOMAIN items : i \in DOMAIN t /\ t[i] = items[i]
  BY <1>1, <1>2
<1>7. t[Len(items) + 1] = x /\ Len(items) + 1 \in DOMAIN t
  BY <1>1, <1>2
<1>8. \A i \in DOMAIN t : i \in DOMAIN items \/ i = Len(items) + 1
  BY <1>1, <1>2
<1>9. \A i \in DOMAIN from : i \in DOMAIN f /\ f[i] = from[i]
  BY <1>3, <1>4
<1>10. f[Len(from) + 1] = r /\ Len(from) + 1 \in DOMAIN f
  BY <1>3, <1>4
<1>11. \A i \in DOMAIN f : i \in DOMAIN from \/ i = Len(from) + 1
  BY <1>3, <1>4
<1>12. ASSUME NEW i \in DOMAIN f
       PROVE  f[i].line \in DOMAIN t /\ ReadsAs(t[f[i].line], f[i].node)
  <2>1. CASE i \in DOMAIN from
    BY <1>6, <1>9, <2>1 DEF Origin
  <2>2. CASE i = Len(from) + 1
    BY <1>5, <1>7, <1>10, <2>2
  <2> QED
    BY <1>11, <2>1, <2>2
<1>13. ASSUME NEW i \in DOMAIN f, NEW j \in DOMAIN f, i < j
       PROVE  f[i].line < f[j].line
  <2>1. i \in DOMAIN from
    BY <1>3, <1>4, <1>13
  <2>2. CASE j \in DOMAIN from
    BY <1>9, <1>13, <2>1, <2>2 DEF Origin
  <2>3. CASE j = Len(from) + 1
    <3>1. f[j].line = Len(items) + 1
      BY <1>5, <1>10, <2>3
    <3>2. f[i].line \in 1 .. Len(items)
      BY <1>2, <1>9, <2>1 DEF Origin
    <3> QED
      BY <1>2, <3>1, <3>2
  <2> QED
    BY <1>11, <2>2, <2>3
<1>14. ASSUME NEW k \in DOMAIN t
       PROVE  /\ ~Oversized(t[k])
              /\ (\A i \in DOMAIN f : f[i].line # k) => ReadItem(t[k]) = <<>>
  <2>1. CASE k \in DOMAIN items
    <3>1. t[k] = items[k] /\ ~Oversized(items[k])
      BY <1>6, <2>1 DEF Origin
    <3>2. (\A i \in DOMAIN f : f[i].line # k) => \A i \in DOMAIN from : from[i].line # k
      BY <1>9
    <3>3. (\A i \in DOMAIN from : from[i].line # k) => ReadItem(items[k]) = <<>>
      BY <2>1 DEF Origin
    <3> QED
      BY <3>1, <3>2, <3>3
  <2>2. CASE k = Len(items) + 1
    BY <1>5, <1>7, <1>10, <2>2
  <2> QED
    BY <1>8, <2>1, <2>2
<1>15. Origin(t, f)
  BY <1>3, <1>12, <1>13, <1>14 DEF Origin
<1> QED
  BY <1>1, <1>15 DEF t, f, r

\* The lines of a whole node are added to what was written.
LEMMA OriginWrites ==
  ASSUME NEW items, Listed(items), NEW from, Origin(items, from),
         NEW n, Intact(n), Written(n) # <<>>
  PROVE  Origin(items \o Lines(Written(n)[1]),
                IF Unreadable(n) THEN from
                ELSE from \o <<[node |-> n, line |-> Len(items) + 1]>>)
<1> DEFINE lines == Lines(Written(n)[1])
           w == lines[1]
           more == from \o <<[node |-> n, line |-> Len(items) + 1]>>
<1>1. /\ lines = <<w>> \/ lines = <<w, Junk>>
      /\ ~Oversized(w)
      /\ IF Unreadable(n) THEN ReadItem(w) = <<>> ELSE ReadsAs(w, n)
  BY WrittenItem
<1> HIDE DEF lines, w
<1>2. /\ Listed(items \o <<w>>)
      /\ Unreadable(n) => Origin(items \o <<w>>, from)
      /\ ~Unreadable(n) => Origin(items \o <<w>>, more)
  BY <1>1, OriginSkips, OriginReads
<1> HIDE DEF more
<1>3. CASE lines = <<w>>
  BY <1>2, <1>3 DEF lines, more
<1>4. CASE lines = <<w, Junk>>
  <2>1. items \o <<w, Junk>> = (items \o <<w>>) \o <<Junk>>
    <3> DEFINE S == ToSet(items) \cup {w, Junk}
    <3>1. items \in Seq(S) /\ w \in S /\ Junk \in S
      <4>1. items \in Seq(ToSet(items))
        BY DEF Listed
      <4>2. \A T, U : T \subseteq U => Seq(T) \subseteq Seq(U)
        OBVIOUS
      <4> QED
        BY <4>1, <4>2
    <3> HIDE DEF S
    <3> QED
      BY <3>1
  <2>2. /\ Unreadable(n) => Origin(items \o <<w, Junk>>, from)
        /\ ~Unreadable(n) => Origin(items \o <<w, Junk>>, more)
    <3> DEFINE t == items \o <<w>>
    <3> HIDE DEF t
    <3>1. ASSUME NEW g, Origin(t, g) PROVE Origin(t \o <<Junk>>, g)
      BY <1>2, <3>1, JunkPassed, OriginSkips DEF t
    <3> QED
      BY <1>2, <2>1, <3>1 DEF t
  <2> QED
    BY <1>4, <2>2 DEF lines, more
<1> QED
  BY <1>1, <1>3, <1>4

\* Nothing is read of nothing.
LEMMA ReadNothing ==
  ASSUME NEW items, Listed(items), NEW from, Origin(items, from)
  PROVE  ReadSoFar(<<>>, 0, from)
<1>1. \A i \in DOMAIN from : i \in Nat \ {0} /\ from[i].line \in Nat \ {0}
  BY DEF Origin, Listed
<1>2. Len(<<>>) = 0 /\ DOMAIN <<>> = {} /\ Len(from) \in Nat
  BY DEF Origin, Listed
<1> QED
  BY <1>1, <1>2 DEF ReadSoFar

\* All is read when all items are.
LEMMA ReadAll ==
  ASSUME NEW items, Listed(items), NEW from, Origin(items, from),
         NEW ns, Listed(ns), ReadSoFar(ns, Len(items), from)
  PROVE  Len(ns) = Len(from)
<1>1. Len(ns) \in Nat /\ Len(from) \in Nat /\ Len(items) \in Nat
  BY DEF Origin, Listed
<1>2. \A i \in DOMAIN from : from[i].line <= Len(items)
  BY DEF Origin, Listed
<1>3. DOMAIN from = 1 .. Len(from)
  BY DEF Origin, Listed
<1>4. \A i \in 1 .. Len(from) : i <= Len(ns)
  BY <1>2, <1>3 DEF ReadSoFar
<1>5. Len(ns) <= Len(from)
  BY DEF ReadSoFar
<1> QED
  BY <1>1, <1>4, <1>5

\* The next item: the next node of the history, or none.
LEMMA ReadOn ==
  ASSUME NEW items, Listed(items), NEW from, Origin(items, from),
         NEW ns, Listed(ns), NEW k \in Nat, k + 1 \in DOMAIN items,
         ReadSoFar(ns, k, from)
  PROVE  /\ ReadSoFar(ns \o ReadItem(items[k + 1]), k + 1, from)
         /\ Listed(ns \o ReadItem(items[k + 1]))
<1>1. /\ Len(ns) \in Nat /\ DOMAIN ns = 1 .. Len(ns)
      /\ Len(from) \in Nat /\ DOMAIN from = 1 .. Len(from)
      /\ \A i \in DOMAIN from : from[i].line \in Nat
  BY DEF Origin, Listed
<1>2. /\ Len(ns) <= Len(from)
      /\ \A i \in DOMAIN from : i <= Len(ns) <=> from[i].line <= k
      /\ \A i \in DOMAIN ns : Restored(from[i].node, ns[i])
  BY DEF ReadSoFar
<1>3. \A i, j \in DOMAIN from : i < j => from[i].line < from[j].line
  BY DEF Origin
<1>4. CASE \A i \in DOMAIN from : from[i].line # k + 1
  <2>1. ReadItem(items[k + 1]) = <<>>
    BY <1>4 DEF Origin
  <2>2. ns \o ReadItem(items[k + 1]) = ns
    BY <2>1 DEF Listed
  <2>3. \A i \in DOMAIN from : from[i].line <= k + 1 <=> from[i].line <= k
    BY <1>1, <1>4
  <2>4. ReadSoFar(ns, k + 1, from)
    BY <1>2, <2>3 DEF ReadSoFar
  <2> QED
    BY <2>2, <2>4
<1>5. CASE \E i \in DOMAIN from : from[i].line = k + 1
  <2>1. PICK i \in DOMAIN from : from[i].line = k + 1
    BY <1>5
  <2>2. ReadsAs(items[k + 1], from[i].node)
    BY <2>1 DEF Origin
  <2> DEFINE m == ReadItem(items[k + 1])[1]
             more == ns \o <<m>>
  <2>3. ReadItem(items[k + 1]) = <<m>> /\ Restored(from[i].node, m)
    BY <2>2 DEF ReadsAs
  <2>4. /\ Listed(more) /\ Len(more) = Len(ns) + 1 /\ DOMAIN more = 1 .. Len(ns) + 1
        /\ \A j \in DOMAIN more : more[j] = IF j = Len(ns) + 1 THEN m ELSE ns[j]
    BY ListedAppend
  <2> HIDE DEF m, more
  <2>5. i = Len(ns) + 1
    <3>1. i > Len(ns)
      BY <1>1, <1>2, <2>1
    <3>2. ASSUME i > Len(ns) + 1 PROVE FALSE
      <4> DEFINE j == Len(ns) + 1
      <4>1. j \in DOMAIN from /\ j < i
        BY <1>1, <3>2
      <4>2. from[j].line < k + 1 /\ ~(from[j].line <= k)
        BY <1>1, <1>2, <1>3, <2>1, <4>1
      <4> QED
        BY <1>1, <4>1, <4>2
    <3> QED
      BY <1>1, <3>1, <3>2
  <2>6. \A j \in DOMAIN from : j <= Len(ns) + 1 <=> from[j].line <= k + 1
    <3> SUFFICES ASSUME NEW j \in DOMAIN from
                 PROVE  j <= Len(ns) + 1 <=> from[j].line <= k + 1
      OBVIOUS
    <3>1. CASE j < i
      BY <1>1, <1>3, <2>1, <2>5, <3>1
    <3>2. CASE j = i
      BY <1>1, <2>1, <2>5, <3>2
    <3>3. CASE i < j
      BY <1>1, <1>3, <2>1, <2>5, <3>3
    <3> QED
      BY <1>1, <3>1, <3>2, <3>3
  <2>7. \A j \in DOMAIN more : Restored(from[j].node, more[j])
    BY <1>1, <1>2, <2>3, <2>4, <2>5
  <2>8. ReadSoFar(more, k + 1, from)
    BY <1>1, <2>4, <2>5, <2>6, <2>7 DEF ReadSoFar
  <2> QED
    BY <2>3, <2>4, <2>8 DEF more
<1> QED
  BY <1>4, <1>5

\* A Clash configuration is read as a whole.
LEMMA ReadFlat ==
  ASSUME NEW items, Listed(items), NEW from, Origin(items, from), NEW S,
         NEW seqs \in Seq(Seq(S)), Len(seqs) = Len(items),
         \A i \in 1 .. Len(items) : seqs[i] = ReadItem(items[i])
  PROVE  ReadSoFar(FlattenSeq(seqs), Len(items), from)
<1>1. PICK g \in [0 .. Len(seqs) -> Seq(S)] : Joins(g, seqs)
  BY Flattened
<1>2. DOMAIN items = 1 .. Len(items) /\ Len(items) \in Nat
  BY DEF Listed
<1> DEFINE Read == {k \in Nat : k <= Len(items) => ReadSoFar(g[k], k, from)}
<1>3. 0 \in Read
  BY <1>1, ReadNothing DEF Joins
<1>4. ASSUME NEW k \in Read PROVE k + 1 \in Read
  <2>1. k \in Nat /\ (k <= Len(items) => ReadSoFar(g[k], k, from))
    OBVIOUS
  <2>2. ASSUME k + 1 <= Len(items) PROVE ReadSoFar(g[k + 1], k + 1, from)
    <3>1. k <= Len(items) /\ k + 1 \in 1 .. Len(seqs) /\ k + 1 \in DOMAIN items
      BY <1>2, <2>1, <2>2
    <3>2. g[k + 1] = g[k] \o ReadItem(items[k + 1])
      <4>1. g[k + 1] = g[(k + 1) - 1] \o seqs[k + 1]
        BY <1>1, <3>1 DEF Joins
      <4>2. (k + 1) - 1 = k
        BY <2>1
      <4>3. seqs[k + 1] = ReadItem(items[k + 1])
        BY <3>1
      <4> QED
        BY <4>1, <4>2, <4>3
    <3>3. Listed(g[k])
      <4>1. k \in 0 .. Len(seqs)
        BY <1>2, <2>1, <3>1
      <4>2. g[k] \in Seq(S)
        BY <1>1, <4>1
      <4> QED
        BY <4>2, ListedSeq
    <3> QED
      BY <2>1, <3>1, <3>2, <3>3, ReadOn
  <2> QED
    BY <2>1, <2>2
<1>5. Read = Nat
  <2> HIDE DEF Read
  <2>1. Read \subseteq Nat
    BY DEF Read
  <2> QED
    BY <1>3, <1>4, <2>1, Counting
<1>6. ReadSoFar(g[Len(items)], Len(items), from)
  <2>1. Len(items) \in Read
    BY <1>2, <1>5
  <2> QED
    BY <1>2, <2>1
<1> QED
  BY <1>1, <1>6 DEF Joins

-----------------------------------------------------------------------------
(* From one text to the next.                                              *)

\* The invariant, beside ReadingInv: what is written can be traced to the nodes
\* that were read, and what is read to the nodes that were written.
RoundInv ==
  /\ pass \in Nat \ {0}
  /\ \A i \in DOMAIN nodes : Intact(nodes[i])
  /\ Origin(out, due)
  /\ phase = "reading" => due = <<>> /\ out = <<>>
  /\ phase = "writing" => Len(due) < at /\ at <= Len(nodes) + 1
  /\ pass = 1 => \A i \in DOMAIN text.items : IsItem(text.items[i], text.clash)
  /\ pass > 1 =>
       /\ Len(sent) <= MaxNodes
       /\ IF format = "clash" /\ ~text.clash
          THEN nodes = <<>> /\ \A i \in DOMAIN text.items : text.items[i] = Junk
          ELSE /\ text.clash <=> format = "clash"
               /\ Origin(text.items, sent)
               /\ Reading => ReadSoFar(nodes, at - 1, sent)
               /\ ReadingEnded => ReadSoFar(nodes, Len(text.items), sent)

\* The history means the same as long as the format does.
LEMMA SameFormat ==
  ASSUME format' = format
  PROVE  /\ \A items, from : Origin(items, from)' <=> Origin(items, from)
         /\ \A ns, k, from : ReadSoFar(ns, k, from)' <=> ReadSoFar(ns, k, from)
         /\ \A n : /\ Settles(n)' <=> Settles(n)
                   /\ InFormat(n)' <=> InFormat(n)
                   /\ Written(n)' = Written(n)
<1>1. \A n, m : SameProxy(n, m)' <=> SameProxy(n, m)
  BY DEF SameProxy, SameCredentials, Kept, KeptCipher
<1>7. \A n, m : SameConnection(n, m)' <=> SameConnection(n, m)
  <2>1. /\ \A n : SniOf(n)' = SniOf(n)
        /\ AlwaysTls' = AlwaysTls
    BY Zenon DEF SniOf, AlwaysTls
  <2>2. \A S : Kept(S)' = Kept(S)
    BY DEF Kept
  <2>3. \A n : KeptService(n)' = KeptService(n)
    BY <2>2 DEF KeptService
  <2>4. \A n, m : SameTls(n, m)' <=> SameTls(n, m)
    BY <2>1, <2>2 DEF SameTls
  <2>5. \A n, m : SameTransport(n, m)' <=> SameTransport(n, m)
    BY <2>2, <2>3 DEF SameTransport
  <2> QED
    BY <2>4, <2>5 DEF SameConnection
<1>2. \A item : ReadItem(item)' = ReadItem(item)
  BY DEF ReadItem
<1>8. \A n : Written(n)' = Written(n) /\ (InFormat(n)' <=> InFormat(n))
  BY DEF Written, InFormat
<1>9. \A n : Unreadable(n)' <=> Unreadable(n)
  BY Zenon DEF Unreadable
<1>10. \A n : Settles(n)' <=> Settles(n)
  BY <1>2, <1>8, <1>9, Zenon DEF Settles
<1>6. \A n, m : Restored(n, m)' <=> Restored(n, m)
  BY <1>1, <1>7, <1>8, <1>10 DEF Restored
<1>3. \A item, n : ReadsAs(item, n)' <=> ReadsAs(item, n)
  BY <1>2, <1>6 DEF ReadsAs
<1>4. \A items, from : Origin(items, from)' <=> Origin(items, from)
  BY <1>2, <1>3 DEF Origin
<1>5. \A ns, k, from : ReadSoFar(ns, k, from)' <=> ReadSoFar(ns, k, from)
  BY <1>6 DEF ReadSoFar
<1> QED
  BY <1>4, <1>5, <1>8, <1>10

\* Nothing was written yet.
LEMMA OriginEmpty == Origin(<<>>, <<>>)
<1>1. Listed(<<>>) /\ DOMAIN <<>> = {}
  BY ListedEmpty
<1> QED
  BY <1>1 DEF Origin

\* A line or entry of a first text leaves a node of which nothing is missing.
LEMMA ItemIntact ==
  ASSUME NEW item
  PROVE  /\ IsItem(item, FALSE) /\ parse_line(item) # <<>> => Intact(parse_line(item)[1])
         /\ IsItem(item, TRUE) /\ clash_proxy_to_node(item) # <<>> =>
              Intact(clash_proxy_to_node(item)[1])
<1>1. \A clash : IsItem(item, clash) => Fields(item)
  BY DEF IsItem, Fields, Keys, CredentialKeys
<1>2. IsItem(item, TRUE) => EntryFields(item)
  <2>1. IsItem(item, TRUE) =>
          item.server # "[v6]" /\ NotUtf8 \notin Raw(item.secret) /\ NotUtf8 \notin Raw(item.id)
    BY DEF IsItem, Raw
  <2> QED
    BY <1>1, <2>1 DEF EntryFields
<1>3. \A clash : IsItem(item, clash) => Connectable(item)
  BY PathAssumption, Zenon DEF IsItem, Connectable
<1> QED
  BY <1>1, <1>2, <1>3, ParsedWhole, EntryWhole, LinkConnected, EntryConnected DEF Intact

\* At first nothing was written.
LEMMA InitRound == Init => RoundInv
<1> SUFFICES ASSUME Init PROVE RoundInv
  OBVIOUS
<1>1. /\ pass = 1 /\ phase = "reading" /\ nodes = <<>> /\ out = <<>> /\ due = <<>>
      /\ \A i \in DOMAIN text.items : IsItem(text.items[i], text.clash)
  BY SubscriptionsAssumption DEF Init
<1> QED
  BY <1>1, OriginEmpty DEF RoundInv

\* A line that is read is the next of the history.
LEMMA ReadLineRound ==
  ASSUME ReadingInv, RoundInv, ReadNode \/ SkipLine \/ LinePanics \/ LinesRead
  PROVE  RoundInv'
<1>1. /\ phase = "reading" /\ ~text.clash /\ Reading
      /\ UNCHANGED <<format, text, pass, out, due, sent>>
  BY DEF ReadNode, SkipLine, LinePanics, LinesRead, Reading
<1>2. /\ Listed(text.items) /\ Listed(nodes) /\ at \in Nat \ {0}
      /\ Len(nodes) \in Nat /\ Len(text.items) \in Nat /\ MaxNodes \in Nat
      /\ DOMAIN text.items = 1 .. Len(text.items) /\ DOMAIN nodes = 1 .. Len(nodes)
      /\ due = <<>> /\ out = <<>>
      /\ Len(nodes) <= MaxNodes
  BY <1>1, SubscriptionsAssumption DEF ReadingInv, RoundInv, LinesAccounted, Listed
<1>3. Origin(out', due')
  BY <1>1 DEF RoundInv
<1>4. /\ pass > 1 /\ format # "clash" =>
           /\ Len(sent) <= MaxNodes /\ Len(sent) \in Nat
           /\ Origin(text.items, sent) /\ ReadSoFar(nodes, at - 1, sent)
      /\ pass > 1 /\ format = "clash" =>
           /\ Len(sent) <= MaxNodes /\ nodes = <<>>
           /\ \A i \in DOMAIN text.items : text.items[i] = Junk
  BY <1>1 DEF RoundInv, Origin, Listed
<1>5. CASE ReadNode \/ SkipLine
  <2>1. /\ at \in DOMAIN text.items /\ at' = at + 1 /\ phase' = "reading"
        /\ \/ ReadNode
           \/ nodes' = nodes /\ (Oversized(text.items[at]) \/ parse_line(text.items[at]) = <<>>)
    BY <1>1, <1>2, <1>5 DEF ReadNode, SkipLine, More
  <2>2. ReadNode => nodes' = nodes \o parse_line(text.items[at]) /\ parse_line(text.items[at]) # <<>>
    BY DEF ReadNode
  <2>3. Listed(nodes')
    BY <1>5, ReadLineStep DEF ReadingInv
  <2>4. CASE pass = 1
    <3>1. \A i \in DOMAIN nodes' : Intact(nodes'[i])
      <4>1. CASE ReadNode
        <5> DEFINE m == parse_line(text.items[at])[1]
        <5>1. Intact(m)
          <6>1. IsItem(text.items[at], text.clash) /\ text.clash = FALSE
            BY <1>1, <2>1, <2>4 DEF RoundInv, ReadingInv
          <6> QED
            BY <2>2, <4>1, <6>1, ItemIntact
        <5>2. nodes' = nodes \o <<m>>
          BY <2>2, <4>1, ParsedLinked
        <5> HIDE DEF m
        <5>3. \A i \in DOMAIN nodes' : nodes'[i] = m \/ (i \in DOMAIN nodes /\ nodes'[i] = nodes[i])
          BY <1>2, <5>2, ListedAppend
        <5> QED
          BY <5>1, <5>3 DEF RoundInv
      <4>2. CASE nodes' = nodes
        BY <4>2 DEF RoundInv
      <4> QED
        BY <2>1, <4>1, <4>2
    <3> QED
      BY <1>1, <1>2, <1>3, <2>1, <2>4, <3>1, SameFormat DEF RoundInv
  <2>5. CASE pass > 1 /\ format # "clash"
    <3> DEFINE item == text.items[(at - 1) + 1]
    <3>1. at - 1 \in Nat /\ (at - 1) + 1 = at /\ (at - 1) + 1 \in DOMAIN text.items
      BY <1>2, <2>1
    <3>2. item = text.items[at] /\ ReadItem(item) = parse_line(item) /\ ~Oversized(item)
      BY <1>4, <2>5, <3>1 DEF ReadItem, Origin
    <3>3. nodes' = nodes \o ReadItem(item)
      <4>1. nodes \o <<>> = nodes
        BY <1>2 DEF Listed
      <4> QED
        BY <2>1, <2>2, <3>2, <4>1
    <3>4. ReadSoFar(nodes', (at - 1) + 1, sent)
      <4> HIDE DEF item
      <4>1. ReadSoFar(nodes \o ReadItem(text.items[(at - 1) + 1]), (at - 1) + 1, sent)
        BY <1>2, <1>4, <2>5, <3>1, ReadOn
      <4> QED
        BY <3>3, <4>1 DEF item
    <3>5. at' - 1 = (at - 1) + 1
      BY <1>2, <2>1
    <3>6. ReadSoFar(nodes', at' - 1, sent') /\ Origin(text'.items, sent')
      BY <1>1, <1>4, <2>5, <3>4, <3>5
    <3>7. \A i \in DOMAIN nodes' : Intact(nodes'[i])
      BY <3>4 DEF ReadSoFar, Restored
    <3>8. ~ReadingEnded'
      BY <2>1 DEF ReadingEnded
    <3> QED
      BY <1>1, <1>2, <1>3, <1>4, <2>1, <2>5, <3>6, <3>7, <3>8, SameFormat DEF RoundInv
  <2>6. CASE pass > 1 /\ format = "clash"
    <3>1. text.items[at] = Junk
      BY <1>4, <2>1, <2>6
    <3>2. nodes' = nodes
      BY <2>1, <2>2, <3>1, JunkPassed
    <3> QED
      BY <1>1, <1>2, <1>3, <1>4, <2>1, <2>6, <3>2, SameFormat DEF RoundInv
  <2>7. pass = 1 \/ pass > 1
    BY DEF RoundInv
  <2> QED
    BY <2>4, <2>5, <2>6, <2>7
<1>6. CASE LinePanics
  <2>1. phase' = "panicked" /\ nodes' = nodes /\ at' = at
    BY <1>6 DEF LinePanics
  <2>2. ~Reading' /\ ~ReadingEnded'
    BY <2>1 DEF Reading, ReadingEnded
  <2> QED
    BY <1>1, <1>2, <1>3, <1>4, <2>1, <2>2, SameFormat DEF RoundInv
<1>7. CASE LinesRead
  <2>1. /\ phase' = "writing" /\ at' = 1 /\ nodes' = nodes
        /\ ~(at <= Len(text.items) /\ Len(nodes) < MaxNodes)
    BY <1>7 DEF LinesRead, More
  <2>2. ~Reading'
    BY <2>1 DEF Reading
  <2>3. pass > 1 /\ format # "clash" => ReadSoFar(nodes, Len(text.items), sent)
    <3> SUFFICES ASSUME pass > 1, format # "clash" PROVE ReadSoFar(nodes, Len(text.items), sent)
      OBVIOUS
    <3>1. CASE at - 1 = Len(text.items)
      BY <1>4, <3>1
    <3>2. CASE at - 1 # Len(text.items)
      <4>1. at <= Len(text.items) + 1
        BY <1>1 DEF ReadingInv
      <4>2. Len(nodes) = MaxNodes
        <5>1. ASSUME NEW k \in Nat, NEW l \in Nat, NEW m \in Nat, NEW a \in Nat \ {0},
                     k <= m, a <= l + 1, ~(a <= l /\ k < m), a - 1 # l
              PROVE  k = m
          BY <5>1
        <5> QED
          BY <1>2, <2>1, <3>2, <4>1, <5>1, Zenon
      <4>3. Len(sent) \in Nat /\ Len(sent) <= Len(nodes)
        BY <1>4, <4>2
      <4>4. \A i \in DOMAIN sent : i <= Len(nodes) /\ sent[i].line <= Len(text.items)
        <5>1. DOMAIN sent = 1 .. Len(sent)
          BY <1>4 DEF Origin, Listed
        <5>2. \A i \in DOMAIN sent : sent[i].line \in DOMAIN text.items
          BY <1>4 DEF Origin
        <5> QED
          BY <1>2, <4>3, <5>1, <5>2
      <4> QED
        BY <1>4, <4>4 DEF ReadSoFar
    <3> QED
      BY <3>1, <3>2
  <2>4. Len(due') < at' /\ at' <= Len(nodes') + 1
    <3>1. Len(<<>>) = 0
      OBVIOUS
    <3> QED
      BY <1>1, <1>2, <2>1, <3>1
  <2> QED
    BY <1>1, <1>2, <1>3, <1>4, <2>1, <2>2, <2>3, <2>4, SameFormat DEF RoundInv
<1> QED
  BY <1>5, <1>6, <1>7

\* A Clash configuration that is read as a whole leaves whole nodes, and all of
\* those that are due.
LEMMA ReadClashRound == ASSUME ReadingInv, RoundInv, parse_clash_yaml PROVE RoundInv'
<1> DEFINE seqs == [i \in DOMAIN text.items |-> clash_proxy_to_node(text.items[i])]
           S == {m \in {clash_proxy_to_node(text.items[i])[1] : i \in DOMAIN text.items} :
                   Intact(m)}
           all == FlattenSeq(seqs)
           kept == IF Len(all) < MaxNodes THEN Len(all) ELSE MaxNodes
<1>1. /\ phase = "reading" /\ phase' = "writing" /\ at' = 1 /\ text.clash
      /\ nodes' = SubSeq(all, 1, kept)
      /\ UNCHANGED <<format, text, pass, out, due, sent>>
  BY DEF parse_clash_yaml
<1>2. /\ Listed(text.items) /\ DOMAIN text.items = 1 .. Len(text.items)
      /\ Len(text.items) \in Nat /\ MaxNodes \in Nat /\ text.clash = TRUE
      /\ due = <<>> /\ out = <<>>
  BY <1>1, SubscriptionsAssumption DEF ReadingInv, RoundInv, Listed
<1>3. pass > 1 => /\ format = "clash" /\ Len(sent) <= MaxNodes /\ Len(sent) \in Nat
                  /\ Origin(text.items, sent)
  BY <1>1 DEF RoundInv, Origin, Listed
<1>4. \A i \in DOMAIN text.items : clash_proxy_to_node(text.items[i]) \in Seq(S)
  <2> SUFFICES ASSUME NEW i \in DOMAIN text.items
               PROVE  clash_proxy_to_node(text.items[i]) \in Seq(S)
    OBVIOUS
  <2> DEFINE node == clash_proxy_to_node(text.items[i])
  <2>1. node = <<>> \/ (node = <<node[1]>> /\ Intact(node[1]))
    <3>1. CASE pass = 1
      <4>1. IsItem(text.items[i], TRUE)
        BY <1>2, <3>1 DEF RoundInv
      <4>2. node = <<>> \/ node = <<node[1]>>
        BY DEF clash_proxy_to_node, Ok
      <4> QED
        BY <4>1, <4>2, ItemIntact
    <3>2. CASE pass > 1
      <4>1. ReadItem(text.items[i]) = node
        BY <1>3, <3>2 DEF ReadItem
      <4>2. CASE \E j \in DOMAIN sent : sent[j].line = i
        <5>1. PICK j \in DOMAIN sent : sent[j].line = i
          BY <4>2
        <5>2. ReadsAs(text.items[i], sent[j].node)
          BY <1>3, <3>2, <5>1 DEF Origin
        <5> HIDE DEF node
        <5> QED
          BY <4>1, <5>2 DEF ReadsAs, Restored
      <4>3. CASE \A j \in DOMAIN sent : sent[j].line # i
        BY <1>3, <3>2, <4>1, <4>3 DEF Origin
      <4> QED
        BY <4>2, <4>3
    <3>3. pass = 1 \/ pass > 1
      BY DEF RoundInv
    <3> QED
      BY <3>1, <3>2, <3>3
  <2>2. Intact(node[1]) => node[1] \in S
    OBVIOUS
  <2> HIDE DEF S, node
  <2>3. \A x \in S : <<x>> \in Seq(S)
    OBVIOUS
  <2>4. <<>> \in Seq(S)
    OBVIOUS
  <2>5. node \in Seq(S)
    BY <2>1, <2>2, <2>3, <2>4, Zenon
  <2> QED
    BY <2>5 DEF node
<1>5. \A m \in S : Intact(m)
  OBVIOUS
<1> HIDE DEF S
<1>6. /\ seqs \in Seq(Seq(S)) /\ Len(seqs) = Len(text.items)
      /\ \A i \in 1 .. Len(text.items) : seqs[i] = clash_proxy_to_node(text.items[i])
  BY <1>2, <1>4
<1> HIDE DEF seqs
<1>7. all \in Seq(S) /\ Len(all) \in Nat
  BY <1>6, Flattened
<1>8. pass > 1 => ReadSoFar(all, Len(text.items), sent) /\ Len(all) = Len(sent)
  <2> SUFFICES ASSUME pass > 1
               PROVE  ReadSoFar(all, Len(text.items), sent) /\ Len(all) = Len(sent)
    OBVIOUS
  <2>1. \A i \in 1 .. Len(text.items) : seqs[i] = ReadItem(text.items[i])
    BY <1>3, <1>6 DEF ReadItem
  <2>2. ReadSoFar(all, Len(text.items), sent)
    BY <1>2, <1>3, <1>6, <2>1, ReadFlat
  <2>3. Listed(all)
    BY <1>7, ListedSeq
  <2> HIDE DEF all
  <2> QED
    BY <1>2, <1>3, <2>2, <2>3, ReadAll
<1> HIDE DEF all
<1>9. kept \in Nat /\ kept <= Len(all) /\ (Len(all) <= MaxNodes => kept = Len(all))
  BY <1>2, <1>7
<1> HIDE DEF kept
<1>10. nodes' \in Seq(S) /\ (Len(all) <= MaxNodes => nodes' = all) /\ Len(nodes') \in Nat
  BY <1>1, <1>7, <1>9
<1>11. \A i \in DOMAIN nodes' : Intact(nodes'[i])
  BY <1>5, <1>10
<1>12. pass > 1 => ReadSoFar(nodes', Len(text.items), sent)
  BY <1>3, <1>8, <1>10
<1>13. Origin(out', due')
  BY <1>1 DEF RoundInv
<1>14. Len(due') < at' /\ at' <= Len(nodes') + 1
  <2>1. Len(<<>>) = 0
    OBVIOUS
  <2> QED
    BY <1>1, <1>2, <1>10, <2>1
<1>15. ~Reading'
  BY <1>1 DEF Reading
<1> QED
  BY <1>1, <1>2, <1>3, <1>11, <1>12, <1>13, <1>14, <1>15, SameFormat DEF RoundInv

\* What is written can be traced to its node.
LEMMA WriteRound ==
  ASSUME ReadingInv, RoundInv, WriteNode \/ SkipNode \/ WriteFails \/ Joined
  PROVE  RoundInv'
<1>1. /\ phase = "writing" /\ UNCHANGED <<format, text, pass, nodes, sent>>
      /\ at \in Nat \ {0} /\ phase' \in {"writing", "failed", "done"}
  BY DEF ReadingInv, WriteNode, SkipNode, WriteFails, Joined, Writing
<1>2. /\ Listed(out) /\ Listed(nodes) /\ DOMAIN nodes = 1 .. Len(nodes) /\ Len(nodes) \in Nat
      /\ Origin(out, due) /\ Listed(due) /\ Len(due) \in Nat
      /\ Len(due) < at /\ at <= Len(nodes) + 1
      /\ ReadingEnded /\ ~Reading'
  BY <1>1 DEF ReadingInv, RoundInv, Origin, Listed, ReadingEnded, Reading
<1>3. /\ pass' \in Nat \ {0} /\ \A i \in DOMAIN nodes' : Intact(nodes'[i])
      /\ phase' # "reading"
      /\ pass' = 1 => \A i \in DOMAIN text'.items : IsItem(text'.items[i], text'.clash)
      /\ pass' > 1 =>
           /\ Len(sent') <= MaxNodes
           /\ IF format' = "clash" /\ ~text'.clash
              THEN nodes' = <<>> /\ \A i \in DOMAIN text'.items : text'.items[i] = Junk
              ELSE /\ text'.clash <=> format' = "clash"
                   /\ Origin(text'.items, sent')
                   /\ ReadSoFar(nodes', Len(text'.items), sent')
  BY <1>1, <1>2 DEF RoundInv
<1>4. CASE WriteNode
  <2> DEFINE n == nodes[at]
             more == due \o <<[node |-> n, line |-> Len(out) + 1]>>
  <2>1. /\ at <= Len(nodes) /\ Written(n) # <<>>
        /\ out' = out \o Lines(Written(n)[1]) /\ due' = IF Unreadable(n) THEN due ELSE more
        /\ at' = at + 1 /\ phase' = "writing"
    BY <1>1, <1>4 DEF WriteNode, Writing
  <2>2. Intact(n)
    BY <1>1, <1>2, <2>1 DEF RoundInv
  <2>3. Len(more) = Len(due) + 1
    BY <1>2, ListedAppend
  <2> HIDE DEF n
  <2>4. Origin(out', due')
    BY <1>2, <2>1, <2>2, OriginWrites
  <2> HIDE DEF more
  <2>5. Len(due') < at' /\ at' <= Len(nodes') + 1
    BY <1>1, <1>2, <2>1, <2>3
  <2> QED
    BY <1>1, <1>2, <1>3, <2>1, <2>4, <2>5, SameFormat DEF RoundInv
<1>5. CASE SkipNode
  <2>1. UNCHANGED <<out, due>> /\ at' = at + 1 /\ at <= Len(nodes)
    BY <1>5 DEF SkipNode, Writing
  <2>2. Len(due') < at' /\ at' <= Len(nodes') + 1
    BY <1>1, <1>2, <2>1
  <2> QED
    BY <1>1, <1>2, <1>3, <2>1, <2>2, SameFormat DEF RoundInv
<1>6. CASE WriteFails \/ Joined
  <2>1. UNCHANGED <<out, due>> /\ at' = at
    BY <1>6 DEF WriteFails, Joined
  <2> QED
    BY <1>1, <1>2, <1>3, <2>1, SameFormat DEF RoundInv
<1> QED
  BY <1>4, <1>5, <1>6

\* What was written is what is read.
LEMMA ReadAgainRound == ASSUME ReadingInv, RoundInv, ReadAgain PROVE RoundInv'
<1>1. /\ phase = "writing" /\ at > Len(nodes) /\ format' = format
      /\ text' = TextOf(out) /\ pass' = pass + 1 /\ phase' = "reading" /\ at' = 1
      /\ sent' = due /\ due' = <<>> /\ nodes' = <<>> /\ out' = <<>>
  BY DEF ReadAgain
<1>2. /\ Listed(out) /\ Origin(out, due) /\ Len(due) \in Nat /\ Len(nodes) \in Nat
      /\ Len(due) < at /\ at <= Len(nodes) + 1 /\ Len(nodes) <= MaxNodes
      /\ MaxNodes \in Nat /\ pass \in Nat \ {0} /\ at \in Nat
  BY <1>1, SubscriptionsAssumption DEF ReadingInv, RoundInv, LinesAccounted, Origin, Listed
<1>3. Len(due) <= MaxNodes
  BY <1>2
<1>4. pass' \in Nat \ {0} /\ pass' # 1
  BY <1>1, <1>2
<1>5. DOMAIN nodes' = {} /\ at' - 1 = 0
  BY <1>1
<1>6. IF format = "clash" /\ ~text'.clash
      THEN \A i \in DOMAIN text'.items : text'.items[i] = Junk
      ELSE /\ text'.clash <=> format = "clash"
           /\ text'.items = out
  <2>1. CASE format = "clash" /\ \E i \in DOMAIN out : Torn(out[i])
    BY <1>1, <2>1 DEF TextOf
  <2>2. CASE ~(format = "clash" /\ \E i \in DOMAIN out : Torn(out[i]))
    BY <1>1, <2>2 DEF TextOf
  <2> QED
    BY <2>1, <2>2
<1>7. ReadSoFar(<<>>, 0, due)
  BY <1>2, ReadNothing
<1>8. ~ReadingEnded'
  BY <1>1 DEF ReadingEnded
<1> QED
  BY <1>1, <1>2, <1>3, <1>4, <1>5, <1>6, <1>7, <1>8, SameFormat, OriginEmpty DEF RoundInv

\* Every step keeps the invariant.
LEMMA NextRound == ReadingInv /\ RoundInv /\ [Next]_vars => RoundInv'
<1> SUFFICES ASSUME ReadingInv, RoundInv, [Next]_vars PROVE RoundInv'
  OBVIOUS
<1>1. CASE UNCHANGED vars
  <2>1. UNCHANGED <<format, text, pass, phase, at, nodes, skipped, out, due, sent>>
    BY <1>1 DEF vars
  <2>2. (Reading' <=> Reading) /\ (ReadingEnded' <=> ReadingEnded)
    BY <2>1 DEF Reading, ReadingEnded
  <2> QED
    BY <2>1, <2>2, SameFormat DEF RoundInv
<1>2. CASE Next
  BY <1>1, <1>2, ReadLineRound, ReadClashRound, WriteRound, ReadAgainRound
    DEF Next, Terminated
<1> QED
  BY <1>1, <1>2

\* The invariant holds throughout.
LEMMA SpecRound == Spec => [](ReadingInv /\ RoundInv)
<1>1. Init => ReadingInv /\ RoundInv
  BY InitReading, InitRound
<1>2. (ReadingInv /\ RoundInv) /\ [Next]_vars => (ReadingInv /\ RoundInv)'
  BY NextReading, NextRound
<1> QED
  BY <1>1, <1>2, PTL DEF Spec

\* What is written in an output format is read again as the nodes that it was
\* written from, in their order, but for those that Unreadable names
\* (serializer.rs, parser.rs, tests/roundtrip.rs): for every text, every format,
\* every MAX_NODES and however often the text is passed on.
THEOREM TextsAreReadBack == Spec => []ReadBack
<1>1. ReadingInv /\ RoundInv => ReadBack
  <2> SUFFICES ASSUME ReadingInv, RoundInv, ReadingEnded, pass > 1,
                      ~(format = "clash" /\ ~text.clash)
               PROVE  /\ Len(nodes) = Len(sent)
                      /\ \A i \in DOMAIN nodes : SameProxy(sent[i].node, nodes[i])
    BY DEF ReadBack, RoundInv
  <2>1. /\ Origin(text.items, sent) /\ ReadSoFar(nodes, Len(text.items), sent)
        /\ Listed(text.items) /\ Listed(nodes)
    BY DEF RoundInv, ReadingInv
  <2> QED
    BY <2>1, ReadAll DEF ReadSoFar, Restored
<1> QED
  BY <1>1, SpecRound, PTL

\* And they are reached as before: what is written of TLS and of the transport,
\* protocol by protocol (protocols/*.rs) and in YAML (formats/clash.rs), is what
\* is read, but for what the reference says that a format does not keep.
THEOREM ConnectionIsKept == Spec => []ConnectionKept
<1>1. ReadingInv /\ RoundInv => ConnectionKept
  <2> SUFFICES ASSUME ReadingInv, RoundInv, ReadingEnded, pass > 1,
                      format = "clash" => text.clash,
                      NEW i \in DOMAIN nodes
               PROVE  SameConnection(sent[i].node, nodes[i])
    BY DEF ConnectionKept
  <2>1. ReadSoFar(nodes, Len(text.items), sent)
    BY DEF RoundInv
  <2> QED
    BY <2>1 DEF ReadSoFar, Restored
<1> QED
  BY <1>1, SpecRound, PTL

-----------------------------------------------------------------------------
(* A text is its own output.                                               *)

\* Item by item, the text is what the nodes of the history are written as, and
\* each of these is its own copy; no entry is torn.
Mirror(items, from) ==
  /\ Listed(from) /\ Len(from) = Len(items)
  /\ \A i \in DOMAIN from :
       /\ InFormat(from[i].node) /\ Settles(from[i].node)
       /\ Written(from[i].node) = <<items[i]>>
       /\ format = "clash" => ~Torn(items[i])

\* The invariant, beside the two others: from the second text on, what is written
\* is its own copy, and from the third text on it is also what was read.
CanonInv ==
  format # "each" /\ pass > 1 =>
    /\ Mirror(out, due)
    /\ format = "clash" /\ text.clash =>
         \A i \in DOMAIN text.items : ~Torn(text.items[i])
    /\ pass > 2 =>
         /\ text.clash <=> format = "clash"
         /\ Mirror(text.items, sent)
         /\ phase = "writing" =>
              Len(out) = at - 1 /\ \A i \in DOMAIN out : out[i] = text.items[i]
         /\ phase = "done" => out = text.items

\* It means the same as long as the format does.
LEMMA SameMirror ==
  ASSUME format' = format
  PROVE  \A items, from : Mirror(items, from)' <=> Mirror(items, from)
BY SameFormat DEF Mirror

\* Nothing was written yet.
LEMMA MirrorEmpty == Mirror(<<>>, <<>>)
<1>1. Listed(<<>>) /\ DOMAIN <<>> = {}
  BY ListedEmpty
<1> QED
  BY <1>1 DEF Mirror

\* One more node that is its own copy.
LEMMA MirrorAppend ==
  ASSUME NEW items, Listed(items), NEW from, Mirror(items, from),
         NEW n, InFormat(n), Settles(n), NEW w, Written(n) = <<w>>,
         format = "clash" => ~Torn(w), NEW line
  PROVE  Mirror(items \o <<w>>, from \o <<[node |-> n, line |-> line]>>)
<1> DEFINE x == [node |-> n, line |-> line]
           more == from \o <<x>>
           longer == items \o <<w>>
<1>1. /\ Listed(more) /\ Len(more) = Len(from) + 1
      /\ \A i \in DOMAIN more : more[i] = IF i = Len(from) + 1 THEN x ELSE from[i]
      /\ DOMAIN more = 1 .. Len(from) + 1
  BY ListedAppend DEF Mirror
<1>2. /\ Len(longer) = Len(items) + 1
      /\ \A i \in DOMAIN longer : longer[i] = IF i = Len(items) + 1 THEN w ELSE items[i]
      /\ DOMAIN longer = 1 .. Len(items) + 1
  BY ListedAppend
<1>3. Len(from) = Len(items) /\ Len(from) \in Nat /\ DOMAIN from = 1 .. Len(from)
  BY DEF Mirror, Listed
<1>4. x.node = n
  OBVIOUS
<1> HIDE DEF x, more, longer
<1>5. ASSUME NEW i \in DOMAIN more
      PROVE  /\ InFormat(more[i].node) /\ Settles(more[i].node)
             /\ Written(more[i].node) = <<longer[i]>>
             /\ format = "clash" => ~Torn(longer[i])
  <2>1. CASE i = Len(from) + 1
    <3>1. more[i] = x /\ longer[i] = w
      BY <1>1, <1>2, <1>3, <2>1
    <3> QED
      BY <1>4, <3>1
  <2>2. CASE i # Len(from) + 1
    <3>1. i \in DOMAIN from /\ more[i] = from[i] /\ longer[i] = items[i]
      BY <1>1, <1>2, <1>3, <2>2
    <3> QED
      BY <3>1 DEF Mirror
  <2> QED
    BY <2>1, <2>2
<1>6. Mirror(longer, more)
  BY <1>1, <1>2, <1>3, <1>5 DEF Mirror
<1> QED
  BY <1>6 DEF longer, more, x

\* A node of the second text, or of a later one, that is written is its own copy;
\* if the node that it was written from is one too, they are the same.
LEMMA CopiedNode ==
  ASSUME ReadingInv, RoundInv, CanonInv, format # "each", pass > 1,
         phase = "writing", at <= Len(nodes)
  PROVE  LET n == nodes[at] IN
         /\ Len(nodes) = Len(sent) /\ at \in DOMAIN sent /\ at \in DOMAIN nodes
         /\ InFormat(n) /\ Written(n) # <<>> =>
              /\ Settles(n)
              /\ format = "clash" => ~Torn(Written(n)[1])
         /\ Settles(sent[at].node) => n = sent[at].node
<1> DEFINE n == nodes[at]
           s == sent[at].node
           item == text.items[sent[at].line]
<1>1. /\ at \in Nat \ {0} /\ Listed(nodes) /\ Listed(text.items) /\ ReadingEnded
      /\ DOMAIN nodes = 1 .. Len(nodes) /\ Len(nodes) \in Nat
  BY DEF ReadingInv, Listed, ReadingEnded
<1>2. at \in DOMAIN nodes
  BY <1>1
<1>3. ~(format = "clash" /\ ~text.clash)
  BY <1>2 DEF RoundInv
<1>4. Origin(text.items, sent) /\ ReadSoFar(nodes, Len(text.items), sent)
  BY <1>1, <1>3 DEF RoundInv
<1>5. Len(nodes) = Len(sent) /\ DOMAIN sent = 1 .. Len(sent)
  BY <1>1, <1>4, ReadAll DEF Origin, Listed
<1>6. at \in DOMAIN sent
  BY <1>1, <1>2, <1>5
<1>7. Restored(s, n)
  BY <1>2, <1>4 DEF ReadSoFar
<1>8. sent[at].line \in DOMAIN text.items /\ ReadsAs(item, s)
  BY <1>4, <1>6 DEF Origin
<1>9. format = "clash" => ~Torn(item)
  BY <1>3, <1>8 DEF CanonInv
<1> HIDE DEF n, s, item
<1>10. n.kind = s.kind /\ Whole(n)
  BY <1>7 DEF Restored, SameProxy, Intact
<1>11. InFormat(n) /\ Written(n) # <<>> => Settles(n)
  <2>1. format \in {"v2ray", "clash"}
    BY SubscriptionsAssumption DEF ReadingInv
  <2> QED
    BY <1>7, <1>10, <2>1 DEF Restored, InFormat
<1>12. ASSUME format = "clash", Written(n) # <<>> PROVE ~Torn(Written(n)[1])
  <2>1. n.name = s.name /\ s.name = item.name /\ n.server = s.server /\ s.server = item.server
    BY <1>7, <1>8, <1>9, <1>12 DEF Restored, SameProxy, ReadsAs, Torn
  <2>2. Written(n) = proxy_to_clash(n)
    BY <1>12 DEF Written
  <2>3. /\ proxy_to_clash(n)[1].name = n.name
        /\ proxy_to_clash(n)[1].server = n.server
    BY <1>10, <1>12, <2>2, EntryWritten
  <2> QED
    BY <1>9, <1>12, <2>1, <2>2, <2>3 DEF Torn
<1>13. Settles(s) => n = s
  BY <1>7 DEF Restored
<1> QED
  BY <1>2, <1>5, <1>6, <1>11, <1>12, <1>13 DEF n, s

\* While a text is read nothing is written.
LEMMA ReadCanon ==
  ASSUME RoundInv, CanonInv,
         ReadNode \/ SkipLine \/ LinePanics \/ LinesRead \/ parse_clash_yaml
  PROVE  CanonInv'
<1>1. /\ phase = "reading" /\ UNCHANGED <<format, text, pass, out, due, sent>>
      /\ phase' \in {"reading", "panicked"} \/ (phase' = "writing" /\ at' = 1)
  BY DEF ReadNode, SkipLine, LinePanics, LinesRead, parse_clash_yaml, Reading
<1>2. out = <<>>
  BY <1>1 DEF RoundInv
<1>3. Len(out) = 0 /\ DOMAIN out = {}
  BY <1>2
<1>4. \A items, from : Mirror(items, from)' <=> Mirror(items, from)
  BY <1>1, SameMirror
<1>5. CASE phase' \in {"reading", "panicked"}
  BY <1>1, <1>4, <1>5 DEF CanonInv
<1>6. CASE phase' = "writing" /\ at' = 1
  <2>1. Len(out') = at' - 1 /\ DOMAIN out' = {}
    BY <1>1, <1>3, <1>6
  <2> QED
    BY <1>1, <1>4, <1>6, <2>1 DEF CanonInv
<1> QED
  BY <1>1, <1>5, <1>6

\* What is written is its own copy, and what was read.
LEMMA WriteCanon ==
  ASSUME ReadingInv, RoundInv, CanonInv, WriteNode \/ SkipNode \/ WriteFails \/ Joined
  PROVE  CanonInv'
<1> SUFFICES ASSUME format # "each", pass > 1 PROVE CanonInv'
  <2>1. format' = format /\ pass' = pass
    BY DEF WriteNode, SkipNode, WriteFails, Joined
  <2> QED
    BY <2>1 DEF CanonInv
<1>1. /\ phase = "writing" /\ UNCHANGED <<format, text, pass, nodes, sent>>
      /\ at \in Nat \ {0} /\ Listed(out) /\ Len(out) \in Nat
  BY DEF ReadingInv, Listed, WriteNode, SkipNode, WriteFails, Joined, Writing
<1>2. \A items, from : Mirror(items, from)' <=> Mirror(items, from)
  BY <1>1, SameMirror
<1>3. /\ Mirror(out, due)
      /\ format = "clash" /\ text.clash =>
           \A i \in DOMAIN text.items : ~Torn(text.items[i])
      /\ pass > 2 =>
           /\ text.clash <=> format = "clash"
           /\ Mirror(text.items, sent)
           /\ Len(out) = at - 1 /\ \A i \in DOMAIN out : out[i] = text.items[i]
  BY <1>1 DEF CanonInv
<1>4. CASE WriteNode
  <2> DEFINE n == nodes[at]
             w == Written(n)[1]
             more == due \o <<[node |-> n, line |-> Len(out) + 1]>>
  <2>1. /\ at <= Len(nodes) /\ InFormat(n) /\ Written(n) # <<>>
        /\ out' = out \o Lines(w) /\ due' = IF Unreadable(n) THEN due ELSE more
        /\ at' = at + 1 /\ phase' = "writing"
    BY <1>1, <1>4 DEF WriteNode, Writing
  <2>2. /\ Settles(n)
        /\ format = "clash" => ~Torn(w)
        /\ at \in DOMAIN sent /\ (Settles(sent[at].node) => n = sent[at].node)
    BY <1>1, <2>1, CopiedNode
  <2>3. ~Unreadable(n) /\ Written(n) = <<w>> /\ Lines(w) = <<w>>
    BY <2>2 DEF Settles
  <2>4. out' = out \o <<w>> /\ due' = more
    BY <2>1, <2>3
  <2>5. pass > 2 => w = text.items[at]
    <3> SUFFICES ASSUME pass > 2 PROVE w = text.items[at]
      OBVIOUS
    <3>1. Settles(sent[at].node) /\ Written(sent[at].node) = <<text.items[at]>>
      BY <1>3, <2>2 DEF Mirror
    <3>2. Written(n) = <<text.items[at]>>
      BY <2>2, <3>1
    <3> HIDE DEF n
    <3> QED
      BY <3>2
  <2> HIDE DEF w, n
  <2>6. Mirror(out', due')
    BY <1>1, <1>3, <2>1, <2>2, <2>3, <2>4, MirrorAppend
  <2>7. pass > 2 => Len(out') = at' - 1 /\ \A i \in DOMAIN out' : out'[i] = text.items[i]
    <3>1. /\ Len(out') = Len(out) + 1 /\ DOMAIN out' = 1 .. Len(out) + 1
          /\ \A i \in DOMAIN out' : out'[i] = IF i = Len(out) + 1 THEN w ELSE out[i]
      BY <1>1, <2>4, ListedAppend
    <3>2. DOMAIN out = 1 .. Len(out)
      BY <1>1 DEF Listed
    <3> QED
      BY <1>1, <1>3, <2>1, <2>5, <3>1, <3>2
  <2> QED
    BY <1>1, <1>2, <1>3, <2>1, <2>6, <2>7 DEF CanonInv
<1>5. CASE SkipNode
  <2>1. /\ UNCHANGED <<out, due>> /\ phase' = "writing" /\ at <= Len(nodes)
        /\ ~InFormat(nodes[at]) \/ Written(nodes[at]) = <<>>
    BY <1>1, <1>5 DEF SkipNode, Writing
  <2>2. ASSUME pass > 2 PROVE FALSE
    <3>1. at \in DOMAIN sent /\ (Settles(sent[at].node) => nodes[at] = sent[at].node)
      BY <1>1, <2>1, CopiedNode
    <3>2. /\ InFormat(sent[at].node) /\ Settles(sent[at].node)
          /\ Written(sent[at].node) = <<text.items[at]>>
      BY <1>3, <2>2, <3>1 DEF Mirror
    <3>3. <<text.items[at]>> # <<>>
      OBVIOUS
    <3> QED
      BY <2>1, <3>1, <3>2, <3>3
  <2> QED
    BY <1>1, <1>2, <1>3, <2>1, <2>2 DEF CanonInv
<1>6. CASE WriteFails
  <2>1. UNCHANGED <<out, due>> /\ phase' = "failed"
    BY <1>6 DEF WriteFails
  <2> QED
    BY <1>1, <1>2, <1>3, <2>1 DEF CanonInv
<1>7. CASE Joined
  <2>1. UNCHANGED <<out, due>> /\ phase' = "done" /\ at > Len(nodes)
    BY <1>7 DEF Joined
  <2>2. ASSUME pass > 2 PROVE out = text.items
    <3>1. /\ Listed(nodes) /\ Listed(text.items) /\ ReadingEnded
          /\ Len(nodes) \in Nat /\ at <= Len(nodes) + 1
      BY <1>1 DEF ReadingInv, RoundInv, Listed, ReadingEnded
    <3>2. Origin(text.items, sent) /\ ReadSoFar(nodes, Len(text.items), sent)
      BY <1>3, <2>2, <3>1 DEF RoundInv
    <3>3. Len(nodes) = Len(sent) /\ Len(sent) = Len(text.items)
      BY <1>3, <2>2, <3>1, <3>2, ReadAll DEF Mirror
    <3>4. Len(out) = Len(text.items)
      BY <1>1, <1>3, <2>1, <2>2, <3>1, <3>3
    <3>5. \A i \in 1 .. Len(out) : out[i] = text.items[i]
      BY <1>1, <1>3, <2>2 DEF Listed
    <3> QED
      BY <1>1, <3>1, <3>4, <3>5 DEF Listed
  <2> QED
    BY <1>1, <1>2, <1>3, <2>1, <2>2 DEF CanonInv
<1> QED
  BY <1>4, <1>5, <1>6, <1>7

\* What was written is read: its own copy, from the third text on.
LEMMA ReadAgainCanon == ASSUME ReadingInv, RoundInv, CanonInv, ReadAgain PROVE CanonInv'
<1>1. /\ format' = format /\ text' = TextOf(out) /\ pass' = pass + 1 /\ phase' = "reading"
      /\ sent' = due /\ due' = <<>> /\ out' = <<>>
  BY DEF ReadAgain
<1>2. Mirror(out', due')
  BY <1>1, MirrorEmpty
<1>3. \A items, from : Mirror(items, from)' <=> Mirror(items, from)
  BY <1>1, SameMirror
<1>4. format = "clash" /\ text'.clash =>
        \A i \in DOMAIN text'.items : ~Torn(text'.items[i])
  BY <1>1 DEF TextOf
<1>5. ASSUME format # "each", pass' > 2
      PROVE  (text'.clash <=> format = "clash") /\ Mirror(text'.items, sent')
  <2>1. pass > 1 /\ Listed(out)
    BY <1>1, <1>5 DEF ReadingInv, RoundInv
  <2>2. Mirror(out, due)
    BY <1>5, <2>1 DEF CanonInv
  <2>3. format = "clash" => \A i \in DOMAIN out : ~Torn(out[i])
    BY <2>1, <2>2 DEF Mirror, Listed
  <2>4. (text'.clash <=> format = "clash") /\ text'.items = out
    BY <1>1, <2>3 DEF TextOf
  <2> QED
    BY <1>1, <2>2, <2>4
<1> QED
  BY <1>1, <1>2, <1>3, <1>4, <1>5 DEF CanonInv

\* Every step keeps the invariant.
LEMMA NextCanon == ReadingInv /\ RoundInv /\ CanonInv /\ [Next]_vars => CanonInv'
<1> SUFFICES ASSUME ReadingInv, RoundInv, CanonInv, [Next]_vars PROVE CanonInv'
  OBVIOUS
<1>1. CASE UNCHANGED vars
  <2>1. UNCHANGED <<format, text, pass, phase, at, nodes, skipped, out, due, sent>>
    BY <1>1 DEF vars
  <2>2. \A items, from : Mirror(items, from)' <=> Mirror(items, from)
    BY <2>1, SameMirror
  <2> QED
    BY <2>1, <2>2 DEF CanonInv
<1>2. CASE Next
  BY <1>1, <1>2, ReadCanon, WriteCanon, ReadAgainCanon DEF Next, Terminated
<1> QED
  BY <1>1, <1>2

\* The invariants hold throughout.
LEMMA SpecCanon == Spec => [](ReadingInv /\ RoundInv /\ CanonInv)
<1>1. Init => ReadingInv /\ RoundInv /\ CanonInv
  <2>1. Init => CanonInv
    BY DEF Init, CanonInv
  <2> QED
    BY <2>1, InitReading, InitRound
<1>2. (ReadingInv /\ RoundInv /\ CanonInv) /\ [Next]_vars => (ReadingInv /\ RoundInv /\ CanonInv)'
  BY NextReading, NextRound, NextCanon
<1> QED
  BY <1>1, <1>2, PTL DEF Spec

\* Parsing and serialising are idempotent (vmess.rs: "保证 parse->serialize 幂等"):
\* whatever a source answered, from the third text on what is written in an output
\* format is what was read, line by line and entry by entry.
THEOREM OutputIsCanonical == Spec => [](format # "each" => Canonical)
<1>1. ReadingInv /\ RoundInv /\ CanonInv => (format # "each" => Canonical)
  <2> SUFFICES ASSUME ReadingInv, RoundInv, CanonInv, format # "each",
                      phase = "done", pass > 2
               PROVE  TextOf(out).items = text.items
    BY DEF Canonical
  <2>1. Mirror(out, due) /\ Listed(out) /\ out = text.items
    BY DEF CanonInv, ReadingInv, RoundInv
  <2>2. format = "clash" => \A i \in DOMAIN out : ~Torn(out[i])
    BY <2>1 DEF Mirror, Listed
  <2> QED
    BY <2>1, <2>2 DEF TextOf
<1> QED
  BY <1>1, SpecCanon, PTL
=============================================================================
