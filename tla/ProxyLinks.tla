----------------------------- MODULE ProxyLinks -----------------------------
(***************************************************************************)
(* The protocol parsers and serializers of crates/proxy-core/src: what a   *)
(* share link or an entry of a Clash configuration says about a node, and  *)
(* what a node becomes when it is written as a link again.                 *)
(*                                                                         *)
(* A link is what its parser can tell apart: scheme, user information,     *)
(* address, parameters and name, each a member of a small set.  A text in  *)
(* it is escaped (percent-encoded, or quoted in YAML) or bare; "form" is   *)
(* how a whole payload is coded.  The JSON of vmess, the payload of ssr    *)
(* and an entry of a Clash configuration have the same shape; of an entry, *)
(* "form" says whether its name and its server are texts to YAML.  An      *)
(* Option is a set with at most one member; a parser and a serializer      *)
(* return a sequence, empty for Err.                                       *)
(***************************************************************************)
EXTENDS Integers, Sequences

Keys == {"cipher", "aid", "security", "sni", "fp", "alpn", "insecure", "type",
         "path", "host", "auth", "publicKey", "privateKey"}

IsOption(S) == \A x, y \in S : x = y
Or(a, b) == IF a # {} THEN a ELSE b
OrElse(a, default) == CHOOSE x \in Or(a, {default}) : TRUE

-----------------------------------------------------------------------------
(* Texts.                                                                  *)

Bare(s) == [raw |-> s, escaped |-> FALSE]
urlencode(s) == [raw |-> s, escaped |-> TRUE]
BareAll(opt) == {Bare(s) : s \in opt}
Encoded(opt) == {urlencode(s) : s \in opt}

\* A bare text may look like an encoded one, of bytes that are UTF-8 or not.
NotUtf8 == "not UTF-8"
percent_decode(t) ==
  IF t.escaped THEN t.raw
  ELSE CASE t.raw = "p%41" -> "pA"
         [] t.raw = "p%FF" -> NotUtf8
         [] OTHER -> t.raw

Decodes(opt) == \A t \in opt : percent_decode(t) # NotUtf8
Decoded(opt) == {percent_decode(t) : t \in opt}

\* The parameter k of a URI: unwrap_or_default.
Param(l, k) == {IF v = NotUtf8 THEN "" ELSE v : v \in Decoded(l.params[k])}

\* The same of a JSON value, and as_str of YAML ones: bare digits are a number,
\* nothing at all is null.
Value(l, k) == {t.raw : t \in l.params[k]}
AsStr(opt) == {t.raw : t \in {u \in opt : u.escaped \/ u.raw \notin {"12", ""}}}
Entry(e, k) == AsStr(e.params[k])

\* An alpn list in one text, with commas in a link and as a list in YAML.
Comma == ","
Dash == "- "
Both(sep) == IF sep = Comma THEN "h2,h3" ELSE "h2- h3"
Split(s, sep) == IF s = Both(sep) THEN <<"h2", "h3">> ELSE <<s>>
Join(list, sep) == IF list = <<"h2", "h3">> THEN Both(sep) ELSE list[1]
AlpnList(opt, sep) == IF opt = {} THEN <<>> ELSE Split(OrElse(opt, ""), sep)

\* trim_start_matches('/') of a path, and the service name as a path.
Service(path) ==
  CASE path \in {"/p", "//p", "///p"} -> "p" [] path \in {"/", "//"} -> ""
    [] path = "/12" -> "12" [] OTHER -> path
Slashed(service) == "/" \o service

\* parse_host_port of an IPv6 address; port 0 stands for an address or a port
\* that is missing or no address or no u16.
Address(l) == IF l.server = "[v6]" THEN "v6" ELSE l.server

\* Addresses that have colons of their own: two IPv6 ones without brackets, of
\* which one ends in two.
Colons == {"v6", "v6::"}

\* What YAML does not read as a text when it is written bare: digits are a
\* number, nothing is null, and brackets are a list.
NoText == {"12", "", "[v6]"}

\* Crypto::from_str, and as_str of the result.
Cipher(method) ==
  IF method \in {"2022-blake3-aes-256-gcm", "none"} THEN "plain" ELSE method

-----------------------------------------------------------------------------
(* Parsers.                                                                *)

Node(l, id, password, tls, transport) ==
  [kind |-> l.scheme, name |-> l.name, server |-> l.server, port |-> l.port,
   crypto |-> {}, password |-> password, uuid |-> id, alter_id |-> {},
   tls |-> tls, transport |-> transport]

Ok(l, node) == IF l.port = 0 THEN <<>> ELSE <<node>>
OkUri(l, node) == Ok(l, [node EXCEPT !.server = Address(l)])

Tls(sni, alpn, insecure, fp) ==
  [sni |-> sni, alpn |-> alpn, insecure |-> insecure, fingerprint |-> fp]

\* Mutant: the slash that is written before a service name stays.
TransportUntrimmed(net, path, host) ==
  CASE net = "ws" -> {[net |-> "ws", path |-> path, host |-> host]}
    [] net = "grpc" -> {[net |-> "grpc", path |-> path, host |-> {}]}
    [] net \in {"httpupgrade", "http"} ->
         {[net |-> "httpupgrade", path |-> path, host |-> host]}
    [] OTHER -> {}

Transport(net, path, host) ==
  CASE net = "ws" -> {[net |-> "ws", path |-> path, host |-> host]}
    [] net = "grpc" -> {[net |-> "grpc", path |-> Service(path), host |-> {}]}
    [] net \in {"httpupgrade", "http"} ->
         {[net |-> "httpupgrade", path |-> path, host |-> host]}
    [] OTHER -> {}

\* What vless and trojan share: the match over the query.
UriTls(l) ==
  Tls(Or(Param(l, "sni"), Param(l, "host")),
      AlpnList(Param(l, "alpn"), Comma), Param(l, "insecure") = {"1"}, Param(l, "fp"))
UriTransport(l) ==
  LET net == OrElse(Param(l, "type"), "tcp") IN
  IF net = "http" THEN {}
  ELSE Transport(net, OrElse(Param(l, "path"), ""), Param(l, "host"))

\* Mutant: a link without user information is a node.
parse_vless_any_user(l) ==
  OkUri(l, Node(l, {OrElse(l.id, "")}, {},
          IF Param(l, "security") \in {{"tls"}, {"reality"}} THEN {UriTls(l)} ELSE {},
          UriTransport(l)))

parse_vless(l) ==
  IF l.id \subseteq {""} THEN <<>>
  ELSE OkUri(l, Node(l, l.id, {},
            IF Param(l, "security") \in {{"tls"}, {"reality"}} THEN {UriTls(l)} ELSE {},
            UriTransport(l)))

parse_trojan(l) ==
  IF ~Decodes(l.secret) \/ Decoded(l.secret) \subseteq {""} THEN <<>>
  ELSE OkUri(l, Node(l, {}, Decoded(l.secret),
            IF Param(l, "security") = {"none"} THEN {} ELSE {UriTls(l)},
            UriTransport(l)))

VmessSni(l) == Or(Value(l, "sni") \ {""}, Value(l, "host"))

parse_vmess(l) ==
  LET tls == Tls(VmessSni(l), AlpnList(Value(l, "alpn") \ {""}, Comma),
                 Value(l, "insecure") = {"1"}, Value(l, "fp") \ {""}) IN
  IF l.form # "base64" THEN <<>>
  ELSE Ok(l, [Node(l, l.id, {},
                IF Value(l, "security") \in {{"tls"}, {"reality"}} THEN {tls} ELSE {},
                Transport(OrElse(Value(l, "type"), "tcp"), OrElse(Value(l, "path"), ""),
                          Value(l, "host")))
              EXCEPT !.alter_id = Value(l, "aid")])

WithCipher(l, node) == [node EXCEPT !.crypto = {Cipher(m) : m \in Value(l, "cipher")}]

\* is_known_method: of these methods user information may be plain text.
KnownMethods == {"aes-256-gcm", "2022-blake3-aes-256-gcm", "none", "plain"}

parse_ss(l) ==
  IF l.secret = {} \/ Value(l, "cipher") = {} THEN <<>>
  ELSE CASE l.form = "base64" ->
              OkUri(l, WithCipher(l, Node(l, {}, {t.raw : t \in l.secret}, {}, {})))
         [] l.form = "plain" /\ Value(l, "cipher") \subseteq KnownMethods
            /\ Decodes(l.secret) ->
              OkUri(l, WithCipher(l, Node(l, {}, Decoded(l.secret), {}, {})))
         [] OTHER -> <<>>

\* ssr.rs: a payload that begins with its query is indexed before its start.
Panics(l) == l.scheme = "ssr" /\ l.form = "query first"

\* The payload is split at every colon: an IPv6 address has some of its own.
parse_ssr(l) ==
  IF \/ l.form # "base64" \/ l.server \in Colons \cup {"[v6]"} \/ Value(l, "cipher") = {}
     \/ {t.raw : t \in l.secret} \in {{}, {NotUtf8}}
  THEN <<>>
  ELSE Ok(l, WithCipher(l, Node(l, {}, {t.raw : t \in l.secret}, {}, {})))

parse_tuic(l) ==
  IF l.secret = {} \/ ~Decodes(l.secret) THEN <<>>
  ELSE OkUri(l, Node(l, {OrElse(l.id, "")}, Decoded(l.secret),
                {Tls(Param(l, "sni"), AlpnList(Param(l, "alpn"), Comma),
                     Param(l, "insecure") = {"1"}, {})}, {}))

\* hysteria and hysteria2: one alpn, whatever it says.
OneAlpnTls(l) ==
  {Tls(Param(l, "sni"),
       IF Param(l, "alpn") = {} THEN <<>> ELSE <<OrElse(Param(l, "alpn"), "")>>,
       Param(l, "insecure") = {"1"}, {})}

parse_hysteria(l) == OkUri(l, Node(l, {}, Param(l, "auth"), OneAlpnTls(l), {}))

parse_hysteria2(l) ==
  IF ~Decodes(l.secret) THEN <<>>
  ELSE OkUri(l, Node(l, {}, Decoded(l.secret) \ {""}, OneAlpnTls(l), {}))

parse_wireguard(l) ==
  LET public == Or(Param(l, "publicKey"), Decoded(l.secret) \ {""}) IN
  IF ~Decodes(l.secret) \/ public = {} THEN <<>>
  ELSE OkUri(l, Node(l, Param(l, "privateKey"), public, {}, {}))

\* socks5 and http: the user ends at the first colon and is not kept.
AfterUser(l) ==
  {IF l.id # {} /\ l.id \subseteq Colons THEN "6:" \o p ELSE p : p \in Decoded(l.secret)}

parse_http(l) ==
  IF (l.id # {} /\ l.secret = {}) \/ ~Decodes(l.secret) THEN <<>>
  ELSE OkUri(l, Node(l, {}, AfterUser(l), {}, {}))

\* socks5 decodes the user as well, before it is dropped.
parse_socks5(l) == IF ~Decodes(BareAll(l.id)) THEN <<>> ELSE parse_http(l)

\* parse_line: dispatch on the prefix.
parse_line(l) ==
  CASE l.scheme = "ss" -> parse_ss(l)
    [] l.scheme = "ssr" -> parse_ssr(l)
    [] l.scheme = "vmess" -> parse_vmess(l)
    [] l.scheme = "vless" -> parse_vless(l)
    [] l.scheme = "trojan" -> parse_trojan(l)
    [] l.scheme = "socks5" -> parse_socks5(l)
    [] l.scheme = "http" -> parse_http(l)
    [] l.scheme = "hysteria2" -> parse_hysteria2(l)
    [] l.scheme = "hysteria" -> parse_hysteria(l)
    [] l.scheme = "tuic" -> parse_tuic(l)
    [] l.scheme = "wireguard" -> parse_wireguard(l)
    [] OTHER -> <<>>

Kinds == {"ss", "ssr", "socks5", "http", "vmess", "vless", "trojan", "hysteria",
          "hysteria2", "tuic", "wireguard"}

\* An entry of a Clash configuration: nothing but type, name and address is
\* required, and name and server must be texts (as_str).
clash_proxy_to_node(e) ==
  LET net == OrElse(Entry(e, "type"), "tcp")
      path == OrElse(Entry(e, "path"), "")
      tls == Tls(Entry(e, "sni"), AlpnList(Entry(e, "alpn"), Dash),
                 Entry(e, "insecure") = {"1"}, Entry(e, "fp")) IN
  IF e.scheme \notin Kinds \/ e.form # "entry" THEN <<>>
  ELSE Ok(e, [Node(e, AsStr(e.id), AsStr(e.secret),
                IF e.scheme = "trojan" \/ Entry(e, "security") \ {"none"} # {}
                THEN {tls} ELSE {},
                CASE net = "ws" -> Transport("ws", path, Entry(e, "host"))
                  [] net = "grpc" -> {[net |-> "grpc", path |-> path, host |-> {}]}
                  [] OTHER -> {})
              EXCEPT !.alter_id = Value(e, "aid"),
                     !.crypto = {Cipher(m) : m \in Entry(e, "cipher") \ {"auto"}}])

-----------------------------------------------------------------------------
(* Serializers.                                                            *)

NoParams == [k \in Keys |-> {}]

Link(n, id, secret, params, form) ==
  [scheme |-> n.kind, id |-> id, secret |-> secret, server |-> n.server,
   port |-> n.port, params |-> params, name |-> n.name, form |-> form]

Net(n) == OrElse({t.net : t \in n.transport}, "tcp")
Hosts(n) == UNION {t.host : t \in n.transport}
Host(n) == Hosts(n) \ {""}
Path(n) == {IF t.net = "grpc" THEN Slashed(t.path) ELSE t.path : t \in n.transport}
PathParam(n) == Path(n) \ {""}

Sni(n) == UNION {t.sni : t \in n.tls}
Fingerprint(n) == UNION {t.fingerprint : t \in n.tls}
Alpn(n, sep) == {Join(t.alpn, sep) : t \in {s \in n.tls : s.alpn # <<>>}}
FirstAlpn(n) == {t.alpn[1] : t \in {s \in n.tls : s.alpn # <<>>}}
Insecure(n) == IF \E t \in n.tls : t.insecure THEN {"1"} ELSE {}

\* Mutant: the first alpn alone.
UriParamsFirstAlpn(n) ==
  [NoParams EXCEPT
     !["type"] = BareAll({Net(n)} \ {"tcp"}),
     !["security"] = BareAll({"tls" : t \in n.tls}),
     !["sni"] = Encoded(Sni(n)), !["fp"] = Encoded(Fingerprint(n)),
     !["alpn"] = Encoded(FirstAlpn(n)),
     !["host"] = Encoded(Host(n)), !["path"] = Encoded(PathParam(n))]

\* The parameters of vless and trojan: without allowInsecure.
UriParams(n) ==
  [NoParams EXCEPT
     !["type"] = BareAll({Net(n)} \ {"tcp"}),
     !["security"] = BareAll({"tls" : t \in n.tls}),
     !["sni"] = Encoded(Sni(n)), !["fp"] = Encoded(Fingerprint(n)),
     !["alpn"] = Encoded(Alpn(n, Comma)),
     !["host"] = Encoded(Host(n)), !["path"] = Encoded(PathParam(n))]

serialize_vless(n) ==
  IF n.uuid = {} THEN <<>> ELSE <<Link(n, n.uuid, {}, UriParams(n), "plain")>>

\* Mutant: the password as it is.
serialize_trojan_bare(n) ==
  IF n.password = {} THEN <<>> ELSE <<Link(n, {}, BareAll(n.password), UriParams(n), "plain")>>

serialize_trojan(n) ==
  IF n.password = {} THEN <<>> ELSE <<Link(n, {}, Encoded(n.password), UriParams(n), "plain")>>

serialize_vmess(n) ==
  <<Link(n, {OrElse(n.uuid, "")}, {},
      [NoParams EXCEPT
         !["aid"] = BareAll({OrElse(n.alter_id, "0")}),
         !["type"] = BareAll({IF Net(n) = "httpupgrade" THEN "http" ELSE Net(n)}),
         !["path"] = BareAll({OrElse(Path(n), "")}), !["host"] = BareAll(Host(n)),
         !["security"] = BareAll({IF n.tls = {} THEN "none" ELSE "tls"}),
         !["sni"] = BareAll(Sni(n) \ {""}), !["alpn"] = BareAll(Alpn(n, Comma) \ {""}),
         !["fp"] = BareAll(Fingerprint(n) \ {""}),
         !["insecure"] = BareAll({OrElse(Insecure(n), "0")})],
      "base64")>>

\* ss and ssr: the whole user information, or the whole link, is base64.
serialize_ss(n) ==
  IF n.crypto = {} \/ n.password = {} THEN <<>>
  ELSE <<Link(n, {}, BareAll(n.password),
              [NoParams EXCEPT !["cipher"] = BareAll(n.crypto)], "base64")>>

serialize_ssr(n) == serialize_ss(n)

serialize_tuic(n) ==
  <<Link(n, {OrElse(n.uuid, "")}, {urlencode(OrElse(n.password, ""))},
      [NoParams EXCEPT !["sni"] = Encoded(Sni(n)), !["alpn"] = Encoded(Alpn(n, Comma)),
                       !["insecure"] = BareAll(Insecure(n))],
      "plain")>>

OneAlpnParams(n) ==
  [NoParams EXCEPT !["sni"] = Encoded(Sni(n)), !["alpn"] = Encoded(FirstAlpn(n)),
                   !["insecure"] = BareAll(Insecure(n))]

serialize_hysteria(n) ==
  <<Link(n, {}, {},
      [OneAlpnParams(n) EXCEPT !["auth"] = {urlencode(OrElse(n.password, ""))}], "plain")>>

serialize_hysteria2(n) ==
  <<Link(n, {}, {urlencode(OrElse(n.password, ""))}, OneAlpnParams(n), "plain")>>

serialize_wireguard(n) ==
  IF n.password = {} \/ n.uuid = {} THEN <<>>
  ELSE <<Link(n, {}, Encoded(n.password),
              [NoParams EXCEPT !["publicKey"] = Encoded(n.password),
                               !["privateKey"] = Encoded(n.uuid)], "plain")>>

\* socks5 and http: the server stands in for the user, the password is bare.
UserOf(n) == IF n.password = {} THEN {} ELSE {n.server}
serialize_http(n) ==
  <<Link(n, UserOf(n), BareAll(n.password), NoParams, "plain")>>

serialize_socks5(n) == serialize_http(n)

Serialize(n) ==
  CASE n.kind = "ss" -> serialize_ss(n)
    [] n.kind = "ssr" -> serialize_ssr(n)
    [] n.kind = "vmess" -> serialize_vmess(n)
    [] n.kind = "vless" -> serialize_vless(n)
    [] n.kind = "trojan" -> serialize_trojan(n)
    [] n.kind = "tuic" -> serialize_tuic(n)
    [] n.kind = "hysteria" -> serialize_hysteria(n)
    [] n.kind = "hysteria2" -> serialize_hysteria2(n)
    [] n.kind = "wireguard" -> serialize_wireguard(n)
    [] n.kind = "socks5" -> serialize_socks5(n)
    [] n.kind = "http" -> serialize_http(n)

\* clash_yaml_str: letters and digits stay as they are, digits alone included.
clash_yaml_str(opt) == {[raw |-> s, escaped |-> s = ""] : s \in opt}

\* proxy_to_clash requires a kind's fields; the link serializers require fewer.
NeedsId == {"vmess", "vless", "wireguard"}
NeedsPassword == {"ss", "ssr", "trojan", "wireguard"}
WritesPassword == Kinds \ {"vmess", "vless", "wireguard"}

\* The server is written as it is, and the keys of wireguard under names that
\* are not read.
proxy_to_clash(n) ==
  IF \/ n.kind \in NeedsId /\ n.uuid = {}
     \/ n.kind \in NeedsPassword /\ n.password = {}
     \/ n.kind \in {"ss", "ssr"} /\ n.crypto = {}
  THEN <<>>
  ELSE LET written(kinds, opt) == IF n.kind \in kinds THEN clash_yaml_str(opt) ELSE {} IN
    <<Link(n, written({"vmess", "vless", "tuic", "hysteria", "hysteria2"}, n.uuid),
        written(WritesPassword, n.password),
        [NoParams EXCEPT
           !["cipher"] = written({"ss", "ssr"}, n.crypto),
           !["aid"] = IF n.kind = "vmess" THEN BareAll({OrElse(n.alter_id, "0")}) ELSE {},
           !["security"] = BareAll({"tls" : t \in n.tls}),
           !["sni"] = clash_yaml_str(Sni(n)), !["fp"] = clash_yaml_str(Fingerprint(n)),
           !["alpn"] = BareAll(Alpn(n, Dash)), !["insecure"] = BareAll(Insecure(n)),
           !["type"] = BareAll({IF t.net = "httpupgrade" THEN "http" ELSE t.net
                                  : t \in n.transport}),
           !["path"] = clash_yaml_str({t.path : t \in n.transport}),
           !["host"] = clash_yaml_str(UNION {t.host : t \in {u \in n.transport : u.net = "ws"}})],
        IF n.name = "12" \/ n.server \in NoText THEN "no text" ELSE "entry")>>
=============================================================================
