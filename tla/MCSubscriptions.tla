-------------------------- MODULE MCSubscriptions --------------------------
(* Every link and every Clash entry of small fields alone in its text, and *)
(* texts of up to four lines, or three entries, of a sample.              *)
EXTENDS Subscriptions

Opt(S) == {{}} \cup {{s} : s \in S}
Plain(S) == Opt({Bare(s) : s \in S})
Coded(S) == Plain(S) \cup Opt({urlencode(s) : s \in S})

Ports == {0, 443}
Servers == {"h", "[v6]", "v6::", "12"}

L(scheme, id, secret, server, params, form) ==
  [scheme |-> scheme, id |-> id, secret |-> secret, server |-> server, port |-> 443,
   params |-> params, name |-> "n", form |-> form]

With(sec, net, path, host, sni, alpn, fp, ins) ==
  [NoParams EXCEPT !["security"] = sec, !["type"] = net, !["path"] = path,
     !["host"] = host, !["sni"] = sni, !["alpn"] = alpn, !["fp"] = fp, !["insecure"] = ins]

Secrets == Coded({"p", "p%41", "p%FF", ""})
TlsParams ==
  {With(sec, {}, {}, host, sni, alpn, fp, ins) :
     sec \in Plain({"tls", "none"}), host \in Plain({"c", ""}), sni \in Plain({"s", "p%FF"}),
     alpn \in Plain({"h2", "h2,h3", "", "12"}), fp \in Plain({"f", "12"}), ins \in Plain({"1"})}
NetParams ==
  {With(sec, net, path, host, {}, {}, {}, {}) :
     sec \in Plain({"tls"}), net \in Plain({"tcp", "ws", "grpc", "httpupgrade", "http"}),
     path \in Plain({"/p", "//p", "p", "/", "", "12"}), host \in Plain({"c", "", "12"})}

SsLinks ==
  {L("ss", {}, s, "h", [NoParams EXCEPT !["cipher"] = c], f) :
     s \in Secrets, c \in Plain({"aes-256-gcm", "2022-blake3-aes-256-gcm", "raw", "auto", "12"}),
     f \in {"base64", "plain"}}
SsrLinks ==
  {L("ssr", {}, s, h, [NoParams EXCEPT !["cipher"] = c], f) :
     s \in Plain({"p", "p%41", NotUtf8, ""}), h \in Servers,
     c \in Plain({"aes-256-gcm", "raw"}), f \in {"base64", "plain", "query first"}}
UriLinks ==
  {L("vless", i, {}, h, p, "plain") :
     i \in Opt({"u", ""}), h \in Servers, p \in {NoParams}}
  \cup {L("vless", {"u"}, {}, "h", p, "plain") : p \in TlsParams \cup NetParams}
  \cup {L("trojan", {}, s, "h", p, "plain") : s \in {{Bare("p")}}, p \in TlsParams \cup NetParams}
  \cup {L("trojan", {}, s, "[v6]", NoParams, "plain") : s \in Secrets}
VmessLinks ==
  {L("vmess", i, {}, "h", [p EXCEPT !["aid"] = a], "base64") :
     i \in Opt({"u"}), a \in Plain({"2"}), p \in {NoParams}}
  \cup {L("vmess", {"u"}, {}, "h", p, "base64") : p \in TlsParams \cup NetParams}
  \cup {L("vmess", {"u"}, {}, s, p, "base64") :
          s \in Servers \cup {"", "v6", "-"},
          p \in {NoParams, With({Bare("tls")}, {Bare("ws")}, {}, {}, {}, {}, {}, {})}}
OtherLinks ==
  {L(k, i, s, h, NoParams, "plain") :
     k \in {"tuic", "wireguard", "socks5", "http", "hysteria2"}, i \in Opt({"u"}),
     s \in Secrets, h \in Servers}
  \cup {L(k, i, s, h, NoParams, "plain") :
          k \in {"socks5", "http"}, i \in Opt({"p%FF", "v6"}), s \in Plain({"p"}),
          h \in Servers \cup {"p%FF", "v6"}}
  \cup {L("wireguard", {}, {Bare("p")}, "h",
           [NoParams EXCEPT !["publicKey"] = b, !["privateKey"] = a], "plain") :
          a \in Coded({"k", "p%41"}), b \in Coded({"k", "p%FF"})}
  \cup {L(k, {"u"}, {Bare("p")}, "h", With({}, {}, {}, {}, sni, alpn, {}, ins), "plain") :
          k \in {"tuic", "hysteria", "hysteria2"}, sni \in Coded({"s", "p%FF"}),
          alpn \in Plain({"h2", "h2,h3", ""}), ins \in Plain({"1", "0"})}
  \cup {L("hysteria", {}, {}, "h", [NoParams EXCEPT !["auth"] = a], "plain") : a \in Secrets}

Quoted(S) == Opt({urlencode(s) : s \in S})
ClashEntries ==
  {[L(k, i, s, "v6", [NoParams EXCEPT !["cipher"] = c], "entry") EXCEPT !.name = n] :
     k \in Kinds \cup {"snell"}, i \in Quoted({"u"}), s \in Quoted({"p", ""}) \cup Plain({"12"}),
     c \in Plain({"aes-256-gcm", "auto"}), n \in {"n", "12", "-", TwoLines}}
  \cup {L(k, {urlencode("u")}, {urlencode("p")}, s,
            [NoParams EXCEPT !["cipher"] = {Bare("raw")}], "entry") :
          k \in Kinds, s \in {"12", "", "v6::", "-"}}
  \cup {L(k, {urlencode("u")}, {urlencode("p")}, "h",
          [With(sec, net, path, host, sni, alpn, fp, ins) EXCEPT
             !["cipher"] = {Bare("raw")}, !["aid"] = {Bare("2")}], "entry") :
          k \in {"vmess", "vless", "trojan", "tuic", "hysteria"},
          sec \in Plain({"tls"}), net \in Plain({"ws", "grpc", "http"}),
          path \in Quoted({"//p", "p", "12"}), host \in Quoted({"c", ""}),
          sni \in Plain({"s", "12"}), alpn \in Plain({"h2- h3", "h2,h3"}), fp \in Plain({"f"}),
          ins \in Plain({"1"})}

Sample ==
  {Junk, [Junk EXCEPT !.scheme = "hysteria", !.form = "oversized"],
   L("ss", {}, {urlencode("p")}, "h", [NoParams EXCEPT !["cipher"] = {Bare("none")}], "plain"),
   L("vless", {"u"}, {}, "h", NoParams, "plain"),
   [L("vless", {"u"}, {}, "h", NoParams, "plain") EXCEPT !.port = 0],
   L("hysteria2", {}, {Bare("p")}, "h", NoParams, "plain"),
   L("ssr", {}, {Bare("p")}, "h", [NoParams EXCEPT !["cipher"] = {Bare("raw")}], "query first")}
SampleEntries ==
  {L("trojan", {}, {}, "h", NoParams, "entry"),
   L("hysteria", {}, {urlencode("p")}, "h", NoParams, "entry"),
   [L("trojan", {}, {urlencode("p")}, "h", NoParams, "entry") EXCEPT !.name = TwoLines],
   [L("ss", {}, {Bare("12")}, "h", [NoParams EXCEPT !["cipher"] = {Bare("raw")}], "entry")
      EXCEPT !.name = "12"],
   [L("vless", {urlencode("u")}, {}, "h", NoParams, "entry") EXCEPT !.port = 0]}
UpTo(n, S) == UNION {[1..k -> S] : k \in 0..n}

MCTexts ==
  {[clash |-> FALSE, items |-> <<l>>] :
     l \in SsLinks \cup SsrLinks \cup UriLinks \cup VmessLinks \cup OtherLinks}
  \cup {[clash |-> TRUE, items |-> <<e>>] : e \in ClashEntries}
  \cup {[clash |-> FALSE, items |-> t] : t \in UpTo(4, Sample)}
  \cup {[clash |-> TRUE, items |-> t] : t \in UpTo(3, SampleEntries)}
=============================================================================
