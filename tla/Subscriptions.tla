--------------------------- MODULE Subscriptions ---------------------------
(***************************************************************************)
(* A subscription text on its way through crates/proxy-core: it is read    *)
(* line by line or as a Clash configuration (parser.rs), its nodes are     *)
(* written in an output format (formats/v2ray.rs, formats/clash.rs), and   *)
(* what was written is read again, as by the clients and by another        *)
(* sub-merge that has this one as a source.                                *)
(*                                                                         *)
(* A base64 text is its lines.  "each" is what tests/roundtrip.rs does     *)
(* with the serializers that no format uses: every node by its own.        *)
(***************************************************************************)
EXTENDS ProxyLinks, SequencesExt

CONSTANTS Texts,      \* [clash, items]: the texts that a source may answer
          Formats,    \* output formats among "v2ray", "clash" and "each"
          MaxNodes,   \* MAX_NODES
          Passes      \* how often the text is read and written

\* A slash that is put before a path, or a trimmed one, is trimmed again.
Trims(path) ==
  /\ Service(Service(path)) = Service(path)
  /\ \A p \in {path, Service(path)} :
       Slashed(p) # NotUtf8 /\ Service(Slashed(p)) = Service(path)

\* Only base64 hides what is no UTF-8.  Three kinds of text are left out: a
\* dash alone but for a name or a server, an alpn that YAML reads as no text
\* for another reason than being digits or empty, and a Clash entry whose
\* server is a quoted address in brackets.
IsItem(item, clash) ==
  /\ IsOption(item.id) /\ IsOption(item.secret)
  /\ \A k \in Keys : IsOption(item.params[k]) /\ {NotUtf8, "-"} \cap Value(item, k) = {}
  /\ {"[v6]", "v6::"} \cap Value(item, "alpn") = {}
  /\ \A p \in Value(item, "path") \cup Param(item, "path") : Trims(p)
  /\ "-" \notin {t.raw : t \in item.secret}
                 \cup (IF clash THEN {t.raw : t \in item.id} ELSE item.id)
  /\ clash => /\ item.server # "[v6]"
              /\ \A t \in item.id \cup item.secret : t.raw # NotUtf8

ASSUME SubscriptionsAssumption ==
  /\ Formats \subseteq {"v2ray", "clash", "each"}
  /\ \A t \in Texts :
       /\ t.clash \in BOOLEAN /\ t.items \in Seq(ToSet(t.items))
       /\ \A i \in DOMAIN t.items : IsItem(t.items[i], t.clash)
  /\ MaxNodes \in Nat
  /\ Passes \in Nat \ {0}

\* A path that is missing is an empty one.
ASSUME PathAssumption == Trims("")

VARIABLES
  format,   \* the format asked for
  text,     \* [clash |-> recognised as a Clash configuration, items |-> lines or entries]
  pass,     \* this is the pass-th time that a text is read
  phase,    \* "reading", "writing", "done"; "failed", "panicked" for good
  at,       \* the line to read, or the node to write, next
  nodes, skipped,
  out,      \* the lines or entries written
  due,      \* history: the nodes in out that can be read, [node, line]: where each begins
  sent      \* history: the same of the text, if it was written

vars == <<format, text, pass, phase, at, nodes, skipped, out, due, sent>>

\* A line longer than 1 MiB, and one that no protocol knows.
Oversized(item) == item.form = "oversized"
Junk == [scheme |-> "junk", id |-> {}, secret |-> {}, server |-> "h", port |-> 1,
         params |-> NoParams, name |-> "", form |-> "plain"]

TwoLines == "two lines"

\* The name is written as it is after '#': its second line is a line of its own.
NameInPayload == {"ssr", "vmess"}
Lines(item) ==
  IF /\ item.name = TwoLines /\ item.scheme \notin NameInPayload
     /\ item.form \notin {"entry", "no text"}
  THEN <<[item EXCEPT !.name = "two"], Junk>> ELSE <<item>>

\* An entry that is no YAML, and the whole configuration is not with it: the
\* block of a name of two lines is not indented as the entry is, a dash alone
\* begins a list, and a server that ends in a colon is a key.
Torn(e) == e.name \in {TwoLines, "-"} \/ e.server \in {"v6::", "-"}

\* The configuration is read as lines then.
TextOf(items) ==
  IF format = "clash" /\ \E i \in DOMAIN items : Torn(items[i])
  THEN [clash |-> FALSE, items |-> [i \in DOMAIN items |-> Junk]]
  ELSE [clash |-> format = "clash", items |-> items]

-----------------------------------------------------------------------------

Init ==
  /\ format \in Formats
  /\ text \in Texts
  /\ pass = 1 /\ phase = "reading" /\ at = 1
  /\ nodes = <<>> /\ skipped = 0 /\ out = <<>> /\ due = <<>> /\ sent = <<>>

Reading == phase = "reading" /\ ~text.clash
More == at <= Len(text.items) /\ Len(nodes) < MaxNodes

ReadNode ==
  /\ Reading /\ More
  /\ ~Oversized(text.items[at])
  /\ ~Panics(text.items[at])
  /\ parse_line(text.items[at]) # <<>>
  /\ nodes' = nodes \o parse_line(text.items[at])
  /\ at' = at + 1
  /\ UNCHANGED <<format, text, pass, phase, skipped, out, due, sent>>

\* Mutant: long lines are passed over without being counted.
SkipLineUncounted ==
  /\ Reading /\ More
  /\ \/ Oversized(text.items[at]) /\ skipped' = skipped
     \/ /\ ~Oversized(text.items[at])
        /\ ~Panics(text.items[at])
        /\ parse_line(text.items[at]) = <<>>
        /\ skipped' = skipped + 1
  /\ at' = at + 1
  /\ UNCHANGED <<format, text, pass, phase, nodes, out, due, sent>>

SkipLine ==
  /\ Reading /\ More
  /\ \/ Oversized(text.items[at])
     \/ ~Panics(text.items[at]) /\ parse_line(text.items[at]) = <<>>
  /\ skipped' = skipped + 1
  /\ at' = at + 1
  /\ UNCHANGED <<format, text, pass, phase, nodes, out, due, sent>>

LinePanics ==
  /\ Reading /\ More
  /\ ~Oversized(text.items[at])
  /\ Panics(text.items[at])
  /\ phase' = "panicked"
  /\ UNCHANGED <<format, text, pass, at, nodes, skipped, out, due, sent>>

LinesRead ==
  /\ Reading /\ ~More
  /\ phase' = "writing" /\ at' = 1
  /\ UNCHANGED <<format, text, pass, nodes, skipped, out, due, sent>>

\* Mutant: without truncate.
parse_clash_yaml_whole ==
  /\ phase = "reading" /\ text.clash
  /\ nodes' = FlattenSeq([i \in DOMAIN text.items |-> clash_proxy_to_node(text.items[i])])
  /\ phase' = "writing" /\ at' = 1
  /\ UNCHANGED <<format, text, pass, skipped, out, due, sent>>

parse_clash_yaml ==
  /\ phase = "reading" /\ text.clash
  /\ LET all == FlattenSeq([i \in DOMAIN text.items |-> clash_proxy_to_node(text.items[i])]) IN
       nodes' = SubSeq(all, 1, IF Len(all) < MaxNodes THEN Len(all) ELSE MaxNodes)
  /\ phase' = "writing" /\ at' = 1
  /\ UNCHANGED <<format, text, pass, skipped, out, due, sent>>

-----------------------------------------------------------------------------

V2rayKinds == {"ss", "ssr", "vmess", "vless", "trojan", "tuic"}
InFormat(n) == format # "v2ray" \/ n.kind \in V2rayKinds
Written(n) == IF format = "clash" THEN proxy_to_clash(n) ELSE Serialize(n)

\* A node that is written and cannot be read again.  Links have such nodes
\* only if they were read from a Clash configuration, but for the bare texts of
\* socks5 and http.
Unreadable(n) ==
  IF format = "clash" THEN n.name = "12" \/ n.server \in NoText
  ELSE CASE n.kind = "ssr" -> n.server \in Colons
         [] n.kind = "trojan" -> n.password = {""}
         [] n.kind = "vless" -> n.uuid = {""}
         [] n.kind = "http" -> ~Decodes(BareAll(n.password))
         [] n.kind = "socks5" -> ~Decodes(BareAll(n.password) \cup BareAll(UserOf(n)))
         [] OTHER -> FALSE

Writing == phase = "writing" /\ at <= Len(nodes)

WriteNode ==
  /\ Writing /\ InFormat(nodes[at]) /\ Written(nodes[at]) # <<>>
  /\ out' = out \o Lines(Written(nodes[at])[1])
  /\ due' = IF Unreadable(nodes[at]) THEN due
            ELSE due \o <<[node |-> nodes[at], line |-> Len(out) + 1]>>
  /\ at' = at + 1
  /\ UNCHANGED <<format, text, pass, phase, nodes, skipped, sent>>

\* v2ray leaves out the other kinds, clash a node that cannot be written.
SkipNode ==
  /\ Writing
  /\ \/ ~InFormat(nodes[at])
     \/ format # "v2ray" /\ Written(nodes[at]) = <<>>
  /\ at' = at + 1
  /\ UNCHANGED <<format, text, pass, phase, nodes, skipped, out, due, sent>>

\* serialize_v2ray_plain returns the first error; the answer is a 500.
WriteFails ==
  /\ Writing /\ format = "v2ray" /\ InFormat(nodes[at]) /\ Written(nodes[at]) = <<>>
  /\ phase' = "failed"
  /\ UNCHANGED <<format, text, pass, at, nodes, skipped, out, due, sent>>

Joined ==
  /\ phase = "writing" /\ at > Len(nodes) /\ pass = Passes
  /\ phase' = "done"
  /\ UNCHANGED <<format, text, pass, at, nodes, skipped, out, due, sent>>

\* The answer is a source's text for somebody else.
ReadAgain ==
  /\ phase = "writing" /\ at > Len(nodes) /\ pass < Passes
  /\ text' = TextOf(out) /\ pass' = pass + 1 /\ phase' = "reading" /\ at' = 1
  /\ sent' = due /\ due' = <<>>
  /\ nodes' = <<>> /\ skipped' = 0 /\ out' = <<>>
  /\ UNCHANGED format

Terminated == phase \in {"done", "failed", "panicked"} /\ UNCHANGED vars

Next ==
  \/ ReadNode \/ SkipLine \/ LinePanics \/ LinesRead \/ parse_clash_yaml
  \/ WriteNode \/ SkipNode \/ WriteFails \/ Joined \/ ReadAgain
  \/ Terminated

Spec == Init /\ [][Next]_vars

-----------------------------------------------------------------------------
(* What each format keeps of a node: the reference that the parsers and    *)
(* the serializers are checked against.                                    *)

Same(a, b) == a \ {""} = b \ {""}

\* Digits are written bare into YAML, and read as no text.
Kept(opt) == IF format = "clash" THEN opt \ {"12"} ELSE opt

\* Nor is the cipher "auto" read, which the entries of vmess have.
KeptCipher(opt) == IF format = "clash" THEN opt \ {"12", "auto"} ELSE opt

SameCredentials(n, m) ==
  /\ n.kind \in {"ss", "ssr"} => m.crypto = KeptCipher(n.crypto)
  /\ n.kind = "vmess" => Same(m.alter_id \ {"0"}, n.alter_id \ {"0"})
  /\ n.kind \in {"vmess", "vless", "tuic"} => Same(m.uuid, Kept(n.uuid))
  /\ n.kind \in WritesPassword =>
       \/ Same(m.password, Kept(n.password))
       \/ /\ n.kind \in {"socks5", "http"} /\ format # "clash"
          /\ n.server \in Colons \/ n.password = {"p%41"}
  /\ n.kind = "wireguard" /\ format # "clash" =>
       Same(m.password, n.password) /\ Same(m.uuid, n.uuid)

SameProxy(n, m) ==
  /\ m.kind = n.kind /\ m.server = n.server /\ m.port = n.port
  /\ (n.name # TwoLines \/ n.kind \in NameInPayload) => m.name = n.name
  /\ SameCredentials(n, m)

HasTls == {"vmess", "vless", "trojan", "tuic", "hysteria", "hysteria2"}
AlwaysTls == IF format = "clash" THEN {"trojan"} ELSE HasTls \ {"vmess", "vless"}
OneAlpn == {"hysteria", "hysteria2"}

SniOf(n) ==
  IF Sni(n) \ {""} = {} /\ format # "clash" /\ n.kind \in {"vmess", "vless", "trojan"}
  THEN Host(n) ELSE Sni(n)

\* One name of a list may hold several, for a parser that does not split it.
Names(alpn) ==
  UNION {IF s \in {Both(Comma), Both(Dash)} THEN {"h2", "h3"} ELSE {s} : s \in ToSet(alpn)}
AlpnOf(n) == UNION {Names(t.alpn) : t \in n.tls}

SameTls(n, m) ==
  /\ m.tls # {} <=> n.tls # {} \/ n.kind \in AlwaysTls
  /\ n.tls # {} =>
       /\ Same(SniOf(m), Kept(SniOf(n)))
       /\ IF n.kind \in OneAlpn /\ format # "clash"
          THEN Same(FirstAlpn(m), FirstAlpn(n)) ELSE Same(AlpnOf(m), Kept(AlpnOf(n)))
       /\ Insecure(m) = IF n.kind \in {"vless", "trojan"} /\ format # "clash"
                        THEN {} ELSE Insecure(n)
       /\ n.kind \in {"vmess", "vless", "trojan"} =>
            Same(Fingerprint(m), Kept(Fingerprint(n)))

\* The service name of grpc is written behind a slash into a link.
ServiceName(n) == {t.path : t \in n.transport}
KeptService(n) ==
  IF format = "clash" THEN Kept(ServiceName(n)) ELSE {Service(p) : p \in ServiceName(n)}

SameTransport(n, m) ==
  IF format = "clash" /\ Net(n) = "httpupgrade" THEN m.transport = {}
  ELSE /\ Net(m) = Net(n) /\ Host(m) = Kept(Host(n))
       /\ IF Net(n) = "grpc" THEN Same(ServiceName(m), KeptService(n))
          ELSE Same(Path(m), Kept(Path(n)))

SameConnection(n, m) ==
  /\ n.kind \in HasTls => SameTls(n, m)
  /\ n.kind \in {"vmess", "vless", "trojan"} => SameTransport(n, m)

-----------------------------------------------------------------------------
(* Properties.                                                             *)

ReadingEnded == phase \in {"writing", "done", "failed"}

\* MAX_NODES bounds what any text yields.  parse_lines: every line that was
\* read is a node or is counted as skipped, and reading stops only at the end
\* or when MAX_NODES nodes are found.
LinesAccounted ==
  /\ Len(nodes) <= MaxNodes
  /\ ~text.clash =>
       /\ Reading => Len(nodes) + skipped = at - 1
       /\ ReadingEnded =>
            \/ Len(nodes) + skipped = Len(text.items)
            \/ Len(nodes) = MaxNodes /\ Len(nodes) + skipped < Len(text.items)

\* The nodes that a text was written from, but for those that cannot be read,
\* are the nodes that are read from it, in their order, with their address, credentials and cipher.
ReadBack ==
  ReadingEnded /\ pass > 1 =>
    IF format = "clash" /\ ~text.clash THEN nodes = <<>>
    ELSE /\ Len(nodes) = Len(sent)
         /\ \A i \in DOMAIN nodes : SameProxy(sent[i].node, nodes[i])

\* The same of how the proxy is reached: TLS and transport.
ConnectionKept ==
  ReadingEnded /\ pass > 1 /\ (format = "clash" => text.clash) =>
    \A i \in DOMAIN nodes \cap DOMAIN sent : SameConnection(sent[i].node, nodes[i])

\* After one round a text is its own output: parsing and serialising are
\* idempotent (vmess.rs: "保证 parse->serialize 幂等").  Only the password of
\* socks5 and http, behind an IPv6 address that stands for the user, grows
\* each time.
Grows(n) == n.kind \in {"socks5", "http"} /\ n.server \in Colons /\ n.password # {}

Canonical ==
  phase = "done" /\ pass > 2 =>
    \/ TextOf(out).items = text.items
    \/ format = "each" /\ \E i \in DOMAIN nodes : Grows(nodes[i])

\* serialize_v2ray_plain gives up the whole answer for one node.  A node that
\* was read from a link never makes it do so, and its own link can be read.
LinksServed ==
  /\ phase = "failed" => text.clash
  /\ ReadingEnded /\ ~text.clash /\ format = "v2ray" =>
       \A i \in DOMAIN nodes : InFormat(nodes[i]) => ~Unreadable(nodes[i])
=============================================================================
