----------------------------- MODULE MailParser -----------------------------
(***************************************************************************)
(* parse(): backend/parsers/email_parser.py. A message is what the headers *)
(* and parts say, the regular expressions already matched:                 *)
(*   headers     whether it has message headers at all                     *)
(*   fromHeaders how many From headers; from: the domains of its addresses *)
(*   brand       the brand a display name claims                           *)
(*   replyTo, returnPath   domains of the addresses of these headers       *)
(*   results     Authentication-Results, per mechanism; receivedSpf        *)
(*   mailfrom    the domain of smtp.mailfrom                               *)
(*   received    hops, newest first: [fromAt, byAt, from, by, ips, stamp], *)
(*               where ips are [ip, offset] and 0 is "absent"              *)
(*   clientIps   addresses of X-Originating-IP and the like                *)
(*   signatures  DKIM signatures; urls; attachments                        *)
(*   plain, html the telling words of subject and text, and of the HTML    *)
(*   id, refs, inReplyTo   Message-ID, and the identifiers in References   *)
(*               and in In-Reply-To                                        *)
(* An address is represented by its domain.                                *)
(***************************************************************************)
EXTENDS RiskEngine, Sequences, SequencesExt

CONSTANTS
    Registrable,    \* domain -> registered domain (the public suffix list)
    Resembling,     \* domains whose name is close to a brand's (rapidfuzz)
    Traits,         \* IP literal -> what the ipaddress library says of it
    Mapped          \* IPv4-mapped IPv6 literal -> the IPv4 address

None == "none"

\* classify_ip(): a mapped address is judged, and looked up, as its IPv4 one.
LookupIp(ip) == IF ip \in DOMAIN Mapped THEN Mapped[ip] ELSE ip
IsIp(value) == value \in DOMAIN Traits /\ "invalid" \notin Traits[value]
ASSUME MappedAreLiterals == \A ip \in DOMAIN Mapped : IsIp(ip)
Classification(ip) ==
    LET traits == Traits[LookupIp(ip)] IN
    FirstMatch(<< <<"invalid" \in traits, "Invalid">>,
                  <<"loopback" \in traits, "Loopback">>,
                  <<"link_local" \in traits, "Link-local">>,
                  <<"multicast" \in traits, "Multicast">>,
                  <<"private" \in traits, "Private">>,
                  <<"global" \notin traits, "Reserved">>,
                  <<TRUE, "Public">> >>)
Public(ip) == Classification(ip) = "Public"

\* analyze_url(), of a URL [url, host, display, traits].
AnalyzeUrl(u, sender) ==
    LET signals ==
          u.traits
            \cup {s \in {"ip_hostname"} : IsIp(u.host)}
            \cup {s \in {"display_href_mismatch"} : u.display \notin {None, u.host}}
            \cup {s \in {"sender_link_domain_mismatch"} :
                    sender # None /\ Registrable[u.host] # Registrable[sender]}
            \cup {s \in {"lookalike_domain"} : u.host \in Resembling}
    IN  [url |-> u.url, domain |-> u.host, signals |-> signals,
         flags |-> Cardinality(signals)]

\* An address before "by" was seen by the relay; after it, it is the relay.
MutantRoleOf(h, i) ==
    IF h.fromAt > 0 /\ i.offset >= h.fromAt THEN "source"
    ELSE IF h.byAt > 0 /\ i.offset >= h.byAt THEN "destination" ELSE "observed"
RoleOf(h, i) ==
    IF h.byAt > 0 /\ i.offset >= h.byAt THEN "destination"
    ELSE IF h.fromAt > 0 /\ i.offset >= h.fromAt THEN "source" ELSE "observed"

\* The chain runs from the oldest hop to the newest.
ReceivedChain(m) ==
    LET hops == Reverse(m.received) IN
    [n \in DOMAIN hops |->
        [hop |-> n, source_server |-> hops[n].from,
         destination_server |-> hops[n].by, stamp |-> hops[n].stamp,
         ips |-> [k \in DOMAIN hops[n].ips |->
                    [ip |-> hops[n].ips[k].ip,
                     role |-> RoleOf(hops[n], hops[n].ips[k])]]]]

TimestampAnomaly(chain) ==
    \E n \in 1..(Len(chain) - 1) :
        /\ chain[n].stamp > 0 /\ chain[n + 1].stamp > 0
        /\ chain[n].stamp > chain[n + 1].stamp

PublicSources(ips) == {k \in DOMAIN ips : ips[k].role = "source" /\ Public(ips[k].ip)}

\* The earliest public address on the source side of a hop.
CandidateIp(chain) ==
    LET usable == {n \in DOMAIN chain : PublicSources(chain[n].ips) # {}}
        first == CHOOSE n \in usable : \A o \in usable : n <= o
        ips == chain[first].ips
        position == CHOOSE k \in PublicSources(ips) :
                        \A o \in PublicSources(ips) : k <= o
    IN  IF usable = {} THEN None ELSE ips[position].ip

FirstOrNone(s) == IF s = <<>> THEN None ELSE s[1]

Alignment(domain, sender) ==
    IF domain = None \/ sender = None THEN "unknown"
    ELSE IF Registrable[domain] = Registrable[sender] THEN "aligned"
    ELSE "unaligned"

\* What the headers report; Received-SPF speaks when the results are silent.
ReportedAuthentication(m, sender) ==
    LET spfDomain == IF m.mailfrom # None THEN m.mailfrom
                     ELSE FirstOrNone(m.returnPath)
        dkim == {Alignment(s.domain, sender) : s \in Range(m.signatures)}
    IN  [spf |-> [reported |-> IF m.results.spf = "Unknown" /\ m.receivedSpf # None
                               THEN m.receivedSpf ELSE m.results.spf,
                  domain |-> spfDomain, alignment |-> Alignment(spfDomain, sender)],
         dkim |-> [reported |-> m.results.dkim, local |-> "Not Configured"],
         dmarc |-> [reported |-> m.results.dmarc, local |-> "Unknown",
                    policy |-> "Unknown", strict |-> FALSE,
                    dkim_alignment |-> IF dkim = {} THEN "unknown"
                                       ELSE IF "aligned" \in dkim THEN "aligned"
                                       ELSE "unaligned"]]

SenderIdentity(m, sender) ==
    LET reply == FirstOrNone(m.replyTo)
        bounce == FirstOrNone(m.returnPath)
        differs(d) == d # None /\ Registrable[d] # Registrable[sender]
    IN  [sender_domain |-> sender, reply_to_domain |-> reply,
         reply_to_mismatch |-> differs(reply),
         return_path_mismatch |-> sender # None /\ differs(bounce),
         display_name_mismatch |->
            sender # None /\ m.brand # None /\ Registrable[sender] # m.brand,
         lookalikes |-> ({sender, reply} \ {None}) \cap Resembling]

ObservedIps(m, chain) ==
    (UNION {{i.ip : i \in Range(chain[n].ips)} : n \in DOMAIN chain})
        \cup m.clientIps

\* Indicators: domains, addresses, links and attachment hashes.
Iocs(m, chain, identity, spfDomain) ==
    LET hosts == {u.host : u \in m.urls}
        domains == ({identity.sender_domain, identity.reply_to_domain, spfDomain}
                     \cup {s.domain : s \in Range(m.signatures)} \cup hosts) \ {None}
        ips == {i \in ObservedIps(m, chain) \cup hosts : IsIp(i)}
        row(type, value) == [type |-> type, value |-> value]
    IN  {row("domain", d) : d \in domains} \cup {row("ip", i) : i \in ips}
          \cup {row("url", u.url) : u \in m.urls}
          \cup {row("hash", a.sha) : a \in Range(m.attachments)}

\* The message has headers, and a body within the limit of process().
Parses(m) == m.headers /\ ~m.huge

Parse(m) ==
    LET sender == FirstOrNone(m.from)
        chain == ReceivedChain(m)
        identity == SenderIdentity(m, sender)
        authentication == ReportedAuthentication(m, sender)
    IN  [sender |-> sender, reply_to |-> Range(m.replyTo),
         singleSender |-> m.fromHeaders = 1 /\ Len(m.from) = 1,
         return_path |-> m.returnPath, identity |-> identity,
         received_chain |-> chain, anomaly |-> TimestampAnomaly(chain),
         candidate |-> CandidateIp(chain), observed |-> ObservedIps(m, chain),
         authentication |-> authentication, signatures |-> m.signatures,
         urls |-> {AnalyzeUrl(u, sender) : u \in m.urls},
         attachments |-> m.attachments,
         iocs |-> Iocs(m, chain, identity, authentication.spf.domain),
         \* HTML text counts beside a plain-text alternative, not behind it.
         text |-> m.plain \cup m.html,
         message_id |-> m.id, references |-> m.refs, in_reply_to |-> m.inReplyTo]
=============================================================================
