---------------------------- MODULE Correlation ----------------------------
(***************************************************************************)
(* Leads between messages (backend/core/correlation_engine.py) and the     *)
(* infrastructure graph of one message (graph() of core/pipeline.py).      *)
(***************************************************************************)
EXTENDS OriginConfidence

EmptyHash == "hash of nothing"

\* What can be shared: no private addresses, no hash of an empty file.
Indicators(parsed) ==
    {i \in parsed.iocs : (i.type = "ip" => Public(i.value)) /\ i.value # EmptyHash}

MessageIds(parsed) ==
    ({parsed.message_id, parsed.in_reply_to} \ {None}) \cup parsed.references

Shared(parsed, other) == Indicators(parsed) \cap Indicators(other)
Kinds(indicators) == {i.type : i \in indicators}
Strong(indicators) == {i \in indicators : i.type \in {"url", "hash"}}
Threads(parsed, other) == MessageIds(parsed) \cap MessageIds(other)

MutantSameIdentity(parsed, other) ==
    parsed.sender # None /\ parsed.sender \in other.reply_to \cup {other.sender}
SameIdentity(parsed, other) ==
    \/ parsed.sender # None /\ parsed.sender = other.sender
    \/ parsed.reply_to \cap other.reply_to # {}

\* Domain and address overlap alone is common on shared mail platforms.
EnoughEvidence(parsed, other) ==
    LET shared == Shared(parsed, other)
        strong == Strong(shared)
        identity == SameIdentity(parsed, other)
    IN  \/ Threads(parsed, other) # {}
        \/ "hash" \in Kinds(strong)
        \/ Cardinality(strong) >= 2
        \/ strong # {} /\ identity
        \/ {"domain", "ip"} \subseteq Kinds(shared) /\ identity

AssociationScore(parsed, other) ==
    LET points == [hash |-> 45, url |-> 25, domain |-> 5, ip |-> 5]
    IN  CapAt(SumFunction([i \in Shared(parsed, other) |-> points[i.type]])
              + PointsIf(SameIdentity(parsed, other), 20)
              + PointsIf(Threads(parsed, other) # {}, 35), 100)

\* The stored rows the database queries return for a message: the values of
\* every indicator of the other, its own identifiers, or its sender.
MutantQueried(parsed, other) ==
    LET values == {i.value : i \in {x \in Indicators(parsed) : x.type = "url"}}
    IN  \/ values \cap {i.value : i \in other.iocs} # {}
        \/ {other.message_id, other.in_reply_to} \cap MessageIds(parsed) # {}
Queried(parsed, other) ==
    LET values(kinds) == {i.value : i \in {x \in Indicators(parsed) : x.type \in kinds}}
        stored == {i.value : i \in other.iocs}
    IN  \/ values({"url", "hash"}) \cap stored # {}
        \/ {other.message_id, other.in_reply_to} \cap MessageIds(parsed) # {}
        \/ /\ parsed.sender # None /\ parsed.sender = other.sender
           /\ values({"domain", "ip"}) \cap stored # {}

\* related_emails(), of the stored analyses of the other messages.
RelatedEmails(parsed, stored) ==
    {[email |-> e, score |-> AssociationScore(parsed, stored[e])] :
        e \in {o \in DOMAIN stored :
                Queried(parsed, stored[o]) /\ EnoughEvidence(parsed, stored[o])}}

----------------------------------------------------------------------------
\* The graph: a node is <<kind, value>>, an edge [from, to, label]. There is
\* one edge between two nodes; the label written last stays.

KindOf == [ip |-> "IP", domain |-> "Domain", url |-> "URL", hash |-> "Attachment"]
Edge(a, b, label) == [from |-> a, to |-> b, label |-> label]

IdentityEdges(root, parsed) ==
    LET sender == <<"Sender", parsed.sender>> IN
    {Edge(root, sender, "SENT_FROM")}
      \cup {Edge(sender, <<"Domain", d>>, "ASSOCIATED_WITH") :
                d \in {parsed.sender} \ {None}}
      \cup (UNION {{Edge(root, <<"Reply-To", r>>, "REPLY_TO"),
                    Edge(<<"Reply-To", r>>, <<"Domain", r>>, "ASSOCIATED_WITH")} :
                     r \in parsed.reply_to})
      \cup {Edge(root, <<"Message-ID", i>>,
                 IF i \in parsed.references \cup {parsed.in_reply_to}
                 THEN "REFERENCES" ELSE "DECLARES_ID") : i \in MessageIds(parsed)}

MutantObservedEdges(root, parsed) ==
    {Edge(<<KindOf[i.type], i.value>>, root, "OBSERVED_IN") :
        i \in {x \in parsed.iocs : x.type # "ip"}}
ObservedEdges(root, parsed) ==
    {Edge(<<KindOf[i.type], i.value>>, root, "OBSERVED_IN") : i \in parsed.iocs}
      \cup {Edge(<<"URL", u.url>>, <<"Domain", u.domain>>, "LINKS_TO") : u \in parsed.urls}

\* What the enrichment adds hangs on the name the lookup answered for.
EnrichmentEdges(item) ==
    LET node == <<KindOf[item.type], item.query>>
        available == Available(item.providers)
        geo == NetworkGeo(item)
        located == \E a \in available : a.provider \in Geographic
        owner == Registration(item).organization
    IN  {e \in {Edge(node, <<"Geo location", item.query>>, "LOCATED_IN")} : located}
      \cup {e \in {Edge(node, <<"ASN", geo.asn>>, "HOSTED_ON")} : located /\ geo.asn # 0}
      \cup {Edge(node, <<"Threat intelligence", <<a.provider, item.query>> >>,
                 "ASSOCIATED_WITH") :
                a \in {x \in available : x.provider \notin Geographic}}
      \cup {Edge(node, <<"IP", ip>>, "RESOLVES_TO") : ip \in item.dns}
      \cup {e \in {Edge(node, <<"Organization", owner>>, "REGISTERED_TO")} : owner # "none"}

Graph(email, parsed, enrichment) ==
    LET root == <<"Email", email>>
        edges == IdentityEdges(root, parsed) \cup ObservedEdges(root, parsed)
                   \cup (UNION {EnrichmentEdges(i) : i \in enrichment})
    IN  [nodes |-> (UNION {{e.from, e.to} : e \in edges})
                     \cup {<<KindOf[i.type], i.query>> : i \in enrichment},
         edges |-> edges]

\* The cluster of a node: what undirected steps reach.
Cluster(graph, node) ==
    LET neighbours(S) == {e.to : e \in {x \in graph.edges : x.from \in S}}
                           \cup {e.from : e \in {x \in graph.edges : x.to \in S}}
        within[k \in 0..Cardinality(graph.nodes)] ==
            IF k = 0 THEN {node}
            ELSE LET nearer == within[k - 1] IN nearer \cup neighbours(nearer)
    IN  within[Cardinality(graph.nodes)]
=============================================================================
