-------------------------- MODULE OriginConfidence --------------------------
(***************************************************************************)
(* Where a message may have come from: backend/core/origin_confidence.py,  *)
(* core/attribution.py and the mail-path enrichment of                     *)
(* intelligence/providers.py. Organization names are "none", "google",     *)
(* "microsoft", "cloud" (another mail or cloud provider the code names),   *)
(* "vpn" and "isp". A result may carry the flags a provider reports.       *)
(***************************************************************************)
EXTENDS Authentication

OriginCap == 59
OriginHigh == 80
OriginMedium == 30

FieldOf(result, field, missing) ==
    IF field \in DOMAIN result THEN result[field] ELSE missing

MailCloudProvider(organization) ==
    IF organization \in {"google", "microsoft", "cloud"} THEN organization ELSE None

\* The kinds the name patterns read into an organization.
InferredKinds(organization) ==
    IF MailCloudProvider(organization) # None THEN {"HOSTING"}
    ELSE {k \in {"VPN"} : organization = "vpn"}

\* Only answers about this very address describe it.
ItemsOf(enrichment, ip) == {i \in enrichment : i.type = "ip" /\ i.query = ip}

InfrastructureIndicators(enrichment, ip) ==
    LET reports(i) == {a.result : a \in Available(i.providers)}
                        \cup {r.result : r \in Available({i.rdap})}
        results == UNION {reports(i) : i \in ItemsOf(enrichment, ip)}
    IN  UNION {{[kind |-> k, basis |-> "REPORTED"] : k \in FieldOf(r, "flags", {})}
                 \cup {[kind |-> k, basis |-> "INFERRED"] :
                        k \in InferredKinds(FieldOf(r, "organization", "none"))} :
               r \in results}

----------------------------------------------------------------------------

\* The candidate must still be a public source address of the chain.
Candidate(parsed) ==
    LET chain == parsed.received_chain
        sources == UNION {{chain[n].ips[k].ip : k \in PublicSources(chain[n].ips)} :
                            n \in DOMAIN chain}
    IN  IF parsed.candidate \in sources THEN parsed.candidate ELSE None

ChainConsistent(parsed) ==
    LET chain == parsed.received_chain IN
    /\ ~parsed.anomaly /\ Len(chain) >= 2
    /\ \A n \in DOMAIN chain : chain[n].stamp > 0
    /\ \A n \in 1..(Len(chain) - 1) :
          /\ chain[n].destination_server # None
          /\ chain[n].destination_server = chain[n + 1].source_server

\* RDAP is compared with the providers, never with its own fallback values.
CrossCheck(item, rdap) ==
    LET geo == NetworkGeo([item EXCEPT !.rdap.status = "Disabled"])
        known(x, y, missing) == x # missing /\ y # missing
        asn == known(geo.asn, rdap.asn, 0)
        org == known(geo.organization, rdap.organization, "none")
    IN  IF (asn /\ geo.asn # rdap.asn) \/ rdap.covers = "no" THEN "Mismatch"
        ELSE IF asn \/ (org /\ geo.organization = rdap.organization)
                \/ rdap.covers = "yes"
        THEN "Consistent" ELSE "Inconclusive"

\* What speaks for the candidate, before the ceiling.
SupportingPoints(parsed, enrichment, candidate) ==
    LET items == ItemsOf(enrichment, candidate)
        item == CHOOSE i \in items : TRUE
        known == items # {}
        geo == NetworkGeo(item)
        rdap == known /\ item.rdap.status = "Available"
        named == \E d \in enrichment : d.type = "domain" /\ candidate \in d.dns
    IN  25 + 15
        + PointsIf(ChainConsistent(parsed), 10)
        + PointsIf(known /\ geo.country, 10)
        + PointsIf(known /\ \E a \in Available(item.providers) : a.provider = "ipinfo", 5)
        + PointsIf(known /\ geo.asn # 0, 10)
        + PointsIf(named, 10)
        + PointsIf(rdap /\ CrossCheck(item, Registration(item)) = "Consistent", 5)

Anonymizing == {"TOR", "VPN", "PROXY", "ANONYMOUS", "PRIVACY RELAY"}

\* What obscures it, taken off after the ceiling.
Penalties(parsed, enrichment, candidate) ==
    LET items == ItemsOf(enrichment, candidate)
        item == CHOOSE i \in items : TRUE
        known == items # {}
        geo == NetworkGeo(item)
        rdap == known /\ item.rdap.status = "Available"
        kinds == InfrastructureIndicators(enrichment, candidate)
        provider ==
            IF ~known THEN None
            ELSE IF MailCloudProvider(geo.organization) # None
            THEN MailCloudProvider(geo.organization)
            ELSE MailCloudProvider(Registration(item).organization)
    IN    PointsIf(rdap /\ CrossCheck(item, Registration(item)) = "Mismatch", 10)
        + PointsIf(parsed.anomaly, 20)
        + PointsIf(\E k \in Anonymizing : [kind |-> k, basis |-> "REPORTED"] \in kinds, 15)
        + PointsIf(\/ provider # None
                   \/ \E k \in kinds : k.kind = "HOSTING"
                   \/ known /\ geo.type = "hosting", 15)
        + PointsIf(provider \in {"google", "microsoft"}, 10)

\* The ceiling of an uploaded message comes before the penalties, so that they
\* still tell when much is known.
MutantCeilingLast(supporting, penalties) ==
    CapAt(AtLeast(supporting - penalties, 0), OriginCap)
MutantUnbounded(supporting, penalties) == CapAt(supporting, OriginCap) - penalties
OriginScore(supporting, penalties) ==
    CapAt(AtLeast(CapAt(supporting, OriginCap) - penalties, 0), OriginCap)

\* compute_origin_confidence()
OriginConfidence(parsed, enrichment) ==
    LET candidate == Candidate(parsed)
        score == IF candidate = None THEN 0
                 ELSE OriginScore(SupportingPoints(parsed, enrichment, candidate),
                                  Penalties(parsed, enrichment, candidate))
    IN  [candidate |-> candidate, score |-> score,
         level |-> IF score >= OriginHigh THEN "HIGH"
                   ELSE IF score >= OriginMedium THEN "MEDIUM" ELSE "LOW",
         infrastructure |-> IF candidate = None THEN {}
                            ELSE InfrastructureIndicators(enrichment, candidate)]

----------------------------------------------------------------------------

\* assess_attribution(): hypotheses, each with the status it may claim.
AssessAttribution(parsed, ml, origin) ==
    LET identity == parsed.identity
        finding(kind, status) == [kind |-> kind, status |-> status]
        impersonation == identity.lookalikes # {} \/ identity.display_name_mismatch
    IN  {f \in {finding("Sender impersonation", "SUSPECTED")} : impersonation}
          \cup {f \in {finding("Sender identity inconsistency", "OBSERVED")} :
                  ~impersonation /\ identity.reply_to_mismatch}
          \cup {f \in {finding("Domain spoofing", "SUSPECTED")} :
                  parsed.authentication.dmarc.reported = "FAIL"}
          \cup {finding(s.kind, s.basis) : s \in origin.infrastructure}
          \cup {finding("Compromised account", "UNKNOWN"),
                finding("Human actor identity", "INSUFFICIENT EVIDENCE")}

ReviewAccessLogs(parsed, ml) ==
    parsed.authentication.dmarc.local = "PASS" /\ ml.label \in {"PHISHING", "BEC"}

----------------------------------------------------------------------------
\* The mail path: every public address gets a location row, within or beyond
\* the indicator limit.

GeoAnswers(item) == {a \in item.providers : a.provider \in Geographic}

\* The answer kept for an address: one that is available, or the last asked.
KeptAnswer(item) ==
    LET rows == GeoAnswers(item)
        last == IF \E a \in rows : a.provider = "geoip" THEN "geoip" ELSE "ipinfo"
        chosen == IF Available(rows) # {} THEN Available(rows)
                  ELSE {a \in rows : a.provider = last}
        answer == CHOOSE a \in chosen : a.provider = "ipinfo" \/ Cardinality(chosen) = 1
        geo == NetworkGeo(item)
    IN  [provider |-> answer.provider, result |-> geo,
         status |-> IF geo # Nowhere THEN "Available" ELSE answer.status]

\* Answers by looked-up address. Of two notations of one address with answers,
\* the one enriched last is kept; the set leaves open which that is.
Located(enrichment, key) ==
    {KeptAnswer(i) : i \in {x \in enrichment :
        /\ x.type = "ip" /\ Public(x.query) /\ LookupIp(x.query) = key
        /\ GeoAnswers(x) # {}}}

\* Addresses of the message the path is drawn from.
PathIps(parsed) ==
    parsed.observed \cup {i.value : i \in {x \in parsed.iocs : x.type = "ip"}}

\* Addresses beyond the limit: MaxMind alone answers, once per address.
EnrichMailPath(parsed, enrichment, local) ==
    LET known == {i.query : i \in {x \in enrichment : x.type = "ip"}}
        beyond == {ip \in PathIps(parsed) : IsIp(ip) /\ Public(ip) /\ ip \notin known}
        answer(ip) == IF Located(enrichment, LookupIp(ip)) # {}
                      THEN CHOOSE a \in Located(enrichment, LookupIp(ip)) : TRUE
                      ELSE local[LookupIp(ip)]
    IN  enrichment \cup
        {[type |-> "ip", query |-> ip, dns |-> {},
          providers |-> {answer(ip)},
          rdap |-> [status |-> "Disabled"]] : ip \in beyond}

\* geolocation_summary(): why there is, or is not, a place to show.
GeolocationStatus(parsed, enrichment) ==
    LET public == {i \in parsed.iocs : i.type = "ip" /\ Public(i.value)}
        rows == UNION {GeoAnswers(i) : i \in {x \in enrichment : x.type = "ip"}}
        some(status) == \E r \in rows : r.status = status
    IN  FirstMatch(
          << <<\E r \in Available(rows) : HasCoordinates(r.result), "Available">>,
             <<public = {}, "Not Observable">>,
             <<some("Available"), "No Coordinates">>,
             <<some("Unavailable"), "Unavailable">>,
             <<some("Not Found"), "Not Found">>,
             <<rows # {} /\ \A r \in rows : r.status = "Disabled", "Disabled">>,
             <<rows # {}, "Not Configured">>,
             <<TRUE, "Not Evaluated">> >>)
=============================================================================
