---------------------------- MODULE Intelligence ----------------------------
(***************************************************************************)
(* What provider answers say: the interpreting half of                     *)
(* backend/intelligence/providers.py. An enrichment item is the answer set *)
(* of one indicator, [type, query, providers, rdap, dns]; an answer is     *)
(* [provider, status, result]. A result lists the fields the code reads.   *)
(***************************************************************************)
EXTENDS Integers, FiniteSets

\* The value of the first row <<condition, value>> whose condition holds.
FirstMatch(table) ==
    table[CHOOSE i \in DOMAIN table :
            table[i][1] /\ \A j \in 1..(i - 1) : ~table[j][1]][2]

Reputation == {"virustotal", "abuseipdb", "greynoise", "urlscan"}
Geographic == {"ipinfo", "geoip"}

AnswersIn(enrichment) == UNION {i.providers : i \in enrichment}
Available(answers) == {a \in answers : a.status = "Available"}

\* Claims in basis points. An engine count or an abuse score is bounded, so
\* one provider never weighs more than 35 percent.
ClaimStrength(a) ==
    LET bounded(x) == IF x < 3500 THEN x ELSE 3500 IN
    CASE a.provider = "virustotal" ->
            LET m == a.result.malicious
                total == IF a.result.total < 1 THEN 1 ELSE a.result.total
            IN  bounded(400 * m + (1500 * m) \div total)
      [] a.provider = "abuseipdb" ->
            IF a.result.score \in 50..100 /\ a.result.reports >= 3
            THEN bounded(35 * a.result.score) ELSE 0
      [] a.provider = "greynoise" -> IF a.result.malicious THEN 2500 ELSE 0
      [] OTHER -> 0

MaliciousSignals(enrichment) ==
    {[provider |-> a.provider, strength |-> ClaimStrength(a)] :
        a \in {x \in Available(AnswersIn(enrichment)) : ClaimStrength(x) > 0}}

----------------------------------------------------------------------------
\* Network location.

Nowhere == [coordinates |-> FALSE, country |-> FALSE, asn |-> 0,
            organization |-> "none", type |-> "none"]

HasCoordinates(result) == result.coordinates

ResultOf(item, provider) ==
    LET found == {a \in Available(item.providers) : a.provider = provider}
    IN  IF found = {} THEN Nowhere ELSE (CHOOSE a \in found : TRUE).result

Registration(item) ==
    IF item.rdap.status = "Available" THEN item.rdap.result
    ELSE [asn |-> 0, organization |-> "none", covers |-> "unknown"]

\* The first value that is there, of IPinfo, MaxMind and RDAP.
FirstOf(x, y, z, missing) ==
    IF x # missing THEN x ELSE IF y # missing THEN y ELSE z

\* Coordinates and country come from one provider together: IPinfo's, unless
\* only MaxMind can place the address. The network fields fall back one by one.
NetworkGeo(item) ==
    LET primary == ResultOf(item, "ipinfo")
        fallback == ResultOf(item, "geoip")
        place == IF \/ HasCoordinates(primary)
                    \/ ~HasCoordinates(fallback) /\ primary # Nowhere
                 THEN primary ELSE fallback
        rdap == Registration(item)
    IN  [coordinates |-> HasCoordinates(place), country |-> place.country,
         asn |-> FirstOf(primary.asn, fallback.asn, rdap.asn, 0),
         organization |-> FirstOf(primary.organization, fallback.organization,
                                  rdap.organization, "none"),
         type |-> FirstOf(primary.type, fallback.type, "none", "none")]

----------------------------------------------------------------------------
\* Which indicators are looked up.

\* The origin candidate first, then the other addresses, then the rest.
MutantRank(indicator, candidate) == IF indicator.value = candidate THEN 0 ELSE 1
Rank(indicator, candidate) ==
    IF indicator.value = candidate THEN 0 ELSE IF indicator.type = "ip" THEN 1 ELSE 2

\* A selection the stable sort can produce: the limit, best ranks first.
SelectIndicators(eligible, candidate, limit) ==
    {S \in SUBSET eligible :
        /\ Cardinality(S) = IF Cardinality(eligible) < limit
                            THEN Cardinality(eligible) ELSE limit
        /\ \A i \in S, o \in eligible \ S :
              Rank(i, candidate) <= Rank(o, candidate)}

\* lookup(): IPinfo answers for an address; MaxMind is asked only when IPinfo
\* leaves coordinates or the autonomous system open.
GeographicAnswers(answer) ==
    LET primary == answer["ipinfo"] IN
    {primary} \cup
    (IF /\ primary.status = "Available"
        /\ HasCoordinates(primary.result) /\ primary.result.asn # 0
     THEN {} ELSE {answer["geoip"]})
=============================================================================
