--------------------------- MODULE EmailAnalysis ---------------------------
(***************************************************************************)
(* The data path of process() in backend/core/pipeline.py: what a worker   *)
(* makes of a message from one stage to the next, and what it stores. The  *)
(* outside world answers at the stage that asks: the resolver, the model,  *)
(* the providers. Workers of several messages interleave; they meet in the *)
(* stored analyses, which related_emails() reads.                          *)
(***************************************************************************)
EXTENDS Correlation

CONSTANTS
    Emails,         \* the messages under analysis
    Messages,       \* what a message may contain
    Configs,        \* saved settings
    Worlds,         \* answers of the resolver to the authentication checks
    Predictions,    \* what the model may say, and that it is unavailable
    Reports,        \* indicator value -> what each provider knows, or "raises"
    LocalGeo,       \* address -> what the local MaxMind database knows
    Canonical,      \* domain -> its spelling after validation
    IndicatorLimit  \* 25

\* What the regular expressions and libraries behind a message return: lists,
\* offsets, addresses as ipaddress reads them, signals of the table.
ASSUME MessagesAreRead ==
    \A m \in Messages :
        /\ m.from \in Seq(Range(m.from)) /\ m.signatures \in Seq(Range(m.signatures))
        /\ m.attachments \in Seq(Range(m.attachments))
        /\ m.replyTo \in Seq(Range(m.replyTo))
        /\ m.received \in Seq(Range(m.received))
        /\ \A h \in Range(m.received) :
              /\ h.fromAt \in Nat /\ h.byAt \in Nat /\ h.ips \in Seq(Range(h.ips))
              /\ \A i \in Range(h.ips) : i.offset \in Nat /\ i.ip \in DOMAIN Traits
        /\ IsFiniteSet(m.urls) /\ IsFiniteSet(m.clientIps)
        /\ \A u \in m.urls : u.traits \subseteq UrlSignals /\ u.url # None
        /\ \A s \in Range(m.signatures) :
              s.check \in {"malformed", "error", "invalid", "valid"}
        /\ None \notin m.refs /\ IsFiniteSet(m.refs)

\* A link carries its scheme and a file hash is all digits: neither is an address.
ASSUME AddressesAreApart ==
    \A m \in Messages : /\ \A u \in m.urls : ~IsIp(u.url)
                        /\ \A a \in Range(m.attachments) : ~IsIp(a.sha)

\* save_settings() accepts no other policy.
ASSUME PoliciesAreAccepted == \A c \in Configs : AcceptedPolicy(c)

ASSUME PredictionsArePercent ==
    \A p \in Predictions : p.status = "Available" =>
        {p.prob.PHISHING, p.prob.BEC, p.prob.SPAM} \subseteq 0..100

\* Each provider signs its answers, and VirusTotal counts its engines.
ASSUME AnswersAreSigned ==
    /\ \A r \in Reports : \A v \in DOMAIN r :
          /\ \A p \in Reputation \cup Geographic : r[v][p].provider = p
          /\ r[v]["virustotal"].status = "Available" =>
                {r[v]["virustotal"].result.malicious,
                 r[v]["virustotal"].result.total} \subseteq Nat
    /\ \A ip \in DOMAIN Traits : LocalGeo[LookupIp(ip)].provider = "geoip"

\* What the code reads of an answer is there, a registration reports no
\* anonymizing service, and a name has finitely many addresses.
ASSUME AnswersAreRecords ==
    \A r \in Reports : \A v \in DOMAIN r :
        /\ \A p \in Reputation \cup Geographic :
              /\ {"provider", "status"} \subseteq DOMAIN r[v][p]
              /\ r[v][p].status = "Available" => "result" \in DOMAIN r[v][p]
        /\ \A p \in Geographic : r[v][p].status = "Available" =>
              DOMAIN Nowhere \subseteq DOMAIN r[v][p].result
        /\ r[v]["rdap"].status = "Available" => "flags" \notin DOMAIN r[v]["rdap"].result
        /\ IsFiniteSet(r[v]["dns"])

\* An address may be spelled as a link's host too: a row of each kind fits.
ASSUME LimitIsNotTiny == IndicatorLimit \in Nat \ {0, 1}

VARIABLES
    stage,          \* of each message's job
    message,        \* the preserved original
    config,         \* settings() as the worker read them
    parsed,         \* the parse result, as enriched so far
    ml,
    enrichment,
    related,        \* leads found at the correlation stage
    known,          \* the messages whose analyses that search could see
    analyses        \* db.email_analysis: message -> stored analysis

vars == <<stage, message, config, parsed, ml, enrichment, related, known, analyses>>
Nothing == [nothing |-> TRUE]

Init ==
    /\ stage = [e \in Emails |-> "Uploaded"]
    /\ message \in [Emails -> Messages]
    /\ config = [e \in Emails |-> Nothing]
    /\ parsed = [e \in Emails |-> Nothing]
    /\ ml = [e \in Emails |-> Nothing]
    /\ enrichment = [e \in Emails |-> {}]
    /\ related = [e \in Emails |-> {}]
    /\ known = [e \in Emails |-> {}]
    /\ analyses = << >>

Advance(e, from, to) == stage[e] = from /\ stage' = [stage EXCEPT ![e] = to]

ParseOriginal(e) ==
    /\ IF Parses(message[e])
       THEN /\ Advance(e, "Uploaded", "Parsing")
            /\ parsed' = [parsed EXCEPT ![e] = Parse(message[e])]
       ELSE /\ Advance(e, "Uploaded", "Failed")
            /\ UNCHANGED parsed
    /\ UNCHANGED <<message, config, ml, enrichment, related, known, analyses>>

Authenticate(e) ==
    /\ Advance(e, "Parsing", "Forensics")
    /\ \E c \in Configs, w \in Worlds :
        /\ config' = [config EXCEPT ![e] = c]
        /\ parsed' = [parsed EXCEPT
                        ![e] = EnrichAuthentication(parsed[e], w, c.dns_enabled)]
    /\ UNCHANGED <<message, ml, enrichment, related, known, analyses>>

Predict(e) ==
    /\ Advance(e, "Forensics", "AI Analysis")
    /\ \E p \in Predictions : ml' = [ml EXCEPT ![e] = p]
    /\ UNCHANGED <<message, config, parsed, enrichment, related, known, analyses>>

\* lookup() of one indicator. What raises leaves an item without answers.
Unanswered(i) == [type |-> i.type, query |-> i.value, providers |-> {},
                  rdap |-> [status |-> "Disabled"], dns |-> {}]
Lookup(i, report, external) ==
    LET asked(p) == IF external \/ p = "geoip" THEN report[p]
                    ELSE [provider |-> p, status |-> "Not Requested"]
        answers == [p \in Reputation \cup Geographic |-> asked(p)]
    IN  [type |-> i.type,
         query |-> IF i.type = "domain" THEN Canonical[i.value] ELSE i.value,
         providers |-> {answers[p] : p \in Reputation}
                         \cup (IF i.type = "ip" THEN GeographicAnswers(answers) ELSE {}),
         rdap |-> IF external /\ i.type \in {"ip", "domain"} THEN report["rdap"]
                  ELSE [status |-> "Disabled"],
         dns |-> IF i.type = "domain" THEN report["dns"] ELSE {}]

Eligible(p) == {i \in p.iocs : i.type = "ip" => Public(i.value)}

\* The chosen indicators are looked up, then the mail path fills in the rest.
GatherIntelligence(e) ==
    /\ Advance(e, "AI Analysis", "Threat Intelligence")
    /\ \E r \in Reports,
          chosen \in SelectIndicators(Eligible(parsed[e]), parsed[e].candidate,
                                      IndicatorLimit) :
        LET item(i) == IF i.value \notin DOMAIN r THEN Unanswered(i)
                       ELSE Lookup(i, r[i.value], config[e].external)
        IN  enrichment' = [enrichment EXCEPT ![e] =
                EnrichMailPath(parsed[e], {item(i) : i \in chosen}, LocalGeo)]
    /\ UNCHANGED <<message, config, parsed, ml, related, known, analyses>>

Correlate(e) ==
    /\ Advance(e, "Threat Intelligence", "Correlation")
    /\ LET others == DOMAIN analyses \ {e} IN
        /\ known' = [known EXCEPT ![e] = others]
        /\ related' = [related EXCEPT ![e] =
              RelatedEmails(parsed[e], [o \in others |-> analyses[o].forensics])]
    /\ UNCHANGED <<message, config, parsed, ml, enrichment, analyses>>

\* The stored analysis; the scores were computed from the same values before.
Analysis(e) ==
    LET origin == OriginConfidence(parsed[e], enrichment[e]) IN
    [forensics |-> parsed[e], related |-> related[e],
     risk |-> Risk(parsed[e], ml[e], enrichment[e], config[e]),
     origin |-> origin,
     attribution |-> AssessAttribution(parsed[e], ml[e], origin),
     geolocation |-> GeolocationStatus(parsed[e], enrichment[e]),
     graph |-> Graph(e, parsed[e], enrichment[e])]

Store(e) ==
    /\ Advance(e, "Correlation", "Completed")
    /\ analyses' = [o \in DOMAIN analyses \cup {e} |->
                        IF o = e THEN Analysis(e) ELSE analyses[o]]
    /\ UNCHANGED <<message, config, parsed, ml, enrichment, related, known>>

\* An analyst asks for the analysis again; the worker starts from the original.
Reanalyze(e) ==
    /\ stage[e] \in {"Completed", "Failed"}
    /\ stage' = [stage EXCEPT ![e] = "Uploaded"]
    /\ parsed' = [parsed EXCEPT ![e] = Nothing]
    /\ config' = [config EXCEPT ![e] = Nothing]
    /\ ml' = [ml EXCEPT ![e] = Nothing]
    /\ enrichment' = [enrichment EXCEPT ![e] = {}]
    /\ related' = [related EXCEPT ![e] = {}]
    /\ known' = [known EXCEPT ![e] = {}]
    /\ UNCHANGED <<message, analyses>>

Next == \E e \in Emails :
    \/ ParseOriginal(e) \/ Authenticate(e) \/ Predict(e)
    \/ GatherIntelligence(e) \/ Correlate(e) \/ Store(e) \/ Reanalyze(e)

Spec == Init /\ [][Next]_vars

----------------------------------------------------------------------------
(* Properties. *)

Stages == {"Uploaded", "Parsing", "Forensics", "AI Analysis",
           "Threat Intelligence", "Correlation", "Completed", "Failed"}
Finished == {e \in Emails : stage[e] = "Completed"}

\* Stages are those of the job; a stored analysis carries a whole score within
\* 100, a level that exists, and an origin score within the ceiling.
TypeOK ==
    /\ stage \in [Emails -> Stages]
    /\ DOMAIN analyses \subseteq Emails
    /\ \A e \in DOMAIN analyses :
          /\ analyses[e].risk.risk_score \in 0..100
          /\ analyses[e].risk.severity \in {"LOW", "MEDIUM", "HIGH", "CRITICAL"}
          /\ analyses[e].origin.score \in 0..OriginCap

\* The contributions an analyst sees, with the two policy adjustments, add up
\* to the score shown: rounding is the only difference, no cap hides points.
ScoreExplained ==
    \A e \in DOMAIN analyses :
        LET risk == analyses[e].risk
            shown == Total(risk.contributions) + risk.correlation + risk.model_review
            gap == 100 * risk.risk_score - shown
        IN  gap \in -53..53

\* A model that is at least 70 percent sure of phishing or of a business email
\* compromise makes the analysis HIGH, and any such label at least MEDIUM, however
\* little other evidence there is, as long as the model has a weight at all.
ThreatLabelReviewed ==
    \A e \in Finished :
        LET p == ml[e] c == config[e] IN
        p.status = "Available" /\ p.label \in {"PHISHING", "BEC"} /\ c.weights.ai > 0
        => IF p.prob[p.label] >= 70
           THEN analyses[e].risk.severity \in {"HIGH", "CRITICAL"}
           ELSE analyses[e].risk.severity # "LOW"

\* The score with the missing evidence left out: reports other than failures,
\* local checks that reached no verdict, providers that did not answer.
WithoutSilence(p) ==
    LET heard(r) == IF r \in {"FAIL", "SOFTFAIL"} THEN r ELSE "Unknown" IN
    [p EXCEPT !.authentication.spf.reported = heard(@),
              !.authentication.dkim.reported = heard(@),
              !.authentication.dmarc.reported = heard(@),
              !.authentication.dkim.local =
                    IF @ \in {"PASS", "FAIL"} THEN @ ELSE "Not Configured"]

\* Unknown, neutral or unavailable evidence is never treated as failure.
MissingEvidenceIsNeutral ==
    \A e \in Finished :
        Risk(WithoutSilence(parsed[e]), ml[e],
             {[i EXCEPT !.providers = Available(@)] : i \in enrichment[e]},
             config[e]).risk_score
        = analyses[e].risk.risk_score

\* No answer of a provider lowers the score: without it the score is no higher.
EvidenceOnlyRaises ==
    \A e \in Finished : \A i \in enrichment[e] : \A a \in i.providers :
        Risk(parsed[e], ml[e],
             (enrichment[e] \ {i}) \cup {[i EXCEPT !.providers = @ \ {a}]},
             config[e]).risk_score
        <= analyses[e].risk.risk_score

\* The points for a DKIM failure seen here need a failure of every signature of
\* the message: one that was not checked, or not fetched in time, prevents it.
VerifiedFailureIsComplete ==
    \A e \in Finished :
        analyses[e].forensics.authentication.dkim.local = "FAIL" =>
            /\ config[e].dns_enabled
            /\ \A s \in Range(message[e].signatures) :
                  s.rsa /\ (s.check = "malformed"
                            \/ (s.key = "published" /\ s.check = "invalid"))

\* A local DMARC pass stands on a valid signature of the one sender's own
\* organization, and under a strict record on one of the very domain.
DmarcPassIsAligned ==
    \A e \in Finished :
        analyses[e].forensics.authentication.dmarc.local = "PASS" =>
            /\ message[e].fromHeaders = 1 /\ Len(message[e].from) = 1
            /\ \E s \in Range(message[e].signatures) :
                  /\ s.rsa /\ s.key = "published" /\ s.check = "valid"
                  /\ Registrable[s.domain] = Registrable[message[e].from[1]]
            /\ analyses[e].forensics.authentication.dmarc.strict =>
                  \E s \in Range(message[e].signatures) :
                     s.check = "valid" /\ s.domain = message[e].from[1]

\* The candidate origin is a public address some relay says it received the
\* message from, and never one that is written only after its own "by".
OriginOnSendingSide ==
    \A e \in DOMAIN analyses :
        analyses[e].origin.candidate # None =>
            \E h \in Range(message[e].received) : \E i \in Range(h.ips) :
                /\ i.ip = analyses[e].origin.candidate /\ Public(i.ip)
                /\ h.byAt > 0 => i.offset < h.byAt
                /\ h.fromAt > 0 /\ h.fromAt <= i.offset

\* A provider's word that the candidate is an anonymizing service lowers the
\* confidence even when so much else is known that the ceiling applies.
ObscuringLowersOrigin ==
    \A e \in Finished :
        LET candidate == analyses[e].origin.candidate
            plain(a) == IF "flags" \in DOMAIN FieldOf(a, "result", [none |-> 0])
                        THEN [a EXCEPT !.result.flags = @ \ Anonymizing] ELSE a
            unflagged == {[i EXCEPT !.providers = {plain(a) : a \in i.providers}] :
                            i \in enrichment[e]}
            flagged == unflagged # enrichment[e]
                       /\ \E k \in analyses[e].origin.infrastructure :
                            k.kind \in Anonymizing /\ k.basis = "REPORTED"
        IN  flagged => \/ analyses[e].origin.score = 0
                       \/ analyses[e].origin.score
                            < OriginConfidence(parsed[e], unflagged).score

\* Long lists of links do not take the place of addresses: the candidate is
\* asked about, a link is only when every address is, and every public address
\* of the message has a row in the end.
LinksSpareAddresses ==
    \A e \in Finished :
        LET public == {ip \in PathIps(parsed[e]) : IsIp(ip) /\ Public(ip)}
            full(ip) == \E i \in enrichment[e] :
                            i.query = ip /\ "virustotal" \in {a.provider : a \in i.providers}
            links == \E i \in enrichment[e] : i.type = "url"
            raised(ip) == \E i \in enrichment[e] : i.query = ip /\ i.providers = {}
        IN  /\ \A ip \in public : \E i \in enrichment[e] : i.type = "ip" /\ i.query = ip
            /\ links => \A ip \in public : full(ip) \/ raised(ip)
            /\ parsed[e].candidate # None =>
                    full(parsed[e].candidate) \/ raised(parsed[e].candidate)

\* Everything in the graph hangs on the message, unless a domain is spelled in
\* a way the lookup normalizes: then the answer starts a cluster of its own.
GraphHangsTogether ==
    \A e \in DOMAIN analyses :
        LET graph == analyses[e].graph
            respelled == \E i \in analyses[e].forensics.iocs :
                            i.type = "domain" /\ Canonical[i.value] # i.value
        IN  respelled \/ Cluster(graph, <<"Email", e>>) = graph.nodes

\* Two messages that carry the same attachment are linked in one of their
\* analyses at least, unless each was correlated before the other was stored.
SharedFileIsALead ==
    \A e, f \in Finished :
        (e # f /\ \E i \in Shared(parsed[e], parsed[f]) : i.type = "hash")
        => \/ \E l \in analyses[e].related : l.email = f
           \/ \E l \in analyses[f].related : l.email = e
           \/ e \notin known[f] /\ f \notin known[e]

\* A link or a file hash of one message that is spelled like another kind of
\* indicator of the other: the d= of a DKIM signature may be any text.
SpelledAlike(p, q) ==
    \E i \in p.iocs, j \in q.iocs :
        i.value = j.value /\ i.type # j.type /\ Strong({i, j}) # {}

\* Two analyses that could see each other report the same lead with the same
\* strength, but for threads one side knows only through References and for
\* indicators of different kinds with one spelling.
LeadsAreMutual ==
    \A e, f \in Finished :
        (/\ e \in known[f] /\ f \in known[e]
         /\ Threads(parsed[e], parsed[f]) = {} /\ ~SpelledAlike(parsed[e], parsed[f]))
        => \A s \in 0..100 : ([email |-> f, score |-> s] \in analyses[e].related)
                            <=> ([email |-> e, score |-> s] \in analyses[f].related)
=============================================================================
