----------------------------- MODULE RiskEngine -----------------------------
(***************************************************************************)
(* The threat risk score: backend/core/risk_engine.py with the tables of   *)
(* core/scoring_config.py.                                                 *)
(*                                                                         *)
(* Units. Strengths, fractions of one in the code, are basis points        *)
(* (10 000 is 1.0). Probabilities and weights are whole percent, as the    *)
(* settings page takes them. Points that the code rounds to two decimals   *)
(* are hundredths; scores are whole.                                       *)
(***************************************************************************)
EXTENDS Integers, FiniteSets, Functions, Intelligence

One == 10000            \* the strength 1.0
Full == 10000           \* 100 points, in hundredths

Categories == {"authentication", "sender_identity", "url", "attachment",
               "headers", "intelligence", "ai"}

CapAt(x, cap) == IF x < cap THEN x ELSE cap
AtLeast(x, floor) == IF x < floor THEN floor ELSE x
Greatest(S) == IF S = {} THEN 0 ELSE CHOOSE x \in S : \A y \in S : y <= x
PointsIf(condition, points) == IF condition THEN points ELSE 0

\* Python's round() of hundredths to a whole score: ties go to the even one.
RoundHalfEven(h) ==
    LET whole == h \div 100
        rest == h % 100
    IN  IF rest > 50 \/ (rest = 50 /\ whole % 2 = 1) THEN whole + 1 ELSE whole

\* The policies save_settings() accepts (backend/api/routes/settings.py).
AcceptedPolicy(config) ==
    /\ config.weights \in [Categories -> 0..100]
    /\ SumFunction(config.weights) = 100
    /\ config.weights.ai <= 25
    /\ {config.low, config.high, config.critical} \subseteq 1..100
    /\ config.low < config.high /\ config.high < config.critical

----------------------------------------------------------------------------
\* The tables.

AuthPoints == [SPF_FAIL |-> 16, SPF_SOFTFAIL |-> 6, DKIM_FAIL_REPORTED |-> 16,
               DKIM_FAIL_VERIFIED |-> 30, DMARC_FAIL |-> 24,
               REPLY_TO_MISMATCH |-> 10]

HeaderPoints == [REPLY_TO_MISMATCH |-> 15, DISPLAY_NAME |-> 20,
                 LOOKALIKE_SENDER |-> 25, RELAY_ANOMALY |-> 15]
IdentityCap == 40
RoutingCap == 25

IocPoints == [MALICIOUS_URL |-> 35, MALICIOUS_HASH |-> 40,
              SUSPICIOUS_ATTACHMENT |-> 20, OBFUSCATED_URL |-> 15,
              URL_DISPLAY_MISMATCH |-> 10]

\* The strength analyze_url() gives each of its signals.
SignalStrength ==
    [unencrypted_http |-> 500, ip_hostname |-> 1500, shortener |-> 1000,
     review_tld |-> 500, subdomains |-> 1000, long_url |-> 500,
     url_userinfo |-> 2500, encoding |-> 500, internationalized_domain |-> 1000,
     credential_keywords |-> 1000, redirect_parameter |-> 1000,
     display_href_mismatch |-> 6500, sender_link_domain_mismatch |-> 0,
     lookalike_domain |-> 4000]
UrlSignals == DOMAIN SignalStrength

----------------------------------------------------------------------------
\* The evidence of each category.

\* P(PHISHING) + P(BEC) + 0.4 P(SPAM), at most 1.
Threat(ml) ==
    IF ml.status = "Available"
    THEN CapAt(100 * (ml.prob.PHISHING + ml.prob.BEC) + 40 * ml.prob.SPAM, One)
    ELSE 0

\* Reported results count only as failures.
MutantSpfPoints(reported) == PointsIf(reported # "PASS", AuthPoints.SPF_FAIL)
SpfPoints(reported) ==
    PointsIf(reported = "FAIL", AuthPoints.SPF_FAIL)
    + PointsIf(reported = "SOFTFAIL", AuthPoints.SPF_SOFTFAIL)

\* A local DKIM result, when there is one, takes the place of the reported one.
AuthenticationScore(parsed) ==
    LET auth == parsed.authentication IN
      SpfPoints(auth.spf.reported)
    + PointsIf(auth.dkim.local = "FAIL", AuthPoints.DKIM_FAIL_VERIFIED)
    + PointsIf(/\ auth.dkim.local \notin {"PASS", "FAIL"}
               /\ auth.dkim.reported = "FAIL", AuthPoints.DKIM_FAIL_REPORTED)
    + PointsIf(auth.dmarc.reported = "FAIL", AuthPoints.DMARC_FAIL)
    + PointsIf(parsed.identity.reply_to_mismatch, AuthPoints.REPLY_TO_MISMATCH)

\* A link's lookalike is not sender evidence.
SenderLookalike(parsed) ==
    LET identity == parsed.identity IN
    \E d \in identity.lookalikes :
        d \in {identity.sender_domain, identity.reply_to_domain}

\* Each rule is allowed what its group has left, so a group adds up to its cap.
HeaderScore(parsed) ==
    LET identity == parsed.identity IN
      CapAt(  PointsIf(identity.display_name_mismatch, HeaderPoints.DISPLAY_NAME)
            + PointsIf(SenderLookalike(parsed), HeaderPoints.LOOKALIKE_SENDER)
            + PointsIf(identity.reply_to_mismatch, HeaderPoints.REPLY_TO_MISMATCH),
            IdentityCap)
    + CapAt(PointsIf(parsed.anomaly, HeaderPoints.RELAY_ANOMALY), RoutingCap)

SumOfSignals(url) == SumFunctionOnSet(SignalStrength, url.signals)

\* Analyses saved before signals existed keep bare flags.
UrlStrength(url) ==
    CapAt(IF url.signals # {} THEN SumOfSignals(url) ELSE 2000 * url.flags, One)

\* Many weak links count as the strongest of them.
StrongestUrl(parsed) == Greatest({UrlStrength(u) : u \in parsed.urls})

AttachmentPoints(flags) ==
    IF "Executable or script" \in flags THEN IocPoints.MALICIOUS_HASH
    ELSE PointsIf(flags # {}, IocPoints.SUSPICIOUS_ATTACHMENT)
AttachmentScore(parsed) ==
    SumFunction([i \in DOMAIN parsed.attachments |->
                    AttachmentPoints(parsed.attachments[i].flags)])

\* A provider counts once, with its strongest claim.
MutantProviderStrength(claims) == CHOOSE x \in claims : \A y \in claims : x <= y
ProviderStrength(claims) == Greatest(claims)
IntelligenceStrength(enrichment) ==
    LET bad == MaliciousSignals(enrichment)
        claims(p) == {s.strength : s \in {b \in bad : b.provider = p}}
    IN  SumFunction([p \in {b.provider : b \in bad} |-> ProviderStrength(claims(p))])

Strengths(parsed, ml, enrichment) ==
    [authentication |-> CapAt(100 * AuthenticationScore(parsed), One),
     sender_identity |-> 0,     \* no signal of this category is ever produced
     url |-> StrongestUrl(parsed),
     attachment |-> CapAt(100 * AttachmentScore(parsed), One),
     headers |-> CapAt(100 * HeaderScore(parsed), One),
     intelligence |-> CapAt(IntelligenceStrength(enrichment), One),
     ai |-> Threat(ml)]

----------------------------------------------------------------------------
\* Diagnostic details, which do not enter the score.

StructuredUrlPoints(url) ==
    LET points(s) ==
            CASE s \in {"lookalike_domain", "display_href_mismatch"} ->
                    IocPoints.URL_DISPLAY_MISMATCH
              [] s = "url_userinfo" -> IocPoints.OBFUSCATED_URL
              [] OTHER -> SignalStrength[s] \div 200
        total == SumFunction([s \in url.signals |-> points(s)])
    IN  IF total = 0 THEN PointsIf(url.flags > 0, IocPoints.MALICIOUS_URL)
        ELSE total

ComponentScores(parsed, ml, enrichment) ==
    [ml |-> Threat(ml) \div 100,
     authentication |-> CapAt(AuthenticationScore(parsed), 100),
     header_forensics |-> CapAt(HeaderScore(parsed), 100),
     ioc |-> CapAt(StrongestUrl(parsed) \div 100 + AttachmentScore(parsed), 100),
     threat_intelligence |->
        CapAt(IntelligenceStrength(enrichment) \div 100, 100),
     coverage |->
        LET asked == {p \in AnswersIn(enrichment) : p.provider \in Reputation}
        IN  IF \E p \in asked : p.status = "Available" THEN "AVAILABLE"
            ELSE IF asked # {} THEN "UNAVAILABLE" ELSE "NOT_CONFIGURED"]

----------------------------------------------------------------------------
\* Policy: findings that set a minimum.

IdentityEvidence(parsed) ==
    \/ parsed.identity.display_name_mismatch
    \/ SenderLookalike(parsed)
    \/ parsed.identity.reply_to_mismatch

Says(parsed, words) == parsed.text \cap words # {}
Pressure == {"urgent", "confidential"}

CredentialLure(parsed, config) ==
    /\ config.weights.url > 0 /\ config.weights.sender_identity > 0
    /\ Says(parsed, {"credential"})
    /\ \E u \in parsed.urls :
          u.signals \cap {"lookalike_domain", "display_href_mismatch",
                          "url_userinfo"} # {}
    /\ IdentityEvidence(parsed) \/ Says(parsed, Pressure)

PaymentRedirection(parsed, config) ==
    /\ config.weights.sender_identity > 0
    /\ Says(parsed, {"payment"}) /\ Says(parsed, {"new"})
    /\ Says(parsed, Pressure) /\ Says(parsed, {"confidential", "secret"})

NoRule == [minimum |-> 0, verdict |-> "none", category |-> "none"]

\* The rule with the highest minimum; the credential rule wins a tie.
StrongestRule(parsed, config) ==
    IF CredentialLure(parsed, config)
    THEN [minimum |-> 75, verdict |-> "PHISHING", category |-> "CREDENTIAL_THEFT"]
    ELSE IF PaymentRedirection(parsed, config)
    THEN [minimum |-> IF IdentityEvidence(parsed) THEN 75 ELSE 60,
          verdict |-> "BEC", category |-> "BUSINESS_EMAIL_COMPROMISE"]
    ELSE NoRule

\* The minimum a threat prediction asks for: HIGH from 70 percent on.
MutantReviewMinimum(ml, config) ==
    IF /\ ml.status = "Available" /\ config.weights.ai > 0
       /\ ml.label \in {"PHISHING", "BEC"}
    THEN IF ml.prob[ml.label] > 70 THEN config.high ELSE config.low
    ELSE 0
ReviewMinimum(ml, config) ==
    IF /\ ml.status = "Available" /\ config.weights.ai > 0
       /\ ml.label \in {"PHISHING", "BEC"}
    THEN IF ml.prob[ml.label] >= 70 THEN config.high ELSE config.low
    ELSE 0

\* The first category whose condition holds.
ThreatCategory(parsed, ml) ==
    LET payment == Says(parsed, {"payment", "gift_cards"})
        context == {"new", "urgent", "confidential", "today"}
        links(P(_)) == \E u \in parsed.urls : P(u)
        table ==
          << <<ml.label = "BEC", "BUSINESS_EMAIL_COMPROMISE">>,
             <<ml.label = "PHISHING" /\ links(LAMBDA u : "credential_keywords" \in u.signals),
               "CREDENTIAL_THEFT">>,
             <<SenderLookalike(parsed) \/ parsed.identity.display_name_mismatch,
               "POSSIBLE_IMPERSONATION">>,
             <<payment /\ Says(parsed, context), "PAYMENT_REDIRECTION_REVIEW">>,
             <<ml.label = "PHISHING", "PHISHING">>,
             <<ml.label = "SPAM", "UNSOLICITED_EMAIL">>,
             <<links(LAMBDA u : SumOfSignals(u) >= 4000), "SUSPICIOUS_LINK_REVIEW">>,
             <<payment, "PAYMENT_REQUEST_REVIEW">>,
             <<TRUE, "NO_SPECIFIC_CATEGORY">> >>
    IN  FirstMatch(table)

----------------------------------------------------------------------------
\* The score.

\* round(weight * strength, 2), in hundredths.
Points(weight, strength) == (weight * strength + 50) \div 100

Contributions(strengths, config) ==
    [c \in Categories |-> Points(config.weights[c], strengths[c])]

Total(points) ==
      points["authentication"] + points["sender_identity"] + points["url"]
    + points["attachment"] + points["headers"] + points["intelligence"]
    + points["ai"]

\* Evidence first, then the correlated finding, then the model review; each
\* adjustment only lifts what the steps before it reached.
Weighted(strengths, config) == CapAt(Total(Contributions(strengths, config)), Full)
AfterCorrelation(weighted, minimum) == AtLeast(weighted, 100 * minimum)
AfterReview(correlated, review) == AtLeast(correlated, 100 * review)
MutantScore(weighted, minimum, review) ==
    CapAt(RoundHalfEven(AfterCorrelation(weighted, minimum)), 100)
Score(weighted, minimum, review) ==
    CapAt(RoundHalfEven(AfterReview(AfterCorrelation(weighted, minimum), review)),
          100)

Severity(score, config) ==
    IF score >= config.critical THEN "CRITICAL"
    ELSE IF score >= config.high THEN "HIGH"
    ELSE IF score >= config.low THEN "MEDIUM" ELSE "LOW"

\* risk(): the fields the other components use, and the adjustments shown.
Risk(parsed, ml, enrichment, config) ==
    LET strengths == Strengths(parsed, ml, enrichment)
        weighted == Weighted(strengths, config)
        rule == StrongestRule(parsed, config)
        correlated == AfterCorrelation(weighted, rule.minimum)
        review == ReviewMinimum(ml, config)
        score == Score(weighted, rule.minimum, review)
        verdict == IF rule # NoRule THEN rule.verdict
                   ELSE IF ml.status = "Available" THEN ml.label ELSE "Unknown"
    IN  [risk_score |-> score, severity |-> Severity(score, config),
         contributions |-> Contributions(strengths, config),
         correlation |-> correlated - weighted,
         model_review |-> AfterReview(correlated, review) - correlated,
         verdict |-> verdict,
         category |-> IF rule # NoRule THEN rule.category
                      ELSE ThreatCategory(parsed, ml),
         confident |-> ml.status = "Available" /\ verdict = ml.label,
         components |-> ComponentScores(parsed, ml, enrichment)]
=============================================================================
