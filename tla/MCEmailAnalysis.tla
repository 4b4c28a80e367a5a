-------------------------- MODULE MCEmailAnalysis --------------------------
(* Instances of EmailAnalysis for TLC: a handful of messages, each built to   *)
(* reach one interesting corner, and the answers that make it interesting.    *)
EXTENDS EmailAnalysis, TLC

----------------------------------------------------------------------------
(* Names *)

MCRegistrable == [none |-> "none", acme |-> "acme", sub |-> "acme", evil |-> "evil",
                  EVIL |-> "evil", paypa1 |-> "paypa1", host |-> "host",
                  ip1 |-> "ip1"]
MCResembling == {"paypa1"}
MCCanonical == [d \in DOMAIN MCRegistrable |-> IF d = "EVIL" THEN "evil" ELSE d]

\* ip1, ip2 and ip3 are public; map1 is ip1 written as an IPv6 address.
MCTraits == [ip1 |-> {"global"}, ip2 |-> {"global"}, ip3 |-> {"global"},
             map1 |-> {"global"}, lan |-> {"private"}, odd |-> {"invalid"}]
MCMapped == [map1 |-> "ip1"]

----------------------------------------------------------------------------
(* Messages *)

Quiet == [headers |-> TRUE, huge |-> FALSE, fromHeaders |-> 1, from |-> <<"acme">>,
          brand |-> "none", replyTo |-> <<>>, returnPath |-> <<"acme">>,
          results |-> [spf |-> "PASS", dkim |-> "PASS", dmarc |-> "PASS"],
          receivedSpf |-> "none", mailfrom |-> "none", received |-> <<>>,
          clientIps |-> {}, signatures |-> <<>>, urls |-> {}, attachments |-> <<>>,
          plain |-> {}, html |-> {}, id |-> "m1", refs |-> {}, inReplyTo |-> "none"]

At(ip, offset) == [ip |-> ip, offset |-> offset]
\* "from x (ip1) by y (ip2)"
Hop(from, by, ips, stamp) ==
    [fromAt |-> 1, byAt |-> 5, from |-> from, by |-> by, ips |-> ips, stamp |-> stamp]
Link(url, host, display, traits) ==
    [url |-> url, host |-> host, display |-> display, traits |-> traits]
Signature(domain, key, check) ==
    [domain |-> domain, rsa |-> TRUE, key |-> key, check |-> check]

\* Two linked hops, newest first; the relay's own address follows "by".
Route == << Hop("relay", "gate", <<At("ip1", 2), At("ip3", 6)>>, 2),
            Hop("host", "relay", <<At("lan", 2), At("ip2", 6)>>, 1) >>
Backwards == [Route EXCEPT ![1].stamp = 1, ![2].stamp = 2]

Lure == [Quiet EXCEPT
            !.from = <<"paypa1">>, !.brand = "paypal", !.replyTo = <<"evil">>,
            !.results = [spf |-> "FAIL", dkim |-> "FAIL", dmarc |-> "FAIL"],
            !.received = Backwards, !.clientIps = {"map1", "odd"},
            !.urls = {Link("u1", "paypa1", "acme", {"url_userinfo", "credential_keywords"}),
                      Link("u2", "ip1", "none", {"unencrypted_http"})},
            !.attachments = <<[sha |-> "exe", flags |-> {"Executable or script"}],
                              [sha |-> "zip", flags |-> {"Archive"}]>>,
            !.html = {"credential", "urgent"}]
Wire == [Quiet EXCEPT !.plain = {"payment", "new"}, !.html = {"urgent", "confidential"},
                      !.receivedSpf = "SOFTFAIL", !.results.spf = "Unknown",
                      !.results.dmarc = "NONE", !.received = Route]
Routed == [Quiet EXCEPT !.received = Route,
                        !.urls = {Link("u1", "acme", "none", {}),
                                  Link("u3", "sub", "none", {"long_url"})}]
Crowded == [Routed EXCEPT !.received = << Hop("host", "relay", <<At("ip3", 2)>>, 1) >>,
                          !.clientIps = {"ip1", "ip2"}]
Respelled == [Quiet EXCEPT !.signatures = <<Signature("EVIL", "published", "valid")>>]
Signed == [Quiet EXCEPT !.signatures = <<Signature("sub", "published", "valid"),
                                         Signature("evil", "published", "invalid")>>]
OwnSigned == [Quiet EXCEPT !.signatures = <<Signature("acme", "published", "valid")>>]
TwoSenders == [OwnSigned EXCEPT !.from = <<"acme", "evil">>]
Broken == [Quiet EXCEPT !.signatures = <<Signature("acme", "published", "invalid"),
                                         Signature("acme", "missing", "malformed")>>]
Unfetched == [Quiet EXCEPT !.signatures = <<Signature("acme", "published", "invalid"),
                                            Signature("acme", "missing", "valid")>>]
ManySigned == [Quiet EXCEPT !.signatures =
                 [n \in 1..6 |-> Signature("acme", "published",
                                           IF n = 6 THEN "valid" ELSE "invalid")]]
Headerless == [Quiet EXCEPT !.headers = FALSE]

SingleMessages == {Quiet, Lure, Wire, Routed, Crowded, Respelled, Signed, OwnSigned,
                   TwoSenders, Broken, Unfetched, ManySigned, Headerless}

----------------------------------------------------------------------------
(* Policies *)

DefaultPolicy ==
    [weights |-> [authentication |-> 20, sender_identity |-> 15, url |-> 15,
                  attachment |-> 10, headers |-> 5, intelligence |-> 20, ai |-> 15],
     low |-> 30, high |-> 60, critical |-> 80, dns_enabled |-> TRUE, external |-> TRUE]
\* Evidence alone can reach the top, and the model has no say.
StrictPolicy ==
    [DefaultPolicy EXCEPT
        !.weights = [authentication |-> 0, sender_identity |-> 1, url |-> 45,
                     attachment |-> 54, headers |-> 0, intelligence |-> 0, ai |-> 0],
        !.low = 10, !.high = 30, !.critical = 90, !.dns_enabled = FALSE,
        !.external = FALSE]
Policies == {DefaultPolicy, StrictPolicy}

----------------------------------------------------------------------------
(* Answers of the world *)

NoRecord == [status |-> "Available", records |-> {}]
Policy(adkim) == [status |-> "Available", records |-> {[p |-> "reject", adkim |-> adkim]}]
World(budget, acme) ==
    [budget |-> budget, candidate |-> "PASS",
     spf |-> [d \in DOMAIN MCRegistrable |-> NoRecord],
     dmarc |-> [d \in DOMAIN MCRegistrable |-> IF d = "acme" THEN acme ELSE NoRecord]]
MCWorlds == {World(9, Policy("r")), World(1, Policy("r")), World(9, Policy("s")),
             World(9, [status |-> "Unavailable", records |-> {}])}

Chance(phishing, bec, spam) ==
    [PHISHING |-> phishing, BEC |-> bec, SPAM |-> spam,
     BENIGN |-> 100 - phishing - bec - spam]
Guess(label, prob) == [status |-> "Available", label |-> label, prob |-> prob]
MCPredictions ==
    {Guess("PHISHING", Chance(70, 2, 0)), Guess("PHISHING", Chance(69, 0, 0)),
     Guess("BEC", Chance(5, 93, 2)), Guess("SPAM", Chance(3, 4, 90)),
     [status |-> "Model unavailable", label |-> "none"]}

Failing(p, status) == [provider |-> p, status |-> status]
Place(p, country, asn, organization, flags) ==
    [provider |-> p, status |-> "Available",
     result |-> [coordinates |-> country, country |-> country, asn |-> asn,
                 organization |-> organization, type |-> "none", flags |-> flags]]
Claim(p, result) == [provider |-> p, status |-> "Available", result |-> result]
Registered(asn, organization, covers) ==
    [provider |-> "rdap", status |-> "Available",
     result |-> [asn |-> asn, organization |-> organization, covers |-> covers]]

Silent == [p \in Reputation \cup Geographic \cup {"rdap", "dns"} |->
              IF p = "dns" THEN {} ELSE Failing(p, "Not Configured")]
Values == DOMAIN MCTraits \cup DOMAIN MCRegistrable \cup
          {"u1", "u2", "u3", "exe", "zip", "doc", EmptyHash}

SilentReport == [v \in Values |-> Silent]
\* All that can be known of the candidate; the flags decide.
Informed(flags, organization, asn, covers) ==
    [v \in Values |->
        IF v = "acme" THEN [Silent EXCEPT !["dns"] = {"ip1"}]
        ELSE IF v \notin {"ip1", "map1"} THEN Silent
        ELSE [Silent EXCEPT
                !["ipinfo"] = Place("ipinfo", TRUE, 7, organization, flags),
                !["geoip"] = Place("geoip", TRUE, 0, "none", {}),
                !["rdap"] = Registered(asn, organization, covers)]]
\* Engines accuse several indicators, some of them more loudly.
Accusing ==
    [v \in Values |->
        CASE v = "ip1" -> [Silent EXCEPT
                !["virustotal"] = Claim("virustotal", [malicious |-> 5, total |-> 50]),
                !["abuseipdb"] = Claim("abuseipdb", [score |-> 80, reports |-> 4]),
                !["geoip"] = Place("geoip", FALSE, 7, "isp", {})]
          [] v = "ip2" -> [Silent EXCEPT
                !["virustotal"] = Claim("virustotal", [malicious |-> 1, total |-> 50])]
          [] v = "u1" -> [Silent EXCEPT
                !["virustotal"] = Claim("virustotal", [malicious |-> 20, total |-> 50])]
          [] OTHER -> Silent]
\* The lookups of one domain and of one address raise.
Raising == [v \in Values \ {"evil", "ip1"} |-> Silent]

MCReports == {SilentReport, Accusing, Raising,
              Informed({"VPN"}, "isp", 7, "yes"), Informed({}, "google", 7, "unknown"),
              Informed({"ANONYMOUS"}, "google", 8, "no")}

MCLocalGeo == [ip \in DOMAIN MCTraits |->
                  [provider |-> "geoip", status |-> "Not Found", result |-> Nowhere]]

----------------------------------------------------------------------------
(* Messages to correlate: a shared attachment, shared links, shared platform. *)

File(sha) == <<[sha |-> sha, flags |-> {}]>>
SharedLinks == {Link("u1", "host", "none", {}), Link("u3", "host", "none", {})}
PairMessages ==
    {[Quiet EXCEPT !.attachments = File("doc"), !.id = "m1"],
     [Quiet EXCEPT !.attachments = File("doc"), !.from = <<"evil">>, !.id = "m2",
                   !.urls = {Link("u1", "host", "none", {})}],
     [Quiet EXCEPT !.urls = SharedLinks, !.id = "m3", !.replyTo = <<"evil">>],
     [Quiet EXCEPT !.urls = SharedLinks, !.from = <<"evil">>, !.id = "m4",
                   !.attachments = File(EmptyHash)],
     [Quiet EXCEPT !.attachments = File(EmptyHash), !.received = Route, !.id = "m5"],
     [Quiet EXCEPT !.received = Route, !.id = "m6", !.refs = {"m1"}, !.inReplyTo = "m5"]}
PairPolicies == {DefaultPolicy}
PairWorlds == {World(9, NoRecord)}
PairPredictions == {Guess("BEC", Chance(5, 93, 2))}
PairReports == {SilentReport}
=============================================================================
