--------------------------- MODULE Authentication ---------------------------
(***************************************************************************)
(* Offline authentication: backend/forensics/authentication.py. A DKIM     *)
(* signature is [domain, rsa, key, check]: what the DNS holds for its key  *)
(* and what the verifier makes of the bytes. "dns" answers the policy      *)
(* lookups, dns[kind][domain] = [status, records]; a DMARC record is       *)
(* [p, adkim]. "budget" is the number of signatures that fit in the        *)
(* twenty seconds the verification may take.                               *)
(***************************************************************************)
EXTENDS MailParser

SignatureLimit == 5

SignatureStatus(s, index, budget) ==
    FirstMatch(<< <<~s.rsa \/ index > budget, "Unavailable">>,
                  <<s.check = "malformed", "FAIL">>,   \* before its key is fetched
                  <<s.key # "published" \/ s.check = "error", "Unavailable">>,
                  <<s.check = "valid", "PASS">>,
                  <<TRUE, "FAIL">> >>)

\* The results of the first signatures; the others are counted, not checked.
CheckedSignatures(signatures, budget) ==
    [n \in 1..CapAt(Len(signatures), SignatureLimit) |->
        [domain |-> signatures[n].domain,
         status |-> SignatureStatus(signatures[n], n, budget)]]

\* One valid signature is enough; a failure needs all of them to be checked.
MutantOverallStatus(checked, count) ==
    LET states == {c.status : c \in Range(checked)} IN
    IF "PASS" \in states THEN "PASS"
    ELSE IF states = {"FAIL"} THEN "FAIL" ELSE "Unavailable"
OverallStatus(checked, count) ==
    LET states == {c.status : c \in Range(checked)} IN
    IF "PASS" \in states THEN "PASS"
    ELSE IF states = {"FAIL"} /\ count <= SignatureLimit THEN "FAIL"
    ELSE "Unavailable"

VerifyDkim(parsed, budget, enabled) ==
    LET signatures == parsed.signatures
        checked == CheckedSignatures(signatures, budget)
    IN  IF signatures = <<>> THEN [status |-> "Not Signed", signatures |-> <<>>]
        ELSE IF ~enabled THEN [status |-> "Not Configured", signatures |-> <<>>]
        ELSE [status |-> OverallStatus(checked, Len(signatures)),
              signatures |-> checked]

----------------------------------------------------------------------------

\* The hop that named the candidate lends the HELO name; neither name is ever
\* taken from From or Reply-To.
CandidateRelay(parsed) ==
    LET chain == parsed.received_chain
        hops == {n \in DOMAIN chain :
                    \E i \in Range(chain[n].ips) :
                        i.ip = parsed.candidate /\ i.role = "source"}
    IN  IF hops = {} THEN None
        ELSE chain[CHOOSE n \in hops : \A o \in hops : n <= o].source_server

\* candidate_spf_check(): supplementary, outcome is what pyspf finds.
CandidateSpf(parsed, outcome, enabled) ==
    IF ~enabled THEN "Not Configured"
    ELSE IF \/ parsed.candidate = None
            \/ Len(parsed.return_path) # 1
            \/ None \in {FirstOrNone(parsed.return_path), CandidateRelay(parsed)}
    THEN "Not Observable"
    ELSE outcome

PolicyRecords(domain, answers, enabled) ==
    IF ~enabled THEN [status |-> "Not Configured", records |-> {}]
    ELSE IF domain = None THEN [status |-> "Unavailable", records |-> {}]
    ELSE LET answer == answers[domain] IN
         [status |-> FirstMatch(
             << <<answer.status = "Unavailable", "Unavailable">>,
                <<Cardinality(answer.records) = 1, "Available">>,
                <<answer.records # {}, "Invalid">>,
                <<TRUE, "Not Found">> >>),
          records |-> answer.records]

\* The record of the exact domain, or of the organizational one when the first
\* lookup answered that there is none.
DmarcRecords(domain, answers, enabled) ==
    LET exact == PolicyRecords(domain, answers, enabled) IN
    IF exact.status = "Not Found" /\ Registrable[domain] # domain
    THEN PolicyRecords(Registrable[domain], answers, enabled)
    ELSE exact

UsableTags(tags) ==
    tags.p \in {"none", "quarantine", "reject"} /\ tags.adkim \in {"r", "s"}

DmarcPolicy(domain, answers, enabled) ==
    LET found == DmarcRecords(domain, answers, enabled)
        tags == CHOOSE r \in found.records : TRUE
    IN  IF found.status # "Available"
        THEN [status |-> found.status, policy |-> "Unknown", strict |-> FALSE]
        ELSE IF ~UsableTags(tags)
        THEN [status |-> "Invalid", policy |-> "Unknown", strict |-> tags.adkim = "s"]
        ELSE [status |-> "Available", policy |-> tags.p, strict |-> tags.adkim = "s"]

\* Verified signatures of the sender's own domain, or organization if relaxed.
MutantAlignedSignatures(checked, domain, strict) ==
    {n \in DOMAIN checked :
        /\ checked[n].status = "PASS" /\ checked[n].domain # None
        /\ Registrable[checked[n].domain] = Registrable[domain]}
AlignedSignatures(checked, domain, strict) ==
    {n \in DOMAIN checked :
        /\ checked[n].status = "PASS"
        /\ IF strict THEN checked[n].domain = domain
           ELSE checked[n].domain # None
                /\ Registrable[checked[n].domain] = Registrable[domain]}

\* A local PASS or nothing: no failure is asserted from an uploaded message.
DmarcAssessment(parsed, dmarc, checked) ==
    IF /\ dmarc.status = "Available" /\ parsed.singleSender
       /\ AlignedSignatures(checked, parsed.sender, dmarc.strict) # {}
    THEN "PASS" ELSE "Unknown"

\* enrich_authentication(), with the world's answers in "dns".
EnrichAuthentication(parsed, dns, enabled) ==
    LET dkim == VerifyDkim(parsed, dns.budget, enabled)
        dmarc == DmarcPolicy(parsed.sender, dns.dmarc, enabled)
        auth == parsed.authentication
    IN  [parsed EXCEPT
            !.authentication.dkim.local = dkim.status,
            !.authentication.dmarc.local =
                DmarcAssessment(parsed, dmarc, dkim.signatures),
            !.authentication.dmarc.policy = dmarc.policy,
            !.authentication.dmarc.strict = dmarc.strict,
            !.authentication.spf =
                [reported |-> auth.spf.reported, domain |-> auth.spf.domain,
                 alignment |-> auth.spf.alignment,
                 dns |-> PolicyRecords(auth.spf.domain, dns.spf, enabled).status,
                 candidate |-> CandidateSpf(parsed, dns.candidate, enabled)]]
=============================================================================
