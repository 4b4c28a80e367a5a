\* One message at a time, every answer of the world.
SPECIFICATION Spec
CONSTANTS
    Registrable <- MCRegistrable
    Resembling <- MCResembling
    Traits <- MCTraits
    Mapped <- MCMapped
    Canonical <- MCCanonical
    Emails = {e1}
    Messages <- SingleMessages
    Configs <- Policies
    Worlds <- MCWorlds
    Predictions <- MCPredictions
    Reports <- MCReports
    LocalGeo <- MCLocalGeo
    IndicatorLimit = 3
INVARIANTS
    TypeOK
    ScoreExplained
    ThreatLabelReviewed
    MissingEvidenceIsNeutral
    EvidenceOnlyRaises
    VerifiedFailureIsComplete
    DmarcPassIsAligned
    OriginOnSendingSide
    ObscuringLowersOrigin
    LinksSpareAddresses
    
