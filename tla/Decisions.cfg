SPECIFICATION Spec
INVARIANTS
    RunCodeIsKnown  PassingIsPublished HidingIsSeen
    ConfigurationIsMeant AnswersAreTheServers DoctorTells PublicIsBacked
CHECK_DEADLOCK FALSE
