CONSTANTS
    Tenants = {t1}
    Applications = {a1}
    Destinations = {d1}
    Purposes = {REGISTRATION}
    ChallengeIds = {c1}
    SendIds = {s1, s2}
    Codes = {x1}
    Expiration = 2
    Cooldown = 1
    Hour = 2
    Day = 4
    MaxAttempts = 2
    MaxSendsPerChallenge = 2
    MaxSendsPerDestinationHour = 2
    MaxSendsPerDestinationDay = 3
    WebhookStates = {"DELIVERED", "PROVIDER_FAILED"}
    MaxTime = 2
    NoCode = NoCode
    NoChallenge = NoChallenge
    NoSend = NoSend
    NoPurpose = NoPurpose
    NoEmail = NoEmail
    NoApplication = NoApplication
    NoSubject = NoSubject
    NoResult = NoResult
    NoClient = NoClient
    NoRecord = NoRecord
    NoRequest = NoRequest
SPECIFICATION SettlesSpec
INVARIANT ReportsFollowAcceptance
PROPERTIES EveryRequestEnds BucketReopens BreakerRecovers
CHECK_DEADLOCK FALSE
