CONSTANTS
    Tenants = {t1}
    Applications = {a1, a2}
    Destinations = {d1}
    Purposes = {REGISTRATION}
    ChallengeIds = {1, 2, 3}
    SendIds = {1, 2, 3, 4}
    Codes = {x1, x2}
    NoCode = NoCode
    NoChallenge = NoChallenge
    NoSend = NoSend
    NoPurpose = NoPurpose
    Expiration = 2
    Cooldown = 1
    Hour = 2
    Day = 3
    MaxAttempts = 2
    MaxSendsPerChallenge = 2
    MaxSendsPerDestinationHour = 2
    MaxSendsPerDestinationDay = 3
    WebhookStates = {"DELIVERED", "PROVIDER_FAILED"}
    MaxTime = 3
SPECIFICATION ChallengeSpec
SYMMETRY Symmetry
INVARIANTS LockedAtLimit SendBudget LiveChallengeBudget
PROPERTIES ResendsSound ImplementsEvidence
CHECK_DEADLOCK FALSE
