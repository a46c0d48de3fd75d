CONSTANTS
    a1 = a1
    a2 = a2
    k1 = k1
    k2 = k2
    Clients = {k1, k2}
    Applications = {a1, a2}
    ApplicationOf <- TwoApplications
    Emails = {e1}
    NoEmail = NoEmail
    ChallengeIds = {c1, c2}
    SubjectIds = {s1, s2}
    RequestIds = {r1, r2}
    NoApplication = NoApplication
    NoChallenge = NoChallenge
    NoSubject = NoSubject
    NoResult = NoResult
    NoClient = NoClient
    Expiration = 2
    ResultTTL = 2
    MaxTime = 3
    MaxChanges = 1
SPECIFICATION Spec
SYMMETRY Symmetry
INVARIANTS OnePrincipalPerProof EvidenceMatchesConsumption OneSubjectPerAddress SignInBounded
PROPERTIES PrincipalsEligible
CHECK_DEADLOCK FALSE
