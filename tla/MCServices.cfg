SPECIFICATION Spec
CONSTANTS
    Requests = {q1, q2}
    Handles = {"h1"}
    MaxChanges = 2
    Transactions = {"t1", "t2"}
    Webhooks = {"w1", "w2"}
    Faces = {"f1", "f2"}
    Subjects = {"s1", "s2", "s3"}
    Accounts = {"a1", "a2"}
    Principals = {"p1", "p2", "p3"}
    Emails = {"e1"}
    Suggestions <- MCSuggestions
    InitialSubjects <- MCInitialSubjects
    MaxOperations = 2
    Calls = {"c1", "c2"}
    Ring <- MCRing
    Interval = 3
    MaxStall = 1
    Readers = {"r1", "r2"}
    Resolutions = {"x"}
    TTL = 2
    Stall = 1
    MaxVersion = 2
    Codes = {"x"}
    Addresses = {"e1", "e2"}
    Handle = "e1"
    Processes = {"p1", "p2"}
    Members = {"s1"}
    Configurations = {"none", "c1"}
    MaxDecisions = 1
    Limit = 2
    Window = 2
    Probe = "p"
    Threshold = 2
    Reset = 2
    Refresh = 1
    MaxRetries = 1
INVARIANTS  ProcessingHasWorker EnrollmentsAgree
    OneToOne ProvenanceOwned MergeCompletes
    StalenessBounded AnswersJustified LinksMigrated DecisionsStand
    BucketBounded BreakerAgrees
PROPERTIES PhasesAdvance KeysKeepTheirInterval SeedIsIdempotent
SYMMETRY Alike
CHECK_DEADLOCK FALSE
