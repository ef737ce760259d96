\* Every rejection carries a message longer than failure_reason may be.
CONSTANTS
    Notifier = {n1}
    Sweeper = {s1}
    Relay = {}
    Scoped = {n1, n2, s1, r1}
    Request = {q1}
    q1 = q1
    q2 = q2
    b1 = b1
    b2 = b2
    EventId <- OneEvent
    EventType <- MCEventType
    Channel <- MCChannel
    TopicOf <- MCTopicOf
    Recipient <- MCRecipient
    RecipientsOf <- OneEach
    Address <- MCAddress
    NoAddress <- MCNoAddress
    Normalize <- MCNormalize
    Unstorable <- NoneUnstorable
    Composed <- MCChannel
    Keyed <- MCChannel
    Rejection = {"verbose"}
    Bounce = {"bounced"}
    Overlong = {"verbose"}
    Limit = 1
    MaxFaults = 0
    MaxReports = 0
    TemplateId = {t1}
    Body = {b1}
    Malformed = {}
    Surface <- GuardedRoutes
    UniqueTopic = FALSE
    MaxTemplateWrites = 1
    NoRequest = NoRequest
    NoBody = NoBody
    NoReason = NoReason
SPECIFICATION FairSpec
PROPERTIES
    EveryRecipientResolved
