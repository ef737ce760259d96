\* An unscoped subscriber with crashes, two recipients in a batch of two: only the
\* scoped reaper can finish.
CONSTANTS
    Notifier = {n1}
    Sweeper = {s1}
    Relay = {r1}
    Scoped = {s1, r1}
    Request = {q1}
    q1 = q1
    q2 = q2
    b1 = b1
    b2 = b2
    EventId <- OneEvent
    EventType <- MCEventType
    Channel <- MCChannel
    TopicOf <- MCTopicOf
    Recipient <- MCRecipient
    RecipientsOf <- Pair
    Address <- MCAddress
    NoAddress <- MCNoAddress
    Normalize <- MCNormalize
    Unstorable <- NoneUnstorable
    Composed <- MCChannel
    Keyed <- MCChannel
    Rejection = {"refused"}
    Bounce = {"bounced"}
    Overlong = {}
    Limit = 2
    MaxFaults = 1
    MaxReports = 1
    TemplateId = {t1}
    Body = {b1}
    Malformed = {}
    Surface <- GuardedRoutes
    UniqueTopic = FALSE
    MaxTemplateWrites = 1
    NoRequest = NoRequest
    NoBody = NoBody
    NoReason = NoReason
SPECIFICATION FairSpec
INVARIANTS
    MessageIdCorrelates
PROPERTIES
    EveryRecipientResolved
