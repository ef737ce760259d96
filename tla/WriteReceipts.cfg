\* One event on two phone channels, one of which ignores the idempotency key, with
\* templates that may change, a row and a rejection too long to store, and a
\* provider whose reports may disagree.
CONSTANTS
    Notifier = {n1}
    Sweeper = {s1}
    Relay = {s1}
    Scoped = {n1, s1}
    Request = {q1, q2}
    q1 = q1
    q2 = q2
    b1 = b1
    b2 = b2
    EventId <- OneEvent
    EventType <- MCEventType
    Channel <- PhoneChannels
    TopicOf <- ByChannel
    Recipient <- MCRecipient
    RecipientsOf <- Escalated
    Address <- MCAddress
    NoAddress <- MCNoAddress
    Normalize <- PhoneNormalize
    Unstorable <- SecondTooLong
    Composed <- PhoneChannels
    Keyed = {"sms"}
    Rejection = {"refused", "verbose"}
    Bounce = {"bounced"}
    Overlong = {"verbose"}
    Limit = 1
    MaxFaults = 1
    MaxReports = 2
    TemplateId = {t1, t2}
    Body = {b1, b2}
    Malformed = {}
    Surface <- ReadonlyRoutes
    UniqueTopic = FALSE
    MaxTemplateWrites = 2
    NoRequest = NoRequest
    NoBody = NoBody
    NoReason = NoReason
SPECIFICATION Spec
SYMMETRY TemplatesAlike
INVARIANTS
    OutboxCoversState
    MessageIdCorrelates
    RepeatsAreCopies
    PublishedIsDurable
    CompletedIsRecorded
PROPERTIES
    ImplementsLifecycle
