\* The queue port over e-mail: mails.message_post is not given the key.
CONSTANTS
    Notifier = {n1}
    Sweeper = {s1}
    Relay = {r1}
    Scoped = {n1, n2, s1, r1}
    Request = {q1}
    q1 = q1
    q2 = q2
    b1 = b1
    b2 = b2
    EventId <- OneEvent
    EventType <- MCEventType
    Channel <- QueueChannel
    TopicOf <- ByEmail
    Recipient <- Mailbox
    RecipientsOf <- ToMailbox
    Address <- QueueAddress
    NoAddress <- MCNoAddress
    Normalize <- QueueNormalize
    Unstorable <- NoneUnstorable
    Composed <- Transported
    Keyed <- ForwardsKey
    Rejection = {"refused"}
    Bounce = {"bounced"}
    Overlong = {}
    Limit = 1
    MaxFaults = 0
    MaxReports = 0
    TemplateId = {t1}
    Body = {b1}
    Malformed = {}
    Surface <- GuardedRoutes
    UniqueTopic = FALSE
    MaxTemplateWrites = 1
    NoRequest = NoRequest
    NoBody = NoBody
    NoReason = NoReason
SPECIFICATION Spec
INVARIANTS
    OneMessagePerRecipient
