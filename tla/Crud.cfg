\* One process in all three roles, a fault and a report, and two CRUD writes at
\* any moment.
CONSTANTS
    Notifier = {n1}
    Sweeper = {n1}
    Relay = {n1}
    Scoped = {n1}
    Request = {q1}
    q1 = q1
    q2 = q2
    b1 = b1
    b2 = b2
    EventId <- OneEvent
    EventType <- MCEventType
    Channel <- MCChannel
    TopicOf <- MCTopicOf
    Recipient <- MCRecipient
    RecipientsOf <- OneEach
    Address <- MCAddress
    NoAddress <- MCNoAddress
    Normalize <- MCNormalize
    Unstorable <- NoneUnstorable
    Composed <- MCChannel
    Keyed <- MCChannel
    Rejection = {"refused"}
    Bounce = {}
    Overlong = {}
    Limit = 1
    MaxFaults = 1
    MaxReports = 1
    TemplateId = {t1}
    Body = {b1, b2}
    Malformed = {b2}
    Surface <- AllCrudRoutes
    UniqueTopic = FALSE
    MaxTemplateWrites = 1
    NoRequest = NoRequest
    NoBody = NoBody
    NoReason = NoReason
    Misfit = {b2}
    MaxEdits = 2
    EditStatus = {"pending"}
    EditReason = {NoReason}
SPECIFICATION CrudSpec
INVARIANTS
    CrudTypeOK
    RepeatsNeedAFreedSlot
    UntouchedRowsFaithful
PROPERTIES
    EngineMovesOnward
    EngineAloneUntilEdited
