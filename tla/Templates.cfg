\* One topic, three rows, a well-formed and a malformed body, and five writes.
CONSTANTS
    TemplateId = {1, 2, 3}
    Topic = {"due"}
    Body = {"text", "blank"}
    Malformed = {"blank"}
    Surface <- GuardedRoutes
    UniqueTopic = FALSE
    MaxTemplateWrites = 5
SPECIFICATION TemplatesSpec
INVARIANTS
    TemplatesTypeOK
    ServedBodiesWellFormed
CHECK_DEADLOCK FALSE
