\* create_template called twice for one topic, on the module's own table; no
\* generic write route is mounted.
CONSTANTS
    TemplateId = {1, 2}
    Topic = {"due"}
    Body = {"text"}
    Malformed = {}
    Surface <- ReadonlyRoutes
    UniqueTopic = FALSE
    MaxTemplateWrites = 2
SPECIFICATION TemplatesSpec
INVARIANTS
    OneActivePerTopic
CHECK_DEADLOCK FALSE
