\* Numbers and mailboxes of up to three characters, two more in a spelling;
\* templates of up to three segments.
CONSTANTS
    Channel = {"sms", "email"}
    Digit = {"6", "8"}
    Blank = {" "}
    Lower <- MCLower
    Structural = {"a", "@", "."}
    Punctuation = {"-"}
    MaxCanonical = 3
    MaxSpelled = 5
    Ink = {"x", "}", " "}
    Name <- MCName
    Data <- MCData
    TemplateId = {1}
    Topic = {"due"}
    MaxSegments = 3
SPECIFICATION TextSpec
INVARIANTS
    SpellingsCollapse
    RecipientsStayApart
    RendersAsMeant
CHECK_DEADLOCK FALSE
