SPECIFICATION FairSpec
CONSTANTS
    Calls = {c1, c2}
    Tools = {"alter_input", "alter_integration_table", "configure_topic"}
    Scalars = {"enabled"}
    Columns = {"step"}
    Values = {"old", "new"}
    Payloads <- MCPayloads
    Replies = {"record", "envelope", "empty"}
    MaxPolls = 2
INVARIANTS
    TypeOK
    VerifiedWasTrue
    ShownIsNotTimedOut
PROPERTIES
    VerificationEnds
