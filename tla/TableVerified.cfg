SPECIFICATION Spec
CONSTANTS
    Calls = {c1}
    Tools = {"alter_integration_table"}
    Scalars = {"enabled"}
    Columns = {"step"}
    Values = {"old", "new"}
    Payloads <- MCPayloads
    Replies = {"record", "empty"}
    MaxPolls = 2
INVARIANT TableVerifiedWasTrue
