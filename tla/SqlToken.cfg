SPECIFICATION Spec
CONSTANTS
    Rows <- MCRows
    PageSizes <- MCPageSizes
    MaxChanges = 0
    MaxPages = 8
INVARIANT TokenFetchesNextPage
