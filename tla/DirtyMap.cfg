SPECIFICATION FairMapSpec
CONSTANTS
    N = 3
    Recordings <- MCRecordings
INVARIANT FindsAllAffected
PROPERTY Terminates
