\* A table of three chunks, cancelled twice at any moment, every native call, the deletions
\* of the temporary file among them, failing or not.
CONSTANTS
    Chunks = 3
    Cancels = {1, 2}
SPECIFICATION FairSpec
INVARIANT TypeOK
INVARIANT TempFileOwned
PROPERTY ImplementsPublication
PROPERTY Settles
\* One run of the export ends.
CHECK_DEADLOCK FALSE
