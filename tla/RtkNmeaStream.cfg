CONSTANTS
    BufSize = 6
    MaxSentence = 5
    ReadSize = 2
    StreamLimit = 8
SPECIFICATION Spec
INVARIANTS
    TypeOK
    BufferIsSuffix
    SentencesIntact
    NoSentenceLost
