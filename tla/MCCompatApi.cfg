CONSTANTS
    Texts <- MCTexts
    Parsed <- Nowhere
    Rendered <- Nowhere
    MaxInt = 1000
    ExactF64 = 1000
    MaxShards = 4
    Words <- MCWords
    Lower <- Same
    Stem <- MCStem
    Folded <- Same
    Stopwords <- MCStopwords
    Letters <- MCLetters
    Relevance <- MCRelevance
    Within = {}
    GlobMatches = {}
    IGlobMatches = {}
    RegexMatches = {}
    BadPatterns = {}
    SumLimit = 1000
    Batches = {}
    ShardOf <- MCShardOf
    MaxTail = 12
    Iterations = 2
    MaxCandidates = 2
    SurvivorMargin = 1
    Requests = {}
    ByFilter = {}
    Totals = {}
    Callers = {c1, c2}
    Bodies <- MCBodies
    V2Queries <- MCV2Queries
    AttributeOrder <- MCAttributeOrder
    Embedding <- MCEmbedding
    TailLimit = 1
    MaxByFilter = 1
    RrfScale = 1000
SYMMETRY Symmetry
SPECIFICATION CompatSpec
INVARIANTS
    EachRowItsVector
    TailStaysBounded
    ResponsesAreRanked
PROPERTIES
    WritesApplyAsAsked
