CONSTANTS
    Texts <- MCTexts
    Parsed <- MCParsed
    Rendered <- MCRendered
    MaxInt = 1000
    ExactF64 = 1000
    MaxShards = 4
    Words <- MCWords
    Lower <- Same
    Stem <- MCStem
    Folded <- Same
    Stopwords <- MCStopwords
    Letters <- MCLetters
    Relevance <- MCRelevance
    Within <- MCWithin
    GlobMatches <- MCGlobMatches
    IGlobMatches <- MCIGlobMatches
    RegexMatches <- MCRegexMatches
    BadPatterns = {9}
    SumLimit = 1000
    Batches <- MCBatches
    ShardOf <- MCShardOf
    MaxTail = 3
    Iterations = 2
    MaxCandidates = 2
    SurvivorMargin = 1
    Requests <- MCRequests
    ByFilter <- MCByFilter
    Totals <- MCTotals
SPECIFICATION Spec
CHECK_DEADLOCK FALSE
INVARIANTS
    TailAddsMatches
