CONSTANTS
    Texts <- MCTexts
    Parsed <- MCParsed
    Rendered <- MCRendered
    MaxInt = 20
    ExactF64 = 20
    MaxShards = 4
    Words <- MCWords
    Lower <- Same
    Stem <- MCStem
    Folded <- Same
    Stopwords <- MCStopwords
    Letters <- MCLetters
    Relevance <- MCRelevance
    Within = {}
    GlobMatches = {}
    IGlobMatches = {}
    RegexMatches = {}
    BadPatterns = {}
    Bytes <- MCBytes
    NameBytes <- MCNameBytes
    Dimensions = 2
    U16 = 4
    Entries <- MCEntries
    MaxEntries = 3
SPECIFICATION Spec
INVARIANTS
    ObjectsReadBack
    IndexesSurvive
    EchoIsTheSame
    ValuesAreOrdered
    FuzzyIsEdits
