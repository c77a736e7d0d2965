\* Three requests for one opportunity, each a new quote or an edit of an artifact version; 1.50 and
\* 10 units stand for the quantities whose lines a trigger keeps and refuses.
CONSTANTS
    Opps = {o1}
    Calls = {c1, c2, c3}
    Drafts = {d1}
    Quantities = {150, 1000}
    Any = Any
    None = None
SPECIFICATION FairSpec
INVARIANTS
    TypeOK
    OneLine
    OneArtifact
    TrailTellsQuotes
PROPERTIES
    EveryCallEnds
    ImplementsQuoteBook
