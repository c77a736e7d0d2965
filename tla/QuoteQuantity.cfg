\* One request suffices; 10 units are the least quantity whose snapshot differs from the column.
CONSTANTS
    Opps = {o1}
    Calls = {c1}
    Drafts = {d1}
    Quantities = {150, 1000}
    Any = Any
    None = None
SPECIFICATION Spec
INVARIANT QuantitiesAreKept
