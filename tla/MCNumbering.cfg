SPECIFICATION Spec
CONSTANTS
    bound = bound
    unbound = unbound
    s1 = s1
    e1 = e1
    e2 = e2
    Docs <- MCDocs
    Entries = {e1, e2}
    Series = {s1}
    Periods = {p1, p2}
    Scopes = {undated, dated}
    Undated = undated
    MaxNumber = 2
    Typed = {1}
    FormSeries <- MCFormSeries
    NoDoc = NoDoc
    NoEntry = NoEntry
    NoSeries = NoSeries
SYMMETRY Symmetric
INVARIANTS TypeOK NumberHeldOnce LiveReservationIsBorne OfficialNumbers
PROPERTIES ProtectNumberEntry RegisterSpec
CHECK_DEADLOCK FALSE
