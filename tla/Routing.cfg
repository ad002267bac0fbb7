SPECIFICATION Spec
CONSTANTS
    h1 = h1  h2 = h2  h3 = h3
    m1 = m1  m2 = m2
    i1 = i1  i2 = i2  i3 = i3
    Hosts = {h1, h2}
    Ids = {i1, i2}
    NoId = NoId
    IdOf <- MCIdOfTwo
    Serves <- MCServesOne
    Configured <- MCConfigured
    Started = {h1, h2}
    Rank <- MCRank
    Tasks = {t1, t2, t3}
    Misfits = {t2}
    Strategies = {"round_robin", "weighted", "probabilistic"}
    MaxIssued = 3
    MaxChanges = 2
INVARIANTS TypeOK CacheCurrent RotationEven ChargesReturned
SYMMETRY TaskSymmetry
CHECK_DEADLOCK FALSE
