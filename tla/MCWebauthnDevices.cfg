\* SQLite (MySQL behaves the same): one user with two device descriptions,
\* two credentials, two concurrent signers, at most three inserted rows.
CONSTANTS
    Users = {u1}
    Descriptions = {d1, d2}
    Kids = {k1, k2}
    Signers = {s1, s2}
    Dialect = "sqlite"
    MaxInserts = 3
SPECIFICATION Spec
INVARIANT DeviceDataMatchesKey
