\* SQLite (MySQL behaves the same): two users, two registrations, two
\* concurrent writers, at most four inserted rows.
CONSTANTS
    Users = {u1, u2}
    Regs = {r1, r2}
    Writers = {w1, w2}
    Dialect = "sqlite"
    NULL = NULL
    MaxInserts = 4
SPECIFICATION Spec
INVARIANT ByIdWriteHitsItsRead
