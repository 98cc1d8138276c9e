--------------------------- MODULE TOTPConfigurations ---------------------------
(***************************************************************************)
(* The totp_configurations table under the statements of                   *)
(* internal/storage/sql_provider_queries.go (lines 74-121).                *)
(*                                                                         *)
(* Each statement is one atomic step; the handlers that issue them are not *)
(* in the repository, so any statement may run at any time.  A write of a  *)
(* configuration follows a select that read it: a TOTP sign-in reads the   *)
(* user's configuration, validates the code and stamps last_used_at; an   *)
(* encryption key change pages through the table and writes every secret  *)
(* back re-encrypted.  A re-registration (REPLACE INTO / ON CONFLICT on   *)
(* the unique username) or a delete may run between the read and the      *)
(* write.                                                                  *)
(*                                                                         *)
(* A registration is a model value standing for the columns it sets       *)
(* (created_at, issuer, algorithm, digits, period, secret).  A row keeps   *)
(* its registration, the registration whose secret the secret column     *)
(* holds, and the registration of the sign-in that last set last_used_at  *)
(* (NULL when none did).                                                   *)
(***************************************************************************)
EXTENDS Naturals, FiniteSets, Functions, TLC

CONSTANTS
    Users,          \* usernames
    Regs,           \* registrations (one per enrolment of an authenticator app)
    Writers,        \* concurrent requests that read a configuration, then write it
    Dialect,        \* "sqlite", "mysql" or "postgres"
    NULL,           \* model value: SQL NULL
    MaxInserts      \* bound on inserted rows (ids 1..MaxInserts)

ASSUME Dialect \in {"sqlite", "mysql", "postgres"} /\ MaxInserts \in Nat

VARIABLES
    totp,       \* the table: id -> row, over the ids present
    nextId,     \* the id the next inserted row gets
    writer,     \* writer[w]: idle, or the id, username and registration it read
    lastWrite   \* the step just taken, when it was a by-id write: the id it
                \* named and the registration its select read; NoWrite otherwise

vars == <<totp, nextId, writer, lastWrite>>

Idle == [phase |-> "idle"]
NoWrite == [id |-> 0, reg |-> NULL]

Init ==
    /\ totp = << >>
    /\ nextId = 1
    /\ writer = [w \in Writers |-> Idle]
    /\ lastWrite = NoWrite

\* The rows of a username (at most one: username is the unique key).
OfUser(u) == {i \in DOMAIN totp : totp[i].username = u}

Registration(u, r) == [username |-> u, reg |-> r, secret |-> r, signedBy |-> NULL]

\* A faulty variant of the SQLite/MySQL upsert that keeps the replaced id.
UpsertKeepsId(u, r) ==
    /\ IF OfUser(u) # {}
       THEN /\ totp' = [i \in DOMAIN totp |->
                           IF i \in OfUser(u) THEN Registration(u, r) ELSE totp[i]]
            /\ UNCHANGED nextId
       ELSE /\ nextId <= MaxInserts
            /\ totp' = (nextId :> Registration(u, r)) @@ totp
            /\ nextId' = nextId + 1
    /\ lastWrite' = NoWrite
    /\ UNCHANGED writer

\* queryFmtUpsertTOTPConfiguration (REPLACE INTO: delete the user's row,
\* insert a new one) and queryFmtUpsertTOTPConfigurationPostgreSQL
\* (ON CONFLICT (username) DO UPDATE: overwrite the row, keeping its id).
Upsert(u, r) ==
    /\ IF Dialect = "postgres" /\ OfUser(u) # {}
       THEN /\ totp' = [i \in DOMAIN totp |->
                           IF i \in OfUser(u) THEN Registration(u, r) ELSE totp[i]]
            /\ UNCHANGED nextId
       ELSE /\ nextId <= MaxInserts
            /\ totp' = (nextId :> Registration(u, r)) @@
                       Restrict(totp, DOMAIN totp \ OfUser(u))
            /\ nextId' = nextId + 1
    /\ lastWrite' = NoWrite
    /\ UNCHANGED writer

\* queryFmtDeleteTOTPConfiguration (WHERE username = ?).
Delete(u) ==
    /\ totp' = Restrict(totp, DOMAIN totp \ OfUser(u))
    /\ lastWrite' = NoWrite
    /\ UNCHANGED <<nextId, writer>>

\* queryFmtSelectTOTPConfiguration (by username) or a row of a page of
\* queryFmtSelectTOTPConfigurations: w keeps the row it read.
Select(w) ==
    /\ writer[w] = Idle
    /\ \E i \in DOMAIN totp :
          writer' = [writer EXCEPT ![w] = [phase |-> "read", id |-> i,
                                           username |-> totp[i].username,
                                           reg |-> totp[i].reg]]
    /\ lastWrite' = NoWrite
    /\ UNCHANGED <<totp, nextId>>

\* The rows an update by id, or by username, of w's read touches.
ById(w)       == {i \in DOMAIN totp : i = writer[w].id}
ByUsername(w) == OfUser(writer[w].username)

\* SET secret = ? : the secret w read, re-encrypted.
Secret(rows, w) ==
    [i \in DOMAIN totp |-> IF i \in rows THEN [totp[i] EXCEPT !.secret = writer[w].reg]
                                          ELSE totp[i]]

\* SET last_used_at = ? : the time of w's sign-in with the code it checked.
SignIn(rows, w) ==
    [i \in DOMAIN totp |-> IF i \in rows THEN [totp[i] EXCEPT !.signedBy = writer[w].reg]
                                          ELSE totp[i]]

Written(w, table) ==
    /\ writer[w] # Idle
    /\ totp' = table
    /\ writer' = [writer EXCEPT ![w] = Idle]
    /\ UNCHANGED nextId

\* The by-id statements also record the id and registration of the write.
WrittenById(w, table) ==
    /\ Written(w, table)
    /\ lastWrite' = [id |-> writer[w].id, reg |-> writer[w].reg]

\* queryFmtUpdateTOTPConfigurationSecret (WHERE id = ?).
UpdateSecret(w) == WrittenById(w, Secret(ById(w), w))

\* queryFmtUpdateTOTPConfigurationSecretByUsername (WHERE username = ?).
UpdateSecretByUsername(w) ==
    Written(w, Secret(ByUsername(w), w)) /\ lastWrite' = NoWrite

\* queryFmtUpdateTOTPConfigRecordSignIn (WHERE id = ?).
RecordSignIn(w) == WrittenById(w, SignIn(ById(w), w))

\* queryFmtUpdateTOTPConfigRecordSignInByUsername (WHERE username = ?).
RecordSignInByUsername(w) ==
    Written(w, SignIn(ByUsername(w), w)) /\ lastWrite' = NoWrite

Next ==
    \/ \E u \in Users :
          \/ \E r \in Regs : Upsert(u, r)
          \/ Delete(u)
    \/ \E w \in Writers :
          \/ Select(w)
          \/ UpdateSecret(w)
          \/ UpdateSecretByUsername(w)
          \/ RecordSignIn(w)
          \/ RecordSignInByUsername(w)

Spec == Init /\ [][Next]_vars

-----------------------------------------------------------------------------
(***************************************************************************)
(* A write by id lands only on the registration it was read from: when a  *)
(* sign-in stamp or a re-encrypted secret is written by id after the user *)
(* re-registered (or deleted and re-registered) between the select and    *)
(* the update, the row that now has that id, if any, is still the one     *)
(* that was read, so the new registration never receives the old          *)
(* registration's secret or sign-in.                                      *)
(***************************************************************************)
ByIdWriteHitsItsRead ==
    lastWrite.id \in DOMAIN totp => totp[lastWrite.id].reg = lastWrite.reg
=============================================================================
