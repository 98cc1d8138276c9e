---------------------------- MODULE WebauthnDevices ----------------------------
(***************************************************************************)
(* The webauthn_devices table under the statements of                      *)
(* internal/storage/sql_provider_queries.go (lines 123-167).               *)
(*                                                                         *)
(* Each statement is one atomic step.  The handlers that issue them are   *)
(* not in the repository, so any statement may run at any time with any  *)
(* arguments, except that an update of a device follows a select that     *)
(* read it: a sign-in (or a key re-encoding) reads the user's devices,    *)
(* works with the one whose credential the browser presented, and writes *)
(* back by id or by (username, kid).  A re-registration may run between  *)
(* the read and the write.                                                 *)
(*                                                                         *)
(* A row keeps the columns a property tells apart: username, description, *)
(* kid, and for public_key and sign_count the credential (kid) whose key  *)
(* and whose authenticator counter they hold.  rpid, last_used_at, aaguid *)
(* and the other columns are left out.  Ids are AUTO_INCREMENT / SERIAL:  *)
(* a new row gets an id never used before.  The unique key of the table  *)
(* is (username, description), the conflict target of the PostgreSQL     *)
(* upsert.                                                                 *)
(***************************************************************************)
EXTENDS Naturals, FiniteSets, Functions, TLC

CONSTANTS
    Users,          \* usernames
    Descriptions,   \* device descriptions a user gives
    Kids,           \* credential ids (one per authenticator registration)
    Signers,        \* concurrent requests that read a device, then write it
    Dialect,        \* "sqlite", "mysql" or "postgres"
    MaxInserts      \* bound on inserted rows (ids 1..MaxInserts)

ASSUME Dialect \in {"sqlite", "mysql", "postgres"} /\ MaxInserts \in Nat

VARIABLES
    devices,    \* the table: id -> row, over the ids present
    nextId,     \* the id the next inserted row gets
    signer      \* signer[s]: idle, or the id, username and kid it read

vars == <<devices, nextId, signer>>

Idle == [phase |-> "idle"]

Init ==
    /\ devices = << >>
    /\ nextId = 1
    /\ signer = [s \in Signers |-> Idle]

\* The registration row: the key and the counter of the new credential.
Registration(u, d, k, cloneWarning) ==
    [username |-> u, description |-> d, kid |-> k, key |-> k, signedBy |-> k,
     cloneWarning |-> cloneWarning]

\* The rows with the (username, description) of a registration.
Conflict(u, d) ==
    {i \in DOMAIN devices : devices[i].username = u /\ devices[i].description = d}

\* A faulty variant whose upsert keeps the replaced row's id.
UpsertKeepsId(u, d, k, cloneWarning) ==
    /\ IF Conflict(u, d) # {}
       THEN /\ devices' = [i \in DOMAIN devices |->
                              IF i \in Conflict(u, d)
                              THEN Registration(u, d, k, cloneWarning)
                              ELSE devices[i]]
            /\ UNCHANGED nextId
       ELSE /\ nextId <= MaxInserts
            /\ devices' = (nextId :> Registration(u, d, k, cloneWarning)) @@ devices
            /\ nextId' = nextId + 1
    /\ UNCHANGED signer

\* queryFmtUpsertWebauthnDevice (REPLACE INTO, SQLite and MySQL): delete the
\* row with the same (username, description), then insert a new row.
\* queryFmtUpsertWebauthnDevicePostgreSQL (ON CONFLICT DO UPDATE): overwrite
\* the conflicting row in place, keeping its id; insert when there is none.
Upsert(u, d, k, cloneWarning) ==
    /\ IF Dialect = "postgres" /\ Conflict(u, d) # {}
       THEN /\ devices' = [i \in DOMAIN devices |->
                              IF i \in Conflict(u, d)
                              THEN Registration(u, d, k, cloneWarning)
                              ELSE devices[i]]
            /\ UNCHANGED nextId
       ELSE /\ nextId <= MaxInserts
            /\ devices' = (nextId :> Registration(u, d, k, cloneWarning)) @@
                          Restrict(devices, DOMAIN devices \ Conflict(u, d))
            /\ nextId' = nextId + 1
    /\ UNCHANGED signer

\* queryFmtSelectWebauthnDevicesByUsername: s reads the devices of a user
\* and keeps the one whose credential is presented.
SelectDevice(s) ==
    /\ signer[s] = Idle
    /\ \E i \in DOMAIN devices :
          signer' = [signer EXCEPT ![s] = [phase |-> "read", id |-> i,
                                           username |-> devices[i].username,
                                           kid |-> devices[i].kid]]
    /\ UNCHANGED <<devices, nextId>>

\* The rows an update by id, or by (username, kid), of s's read touches.
ById(s)       == {i \in DOMAIN devices : i = signer[s].id}
ByUsernameKid(s) == {i \in DOMAIN devices :
                        /\ devices[i].username = signer[s].username
                        /\ devices[i].kid = signer[s].kid}

\* The sign-in update: rpid, last_used_at and sign_count from the
\* authenticator of s's credential; clone_warning stays TRUE once TRUE.
SignIn(rows, s, cloneWarning) ==
    [i \in DOMAIN devices |->
        IF i \in rows
        THEN [devices[i] EXCEPT !.signedBy = signer[s].kid,
                                !.cloneWarning = IF @ THEN TRUE ELSE cloneWarning]
        ELSE devices[i]]

\* The public key update: the key s read, written back re-encoded.
PublicKey(rows, s) ==
    [i \in DOMAIN devices |->
        IF i \in rows THEN [devices[i] EXCEPT !.key = signer[s].kid]
                      ELSE devices[i]]

Written(s, table) ==
    /\ signer[s] # Idle
    /\ devices' = table
    /\ signer' = [signer EXCEPT ![s] = Idle]
    /\ UNCHANGED nextId

\* queryFmtUpdateWebauthnDeviceRecordSignIn (WHERE id = ?).
RecordSignIn(s, cloneWarning) == Written(s, SignIn(ById(s), s, cloneWarning))

\* queryFmtUpdateWebauthnDeviceRecordSignInByUsername (WHERE username, kid).
RecordSignInByUsername(s, cloneWarning) ==
    Written(s, SignIn(ByUsernameKid(s), s, cloneWarning))

\* queryFmtUpdateWebauthnDevicePublicKey (WHERE id = ?).
UpdatePublicKey(s) == Written(s, PublicKey(ById(s), s))

\* queryFmtUpdateUpdateWebauthnDevicePublicKeyByUsername (WHERE username, kid).
UpdatePublicKeyByUsername(s) == Written(s, PublicKey(ByUsernameKid(s), s))

Next ==
    \/ \E u \in Users, d \in Descriptions, k \in Kids, w \in BOOLEAN :
          Upsert(u, d, k, w)
    \/ \E s \in Signers :
          \/ SelectDevice(s)
          \/ \E w \in BOOLEAN : RecordSignIn(s, w) \/ RecordSignInByUsername(s, w)
          \/ UpdatePublicKey(s)
          \/ UpdatePublicKeyByUsername(s)

Spec == Init /\ [][Next]_vars

-----------------------------------------------------------------------------
(***************************************************************************)
(* Every row's public key and sign count belong to the credential the row *)
(* holds, however sign-ins, key updates and re-registrations of the same  *)
(* (username, description) interleave: a write made from a read of an     *)
(* earlier registration never lands on the row of a later one.            *)
(***************************************************************************)
DeviceDataMatchesKey ==
    \A i \in DOMAIN devices :
        devices[i].key = devices[i].kid /\ devices[i].signedBy = devices[i].kid
=============================================================================
