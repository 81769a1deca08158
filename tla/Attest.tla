------------------------------- MODULE Attest -------------------------------
(***************************************************************************)
(* Provenance records (attest.ts, packages/crypto attest.ts, the /attest    *)
(* routes and the proof page).  The signing key is the environment's, or    *)
(* else one generated at the first start without it and kept in the         *)
(* database; it may change from one start to the next.  A signature is the  *)
(* record of who signed what.  The state begins where this version first    *)
(* starts, over records an older one, with the same key, left without it.   *)
(***************************************************************************)
CONSTANTS
    EnvKey,     \* values ATTEST_SECRET_KEY may have
    OwnKey,     \* what generateAttestKey returns
    NoKey

ASSUME AttestAssumption == NoKey \notin EnvKey \cup {OwnKey} /\ OwnKey \notin EnvKey

VARIABLES
    envKey,     \* ATTEST_SECRET_KEY
    setting,    \* app_settings.attest_secret_key
    key,        \* the key in use
    attested    \* attestations

attestVars == <<envKey, setting, key, attested>>

\* attestMessage
Payload(run, project, verified) == [run |-> run, project |-> project, verified |-> verified]

\* signAttestation
Sign(payload, by) == [by |-> by, message |-> payload]

\* verifyAttestation
Verifies(payload, signature, public) == signature = [by |-> public, message |-> payload]

\* makeAttestor's choice of the key.
ChosenKey(env, stored) ==
    IF env # NoKey THEN env ELSE IF stored # NoKey THEN stored ELSE OwnKey

StoredKey(env, stored) == IF env = NoKey THEN ChosenKey(env, stored) ELSE stored

\* Mutant of Backfilled: only records made from now on name their key.
MutBackfilled(rows, by) == rows

\* backfillAttestationKey
Backfilled(rows, by) ==
    {IF row.public = NoKey THEN [row EXCEPT !.public = by] ELSE row : row \in rows}

\* The first start of this version.
AttestInit(legacy) ==
    /\ envKey \in EnvKey \cup {NoKey}
    /\ setting = StoredKey(envKey, NoKey)
    /\ key = ChosenKey(envKey, NoKey)
    /\ attested = Backfilled({[payload |-> p, signature |-> Sign(p, key), public |-> NoKey]
                                : p \in legacy}, key)

\* A later one, with this environment.
Boot(env) ==
    /\ envKey' = env
    /\ setting' = StoredKey(env, setting)
    /\ key' = ChosenKey(env, setting)
    /\ attested' = Backfilled(attested, key')

\* record()
Attested(payload) ==
    attested' = attested \cup
        {[payload |-> payload, signature |-> Sign(payload, key), public |-> key]}

\* GET /attest/:runId, and what the proof page makes of it.
Served(row) == IF row.public = NoKey THEN [row EXCEPT !.public = key] ELSE row

ProofValid(row) ==
    LET d == Served(row) IN Verifies(d.payload, d.signature, d.public)
=============================================================================
