------------------------------- MODULE MCRecords -------------------------------
(***************************************************************************)
(* What is written down, and stays true of it: the ledger of the runs, the *)
(* contracts and context packages, the session bindings and the rollover   *)
(* policy, the SQLite store and its schema, the artifacts.  The modules    *)
(* share no state, so a behaviour of all of them is one of each: every     *)
(* behaviour here is about one of them, and the others rest.               *)
(***************************************************************************)
EXTENDS RunLedger, TaskContracts, RunSessions, SqliteStore, Migrations, Artifacts

CONSTANTS r1, r2,                   \* the runs of the ledger
          k0, g0, k1, k2, g1, g2,   \* idempotency keys and change ids
          t1, l1, l2, h1            \* a task, relations, a handoff

\* Two runs, each with its fallback request and two permission requests.
MCRuns == {r1, r2}
MCApprovals == MCRuns \X (0..2)
MCApprovalRun == [a \in MCApprovals |-> a[1]]
MCFallbacks == {a \in MCApprovals : a[2] = 0}

\* One commit is there; the writers bring a new one, and two under one key, of which one
\* repeats the change of the first.
MCFirstScope == <<k0, g0>>
MCStoreScopes == {<<k1, g1>>, <<k2, g2>>, <<k2, g0>>}

\* A first version, and second ones: too large, with the handoff of the first by one
\* relation or by two, on the base the first left, with a secret.
Contract(n, base, declared, selected, limits, content) ==
  [ref |-> <<t1, n>>, base |-> base, relations |-> declared, selected |-> selected,
   limits |-> limits, content |-> content, baseline |-> 1]
Depends == [id |-> l1, type |-> "depends_on", target |-> <<t1, 1>>]
Related == [id |-> l2, type |-> "related_to", target |-> <<t1, 1>>]
Supersedes == [id |-> l2, type |-> "supersedes", target |-> <<t1, 1>>]
MCContracts ==
  <<{Contract(1, 0, <<>>, {}, "within", "plain")},
    {Contract(2, 0, <<>>, {}, "over", "plain"),
     Contract(2, 0, <<Supersedes>>, {h1}, "within", "plain"),
     Contract(2, 0, <<Depends>>, {h1}, "within", "plain"),
     Contract(2, 0, <<Related, Depends>>, {h1}, "within", "plain"),
     Contract(2, 1, <<Depends>>, {h1}, "within", "plain"),
     Contract(2, 1, <<>>, {}, "within", "secret")}>>

VARIABLE about

recordsVars == <<about, ledger, contractVars, sessionVars, policyVars, storeVars, migrationVars,
                 artifactVars>>

RecordsInit ==
  /\ about \in {"ledger", "contracts", "sessions", "policy", "store", "schema", "artifacts"}
  /\ Init
  /\ ContractsInit
  /\ SessionsInit
  /\ RolloverInit
  /\ StoreInit
  /\ MigrationsInit /\ (about # "schema" => schema = SchemaAt(0))
  /\ ArtifactsInit

Only(s) ==
  /\ about = s
  /\ UNCHANGED about
  /\ s # "ledger"    => UNCHANGED ledger
  /\ s # "contracts" => UNCHANGED contractVars
  /\ s # "sessions"  => UNCHANGED sessionVars
  /\ s # "policy"    => UNCHANGED policyVars
  /\ s # "store"     => UNCHANGED storeVars
  /\ s # "schema"    => UNCHANGED migrationVars
  /\ s # "artifacts" => UNCHANGED artifactVars

RecordsNext ==
  \/ Only("ledger")    /\ Next
  \/ Only("contracts") /\ ContractsNext
  \/ Only("sessions")  /\ SessionsNext
  \/ Only("policy")    /\ RolloverNext
  \/ Only("store")     /\ StoreNext
  \/ Only("schema")    /\ MigrationsNext
  \/ Only("artifacts") /\ ArtifactsNext

RecordsSpec == RecordsInit /\ [][RecordsNext]_recordsVars

RecordsTypeOK ==
  /\ TypeOK /\ ContractsTypeOK /\ SessionsTypeOK /\ RolloverTypeOK /\ StoreTypeOK
  /\ MigrationsTypeOK /\ ArtifactsTypeOK
=============================================================================
