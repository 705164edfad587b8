-------------------------------- MODULE Startup --------------------------------
(***************************************************************************)
(* From an empty database to a web server, and again after every stop:     *)
(* docker/start.py, which Docker restarts, brings the schema up to date,   *)
(* seeds the default distributions and accounts, and becomes gunicorn.     *)
(* scripts/seed.py does much the same by hand, at any time.                *)
(***************************************************************************)
EXTENDS Accounts, Catalog

CONSTANTS Defaults,     \* DISTROS of start.py, DISTRIBUTIONS of seed.py
          Starters      \* which of the two are in use

Demo     == [name |-> "demo", email |-> "demo@example.com"]
Admin    == [name |-> "admin", email |-> "admin@example.com"]
DemoSeed == [name |-> "demo", email |-> "demo@shellter.local"]

ASSUME DefaultsAssumption == Defaults \subseteq Distros
ASSUME SeedsAssumption == {Demo, Admin, DemoSeed} \subseteq Account
ASSUME StartersAssumption == {"web"} \subseteq Starters /\ Starters \subseteq {"web", "seed"}

VARIABLES schema,       \* of the database; "created" has no alembic_version
          boot          \* what each starter holds in memory

startVars == <<accountVars, catalogVars, schema, boot>>

SchemaState == {"none", "created", "migrated"}

BootPc == {"down", "schema", "distros", "accounts", "up"}

Boot == [pc : BootPc, distros : SUBSET Defaults, accounts : SUBSET Account]

Down == [pc |-> "down", distros |-> {}, accounts |-> {}]

StartTypeOK == /\ AccountsTypeOK /\ CatalogTypeOK
               /\ schema \in SchemaState
               /\ boot \in [Starters -> Boot]

StartInit == /\ AccountsInit /\ CatalogInit
             /\ schema = "none"
             /\ boot = [s \in Starters |-> Down]

-----------------------------------------------------------------------------
(* upgrade() fails on tables that create_all() has made.                   *)
Upgrade == schema # "created" /\ schema' = "migrated"

CreateAll == schema' = IF schema = "none" THEN "created" ELSE schema

(* Mutant: no fallback.                                                    *)
SchemaReadyUpgraded(s) == IF s = "web" THEN Upgrade ELSE CreateAll

(* start.py upgrades, or creates the tables when that raises, for whatever *)
(* reason; seed.py creates them.                                           *)
SchemaReady(s) == (s = "web" /\ Upgrade) \/ CreateAll

StartSchema(s) ==
    /\ boot[s].pc = "down"
    /\ SchemaReady(s)
    /\ boot' = [boot EXCEPT ![s].pc = "schema"]
    /\ UNCHANGED <<accountVars, catalogVars>>

(* Mutant: a distribution counts when it is enabled.                       *)
MissingEnabled == {n \in Defaults : \A c \in Rows(n) : distro[n][c] # "enabled"}

Missing == {n \in Defaults : Rows(n) = {}}

StartDistros(s) ==
    /\ boot[s].pc = "schema"
    /\ boot' = [boot EXCEPT ![s].pc = "distros", ![s].distros = Missing]
    /\ UNCHANGED <<accountVars, catalogVars, schema>>

(* An account named admin is start.py's own (ReservedNames), so that there *)
(* is none to be made an administrator.                                    *)
StartAccounts(s) ==
    /\ boot[s].pc = "distros"
    /\ boot' = [boot EXCEPT
                 ![s].pc = "accounts",
                 ![s].accounts =
                    {a \in IF s = "web" THEN {Demo, Admin} ELSE {DemoSeed} :
                        \A b \in accounts : a.name # b.name}]
    /\ UNCHANGED <<accountVars, catalogVars, schema>>

(* start.py becomes gunicorn; seed.py ends.                                *)
After(s) == IF s = "web" THEN [Down EXCEPT !.pc = "up"] ELSE Down

(* Everything is in one commit.                                            *)
StartCommit(s) ==
    /\ boot[s].pc = "accounts"
    /\ HasRoom(boot[s].distros)
    /\ ~Clash(boot[s].accounts)
    /\ distro' = Inserted(boot[s].distros)
    /\ accounts' = accounts \cup boot[s].accounts
    /\ boot' = [boot EXCEPT ![s] = After(s)]
    /\ UNCHANGED <<reg, adm, schema>>

(* Mutant: the IntegrityError is caught, and gunicorn started.             *)
StartRefusedIgnored(s) ==
    /\ boot[s].pc = "accounts"
    /\ Clash(boot[s].accounts)
    /\ boot' = [boot EXCEPT ![s] = After(s)]
    /\ UNCHANGED <<accountVars, catalogVars, schema>>

(* IntegrityError: all is rolled back, and Docker starts start.py again.   *)
StartRefused(s) ==
    /\ boot[s].pc = "accounts"
    /\ Clash(boot[s].accounts)
    /\ boot' = [boot EXCEPT ![s] = Down]
    /\ UNCHANGED <<accountVars, catalogVars, schema>>

(* Any other exception, or a kill.                                         *)
StartFail(s) ==
    /\ boot[s].pc \notin {"down", "up"}
    /\ boot' = [boot EXCEPT ![s] = Down]
    /\ UNCHANGED <<accountVars, catalogVars, schema>>

(* The container stops: the requests that it serves are forgotten.         *)
WebStops ==
    /\ boot["web"].pc = "up"
    /\ boot' = [boot EXCEPT !["web"] = Down]
    /\ reg' = [r \in Requests |-> {}]
    /\ adm' = [r \in Requests |-> AdmIdle]
    /\ UNCHANGED <<accounts, distro, schema>>

Serving == boot["web"].pc = "up"

(* A process serves one request at a time.                                 *)
Serve(r) ==
    /\ Serving
    /\ \/ Register(r) /\ adm[r] = AdmIdle /\ UNCHANGED catalogVars
       \/ Administer(r) /\ reg[r] = {} /\ UNCHANGED accountVars
    /\ UNCHANGED <<schema, boot>>

StartNext == \/ \E s \in Starters : \/ StartSchema(s) \/ StartDistros(s)
                                    \/ StartAccounts(s) \/ StartCommit(s)
                                    \/ StartRefused(s) \/ StartFail(s)
             \/ WebStops
             \/ \E r \in Requests : Serve(r)

StartSafety == StartInit /\ [][StartNext]_startVars

(* Docker restarts start.py, which does not fail at the same place for     *)
(* ever; nobody has to run seed.py or to send a request.                   *)
StartFairness == /\ SF_startVars(StartSchema("web"))
                 /\ SF_startVars(StartDistros("web"))
                 /\ SF_startVars(StartAccounts("web"))
                 /\ SF_startVars(StartCommit("web"))
                 /\ WF_startVars(StartRefused("web"))

StartSpec == StartSafety /\ StartFairness

-----------------------------------------------------------------------------
(* Gunicorn serves over a complete seed: whatever failed, raced with       *)
(* seed.py or was restarted on the way, each default distribution and both *)
(* accounts of start.py are there before the first request is.             *)
ReadyWhenServing ==
    Serving => /\ schema # "none"
               /\ \A n \in Defaults : Rows(n) # {}
               /\ \A a \in {Demo, Admin} : \E b \in accounts : b.name = a.name

(* No visitor gets the name of a seeded account: it is inserted before the *)
(* first visitor can register.                                             *)
ReservedNames ==
    \A a \in accounts : a.name \in {"demo", "admin"} => a \in {Demo, Admin, DemoSeed}

(* Restarts, races and toggles do not multiply the catalogue: a default    *)
(* has at most a row per starter that looked before the other committed,   *)
(* any other name one per request that did.                                *)
NamesBounded ==
    \A n \in Distros :
        Cardinality(Rows(n)) <= IF n \in Defaults THEN Cardinality(Starters)
                                ELSE Cardinality(Requests)

(* Registrations and seeds together implement the registry: a check that   *)
(* is overtaken is made good by the constraints of the table.              *)
Accounting == INSTANCE Registry
ImplementsRegistry == Accounting!Spec

(* The web server comes back after every stop, whatever start.py fails at  *)
(* and whatever seed.py did to the schema or the accounts meanwhile.       *)
WebComesBack == ~Serving ~> Serving
=============================================================================
