------------------------------ MODULE StartupProofs ------------------------------
(***************************************************************************)
(* What holds of the seed, the accounts and the catalogue for every value  *)
(* of the constants, however start.py, seed.py and the requests interleave *)
(* and wherever they fail.                                                 *)
(***************************************************************************)
EXTENDS Startup, Counting

(* A registration keeps the types.                                         *)
LEMMA RegisterTypes ==
    ASSUME AccountsTypeOK, NEW r \in Requests, Register(r)
    PROVE  AccountsTypeOK'
<1>1. CASE RegCommit(r)
  BY <1>1 DEF RegCommit, AccountsTypeOK
<1>2. CASE RegFail(r)
  BY <1>2 DEF RegFail, AccountsTypeOK
<1>3. ASSUME NEW a \in Account, RegCheck(r, a)
      PROVE  AccountsTypeOK'
  BY <1>3 DEF RegCheck, AccountsTypeOK
<1> QED
  BY <1>1, <1>2, <1>3 DEF Register

(* Rows are inserted as enabled.                                           *)
LEMMA InsertedType ==
    ASSUME CatalogTypeOK, NEW new
    PROVE  Inserted(new) \in [Distros -> [Copies -> DistroStatus \cup {"absent"}]]
<1>1. ASSUME NEW n \in Distros
      PROVE  (IF n \in new
              THEN [distro[n] EXCEPT ![Cardinality(Rows(n)) + 1] = "enabled"]
              ELSE distro[n]) \in [Copies -> DistroStatus \cup {"absent"}]
  BY DEF CatalogTypeOK, DistroStatus
<1> QED
  BY <1>1 DEF Inserted

(* An operation of an administrator keeps the types.                       *)
LEMMA AdministerTypes ==
    ASSUME CatalogTypeOK, NEW r \in Requests, Administer(r)
    PROVE  CatalogTypeOK'
<1>t. /\ distro \in [Distros -> [Copies -> DistroStatus \cup {"absent"}]]
      /\ adm \in [Requests -> Adm] /\ AdmIdle \in Adm
  BY DEF CatalogTypeOK, Adm
<1>1. ASSUME NEW n \in Distros, CreateCheck(r, n)
      PROVE  CatalogTypeOK'
  <2>1. [pc |-> "creating", name |-> n] \in Adm
    BY DEF Adm
  <2> QED
    BY <1>1, <1>t, <2>1 DEF CreateCheck, CatalogTypeOK
<1>2. CASE CreateCommit(r)
  BY <1>2, <1>t, InsertedType DEF CreateCommit, CatalogTypeOK
<1>3. ASSUME NEW n \in Distros, NEW c \in Copies, ToggleLoad(r, n, c)
      PROVE  CatalogTypeOK'
  <2>1. [pc |-> "toggling", name |-> n, copy |-> c, status |-> Toggled(n, c)]
          \in Adm
    BY DEF Adm, Toggled, DistroStatus
  <2> QED
    BY <1>3, <1>t, <2>1 DEF ToggleLoad, CatalogTypeOK
<1>4. CASE ToggleCommit(r)
  <2>1. /\ adm[r].name \in Distros /\ adm[r].copy \in Copies
        /\ adm[r].status \in DistroStatus
    BY <1>4, <1>t DEF ToggleCommit, Adm, AdmIdle
  <2> QED
    BY <1>4, <1>t, <2>1 DEF ToggleCommit, CatalogTypeOK
<1>5. CASE AdminDies(r)
  BY <1>5, <1>t DEF AdminDies, CatalogTypeOK
<1> QED
  BY <1>1, <1>2, <1>3, <1>4, <1>5 DEF Administer

(* The records of a starter that holds nothing.                            *)
LEMMA DownType == Down \in Boot /\ [Down EXCEPT !.pc = "up"] \in Boot
BY DEF Down, Boot, BootPc

(* Every step keeps the types.                                             *)
LEMMA StartStepTypes ==
    ASSUME StartTypeOK, [StartNext]_startVars
    PROVE  StartTypeOK'
<1>t. /\ AccountsTypeOK /\ CatalogTypeOK /\ schema \in SchemaState
      /\ boot \in [Starters -> Boot]
      /\ accounts \in SUBSET Account
  BY DEF StartTypeOK, AccountsTypeOK
<1>a. (UNCHANGED accountVars) => AccountsTypeOK'
  BY <1>t DEF accountVars, AccountsTypeOK
<1>c. (UNCHANGED catalogVars) => CatalogTypeOK'
  BY <1>t DEF catalogVars, CatalogTypeOK
<1>1. ASSUME NEW s \in Starters, StartSchema(s)
      PROVE  StartTypeOK'
  <2>1. schema' \in SchemaState
    BY <1>1, <1>t DEF StartSchema, SchemaReady, Upgrade, CreateAll, SchemaState
  <2>2. boot' \in [Starters -> Boot]
    BY <1>1, <1>t DEF StartSchema, Boot, BootPc
  <2> QED
    BY <1>1, <1>a, <1>c, <2>1, <2>2 DEF StartSchema, StartTypeOK
<1>2. ASSUME NEW s \in Starters, StartDistros(s)
      PROVE  StartTypeOK'
  <2>1. boot' \in [Starters -> Boot]
    BY <1>2, <1>t DEF StartDistros, Missing, Boot, BootPc
  <2> QED
    BY <1>2, <1>a, <1>c, <1>t, <2>1 DEF StartDistros, StartTypeOK
<1>3. ASSUME NEW s \in Starters, StartAccounts(s)
      PROVE  StartTypeOK'
  <2>1. {a \in IF s = "web" THEN {Demo, Admin} ELSE {DemoSeed} :
            \A b \in accounts : a.name # b.name} \subseteq Account
    BY SeedsAssumption
  <2>2. boot' \in [Starters -> Boot]
    BY <1>3, <1>t, <2>1 DEF StartAccounts, Boot, BootPc
  <2> QED
    BY <1>3, <1>a, <1>c, <1>t, <2>2 DEF StartAccounts, StartTypeOK
<1>4. ASSUME NEW s \in Starters, StartCommit(s)
      PROVE  StartTypeOK'
  <2>1. accounts' \in SUBSET Account
    BY <1>4, <1>t DEF StartCommit, Boot
  <2>2. boot' \in [Starters -> Boot]
    BY <1>4, <1>t, DownType DEF StartCommit, After
  <2> QED
    BY <1>4, <1>t, <2>1, <2>2, InsertedType
       DEF StartCommit, StartTypeOK, AccountsTypeOK, CatalogTypeOK
<1>5. ASSUME NEW s \in Starters, StartRefused(s) \/ StartFail(s)
      PROVE  StartTypeOK'
  BY <1>5, <1>a, <1>c, <1>t, DownType DEF StartRefused, StartFail, StartTypeOK
<1>6. CASE WebStops
  BY <1>6, <1>t, DownType
     DEF WebStops, StartTypeOK, AccountsTypeOK, CatalogTypeOK, Adm
<1>7. ASSUME NEW r \in Requests, Serve(r)
      PROVE  StartTypeOK'
  BY <1>7, <1>a, <1>c, <1>t, RegisterTypes, AdministerTypes
     DEF Serve, StartTypeOK
<1>8. CASE UNCHANGED startVars
  BY <1>8, <1>a, <1>c, <1>t DEF startVars, StartTypeOK
<1> QED
  BY <1>1, <1>2, <1>3, <1>4, <1>5, <1>6, <1>7, <1>8 DEF StartNext

(* The types hold on an empty database.                                    *)
LEMMA StartInitTypes == StartInit => StartTypeOK
BY DownType DEF StartInit, AccountsInit, CatalogInit, StartTypeOK,
   AccountsTypeOK, CatalogTypeOK, SchemaState, Adm

(* No starter, registration or administrator writes a row or a status that *)
(* the tables do not allow.                                                *)
THEOREM StartTypes == StartSafety => []StartTypeOK
BY StartInitTypes, StartStepTypes, PTL DEF StartSafety

-----------------------------------------------------------------------------
(* Nothing takes a row, an account or the tables away.                     *)
LEMMA NothingLost ==
    ASSUME StartTypeOK, [StartNext]_startVars
    PROVE  /\ accounts \subseteq accounts'
           /\ schema # "none" => schema' # "none"
           /\ \A n \in Distros : Rows(n) \subseteq Rows(n)'
<1>t. distro \in [Distros -> [Copies -> DistroStatus \cup {"absent"}]]
  BY DEF StartTypeOK, CatalogTypeOK
<1>k. (UNCHANGED distro) => \A n \in Distros : Rows(n) \subseteq Rows(n)'
  BY DEF Rows
<1>i. ASSUME NEW new, distro' = Inserted(new)
      PROVE  \A n \in Distros : Rows(n) \subseteq Rows(n)'
  BY <1>i, <1>t DEF Inserted, Rows
<1>1. ASSUME NEW s \in Starters,
             \/ StartSchema(s) \/ StartDistros(s) \/ StartAccounts(s)
             \/ StartRefused(s) \/ StartFail(s)
      PROVE  /\ accounts' = accounts /\ distro' = distro
             /\ schema # "none" => schema' # "none"
  BY <1>1 DEF StartSchema, StartDistros, StartAccounts, StartRefused, StartFail,
              SchemaReady, Upgrade, CreateAll, accountVars, catalogVars
<1>2. ASSUME NEW s \in Starters, StartCommit(s)
      PROVE  /\ accounts \subseteq accounts' /\ schema' = schema
             /\ distro' = Inserted(boot[s].distros)
  BY <1>2 DEF StartCommit
<1>3. ASSUME NEW r \in Requests, Register(r)
      PROVE  accounts \subseteq accounts'
  BY <1>3 DEF Register, RegCheck, RegCommit, RegFail
<1>4. ASSUME NEW r \in Requests, Administer(r)
      PROVE  \A n \in Distros : Rows(n) \subseteq Rows(n)'
  <2>1. CASE CreateCommit(r)
    BY <2>1, <1>i DEF CreateCommit
  <2>2. CASE ToggleCommit(r)
    <3>1. adm[r].status \in DistroStatus
      BY <2>2 DEF ToggleCommit, StartTypeOK, CatalogTypeOK, Adm, AdmIdle
    <3> QED
      BY <2>2, <3>1, <1>t DEF ToggleCommit, Rows, DistroStatus
  <2>3. UNCHANGED distro \/ CreateCommit(r) \/ ToggleCommit(r)
    BY <1>4 DEF Administer, CreateCheck, ToggleLoad, AdminDies
  <2> QED
    BY <2>1, <2>2, <2>3, <1>k
<1>5. ASSUME NEW r \in Requests, Serve(r)
      PROVE  /\ accounts \subseteq accounts' /\ schema' = schema
             /\ \A n \in Distros : Rows(n) \subseteq Rows(n)'
  BY <1>5, <1>3, <1>4, <1>k DEF Serve, accountVars, catalogVars
<1>6. CASE WebStops \/ UNCHANGED startVars
  BY <1>6, <1>k DEF WebStops, startVars, accountVars, catalogVars
<1> QED
  BY <1>1, <1>2, <1>5, <1>6, <1>i, <1>k DEF StartNext

(* What a starter has done, or holds and has yet to commit.                *)
Seeding ==
    \A s \in Starters :
        /\ boot[s].pc # "down" => schema # "none"
        /\ boot[s].accounts \subseteq IF s = "web" THEN {Demo, Admin}
                                      ELSE {DemoSeed}
        /\ boot[s].pc \in {"distros", "accounts"} =>
              \A n \in Defaults : n \in boot[s].distros \/ Rows(n) # {}
        /\ boot[s].pc = "accounts" /\ s = "web" =>
              \A a \in {Demo, Admin} :
                 a \in boot[s].accounts \/ \E b \in accounts : b.name = a.name

(* An insertion gives each of the names a row.                             *)
LEMMA InsertedRows ==
    ASSUME CatalogTypeOK, NEW new \in SUBSET Distros, HasRoom(new),
           distro' = Inserted(new), NEW n \in new
    PROVE  Rows(n)' # {}
<1> DEFINE k == Cardinality(Rows(n)) + 1
<1>1. IsFiniteSet(Copies)
  BY FS_Interval, CopiesAssumption DEF Copies
<1>2. Cardinality(Rows(n)) \in Nat
  BY <1>1, FS_Subset, FS_CardinalityType DEF Rows
<1>3. k \in Copies
  BY <1>2, CopiesAssumption DEF HasRoom, Copies
<1>4. distro'[n][k] = "enabled"
  BY <1>3 DEF Inserted, CatalogTypeOK
<1> QED
  BY <1>3, <1>4 DEF Rows

(* A starter that goes on keeps what it has done.                          *)
LEMMA SeedingStep ==
    ASSUME StartTypeOK, Seeding, [StartNext]_startVars
    PROVE  Seeding'
<1> SUFFICES ASSUME NEW s \in Starters
             PROVE
        (/\ boot[s].pc # "down" => schema # "none"
         /\ boot[s].accounts \subseteq IF s = "web" THEN {Demo, Admin}
                                       ELSE {DemoSeed}
         /\ boot[s].pc \in {"distros", "accounts"} =>
               \A n \in Defaults : n \in boot[s].distros \/ Rows(n) # {}
         /\ boot[s].pc = "accounts" /\ s = "web" =>
               \A a \in {Demo, Admin} :
                  a \in boot[s].accounts \/ \E b \in accounts : b.name = a.name)'
  BY DEF Seeding
<1>t. boot \in [Starters -> Boot]
  BY DEF StartTypeOK
<1>m. /\ accounts \subseteq accounts'
      /\ schema # "none" => schema' # "none"
      /\ \A n \in Defaults : Rows(n) \subseteq Rows(n)'
  BY NothingLost, DefaultsAssumption
<1>s. /\ boot[s].pc # "down" => schema # "none"
      /\ boot[s].accounts \subseteq IF s = "web" THEN {Demo, Admin}
                                    ELSE {DemoSeed}
      /\ boot[s].pc \in {"distros", "accounts"} =>
            \A n \in Defaults : n \in boot[s].distros \/ Rows(n) # {}
      /\ boot[s].pc = "accounts" /\ s = "web" =>
            \A a \in {Demo, Admin} :
               a \in boot[s].accounts \/ \E b \in accounts : b.name = a.name
  BY DEF Seeding
<1>1. CASE boot'[s] = boot[s]
  BY <1>1, <1>m, <1>s
<1>2. CASE boot'[s] = Down
  BY <1>2 DEF Down
<1>3. CASE StartSchema(s)
  <2>1. boot'[s].pc = "schema" /\ boot'[s].accounts = boot[s].accounts
    BY <1>3, <1>t DEF StartSchema, Boot
  <2>2. schema' # "none"
    BY <1>3 DEF StartSchema, SchemaReady, Upgrade, CreateAll
  <2> QED
    BY <2>1, <2>2, <1>s
<1>4. CASE StartDistros(s)
  <2>1. /\ boot'[s].pc = "distros" /\ boot'[s].accounts = boot[s].accounts
        /\ boot'[s].distros = Missing /\ boot[s].pc = "schema"
    BY <1>4, <1>t DEF StartDistros, Boot
  <2> QED
    BY <2>1, <1>s, <1>m DEF Missing
<1>5. CASE StartAccounts(s)
  <2>1. /\ boot'[s].pc = "accounts" /\ boot[s].pc = "distros"
        /\ boot'[s].distros = boot[s].distros
        /\ boot'[s].accounts =
             {a \in IF s = "web" THEN {Demo, Admin} ELSE {DemoSeed} :
                 \A b \in accounts : a.name # b.name}
    BY <1>5, <1>t DEF StartAccounts, Boot
  <2> QED
    BY <2>1, <1>s, <1>m
<1>6. CASE StartCommit(s)
  <2>1. /\ boot'[s].accounts = {} /\ boot'[s].pc \in {"up", "down"}
        /\ boot[s].pc = "accounts"
    BY <1>6, <1>t DEF StartCommit, After, Down
  <2> QED
    BY <2>1, <1>s, <1>m
<1>7. \/ boot'[s] = boot[s] \/ boot'[s] = Down
      \/ StartSchema(s) \/ StartDistros(s) \/ StartAccounts(s) \/ StartCommit(s)
  <2>1. ASSUME NEW v \in Starters, v # s,
               \/ StartSchema(v) \/ StartDistros(v) \/ StartAccounts(v)
               \/ StartCommit(v) \/ StartRefused(v) \/ StartFail(v)
        PROVE  boot'[s] = boot[s]
    BY <2>1, <1>t DEF StartSchema, StartDistros, StartAccounts, StartCommit,
                      StartRefused, StartFail
  <2>2. CASE StartRefused(s) \/ StartFail(s)
    BY <2>2, <1>t DEF StartRefused, StartFail
  <2>3. CASE WebStops
    BY <2>3, <1>t DEF WebStops
  <2>4. CASE (\E r \in Requests : Serve(r)) \/ UNCHANGED startVars
    BY <2>4 DEF Serve, startVars
  <2> QED
    BY <2>1, <2>2, <2>3, <2>4 DEF StartNext
<1> QED
  BY <1>1, <1>2, <1>3, <1>4, <1>5, <1>6, <1>7

(* The web server starts to serve by the commit of start.py, and nothing   *)
(* of the seed is lost afterwards.                                         *)
LEMMA ReadyStep ==
    ASSUME StartTypeOK, Seeding, ReadyWhenServing, [StartNext]_startVars
    PROVE  ReadyWhenServing'
<1> SUFFICES ASSUME Serving'
             PROVE  (/\ schema # "none"
                     /\ \A n \in Defaults : Rows(n) # {}
                     /\ \A a \in {Demo, Admin} :
                           \E b \in accounts : b.name = a.name)'
  BY DEF ReadyWhenServing
<1>t. boot \in [Starters -> Boot] /\ "web" \in Starters
  BY StartersAssumption DEF StartTypeOK
<1>m. /\ accounts \subseteq accounts'
      /\ schema # "none" => schema' # "none"
      /\ \A n \in Defaults : Rows(n) \subseteq Rows(n)'
  BY NothingLost, DefaultsAssumption
<1>1. CASE Serving
  BY <1>1, <1>m DEF ReadyWhenServing
<1>2. CASE StartCommit("web")
  <2>1. boot["web"].pc = "accounts" /\ boot["web"].distros \in SUBSET Distros
    BY <1>2, <1>t, DefaultsAssumption DEF StartCommit, Boot
  <2>2. \A n \in Defaults : Rows(n)' # {}
    <3> SUFFICES ASSUME NEW n \in Defaults
                 PROVE  Rows(n)' # {}
      OBVIOUS
    <3>1. CASE Rows(n) # {}
      BY <3>1, <1>m
    <3>2. CASE n \in boot["web"].distros
      BY <1>2, <2>1, <3>2, InsertedRows DEF StartCommit, StartTypeOK
    <3> QED
      BY <2>1, <3>1, <3>2, <1>t DEF Seeding
  <2>3. \A a \in {Demo, Admin} : \E b \in accounts' : b.name = a.name
    BY <1>2, <2>1, <1>t DEF Seeding, StartCommit
  <2>4. schema' # "none"
    BY <2>1, <1>t, <1>m DEF Seeding
  <2> QED
    BY <2>2, <2>3, <2>4
<1>3. Serving \/ StartCommit("web")
  <2>1. ASSUME NEW s \in Starters, StartSchema(s) \/ StartDistros(s)
                                   \/ StartAccounts(s)
        PROVE  Serving
    BY <2>1, <1>t DEF StartSchema, StartDistros, StartAccounts, Serving, Boot
  <2>2. ASSUME NEW s \in Starters, StartRefused(s) \/ StartFail(s)
        PROVE  Serving
    BY <2>2, <1>t DEF StartRefused, StartFail, Serving, Down
  <2>3. ASSUME NEW s \in Starters, StartCommit(s), s # "web"
        PROVE  Serving
    BY <2>3, <1>t DEF StartCommit, Serving
  <2>4. CASE WebStops
    BY <2>4 DEF WebStops, Serving
  <2>5. CASE (\E r \in Requests : Serve(r)) \/ UNCHANGED startVars
    BY <2>5 DEF Serve, startVars, Serving
  <2> QED
    BY <2>1, <2>2, <2>3, <2>4, <2>5 DEF StartNext
<1> QED
  BY <1>1, <1>2, <1>3

(* Gunicorn serves over a complete seed (start.py:36-101): wherever        *)
(* start.py failed before and whatever seed.py committed beside it.        *)
THEOREM SeededBeforeServing == StartSafety => []ReadyWhenServing
<1> DEFINE IInv == StartTypeOK /\ Seeding /\ ReadyWhenServing
<1>1. StartInit => IInv
  BY StartInitTypes, StartersAssumption
     DEF StartInit, Seeding, ReadyWhenServing, Serving, Down
<1>2. IInv /\ [StartNext]_startVars => IInv'
  BY StartStepTypes, SeedingStep, ReadyStep
<1> QED
  BY <1>1, <1>2, PTL DEF StartSafety

-----------------------------------------------------------------------------
(* The accounts that have been opened, and those that each process holds,  *)
(* differ in both name and address; no visitor holds a reserved name.      *)
Candidates ==
    /\ Accounting!Distinct(accounts)
    /\ \A r \in Requests : Accounting!Distinct(reg[r])
    /\ \A r \in Requests : \A a \in reg[r] : a.name \notin {"demo", "admin"}

(* What the constraints of the table let in does not clash.                *)
LEMMA DistinctUnion ==
    ASSUME NEW new, Accounting!Distinct(accounts), Accounting!Distinct(new),
           ~Clash(new)
    PROVE  Accounting!Distinct(accounts \cup new)
BY DEF Accounting!Distinct, Clash

(* The accounts of a starter are its own, and differ.                      *)
LEMMA SeedsDistinct ==
    ASSUME Seeding, NEW s \in Starters
    PROVE  /\ Accounting!Distinct(boot[s].accounts)
           /\ boot[s].accounts \subseteq {Demo, Admin, DemoSeed}
<1>1. \/ boot[s].accounts \subseteq {Demo, Admin}
      \/ boot[s].accounts \subseteq {DemoSeed}
  BY DEF Seeding
<1>2. Demo.name # Admin.name /\ Demo.email # Admin.email
  BY DEF Demo, Admin
<1> QED
  BY <1>1, <1>2 DEF Accounting!Distinct

(* Who adds accounts adds what a process held and the table accepts.       *)
LEMMA AccountsGrow ==
    ASSUME StartTypeOK, [StartNext]_startVars
    PROVE  \/ UNCHANGED accounts
           \/ \E r \in Requests :
                 ~Clash(reg[r]) /\ accounts' = accounts \cup reg[r]
           \/ \E s \in Starters :
                 /\ ~Clash(boot[s].accounts)
                 /\ accounts' = accounts \cup boot[s].accounts
<1>1. ASSUME NEW s \in Starters,
             \/ StartSchema(s) \/ StartDistros(s) \/ StartAccounts(s)
             \/ StartRefused(s) \/ StartFail(s)
      PROVE  UNCHANGED accounts
  BY <1>1 DEF StartSchema, StartDistros, StartAccounts, StartRefused, StartFail,
              accountVars
<1>2. ASSUME NEW s \in Starters, StartCommit(s)
      PROVE  /\ ~Clash(boot[s].accounts)
             /\ accounts' = accounts \cup boot[s].accounts
  BY <1>2 DEF StartCommit
<1>3. ASSUME NEW r \in Requests, Serve(r)
      PROVE  \/ UNCHANGED accounts
             \/ ~Clash(reg[r]) /\ accounts' = accounts \cup reg[r]
  BY <1>3 DEF Serve, Register, RegCheck, RegCommit, RegFail, accountVars
<1>4. CASE WebStops \/ UNCHANGED startVars
  BY <1>4 DEF WebStops, startVars, accountVars
<1> QED
  BY <1>1, <1>2, <1>3, <1>4 DEF StartNext

(* A visitor is only served when the reserved names are taken.             *)
LEMMA CandidatesStep ==
    ASSUME StartTypeOK, Seeding, ReadyWhenServing, Candidates,
           [StartNext]_startVars
    PROVE  Candidates'
<1>t. /\ reg \in [Requests -> SUBSET Account]
      /\ Accounting!Distinct({}) /\ \A a : Accounting!Distinct({a})
  BY DEF StartTypeOK, AccountsTypeOK, Accounting!Distinct
<1>1. Accounting!Distinct(accounts)'
  <2>1. CASE UNCHANGED accounts
    BY <2>1 DEF Candidates, Accounting!Distinct
  <2>2. ASSUME NEW new, Accounting!Distinct(new), ~Clash(new),
               accounts' = accounts \cup new
        PROVE  Accounting!Distinct(accounts)'
    <3>1. Accounting!Distinct(accounts \cup new)
      BY <2>2, DistinctUnion DEF Candidates
    <3> QED
      BY <2>2, <3>1 DEF Accounting!Distinct
  <2> QED
    BY <2>1, <2>2, AccountsGrow, SeedsDistinct DEF Candidates
<1>2. ASSUME NEW r \in Requests
      PROVE  /\ Accounting!Distinct(reg'[r])
             /\ \A a \in reg'[r] : a.name \notin {"demo", "admin"}
  <2>1. CASE reg'[r] = reg[r] \/ reg'[r] = {}
    BY <2>1, <1>t DEF Candidates
  <2>2. ASSUME NEW a \in Account, RegCheck(r, a), Serving
        PROVE  /\ Accounting!Distinct(reg'[r])
               /\ \A b \in reg'[r] : b.name \notin {"demo", "admin"}
    <3>1. reg'[r] = {a}
      BY <2>2, <1>t DEF RegCheck
    <3>2. \A n \in {"demo", "admin"} : \E b \in accounts : b.name = n
      BY <2>2 DEF ReadyWhenServing, Demo, Admin
    <3>3. a.name \notin {"demo", "admin"}
      BY <2>2, <3>2 DEF RegCheck
    <3> QED
      BY <3>1, <3>3, <1>t
  <2>3. \/ reg'[r] = reg[r] \/ reg'[r] = {}
        \/ Serving /\ \E a \in Account : RegCheck(r, a)
    <3>1. ASSUME NEW v \in Requests, Serve(v)
          PROVE  \/ reg'[r] = reg[r] \/ reg'[r] = {}
                 \/ Serving /\ \E a \in Account : RegCheck(r, a)
      <4>1. CASE v = r
        BY <3>1, <4>1, <1>t DEF Serve, Register, RegCommit, RegFail, accountVars
      <4>2. CASE v # r
        BY <3>1, <4>2, <1>t
           DEF Serve, Register, RegCheck, RegCommit, RegFail, accountVars
      <4> QED
        BY <4>1, <4>2
    <3>2. ASSUME NEW s \in Starters,
                 \/ StartSchema(s) \/ StartDistros(s) \/ StartAccounts(s)
                 \/ StartCommit(s) \/ StartRefused(s) \/ StartFail(s)
          PROVE  UNCHANGED reg
      BY <3>2 DEF StartSchema, StartDistros, StartAccounts, StartCommit,
                  StartRefused, StartFail, accountVars
    <3>3. CASE WebStops \/ UNCHANGED startVars
      BY <3>3 DEF WebStops, startVars, accountVars
    <3> QED
      BY <3>1, <3>2, <3>3 DEF StartNext
  <2> QED
    BY <2>1, <2>2, <2>3
<1> QED
  BY <1>1, <1>2 DEF Candidates, Accounting!Distinct

(* No visitor gets the name of a seeded account.                           *)
LEMMA ReservedStep ==
    ASSUME StartTypeOK, Seeding, Candidates, ReservedNames,
           [StartNext]_startVars
    PROVE  ReservedNames'
<1>1. ASSUME NEW new, accounts' = accounts \cup new,
             \A a \in new : a.name \in {"demo", "admin"}
                            => a \in {Demo, Admin, DemoSeed}
      PROVE  ReservedNames'
  BY <1>1 DEF ReservedNames
<1>2. CASE UNCHANGED accounts
  BY <1>2 DEF ReservedNames
<1> QED
  BY <1>1, <1>2, AccountsGrow, SeedsDistinct DEF Candidates

(* What the three theorems that follow share.                              *)
AccountsInv == /\ StartTypeOK /\ Seeding /\ ReadyWhenServing
               /\ Candidates /\ ReservedNames

LEMMA AccountsInvHolds == StartSafety => []AccountsInv
<1>1. StartInit => AccountsInv
  <2> SUFFICES ASSUME StartInit PROVE AccountsInv
    OBVIOUS
  <2>1. StartTypeOK
    BY StartInitTypes
  <2>2. Seeding /\ ReadyWhenServing
    BY StartersAssumption
       DEF StartInit, Seeding, ReadyWhenServing, Serving, Down
  <2>3. Candidates /\ ReservedNames
    BY DEF StartInit, AccountsInit, Candidates, ReservedNames,
           Accounting!Distinct
  <2> QED
    BY <2>1, <2>2, <2>3 DEF AccountsInv
<1>2. AccountsInv /\ [StartNext]_startVars => AccountsInv'
  BY StartStepTypes, SeedingStep, ReadyStep, CandidatesStep, ReservedStep
     DEF AccountsInv
<1> QED
  BY <1>1, <1>2, PTL DEF StartSafety

(* A visitor cannot take the name of a seeded account before the seed does *)
(* (auth.py:20-31 beside start.py:50-61), so that start.py never makes a   *)
(* visitor's account an administrator.                                     *)
THEOREM NamesReserved == StartSafety => []ReservedNames
<1>1. AccountsInv => ReservedNames
  BY DEF AccountsInv
<1> QED
  BY <1>1, AccountsInvHolds, PTL

(* The accounts implement the registry: whatever two registrations, or a   *)
(* registration and seed.py, have both found free, the constraints of      *)
(* the users table (models.py:155-157) make good, and the loser changes    *)
(* nothing.                                                                *)
THEOREM AccountsImplementRegistry == StartSafety => ImplementsRegistry
<1>1. StartInit => Accounting!Init
  BY DEF StartInit, AccountsInit, Accounting!Init
<1>2. AccountsInv /\ AccountsInv' /\ [StartNext]_startVars
        => [Accounting!Open]_accounts
  <2> SUFFICES ASSUME AccountsInv, AccountsInv', [StartNext]_startVars
               PROVE  Accounting!Open
    OBVIOUS
  <2>1. accounts' \in SUBSET Account /\ accounts \subseteq accounts'
    BY NothingLost DEF AccountsInv, StartTypeOK, AccountsTypeOK
  <2>2. Accounting!Distinct(accounts')
    BY DEF AccountsInv, Candidates, Accounting!Distinct
  <2> QED
    BY <2>1, <2>2 DEF Accounting!Open
<1> QED
  BY <1>1, <1>2, AccountsInvHolds, PTL
     DEF StartSafety, ImplementsRegistry, Accounting!Spec

-----------------------------------------------------------------------------
(* Who is about to insert a row of the name n: starters that have looked,  *)
(* and requests that have.                                                 *)
Seeders(n) == {s \in Starters : /\ boot[s].pc \in {"distros", "accounts"}
                                /\ n \in boot[s].distros}

Creators(n) == {r \in Requests : adm[r].pc = "creating" /\ adm[r].name = n}

(* The rows of a name and those that are about to be inserted; a default   *)
(* is never created by a request.                                          *)
NameClaims ==
    \A n \in Distros :
        IF n \in Defaults
        THEN /\ Creators(n) = {}
             /\ Cardinality(Rows(n)) + Cardinality(Seeders(n))
                  <= Cardinality(Starters)
        ELSE Cardinality(Rows(n)) + Cardinality(Creators(n))
               <= Cardinality(Requests)

(* A toggle is about a row that is there.                                  *)
TogglesGenuine ==
    \A r \in Requests : adm[r].pc = "toggling" => adm[r].copy \in Rows(adm[r].name)

(* What is counted is finite.                                              *)
LEMMA NameCounts ==
    ASSUME NEW n
    PROVE  /\ IsFiniteSet(Rows(n)) /\ Cardinality(Rows(n)) \in Nat
           /\ IsFiniteSet(Seeders(n)) /\ Cardinality(Seeders(n)) \in Nat
           /\ IsFiniteSet(Creators(n)) /\ Cardinality(Creators(n)) \in Nat
           /\ IsFiniteSet(Starters) /\ Cardinality(Starters) \in Nat
           /\ IsFiniteSet(Requests) /\ Cardinality(Requests) \in Nat
<1>1. IsFiniteSet(Copies) /\ Rows(n) \subseteq Copies
  BY FS_Interval, CopiesAssumption DEF Copies, Rows
<1>2. IsFiniteSet(Starters) /\ Seeders(n) \subseteq Starters
  <2>1. IsFiniteSet({"web"} \cup {"seed"})
    BY FS_Singleton, FS_Union
  <2>2. Starters \subseteq {"web"} \cup {"seed"}
    BY StartersAssumption
  <2> QED
    BY <2>1, <2>2, FS_Subset DEF Seeders
<1>3. IsFiniteSet(Requests) /\ Creators(n) \subseteq Requests
  BY RequestsAssumption DEF Creators
<1>4. IsFiniteSet(Rows(n)) /\ IsFiniteSet(Seeders(n)) /\ IsFiniteSet(Creators(n))
  BY <1>1, <1>2, <1>3, FS_Subset
<1> QED
  BY <1>2, <1>3, <1>4, FS_CardinalityType

(* The place of the next row of a name.                                    *)
NextRow(n) == Cardinality(Rows(n)) + 1

(* An insertion adds at most one row to a name.                            *)
LEMMA InsertedOne ==
    ASSUME CatalogTypeOK, NEW new, distro' = Inserted(new), NEW n \in Distros
    PROVE  /\ Rows(n)' \subseteq Rows(n) \cup {NextRow(n)}
           /\ n \notin new => Rows(n)' = Rows(n)
BY DEF Inserted, Rows, NextRow, CatalogTypeOK

(* What the administrators do to the rows and claims of a name.            *)
LEMMA AdministerSteps ==
    ASSUME CatalogTypeOK, TogglesGenuine, NEW n \in Distros,
           NEW r \in Requests, Administer(r)
    PROVE  \/ /\ Rows(n)' = Rows(n)
              /\ Creators(n)' \subseteq Creators(n) \/ Rows(n) = {}
           \/ /\ Rows(n)' \subseteq Rows(n) \cup {NextRow(n)}
              /\ r \in Creators(n) /\ Creators(n)' \subseteq Creators(n) \ {r}
<1>t. /\ adm \in [Requests -> Adm] /\ AdmIdle.pc = "idle"
      /\ distro \in [Distros -> [Copies -> DistroStatus \cup {"absent"}]]
  BY DEF CatalogTypeOK, AdmIdle
<1>k. (UNCHANGED distro) => Rows(n)' = Rows(n)
  BY DEF Rows
<1>i. adm' = [adm EXCEPT ![r] = AdmIdle] => Creators(n)' \subseteq Creators(n) \ {r}
  BY <1>t DEF Creators
<1>1. ASSUME NEW m \in Distros, CreateCheck(r, m)
      PROVE  /\ Rows(n)' = Rows(n)
             /\ Creators(n)' \subseteq Creators(n) \/ Rows(n) = {}
  <2>1. CASE m = n
    BY <1>1, <2>1, <1>k DEF CreateCheck
  <2>2. CASE m # n
    BY <1>1, <2>2, <1>k, <1>t DEF CreateCheck, Creators
  <2> QED
    BY <2>1, <2>2
<1>2. CASE CreateCommit(r)
  <2>1. CASE adm[r].name = n
    <3>1. r \in Creators(n)
      BY <1>2, <2>1 DEF CreateCommit, Creators
    <3> QED
      BY <1>2, <3>1, <1>i, InsertedOne DEF CreateCommit
  <2>2. CASE adm[r].name # n
    BY <1>2, <2>2, <1>i, InsertedOne DEF CreateCommit
  <2> QED
    BY <2>1, <2>2
<1>3. ASSUME NEW m \in Distros, NEW c \in Copies, ToggleLoad(r, m, c)
      PROVE  Rows(n)' = Rows(n) /\ Creators(n)' \subseteq Creators(n)
  BY <1>3, <1>k, <1>t DEF ToggleLoad, Creators
<1>4. CASE ToggleCommit(r)
  <2>1. /\ adm[r].status \in DistroStatus
        /\ adm[r].copy \in Rows(adm[r].name)
    BY <1>4, <1>t DEF ToggleCommit, TogglesGenuine, Adm
  <2>2. Rows(n)' = Rows(n)
    BY <1>4, <2>1, <1>t DEF ToggleCommit, Rows, DistroStatus
  <2> QED
    BY <1>4, <2>2, <1>i DEF ToggleCommit
<1>5. CASE AdminDies(r)
  BY <1>5, <1>k, <1>i DEF AdminDies
<1> QED
  BY <1>1, <1>2, <1>3, <1>4, <1>5 DEF Administer

(* What the starters do to them.                                           *)
LEMMA StarterSteps ==
    ASSUME StartTypeOK, NEW n \in Distros, NEW s \in Starters,
           \/ StartSchema(s) \/ StartDistros(s) \/ StartAccounts(s)
           \/ StartCommit(s) \/ StartRefused(s) \/ StartFail(s)
    PROVE  \/ /\ Rows(n)' = Rows(n)
              /\ Seeders(n)' \subseteq Seeders(n) \/ Rows(n) = {}
           \/ /\ Rows(n)' \subseteq Rows(n) \cup {NextRow(n)}
              /\ s \in Seeders(n) /\ Seeders(n)' \subseteq Seeders(n) \ {s}
<1>t. boot \in [Starters -> Boot]
  BY DEF StartTypeOK
<1>k. (UNCHANGED catalogVars) => Rows(n)' = Rows(n)
  BY DEF Rows, catalogVars
<1>d. ASSUME NEW new, boot' = [boot EXCEPT ![s] = new],
             new.pc \notin {"distros", "accounts"}
      PROVE  Seeders(n)' \subseteq Seeders(n) \ {s}
  BY <1>d, <1>t DEF Seeders
<1>1. CASE StartSchema(s)
  <2>1. Seeders(n)' \subseteq Seeders(n)
    BY <1>1, <1>t DEF StartSchema, Seeders, Boot
  <2> QED
    BY <1>1, <2>1, <1>k DEF StartSchema
<1>2. CASE StartDistros(s)
  <2>1. Seeders(n)' \subseteq Seeders(n) \/ Rows(n) = {}
    BY <1>2, <1>t DEF StartDistros, Seeders, Missing, Boot
  <2> QED
    BY <1>2, <2>1, <1>k DEF StartDistros
<1>3. CASE StartAccounts(s)
  <2>1. Seeders(n)' \subseteq Seeders(n)
    BY <1>3, <1>t DEF StartAccounts, Seeders, Boot
  <2> QED
    BY <1>3, <2>1, <1>k DEF StartAccounts
<1>4. CASE StartCommit(s)
  <2>1. Seeders(n)' \subseteq Seeders(n) \ {s}
    <3>1. After(s).pc \in {"up", "down"}
      BY DEF After, Down
    <3> QED
      BY <1>4, <3>1, <1>d DEF StartCommit
  <2>2. CASE n \in boot[s].distros
    <3>1. s \in Seeders(n)
      BY <1>4, <2>2 DEF StartCommit, Seeders
    <3> QED
      BY <1>4, <2>1, <3>1, InsertedOne DEF StartCommit, StartTypeOK
  <2>3. CASE n \notin boot[s].distros
    BY <1>4, <2>1, <2>3, InsertedOne DEF StartCommit, StartTypeOK
  <2> QED
    BY <2>2, <2>3
<1>5. CASE StartRefused(s) \/ StartFail(s)
  BY <1>5, <1>d, <1>k DEF StartRefused, StartFail, Down
<1> QED
  BY <1>1, <1>2, <1>3, <1>4, <1>5

(* A toggle stays about a row that is there.                               *)
LEMMA TogglesStep ==
    ASSUME StartTypeOK, TogglesGenuine, [StartNext]_startVars
    PROVE  TogglesGenuine'
<1> SUFFICES ASSUME NEW r \in Requests, adm'[r].pc = "toggling"
             PROVE  (adm[r].copy \in Rows(adm[r].name))'
  BY DEF TogglesGenuine
<1>t. adm \in [Requests -> Adm] /\ AdmIdle.pc = "idle"
  BY DEF StartTypeOK, CatalogTypeOK, AdmIdle
<1>m. \A n \in Distros : Rows(n) \subseteq Rows(n)'
  BY NothingLost
<1>1. CASE adm'[r] = adm[r]
  <2>1. adm[r].name \in Distros
    BY <1>1, <1>t DEF Adm
  <2> QED
    BY <1>1, <2>1, <1>m DEF TogglesGenuine
<1>2. ASSUME NEW n \in Distros, NEW c \in Copies, ToggleLoad(r, n, c)
      PROVE  (adm[r].copy \in Rows(adm[r].name))'
  BY <1>2, <1>m, <1>t DEF ToggleLoad
<1>3. \/ adm'[r] = adm[r]
      \/ \E n \in Distros, c \in Copies : ToggleLoad(r, n, c)
  <2>1. ASSUME NEW v \in Requests, Administer(v)
        PROVE  \/ adm'[r] = adm[r]
               \/ \E n \in Distros, c \in Copies : ToggleLoad(r, n, c)
    <3>1. CASE v = r
      BY <2>1, <3>1, <1>t
         DEF Administer, CreateCheck, CreateCommit, ToggleCommit, AdminDies
    <3>2. CASE v # r
      BY <2>1, <3>2, <1>t
         DEF Administer, CreateCheck, CreateCommit, ToggleLoad, ToggleCommit,
             AdminDies
    <3> QED
      BY <3>1, <3>2
  <2>2. ASSUME NEW v \in Requests, Serve(v)
        PROVE  UNCHANGED adm \/ Administer(v)
    BY <2>2 DEF Serve, catalogVars
  <2>3. ASSUME NEW s \in Starters,
               \/ StartSchema(s) \/ StartDistros(s) \/ StartAccounts(s)
               \/ StartCommit(s) \/ StartRefused(s) \/ StartFail(s)
        PROVE  UNCHANGED adm
    BY <2>3 DEF StartSchema, StartDistros, StartAccounts, StartCommit,
                StartRefused, StartFail, catalogVars
  <2>4. CASE WebStops
    BY <2>4, <1>t DEF WebStops
  <2>5. CASE UNCHANGED startVars
    BY <2>5 DEF startVars, catalogVars
  <2> QED
    BY <2>1, <2>2, <2>3, <2>4, <2>5 DEF StartNext
<1> QED
  BY <1>1, <1>2, <1>3

(* One step: a check, an insertion by a process that had checked, or       *)
(* nothing that counts.  Requests create only while gunicorn serves.       *)
LEMMA NameSteps ==
    ASSUME StartTypeOK, TogglesGenuine, [StartNext]_startVars, NEW n \in Distros
    PROVE  \/ /\ Rows(n)' = Rows(n)
              /\ Seeders(n)' \subseteq Seeders(n) \/ Rows(n) = {}
              /\ Creators(n)' \subseteq Creators(n)
           \/ /\ Rows(n) = {} /\ Rows(n)' = {} /\ Serving
              /\ Seeders(n)' = Seeders(n)
           \/ /\ Rows(n)' \subseteq Rows(n) \cup {NextRow(n)}
              /\ \E s \in Seeders(n) : Seeders(n)' \subseteq Seeders(n) \ {s}
              /\ Creators(n)' \subseteq Creators(n)
           \/ /\ Rows(n)' \subseteq Rows(n) \cup {NextRow(n)}
              /\ \E r \in Creators(n) : Creators(n)' \subseteq Creators(n) \ {r}
              /\ Seeders(n)' = Seeders(n)
<1>1. ASSUME NEW s \in Starters,
             \/ StartSchema(s) \/ StartDistros(s) \/ StartAccounts(s)
             \/ StartCommit(s) \/ StartRefused(s) \/ StartFail(s)
      PROVE  Creators(n)' = Creators(n)
  <2>1. UNCHANGED adm
    BY <1>1 DEF StartSchema, StartDistros, StartAccounts, StartCommit,
                StartRefused, StartFail, catalogVars
  <2> QED
    BY <2>1 DEF Creators
<1>2. ASSUME NEW r \in Requests, Serve(r)
      PROVE  /\ Serving /\ Seeders(n)' = Seeders(n)
             /\ \/ Administer(r)
                \/ Rows(n)' = Rows(n) /\ Creators(n)' = Creators(n)
  BY <1>2 DEF Serve, Seeders, Creators, Rows, catalogVars
<1>3. CASE WebStops
  <2>1. Seeders(n)' \subseteq Seeders(n)
    BY <1>3 DEF WebStops, Seeders, Down, StartTypeOK
  <2>2. Rows(n)' = Rows(n)
    BY <1>3 DEF WebStops, Rows
  <2>3. Creators(n)' = {}
    BY <1>3 DEF WebStops, Creators, AdmIdle
  <2> QED
    BY <2>1, <2>2, <2>3
<1>4. CASE UNCHANGED startVars
  BY <1>4 DEF startVars, catalogVars, Seeders, Creators, Rows
<1>5. CASE \E s \in Starters : \/ StartSchema(s) \/ StartDistros(s)
                               \/ StartAccounts(s) \/ StartCommit(s)
                               \/ StartRefused(s) \/ StartFail(s)
  BY <1>1, <1>5, StarterSteps
<1>6. CASE \E r \in Requests : Serve(r)
  BY <1>2, <1>6, AdministerSteps DEF StartTypeOK
<1> QED
  BY <1>3, <1>4, <1>5, <1>6 DEF StartNext

(* No step breaks the bound on rows and claims.                            *)
LEMMA NameClaimsStep ==
    ASSUME StartTypeOK, ReadyWhenServing, TogglesGenuine, NameClaims,
           [StartNext]_startVars
    PROVE  NameClaims'
<1> SUFFICES ASSUME NEW n \in Distros
             PROVE  (IF n \in Defaults
                     THEN /\ Creators(n) = {}
                          /\ Cardinality(Rows(n)) + Cardinality(Seeders(n))
                               <= Cardinality(Starters)
                     ELSE Cardinality(Rows(n)) + Cardinality(Creators(n))
                            <= Cardinality(Requests))'
  BY DEF NameClaims
<1>f. /\ IsFiniteSet(Rows(n)) /\ IsFiniteSet(Seeders(n)) /\ IsFiniteSet(Creators(n))
      /\ IsFiniteSet(Starters) /\ IsFiniteSet(Requests)
  BY NameCounts
<1>c. /\ Cardinality(Rows(n)) \in Nat /\ Cardinality(Seeders(n)) \in Nat
      /\ Cardinality(Creators(n)) \in Nat
      /\ Cardinality(Starters) \in Nat /\ Cardinality(Requests) \in Nat
  BY NameCounts
<1>p. /\ IsFiniteSet(Rows(n)') /\ IsFiniteSet(Seeders(n)')
      /\ IsFiniteSet(Creators(n)')
      /\ Seeders(n)' \subseteq Starters /\ Creators(n)' \subseteq Requests
  <2>1. IsFiniteSet(Copies)
    BY FS_Interval, CopiesAssumption DEF Copies
  <2>2. /\ Rows(n)' \subseteq Copies
        /\ Seeders(n)' \subseteq Starters /\ Creators(n)' \subseteq Requests
    BY DEF Rows, Seeders, Creators
  <2> QED
    BY <2>1, <2>2, <1>f, FS_Subset
<1>q. /\ Cardinality(Rows(n)') \in Nat /\ Cardinality(Seeders(n)') \in Nat
      /\ Cardinality(Creators(n)') \in Nat
      /\ Cardinality(Seeders(n)') <= Cardinality(Starters)
      /\ Cardinality(Creators(n)') <= Cardinality(Requests)
  BY <1>p, <1>f, FS_Subset, FS_CardinalityType
<1>e. Rows(n)' = {} => Cardinality(Rows(n)') = 0
  BY FS_EmptySet
<1>1. CASE n \in Defaults
  <2>h. /\ Creators(n) = {}
        /\ Cardinality(Rows(n)) + Cardinality(Seeders(n)) <= Cardinality(Starters)
    BY <1>1 DEF NameClaims
  <2>1. Creators(n)' = {}
    BY <2>h, <1>1, NameSteps DEF ReadyWhenServing
  <2>2. CASE Rows(n)' = {}
    BY <2>1, <2>2, <1>1, <1>e, <1>q
  <2>3. CASE Rows(n)' \subseteq Rows(n) /\ Seeders(n)' \subseteq Seeders(n)
    <3>1. Cardinality(Rows(n)') + Cardinality(Seeders(n)')
            <= Cardinality(Rows(n)) + Cardinality(Seeders(n))
      BY <2>3, <1>f, SumShrinks
    <3> QED
      BY <3>1, <2>h, <2>1, <1>1, <1>c, <1>q
  <2>4. ASSUME NEW s \in Seeders(n), Seeders(n)' \subseteq Seeders(n) \ {s},
               Rows(n)' \subseteq Rows(n) \cup {NextRow(n)}
        PROVE  Cardinality(Rows(n)') + Cardinality(Seeders(n)')
                 <= Cardinality(Starters)
    <3>1. Cardinality(Rows(n)') + Cardinality(Seeders(n)')
            <= Cardinality(Rows(n)) + Cardinality(Seeders(n))
      BY <2>4, <1>f, SumMoves
    <3> QED
      BY <3>1, <2>h, <1>c, <1>q
  <2>5. \/ Rows(n)' = {}
        \/ Rows(n)' \subseteq Rows(n) /\ Seeders(n)' \subseteq Seeders(n)
        \/ /\ Rows(n)' \subseteq Rows(n) \cup {NextRow(n)}
           /\ \E s \in Seeders(n) : Seeders(n)' \subseteq Seeders(n) \ {s}
    BY <2>h, NameSteps
  <2> QED
    BY <1>1, <2>1, <2>2, <2>3, <2>4, <2>5
<1>2. CASE n \notin Defaults
  <2>h. Cardinality(Rows(n)) + Cardinality(Creators(n)) <= Cardinality(Requests)
    BY <1>2 DEF NameClaims
  <2>2. CASE Rows(n)' = {}
    BY <2>2, <1>2, <1>e, <1>q
  <2>3. CASE Rows(n)' \subseteq Rows(n) /\ Creators(n)' \subseteq Creators(n)
    <3>1. Cardinality(Rows(n)') + Cardinality(Creators(n)')
            <= Cardinality(Rows(n)) + Cardinality(Creators(n))
      BY <2>3, <1>f, SumShrinks
    <3> QED
      BY <3>1, <2>h, <1>2, <1>c, <1>q
  <2>4. ASSUME NEW r \in Creators(n), Creators(n)' \subseteq Creators(n) \ {r},
               Rows(n)' \subseteq Rows(n) \cup {NextRow(n)}
        PROVE  Cardinality(Rows(n)') + Cardinality(Creators(n)')
                 <= Cardinality(Requests)
    <3>1. Cardinality(Rows(n)') + Cardinality(Creators(n)')
            <= Cardinality(Rows(n)) + Cardinality(Creators(n))
      BY <2>4, <1>f, SumMoves
    <3> QED
      BY <3>1, <2>h, <1>c, <1>q
  <2>5. Seeders(n) = {}
    BY <1>2 DEF Seeders, StartTypeOK, Boot
  <2>6. \/ Rows(n)' = {}
        \/ Rows(n)' \subseteq Rows(n) /\ Creators(n)' \subseteq Creators(n)
        \/ /\ Rows(n)' \subseteq Rows(n) \cup {NextRow(n)}
           /\ \E r \in Creators(n) : Creators(n)' \subseteq Creators(n) \ {r}
    BY <2>5, NameSteps
  <2> QED
    BY <1>2, <2>2, <2>3, <2>4, <2>6
<1> QED
  BY <1>1, <1>2

(* Nothing is in the catalogue, or about to be, at the start.              *)
LEMMA NameClaimsInit == StartInit => TogglesGenuine /\ NameClaims
<1> SUFFICES ASSUME StartInit
             PROVE  TogglesGenuine /\ NameClaims
  OBVIOUS
<1>1. TogglesGenuine
  BY DEF StartInit, CatalogInit, AdmIdle, TogglesGenuine
<1>2. ASSUME NEW n \in Distros
      PROVE  Rows(n) = {} /\ Seeders(n) = {} /\ Creators(n) = {}
  BY DEF StartInit, CatalogInit, AdmIdle, Down, Rows, Seeders, Creators
<1>3. /\ Cardinality({}) = 0
      /\ Cardinality(Starters) \in Nat /\ Cardinality(Requests) \in Nat
  BY FS_EmptySet, NameCounts
<1>4. NameClaims
  BY <1>2, <1>3 DEF NameClaims
<1> QED
  BY <1>1, <1>4

(* The catalogue does not grow with restarts, races and toggles: a default *)
(* distribution has at most one row per starter that had looked before     *)
(* another committed (start.py:45-52, seed.py:30-34), any other name one   *)
(* per process that had (admin.py:34-40).                                  *)
THEOREM CatalogBounded == StartSafety => []NamesBounded
<1>1. StartInit => TogglesGenuine /\ NameClaims
  BY NameClaimsInit
<1>2. /\ StartTypeOK /\ ReadyWhenServing
      /\ TogglesGenuine /\ NameClaims /\ [StartNext]_startVars
      => (TogglesGenuine /\ NameClaims)'
  BY TogglesStep, NameClaimsStep
<1>3. NameClaims => NamesBounded
  <2> SUFFICES ASSUME NameClaims, NEW n \in Distros
               PROVE  Cardinality(Rows(n))
                        <= IF n \in Defaults THEN Cardinality(Starters)
                           ELSE Cardinality(Requests)
    BY DEF NamesBounded
  <2>1. /\ Cardinality(Rows(n)) \in Nat /\ Cardinality(Seeders(n)) \in Nat
        /\ Cardinality(Creators(n)) \in Nat
        /\ Cardinality(Starters) \in Nat /\ Cardinality(Requests) \in Nat
    BY NameCounts
  <2> QED
    BY <2>1 DEF NameClaims
<1> QED
  BY <1>1, <1>2, <1>3, StartTypes, SeededBeforeServing, PTL DEF StartSafety
=============================================================================
