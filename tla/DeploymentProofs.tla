-------------------------- MODULE DeploymentProofs --------------------------
(***************************************************************************)
(* Theorems about Deployment: for any number of contracts, pending         *)
(* transactions and failures, on both networks, the guardian administers   *)
(* every token, tokens ask real lists, and managers hold real tokens; and  *)
(* a production deployment that was made carefully is what config.ts says. *)
(*                                                                         *)
(* The argument goes through what names stand for.  A script knows a       *)
(* contract only by a name - of a variable, of a deployment in the store,  *)
(* of a getter - and the invariant says of each name the argument needs    *)
(* that it stands for a contract of one kind, for nothing yet (Absent) or, *)
(* if it comes from a factory, for address(0).  Every transaction proposed *)
(* or sent then names contracts of the right kinds, whenever it is         *)
(* executed, because contracts only ever get more.  That no script gives   *)
(* away a token is checked step by step (GoodStep).                        *)
(*                                                                         *)
(* The types (TypedInv) need more: that no step reads a variable before    *)
(* the step that assigns it.  The last part is about CarefulDeployment:    *)
(* each step of the production scripts, and each execution of the Safe,    *)
(* keeps CarefulInv, in one lemma per kind of step, and CarefulInv at the  *)
(* end is WiredWhenDone.                                                   *)
(***************************************************************************)
EXTENDS CarefulDeployment, TLAPS

-----------------------------------------------------------------------------
(* Names, and what the steps of the scripts do with them.                  *)

\* The kind of contract that a name stands for, for the names the invariant is about.
KindOf == [AllowlistFactory |-> "AllowlistFactory", USDYFactory |-> "USDYFactory",
           Blocklist |-> "Blocklist", Allowlist |-> "Allowlist", USDY |-> "USDY",
           USDYManager |-> "USDYManager",
           usdyProxy |-> "USDY", allowlistProxy |-> "Allowlist"]
Known == DOMAIN KindOf

\* The names that may stand for address(0): what a factory answers before the Safe has
\* had it deploy something, and what a script saves then.
MayBeZero == {"Allowlist", "USDY", "usdyProxy", "allowlistProxy"}

IsA(name, address) == \/ address = Absent
                      \/ address \in Deployed(KindOf[name])
                      \/ address = Zero /\ name \in MayBeZero

\* What the scripts deploy themselves; the factories deploy the rest.
Constructed == {"AllowlistFactory", "USDYFactory", "Blocklist", "USDYManager", "Pricer"}

\* What the invariant needs of each step of a script: a contract is stored and read
\* under a name of its kind, the tokens and allowlists come from the factories, and
\* nobody but the guardian is given a token.
GuardianOf(n) == IF n = "production" THEN PROD_GUARDIAN_USDY ELSE "guardian"

GoodDeploy(s) ==
  /\ s.kind \in Constructed \/ s.kind \notin Kinds
  /\ s.name \in DeploymentNames
  /\ s.name \in Known => s.kind = KindOf[s.name]
  /\ s.kind = "USDYManager" =>
       /\ DOMAIN s.args = 1..10
       /\ s.args[2] \in {"usdyProxy", "USDY"} /\ s.args[9] = "Blocklist"
       /\ s.args[2] \in s.uses /\ s.args[9] \in s.uses

GoodRead(s) ==
  /\ s.name = "usdyProxy" => s.of = "USDYFactory"
  /\ s.name = "allowlistProxy" => s.of = "AllowlistFactory"
  /\ s.name \in Known => s.name \in {"usdyProxy", "allowlistProxy"}

GoodSave(s) ==
  s.name \in Known => /\ s.name \in MayBeZero
                      /\ s.of \in Known /\ KindOf[s.of] = KindOf[s.name]

GoodSend(s, n) ==
  /\ s.fn = "deployUSDY" => /\ s.from = GuardianOf(n)
                            /\ DOMAIN s.args = 1..3
                            /\ s.args[1] = "Blocklist" /\ s.args[2] = "Allowlist"
                            /\ "Blocklist" \in s.uses /\ "Allowlist" \in s.uses
  /\ s.fn = "grantRole" =>
       /\ DOMAIN s.args = 1..1
       /\ \/ s.to = "USDYManager" /\ s.to \in s.uses
          \/ s.role = "MINTER_ROLE" /\ s.args[1] = "USDYManager" /\ s.args[1] \in s.uses
          \/ s.role = "PAUSER_ROLE" /\ s.args[1] = PROD_PAUSER_USDY
  /\ s.fn = "acceptOwnership" => s.to = "Blocklist" /\ s.to \in s.uses

GoodStep(s, n) ==
  /\ s.op = "deploy" => GoodDeploy(s)
  /\ s.op = "get"  => s.name \in DeploymentNames
  /\ s.op = "read" => GoodRead(s)
  /\ s.op = "save" => GoodSave(s)
  /\ s.op \in {"propose", "transact"} => GoodSend(s, n)

GoodScript(script, n) == \A i \in DOMAIN script : GoodStep(script[i], n)

LEMMA GetIsGood == ASSUME NEW name \in DeploymentNames, NEW n PROVE GoodStep(Get(name), n)
  BY DEF GoodStep, Get

LEMMA ReadIsGood ==
  ASSUME NEW of, NEW name, NEW n, name \notin Known \/ <<of, name>> \in
         {<<"USDYFactory", "usdyProxy">>, <<"AllowlistFactory", "allowlistProxy">>}
  PROVE  GoodStep(Read(of, name), n)
  BY DEF GoodStep, GoodRead, Read, Known, KindOf

LEMMA RequireIsGood == ASSUME NEW name, NEW n PROVE GoodStep(Require(name), n)
  BY DEF GoodStep, Require

LEMMA SaveIsGood ==
  ASSUME NEW name, NEW variable, NEW n,
         name \notin Known \/ <<name, variable>> \in
           {<<"USDY", "usdyProxy">>, <<"Allowlist", "allowlistProxy">>}
  PROVE  GoodStep(Save(name, variable), n)
  BY DEF GoodStep, GoodSave, Save, Known, KindOf, MayBeZero

LEMMA AddContractIsGood == ASSUME NEW variable, NEW n PROVE GoodStep(AddContract(variable), n)
  BY DEF GoodStep, AddContract

LEMMA SendFields ==
  ASSUME NEW op, NEW from, NEW contract, NEW fn, NEW role, NEW args
  PROVE  LET s == Send(op, from, contract, fn, role, args) IN
         /\ s.op = op /\ s.from = from /\ s.to = contract /\ s.fn = fn
         /\ s.role = role /\ s.args = args
         /\ contract \in s.uses
         /\ \A i \in DOMAIN args : args[i] \in s.uses
  <1>. DEFINE s == Send(op, from, contract, fn, role, args)
  <1>1. /\ s.op = op /\ s.from = from /\ s.to = contract /\ s.fn = fn
        /\ s.role = role /\ s.args = args
    BY DEF Send
  <1>2. s.uses = {args[i] : i \in DOMAIN args} \cup {contract}
    BY DEF Send
  <1>. QED BY <1>1, <1>2

LEMMA SendIsGood ==
  ASSUME NEW op \in {"propose", "transact"}, NEW from, NEW contract, NEW fn, NEW role, NEW args,
         NEW n, fn \notin {"deployUSDY", "grantRole", "acceptOwnership"}
  PROVE  GoodStep(Send(op, from, contract, fn, role, args), n)
  BY DEF GoodStep, GoodSend, Send

LEMMA SendDeployUSDYIsGood ==
  ASSUME NEW op \in {"propose", "transact"}, NEW from, NEW contract, NEW role, NEW sanctions,
         NEW n, from = GuardianOf(n)
  PROVE  GoodStep(Send(op, from, contract, "deployUSDY", role,
                       <<"Blocklist", "Allowlist", sanctions>>), n)
  <1>. DEFINE args == <<"Blocklist", "Allowlist", sanctions>>
  <1>1. DOMAIN args = 1..3 /\ args[1] = "Blocklist" /\ args[2] = "Allowlist"
    OBVIOUS
  <1>. DEFINE s == Send(op, from, contract, "deployUSDY", role, args)
  <1>2. /\ s.op = op /\ s.from = GuardianOf(n) /\ s.fn = "deployUSDY" /\ s.args = args
        /\ \A i \in DOMAIN args : args[i] \in s.uses
    BY SendFields
  <1>. SUFFICES GoodStep(s, n)
    OBVIOUS
  <1>. HIDE DEF args, s
  <1>. QED BY <1>1, <1>2 DEF GoodStep, GoodSend

LEMMA SendGrantRoleIsGood ==
  ASSUME NEW op \in {"propose", "transact"}, NEW from, NEW contract, NEW role, NEW account, NEW n,
         \/ contract = "USDYManager"
         \/ role = "MINTER_ROLE" /\ account = "USDYManager"
         \/ role = "PAUSER_ROLE" /\ account = PROD_PAUSER_USDY
  PROVE  GoodStep(Send(op, from, contract, "grantRole", role, <<account>>), n)
  <1>. DEFINE args == <<account>>
  <1>1. DOMAIN args = 1..1 /\ args[1] = account
    OBVIOUS
  <1>. DEFINE s == Send(op, from, contract, "grantRole", role, args)
  <1>2. /\ s.op = op /\ s.fn = "grantRole" /\ s.to = contract /\ s.role = role /\ s.args = args
        /\ contract \in s.uses /\ \A i \in DOMAIN args : args[i] \in s.uses
    BY SendFields
  <1>. SUFFICES GoodStep(s, n)
    OBVIOUS
  <1>. HIDE DEF args, s
  <1>. QED BY <1>1, <1>2 DEF GoodStep, GoodSend

LEMMA SendAcceptIsGood ==
  ASSUME NEW op \in {"propose", "transact"}, NEW from, NEW role, NEW args, NEW n
  PROVE  GoodStep(Send(op, from, "Blocklist", "acceptOwnership", role, args), n)
  BY DEF GoodStep, GoodSend, Send

LEMMA DeployIsGood ==
  ASSUME NEW name \in DeploymentNames, NEW kind, NEW args, NEW n,
         \/ name \notin Known /\ kind \in {"Pricer", USDYPricer}
         \/ name = kind /\ kind \in {"AllowlistFactory", "USDYFactory", "Blocklist"}
  PROVE  GoodStep(Deploy(name, kind, args), n)
  BY PricerAssumption DEF GoodStep, GoodDeploy, Deploy, Constructed, Known, KindOf, Kinds, RolesOf,
       FieldsOf

LEMMA DeployManagerIsGood ==
  ASSUME NEW token \in {"usdyProxy", "USDY"}, NEW n,
         NEW a1, NEW a3, NEW a4, NEW a5, NEW a6, NEW a7, NEW a8, NEW a10
  PROVE  GoodStep(Deploy("USDYManager", "USDYManager",
                         <<a1, token, a3, a4, a5, a6, a7, a8, "Blocklist", a10>>), n)
  <1>. DEFINE args == <<a1, token, a3, a4, a5, a6, a7, a8, "Blocklist", a10>>
  <1>1. DOMAIN args = 1..10 /\ args[2] = token /\ args[9] = "Blocklist"
    OBVIOUS
  <1>. SUFFICES GoodStep(Deploy("USDYManager", "USDYManager", args), n)
    OBVIOUS
  <1>. HIDE DEF args
  <1>. QED BY <1>1 DEF GoodStep, GoodDeploy, Deploy, Constructed, Known, KindOf, DeploymentNames

LEMMA ProductionDeploysAreGood ==
  /\ GoodScript(deployAllowlist_Factory, "production")
  /\ GoodScript(deployBlocklist, "production")
  /\ GoodScript(deployUSDY_Factory, "production")
  /\ GoodScript(deploy_usdyManager, "production")
  /\ GoodScript(deploy_usdyPricer, "production")
  <1>1. /\ GoodScript(deployAllowlist_Factory, "production")
        /\ GoodScript(deployBlocklist, "production")
        /\ GoodScript(deployUSDY_Factory, "production")
        /\ GoodScript(deploy_usdyPricer, "production")
    BY DeployIsGood DEF GoodScript, deployAllowlist_Factory, deployBlocklist, deployUSDY_Factory,
       deploy_usdyPricer, DeploymentNames, Known, KindOf
  <1>2. GoodScript(deploy_usdyManager, "production")
    BY GetIsGood, ReadIsGood, RequireIsGood, DeployManagerIsGood
       DEF GoodScript, deploy_usdyManager, DeploymentNames
  <1>. QED BY <1>1, <1>2

LEMMA ProductionTasksAreGood ==
  /\ GoodScript(task1_usdy_prod, "production")
  /\ GoodScript(task2_save_usdy_prod, "production")
  /\ GoodScript(task3_usdy_prod, "production")
  /\ GoodScript(task4_save_usdy_prod, "production")
  /\ GoodScript(task5_usdyManager_prod, "production")
  <1>1. GoodScript(task1_usdy_prod, "production")
    BY GetIsGood, AddContractIsGood, SendIsGood
       DEF GoodScript, task1_usdy_prod, ProposeFunctionCall, DeploymentNames
  <1>2. GoodScript(task2_save_usdy_prod, "production")
    BY GetIsGood, ReadIsGood, SaveIsGood, AddContractIsGood
       DEF GoodScript, task2_save_usdy_prod, DeploymentNames, Known, KindOf
  <1>3. GoodScript(task3_usdy_prod, "production")
    BY GetIsGood, AddContractIsGood, SendDeployUSDYIsGood
       DEF GoodScript, task3_usdy_prod, ProposeFunctionCall, GuardianOf, DeploymentNames
  <1>4. GoodScript(task4_save_usdy_prod, "production")
    BY GetIsGood, ReadIsGood, SaveIsGood, AddContractIsGood
       DEF GoodScript, task4_save_usdy_prod, DeploymentNames, Known, KindOf
  <1>5. GoodScript(task5_usdyManager_prod, "production")
    <2>. DEFINE s == task5_usdyManager_prod
    <2>. SUFFICES ASSUME NEW i \in 1..13 PROVE GoodStep(s[i], "production")
      BY DEF GoodScript, task5_usdyManager_prod
    <2>1. CASE i \in 1..5
      BY <2>1, GetIsGood, AddContractIsGood DEF task5_usdyManager_prod, DeploymentNames
    <2>2. CASE i = 8
      BY <2>2, SendIsGood DEF task5_usdyManager_prod, ProposeFunctionCall
    <2>3. CASE i \in {6, 7} \cup 9..13
      BY <2>3, SendGrantRoleIsGood DEF task5_usdyManager_prod, ProposeGrantRole
    <2>. QED BY <2>1, <2>2, <2>3
  <1>. QED BY <1>1, <1>2, <1>3, <1>4, <1>5

LEMMA LocalDeploysAreGood ==
  /\ GoodScript(local_deploy_allowlist, "local")
  /\ GoodScript(local_deploy_blocklist, "local")
  /\ GoodScript(local_deploy_pricer, "local")
  /\ GoodScript(local_deploy_usdy_factory, "local")
  /\ GoodScript(local_deploy_usdyManager, "local")
  <1>1. GoodScript(local_deploy_allowlist, "local")
    BY DeployIsGood, GetIsGood, SendIsGood, ReadIsGood, SaveIsGood
       DEF GoodScript, local_deploy_allowlist, Transact, DeploymentNames, Known, KindOf
  <1>2. GoodScript(local_deploy_blocklist, "local")
    BY DeployIsGood, GetIsGood, SendIsGood, SendAcceptIsGood
       DEF GoodScript, local_deploy_blocklist, Transact, DeploymentNames, Known, KindOf
  <1>3. GoodScript(local_deploy_pricer, "local")
    BY DeployIsGood, GetIsGood, SendIsGood
       DEF GoodScript, local_deploy_pricer, Transact, DeploymentNames, Known, KindOf
  <1>4. GoodScript(local_deploy_usdy_factory, "local")
    BY DeployIsGood, GetIsGood, SendDeployUSDYIsGood, ReadIsGood, SaveIsGood
       DEF GoodScript, local_deploy_usdy_factory, Transact, GuardianOf, DeploymentNames, Known, KindOf
  <1>5. GoodScript(local_deploy_usdyManager, "local")
    <2>. DEFINE s == local_deploy_usdyManager
    <2>. SUFFICES ASSUME NEW i \in 1..11 PROVE GoodStep(s[i], "local")
      BY DEF GoodScript, local_deploy_usdyManager
    <2>1. CASE i \in {1, 2, 4, 5}
      BY <2>1, GetIsGood DEF local_deploy_usdyManager, DeploymentNames
    <2>2. CASE i = 3
      BY <2>2, DeployManagerIsGood DEF local_deploy_usdyManager
    <2>3. CASE i \in 6..10
      BY <2>3, SendGrantRoleIsGood DEF local_deploy_usdyManager, TransactGrantRole
    <2>4. CASE i = 11
      BY <2>4, SendIsGood DEF local_deploy_usdyManager, Transact
    <2>. QED BY <2>1, <2>2, <2>3, <2>4
  <1>. QED BY <1>1, <1>2, <1>3, <1>4, <1>5

LEMMA ScriptsAreGood ==
  ASSUME NEW n \in Networks, NEW t \in Tracks, NEW i \in DOMAIN Scripts[n][t]
  PROVE  GoodScript(Scripts[n][t][i], n)
  BY ProductionDeploysAreGood, ProductionTasksAreGood, LocalDeploysAreGood
     DEF Scripts, Networks, Tracks

-----------------------------------------------------------------------------
(* The chain.                                                              *)

LEMMA Slots ==
  /\ \A kind \in DOMAIN FieldsOf : \A n \in 1..MaxInstances : \A field \in FieldsOf[kind] :
       <<<<kind, n>>, field>> \in FieldSlots
  /\ \A kind \in DOMAIN RolesOf : \A n \in 1..MaxInstances : \A role \in RolesOf[kind] :
       <<<<kind, n>>, role>> \in RoleSlots
  <1>1. ASSUME NEW kind \in DOMAIN FieldsOf, NEW n \in 1..MaxInstances, NEW field \in FieldsOf[kind]
        PROVE  <<<<kind, n>>, field>> \in FieldSlots
    <2>. DEFINE c == <<kind, n>>
    <2>1. c \in (DOMAIN FieldsOf) \X (1..MaxInstances) /\ c[1] = kind
      OBVIOUS
    <2>2. <<c, field>> \in {<<c, f>> : f \in FieldsOf[c[1]]}
      BY <2>1
    <2>. QED BY <2>1, <2>2 DEF FieldSlots
  <1>2. ASSUME NEW kind \in DOMAIN RolesOf, NEW n \in 1..MaxInstances, NEW role \in RolesOf[kind]
        PROVE  <<<<kind, n>>, role>> \in RoleSlots
    <2>. DEFINE c == <<kind, n>>
    <2>1. c \in (DOMAIN RolesOf) \X (1..MaxInstances) /\ c[1] = kind
      OBVIOUS
    <2>2. <<c, role>> \in {<<c, r>> : r \in RolesOf[c[1]]}
      BY <2>1
    <2>. QED BY <2>1, <2>2 DEF RoleSlots
  <1>. QED BY <1>1, <1>2

LEMMA TokenSlots ==
  ASSUME NEW n \in 1..MaxInstances
  PROVE  /\ \A field \in {"blocklist", "allowlist", "sanctionsList", "proxyAdmin", "implementation"} :
              <<<<"USDY", n>>, field>> \in FieldSlots
         /\ \A field \in {"rwa", "blocklist"} : <<<<"USDYManager", n>>, field>> \in FieldSlots
         /\ <<<<"USDYProxyAdmin", n>>, "owner">> \in FieldSlots
         /\ <<<<"USDYFactory", n>>, "usdyProxy">> \in FieldSlots
         /\ <<<<"AllowlistFactory", n>>, "allowlistProxy">> \in FieldSlots
         /\ \A role \in RolesOf["USDY"] : <<<<"USDY", n>>, role>> \in RoleSlots
  <1>1. /\ {"USDY", "USDYManager", "USDYProxyAdmin", "USDYFactory", "AllowlistFactory"}
               \subseteq DOMAIN FieldsOf
        /\ "USDY" \in DOMAIN RolesOf
    BY DEF FieldsOf, RolesOf
  <1>2. /\ {"blocklist", "allowlist", "sanctionsList", "proxyAdmin", "implementation"}
               \subseteq FieldsOf["USDY"]
        /\ {"rwa", "blocklist"} \subseteq FieldsOf["USDYManager"]
        /\ "owner" \in FieldsOf["USDYProxyAdmin"]
        /\ "usdyProxy" \in FieldsOf["USDYFactory"]
        /\ "allowlistProxy" \in FieldsOf["AllowlistFactory"]
    BY DEF FieldsOf, ProxyParts
  <1>. QED BY <1>1, <1>2, Slots

CreatedOK ==
  /\ created \in [Kinds -> 0..MaxInstances]
  /\ created["USDYProxyAdmin"] = created["USDY"]
  /\ created["USDYImplementation"] = created["USDY"]
  /\ created["AllowlistProxyAdmin"] = created["Allowlist"]
  /\ created["AllowlistImplementation"] = created["Allowlist"]

\* A factory answers with its last contract, or with address(0) before the first.
FactoriesAnswer ==
  \A slot \in FieldSlots :
    /\ slot[2] = "usdyProxy" => ref[slot] \in {Zero} \cup Deployed("USDY")
    /\ slot[2] = "allowlistProxy" => ref[slot] \in {Zero} \cup Deployed("Allowlist")

ProxyAdminsHeld ==
  /\ \A token \in Deployed("USDY") : ref[<<token, "proxyAdmin">>] \in Deployed("USDYProxyAdmin")
  /\ \A admin \in Deployed("USDYProxyAdmin") : ref[<<admin, "owner">>] = Guardian

RefsOK == /\ DOMAIN ref = FieldSlots
          /\ FactoriesAnswer
          /\ TokensHaveRealLists
          /\ ManagersHoldRealTokens
          /\ ProxyAdminsHeld

TokenRoles(token) ==
  /\ members[<<token, "DEFAULT_ADMIN_ROLE">>] = <<Guardian>>
  /\ members[<<token, "MINTER_ROLE">>] \in Seq(Deployed("USDYManager"))
  /\ members[<<token, "PAUSER_ROLE">>] \in Seq({Guardian, PAUSER})
  /\ \A role \in {"BURNER_ROLE", "LIST_CONFIGURER_ROLE"} : members[<<token, role>>] = <<>>

\* Nobody has a role of a token before it is there.
RolesOK ==
  /\ DOMAIN members = RoleSlots
  /\ \A token \in Deployed("USDY") : TokenRoles(token)
  /\ \A n \in 1..MaxInstances : n > created["USDY"] =>
       \A role \in RolesOf["USDY"] : members[<<<<"USDY", n>>, role>>] = <<>>

ChainInv == CreatedOK /\ RefsOK /\ RolesOK

LEMMA SeqRange == ASSUME NEW S, NEW s \in Seq(S) PROVE Range(s) \subseteq S
  BY DEF Range

LEMMA ChainInvImplies ==
  ASSUME ChainInv
  PROVE  TokensAnswerToGuardian /\ TokensHaveRealLists /\ ManagersHoldRealTokens
  <1>1. \A token \in Deployed("USDY") :
          /\ Range(members[<<token, "MINTER_ROLE">>]) \subseteq Deployed("USDYManager")
          /\ Range(members[<<token, "PAUSER_ROLE">>]) \subseteq {Guardian, PAUSER}
    BY SeqRange DEF ChainInv, RolesOK, TokenRoles
  <1>. QED BY <1>1 DEF ChainInv, RolesOK, TokenRoles, RefsOK, ProxyAdminsHeld, TokensAnswerToGuardian

-----------------------------------------------------------------------------
(* What a step of the chain leaves alone.                                  *)
Grows == \A kind \in Kinds : created'[kind] >= created[kind]

TokenRefsKept ==
  \A n \in 1..MaxInstances :
    /\ \A field \in {"blocklist", "allowlist", "proxyAdmin"} :
         ref'[<<<<"USDY", n>>, field>>] = ref[<<<<"USDY", n>>, field>>]
    /\ ref'[<<<<"USDYProxyAdmin", n>>, "owner">>] = ref[<<<<"USDYProxyAdmin", n>>, "owner">>]

ManagerRefsKept ==
  \A n \in 1..MaxInstances : \A field \in {"rwa", "blocklist"} :
    ref'[<<<<"USDYManager", n>>, field>>] = ref[<<<<"USDYManager", n>>, field>>]

RefsKept == TokenRefsKept /\ ManagerRefsKept

RolesKept ==
  \A n \in 1..MaxInstances : \A role \in RolesOf["USDY"] :
    members'[<<<<"USDY", n>>, role>>] = members[<<<<"USDY", n>>, role>>]

LEMMA KindsAre ==
  /\ {"AllowlistFactory", "USDYFactory", "Allowlist", "USDY", "AllowlistProxyAdmin", "USDYProxyAdmin",
      "Blocklist", "Pricer", "USDYManager", "AllowlistImplementation", "USDYImplementation"} = Kinds
  /\ RolesOf["USDY"] = {"DEFAULT_ADMIN_ROLE", "MINTER_ROLE", "PAUSER_ROLE", "BURNER_ROLE",
                        "LIST_CONFIGURER_ROLE"}
  BY DEF Kinds, RolesOf, FieldsOf

LEMMA DeployedGrows ==
  ASSUME CreatedOK, CreatedOK', Grows, NEW kind \in Kinds
  PROVE  Deployed(kind) \subseteq Deployed(kind)'
  BY DEF CreatedOK, Grows, Deployed

LEMMA DeployedSame ==
  ASSUME NEW kind \in Kinds, created'[kind] = created[kind]
  PROVE  Deployed(kind)' = Deployed(kind)
  BY DEF Deployed

LEMMA DeployedIs ==
  ASSUME CreatedOK, NEW kind \in Kinds, NEW c \in Deployed(kind)
  PROVE  \E n \in 1..MaxInstances : n <= created[kind] /\ c = <<kind, n>>
  BY InstancesAssumption DEF CreatedOK, Deployed

LEMMA DeployedSlots ==
  ASSUME CreatedOK
  PROVE  /\ \A token \in Deployed("USDY"), field \in {"blocklist", "allowlist", "proxyAdmin"} :
              <<token, field>> \in FieldSlots
         /\ \A manager \in Deployed("USDYManager"), field \in {"rwa", "blocklist"} :
              <<manager, field>> \in FieldSlots
         /\ \A admin \in Deployed("USDYProxyAdmin") : <<admin, "owner">> \in FieldSlots
         /\ \A token \in Deployed("USDY"), role \in RolesOf["USDY"] : <<token, role>> \in RoleSlots
  <1>1. ASSUME NEW token \in Deployed("USDY")
        PROVE  /\ \A field \in {"blocklist", "allowlist", "proxyAdmin"} : <<token, field>> \in FieldSlots
               /\ \A role \in RolesOf["USDY"] : <<token, role>> \in RoleSlots
    <2>1. PICK n \in 1..MaxInstances : token = <<"USDY", n>>
      BY DeployedIs, KindsAre
    <2>. QED BY <2>1, TokenSlots
  <1>2. ASSUME NEW manager \in Deployed("USDYManager")
        PROVE  \A field \in {"rwa", "blocklist"} : <<manager, field>> \in FieldSlots
    <2>1. PICK n \in 1..MaxInstances : manager = <<"USDYManager", n>>
      BY DeployedIs, KindsAre
    <2>. QED BY <2>1, TokenSlots
  <1>3. ASSUME NEW admin \in Deployed("USDYProxyAdmin")
        PROVE  <<admin, "owner">> \in FieldSlots
    <2>1. PICK n \in 1..MaxInstances : admin = <<"USDYProxyAdmin", n>>
      BY DeployedIs, KindsAre
    <2>. QED BY <2>1, TokenSlots
  <1>. QED BY <1>1, <1>2, <1>3

LEMMA TokensFrame ==
  ASSUME ChainInv, CreatedOK', Grows, TokenRefsKept, UNCHANGED network,
         created'["USDY"] = created["USDY"]
  PROVE  TokensHaveRealLists' /\ ProxyAdminsHeld'
  <1>1. /\ Deployed("USDY")' = Deployed("USDY")
        /\ Deployed("USDYProxyAdmin")' = Deployed("USDYProxyAdmin")
    BY DeployedSame, KindsAre DEF ChainInv, CreatedOK
  <1>2. /\ Deployed("Allowlist") \subseteq Deployed("Allowlist")'
        /\ Deployed("Blocklist") \subseteq Deployed("Blocklist")'
    BY DeployedGrows, KindsAre DEF ChainInv
  <1>3. ASSUME NEW token \in Deployed("USDY"), NEW field \in {"blocklist", "allowlist", "proxyAdmin"}
        PROVE  ref'[<<token, field>>] = ref[<<token, field>>]
    BY <1>3, DeployedIs, InstancesAssumption, KindsAre DEF ChainInv, TokenRefsKept
  <1>4. ASSUME NEW admin \in Deployed("USDYProxyAdmin")
        PROVE  ref'[<<admin, "owner">>] = ref[<<admin, "owner">>]
    BY <1>4, DeployedIs, InstancesAssumption, KindsAre DEF ChainInv, TokenRefsKept
  <1>5. TokensHaveRealLists'
    BY <1>1, <1>2, <1>3 DEF ChainInv, RefsOK, TokensHaveRealLists
  <1>6. ProxyAdminsHeld'
    BY <1>1, <1>3, <1>4 DEF ChainInv, RefsOK, ProxyAdminsHeld, Guardian
  <1>. QED BY <1>5, <1>6

LEMMA ManagersFrame ==
  ASSUME ChainInv, CreatedOK', Grows, ManagerRefsKept,
         created'["USDYManager"] = created["USDYManager"]
  PROVE  ManagersHoldRealTokens'
  <1>1. Deployed("USDYManager")' = Deployed("USDYManager")
    BY DeployedSame, KindsAre
  <1>2. /\ Deployed("USDY") \subseteq Deployed("USDY")'
        /\ Deployed("Blocklist") \subseteq Deployed("Blocklist")'
    BY DeployedGrows, KindsAre DEF ChainInv
  <1>3. ASSUME NEW manager \in Deployed("USDYManager"), NEW field \in {"rwa", "blocklist"}
        PROVE  ref'[<<manager, field>>] = ref[<<manager, field>>]
    BY <1>3, DeployedIs, InstancesAssumption, KindsAre DEF ChainInv, ManagerRefsKept
  <1>. QED BY <1>1, <1>2, <1>3 DEF ChainInv, RefsOK, ManagersHoldRealTokens

LEMMA SeqGrows == ASSUME NEW S, NEW T, S \subseteq T, NEW s \in Seq(S) PROVE s \in Seq(T)
  OBVIOUS

LEMMA TokenRolesFrame ==
  ASSUME ChainInv, CreatedOK', Grows, UNCHANGED network, NEW token \in Deployed("USDY"),
         \A role \in RolesOf["USDY"] : members'[<<token, role>>] = members[<<token, role>>]
  PROVE  TokenRoles(token)'
  <1>1. Deployed("USDYManager") \subseteq Deployed("USDYManager")'
    BY DeployedGrows, KindsAre DEF ChainInv
  <1>2. TokenRoles(token)
    BY DEF ChainInv, RolesOK
  <1>3. members'[<<token, "MINTER_ROLE">>] \in Seq(Deployed("USDYManager")')
    BY <1>1, <1>2, SeqGrows, KindsAre DEF TokenRoles
  <1>. QED BY <1>2, <1>3, KindsAre DEF TokenRoles, Guardian

LEMMA RolesFrame ==
  ASSUME ChainInv, CreatedOK', Grows, RolesKept, UNCHANGED network,
         DOMAIN members' = RoleSlots, created'["USDY"] = created["USDY"]
  PROVE  RolesOK'
  <1>1. Deployed("USDY")' = Deployed("USDY")
    BY DeployedSame, KindsAre
  <1>2. ASSUME NEW token \in Deployed("USDY")
        PROVE  TokenRoles(token)'
    <2>1. PICK n \in 1..MaxInstances : token = <<"USDY", n>>
      BY DeployedIs, KindsAre DEF ChainInv
    <2>2. \A role \in RolesOf["USDY"] : members'[<<token, role>>] = members[<<token, role>>]
      BY <2>1 DEF RolesKept
    <2>. QED BY <2>2, TokenRolesFrame
  <1>3. \A n \in 1..MaxInstances : n > created'["USDY"] =>
          \A role \in RolesOf["USDY"] : members'[<<<<"USDY", n>>, role>>] = <<>>
    BY DEF ChainInv, RolesOK, RolesKept
  <1>. QED BY <1>1, <1>2, <1>3 DEF RolesOK

-----------------------------------------------------------------------------
(* Roles.                                                                  *)
LEMMA RangeIs == ASSUME NEW s, NEW x PROVE x \in Range(s) <=> \E i \in DOMAIN s : s[i] = x
  BY DEF Range

LEMMA RangesAre ==
  ASSUME NEW a, NEW b
  PROVE  /\ \A x : x \notin Range(<<>>)
         /\ \A x : x \in Range(<<a>>) <=> x = a
         /\ \A x : x \in Range(<<a, b>>) <=> x = a \/ x = b
  <1>1. DOMAIN <<>> = {}
    OBVIOUS
  <1>2. DOMAIN <<a>> = 1..1 /\ <<a>>[1] = a
    OBVIOUS
  <1>3. DOMAIN <<a, b>> = 1..2 /\ <<a, b>>[1] = a /\ <<a, b>>[2] = b
    OBVIOUS
  <1>4. \A x : x \notin Range(<<>>)
    BY <1>1, RangeIs
  <1>5. \A x : x \in Range(<<a>>) <=> x = a
    BY <1>2, RangeIs
  <1>6. \A x : x \in Range(<<a, b>>) <=> x = a \/ x = b
    BY <1>3, RangeIs
  <1>. QED BY <1>4, <1>5, <1>6

\* The steps of RolesAfterDeployUSDY: the first member of a role, the second, and the
\* first one leaves.
LEMMA GrantFirst ==
  ASSUME NEW m, NEW slot \in DOMAIN m, NEW a, m[slot] = <<>>
  PROVE  Granted(m, slot, a) = [m EXCEPT ![slot] = <<a>>]
  <1>1. a \notin Range(m[slot])
    BY RangesAre
  <1>2. Append(m[slot], a) = <<a>>
    OBVIOUS
  <1>. QED BY <1>1, <1>2 DEF Granted

LEMMA AppendSecond == ASSUME NEW a, NEW b PROVE Append(<<a>>, b) = <<a, b>>
  <1>. DEFINE s == <<a>>  t == <<a, b>>  u == Append(s, b)
  <1>1. s \in Seq({a, b}) /\ t \in Seq({a, b})
    OBVIOUS
  <1>2. Len(s) = 1 /\ s[1] = a
    OBVIOUS
  <1>3. Len(t) = 2 /\ t[1] = a /\ t[2] = b
    OBVIOUS
  <1>4. u \in Seq({a, b}) /\ Len(u) = 2
    BY <1>1, <1>2
  <1>5. u[1] = a /\ u[2] = b
    BY <1>1, <1>2
  <1>. HIDE DEF s, t, u
  <1>6. \A i \in 1..2 : u[i] = t[i]
    BY <1>3, <1>5
  <1>7. u = t
    BY <1>1, <1>3, <1>4, <1>6
  <1>. QED BY <1>7 DEF s, t, u

LEMMA GrantSecond ==
  ASSUME NEW m, NEW slot \in DOMAIN m, NEW a, NEW b, a # b, m[slot] = <<a>>
  PROVE  Granted(m, slot, b) = [m EXCEPT ![slot] = <<a, b>>]
  <1>1. b \notin Range(<<a>>)
    BY RangesAre
  <1>2. Append(<<a>>, b) = <<a, b>>
    BY AppendSecond
  <1>. QED BY <1>1, <1>2 DEF Granted

LEMMA RevokeOnly ==
  ASSUME NEW m, NEW slot \in DOMAIN m, NEW a, m[slot] = <<a>>
  PROVE  Revoked(m, slot, a) = [m EXCEPT ![slot] = <<>>]
  <1>1. a \in Range(m[slot])
    BY RangesAre
  <1>2. WithoutMember(<<a>>, a) = <<>>
    <2>1. Len(<<a>>) - 1 = 0 /\ 1..0 = {}
      OBVIOUS
    <2>. QED BY <2>1 DEF WithoutMember
  <1>. QED BY <1>1, <1>2 DEF Revoked

LEMMA RevokeFirst ==
  ASSUME NEW m, NEW slot \in DOMAIN m, NEW a, NEW b, m[slot] = <<a, b>>
  PROVE  Revoked(m, slot, a) = [m EXCEPT ![slot] = <<b>>]
  <1>1. a \in Range(m[slot])
    BY RangesAre
  <1>2. WithoutMember(<<a, b>>, a) = <<b>>
    <2>1. Len(<<a, b>>) - 1 = 1
      OBVIOUS
    <2>. QED BY <2>1 DEF WithoutMember
  <1>. QED BY <1>1, <1>2 DEF Revoked

\* m is what members becomes when a token is handed to the guardian.
HandedOver(m, token, guardian) ==
  /\ DOMAIN m = RoleSlots
  /\ m[<<token, "DEFAULT_ADMIN_ROLE">>] = <<guardian>>
  /\ m[<<token, "MINTER_ROLE">>] = <<>>
  /\ m[<<token, "PAUSER_ROLE">>] = <<guardian>>
  /\ \A slot \in RoleSlots :
       slot \notin {<<token, "DEFAULT_ADMIN_ROLE">>, <<token, "MINTER_ROLE">>, <<token, "PAUSER_ROLE">>}
         => m[slot] = members[slot]

LEMMA TokenHandedOver ==
  ASSUME ChainInv, NEW n \in 1..MaxInstances, n > created["USDY"], NEW factory, NEW guardian,
         factory # guardian
  PROVE  HandedOver(RolesAfterDeployUSDY(<<"USDY", n>>, factory, guardian), <<"USDY", n>>, guardian)
  <1>. DEFINE admin  == <<<<"USDY", n>>, "DEFAULT_ADMIN_ROLE">>
              minter == <<<<"USDY", n>>, "MINTER_ROLE">>
              pauser == <<<<"USDY", n>>, "PAUSER_ROLE">>
              m1 == Granted(members, admin, factory)
              m2 == Granted(m1, minter, factory)
              m3 == Granted(m2, pauser, factory)
              m4 == Granted(m3, admin, guardian)
              m5 == Granted(m4, pauser, guardian)
              m6 == Revoked(m5, minter, factory)
              m7 == Revoked(m6, pauser, factory)
              m8 == Revoked(m7, admin, factory)
  <1>1. /\ {admin, minter, pauser} \subseteq RoleSlots /\ DOMAIN members = RoleSlots
        /\ members[admin] = <<>> /\ members[minter] = <<>> /\ members[pauser] = <<>>
    BY TokenSlots, KindsAre DEF ChainInv, RolesOK
  <1>2. admin # minter /\ admin # pauser /\ minter # pauser
    OBVIOUS
  <1>3. m8 = RolesAfterDeployUSDY(<<"USDY", n>>, factory, guardian)
    BY DEF RolesAfterDeployUSDY
  <1>. HIDE DEF admin, minter, pauser
  <1>4. m1 = [members EXCEPT ![admin] = <<factory>>]
    BY <1>1, GrantFirst
  <1>5. m2 = [m1 EXCEPT ![minter] = <<factory>>]
    <2>1. minter \in DOMAIN m1 /\ m1[minter] = <<>>
      BY ONLY <1>1, <1>2, <1>4
    <2>. HIDE DEF m1
    <2>. QED BY <2>1, GrantFirst
  <1>6. m3 = [m2 EXCEPT ![pauser] = <<factory>>]
    <2>1. pauser \in DOMAIN m2 /\ m2[pauser] = <<>>
      BY ONLY <1>1, <1>2, <1>4, <1>5
    <2>. HIDE DEF m2
    <2>. QED BY <2>1, GrantFirst
  <1>7. m4 = [m3 EXCEPT ![admin] = <<factory, guardian>>]
    <2>1. admin \in DOMAIN m3 /\ m3[admin] = <<factory>>
      BY ONLY <1>1, <1>2, <1>4, <1>5, <1>6
    <2>. HIDE DEF m3
    <2>. QED BY <2>1, GrantSecond
  <1>8. m5 = [m4 EXCEPT ![pauser] = <<factory, guardian>>]
    <2>1. pauser \in DOMAIN m4 /\ m4[pauser] = <<factory>>
      BY ONLY <1>1, <1>2, <1>4, <1>5, <1>6, <1>7
    <2>. HIDE DEF m4
    <2>. QED BY <2>1, GrantSecond
  <1>9. m6 = [m5 EXCEPT ![minter] = <<>>]
    <2>1. minter \in DOMAIN m5 /\ m5[minter] = <<factory>>
      BY ONLY <1>1, <1>2, <1>4, <1>5, <1>6, <1>7, <1>8
    <2>. HIDE DEF m5
    <2>. QED BY <2>1, RevokeOnly
  <1>10. m7 = [m6 EXCEPT ![pauser] = <<guardian>>]
    <2>1. pauser \in DOMAIN m6 /\ m6[pauser] = <<factory, guardian>>
      BY ONLY <1>1, <1>2, <1>4, <1>5, <1>6, <1>7, <1>8, <1>9
    <2>. HIDE DEF m6
    <2>. QED BY <2>1, RevokeFirst
  <1>11. m8 = [m7 EXCEPT ![admin] = <<guardian>>]
    <2>. HIDE DEF m1, m2, m3, m4, m5, m6
    <2>1. admin \in DOMAIN m4 /\ m4[admin] = <<factory, guardian>>
      BY ONLY <1>1, <1>2, <1>4, <1>5, <1>6, <1>7
    <2>2. admin \in DOMAIN m6 /\ m6[admin] = <<factory, guardian>>
      BY ONLY <2>1, <1>2, <1>8, <1>9
    <2>3. admin \in DOMAIN m7 /\ m7[admin] = <<factory, guardian>>
      BY ONLY <2>2, <1>2, <1>10
    <2>. HIDE DEF m7
    <2>. QED BY <2>3, RevokeFirst
  <1>. HIDE DEF m1, m2, m3, m4, m5, m6, m7, m8
  <1>12. /\ DOMAIN m8 = RoleSlots
         /\ m8[admin] = <<guardian>> /\ m8[minter] = <<>> /\ m8[pauser] = <<guardian>>
         /\ \A slot \in RoleSlots : slot \notin {admin, minter, pauser} => m8[slot] = members[slot]
    BY ONLY <1>1, <1>2, <1>4, <1>5, <1>6, <1>7, <1>8, <1>9, <1>10, <1>11
  <1>. QED BY <1>3, <1>12 DEF HandedOver, admin, minter, pauser

-----------------------------------------------------------------------------
(* What the transactions do.                                               *)

\* What the invariant needs of a transaction.
GoodCall(call) ==
  /\ call.fn = "deployUSDY" => /\ call.from = Guardian
                               /\ call.args[1] \in {Zero} \cup Deployed("Blocklist")
                               /\ call.args[2] \in {Zero} \cup Deployed("Allowlist")
  /\ call.fn = "grantRole" =>
       \/ call.to \in Deployed("USDYManager")
       \/ call.role = "MINTER_ROLE" /\ call.args[1] \in Deployed("USDYManager")
       \/ call.role = "PAUSER_ROLE" /\ call.args[1] = PAUSER
  /\ call.fn = "acceptOwnership" => call.to \in Deployed("Blocklist")

LEMMA OnlyCreated ==
  ASSUME NEW c, Exists(c)
  PROVE  c[1] \in Kinds /\ c[2] \in 1..created[c[1]]
  BY DEF Exists

LEMMA DeployUSDYKeeps ==
  ASSUME ChainInv, UNCHANGED network, NEW n, n = created["USDY"] + 1, NEW factory, NEW lists,
         lists[1] \in {Zero} \cup Deployed("Blocklist"),
         lists[2] \in {Zero} \cup Deployed("Allowlist"),
         Exists(factory), DeployUSDY(Guardian, factory, lists)
  PROVE  ChainInv' /\ Grows
  <1>. DEFINE token == <<"USDY", n>>
              admin == <<"USDYProxyAdmin", n>>
  <1>1. /\ n \in 1..MaxInstances /\ n > created["USDY"] /\ created["USDY"] \in Nat
        /\ Fresh("USDY") = token /\ Fresh("USDYProxyAdmin") = admin
    BY InstancesAssumption, KindsAre DEF ChainInv, CreatedOK, DeployUSDY, CanDeployUSDY, Fresh
  <1>2. CreatedOK' /\ Grows /\ created'["USDY"] = n /\ created'["USDYProxyAdmin"] = n
        /\ created'["USDYManager"] = created["USDYManager"]
    BY <1>1, InstancesAssumption, KindsAre DEF ChainInv, CreatedOK, DeployUSDY, Grows
  <1>3. /\ Deployed("USDY")' = Deployed("USDY") \cup {token}
        /\ Deployed("USDYProxyAdmin")' = Deployed("USDYProxyAdmin") \cup {admin}
        /\ token \notin Deployed("USDY")
        /\ admin \notin Deployed("USDYProxyAdmin")
    BY <1>1, <1>2 DEF Deployed, ChainInv, CreatedOK
  <1>4. factory # Guardian
    BY KindsAre DEF Exists, Guardian, External, ChainInv, CreatedOK
  <1>. HIDE DEF token, admin
  <1>5. RefsOK'
    <2>1. ref' = [ref EXCEPT ![<<factory, "usdyProxy">>] = token,
                             ![<<factory, "usdyProxyAdmin">>] = admin,
                             ![<<factory, "usdyImplementation">>] = Fresh("USDYImplementation"),
                             ![<<token, "proxyAdmin">>] = admin,
                             ![<<token, "implementation">>] = Fresh("USDYImplementation"),
                             ![<<token, "blocklist">>] = lists[1],
                             ![<<token, "allowlist">>] = lists[2],
                             ![<<token, "sanctionsList">>] = lists[3],
                             ![<<admin, "owner">>] = Guardian]
      BY <1>1 DEF DeployUSDY
    <2>2. /\ DOMAIN ref = FieldSlots
          /\ \A field \in {"blocklist", "allowlist", "proxyAdmin"} : <<token, field>> \in FieldSlots
          /\ <<admin, "owner">> \in FieldSlots
      BY <1>1, TokenSlots DEF token, admin, ChainInv, RefsOK
    <2>3. /\ DOMAIN ref' = FieldSlots
          /\ ref'[<<token, "proxyAdmin">>] = admin
          /\ ref'[<<token, "blocklist">>] = lists[1]
          /\ ref'[<<token, "allowlist">>] = lists[2]
          /\ ref'[<<admin, "owner">>] = Guardian
      BY <2>1, <2>2
    <2>4. \A slot \in FieldSlots :
            slot[1] # token /\ slot[2] \in {"blocklist", "allowlist", "proxyAdmin"} => ref'[slot] = ref[slot]
      BY <2>1, <2>2
    <2>5. \A slot \in FieldSlots :
            /\ slot[1] # admin /\ slot[2] = "owner" => ref'[slot] = ref[slot]
            /\ slot[2] \in {"rwa", "allowlistProxy"} => ref'[slot] = ref[slot]
            /\ slot[2] = "usdyProxy" => ref'[slot] \in {token, ref[slot]}
      BY <2>1, <2>2
    <2>6. /\ Deployed("Allowlist") \subseteq Deployed("Allowlist")'
          /\ Deployed("Blocklist") \subseteq Deployed("Blocklist")'
          /\ Deployed("USDYManager") = Deployed("USDYManager")'
      BY <1>2, DeployedGrows, DeployedSame, KindsAre DEF ChainInv
    <2>7. \A manager \in Deployed("USDYManager") : manager # token
      BY DEF Deployed, token
    <2>8. CreatedOK /\ RefsOK
      BY DEF ChainInv
    <2>9. FactoriesAnswer'
      BY <1>3, <2>5, <2>6, <2>8 DEF RefsOK, FactoriesAnswer, Zero, External
    <2>10. TokensHaveRealLists'
      <3>1. lists[1] \in Deployed("Blocklist") /\ lists[2] \in Deployed("Allowlist")
        BY DEF DeployUSDY, CanDeployUSDY
      <3>2. ASSUME NEW c \in Deployed("USDY")
            PROVE  ref'[<<c, "allowlist">>] = ref[<<c, "allowlist">>]
                   /\ ref'[<<c, "blocklist">>] = ref[<<c, "blocklist">>]
        BY <1>3, <2>4, <2>8, DeployedSlots
      <3>. QED BY <1>3, <2>3, <2>6, <2>8, <3>1, <3>2 DEF RefsOK, TokensHaveRealLists
    <2>11. ManagersHoldRealTokens'
      <3>1. ASSUME NEW c \in Deployed("USDYManager")
            PROVE  /\ ref'[<<c, "rwa">>] = ref[<<c, "rwa">>]
                   /\ ref'[<<c, "blocklist">>] = ref[<<c, "blocklist">>]
        BY <2>4, <2>5, <2>7, <2>8, DeployedSlots
      <3>. QED BY <1>3, <2>6, <2>8, <3>1 DEF RefsOK, ManagersHoldRealTokens
    <2>12. ProxyAdminsHeld'
      <3>1. ASSUME NEW c \in Deployed("USDY")
            PROVE  ref'[<<c, "proxyAdmin">>] = ref[<<c, "proxyAdmin">>]
        BY <1>3, <2>4, <2>8, DeployedSlots
      <3>2. ASSUME NEW c \in Deployed("USDYProxyAdmin")
            PROVE  ref'[<<c, "owner">>] = ref[<<c, "owner">>]
        BY <1>3, <2>5, <2>8, DeployedSlots
      <3>. QED BY <1>3, <2>3, <2>8, <3>1, <3>2 DEF RefsOK, ProxyAdminsHeld, Guardian
    <2>. QED BY <2>3, <2>9, <2>10, <2>11, <2>12 DEF RefsOK
  <1>6. RolesOK'
    <2>1. members' = RolesAfterDeployUSDY(token, factory, Guardian)
      BY <1>1 DEF DeployUSDY
    <2>2. /\ DOMAIN members' = RoleSlots
          /\ members'[<<token, "DEFAULT_ADMIN_ROLE">>] = <<Guardian>>
          /\ members'[<<token, "MINTER_ROLE">>] = <<>>
          /\ members'[<<token, "PAUSER_ROLE">>] = <<Guardian>>
          /\ \A slot \in RoleSlots :
               slot \notin {<<token, "DEFAULT_ADMIN_ROLE">>, <<token, "MINTER_ROLE">>,
                             <<token, "PAUSER_ROLE">>}
                 => members'[slot] = members[slot]
      <3>1. HandedOver(members', token, Guardian)
        BY <1>1, <1>4, <2>1, TokenHandedOver DEF token
      <3>. QED BY <3>1 DEF HandedOver
    <2>3. \A role \in RolesOf["USDY"] : <<token, role>> \in RoleSlots /\ members[<<token, role>>] = <<>>
      BY <1>1, TokenSlots DEF token, ChainInv, RolesOK
    <2>4. TokenRoles(token)'
      <3>1. <<>> \in Seq(Deployed("USDYManager")')
        OBVIOUS
      <3>2. Guardian' = Guardian /\ <<Guardian>> \in Seq({Guardian, PAUSER})
        BY DEF Guardian
      <3>3. \A role \in {"BURNER_ROLE", "LIST_CONFIGURER_ROLE"} : members'[<<token, role>>] = <<>>
        BY <2>2, <2>3, KindsAre
      <3>. QED BY <2>2, <3>1, <3>2, <3>3 DEF TokenRoles
    <2>5. ASSUME NEW c \in Deployed("USDY") PROVE TokenRoles(c)'
      <3>1. \A role \in RolesOf["USDY"] : members'[<<c, role>>] = members[<<c, role>>]
        BY <1>3, <2>2, DeployedSlots DEF ChainInv
      <3>. QED BY <1>2, <3>1, TokenRolesFrame
    <2>6. ASSUME NEW k \in 1..MaxInstances, k > created'["USDY"], NEW role \in RolesOf["USDY"]
          PROVE  members'[<<<<"USDY", k>>, role>>] = <<>>
      <3>1. <<"USDY", k>> # token /\ k > created["USDY"]
        BY <1>1, <1>2, <2>6 DEF token
      <3>. QED BY <2>2, <3>1, TokenSlots DEF ChainInv, RolesOK
    <2>. QED BY <1>3, <2>2, <2>4, <2>5, <2>6 DEF RolesOK
  <1>. QED BY <1>2, <1>5, <1>6 DEF ChainInv

LEMMA GrantedAt ==
  ASSUME NEW m, NEW slot, NEW account
  PROVE  /\ DOMAIN Granted(m, slot, account) = DOMAIN m
         /\ \A other \in DOMAIN m : other # slot => Granted(m, slot, account)[other] = m[other]
  BY DEF Granted

LEMMA GrantedStaysIn ==
  ASSUME NEW S, NEW m, NEW slot \in DOMAIN m, m[slot] \in Seq(S), NEW account \in S
  PROVE  Granted(m, slot, account)[slot] \in Seq(S)
  <1>1. Append(m[slot], account) \in Seq(S)
    OBVIOUS
  <1>. QED BY <1>1 DEF Granted

LEMMA RefsFrame ==
  ASSUME ChainInv, CreatedOK', Grows, RefsKept, UNCHANGED network,
         created'["USDY"] = created["USDY"], created'["USDYManager"] = created["USDYManager"],
         DOMAIN ref' = FieldSlots, FactoriesAnswer'
  PROVE  RefsOK'
  BY TokensFrame, ManagersFrame DEF RefsKept, RefsOK

\* Nothing is created: the factories answer what they did.
LEMMA FactoriesFrame ==
  ASSUME ChainInv, UNCHANGED created,
         \A slot \in FieldSlots : slot[2] \in {"usdyProxy", "allowlistProxy"} => ref'[slot] = ref[slot]
  PROVE  FactoriesAnswer' /\ CreatedOK' /\ Grows
  <1>1. Deployed("USDY")' = Deployed("USDY") /\ Deployed("Allowlist")' = Deployed("Allowlist")
    BY DEF Deployed
  <1>2. FactoriesAnswer'
    BY <1>1 DEF ChainInv, RefsOK, FactoriesAnswer
  <1>. QED BY <1>2, InstancesAssumption DEF ChainInv, CreatedOK, Grows

LEMMA DeployAllowlistKeeps ==
  ASSUME ChainInv, UNCHANGED network, NEW n, n = created["Allowlist"] + 1,
         NEW sender, NEW factory, NEW owner, NEW setter,
         DeployAllowlist(sender, factory, owner, setter)
  PROVE  ChainInv' /\ Grows
  <1>. DEFINE list == <<"Allowlist", n>>
              admin == <<"AllowlistProxyAdmin", n>>
  <1>1. /\ n \in 1..MaxInstances /\ created["Allowlist"] \in Nat
        /\ Fresh("Allowlist") = list /\ Fresh("AllowlistProxyAdmin") = admin
    BY InstancesAssumption, KindsAre
       DEF ChainInv, CreatedOK, DeployAllowlist, CanDeployAllowlist, Fresh
  <1>2. CreatedOK' /\ Grows /\ created'["USDY"] = created["USDY"] /\ created'["Allowlist"] = n
        /\ created'["USDYManager"] = created["USDYManager"]
    BY <1>1, InstancesAssumption, KindsAre DEF ChainInv, CreatedOK, DeployAllowlist, Grows
  <1>3. /\ Deployed("Allowlist") \subseteq Deployed("Allowlist")' /\ list \in Deployed("Allowlist")'
        /\ Deployed("USDY")' = Deployed("USDY")
    BY <1>1, <1>2, DeployedGrows, KindsAre DEF Deployed, ChainInv
  <1>4. ref' = [ref EXCEPT ![<<factory, "allowlistProxy">>] = list,
                           ![<<factory, "allowlistProxyAdmin">>] = admin,
                           ![<<factory, "allowlistImplementation">>] = Fresh("AllowlistImplementation"),
                           ![<<list, "proxyAdmin">>] = admin,
                           ![<<list, "implementation">>] = Fresh("AllowlistImplementation"),
                           ![<<admin, "owner">>] = sender]
    BY <1>1 DEF DeployAllowlist
  <1>5. \A c : c[1] \in {"USDY", "USDYManager", "USDYProxyAdmin"} => c # list /\ c # admin
    OBVIOUS
  <1>6. members' = Granted(Granted(Granted(members, <<list, "DEFAULT_ADMIN_ROLE">>, owner),
                                   <<list, "ALLOWLIST_ADMIN">>, owner),
                           <<list, "ALLOWLIST_SETTER">>, setter)
    BY <1>1 DEF DeployAllowlist
  <1>. HIDE DEF list, admin
  <1>7. DOMAIN ref = FieldSlots /\ DOMAIN members = RoleSlots
    BY DEF ChainInv, RefsOK, RolesOK
  <1>8. /\ DOMAIN ref' = FieldSlots
        /\ \A slot \in FieldSlots :
             slot[1][1] \in {"USDY", "USDYManager", "USDYProxyAdmin"}
               /\ slot[2] \in {"blocklist", "allowlist", "proxyAdmin", "rwa", "owner"}
             => ref'[slot] = ref[slot]
        /\ \A slot \in FieldSlots : slot[2] = "usdyProxy" => ref'[slot] = ref[slot]
        /\ \A slot \in FieldSlots : slot[2] = "allowlistProxy" => ref'[slot] \in {list, ref[slot]}
    BY <1>4, <1>5, <1>7
  <1>9. RefsKept
    BY <1>8, TokenSlots DEF RefsKept, TokenRefsKept, ManagerRefsKept
  <1>10. FactoriesAnswer'
    BY <1>3, <1>8 DEF FactoriesAnswer, ChainInv, RefsOK, Zero, External
  <1>11. RefsOK'
    BY <1>2, <1>8, <1>9, <1>10, RefsFrame
  <1>12. /\ DOMAIN members' = RoleSlots
         /\ \A slot \in RoleSlots : slot[1] # list => members'[slot] = members[slot]
    BY <1>6, <1>7, GrantedAt
  <1>13. RolesKept
    <2>1. \A k \in 1..MaxInstances : <<"USDY", k>> # list
      BY DEF list
    <2>. QED BY <1>12, <2>1, TokenSlots DEF RolesKept
  <1>14. RolesOK'
    BY <1>2, <1>12, <1>13, RolesFrame
  <1>. QED BY <1>2, <1>11, <1>14 DEF ChainInv

LEMMA GrantRoleKeeps ==
  ASSUME ChainInv, UNCHANGED network, NEW call, GoodCall(call), Exists(call.to), GrantRole(call)
  PROVE  ChainInv' /\ Grows
  <1>1. /\ call.fn = "grantRole" /\ UNCHANGED <<created, ref>>
        /\ members' = Granted(members, <<call.to, call.role>>, call.args[1])
    BY DEF GrantRole
  <1>2. CreatedOK' /\ Grows /\ FactoriesAnswer'
    BY <1>1, FactoriesFrame
  <1>3. DOMAIN ref' = FieldSlots /\ RefsKept
    BY <1>1 DEF RefsKept, TokenRefsKept, ManagerRefsKept, ChainInv, RefsOK
  <1>4. RefsOK'
    BY <1>1, <1>2, <1>3, RefsFrame
  <1>5. /\ DOMAIN members' = RoleSlots
        /\ \A slot \in RoleSlots : slot # <<call.to, call.role>> => members'[slot] = members[slot]
    BY <1>1, GrantedAt DEF ChainInv, RolesOK
  <1>6. Deployed("USDY")' = Deployed("USDY") /\ Deployed("USDYManager")' = Deployed("USDYManager")
        /\ Guardian' = Guardian
    BY <1>1 DEF Deployed, Guardian
  <1>7. \A n \in 1..MaxInstances : n > created["USDY"] => call.to # <<"USDY", n>>
    BY KindsAre, InstancesAssumption DEF Exists, ChainInv, CreatedOK
  <1>8. ASSUME NEW token \in Deployed("USDY")
        PROVE  TokenRoles(token)'
    <2>1. TokenRoles(token) /\ \A role \in RolesOf["USDY"] : <<token, role>> \in RoleSlots
      BY DeployedSlots DEF ChainInv, RolesOK
    <2>2. \A role \in RolesOf["USDY"] :
            token # call.to \/ role # call.role => members'[<<token, role>>] = members[<<token, role>>]
      BY <1>5, <2>1
    <2>3. CASE token # call.to
      BY <1>2, <2>2, <2>3, TokenRolesFrame
    <2>4. CASE call.role = "MINTER_ROLE" /\ call.args[1] \in Deployed("USDYManager") /\ token = call.to
      <3>1. members'[<<token, "MINTER_ROLE">>] \in Seq(Deployed("USDYManager"))
        BY <1>1, <2>1, <2>4, GrantedStaysIn, KindsAre DEF TokenRoles, ChainInv, RolesOK
      <3>. QED BY <1>6, <2>1, <2>2, <2>4, <3>1, KindsAre DEF TokenRoles
    <2>5. CASE call.role = "PAUSER_ROLE" /\ call.args[1] = PAUSER /\ token = call.to
      <3>1. members'[<<token, "PAUSER_ROLE">>] \in Seq({Guardian, PAUSER})
        BY <1>1, <2>1, <2>5, GrantedStaysIn, KindsAre DEF TokenRoles, ChainInv, RolesOK
      <3>. QED BY <1>6, <2>1, <2>2, <2>5, <3>1, KindsAre DEF TokenRoles
    <2>6. call.to \in Deployed("USDYManager") => token # call.to
      BY DEF Deployed
    <2>. QED BY <1>1, <2>3, <2>4, <2>5, <2>6 DEF GoodCall
  <1>9. \A n \in 1..MaxInstances : n > created["USDY"] =>
          \A role \in RolesOf["USDY"] : members'[<<<<"USDY", n>>, role>>] = <<>>
    BY <1>5, <1>7, TokenSlots DEF ChainInv, RolesOK
  <1>10. RolesOK'
    BY <1>1, <1>5, <1>6, <1>8, <1>9 DEF RolesOK
  <1>. QED BY <1>2, <1>4, <1>10 DEF ChainInv

LEMMA RefCallKeeps ==
  ASSUME ChainInv, UNCHANGED network, NEW sender, NEW call, GoodCall(call),
         SetPricer(call) \/ AddPrice(call) \/ TransferOwnership(call) \/ AcceptOwnership(sender, call)
  PROVE  ChainInv' /\ Grows
  <1>1. UNCHANGED <<created, members>>
    BY DEF SetPricer, AddPrice, TransferOwnership, AcceptOwnership
  <1>2. DOMAIN ref = FieldSlots
    BY DEF ChainInv, RefsOK
  <1>3. call.fn = "acceptOwnership" => call.to[1] = "Blocklist"
    BY DEF GoodCall, Deployed
  <1>4. /\ DOMAIN ref' = FieldSlots
        /\ \A slot \in FieldSlots :
             /\ slot[2] \notin {"pricer", "latestPrice", "pendingOwner", "owner"} => ref'[slot] = ref[slot]
             /\ slot[2] = "owner" /\ slot[1][1] # "Blocklist" => ref'[slot] = ref[slot]
    BY <1>2, <1>3 DEF SetPricer, AddPrice, TransferOwnership, AcceptOwnership
  <1>5. RefsKept
    BY <1>4, TokenSlots DEF RefsKept, TokenRefsKept, ManagerRefsKept
  <1>6. FactoriesAnswer' /\ CreatedOK' /\ Grows
    BY <1>1, <1>4, FactoriesFrame
  <1>7. RefsOK'
    BY <1>1, <1>4, <1>5, <1>6, RefsFrame
  <1>8. RolesKept /\ DOMAIN members' = RoleSlots
    BY <1>1 DEF RolesKept, ChainInv, RolesOK
  <1>9. RolesOK'
    BY <1>1, <1>6, <1>8, RolesFrame
  <1>. QED BY <1>6, <1>7, <1>9 DEF ChainInv

LEMMA ChainFrame ==
  ASSUME ChainInv, UNCHANGED network, UNCHANGED chainVars
  PROVE  ChainInv' /\ Grows
  <1>1. UNCHANGED <<created, members, ref>>
    BY DEF chainVars
  <1>2. FactoriesAnswer' /\ CreatedOK' /\ Grows
    BY <1>1, FactoriesFrame
  <1>3. RefsKept /\ RolesKept /\ DOMAIN ref' = FieldSlots /\ DOMAIN members' = RoleSlots
    BY <1>1 DEF RefsKept, TokenRefsKept, ManagerRefsKept, RolesKept, ChainInv, RefsOK, RolesOK
  <1>4. RefsOK' /\ RolesOK'
    BY <1>1, <1>2, <1>3, RefsFrame, RolesFrame
  <1>. QED BY <1>2, <1>4 DEF ChainInv

LEMMA CallKeeps ==
  ASSUME ChainInv, UNCHANGED network, NEW call, GoodCall(call), Call(call.from, call)
  PROVE  ChainInv' /\ Grows
  <1>1. CASE ~Exists(call.to) /\ UNCHANGED chainVars
    BY <1>1, ChainFrame
  <1>2. CASE Exists(call.to) /\ call.fn = "deployAllowlist"
             /\ DeployAllowlist(call.from, call.to, call.args[1], call.args[2])
    BY <1>2, DeployAllowlistKeeps
  <1>3. CASE Exists(call.to) /\ call.fn = "deployUSDY" /\ DeployUSDY(call.from, call.to, call.args)
    BY <1>3, DeployUSDYKeeps DEF GoodCall
  <1>4. CASE Exists(call.to) /\ GrantRole(call)
    BY <1>4, GrantRoleKeeps
  <1>5. CASE \/ SetPricer(call) \/ AddPrice(call) \/ TransferOwnership(call)
             \/ AcceptOwnership(call.from, call)
    BY <1>5, RefCallKeeps
  <1>. QED BY <1>1, <1>2, <1>3, <1>4, <1>5 DEF Call

-----------------------------------------------------------------------------
(* Constructors.                                                           *)
LEMMA ConstructKeeps ==
  ASSUME ChainInv, UNCHANGED network, NEW kind, kind \in Constructed \/ kind \notin Kinds,
         NEW n, n = created[kind] + 1, NEW sender, NEW args,
         kind = "USDYManager" => args[2] \in Deployed("USDY") /\ args[9] \in Deployed("Blocklist"),
         Construct(kind, sender, args)
  PROVE  ChainInv' /\ Grows /\ Fresh(kind) \in Deployed(kind)' /\ kind \in Kinds
  <1>. DEFINE c == <<kind, n>>
  <1>1. /\ kind \in Constructed /\ kind \in Kinds
        /\ created[kind] \in Nat /\ n \in 1..MaxInstances
        /\ Fresh(kind) = c
    BY InstancesAssumption, KindsAre
       DEF Construct, CanConstruct, Constructed, Fresh, ChainInv, CreatedOK
  <1>2. CreatedOK' /\ Grows /\ created'["USDY"] = created["USDY"] /\ created'[kind] = n
        /\ (kind # "USDYManager" => created'["USDYManager"] = created["USDYManager"])
    BY <1>1, InstancesAssumption, KindsAre DEF Construct, Constructed, ChainInv, CreatedOK, Grows
  <1>3. /\ Deployed("Allowlist") \subseteq Deployed("Allowlist")'
        /\ Deployed("Blocklist") \subseteq Deployed("Blocklist")'
        /\ Deployed("USDY")' = Deployed("USDY")
        /\ Deployed(kind)' = Deployed(kind) \cup {c}
    <2>1. Deployed(kind)' = Deployed(kind) \cup {c}
      BY <1>1, <1>2 DEF Deployed
    <2>. QED BY <1>2, <2>1, DeployedGrows, DeployedSame, KindsAre DEF ChainInv
  <1>4. ref' = RefsAfterConstruct(kind, c, sender, args) /\ members' = RolesAfterConstruct(kind, c, args)
    BY <1>1 DEF Construct
  <1>5. DOMAIN ref = FieldSlots /\ DOMAIN members = RoleSlots
    BY DEF ChainInv, RefsOK, RolesOK
  <1>6. c[1] \notin {"USDY", "USDYProxyAdmin"}
    BY <1>1 DEF Constructed
  <1>. HIDE DEF c
  <1>7. /\ DOMAIN ref' = FieldSlots
        /\ \A slot \in FieldSlots : slot[1] # c => ref'[slot] = ref[slot]
        /\ \A slot \in FieldSlots : slot[2] \in {"usdyProxy", "allowlistProxy"} => ref'[slot] = ref[slot]
    BY <1>4, <1>5 DEF RefsAfterConstruct
  <1>8. /\ DOMAIN members' = RoleSlots
        /\ \A slot \in RoleSlots : slot[1] # c => members'[slot] = members[slot]
    BY <1>4, <1>5, GrantedAt DEF RolesAfterConstruct
  <1>9. \A k \in 1..MaxInstances : <<"USDY", k>> # c /\ <<"USDYProxyAdmin", k>> # c
    BY <1>6
  <1>10. RolesOK'
    <2>1. RolesKept
      BY <1>8, <1>9, TokenSlots DEF RolesKept
    <2>. QED BY <1>2, <1>8, <2>1, RolesFrame
  <1>11. FactoriesAnswer'
    BY <1>3, <1>7 DEF FactoriesAnswer, ChainInv, RefsOK
  <1>12. RefsOK'
    <2>1. CASE kind # "USDYManager"
      <3>1. \A k \in 1..MaxInstances : <<"USDYManager", k>> # c
        BY <2>1 DEF c
      <3>2. RefsKept
        BY <1>7, <1>9, <3>1, TokenSlots DEF RefsKept, TokenRefsKept, ManagerRefsKept
      <3>. QED BY <1>2, <1>7, <1>11, <2>1, <3>2, RefsFrame
    <2>2. CASE kind = "USDYManager"
      <3>1. <<c, "rwa">> \in FieldSlots /\ <<c, "blocklist">> \in FieldSlots
        BY <1>1, <2>2, TokenSlots DEF c
      <3>2. ref'[<<c, "rwa">>] = args[2] /\ ref'[<<c, "blocklist">>] = args[9]
        BY <1>4, <1>5, <2>2, <3>1 DEF RefsAfterConstruct
      <3>3. TokenRefsKept
        BY <1>7, <1>9, TokenSlots DEF TokenRefsKept
      <3>4. TokensHaveRealLists' /\ ProxyAdminsHeld'
        BY <1>2, <3>3, TokensFrame
      <3>5. ASSUME NEW manager \in Deployed("USDYManager"), manager # c
            PROVE  /\ ref'[<<manager, "rwa">>] = ref[<<manager, "rwa">>]
                   /\ ref'[<<manager, "blocklist">>] = ref[<<manager, "blocklist">>]
        BY <1>7, <3>5, DeployedSlots DEF ChainInv
      <3>6. ManagersHoldRealTokens'
        BY <1>3, <2>2, <3>2, <3>5 DEF ManagersHoldRealTokens, ChainInv, RefsOK
      <3>. QED BY <1>7, <1>11, <3>4, <3>6 DEF RefsOK
    <2>. QED BY <2>1, <2>2
  <1>. QED BY <1>1, <1>2, <1>3, <1>10, <1>12 DEF ChainInv

-----------------------------------------------------------------------------
(* The scripts.                                                            *)
ControlOK ==
  /\ network \in Networks
  /\ running \in Tracks \cup {"none"}
  /\ DOMAIN next = Tracks
  /\ running # "none" => next[running] \in DOMAIN Scripts[network][running]

NamesOK ==
  /\ DOMAIN local = Variables
  /\ DOMAIN deployments = DeploymentNames
  /\ \A name \in Known : IsA(name, local[name])
  /\ \A name \in Known \cap DeploymentNames : IsA(name, deployments[name].address)

ProposalsOK == \A proposal \in DOMAIN proposals : GoodCall(proposal)

DeploymentInv == ChainInv /\ ControlOK /\ NamesOK /\ ProposalsOK

LEMMA KnownAre ==
  /\ Known = {"AllowlistFactory", "USDYFactory", "Blocklist", "Allowlist", "USDY", "USDYManager",
              "usdyProxy", "allowlistProxy"}
  /\ Known \subseteq Variables
  /\ \A name \in Known : KindOf[name] \in Kinds
  /\ \A name \in Known \ {"usdyProxy", "allowlistProxy"} : KindOf[name] = name
  /\ KindOf["usdyProxy"] = "USDY" /\ KindOf["allowlistProxy"] = "Allowlist"
  <1>1. Known = {"AllowlistFactory", "USDYFactory", "Blocklist", "Allowlist", "USDY", "USDYManager",
                 "usdyProxy", "allowlistProxy"}
    BY DEF Known, KindOf
  <1>2. Known \subseteq Variables
    BY <1>1 DEF Variables, DeploymentNames, Getters
  <1>3. /\ \A name \in Known \ {"usdyProxy", "allowlistProxy"} : KindOf[name] = name
        /\ KindOf["usdyProxy"] = "USDY" /\ KindOf["allowlistProxy"] = "Allowlist"
    BY <1>1 DEF KindOf
  <1>4. \A name \in Known : KindOf[name] \in Kinds
    BY <1>1, <1>3, KindsAre
  <1>. QED BY <1>1, <1>2, <1>3, <1>4

LEMMA IsAStays ==
  ASSUME ChainInv, ChainInv', Grows, NEW name \in Known, NEW address, IsA(name, address)
  PROVE  IsA(name, address)'
  <1>1. Deployed(KindOf[name]) \subseteq Deployed(KindOf[name])'
    BY DeployedGrows, KnownAre DEF ChainInv
  <1>. QED BY <1>1 DEF IsA

LEMMA GoodCallStays ==
  ASSUME ChainInv, ChainInv', Grows, UNCHANGED network, NEW call, GoodCall(call)
  PROVE  GoodCall(call)'
  <1>1. /\ Deployed("Blocklist") \subseteq Deployed("Blocklist")'
        /\ Deployed("Allowlist") \subseteq Deployed("Allowlist")'
        /\ Deployed("USDYManager") \subseteq Deployed("USDYManager")'
        /\ Guardian' = Guardian
    BY DeployedGrows, KindsAre DEF ChainInv, Guardian
  <1>. QED BY <1>1 DEF GoodCall

LEMMA NamesStay ==
  ASSUME ChainInv, ChainInv', Grows, NamesOK,
         DOMAIN local' = Variables, DOMAIN deployments' = DeploymentNames,
         \A name \in Known : local'[name] = local[name] \/ IsA(name, local[name])',
         \A name \in Known \cap DeploymentNames :
           deployments'[name] = deployments[name] \/ IsA(name, deployments[name].address)'
  PROVE  NamesOK'
  <1>1. ASSUME NEW name \in Known PROVE IsA(name, local[name])'
    BY <1>1, IsAStays DEF NamesOK
  <1>2. ASSUME NEW name \in Known \cap DeploymentNames PROVE IsA(name, deployments[name].address)'
    BY <1>2, IsAStays DEF NamesOK
  <1>. QED BY <1>1, <1>2 DEF NamesOK

LEMMA ProposalsStay ==
  ASSUME ChainInv, ChainInv', Grows, UNCHANGED network, ProposalsOK,
         \A proposal \in DOMAIN proposals' : proposal \in DOMAIN proposals \/ GoodCall(proposal)
  PROVE  ProposalsOK'
  BY GoodCallStays DEF ProposalsOK

LEMMA StepIsGood ==
  ASSUME ControlOK, IsRunning
  PROVE  GoodStep(Step, network)
  <1>1. /\ running \in Tracks /\ network \in Networks
        /\ next[running] \in DOMAIN Scripts[network][running]
        /\ step \in DOMAIN Scripts[network][running][next[running]]
    BY DEF ControlOK, IsRunning, Script
  <1>2. GoodScript(Scripts[network][running][next[running]], network)
    BY <1>1, ScriptsAreGood
  <1>. QED BY <1>1, <1>2 DEF GoodScript, Step, Script

\* What a name stands for once it is assigned.
LEMMA ValueIs ==
  ASSUME NamesOK, NEW name \in Known, Assigned(name)
  PROVE  /\ Value(name) = local[name]
         /\ \/ Value(name) \in Deployed(KindOf[name])
            \/ Value(name) = Zero /\ name \in MayBeZero
  BY KnownAre DEF NamesOK, Assigned, Value, IsA

LEMMA TransactionIsGood ==
  ASSUME NamesOK, NEW s, GoodSend(s, network), \A name \in s.uses : Assigned(name)
  PROVE  GoodCall(Transaction(s))
  <1>. DEFINE call == Transaction(s)
  <1>1. /\ call.from = External(s.from) /\ call.to = Value(s.to) /\ call.fn = s.fn
        /\ call.role = s.role /\ call.args = Values(s.args)
    BY DEF Transaction
  <1>2. \A i \in DOMAIN s.args : call.args[i] = Value(s.args[i])
    BY <1>1 DEF Values
  <1>. HIDE DEF call
  <1>3. ASSUME call.fn = "deployUSDY"
        PROVE  /\ call.from = Guardian
               /\ call.args[1] \in {Zero} \cup Deployed("Blocklist")
               /\ call.args[2] \in {Zero} \cup Deployed("Allowlist")
    <2>1. /\ s.from = GuardianOf(network) /\ DOMAIN s.args = 1..3
          /\ s.args[1] = "Blocklist" /\ s.args[2] = "Allowlist"
          /\ Assigned("Blocklist") /\ Assigned("Allowlist")
      BY <1>1, <1>3 DEF GoodSend
    <2>2. call.args[1] = Value("Blocklist") /\ call.args[2] = Value("Allowlist")
      BY <1>2, <2>1
    <2>3. call.from = Guardian
      BY <1>1, <2>1 DEF Guardian, GuardianOf
    <2>. QED BY <2>1, <2>2, <2>3, ValueIs, KnownAre
  <1>4. ASSUME call.fn = "grantRole"
        PROVE  \/ call.to \in Deployed("USDYManager")
               \/ call.role = "MINTER_ROLE" /\ call.args[1] \in Deployed("USDYManager")
               \/ call.role = "PAUSER_ROLE" /\ call.args[1] = PAUSER
    <2>1. Assigned("USDYManager") => Value("USDYManager") \in Deployed("USDYManager")
      BY ValueIs, KnownAre DEF MayBeZero
    <2>2. Value(PROD_PAUSER_USDY) = PAUSER
      BY DEF Value, PAUSER, PROD_PAUSER_USDY, Variables, DeploymentNames, Getters
    <2>3. DOMAIN s.args = 1..1 /\ call.args[1] = Value(s.args[1])
      BY <1>1, <1>2, <1>4 DEF GoodSend
    <2>4. CASE s.to = "USDYManager" /\ s.to \in s.uses
      BY <1>1, <2>1, <2>4
    <2>5. CASE s.role = "MINTER_ROLE" /\ s.args[1] = "USDYManager" /\ s.args[1] \in s.uses
      BY <1>1, <2>1, <2>3, <2>5
    <2>6. CASE s.role = "PAUSER_ROLE" /\ s.args[1] = PROD_PAUSER_USDY
      BY <1>1, <2>2, <2>3, <2>6
    <2>. QED BY <1>1, <1>4, <2>4, <2>5, <2>6 DEF GoodSend
  <1>5. ASSUME call.fn = "acceptOwnership"
        PROVE  call.to \in Deployed("Blocklist")
    BY <1>1, <1>5, ValueIs, KnownAre DEF GoodSend, MayBeZero
  <1>. QED BY <1>3, <1>4, <1>5 DEF GoodCall, call

-----------------------------------------------------------------------------
(* The actions.                                                            *)
LEMMA InitInv == Init => DeploymentInv
  <1>. SUFFICES ASSUME Init PROVE DeploymentInv
    OBVIOUS
  <1>1. /\ created = [k \in Kinds |-> 0] /\ members = [slot \in RoleSlots |-> <<>>]
        /\ ref = [slot \in FieldSlots |-> Zero]
    BY DEF Init, ChainInit
  <1>2. CreatedOK
    BY <1>1, InstancesAssumption, KindsAre DEF CreatedOK
  <1>3. \A kind \in Kinds : Deployed(kind) = {}
    BY <1>1 DEF Deployed
  <1>4. RefsOK
    BY <1>1, <1>3, KindsAre
       DEF RefsOK, FactoriesAnswer, TokensHaveRealLists, ManagersHoldRealTokens, ProxyAdminsHeld
  <1>5. RolesOK
    BY <1>1, <1>3, TokenSlots, KindsAre DEF RolesOK
  <1>6. ControlOK
    BY DeploymentAssumption DEF Init, ControlOK
  <1>7. NamesOK
    BY KnownAre DEF Init, NamesOK, IsA
  <1>8. ProposalsOK
    BY DEF Init, ProposalsOK
  <1>. QED BY <1>2, <1>4, <1>5, <1>6, <1>7, <1>8 DEF DeploymentInv, ChainInv

\* Neither the chain nor the store nor the proposals change, and the variables of a
\* script are as new.
LEMMA ProcessStep ==
  ASSUME DeploymentInv, UNCHANGED <<chainVars, storeVars, network, proposals>>, ControlOK',
         local' = [v \in Variables |-> Absent]
  PROVE  DeploymentInv'
  <1>1. ChainInv' /\ Grows
    BY ChainFrame DEF DeploymentInv
  <1>2. NamesOK'
    <2>1. \A name \in Known : IsA(name, local[name])'
      BY KnownAre DEF IsA
    <2>. QED BY <1>1, <2>1, NamesStay DEF DeploymentInv, storeVars, NamesOK
  <1>3. ProposalsOK'
    BY <1>1, ProposalsStay DEF DeploymentInv
  <1>. QED BY <1>1, <1>2, <1>3 DEF DeploymentInv

LEMMA OperatorSteps ==
  ASSUME DeploymentInv,
         \/ \E track \in Tracks : Start(track)
         \/ Finish \/ StepThrows \/ ScriptFails
  PROVE  DeploymentInv'
  <1>1. CASE \E track \in Tracks : Start(track)
    <2>1. ControlOK'
      BY <1>1 DEF Start, ControlOK, DeploymentInv
    <2>. QED BY <1>1, <2>1, ProcessStep DEF Start
  <1>2. CASE Finish
    <2>1. ControlOK'
      BY <1>2 DEF Finish, Exit, ControlOK, DeploymentInv
    <2>. QED BY <1>2, <2>1, ProcessStep DEF Finish, Exit
  <1>3. CASE StepThrows \/ ScriptFails
    <2>1. ControlOK'
      BY <1>3 DEF StepThrows, ScriptFails, Throw, Exit, ControlOK, DeploymentInv
    <2>. QED BY <1>3, <2>1, ProcessStep DEF StepThrows, ScriptFails, Throw, Exit
  <1>. QED BY <1>1, <1>2, <1>3

\* What all the steps of a script have in common.
LEMMA GoingOn ==
  ASSUME DeploymentInv, NEW op, GoOn(op)
  PROVE  /\ IsRunning /\ Step.op = op /\ GoodStep(Step, network)
         /\ \A name \in Step.uses : Assigned(name)
         /\ UNCHANGED network /\ ControlOK'
  <1>1. IsRunning /\ Step.op = op /\ StepSucceeds /\ UNCHANGED <<running, network, next>>
    BY DEF GoOn
  <1>2. GoodStep(Step, network)
    BY <1>1, StepIsGood DEF DeploymentInv
  <1>3. ControlOK'
    BY <1>1 DEF ControlOK, DeploymentInv
  <1>4. \A name \in Step.uses : Assigned(name)
    BY <1>1 DEF StepSucceeds
  <1>. QED BY <1>1, <1>2, <1>3, <1>4

LEMMA RunDeployKeeps == ASSUME DeploymentInv, RunDeploy PROVE DeploymentInv'
  <1>. DEFINE args == Values(Step.args)
  <1>1. /\ GoodDeploy(Step) /\ UNCHANGED network /\ ControlOK'
        /\ \A name \in Step.uses : Assigned(name)
        /\ UNCHANGED <<local, proposals>>
    BY GoingOn DEF RunDeploy, GoodStep
  <1>2. CASE UNCHANGED <<chainVars, deployments>>
    <2>1. ChainInv' /\ Grows
      BY <1>1, <1>2, ChainFrame DEF DeploymentInv
    <2>2. NamesOK'
      BY <1>1, <1>2, <2>1, NamesStay DEF DeploymentInv, NamesOK
    <2>3. ProposalsOK'
      BY <1>1, <2>1, ProposalsStay DEF DeploymentInv
    <2>. QED BY <1>1, <2>1, <2>2, <2>3 DEF DeploymentInv
  <1>3. CASE /\ Construct(Step.kind, External("deployer"), args)
             /\ deployments' = [deployments EXCEPT
                                  ![Step.name] = [address |-> Fresh(Step.kind), args |-> args]]
    <2>1. Step.kind \in Constructed \/ Step.kind \notin Kinds
      BY <1>1 DEF GoodDeploy, Constructed
    <2>2. Step.kind = "USDYManager" => args[2] \in Deployed("USDY") /\ args[9] \in Deployed("Blocklist")
      <3>. SUFFICES ASSUME Step.kind = "USDYManager"
                    PROVE  args[2] \in Deployed("USDY") /\ args[9] \in Deployed("Blocklist")
        OBVIOUS
      <3>1. /\ DOMAIN Step.args = 1..10
            /\ Step.args[2] \in {"usdyProxy", "USDY"} /\ Step.args[9] = "Blocklist"
            /\ Assigned(Step.args[2]) /\ Assigned("Blocklist")
        BY <1>1 DEF GoodDeploy
      <3>2. args[2] = Value(Step.args[2]) /\ args[9] = Value("Blocklist")
        BY <3>1 DEF Values
      <3>3. args[2] # Zero
        BY <1>3 DEF Construct, CanConstruct
      <3>. HIDE DEF args
      <3>. QED BY <3>1, <3>2, <3>3, ValueIs, KnownAre DEF MayBeZero, DeploymentInv
    <2>. PICK kind : kind = Step.kind
      OBVIOUS
    <2>3. ChainInv' /\ Grows /\ Fresh(kind) \in Deployed(kind)'
      <3>. PICK n : n = created[kind] + 1
        OBVIOUS
      <3>. HIDE DEF args
      <3>. QED BY <1>1, <1>3, <2>1, <2>2, ConstructKeeps DEF DeploymentInv
    <2>4. ASSUME NEW name \in Known \cap DeploymentNames
          PROVE  deployments'[name] = deployments[name] \/ IsA(name, deployments[name].address)'
      <3>1. DOMAIN deployments = DeploymentNames
        BY DEF DeploymentInv, NamesOK
      <3>2. CASE name # Step.name
        BY <1>3, <3>1, <3>2
      <3>3. CASE name = Step.name
        <4>1. deployments'[name].address = Fresh(kind)
          BY <1>3, <3>1, <3>3
        <4>2. kind = KindOf[name]
          BY <1>1, <3>3 DEF GoodDeploy
        <4>. QED BY <2>3, <4>1, <4>2 DEF IsA
      <3>. QED BY <3>2, <3>3
    <2>5. NamesOK'
      BY <1>1, <1>3, <2>3, <2>4, NamesStay DEF DeploymentInv, NamesOK
    <2>6. ProposalsOK'
      BY <1>1, <2>3, ProposalsStay DEF DeploymentInv
    <2>. QED BY <1>1, <2>3, <2>5, <2>6 DEF DeploymentInv
  <1>. QED BY <1>2, <1>3 DEF RunDeploy

\* Steps that leave the chain and the proposals alone.
LEMMA QuietStep ==
  ASSUME DeploymentInv, UNCHANGED <<chainVars, network, proposals>>, ControlOK',
         DOMAIN local' = Variables, DOMAIN deployments' = DeploymentNames,
         \A name \in Known : local'[name] = local[name] \/ IsA(name, local'[name]),
         \A name \in Known \cap DeploymentNames :
           deployments'[name] = deployments[name] \/ IsA(name, deployments'[name].address)
  PROVE  DeploymentInv'
  <1>1. ChainInv' /\ Grows
    BY ChainFrame DEF DeploymentInv
  <1>2. ASSUME NEW name \in Known, NEW address, IsA(name, address) PROVE IsA(name, address)'
    BY <1>1, <1>2, IsAStays DEF DeploymentInv
  <1>3. \A name \in Known : IsA(name, local[name])'
    BY <1>2 DEF DeploymentInv, NamesOK
  <1>4. \A name \in Known \cap DeploymentNames : IsA(name, deployments[name].address)'
    BY <1>2 DEF DeploymentInv, NamesOK
  <1>5. NamesOK'
    BY <1>3, <1>4 DEF NamesOK
  <1>6. ProposalsOK'
    BY <1>1, ProposalsStay DEF DeploymentInv
  <1>. QED BY <1>1, <1>5, <1>6 DEF DeploymentInv

LEMMA RunGetKeeps == ASSUME DeploymentInv, RunGet PROVE DeploymentInv'
  <1>1. /\ Step.name \in DeploymentNames /\ UNCHANGED network /\ ControlOK'
        /\ UNCHANGED <<chainVars, deployments, proposals>>
        /\ local' = [local EXCEPT ![Step.name] = deployments[Step.name].address]
    BY GoingOn DEF RunGet, GoodStep, storeVars
  <1>2. NamesOK
    BY DEF DeploymentInv
  <1>3. \A name \in Known : local'[name] = local[name] \/ IsA(name, local'[name])
    BY <1>1, <1>2, KnownAre DEF NamesOK
  <1>4. DOMAIN local' = Variables /\ DOMAIN deployments' = DeploymentNames
    BY <1>1, <1>2 DEF NamesOK
  <1>. QED BY <1>1, <1>3, <1>4, QuietStep

LEMMA RunReadKeeps == ASSUME DeploymentInv, RunRead PROVE DeploymentInv'
  <1>1. /\ GoodRead(Step) /\ UNCHANGED network /\ ControlOK' /\ Exists(Value(Step.of))
        /\ UNCHANGED <<chainVars, deployments, proposals>>
        /\ local' = [local EXCEPT ![Step.name] = ref[<<Value(Step.of), Step.name>>]]
    BY GoingOn DEF RunRead, GoodStep, storeVars, GoOn, StepSucceeds
  <1>2. NamesOK /\ ChainInv
    BY DEF DeploymentInv
  <1>3. ASSUME NEW of \in {"USDYFactory", "AllowlistFactory"}, Step.of = of
        PROVE  \E n \in 1..MaxInstances : Value(Step.of) = <<of, n>>
    <2>1. Value(Step.of) = local[of] /\ of \in Known /\ of \notin MayBeZero /\ KindOf[of] = of
      BY <1>3, KnownAre DEF Value, MayBeZero
    <2>2. local[of] \in Deployed(of)
      BY <1>1, <1>2, <2>1, KindsAre DEF NamesOK, IsA, Exists, Absent, External
    <2>. QED BY <1>2, <2>1, <2>2, DeployedIs, KindsAre DEF ChainInv
  <1>4. ASSUME NEW name \in Known, name = Step.name
        PROVE  IsA(name, ref[<<Value(Step.of), Step.name>>])
    <2>1. CASE name = "usdyProxy"
      <3>1. PICK n \in 1..MaxInstances : Value(Step.of) = <<"USDYFactory", n>>
        BY <1>1, <1>3, <1>4, <2>1 DEF GoodRead
      <3>2. ref[<<Value(Step.of), "usdyProxy">>] \in {Zero} \cup Deployed("USDY")
        BY <1>2, <3>1, TokenSlots DEF ChainInv, RefsOK, FactoriesAnswer
      <3>. QED BY <1>4, <2>1, <3>2, KnownAre DEF IsA, MayBeZero
    <2>2. CASE name = "allowlistProxy"
      <3>1. PICK n \in 1..MaxInstances : Value(Step.of) = <<"AllowlistFactory", n>>
        BY <1>1, <1>3, <1>4, <2>2 DEF GoodRead
      <3>2. ref[<<Value(Step.of), "allowlistProxy">>] \in {Zero} \cup Deployed("Allowlist")
        BY <1>2, <3>1, TokenSlots DEF ChainInv, RefsOK, FactoriesAnswer
      <3>. QED BY <1>4, <2>2, <3>2, KnownAre DEF IsA, MayBeZero
    <2>. QED BY <1>1, <1>4, <2>1, <2>2 DEF GoodRead
  <1>5. \A name \in Known : local'[name] = local[name] \/ IsA(name, local'[name])
    BY <1>1, <1>2, <1>4, KnownAre DEF NamesOK
  <1>6. DOMAIN local' = Variables /\ DOMAIN deployments' = DeploymentNames
    BY <1>1, <1>2 DEF NamesOK
  <1>. QED BY <1>1, <1>5, <1>6, QuietStep

LEMMA RunSaveKeeps == ASSUME DeploymentInv, RunSave PROVE DeploymentInv'
  <1>1. /\ GoodSave(Step) /\ UNCHANGED network /\ ControlOK'
        /\ UNCHANGED <<chainVars, local, proposals>>
        /\ deployments' = [deployments EXCEPT ![Step.name] =
                             [address |-> Value(Step.of), args |-> <<>>]]
    BY GoingOn DEF RunSave, GoodStep
  <1>2. NamesOK
    BY DEF DeploymentInv
  <1>3. ASSUME NEW name \in Known \cap DeploymentNames
        PROVE  deployments'[name] = deployments[name] \/ IsA(name, deployments'[name].address)
    <2>1. CASE name # Step.name
      BY <1>1, <1>2, <2>1 DEF NamesOK
    <2>2. CASE name = Step.name
      <3>1. deployments'[name].address = Value(Step.of)
        BY <1>1, <1>2, <2>2 DEF NamesOK
      <3>2. /\ name \in MayBeZero /\ Step.of \in Known /\ KindOf[Step.of] = KindOf[name]
            /\ Value(Step.of) = local[Step.of]
        BY <1>1, <2>2, KnownAre DEF GoodSave, Value
      <3>. QED BY <1>2, <3>1, <3>2 DEF NamesOK, IsA
    <2>. QED BY <2>1, <2>2
  <1>4. DOMAIN local' = Variables /\ DOMAIN deployments' = DeploymentNames
    BY <1>1, <1>2 DEF NamesOK
  <1>. QED BY <1>1, <1>3, <1>4, QuietStep

LEMMA RunOthersKeep == ASSUME DeploymentInv, RunRequire \/ RunAddContract PROVE DeploymentInv'
  <1>1. UNCHANGED network /\ ControlOK' /\ UNCHANGED <<chainVars, deployments, local, proposals>>
    BY GoingOn DEF RunRequire, RunAddContract, storeVars
  <1>2. DOMAIN local' = Variables /\ DOMAIN deployments' = DeploymentNames
    BY <1>1 DEF DeploymentInv, NamesOK
  <1>. QED BY <1>1, <1>2, QuietStep

LEMMA RunProposeKeeps == ASSUME DeploymentInv, RunPropose PROVE DeploymentInv'
  <1>1. /\ GoodSend(Step, network) /\ \A name \in Step.uses : Assigned(name)
        /\ UNCHANGED network /\ ControlOK' /\ UNCHANGED <<chainVars, storeVars, local>>
        /\ proposals' = Bag!BagAdd(proposals, Transaction(Step))
    BY GoingOn DEF RunPropose, GoodStep
  <1>2. GoodCall(Transaction(Step))
    BY <1>1, TransactionIsGood DEF DeploymentInv
  <1>3. ChainInv' /\ Grows
    BY <1>1, ChainFrame DEF DeploymentInv
  <1>4. DOMAIN proposals' \subseteq DOMAIN proposals \cup {Transaction(Step)}
    BY <1>1 DEF Bag!BagAdd
  <1>5. ProposalsOK'
    BY <1>1, <1>2, <1>3, <1>4, ProposalsStay DEF DeploymentInv
  <1>6. NamesOK'
    BY <1>1, <1>3, NamesStay DEF DeploymentInv, NamesOK, storeVars
  <1>. QED BY <1>1, <1>3, <1>5, <1>6 DEF DeploymentInv

LEMMA RunTransactKeeps == ASSUME DeploymentInv, RunTransact PROVE DeploymentInv'
  <1>. PICK call : call = Transaction(Step)
    OBVIOUS
  <1>1. /\ GoodSend(Step, network) /\ \A name \in Step.uses : Assigned(name)
        /\ UNCHANGED network /\ ControlOK' /\ UNCHANGED <<storeVars, local, proposals>>
        /\ Call(External(Step.from), call)
    BY GoingOn DEF RunTransact, GoodStep
  <1>2. GoodCall(call) /\ call.from = External(Step.from)
    BY <1>1, TransactionIsGood DEF DeploymentInv, Transaction
  <1>3. ChainInv' /\ Grows
    BY <1>1, <1>2, CallKeeps DEF DeploymentInv
  <1>4. ProposalsOK'
    BY <1>1, <1>3, ProposalsStay DEF DeploymentInv
  <1>5. NamesOK'
    BY <1>1, <1>3, NamesStay DEF DeploymentInv, NamesOK, storeVars
  <1>. QED BY <1>1, <1>3, <1>4, <1>5 DEF DeploymentInv

LEMMA SafeExecutesKeeps ==
  ASSUME DeploymentInv, NEW proposal \in DOMAIN proposals, SafeExecutes(proposal)
  PROVE  DeploymentInv'
  <1>1. /\ UNCHANGED <<storeVars, scriptVars, network, next>>
        /\ Call(proposal.from, proposal)
        /\ proposals' = Bag!BagRemove(proposals, proposal)
    BY DEF SafeExecutes
  <1>2. ChainInv' /\ Grows
    BY <1>1, CallKeeps DEF DeploymentInv, ProposalsOK
  <1>3. DOMAIN proposals' \subseteq DOMAIN proposals
    BY <1>1 DEF Bag!BagRemove
  <1>4. ProposalsOK'
    BY <1>1, <1>2, <1>3, ProposalsStay DEF DeploymentInv
  <1>5. NamesOK'
    BY <1>1, <1>2, NamesStay DEF DeploymentInv, NamesOK, storeVars, scriptVars
  <1>6. ControlOK'
    BY <1>1 DEF DeploymentInv, ControlOK, scriptVars
  <1>. QED BY <1>2, <1>4, <1>5, <1>6 DEF DeploymentInv

LEMMA NextInv == DeploymentInv /\ [Next]_vars => DeploymentInv'
  <1>. SUFFICES ASSUME DeploymentInv, [Next]_vars PROVE DeploymentInv'
    OBVIOUS
  <1>1. CASE RunStep
    BY <1>1, RunDeployKeeps, RunGetKeeps, RunReadKeeps, RunSaveKeeps, RunOthersKeep,
       RunProposeKeeps, RunTransactKeeps DEF RunStep
  <1>2. CASE (\E track \in Tracks : Start(track)) \/ Finish \/ StepThrows \/ ScriptFails
    BY <1>2, OperatorSteps
  <1>3. CASE \E proposal \in DOMAIN proposals : SafeExecutes(proposal)
    BY <1>3, SafeExecutesKeeps
  <1>4. CASE UNCHANGED vars
    <2>1. /\ UNCHANGED <<chainVars, network, proposals, local, deployments>>
          /\ UNCHANGED <<running, next>>
      BY <1>4 DEF vars, storeVars, scriptVars
    <2>2. ControlOK' /\ DOMAIN local' = Variables /\ DOMAIN deployments' = DeploymentNames
      BY <2>1 DEF DeploymentInv, ControlOK, NamesOK
    <2>. QED BY <2>1, <2>2, QuietStep
  <1>. QED BY <1>1, <1>2, <1>3, <1>4 DEF Next

\* The invariant holds of every state that the scripts and the Safe can reach.
THEOREM DeploymentInvHolds == Spec => []DeploymentInv
  BY InitInv, NextInv, PTL DEF Spec

\* Whatever the order of the scripts and of the Safe's executions, and however often a
\* script is lost and run again: the guardian alone administers every token.
THEOREM TokensAnswer == Spec => []TokensAnswerToGuardian
  <1>1. DeploymentInv => TokensAnswerToGuardian
    BY ChainInvImplies DEF DeploymentInv
  <1>. QED BY <1>1, DeploymentInvHolds, PTL

\* The lists of a token are contracts, never the address(0) of one not deployed yet.
THEOREM RealLists == Spec => []TokensHaveRealLists
  <1>1. DeploymentInv => TokensHaveRealLists
    BY ChainInvImplies DEF DeploymentInv
  <1>. QED BY <1>1, DeploymentInvHolds, PTL

\* The token of a manager, which cannot be changed, is one that a factory deployed.
THEOREM RealTokens == Spec => []ManagersHoldRealTokens
  <1>1. DeploymentInv => ManagersHoldRealTokens
    BY ChainInvImplies DEF DeploymentInv
  <1>. QED BY <1>1, DeploymentInvHolds, PTL

-----------------------------------------------------------------------------
(* Types.  Every argument that a constructor or a transaction reads has to *)
(* be there, so the scripts have to pass enough of them.                   *)

\* args, members of S, are enough for the function fn.
ArgsFor(fn, args, S) ==
  /\ args \in Seq(S)
  /\ fn \in {"grantRole", "setPricer", "addPrice", "transferOwnership"} => Len(args) = 1
  /\ fn = "deployAllowlist" => Len(args) = 2
  /\ fn = "deployUSDY" => Len(args) = 3

\* ... and for the constructor of kind.
ConstructorArgs(kind, args, S) ==
  /\ args \in Seq(S)
  /\ kind \in {"AllowlistFactory", "USDYFactory"} => Len(args) = 1
  /\ kind = "Pricer" => Len(args) = 2
  /\ kind = "USDYManager" => Len(args) = 10

ScriptNames == Variables \cup ConstantNames

Factories == {"AllowlistFactory", "USDYFactory"}

TypedSend(s) == /\ s.from \in ConstantNames /\ s.to \in ScriptNames
                /\ s.fn \in FunctionNames /\ s.role \in RoleNames
                /\ ArgsFor(s.fn, s.args, ScriptNames)

TypedStep(s) ==
  /\ s.op = "deploy" => ConstructorArgs(s.kind, s.args, ScriptNames)
  /\ s.op = "read" => s.of \in Factories /\ s.name \in FieldsOf[s.of]
  /\ s.op \in {"save", "addContract"} => s.of \in ScriptNames
  /\ s.op \in {"propose", "transact"} => TypedSend(s)

TypedScript(script) == \A i \in DOMAIN script : TypedStep(script[i])

LEMMA DeployIsTyped ==
  ASSUME NEW name, NEW kind, NEW args, ConstructorArgs(kind, args, ScriptNames)
  PROVE  TypedStep(Deploy(name, kind, args))
  BY DEF TypedStep, Deploy

LEMMA DeployPlainIsTyped ==
  ASSUME NEW name, NEW kind,
         kind \notin {"AllowlistFactory", "USDYFactory", "Pricer", "USDYManager"}
  PROVE  TypedStep(Deploy(name, kind, <<>>))
  <1>1. ConstructorArgs(kind, <<>>, ScriptNames)
    BY DEF ConstructorArgs
  <1>. QED BY <1>1, DeployIsTyped

LEMMA DeployFactoryIsTyped ==
  ASSUME NEW name, NEW kind \in Factories, NEW a \in ScriptNames
  PROVE  TypedStep(Deploy(name, kind, <<a>>))
  <1>1. <<a>> \in Seq(ScriptNames) /\ Len(<<a>>) = 1
    OBVIOUS
  <1>2. ConstructorArgs(kind, <<a>>, ScriptNames)
    BY <1>1 DEF ConstructorArgs, Factories
  <1>. QED BY <1>2, DeployIsTyped

LEMMA DeployPricerIsTyped ==
  ASSUME NEW name, NEW kind, kind \notin {"AllowlistFactory", "USDYFactory", "USDYManager"},
         NEW a \in ScriptNames, NEW b \in ScriptNames
  PROVE  TypedStep(Deploy(name, kind, <<a, b>>))
  <1>1. <<a, b>> \in Seq(ScriptNames) /\ Len(<<a, b>>) = 2
    OBVIOUS
  <1>2. ConstructorArgs(kind, <<a, b>>, ScriptNames)
    BY <1>1 DEF ConstructorArgs
  <1>. QED BY <1>2, DeployIsTyped

LEMMA DeployManagerIsTyped ==
  ASSUME NEW a1 \in ScriptNames, NEW a2 \in ScriptNames, NEW a3 \in ScriptNames, NEW a4 \in ScriptNames,
         NEW a5 \in ScriptNames, NEW a6 \in ScriptNames, NEW a7 \in ScriptNames, NEW a8 \in ScriptNames,
         NEW a9 \in ScriptNames, NEW a10 \in ScriptNames
  PROVE  TypedStep(Deploy("USDYManager", "USDYManager", <<a1, a2, a3, a4, a5, a6, a7, a8, a9, a10>>))
  <1>. DEFINE args == <<a1, a2, a3, a4, a5, a6, a7, a8, a9, a10>>
  <1>1. args \in Seq(ScriptNames) /\ Len(args) = 10
    OBVIOUS
  <1>. SUFFICES TypedStep(Deploy("USDYManager", "USDYManager", args))
    OBVIOUS
  <1>. HIDE DEF args
  <1>. QED BY <1>1 DEF TypedStep, Deploy, ConstructorArgs

LEMMA GetIsTyped == ASSUME NEW name PROVE TypedStep(Get(name))
  BY DEF TypedStep, Get

LEMMA RequireIsTyped == ASSUME NEW name PROVE TypedStep(Require(name))
  BY DEF TypedStep, Require

LEMMA SaveIsTyped == ASSUME NEW name, NEW variable \in ScriptNames PROVE TypedStep(Save(name, variable))
  BY DEF TypedStep, Save

LEMMA AddContractIsTyped == ASSUME NEW variable \in ScriptNames PROVE TypedStep(AddContract(variable))
  BY DEF TypedStep, AddContract

LEMMA ReadIsTyped ==
  ASSUME NEW of \in Factories, NEW name \in FieldsOf[of]
  PROVE  TypedStep(Read(of, name))
  BY DEF TypedStep, Read

LEMMA SendIsTyped ==
  ASSUME NEW op, NEW from \in ConstantNames, NEW contract \in ScriptNames,
         NEW fn \in FunctionNames, NEW role \in RoleNames, NEW args, ArgsFor(fn, args, ScriptNames),
         op \in {"propose", "transact"}
  PROVE  TypedStep(Send(op, from, contract, fn, role, args))
  <1>. DEFINE s == Send(op, from, contract, fn, role, args)
  <1>1. /\ s.op = op /\ s.from = from /\ s.to = contract /\ s.fn = fn
        /\ s.role = role /\ s.args = args
    BY SendFields
  <1>. SUFFICES TypedStep(s)
    OBVIOUS
  <1>. HIDE DEF s
  <1>2. TypedSend(s)
    BY <1>1 DEF TypedSend
  <1>. QED BY <1>1, <1>2 DEF TypedStep

LEMMA AcceptIsTyped ==
  ASSUME NEW op \in {"propose", "transact"}, NEW from \in ConstantNames,
         NEW contract \in ScriptNames, NEW role \in RoleNames
  PROVE  TypedStep(Send(op, from, contract, "acceptOwnership", role, <<>>))
  <1>1. ArgsFor("acceptOwnership", <<>>, ScriptNames)
    BY DEF ArgsFor
  <1>. QED BY <1>1, SendIsTyped DEF FunctionNames

LEMMA SendOneIsTyped ==
  ASSUME NEW op \in {"propose", "transact"}, NEW from \in ConstantNames,
         NEW contract \in ScriptNames, NEW role \in RoleNames,
         NEW fn \in {"grantRole", "setPricer", "addPrice", "transferOwnership"}, NEW a \in ScriptNames
  PROVE  TypedStep(Send(op, from, contract, fn, role, <<a>>))
  <1>1. <<a>> \in Seq(ScriptNames) /\ Len(<<a>>) = 1
    OBVIOUS
  <1>2. ArgsFor(fn, <<a>>, ScriptNames)
    BY <1>1 DEF ArgsFor
  <1>. QED BY <1>2, SendIsTyped DEF FunctionNames

LEMMA SendDeployAllowlistIsTyped ==
  ASSUME NEW op \in {"propose", "transact"}, NEW from \in ConstantNames,
         NEW contract \in ScriptNames, NEW role \in RoleNames, NEW a \in ScriptNames, NEW b \in ScriptNames
  PROVE  TypedStep(Send(op, from, contract, "deployAllowlist", role, <<a, b>>))
  <1>1. <<a, b>> \in Seq(ScriptNames) /\ Len(<<a, b>>) = 2
    OBVIOUS
  <1>2. ArgsFor("deployAllowlist", <<a, b>>, ScriptNames)
    BY <1>1 DEF ArgsFor
  <1>. QED BY <1>2, SendIsTyped DEF FunctionNames

LEMMA SendDeployUSDYIsTyped ==
  ASSUME NEW op \in {"propose", "transact"}, NEW from \in ConstantNames,
         NEW contract \in ScriptNames, NEW role \in RoleNames,
         NEW a \in ScriptNames, NEW b \in ScriptNames, NEW c \in ScriptNames
  PROVE  TypedStep(Send(op, from, contract, "deployUSDY", role, <<a, b, c>>))
  <1>1. <<a, b, c>> \in Seq(ScriptNames) /\ Len(<<a, b, c>>) = 3
    OBVIOUS
  <1>2. ArgsFor("deployUSDY", <<a, b, c>>, ScriptNames)
    BY <1>1 DEF ArgsFor
  <1>. QED BY <1>2, SendIsTyped DEF FunctionNames

LEMMA NamesAre ==
  /\ ConstantNames = {PROD_GUARDIAN_USDY, PROD_GUARDIAN_OMMF, PROD_FEE_RECIPIENT_USDY,
                      PROD_MANAGER_ADMIN_USDY, PROD_PAUSER_USDY, PROD_ASSET_SENDER_USDY,
                      USDC_MAINNET, SANCTION_ADDRESS,
                      "deployer", "guardian", "managerAdmin", "pauser", "assetSender",
                      "feeRecipient", "relayer", "500e6", "500e18", "1000e6", "10e18"}
  /\ ConstantNames \subseteq ScriptNames
  /\ Variables \subseteq ScriptNames
  BY DEF ConstantNames, MainnetConstants, Signers, Amounts, ScriptNames, Variables

LEMMA VariablesAre ==
  Variables = {"AllowlistFactory", "Allowlist", "ProxyAdminAllowlist", "AllowlistImplementation",
               "Blocklist", "USDYFactory", "USDY", "ProxyAdminUSDY", "USDYImplementation",
               "USDYManager", "USDY_Pricer", "allowlistProxy", "allowlistProxyAdmin",
               "allowlistImplementation", "usdyProxy", "usdyProxyAdmin", "usdyImplementation"}
  BY DEF Variables, DeploymentNames, Getters

LEMMA ScriptNamesAre ==
  /\ {PROD_GUARDIAN_USDY, PROD_GUARDIAN_OMMF, PROD_FEE_RECIPIENT_USDY, PROD_MANAGER_ADMIN_USDY,
      PROD_PAUSER_USDY, PROD_ASSET_SENDER_USDY, USDC_MAINNET, SANCTION_ADDRESS,
      "deployer", "guardian", "managerAdmin", "pauser", "assetSender", "feeRecipient", "relayer",
      "500e6", "500e18", "1000e6", "10e18"} \subseteq ScriptNames
  /\ {"AllowlistFactory", "Allowlist", "ProxyAdminAllowlist", "AllowlistImplementation",
      "Blocklist", "USDYFactory", "USDY", "ProxyAdminUSDY", "USDYImplementation",
      "USDYManager", "USDY_Pricer", "allowlistProxy", "allowlistProxyAdmin",
      "allowlistImplementation", "usdyProxy", "usdyProxyAdmin", "usdyImplementation"}
       \subseteq ScriptNames
  BY NamesAre, VariablesAre

LEMMA PricerIs == USDYPricer \notin {"AllowlistFactory", "USDYFactory", "USDYManager"}
  BY PricerAssumption, KindsAre

LEMMA CallNamesAre ==
  /\ FunctionNames = {"deployAllowlist", "deployUSDY", "grantRole", "setPricer", "addPrice",
                      "transferOwnership", "acceptOwnership"}
  /\ {"none", "MINTER_ROLE", "PAUSER_ROLE", "PRICE_ID_SETTER_ROLE", "TIMESTAMP_SETTER_ROLE",
      "LIST_CONFIGURER_ROLE", "RELAYER_ROLE", "PAUSER_ADMIN"} \subseteq RoleNames
  <1>1. /\ {"USDY", "USDYManager"} \subseteq DOMAIN RolesOf
        /\ "MINTER_ROLE" \in RolesOf["USDY"]
        /\ {"PAUSER_ROLE", "PRICE_ID_SETTER_ROLE", "TIMESTAMP_SETTER_ROLE",
            "LIST_CONFIGURER_ROLE", "RELAYER_ROLE", "PAUSER_ADMIN"} \subseteq RolesOf["USDYManager"]
    BY DEF RolesOf
  <1>2. \A kind \in DOMAIN RolesOf : RolesOf[kind] \subseteq RoleNames
    BY DEF RoleNames
  <1>3. "none" \in RoleNames
    BY DEF RoleNames
  <1>4. RolesOf["USDY"] \subseteq RoleNames /\ RolesOf["USDYManager"] \subseteq RoleNames
    BY <1>1, <1>2
  <1>. QED BY <1>1, <1>3, <1>4 DEF FunctionNames

LEMMA ReadsAreTyped ==
  /\ \A name \in {"allowlistProxy", "allowlistProxyAdmin", "allowlistImplementation"} :
       TypedStep(Read("AllowlistFactory", name))
  /\ \A name \in {"usdyProxy", "usdyProxyAdmin", "usdyImplementation"} :
       TypedStep(Read("USDYFactory", name))
  BY ReadIsTyped DEF Factories, FieldsOf

\* The calls as the scripts write them.
LEMMA CallsAreTyped ==
  ASSUME NEW contract \in ScriptNames, NEW a \in ScriptNames
  PROVE  /\ \A role \in RoleNames : TypedStep(ProposeGrantRole(contract, role, a))
         /\ TypedStep(ProposeFunctionCall(contract, "setPricer", <<a>>))
         /\ \A b \in ScriptNames : TypedStep(ProposeFunctionCall(contract, "deployAllowlist", <<a, b>>))
         /\ \A b, c \in ScriptNames : TypedStep(ProposeFunctionCall(contract, "deployUSDY", <<a, b, c>>))
  <1>1. PROD_GUARDIAN_USDY \in ConstantNames /\ "none" \in RoleNames
    BY NamesAre, CallNamesAre
  <1>2. \A role \in RoleNames : TypedStep(ProposeGrantRole(contract, role, a))
    BY <1>1, SendOneIsTyped DEF ProposeGrantRole
  <1>3. TypedStep(ProposeFunctionCall(contract, "setPricer", <<a>>))
    BY <1>1, SendOneIsTyped DEF ProposeFunctionCall
  <1>4. \A b \in ScriptNames : TypedStep(ProposeFunctionCall(contract, "deployAllowlist", <<a, b>>))
    BY <1>1, SendDeployAllowlistIsTyped DEF ProposeFunctionCall
  <1>5. \A b, c \in ScriptNames : TypedStep(ProposeFunctionCall(contract, "deployUSDY", <<a, b, c>>))
    BY <1>1, SendDeployUSDYIsTyped DEF ProposeFunctionCall
  <1>. QED BY <1>2, <1>3, <1>4, <1>5

LEMMA LocalCallsAreTyped ==
  ASSUME NEW signer \in Signers, NEW contract \in ScriptNames, NEW a \in ScriptNames
  PROVE  /\ \A role \in RoleNames : TypedStep(TransactGrantRole(signer, contract, role, a))
         /\ \A fn \in {"setPricer", "addPrice", "transferOwnership"} :
              TypedStep(Transact(signer, contract, fn, <<a>>))
         /\ TypedStep(Transact(signer, contract, "acceptOwnership", <<>>))
         /\ \A b \in ScriptNames : TypedStep(Transact(signer, contract, "deployAllowlist", <<a, b>>))
         /\ \A b, c \in ScriptNames : TypedStep(Transact(signer, contract, "deployUSDY", <<a, b, c>>))
  <1>1. signer \in ConstantNames /\ "none" \in RoleNames
    BY CallNamesAre DEF ConstantNames
  <1>2. \A role \in RoleNames : TypedStep(TransactGrantRole(signer, contract, role, a))
    BY <1>1, SendOneIsTyped DEF TransactGrantRole
  <1>3. \A fn \in {"setPricer", "addPrice", "transferOwnership"} :
          TypedStep(Transact(signer, contract, fn, <<a>>))
    BY <1>1, SendOneIsTyped DEF Transact
  <1>4. TypedStep(Transact(signer, contract, "acceptOwnership", <<>>))
    BY <1>1, AcceptIsTyped DEF Transact
  <1>5. \A b \in ScriptNames : TypedStep(Transact(signer, contract, "deployAllowlist", <<a, b>>))
    BY <1>1, SendDeployAllowlistIsTyped DEF Transact
  <1>6. \A b, c \in ScriptNames : TypedStep(Transact(signer, contract, "deployUSDY", <<a, b, c>>))
    BY <1>1, SendDeployUSDYIsTyped DEF Transact
  <1>. QED BY <1>2, <1>3, <1>4, <1>5, <1>6

LEMMA GrantsAreTyped ==
  ASSUME NEW contract \in ScriptNames, NEW role \in RoleNames, NEW account \in ScriptNames
  PROVE  TypedStep(ProposeGrantRole(contract, role, account))
  BY CallsAreTyped

LEMMA LocalGrantsAreTyped ==
  ASSUME NEW signer \in Signers, NEW contract \in ScriptNames, NEW role \in RoleNames,
         NEW account \in ScriptNames
  PROVE  TypedStep(TransactGrantRole(signer, contract, role, account))
  BY LocalCallsAreTyped

LEMMA ProductionDeploysAreTyped ==
  /\ TypedScript(deployAllowlist_Factory)
  /\ TypedScript(deployBlocklist)
  /\ TypedScript(deployUSDY_Factory)
  /\ TypedScript(deploy_usdyManager)
  /\ TypedScript(deploy_usdyPricer)
  <1>1. TypedScript(deployAllowlist_Factory)
    BY DeployFactoryIsTyped, ScriptNamesAre DEF TypedScript, deployAllowlist_Factory, Factories
  <1>2. TypedScript(deployBlocklist)
    BY DeployPlainIsTyped DEF TypedScript, deployBlocklist
  <1>3. TypedScript(deployUSDY_Factory)
    BY DeployFactoryIsTyped, ScriptNamesAre DEF TypedScript, deployUSDY_Factory, Factories
  <1>4. TypedScript(deploy_usdyManager)
    <2>. DEFINE s == deploy_usdyManager
    <2>. SUFFICES ASSUME NEW i \in 1..7 PROVE TypedStep(s[i])
      BY DEF TypedScript, deploy_usdyManager
    <2>1. CASE i \in {1, 2, 3, 6}
      BY <2>1, GetIsTyped, RequireIsTyped DEF deploy_usdyManager
    <2>2. CASE i \in 4..5
      BY <2>2, ReadsAreTyped DEF deploy_usdyManager
    <2>3. CASE i = 7
      BY <2>3, DeployManagerIsTyped, ScriptNamesAre DEF deploy_usdyManager
    <2>. QED BY <2>1, <2>2, <2>3
  <1>5. TypedScript(deploy_usdyPricer)
    BY DeployPricerIsTyped, PricerIs, ScriptNamesAre DEF TypedScript, deploy_usdyPricer
  <1>. QED BY <1>1, <1>2, <1>3, <1>4, <1>5

LEMMA ProductionTasksAreTyped ==
  /\ TypedScript(task1_usdy_prod)
  /\ TypedScript(task2_save_usdy_prod)
  /\ TypedScript(task3_usdy_prod)
  /\ TypedScript(task4_save_usdy_prod)
  /\ TypedScript(task5_usdyManager_prod)
  <1>1. TypedScript(task1_usdy_prod)
    <2>. DEFINE s == task1_usdy_prod
    <2>. SUFFICES ASSUME NEW i \in 1..3 PROVE TypedStep(s[i])
      BY DEF TypedScript, task1_usdy_prod
    <2>1. CASE i \in 1..2
      BY <2>1, GetIsTyped, AddContractIsTyped, ScriptNamesAre DEF task1_usdy_prod
    <2>2. CASE i = 3
      BY <2>2, CallsAreTyped, ScriptNamesAre DEF task1_usdy_prod
    <2>. QED BY <2>1, <2>2
  <1>2. TypedScript(task2_save_usdy_prod)
    <2>. DEFINE s == task2_save_usdy_prod
    <2>. SUFFICES ASSUME NEW i \in 1..7 PROVE TypedStep(s[i])
      BY DEF TypedScript, task2_save_usdy_prod
    <2>1. CASE i \in {1, 4, 5, 6, 7}
      BY <2>1, GetIsTyped, SaveIsTyped, AddContractIsTyped, ScriptNamesAre DEF task2_save_usdy_prod
    <2>2. CASE i \in 2..3
      BY <2>2, ReadsAreTyped DEF task2_save_usdy_prod
    <2>. QED BY <2>1, <2>2
  <1>3. TypedScript(task3_usdy_prod)
    <2>. DEFINE s == task3_usdy_prod
    <2>. SUFFICES ASSUME NEW i \in 1..5 PROVE TypedStep(s[i])
      BY DEF TypedScript, task3_usdy_prod
    <2>1. CASE i \in 1..4
      BY <2>1, GetIsTyped, AddContractIsTyped, ScriptNamesAre DEF task3_usdy_prod
    <2>2. CASE i = 5
      BY <2>2, CallsAreTyped, ScriptNamesAre DEF task3_usdy_prod
    <2>. QED BY <2>1, <2>2
  <1>4. TypedScript(task4_save_usdy_prod)
    <2>. DEFINE s == task4_save_usdy_prod
    <2>. SUFFICES ASSUME NEW i \in 1..7 PROVE TypedStep(s[i])
      BY DEF TypedScript, task4_save_usdy_prod
    <2>1. CASE i \in {1, 4, 5, 6, 7}
      BY <2>1, GetIsTyped, SaveIsTyped, AddContractIsTyped, ScriptNamesAre DEF task4_save_usdy_prod
    <2>2. CASE i \in 2..3
      BY <2>2, ReadsAreTyped DEF task4_save_usdy_prod
    <2>. QED BY <2>1, <2>2
  <1>5. TypedScript(task5_usdyManager_prod)
    <2>. DEFINE s == task5_usdyManager_prod
    <2>. SUFFICES ASSUME NEW i \in 1..13 PROVE TypedStep(s[i])
      BY DEF TypedScript, task5_usdyManager_prod
    <2>1. CASE i \in 1..5
      BY <2>1, GetIsTyped, AddContractIsTyped, ScriptNamesAre DEF task5_usdyManager_prod
    <2>2. CASE i = 8
      BY <2>2, CallsAreTyped, ScriptNamesAre DEF task5_usdyManager_prod
    <2>3. CASE i \in {6, 7, 9, 10, 11, 12, 13}
      BY <2>3, GrantsAreTyped, ScriptNamesAre, CallNamesAre DEF task5_usdyManager_prod
    <2>. QED BY <2>1, <2>2, <2>3
  <1>. QED BY <1>1, <1>2, <1>3, <1>4, <1>5

LEMMA LocalDeploysAreTyped ==
  /\ TypedScript(local_deploy_allowlist)
  /\ TypedScript(local_deploy_blocklist)
  /\ TypedScript(local_deploy_pricer)
  /\ TypedScript(local_deploy_usdy_factory)
  /\ TypedScript(local_deploy_usdyManager)
  <1>1. TypedScript(local_deploy_allowlist)
    <2>. DEFINE s == local_deploy_allowlist
    <2>. SUFFICES ASSUME NEW i \in 1..9 PROVE TypedStep(s[i])
      BY DEF TypedScript, local_deploy_allowlist
    <2>1. CASE i = 1
      BY <2>1, DeployFactoryIsTyped, ScriptNamesAre DEF local_deploy_allowlist, Factories
    <2>2. CASE i \in {2, 7, 8, 9}
      BY <2>2, GetIsTyped, SaveIsTyped, ScriptNamesAre DEF local_deploy_allowlist
    <2>3. CASE i = 3
      BY <2>3, LocalCallsAreTyped, ScriptNamesAre DEF local_deploy_allowlist, Signers
    <2>4. CASE i \in 4..6
      BY <2>4, ReadsAreTyped DEF local_deploy_allowlist
    <2>. QED BY <2>1, <2>2, <2>3, <2>4
  <1>2. TypedScript(local_deploy_blocklist)
    <2>. DEFINE s == local_deploy_blocklist
    <2>. SUFFICES ASSUME NEW i \in 1..4 PROVE TypedStep(s[i])
      BY DEF TypedScript, local_deploy_blocklist
    <2>1. CASE i = 1
      BY <2>1, DeployPlainIsTyped DEF local_deploy_blocklist
    <2>2. CASE i = 2
      BY <2>2, GetIsTyped DEF local_deploy_blocklist
    <2>3. CASE i \in 3..4
      BY <2>3, LocalCallsAreTyped, ScriptNamesAre DEF local_deploy_blocklist, Signers
    <2>. QED BY <2>1, <2>2, <2>3
  <1>3. TypedScript(local_deploy_pricer)
    <2>. DEFINE s == local_deploy_pricer
    <2>. SUFFICES ASSUME NEW i \in 1..3 PROVE TypedStep(s[i])
      BY DEF TypedScript, local_deploy_pricer
    <2>1. CASE i = 1
      BY <2>1, DeployPricerIsTyped, ScriptNamesAre DEF local_deploy_pricer
    <2>2. CASE i = 2
      BY <2>2, GetIsTyped DEF local_deploy_pricer
    <2>3. CASE i = 3
      BY <2>3, LocalCallsAreTyped, ScriptNamesAre DEF local_deploy_pricer, Signers
    <2>. QED BY <2>1, <2>2, <2>3
  <1>4. TypedScript(local_deploy_usdy_factory)
    <2>. DEFINE s == local_deploy_usdy_factory
    <2>. SUFFICES ASSUME NEW i \in 1..11 PROVE TypedStep(s[i])
      BY DEF TypedScript, local_deploy_usdy_factory
    <2>1. CASE i = 1
      BY <2>1, DeployFactoryIsTyped, ScriptNamesAre DEF local_deploy_usdy_factory, Factories
    <2>2. CASE i \in {2, 3, 4, 9, 10, 11}
      BY <2>2, GetIsTyped, SaveIsTyped, ScriptNamesAre DEF local_deploy_usdy_factory
    <2>3. CASE i = 5
      BY <2>3, LocalCallsAreTyped, ScriptNamesAre DEF local_deploy_usdy_factory, Signers
    <2>4. CASE i \in 6..8
      BY <2>4, ReadsAreTyped DEF local_deploy_usdy_factory
    <2>. QED BY <2>1, <2>2, <2>3, <2>4
  <1>5. TypedScript(local_deploy_usdyManager)
    <2>. DEFINE s == local_deploy_usdyManager
    <2>. SUFFICES ASSUME NEW i \in 1..11 PROVE TypedStep(s[i])
      BY DEF TypedScript, local_deploy_usdyManager
    <2>1. CASE i \in {1, 2, 4, 5}
      BY <2>1, GetIsTyped DEF local_deploy_usdyManager
    <2>2. CASE i = 3
      BY <2>2, DeployManagerIsTyped, ScriptNamesAre DEF local_deploy_usdyManager
    <2>3. CASE i \in 6..10
      BY <2>3, LocalGrantsAreTyped, ScriptNamesAre, CallNamesAre DEF local_deploy_usdyManager, Signers
    <2>4. CASE i = 11
      BY <2>4, LocalCallsAreTyped, ScriptNamesAre DEF local_deploy_usdyManager, Signers
    <2>. QED BY <2>1, <2>2, <2>3, <2>4
  <1>. QED BY <1>1, <1>2, <1>3, <1>4, <1>5

LEMMA ScriptsAreTyped ==
  ASSUME NEW n \in Networks, NEW t \in Tracks, NEW i \in DOMAIN Scripts[n][t]
  PROVE  TypedScript(Scripts[n][t][i])
  <1>1. CASE n = "production" /\ t = "deploy"
    BY <1>1, ProductionDeploysAreTyped DEF Scripts
  <1>2. CASE n = "production" /\ t = "task"
    BY <1>2, ProductionTasksAreTyped DEF Scripts
  <1>3. CASE n = "local" /\ t = "deploy"
    BY <1>3, LocalDeploysAreTyped DEF Scripts
  <1>4. CASE n = "local" /\ t = "task"
    BY <1>4 DEF Scripts
  <1>. QED BY <1>1, <1>2, <1>3, <1>4 DEF Networks, Tracks

LEMMA StepIsTyped ==
  ASSUME ControlOK, IsRunning
  PROVE  TypedStep(Step)
  <1>1. /\ running \in Tracks /\ network \in Networks
        /\ next[running] \in DOMAIN Scripts[network][running]
        /\ step \in DOMAIN Scripts[network][running][next[running]]
    BY DEF ControlOK, IsRunning, Script
  <1>2. TypedScript(Scripts[network][running][next[running]])
    BY <1>1, ScriptsAreTyped
  <1>. QED BY <1>1, <1>2 DEF TypedScript, Step, Script

\* A transaction keeps the arguments that its function reads.
ArgsOK == \A p \in DOMAIN proposals : ArgsFor(p.fn, p.args, Address)

ChainTyped == ChainTypeOK(Address)

LEMMA ElementsAre == ASSUME NEW S, NEW s \in Seq(S) PROVE \A i \in 1..Len(s) : s[i] \in S
  OBVIOUS

LEMMA GrantedIsTyped ==
  ASSUME NEW S, NEW m \in [RoleSlots -> Seq(S)], NEW slot, NEW account \in S
  PROVE  Granted(m, slot, account) \in [RoleSlots -> Seq(S)]
  <1>1. \A s \in Seq(S) : Append(s, account) \in Seq(S)
    OBVIOUS
  <1>. QED BY <1>1 DEF Granted

LEMMA RevokedIsTyped ==
  ASSUME NEW S, NEW m \in [RoleSlots -> Seq(S)], NEW slot, NEW account
  PROVE  Revoked(m, slot, account) \in [RoleSlots -> Seq(S)]
  <1>1. ASSUME NEW s \in Seq(S), account \in Range(s)
        PROVE  WithoutMember(s, account) \in Seq(S)
    <2>1. Len(s) - 1 \in Nat
      BY <1>1 DEF Range
    <2>2. \A i \in 1..(Len(s) - 1) : s[i] \in S /\ s[Len(s)] \in S
      BY <2>1
    <2>. QED BY <2>1, <2>2 DEF WithoutMember
  <1>. QED BY <1>1 DEF Revoked

LEMMA AddressesAre ==
  ASSUME ChainTyped
  PROVE  /\ \A kind \in Kinds : Fresh(kind) \in Address
         /\ Zero \in Address /\ Absent \in Address
         /\ \A name \in ConstantNames : External(name) \in Address
  BY DEF ChainTyped, ChainTypeOK, Fresh, Zero, Absent, External, Address

LEMMA DeployUSDYTyped ==
  ASSUME ChainTyped, NEW sender \in Address, NEW factory \in Address, NEW lists,
         lists \in Seq(Address), Len(lists) = 3, DeployUSDY(sender, factory, lists)
  PROVE  /\ members' \in [RoleSlots -> Seq(Address)]
         /\ ref' \in [FieldSlots -> Address]
  <1>1. /\ Fresh("USDY") \in Address /\ Fresh("USDYProxyAdmin") \in Address
        /\ Fresh("USDYImplementation") \in Address
    BY AddressesAre, KindsAre
  <1>2. lists[1] \in Address /\ lists[2] \in Address /\ lists[3] \in Address
    <2>1. \A i \in 1..3 : lists[i] \in Address
      BY ElementsAre
    <2>. QED BY <2>1
  <1>3. ref \in [FieldSlots -> Address] /\ members \in [RoleSlots -> Seq(Address)]
    BY DEF ChainTyped, ChainTypeOK
  <1>4. ref' \in [FieldSlots -> Address]
    BY <1>1, <1>3, <1>2 DEF DeployUSDY
  <1>5. members' = RolesAfterDeployUSDY(Fresh("USDY"), factory, sender)
    BY DEF DeployUSDY
  <1>6. \A token : RolesAfterDeployUSDY(token, factory, sender) \in [RoleSlots -> Seq(Address)]
    BY <1>3, GrantedIsTyped, RevokedIsTyped DEF RolesAfterDeployUSDY
  <1>. QED BY <1>4, <1>5, <1>6

LEMMA DeployAllowlistTyped ==
  ASSUME ChainTyped, NEW sender \in Address, NEW factory, NEW admin \in Address,
         NEW setter \in Address, DeployAllowlist(sender, factory, admin, setter)
  PROVE  /\ members' \in [RoleSlots -> Seq(Address)]
         /\ ref' \in [FieldSlots -> Address]
  <1>1. /\ Fresh("Allowlist") \in Address /\ Fresh("AllowlistProxyAdmin") \in Address
        /\ Fresh("AllowlistImplementation") \in Address
    BY AddressesAre, KindsAre
  <1>2. ref \in [FieldSlots -> Address] /\ members \in [RoleSlots -> Seq(Address)]
    BY DEF ChainTyped, ChainTypeOK
  <1>3. ref' \in [FieldSlots -> Address]
    BY <1>1, <1>2 DEF DeployAllowlist
  <1>4. members' \in [RoleSlots -> Seq(Address)]
    BY <1>2, GrantedIsTyped DEF DeployAllowlist
  <1>. QED BY <1>3, <1>4

LEMMA CallTyped ==
  ASSUME ChainTyped, NEW call, call.from \in Address, call.to \in Address,
         ArgsFor(call.fn, call.args, Address), Call(call.from, call)
  PROVE  /\ members' \in [RoleSlots -> Seq(Address)]
         /\ ref' \in [FieldSlots -> Address]
  <1>1. ref \in [FieldSlots -> Address] /\ members \in [RoleSlots -> Seq(Address)]
    BY DEF ChainTyped, ChainTypeOK
  <1>2. CASE call.fn = "deployAllowlist"
             /\ DeployAllowlist(call.from, call.to, call.args[1], call.args[2])
    <2>1. call.args[1] \in Address /\ call.args[2] \in Address
      BY <1>2 DEF ArgsFor
    <2>. QED BY <1>2, <2>1, DeployAllowlistTyped
  <1>3. CASE call.fn = "deployUSDY" /\ DeployUSDY(call.from, call.to, call.args)
    BY <1>3, DeployUSDYTyped DEF ArgsFor
  <1>4. CASE GrantRole(call)
    <2>1. call.args[1] \in Address
      BY <1>4 DEF ArgsFor, GrantRole
    <2>. QED BY <1>1, <1>4, <2>1, GrantedIsTyped DEF GrantRole
  <1>5. CASE SetPricer(call) \/ AddPrice(call) \/ TransferOwnership(call)
    <2>1. call.args[1] \in Address
      BY <1>5 DEF ArgsFor, SetPricer, AddPrice, TransferOwnership
    <2>. QED BY <1>1, <1>5, <2>1 DEF SetPricer, AddPrice, TransferOwnership
  <1>6. CASE AcceptOwnership(call.from, call)
    BY <1>1, <1>6, AddressesAre DEF AcceptOwnership
  <1>7. CASE UNCHANGED chainVars
    BY <1>1, <1>7 DEF chainVars
  <1>. QED BY <1>2, <1>3, <1>4, <1>5, <1>6, <1>7 DEF Call

LEMMA ConstructTyped ==
  ASSUME ChainTyped, NEW kind, NEW sender \in Address, NEW args,
         ConstructorArgs(kind, args, Address), Construct(kind, sender, args)
  PROVE  /\ members' \in [RoleSlots -> Seq(Address)]
         /\ ref' \in [FieldSlots -> Address]
         /\ Fresh(kind) \in Address
  <1>1. ref \in [FieldSlots -> Address] /\ members \in [RoleSlots -> Seq(Address)]
    BY DEF ChainTyped, ChainTypeOK
  <1>2. Fresh(kind) \in Address
    BY AddressesAre DEF Construct, CanConstruct
  <1>3. /\ ref' = RefsAfterConstruct(kind, Fresh(kind), sender, args)
        /\ members' = RolesAfterConstruct(kind, Fresh(kind), args)
    BY DEF Construct
  <1>4. \A i \in 1..Len(args) : args[i] \in Address
    BY ElementsAre DEF ConstructorArgs
  <1>5. CASE kind \in {"AllowlistFactory", "USDYFactory"}
    <2>1. args[1] \in Address
      BY <1>4, <1>5 DEF ConstructorArgs
    <2>. QED BY <1>1, <1>2, <1>3, <1>5, <2>1 DEF RefsAfterConstruct, RolesAfterConstruct
  <1>6. CASE kind = "USDYManager"
    <2>1. Len(args) = 10
      BY <1>6 DEF ConstructorArgs
    <2>2. /\ args[1] \in Address /\ args[2] \in Address /\ args[3] \in Address
          /\ args[4] \in Address /\ args[5] \in Address /\ args[6] \in Address
          /\ args[7] \in Address /\ args[8] \in Address /\ args[9] \in Address
          /\ args[10] \in Address
      BY <1>4, <2>1
    <2>3. RefsAfterConstruct(kind, Fresh(kind), sender, args) \in [FieldSlots -> Address]
      BY <1>1, <1>6, <2>2 DEF RefsAfterConstruct
    <2>4. RolesAfterConstruct(kind, Fresh(kind), args) \in [RoleSlots -> Seq(Address)]
      BY <1>1, <1>6, <2>2, GrantedIsTyped DEF RolesAfterConstruct
    <2>. QED BY <1>2, <1>3, <2>3, <2>4
  <1>7. CASE kind = "Pricer"
    <2>1. args[1] \in Address /\ args[2] \in Address
      BY <1>4, <1>7 DEF ConstructorArgs
    <2>. QED BY <1>1, <1>2, <1>3, <1>7, <2>1, GrantedIsTyped DEF RefsAfterConstruct, RolesAfterConstruct
  <1>8. CASE kind \notin {"AllowlistFactory", "USDYFactory", "USDYManager", "Pricer"}
    BY <1>1, <1>2, <1>3, <1>8 DEF RefsAfterConstruct, RolesAfterConstruct
  <1>. QED BY <1>5, <1>6, <1>7, <1>8

-----------------------------------------------------------------------------
TypedInv == TypeOK /\ ArgsOK

LEMMA ValueIsTyped ==
  ASSUME TypedInv, NEW name \in ScriptNames
  PROVE  Value(name) \in Address
  BY AddressesAre DEF TypedInv, TypeOK, ChainTyped, Value, ScriptNames

LEMMA ValuesAreTyped ==
  ASSUME TypedInv, NEW names \in Seq(ScriptNames)
  PROVE  Values(names) \in Seq(Address) /\ Len(Values(names)) = Len(names)
  <1>1. \A i \in 1..Len(names) : Value(names[i]) \in Address
    BY ValueIsTyped
  <1>2. Values(names) = [i \in 1..Len(names) |-> Value(names[i])]
    BY DEF Values
  <1>. QED BY <1>1, <1>2

LEMMA TransactionIsTyped ==
  ASSUME TypedInv, NEW s, TypedSend(s)
  PROVE  /\ Transaction(s) \in [from : Address, to : Address, fn : FunctionNames, role : RoleNames,
                                args : Seq(Address)]
         /\ ArgsFor(s.fn, Transaction(s).args, Address)
  <1>1. ChainTyped
    BY DEF TypedInv, TypeOK, ChainTyped
  <1>2. External(s.from) \in Address /\ Value(s.to) \in Address
    BY <1>1, ValueIsTyped, AddressesAre DEF TypedSend
  <1>3. Values(s.args) \in Seq(Address) /\ Len(Values(s.args)) = Len(s.args)
    BY ValuesAreTyped DEF TypedSend, ArgsFor
  <1>4. s.fn \in FunctionNames /\ s.role \in RoleNames
    BY DEF TypedSend
  <1>5. ArgsFor(s.fn, Values(s.args), Address)
    BY <1>3 DEF TypedSend, ArgsFor
  <1>. QED BY <1>2, <1>3, <1>4, <1>5 DEF Transaction

ControlTyped ==
  /\ network \in Networks
  /\ next \in [Tracks -> Nat]
  /\ running \in Tracks \cup {"none"}
  /\ step \in Nat
  /\ failures \in 0..MaxFailures
  /\ undone \subseteq Tracks
  /\ hasty \in BOOLEAN

StoreTyped ==
  /\ local \in [Variables -> Address]
  /\ deployments \in [DeploymentNames -> [address : Address, args : Seq(Address)]]
  /\ registered \subseteq Address

Transactions == [from : Address, to : Address, fn : FunctionNames, role : RoleNames,
                 args : Seq(Address)]

ProposalsTyped == /\ proposals \in [DOMAIN proposals -> Nat \ {0}]
                  /\ \A p \in DOMAIN proposals : p \in Transactions
                  /\ ArgsOK

LEMMA TypedInvIs ==
  TypedInv <=> ChainTyped /\ ControlTyped /\ StoreTyped /\ ProposalsTyped
  BY DEF TypedInv, TypeOK, ChainTyped, ControlTyped, StoreTyped, ProposalsTyped, Transactions

LEMMA InitTyped == Init => TypedInv
  <1>. SUFFICES ASSUME Init PROVE TypedInv
    OBVIOUS
  <1>1. ChainTyped
    <2>1. Zero \in Address /\ <<>> \in Seq(Address)
      BY DEF Zero, External, Address
    <2>. QED BY <2>1, InstancesAssumption DEF Init, ChainInit, ChainTyped, ChainTypeOK
  <1>2. ControlTyped
    <2>1. network \in Networks /\ next \in [Tracks -> Nat] /\ step \in Nat /\ undone \subseteq Tracks
      BY DeploymentAssumption DEF Init
    <2>2. failures \in 0..MaxFailures /\ running \in Tracks \cup {"none"}
      BY DeploymentAssumption DEF Init
    <2>3. hasty \in BOOLEAN
      BY DEF Init
    <2>. QED BY <2>1, <2>2, <2>3 DEF ControlTyped
  <1>3. StoreTyped
    BY <1>1, AddressesAre DEF Init, StoreTyped
  <1>4. ProposalsTyped
    BY DEF Init, ProposalsTyped, ArgsOK
  <1>. QED BY <1>1, <1>2, <1>3, <1>4, TypedInvIs

LEMMA OperatorTyped ==
  ASSUME TypedInv,
         \/ \E track \in Tracks : Start(track)
         \/ Finish \/ StepThrows \/ ScriptFails
  PROVE  TypedInv'
  <1>1. ChainTyped /\ ControlTyped /\ StoreTyped /\ ProposalsTyped
    BY TypedInvIs
  <1>2. UNCHANGED <<chainVars, storeVars, proposals>> /\ local' = [v \in Variables |-> Absent]
    BY DEF Start, Finish, StepThrows, ScriptFails, Throw, Exit
  <1>3. ChainTyped' /\ ProposalsTyped'
    BY <1>1, <1>2 DEF chainVars, ChainTyped, ChainTypeOK, ProposalsTyped, ArgsOK
  <1>4. StoreTyped'
    BY <1>1, <1>2, AddressesAre DEF StoreTyped, storeVars
  <1>5. ControlTyped'
    <2>1. CASE \E track \in Tracks : Start(track)
      BY <1>1, <2>1 DEF Start, ControlTyped
    <2>2. CASE Finish
      BY <1>1, <2>2 DEF Finish, Exit, ControlTyped
    <2>3. CASE StepThrows
      BY <1>1, <2>3 DEF StepThrows, Throw, Exit, ControlTyped
    <2>4. CASE ScriptFails
      BY <1>1, <2>4, DeploymentAssumption DEF ScriptFails, Throw, Exit, ControlTyped
    <2>. QED BY <2>1, <2>2, <2>3, <2>4
  <1>. QED BY <1>3, <1>4, <1>5, TypedInvIs, PTL

\* What all the steps of a script have in common.
LEMMA GoOnTyped ==
  ASSUME TypedInv, DeploymentInv, NEW op, GoOn(op)
  PROVE  /\ ControlTyped' /\ StepSucceeds /\ Step.op = op /\ TypedStep(Step) /\ GoodStep(Step, network)
         /\ ChainTyped /\ StoreTyped /\ ProposalsTyped
  <1>1. ControlTyped /\ ChainTyped /\ StoreTyped /\ ProposalsTyped
    BY TypedInvIs
  <1>2. IsRunning /\ StepSucceeds /\ Step.op = op /\ step' = step + 1
        /\ UNCHANGED <<running, network, next, failures, undone, hasty>>
    BY DEF GoOn, history
  <1>3. ControlTyped'
    BY <1>1, <1>2 DEF ControlTyped
  <1>4. TypedStep(Step) /\ GoodStep(Step, network)
    BY <1>2, StepIsTyped, StepIsGood DEF DeploymentInv
  <1>. QED BY <1>1, <1>2, <1>3, <1>4

LEMMA ChainTypedFrame == ASSUME ChainTyped, UNCHANGED chainVars PROVE ChainTyped'
  BY DEF chainVars, ChainTyped, ChainTypeOK

LEMMA ProposalsTypedFrame == ASSUME ProposalsTyped, UNCHANGED proposals PROVE ProposalsTyped'
  BY DEF ProposalsTyped, ArgsOK

LEMMA RunDeployTyped == ASSUME TypedInv, DeploymentInv, DeploymentInv', RunDeploy PROVE TypedInv'
  <1>. DEFINE args == Values(Step.args)
  <1>1. /\ ControlTyped' /\ ConstructorArgs(Step.kind, Step.args, ScriptNames)
        /\ ChainTyped /\ StoreTyped /\ ProposalsTyped
        /\ UNCHANGED <<local, registered, proposals>>
    BY GoOnTyped DEF RunDeploy, TypedStep
  <1>2. ProposalsTyped'
    BY <1>1, ProposalsTypedFrame
  <1>3. args \in Seq(Address) /\ Len(args) = Len(Step.args)
    BY <1>1, ValuesAreTyped DEF ConstructorArgs
  <1>4. ConstructorArgs(Step.kind, args, Address)
    BY <1>1, <1>3 DEF ConstructorArgs
  <1>5. CASE UNCHANGED <<chainVars, deployments>>
    <2>1. ChainTyped' /\ StoreTyped'
      BY <1>1, <1>5, ChainTypedFrame DEF StoreTyped
    <2>. QED BY <1>1, <1>2, <2>1, TypedInvIs, PTL
  <1>6. CASE /\ Construct(Step.kind, External("deployer"), args)
             /\ deployments' = [deployments EXCEPT
                                  ![Step.name] = [address |-> Fresh(Step.kind), args |-> args]]
    <2>. HIDE DEF args
    <2>1. External("deployer") \in Address
      BY <1>1, NamesAre, AddressesAre
    <2>2. /\ members' \in [RoleSlots -> Seq(Address)]
          /\ ref' \in [FieldSlots -> Address]
          /\ Fresh(Step.kind) \in Address
      BY <1>1, <1>4, <1>6, <2>1, ConstructTyped
    <2>3. ChainTyped'
      BY <2>2 DEF DeploymentInv, ChainInv, CreatedOK, ChainTyped, ChainTypeOK
    <2>4. StoreTyped'
      BY <1>1, <1>3, <1>6, <2>2 DEF StoreTyped
    <2>. QED BY <1>1, <1>2, <2>3, <2>4, TypedInvIs, PTL
  <1>. QED BY <1>5, <1>6 DEF RunDeploy

\* A getter is asked of a contract of the kind that has it.
LEMMA ReadSlot ==
  ASSUME TypedInv, DeploymentInv, RunRead
  PROVE  \E n \in 1..MaxInstances : /\ Value(Step.of) = <<Step.of, n>>
                                    /\ <<<<Step.of, n>>, Step.name>> \in FieldSlots
  <1>1. TypedStep(Step) /\ StepSucceeds /\ Step.op = "read"
    BY GoOnTyped DEF RunRead
  <1>2. /\ Step.of \in Factories /\ Step.name \in FieldsOf[Step.of]
        /\ Exists(Value(Step.of))
    BY <1>1 DEF TypedStep, StepSucceeds
  <1>3. PICK of \in Factories : of = Step.of
    BY <1>2
  <1>4. Value(of) = local[of] /\ of \in Known /\ of \notin MayBeZero /\ KindOf[of] = of
        /\ of \in Kinds /\ of \in DOMAIN FieldsOf
    BY <1>3, KnownAre, KindsAre DEF Value, MayBeZero, Factories, FieldsOf
  <1>5. local[of] \in Deployed(of)
    BY <1>2, <1>3, <1>4, KindsAre DEF DeploymentInv, NamesOK, IsA, Exists, Absent, External
  <1>6. PICK n \in 1..MaxInstances : local[of] = <<of, n>>
    BY <1>4, <1>5, DeployedIs DEF DeploymentInv, ChainInv
  <1>7. <<<<of, n>>, Step.name>> \in FieldSlots
    BY <1>2, <1>3, <1>4, Slots
  <1>. QED BY <1>3, <1>4, <1>6, <1>7

LEMMA RunSimpleTyped ==
  ASSUME TypedInv, DeploymentInv,
         RunGet \/ RunRead \/ RunRequire \/ RunSave \/ RunAddContract
  PROVE  TypedInv'
  <1>1. \E op : GoOn(op)
    BY DEF RunGet, RunRead, RunRequire, RunSave, RunAddContract
  <1>2. /\ ControlTyped' /\ TypedStep(Step) /\ GoodStep(Step, network)
        /\ ChainTyped /\ StoreTyped /\ ProposalsTyped
    BY <1>1, GoOnTyped
  <1>3. ChainTyped' /\ ProposalsTyped'
    BY <1>2, ChainTypedFrame, ProposalsTypedFrame
       DEF RunGet, RunRead, RunRequire, RunSave, RunAddContract
  <1>4. StoreTyped'
    <2>1. CASE RunGet
      <3>1. Step.name \in DeploymentNames /\ DeploymentNames \subseteq Variables
        BY <1>2, <2>1 DEF RunGet, GoOn, GoodStep, Variables
      <3>. QED BY <1>2, <2>1, <3>1 DEF RunGet, StoreTyped, storeVars
    <2>2. CASE RunRead
      <3>1. ref[<<Value(Step.of), Step.name>>] \in Address
        BY <1>2, <2>2, ReadSlot DEF ChainTyped, ChainTypeOK
      <3>. QED BY <1>2, <2>2, <3>1 DEF RunRead, StoreTyped, storeVars
    <2>3. CASE RunRequire
      BY <1>2, <2>3 DEF RunRequire, StoreTyped, storeVars
    <2>4. CASE RunSave \/ RunAddContract
      <3>1. Value(Step.of) \in Address
        BY <1>2, <2>4, ValueIsTyped DEF RunSave, RunAddContract, GoOn, TypedStep
      <3>2. <<>> \in Seq(Address)
        OBVIOUS
      <3>3. CASE RunSave
        <4>1. [address |-> Value(Step.of), args |-> <<>>] \in [address : Address, args : Seq(Address)]
          BY <3>1, <3>2
        <4>. QED BY <1>2, <3>3, <4>1 DEF RunSave, StoreTyped
      <3>4. CASE RunAddContract
        BY <1>2, <3>1, <3>4 DEF RunAddContract, StoreTyped
      <3>. QED BY <2>4, <3>3, <3>4
    <2>. QED BY <2>1, <2>2, <2>3, <2>4
  <1>. QED BY <1>2, <1>3, <1>4, TypedInvIs, PTL

LEMMA RunProposeTyped == ASSUME TypedInv, DeploymentInv, RunPropose PROVE TypedInv'
  <1>. DEFINE call == Transaction(Step)
  <1>1. /\ ControlTyped' /\ TypedSend(Step)
        /\ ChainTyped /\ StoreTyped /\ ProposalsTyped
        /\ UNCHANGED <<chainVars, storeVars, local>> /\ proposals' = Bag!BagAdd(proposals, call)
    BY GoOnTyped DEF RunPropose, TypedStep
  <1>2. ChainTyped' /\ StoreTyped'
    BY <1>1, ChainTypedFrame DEF StoreTyped, storeVars
  <1>3. call \in Transactions /\ ArgsFor(call.fn, call.args, Address)
    BY <1>1, TransactionIsTyped DEF Transactions, Transaction
  <1>. HIDE DEF call
  <1>4. /\ DOMAIN proposals' = DOMAIN proposals \cup {call}
        /\ proposals' \in [DOMAIN proposals' -> Nat \ {0}]
    BY <1>1 DEF Bag!BagAdd, ProposalsTyped
  <1>5. ProposalsTyped'
    BY <1>1, <1>3, <1>4 DEF ProposalsTyped, ArgsOK
  <1>. QED BY <1>1, <1>2, <1>5, TypedInvIs, PTL

LEMMA RunTransactTyped ==
  ASSUME TypedInv, DeploymentInv, DeploymentInv', RunTransact PROVE TypedInv'
  <1>. DEFINE call == Transaction(Step)
  <1>1. /\ ControlTyped' /\ TypedSend(Step)
        /\ ChainTyped /\ StoreTyped /\ ProposalsTyped
        /\ UNCHANGED <<storeVars, local, proposals>> /\ Call(External(Step.from), call)
    BY GoOnTyped DEF RunTransact, TypedStep
  <1>2. ProposalsTyped' /\ StoreTyped'
    BY <1>1, ProposalsTypedFrame DEF StoreTyped, storeVars
  <1>3. call \in Transactions /\ ArgsFor(call.fn, call.args, Address) /\ call.from = External(Step.from)
    BY <1>1, TransactionIsTyped DEF Transactions, Transaction
  <1>. HIDE DEF call
  <1>4. members' \in [RoleSlots -> Seq(Address)] /\ ref' \in [FieldSlots -> Address]
    BY <1>1, <1>3, CallTyped DEF Transactions
  <1>5. ChainTyped'
    BY <1>4 DEF DeploymentInv, ChainInv, CreatedOK, ChainTyped, ChainTypeOK
  <1>. QED BY <1>1, <1>2, <1>5, TypedInvIs, PTL

LEMMA SafeExecutesTyped ==
  ASSUME TypedInv, DeploymentInv', NEW proposal \in DOMAIN proposals, SafeExecutes(proposal)
  PROVE  TypedInv'
  <1>1. /\ UNCHANGED <<storeVars, scriptVars, network, next, failures, history>>
        /\ Call(proposal.from, proposal)
        /\ proposals' = Bag!BagRemove(proposals, proposal)
    BY DEF SafeExecutes
  <1>2. ChainTyped /\ ControlTyped /\ StoreTyped /\ ProposalsTyped
    BY TypedInvIs
  <1>3. ControlTyped' /\ StoreTyped'
    BY <1>1, <1>2 DEF ControlTyped, StoreTyped, storeVars, scriptVars, history
  <1>4. members' \in [RoleSlots -> Seq(Address)] /\ ref' \in [FieldSlots -> Address]
    BY <1>1, <1>2, CallTyped DEF ProposalsTyped, ArgsOK, Transactions
  <1>5. ChainTyped'
    BY <1>4 DEF DeploymentInv, ChainInv, CreatedOK, ChainTyped, ChainTypeOK
  <1>6. /\ DOMAIN proposals' \subseteq DOMAIN proposals
        /\ proposals' \in [DOMAIN proposals' -> Nat \ {0}]
    BY <1>1, <1>2 DEF Bag!BagRemove, ProposalsTyped
  <1>7. ProposalsTyped'
    BY <1>2, <1>6 DEF ProposalsTyped, ArgsOK
  <1>. QED BY <1>3, <1>5, <1>7, TypedInvIs, PTL

LEMMA NextTyped == TypedInv /\ DeploymentInv /\ DeploymentInv' /\ [Next]_vars => TypedInv'
  <1>. SUFFICES ASSUME TypedInv, DeploymentInv, DeploymentInv', [Next]_vars PROVE TypedInv'
    OBVIOUS
  <1>1. CASE RunStep
    BY <1>1, RunDeployTyped, RunSimpleTyped, RunProposeTyped, RunTransactTyped DEF RunStep
  <1>2. CASE (\E track \in Tracks : Start(track)) \/ Finish \/ StepThrows \/ ScriptFails
    BY <1>2, OperatorTyped
  <1>3. CASE \E proposal \in DOMAIN proposals : SafeExecutes(proposal)
    BY <1>3, SafeExecutesTyped
  <1>4. CASE UNCHANGED vars
    <2>1. ChainTyped /\ ControlTyped /\ StoreTyped /\ ProposalsTyped
      BY TypedInvIs
    <2>2. ChainTyped' /\ ProposalsTyped'
      BY <1>4, <2>1, ChainTypedFrame, ProposalsTypedFrame DEF vars
    <2>3. ControlTyped' /\ StoreTyped'
      BY <1>4, <2>1 DEF vars, storeVars, scriptVars, history, ControlTyped, StoreTyped
    <2>. QED BY <2>2, <2>3, TypedInvIs, PTL
  <1>. QED BY <1>1, <1>2, <1>3, <1>4 DEF Next

\* The variables have the types that the run checks: whatever the scripts name, store,
\* propose and send is an address, and no constructor or call lacks an argument.
THEOREM DeploymentTyped == Spec => []TypeOK
  <1>1. Spec => []TypedInv
    BY InitTyped, NextTyped, DeploymentInvHolds, PTL DEF Spec
  <1>. QED BY <1>1, PTL DEF TypedInv

-----------------------------------------------------------------------------
(* What the chain leaves alone.                                            *)

\* Only contracts of C change.
ChangesOnly(C) ==
  /\ \A slot \in FieldSlots : slot[1] \notin C => ref'[slot] = ref[slot]
  /\ \A slot \in RoleSlots : slot[1] \notin C => members'[slot] = members[slot]

\* The contracts of a kind stay as they are.
RefsStay(kind) ==
  \A c \in Deployed(kind), field \in FieldsOf[kind] : ref'[<<c, field>>] = ref[<<c, field>>]
RolesStay(kind) ==
  \A c \in Deployed(kind), role \in RolesOf[kind] : members'[<<c, role>>] = members[<<c, role>>]

LEMMA SlotsAre ==
  /\ \A slot \in FieldSlots : slot[1][1] \in Kinds /\ slot[1][2] \in 1..MaxInstances
                              /\ slot[1] = <<slot[1][1], slot[1][2]>>
  /\ \A slot \in RoleSlots : slot[1][1] \in Kinds /\ slot[1][2] \in 1..MaxInstances
                              /\ slot[1] = <<slot[1][1], slot[1][2]>>
  BY DEF FieldSlots, RoleSlots, Kinds

LEMMA RevokedAt ==
  ASSUME NEW m, NEW slot, NEW account
  PROVE  /\ DOMAIN Revoked(m, slot, account) = DOMAIN m
         /\ \A other \in DOMAIN m : other # slot => Revoked(m, slot, account)[other] = m[other]
  BY DEF Revoked

LEMMA DomainsAre == ASSUME ChainInv PROVE DOMAIN ref = FieldSlots /\ DOMAIN members = RoleSlots
  BY DEF ChainInv, RefsOK, RolesOK

LEMMA DeployUSDYChanges ==
  ASSUME ChainInv, NEW sender, NEW factory, NEW lists, DeployUSDY(sender, factory, lists)
  PROVE  ChangesOnly({factory, Fresh("USDY"), Fresh("USDYProxyAdmin")})
  <1>. DEFINE token == Fresh("USDY")  admin == Fresh("USDYProxyAdmin")
  <1>1. \A slot \in FieldSlots : slot[1] \notin {factory, token, admin} => ref'[slot] = ref[slot]
    <2>. HIDE DEF token, admin
    <2>. QED BY DomainsAre DEF DeployUSDY, token, admin
  <1>2. members' = RolesAfterDeployUSDY(token, factory, sender)
    BY DEF DeployUSDY
  <1>3. \A slot \in RoleSlots : slot[1] # token => members'[slot] = members[slot]
    <2>. HIDE DEF token
    <2>. QED BY <1>2, DomainsAre, GrantedAt, RevokedAt DEF RolesAfterDeployUSDY
  <1>. QED BY <1>1, <1>3 DEF ChangesOnly

LEMMA DeployAllowlistChanges ==
  ASSUME ChainInv, NEW sender, NEW factory, NEW owner, NEW setter,
         DeployAllowlist(sender, factory, owner, setter)
  PROVE  ChangesOnly({factory, Fresh("Allowlist"), Fresh("AllowlistProxyAdmin")})
  <1>. DEFINE list == Fresh("Allowlist")  admin == Fresh("AllowlistProxyAdmin")
  <1>1. \A slot \in FieldSlots : slot[1] \notin {factory, list, admin} => ref'[slot] = ref[slot]
    BY DomainsAre DEF DeployAllowlist
  <1>2. \A slot \in RoleSlots : slot[1] # list => members'[slot] = members[slot]
    BY DomainsAre, GrantedAt DEF DeployAllowlist
  <1>. QED BY <1>1, <1>2 DEF ChangesOnly

LEMMA ConstructChanges ==
  ASSUME ChainInv, NEW kind, NEW sender, NEW args, Construct(kind, sender, args)
  PROVE  ChangesOnly({Fresh(kind)})
  <1>1. /\ ref' = RefsAfterConstruct(kind, Fresh(kind), sender, args)
        /\ members' = RolesAfterConstruct(kind, Fresh(kind), args)
    BY DEF Construct
  <1>. DEFINE c == Fresh(kind)
  <1>. HIDE DEF c
  <1>2. \A slot \in FieldSlots : slot[1] # c => ref'[slot] = ref[slot]
    BY <1>1, DomainsAre DEF RefsAfterConstruct, c
  <1>3. \A slot \in RoleSlots : slot[1] # c => members'[slot] = members[slot]
    BY <1>1, DomainsAre, GrantedAt DEF RolesAfterConstruct, c
  <1>. QED BY <1>2, <1>3 DEF ChangesOnly, c

\* Contracts that are there and not in C stay as they are.
LEMMA KindsStay ==
  ASSUME CreatedOK, NEW C, ChangesOnly(C), NEW kind \in Kinds, \A c \in Deployed(kind) : c \notin C
  PROVE  /\ kind \in DOMAIN FieldsOf => RefsStay(kind)
         /\ kind \in DOMAIN RolesOf => RolesStay(kind)
  <1>1. ASSUME kind \in DOMAIN FieldsOf, NEW c \in Deployed(kind), NEW field \in FieldsOf[kind]
        PROVE  ref'[<<c, field>>] = ref[<<c, field>>]
    <2>1. <<c, field>> \in FieldSlots
      BY <1>1, DeployedIs, Slots
    <2>. QED BY <2>1 DEF ChangesOnly
  <1>2. ASSUME kind \in DOMAIN RolesOf, NEW c \in Deployed(kind), NEW role \in RolesOf[kind]
        PROVE  members'[<<c, role>>] = members[<<c, role>>]
    <2>1. <<c, role>> \in RoleSlots
      BY <1>2, DeployedIs, Slots
    <2>. QED BY <2>1 DEF ChangesOnly
  <1>. QED BY <1>1, <1>2 DEF RefsStay, RolesStay

LEMMA FreshIsNew ==
  ASSUME CreatedOK, NEW kind \in Kinds, NEW other \in Kinds
  PROVE  Fresh(kind) \notin Deployed(other)
  <1>1. created[kind] \in Nat /\ created[other] \in Nat
    BY InstancesAssumption DEF CreatedOK
  <1>. QED BY <1>1 DEF Fresh, Deployed

-----------------------------------------------------------------------------
(* Nothing is said of contracts that are not there.                        *)
LEMMA FreshStays ==
  ASSUME FreshOK, CreatedOK, CreatedOK', Grows, NEW C, ChangesOnly(C),
         \A c \in C : c[1] \in Kinds => c[2] <= created'[c[1]]
  PROVE  FreshOK'
  <1>1. ASSUME NEW slot, slot \in FieldSlots \/ slot \in RoleSlots, slot[1][2] > created'[slot[1][1]]
        PROVE  slot[1] \notin C /\ slot[1][2] > created[slot[1][1]]
    <2>1. slot[1][1] \in Kinds /\ slot[1][2] \in Nat
      BY <1>1, SlotsAre, InstancesAssumption
    <2>2. created[slot[1][1]] \in Nat /\ created'[slot[1][1]] \in Nat
          /\ created'[slot[1][1]] >= created[slot[1][1]]
      BY <2>1, InstancesAssumption DEF CreatedOK, Grows
    <2>. QED BY <1>1, <2>1, <2>2
  <1>. QED BY <1>1 DEF FreshOK, ChangesOnly

LEMMA CallChanges ==
  ASSUME ChainInv, ChainInv', NEW call, GoodCall(call), Call(call.from, call), FreshOK, Grows
  PROVE  FreshOK'
  <1>1. CreatedOK /\ CreatedOK'
    BY DEF ChainInv
  <1>2. CASE UNCHANGED chainVars
    BY <1>2 DEF chainVars, FreshOK
  <1>. SUFFICES ASSUME ~UNCHANGED chainVars PROVE FreshOK'
    BY <1>2
  <1>3. Exists(call.to)
    BY DEF Call
  <1>4. call.to[1] \in Kinds /\ call.to[2] <= created'[call.to[1]]
    <2>1. call.to[1] \in Kinds /\ call.to[2] \in 1..created[call.to[1]]
      BY <1>3 DEF Exists
    <2>2. created[call.to[1]] \in Nat /\ created'[call.to[1]] \in Nat
          /\ created'[call.to[1]] >= created[call.to[1]]
      BY <1>1, <2>1, InstancesAssumption DEF CreatedOK, Grows
    <2>. QED BY <2>1, <2>2
  <1>5. CASE DeployAllowlist(call.from, call.to, call.args[1], call.args[2])
    <2>1. \A c \in {Fresh("Allowlist"), Fresh("AllowlistProxyAdmin")} : c[2] <= created'[c[1]]
      BY <1>1, <1>5, InstancesAssumption, KindsAre DEF DeployAllowlist, Fresh, CreatedOK
    <2>. QED BY <1>1, <1>4, <1>5, <2>1, DeployAllowlistChanges, FreshStays
  <1>6. CASE DeployUSDY(call.from, call.to, call.args)
    <2>1. \A c \in {Fresh("USDY"), Fresh("USDYProxyAdmin")} : c[2] <= created'[c[1]]
      BY <1>1, <1>6, InstancesAssumption, KindsAre DEF DeployUSDY, Fresh, CreatedOK
    <2>. QED BY <1>1, <1>4, <1>6, <2>1, DeployUSDYChanges, FreshStays
  <1>7. CASE \/ GrantRole(call) \/ SetPricer(call) \/ AddPrice(call) \/ TransferOwnership(call)
             \/ AcceptOwnership(call.from, call)
    <2>1. ChangesOnly({call.to})
      BY <1>7, DomainsAre, GrantedAt
         DEF GrantRole, SetPricer, AddPrice, TransferOwnership, AcceptOwnership, ChangesOnly
    <2>. QED BY <1>1, <1>4, <2>1, FreshStays
  <1>. QED BY <1>5, <1>6, <1>7 DEF Call

LEMMA ConstructFresh ==
  ASSUME ChainInv, ChainInv', FreshOK, Grows, NEW kind, NEW sender, NEW args,
         Construct(kind, sender, args)
  PROVE  FreshOK'
  <1>1. CreatedOK /\ CreatedOK' /\ kind \in Kinds
    BY DEF ChainInv, Construct, CanConstruct
  <1>2. Fresh(kind)[1] = kind /\ Fresh(kind)[2] <= created'[kind]
    BY <1>1, InstancesAssumption DEF Construct, Fresh, CreatedOK
  <1>. QED BY <1>1, <1>2, ConstructChanges, FreshStays

-----------------------------------------------------------------------------
(* A script's variables.                                                   *)
LEMMA ScriptIsGood ==
  ASSUME ControlOK, running # "none"
  PROVE  /\ running \in Tracks
         /\ \A j \in DOMAIN Script(running) :
              GoodStep(Script(running)[j], network) /\ TypedStep(Script(running)[j])
  <1>1. /\ running \in Tracks /\ network \in Networks
        /\ next[running] \in DOMAIN Scripts[network][running]
    BY DEF ControlOK
  <1>2. GoodScript(Scripts[network][running][next[running]], network)
    BY <1>1, ScriptsAreGood
  <1>3. TypedScript(Scripts[network][running][next[running]])
    BY <1>1, ScriptsAreTyped
  <1>. QED BY <1>1, <1>2, <1>3 DEF GoodScript, TypedScript, Script

LEMMA ScriptLengths ==
  ASSUME ControlOK, running # "none"
  PROVE  DOMAIN Script(running) = 1..Len(Script(running)) /\ Len(Script(running)) \in Nat
  <1>1. /\ running \in Tracks /\ network \in Networks
        /\ next[running] \in DOMAIN Scripts[network][running]
    BY DEF ControlOK
  <1>. DEFINE Tuple(s) == DOMAIN s = 1..Len(s) /\ Len(s) \in Nat
  <1>2. /\ Tuple(deployAllowlist_Factory) /\ Tuple(deployBlocklist) /\ Tuple(deployUSDY_Factory)
        /\ Tuple(deploy_usdyManager) /\ Tuple(deploy_usdyPricer)
    BY DEF deployAllowlist_Factory, deployBlocklist, deployUSDY_Factory, deploy_usdyManager,
       deploy_usdyPricer
  <1>3. /\ Tuple(task1_usdy_prod) /\ Tuple(task2_save_usdy_prod) /\ Tuple(task3_usdy_prod)
        /\ Tuple(task4_save_usdy_prod) /\ Tuple(task5_usdyManager_prod)
    BY DEF task1_usdy_prod, task2_save_usdy_prod, task3_usdy_prod, task4_save_usdy_prod,
       task5_usdyManager_prod
  <1>4. /\ Tuple(local_deploy_allowlist) /\ Tuple(local_deploy_blocklist)
        /\ Tuple(local_deploy_pricer) /\ Tuple(local_deploy_usdy_factory)
        /\ Tuple(local_deploy_usdyManager)
    BY DEF local_deploy_allowlist, local_deploy_blocklist, local_deploy_pricer,
       local_deploy_usdy_factory, local_deploy_usdyManager
  <1>. HIDE DEF Tuple
  <1>5. Tuple(Script(running))
    BY <1>1, <1>2, <1>3, <1>4 DEF Scripts, Networks, Tracks, Script
  <1>. QED BY <1>5 DEF Tuple

LEMMA GettersAre ==
  /\ \A of \in Factories : FieldsOf[of] \cap DeploymentNames = {}
  /\ DeploymentNames \subseteq Variables
  BY DEF Factories, FieldsOf, DeploymentNames, Variables

LEMMA NoLocals ==
  ASSUME local' = [v \in Variables |-> Absent], step' = 1
  PROVE  LocalsOK'
  <1>1. \A v \in Variables : local'[v] = Absent
    OBVIOUS
  <1>2. 1..(step' - 1) = {}
    OBVIOUS
  <1>. QED BY <1>1, <1>2 DEF LocalsOK

LEMMA GoOnLocals ==
  ASSUME LocalsOK, StepsOK, DeploymentInv, NEW op, GoOn(op), DOMAIN local = Variables,
         \/ op \notin {"get", "read"} /\ UNCHANGED local
         \/ op = "get" /\ local' = [local EXCEPT ![Step.name] = deployments[Step.name].address]
         \/ op = "read" /\ \E x : local' = [local EXCEPT ![Step.name] = x]
  PROVE  LocalsOK'
  <1>. DEFINE s == Script(running)
  <1>1. /\ running # "none" /\ running' = running /\ Script(running)' = s /\ step \in DOMAIN s
        /\ step' = step + 1 /\ step \in Nat /\ step >= 1
        /\ Step = s[step] /\ s[step].op = op
    BY DEF GoOn, IsRunning, StepsOK, Script, Step
  <1>2. 1..(step' - 1) = 1..(step - 1) \cup {step}
    BY <1>1
  <1>3. \A j \in DOMAIN s : GoodStep(s[j], network) /\ TypedStep(s[j])
    BY <1>1, ScriptIsGood DEF DeploymentInv
  <1>4. /\ \A v \in Variables : local[v] # Absent =>
             \E j \in 1..(step - 1) : s[j].op \in {"get", "read"} /\ s[j].name = v
        /\ \A j \in 1..(step - 1) : s[j].op = "get" => local[s[j].name] # Absent
    BY <1>1 DEF LocalsOK
  <1>5. op = "get" => deployments[s[step].name].address # Absent
    BY <1>1 DEF GoOn, StepSucceeds
  <1>6. 1..(step - 1) \subseteq DOMAIN s
    <2>1. DOMAIN s = 1..Len(s) /\ Len(s) \in Nat
      BY <1>1, ScriptLengths DEF DeploymentInv
    <2>. QED BY <1>1, <2>1
  <1>. HIDE DEF s
  <1>7. ASSUME NEW v \in Variables, local'[v] # Absent
        PROVE  \E j \in 1..(step' - 1) : s[j].op \in {"get", "read"} /\ s[j].name = v
    <2>1. CASE local'[v] = local[v]
      BY <1>2, <1>4, <1>7, <2>1
    <2>2. CASE local'[v] # local[v]
      <3>1. op \in {"get", "read"} /\ v = Step.name
        BY <2>2
      <3>. QED BY <1>1, <1>2, <3>1
    <2>. QED BY <2>1, <2>2
  <1>8. ASSUME NEW j \in 1..(step' - 1), s[j].op = "get"
        PROVE  local'[s[j].name] # Absent
    <2>1. s[j].name \in DeploymentNames
      BY <1>1, <1>2, <1>3, <1>6, <1>8 DEF GoodStep
    <2>2. op = "read" => Step.name \notin DeploymentNames
      BY <1>1, <1>3, GettersAre DEF TypedStep
    <2>3. CASE s[j].name = Step.name /\ op = "get"
      BY <1>1, <1>5, <2>1, <2>3, GettersAre
    <2>4. CASE ~(s[j].name = Step.name /\ op = "get")
      <3>1. local'[s[j].name] = local[s[j].name]
        BY <2>1, <2>2, <2>4, GettersAre
      <3>2. j # step
        BY <1>1, <1>8, <2>4
      <3>. QED BY <1>2, <1>4, <1>8, <3>1, <3>2
    <2>. QED BY <2>3, <2>4
  <1>. QED BY <1>1, <1>7, <1>8 DEF LocalsOK, s

BaseInv == FreshOK /\ LocalsOK /\ StepsOK

LEMMA InitBase == Init => BaseInv
  <1>. SUFFICES ASSUME Init PROVE BaseInv
    OBVIOUS
  <1>1. FreshOK
    BY DEF Init, ChainInit, FreshOK
  <1>2. LocalsOK
    BY DEF Init, LocalsOK
  <1>3. StepsOK
    BY DEF Init, StepsOK, Tracks
  <1>. QED BY <1>1, <1>2, <1>3 DEF BaseInv

LEMMA OperatorBase ==
  ASSUME TypedInv, DeploymentInv, BaseInv,
         \/ \E track \in Tracks : Start(track)
         \/ Finish \/ StepThrows \/ ScriptFails
  PROVE  BaseInv'
  <1>1. /\ UNCHANGED chainVars
        /\ local' = [v \in Variables |-> Absent] /\ step' = 1
        /\ next' = next \/ (running # "none" /\ next' = [next EXCEPT ![running] = @ + 1])
    BY DEF Start, Finish, StepThrows, ScriptFails, Throw, Exit
  <1>2. FreshOK'
    BY <1>1 DEF BaseInv, FreshOK, chainVars
  <1>3. LocalsOK'
    BY <1>1, NoLocals
  <1>4. StepsOK'
    BY <1>1 DEF BaseInv, StepsOK, TypedInv, TypeOK
  <1>. QED BY <1>2, <1>3, <1>4 DEF BaseInv

LEMMA GoOnBase ==
  ASSUME DeploymentInv, BaseInv, RunStep
  PROVE  LocalsOK' /\ StepsOK'
  <1>1. DOMAIN local = Variables
    BY DEF DeploymentInv, NamesOK
  <1>2. LocalsOK'
    BY <1>1, GoOnLocals
       DEF RunStep, RunDeploy, RunGet, RunRead, RunRequire, RunSave, RunAddContract, RunPropose,
           RunTransact, BaseInv
  <1>3. \E op : GoOn(op)
    BY DEF RunStep, RunDeploy, RunGet, RunRead, RunRequire, RunSave, RunAddContract, RunPropose,
           RunTransact
  <1>4. StepsOK'
    BY <1>3 DEF GoOn, BaseInv, StepsOK
  <1>. QED BY <1>2, <1>4

LEMMA RunStepFresh ==
  ASSUME DeploymentInv, DeploymentInv', BaseInv, RunStep
  PROVE  FreshOK'
  <1>1. CASE UNCHANGED chainVars
    BY <1>1 DEF BaseInv, FreshOK, chainVars
  <1>2. CASE RunTransact
    <2>. PICK call : call = Transaction(Step)
      OBVIOUS
    <2>1. GoodCall(call) /\ call.from = External(Step.from) /\ UNCHANGED network
          /\ Call(call.from, call)
      BY <1>2, GoingOn, TransactionIsGood DEF RunTransact, GoodStep, DeploymentInv, Transaction
    <2>2. Grows
      BY <2>1, CallKeeps DEF DeploymentInv
    <2>. QED BY <2>1, <2>2, CallChanges DEF DeploymentInv, BaseInv
  <1>3. CASE RunDeploy /\ ~UNCHANGED chainVars
    <2>. PICK kind, args : kind = Step.kind /\ args = Values(Step.args)
      OBVIOUS
    <2>1. Construct(kind, External("deployer"), args)
      BY <1>3 DEF RunDeploy
    <2>2. Grows
      <3>1. created' = [created EXCEPT ![kind] = @ + 1]
        BY <2>1 DEF Construct
      <3>. QED BY <3>1, InstancesAssumption DEF Grows, DeploymentInv, ChainInv, CreatedOK
    <2>. QED BY <2>1, <2>2, ConstructFresh DEF DeploymentInv, BaseInv
  <1>. QED BY <1>1, <1>2, <1>3
       DEF RunStep, RunDeploy, RunGet, RunRead, RunRequire, RunSave, RunAddContract, RunPropose

LEMMA NextBase ==
  TypedInv /\ DeploymentInv /\ DeploymentInv' /\ BaseInv /\ [Next]_vars => BaseInv'
  <1>. SUFFICES ASSUME TypedInv, DeploymentInv, DeploymentInv', BaseInv, [Next]_vars PROVE BaseInv'
    OBVIOUS
  <1>1. CASE RunStep
    BY <1>1, GoOnBase, RunStepFresh DEF BaseInv
  <1>2. CASE (\E track \in Tracks : Start(track)) \/ Finish \/ StepThrows \/ ScriptFails
    BY <1>2, OperatorBase
  <1>3. CASE \E proposal \in DOMAIN proposals : SafeExecutes(proposal)
    <2>. PICK p \in DOMAIN proposals : SafeExecutes(p)
      BY <1>3
    <2>1. /\ UNCHANGED <<running, step, local, network, next>> /\ Call(p.from, p) /\ GoodCall(p)
      BY DEF SafeExecutes, scriptVars, DeploymentInv, ProposalsOK
    <2>2. Grows
      BY <2>1, CallKeeps DEF DeploymentInv
    <2>3. FreshOK'
      BY <2>1, <2>2, CallChanges DEF DeploymentInv, BaseInv
    <2>4. LocalsOK' /\ StepsOK'
      BY <2>1 DEF BaseInv, LocalsOK, StepsOK, Script
    <2>. QED BY <2>3, <2>4 DEF BaseInv
  <1>4. CASE UNCHANGED vars
    BY <1>4 DEF vars, chainVars, scriptVars, BaseInv, FreshOK, LocalsOK, StepsOK, Script
  <1>. QED BY <1>1, <1>2, <1>3, <1>4 DEF Next

-----------------------------------------------------------------------------
(* The production scripts, step by step.                                   *)

\* track -> number of the script -> what each of its steps does
Ops ==
  [deploy |-> <<<<"deploy">>, <<"deploy">>, <<"deploy">>,
                <<"get", "get", "get", "read", "read", "require", "deploy">>, <<"deploy">>>>,
   task   |-> <<<<"get", "addContract", "propose">>,
                <<"get", "read", "read", "save", "save", "addContract", "addContract">>,
                <<"get", "get", "get", "addContract", "propose">>,
                <<"get", "read", "read", "save", "save", "addContract", "addContract">>,
                <<"get", "get", "addContract", "addContract", "get", "propose", "propose",
                  "propose", "propose", "propose", "propose", "propose", "propose">>>>]

LEMMA GetOf ==
  ASSUME NEW a PROVE Get(a).op = "get" /\ Get(a).name = a /\ Get(a).uses = {}
  BY DEF Get

LEMMA RequireOf == ASSUME NEW a PROVE Require(a).op = "require"
  BY DEF Require

LEMMA AddContractOf ==
  ASSUME NEW a PROVE AddContract(a).op = "addContract" /\ AddContract(a).uses = {a}
  BY DEF AddContract

LEMMA ReadOf ==
  ASSUME NEW a, NEW b PROVE Read(a, b).op = "read" /\ Read(a, b).of = a /\ Read(a, b).name = b
  BY DEF Read

LEMMA SaveOf ==
  ASSUME NEW a, NEW b PROVE Save(a, b).op = "save" /\ Save(a, b).name = a /\ Save(a, b).of = b
  BY DEF Save

LEMMA DeployOf ==
  ASSUME NEW a, NEW b, NEW c
  PROVE  /\ Deploy(a, b, c).op = "deploy" /\ Deploy(a, b, c).name = a
         /\ Deploy(a, b, c).kind = b /\ Deploy(a, b, c).args = c
         /\ Deploy(a, b, c).uses = {c[i] : i \in DOMAIN c}
  BY DEF Deploy

LEMMA ProposeOf ==
  ASSUME NEW a, NEW b, NEW c PROVE ProposeFunctionCall(a, b, c).op = "propose"
  BY SendFields DEF ProposeFunctionCall

LEMMA ProposeGrantOf ==
  ASSUME NEW a, NEW b, NEW c PROVE ProposeGrantRole(a, b, c).op = "propose"
  BY SendFields DEF ProposeGrantRole

HasOps(script, ops) == DOMAIN script = DOMAIN ops /\ \A k \in DOMAIN ops : script[k].op = ops[k]

LEMMA ProductionOps ==
  ASSUME NEW t \in Tracks
  PROVE  /\ DOMAIN Scripts["production"][t] = 1..5
         /\ \A i \in 1..5 : HasOps(Scripts["production"][t][i], Ops[t][i])
  <1>1. /\ HasOps(deployAllowlist_Factory, Ops["deploy"][1])
        /\ HasOps(deployBlocklist, Ops["deploy"][2])
        /\ HasOps(deployUSDY_Factory, Ops["deploy"][3])
        /\ HasOps(deploy_usdyPricer, Ops["deploy"][5])
    BY DeployOf DEF HasOps, Ops, deployAllowlist_Factory, deployBlocklist, deployUSDY_Factory,
         deploy_usdyPricer
  <1>2. HasOps(deploy_usdyManager, Ops["deploy"][4])
    <2>1. DOMAIN deploy_usdyManager = 1..7 /\ DOMAIN Ops["deploy"][4] = 1..7
      BY DEF deploy_usdyManager, Ops
    <2>2. ASSUME NEW k \in 1..3 PROVE deploy_usdyManager[k].op = Ops["deploy"][4][k]
      BY GetOf DEF deploy_usdyManager, Ops
    <2>3. ASSUME NEW k \in 4..7 PROVE deploy_usdyManager[k].op = Ops["deploy"][4][k]
      BY ReadOf, RequireOf, DeployOf DEF deploy_usdyManager, Ops
    <2>. QED BY <2>1, <2>2, <2>3 DEF HasOps
  <1>3. HasOps(task1_usdy_prod, Ops["task"][1]) /\ HasOps(task3_usdy_prod, Ops["task"][3])
    BY GetOf, AddContractOf, ProposeOf DEF HasOps, Ops, task1_usdy_prod, task3_usdy_prod
  <1>4. HasOps(task2_save_usdy_prod, Ops["task"][2])
    <2>1. DOMAIN task2_save_usdy_prod = 1..7 /\ DOMAIN Ops["task"][2] = 1..7
      BY DEF task2_save_usdy_prod, Ops
    <2>2. ASSUME NEW k \in 1..3 PROVE task2_save_usdy_prod[k].op = Ops["task"][2][k]
      BY GetOf, ReadOf DEF task2_save_usdy_prod, Ops
    <2>3. ASSUME NEW k \in 4..7 PROVE task2_save_usdy_prod[k].op = Ops["task"][2][k]
      BY SaveOf, AddContractOf DEF task2_save_usdy_prod, Ops
    <2>. QED BY <2>1, <2>2, <2>3 DEF HasOps
  <1>5. HasOps(task4_save_usdy_prod, Ops["task"][4])
    <2>1. DOMAIN task4_save_usdy_prod = 1..7 /\ DOMAIN Ops["task"][4] = 1..7
      BY DEF task4_save_usdy_prod, Ops
    <2>2. ASSUME NEW k \in 1..3 PROVE task4_save_usdy_prod[k].op = Ops["task"][4][k]
      BY GetOf, ReadOf DEF task4_save_usdy_prod, Ops
    <2>3. ASSUME NEW k \in 4..7 PROVE task4_save_usdy_prod[k].op = Ops["task"][4][k]
      BY SaveOf, AddContractOf DEF task4_save_usdy_prod, Ops
    <2>. QED BY <2>1, <2>2, <2>3 DEF HasOps
  <1>6. HasOps(task5_usdyManager_prod, Ops["task"][5])
    <2>1. DOMAIN task5_usdyManager_prod = 1..13 /\ DOMAIN Ops["task"][5] = 1..13
      BY DEF task5_usdyManager_prod, Ops
    <2>2. ASSUME NEW k \in 1..5 PROVE task5_usdyManager_prod[k].op = Ops["task"][5][k]
      BY GetOf, AddContractOf DEF task5_usdyManager_prod, Ops
    <2>3. ASSUME NEW k \in 6..13 PROVE task5_usdyManager_prod[k].op = "propose"
      BY ProposeOf, ProposeGrantOf DEF task5_usdyManager_prod
    <2>4. ASSUME NEW k \in 6..13 PROVE Ops["task"][5][k] = "propose"
      BY DEF Ops
    <2>5. ASSUME NEW k \in 1..13 PROVE task5_usdyManager_prod[k].op = Ops["task"][5][k]
      <3>1. CASE k \in 1..5
        BY <2>2, <3>1
      <3>2. CASE k \in 6..13
        BY <2>3, <2>4, <3>2
      <3>. QED BY <3>1, <3>2
    <2>. QED BY <2>1, <2>5 DEF HasOps
  <1>7. /\ Scripts["production"]["deploy"] =
             <<deployAllowlist_Factory, deployBlocklist, deployUSDY_Factory, deploy_usdyManager,
               deploy_usdyPricer>>
        /\ Scripts["production"]["task"] =
             <<task1_usdy_prod, task2_save_usdy_prod, task3_usdy_prod, task4_save_usdy_prod,
               task5_usdyManager_prod>>
    BY DEF Scripts
  <1>8. DOMAIN Scripts["production"][t] = 1..5
    BY <1>7 DEF Tracks
  <1>9. \A i \in 1..5 : HasOps(Scripts["production"]["deploy"][i], Ops["deploy"][i])
    BY <1>1, <1>2, <1>7
  <1>10. \A i \in 1..5 : HasOps(Scripts["production"]["task"][i], Ops["task"][i])
    BY <1>3, <1>4, <1>6, <1>7, <1>5
  <1>. QED BY <1>8, <1>9, <1>10 DEF Tracks

\* The script that runs, and how far it is.
Now(track, i, k) == running = track /\ next[track] = i /\ step = k

LEMMA RunningIs ==
  ASSUME ControlOK, network = "production", running # "none"
  PROVE  /\ running \in Tracks /\ next[running] \in 1..5
         /\ Script(running) = Scripts["production"][running][next[running]]
         /\ HasOps(Script(running), Ops[running][next[running]])
  BY ProductionOps DEF ControlOK, Script

LEMMA WhichStep ==
  ASSUME ControlOK, network = "production", IsRunning
  PROVE  /\ Step.op \in {"deploy", "get", "read", "require", "save", "addContract", "propose"}
         /\ Step.op = "deploy" => \/ Now("deploy", 1, 1) \/ Now("deploy", 2, 1) \/ Now("deploy", 3, 1)
                                  \/ Now("deploy", 4, 7) \/ Now("deploy", 5, 1)
         /\ Step.op = "read" => \/ Now("deploy", 4, 4) \/ Now("deploy", 4, 5)
                                \/ Now("task", 2, 2) \/ Now("task", 2, 3)
                                \/ Now("task", 4, 2) \/ Now("task", 4, 3)
         /\ Step.op = "save" => \/ Now("task", 2, 4) \/ Now("task", 2, 5)
                                \/ Now("task", 4, 4) \/ Now("task", 4, 5)
         /\ Step.op = "propose" => \/ Now("task", 1, 3) \/ Now("task", 3, 5)
                                   \/ \E k \in 6..13 : Now("task", 5, k)
  <1>1. /\ running \in Tracks /\ next[running] \in 1..5
        /\ step \in DOMAIN Ops[running][next[running]]
        /\ Step.op = Ops[running][next[running]][step]
    BY RunningIs DEF HasOps, IsRunning, Step
  <1>2. CASE running = "deploy"
    BY <1>1, <1>2 DEF Ops, Now
  <1>3. CASE running = "task" /\ next["task"] \in 1..4
    BY <1>1, <1>3 DEF Ops, Now
  <1>4. CASE running = "task" /\ next["task"] = 5
    <2>1. step \in 1..13 /\ Step.op = Ops["task"][5][step]
      BY <1>1, <1>4 DEF Ops
    <2>2. CASE step \in 1..5
      BY <1>4, <2>1, <2>2 DEF Ops, Now
    <2>3. CASE step \in 6..13
      <3>1. Step.op = "propose"
        BY <2>1, <2>3 DEF Ops
      <3>. QED BY <1>4, <2>3, <3>1 DEF Now
    <2>. QED BY <2>1, <2>2, <2>3
  <1>. QED BY <1>1, <1>2, <1>3, <1>4 DEF Tracks

\* The scripts that propose nothing.
LEMMA NothingProposed ==
  ASSUME ControlOK, StepsOK, network = "production", ProcessInv, running # "none",
         running = "deploy" \/ next["task"] \in {2, 4} \/ step = 1
  PROVE  DOMAIN proposals = {}
  <1>1. /\ running \in Tracks /\ next[running] \in 1..5
        /\ HasOps(Script(running), Ops[running][next[running]])
        /\ DOMAIN Script(running) = 1..Len(Script(running))
    BY RunningIs, ScriptLengths
  <1>2. \A j \in DOMAIN Script(running) : Script(running)[j].op = Ops[running][next[running]][j]
                                          /\ j \in DOMAIN Ops[running][next[running]]
    BY <1>1 DEF HasOps
  <1>3. ASSUME NEW j \in DOMAIN Script(running), j < step PROVE Script(running)[j].op # "propose"
    <2>1. CASE running = "deploy"
      BY <1>1, <1>2, <2>1 DEF Ops
    <2>2. CASE running = "task" /\ next["task"] \in {2, 4}
      <3>1. Script(running)[j].op = Ops["task"][next["task"]][j] /\ j \in DOMAIN Ops["task"][next["task"]]
        BY <1>2, <2>2
      <3>2. \A i \in {2, 4} : \A k \in DOMAIN Ops["task"][i] : Ops["task"][i][k] # "propose"
        BY DEF Ops
      <3>. QED BY <2>2, <3>1, <3>2
    <2>3. CASE step = 1
      BY <1>1, <1>3, <2>3
    <2>. QED BY <1>1, <2>1, <2>2, <2>3 DEF Tracks
  <1>. QED BY <1>3 DEF ProcessInv

-----------------------------------------------------------------------------
(* What the steps of the production scripts deploy, read, save and propose. *)
ManagerArgs ==
  <<USDC_MAINNET, "usdyProxy", PROD_MANAGER_ADMIN_USDY, PROD_PAUSER_USDY, PROD_ASSET_SENDER_USDY,
    PROD_FEE_RECIPIENT_USDY, "500e6", "500e18", "Blocklist", SANCTION_ADDRESS>>

LEMMA DeploySteps ==
  ASSUME network = "production"
  PROVE  /\ Now("deploy", 1, 1) =>
              Step = Deploy("AllowlistFactory", "AllowlistFactory", <<PROD_GUARDIAN_USDY>>)
         /\ Now("deploy", 2, 1) => Step = Deploy("Blocklist", "Blocklist", <<>>)
         /\ Now("deploy", 3, 1) => Step = Deploy("USDYFactory", "USDYFactory", <<PROD_GUARDIAN_OMMF>>)
         /\ Now("deploy", 4, 7) => Step = Deploy("USDYManager", "USDYManager", ManagerArgs)
         /\ Now("deploy", 5, 1) =>
              Step = Deploy("USDY_Pricer", USDYPricer, <<PROD_GUARDIAN_USDY, PROD_GUARDIAN_USDY>>)
  <1>1. /\ Now("deploy", 1, 1) => Step = deployAllowlist_Factory[1]
        /\ Now("deploy", 2, 1) => Step = deployBlocklist[1]
        /\ Now("deploy", 3, 1) => Step = deployUSDY_Factory[1]
        /\ Now("deploy", 4, 7) => Step = deploy_usdyManager[7]
        /\ Now("deploy", 5, 1) => Step = deploy_usdyPricer[1]
    BY DEF Now, Step, Script, Scripts
  <1>. QED BY <1>1 DEF deployAllowlist_Factory, deployBlocklist, deployUSDY_Factory, deploy_usdyManager,
         deploy_usdyPricer, ManagerArgs

LEMMA ReadSteps ==
  ASSUME network = "production"
  PROVE  /\ Now("deploy", 4, 4) => Step = Read("USDYFactory", "usdyProxy")
         /\ Now("deploy", 4, 5) => Step = Read("AllowlistFactory", "allowlistProxy")
         /\ Now("task", 2, 2) => Step = Read("AllowlistFactory", "allowlistProxy")
         /\ Now("task", 2, 3) => Step = Read("AllowlistFactory", "allowlistProxyAdmin")
         /\ Now("task", 4, 2) => Step = Read("USDYFactory", "usdyProxy")
         /\ Now("task", 4, 3) => Step = Read("USDYFactory", "usdyProxyAdmin")
  <1>1. /\ Now("deploy", 4, 4) => Step = deploy_usdyManager[4]
        /\ Now("deploy", 4, 5) => Step = deploy_usdyManager[5]
        /\ Now("task", 2, 2) => Step = task2_save_usdy_prod[2]
        /\ Now("task", 2, 3) => Step = task2_save_usdy_prod[3]
        /\ Now("task", 4, 2) => Step = task4_save_usdy_prod[2]
        /\ Now("task", 4, 3) => Step = task4_save_usdy_prod[3]
    BY DEF Now, Step, Script, Scripts
  <1>. QED BY <1>1 DEF deploy_usdyManager, task2_save_usdy_prod, task4_save_usdy_prod

LEMMA SaveSteps ==
  ASSUME network = "production"
  PROVE  /\ Now("task", 2, 4) => Step = Save("Allowlist", "allowlistProxy")
         /\ Now("task", 2, 5) => Step = Save("ProxyAdminAllowlist", "allowlistProxyAdmin")
         /\ Now("task", 4, 4) => Step = Save("USDY", "usdyProxy")
         /\ Now("task", 4, 5) => Step = Save("ProxyAdminUSDY", "usdyProxyAdmin")
  <1>1. /\ Now("task", 2, 4) => Step = task2_save_usdy_prod[4]
        /\ Now("task", 2, 5) => Step = task2_save_usdy_prod[5]
        /\ Now("task", 4, 4) => Step = task4_save_usdy_prod[4]
        /\ Now("task", 4, 5) => Step = task4_save_usdy_prod[5]
    BY DEF Now, Step, Script, Scripts
  <1>. QED BY <1>1 DEF task2_save_usdy_prod, task4_save_usdy_prod

LEMMA TaskThreeSteps ==
  ASSUME network = "production"
  PROVE  /\ Now("task", 3, 1) => Step = Get("USDYFactory")
         /\ Now("task", 3, 2) => Step = Get("Blocklist")
         /\ Now("task", 3, 3) => Step = Get("Allowlist")
         /\ Now("task", 3, 4) => Step = AddContract("USDYFactory")
         /\ Now("task", 3, 5) => Step = ProposeFunctionCall("USDYFactory", "deployUSDY",
                                          <<"Blocklist", "Allowlist", SANCTION_ADDRESS>>)
  <1>1. \A k \in 1..5 : Now("task", 3, k) => Step = task3_usdy_prod[k]
    BY DEF Now, Step, Script, Scripts
  <1>. QED BY <1>1 DEF task3_usdy_prod

LEMMA ProposeSteps ==
  ASSUME network = "production"
  PROVE  /\ Now("task", 1, 3) => Step = ProposeFunctionCall("AllowlistFactory", "deployAllowlist",
                                          <<PROD_GUARDIAN_USDY, PROD_GUARDIAN_USDY>>)
         /\ Now("task", 5, 6) => Step = ProposeGrantRole("USDY", "MINTER_ROLE", "USDYManager")
         /\ Now("task", 5, 7) => Step = ProposeGrantRole("USDY", "PAUSER_ROLE", PROD_PAUSER_USDY)
         /\ Now("task", 5, 8) => Step = ProposeFunctionCall("USDYManager", "setPricer", <<"USDY_Pricer">>)
         /\ Now("task", 5, 9) =>
              Step = ProposeGrantRole("USDYManager", "PRICE_ID_SETTER_ROLE", PROD_MANAGER_ADMIN_USDY)
         /\ Now("task", 5, 10) =>
              Step = ProposeGrantRole("USDYManager", "TIMESTAMP_SETTER_ROLE", PROD_MANAGER_ADMIN_USDY)
         /\ Now("task", 5, 11) => Step = ProposeGrantRole("USDYManager", "PAUSER_ROLE", PROD_PAUSER_USDY)
         /\ Now("task", 5, 12) =>
              Step = ProposeGrantRole("USDYManager", "LIST_CONFIGURER_ROLE", PROD_MANAGER_ADMIN_USDY)
         /\ Now("task", 5, 13) =>
              Step = ProposeGrantRole("USDYManager", "RELAYER_ROLE", PROD_MANAGER_ADMIN_USDY)
  <1>1. Now("task", 1, 3) => Step = task1_usdy_prod[3]
    BY DEF Now, Step, Script, Scripts
  <1>2. \A k \in 1..13 : Now("task", 5, k) => Step = task5_usdyManager_prod[k]
    BY DEF Now, Step, Script, Scripts
  <1>3. Now("task", 1, 3) => Step = ProposeFunctionCall("AllowlistFactory", "deployAllowlist",
                                          <<PROD_GUARDIAN_USDY, PROD_GUARDIAN_USDY>>)
    BY <1>1 DEF task1_usdy_prod
  <1>. QED BY <1>2, <1>3 DEF task5_usdyManager_prod

-----------------------------------------------------------------------------
(* What their names stand for.                                             *)
LEMMA ConstantValues ==
  /\ Value(PROD_GUARDIAN_USDY) = Multisig
  /\ Value(PROD_MANAGER_ADMIN_USDY) = Multisig
  /\ Value(PROD_FEE_RECIPIENT_USDY) = Multisig
  /\ Value(PROD_PAUSER_USDY) = PAUSER
  /\ Value(PROD_ASSET_SENDER_USDY) = USDY_MANAGER_ASSET_SENDER
  /\ Value(USDC_MAINNET) = External(USDC_MAINNET)
  /\ Value(SANCTION_ADDRESS) = External(SANCTION_ADDRESS)
  /\ Value("500e6") = External("500e6")
  /\ Value("500e18") = External("500e18")
  BY VariablesAre
     DEF Value, Multisig, PAUSER, USDY_MANAGER_ASSET_SENDER, PROD_GUARDIAN_USDY, PROD_MANAGER_ADMIN_USDY,
         PROD_FEE_RECIPIENT_USDY, PROD_PAUSER_USDY, PROD_ASSET_SENDER_USDY, USDC_MAINNET,
         SANCTION_ADDRESS

LEMMA MultisigIs == Multisig = USDY_MULTISIG /\ Multisig # PAUSER
  BY DEF Multisig, USDY_MULTISIG, PAUSER, PROD_GUARDIAN_USDY, External

LEMMA ValuesOfNone == Values(<<>>) = <<>>
  BY DEF Values

LEMMA ValuesOfOne == ASSUME NEW a PROVE Values(<<a>>) = <<Value(a)>>
  <1>. DEFINE s == <<a>>
  <1>1. DOMAIN s = 1..1 /\ s[1] = a
    OBVIOUS
  <1>. HIDE DEF s
  <1>2. Values(s) = [i \in 1..1 |-> Value(s[i])]
    BY <1>1 DEF Values
  <1>3. [i \in 1..1 |-> Value(s[i])] = <<Value(a)>>
    BY <1>1
  <1>. QED BY <1>2, <1>3 DEF s

LEMMA ValuesOfTwo == ASSUME NEW a, NEW b PROVE Values(<<a, b>>) = <<Value(a), Value(b)>>
  <1>. DEFINE s == <<a, b>>
  <1>1. DOMAIN s = 1..2 /\ s[1] = a /\ s[2] = b
    OBVIOUS
  <1>. HIDE DEF s
  <1>2. Values(s) = [i \in 1..2 |-> Value(s[i])]
    BY <1>1 DEF Values
  <1>3. [i \in 1..2 |-> Value(s[i])] = <<Value(a), Value(b)>>
    BY <1>1
  <1>. QED BY <1>2, <1>3 DEF s

LEMMA ValuesOfThree ==
  ASSUME NEW a, NEW b, NEW c
  PROVE  Values(<<a, b, c>>) = <<Value(a), Value(b), Value(c)>>
  <1>. DEFINE s == <<a, b, c>>
  <1>1. DOMAIN s = 1..3 /\ s[1] = a /\ s[2] = b /\ s[3] = c
    OBVIOUS
  <1>. HIDE DEF s
  <1>2. Values(s) = [i \in 1..3 |-> Value(s[i])]
    BY <1>1 DEF Values
  <1>3. [i \in 1..3 |-> Value(s[i])] = <<Value(a), Value(b), Value(c)>>
    BY <1>1
  <1>. QED BY <1>2, <1>3 DEF s

LEMMA ManagerValues ==
  LET v == Values(ManagerArgs) IN
    /\ v[1] = External(USDC_MAINNET) /\ v[2] = Value("usdyProxy") /\ v[3] = Multisig /\ v[4] = PAUSER
    /\ v[5] = USDY_MANAGER_ASSET_SENDER /\ v[6] = Multisig /\ v[7] = External("500e6")
    /\ v[8] = External("500e18") /\ v[9] = Value("Blocklist") /\ v[10] = External(SANCTION_ADDRESS)
    /\ DOMAIN v = 1..10
  <1>. DEFINE s == ManagerArgs
  <1>1. DOMAIN s = 1..10
    BY DEF ManagerArgs
  <1>2. \A i \in 1..10 : Values(s)[i] = Value(s[i])
    BY <1>1 DEF Values
  <1>3. /\ s[1] = USDC_MAINNET /\ s[2] = "usdyProxy" /\ s[3] = PROD_MANAGER_ADMIN_USDY
        /\ s[4] = PROD_PAUSER_USDY /\ s[5] = PROD_ASSET_SENDER_USDY /\ s[6] = PROD_FEE_RECIPIENT_USDY
        /\ s[7] = "500e6" /\ s[8] = "500e18" /\ s[9] = "Blocklist" /\ s[10] = SANCTION_ADDRESS
    BY DEF ManagerArgs
  <1>4. DOMAIN Values(s) = 1..10
    BY <1>1 DEF Values
  <1>. HIDE DEF s
  <1>. QED BY <1>2, <1>3, <1>4, ConstantValues DEF s

LEMMA FunctionCallIs ==
  ASSUME NEW name \in DeploymentNames, local[name] = At(name), NEW fn, NEW args
  PROVE  Transaction(ProposeFunctionCall(name, fn, args)) = SafeCall(name, fn, "none", Values(args))
  <1>1. Value(name) = At(name)
    BY DEF Value, Variables
  <1>. DEFINE s == ProposeFunctionCall(name, fn, args)
  <1>2. s.from = PROD_GUARDIAN_USDY /\ s.to = name /\ s.fn = fn /\ s.role = "none" /\ s.args = args
    BY SendFields DEF ProposeFunctionCall
  <1>. HIDE DEF s
  <1>3. Transaction(s) = SafeCall(name, fn, "none", Values(args))
    BY <1>1, <1>2 DEF Transaction, SafeCall, Multisig
  <1>. QED BY <1>3 DEF s

LEMMA GrantCallIs ==
  ASSUME NEW name \in DeploymentNames, local[name] = At(name), NEW role, NEW account
  PROVE  Transaction(ProposeGrantRole(name, role, account)) =
           SafeCall(name, "grantRole", role, <<Value(account)>>)
  <1>1. Value(name) = At(name)
    BY DEF Value, Variables
  <1>. DEFINE s == ProposeGrantRole(name, role, account)
  <1>2. /\ s.from = PROD_GUARDIAN_USDY /\ s.to = name /\ s.fn = "grantRole" /\ s.role = role
        /\ s.args = <<account>>
    BY SendFields DEF ProposeGrantRole
  <1>. HIDE DEF s
  <1>3. Transaction(s) = SafeCall(name, "grantRole", role, <<Value(account)>>)
    BY <1>1, <1>2, ValuesOfOne DEF Transaction, SafeCall, Multisig
  <1>. QED BY <1>3 DEF s

-----------------------------------------------------------------------------
(* How far the tasks are.                                                  *)
LEMMA PastGoOn ==
  ASSUME StepsOK, NEW op, GoOn(op), NEW i \in Nat, NEW k \in Nat
  PROVE  /\ Past(i, k)' => Past(i, k) \/ Now("task", i, k)
         /\ Past(i, k) => Past(i, k)'
         /\ Now("task", i, k) => Past(i, k)'
  BY DEF Past, GoOn, StepsOK, Now

TaskLengths == <<3, 7, 5, 7, 13>>

LEMMA TaskLengthsAre ==
  \A i \in 1..5 : Len(Scripts["production"]["task"][i]) = TaskLengths[i]
  <1>1. /\ Scripts["production"]["task"] =
             <<task1_usdy_prod, task2_save_usdy_prod, task3_usdy_prod, task4_save_usdy_prod,
               task5_usdyManager_prod>>
    BY DEF Scripts
  <1>2. /\ Len(task1_usdy_prod) = 3 /\ Len(task2_save_usdy_prod) = 7 /\ Len(task3_usdy_prod) = 5
        /\ Len(task4_save_usdy_prod) = 7 /\ Len(task5_usdyManager_prod) = 13
    BY DEF task1_usdy_prod, task2_save_usdy_prod, task3_usdy_prod, task4_save_usdy_prod,
           task5_usdyManager_prod
  <1>3. /\ TaskLengths[1] = 3 /\ TaskLengths[2] = 7 /\ TaskLengths[3] = 5 /\ TaskLengths[4] = 7
        /\ TaskLengths[5] = 13
    BY DEF TaskLengths
  <1>. SUFFICES ASSUME NEW i \in 1..5
                PROVE  Len(Scripts["production"]["task"][i]) = TaskLengths[i]
    OBVIOUS
  <1>4. i = 1 \/ i = 2 \/ i = 3 \/ i = 4 \/ i = 5
    OBVIOUS
  <1>5. i = 1 => Scripts["production"]["task"][i] = task1_usdy_prod
    BY <1>1
  <1>6. i = 2 => Scripts["production"]["task"][i] = task2_save_usdy_prod
    BY <1>1
  <1>7. i = 3 => Scripts["production"]["task"][i] = task3_usdy_prod
    BY <1>1
  <1>8. i = 4 => Scripts["production"]["task"][i] = task4_save_usdy_prod
    BY <1>1
  <1>9. i = 5 => Scripts["production"]["task"][i] = task5_usdyManager_prod
    BY <1>1
  <1>. QED BY <1>2, <1>3, <1>4, <1>5, <1>6, <1>7, <1>8, <1>9

LEMMA PastOperator ==
  ASSUME StepsOK, ControlOK, network = "production", NEW i \in 1..5, NEW k \in 1..TaskLengths[i],
         \/ \E track \in Tracks : Start(track)
         \/ Finish \/ StepThrows \/ ScriptFails
  PROVE  /\ Past(i, k)' => Past(i, k)
         /\ Past(i, k) /\ (running # "task" \/ next["task"] > i \/ Finish) => Past(i, k)'
  <1>1. k \in Nat /\ k >= 1 /\ next["task"] \in Nat /\ step \in Nat /\ DOMAIN next = Tracks
        /\ "task" \in Tracks
    BY DEF StepsOK, Tracks, ControlOK, TaskLengths
  <1>2. CASE \E track \in Tracks : Start(track)
    BY <1>1, <1>2 DEF Start, Past
  <1>3. CASE Finish
    <2>1. CASE running # "task"
      BY <1>1, <1>3, <2>1 DEF Finish, Exit, Past
    <2>2. CASE running = "task" /\ next["task"] # i
      BY <1>1, <1>3, <2>2 DEF Finish, Exit, Past
    <2>3. CASE running = "task" /\ next["task"] = i
      <3>1. step = TaskLengths[i] + 1 /\ TaskLengths[i] \in Nat
        <4>1. step = Len(Scripts["production"]["task"][i]) + 1
          BY <1>3, <2>3, RunningIs DEF Finish
        <4>2. TaskLengths[i] \in Nat
          BY DEF TaskLengths
        <4>. QED BY <4>1, <4>2, TaskLengthsAre
      <3>2. Past(i, k)
        BY <1>1, <2>3, <3>1 DEF Past
      <3>3. Past(i, k)'
        BY <1>1, <1>3, <2>3 DEF Past, Finish
      <3>. QED BY <3>2, <3>3
    <2>. QED BY <2>1, <2>2, <2>3
  <1>4. CASE (StepThrows \/ ScriptFails) /\ ~Finish
    BY <1>1, <1>4 DEF StepThrows, ScriptFails, Throw, Exit, Past
  <1>. QED BY <1>2, <1>3, <1>4

\* The marks that the invariant speaks of, and that no step goes past unless it is theirs.
ListMarksStay == /\ Past(1, 3)' => Past(1, 3)
                 /\ Past(2, 4)' => Past(2, 4)
                 /\ Past(2, 5)' => Past(2, 5)
TokenMarksStay == /\ Past(3, 5)' => Past(3, 5)
                  /\ Past(4, 4)' => Past(4, 4)
                  /\ Past(4, 5)' => Past(4, 5)
GrantMarksStay == \A k \in 6..13 : Past(5, k)' => Past(5, k)
MarksStay == ListMarksStay /\ TokenMarksStay /\ GrantMarksStay

LEMMA QuietMarks ==
  ASSUME StepsOK, ControlOK, network = "production", NEW op, op \notin {"save", "propose"}, GoOn(op)
  PROVE  MarksStay
  <1>1. IsRunning /\ Step.op = op
    BY DEF GoOn
  <1>. DEFINE Mark(i, k) == \/ i = 1 /\ k = 3
                            \/ i \in {2, 4} /\ k \in {4, 5}
                            \/ i = 3 /\ k = 5
                            \/ i = 5 /\ k \in 6..13
  <1>2. ASSUME NEW i, NEW k, Mark(i, k) PROVE ~Now("task", i, k)
    <2>. SUFFICES ASSUME Now("task", i, k) PROVE FALSE
      OBVIOUS
    <2>1. /\ running = "task" /\ next["task"] = i /\ step = k /\ Step = Script(running)[step]
          /\ step \in DOMAIN Script(running) /\ running # "none"
      BY <1>1, <1>2 DEF Now, Step, IsRunning
    <2>2. Step.op = Ops["task"][i][k]
      BY <2>1, RunningIs DEF HasOps
    <2>. QED BY <1>1, <1>2, <2>2 DEF Ops
  <1>3. ListMarksStay
    <2>1. 1 \in Nat /\ 2 \in Nat /\ 3 \in Nat /\ 4 \in Nat /\ 5 \in Nat
      OBVIOUS
    <2>2. ~Now("task", 1, 3) /\ ~Now("task", 2, 4) /\ ~Now("task", 2, 5)
      <3>1. Mark(1, 3) /\ Mark(2, 4) /\ Mark(2, 5)
        OBVIOUS
      <3>. HIDE DEF Mark
      <3>. QED BY <1>2, <3>1
    <2>. QED BY <2>1, <2>2, PastGoOn DEF ListMarksStay
  <1>4. TokenMarksStay
    <2>1. 3 \in Nat /\ 4 \in Nat /\ 5 \in Nat
      OBVIOUS
    <2>2. ~Now("task", 3, 5) /\ ~Now("task", 4, 4) /\ ~Now("task", 4, 5)
      <3>1. Mark(3, 5) /\ Mark(4, 4) /\ Mark(4, 5)
        OBVIOUS
      <3>. HIDE DEF Mark
      <3>. QED BY <1>2, <3>1
    <2>. QED BY <2>1, <2>2, PastGoOn DEF TokenMarksStay
  <1>5. GrantMarksStay
    <2>. SUFFICES ASSUME NEW k \in 6..13, Past(5, k)' PROVE Past(5, k)
      BY DEF GrantMarksStay
    <2>1. k \in Nat
      OBVIOUS
    <2>. QED BY <1>2, <2>1, PastGoOn
  <1>. QED BY <1>3, <1>4, <1>5 DEF MarksStay

LEMMA OperatorMarks ==
  ASSUME StepsOK, ControlOK, network = "production",
         \/ \E track \in Tracks : Start(track)
         \/ Finish \/ StepThrows \/ ScriptFails
  PROVE  MarksStay
  <1>1. \A i \in 1..5 : \A k \in 1..TaskLengths[i] : Past(i, k)' => Past(i, k)
    BY PastOperator
  <1>2. \A k \in 6..13 : k \in 1..TaskLengths[5]
    BY DEF TaskLengths
  <1>3. /\ 3 \in 1..TaskLengths[1] /\ 4 \in 1..TaskLengths[2] /\ 5 \in 1..TaskLengths[2]
        /\ 5 \in 1..TaskLengths[3] /\ 4 \in 1..TaskLengths[4] /\ 5 \in 1..TaskLengths[4]
    BY DEF TaskLengths
  <1>4. ListMarksStay /\ TokenMarksStay
    BY <1>1, <1>3 DEF ListMarksStay, TokenMarksStay
  <1>5. GrantMarksStay
    BY <1>1, <1>2 DEF GrantMarksStay
  <1>. QED BY <1>4, <1>5 DEF MarksStay

\* A later task begins when the earlier ones are over.
LEMMA PastIs ==
  ASSUME StepsOK
  PROVE  /\ Past(2, 4) => Past(1, 3)
         /\ Past(4, 4) => Past(3, 5)
         /\ Past(4, 5) => Past(4, 4)
         /\ Past(2, 5) => Past(2, 4)
         /\ \A k \in 6..13 : Past(5, k) => Past(5, 6) /\ Past(4, 4) /\ next["task"] > 4
         /\ next["task"] > 3 => Past(3, 5)
         /\ Past(3, 5) => next["task"] >= 3
         /\ Past(4, 4) => next["task"] >= 4
         /\ next["task"] > 4 => Past(4, 4) /\ Past(4, 5)
         /\ next["task"] > 1 => Past(1, 3)
         /\ next["task"] > 2 => Past(2, 4) /\ Past(2, 5)
  BY DEF StepsOK, Past, Tracks

-----------------------------------------------------------------------------
(* What a script has read, and has not.                                    *)
LEMMA FirstStep ==
  ASSUME LocalsOK, running # "none", step = 1
  PROVE  \A v \in Variables : local[v] = Absent
  BY DEF LocalsOK

LEMMA NotReadBefore ==
  ASSUME LocalsOK, network = "production"
  PROVE  /\ Now("deploy", 4, 7) => local["USDYManager"] = Absent
         /\ Now("task", 2, 4) => local["Allowlist"] = Absent
         /\ Now("task", 2, 5) => local["ProxyAdminAllowlist"] = Absent
         /\ Now("task", 4, 4) => local["USDY"] = Absent
         /\ Now("task", 4, 5) => local["ProxyAdminUSDY"] = Absent
  <1>1. Now("deploy", 4, 7) => local["USDYManager"] = Absent
    <2>. SUFFICES ASSUME Now("deploy", 4, 7) PROVE local["USDYManager"] = Absent
      OBVIOUS
    <2>1. Script(running) = deploy_usdyManager /\ step = 7 /\ running # "none"
      BY DEF Now, Script, Scripts
    <2>. DEFINE s == deploy_usdyManager
    <2>2. /\ s[1] = Get("USDYFactory") /\ s[2] = Get("AllowlistFactory") /\ s[3] = Get("Blocklist")
          /\ s[4] = Read("USDYFactory", "usdyProxy") /\ s[5] = Read("AllowlistFactory", "allowlistProxy")
          /\ s[6] = Require("usdyProxy")
      BY DEF deploy_usdyManager
    <2>. HIDE DEF s
    <2>3. \A j \in 1..6 : s[j].op \in {"get", "read"} => s[j].name # "USDYManager"
      BY <2>2, GetOf, ReadOf, RequireOf
    <2>. QED BY <2>1, <2>3, VariablesAre DEF LocalsOK, s
  <1>2. /\ Now("task", 2, 4) => local["Allowlist"] = Absent
        /\ Now("task", 2, 5) => local["ProxyAdminAllowlist"] = Absent
    <2>. SUFFICES ASSUME running = "task", next["task"] = 2, step \in {4, 5}
                  PROVE  local["Allowlist"] = Absent /\ local["ProxyAdminAllowlist"] = Absent
      BY DEF Now
    <2>1. Script(running) = task2_save_usdy_prod /\ running # "none"
      BY DEF Script, Scripts
    <2>. DEFINE s == task2_save_usdy_prod
    <2>2. /\ s[1] = Get("AllowlistFactory")
          /\ s[2] = Read("AllowlistFactory", "allowlistProxy")
          /\ s[3] = Read("AllowlistFactory", "allowlistProxyAdmin")
          /\ s[4] = Save("Allowlist", "allowlistProxy")
      BY DEF task2_save_usdy_prod
    <2>. HIDE DEF s
    <2>3. \A j \in 1..4 : s[j].op \in {"get", "read"} =>
            s[j].name \notin {"Allowlist", "ProxyAdminAllowlist"}
      BY <2>2, GetOf, ReadOf, SaveOf
    <2>. QED BY <2>1, <2>3, VariablesAre DEF LocalsOK, s
  <1>3. /\ Now("task", 4, 4) => local["USDY"] = Absent
        /\ Now("task", 4, 5) => local["ProxyAdminUSDY"] = Absent
    <2>. SUFFICES ASSUME running = "task", next["task"] = 4, step \in {4, 5}
                  PROVE  local["USDY"] = Absent /\ local["ProxyAdminUSDY"] = Absent
      BY DEF Now
    <2>1. Script(running) = task4_save_usdy_prod /\ running # "none"
      BY DEF Script, Scripts
    <2>. DEFINE s == task4_save_usdy_prod
    <2>2. /\ s[1] = Get("USDYFactory")
          /\ s[2] = Read("USDYFactory", "usdyProxy")
          /\ s[3] = Read("USDYFactory", "usdyProxyAdmin")
          /\ s[4] = Save("USDY", "usdyProxy")
      BY DEF task4_save_usdy_prod
    <2>. HIDE DEF s
    <2>3. \A j \in 1..4 : s[j].op \in {"get", "read"} =>
            s[j].name \notin {"USDY", "ProxyAdminUSDY"}
      BY <2>2, GetOf, ReadOf, SaveOf
    <2>. QED BY <2>1, <2>3, VariablesAre DEF LocalsOK, s
  <1>. QED BY <1>1, <1>2, <1>3

LEMMA GotBefore ==
  ASSUME LocalsOK, StepsOK, network = "production", running = "task"
  PROVE  /\ next["task"] = 5 /\ step > 5 =>
              \A name \in {"USDYManager", "USDY_Pricer", "USDY"} : local[name] # Absent
         /\ next["task"] = 3 /\ step > 3 =>
              \A name \in {"USDYFactory", "Blocklist", "Allowlist"} : local[name] # Absent
  <1>1. ASSUME next["task"] = 5, step > 5
        PROVE  \A name \in {"USDYManager", "USDY_Pricer", "USDY"} : local[name] # Absent
    <2>1. Script(running) = task5_usdyManager_prod /\ running # "none"
      BY <1>1 DEF Script, Scripts
    <2>. DEFINE s == task5_usdyManager_prod
    <2>2. /\ s[1] = Get("USDYManager") /\ s[2] = Get("USDY_Pricer") /\ s[5] = Get("USDY")
      BY DEF task5_usdyManager_prod
    <2>3. 1 \in 1..(step - 1) /\ 2 \in 1..(step - 1) /\ 5 \in 1..(step - 1)
      BY <1>1 DEF StepsOK
    <2>. HIDE DEF s
    <2>4. \A j \in 1..(step - 1) : s[j].op = "get" => local[s[j].name] # Absent
      BY <2>1 DEF LocalsOK, s
    <2>. QED BY <2>2, <2>3, <2>4, GetOf
  <1>2. ASSUME next["task"] = 3, step > 3
        PROVE  \A name \in {"USDYFactory", "Blocklist", "Allowlist"} : local[name] # Absent
    <2>1. Script(running) = task3_usdy_prod /\ running # "none"
      BY <1>2 DEF Script, Scripts
    <2>. DEFINE s == task3_usdy_prod
    <2>2. /\ s[1] = Get("USDYFactory") /\ s[2] = Get("Blocklist") /\ s[3] = Get("Allowlist")
      BY DEF task3_usdy_prod
    <2>3. 1 \in 1..(step - 1) /\ 2 \in 1..(step - 1) /\ 3 \in 1..(step - 1)
      BY <1>2 DEF StepsOK
    <2>. HIDE DEF s
    <2>4. \A j \in 1..(step - 1) : s[j].op = "get" => local[s[j].name] # Absent
      BY <2>1 DEF LocalsOK, s
    <2>. QED BY <2>2, <2>3, <2>4, GetOf
  <1>. QED BY <1>1, <1>2

-----------------------------------------------------------------------------
(* What keeps the parts of the invariant.                                  *)
CarefulState ==
  /\ network = "production" /\ DeploymentInv /\ TypedInv /\ BaseInv
  /\ ProcessInv /\ ReadsInv /\ StoreInv /\ ProposalsInv
  /\ AllowlistInv /\ OrderInv /\ TokenInv /\ ManagerInv /\ GrantsInv

SameNames(names) == \A name \in names : deployments'[name] = deployments[name]

KindsGrow == \A kind \in Kinds : Deployed(kind) \subseteq Deployed(kind)'

NextGrows == \A t \in Tracks : next'[t] >= next[t]

\* A later task starts only without proposals, but for those that may wait.
TasksGoOn == \/ next'["task"] = next["task"]
             \/ next["task"] = 1 /\ next'["task"] = 2
             \/ next["task"] = 3 /\ next'["task"] = 4
             \/ next["task"] > 4 /\ next'["task"] > 4
             \/ DOMAIN proposals' = {}

ProposalStays(call) == call \in DOMAIN proposals => call \in DOMAIN proposals'

LEMMA FieldsAre ==
  /\ DOMAIN FieldsOf = {"AllowlistFactory", "USDYFactory", "Allowlist", "USDY", "AllowlistProxyAdmin",
                        "USDYProxyAdmin", "Blocklist", "Pricer", "USDYManager"}
  /\ {"guardian", "allowlistProxy", "allowlistProxyAdmin"} \subseteq FieldsOf["AllowlistFactory"]
  /\ {"guardian", "usdyProxy", "usdyProxyAdmin"} \subseteq FieldsOf["USDYFactory"]
  /\ "proxyAdmin" \in FieldsOf["Allowlist"]
  /\ {"proxyAdmin", "blocklist", "allowlist", "sanctionsList"} \subseteq FieldsOf["USDY"]
  /\ "owner" \in FieldsOf["AllowlistProxyAdmin"]
  /\ "owner" \in FieldsOf["USDYProxyAdmin"]
  /\ "owner" \in FieldsOf["Blocklist"]
  /\ {"collateral", "rwa", "assetSender", "feeRecipient", "blocklist", "minimumDepositAmount",
      "minimumRedemptionAmount", "minimumOffChainRedemptionAmount", "sanctionsList", "pricer"}
       \subseteq FieldsOf["USDYManager"]
  BY DEF FieldsOf, ProxyParts

LEMMA RolesAre ==
  /\ DOMAIN RolesOf = {"USDY", "Allowlist", "USDYManager", "Pricer"}
  /\ RolesOf["Allowlist"] = {"DEFAULT_ADMIN_ROLE", "ALLOWLIST_ADMIN", "ALLOWLIST_SETTER"}
  /\ RolesOf["Pricer"] = {"DEFAULT_ADMIN_ROLE", "PRICE_UPDATE_ROLE"}
  /\ {"MINTER_ROLE", "PAUSER_ROLE"} \subseteq RolesOf["USDY"]
  /\ {"DEFAULT_ADMIN_ROLE", "MANAGER_ADMIN", "PAUSER_ADMIN", "PRICE_ID_SETTER_ROLE",
      "TIMESTAMP_SETTER_ROLE", "RELAYER_ROLE"} \subseteq RolesOf["USDYManager"]
  BY DEF RolesOf

LEMMA ManagerRefsAre ==
  /\ DOMAIN ManagerRefs = {"assetSender", "feeRecipient", "blocklist", "collateral",
                           "minimumDepositAmount", "minimumOffChainRedemptionAmount",
                           "minimumRedemptionAmount", "sanctionsList"}
  /\ ManagerRefs["assetSender"] = USDY_MANAGER_ASSET_SENDER
  /\ ManagerRefs["feeRecipient"] = Multisig
  /\ ManagerRefs["blocklist"] = At("Blocklist")
  /\ ManagerRefs["collateral"] = External(USDC_MAINNET)
  /\ ManagerRefs["minimumDepositAmount"] = External("500e6")
  /\ ManagerRefs["minimumOffChainRedemptionAmount"] = External("500e18")
  /\ ManagerRefs["minimumRedemptionAmount"] = External("500e18")
  /\ ManagerRefs["sanctionsList"] = External(SANCTION_ADDRESS)
  BY DEF ManagerRefs

LEMMA NamesHold ==
  ASSUME DeploymentInv
  PROVE  /\ \A name \in {"AllowlistFactory", "USDYFactory", "Blocklist", "USDYManager"} :
              Has(name) => At(name) \in Deployed(name)
         /\ HasList => List \in Deployed("Allowlist")
         /\ HasToken => Token \in Deployed("USDY")
  <1>1. \A name \in {"AllowlistFactory", "USDYFactory", "Blocklist", "USDYManager"} :
          Has(name) => At(name) \in Deployed(name)
    <2>1. \A name \in {"AllowlistFactory", "USDYFactory", "Blocklist", "USDYManager"} :
            /\ name \in Known \cap DeploymentNames /\ name \notin MayBeZero /\ KindOf[name] = name
      BY KnownAre DEF MayBeZero, DeploymentNames
    <2>. QED BY <2>1 DEF DeploymentInv, NamesOK, IsA, Has, At
  <1>2. HasList => List \in Deployed("Allowlist")
    <2>. SUFFICES ASSUME HasList PROVE List \in Deployed("Allowlist")
      OBVIOUS
    <2>1. PICK n \in 1..MaxInstances : At("AllowlistFactory") = <<"AllowlistFactory", n>>
      BY <1>1, DeployedIs, KindsAre DEF HasList, DeploymentInv, ChainInv
    <2>. QED BY <2>1, TokenSlots DEF HasList, List, RefOf, DeploymentInv, ChainInv, RefsOK, FactoriesAnswer
  <1>3. HasToken => Token \in Deployed("USDY")
    <2>. SUFFICES ASSUME HasToken PROVE Token \in Deployed("USDY")
      OBVIOUS
    <2>1. PICK n \in 1..MaxInstances : At("USDYFactory") = <<"USDYFactory", n>>
      BY <1>1, DeployedIs, KindsAre DEF HasToken, DeploymentInv, ChainInv
    <2>. QED BY <2>1, TokenSlots DEF HasToken, Token, RefOf, DeploymentInv, ChainInv, RefsOK, FactoriesAnswer
  <1>. QED BY <1>1, <1>2, <1>3

LEMMA SameNameIs ==
  ASSUME NEW names, SameNames(names), NEW name \in names
  PROVE  At(name)' = At(name) /\ (Has(name)' <=> Has(name))
  BY DEF SameNames, At, Has

LEMMA ListStays ==
  ASSUME DeploymentInv, SameNames({"AllowlistFactory"}), RefsStay("AllowlistFactory")
  PROVE  /\ Has("AllowlistFactory")' <=> Has("AllowlistFactory")
         /\ HasList' <=> HasList
         /\ Has("AllowlistFactory") => List' = List /\ ListAdmin' = ListAdmin
  <1>1. At("AllowlistFactory")' = At("AllowlistFactory")
        /\ (Has("AllowlistFactory")' <=> Has("AllowlistFactory"))
    BY SameNameIs
  <1>2. ASSUME Has("AllowlistFactory") PROVE List' = List /\ ListAdmin' = ListAdmin
    BY <1>1, <1>2, NamesHold, FieldsAre DEF RefsStay, List, ListAdmin, RefOf
  <1>. QED BY <1>1, <1>2 DEF HasList

LEMMA TokenIsStays ==
  ASSUME DeploymentInv, SameNames({"USDYFactory"}), RefsStay("USDYFactory")
  PROVE  /\ Has("USDYFactory")' <=> Has("USDYFactory")
         /\ HasToken' <=> HasToken
         /\ Has("USDYFactory") => Token' = Token /\ TokenAdmin' = TokenAdmin
  <1>1. At("USDYFactory")' = At("USDYFactory")
        /\ (Has("USDYFactory")' <=> Has("USDYFactory"))
    BY SameNameIs
  <1>2. ASSUME Has("USDYFactory") PROVE Token' = Token /\ TokenAdmin' = TokenAdmin
    BY <1>1, <1>2, NamesHold, FieldsAre DEF RefsStay, Token, TokenAdmin, RefOf
  <1>. QED BY <1>1, <1>2 DEF HasToken

LEMMA StoreStays ==
  ASSUME DeploymentInv, StoreInv, KindsGrow, NextGrows, StepsOK, StepsOK',
         SameNames(DOMAIN ArgsOf), RefsStay("Blocklist"), RolesStay("Pricer")
  PROVE  StoreInv'
  <1>1. DOMAIN ArgsOf = {"AllowlistFactory", "Blocklist", "USDYFactory", "USDY_Pricer"} /\ ArgsOf' = ArgsOf
    BY DEF ArgsOf
  <1>2. \A name \in DOMAIN ArgsOf : At(name)' = At(name) /\ (Has(name)' <=> Has(name))
    BY SameNameIs
  <1>3. \A name \in DOMAIN ArgsOf : Has(name)' => deployments'[name].args = ArgsOf'[name]
    BY <1>1, <1>2 DEF StoreInv, SameNames
  <1>4. ASSUME Has("Blocklist")' PROVE RefOf("Blocklist", "owner")' = External("deployer")
    BY <1>1, <1>2, <1>4, NamesHold, FieldsAre DEF StoreInv, RefsStay, RefOf
  <1>5. ASSUME Has("USDY_Pricer")'
        PROVE  /\ next'["deploy"] > 4
               /\ At("USDY_Pricer")' \in Deployed("Pricer")'
               /\ \A role \in RolesOf["Pricer"] : MembersOf("USDY_Pricer", role)' = <<Multisig>>
    <2>1. /\ next["deploy"] > 4
          /\ At("USDY_Pricer") \in Deployed("Pricer")
          /\ \A role \in RolesOf["Pricer"] : MembersOf("USDY_Pricer", role) = <<Multisig>>
      BY <1>1, <1>2, <1>5 DEF StoreInv
    <2>2. next'["deploy"] > 4
      BY <2>1 DEF NextGrows, StepsOK, Tracks
    <2>. QED BY <1>1, <1>2, <2>1, <2>2, KindsAre DEF KindsGrow, RolesStay, MembersOf
  <1>. QED BY <1>3, <1>4, <1>5 DEF StoreInv, Multisig

CallNames == {"AllowlistFactory", "USDYFactory", "Blocklist", "Allowlist", "USDY", "USDYManager",
              "USDY_Pricer"}

LEMMA CallsStay ==
  ASSUME SameNames(CallNames)
  PROVE  /\ AllowlistCall' = AllowlistCall /\ TokenCall' = TokenCall /\ MinterCall' = MinterCall
         /\ PauserCall' = PauserCall /\ PricerCall' = PricerCall /\ LastCalls' = LastCalls
         /\ \A role : ManagerCall(role)' = ManagerCall(role)
  <1>1. \A name \in CallNames : At(name)' = At(name)
    BY SameNameIs
  <1>2. /\ AllowlistCall' = AllowlistCall /\ TokenCall' = TokenCall /\ MinterCall' = MinterCall
        /\ PauserCall' = PauserCall /\ PricerCall' = PricerCall
        /\ \A role : ManagerCall(role)' = ManagerCall(role)
    BY <1>1 DEF CallNames, AllowlistCall, TokenCall, MinterCall, PauserCall, PricerCall, ManagerCall,
         SafeCall, Multisig, PAUSER
  <1>3. ManagerCalls' = ManagerCalls
    BY <1>2 DEF ManagerCalls, GrantSteps
  <1>4. OtherCalls' = OtherCalls
    BY <1>1, <1>2 DEF OtherCalls, CallNames, SafeCall, Multisig, PAUSER
  <1>. QED BY <1>2, <1>3, <1>4 DEF LastCalls

LEMMA ProposalsInvStays ==
  ASSUME ProposalsInv, SameNames(CallNames), StepsOK, DOMAIN proposals' \subseteq DOMAIN proposals,
         TasksGoOn
  PROVE  ProposalsInv'
  <1>1. \A name \in CallNames : Has(name)' <=> Has(name)
    BY SameNameIs
  <1>2. next["task"] \in Nat
    BY DEF StepsOK, Tracks
  <1>. SUFFICES ASSUME NEW p \in DOMAIN proposals'
       PROVE  \/ p = AllowlistCall /\ next'["task"] < 3 /\ Has("AllowlistFactory")
              \/ p = TokenCall /\ next'["task"] \in {3, 4} /\ Has("USDYFactory") /\ Has("Blocklist")
                 /\ Has("Allowlist")
              \/ p \in LastCalls /\ next'["task"] > 4 /\ Has("USDY_Pricer") /\ Has("USDYManager")
    BY <1>1, CallsStay DEF ProposalsInv, CallNames
  <1>. QED BY <1>2 DEF ProposalsInv, TasksGoOn

\* A mark is passed as before, or by the step that it is about.
ListProceeds ==
  /\ Past(1, 3)' => Past(1, 3) \/ (Has("AllowlistFactory") /\ AllowlistCall \in DOMAIN proposals')
  /\ Past(2, 4)' => \/ Past(2, 4) /\ At("Allowlist")' = At("Allowlist")
                    \/ HasList /\ At("Allowlist")' = List
  /\ Past(2, 5)' => \/ Past(2, 5) /\ At("ProxyAdminAllowlist")' = At("ProxyAdminAllowlist")
                    \/ Has("AllowlistFactory") /\ At("ProxyAdminAllowlist")' = ListAdmin

LEMMA AllowlistStays ==
  ASSUME DeploymentInv, StepsOK, AllowlistInv, KindsGrow, ListProceeds, SameNames({"AllowlistFactory"}),
         RefsStay("AllowlistFactory"), RefsStay("Allowlist"), RefsStay("AllowlistProxyAdmin"),
         RolesStay("Allowlist"), ProposalStays(AllowlistCall)
  PROVE  AllowlistInv'
  <1>1. At("AllowlistFactory")' = At("AllowlistFactory")
    BY SameNameIs
  <1>2. /\ Has("AllowlistFactory")' <=> Has("AllowlistFactory")
        /\ HasList' <=> HasList
        /\ Has("AllowlistFactory") => List' = List /\ ListAdmin' = ListAdmin
    BY <1>1, ListStays
  <1>3. AllowlistCall' = AllowlistCall
    BY <1>1 DEF AllowlistCall, SafeCall, Multisig
  <1>4. ASSUME HasList
        PROVE  /\ \A role \in RolesOf["Allowlist"] : members'[<<List', role>>] = <<Multisig>>
               /\ ref'[<<List', "proxyAdmin">>] = ListAdmin'
               /\ ListAdmin' \in Deployed("AllowlistProxyAdmin")'
               /\ ref'[<<ListAdmin', "owner">>] = Multisig
    <2>1. List' = List /\ ListAdmin' = ListAdmin /\ List \in Deployed("Allowlist")
      BY <1>2, <1>4, NamesHold DEF HasList
    <2>2. /\ \A role \in RolesOf["Allowlist"] : members[<<List, role>>] = <<Multisig>>
          /\ ref[<<List, "proxyAdmin">>] = ListAdmin
          /\ ListAdmin \in Deployed("AllowlistProxyAdmin")
          /\ ref[<<ListAdmin, "owner">>] = Multisig
      BY <1>4 DEF AllowlistInv
    <2>. QED BY <2>1, <2>2, FieldsAre, KindsAre DEF RefsStay, RolesStay, KindsGrow
  <1>5. Past(1, 3)' => Has("AllowlistFactory")' /\ (AllowlistCall' \in DOMAIN proposals' \/ HasList')
    BY <1>2, <1>3 DEF AllowlistInv, ListProceeds, ProposalStays
  <1>6. Past(2, 4)' => HasList' /\ At("Allowlist")' = List'
    BY <1>2 DEF AllowlistInv, ListProceeds, HasList
  <1>7. Past(2, 5)' => At("ProxyAdminAllowlist")' = ListAdmin'
    <2>1. Past(2, 5) => Has("AllowlistFactory") /\ At("ProxyAdminAllowlist") = ListAdmin
      BY PastIs DEF AllowlistInv, HasList
    <2>. QED BY <1>2, <2>1 DEF ListProceeds
  <1>. QED BY <1>2, <1>4, <1>5, <1>6, <1>7 DEF AllowlistInv, Multisig

TokenProceeds ==
  /\ Past(3, 5)' => Past(3, 5) \/ (Has("USDYFactory") /\ TokenCall \in DOMAIN proposals')
  /\ Past(4, 4)' => \/ Past(4, 4) /\ At("USDY")' = At("USDY")
                    \/ HasToken /\ At("USDY")' = Token
  /\ Past(4, 5)' => \/ Past(4, 5) /\ At("ProxyAdminUSDY")' = At("ProxyAdminUSDY")
                    \/ Has("USDYFactory") /\ At("ProxyAdminUSDY")' = TokenAdmin

LEMMA TokenStays ==
  ASSUME DeploymentInv, StepsOK, TokenInv, TokenProceeds,
         SameNames({"USDYFactory", "Blocklist", "Allowlist"}),
         RefsStay("USDYFactory"), RefsStay("USDY"), ProposalStays(TokenCall)
  PROVE  TokenInv'
  <1>1. /\ \A name \in {"USDYFactory", "Blocklist", "Allowlist"} :
             At(name)' = At(name) /\ (Has(name)' <=> Has(name))
        /\ SameNames({"USDYFactory"})
    BY SameNameIs DEF SameNames
  <1>2. /\ Has("USDYFactory")' <=> Has("USDYFactory")
        /\ HasToken' <=> HasToken
        /\ Has("USDYFactory") => Token' = Token /\ TokenAdmin' = TokenAdmin
    BY <1>1, TokenIsStays
  <1>3. TokenCall' = TokenCall
    BY <1>1 DEF TokenCall, SafeCall, Multisig
  <1>4. ASSUME HasToken
        PROVE  /\ ref'[<<Token', "proxyAdmin">>] = TokenAdmin'
               /\ ref'[<<Token', "sanctionsList">>] = External(SANCTION_ADDRESS)
               /\ Has("Blocklist")' /\ ref'[<<Token', "blocklist">>] = At("Blocklist")'
               /\ Has("Allowlist")' /\ ref'[<<Token', "allowlist">>] = At("Allowlist")'
    <2>1. Token' = Token /\ TokenAdmin' = TokenAdmin /\ Token \in Deployed("USDY")
      BY <1>2, <1>4, NamesHold DEF HasToken
    <2>. QED BY <1>1, <1>4, <2>1, FieldsAre DEF TokenInv, RefsStay
  <1>5. Past(3, 5)' => Has("USDYFactory")' /\ (TokenCall' \in DOMAIN proposals' \/ HasToken')
    BY <1>2, <1>3 DEF TokenInv, TokenProceeds, ProposalStays
  <1>6. Past(4, 4)' => HasToken' /\ At("USDY")' = Token'
    BY <1>2 DEF TokenInv, TokenProceeds, HasToken
  <1>7. Past(4, 5)' => At("ProxyAdminUSDY")' = TokenAdmin'
    <2>1. Past(4, 5) => Has("USDYFactory") /\ At("ProxyAdminUSDY") = TokenAdmin
      BY PastIs DEF TokenInv, HasToken
    <2>. QED BY <1>2, <2>1 DEF TokenProceeds
  <1>. QED BY <1>2, <1>4, <1>5, <1>6, <1>7 DEF TokenInv

LEMMA ManagerHolds ==
  ASSUME DeploymentInv, ManagerInv, StepsOK, StepsOK', NextGrows,
         SameNames({"USDYManager", "Blocklist", "USDYFactory"}),
         RefsStay("USDYFactory"),
         \A role \in {"DEFAULT_ADMIN_ROLE", "MANAGER_ADMIN", "PAUSER_ADMIN"} :
           \A c \in Deployed("USDYManager") : members'[<<c, role>>] = members[<<c, role>>],
         \A field \in DOMAIN ManagerRefs \cup {"rwa"} : \A c \in Deployed("USDYManager") :
           ref'[<<c, field>>] = ref[<<c, field>>],
         next["task"] = 4 /\ DOMAIN proposals = {} => DOMAIN proposals' = {}
  PROVE  ManagerInv'
  <1>1. /\ \A name \in {"USDYManager", "Blocklist", "USDYFactory"} :
             At(name)' = At(name) /\ (Has(name)' <=> Has(name))
        /\ SameNames({"USDYFactory"})
    BY SameNameIs DEF SameNames
  <1>2. /\ Has("USDYFactory")' <=> Has("USDYFactory")
        /\ HasToken' <=> HasToken
        /\ Has("USDYFactory") => Token' = Token
    BY <1>1, TokenIsStays
  <1>. SUFFICES ASSUME Has("USDYManager")
       PROVE  /\ HasToken' /\ next'["task"] > 3 /\ next'["deploy"] > 3
              /\ next'["task"] = 4 => DOMAIN proposals' = {}
              /\ \A field \in DOMAIN ManagerRefs' :
                   RefOf("USDYManager", field)' = ManagerRefs'[field]
              /\ RefOf("USDYManager", "rwa")' = Token'
              /\ MembersOf("USDYManager", "DEFAULT_ADMIN_ROLE")' = <<Multisig>>
              /\ MembersOf("USDYManager", "MANAGER_ADMIN")' = <<Multisig>>
              /\ MembersOf("USDYManager", "PAUSER_ADMIN")' = <<PAUSER>>
    BY <1>1 DEF ManagerInv, Multisig, PAUSER
  <1>3. At("USDYManager") \in Deployed("USDYManager")
    BY NamesHold
  <1>4. HasToken' /\ Token' = Token
    BY <1>2 DEF ManagerInv, HasToken
  <1>5. next'["task"] > 3 /\ next'["deploy"] > 3
    <2>1. next["task"] > 3 /\ next["deploy"] > 3
      BY DEF ManagerInv
    <2>. QED BY <2>1 DEF NextGrows, StepsOK, Tracks
  <1>6. next'["task"] = 4 => DOMAIN proposals' = {}
    BY DEF ManagerInv, NextGrows, StepsOK, Tracks
  <1>7. ManagerRefs' = ManagerRefs
    BY <1>1 DEF ManagerRefs, Multisig, USDY_MANAGER_ASSET_SENDER
  <1>8. \A field \in DOMAIN ManagerRefs' : RefOf("USDYManager", field)' = ManagerRefs'[field]
    BY <1>1, <1>3, <1>7 DEF ManagerInv, RefOf
  <1>9. RefOf("USDYManager", "rwa")' = Token'
    BY <1>1, <1>3, <1>4 DEF ManagerInv, RefOf
  <1>10. /\ MembersOf("USDYManager", "DEFAULT_ADMIN_ROLE")' = <<Multisig>>
         /\ MembersOf("USDYManager", "MANAGER_ADMIN")' = <<Multisig>>
         /\ MembersOf("USDYManager", "PAUSER_ADMIN")' = <<PAUSER>>
    <2>1. \A role \in {"DEFAULT_ADMIN_ROLE", "MANAGER_ADMIN", "PAUSER_ADMIN"} :
            MembersOf("USDYManager", role)' = MembersOf("USDYManager", role)
      BY <1>1, <1>3 DEF MembersOf
    <2>. QED BY <2>1 DEF ManagerInv, Multisig, PAUSER
  <1>. QED BY <1>4, <1>5, <1>6, <1>8, <1>9, <1>10

LEMMA ManagerStays ==
  ASSUME DeploymentInv, ManagerInv, StepsOK, StepsOK', NextGrows,
         SameNames({"USDYManager", "Blocklist", "USDYFactory"}),
         RefsStay("USDYFactory"), RolesStay("USDYManager"),
         \A field \in DOMAIN ManagerRefs \cup {"rwa"} : \A c \in Deployed("USDYManager") :
           ref'[<<c, field>>] = ref[<<c, field>>],
         next["task"] = 4 /\ DOMAIN proposals = {} => DOMAIN proposals' = {}
  PROVE  ManagerInv'
  <1>1. \A role \in {"DEFAULT_ADMIN_ROLE", "MANAGER_ADMIN", "PAUSER_ADMIN"} :
          \A c \in Deployed("USDYManager") : members'[<<c, role>>] = members[<<c, role>>]
    <2>1. {"DEFAULT_ADMIN_ROLE", "MANAGER_ADMIN", "PAUSER_ADMIN"} \subseteq RolesOf["USDYManager"]
      BY RolesAre
    <2>2. \A c \in Deployed("USDYManager"), role \in RolesOf["USDYManager"] :
            members'[<<c, role>>] = members[<<c, role>>]
      BY DEF RolesStay
    <2>. QED BY <2>1, <2>2
  <1>. QED BY <1>1, ManagerHolds

LEMMA GrantStepsAre ==
  /\ DOMAIN GrantSteps = {"PRICE_ID_SETTER_ROLE", "TIMESTAMP_SETTER_ROLE", "RELAYER_ROLE"}
  /\ GrantSteps["PRICE_ID_SETTER_ROLE"] = 9 /\ GrantSteps["TIMESTAMP_SETTER_ROLE"] = 10
  /\ GrantSteps["RELAYER_ROLE"] = 13
  BY DEF GrantSteps

GrantsProceed ==
  /\ Past(5, 6)' => /\ SameNames({"USDY"}) /\ Has("USDY_Pricer") /\ Has("USDYManager")
                    /\ Past(5, 6) \/ MinterCall \in DOMAIN proposals'
  /\ Past(5, 7)' => Past(5, 7) \/ PauserCall \in DOMAIN proposals'
  /\ Past(5, 8)' => Past(5, 8) \/ PricerCall \in DOMAIN proposals'
  /\ \A role \in DOMAIN GrantSteps :
       Past(5, GrantSteps[role])' =>
         Past(5, GrantSteps[role]) \/ ManagerCall(role) \in DOMAIN proposals'

LastCallsStay == \A call \in LastCalls : ProposalStays(call)

LEMMA LastCallsAre ==
  /\ {MinterCall, PauserCall, PricerCall} \subseteq LastCalls
  /\ \A role \in DOMAIN GrantSteps : ManagerCall(role) \in LastCalls
  BY DEF LastCalls, ManagerCalls

LEMMA GrantsStay ==
  ASSUME DeploymentInv, StepsOK, StepsOK', GrantsInv, GrantsProceed, LastCallsStay,
         SameNames({"USDYManager", "USDY_Pricer", "USDYFactory"}),
         RefsStay("USDYFactory"), RolesStay("USDY"), RolesStay("USDYManager"),
         Past(5, 6)' => RefsStay("USDYManager")
  PROVE  GrantsInv'
  <1>1. /\ \A name \in {"USDYManager", "USDY_Pricer", "USDYFactory"} :
             At(name)' = At(name) /\ (Has(name)' <=> Has(name))
        /\ SameNames({"USDYFactory"})
    BY SameNameIs DEF SameNames
  <1>2. /\ HasToken' <=> HasToken
        /\ Has("USDYFactory") => Token' = Token
    BY <1>1, TokenIsStays
  <1>3. Past(5, 6)' => MinterCall' = MinterCall /\ PauserCall' = PauserCall
    <2>1. Past(5, 6)' => At("USDY")' = At("USDY")
      BY SameNameIs DEF GrantsProceed
    <2>. QED BY <1>1, <2>1 DEF MinterCall, PauserCall, SafeCall, Multisig, PAUSER
  <1>4. PricerCall' = PricerCall /\ \A role : ManagerCall(role)' = ManagerCall(role)
    BY <1>1 DEF PricerCall, ManagerCall, SafeCall, Multisig
  <1>5. /\ ProposalStays(MinterCall) /\ ProposalStays(PauserCall) /\ ProposalStays(PricerCall)
        /\ \A role \in DOMAIN GrantSteps : ProposalStays(ManagerCall(role))
    BY LastCallsAre DEF LastCallsStay
  <1>6. Past(5, 7)' \/ Past(5, 8)' => Past(5, 6)'
    BY PastIs DEF Past, StepsOK
  <1>7. ASSUME HasToken
        PROVE  /\ Granting(members[<<Token, "MINTER_ROLE">>], <<>>, <<At("USDYManager")>>, MinterCall, 6)'
               /\ Granting(members[<<Token, "PAUSER_ROLE">>], <<Multisig>>, <<Multisig, PAUSER>>,
                           PauserCall, 7)'
    <2>1. Token' = Token /\ Token \in Deployed("USDY")
      BY <1>2, <1>7, NamesHold DEF HasToken
    <2>2. /\ members'[<<Token', "MINTER_ROLE">>] = members[<<Token, "MINTER_ROLE">>]
          /\ members'[<<Token', "PAUSER_ROLE">>] = members[<<Token, "PAUSER_ROLE">>]
      BY <2>1, RolesAre DEF RolesStay
    <2>3. /\ Granting(members[<<Token, "MINTER_ROLE">>], <<>>, <<At("USDYManager")>>, MinterCall, 6)
          /\ Granting(members[<<Token, "PAUSER_ROLE">>], <<Multisig>>, <<Multisig, PAUSER>>, PauserCall, 7)
      BY <1>7 DEF GrantsInv
    <2>4. /\ Past(5, 6)' => Past(5, 6) \/ MinterCall \in DOMAIN proposals'
          /\ Past(5, 7)' => Past(5, 7) \/ PauserCall \in DOMAIN proposals'
      BY DEF GrantsProceed
    <2>5. <<At("USDYManager")>>' = <<At("USDYManager")>> /\ (Has("USDY_Pricer")' <=> Has("USDY_Pricer"))
      BY <1>1
    <2>6. Granting(members[<<Token, "MINTER_ROLE">>], <<>>, <<At("USDYManager")>>, MinterCall, 6)'
      BY <1>3, <1>5, <2>2, <2>3, <2>4, <2>5 DEF Granting, ProposalStays
    <2>7. Granting(members[<<Token, "PAUSER_ROLE">>], <<Multisig>>, <<Multisig, PAUSER>>, PauserCall, 7)'
      BY <1>3, <1>5, <1>6, <2>2, <2>3, <2>4, <2>5 DEF Granting, ProposalStays, Multisig, PAUSER
    <2>. QED BY <2>6, <2>7
  <1>8. ASSUME Has("USDYManager"), NEW role \in DOMAIN GrantSteps
        PROVE  Granting(MembersOf("USDYManager", role), <<>>, <<Multisig>>, ManagerCall(role),
                        GrantSteps[role])'
    <2>1. MembersOf("USDYManager", role)' = MembersOf("USDYManager", role)
      BY <1>1, <1>8, NamesHold, GrantStepsAre, RolesAre DEF RolesStay, MembersOf
    <2>2. GrantSteps' = GrantSteps /\ Multisig' = Multisig
      BY DEF GrantSteps, Multisig
    <2>3. Granting(MembersOf("USDYManager", role), <<>>, <<Multisig>>, ManagerCall(role),
                   GrantSteps[role])
      BY <1>8 DEF GrantsInv
    <2>4. Past(5, GrantSteps[role])' => Past(5, GrantSteps[role]) \/ ManagerCall(role) \in DOMAIN proposals'
      BY DEF GrantsProceed
    <2>5. Has("USDY_Pricer")' <=> Has("USDY_Pricer")
      BY <1>1
    <2>. QED BY <1>4, <1>5, <2>1, <2>2, <2>3, <2>4, <2>5 DEF Granting, ProposalStays
  <1>9. Past(5, 6)' => Has("USDY_Pricer")' /\ Has("USDYManager")'
    BY <1>1 DEF GrantsProceed
  <1>10. ASSUME Past(5, 8)'
         PROVE  PricerCall' \in DOMAIN proposals' \/ RefOf("USDYManager", "pricer")' = At("USDY_Pricer")'
    <2>1. CASE PricerCall \in DOMAIN proposals'
      BY <1>4, <2>1
    <2>2. CASE Past(5, 8)
      <3>1. Has("USDYManager") /\ RefsStay("USDYManager")
        BY <1>6, <1>10 DEF GrantsProceed
      <3>2. RefOf("USDYManager", "pricer")' = RefOf("USDYManager", "pricer")
        BY <1>1, <3>1, NamesHold, FieldsAre DEF RefOf, RefsStay
      <3>3. PricerCall \in DOMAIN proposals \/ RefOf("USDYManager", "pricer") = At("USDY_Pricer")
        BY <2>2 DEF GrantsInv
      <3>4. At("USDY_Pricer")' = At("USDY_Pricer")
        BY <1>1
      <3>. QED BY <1>4, <1>5, <3>2, <3>3, <3>4 DEF ProposalStays
    <2>. QED BY <1>10, <2>1, <2>2 DEF GrantsProceed
  <1>11. GrantSteps' = GrantSteps /\ (Has("USDYManager")' <=> Has("USDYManager"))
    BY <1>1 DEF GrantSteps
  <1>12. \A role \in DOMAIN GrantSteps' : Has("USDYManager")' =>
           Granting(MembersOf("USDYManager", role), <<>>, <<Multisig>>, ManagerCall(role),
                    GrantSteps[role])'
    BY <1>8, <1>11
  <1>. QED BY <1>2, <1>7, <1>9, <1>10, <1>12 DEF GrantsInv

\* Nothing is passed: everything goes on.
LEMMA MarksProceed ==
  ASSUME StepsOK, StepsOK', MarksStay, GrantsInv,
         SameNames({"Allowlist", "ProxyAdminAllowlist", "USDY", "ProxyAdminUSDY"})
  PROVE  ListProceeds /\ TokenProceeds /\ GrantsProceed
  <1>1. \A name \in {"Allowlist", "ProxyAdminAllowlist", "USDY", "ProxyAdminUSDY"} : At(name)' = At(name)
    BY SameNameIs
  <1>2. ListProceeds /\ TokenProceeds
    BY <1>1 DEF MarksStay, ListMarksStay, TokenMarksStay, ListProceeds, TokenProceeds
  <1>3. \A k \in 6..13 : Past(5, k)' => Past(5, k)
    BY DEF MarksStay, GrantMarksStay
  <1>4. SameNames({"USDY"}) /\ (Past(5, 6) => Has("USDY_Pricer") /\ Has("USDYManager"))
    BY DEF SameNames, GrantsInv
  <1>5. \A role \in DOMAIN GrantSteps : GrantSteps[role] \in 6..13
    BY GrantStepsAre
  <1>6. GrantsProceed
    BY <1>3, <1>4, <1>5 DEF GrantsProceed
  <1>. QED BY <1>2, <1>6

-----------------------------------------------------------------------------
(* Steps that leave the chain, the store and the proposals alone.          *)
QuietVars == <<chainVars, deployments, proposals>>

LEMMA QuietFrame ==
  ASSUME UNCHANGED QuietVars
  PROVE  /\ \A names : SameNames(names)
         /\ \A kind : RefsStay(kind) /\ RolesStay(kind)
         /\ KindsGrow
         /\ \A call : ProposalStays(call)
         /\ LastCallsStay
  BY DEF QuietVars, chainVars, SameNames, RefsStay, RolesStay, KindsGrow, ProposalStays, LastCallsStay,
         Deployed

LEMMA QuietParts ==
  ASSUME CarefulState, UNCHANGED QuietVars, MarksStay, NextGrows, StepsOK', TasksGoOn
  PROVE  PartsInv'
  <1>1. /\ \A names : SameNames(names)
        /\ \A kind : RefsStay(kind) /\ RolesStay(kind)
        /\ KindsGrow
        /\ \A call : ProposalStays(call)
        /\ LastCallsStay
    BY QuietFrame
  <1>2. DOMAIN proposals' = DOMAIN proposals /\ UNCHANGED <<ref, deployments>>
    BY DEF QuietVars, chainVars
  <1>3. StoreInv'
    BY <1>1, StoreStays DEF CarefulState, BaseInv
  <1>4. ProposalsInv'
    BY <1>1, <1>2, ProposalsInvStays DEF CarefulState, BaseInv
  <1>5. ListProceeds /\ TokenProceeds /\ GrantsProceed
    BY <1>1, MarksProceed DEF CarefulState, BaseInv
  <1>6. AllowlistInv'
    BY <1>1, <1>5, AllowlistStays DEF CarefulState, BaseInv
  <1>7. TokenInv'
    BY <1>1, <1>5, TokenStays DEF CarefulState, BaseInv
  <1>8. ManagerInv'
    BY <1>1, <1>2, ManagerStays DEF CarefulState, BaseInv
  <1>9. GrantsInv'
    BY <1>1, <1>5, GrantsStay DEF CarefulState, BaseInv
  <1>. QED BY <1>3, <1>4, <1>6, <1>7, <1>8, <1>9 DEF PartsInv

-----------------------------------------------------------------------------
(* The operator.                                                           *)
LEMMA NoReads ==
  ASSUME local' = [v \in Variables |-> Absent]
  PROVE  ReadsInv'
  <1>1. \A v \in Variables : local'[v] = Absent
    OBVIOUS
  <1>2. {"allowlistProxy", "allowlistProxyAdmin", "usdyProxy", "usdyProxyAdmin"} \subseteq Variables
        /\ DeploymentNames \subseteq Variables
    BY VariablesAre, GettersAre
  <1>3. Absent' = Absent
    BY DEF Absent
  <1>. QED BY <1>1, <1>2, <1>3 DEF ReadsInv

LEMMA OperatorQuiet ==
  ASSUME CarefulState, StepsOK',
         \/ \E track \in Tracks : Start(track)
         \/ Finish \/ StepThrows \/ ScriptFails
  PROVE  PartsInv' /\ ReadsInv'
  <1>1. /\ UNCHANGED QuietVars /\ UNCHANGED network
        /\ local' = [v \in Variables |-> Absent]
        /\ next' = next \/ (Finish /\ running # "none" /\ next' = [next EXCEPT ![running] = @ + 1])
    BY DEF QuietVars, storeVars, Start, Finish, StepThrows, ScriptFails, Throw, Exit
  <1>2. /\ ControlOK /\ StepsOK /\ network = "production" /\ DOMAIN next = Tracks /\ ProcessInv
        /\ running # "none" => running \in Tracks
    BY DEF CarefulState, DeploymentInv, BaseInv, ControlOK
  <1>3. MarksStay
    BY <1>2, OperatorMarks
  <1>4. NextGrows
    BY <1>1, <1>2 DEF NextGrows, StepsOK
  <1>5. TasksGoOn
    <2>1. CASE next' = next \/ running # "task"
      BY <1>1, <1>2, <2>1 DEF TasksGoOn, Tracks
    <2>2. CASE Finish /\ running = "task" /\ next' = [next EXCEPT !["task"] = @ + 1]
      <3>1. next["task"] \in 1..5 /\ next'["task"] = next["task"] + 1
        BY <1>2, <2>2, RunningIs DEF Tracks
      <3>2. next["task"] \in {2, 4} => DOMAIN proposals = {}
        BY <1>2, <2>2, NothingProposed DEF Finish
      <3>3. proposals' = proposals
        BY <1>1 DEF QuietVars
      <3>. QED BY <3>1, <3>2, <3>3 DEF TasksGoOn
    <2>. QED BY <1>1, <2>1, <2>2
  <1>. QED BY <1>1, <1>3, <1>4, <1>5, QuietParts, NoReads

LEMMA StartKeeps ==
  ASSUME CarefulState, StepsOK', NEW track \in Tracks, Start(track), ~hasty'
  PROVE  ProcessInv' /\ OrderInv'
  <1>1. DOMAIN proposals = {} /\ undone \subseteq {track}
    BY DEF Start
  <1>2. ProcessInv'
    BY <1>1 DEF Start, ProcessInv
  <1>3. HasToken' <=> HasToken
    BY DEF HasToken, Has, At, Token, RefOf, Start, chainVars, storeVars
  <1>4. OrderInv'
    <2>. SUFFICES ASSUME HasToken PROVE Past(3, 5)' \/ (next["task"] = 3 /\ "task" \in undone)
      BY <1>1, <1>3 DEF OrderInv, Start
    <2>1. Past(3, 5) \/ (next["task"] = 3 /\ "task" \in undone)
      BY DEF CarefulState, OrderInv
    <2>. QED BY <2>1 DEF Start, Past
  <1>. QED BY <1>2, <1>4

LEMMA FinishKeeps ==
  ASSUME CarefulState, StepsOK', Finish
  PROVE  ProcessInv' /\ OrderInv'
  <1>1. /\ ControlOK /\ StepsOK /\ network = "production" /\ DOMAIN next = Tracks /\ ProcessInv
        /\ running \in Tracks /\ next[running] \in 1..5
    BY RunningIs DEF CarefulState, DeploymentInv, BaseInv, ControlOK, Finish
  <1>2. ProcessInv'
    BY DEF Finish, Exit, ProcessInv
  <1>3. HasToken' <=> HasToken
    BY DEF HasToken, Has, At, Token, RefOf, Finish, chainVars, storeVars
  <1>4. /\ undone' = undone \ {running} /\ proposals' = proposals
        /\ next' = [next EXCEPT ![running] = @ + 1]
    BY DEF Finish
  <1>5. Past(3, 5) => Past(3, 5)'
    BY <1>1, PastOperator DEF TaskLengths
  <1>6. HasToken \/ (next["task"] = 3 /\ DOMAIN proposals # {}) =>
          Past(3, 5) \/ (next["task"] = 3 /\ "task" \in undone)
    BY DEF CarefulState, OrderInv
  <1>7. CASE running = "deploy"
    <2>1. next'["task"] = next["task"] /\ ("task" \in undone => "task" \in undone')
      BY <1>1, <1>4, <1>7 DEF Tracks
    <2>. QED BY <1>2, <1>3, <1>4, <1>5, <1>6, <2>1 DEF OrderInv
  <1>8. CASE running = "task"
    <2>1. next'["task"] = next["task"] + 1 /\ next["task"] \in 1..5
      BY <1>1, <1>4, <1>8 DEF Tracks
    <2>2. next["task"] = 2 => DOMAIN proposals = {}
      BY <1>1, <1>8, NothingProposed DEF Finish
    <2>3. next["task"] = 3 => Past(3, 5)'
      BY <2>1 DEF Past
    <2>. QED BY <1>2, <1>3, <1>4, <1>5, <1>6, <2>1, <2>2, <2>3 DEF OrderInv
  <1>. QED BY <1>1, <1>2, <1>7, <1>8 DEF Tracks

LEMMA ScriptFailsKeeps ==
  ASSUME CarefulState, StepsOK', ScriptFails
  PROVE  ProcessInv' /\ OrderInv'
  <1>1. /\ ControlOK /\ StepsOK /\ network = "production" /\ ProcessInv /\ running \in Tracks
    BY DEF CarefulState, DeploymentInv, BaseInv, ControlOK, ScriptFails
  <1>2. ProcessInv'
    BY DEF ScriptFails, Throw, Exit, ProcessInv
  <1>3. HasToken' <=> HasToken
    BY DEF HasToken, Has, At, Token, RefOf, ScriptFails, Throw, chainVars, storeVars
  <1>4. undone' = undone \cup {running} /\ proposals' = proposals /\ next' = next
    BY DEF ScriptFails, Throw
  <1>5. HasToken \/ (next["task"] = 3 /\ DOMAIN proposals # {}) =>
          Past(3, 5) \/ (next["task"] = 3 /\ "task" \in undone)
    BY DEF CarefulState, OrderInv
  <1>6. Past(3, 5) => Past(3, 5)' \/ (next["task"] = 3 /\ running = "task")
    BY <1>4 DEF Past
  <1>7. OrderInv'
    BY <1>3, <1>4, <1>5, <1>6 DEF OrderInv
  <1>. QED BY <1>2, <1>7

\* Task 3 does not throw once there is what it proposes, or has proposed.
LEMMA TaskThreeSucceeds ==
  ASSUME CarefulState, IsRunning, running = "task", next["task"] = 3,
         HasToken \/ DOMAIN proposals # {}
  PROVE  StepSucceeds
  <1>1. /\ ControlOK /\ StepsOK /\ LocalsOK /\ network = "production" /\ NamesOK
        /\ StepsOK
    BY DEF CarefulState, DeploymentInv, BaseInv
  <1>2. Has("USDYFactory") /\ Has("Blocklist") /\ Has("Allowlist")
    <2>1. CASE HasToken
      BY <2>1 DEF CarefulState, TokenInv, HasToken
    <2>2. CASE \E p \in DOMAIN proposals : TRUE
      BY <2>2 DEF CarefulState, ProposalsInv
    <2>. QED BY <2>1, <2>2
  <1>3. step \in 1..5
    BY <1>1, RunningIs DEF IsRunning, HasOps, Ops
  <1>4. CASE step \in 1..3
    <2>1. \E name \in {"USDYFactory", "Blocklist", "Allowlist"} : Step = Get(name)
      BY <1>1, <1>4, TaskThreeSteps DEF Now
    <2>2. PICK name \in {"USDYFactory", "Blocklist", "Allowlist"} : Step = Get(name)
      BY <2>1
    <2>3. Step.op = "get" /\ Step.name = name /\ Step.uses = {}
      BY <2>2, GetOf
    <2>. QED BY <1>2, <2>3 DEF StepSucceeds, Has, At
  <1>5. CASE step = 4
    <2>1. Step = AddContract("USDYFactory")
      BY <1>1, <1>5, TaskThreeSteps DEF Now
    <2>2. Step.op = "addContract" /\ Step.uses = {"USDYFactory"}
      BY <2>1, AddContractOf
    <2>3. local["USDYFactory"] # Absent
      BY <1>1, <1>5, GotBefore
    <2>. QED BY <2>2, <2>3 DEF StepSucceeds, Assigned
  <1>6. CASE step = 5
    <2>. DEFINE args == <<"Blocklist", "Allowlist", SANCTION_ADDRESS>>
    <2>1. Step = ProposeFunctionCall("USDYFactory", "deployUSDY", args)
      BY <1>1, <1>6, TaskThreeSteps DEF Now
    <2>2. DOMAIN args = 1..3 /\ args[1] = "Blocklist" /\ args[2] = "Allowlist" /\ args[3] = SANCTION_ADDRESS
      OBVIOUS
    <2>. HIDE DEF args
    <2>3. Step.op = "propose" /\ Step.uses = {args[i] : i \in DOMAIN args} \cup {"USDYFactory"}
      BY <2>1 DEF ProposeFunctionCall, Send
    <2>4. \A name \in Step.uses : name \in {"Blocklist", "Allowlist", "USDYFactory", SANCTION_ADDRESS}
      BY <2>2, <2>3
    <2>5. \A name \in {"USDYFactory", "Blocklist", "Allowlist"} : local[name] # Absent
      BY <1>1, <1>6, GotBefore
    <2>6. SANCTION_ADDRESS \notin Variables
      BY VariablesAre DEF SANCTION_ADDRESS
    <2>. QED BY <2>3, <2>4, <2>5, <2>6 DEF StepSucceeds, Assigned
  <1>. QED BY <1>3, <1>4, <1>5, <1>6

LEMMA StepThrowsKeeps ==
  ASSUME CarefulState, StepsOK', StepThrows
  PROVE  ProcessInv' /\ OrderInv'
  <1>1. /\ StepsOK /\ running \in Tracks /\ running # "none" /\ IsRunning /\ ~StepSucceeds
    BY DEF CarefulState, DeploymentInv, BaseInv, ControlOK, StepThrows, IsRunning
  <1>2. ProcessInv'
    BY DEF StepThrows, Throw, Exit, ProcessInv
  <1>3. HasToken' <=> HasToken
    BY DEF HasToken, Has, At, Token, RefOf, StepThrows, Throw, chainVars, storeVars
  <1>4. undone' = undone \ {running} /\ proposals' = proposals /\ next' = next
    BY DEF StepThrows, Throw
  <1>5. HasToken \/ (next["task"] = 3 /\ DOMAIN proposals # {}) =>
          Past(3, 5) \/ (next["task"] = 3 /\ "task" \in undone)
    BY DEF CarefulState, OrderInv
  <1>6. Past(3, 5) => Past(3, 5)' \/ (next["task"] = 3 /\ running = "task")
    BY <1>4 DEF Past
  <1>7. running = "task" /\ next["task"] = 3 => ~HasToken /\ DOMAIN proposals = {}
    BY <1>1, TaskThreeSucceeds
  <1>8. OrderInv'
    BY <1>1, <1>3, <1>4, <1>5, <1>6, <1>7 DEF OrderInv, Tracks
  <1>. QED BY <1>2, <1>8

-----------------------------------------------------------------------------
(* The steps that only read.                                               *)
LEMMA GoOnKeeps ==
  ASSUME CarefulState, StepsOK', NEW op, GoOn(op), UNCHANGED proposals, HasToken' => HasToken
  PROVE  ProcessInv' /\ OrderInv'
  <1>1. StepsOK /\ ProcessInv /\ OrderInv
    BY DEF CarefulState, BaseInv
  <1>2. /\ running' = running /\ next' = next /\ undone' = undone /\ step' = step + 1 /\ network' = network
        /\ proposals' = proposals /\ Script(running)' = Script(running) /\ step \in Nat
    BY <1>1 DEF GoOn, history, Script, StepsOK
  <1>3. ProcessInv'
    BY <1>1, <1>2 DEF ProcessInv
  <1>4. Past(3, 5) => Past(3, 5)'
    BY <1>1, PastGoOn
  <1>5. OrderInv'
    BY <1>1, <1>2, <1>4 DEF OrderInv
  <1>. QED BY <1>3, <1>5

LEMMA GoOnNext ==
  ASSUME CarefulState, NEW op, GoOn(op)
  PROVE  NextGrows /\ next' = next /\ TasksGoOn
  BY DEF GoOn, NextGrows, TasksGoOn, CarefulState, BaseInv, StepsOK

ReadNames == {"allowlistProxy", "allowlistProxyAdmin", "usdyProxy", "usdyProxyAdmin"}

LEMMA ReadNow ==
  ASSUME CarefulState, RunRead
  PROVE  \E of \in Factories, name \in ReadNames :
           /\ Step = Read(of, name)
           /\ \/ of = "AllowlistFactory" /\ name \in {"allowlistProxy", "allowlistProxyAdmin"}
              \/ of = "USDYFactory" /\ name \in {"usdyProxy", "usdyProxyAdmin"}
           /\ DOMAIN proposals = {}
  <1>1. /\ ControlOK /\ StepsOK /\ network = "production" /\ ProcessInv /\ IsRunning /\ Step.op = "read"
        /\ running # "none"
    BY DEF CarefulState, DeploymentInv, BaseInv, RunRead, GoOn, IsRunning
  <1>2. \/ Now("deploy", 4, 4) \/ Now("deploy", 4, 5) \/ Now("task", 2, 2) \/ Now("task", 2, 3)
        \/ Now("task", 4, 2) \/ Now("task", 4, 3)
    BY <1>1, WhichStep
  <1>3. DOMAIN proposals = {}
    BY <1>1, <1>2, NothingProposed DEF Now, IsRunning
  <1>. QED BY <1>1, <1>2, <1>3, ReadSteps DEF Factories, ReadNames

LEMMA RunReadKeepsReads ==
  ASSUME CarefulState, RunRead
  PROVE  ReadsInv'
  <1>1. PICK of \in Factories, name \in ReadNames :
           /\ Step = Read(of, name)
           /\ \/ of = "AllowlistFactory" /\ name \in {"allowlistProxy", "allowlistProxyAdmin"}
              \/ of = "USDYFactory" /\ name \in {"usdyProxy", "usdyProxyAdmin"}
           /\ DOMAIN proposals = {}
    BY ReadNow
  <1>2. Step.of = of /\ Step.name = name /\ of \in Step.uses
    BY <1>1 DEF Read
  <1>3. /\ of \in DeploymentNames /\ of \in Variables /\ DOMAIN local = Variables /\ name \in Variables
        /\ name \notin DeploymentNames
    BY <1>1, VariablesAre DEF Factories, DeploymentNames, CarefulState, DeploymentInv, NamesOK
  <1>4. local[of] # Absent
    BY <1>2, <1>3 DEF RunRead, GoOn, StepSucceeds, Assigned
  <1>5. local[of] = At(of) /\ Has(of) /\ Value(of) = At(of)
    BY <1>3, <1>4 DEF CarefulState, ReadsInv, Has, Value
  <1>6. /\ local' = [local EXCEPT ![name] = RefOf(of, name)]
        /\ UNCHANGED <<deployments, proposals, ref>>
    BY <1>2, <1>5 DEF RunRead, RefOf, chainVars, storeVars
  <1>7. \A n : Has(n)' = Has(n) /\ At(n)' = At(n)
    BY <1>6 DEF Has, At
  <1>8. /\ List' = List /\ ListAdmin' = ListAdmin /\ Token' = Token /\ TokenAdmin' = TokenAdmin
    BY <1>6 DEF List, ListAdmin, Token, TokenAdmin, RefOf, At
  <1>9. \A v \in Variables : v # name => local'[v] = local[v]
    BY <1>3, <1>6
  <1>10. local'[name] = RefOf(of, name)
    BY <1>3, <1>6
  <1>11. ReadsInv /\ DeploymentNames \subseteq Variables
         /\ {"allowlistProxy", "allowlistProxyAdmin", "usdyProxy", "usdyProxyAdmin"} \subseteq Variables
    BY GettersAre, VariablesAre DEF CarefulState
  <1>12. \A n \in DeploymentNames : local'[n] \in {Absent, At(n)'}
    BY <1>3, <1>7, <1>9, <1>11 DEF ReadsInv
  <1>13. /\ DOMAIN proposals' = {} /\ Absent' = Absent
    BY <1>1, <1>6 DEF Absent
  <1>14. /\ local'["allowlistProxy"] # Absent => Has("AllowlistFactory") /\ local'["allowlistProxy"] = List
         /\ local'["allowlistProxyAdmin"] # Absent =>
              Has("AllowlistFactory") /\ local'["allowlistProxyAdmin"] = ListAdmin
    BY <1>1, <1>5, <1>9, <1>10, <1>11 DEF ReadsInv, List, ListAdmin
  <1>15. /\ local'["usdyProxy"] # Absent => Has("USDYFactory") /\ local'["usdyProxy"] = Token
         /\ local'["usdyProxyAdmin"] # Absent =>
              Has("USDYFactory") /\ local'["usdyProxyAdmin"] = TokenAdmin
    BY <1>1, <1>5, <1>9, <1>10, <1>11 DEF ReadsInv, Token, TokenAdmin
  <1>. QED BY <1>7, <1>8, <1>12, <1>13, <1>14, <1>15 DEF ReadsInv

\* The variables stay what they were, and so does what they are about.
LEMMA ReadsStay ==
  ASSUME ReadsInv, UNCHANGED local, SameNames({"AllowlistFactory", "USDYFactory"}), DeploymentInv,
         RefsStay("AllowlistFactory"), RefsStay("USDYFactory"),
         \A name \in DeploymentNames : local[name] = Absent \/ SameNames({name}),
         \/ DOMAIN proposals' = {}
         \/ \A name \in ReadNames : local[name] = Absent
  PROVE  ReadsInv'
  <1>1. /\ At("AllowlistFactory")' = At("AllowlistFactory") /\ At("USDYFactory")' = At("USDYFactory")
        /\ Has("AllowlistFactory")' = Has("AllowlistFactory") /\ Has("USDYFactory")' = Has("USDYFactory")
    BY DEF SameNames, At, Has
  <1>2. /\ Has("AllowlistFactory") => List' = List /\ ListAdmin' = ListAdmin
        /\ Has("USDYFactory") => Token' = Token /\ TokenAdmin' = TokenAdmin
    BY ListStays, TokenIsStays DEF SameNames
  <1>3. \A name \in DeploymentNames : local'[name] \in {Absent, At(name)'}
    BY DEF ReadsInv, SameNames, At
  <1>4. Absent' = Absent
    BY DEF Absent
  <1>. QED BY <1>1, <1>2, <1>3, <1>4 DEF ReadsInv, ReadNames

LEMMA RunGetKeepsReads ==
  ASSUME CarefulState, RunGet
  PROVE  ReadsInv'
  <1>1. Step.name \in DeploymentNames
    BY GoingOn DEF RunGet, CarefulState, GoodStep
  <1>2. UNCHANGED <<deployments, proposals, ref>> /\ local' = [local EXCEPT ![Step.name] = At(Step.name)]
    BY DEF RunGet, chainVars, storeVars, At
  <1>3. /\ DOMAIN local = Variables /\ DeploymentNames \subseteq Variables /\ ReadNames \subseteq Variables
        /\ ReadNames \cap DeploymentNames = {}
    BY GettersAre, VariablesAre DEF CarefulState, DeploymentInv, NamesOK, ReadNames, DeploymentNames
  <1>. DEFINE name == Step.name
  <1>. HIDE DEF name
  <1>4. local' = [local EXCEPT ![name] = At(name)] /\ name \in DeploymentNames
    BY <1>1, <1>2 DEF name
  <1>5. /\ \A v \in DeploymentNames : local'[v] = local[v] \/ local'[v] = At(v)
        /\ \A v \in ReadNames : local'[v] = local[v]
    BY <1>3, <1>4
  <1>6. \A n : Has(n)' = Has(n) /\ At(n)' = At(n)
    BY <1>2 DEF Has, At
  <1>7. /\ List' = List /\ ListAdmin' = ListAdmin /\ Token' = Token /\ TokenAdmin' = TokenAdmin
    BY <1>2 DEF List, ListAdmin, Token, TokenAdmin, RefOf, At
  <1>8. Absent' = Absent /\ DOMAIN proposals' = DOMAIN proposals
    BY <1>2 DEF Absent
  <1>9. ReadsInv
    BY DEF CarefulState
  <1>10. \A v \in DeploymentNames : local'[v] \in {Absent, At(v)'}
    BY <1>5, <1>6, <1>9 DEF ReadsInv
  <1>. QED BY <1>5, <1>6, <1>7, <1>8, <1>9, <1>10 DEF ReadsInv, ReadNames

LEMMA RunQuietKeeps ==
  ASSUME CarefulState, StepsOK', RunGet \/ RunRead \/ RunRequire \/ RunAddContract
  PROVE  PartsInv' /\ ReadsInv' /\ ProcessInv' /\ OrderInv'
  <1>1. /\ UNCHANGED QuietVars
        /\ \E op : GoOn(op) /\ op \notin {"save", "propose"}
    BY DEF RunGet, RunRead, RunRequire, RunAddContract, storeVars, QuietVars
  <1>2. PICK op : GoOn(op) /\ op \notin {"save", "propose"}
    BY <1>1
  <1>3. StepsOK /\ ControlOK /\ network = "production" /\ DeploymentInv
    BY DEF CarefulState, BaseInv, DeploymentInv
  <1>4. MarksStay /\ NextGrows /\ TasksGoOn
    BY <1>2, <1>3, QuietMarks, GoOnNext
  <1>5. PartsInv'
    BY <1>1, <1>4, QuietParts
  <1>6. HasToken' <=> HasToken
    BY <1>1 DEF HasToken, Has, At, Token, RefOf, QuietVars, chainVars
  <1>7. ProcessInv' /\ OrderInv'
    BY <1>1, <1>2, <1>6, GoOnKeeps DEF QuietVars
  <1>8. ReadsInv'
    <2>1. CASE RunRequire \/ RunAddContract
      <3>1. UNCHANGED local
        BY <2>1 DEF RunRequire, RunAddContract
      <3>2. /\ \A names : SameNames(names)
            /\ \A kind : RefsStay(kind) /\ RolesStay(kind)
        BY <1>1, QuietFrame
      <3>3. DOMAIN proposals' = {} \/ \A name \in ReadNames : local[name] = Absent
        BY <1>1 DEF CarefulState, ReadsInv, ReadNames, QuietVars
      <3>. QED BY <1>3, <3>1, <3>2, <3>3, ReadsStay DEF CarefulState
    <2>. QED BY <2>1, RunGetKeepsReads, RunReadKeepsReads
  <1>. QED BY <1>5, <1>7, <1>8

-----------------------------------------------------------------------------
(* The tasks save what the factories answer.                               *)

\* Before task 3 is over, there is nothing to say of a token.
LEMMA NoToken ==
  ASSUME StepsOK', ~HasToken', ~Has("USDYManager")', ~Past(3, 5)'
  PROVE  TokenInv' /\ ManagerInv' /\ GrantsInv'
  <1>1. ~Past(4, 4)' /\ ~Past(4, 5)' /\ ~Past(5, 6)' /\ ~Past(5, 8)'
    BY DEF Past, StepsOK, Tracks
  <1>. QED BY <1>1 DEF TokenInv, ManagerInv, GrantsInv

LEMMA PastOnly ==
  ASSUME StepsOK, NEW op, GoOn(op), NEW i \in Nat, NEW k \in Nat, Now("task", i, k),
         NEW i2 \in Nat, NEW k2 \in Nat, Past(i2, k2)', i # i2 \/ k # k2
  PROVE  Past(i2, k2)
  BY PastGoOn DEF Now

LEMMA SaveNow ==
  ASSUME CarefulState, RunSave
  PROVE  \E i \in {2, 4}, k \in {4, 5} :
           /\ Now("task", i, k) /\ DOMAIN proposals = {}
           /\ i = 2 /\ k = 4 => Step = Save("Allowlist", "allowlistProxy")
           /\ i = 2 /\ k = 5 => Step = Save("ProxyAdminAllowlist", "allowlistProxyAdmin")
           /\ i = 4 /\ k = 4 => Step = Save("USDY", "usdyProxy")
           /\ i = 4 /\ k = 5 => Step = Save("ProxyAdminUSDY", "usdyProxyAdmin")
  <1>1. /\ ControlOK /\ StepsOK /\ network = "production" /\ ProcessInv /\ IsRunning /\ Step.op = "save"
        /\ running # "none"
    BY DEF CarefulState, DeploymentInv, BaseInv, RunSave, GoOn, IsRunning
  <1>2. \/ Now("task", 2, 4) \/ Now("task", 2, 5) \/ Now("task", 4, 4) \/ Now("task", 4, 5)
    BY <1>1, WhichStep
  <1>3. DOMAIN proposals = {}
    BY <1>1, <1>2, NothingProposed DEF Now, IsRunning
  <1>4. PICK i \in {2, 4}, k \in {4, 5} : Now("task", i, k)
    BY <1>2
  <1>. QED BY <1>1, <1>3, <1>4, SaveSteps

\* What is saved is not address(0), and is what the factory answers now.
LEMMA SavedIs ==
  ASSUME CarefulState, RunSave, NEW name \in DeploymentNames, NEW getter \in ReadNames,
         Step = Save(name, getter)
  PROVE  /\ deployments' = [deployments EXCEPT ![name] = [address |-> local[getter], args |-> <<>>]]
         /\ At(name)' = local[getter] /\ local[getter] # Absent
         /\ \A names : name \notin names => SameNames(names \cap DeploymentNames)
  <1>1. Step.name = name /\ Step.of = getter /\ getter \in Step.uses
    BY DEF Save
  <1>2. getter \in Variables /\ DOMAIN deployments = DeploymentNames
    BY VariablesAre DEF ReadNames, CarefulState, DeploymentInv, NamesOK
  <1>3. deployments' = [deployments EXCEPT ![name] = [address |-> local[getter], args |-> <<>>]]
    BY <1>1, <1>2 DEF RunSave, Value
  <1>4. local[getter] # Absent
    BY <1>1, <1>2 DEF RunSave, GoOn, StepSucceeds, Assigned
  <1>. QED BY <1>2, <1>3, <1>4 DEF At, SameNames

LEMMA SaveFrame ==
  ASSUME RunSave
  PROVE  /\ \A kind : RefsStay(kind) /\ RolesStay(kind)
         /\ KindsGrow /\ LastCallsStay
         /\ \A call : ProposalStays(call)
         /\ UNCHANGED <<proposals, local, ref, members>> /\ GoOn("save")
  BY DEF RunSave, chainVars, RefsStay, RolesStay, KindsGrow, ProposalStays, LastCallsStay, Deployed

LEMMA SaveListKeeps ==
  ASSUME CarefulState, StepsOK', RunSave, NEW k \in {4, 5}, Now("task", 2, k),
         DOMAIN proposals = {},
         k = 4 => Step = Save("Allowlist", "allowlistProxy"),
         k = 5 => Step = Save("ProxyAdminAllowlist", "allowlistProxyAdmin")
  PROVE  PartsInv' /\ ReadsInv' /\ ProcessInv' /\ OrderInv'
  <1>. DEFINE name == IF k = 4 THEN "Allowlist" ELSE "ProxyAdminAllowlist"
              getter == IF k = 4 THEN "allowlistProxy" ELSE "allowlistProxyAdmin"
  <1>1. /\ Step = Save(name, getter) /\ name \in DeploymentNames /\ getter \in ReadNames
        /\ name \in {"Allowlist", "ProxyAdminAllowlist"}
    BY DEF DeploymentNames, ReadNames
  <1>2. /\ \A kind : RefsStay(kind) /\ RolesStay(kind)
        /\ KindsGrow /\ LastCallsStay
        /\ \A call : ProposalStays(call)
        /\ UNCHANGED <<proposals, local, ref, members>> /\ GoOn("save")
    BY SaveFrame
  <1>. HIDE DEF name, getter
  <1>3. /\ At(name)' = local[getter] /\ local[getter] # Absent
        /\ \A names : name \notin names => SameNames(names \cap DeploymentNames)
    BY <1>1, SavedIs
  <1>4. /\ StepsOK /\ LocalsOK /\ DeploymentInv /\ network = "production" /\ next["task"] = 2 /\ next' = next
        /\ NextGrows /\ TasksGoOn
    BY <1>2, GoOnNext DEF CarefulState, BaseInv, Now
  <1>5. /\ SameNames(DOMAIN ArgsOf) /\ SameNames({"AllowlistFactory", "USDYFactory"})
        /\ SameNames({"AllowlistFactory"}) /\ SameNames({"USDYFactory"}) /\ SameNames({"USDYManager"})
    <2>1. /\ DOMAIN ArgsOf \subseteq DeploymentNames /\ name \notin DOMAIN ArgsOf
          /\ {"AllowlistFactory", "USDYFactory", "USDYManager"} \subseteq DeploymentNames \ {name}
      BY <1>1 DEF ArgsOf, DeploymentNames
    <2>. QED BY <1>3, <2>1 DEF SameNames
  <1>6. /\ HasToken' <=> HasToken
        /\ Has("AllowlistFactory") => List' = List /\ ListAdmin' = ListAdmin
    BY <1>2, <1>4, <1>5, TokenIsStays, ListStays
  <1>7. /\ Has("AllowlistFactory") /\ HasList
        /\ k = 4 => At("Allowlist")' = List
        /\ k = 5 => At("ProxyAdminAllowlist")' = ListAdmin
    <2>1. Past(1, 3)
      BY <1>4 DEF Past
    <2>2. HasList
      BY <2>1 DEF CarefulState, AllowlistInv
    <2>. QED BY <1>3, <2>2 DEF name, getter, CarefulState, ReadsInv, HasList
  <1>8. ~HasToken
    BY <1>4 DEF CarefulState, OrderInv, Past
  <1>9. TokenInv' /\ ManagerInv' /\ GrantsInv'
    <2>1. ~Has("USDYManager")'
      BY <1>5, <1>8, SameNameIs DEF CarefulState, ManagerInv
    <2>2. ~Past(3, 5)'
      BY <1>4 DEF Past
    <2>. QED BY <1>6, <1>8, <2>1, <2>2, NoToken
  <1>10. StoreInv'
    BY <1>2, <1>4, <1>5, StoreStays DEF CarefulState
  <1>11. ProposalsInv'
    BY <1>2 DEF ProposalsInv
  <1>12. AllowlistInv'
    <2>1. Past(1, 3)
      BY <1>4 DEF Past
    <2>2. 2 \in Nat /\ 4 \in Nat /\ 5 \in Nat
      OBVIOUS
    <2>3. k = 4 => SameNames({"ProxyAdminAllowlist"}) /\ (Past(2, 5)' => Past(2, 5))
      <3>1. k = 4 => name = "Allowlist"
        BY DEF name
      <3>2. "ProxyAdminAllowlist" \in DeploymentNames
        BY DEF DeploymentNames
      <3>3. k = 4 => SameNames({"ProxyAdminAllowlist"} \cap DeploymentNames)
        BY <1>3, <3>1
      <3>. QED BY <1>2, <1>4, <2>2, <3>2, <3>3, PastOnly DEF SameNames
    <2>4. k = 5 => SameNames({"Allowlist"}) /\ (Past(2, 4)' => Past(2, 4))
      <3>1. k = 5 => name = "ProxyAdminAllowlist"
        BY DEF name
      <3>2. "Allowlist" \in DeploymentNames
        BY DEF DeploymentNames
      <3>3. k = 5 => SameNames({"Allowlist"} \cap DeploymentNames)
        BY <1>3, <3>1
      <3>. QED BY <1>2, <1>4, <2>2, <3>2, <3>3, PastOnly DEF SameNames
    <2>5. ListProceeds
      BY <1>7, <2>1, <2>3, <2>4, SameNameIs DEF ListProceeds
    <2>. QED BY <1>2, <1>4, <1>5, <2>5, AllowlistStays DEF CarefulState
  <1>13. ProcessInv' /\ OrderInv'
    BY <1>2, <1>6, GoOnKeeps
  <1>14. ReadsInv'
    <2>1. local[name] = Absent
      BY <1>4, NotReadBefore DEF name
    <2>2. \A n \in DeploymentNames : local[n] = Absent \/ SameNames({n})
      <3>1. \A n \in DeploymentNames : n # name => SameNames({n} \cap DeploymentNames)
        BY <1>3
      <3>. QED BY <2>1, <3>1 DEF SameNames
    <2>. QED BY <1>2, <1>4, <1>5, <2>2, ReadsStay DEF CarefulState
  <1>. QED BY <1>9, <1>10, <1>11, <1>12, <1>13, <1>14 DEF PartsInv

LEMMA SaveTokenKeeps ==
  ASSUME CarefulState, StepsOK', RunSave, NEW k \in {4, 5}, Now("task", 4, k),
         DOMAIN proposals = {},
         k = 4 => Step = Save("USDY", "usdyProxy"),
         k = 5 => Step = Save("ProxyAdminUSDY", "usdyProxyAdmin")
  PROVE  PartsInv' /\ ReadsInv' /\ ProcessInv' /\ OrderInv'
  <1>. DEFINE name == IF k = 4 THEN "USDY" ELSE "ProxyAdminUSDY"
              getter == IF k = 4 THEN "usdyProxy" ELSE "usdyProxyAdmin"
              others == {"AllowlistFactory", "USDYFactory", "USDYManager", "Blocklist", "Allowlist",
                         "ProxyAdminAllowlist", "USDY_Pricer"}
  <1>1. /\ Step = Save(name, getter) /\ name \in DeploymentNames /\ getter \in ReadNames
        /\ name \in {"USDY", "ProxyAdminUSDY"}
    BY DEF DeploymentNames, ReadNames
  <1>2. /\ \A kind : RefsStay(kind) /\ RolesStay(kind)
        /\ KindsGrow /\ LastCallsStay
        /\ \A call : ProposalStays(call)
        /\ UNCHANGED <<proposals, local, ref, members>> /\ GoOn("save")
    BY SaveFrame
  <1>. HIDE DEF name, getter
  <1>3. /\ At(name)' = local[getter] /\ local[getter] # Absent
        /\ \A names : name \notin names => SameNames(names \cap DeploymentNames)
    BY <1>1, SavedIs
  <1>4. /\ StepsOK /\ LocalsOK /\ DeploymentInv /\ network = "production" /\ next["task"] = 4 /\ next' = next
        /\ NextGrows /\ TasksGoOn /\ running = "task"
    BY <1>2, GoOnNext DEF CarefulState, BaseInv, Now
  <1>5. \A names \in SUBSET others : SameNames(names)
    <2>1. others \subseteq DeploymentNames /\ name \notin others
      BY <1>1 DEF DeploymentNames
    <2>. HIDE DEF others
    <2>. QED BY <1>3, <2>1 DEF SameNames
  <1>6. /\ SameNames(DOMAIN ArgsOf)
        /\ SameNames({"AllowlistFactory", "USDYFactory"}) /\ SameNames({"AllowlistFactory"})
        /\ SameNames({"USDYFactory"}) /\ SameNames({"USDYFactory", "Blocklist", "Allowlist"})
        /\ SameNames({"USDYManager", "Blocklist", "USDYFactory"})
        /\ SameNames({"USDYManager", "USDY_Pricer", "USDYFactory"})
        /\ SameNames({"Allowlist", "ProxyAdminAllowlist"})
    <2>1. DOMAIN ArgsOf \subseteq others
      BY DEF ArgsOf
    <2>. QED BY <1>5, <2>1
  <1>. HIDE DEF others
  <1>7. /\ HasToken' <=> HasToken
        /\ Has("USDYFactory") => Token' = Token /\ TokenAdmin' = TokenAdmin
    BY <1>2, <1>4, <1>6, TokenIsStays
  <1>8. /\ HasToken /\ Has("USDYFactory")
        /\ k = 4 => At("USDY")' = Token
        /\ k = 5 => At("ProxyAdminUSDY")' = TokenAdmin
    <2>1. Past(3, 5)
      BY <1>4 DEF Past
    <2>2. HasToken
      BY <2>1 DEF CarefulState, TokenInv
    <2>. QED BY <1>3, <2>2 DEF name, getter, CarefulState, ReadsInv, HasToken
  <1>9. StoreInv' /\ ManagerInv'
    BY <1>2, <1>4, <1>6, StoreStays, ManagerStays DEF CarefulState
  <1>10. ProposalsInv'
    BY <1>2 DEF ProposalsInv
  <1>11. AllowlistInv'
    <2>1. Past(1, 3) /\ Past(2, 4) /\ Past(2, 5)
      BY <1>4 DEF Past
    <2>2. ListProceeds
      BY <1>6, <2>1, SameNameIs DEF ListProceeds
    <2>. QED BY <1>2, <1>4, <1>6, <2>2, AllowlistStays DEF CarefulState
  <1>12. TokenInv'
    <2>1. Past(3, 5) /\ 4 \in Nat /\ 5 \in Nat
      BY <1>4 DEF Past
    <2>2. k = 4 => SameNames({"ProxyAdminUSDY"}) /\ (Past(4, 5)' => Past(4, 5))
      <3>1. (k = 4 => name = "USDY") /\ "ProxyAdminUSDY" \in DeploymentNames
        BY DEF name, DeploymentNames
      <3>2. k = 4 => SameNames({"ProxyAdminUSDY"} \cap DeploymentNames)
        BY <1>3, <3>1
      <3>. QED BY <1>2, <1>4, <2>1, <3>1, <3>2, PastOnly DEF SameNames
    <2>3. k = 5 => SameNames({"USDY"}) /\ (Past(4, 4)' => Past(4, 4))
      <3>1. (k = 5 => name = "ProxyAdminUSDY") /\ "USDY" \in DeploymentNames
        BY DEF name, DeploymentNames
      <3>2. k = 5 => SameNames({"USDY"} \cap DeploymentNames)
        BY <1>3, <3>1
      <3>. QED BY <1>2, <1>4, <2>1, <3>1, <3>2, PastOnly DEF SameNames
    <2>4. TokenProceeds
      BY <1>8, <2>1, <2>2, <2>3, SameNameIs DEF TokenProceeds
    <2>. QED BY <1>2, <1>4, <1>6, <2>4, TokenStays DEF CarefulState
  <1>13. GrantsInv'
    <2>1. \A i \in 6..13 : ~Past(5, i)'
      BY <1>4 DEF Past
    <2>2. GrantsProceed
      BY <2>1, GrantStepsAre DEF GrantsProceed
    <2>. QED BY <1>2, <1>4, <1>6, <2>2, GrantsStay DEF CarefulState
  <1>14. ProcessInv' /\ OrderInv'
    BY <1>2, <1>7, GoOnKeeps
  <1>15. ReadsInv'
    <2>1. local[name] = Absent
      BY <1>4, NotReadBefore DEF name
    <2>2. \A n \in DeploymentNames : local[n] = Absent \/ SameNames({n})
      <3>1. \A n \in DeploymentNames : n # name => SameNames({n} \cap DeploymentNames)
        BY <1>3
      <3>. QED BY <2>1, <3>1 DEF SameNames
    <2>3. DOMAIN proposals' = {}
      BY <1>2
    <2>. QED BY <1>2, <1>4, <1>6, <2>2, <2>3, ReadsStay DEF CarefulState
  <1>. QED BY <1>9, <1>10, <1>11, <1>12, <1>13, <1>14, <1>15 DEF PartsInv

LEMMA RunSaveCareful ==
  ASSUME CarefulState, StepsOK', RunSave
  PROVE  PartsInv' /\ ReadsInv' /\ ProcessInv' /\ OrderInv'
  <1>1. PICK i \in {2, 4}, k \in {4, 5} :
           /\ Now("task", i, k) /\ DOMAIN proposals = {}
           /\ i = 2 /\ k = 4 => Step = Save("Allowlist", "allowlistProxy")
           /\ i = 2 /\ k = 5 => Step = Save("ProxyAdminAllowlist", "allowlistProxyAdmin")
           /\ i = 4 /\ k = 4 => Step = Save("USDY", "usdyProxy")
           /\ i = 4 /\ k = 5 => Step = Save("ProxyAdminUSDY", "usdyProxyAdmin")
    BY SaveNow
  <1>2. CASE i = 2
    BY <1>1, <1>2, SaveListKeeps
  <1>3. CASE i = 4
    BY <1>1, <1>3, SaveTokenKeeps
  <1>. QED BY <1>2, <1>3

-----------------------------------------------------------------------------
(* The tasks propose.                                                      *)
LEMMA NameIs ==
  ASSUME CarefulState, NEW name \in DeploymentNames, local[name] # Absent
  PROVE  Has(name) /\ local[name] = At(name) /\ Value(name) = At(name)
  BY GettersAre DEF CarefulState, ReadsInv, Has, Value

\* What is proposed now.
ProposedNow(call) ==
  \/ Now("task", 1, 3) /\ call = AllowlistCall /\ Has("AllowlistFactory")
  \/ Now("task", 3, 5) /\ call = TokenCall /\ Has("USDYFactory") /\ Has("Blocklist") /\ Has("Allowlist")
  \/ /\ running = "task" /\ next["task"] = 5 /\ step \in 6..13
     /\ call \in LastCalls /\ Has("USDYManager") /\ Has("USDY_Pricer")
     /\ step = 6 => call = MinterCall
     /\ step = 7 => call = PauserCall
     /\ step = 8 => call = PricerCall
     /\ \A role \in DOMAIN GrantSteps : step = GrantSteps[role] => call = ManagerCall(role)

LEMMA ProposedInFive ==
  ASSUME CarefulState, running = "task", next["task"] = 5, step \in 6..13
  PROVE  ProposedNow(Transaction(Step))
  <1>1. /\ network = "production" /\ LocalsOK /\ StepsOK
    BY DEF CarefulState, BaseInv
  <1>2. \A name \in {"USDYManager", "USDY_Pricer", "USDY"} : local[name] # Absent
    BY <1>1, GotBefore
  <1>3. \A name \in {"USDYManager", "USDY_Pricer", "USDY"} :
          Has(name) /\ local[name] = At(name) /\ Value(name) = At(name) /\ name \in DeploymentNames
    BY <1>2, NameIs DEF DeploymentNames
  <1>. DEFINE call == Transaction(Step)
  <1>4. /\ step = 6 => call = MinterCall
        /\ step = 7 => call = PauserCall
    <2>1. /\ step = 6 => Step = ProposeGrantRole("USDY", "MINTER_ROLE", "USDYManager")
          /\ step = 7 => Step = ProposeGrantRole("USDY", "PAUSER_ROLE", PROD_PAUSER_USDY)
      BY <1>1, ProposeSteps DEF Now
    <2>. QED BY <1>3, <2>1, GrantCallIs, ConstantValues DEF MinterCall, PauserCall
  <1>5. step = 8 => call = PricerCall
    <2>1. step = 8 => Step = ProposeFunctionCall("USDYManager", "setPricer", <<"USDY_Pricer">>)
      BY <1>1, ProposeSteps DEF Now
    <2>. QED BY <1>3, <2>1, FunctionCallIs, ValuesOfOne DEF PricerCall
  <1>6. /\ step = 9 => call = ManagerCall("PRICE_ID_SETTER_ROLE")
        /\ step = 10 => call = ManagerCall("TIMESTAMP_SETTER_ROLE")
        /\ step = 12 => call = ManagerCall("LIST_CONFIGURER_ROLE")
        /\ step = 13 => call = ManagerCall("RELAYER_ROLE")
    <2>1. /\ step = 9 =>
               Step = ProposeGrantRole("USDYManager", "PRICE_ID_SETTER_ROLE", PROD_MANAGER_ADMIN_USDY)
          /\ step = 10 =>
               Step = ProposeGrantRole("USDYManager", "TIMESTAMP_SETTER_ROLE", PROD_MANAGER_ADMIN_USDY)
          /\ step = 12 =>
               Step = ProposeGrantRole("USDYManager", "LIST_CONFIGURER_ROLE", PROD_MANAGER_ADMIN_USDY)
          /\ step = 13 =>
               Step = ProposeGrantRole("USDYManager", "RELAYER_ROLE", PROD_MANAGER_ADMIN_USDY)
      BY <1>1, ProposeSteps DEF Now
    <2>. QED BY <1>3, <2>1, GrantCallIs, ConstantValues DEF ManagerCall
  <1>7. step = 11 => call = SafeCall("USDYManager", "grantRole", "PAUSER_ROLE", <<PAUSER>>)
    <2>1. step = 11 => Step = ProposeGrantRole("USDYManager", "PAUSER_ROLE", PROD_PAUSER_USDY)
      BY <1>1, ProposeSteps DEF Now
    <2>. QED BY <1>3, <2>1, GrantCallIs, ConstantValues
  <1>. HIDE DEF call
  <1>8. call \in LastCalls
    <2>1. /\ {MinterCall, PauserCall, PricerCall} \subseteq LastCalls /\ OtherCalls \subseteq LastCalls
          /\ \A role \in DOMAIN GrantSteps : ManagerCall(role) \in LastCalls
      BY LastCallsAre DEF LastCalls
    <2>2. step \in {11, 12} => call \in OtherCalls
      BY <1>6, <1>7 DEF OtherCalls
    <2>3. step = 6 \/ step = 7 \/ step = 8 \/ step = 9 \/ step = 10 \/ step = 11 \/ step = 12 \/ step = 13
      OBVIOUS
    <2>. QED BY <1>4, <1>5, <1>6, <2>1, <2>2, <2>3, GrantStepsAre
  <1>9. \A role \in DOMAIN GrantSteps : step = GrantSteps[role] => call = ManagerCall(role)
    BY <1>6, GrantStepsAre
  <1>. QED BY <1>3, <1>4, <1>5, <1>8, <1>9 DEF ProposedNow, call

LEMMA ProposeIs ==
  ASSUME CarefulState, RunPropose
  PROVE  ProposedNow(Transaction(Step))
  <1>1. /\ ControlOK /\ StepsOK /\ network = "production" /\ IsRunning /\ Step.op = "propose" /\ LocalsOK
        /\ \A name \in Step.uses : Assigned(name)
    BY DEF CarefulState, DeploymentInv, BaseInv, RunPropose, GoOn, StepSucceeds
  <1>2. \/ Now("task", 1, 3) \/ Now("task", 3, 5) \/ \E k \in 6..13 : Now("task", 5, k)
    BY <1>1, WhichStep
  <1>3. CASE Now("task", 1, 3)
    <2>. DEFINE args == <<PROD_GUARDIAN_USDY, PROD_GUARDIAN_USDY>>
    <2>1. Step = ProposeFunctionCall("AllowlistFactory", "deployAllowlist", args)
      BY <1>1, <1>3, ProposeSteps
    <2>2. Values(args) = <<Multisig, Multisig>>
      BY ValuesOfTwo, ConstantValues
    <2>. HIDE DEF args
    <2>3. "AllowlistFactory" \in Step.uses /\ "AllowlistFactory" \in DeploymentNames
      BY <2>1, SendFields DEF ProposeFunctionCall, DeploymentNames
    <2>4. Has("AllowlistFactory") /\ local["AllowlistFactory"] = At("AllowlistFactory")
      BY <1>1, <2>3, NameIs, GettersAre DEF Assigned
    <2>5. Transaction(Step) = AllowlistCall
      BY <2>1, <2>2, <2>3, <2>4, FunctionCallIs DEF AllowlistCall
    <2>. QED BY <1>3, <2>4, <2>5 DEF ProposedNow
  <1>4. CASE Now("task", 3, 5)
    <2>. DEFINE args == <<"Blocklist", "Allowlist", SANCTION_ADDRESS>>
    <2>1. Step = ProposeFunctionCall("USDYFactory", "deployUSDY", args)
      BY <1>1, <1>4, TaskThreeSteps
    <2>2. \A name \in {"USDYFactory", "Blocklist", "Allowlist"} : local[name] # Absent
      BY <1>1, <1>4, GotBefore DEF Now
    <2>3. \A name \in {"USDYFactory", "Blocklist", "Allowlist"} :
            Has(name) /\ local[name] = At(name) /\ Value(name) = At(name) /\ name \in DeploymentNames
      BY <2>2, NameIs DEF DeploymentNames
    <2>4. Values(args) = <<At("Blocklist"), At("Allowlist"), External(SANCTION_ADDRESS)>>
      BY <2>3, ValuesOfThree, ConstantValues
    <2>. HIDE DEF args
    <2>5. Transaction(Step) = TokenCall
      BY <2>1, <2>3, <2>4, FunctionCallIs DEF TokenCall
    <2>. QED BY <1>4, <2>3, <2>5 DEF ProposedNow
  <1>5. CASE \E k \in 6..13 : Now("task", 5, k)
    BY <1>5, ProposedInFive DEF Now
  <1>. QED BY <1>2, <1>3, <1>4, <1>5

\* Tasks 1, 3 and 5 read nothing from a factory.
LEMMA NoGetters ==
  ASSUME CarefulState, running = "task", next["task"] \in {1, 3, 5}, IsRunning
  PROVE  \A name \in ReadNames : local[name] = Absent
  <1>1. /\ ControlOK /\ LocalsOK /\ StepsOK /\ network = "production"
    BY DEF CarefulState, BaseInv, DeploymentInv
  <1>. DEFINE s == Script(running)
  <1>2. 1..(step - 1) \subseteq DOMAIN s
    BY <1>1, ScriptLengths DEF IsRunning, StepsOK
  <1>3. \A j \in DOMAIN s : s[j].op = Ops["task"][next["task"]][j] /\ j \in DOMAIN Ops["task"][next["task"]]
    BY <1>1, RunningIs DEF HasOps
  <1>4. \A i \in {1, 3, 5} : \A j \in DOMAIN Ops["task"][i] : Ops["task"][i][j] # "read"
    BY DEF Ops
  <1>5. \A j \in DOMAIN s : s[j].op = "get" => s[j].name \in DeploymentNames
    BY <1>1, ScriptIsGood DEF GoodStep
  <1>6. \A v \in Variables : local[v] # Absent =>
          \E j \in 1..(step - 1) : s[j].op \in {"get", "read"} /\ s[j].name = v
    BY <1>1 DEF LocalsOK
  <1>. HIDE DEF s
  <1>7. ReadNames \subseteq Variables /\ ReadNames \cap DeploymentNames = {}
    BY VariablesAre DEF ReadNames, DeploymentNames
  <1>. QED BY <1>2, <1>3, <1>4, <1>5, <1>6, <1>7

LEMMA ProposeFrame ==
  ASSUME CarefulState, StepsOK', RunPropose, NEW call, call = Transaction(Step)
  PROVE  /\ DOMAIN proposals' = DOMAIN proposals \cup {call}
         /\ \A names : SameNames(names)
         /\ \A kind : RefsStay(kind) /\ RolesStay(kind)
         /\ KindsGrow /\ LastCallsStay /\ NextGrows /\ TasksGoOn
         /\ \A p : ProposalStays(p)
         /\ UNCHANGED <<local, ref, members, created, deployments, next, running, undone, network>>
         /\ GoOn("propose") /\ ProposedNow(call) /\ step \in Nat /\ step' = step + 1
         /\ next["task"] \in {1, 3, 5} /\ running = "task"
  <1>1. /\ GoOn("propose") /\ UNCHANGED <<chainVars, storeVars, local>>
        /\ proposals' = Bag!BagAdd(proposals, call)
    BY DEF RunPropose
  <1>2. DOMAIN proposals' = DOMAIN proposals \cup {call}
    BY <1>1 DEF Bag!BagAdd
  <1>3. UNCHANGED <<ref, members, created, deployments, next, running, undone, network>>
    BY <1>1 DEF chainVars, storeVars, GoOn, history
  <1>4. /\ \A names : SameNames(names)
        /\ \A kind : RefsStay(kind) /\ RolesStay(kind)
        /\ KindsGrow
    BY <1>3 DEF SameNames, RefsStay, RolesStay, KindsGrow, Deployed
  <1>5. LastCallsStay /\ \A p : ProposalStays(p)
    BY <1>2 DEF LastCallsStay, ProposalStays
  <1>6. NextGrows /\ TasksGoOn
    BY <1>1, GoOnNext
  <1>7. ProposedNow(call)
    BY ProposeIs
  <1>8. next["task"] \in {1, 3, 5} /\ running = "task"
    BY <1>7 DEF ProposedNow, Now
  <1>9. step \in Nat /\ step' = step + 1
    BY <1>1 DEF GoOn, CarefulState, BaseInv, StepsOK
  <1>. QED BY <1>1, <1>2, <1>3, <1>4, <1>5, <1>6, <1>7, <1>8, <1>9

LEMMA ProposeProceeds ==
  ASSUME CarefulState, StepsOK', RunPropose
  PROVE  ListProceeds /\ TokenProceeds /\ GrantsProceed
  <1>. PICK call : call = Transaction(Step)
    OBVIOUS
  <1>1. /\ call \in DOMAIN proposals' /\ GoOn("propose") /\ ProposedNow(call)
        /\ next["task"] \in {1, 3, 5} /\ SameNames({"USDY"})
    BY ProposeFrame
  <1>2. StepsOK /\ GrantsInv
    BY DEF CarefulState, BaseInv
  <1>3. \A i \in Nat : \A k \in Nat : Past(i, k)' => Past(i, k) \/ Now("task", i, k)
    BY <1>1, <1>2, PastGoOn
  <1>4. ListProceeds
    <2>1. Past(1, 3)' => Past(1, 3) \/ Now("task", 1, 3)
      BY <1>3
    <2>2. /\ Past(2, 4)' => Past(2, 4) \/ Now("task", 2, 4)
          /\ Past(2, 5)' => Past(2, 5) \/ Now("task", 2, 5)
      BY <1>3
    <2>3. ~Now("task", 2, 4) /\ ~Now("task", 2, 5)
      BY <1>1 DEF Now
    <2>4. Now("task", 1, 3) => call = AllowlistCall /\ Has("AllowlistFactory")
      BY <1>1 DEF ProposedNow, Now
    <2>5. At("Allowlist")' = At("Allowlist") /\ At("ProxyAdminAllowlist")' = At("ProxyAdminAllowlist")
      BY DEF RunPropose, At, storeVars
    <2>. QED BY <1>1, <2>1, <2>2, <2>3, <2>4, <2>5 DEF ListProceeds
  <1>5. TokenProceeds
    <2>1. Past(3, 5)' => Past(3, 5) \/ Now("task", 3, 5)
      BY <1>3
    <2>2. /\ Past(4, 4)' => Past(4, 4) \/ Now("task", 4, 4)
          /\ Past(4, 5)' => Past(4, 5) \/ Now("task", 4, 5)
      BY <1>3
    <2>3. ~Now("task", 4, 4) /\ ~Now("task", 4, 5)
      BY <1>1 DEF Now
    <2>4. Now("task", 3, 5) => call = TokenCall /\ Has("USDYFactory")
      BY <1>1 DEF ProposedNow, Now
    <2>5. At("USDY")' = At("USDY") /\ At("ProxyAdminUSDY")' = At("ProxyAdminUSDY")
      BY DEF RunPropose, At, storeVars
    <2>. QED BY <1>1, <2>1, <2>2, <2>3, <2>4, <2>5 DEF TokenProceeds
  <1>6. GrantsProceed
    <2>1. \A k \in 6..13 : Past(5, k)' => Past(5, k) \/ Now("task", 5, k)
      BY <1>3
    <2>2. \A k \in 6..13 : Now("task", 5, k) =>
            /\ step = k /\ Has("USDYManager") /\ Has("USDY_Pricer")
            /\ k = 6 => call = MinterCall
            /\ k = 7 => call = PauserCall
            /\ k = 8 => call = PricerCall
            /\ \A role \in DOMAIN GrantSteps : k = GrantSteps[role] => call = ManagerCall(role)
      BY <1>1 DEF ProposedNow, Now
    <2>3. Past(5, 6) => Has("USDY_Pricer") /\ Has("USDYManager")
      BY <1>2 DEF GrantsInv
    <2>4. \A role \in DOMAIN GrantSteps : GrantSteps[role] \in 6..13
      BY GrantStepsAre
    <2>. QED BY <1>1, <2>1, <2>2, <2>3, <2>4 DEF GrantsProceed
  <1>. QED BY <1>4, <1>5, <1>6

LEMMA RunProposeCareful ==
  ASSUME CarefulState, StepsOK', RunPropose
  PROVE  PartsInv' /\ ReadsInv' /\ ProcessInv' /\ OrderInv'
  <1>. PICK call : call = Transaction(Step)
    OBVIOUS
  <1>1. /\ DOMAIN proposals' = DOMAIN proposals \cup {call}
        /\ \A names : SameNames(names)
        /\ \A kind : RefsStay(kind) /\ RolesStay(kind)
        /\ KindsGrow /\ LastCallsStay /\ NextGrows /\ TasksGoOn
        /\ \A p : ProposalStays(p)
        /\ UNCHANGED <<local, ref, members, created, deployments, next, running, undone, network>>
        /\ GoOn("propose") /\ ProposedNow(call) /\ step \in Nat /\ step' = step + 1
        /\ next["task"] \in {1, 3, 5} /\ running = "task"
    BY ProposeFrame
  <1>2. ListProceeds /\ TokenProceeds /\ GrantsProceed
    BY ProposeProceeds
  <1>3. StoreInv' /\ AllowlistInv' /\ TokenInv' /\ GrantsInv'
    BY <1>1, <1>2, StoreStays, AllowlistStays, TokenStays, GrantsStay DEF CarefulState, BaseInv
  <1>4. ManagerInv'
    BY <1>1, ManagerStays DEF CarefulState, BaseInv
  <1>5. ProposalsInv'
    <2>1. SameNames(CallNames)
      BY <1>1
    <2>2. \A name : Has(name)' <=> Has(name)
      BY <1>1 DEF Has, At
    <2>. SUFFICES ASSUME NEW p \in DOMAIN proposals'
         PROVE  \/ p = AllowlistCall /\ next["task"] < 3 /\ Has("AllowlistFactory")
                \/ p = TokenCall /\ next["task"] \in {3, 4} /\ Has("USDYFactory") /\ Has("Blocklist")
                   /\ Has("Allowlist")
                \/ p \in LastCalls /\ next["task"] > 4 /\ Has("USDY_Pricer") /\ Has("USDYManager")
      BY <1>1, <2>1, <2>2, CallsStay DEF ProposalsInv
    <2>3. CASE p \in DOMAIN proposals
      BY <2>3 DEF CarefulState, ProposalsInv
    <2>4. CASE p = call
      BY <1>1, <2>4 DEF ProposedNow, Now
    <2>. QED BY <1>1, <2>3, <2>4
  <1>6. ReadsInv'
    <2>1. \A name \in ReadNames : local[name] = Absent
      BY <1>1, NoGetters DEF GoOn
    <2>. QED BY <1>1, <2>1, ReadsStay DEF CarefulState
  <1>7. ProcessInv'
    <2>1. Script(running)' = Script(running) /\ Script(running)[step].op = "propose"
      BY <1>1 DEF Script, GoOn, Step
    <2>2. step \in DOMAIN Script(running) /\ step < step'
      BY <1>1 DEF GoOn, IsRunning
    <2>3. undone \subseteq {running}
      BY <1>1 DEF CarefulState, ProcessInv
    <2>. QED BY <1>1, <2>1, <2>2, <2>3 DEF ProcessInv
  <1>8. OrderInv'
    <2>1. HasToken' <=> HasToken
      BY <1>1 DEF HasToken, Has, At, Token, RefOf
    <2>2. 3 \in Nat /\ 5 \in Nat /\ StepsOK
      BY DEF CarefulState, BaseInv
    <2>3. (Past(3, 5) => Past(3, 5)') /\ (Now("task", 3, 5) => Past(3, 5)')
      BY <1>1, <2>2, PastGoOn
    <2>4. next["task"] = 3 => Now("task", 3, 5)
      BY <1>1 DEF ProposedNow, Now
    <2>5. HasToken => Past(3, 5) \/ (next["task"] = 3 /\ "task" \in undone)
      BY DEF CarefulState, OrderInv
    <2>. QED BY <1>1, <2>1, <2>3, <2>4, <2>5 DEF OrderInv
  <1>. QED BY <1>3, <1>4, <1>5, <1>6, <1>7, <1>8 DEF PartsInv

-----------------------------------------------------------------------------
(* The deploy scripts.                                                     *)
LEMMA DeployNow ==
  ASSUME CarefulState, StepsOK', RunDeploy
  PROVE  /\ \/ Now("deploy", 1, 1) \/ Now("deploy", 2, 1) \/ Now("deploy", 3, 1)
            \/ Now("deploy", 4, 7) \/ Now("deploy", 5, 1)
         /\ running = "deploy" /\ undone \subseteq {"deploy"} /\ GoOn("deploy")
         /\ DOMAIN proposals = {} /\ DOMAIN proposals' = {}
         /\ UNCHANGED <<local, next, proposals>>
         /\ NextGrows /\ TasksGoOn /\ MarksStay /\ LastCallsStay
         /\ \A call : ProposalStays(call)
         /\ \A name \in Step.uses : Assigned(name)
  <1>1. /\ ControlOK /\ StepsOK /\ network = "production" /\ ProcessInv /\ IsRunning /\ Step.op = "deploy"
        /\ running # "none" /\ GoOn("deploy") /\ UNCHANGED <<local, next, proposals>>
        /\ \A name \in Step.uses : Assigned(name)
    BY DEF CarefulState, DeploymentInv, BaseInv, RunDeploy, GoOn, IsRunning, StepSucceeds
  <1>2. \/ Now("deploy", 1, 1) \/ Now("deploy", 2, 1) \/ Now("deploy", 3, 1)
        \/ Now("deploy", 4, 7) \/ Now("deploy", 5, 1)
    BY <1>1, WhichStep
  <1>3. running = "deploy"
    BY <1>2 DEF Now
  <1>4. DOMAIN proposals = {} /\ undone \subseteq {"deploy"}
    BY <1>1, <1>3, NothingProposed DEF IsRunning, ProcessInv
  <1>5. MarksStay /\ NextGrows /\ TasksGoOn
    BY <1>1, QuietMarks, GoOnNext
  <1>6. LastCallsStay /\ \A call : ProposalStays(call)
    BY <1>1 DEF LastCallsStay, ProposalStays
  <1>. QED BY <1>1, <1>2, <1>3, <1>4, <1>5, <1>6

\* What is in the store already is not deployed again.
LEMMA DeployedAlready ==
  ASSUME CarefulState, StepsOK', RunDeploy, UNCHANGED <<chainVars, deployments>>
  PROVE  PartsInv' /\ ReadsInv' /\ ProcessInv' /\ OrderInv'
  <1>1. /\ GoOn("deploy") /\ DOMAIN proposals' = {} /\ UNCHANGED <<local, next, proposals>>
        /\ NextGrows /\ TasksGoOn /\ MarksStay
    BY DeployNow
  <1>2. UNCHANGED QuietVars
    BY <1>1 DEF QuietVars
  <1>3. PartsInv'
    BY <1>1, <1>2, QuietParts
  <1>4. HasToken' <=> HasToken
    BY <1>2 DEF HasToken, Has, At, Token, RefOf, QuietVars, chainVars
  <1>5. ProcessInv' /\ OrderInv'
    BY <1>1, <1>4, GoOnKeeps
  <1>6. ReadsInv'
    <2>1. /\ \A names : SameNames(names)
          /\ \A kind : RefsStay(kind) /\ RolesStay(kind)
      BY <1>2, QuietFrame
    <2>. QED BY <1>1, <2>1, ReadsStay DEF CarefulState
  <1>. QED BY <1>3, <1>5, <1>6

LEMMA NewContract ==
  ASSUME CarefulState, DeploymentInv', RunDeploy, ~UNCHANGED <<chainVars, deployments>>,
         NEW name, NEW kind, NEW args, Step.name = name, Step.kind = kind, Values(Step.args) = args
  PROVE  /\ ~IsDeployed(name, args) /\ Construct(kind, External("deployer"), args)
         /\ kind \in Kinds /\ name \in DeploymentNames
         /\ \E n \in 1..MaxInstances : n > created[kind] /\ Fresh(kind) = <<kind, n>>
         /\ At(name)' = Fresh(kind) /\ Has(name)' /\ deployments'[name].args = args
         /\ Fresh(kind) \in Deployed(kind)'
         /\ \A names \in SUBSET DeploymentNames : name \notin names => SameNames(names)
         /\ \A k \in DOMAIN FieldsOf : RefsStay(k)
         /\ \A k \in DOMAIN RolesOf : RolesStay(k)
         /\ KindsGrow
         /\ ref' = RefsAfterConstruct(kind, Fresh(kind), External("deployer"), args)
         /\ members' = RolesAfterConstruct(kind, Fresh(kind), args)
  <1>1. /\ ~IsDeployed(name, args) /\ Construct(kind, External("deployer"), args)
        /\ deployments' = [deployments EXCEPT ![name] = [address |-> Fresh(kind), args |-> args]]
    BY DEF RunDeploy
  <1>2. /\ kind \in Kinds /\ created[kind] < MaxInstances
        /\ created' = [created EXCEPT ![kind] = @ + 1]
        /\ ref' = RefsAfterConstruct(kind, Fresh(kind), External("deployer"), args)
        /\ members' = RolesAfterConstruct(kind, Fresh(kind), args)
    BY <1>1 DEF Construct, CanConstruct
  <1>3. ChainInv /\ CreatedOK /\ CreatedOK' /\ DOMAIN deployments = DeploymentNames
    BY DEF CarefulState, DeploymentInv, ChainInv, NamesOK
  <1>4. name \in DeploymentNames
    BY GoingOn DEF RunDeploy, CarefulState, GoodStep, GoodDeploy
  <1>5. PICK n : n = created[kind] + 1
    OBVIOUS
  <1>6. n \in 1..MaxInstances /\ n > created[kind] /\ Fresh(kind) = <<kind, n>>
    BY <1>2, <1>3, <1>5, InstancesAssumption DEF CreatedOK, Fresh
  <1>7. Fresh(kind) \in Deployed(kind)'
    BY <1>2, <1>3, <1>5, <1>6, InstancesAssumption DEF CreatedOK, Deployed
  <1>8. At(name)' = Fresh(kind) /\ Has(name)' /\ deployments'[name].args = args
    <2>1. deployments'[name] = [address |-> Fresh(kind), args |-> args]
      BY <1>1, <1>3, <1>4
    <2>2. Fresh(kind) # Absent
      BY <1>6 DEF Absent, External
    <2>3. Absent' = Absent
      BY DEF Absent
    <2>. QED BY <2>1, <2>2, <2>3 DEF At, Has
  <1>9. \A names \in SUBSET DeploymentNames : name \notin names => SameNames(names)
    BY <1>1, <1>3 DEF SameNames
  <1>10. ChangesOnly({Fresh(kind)})
    BY <1>1, <1>3, ConstructChanges
  <1>11. \A k \in Kinds : Fresh(kind) \notin Deployed(k)
    BY <1>2, <1>3, FreshIsNew
  <1>12. DOMAIN FieldsOf \subseteq Kinds /\ DOMAIN RolesOf \subseteq Kinds
    BY DEF Kinds
  <1>13. /\ \A k \in DOMAIN FieldsOf : RefsStay(k)
         /\ \A k \in DOMAIN RolesOf : RolesStay(k)
    <2>1. \A k \in Kinds : \A c \in Deployed(k) : c \notin {Fresh(kind)}
      BY <1>11
    <2>. QED BY <1>3, <1>10, <1>12, <2>1, KindsStay
  <1>14. KindsGrow
    <2>1. Grows
      BY <1>2, <1>3, InstancesAssumption DEF Grows, CreatedOK
    <2>. QED BY <1>3, <2>1, DeployedGrows DEF KindsGrow
  <1>. QED BY <1>1, <1>2, <1>4, <1>6, <1>7, <1>8, <1>9, <1>13, <1>14

\* What keeps the part about the store when one name is new.
LEMMA StoreGoesOn ==
  ASSUME DeploymentInv, StoreInv, KindsGrow, NextGrows, StepsOK, StepsOK',
         \A name \in DOMAIN ArgsOf : SameNames({name}) \/ deployments'[name].args = ArgsOf[name],
         RefsStay("Blocklist"), RolesStay("Pricer"),
         SameNames({"Blocklist"}) \/ RefOf("Blocklist", "owner")' = External("deployer"),
         \/ SameNames({"USDY_Pricer"})
         \/ /\ next'["deploy"] > 4
            /\ At("USDY_Pricer")' \in Deployed("Pricer")'
            /\ \A role \in RolesOf["Pricer"] : MembersOf("USDY_Pricer", role)' = <<Multisig>>
  PROVE  StoreInv'
  <1>1. DOMAIN ArgsOf = {"AllowlistFactory", "Blocklist", "USDYFactory", "USDY_Pricer"} /\ ArgsOf' = ArgsOf
    BY DEF ArgsOf
  <1>2. \A name : SameNames({name}) =>
          At(name)' = At(name) /\ (Has(name)' <=> Has(name)) /\ deployments'[name] = deployments[name]
    BY DEF SameNames, At, Has
  <1>3. \A name \in DOMAIN ArgsOf : Has(name)' => deployments'[name].args = ArgsOf'[name]
    BY <1>1, <1>2 DEF StoreInv
  <1>4. ASSUME Has("Blocklist")' PROVE RefOf("Blocklist", "owner")' = External("deployer")
    BY <1>1, <1>2, <1>4, NamesHold, FieldsAre DEF StoreInv, RefsStay, RefOf
  <1>5. ASSUME Has("USDY_Pricer")', SameNames({"USDY_Pricer"})
        PROVE  /\ next'["deploy"] > 4
               /\ At("USDY_Pricer")' \in Deployed("Pricer")'
               /\ \A role \in RolesOf["Pricer"] : MembersOf("USDY_Pricer", role)' = <<Multisig>>
    <2>1. /\ next["deploy"] > 4
          /\ At("USDY_Pricer") \in Deployed("Pricer")
          /\ \A role \in RolesOf["Pricer"] : MembersOf("USDY_Pricer", role) = <<Multisig>>
      BY <1>1, <1>2, <1>5 DEF StoreInv
    <2>2. next'["deploy"] > 4
      BY <2>1 DEF NextGrows, StepsOK, Tracks
    <2>. QED BY <1>2, <1>5, <2>1, <2>2, KindsAre DEF KindsGrow, RolesStay, MembersOf
  <1>. QED BY <1>3, <1>4, <1>5 DEF StoreInv, Multisig

\* Before a script has read anything.
LEMMA NothingRead ==
  ASSUME CarefulState, running # "none", step = 1, UNCHANGED local
  PROVE  ReadsInv'
  <1>1. \A v \in Variables : local[v] = Absent
    BY FirstStep DEF CarefulState, BaseInv
  <1>2. ReadNames \subseteq Variables /\ DeploymentNames \subseteq Variables
    BY VariablesAre, GettersAre DEF ReadNames
  <1>3. Absent' = Absent
    BY DEF Absent
  <1>. QED BY <1>1, <1>2, <1>3 DEF ReadsInv, ReadNames

\* Before the grants of task 5, whatever the store holds.
LEMMA NoGrants ==
  ASSUME StepsOK', ~Past(5, 6)',
         HasToken' => /\ members'[<<Token', "MINTER_ROLE">>] = <<>>
                      /\ members'[<<Token', "PAUSER_ROLE">>] = <<Multisig>>,
         Has("USDYManager")' => \A role \in DOMAIN GrantSteps : MembersOf("USDYManager", role)' = <<>>
  PROVE  GrantsInv'
  <1>1. \A k \in 6..13 : ~Past(5, k)'
    BY PastIs DEF Past, StepsOK
  <1>2. GrantSteps' = GrantSteps /\ Multisig' = Multisig /\ (\A role \in DOMAIN GrantSteps : GrantSteps[role] \in 6..13)
    BY GrantStepsAre DEF GrantSteps, Multisig
  <1>. QED BY <1>1, <1>2 DEF GrantsInv, Granting

LEMMA FreshRefs ==
  ASSUME CarefulState, NEW kind \in DOMAIN FieldsOf, NEW n \in 1..MaxInstances, n > created[kind]
  PROVE  \A field \in FieldsOf[kind] :
           <<<<kind, n>>, field>> \in DOMAIN ref /\ ref[<<<<kind, n>>, field>>] = Zero
  <1>. SUFFICES ASSUME NEW field \in FieldsOf[kind]
       PROVE  <<<<kind, n>>, field>> \in DOMAIN ref /\ ref[<<<<kind, n>>, field>>] = Zero
    OBVIOUS
  <1>. PICK slot : slot = <<<<kind, n>>, field>>
    OBVIOUS
  <1>1. slot \in FieldSlots /\ slot[1][1] = kind /\ slot[1][2] = n
    BY Slots
  <1>. QED BY <1>1, DomainsAre DEF CarefulState, BaseInv, FreshOK, DeploymentInv

LEMMA FreshMembers ==
  ASSUME CarefulState, NEW kind \in DOMAIN RolesOf, NEW n \in 1..MaxInstances, n > created[kind]
  PROVE  \A role \in RolesOf[kind] :
           <<<<kind, n>>, role>> \in DOMAIN members /\ members[<<<<kind, n>>, role>>] = <<>>
  <1>. SUFFICES ASSUME NEW role \in RolesOf[kind]
       PROVE  <<<<kind, n>>, role>> \in DOMAIN members /\ members[<<<<kind, n>>, role>>] = <<>>
    OBVIOUS
  <1>. PICK slot : slot = <<<<kind, n>>, role>>
    OBVIOUS
  <1>1. slot \in RoleSlots /\ slot[1][1] = kind /\ slot[1][2] = n
    BY Slots
  <1>. QED BY <1>1, DomainsAre DEF CarefulState, BaseInv, FreshOK, DeploymentInv

LEMMA ListFactoryKeeps ==
  ASSUME CarefulState, DeploymentInv', StepsOK', RunDeploy, ~UNCHANGED <<chainVars, deployments>>,
         Now("deploy", 1, 1)
  PROVE  PartsInv' /\ ReadsInv' /\ ProcessInv' /\ OrderInv'
  <1>. DEFINE name == "AllowlistFactory"
  <1>1. /\ running = "deploy" /\ undone \subseteq {"deploy"} /\ GoOn("deploy")
        /\ DOMAIN proposals = {} /\ DOMAIN proposals' = {}
        /\ UNCHANGED <<local, next, proposals>>
        /\ NextGrows /\ TasksGoOn /\ MarksStay /\ LastCallsStay
        /\ \A call : ProposalStays(call)
    BY DeployNow
  <1>2. /\ DeploymentInv /\ StepsOK /\ network = "production" /\ StoreInv /\ AllowlistInv /\ TokenInv
        /\ ManagerInv /\ GrantsInv
    BY DEF CarefulState, BaseInv
  <1>3. Step.name = name /\ Step.kind = name /\ Values(Step.args) = <<Multisig>>
    <2>1. Step = Deploy(name, name, <<PROD_GUARDIAN_USDY>>)
      BY <1>2, DeploySteps
    <2>. QED BY <2>1, DeployOf, ValuesOfOne, ConstantValues
  <1>4. /\ ~IsDeployed(name, <<Multisig>>)
        /\ \E n \in 1..MaxInstances : n > created[name] /\ Fresh(name) = <<name, n>>
        /\ At(name)' = Fresh(name) /\ deployments'[name].args = <<Multisig>>
        /\ \A names \in SUBSET DeploymentNames : name \notin names => SameNames(names)
        /\ \A k \in DOMAIN FieldsOf : RefsStay(k)
        /\ \A k \in DOMAIN RolesOf : RolesStay(k)
        /\ KindsGrow
        /\ ref' = RefsAfterConstruct(name, Fresh(name), External("deployer"), <<Multisig>>)
    BY <1>3, NewContract
  <1>5. ~Has(name) /\ ~HasList /\ ~Past(1, 3) /\ ~Past(2, 4) /\ ~Past(2, 5)
    <2>1. name \in DOMAIN ArgsOf /\ ArgsOf[name] = <<Multisig>>
      BY DEF ArgsOf
    <2>2. ~Has(name)
      BY <1>2, <1>4, <2>1 DEF StoreInv, IsDeployed, Has, At
    <2>. QED BY <1>1, <1>2, <2>2, PastIs DEF HasList, AllowlistInv
  <1>6. ~HasList'
    <2>1. PICK n \in 1..MaxInstances : n > created[name] /\ Fresh(name) = <<name, n>>
      BY <1>4
    <2>. DEFINE slot == <<<<name, n>>, "allowlistProxy">>
    <2>2. slot \in DOMAIN ref /\ ref[slot] = Zero
      BY <2>1, FreshRefs, FieldsAre
    <2>3. ref'[slot] = ref[slot]
      BY <1>4, <2>1, <2>2 DEF RefsAfterConstruct
    <2>4. Zero' = Zero
      BY DEF Zero
    <2>. QED BY <1>4, <2>1, <2>2, <2>3, <2>4 DEF HasList, List, RefOf
  <1>7. AllowlistInv'
    BY <1>1, <1>5, <1>6 DEF AllowlistInv, MarksStay, ListMarksStay
  <1>8. /\ SameNames({"USDYFactory", "Blocklist", "Allowlist"}) /\ SameNames({"USDYFactory"})
        /\ SameNames({"USDYManager", "Blocklist", "USDYFactory"})
        /\ SameNames({"USDYManager", "USDY_Pricer", "USDYFactory"})
        /\ SameNames({"Allowlist", "ProxyAdminAllowlist", "USDY", "ProxyAdminUSDY"})
        /\ SameNames({"Blocklist"}) /\ SameNames({"USDY_Pricer"})
    BY <1>4 DEF DeploymentNames
  <1>9. \A n \in DOMAIN ArgsOf : SameNames({n}) \/ deployments'[n].args = ArgsOf[n]
    <2>1. DOMAIN ArgsOf \subseteq DeploymentNames /\ name \in DOMAIN ArgsOf /\ ArgsOf[name] = <<Multisig>>
      BY DEF ArgsOf, DeploymentNames
    <2>. QED BY <1>4, <2>1
  <1>10. /\ RefsStay("Blocklist") /\ RolesStay("Pricer") /\ RefsStay("USDYFactory") /\ RefsStay("USDY")
         /\ RolesStay("USDY") /\ RolesStay("USDYManager") /\ RefsStay("USDYManager")
    BY <1>4, FieldsAre, RolesAre
  <1>11. StoreInv'
    BY <1>1, <1>2, <1>4, <1>8, <1>9, <1>10, StoreGoesOn
  <1>12. ProposalsInv'
    BY <1>1 DEF ProposalsInv
  <1>13. ListProceeds /\ TokenProceeds /\ GrantsProceed
    BY <1>1, <1>2, <1>8, MarksProceed
  <1>14. TokenInv'
    BY <1>1, <1>2, <1>8, <1>10, <1>13, TokenStays
  <1>15. ManagerInv'
    <2>1. \A field \in DOMAIN ManagerRefs \cup {"rwa"} : \A c \in Deployed("USDYManager") :
            ref'[<<c, field>>] = ref[<<c, field>>]
      BY <1>10, FieldsAre, ManagerRefsAre DEF RefsStay
    <2>. QED BY <1>1, <1>2, <1>8, <1>10, <2>1, ManagerStays
  <1>16. GrantsInv'
    BY <1>1, <1>2, <1>8, <1>10, <1>13, GrantsStay
  <1>17. ReadsInv'
    BY <1>1, NothingRead DEF Now
  <1>18. HasToken' <=> HasToken
    BY <1>2, <1>8, <1>10, TokenIsStays
  <1>19. ProcessInv' /\ OrderInv'
    BY <1>1, <1>18, GoOnKeeps
  <1>. QED BY <1>7, <1>11, <1>12, <1>14, <1>15, <1>16, <1>17, <1>19 DEF PartsInv

\* The blocklist and the token's factory are there before a token is.
LEMMA NoTokenYet ==
  ASSUME CarefulState, StepsOK', RunDeploy, MarksStay, DOMAIN proposals = {}, ~HasToken, ~HasToken',
         SameNames({"USDYManager"})
  PROVE  TokenInv' /\ ManagerInv' /\ GrantsInv'
  <1>1. ~Past(3, 5)'
    BY DEF CarefulState, TokenInv, MarksStay, TokenMarksStay
  <1>2. ~Has("USDYManager")'
    BY SameNameIs DEF CarefulState, ManagerInv
  <1>. QED BY <1>1, <1>2, NoToken

LEMMA BlocklistKeeps ==
  ASSUME CarefulState, DeploymentInv', StepsOK', RunDeploy, ~UNCHANGED <<chainVars, deployments>>,
         Now("deploy", 2, 1)
  PROVE  PartsInv' /\ ReadsInv' /\ ProcessInv' /\ OrderInv'
  <1>. DEFINE name == "Blocklist"
  <1>1. /\ GoOn("deploy") /\ running = "deploy"
        /\ DOMAIN proposals = {} /\ DOMAIN proposals' = {}
        /\ UNCHANGED <<local, next, proposals>>
        /\ NextGrows /\ MarksStay
        /\ \A call : ProposalStays(call)
    BY DeployNow
  <1>2. /\ DeploymentInv /\ StepsOK /\ network = "production" /\ StoreInv /\ AllowlistInv /\ TokenInv
        /\ GrantsInv
    BY DEF CarefulState, BaseInv
  <1>3. Step.name = name /\ Step.kind = name /\ Values(Step.args) = <<>>
    <2>1. Step = Deploy(name, name, <<>>)
      BY <1>2, DeploySteps
    <2>. QED BY <2>1, DeployOf, ValuesOfNone
  <1>4. /\ ~IsDeployed(name, <<>>)
        /\ \E n \in 1..MaxInstances : n > created[name] /\ Fresh(name) = <<name, n>>
        /\ At(name)' = Fresh(name) /\ deployments'[name].args = <<>>
        /\ \A names \in SUBSET DeploymentNames : name \notin names => SameNames(names)
        /\ \A k \in DOMAIN FieldsOf : RefsStay(k)
        /\ \A k \in DOMAIN RolesOf : RolesStay(k)
        /\ KindsGrow
        /\ ref' = RefsAfterConstruct(name, Fresh(name), External("deployer"), <<>>)
    BY <1>3, NewContract
  <1>5. name \in DOMAIN ArgsOf /\ ArgsOf[name] = <<>> /\ DOMAIN ArgsOf \subseteq DeploymentNames
    BY DEF ArgsOf, DeploymentNames
  <1>6. ~HasToken
    BY <1>2, <1>4, <1>5 DEF StoreInv, IsDeployed, Has, At, TokenInv
  <1>7. RefOf(name, "owner")' = External("deployer")
    <2>1. PICK n \in 1..MaxInstances : n > created[name] /\ Fresh(name) = <<name, n>>
      BY <1>4
    <2>. DEFINE slot == <<<<name, n>>, "owner">>
    <2>2. slot \in DOMAIN ref
      BY <2>1, FreshRefs, FieldsAre
    <2>3. ref'[slot] = External("deployer")
      BY <1>4, <2>1, <2>2 DEF RefsAfterConstruct
    <2>. QED BY <1>4, <2>1, <2>3 DEF RefOf
  <1>8. /\ SameNames({"USDYFactory"}) /\ SameNames({"USDYManager"}) /\ SameNames({"AllowlistFactory"})
        /\ SameNames({"Allowlist", "ProxyAdminAllowlist", "USDY", "ProxyAdminUSDY"})
        /\ SameNames({"USDY_Pricer"})
    BY <1>4 DEF DeploymentNames
  <1>9. \A n \in DOMAIN ArgsOf : SameNames({n}) \/ deployments'[n].args = ArgsOf[n]
    BY <1>4, <1>5
  <1>10. /\ RefsStay("Blocklist") /\ RolesStay("Pricer") /\ RefsStay("USDYFactory")
         /\ RefsStay("AllowlistFactory") /\ RefsStay("Allowlist") /\ RefsStay("AllowlistProxyAdmin")
         /\ RolesStay("Allowlist")
    BY <1>4, FieldsAre, RolesAre
  <1>11. StoreInv'
    BY <1>1, <1>2, <1>4, <1>7, <1>8, <1>9, <1>10, StoreGoesOn
  <1>12. ProposalsInv'
    BY <1>1 DEF ProposalsInv
  <1>13. ListProceeds
    BY <1>1, <1>2, <1>8, MarksProceed
  <1>14. AllowlistInv'
    BY <1>1, <1>2, <1>4, <1>8, <1>10, <1>13, AllowlistStays
  <1>15. HasToken' <=> HasToken
    BY <1>2, <1>8, <1>10, TokenIsStays
  <1>16. TokenInv' /\ ManagerInv' /\ GrantsInv'
    BY <1>1, <1>6, <1>8, <1>15, NoTokenYet
  <1>17. ReadsInv'
    BY <1>1, NothingRead DEF Now
  <1>18. ProcessInv' /\ OrderInv'
    BY <1>1, <1>15, GoOnKeeps
  <1>. QED BY <1>11, <1>12, <1>14, <1>16, <1>17, <1>18 DEF PartsInv

LEMMA TokenFactoryKeeps ==
  ASSUME CarefulState, DeploymentInv', StepsOK', RunDeploy, ~UNCHANGED <<chainVars, deployments>>,
         Now("deploy", 3, 1)
  PROVE  PartsInv' /\ ReadsInv' /\ ProcessInv' /\ OrderInv'
  <1>. DEFINE name == "USDYFactory"  args == <<External(PROD_GUARDIAN_OMMF)>>
  <1>1. /\ GoOn("deploy") /\ running = "deploy"
        /\ DOMAIN proposals = {} /\ DOMAIN proposals' = {}
        /\ UNCHANGED <<local, next, proposals>>
        /\ NextGrows /\ MarksStay
        /\ \A call : ProposalStays(call)
        /\ \A n \in Step.uses : Assigned(n)
    BY DeployNow
  <1>2. /\ DeploymentInv /\ StepsOK /\ network = "production" /\ StoreInv /\ AllowlistInv /\ TokenInv
        /\ GrantsInv /\ LocalsOK
    BY DEF CarefulState, BaseInv
  <1>3. Step.name = name /\ Step.kind = name /\ Values(Step.args) = args
    <2>. DEFINE names == <<PROD_GUARDIAN_OMMF>>
    <2>1. Step = Deploy(name, name, names)
      BY <1>2, DeploySteps
    <2>2. DOMAIN names = 1..1 /\ names[1] = PROD_GUARDIAN_OMMF /\ Values(names) = <<Value(PROD_GUARDIAN_OMMF)>>
      BY ValuesOfOne
    <2>. HIDE DEF names
    <2>3. Step.name = name /\ Step.kind = name /\ Step.args = names
          /\ Step.uses = {names[i] : i \in DOMAIN names}
      BY <2>1, DeployOf
    <2>4. PROD_GUARDIAN_OMMF \in Step.uses
      BY <2>2, <2>3
    <2>5. PROD_GUARDIAN_OMMF \notin Variables
      BY <1>1, <1>2, <2>4, FirstStep DEF Assigned, Now
    <2>6. Value(PROD_GUARDIAN_OMMF) = External(PROD_GUARDIAN_OMMF)
      BY <2>5 DEF Value
    <2>. QED BY <2>2, <2>3, <2>6
  <1>. HIDE DEF args
  <1>4. /\ ~IsDeployed(name, args)
        /\ \E n \in 1..MaxInstances : n > created[name] /\ Fresh(name) = <<name, n>>
        /\ At(name)' = Fresh(name) /\ deployments'[name].args = args
        /\ \A names \in SUBSET DeploymentNames : name \notin names => SameNames(names)
        /\ \A k \in DOMAIN FieldsOf : RefsStay(k)
        /\ \A k \in DOMAIN RolesOf : RolesStay(k)
        /\ KindsGrow
        /\ ref' = RefsAfterConstruct(name, Fresh(name), External("deployer"), args)
    BY <1>3, NewContract
  <1>5. name \in DOMAIN ArgsOf /\ ArgsOf[name] = args /\ DOMAIN ArgsOf \subseteq DeploymentNames
    BY DEF ArgsOf, DeploymentNames, args
  <1>6. ~HasToken
    BY <1>2, <1>4, <1>5 DEF StoreInv, IsDeployed, Has, At, HasToken
  <1>7. ~HasToken'
    <2>1. PICK n \in 1..MaxInstances : n > created[name] /\ Fresh(name) = <<name, n>>
      BY <1>4
    <2>. DEFINE slot == <<<<name, n>>, "usdyProxy">>
    <2>2. slot \in DOMAIN ref /\ ref[slot] = Zero
      BY <2>1, FreshRefs, FieldsAre
    <2>3. ref'[slot] = ref[slot]
      BY <1>4, <2>1, <2>2 DEF RefsAfterConstruct
    <2>4. Zero' = Zero
      BY DEF Zero
    <2>. QED BY <1>4, <2>1, <2>2, <2>3, <2>4 DEF HasToken, Token, RefOf
  <1>8. /\ SameNames({"USDYManager"}) /\ SameNames({"AllowlistFactory"})
        /\ SameNames({"Allowlist", "ProxyAdminAllowlist", "USDY", "ProxyAdminUSDY"})
        /\ SameNames({"USDY_Pricer"}) /\ SameNames({"Blocklist"})
    BY <1>4 DEF DeploymentNames
  <1>9. \A n \in DOMAIN ArgsOf : SameNames({n}) \/ deployments'[n].args = ArgsOf[n]
    BY <1>4, <1>5
  <1>10. /\ RefsStay("Blocklist") /\ RolesStay("Pricer")
         /\ RefsStay("AllowlistFactory") /\ RefsStay("Allowlist") /\ RefsStay("AllowlistProxyAdmin")
         /\ RolesStay("Allowlist")
    BY <1>4, FieldsAre, RolesAre
  <1>11. StoreInv'
    BY <1>1, <1>2, <1>4, <1>8, <1>9, <1>10, StoreGoesOn
  <1>12. ProposalsInv'
    BY <1>1 DEF ProposalsInv
  <1>13. ListProceeds
    BY <1>1, <1>2, <1>8, MarksProceed
  <1>14. AllowlistInv'
    BY <1>1, <1>2, <1>4, <1>8, <1>10, <1>13, AllowlistStays
  <1>15. TokenInv' /\ ManagerInv' /\ GrantsInv'
    BY <1>1, <1>6, <1>7, <1>8, NoTokenYet
  <1>16. ReadsInv'
    BY <1>1, NothingRead DEF Now
  <1>17. ProcessInv' /\ OrderInv'
    BY <1>1, <1>7, GoOnKeeps
  <1>. QED BY <1>11, <1>12, <1>14, <1>15, <1>16, <1>17 DEF PartsInv

\* Without a pricer, task 5 has not begun.
LEMMA NoPricer ==
  ASSUME CarefulState, StepsOK', MarksStay, ~Has("USDY_Pricer"),
         SameNames({"USDYFactory"}), RefsStay("USDYFactory"), RolesStay("USDY"),
         Has("USDYManager")' => \A role \in DOMAIN GrantSteps : MembersOf("USDYManager", role)' = <<>>
  PROVE  GrantsInv'
  <1>1. DeploymentInv /\ StepsOK /\ GrantsInv
    BY DEF CarefulState, BaseInv
  <1>2. ~Past(5, 6)'
    BY <1>1 DEF GrantsInv, MarksStay, GrantMarksStay
  <1>3. ASSUME HasToken'
        PROVE  /\ members'[<<Token', "MINTER_ROLE">>] = <<>>
               /\ members'[<<Token', "PAUSER_ROLE">>] = <<Multisig>>
    <2>1. HasToken /\ Token' = Token /\ Token \in Deployed("USDY")
      BY <1>1, <1>3, TokenIsStays, NamesHold DEF HasToken
    <2>2. /\ members[<<Token, "MINTER_ROLE">>] = <<>>
          /\ members[<<Token, "PAUSER_ROLE">>] = <<Multisig>>
      BY <1>1, <2>1 DEF GrantsInv, Granting
    <2>. QED BY <2>1, <2>2, RolesAre DEF RolesStay
  <1>. QED BY <1>2, <1>3, NoGrants

LEMMA PricerKeeps ==
  ASSUME CarefulState, DeploymentInv', StepsOK', RunDeploy, ~UNCHANGED <<chainVars, deployments>>,
         Now("deploy", 5, 1)
  PROVE  PartsInv' /\ ReadsInv' /\ ProcessInv' /\ OrderInv'
  <1>. DEFINE name == "USDY_Pricer"  args == <<Multisig, Multisig>>
  <1>1. /\ GoOn("deploy") /\ running = "deploy"
        /\ DOMAIN proposals = {} /\ DOMAIN proposals' = {}
        /\ UNCHANGED <<local, next, proposals>>
        /\ NextGrows /\ MarksStay
        /\ \A call : ProposalStays(call)
    BY DeployNow
  <1>2. /\ DeploymentInv /\ StepsOK /\ network = "production" /\ StoreInv /\ AllowlistInv /\ TokenInv
        /\ GrantsInv /\ ManagerInv
    BY DEF CarefulState, BaseInv
  <1>3. Step.name = name /\ Step.kind = USDYPricer /\ Values(Step.args) = args
    <2>1. Step = Deploy(name, USDYPricer, <<PROD_GUARDIAN_USDY, PROD_GUARDIAN_USDY>>)
      BY <1>2, DeploySteps
    <2>. QED BY <2>1, DeployOf, ValuesOfTwo, ConstantValues
  <1>4. USDYPricer = "Pricer"
    <2>1. USDYPricer \in Kinds
      BY <1>3, NewContract
    <2>. QED BY <2>1, PricerAssumption
  <1>5. args[1] = Multisig /\ args[2] = Multisig
    OBVIOUS
  <1>. HIDE DEF args
  <1>6. /\ ~IsDeployed(name, args)
        /\ \E n \in 1..MaxInstances : n > created["Pricer"] /\ Fresh("Pricer") = <<"Pricer", n>>
        /\ At(name)' = Fresh("Pricer") /\ deployments'[name].args = args
        /\ Fresh("Pricer") \in Deployed("Pricer")'
        /\ \A names \in SUBSET DeploymentNames : name \notin names => SameNames(names)
        /\ \A k \in DOMAIN FieldsOf : RefsStay(k)
        /\ \A k \in DOMAIN RolesOf : RolesStay(k)
        /\ KindsGrow
        /\ members' = RolesAfterConstruct("Pricer", Fresh("Pricer"), args)
    BY <1>3, <1>4, NewContract
  <1>7. name \in DOMAIN ArgsOf /\ ArgsOf[name] = args /\ DOMAIN ArgsOf \subseteq DeploymentNames
    BY DEF ArgsOf, DeploymentNames, args
  <1>8. ~Has(name)
    BY <1>2, <1>6, <1>7 DEF StoreInv, IsDeployed, Has, At
  <1>9. \A role \in RolesOf["Pricer"] : MembersOf(name, role)' = <<Multisig>>
    <2>1. PICK n \in 1..MaxInstances : n > created["Pricer"] /\ Fresh("Pricer") = <<"Pricer", n>>
      BY <1>6
    <2>. DEFINE c == <<"Pricer", n>>
                admin == <<c, "DEFAULT_ADMIN_ROLE">>
                updater == <<c, "PRICE_UPDATE_ROLE">>
                m == Granted(members, admin, Multisig)
    <2>2. /\ admin \in DOMAIN members /\ members[admin] = <<>>
          /\ updater \in DOMAIN members /\ members[updater] = <<>>
      BY <2>1, FreshMembers, RolesAre
    <2>3. members' = Granted(m, updater, Multisig)
      BY <1>5, <1>6, <2>1 DEF RolesAfterConstruct
    <2>4. admin # updater
      OBVIOUS
    <2>. HIDE DEF admin, updater
    <2>5. m = [members EXCEPT ![admin] = <<Multisig>>]
      BY <2>2, GrantFirst
    <2>6. updater \in DOMAIN m /\ m[updater] = <<>>
      BY ONLY <2>2, <2>4, <2>5
    <2>. HIDE DEF m
    <2>7. members' = [m EXCEPT ![updater] = <<Multisig>>]
      BY <2>3, <2>6, GrantFirst
    <2>8. members'[admin] = <<Multisig>> /\ members'[updater] = <<Multisig>>
      BY ONLY <2>2, <2>4, <2>5, <2>7
    <2>. QED BY <1>6, <2>1, <2>8, RolesAre DEF MembersOf, admin, updater
  <1>10. /\ SameNames({"USDYFactory"}) /\ SameNames({"USDYManager"}) /\ SameNames({"AllowlistFactory"})
         /\ SameNames({"Allowlist", "ProxyAdminAllowlist", "USDY", "ProxyAdminUSDY"})
         /\ SameNames({"Blocklist"}) /\ SameNames({"USDYFactory", "Blocklist", "Allowlist"})
         /\ SameNames({"USDYManager", "Blocklist", "USDYFactory"})
    BY <1>6 DEF DeploymentNames
  <1>11. \A n \in DOMAIN ArgsOf : SameNames({n}) \/ deployments'[n].args = ArgsOf[n]
    BY <1>6, <1>7
  <1>12. /\ RefsStay("Blocklist") /\ RolesStay("Pricer") /\ RefsStay("USDYFactory") /\ RefsStay("USDY")
         /\ RefsStay("AllowlistFactory") /\ RefsStay("Allowlist") /\ RefsStay("AllowlistProxyAdmin")
         /\ RolesStay("Allowlist") /\ RolesStay("USDY") /\ RolesStay("USDYManager")
         /\ RefsStay("USDYManager")
    BY <1>6, FieldsAre, RolesAre
  <1>13. StoreInv'
    <2>1. next'["deploy"] > 4
      BY <1>1 DEF Now
    <2>2. At(name)' \in Deployed("Pricer")'
      BY <1>6
    <2>. QED BY <1>1, <1>2, <1>6, <1>9, <1>10, <1>11, <1>12, <2>1, <2>2, StoreGoesOn
  <1>14. ProposalsInv'
    BY <1>1 DEF ProposalsInv
  <1>15. ListProceeds /\ TokenProceeds
    BY <1>1, <1>2, <1>10, MarksProceed
  <1>16. AllowlistInv'
    BY <1>1, <1>2, <1>6, <1>10, <1>12, <1>15, AllowlistStays
  <1>17. TokenInv'
    BY <1>1, <1>2, <1>10, <1>12, <1>15, TokenStays
  <1>18. ManagerInv'
    <2>1. \A field \in DOMAIN ManagerRefs \cup {"rwa"} : \A c \in Deployed("USDYManager") :
            ref'[<<c, field>>] = ref[<<c, field>>]
      BY <1>12, FieldsAre, ManagerRefsAre DEF RefsStay
    <2>. QED BY <1>1, <1>2, <1>10, <1>12, <2>1, ManagerStays
  <1>19. GrantsInv'
    <2>1. At("USDYManager")' = At("USDYManager") /\ (Has("USDYManager")' <=> Has("USDYManager"))
      BY <1>10, SameNameIs
    <2>2. ASSUME Has("USDYManager")', NEW role \in DOMAIN GrantSteps
          PROVE  MembersOf("USDYManager", role)' = <<>>
      <3>1. MembersOf("USDYManager", role) = <<>>
        BY <1>2, <1>8, <2>1, <2>2 DEF GrantsInv, Granting
      <3>. QED BY <1>2, <1>12, <2>1, <2>2, <3>1, NamesHold, GrantStepsAre, RolesAre DEF RolesStay, MembersOf
    <2>. QED BY <1>1, <1>8, <1>10, <1>12, <2>2, NoPricer
  <1>20. ReadsInv'
    BY <1>1, NothingRead DEF Now
  <1>21. HasToken' <=> HasToken
    BY <1>2, <1>10, <1>12, TokenIsStays
  <1>22. ProcessInv' /\ OrderInv'
    BY <1>1, <1>21, GoOnKeeps
  <1>. QED BY <1>13, <1>14, <1>16, <1>17, <1>18, <1>19, <1>20, <1>22 DEF PartsInv

\* What a new manager holds.
LEMMA NewManagerRefs ==
  ASSUME NEW c, NEW sender, NEW args, ref' = RefsAfterConstruct("USDYManager", c, sender, args),
         \A field \in FieldsOf["USDYManager"] : <<c, field>> \in DOMAIN ref
  PROVE  /\ ref'[<<c, "collateral">>] = args[1] /\ ref'[<<c, "rwa">>] = args[2]
         /\ ref'[<<c, "assetSender">>] = args[5] /\ ref'[<<c, "feeRecipient">>] = args[6]
         /\ ref'[<<c, "minimumDepositAmount">>] = args[7]
         /\ ref'[<<c, "minimumRedemptionAmount">>] = args[8]
         /\ ref'[<<c, "minimumOffChainRedemptionAmount">>] = args[8]
         /\ ref'[<<c, "blocklist">>] = args[9] /\ ref'[<<c, "sanctionsList">>] = args[10]
  <1>1. /\ <<c, "collateral">> \in DOMAIN ref /\ <<c, "rwa">> \in DOMAIN ref
        /\ <<c, "assetSender">> \in DOMAIN ref /\ <<c, "feeRecipient">> \in DOMAIN ref
        /\ <<c, "minimumDepositAmount">> \in DOMAIN ref
        /\ <<c, "minimumRedemptionAmount">> \in DOMAIN ref
        /\ <<c, "minimumOffChainRedemptionAmount">> \in DOMAIN ref
        /\ <<c, "blocklist">> \in DOMAIN ref /\ <<c, "sanctionsList">> \in DOMAIN ref
    BY FieldsAre
  <1>. QED BY <1>1 DEF RefsAfterConstruct

LEMMA NewManagerRoles ==
  ASSUME NEW c, NEW args, members' = RolesAfterConstruct("USDYManager", c, args),
         \A role \in RolesOf["USDYManager"] :
           <<c, role>> \in DOMAIN members /\ members[<<c, role>>] = <<>>
  PROVE  /\ members'[<<c, "DEFAULT_ADMIN_ROLE">>] = <<args[3]>>
         /\ members'[<<c, "MANAGER_ADMIN">>] = <<args[3]>>
         /\ members'[<<c, "PAUSER_ADMIN">>] = <<args[4]>>
         /\ \A role \in RolesOf["USDYManager"] :
              role \notin {"DEFAULT_ADMIN_ROLE", "MANAGER_ADMIN", "PAUSER_ADMIN"}
                => members'[<<c, role>>] = <<>>
  <1>. DEFINE s1 == <<c, "DEFAULT_ADMIN_ROLE">>
              s2 == <<c, "MANAGER_ADMIN">>
              s3 == <<c, "PAUSER_ADMIN">>
              m1 == Granted(members, s1, args[3])
              m2 == Granted(m1, s2, args[3])
  <1>1. /\ s1 \in DOMAIN members /\ members[s1] = <<>>
        /\ s2 \in DOMAIN members /\ members[s2] = <<>>
        /\ s3 \in DOMAIN members /\ members[s3] = <<>>
    BY RolesAre
  <1>2. members' = Granted(m2, s3, args[4])
    BY DEF RolesAfterConstruct
  <1>3. s1 # s2 /\ s1 # s3 /\ s2 # s3
    OBVIOUS
  <1>4. \A role : role \notin {"DEFAULT_ADMIN_ROLE", "MANAGER_ADMIN", "PAUSER_ADMIN"} =>
          <<c, role>> \notin {s1, s2, s3}
    OBVIOUS
  <1>. HIDE DEF s1, s2, s3
  <1>5. m1 = [members EXCEPT ![s1] = <<args[3]>>]
    BY <1>1, GrantFirst
  <1>6. s2 \in DOMAIN m1 /\ m1[s2] = <<>>
    BY ONLY <1>1, <1>3, <1>5
  <1>. HIDE DEF m1
  <1>7. m2 = [m1 EXCEPT ![s2] = <<args[3]>>]
    BY <1>6, GrantFirst
  <1>8. s3 \in DOMAIN m2 /\ m2[s3] = <<>>
    BY ONLY <1>1, <1>3, <1>5, <1>7
  <1>. HIDE DEF m2
  <1>9. members' = [m2 EXCEPT ![s3] = <<args[4]>>]
    BY <1>2, <1>8, GrantFirst
  <1>10. members'[s1] = <<args[3]>> /\ members'[s2] = <<args[3]>> /\ members'[s3] = <<args[4]>>
    BY ONLY <1>1, <1>3, <1>5, <1>7, <1>9
  <1>11. \A slot \in DOMAIN members : slot \notin {s1, s2, s3} => members'[slot] = members[slot]
    BY ONLY <1>5, <1>7, <1>9
  <1>12. ASSUME NEW role \in RolesOf["USDYManager"],
                role \notin {"DEFAULT_ADMIN_ROLE", "MANAGER_ADMIN", "PAUSER_ADMIN"}
         PROVE  members'[<<c, role>>] = <<>>
    BY <1>4, <1>11, <1>12
  <1>. QED BY <1>10, <1>12 DEF s1, s2, s3

\* What the deploy script of the manager passes: a token that is there, and no task 3 that
\* would deploy another is still to come.
LEMMA ManagerArgsAre ==
  ASSUME CarefulState, StepsOK', RunDeploy, ~UNCHANGED <<chainVars, deployments>>,
         Now("deploy", 4, 7), NEW args, args = Values(Step.args)
  PROVE  /\ Step.name = "USDYManager" /\ Step.kind = "USDYManager"
         /\ HasToken /\ next["task"] > 3 /\ Has("Blocklist")
         /\ args[1] = External(USDC_MAINNET) /\ args[2] = Token /\ args[3] = Multisig /\ args[4] = PAUSER
         /\ args[5] = USDY_MANAGER_ASSET_SENDER /\ args[6] = Multisig /\ args[7] = External("500e6")
         /\ args[8] = External("500e18") /\ args[9] = At("Blocklist")
         /\ args[10] = External(SANCTION_ADDRESS)
  <1>1. /\ network = "production" /\ StepsOK /\ ReadsInv /\ OrderInv
    BY DEF CarefulState, BaseInv
  <1>2. /\ running = "deploy" /\ undone \subseteq {"deploy"} /\ \A name \in Step.uses : Assigned(name)
    BY DeployNow
  <1>3. /\ Step.name = "USDYManager" /\ Step.kind = "USDYManager" /\ Step.args = ManagerArgs
        /\ Step.uses = {ManagerArgs[i] : i \in DOMAIN ManagerArgs}
    <2>1. Step = Deploy("USDYManager", "USDYManager", ManagerArgs)
      BY <1>1, DeploySteps
    <2>. QED BY <2>1, DeployOf
  <1>4. {"usdyProxy", "Blocklist"} \subseteq Step.uses
    <2>1. DOMAIN ManagerArgs = 1..10 /\ ManagerArgs[2] = "usdyProxy" /\ ManagerArgs[9] = "Blocklist"
      BY DEF ManagerArgs
    <2>. QED BY <1>3, <2>1
  <1>5. {"usdyProxy", "Blocklist"} \subseteq Variables /\ "Blocklist" \in DeploymentNames
    BY VariablesAre DEF DeploymentNames
  <1>6. local["usdyProxy"] # Absent /\ local["Blocklist"] # Absent
    BY <1>2, <1>4, <1>5 DEF Assigned
  <1>7. Has("Blocklist") /\ Value("Blocklist") = At("Blocklist")
    BY <1>5, <1>6, NameIs
  <1>8. Has("USDYFactory") /\ Value("usdyProxy") = Token
    BY <1>1, <1>5, <1>6 DEF ReadsInv, Value
  <1>9. /\ args[1] = External(USDC_MAINNET) /\ args[2] = Token /\ args[3] = Multisig /\ args[4] = PAUSER
        /\ args[5] = USDY_MANAGER_ASSET_SENDER /\ args[6] = Multisig /\ args[7] = External("500e6")
        /\ args[8] = External("500e18") /\ args[9] = At("Blocklist")
        /\ args[10] = External(SANCTION_ADDRESS)
    BY <1>3, <1>7, <1>8, ManagerValues
  <1>10. Token # Zero
    <2>1. Construct("USDYManager", External("deployer"), args)
      BY <1>3 DEF RunDeploy
    <2>. QED BY <1>9, <2>1 DEF Construct, CanConstruct
  <1>11. HasToken
    BY <1>8, <1>10 DEF HasToken
  <1>12. next["task"] > 3
    BY <1>1, <1>2, <1>11 DEF OrderInv, Past
  <1>. QED BY <1>3, <1>7, <1>9, <1>11, <1>12

LEMMA NewManager ==
  ASSUME CarefulState, StepsOK', DeploymentInv', NEW args,
         At("USDYManager")' = Fresh("USDYManager"),
         \E n \in 1..MaxInstances : n > created["USDYManager"] /\ Fresh("USDYManager") = <<"USDYManager", n>>,
         ref' = RefsAfterConstruct("USDYManager", Fresh("USDYManager"), External("deployer"), args),
         members' = RolesAfterConstruct("USDYManager", Fresh("USDYManager"), args),
         args[1] = External(USDC_MAINNET), args[2] = Token, args[3] = Multisig, args[4] = PAUSER,
         args[5] = USDY_MANAGER_ASSET_SENDER, args[6] = Multisig, args[7] = External("500e6"),
         args[8] = External("500e18"), args[9] = At("Blocklist"), args[10] = External(SANCTION_ADDRESS)
  PROVE  /\ \A field \in DOMAIN ManagerRefs : RefOf("USDYManager", field)' = ManagerRefs[field]
         /\ RefOf("USDYManager", "rwa")' = Token
         /\ MembersOf("USDYManager", "DEFAULT_ADMIN_ROLE")' = <<Multisig>>
         /\ MembersOf("USDYManager", "MANAGER_ADMIN")' = <<Multisig>>
         /\ MembersOf("USDYManager", "PAUSER_ADMIN")' = <<PAUSER>>
         /\ \A role \in DOMAIN GrantSteps : MembersOf("USDYManager", role)' = <<>>
  <1>1. PICK n \in 1..MaxInstances : n > created["USDYManager"] /\ Fresh("USDYManager") = <<"USDYManager", n>>
    OBVIOUS
  <1>. PICK c : c = <<"USDYManager", n>>
    OBVIOUS
  <1>2. /\ \A field \in FieldsOf["USDYManager"] : <<c, field>> \in DOMAIN ref
        /\ \A role \in RolesOf["USDYManager"] : <<c, role>> \in DOMAIN members /\ members[<<c, role>>] = <<>>
    BY <1>1, FreshRefs, FreshMembers, FieldsAre, RolesAre
  <1>3. /\ ref' = RefsAfterConstruct("USDYManager", c, External("deployer"), args)
        /\ members' = RolesAfterConstruct("USDYManager", c, args)
        /\ At("USDYManager")' = c
    BY <1>1
  <1>4. \A field : RefOf("USDYManager", field)' = ref'[<<c, field>>]
    BY <1>3 DEF RefOf
  <1>5. \A role : MembersOf("USDYManager", role)' = members'[<<c, role>>]
    BY <1>3 DEF MembersOf
  <1>6. /\ ref'[<<c, "collateral">>] = args[1] /\ ref'[<<c, "rwa">>] = args[2]
        /\ ref'[<<c, "assetSender">>] = args[5] /\ ref'[<<c, "feeRecipient">>] = args[6]
        /\ ref'[<<c, "minimumDepositAmount">>] = args[7]
        /\ ref'[<<c, "minimumRedemptionAmount">>] = args[8]
        /\ ref'[<<c, "minimumOffChainRedemptionAmount">>] = args[8]
        /\ ref'[<<c, "blocklist">>] = args[9] /\ ref'[<<c, "sanctionsList">>] = args[10]
    <2>. PICK sender : sender = External("deployer")
      OBVIOUS
    <2>1. ref' = RefsAfterConstruct("USDYManager", c, sender, args)
      BY <1>3
    <2>2. \A field \in FieldsOf["USDYManager"] : <<c, field>> \in DOMAIN ref
      BY <1>2
    <2>. QED BY ONLY <2>1, <2>2, NewManagerRefs
  <1>7. /\ members'[<<c, "DEFAULT_ADMIN_ROLE">>] = <<args[3]>>
        /\ members'[<<c, "MANAGER_ADMIN">>] = <<args[3]>>
        /\ members'[<<c, "PAUSER_ADMIN">>] = <<args[4]>>
        /\ \A role \in RolesOf["USDYManager"] :
             role \notin {"DEFAULT_ADMIN_ROLE", "MANAGER_ADMIN", "PAUSER_ADMIN"}
               => members'[<<c, role>>] = <<>>
    BY <1>2, <1>3, NewManagerRoles
  <1>8. \A field \in DOMAIN ManagerRefs : RefOf("USDYManager", field)' = ManagerRefs[field]
    BY <1>4, <1>6, ManagerRefsAre
  <1>9. \A role \in DOMAIN GrantSteps : MembersOf("USDYManager", role)' = <<>>
    BY <1>5, <1>7, GrantStepsAre, RolesAre
  <1>. QED BY <1>4, <1>5, <1>6, <1>7, <1>8, <1>9

LEMMA ManagerDeployKeeps ==
  ASSUME CarefulState, DeploymentInv', StepsOK', RunDeploy, ~UNCHANGED <<chainVars, deployments>>,
         Now("deploy", 4, 7)
  PROVE  PartsInv' /\ ReadsInv' /\ ProcessInv' /\ OrderInv'
  <1>. DEFINE name == "USDYManager"
  <1>. PICK args : args = Values(Step.args)
    OBVIOUS
  <1>1. /\ GoOn("deploy") /\ running = "deploy"
        /\ DOMAIN proposals = {} /\ DOMAIN proposals' = {}
        /\ UNCHANGED <<local, next, proposals>>
        /\ NextGrows /\ MarksStay
        /\ \A call : ProposalStays(call)
    BY DeployNow
  <1>2. /\ DeploymentInv /\ StepsOK /\ network = "production" /\ StoreInv /\ AllowlistInv /\ TokenInv
        /\ GrantsInv /\ ReadsInv /\ LocalsOK
    BY DEF CarefulState, BaseInv
  <1>3. /\ Step.name = name /\ Step.kind = name
        /\ HasToken /\ next["task"] > 3 /\ Has("Blocklist")
        /\ args[1] = External(USDC_MAINNET) /\ args[2] = Token /\ args[3] = Multisig /\ args[4] = PAUSER
        /\ args[5] = USDY_MANAGER_ASSET_SENDER /\ args[6] = Multisig /\ args[7] = External("500e6")
        /\ args[8] = External("500e18") /\ args[9] = At("Blocklist")
        /\ args[10] = External(SANCTION_ADDRESS)
    BY ManagerArgsAre
  <1>4. /\ \E n \in 1..MaxInstances : n > created[name] /\ Fresh(name) = <<name, n>>
        /\ At(name)' = Fresh(name)
        /\ \A names \in SUBSET DeploymentNames : name \notin names => SameNames(names)
        /\ \A k \in DOMAIN FieldsOf : RefsStay(k)
        /\ \A k \in DOMAIN RolesOf : RolesStay(k)
        /\ KindsGrow
        /\ ref' = RefsAfterConstruct(name, Fresh(name), External("deployer"), args)
        /\ members' = RolesAfterConstruct(name, Fresh(name), args)
    BY <1>3, NewContract
  <1>5. ~Has("USDY_Pricer")
    BY <1>2 DEF StoreInv, Now
  <1>6. /\ \A field \in DOMAIN ManagerRefs : RefOf(name, field)' = ManagerRefs[field]
        /\ RefOf(name, "rwa")' = Token
        /\ MembersOf(name, "DEFAULT_ADMIN_ROLE")' = <<Multisig>>
        /\ MembersOf(name, "MANAGER_ADMIN")' = <<Multisig>>
        /\ MembersOf(name, "PAUSER_ADMIN")' = <<PAUSER>>
        /\ \A role \in DOMAIN GrantSteps : MembersOf(name, role)' = <<>>
    BY <1>3, <1>4, NewManager
  <1>7. /\ SameNames({"USDYFactory"}) /\ SameNames({"AllowlistFactory"})
        /\ SameNames({"Allowlist", "ProxyAdminAllowlist", "USDY", "ProxyAdminUSDY"})
        /\ SameNames({"Blocklist"}) /\ SameNames({"USDYFactory", "Blocklist", "Allowlist"})
        /\ SameNames({"USDY_Pricer"}) /\ SameNames({"AllowlistFactory", "USDYFactory"})
        /\ SameNames(DOMAIN ArgsOf)
    BY <1>4 DEF DeploymentNames, ArgsOf
  <1>8. /\ RefsStay("Blocklist") /\ RolesStay("Pricer") /\ RefsStay("USDYFactory") /\ RefsStay("USDY")
        /\ RefsStay("AllowlistFactory") /\ RefsStay("Allowlist") /\ RefsStay("AllowlistProxyAdmin")
        /\ RolesStay("Allowlist") /\ RolesStay("USDY")
    BY <1>4, FieldsAre, RolesAre
  <1>9. StoreInv'
    BY <1>1, <1>2, <1>4, <1>7, <1>8, StoreStays
  <1>10. ProposalsInv'
    BY <1>1 DEF ProposalsInv
  <1>11. ListProceeds /\ TokenProceeds
    BY <1>1, <1>2, <1>7, MarksProceed
  <1>12. AllowlistInv'
    BY <1>1, <1>2, <1>4, <1>7, <1>8, <1>11, AllowlistStays
  <1>13. TokenInv'
    BY <1>1, <1>2, <1>7, <1>8, <1>11, TokenStays
  <1>14. (HasToken' <=> HasToken) /\ Token' = Token
    BY <1>2, <1>3, <1>7, <1>8, TokenIsStays DEF HasToken
  <1>15. ManagerInv'
    <2>1. At("Blocklist")' = At("Blocklist")
      BY <1>7, SameNameIs
    <2>2. ManagerRefs' = ManagerRefs /\ <<Multisig>>' = <<Multisig>> /\ <<PAUSER>>' = <<PAUSER>>
      BY <2>1 DEF ManagerRefs, Multisig, USDY_MANAGER_ASSET_SENDER, PAUSER
    <2>3. next'["task"] > 3 /\ next'["deploy"] > 3
      BY <1>1, <1>3 DEF Now
    <2>. QED BY <1>1, <1>3, <1>6, <1>14, <2>2, <2>3 DEF ManagerInv
  <1>16. GrantsInv'
    BY <1>1, <1>5, <1>6, <1>7, <1>8, NoPricer
  <1>17. ReadsInv'
    <2>1. local[name] = Absent
      BY <1>2, NotReadBefore
    <2>2. \A n \in DeploymentNames : n # name => SameNames({n})
      BY <1>4
    <2>. QED BY <1>1, <1>2, <1>7, <1>8, <2>1, <2>2, ReadsStay
  <1>18. ProcessInv' /\ OrderInv'
    BY <1>1, <1>14, GoOnKeeps
  <1>. QED BY <1>9, <1>10, <1>12, <1>13, <1>15, <1>16, <1>17, <1>18 DEF PartsInv

LEMMA RunDeployCareful ==
  ASSUME CarefulState, DeploymentInv', StepsOK', RunDeploy
  PROVE  PartsInv' /\ ReadsInv' /\ ProcessInv' /\ OrderInv'
  <1>1. CASE UNCHANGED <<chainVars, deployments>>
    BY <1>1, DeployedAlready
  <1>2. CASE ~UNCHANGED <<chainVars, deployments>>
    <2>1. \/ Now("deploy", 1, 1) \/ Now("deploy", 2, 1) \/ Now("deploy", 3, 1)
          \/ Now("deploy", 4, 7) \/ Now("deploy", 5, 1)
      BY DeployNow
    <2>. QED BY <1>2, <2>1, ListFactoryKeeps, BlocklistKeeps, TokenFactoryKeeps, ManagerDeployKeeps,
                PricerKeeps
  <1>. QED BY <1>1, <1>2

-----------------------------------------------------------------------------
(* The Safe.                                                               *)
LEMMA ExecuteFrame ==
  ASSUME CarefulState, DeploymentInv', NEW p \in DOMAIN proposals, SafeExecutes(p)
  PROVE  /\ Call(p.from, p)
         /\ DOMAIN proposals' \subseteq DOMAIN proposals
         /\ \A call : call # p => ProposalStays(call)
         /\ UNCHANGED <<deployments, local, next, step, running, undone>>
         /\ \A names : SameNames(names)
         /\ KindsGrow /\ NextGrows /\ TasksGoOn /\ MarksStay
  <1>1. /\ Call(p.from, p)
        /\ proposals' = Bag!BagRemove(proposals, p)
        /\ UNCHANGED <<deployments, local, next, step, running, undone, network>>
    BY DEF SafeExecutes, storeVars, scriptVars, history
  <1>2. /\ DOMAIN proposals' \subseteq DOMAIN proposals
        /\ \A call : call # p => ProposalStays(call)
    BY <1>1 DEF Bag!BagRemove, ProposalStays
  <1>3. \A names : SameNames(names)
    BY <1>1 DEF SameNames
  <1>4. NextGrows /\ TasksGoOn
    BY <1>1 DEF NextGrows, TasksGoOn, CarefulState, BaseInv, StepsOK
  <1>5. MarksStay
    BY <1>1 DEF MarksStay, ListMarksStay, TokenMarksStay, GrantMarksStay, Past
  <1>6. KindsGrow
    <2>1. CreatedOK /\ CreatedOK' /\ Grows
      BY <1>1, CallKeeps DEF CarefulState, DeploymentInv, ChainInv, ProposalsOK
    <2>. QED BY <2>1, DeployedGrows DEF KindsGrow
  <1>. QED BY <1>1, <1>2, <1>3, <1>4, <1>5, <1>6

\* Whatever the Safe does, a script that can still read has not been started yet.
LEMMA ExecuteKeepsProcess ==
  ASSUME CarefulState, DeploymentInv', NEW p \in DOMAIN proposals, SafeExecutes(p)
  PROVE  ProcessInv' /\ ReadsInv' /\ ProposalsInv'
  <1>1. /\ DOMAIN proposals' \subseteq DOMAIN proposals
        /\ UNCHANGED <<deployments, local, next, step, running, undone>>
        /\ \A names : SameNames(names)
        /\ TasksGoOn
    BY ExecuteFrame
  <1>2. ProcessInv'
    <2>1. Script(running)' = Script(running)
      BY <1>1 DEF SafeExecutes, Script
    <2>2. running # "none" =>
            /\ undone \subseteq {running}
            /\ \/ DOMAIN proposals = {}
               \/ \E j \in DOMAIN Script(running) : j < step /\ Script(running)[j].op = "propose"
      BY DEF CarefulState, ProcessInv
    <2>. QED BY <1>1, <2>1, <2>2 DEF ProcessInv
  <1>3. ReadsInv'
    <2>1. \A name \in ReadNames : local[name] = Absent
      BY DEF CarefulState, ReadsInv, ReadNames
    <2>2. \A name \in DeploymentNames : local[name] \in {Absent, At(name)}
      BY DEF CarefulState, ReadsInv
    <2>3. Absent' = Absent
      BY DEF Absent
    <2>. QED BY <1>1, <2>1, <2>2, <2>3 DEF ReadsInv, ReadNames, At
  <1>4. ProposalsInv'
    BY <1>1, ProposalsInvStays DEF CarefulState, BaseInv
  <1>. QED BY <1>2, <1>3, <1>4

\* The factory's new list.
LEMMA NewList ==
  ASSUME CarefulState, NEW factory \in Deployed("AllowlistFactory"),
         DeployAllowlist(Multisig, factory, Multisig, Multisig), DeploymentInv'
  PROVE  \E list, admin :
           /\ list \in Deployed("Allowlist")'
           /\ admin \in Deployed("AllowlistProxyAdmin")'
           /\ \A role \in RolesOf["Allowlist"] : members'[<<list, role>>] = <<Multisig>>
           /\ ref'[<<factory, "allowlistProxy">>] = list
           /\ ref'[<<factory, "allowlistProxyAdmin">>] = admin
           /\ ref'[<<list, "proxyAdmin">>] = admin
           /\ ref'[<<admin, "owner">>] = Multisig
  <1>1. CreatedOK /\ CreatedOK' /\ DOMAIN ref = FieldSlots
    BY DomainsAre DEF CarefulState, DeploymentInv, ChainInv
  <1>2. PICK n : n = created["Allowlist"] + 1
    OBVIOUS
  <1>3. /\ created["Allowlist"] < MaxInstances
        /\ created' = [created EXCEPT !["Allowlist"] = @ + 1, !["AllowlistProxyAdmin"] = @ + 1,
                                      !["AllowlistImplementation"] = @ + 1]
    BY DEF DeployAllowlist, CanDeployAllowlist
  <1>4. /\ n \in 1..MaxInstances /\ n > created["Allowlist"] /\ n > created["AllowlistProxyAdmin"]
        /\ created["AllowlistProxyAdmin"] = created["Allowlist"]
    BY <1>1, <1>2, <1>3, InstancesAssumption, KindsAre DEF CreatedOK
  <1>. PICK list : list = <<"Allowlist", n>>
    OBVIOUS
  <1>. PICK admin : admin = <<"AllowlistProxyAdmin", n>>
    OBVIOUS
  <1>5. Fresh("Allowlist") = list /\ Fresh("AllowlistProxyAdmin") = admin
    BY <1>2, <1>4 DEF Fresh
  <1>6. list \in Deployed("Allowlist")' /\ admin \in Deployed("AllowlistProxyAdmin")'
    <2>1. created'["Allowlist"] = n /\ created'["AllowlistProxyAdmin"] = n
      BY <1>1, <1>2, <1>3, <1>4, KindsAre DEF CreatedOK
    <2>. QED BY <1>4, <2>1 DEF Deployed
  <1>7. \A role \in RolesOf["Allowlist"] : members'[<<list, role>>] = <<Multisig>>
    <2>. DEFINE s1 == <<list, "DEFAULT_ADMIN_ROLE">>
                s2 == <<list, "ALLOWLIST_ADMIN">>
                s3 == <<list, "ALLOWLIST_SETTER">>
                m1 == Granted(members, s1, Multisig)
                m2 == Granted(m1, s2, Multisig)
    <2>1. /\ s1 \in DOMAIN members /\ members[s1] = <<>>
          /\ s2 \in DOMAIN members /\ members[s2] = <<>>
          /\ s3 \in DOMAIN members /\ members[s3] = <<>>
      BY <1>4, FreshMembers, RolesAre
    <2>2. members' = Granted(m2, s3, Multisig)
      BY <1>5 DEF DeployAllowlist
    <2>3. s1 # s2 /\ s1 # s3 /\ s2 # s3
      OBVIOUS
    <2>. HIDE DEF s1, s2, s3
    <2>4. m1 = [members EXCEPT ![s1] = <<Multisig>>]
      BY <2>1, GrantFirst
    <2>5. s2 \in DOMAIN m1 /\ m1[s2] = <<>>
      BY ONLY <2>1, <2>3, <2>4
    <2>. HIDE DEF m1
    <2>6. m2 = [m1 EXCEPT ![s2] = <<Multisig>>]
      BY <2>5, GrantFirst
    <2>7. s3 \in DOMAIN m2 /\ m2[s3] = <<>>
      BY ONLY <2>1, <2>3, <2>4, <2>6
    <2>. HIDE DEF m2
    <2>8. members' = [m2 EXCEPT ![s3] = <<Multisig>>]
      BY <2>2, <2>7, GrantFirst
    <2>9. members'[s1] = <<Multisig>> /\ members'[s2] = <<Multisig>> /\ members'[s3] = <<Multisig>>
      BY ONLY <2>1, <2>3, <2>4, <2>6, <2>8
    <2>. QED BY <2>9, RolesAre DEF s1, s2, s3
  <1>8. /\ ref'[<<factory, "allowlistProxy">>] = list
        /\ ref'[<<factory, "allowlistProxyAdmin">>] = admin
        /\ ref'[<<list, "proxyAdmin">>] = admin
        /\ ref'[<<admin, "owner">>] = Multisig
    <2>1. /\ <<factory, "allowlistProxy">> \in FieldSlots /\ <<factory, "allowlistProxyAdmin">> \in FieldSlots
          /\ <<list, "proxyAdmin">> \in FieldSlots /\ <<admin, "owner">> \in FieldSlots
      <3>1. PICK k \in 1..MaxInstances : factory = <<"AllowlistFactory", k>>
        BY <1>1, DeployedIs, KindsAre
      <3>2. \A field \in FieldsOf["AllowlistFactory"] : <<factory, field>> \in FieldSlots
        BY <3>1, Slots, FieldsAre
      <3>3. \A field \in FieldsOf["Allowlist"] : <<list, field>> \in FieldSlots
        BY <1>4, Slots, FieldsAre
      <3>4. \A field \in FieldsOf["AllowlistProxyAdmin"] : <<admin, field>> \in FieldSlots
        BY <1>4, Slots, FieldsAre
      <3>. QED BY <3>2, <3>3, <3>4, FieldsAre
    <2>2. factory # list /\ factory # admin
      BY <1>1, DeployedIs, KindsAre
    <2>3. ref' = [ref EXCEPT ![<<factory, "allowlistProxy">>] = list,
                             ![<<factory, "allowlistProxyAdmin">>] = admin,
                             ![<<factory, "allowlistImplementation">>] = Fresh("AllowlistImplementation"),
                             ![<<list, "proxyAdmin">>] = admin,
                             ![<<list, "implementation">>] = Fresh("AllowlistImplementation"),
                             ![<<admin, "owner">>] = Multisig]
      BY <1>5 DEF DeployAllowlist
    <2>4. list # admin
      OBVIOUS
    <2>. QED BY ONLY <1>1, <2>1, <2>2, <2>3, <2>4
  <1>. QED BY <1>6, <1>7, <1>8

\* The call goes to a contract that is there.
LEMMA CalleeExists ==
  ASSUME DeploymentInv, NEW name \in {"AllowlistFactory", "USDYFactory", "USDYManager"}, Has(name)
  PROVE  At(name) \in Deployed(name) /\ Exists(At(name)) /\ At(name)[1] = name
  <1>1. At(name) \in Deployed(name) /\ name \in Kinds
    BY NamesHold, KindsAre
  <1>2. PICK n \in 1..MaxInstances : n <= created[name] /\ At(name) = <<name, n>>
    BY <1>1, DeployedIs DEF DeploymentInv, ChainInv
  <1>. QED BY <1>1, <1>2 DEF Exists, Deployed

LEMMA ListExecuted ==
  ASSUME CarefulState, DeploymentInv', StepsOK', NEW p \in DOMAIN proposals, SafeExecutes(p),
         p = AllowlistCall, next["task"] < 3, Has("AllowlistFactory")
  PROVE  PartsInv' /\ OrderInv'
  <1>. PICK factory : factory = At("AllowlistFactory")
    OBVIOUS
  <1>1. /\ Call(p.from, p)
        /\ DOMAIN proposals' \subseteq DOMAIN proposals
        /\ \A call : call # p => ProposalStays(call)
        /\ UNCHANGED <<deployments, local, next, step, running, undone>>
        /\ \A names : SameNames(names)
        /\ KindsGrow /\ NextGrows /\ TasksGoOn /\ MarksStay
    BY ExecuteFrame
  <1>2. /\ DeploymentInv /\ ChainInv /\ CreatedOK /\ StepsOK /\ network = "production" /\ StoreInv
        /\ AllowlistInv /\ OrderInv /\ TokenInv /\ ManagerInv /\ GrantsInv /\ ProcessInv /\ ControlOK
    BY DEF CarefulState, BaseInv, DeploymentInv, ChainInv
  <1>3. /\ p.from = Multisig /\ p.to = factory /\ p.fn = "deployAllowlist"
        /\ p.args = <<Multisig, Multisig>>
    BY DEF AllowlistCall, SafeCall
  <1>4. factory \in Deployed("AllowlistFactory") /\ Exists(factory)
    BY <1>2, CalleeExists
  <1>5. DeployAllowlist(Multisig, factory, Multisig, Multisig)
    BY <1>1, <1>3, <1>4 DEF Call, GrantRole, SetPricer, AddPrice, TransferOwnership, AcceptOwnership
  <1>6. PICK list, admin :
           /\ list \in Deployed("Allowlist")'
           /\ admin \in Deployed("AllowlistProxyAdmin")'
           /\ \A role \in RolesOf["Allowlist"] : members'[<<list, role>>] = <<Multisig>>
           /\ ref'[<<factory, "allowlistProxy">>] = list
           /\ ref'[<<factory, "allowlistProxyAdmin">>] = admin
           /\ ref'[<<list, "proxyAdmin">>] = admin
           /\ ref'[<<admin, "owner">>] = Multisig
    BY <1>4, <1>5, NewList
  <1>7. At("AllowlistFactory")' = factory /\ Has("AllowlistFactory")'
    BY <1>1, SameNameIs
  <1>8. List' = list /\ ListAdmin' = admin
    BY <1>6, <1>7 DEF List, ListAdmin, RefOf
  <1>9. HasList'
    <2>1. list # Zero
      <3>1. CreatedOK'
        BY DEF DeploymentInv, ChainInv
      <3>. QED BY <1>6, <3>1 DEF Deployed, Zero, External
    <2>2. Zero' = Zero
      BY DEF Zero
    <2>. QED BY <1>7, <1>8, <2>1, <2>2 DEF HasList
  <1>10. ~Past(2, 4) /\ ~Past(2, 5)
    <2>1. ~Past(2, 4)
      <3>. SUFFICES ASSUME running = "task", next["task"] = 2 PROVE FALSE
        BY <1>2 DEF Past, StepsOK, Tracks
      <3>. QED BY <1>2, NothingProposed
    <2>. QED BY <1>2, <2>1, PastIs
  <1>11. AllowlistInv'
    <2>1. ~Past(2, 4)' /\ ~Past(2, 5)'
      BY <1>1, <1>10 DEF MarksStay, ListMarksStay
    <2>2. Multisig' = Multisig
      BY DEF Multisig
    <2>. QED BY <1>6, <1>7, <1>8, <1>9, <2>1, <2>2 DEF AllowlistInv
  <1>12. ChangesOnly({factory, Fresh("Allowlist"), Fresh("AllowlistProxyAdmin")})
    BY <1>2, <1>5, DeployAllowlistChanges
  <1>13. \A kind \in Kinds \ {"AllowlistFactory"} :
           /\ kind \in DOMAIN FieldsOf => RefsStay(kind)
           /\ kind \in DOMAIN RolesOf => RolesStay(kind)
    <2>. SUFFICES ASSUME NEW kind \in Kinds \ {"AllowlistFactory"}
         PROVE  /\ kind \in DOMAIN FieldsOf => RefsStay(kind)
                /\ kind \in DOMAIN RolesOf => RolesStay(kind)
      OBVIOUS
    <2>1. factory \notin Deployed(kind)
      BY <1>2, <1>4, DeployedIs, KindsAre
    <2>2. Fresh("Allowlist") \notin Deployed(kind) /\ Fresh("AllowlistProxyAdmin") \notin Deployed(kind)
      BY <1>2, FreshIsNew, KindsAre
    <2>. QED BY <1>2, <1>12, <2>1, <2>2, KindsStay
  <1>14. /\ RefsStay("Blocklist") /\ RolesStay("Pricer") /\ RefsStay("USDYFactory") /\ RefsStay("USDY")
         /\ RolesStay("USDY") /\ RolesStay("USDYManager") /\ RefsStay("USDYManager")
    BY <1>13, FieldsAre, RolesAre, KindsAre
  <1>15. /\ ProposalStays(TokenCall) /\ LastCallsStay
    <2>1. \A call \in LastCalls \cup {TokenCall} : call.fn # "deployAllowlist"
      BY DEF LastCalls, ManagerCalls, OtherCalls, ManagerCall, TokenCall, MinterCall, PauserCall, PricerCall,
             SafeCall
    <2>. QED BY <1>1, <1>3, <2>1 DEF LastCallsStay
  <1>16. ListProceeds /\ TokenProceeds /\ GrantsProceed
    BY <1>1, <1>2, MarksProceed
  <1>17. StoreInv'
    BY <1>1, <1>2, <1>14, StoreStays
  <1>18. ProposalsInv'
    BY ExecuteKeepsProcess
  <1>19. TokenInv'
    BY <1>1, <1>2, <1>14, <1>15, <1>16, TokenStays
  <1>20. ManagerInv'
    <2>1. \A field \in DOMAIN ManagerRefs \cup {"rwa"} : \A c \in Deployed("USDYManager") :
            ref'[<<c, field>>] = ref[<<c, field>>]
      BY <1>14, FieldsAre, ManagerRefsAre DEF RefsStay
    <2>. QED BY <1>1, <1>2, <1>14, <2>1, ManagerStays
  <1>21. GrantsInv'
    BY <1>1, <1>2, <1>14, <1>15, <1>16, GrantsStay
  <1>22. OrderInv'
    <2>1. HasToken' <=> HasToken
      BY <1>1, <1>2, <1>14, TokenIsStays
    <2>. QED BY <1>1, <1>2, <2>1 DEF OrderInv, Past
  <1>. QED BY <1>11, <1>17, <1>18, <1>19, <1>20, <1>21, <1>22 DEF PartsInv

\* The factory's new token.
LEMMA NewToken ==
  ASSUME CarefulState, NEW factory \in Deployed("USDYFactory"), NEW lists,
         DeployUSDY(Multisig, factory, lists), DeploymentInv'
  PROVE  \E token, admin :
           /\ token \in Deployed("USDY")'
           /\ members'[<<token, "MINTER_ROLE">>] = <<>>
           /\ members'[<<token, "PAUSER_ROLE">>] = <<Multisig>>
           /\ ref'[<<factory, "usdyProxy">>] = token
           /\ ref'[<<factory, "usdyProxyAdmin">>] = admin
           /\ ref'[<<token, "proxyAdmin">>] = admin
           /\ ref'[<<token, "blocklist">>] = lists[1]
           /\ ref'[<<token, "allowlist">>] = lists[2]
           /\ ref'[<<token, "sanctionsList">>] = lists[3]
  <1>1. ChainInv /\ CreatedOK /\ DOMAIN ref = FieldSlots
    BY DomainsAre DEF CarefulState, DeploymentInv, ChainInv
  <1>2. PICK n : n = created["USDY"] + 1
    OBVIOUS
  <1>3. /\ created["USDY"] < MaxInstances
        /\ created' = [created EXCEPT !["USDY"] = @ + 1, !["USDYProxyAdmin"] = @ + 1,
                                      !["USDYImplementation"] = @ + 1]
    BY DEF DeployUSDY, CanDeployUSDY
  <1>4. /\ n \in 1..MaxInstances /\ n > created["USDY"] /\ created["USDYProxyAdmin"] = created["USDY"]
    BY <1>1, <1>2, <1>3, InstancesAssumption, KindsAre DEF CreatedOK
  <1>. PICK token : token = <<"USDY", n>>
    OBVIOUS
  <1>. PICK admin : admin = <<"USDYProxyAdmin", n>>
    OBVIOUS
  <1>5. Fresh("USDY") = token /\ Fresh("USDYProxyAdmin") = admin
    BY <1>2, <1>4 DEF Fresh
  <1>6. token \in Deployed("USDY")'
    <2>1. created'["USDY"] = n
      BY <1>1, <1>2, <1>3, <1>4, KindsAre DEF CreatedOK
    <2>. QED BY <1>4, <2>1 DEF Deployed
  <1>7. PICK k \in 1..MaxInstances : factory = <<"USDYFactory", k>>
    BY <1>1, DeployedIs, KindsAre
  <1>8. members'[<<token, "MINTER_ROLE">>] = <<>> /\ members'[<<token, "PAUSER_ROLE">>] = <<Multisig>>
    <2>1. members' = RolesAfterDeployUSDY(token, factory, Multisig)
      BY <1>5 DEF DeployUSDY
    <2>2. factory # Multisig
      BY <1>7 DEF Multisig, External
    <2>3. HandedOver(members', token, Multisig)
      BY <1>1, <1>4, <2>1, <2>2, TokenHandedOver
    <2>. QED BY <2>3 DEF HandedOver
  <1>9. /\ ref'[<<factory, "usdyProxy">>] = token
        /\ ref'[<<factory, "usdyProxyAdmin">>] = admin
        /\ ref'[<<token, "proxyAdmin">>] = admin
        /\ ref'[<<token, "blocklist">>] = lists[1]
        /\ ref'[<<token, "allowlist">>] = lists[2]
        /\ ref'[<<token, "sanctionsList">>] = lists[3]
    <2>1. /\ <<factory, "usdyProxy">> \in FieldSlots /\ <<factory, "usdyProxyAdmin">> \in FieldSlots
          /\ <<token, "proxyAdmin">> \in FieldSlots /\ <<token, "blocklist">> \in FieldSlots
          /\ <<token, "allowlist">> \in FieldSlots /\ <<token, "sanctionsList">> \in FieldSlots
      <3>1. \A field \in FieldsOf["USDYFactory"] : <<factory, field>> \in FieldSlots
        BY <1>7, Slots, FieldsAre
      <3>2. \A field \in FieldsOf["USDY"] : <<token, field>> \in FieldSlots
        BY <1>4, Slots, FieldsAre
      <3>. QED BY <3>1, <3>2, FieldsAre
    <2>2. factory # token /\ factory # admin /\ token # admin
      BY <1>7
    <2>3. ref' = [ref EXCEPT ![<<factory, "usdyProxy">>] = token,
                             ![<<factory, "usdyProxyAdmin">>] = admin,
                             ![<<factory, "usdyImplementation">>] = Fresh("USDYImplementation"),
                             ![<<token, "proxyAdmin">>] = admin,
                             ![<<token, "implementation">>] = Fresh("USDYImplementation"),
                             ![<<token, "blocklist">>] = lists[1],
                             ![<<token, "allowlist">>] = lists[2],
                             ![<<token, "sanctionsList">>] = lists[3],
                             ![<<admin, "owner">>] = Multisig]
      BY <1>5 DEF DeployUSDY
    <2>. QED BY ONLY <1>1, <2>1, <2>2, <2>3
  <1>. QED BY <1>6, <1>8, <1>9

\* The token is there: not before the Safe was asked for it by the task that has to.
LEMMA TokenExecuted ==
  ASSUME CarefulState, DeploymentInv', StepsOK', NEW p \in DOMAIN proposals, SafeExecutes(p),
         p = TokenCall, next["task"] \in {3, 4}, Has("USDYFactory"), Has("Blocklist"), Has("Allowlist")
  PROVE  PartsInv' /\ OrderInv'
  <1>. PICK factory : factory = At("USDYFactory")
    OBVIOUS
  <1>. PICK lists : lists = <<At("Blocklist"), At("Allowlist"), External(SANCTION_ADDRESS)>>
    OBVIOUS
  <1>1. /\ Call(p.from, p)
        /\ DOMAIN proposals' \subseteq DOMAIN proposals
        /\ \A call : call # p => ProposalStays(call)
        /\ UNCHANGED <<deployments, local, next, step, running, undone>>
        /\ \A names : SameNames(names)
        /\ KindsGrow /\ NextGrows /\ TasksGoOn /\ MarksStay
    BY ExecuteFrame
  <1>2. /\ DeploymentInv /\ ChainInv /\ CreatedOK /\ StepsOK /\ network = "production" /\ StoreInv
        /\ AllowlistInv /\ OrderInv /\ TokenInv /\ ManagerInv /\ GrantsInv /\ ProcessInv /\ ControlOK
    BY DEF CarefulState, BaseInv, DeploymentInv, ChainInv
  <1>3. p.from = Multisig /\ p.to = factory /\ p.fn = "deployUSDY" /\ p.args = lists
    BY DEF TokenCall, SafeCall
  <1>4. factory \in Deployed("USDYFactory") /\ Exists(factory)
    BY <1>2, CalleeExists
  <1>5. DeployUSDY(Multisig, factory, lists)
    BY <1>1, <1>3, <1>4 DEF Call, GrantRole, SetPricer, AddPrice, TransferOwnership, AcceptOwnership
  <1>6. PICK token, admin :
           /\ token \in Deployed("USDY")'
           /\ members'[<<token, "MINTER_ROLE">>] = <<>>
           /\ members'[<<token, "PAUSER_ROLE">>] = <<Multisig>>
           /\ ref'[<<factory, "usdyProxy">>] = token
           /\ ref'[<<factory, "usdyProxyAdmin">>] = admin
           /\ ref'[<<token, "proxyAdmin">>] = admin
           /\ ref'[<<token, "blocklist">>] = lists[1]
           /\ ref'[<<token, "allowlist">>] = lists[2]
           /\ ref'[<<token, "sanctionsList">>] = lists[3]
    BY ONLY <1>4, <1>5, NewToken, CarefulState, DeploymentInv'
  <1>7. /\ \A name : At(name)' = At(name) /\ (Has(name)' <=> Has(name))
    <2>1. Absent' = Absent
      BY DEF Absent
    <2>. QED BY <1>1, <2>1 DEF At, Has
  <1>8. Token' = token /\ TokenAdmin' = admin
    BY <1>6, <1>7 DEF Token, TokenAdmin, RefOf
  <1>9. HasToken'
    <2>1. token # Zero
      <3>1. CreatedOK'
        BY DEF DeploymentInv, ChainInv
      <3>. QED BY <1>6, <3>1 DEF Deployed, Zero, External
    <2>2. Zero' = Zero
      BY DEF Zero
    <2>. QED BY <1>7, <1>8, <2>1, <2>2 DEF HasToken
  <1>10. /\ lists[1] = At("Blocklist") /\ lists[2] = At("Allowlist")
         /\ lists[3] = External(SANCTION_ADDRESS)
    OBVIOUS
  <1>11. /\ ~Past(4, 4) /\ ~Past(4, 5) /\ ~Past(5, 6) /\ next["task"] # 5
         /\ next["task"] = 4 => Past(3, 5)
    <2>1. ~Past(4, 4)
      <3>. SUFFICES ASSUME running = "task", next["task"] = 4 PROVE FALSE
        BY <1>2 DEF Past, StepsOK, Tracks
      <3>. QED BY <1>2, NothingProposed
    <2>2. 6 \in 6..13
      OBVIOUS
    <2>. QED BY <1>2, <2>1, <2>2, PastIs
  <1>12. TokenInv'
    <2>1. ~Past(4, 4)' /\ ~Past(4, 5)'
      BY <1>1, <1>11 DEF MarksStay, TokenMarksStay
    <2>. QED BY <1>6, <1>7, <1>8, <1>9, <1>10, <2>1 DEF TokenInv
  <1>13. ~Has("USDYManager")
    BY <1>2 DEF ManagerInv
  <1>14. ManagerInv'
    BY <1>7, <1>13 DEF ManagerInv
  <1>15. GrantsInv'
    <2>1. ~Past(5, 6)'
      BY <1>1, <1>11 DEF MarksStay, GrantMarksStay
    <2>. QED BY <1>6, <1>7, <1>8, <1>13, <2>1, NoGrants
  <1>16. OrderInv'
    <2>1. Past(3, 5) \/ (next["task"] = 3 /\ "task" \in undone)
      BY <1>2, <1>11 DEF OrderInv
    <2>. QED BY <1>1, <2>1 DEF OrderInv, Past
  <1>17. ChangesOnly({factory, Fresh("USDY"), Fresh("USDYProxyAdmin")})
    BY <1>2, <1>5, DeployUSDYChanges
  <1>18. \A kind \in Kinds \ {"USDYFactory"} :
           /\ kind \in DOMAIN FieldsOf => RefsStay(kind)
           /\ kind \in DOMAIN RolesOf => RolesStay(kind)
    <2>. SUFFICES ASSUME NEW kind \in Kinds \ {"USDYFactory"}
         PROVE  /\ kind \in DOMAIN FieldsOf => RefsStay(kind)
                /\ kind \in DOMAIN RolesOf => RolesStay(kind)
      OBVIOUS
    <2>1. factory \notin Deployed(kind)
      BY <1>2, <1>4, DeployedIs, KindsAre
    <2>2. Fresh("USDY") \notin Deployed(kind) /\ Fresh("USDYProxyAdmin") \notin Deployed(kind)
      BY <1>2, FreshIsNew, KindsAre
    <2>. QED BY <1>2, <1>17, <2>1, <2>2, KindsStay
  <1>19. /\ RefsStay("Blocklist") /\ RolesStay("Pricer") /\ RefsStay("AllowlistFactory")
         /\ RefsStay("Allowlist") /\ RefsStay("AllowlistProxyAdmin") /\ RolesStay("Allowlist")
    BY <1>18, FieldsAre, RolesAre, KindsAre
  <1>20. ProposalStays(AllowlistCall)
    <2>1. AllowlistCall.fn # "deployUSDY"
      BY DEF AllowlistCall, SafeCall
    <2>. QED BY <1>1, <1>3, <2>1
  <1>21. ListProceeds
    BY <1>1, <1>2, MarksProceed
  <1>22. StoreInv'
    BY <1>1, <1>2, <1>19, StoreStays
  <1>23. ProposalsInv'
    BY ExecuteKeepsProcess
  <1>24. AllowlistInv'
    BY <1>1, <1>2, <1>19, <1>20, <1>21, AllowlistStays
  <1>. QED BY <1>12, <1>14, <1>15, <1>16, <1>22, <1>23, <1>24 DEF PartsInv

\* A role that is granted once more stays as it is.
LEMMA GrantedFirst ==
  ASSUME NEW m, NEW slot \in DOMAIN m, NEW a, m[slot] = <<>> \/ m[slot] = <<a>>
  PROVE  Granted(m, slot, a)[slot] = <<a>>
  <1>1. CASE m[slot] = <<>>
    BY <1>1, GrantFirst
  <1>2. CASE m[slot] = <<a>>
    <2>1. a \in Range(m[slot])
      BY <1>2, RangesAre
    <2>. QED BY <1>2, <2>1 DEF Granted
  <1>. QED BY <1>1, <1>2

LEMMA GrantedSecond ==
  ASSUME NEW m, NEW slot \in DOMAIN m, NEW a, NEW b, a # b, m[slot] = <<a>> \/ m[slot] = <<a, b>>
  PROVE  Granted(m, slot, b)[slot] = <<a, b>>
  <1>1. CASE m[slot] = <<a>>
    BY <1>1, GrantSecond
  <1>2. CASE m[slot] = <<a, b>>
    <2>1. b \in Range(m[slot])
      BY <1>2, RangesAre
    <2>. QED BY <1>2, <2>1 DEF Granted
  <1>. QED BY <1>1, <1>2

\* What the last transactions go to.
LEMMA LastCallees ==
  ASSUME CarefulState, next["task"] > 4, Has("USDYManager")
  PROVE  /\ HasToken /\ At("USDY") = Token /\ Token \in Deployed("USDY") /\ Exists(Token)
         /\ Has("USDYFactory")
         /\ At("USDYManager") \in Deployed("USDYManager") /\ Exists(At("USDYManager"))
         /\ \A role : <<Token, role>> # <<At("USDYManager"), role>>
         /\ Token[1] = "USDY" /\ At("USDYManager")[1] = "USDYManager"
         /\ <<Token, "MINTER_ROLE">> \in DOMAIN members
         /\ <<Token, "PAUSER_ROLE">> \in DOMAIN members
         /\ \A role \in RolesOf["USDYManager"] : <<At("USDYManager"), role>> \in DOMAIN members
         /\ \A field \in FieldsOf["USDYManager"] : <<At("USDYManager"), field>> \in DOMAIN ref
  <1>1. /\ DeploymentInv /\ StepsOK /\ CreatedOK /\ TokenInv
        /\ DOMAIN ref = FieldSlots /\ DOMAIN members = RoleSlots
    BY DomainsAre DEF CarefulState, BaseInv, DeploymentInv, ChainInv
  <1>2. HasToken /\ At("USDY") = Token /\ Token \in Deployed("USDY") /\ Has("USDYFactory")
    BY <1>1, PastIs, NamesHold DEF TokenInv, HasToken
  <1>3. /\ At("USDYManager") \in Deployed("USDYManager") /\ Exists(At("USDYManager"))
        /\ At("USDYManager")[1] = "USDYManager"
    BY <1>1, CalleeExists
  <1>4. PICK n \in 1..MaxInstances : n <= created["USDY"] /\ Token = <<"USDY", n>>
    BY <1>1, <1>2, DeployedIs, KindsAre
  <1>5. PICK k \in 1..MaxInstances : At("USDYManager") = <<"USDYManager", k>>
    BY <1>1, <1>3, DeployedIs, KindsAre
  <1>6. Exists(Token) /\ Token[1] = "USDY"
    BY <1>1, <1>2, <1>4, KindsAre DEF Exists, Deployed
  <1>7. \A role \in RolesOf["USDY"] : <<Token, role>> \in DOMAIN members
    BY <1>1, <1>4, Slots, RolesAre
  <1>8. /\ \A role \in RolesOf["USDYManager"] : <<At("USDYManager"), role>> \in DOMAIN members
        /\ \A field \in FieldsOf["USDYManager"] : <<At("USDYManager"), field>> \in DOMAIN ref
    BY <1>1, <1>5, Slots, RolesAre, FieldsAre
  <1>9. \A role : <<Token, role>> # <<At("USDYManager"), role>>
    BY <1>4, <1>5
  <1>. QED BY <1>2, <1>3, <1>6, <1>7, <1>8, <1>9, RolesAre

ManagerRoles == {"PRICE_ID_SETTER_ROLE", "TIMESTAMP_SETTER_ROLE", "RELAYER_ROLE", "PAUSER_ROLE",
                 "LIST_CONFIGURER_ROLE"}

\* What each of them does.
GivesMinter(p) == /\ p = MinterCall /\ UNCHANGED ref
                  /\ members' = Granted(members, <<Token, "MINTER_ROLE">>, At("USDYManager"))
GivesPauser(p) == /\ p = PauserCall /\ UNCHANGED ref
                  /\ members' = Granted(members, <<Token, "PAUSER_ROLE">>, PAUSER)
GivesRole(p, role) ==
  /\ UNCHANGED ref
  /\ \E account : /\ members' = Granted(members, <<At("USDYManager"), role>>, account)
                  /\ p = SafeCall("USDYManager", "grantRole", role, <<account>>)
                  /\ role \in DOMAIN GrantSteps => account = Multisig /\ p = ManagerCall(role)
SetsPricer(p) ==
  /\ p = PricerCall /\ UNCHANGED members
  /\ ref' = [ref EXCEPT ![<<At("USDYManager"), "pricer">>] = At("USDY_Pricer")]

LEMMA LastCallIs ==
  ASSUME CarefulState, DeploymentInv', NEW p \in DOMAIN proposals, SafeExecutes(p),
         p \in LastCalls, next["task"] > 4, Has("USDYManager")
  PROVE  /\ UNCHANGED created
         /\ \/ GivesMinter(p) \/ GivesPauser(p) \/ SetsPricer(p)
            \/ \E role \in ManagerRoles : GivesRole(p, role)
  <1>1. Call(p.from, p)
    BY DEF SafeExecutes
  <1>2. /\ At("USDY") = Token /\ Exists(Token) /\ Exists(At("USDYManager"))
    BY LastCallees
  <1>3. ASSUME p.fn = "grantRole", Exists(p.to)
        PROVE  /\ members' = Granted(members, <<p.to, p.role>>, p.args[1])
               /\ UNCHANGED <<created, ref>>
    BY <1>1, <1>3 DEF Call, GrantRole, SetPricer, AddPrice, TransferOwnership, AcceptOwnership
  <1>4. CASE p = MinterCall
    <2>1. /\ p.fn = "grantRole" /\ p.to = Token /\ p.role = "MINTER_ROLE"
          /\ p.args[1] = At("USDYManager")
      BY <1>2, <1>4 DEF MinterCall, SafeCall
    <2>. QED BY <1>2, <1>3, <1>4, <2>1 DEF GivesMinter
  <1>5. CASE p = PauserCall
    <2>1. /\ p.fn = "grantRole" /\ p.to = Token /\ p.role = "PAUSER_ROLE"
          /\ p.args[1] = PAUSER
      BY <1>2, <1>5 DEF PauserCall, SafeCall
    <2>. QED BY <1>2, <1>3, <1>5, <2>1 DEF GivesPauser
  <1>6. CASE p = PricerCall
    <2>1. /\ p.fn = "setPricer" /\ p.to = At("USDYManager") /\ p.args[1] = At("USDY_Pricer")
      BY <1>6 DEF PricerCall, SafeCall
    <2>2. SetPricer(p)
      BY <1>1, <1>2, <2>1 DEF Call, GrantRole, SetPricer, AddPrice, TransferOwnership, AcceptOwnership
    <2>. QED BY <1>6, <2>1, <2>2 DEF SetsPricer, SetPricer
  <1>7. ASSUME NEW role, NEW account, p = SafeCall("USDYManager", "grantRole", role, <<account>>),
               role \in DOMAIN GrantSteps => account = Multisig
        PROVE  UNCHANGED created /\ GivesRole(p, role)
    <2>1. /\ p.fn = "grantRole" /\ p.to = At("USDYManager") /\ p.role = role
          /\ p.args[1] = account
      BY <1>7 DEF SafeCall
    <2>2. role \in DOMAIN GrantSteps => p = ManagerCall(role)
      BY <1>7 DEF ManagerCall
    <2>. QED BY <1>2, <1>3, <1>7, <2>1, <2>2 DEF GivesRole
  <1>8. CASE \E role \in DOMAIN GrantSteps : p = ManagerCall(role)
    <2>1. PICK role \in DOMAIN GrantSteps : p = ManagerCall(role)
      BY <1>8
    <2>2. UNCHANGED created /\ GivesRole(p, role)
      BY <1>7, <2>1 DEF ManagerCall
    <2>. QED BY <2>2, GrantStepsAre DEF ManagerRoles
  <1>9. CASE p \in OtherCalls
    <2>1. CASE p = SafeCall("USDYManager", "grantRole", "PAUSER_ROLE", <<PAUSER>>)
      BY <1>7, <2>1, GrantStepsAre DEF ManagerRoles
    <2>2. CASE p = SafeCall("USDYManager", "grantRole", "LIST_CONFIGURER_ROLE", <<Multisig>>)
      BY <1>7, <2>2, GrantStepsAre DEF ManagerRoles
    <2>. QED BY <1>9, <2>1, <2>2 DEF OtherCalls, ManagerCall
  <1>. QED BY <1>4, <1>5, <1>6, <1>8, <1>9 DEF LastCalls, ManagerCalls

LEMMA LastFrame ==
  ASSUME CarefulState, DeploymentInv', NEW p \in DOMAIN proposals, SafeExecutes(p),
         p \in LastCalls, next["task"] > 4, Has("USDYManager")
  PROVE  /\ RefsStay("Blocklist") /\ RefsStay("USDYFactory") /\ RefsStay("USDY")
         /\ RefsStay("AllowlistFactory") /\ RefsStay("Allowlist") /\ RefsStay("AllowlistProxyAdmin")
         /\ RolesStay("Pricer") /\ RolesStay("Allowlist")
         /\ \A field \in DOMAIN ManagerRefs \cup {"rwa"} : \A c \in Deployed("USDYManager") :
              ref'[<<c, field>>] = ref[<<c, field>>]
         /\ \A role \in {"DEFAULT_ADMIN_ROLE", "MANAGER_ADMIN", "PAUSER_ADMIN"} :
              \A c \in Deployed("USDYManager") : members'[<<c, role>>] = members[<<c, role>>]
  <1>. PICK token : token = Token
    OBVIOUS
  <1>. PICK manager : manager = At("USDYManager")
    OBVIOUS
  <1>1. /\ DeploymentInv /\ CreatedOK /\ DOMAIN ref = FieldSlots /\ DOMAIN members = RoleSlots
    BY DomainsAre DEF CarefulState, DeploymentInv, ChainInv
  <1>2. /\ token[1] = "USDY" /\ manager[1] = "USDYManager"
        /\ manager \in Deployed("USDYManager")
    BY LastCallees
  <1>3. UNCHANGED ref \/ \E x : ref' = [ref EXCEPT ![<<manager, "pricer">>] = x]
    BY LastCallIs DEF GivesMinter, GivesPauser, SetsPricer, GivesRole
  <1>4. \/ UNCHANGED members
        \/ \E account, role :
             /\ members' = Granted(members, <<token, role>>, account)
        \/ \E account : \E role \in ManagerRoles :
             /\ members' = Granted(members, <<manager, role>>, account)
    BY LastCallIs DEF GivesMinter, GivesPauser, SetsPricer, GivesRole
  <1>5. \A slot \in FieldSlots : slot[1] # manager \/ slot[2] # "pricer" => ref'[slot] = ref[slot]
    BY <1>1, <1>3
  <1>6. \A slot \in RoleSlots :
          /\ slot[1] \notin {token, manager} => members'[slot] = members[slot]
          /\ slot[1] # token /\ slot[2] \notin ManagerRoles => members'[slot] = members[slot]
    <2>. SUFFICES ASSUME NEW slot \in RoleSlots
         PROVE  /\ slot[1] \notin {token, manager} => members'[slot] = members[slot]
                /\ slot[1] # token /\ slot[2] \notin ManagerRoles => members'[slot] = members[slot]
      OBVIOUS
    <2>1. CASE \E account, role : members' = Granted(members, <<token, role>>, account)
      BY <1>1, <2>1, GrantedAt
    <2>2. CASE \E account : \E role \in ManagerRoles : members' = Granted(members, <<manager, role>>, account)
      BY <1>1, <2>2, GrantedAt
    <2>. QED BY <1>4, <2>1, <2>2
  <1>7. ASSUME NEW kind \in DOMAIN FieldsOf, NEW c \in Deployed(kind), NEW field \in FieldsOf[kind],
               kind # "USDYManager" \/ field # "pricer"
        PROVE  ref'[<<c, field>>] = ref[<<c, field>>]
    <2>1. kind \in Kinds
      BY DEF Kinds
    <2>2. PICK n \in 1..MaxInstances : c = <<kind, n>>
      BY <1>1, <2>1, DeployedIs
    <2>3. <<c, field>> \in FieldSlots
      BY <2>2, Slots
    <2>4. kind # "USDYManager" => c # manager
      BY <1>2, <2>2
    <2>. QED BY <1>5, <1>7, <2>3, <2>4
  <1>8. ASSUME NEW kind \in DOMAIN RolesOf, NEW c \in Deployed(kind), NEW role \in RolesOf[kind],
               kind # "USDY", kind # "USDYManager" \/ role \notin ManagerRoles
        PROVE  members'[<<c, role>>] = members[<<c, role>>]
    <2>1. kind \in Kinds
      BY DEF Kinds
    <2>2. PICK n \in 1..MaxInstances : c = <<kind, n>>
      BY <1>1, <2>1, DeployedIs
    <2>3. <<c, role>> \in RoleSlots
      BY <2>2, Slots
    <2>4. c # token /\ (kind # "USDYManager" => c # manager)
      BY <1>2, <1>8, <2>2
    <2>. QED BY <1>6, <1>8, <2>3, <2>4
  <1>9. /\ RefsStay("Blocklist") /\ RefsStay("USDYFactory") /\ RefsStay("USDY")
        /\ RefsStay("AllowlistFactory") /\ RefsStay("Allowlist") /\ RefsStay("AllowlistProxyAdmin")
    <2>1. \A kind \in DOMAIN FieldsOf \ {"USDYManager"} : RefsStay(kind)
      BY <1>7 DEF RefsStay
    <2>. QED BY <2>1, FieldsAre
  <1>10. RolesStay("Pricer") /\ RolesStay("Allowlist")
    <2>1. \A kind \in DOMAIN RolesOf \ {"USDYManager", "USDY"} : RolesStay(kind)
      BY <1>8 DEF RolesStay
    <2>. QED BY <2>1, RolesAre
  <1>11. \A field \in DOMAIN ManagerRefs \cup {"rwa"} : \A c \in Deployed("USDYManager") :
           ref'[<<c, field>>] = ref[<<c, field>>]
    <2>1. \A field \in DOMAIN ManagerRefs \cup {"rwa"} : field \in FieldsOf["USDYManager"] /\ field # "pricer"
      BY FieldsAre, ManagerRefsAre
    <2>. QED BY <1>7, <2>1, FieldsAre
  <1>12. \A role \in {"DEFAULT_ADMIN_ROLE", "MANAGER_ADMIN", "PAUSER_ADMIN"} :
           \A c \in Deployed("USDYManager") : members'[<<c, role>>] = members[<<c, role>>]
    <2>1. \A role \in {"DEFAULT_ADMIN_ROLE", "MANAGER_ADMIN", "PAUSER_ADMIN"} :
            role \in RolesOf["USDYManager"] /\ role \notin ManagerRoles
      BY RolesAre DEF ManagerRoles
    <2>. QED BY <1>8, <2>1, RolesAre
  <1>. QED BY <1>9, <1>10, <1>11, <1>12

\* A role is given when its call is executed, and no other changes.
RoleGoesOn(m, m2, after, call, p) ==
  \/ m2 = m /\ call # p
  \/ m2 = after

LEMMA LastRoles ==
  ASSUME CarefulState, DeploymentInv', NEW p \in DOMAIN proposals, SafeExecutes(p),
         p \in LastCalls, next["task"] > 4, Has("USDYManager"), Has("USDY_Pricer")
  PROVE  /\ RoleGoesOn(members[<<Token, "MINTER_ROLE">>], members'[<<Token, "MINTER_ROLE">>],
                       <<At("USDYManager")>>, MinterCall, p)
         /\ RoleGoesOn(members[<<Token, "PAUSER_ROLE">>], members'[<<Token, "PAUSER_ROLE">>],
                       <<Multisig, PAUSER>>, PauserCall, p)
         /\ \A role \in DOMAIN GrantSteps :
              RoleGoesOn(MembersOf("USDYManager", role), members'[<<At("USDYManager"), role>>],
                         <<Multisig>>, ManagerCall(role), p)
         /\ p # PricerCall => UNCHANGED ref
         /\ p = PricerCall => ref'[<<At("USDYManager"), "pricer">>] = At("USDY_Pricer")
  <1>. PICK token : token = Token
    OBVIOUS
  <1>. PICK manager : manager = At("USDYManager")
    OBVIOUS
  <1>1. /\ token[1] = "USDY" /\ manager[1] = "USDYManager"
        /\ <<token, "MINTER_ROLE">> \in DOMAIN members
        /\ <<token, "PAUSER_ROLE">> \in DOMAIN members
        /\ \A role \in DOMAIN GrantSteps : <<manager, role>> \in DOMAIN members
        /\ <<manager, "pricer">> \in DOMAIN ref
        /\ HasToken /\ Has("USDYFactory")
    BY LastCallees, GrantStepsAre, RolesAre, FieldsAre
  <1>2. /\ members[<<token, "MINTER_ROLE">>] = <<>> \/ members[<<token, "MINTER_ROLE">>] = <<manager>>
        /\ \/ members[<<token, "PAUSER_ROLE">>] = <<Multisig>>
           \/ members[<<token, "PAUSER_ROLE">>] = <<Multisig, PAUSER>>
        /\ \A role \in DOMAIN GrantSteps :
             members[<<manager, role>>] = <<>> \/ members[<<manager, role>>] = <<Multisig>>
    BY <1>1 DEF CarefulState, GrantsInv, Granting, MembersOf
  <1>3. token # manager
    BY <1>1
  <1>4. /\ MinterCall # PauserCall /\ MinterCall # PricerCall /\ PauserCall # PricerCall
        /\ \A role \in DOMAIN GrantSteps :
             /\ ManagerCall(role).fn = "grantRole" /\ ManagerCall(role).to = manager
             /\ ManagerCall(role).role = role
        /\ MinterCall.to = token /\ PauserCall.to = token
        /\ PricerCall.fn = "setPricer"
    BY LastCallees DEF MinterCall, PauserCall, PricerCall, ManagerCall, SafeCall
  <1>5. \A role \in ManagerRoles : GivesRole(p, role) =>
          p.to = manager /\ p.role = role /\ p.fn = "grantRole"
    BY DEF GivesRole, SafeCall
  <1>6. RoleGoesOn(members[<<token, "MINTER_ROLE">>], members'[<<token, "MINTER_ROLE">>],
                   <<manager>>, MinterCall, p)
    <2>. PICK slot : slot = <<token, "MINTER_ROLE">>
      OBVIOUS
    <2>1. CASE GivesMinter(p)
      <3>1. members'[slot] = <<manager>>
        BY <1>1, <1>2, <2>1, GrantedFirst DEF GivesMinter
      <3>. QED BY <3>1 DEF RoleGoesOn
    <2>2. CASE GivesPauser(p)
      <3>1. members'[slot] = members[slot] /\ p # MinterCall
        BY <1>1, <1>4, <2>2, GrantedAt DEF GivesPauser
      <3>. QED BY <3>1 DEF RoleGoesOn
    <2>3. CASE SetsPricer(p)
      BY <1>4, <2>3 DEF SetsPricer, RoleGoesOn
    <2>4. CASE \E role \in ManagerRoles : GivesRole(p, role)
      <3>1. p.to = manager
        BY <1>5, <2>4
      <3>2. members'[slot] = members[slot]
        BY <1>1, <1>3, <2>4, GrantedAt DEF GivesRole
      <3>. QED BY <1>3, <1>4, <3>1, <3>2 DEF RoleGoesOn
    <2>. QED BY <2>1, <2>2, <2>3, <2>4, LastCallIs
  <1>7. RoleGoesOn(members[<<token, "PAUSER_ROLE">>], members'[<<token, "PAUSER_ROLE">>],
                   <<Multisig, PAUSER>>, PauserCall, p)
    <2>. PICK slot : slot = <<token, "PAUSER_ROLE">>
      OBVIOUS
    <2>1. CASE GivesMinter(p)
      <3>1. members'[slot] = members[slot] /\ p # PauserCall
        BY <1>1, <1>4, <2>1, GrantedAt DEF GivesMinter
      <3>. QED BY <3>1 DEF RoleGoesOn
    <2>2. CASE GivesPauser(p)
      <3>. PICK a : a = Multisig
        OBVIOUS
      <3>. PICK b : b = PAUSER
        OBVIOUS
      <3>1. /\ slot \in DOMAIN members /\ (members[slot] = <<a>> \/ members[slot] = <<a, b>>)
            /\ members' = Granted(members, slot, b) /\ a # b
        BY <1>1, <1>2, <2>2, MultisigIs DEF GivesPauser
      <3>2. members'[slot] = <<a, b>>
        <4>. PICK m : m = members
          OBVIOUS
        <4>1. slot \in DOMAIN m /\ (m[slot] = <<a>> \/ m[slot] = <<a, b>>) /\ a # b
          BY <3>1
        <4>2. Granted(m, slot, b)[slot] = <<a, b>>
          <5>1. CASE m[slot] = <<a>>
            BY <4>1, <5>1, GrantSecond
          <5>2. CASE m[slot] = <<a, b>>
            <6>1. b \in Range(m[slot])
              BY <5>2, RangesAre
            <6>. QED BY <5>2, <6>1 DEF Granted
          <5>. QED BY <4>1, <5>1, <5>2
        <4>. QED BY <3>1, <4>2
      <3>3. members'[slot] = <<Multisig, PAUSER>>
        BY <3>2
      <3>. QED BY <3>3 DEF RoleGoesOn
    <2>3. CASE SetsPricer(p)
      BY <1>4, <2>3 DEF SetsPricer, RoleGoesOn
    <2>4. CASE \E role \in ManagerRoles : GivesRole(p, role)
      <3>1. p.to = manager
        BY <1>5, <2>4
      <3>2. members'[slot] = members[slot]
        BY <1>1, <1>3, <2>4, GrantedAt DEF GivesRole
      <3>. QED BY <1>3, <1>4, <3>1, <3>2 DEF RoleGoesOn
    <2>. QED BY <2>1, <2>2, <2>3, <2>4, LastCallIs
  <1>8. ASSUME NEW role \in DOMAIN GrantSteps
        PROVE  RoleGoesOn(members[<<manager, role>>], members'[<<manager, role>>],
                          <<Multisig>>, ManagerCall(role), p)
    <2>. PICK slot : slot = <<manager, role>>
      OBVIOUS
    <2>1. CASE GivesMinter(p)
      <3>1. members'[slot] = members[slot] /\ p # ManagerCall(role)
        BY <1>1, <1>3, <1>4, <2>1, GrantedAt DEF GivesMinter
      <3>. QED BY <3>1 DEF RoleGoesOn
    <2>2. CASE GivesPauser(p)
      <3>1. members'[slot] = members[slot] /\ p # ManagerCall(role)
        BY <1>1, <1>3, <1>4, <2>2, GrantedAt DEF GivesPauser
      <3>. QED BY <3>1 DEF RoleGoesOn
    <2>3. CASE SetsPricer(p)
      BY <1>4, <2>3 DEF SetsPricer, RoleGoesOn
    <2>4. CASE GivesRole(p, role)
      <3>1. members' = Granted(members, slot, Multisig)
        BY <2>4 DEF GivesRole
      <3>2. slot \in DOMAIN members /\ (members[slot] = <<>> \/ members[slot] = <<Multisig>>)
        BY <1>1, <1>2
      <3>3. members'[slot] = <<Multisig>>
        BY ONLY <3>1, <3>2, GrantedFirst
      <3>. QED BY <3>3 DEF RoleGoesOn
    <2>5. CASE \E other \in ManagerRoles : other # role /\ GivesRole(p, other)
      <3>1. PICK other \in ManagerRoles : other # role /\ GivesRole(p, other)
        BY <2>5
      <3>2. members'[slot] = members[slot]
        BY <1>1, <3>1, GrantedAt DEF GivesRole
      <3>3. p # ManagerCall(role)
        BY <1>4, <1>5, <3>1
      <3>. QED BY <3>2, <3>3 DEF RoleGoesOn
    <2>. QED BY <2>1, <2>2, <2>3, <2>4, <2>5, LastCallIs
  <1>9. p # PricerCall => UNCHANGED ref
    BY LastCallIs DEF GivesMinter, GivesPauser, GivesRole, SetsPricer
  <1>10. p = PricerCall => ref'[<<manager, "pricer">>] = At("USDY_Pricer")
    <2>. SUFFICES ASSUME p = PricerCall PROVE ref'[<<manager, "pricer">>] = At("USDY_Pricer")
      OBVIOUS
    <2>1. SetsPricer(p)
      BY <1>4, <1>5, LastCallIs DEF GivesMinter, GivesPauser
    <2>. QED BY <1>1, <2>1 DEF SetsPricer
  <1>. QED BY <1>6, <1>7, <1>8, <1>9, <1>10 DEF MembersOf

LEMMA GrantingGoesOn ==
  ASSUME NEW m, NEW m2, NEW before, NEW after, NEW call, NEW p, NEW k \in 6..13,
         Granting(m, before, after, call, k), RoleGoesOn(m, m2, after, call, p),
         Past(5, k)' => Past(5, k), \A c : c # p => ProposalStays(c)
  PROVE  /\ m2 = before \/ m2 = after
         /\ Past(5, k)' => call \in DOMAIN proposals' \/ m2 = after
  BY DEF Granting, RoleGoesOn, ProposalStays

LEMMA LastExecuted ==
  ASSUME CarefulState, DeploymentInv', StepsOK', NEW p \in DOMAIN proposals, SafeExecutes(p),
         p \in LastCalls, next["task"] > 4, Has("USDY_Pricer"), Has("USDYManager")
  PROVE  PartsInv' /\ OrderInv'
  <1>1. /\ DOMAIN proposals' \subseteq DOMAIN proposals
        /\ \A call : call # p => ProposalStays(call)
        /\ UNCHANGED <<deployments, local, next, step, running, undone>>
        /\ \A names : SameNames(names)
        /\ KindsGrow /\ NextGrows /\ TasksGoOn /\ MarksStay
    BY ExecuteFrame
  <1>2. /\ DeploymentInv /\ StepsOK /\ StoreInv
        /\ AllowlistInv /\ OrderInv /\ TokenInv /\ ManagerInv /\ GrantsInv
    BY DEF CarefulState, BaseInv
  <1>3. /\ RefsStay("Blocklist") /\ RefsStay("USDYFactory") /\ RefsStay("USDY")
        /\ RefsStay("AllowlistFactory") /\ RefsStay("Allowlist") /\ RefsStay("AllowlistProxyAdmin")
        /\ RolesStay("Pricer") /\ RolesStay("Allowlist")
        /\ \A field \in DOMAIN ManagerRefs \cup {"rwa"} : \A c \in Deployed("USDYManager") :
             ref'[<<c, field>>] = ref[<<c, field>>]
        /\ \A role \in {"DEFAULT_ADMIN_ROLE", "MANAGER_ADMIN", "PAUSER_ADMIN"} :
             \A c \in Deployed("USDYManager") : members'[<<c, role>>] = members[<<c, role>>]
    BY LastFrame
  <1>4. StoreInv'
    BY <1>1, <1>2, <1>3, StoreStays
  <1>5. ProposalsInv'
    BY ExecuteKeepsProcess
  <1>6. ListProceeds /\ TokenProceeds
    BY <1>1, <1>2, MarksProceed
  <1>7. ProposalStays(AllowlistCall) /\ ProposalStays(TokenCall)
    <2>1. \A call \in LastCalls : call.fn \in {"grantRole", "setPricer"}
      BY DEF LastCalls, ManagerCalls, OtherCalls, ManagerCall, MinterCall, PauserCall, PricerCall, SafeCall
    <2>2. AllowlistCall.fn = "deployAllowlist" /\ TokenCall.fn = "deployUSDY"
      BY DEF AllowlistCall, TokenCall, SafeCall
    <2>. QED BY <1>1, <2>1, <2>2
  <1>8. AllowlistInv'
    BY <1>1, <1>2, <1>3, <1>6, <1>7, AllowlistStays
  <1>9. TokenInv'
    BY <1>1, <1>2, <1>3, <1>6, <1>7, TokenStays
  <1>10. ManagerInv'
    <2>1. next["task"] = 4 /\ DOMAIN proposals = {} => DOMAIN proposals' = {}
      OBVIOUS
    <2>. QED BY <1>1, <1>2, <1>3, <2>1, ManagerHolds
  <1>11. /\ HasToken' /\ HasToken /\ Token' = Token
         /\ At("USDYManager")' = At("USDYManager") /\ At("USDY_Pricer")' = At("USDY_Pricer")
         /\ Has("USDYManager")' /\ Has("USDY_Pricer")'
         /\ Multisig' = Multisig /\ PAUSER' = PAUSER /\ GrantSteps' = GrantSteps
         /\ \A k \in 6..13 : Past(5, k)' => Past(5, k)
    <2>1. HasToken /\ Has("USDYFactory")
      BY LastCallees
    <2>2. HasToken' /\ Token' = Token
      BY <1>1, <1>2, <1>3, <2>1, TokenIsStays
    <2>3. /\ At("USDYManager")' = At("USDYManager") /\ At("USDY_Pricer")' = At("USDY_Pricer")
          /\ Has("USDYManager")' /\ Has("USDY_Pricer")'
      BY <1>1, SameNameIs
    <2>. QED BY <1>1, <2>1, <2>2, <2>3 DEF Multisig, PAUSER, GrantSteps, MarksStay, GrantMarksStay
  <1>12. /\ MinterCall' = MinterCall /\ PauserCall' = PauserCall /\ PricerCall' = PricerCall
         /\ \A role : ManagerCall(role)' = ManagerCall(role)
    BY <1>1, CallsStay
  <1>13. /\ RoleGoesOn(members[<<Token, "MINTER_ROLE">>], members'[<<Token, "MINTER_ROLE">>],
                       <<At("USDYManager")>>, MinterCall, p)
         /\ RoleGoesOn(members[<<Token, "PAUSER_ROLE">>], members'[<<Token, "PAUSER_ROLE">>],
                       <<Multisig, PAUSER>>, PauserCall, p)
         /\ \A role \in DOMAIN GrantSteps :
              RoleGoesOn(MembersOf("USDYManager", role), members'[<<At("USDYManager"), role>>],
                         <<Multisig>>, ManagerCall(role), p)
         /\ p # PricerCall => UNCHANGED ref
         /\ p = PricerCall => ref'[<<At("USDYManager"), "pricer">>] = At("USDY_Pricer")
    BY LastRoles
  <1>14. Granting(members[<<Token, "MINTER_ROLE">>], <<>>, <<At("USDYManager")>>, MinterCall, 6)'
    <2>. PICK m : m = members[<<Token, "MINTER_ROLE">>]
      OBVIOUS
    <2>. PICK m2 : m2 = members'[<<Token, "MINTER_ROLE">>]
      OBVIOUS
    <2>. PICK before : before = <<>>
      OBVIOUS
    <2>. PICK after : after = <<At("USDYManager")>>
      OBVIOUS
    <2>. PICK call : call = MinterCall
      OBVIOUS
    <2>1. Granting(m, before, after, call, 6)
      BY <1>2, <1>11 DEF GrantsInv
    <2>2. RoleGoesOn(m, m2, after, call, p) /\ 6 \in 6..13 /\ (Past(5, 6)' => Past(5, 6))
      BY <1>11, <1>13
    <2>3. m2 = before \/ m2 = after
      BY ONLY <1>1, <2>1, <2>2, GrantingGoesOn
    <2>4. Past(5, 6)' => call \in DOMAIN proposals' \/ m2 = after
      BY ONLY <1>1, <2>1, <2>2, GrantingGoesOn
    <2>. QED BY <1>11, <1>12, <2>3, <2>4 DEF Granting
  <1>15. Granting(members[<<Token, "PAUSER_ROLE">>], <<Multisig>>, <<Multisig, PAUSER>>, PauserCall, 7)'
    <2>. PICK m : m = members[<<Token, "PAUSER_ROLE">>]
      OBVIOUS
    <2>. PICK m2 : m2 = members'[<<Token, "PAUSER_ROLE">>]
      OBVIOUS
    <2>. PICK before : before = <<Multisig>>
      OBVIOUS
    <2>. PICK after : after = <<Multisig, PAUSER>>
      OBVIOUS
    <2>. PICK call : call = PauserCall
      OBVIOUS
    <2>1. Granting(m, before, after, call, 7)
      BY <1>2, <1>11 DEF GrantsInv
    <2>2. RoleGoesOn(m, m2, after, call, p) /\ 7 \in 6..13 /\ (Past(5, 7)' => Past(5, 7))
      BY <1>11, <1>13
    <2>3. m2 = before \/ m2 = after
      BY ONLY <1>1, <2>1, <2>2, GrantingGoesOn
    <2>4. Past(5, 7)' => call \in DOMAIN proposals' \/ m2 = after
      BY ONLY <1>1, <2>1, <2>2, GrantingGoesOn
    <2>. QED BY <1>11, <1>12, <2>3, <2>4 DEF Granting
  <1>16. ASSUME NEW role \in DOMAIN GrantSteps
         PROVE  Granting(MembersOf("USDYManager", role), <<>>, <<Multisig>>, ManagerCall(role),
                         GrantSteps[role])'
    <2>. PICK m : m = MembersOf("USDYManager", role)
      OBVIOUS
    <2>. PICK m2 : m2 = members'[<<At("USDYManager"), role>>]
      OBVIOUS
    <2>. PICK before : before = <<>>
      OBVIOUS
    <2>. PICK after : after = <<Multisig>>
      OBVIOUS
    <2>. PICK call : call = ManagerCall(role)
      OBVIOUS
    <2>. PICK k : k = GrantSteps[role]
      OBVIOUS
    <2>1. k \in 6..13
      BY GrantStepsAre
    <2>2. Granting(m, before, after, call, k)
      BY <1>2, <1>11 DEF GrantsInv
    <2>3. RoleGoesOn(m, m2, after, call, p) /\ k \in 6..13 /\ (Past(5, k)' => Past(5, k))
      BY <1>11, <1>13, <2>1
    <2>4. m2 = before \/ m2 = after
      BY ONLY <1>1, <2>1, <2>2, <2>3, GrantingGoesOn
    <2>5. Past(5, k)' => call \in DOMAIN proposals' \/ m2 = after
      BY ONLY <1>1, <2>1, <2>2, <2>3, GrantingGoesOn
    <2>6. MembersOf("USDYManager", role)' = m2
      BY <1>11 DEF MembersOf
    <2>. QED BY <1>11, <1>12, <2>4, <2>5, <2>6 DEF Granting
  <1>17. Past(5, 8)' => PricerCall' \in DOMAIN proposals' \/ RefOf("USDYManager", "pricer")' = At("USDY_Pricer")'
    <2>. SUFFICES ASSUME Past(5, 8)'
         PROVE  PricerCall' \in DOMAIN proposals' \/ RefOf("USDYManager", "pricer")' = At("USDY_Pricer")'
      OBVIOUS
    <2>1. PricerCall \in DOMAIN proposals \/ RefOf("USDYManager", "pricer") = At("USDY_Pricer")
      BY <1>2, <1>11 DEF GrantsInv
    <2>2. CASE p = PricerCall
      BY <1>11, <1>13, <2>2 DEF RefOf
    <2>3. CASE p # PricerCall
      BY <1>1, <1>11, <1>12, <1>13, <2>1, <2>3 DEF RefOf, ProposalStays
    <2>. QED BY <2>2, <2>3
  <1>18. \A role \in DOMAIN GrantSteps' :
           Granting(MembersOf("USDYManager", role), <<>>, <<Multisig>>, ManagerCall(role),
                    GrantSteps[role])'
    BY <1>11, <1>16
  <1>19. GrantsInv'
    BY <1>11, <1>14, <1>15, <1>17, <1>18 DEF GrantsInv
  <1>20. OrderInv'
    <2>1. HasToken
      BY <1>11
    <2>. QED BY <1>1, <1>2, <2>1 DEF OrderInv, Past
  <1>. QED BY <1>4, <1>5, <1>8, <1>9, <1>10, <1>19, <1>20 DEF PartsInv

\* The Safe executes a proposal.
LEMMA SafeExecutesCareful ==
  ASSUME CarefulState, DeploymentInv', StepsOK', NEW p \in DOMAIN proposals, SafeExecutes(p)
  PROVE  PartsInv' /\ ReadsInv' /\ ProcessInv' /\ OrderInv'
  <1>1. \/ p = AllowlistCall /\ next["task"] < 3 /\ Has("AllowlistFactory")
        \/ p = TokenCall /\ next["task"] \in {3, 4} /\ Has("USDYFactory") /\ Has("Blocklist")
           /\ Has("Allowlist")
        \/ p \in LastCalls /\ next["task"] > 4 /\ Has("USDY_Pricer") /\ Has("USDYManager")
    BY DEF CarefulState, ProposalsInv
  <1>2. PartsInv' /\ OrderInv'
    BY <1>1, ListExecuted, TokenExecuted, LastExecuted
  <1>. QED BY <1>2, ExecuteKeepsProcess

-----------------------------------------------------------------------------
(* The invariant holds.                                                    *)
LEMMA InitCareful == Init => CarefulInv
  <1>. SUFFICES ASSUME Init PROVE PartsInv /\ ReadsInv /\ ProcessInv /\ OrderInv
    BY DEF CarefulInv
  <1>1. /\ \A name \in DeploymentNames : ~Has(name) /\ At(name) = Absent
        /\ running = "none" /\ DOMAIN proposals = {}
        /\ \A v \in Variables : local[v] = Absent
    BY DEF Init, Has, At
  <1>2. /\ {"AllowlistFactory", "Blocklist", "USDYFactory", "USDY_Pricer", "USDYManager"}
             \subseteq DeploymentNames
        /\ DeploymentNames \subseteq Variables
        /\ {"allowlistProxy", "allowlistProxyAdmin", "usdyProxy", "usdyProxyAdmin"} \subseteq Variables
    BY VariablesAre, GettersAre DEF DeploymentNames
  <1>3. ~HasList /\ ~HasToken
    BY <1>1, <1>2 DEF HasList, HasToken
  <1>4. \A i \in 1..5 : \A k \in 1..13 : ~Past(i, k)
    BY DEF Init, Past, Tracks
  <1>5. /\ ~Past(1, 3) /\ ~Past(2, 4) /\ ~Past(2, 5) /\ ~Past(3, 5) /\ ~Past(4, 4) /\ ~Past(4, 5)
        /\ ~Past(5, 6) /\ ~Past(5, 8)
    BY <1>4
  <1>6. StoreInv
    BY <1>1, <1>2 DEF StoreInv, ArgsOf
  <1>7. ProposalsInv /\ AllowlistInv /\ TokenInv /\ ManagerInv
    BY <1>1, <1>2, <1>3, <1>5 DEF ProposalsInv, AllowlistInv, TokenInv, ManagerInv
  <1>8. GrantsInv
    BY <1>1, <1>2, <1>3, <1>5 DEF GrantsInv
  <1>9. ReadsInv
    BY <1>1, <1>2 DEF ReadsInv
  <1>10. ProcessInv /\ OrderInv
    BY <1>1, <1>3 DEF ProcessInv, OrderInv
  <1>. QED BY <1>6, <1>7, <1>8, <1>9, <1>10 DEF PartsInv

LEMMA NoTransact == ASSUME CarefulState PROVE ~RunTransact
  <1>. SUFFICES ASSUME RunTransact PROVE FALSE
    OBVIOUS
  <1>1. ControlOK /\ network = "production" /\ IsRunning /\ Step.op = "transact"
    BY DEF CarefulState, DeploymentInv, RunTransact, GoOn
  <1>. QED BY <1>1, WhichStep

LEMMA StutterCareful ==
  ASSUME CarefulState, StepsOK', UNCHANGED vars
  PROVE  PartsInv' /\ ReadsInv' /\ ProcessInv' /\ OrderInv'
  <1>1. /\ UNCHANGED QuietVars
        /\ UNCHANGED <<local, next, step, running, undone, network, ref, deployments>>
    BY DEF vars, storeVars, scriptVars, history, QuietVars, chainVars
  <1>2. MarksStay /\ NextGrows /\ TasksGoOn
    BY <1>1 DEF MarksStay, ListMarksStay, TokenMarksStay, GrantMarksStay, Past, NextGrows, TasksGoOn,
         CarefulState, BaseInv, StepsOK
  <1>3. PartsInv'
    BY <1>1, <1>2, QuietParts
  <1>4. ReadsInv'
    BY <1>1 DEF CarefulState, ReadsInv, QuietVars, At, Absent, Has, List, ListAdmin, Token, TokenAdmin, RefOf
  <1>5. ProcessInv'
    <2>1. Script(running)' = Script(running) /\ proposals' = proposals
      BY <1>1 DEF Script, QuietVars
    <2>2. running # "none" =>
            /\ undone \subseteq {running}
            /\ \/ DOMAIN proposals = {}
               \/ \E j \in DOMAIN Script(running) : j < step /\ Script(running)[j].op = "propose"
      BY DEF CarefulState, ProcessInv
    <2>. QED BY <1>1, <2>1, <2>2 DEF ProcessInv
  <1>6. OrderInv'
    <2>1. HasToken' <=> HasToken
      BY <1>1 DEF HasToken, Has, At, Token, RefOf, Absent, Zero
    <2>2. DOMAIN proposals' = DOMAIN proposals
      BY <1>1 DEF QuietVars
    <2>. QED BY <1>1, <2>1, <2>2 DEF CarefulState, OrderInv, Past
  <1>. QED BY <1>3, <1>4, <1>5, <1>6

\* No step undoes what was done hastily.
LEMMA StaysCareful ==
  ASSUME TypedInv, [Next]_vars, Careful'
  PROVE  Careful
  <1>1. network' = network /\ (hasty' = hasty \/ \E track \in Tracks : Start(track))
    BY DEF Next, RunStep, RunDeploy, RunGet, RunRead, RunRequire, RunSave, RunAddContract, RunPropose,
           RunTransact, GoOn, Finish, StepThrows, ScriptFails, Throw, SafeExecutes, Start, history, vars
  <1>2. ASSUME NEW track \in Tracks, Start(track) PROVE hasty => hasty'
    BY <1>2 DEF Start
  <1>. QED BY <1>1, <1>2 DEF Careful

LEMMA NextCareful ==
  ASSUME DeploymentInv, TypedInv, BaseInv, CarefulInv, DeploymentInv', BaseInv', [Next]_vars
  PROVE  CarefulInv'
  <1>. SUFFICES ASSUME Careful'
       PROVE  PartsInv' /\ ReadsInv' /\ ProcessInv' /\ OrderInv'
    BY DEF CarefulInv
  <1>1. Careful /\ ~hasty'
    BY StaysCareful DEF Careful
  <1>2. CarefulState /\ StepsOK'
    BY <1>1 DEF CarefulInv, PartsInv, CarefulState, Careful, BaseInv
  <1>3. CASE \E track \in Tracks : Start(track)
    BY <1>1, <1>2, <1>3, OperatorQuiet, StartKeeps
  <1>4. CASE Finish
    BY <1>2, <1>4, OperatorQuiet, FinishKeeps
  <1>5. CASE StepThrows
    BY <1>2, <1>5, OperatorQuiet, StepThrowsKeeps
  <1>6. CASE ScriptFails
    BY <1>2, <1>6, OperatorQuiet, ScriptFailsKeeps
  <1>7. CASE RunStep
    BY <1>2, <1>7, NoTransact, RunQuietKeeps, RunSaveCareful, RunProposeCareful, RunDeployCareful
       DEF RunStep
  <1>8. CASE \E p \in DOMAIN proposals : SafeExecutes(p)
    BY <1>2, <1>8, SafeExecutesCareful
  <1>9. CASE UNCHANGED vars
    BY <1>2, <1>9, StutterCareful
  <1>. QED BY <1>3, <1>4, <1>5, <1>6, <1>7, <1>8, <1>9 DEF Next

\* Everything the argument has found so far holds together.
LEMMA AllInvariantsHold == Spec => [](DeploymentInv /\ BaseInv /\ TypedInv /\ CarefulInv)
  <1>1. Spec => []TypedInv
    BY InitTyped, NextTyped, DeploymentInvHolds, PTL DEF Spec
  <1>2. Spec => []BaseInv
    BY <1>1, InitBase, NextBase, DeploymentInvHolds, PTL DEF Spec
  <1>3. DeploymentInv /\ TypedInv /\ BaseInv /\ CarefulInv /\ DeploymentInv' /\ BaseInv' /\ [Next]_vars
          => CarefulInv'
    BY NextCareful
  <1>4. Spec => []CarefulInv
    BY <1>1, <1>2, <1>3, InitCareful, DeploymentInvHolds, PTL DEF Spec
  <1>. QED BY <1>1, <1>2, <1>4, DeploymentInvHolds, PTL

\* At every step of the production scripts the store, the open proposals and the contracts
\* are what the steps before have made them, if every script was started after the Safe
\* had executed what was proposed and one that failed was run again first.
THEOREM CarefulHolds == Spec => []CarefulInv
  BY AllInvariantsHold, PTL

-----------------------------------------------------------------------------
(* What the checks find at the end.                                        *)
Finished == CarefulState /\ Done

LEMMA AtTheEnd ==
  ASSUME Finished
  PROVE  /\ DOMAIN proposals = {} /\ next["task"] = 6 /\ next["task"] > 4
         /\ Past(2, 4) /\ Past(2, 5) /\ Past(4, 4) /\ Past(4, 5)
         /\ \A k \in 6..13 : Past(5, k)
  <1>1. /\ DOMAIN proposals = {} /\ network = "production"
        /\ \A t \in Tracks : next[t] = Len(Scripts[network][t]) + 1
    BY DEF Finished, CarefulState, Done, AllScriptsRun
  <1>2. Len(Scripts["production"]["task"]) = 5 /\ "task" \in Tracks
    BY DEF Scripts, Tracks
  <1>3. next["task"] = 6
    <2>1. next["task"] = Len(Scripts["production"]["task"]) + 1
      BY <1>1, <1>2
    <2>. QED BY <1>2, <2>1
  <1>. QED BY <1>1, <1>3 DEF Past

LEMMA TokenAtTheEnd ==
  ASSUME Finished
  PROVE  /\ Has("USDYManager") /\ Has("USDY_Pricer") /\ HasToken /\ At("USDY") = Token
         /\ At("ProxyAdminUSDY") = TokenAdmin
         /\ Token \in Deployed("USDY") /\ Exists(Token)
         /\ TokenAdmin \in Deployed("USDYProxyAdmin") /\ Exists(TokenAdmin)
         /\ ref[<<TokenAdmin, "owner">>] = USDY_MULTISIG
         /\ Guardian = USDY_MULTISIG
  <1>1. Has("USDYManager") /\ Has("USDY_Pricer")
    BY AtTheEnd DEF Finished, CarefulState, GrantsInv
  <1>2. HasToken /\ At("USDY") = Token /\ Token \in Deployed("USDY") /\ Exists(Token)
    BY <1>1, AtTheEnd, LastCallees DEF Finished
  <1>3. At("ProxyAdminUSDY") = TokenAdmin /\ ref[<<Token, "proxyAdmin">>] = TokenAdmin
    BY <1>2, AtTheEnd DEF Finished, CarefulState, TokenInv
  <1>4. TokenAdmin \in Deployed("USDYProxyAdmin") /\ ref[<<TokenAdmin, "owner">>] = Guardian
    BY <1>2, <1>3 DEF Finished, CarefulState, DeploymentInv, ChainInv, RefsOK, ProxyAdminsHeld
  <1>5. Exists(TokenAdmin)
    <2>1. PICK n \in 1..MaxInstances : n <= created["USDYProxyAdmin"] /\ TokenAdmin = <<"USDYProxyAdmin", n>>
      BY <1>4, DeployedIs, KindsAre DEF Finished, CarefulState, DeploymentInv, ChainInv
    <2>. QED BY <1>4, <2>1, KindsAre DEF Exists, Deployed
  <1>6. Guardian = USDY_MULTISIG
    BY MultisigIs DEF Guardian, Multisig, Finished, CarefulState
  <1>. QED BY <1>1, <1>2, <1>3, <1>4, <1>5, <1>6

LEMMA UsdyIsWired ==
  ASSUME Finished
  PROVE  CheckUsdyWithoutListConfigurer /\ ~CheckListConfigurer
  <1>. PICK expected : expected = usdy_config.usdy
    OBVIOUS
  <1>1. /\ At("USDY") = Token /\ Token \in Deployed("USDY") /\ Exists(Token) /\ HasToken
        /\ At("ProxyAdminUSDY") = TokenAdmin /\ Exists(TokenAdmin)
        /\ ref[<<TokenAdmin, "owner">>] = USDY_MULTISIG /\ Guardian = USDY_MULTISIG
    BY TokenAtTheEnd
  <1>2. /\ ref[<<Token, "proxyAdmin">>] = TokenAdmin
        /\ ref[<<Token, "sanctionsList">>] = External(SANCTION_ADDRESS)
        /\ ref[<<Token, "blocklist">>] = At("Blocklist")
        /\ ref[<<Token, "allowlist">>] = At("Allowlist")
    BY <1>1 DEF Finished, CarefulState, TokenInv
  <1>3. TokenRoles(Token)
    BY <1>1 DEF Finished, CarefulState, DeploymentInv, ChainInv, RolesOK
  <1>4. /\ members[<<Token, "MINTER_ROLE">>] = <<At("USDYManager")>>
        /\ members[<<Token, "PAUSER_ROLE">>] = <<USDY_MULTISIG, PAUSER>>
    <2>1. Past(5, 6) /\ Past(5, 7)
      BY AtTheEnd
    <2>. QED BY <1>1, <2>1, AtTheEnd, MultisigIs DEF Finished, CarefulState, GrantsInv, Granting
  <1>5. /\ expected.defaultAdminRoleMembers = <<USDY_MULTISIG>>
        /\ expected.burnerRoleMembers = <<>>
        /\ expected.listConfigurerRoleMembers = <<USDY_MULTISIG>>
        /\ expected.minterRoleMembers = <<At("USDYManager")>>
        /\ expected.pauserRoleMembers = <<USDY_MULTISIG, PAUSER>>
        /\ expected.proxyAdmin = At("ProxyAdminUSDY") /\ expected.owner = USDY_MULTISIG
        /\ expected["allowlist"] = At("Allowlist") /\ expected["blocklist"] = At("Blocklist")
        /\ expected["sanctionsList"] = External(SANCTION_ADDRESS)
    BY DEF usdy_config
  <1>6. CheckProxy(Token, expected)
    BY <1>1, <1>2, <1>5 DEF CheckProxy
  <1>7. assertAgainstBlockchain(Token, [f \in {"allowlist", "blocklist", "sanctionsList"} |-> expected[f]])
    BY <1>2, <1>5 DEF assertAgainstBlockchain
  <1>8. CheckUsdyWithoutListConfigurer
    BY <1>1, <1>3, <1>4, <1>5, <1>6, <1>7 DEF CheckUsdyWithoutListConfigurer, assertRoleMembers, TokenRoles
  <1>9. ~CheckListConfigurer
    <2>1. members[<<Token, "LIST_CONFIGURER_ROLE">>] = <<>> /\ <<>> # <<USDY_MULTISIG>>
      BY <1>3 DEF TokenRoles
    <2>. QED BY <1>1, <1>5, <2>1 DEF CheckListConfigurer, assertRoleMembers
  <1>. QED BY <1>8, <1>9

LEMMA AllowlistIsWired ==
  ASSUME Finished
  PROVE  CheckAllowlist
  <1>. PICK expected : expected = usdy_config.allowlist
    OBVIOUS
  <1>1. /\ HasList /\ At("Allowlist") = List /\ At("ProxyAdminAllowlist") = ListAdmin
        /\ \A role \in RolesOf["Allowlist"] : members[<<List, role>>] = <<Multisig>>
        /\ ref[<<List, "proxyAdmin">>] = ListAdmin
        /\ ListAdmin \in Deployed("AllowlistProxyAdmin")
        /\ ref[<<ListAdmin, "owner">>] = Multisig
    BY AtTheEnd DEF Finished, CarefulState, AllowlistInv
  <1>2. DeploymentInv /\ CreatedOK
    BY DEF Finished, CarefulState, DeploymentInv, ChainInv
  <1>3. Exists(List)
    <2>1. List \in Deployed("Allowlist")
      BY <1>1, <1>2, NamesHold
    <2>2. PICK n \in 1..MaxInstances : n <= created["Allowlist"] /\ List = <<"Allowlist", n>>
      BY <1>2, <2>1, DeployedIs, KindsAre
    <2>. QED BY <2>1, <2>2, KindsAre DEF Exists, Deployed
  <1>4. Exists(ListAdmin)
    <2>1. PICK n \in 1..MaxInstances :
             n <= created["AllowlistProxyAdmin"] /\ ListAdmin = <<"AllowlistProxyAdmin", n>>
      BY <1>1, <1>2, DeployedIs, KindsAre
    <2>. QED BY <1>1, <2>1, KindsAre DEF Exists, Deployed
  <1>5. /\ expected.defaultAdminRoleMembers = <<USDY_MULTISIG>>
        /\ expected.allowlistSetterRoleMembers = <<USDY_MULTISIG>>
        /\ expected.allowlistAdminRoleMembers = <<USDY_MULTISIG>>
        /\ expected.proxyAdmin = At("ProxyAdminAllowlist") /\ expected.owner = USDY_MULTISIG
    BY DEF usdy_config
  <1>6. CheckProxy(List, expected)
    BY <1>1, <1>4, <1>5, MultisigIs DEF CheckProxy
  <1>. QED BY <1>1, <1>3, <1>5, <1>6, MultisigIs, RolesAre DEF CheckAllowlist, assertRoleMembers

LEMMA ManagerIsWired ==
  ASSUME Finished
  PROVE  CheckUsdyManager
  <1>. PICK expected : expected = usdy_config.usdyManager
    OBVIOUS
  <1>. PICK manager : manager = At("USDYManager")
    OBVIOUS
  <1>1. /\ Has("USDYManager") /\ At("USDY") = Token /\ Exists(manager)
    BY TokenAtTheEnd, AtTheEnd, LastCallees DEF Finished
  <1>2. /\ \A field \in DOMAIN ManagerRefs : ref[<<manager, field>>] = ManagerRefs[field]
        /\ ref[<<manager, "rwa">>] = Token
        /\ members[<<manager, "DEFAULT_ADMIN_ROLE">>] = <<USDY_MULTISIG>>
        /\ members[<<manager, "MANAGER_ADMIN">>] = <<USDY_MULTISIG>>
        /\ members[<<manager, "PAUSER_ADMIN">>] = <<PAUSER>>
    BY <1>1, MultisigIs DEF Finished, CarefulState, ManagerInv, RefOf, MembersOf
  <1>3. \A role \in DOMAIN GrantSteps : members[<<manager, role>>] = <<USDY_MULTISIG>>
    <2>1. \A role \in DOMAIN GrantSteps : Past(5, GrantSteps[role])
      BY AtTheEnd, GrantStepsAre
    <2>. QED BY <1>1, <2>1, AtTheEnd, MultisigIs
             DEF Finished, CarefulState, GrantsInv, Granting, MembersOf
  <1>4. ref[<<manager, "pricer">>] = At("USDY_Pricer")
    <2>1. Past(5, 8)
      BY AtTheEnd
    <2>. QED BY <2>1, AtTheEnd DEF Finished, CarefulState, GrantsInv, RefOf
  <1>. PICK storage : storage = expected.storage
    OBVIOUS
  <1>5. /\ expected.defaultAdminRoleMembers = <<USDY_MULTISIG>>
        /\ expected.managerAdminRoleMembers = <<USDY_MULTISIG>>
        /\ expected.pauserAdminRoleMembers = <<PAUSER>>
        /\ expected.priceIDSetterRoleMembers = <<USDY_MULTISIG>>
        /\ expected.relayerRoleMembers = <<USDY_MULTISIG>>
        /\ expected.timestampSetterRoleMembers = <<USDY_MULTISIG>>
    BY DEF usdy_config
  <1>6. /\ DOMAIN storage = DOMAIN ManagerRefs \cup {"rwa", "pricer"}
        /\ storage["rwa"] = At("USDY") /\ storage["pricer"] = At("USDY_Pricer")
        /\ \A field \in DOMAIN ManagerRefs : storage[field] = ManagerRefs[field]
    BY MultisigIs DEF usdy_config, ManagerRefs
  <1>7. assertAgainstBlockchain(manager, storage)
    BY <1>1, <1>2, <1>4, <1>6 DEF assertAgainstBlockchain
  <1>. QED BY <1>1, <1>2, <1>3, <1>5, <1>7, GrantStepsAre DEF CheckUsdyManager, assertRoleMembers

LEMMA PricerIsWired ==
  ASSUME Finished
  PROVE  CheckUsdyPricer
  <1>1. /\ Has("USDY_Pricer") /\ At("USDY_Pricer") \in Deployed("Pricer")
        /\ \A role \in RolesOf["Pricer"] : members[<<At("USDY_Pricer"), role>>] = <<Multisig>>
    BY TokenAtTheEnd DEF Finished, CarefulState, StoreInv, MembersOf
  <1>2. Exists(At("USDY_Pricer"))
    <2>1. PICK n \in 1..MaxInstances : n <= created["Pricer"] /\ At("USDY_Pricer") = <<"Pricer", n>>
      BY <1>1, DeployedIs, KindsAre DEF Finished, CarefulState, DeploymentInv, ChainInv
    <2>. QED BY <1>1, <2>1, KindsAre DEF Exists, Deployed
  <1>3. /\ usdy_config.usdy_pricer.defaultAdminRoleMembers = <<USDY_MULTISIG>>
        /\ usdy_config.usdy_pricer.priceUpdateRoleMembers = <<USDY_MULTISIG>>
    BY DEF usdy_config
  <1>. QED BY <1>1, <1>2, <1>3, MultisigIs, RolesAre DEF CheckUsdyPricer, assertRoleMembers

LEMMA BlocklistStaysWithDeployer ==
  ASSUME Finished
  PROVE  ~CheckBlocklist
  <1>1. Has("Blocklist")
    BY TokenAtTheEnd DEF Finished, CarefulState, TokenInv
  <1>2. ref[<<At("Blocklist"), "owner">>] = External("deployer")
    BY <1>1 DEF Finished, CarefulState, StoreInv, RefOf
  <1>3. External("deployer") # USDY_MULTISIG
    BY DEF External, USDY_MULTISIG
  <1>4. usdy_config.blocklist = [owner |-> USDY_MULTISIG]
    BY DEF usdy_config
  <1>. QED BY <1>2, <1>3, <1>4 DEF CheckBlocklist, assertAgainstBlockchain

\* Whatever the sizes, however often a script fails and is run again, and whatever order
\* the Safe executes its proposals in: a deployment that was finished without haste is
\* what config.ts expects, but for the two points that no script sees to.
THEOREM WiredProved == Spec => []WiredWhenDone
  <1>1. DeploymentInv /\ BaseInv /\ TypedInv /\ CarefulInv => WiredWhenDone
    <2>. SUFFICES ASSUME DeploymentInv, BaseInv, TypedInv, CarefulInv,
                         network = "production", Done, ~hasty
         PROVE  /\ CheckUsdyWithoutListConfigurer /\ CheckAllowlist /\ CheckUsdyManager
                /\ CheckUsdyPricer /\ ~CheckListConfigurer /\ ~CheckBlocklist
      BY DEF WiredWhenDone
    <2>1. Finished
      BY DEF Finished, CarefulState, CarefulInv, PartsInv, Careful
    <2>. QED BY <2>1, UsdyIsWired, AllowlistIsWired, ManagerIsWired, PricerIsWired,
                BlocklistStaysWithDeployer
  <1>. QED BY <1>1, AllInvariantsHold, PTL
=============================================================================
