-------------------------- MODULE CarefulDeployment --------------------------
(***************************************************************************)
(* What is true of a production deployment at every step of its scripts,   *)
(* if the operator is careful: each script is started after the Safe has   *)
(* executed everything that was proposed, and one that failed is run again *)
(* before any other.  The steps are numbered as in DeploymentScripts.      *)
(*                                                                         *)
(* The invariant says of each contract which steps have to be made for it  *)
(* to be there, and of each step of a task what is there once it is made:  *)
(* the deployment's way from nothing to WiredWhenDone.                     *)
(***************************************************************************)
EXTENDS DeploymentChecks

\* The Safe, which is the guardian.
Multisig == External(PROD_GUARDIAN_USDY)

\* Every script was started after the Safe had executed what was proposed, and after one
\* that failed had been run again.
Careful == network = "production" /\ ~hasty

\* What the store holds under a name, and what the contract there answers.
Has(name) == At(name) # Absent
RefOf(name, field) == ref[<<At(name), field>>]
MembersOf(name, role) == members[<<At(name), role>>]

\* The factories' latest contracts.
List == RefOf("AllowlistFactory", "allowlistProxy")
ListAdmin == RefOf("AllowlistFactory", "allowlistProxyAdmin")
Token == RefOf("USDYFactory", "usdyProxy")
TokenAdmin == RefOf("USDYFactory", "usdyProxyAdmin")
HasList == Has("AllowlistFactory") /\ List # Zero
HasToken == Has("USDYFactory") /\ Token # Zero

\* Step k of a task has been made, in the run that goes on or in one that ended.
Past(task, k) == \/ next["task"] > task
                 \/ running = "task" /\ next["task"] = task /\ step > k

\* The transactions that the tasks propose to the Safe.
SafeCall(name, fn, role, args) ==
  [from |-> Multisig, to |-> At(name), fn |-> fn, role |-> role, args |-> args]
AllowlistCall == SafeCall("AllowlistFactory", "deployAllowlist", "none", <<Multisig, Multisig>>)
TokenCall == SafeCall("USDYFactory", "deployUSDY", "none",
                      <<At("Blocklist"), At("Allowlist"), External(SANCTION_ADDRESS)>>)
MinterCall == SafeCall("USDY", "grantRole", "MINTER_ROLE", <<At("USDYManager")>>)
PauserCall == SafeCall("USDY", "grantRole", "PAUSER_ROLE", <<PAUSER>>)
PricerCall == SafeCall("USDYManager", "setPricer", "none", <<At("USDY_Pricer")>>)
ManagerCall(role) == SafeCall("USDYManager", "grantRole", role, <<Multisig>>)
OtherCalls == {SafeCall("USDYManager", "grantRole", "PAUSER_ROLE", <<PAUSER>>),
               ManagerCall("LIST_CONFIGURER_ROLE")}

\* The roles of the manager that usdyManager.ts checks, with the steps of task 5 that propose them.
GrantSteps == [PRICE_ID_SETTER_ROLE |-> 9, TIMESTAMP_SETTER_ROLE |-> 10, RELAYER_ROLE |-> 13]
ManagerCalls == {ManagerCall(role) : role \in DOMAIN GrantSteps}
LastCalls == {MinterCall, PauserCall, PricerCall} \cup ManagerCalls \cup OtherCalls

-----------------------------------------------------------------------------
(* What holds of every run.                                                *)

\* No contract that is not there yet has members or fields.
FreshOK ==
  /\ \A slot \in RoleSlots : slot[1][2] > created[slot[1][1]] => members[slot] = <<>>
  /\ \A slot \in FieldSlots : slot[1][2] > created[slot[1][1]] => ref[slot] = Zero

\* A variable is assigned by the steps before, and not before them.
LocalsOK ==
  /\ running = "none" => \A v \in Variables : local[v] = Absent
  /\ running # "none" =>
       /\ \A v \in Variables : local[v] # Absent =>
            \E j \in 1..(step - 1) : /\ Script(running)[j].op \in {"get", "read"}
                                     /\ Script(running)[j].name = v
       /\ \A j \in 1..(step - 1) : Script(running)[j].op = "get" =>
            local[Script(running)[j].name] # Absent

\* The counters start at 1.
StepsOK == step \in Nat /\ step >= 1 /\ \A t \in Tracks : next[t] \in Nat /\ next[t] >= 1

-----------------------------------------------------------------------------
(* What holds of a careful one.                                            *)

\* While a script runs, no other waits to be run again, and the transactions that wait
\* for the Safe are its own.
ProcessInv ==
  running # "none" =>
    /\ undone \subseteq {running}
    /\ \/ DOMAIN proposals = {}
       \/ \E j \in DOMAIN Script(running) : j < step /\ Script(running)[j].op = "propose"

\* What a script has read is still so: the Safe cannot deploy anything in between, for it
\* has no proposal that it could execute.
ReadsInv ==
  /\ \A name \in DeploymentNames : local[name] \in {Absent, At(name)}
  /\ local["allowlistProxy"] # Absent =>
       DOMAIN proposals = {} /\ Has("AllowlistFactory") /\ local["allowlistProxy"] = List
  /\ local["allowlistProxyAdmin"] # Absent =>
       DOMAIN proposals = {} /\ Has("AllowlistFactory") /\ local["allowlistProxyAdmin"] = ListAdmin
  /\ local["usdyProxy"] # Absent =>
       DOMAIN proposals = {} /\ Has("USDYFactory") /\ local["usdyProxy"] = Token
  /\ local["usdyProxyAdmin"] # Absent =>
       DOMAIN proposals = {} /\ Has("USDYFactory") /\ local["usdyProxyAdmin"] = TokenAdmin

\* The arguments of those contracts that no other contract is an argument of.
ArgsOf == [AllowlistFactory |-> <<Multisig>>, Blocklist |-> <<>>,
           USDYFactory |-> <<External(PROD_GUARDIAN_OMMF)>>, USDY_Pricer |-> <<Multisig, Multisig>>]

\* The store knows what was deployed, so that a script that is run again deploys nothing;
\* the pricer comes from the last script of its track.
StoreInv ==
  /\ \A name \in DOMAIN ArgsOf : Has(name) => deployments[name].args = ArgsOf[name]
  /\ Has("Blocklist") => RefOf("Blocklist", "owner") = External("deployer")
  /\ Has("USDY_Pricer") =>
       /\ next["deploy"] > 4
       /\ At("USDY_Pricer") \in Deployed("Pricer")
       /\ \A role \in RolesOf["Pricer"] : MembersOf("USDY_Pricer", role) = <<Multisig>>

\* Only the task that was made last, or runs, has transactions waiting.
ProposalsInv ==
  \A p \in DOMAIN proposals :
    \/ p = AllowlistCall /\ next["task"] < 3 /\ Has("AllowlistFactory")
    \/ /\ p = TokenCall /\ next["task"] \in {3, 4}
       /\ Has("USDYFactory") /\ Has("Blocklist") /\ Has("Allowlist")
    \/ p \in LastCalls /\ next["task"] > 4 /\ Has("USDY_Pricer") /\ Has("USDYManager")

\* The factory's list is the guardian's.  It waits to be deployed or is, once task 1 has
\* proposed it, and the store holds it once task 2 has saved it.
AllowlistInv ==
  /\ HasList => /\ \A role \in RolesOf["Allowlist"] : members[<<List, role>>] = <<Multisig>>
                /\ ref[<<List, "proxyAdmin">>] = ListAdmin
                /\ ListAdmin \in Deployed("AllowlistProxyAdmin")
                /\ ref[<<ListAdmin, "owner">>] = Multisig
  /\ Past(1, 3) => Has("AllowlistFactory") /\ (AllowlistCall \in DOMAIN proposals \/ HasList)
  /\ Past(2, 4) => HasList /\ At("Allowlist") = List
  /\ Past(2, 5) => At("ProxyAdminAllowlist") = ListAdmin

\* There is a token, or a proposal of task 3, only once that task proposed it - in a run
\* that went on, or in one that failed and has to be made again.
OrderInv ==
  HasToken \/ (next["task"] = 3 /\ DOMAIN proposals # {}) =>
    Past(3, 5) \/ (next["task"] = 3 /\ "task" \in undone)

\* The factory's token asks the lists in the store, and is proposed by task 3 and saved by
\* task 4.
TokenInv ==
  /\ HasToken => /\ ref[<<Token, "proxyAdmin">>] = TokenAdmin
                 /\ ref[<<Token, "sanctionsList">>] = External(SANCTION_ADDRESS)
                 /\ Has("Blocklist") /\ ref[<<Token, "blocklist">>] = At("Blocklist")
                 /\ Has("Allowlist") /\ ref[<<Token, "allowlist">>] = At("Allowlist")
  /\ Past(3, 5) => Has("USDYFactory") /\ (TokenCall \in DOMAIN proposals \/ HasToken)
  /\ Past(4, 4) => HasToken /\ At("USDY") = Token
  /\ Past(4, 5) => At("ProxyAdminUSDY") = TokenAdmin

\* What the constructor of the manager is given, but for the token.
ManagerRefs ==
  [assetSender |-> USDY_MANAGER_ASSET_SENDER, feeRecipient |-> Multisig,
   blocklist |-> At("Blocklist"), collateral |-> External(USDC_MAINNET),
   minimumDepositAmount |-> External("500e6"),
   minimumOffChainRedemptionAmount |-> External("500e18"),
   minimumRedemptionAmount |-> External("500e18"),
   sanctionsList |-> External(SANCTION_ADDRESS)]

\* The manager is deployed once the Safe has deployed the token, and holds that one.
ManagerInv ==
  Has("USDYManager") =>
    /\ HasToken /\ next["task"] > 3 /\ next["deploy"] > 3
    /\ next["task"] = 4 => DOMAIN proposals = {}
    /\ \A field \in DOMAIN ManagerRefs : RefOf("USDYManager", field) = ManagerRefs[field]
    /\ RefOf("USDYManager", "rwa") = Token
    /\ MembersOf("USDYManager", "DEFAULT_ADMIN_ROLE") = <<Multisig>>
    /\ MembersOf("USDYManager", "MANAGER_ADMIN") = <<Multisig>>
    /\ MembersOf("USDYManager", "PAUSER_ADMIN") = <<PAUSER>>

\* The members m of a role that a call of task 5 gives are those before it or those after
\* it; they are those after it if the task is past step k and the call waits no more.
Granting(m, before, after, call, k) ==
  /\ m = before \/ (m = after /\ Has("USDY_Pricer"))
  /\ Past(5, k) => call \in DOMAIN proposals \/ m = after

\* What task 5 proposes, in any order and however often.
GrantsInv ==
  /\ HasToken =>
       /\ Granting(members[<<Token, "MINTER_ROLE">>], <<>>, <<At("USDYManager")>>, MinterCall, 6)
       /\ Granting(members[<<Token, "PAUSER_ROLE">>], <<Multisig>>, <<Multisig, PAUSER>>,
                   PauserCall, 7)
  /\ Has("USDYManager") =>
       \A role \in DOMAIN GrantSteps :
         Granting(MembersOf("USDYManager", role), <<>>, <<Multisig>>, ManagerCall(role),
                  GrantSteps[role])
  /\ Past(5, 6) => Has("USDY_Pricer") /\ Has("USDYManager")
  /\ Past(5, 8) => \/ PricerCall \in DOMAIN proposals
                   \/ RefOf("USDYManager", "pricer") = At("USDY_Pricer")

\* What the store, the proposals and the contracts are.
PartsInv == StoreInv /\ ProposalsInv /\ AllowlistInv /\ TokenInv /\ ManagerInv /\ GrantsInv

\* A careful operator of the production scripts is never surprised: at each of their steps
\* the store, the open proposals and the contracts are as the steps before have made them,
\* whichever proposals the Safe has executed and however often a script was run again.
CarefulInv == Careful => PartsInv /\ ReadsInv /\ ProcessInv /\ OrderInv
=============================================================================
