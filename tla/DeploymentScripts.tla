-------------------------- MODULE DeploymentScripts --------------------------
(***************************************************************************)
(* The deployment scripts as data: each is the sequence of its awaits on   *)
(* the chain, on the store of deployments (deployments/<network>/*.json)   *)
(* and on Defender.  Module Deployment runs them.                          *)
(*                                                                         *)
(* A step names what it uses: a local variable of the script (named after  *)
(* the deployment or the getter it was read from) or, when there is none   *)
(* of this name, a constant of mainnet_constants.ts or a signer.  Left out *)
(* are logging, artifacts, ABIs and the texts of proposals.                *)
(***************************************************************************)
EXTENDS Sequences

CONSTANTS PROD_GUARDIAN_OMMF, \* what 3_deploy_usdyFactory.ts imports under this name
          USDYPricer          \* the contract that 5_deploy_usdy_pricer.ts names so

\* mainnet_constants.ts; equal addresses have equal names
PROD_GUARDIAN_USDY      == "multisig"
PROD_FEE_RECIPIENT_USDY == "multisig"
PROD_MANAGER_ADMIN_USDY == "multisig"
PROD_PAUSER_USDY        == "pauser multisig"
PROD_ASSET_SENDER_USDY  == "asset sender"
USDC_MAINNET            == "USDC"
SANCTION_ADDRESS        == "sanctions oracle"

\* What the scripts name without reading it from the chain or from the store: the
\* constants, the signers, the amounts; and what they call.
MainnetConstants == {PROD_GUARDIAN_USDY, PROD_GUARDIAN_OMMF, PROD_FEE_RECIPIENT_USDY,
                     PROD_MANAGER_ADMIN_USDY, PROD_PAUSER_USDY, PROD_ASSET_SENDER_USDY,
                     USDC_MAINNET, SANCTION_ADDRESS}
Signers == {"deployer", "guardian", "managerAdmin", "pauser", "assetSender", "feeRecipient",
            "relayer"}
Amounts == {"500e6", "500e18", "1000e6", "10e18"}
ConstantNames == MainnetConstants \cup Signers \cup Amounts

FunctionNames == {"deployAllowlist", "deployUSDY", "grantRole", "setPricer", "addPrice",
                  "transferOwnership", "acceptOwnership"}

-----------------------------------------------------------------------------
(* The kinds of steps, each with the names it uses.                        *)

\* deployments.deploy(name, {contract, args}), from the deployer
Deploy(name, kind, args) ==
  [op |-> "deploy", name |-> name, kind |-> kind, args |-> args,
   uses |-> {args[i] : i \in DOMAIN args}]

\* ethers.getContract(name)
Get(name) == [op |-> "get", name |-> name, uses |-> {}]

\* await contract.getter()
Read(of, getter) == [op |-> "read", of |-> of, name |-> getter, uses |-> {of}]

\* if (variable == ZERO_ADDRESS) throw
Require(name) == [op |-> "require", name |-> name, uses |-> {name}]

\* deployments.save(name, {address: variable})
Save(name, variable) == [op |-> "save", name |-> name, of |-> variable, uses |-> {variable}]

\* defender-helper.ts: addContract, and what proposeFunctionCall, proposeGrantRole and a
\* signer of the local network send.
AddContract(variable) == [op |-> "addContract", of |-> variable, uses |-> {variable}]

Send(op, from, contract, fn, role, args) ==
  [op |-> op, from |-> from, to |-> contract, fn |-> fn, role |-> role, args |-> args,
   uses |-> {args[i] : i \in DOMAIN args} \cup {contract}]

ProposeFunctionCall(contract, fn, args) ==
  Send("propose", PROD_GUARDIAN_USDY, contract, fn, "none", args)

ProposeGrantRole(contract, role, account) ==
  Send("propose", PROD_GUARDIAN_USDY, contract, "grantRole", role, <<account>>)

Transact(signer, contract, fn, args) == Send("transact", signer, contract, fn, "none", args)

TransactGrantRole(signer, contract, role, account) ==
  Send("transact", signer, contract, "grantRole", role, <<account>>)

-----------------------------------------------------------------------------
(* src/deploy/usdy/production                                              *)
deployAllowlist_Factory ==
  <<Deploy("AllowlistFactory", "AllowlistFactory", <<PROD_GUARDIAN_USDY>>)>>

deployBlocklist == <<Deploy("Blocklist", "Blocklist", <<>>)>>

deployUSDY_Factory == <<Deploy("USDYFactory", "USDYFactory", <<PROD_GUARDIAN_OMMF>>)>>

(* Mutation: the manager gets the implementation for a token.             *)
deploy_usdyManagerOfImplementation ==
  <<Get("USDYFactory"), Get("AllowlistFactory"), Get("Blocklist"),
    Read("USDYFactory", "usdyImplementation"), Read("AllowlistFactory", "allowlistProxy"),
    Require("usdyImplementation"),
    Deploy("USDYManager", "USDYManager",
           <<USDC_MAINNET, "usdyImplementation", PROD_MANAGER_ADMIN_USDY, PROD_PAUSER_USDY,
             PROD_ASSET_SENDER_USDY, PROD_FEE_RECIPIENT_USDY, "500e6", "500e18",
             "Blocklist", SANCTION_ADDRESS>>)>>

deploy_usdyManager ==
  <<Get("USDYFactory"), Get("AllowlistFactory"), Get("Blocklist"),
    Read("USDYFactory", "usdyProxy"), Read("AllowlistFactory", "allowlistProxy"),
    Require("usdyProxy"),
    Deploy("USDYManager", "USDYManager",
           <<USDC_MAINNET, "usdyProxy", PROD_MANAGER_ADMIN_USDY, PROD_PAUSER_USDY,
             PROD_ASSET_SENDER_USDY, PROD_FEE_RECIPIENT_USDY, "500e6", "500e18",
             "Blocklist", SANCTION_ADDRESS>>)>>

deploy_usdyPricer ==
  <<Deploy("USDY_Pricer", USDYPricer, <<PROD_GUARDIAN_USDY, PROD_GUARDIAN_USDY>>)>>

-----------------------------------------------------------------------------
(* src/scripts/usdy: the tasks run between them                            *)
task1_usdy_prod ==
  <<Get("AllowlistFactory"),
    AddContract("AllowlistFactory"),
    ProposeFunctionCall("AllowlistFactory", "deployAllowlist",
                        <<PROD_GUARDIAN_USDY, PROD_GUARDIAN_USDY>>)>>

task2_save_usdy_prod ==
  <<Get("AllowlistFactory"),
    Read("AllowlistFactory", "allowlistProxy"), Read("AllowlistFactory", "allowlistProxyAdmin"),
    Save("Allowlist", "allowlistProxy"), Save("ProxyAdminAllowlist", "allowlistProxyAdmin"),
    AddContract("allowlistProxy"), AddContract("allowlistProxyAdmin")>>

(* Mutation: the task also asks for the manager.                          *)
task3_usdy_prodAfterManager ==
  <<Get("USDYFactory"), Get("Blocklist"), Get("Allowlist"), Get("USDYManager"),
    AddContract("USDYFactory"),
    ProposeFunctionCall("USDYFactory", "deployUSDY",
                        <<"Blocklist", "Allowlist", SANCTION_ADDRESS>>)>>

task3_usdy_prod ==
  <<Get("USDYFactory"), Get("Blocklist"), Get("Allowlist"),
    AddContract("USDYFactory"),
    ProposeFunctionCall("USDYFactory", "deployUSDY",
                        <<"Blocklist", "Allowlist", SANCTION_ADDRESS>>)>>

task4_save_usdy_prod ==
  <<Get("USDYFactory"),
    Read("USDYFactory", "usdyProxy"), Read("USDYFactory", "usdyProxyAdmin"),
    Save("USDY", "usdyProxy"), Save("ProxyAdminUSDY", "usdyProxyAdmin"),
    AddContract("usdyProxy"), AddContract("usdyProxyAdmin")>>

task5_usdyManager_prod ==
  <<Get("USDYManager"), Get("USDY_Pricer"),
    AddContract("USDYManager"), AddContract("USDY_Pricer"),
    Get("USDY"),
    ProposeGrantRole("USDY", "MINTER_ROLE", "USDYManager"),
    ProposeGrantRole("USDY", "PAUSER_ROLE", PROD_PAUSER_USDY),
    ProposeFunctionCall("USDYManager", "setPricer", <<"USDY_Pricer">>),
    ProposeGrantRole("USDYManager", "PRICE_ID_SETTER_ROLE", PROD_MANAGER_ADMIN_USDY),
    ProposeGrantRole("USDYManager", "TIMESTAMP_SETTER_ROLE", PROD_MANAGER_ADMIN_USDY),
    ProposeGrantRole("USDYManager", "PAUSER_ROLE", PROD_PAUSER_USDY),
    ProposeGrantRole("USDYManager", "LIST_CONFIGURER_ROLE", PROD_MANAGER_ADMIN_USDY),
    ProposeGrantRole("USDYManager", "RELAYER_ROLE", PROD_MANAGER_ADMIN_USDY)>>

-----------------------------------------------------------------------------
(* src/deploy/usdy/local, with the signers of the local node               *)
local_deploy_allowlist ==
  <<Deploy("AllowlistFactory", "AllowlistFactory", <<"guardian">>),
    Get("AllowlistFactory"),
    Transact("guardian", "AllowlistFactory", "deployAllowlist", <<"guardian", "guardian">>),
    Read("AllowlistFactory", "allowlistProxy"), Read("AllowlistFactory", "allowlistProxyAdmin"),
    Read("AllowlistFactory", "allowlistImplementation"),
    Save("Allowlist", "allowlistProxy"), Save("ProxyAdminAllowlist", "allowlistProxyAdmin"),
    Save("AllowlistImplementation", "allowlistImplementation")>>

local_deploy_blocklist ==
  <<Deploy("Blocklist", "Blocklist", <<>>),
    Get("Blocklist"),
    Transact("deployer", "Blocklist", "transferOwnership", <<"guardian">>),
    Transact("guardian", "Blocklist", "acceptOwnership", <<>>)>>

local_deploy_pricer ==
  <<Deploy("USDY_Pricer", "Pricer", <<"guardian", "managerAdmin">>),
    Get("USDY_Pricer"),
    Transact("managerAdmin", "USDY_Pricer", "addPrice", <<"10e18">>)>>

local_deploy_usdy_factory ==
  <<Deploy("USDYFactory", "USDYFactory", <<"guardian">>),
    Get("USDYFactory"), Get("Blocklist"), Get("Allowlist"),
    Transact("guardian", "USDYFactory", "deployUSDY",
             <<"Blocklist", "Allowlist", SANCTION_ADDRESS>>),
    Read("USDYFactory", "usdyProxy"), Read("USDYFactory", "usdyProxyAdmin"),
    Read("USDYFactory", "usdyImplementation"),
    Save("USDY", "usdyProxy"), Save("ProxyAdminUSDY", "usdyProxyAdmin"),
    Save("USDYImplementation", "usdyImplementation")>>

(* Mutation: the guardian sends what the managerAdmin should.             *)
local_deploy_usdyManagerByGuardian ==
  <<Get("USDY"), Get("Blocklist"),
    Deploy("USDYManager", "USDYManager",
           <<USDC_MAINNET, "USDY", "managerAdmin", "pauser", "assetSender", "feeRecipient",
             "1000e6", "10e18", "Blocklist", SANCTION_ADDRESS>>),
    Get("USDYManager"), Get("USDY_Pricer"),
    Transact("guardian", "USDYManager", "setPricer", <<"USDY_Pricer">>)>>

local_deploy_usdyManager ==
  <<Get("USDY"), Get("Blocklist"),
    Deploy("USDYManager", "USDYManager",
           <<USDC_MAINNET, "USDY", "managerAdmin", "pauser", "assetSender", "feeRecipient",
             "1000e6", "10e18", "Blocklist", SANCTION_ADDRESS>>),
    Get("USDYManager"), Get("USDY_Pricer"),
    TransactGrantRole("guardian", "USDY", "MINTER_ROLE", "USDYManager"),
    TransactGrantRole("managerAdmin", "USDYManager", "PRICE_ID_SETTER_ROLE", "managerAdmin"),
    TransactGrantRole("managerAdmin", "USDYManager", "TIMESTAMP_SETTER_ROLE", "managerAdmin"),
    TransactGrantRole("managerAdmin", "USDYManager", "PAUSER_ADMIN", "managerAdmin"),
    TransactGrantRole("managerAdmin", "USDYManager", "RELAYER_ROLE", "relayer"),
    Transact("managerAdmin", "USDYManager", "setPricer", <<"USDY_Pricer">>)>>

-----------------------------------------------------------------------------
(* The order of the scripts.  In production the numbers of the deployments *)
(* and of the tasks are two orders of their own: the operator decides how  *)
(* they interleave.  hardhat node --tags Local runs the files in the order *)
(* of their names, but usdy_factory (tag USDY) before usdyManager, which   *)
(* depends on it.                                                          *)
Networks == {"production", "local"}
Tracks == {"deploy", "task"}

Scripts ==
  [production |-> [deploy |-> <<deployAllowlist_Factory, deployBlocklist, deployUSDY_Factory,
                                deploy_usdyManager, deploy_usdyPricer>>,
                   task   |-> <<task1_usdy_prod, task2_save_usdy_prod, task3_usdy_prod,
                                task4_save_usdy_prod, task5_usdyManager_prod>>],
   local      |-> [deploy |-> <<local_deploy_allowlist, local_deploy_blocklist,
                                local_deploy_pricer, local_deploy_usdy_factory,
                                local_deploy_usdyManager>>,
                   task   |-> <<>>]]
==============================================================================
