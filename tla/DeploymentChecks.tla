--------------------------- MODULE DeploymentChecks ---------------------------
(***************************************************************************)
(* What src/scripts/usdy/verification-scripts check of a finished          *)
(* deployment, and what has to be true of one while it is going on.        *)
(*                                                                         *)
(* config.ts names the contracts by the addresses they got on mainnet;     *)
(* here they are those the store of deployments holds.  The check tasks    *)
(* print what does not match (console.assert) and never fail.  Not         *)
(* modelled: what the contracts compile in (names, symbols, decimals, role *)
(* hashes and the assetRecipient of config.ts:131, a constant of RWAHub);  *)
(* fees, pauses, terms and the proxies' rollback and beacon slots, which   *)
(* no script changes; and the implementations, whose addresses no          *)
(* production script stores.  The rate check oracle has no address in      *)
(* config.ts and no script that deploys it.                                *)
(***************************************************************************)
EXTENDS Deployment

At(name) == deployments[name].address

USDY_MULTISIG == External("multisig")
PAUSER == External("pauser multisig")
USDY_MANAGER_ASSET_SENDER == External("asset sender")

\* config.ts
usdy_config ==
  [usdy |-> [defaultAdminRoleMembers   |-> <<USDY_MULTISIG>>,
             burnerRoleMembers         |-> <<>>,
             listConfigurerRoleMembers |-> <<USDY_MULTISIG>>,
             minterRoleMembers         |-> <<At("USDYManager")>>,
             pauserRoleMembers         |-> <<USDY_MULTISIG, PAUSER>>,
             allowlist     |-> At("Allowlist"),
             blocklist     |-> At("Blocklist"),
             sanctionsList |-> External(SANCTION_ADDRESS),
             proxyAdmin    |-> At("ProxyAdminUSDY"),
             owner         |-> USDY_MULTISIG],
   allowlist |-> [defaultAdminRoleMembers    |-> <<USDY_MULTISIG>>,
                  allowlistSetterRoleMembers |-> <<USDY_MULTISIG>>,
                  allowlistAdminRoleMembers  |-> <<USDY_MULTISIG>>,
                  proxyAdmin                 |-> At("ProxyAdminAllowlist"),
                  owner                      |-> USDY_MULTISIG],
   blocklist |-> [owner |-> USDY_MULTISIG],
   usdyManager |-> [defaultAdminRoleMembers    |-> <<USDY_MULTISIG>>,
                    managerAdminRoleMembers    |-> <<USDY_MULTISIG>>,
                    pauserAdminRoleMembers     |-> <<PAUSER>>,
                    priceIDSetterRoleMembers   |-> <<USDY_MULTISIG>>,
                    relayerRoleMembers         |-> <<USDY_MULTISIG>>,
                    timestampSetterRoleMembers |-> <<USDY_MULTISIG>>,
                    storage |-> [assetSender   |-> USDY_MANAGER_ASSET_SENDER,
                                 feeRecipient  |-> USDY_MULTISIG,
                                 blocklist     |-> At("Blocklist"),
                                 collateral    |-> External(USDC_MAINNET),
                                 rwa           |-> At("USDY"),
                                 minimumDepositAmount            |-> External("500e6"),
                                 minimumOffChainRedemptionAmount |-> External("500e18"),
                                 minimumRedemptionAmount         |-> External("500e18"),
                                 pricer        |-> At("USDY_Pricer"),
                                 sanctionsList |-> External(SANCTION_ADDRESS)]],
   usdy_pricer |-> [defaultAdminRoleMembers |-> <<USDY_MULTISIG>>,
                    priceUpdateRoleMembers  |-> <<USDY_MULTISIG>>]]

\* helpers.ts: the count and the order of the members.
assertRoleMembers(c, role, memberArray) == members[<<c, role>>] = memberArray

\* helpers.ts: every value of the storage record is what the getter answers.
assertAgainstBlockchain(c, storage) == \A name \in DOMAIN storage : ref[<<c, name>>] = storage[name]

\* What both proxies are checked for: the admin slot, and who owns the admin.
CheckProxy(proxy, expected) ==
  /\ ref[<<proxy, "proxyAdmin">>] = expected.proxyAdmin
  /\ Exists(expected.proxyAdmin)
  /\ ref[<<expected.proxyAdmin, "owner">>] = expected.owner

\* assert_usdy_configuration.ts, without the role that CheckListConfigurer is about
CheckUsdyWithoutListConfigurer ==
  LET c == At("USDY")  expected == usdy_config.usdy IN
  /\ Exists(c)
  /\ CheckProxy(c, expected)
  /\ assertRoleMembers(c, "DEFAULT_ADMIN_ROLE", expected.defaultAdminRoleMembers)
  /\ assertRoleMembers(c, "BURNER_ROLE", expected.burnerRoleMembers)
  /\ assertRoleMembers(c, "MINTER_ROLE", expected.minterRoleMembers)
  /\ assertRoleMembers(c, "PAUSER_ROLE", expected.pauserRoleMembers)
  /\ assertAgainstBlockchain(c, [f \in {"allowlist", "blocklist", "sanctionsList"} |-> expected[f]])

CheckListConfigurer ==
  assertRoleMembers(At("USDY"), "LIST_CONFIGURER_ROLE", usdy_config.usdy.listConfigurerRoleMembers)

CheckAllowlist ==
  LET c == At("Allowlist")  expected == usdy_config.allowlist IN
  /\ Exists(c)
  /\ CheckProxy(c, expected)
  /\ assertRoleMembers(c, "DEFAULT_ADMIN_ROLE", expected.defaultAdminRoleMembers)
  /\ assertRoleMembers(c, "ALLOWLIST_SETTER", expected.allowlistSetterRoleMembers)
  /\ assertRoleMembers(c, "ALLOWLIST_ADMIN", expected.allowlistAdminRoleMembers)

CheckBlocklist ==
  Exists(At("Blocklist")) /\ assertAgainstBlockchain(At("Blocklist"), usdy_config.blocklist)

CheckUsdyManager ==
  LET c == At("USDYManager")  expected == usdy_config.usdyManager IN
  /\ Exists(c)
  /\ assertRoleMembers(c, "DEFAULT_ADMIN_ROLE", expected.defaultAdminRoleMembers)
  /\ assertRoleMembers(c, "MANAGER_ADMIN", expected.managerAdminRoleMembers)
  /\ assertRoleMembers(c, "PAUSER_ADMIN", expected.pauserAdminRoleMembers)
  /\ assertRoleMembers(c, "PRICE_ID_SETTER_ROLE", expected.priceIDSetterRoleMembers)
  /\ assertRoleMembers(c, "RELAYER_ROLE", expected.relayerRoleMembers)
  /\ assertRoleMembers(c, "TIMESTAMP_SETTER_ROLE", expected.timestampSetterRoleMembers)
  /\ assertAgainstBlockchain(c, expected.storage)

CheckUsdyPricer ==
  LET c == At("USDY_Pricer")  expected == usdy_config.usdy_pricer IN
  /\ Exists(c)
  /\ assertRoleMembers(c, "DEFAULT_ADMIN_ROLE", expected.defaultAdminRoleMembers)
  /\ assertRoleMembers(c, "PRICE_UPDATE_ROLE", expected.priceUpdateRoleMembers)

-----------------------------------------------------------------------------
AllScriptsRun == /\ running = "none"
                 /\ \A t \in Tracks : next[t] = Len(Scripts[network][t]) + 1

Done == AllScriptsRun /\ DOMAIN proposals = {}

Deployed(kind) == {<<kind, n>> : n \in 1..created[kind]}

Guardian == External(IF network = "production" THEN PROD_GUARDIAN_USDY ELSE "guardian")

\* deployUSDY passes a token from the factory to the guardian in one transaction,
\* and proposals arrive in any order, twice, or for the wrong contract: whatever
\* happens, the guardian alone administers every token and owns its ProxyAdmin, and
\* nobody but a manager may mint.
TokensAnswerToGuardian ==
  \A token \in Deployed("USDY") :
    /\ members[<<token, "DEFAULT_ADMIN_ROLE">>] = <<Guardian>>
    /\ Range(members[<<token, "MINTER_ROLE">>]) \subseteq Deployed("USDYManager")
    /\ Range(members[<<token, "PAUSER_ROLE">>]) \subseteq {Guardian, PAUSER}
    /\ \A role \in {"BURNER_ROLE", "LIST_CONFIGURER_ROLE"} : members[<<token, role>>] = <<>>
    /\ ref[<<ref[<<token, "proxyAdmin">>], "owner">>] = Guardian

\* The store may hold address(0) for a contract that the Safe has not deployed yet,
\* and the operator go on with it: still every token asks an allowlist and a
\* blocklist that exist.
TokensHaveRealLists ==
  \A token \in Deployed("USDY") :
    /\ ref[<<token, "allowlist">>] \in Deployed("Allowlist")
    /\ ref[<<token, "blocklist">>] \in Deployed("Blocklist")

\* The token of a manager cannot be changed: it is one that the factory deployed.
ManagersHoldRealTokens ==
  \A manager \in Deployed("USDYManager") :
    /\ ref[<<manager, "rwa">>] \in Deployed("USDY")
    /\ ref[<<manager, "blocklist">>] \in Deployed("Blocklist")

\* When every script was started after the Safe had done what the earlier ones
\* proposed, and one that failed was run again before any other, the result is what
\* config.ts expects, but for two points that no script sees to: nobody may configure
\* the token's lists, and the blocklist stays with the account that deployed it
\* ("Execute in script for prod", local/deploy_blocklist.ts:23).
WiredWhenDone ==
  network = "production" /\ Done /\ ~hasty =>
    /\ CheckUsdyWithoutListConfigurer
    /\ CheckAllowlist
    /\ CheckUsdyManager
    /\ CheckUsdyPricer
    /\ ~CheckListConfigurer /\ ~CheckBlocklist

\* The roles and the wiring that scripts/ci/event_coverage_usdy.ts relies on: what
\* each signer calls, on which contract.
LocalReady ==
  /\ HasRole(At("Allowlist"), "ALLOWLIST_ADMIN", External("guardian"))
  /\ HasRole(At("Allowlist"), "ALLOWLIST_SETTER", External("guardian"))
  /\ HasRole(At("USDYManager"), "PAUSER_ADMIN", External("pauser"))
  /\ \A role \in {"MANAGER_ADMIN", "PRICE_ID_SETTER_ROLE", "TIMESTAMP_SETTER_ROLE"} :
       HasRole(At("USDYManager"), role, External("managerAdmin"))
  /\ HasRole(At("USDY_Pricer"), "PRICE_UPDATE_ROLE", External("managerAdmin"))
  /\ HasRole(At("USDY"), "MINTER_ROLE", At("USDYManager"))
  /\ ref[<<At("USDYManager"), "rwa">>] = At("USDY")
  /\ ref[<<At("USDYManager"), "pricer">>] = At("USDY_Pricer")
  /\ ref[<<At("Blocklist"), "owner">>] = External("guardian")

\* On the local network every script runs to its end, and leaves a system that the
\* coverage script can drive.
LocalCompletes == (network = "local") ~> (Done /\ LocalReady)

\* In production nothing makes the operator or the owners of the Safe go on.  Suppose
\* they do, and the operator never goes on hastily: then the two orders of the scripts
\* never wait for each other, and the deployment ends.
CarefulOperator ==
  /\ [](~hasty)
  /\ \A track \in Tracks : SF_vars(Start(track) /\ ~hasty')
  /\ WF_vars(\E proposal \in DOMAIN proposals : SafeExecutes(proposal))

CarefulOperatorFinishes == CarefulOperator => <>Done
==============================================================================
