------------------------------ MODULE Deployment ------------------------------
(***************************************************************************)
(* The deployment of USDY: an operator runs the scripts of                 *)
(* DeploymentScripts, one after the other, against the contracts of        *)
(* DeployedContracts.  In production the tasks do not send transactions:   *)
(* they propose them in Defender to a Gnosis Safe, whose owners execute    *)
(* each when they like, while the operator goes on.  On the local network  *)
(* the signers send everything themselves.                                 *)
(*                                                                         *)
(* A script is a process without memory: what one leaves to the next is on *)
(* the chain or in the store of deployments.  One that throws, for a       *)
(* reason of its own or because the network or Defender failed, has done   *)
(* what it did so far and is run again from its beginning.                 *)
(***************************************************************************)
EXTENDS DeployedContracts, DeploymentScripts, FiniteSets

Bag == INSTANCE BagsExt

CONSTANTS MaxFailures,  \* bound: how often a script fails for outside reasons
          MaxPending,   \* bound: open transactions that do not keep the operator from
                        \* starting a script
          UsedNetworks  \* the networks that a behaviour may start on

ASSUME DeploymentAssumption == /\ MaxFailures \in Nat
                               /\ MaxPending \in Nat
                               /\ UsedNetworks \subseteq Networks

\* No contract of the source but a Pricer is deployed under the name USDYPricer.
ASSUME PricerAssumption == USDYPricer \notin Kinds \ {"Pricer"}

VARIABLES network,     \* the network the scripts run on
          next,        \* track -> the number of its next script
          running,     \* the track whose script runs, or "none"
          step,        \* the next step of the running script
          local,       \* its variables
          deployments, \* the store: name -> address and constructor arguments
          registered,  \* the addresses added to Defender
          proposals,   \* the transactions proposed and not executed yet: a bag, since
                       \* two runs of a task propose the same transactions twice
          failures,    \* how many scripts failed for outside reasons
          undone,      \* history: the tracks whose script failed so and has not ended since
          hasty        \* history: a script was started before the Safe had executed all
                       \* proposals, or before a script that failed was run again

storeVars == <<deployments, registered>>
scriptVars == <<running, step, local>>
history == <<undone, hasty>>
vars == <<chainVars, storeVars, scriptVars, network, next, proposals, failures, history>>

\* The names under which a deployment is stored, and those of a script's variables.
DeploymentNames == {"AllowlistFactory", "Allowlist", "ProxyAdminAllowlist",
                    "AllowlistImplementation", "Blocklist", "USDYFactory", "USDY",
                    "ProxyAdminUSDY", "USDYImplementation", "USDYManager", "USDY_Pricer"}
Getters == {"allowlistProxy", "allowlistProxyAdmin", "allowlistImplementation",
            "usdyProxy", "usdyProxyAdmin", "usdyImplementation"}
Variables == DeploymentNames \cup Getters

Absent == External("absent")  \* not in the store; not assigned yet

Address == (Kinds \cup ConstantNames \cup {"0x0", "absent"}) \X Nat
RoleNames == {"none"} \cup UNION {RolesOf[kind] : kind \in DOMAIN RolesOf}

\* The types of the variables.
TypeOK ==
  /\ ChainTypeOK(Address)
  /\ network \in Networks
  /\ next \in [Tracks -> Nat]
  /\ running \in Tracks \cup {"none"}
  /\ step \in Nat
  /\ local \in [Variables -> Address]
  /\ deployments \in [DeploymentNames -> [address : Address, args : Seq(Address)]]
  /\ registered \subseteq Address
  /\ proposals \in [DOMAIN proposals -> Nat \ {0}]
  /\ \A p \in DOMAIN proposals :
       p \in [from : Address, to : Address, fn : FunctionNames, role : RoleNames,
              args : Seq(Address)]
  /\ failures \in 0..MaxFailures
  /\ undone \subseteq Tracks
  /\ hasty \in BOOLEAN

Script(track) == Scripts[network][track][next[track]]
Step == Script(running)[step]

\* What a name in a script stands for.
Value(name) == IF name \in Variables THEN local[name] ELSE External(name)
Values(names) == [i \in DOMAIN names |-> Value(names[i])]

(* Mutation: contracts are passed instead of their addresses.             *)
TransactionOfNames(s) == [from |-> External(s.from), to |-> Value(s.to), fn |-> s.fn,
                          role |-> s.role, args |-> s.args]

\* A call as a script asks for it, with the account that sends it.
Transaction(s) == [from |-> External(s.from), to |-> Value(s.to), fn |-> s.fn,
                   role |-> s.role, args |-> Values(s.args)]

Init == /\ ChainInit
        /\ network \in UsedNetworks
        /\ next = [t \in Tracks |-> 1]
        /\ running = "none"
        /\ step = 1
        /\ local = [v \in Variables |-> Absent]
        /\ deployments = [n \in DeploymentNames |-> [address |-> Absent, args |-> <<>>]]
        /\ registered = {}
        /\ proposals = <<>>  \* the empty bag
        /\ failures = 0
        /\ undone = {}
        /\ hasty = FALSE

-----------------------------------------------------------------------------
(* The operator.                                                           *)
Start(track) ==
  /\ running = "none"
  /\ Cardinality(DOMAIN proposals) <= MaxPending
  /\ next[track] \in DOMAIN Scripts[network][track]
  /\ running' = track
  /\ step' = 1
  /\ local' = [v \in Variables |-> Absent]
  /\ hasty' = (hasty \/ DOMAIN proposals # {} \/ undone \ {track} # {})
  /\ UNCHANGED <<chainVars, storeVars, network, next, proposals, failures, undone>>

\* The process ends, and its variables with it.
Exit == /\ running' = "none"
        /\ step' = 1
        /\ local' = [v \in Variables |-> Absent]

IsRunning == running # "none" /\ step \in DOMAIN Script(running)

Finish == /\ running # "none" /\ step = Len(Script(running)) + 1
          /\ next' = [next EXCEPT ![running] = @ + 1]
          /\ undone' = undone \ {running}
          /\ Exit
          /\ UNCHANGED <<chainVars, storeVars, network, proposals, failures, hasty>>

-----------------------------------------------------------------------------
(* The steps of a script.                                                  *)

\* hardhat-deploy returns what the store has under the name when the arguments
\* are the same, and deploys anew when they differ.
IsDeployed(name, args) ==
  deployments[name].address # Absent /\ deployments[name].args = args

\* A variable used before it is assigned throws, and so does a getter of an address
\* without code.
Assigned(name) == name \in Variables => local[name] # Absent

StepSucceeds ==
  /\ \A name \in Step.uses : Assigned(name)
  /\ Step.op = "deploy"   => \/ IsDeployed(Step.name, Values(Step.args))
                             \/ CanConstruct(Step.kind, Values(Step.args))
  /\ Step.op = "get"      => deployments[Step.name].address # Absent
  /\ Step.op = "read"     => Exists(Value(Step.of))
  /\ Step.op = "require"  => Value(Step.name) # Zero
  /\ Step.op = "transact" => CanCall(External(Step.from), Transaction(Step))

GoOn(op) == /\ IsRunning
            /\ Step.op = op
            /\ StepSucceeds
            /\ step' = step + 1
            /\ UNCHANGED <<running, network, next, failures, history>>

RunDeploy ==
  LET args == Values(Step.args) IN
  /\ GoOn("deploy")
  /\ IF IsDeployed(Step.name, args)
     THEN UNCHANGED <<chainVars, deployments>>
     ELSE /\ Construct(Step.kind, External("deployer"), args)
          /\ deployments' = [deployments EXCEPT
                               ![Step.name] = [address |-> Fresh(Step.kind), args |-> args]]
  /\ UNCHANGED <<local, registered, proposals>>

RunGet ==
  /\ GoOn("get")
  /\ local' = [local EXCEPT ![Step.name] = deployments[Step.name].address]
  /\ UNCHANGED <<chainVars, storeVars, proposals>>

RunRead ==
  /\ GoOn("read")
  /\ local' = [local EXCEPT ![Step.name] = ref[<<Value(Step.of), Step.name>>]]
  /\ UNCHANGED <<chainVars, storeVars, proposals>>

RunRequire ==
  /\ GoOn("require")
  /\ UNCHANGED <<chainVars, storeVars, local, proposals>>

RunSave ==
  /\ GoOn("save")
  /\ deployments' = [deployments EXCEPT ![Step.name] = [address |-> Value(Step.of), args |-> <<>>]]
  /\ UNCHANGED <<chainVars, registered, local, proposals>>

RunAddContract ==
  /\ GoOn("addContract")
  /\ registered' = registered \cup {Value(Step.of)}
  /\ UNCHANGED <<chainVars, deployments, local, proposals>>

RunPropose ==
  /\ GoOn("propose")
  /\ proposals' = Bag!BagAdd(proposals, Transaction(Step))
  /\ UNCHANGED <<chainVars, storeVars, local>>

RunTransact ==
  /\ GoOn("transact")
  /\ Call(External(Step.from), Transaction(Step))
  /\ UNCHANGED <<storeVars, local, proposals>>

RunStep == \/ RunDeploy \/ RunGet \/ RunRead \/ RunRequire \/ RunSave
           \/ RunAddContract \/ RunPropose \/ RunTransact

Throw == Exit /\ UNCHANGED <<chainVars, storeVars, network, next, proposals, hasty>>

\* A step that cannot succeed throws: the script was started too early, and others
\* come first.
StepThrows == /\ IsRunning
              /\ ~StepSucceeds
              /\ Throw
              /\ undone' = undone \ {running}
              /\ UNCHANGED failures

\* Before any step, and after the last one, the script may be lost and have to be
\* run again (the node, Defender or the operator's machine failed).
ScriptFails == /\ network = "production"
               /\ running # "none"
               /\ failures < MaxFailures
               /\ failures' = failures + 1
               /\ undone' = undone \cup {running}
               /\ Throw

-----------------------------------------------------------------------------
(* The owners of the Safe.  A proposal whose transaction would revert stays. *)
SafeExecutes(proposal) ==
  /\ proposal \in DOMAIN proposals
  /\ Call(proposal.from, proposal)
  /\ proposals' = Bag!BagRemove(proposals, proposal)
  /\ UNCHANGED <<storeVars, scriptVars, network, next, failures, history>>

Next == \/ \E track \in Tracks : Start(track)
        \/ RunStep
        \/ Finish
        \/ StepThrows
        \/ ScriptFails
        \/ \E proposal \in DOMAIN proposals : SafeExecutes(proposal)

Spec == Init /\ [][Next]_vars

\* The scripts are processes that run on by themselves, and on the local network
\* hardhat starts one after the other.  Nothing makes the operator start the next
\* script in production, or the owners of the Safe execute a proposal.
Fairness == /\ WF_vars(RunStep \/ StepThrows \/ Finish)
            /\ WF_vars(network = "local" /\ \E track \in Tracks : Start(track))

FairSpec == Spec /\ Fairness
==============================================================================
