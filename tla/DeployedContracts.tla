-------------------------- MODULE DeployedContracts --------------------------
(***************************************************************************)
(* The chain as a deployment sees it: which contracts exist, who holds     *)
(* which role on them, and to which addresses they point.                  *)
(*                                                                         *)
(* Modelled are the constructors of every contract the scripts of          *)
(* src/deploy create (Construct), the two factories (deployUSDY,           *)
(* deployAllowlist), the roles of AccessControlEnumerable with the order   *)
(* of their members, Ownable2Step of the blocklist, and setPricer.  What   *)
(* the contracts do once they are deployed is the subject of the other     *)
(* modules.                                                                *)
(*                                                                         *)
(* An address is a pair: <<kind, n>> is the n-th contract of its kind,     *)
(* <<name, 0>> an address that exists without being deployed here.  A      *)
(* number handed to a constructor is written in the same form.             *)
(***************************************************************************)
EXTENDS Naturals, Sequences, Functions

CONSTANT MaxInstances \* bound: contracts of one kind

ASSUME InstancesAssumption == MaxInstances \in Nat

VARIABLES created, \* kind -> how many contracts of it exist
          members, \* <<contract, role>> -> the members of the role, in order
          ref      \* <<contract, field>> -> the address it holds there

chainVars == <<created, members, ref>>

External(name) == <<name, 0>>
Zero == External("0x0")

ProxyParts == {"proxyAdmin", "implementation"}

\* The roles the source names for each kind of contract.  5-usdyManager-prod.ts
\* also grants two on the manager that the manager does not know.
RolesOf ==
  [USDY       |-> {"DEFAULT_ADMIN_ROLE", "MINTER_ROLE", "PAUSER_ROLE", "BURNER_ROLE",
                   "LIST_CONFIGURER_ROLE"},
   Allowlist  |-> {"DEFAULT_ADMIN_ROLE", "ALLOWLIST_ADMIN", "ALLOWLIST_SETTER"},
   USDYManager |-> {"DEFAULT_ADMIN_ROLE", "MANAGER_ADMIN", "PAUSER_ADMIN", "RELAYER_ROLE",
                   "PRICE_ID_SETTER_ROLE", "TIMESTAMP_SETTER_ROLE", "PAUSER_ROLE",
                   "LIST_CONFIGURER_ROLE"},
   Pricer     |-> {"DEFAULT_ADMIN_ROLE", "PRICE_UPDATE_ROLE"}]

\* The addresses each kind of contract keeps.
FieldsOf ==
  [AllowlistFactory |-> {"guardian", "allowlistProxy", "allowlistProxyAdmin",
                         "allowlistImplementation"},
   USDYFactory      |-> {"guardian", "usdyProxy", "usdyProxyAdmin", "usdyImplementation"},
   Allowlist        |-> ProxyParts,
   USDY             |-> ProxyParts \cup {"blocklist", "allowlist", "sanctionsList"},
   AllowlistProxyAdmin |-> {"owner"},
   USDYProxyAdmin   |-> {"owner"},
   Blocklist        |-> {"owner", "pendingOwner"},
   Pricer           |-> {"latestPrice"},
   USDYManager      |-> {"collateral", "rwa", "assetSender", "feeRecipient", "blocklist",
                         "minimumDepositAmount", "minimumRedemptionAmount",
                         "minimumOffChainRedemptionAmount", "sanctionsList", "pricer"}]

Kinds == (DOMAIN RolesOf) \cup (DOMAIN FieldsOf)
           \cup {"AllowlistImplementation", "USDYImplementation"}
Contracts == Kinds \X (1..MaxInstances)

RoleSlots == UNION {{<<c, role>> : role \in RolesOf[c[1]]} :
                      c \in (DOMAIN RolesOf) \X (1..MaxInstances)}
FieldSlots == UNION {{<<c, field>> : field \in FieldsOf[c[1]]} :
                       c \in (DOMAIN FieldsOf) \X (1..MaxInstances)}

ChainTypeOK(addresses) == /\ created \in [Kinds -> 0..MaxInstances]
                          /\ members \in [RoleSlots -> Seq(addresses)]
                          /\ ref \in [FieldSlots -> addresses]

ChainInit == /\ created = [k \in Kinds |-> 0]
             /\ members = [slot \in RoleSlots |-> <<>>]
             /\ ref = [slot \in FieldSlots |-> Zero]

Exists(c) == c[1] \in Kinds /\ c[2] \in 1..created[c[1]]
Fresh(kind) == <<kind, created[kind] + 1>>

-----------------------------------------------------------------------------
(* Roles.  EnumerableSet appends a new member, and fills the place of a    *)
(* removed one with the last.                                              *)
(* Mutation: a member is added again.                                     *)
GrantedTwice(m, slot, account) == [m EXCEPT ![slot] = Append(@, account)]

Granted(m, slot, account) ==
  IF account \in Range(m[slot]) THEN m ELSE [m EXCEPT ![slot] = Append(@, account)]

WithoutMember(s, account) ==
  [i \in 1..(Len(s) - 1) |-> IF s[i] = account THEN s[Len(s)] ELSE s[i]]

Revoked(m, slot, account) ==
  IF account \in Range(m[slot]) THEN [m EXCEPT ![slot] = WithoutMember(@, account)] ELSE m

HasRole(c, role, account) == account \in Range(members[<<c, role>>])

\* RWAHub gives three roles of the manager to its MANAGER_ADMIN.
RoleAdmin(kind, role) ==
  IF kind = "USDYManager" /\ role \in {"PAUSER_ADMIN", "PRICE_ID_SETTER_ROLE", "RELAYER_ROLE"}
  THEN "MANAGER_ADMIN" ELSE "DEFAULT_ADMIN_ROLE"

-----------------------------------------------------------------------------
(* The factories.  Each call deploys an implementation, a ProxyAdmin and a *)
(* proxy, which get the same number here, and initializes the proxy in the *)
(* same transaction.                                                       *)

(* Mutation: the factory keeps the administration of the token.           *)
RolesWhenFactoryStays(token, factory, guardian) ==
  Granted(Granted(Granted(members,
    <<token, "DEFAULT_ADMIN_ROLE">>, factory),
    <<token, "DEFAULT_ADMIN_ROLE">>, guardian),
    <<token, "PAUSER_ROLE">>, guardian)

\* USDY.initialize makes its caller, the factory, admin, minter and pauser;
\* deployUSDY hands the token to the guardian and gives the three roles back.
RolesAfterDeployUSDY(token, factory, guardian) ==
  LET slot(role) == <<token, role>>
      initialized == Granted(Granted(Granted(members,
                       slot("DEFAULT_ADMIN_ROLE"), factory),
                       slot("MINTER_ROLE"), factory),
                       slot("PAUSER_ROLE"), factory)
      handedOver  == Granted(Granted(initialized,
                       slot("DEFAULT_ADMIN_ROLE"), guardian),
                       slot("PAUSER_ROLE"), guardian)
  IN  Revoked(Revoked(Revoked(handedOver,
        slot("MINTER_ROLE"), factory),
        slot("PAUSER_ROLE"), factory),
        slot("DEFAULT_ADMIN_ROLE"), factory)

(* Mutation: a list may be address(0).                                    *)
CanDeployUSDYWithAnyList(sender, factory, lists) ==
  sender = ref[<<factory, "guardian">>] /\ created["USDY"] < MaxInstances

\* The clients of the lists refuse address(0).
CanDeployUSDY(sender, factory, lists) ==
  /\ sender = ref[<<factory, "guardian">>]
  /\ \A i \in 1..3 : lists[i] # Zero
  /\ created["USDY"] < MaxInstances

DeployUSDY(sender, factory, lists) ==
  LET token == Fresh("USDY")
      proxyAdmin == Fresh("USDYProxyAdmin")
      implementation == Fresh("USDYImplementation")
  IN  /\ CanDeployUSDY(sender, factory, lists)
      /\ created' = [created EXCEPT !["USDY"] = @ + 1, !["USDYProxyAdmin"] = @ + 1,
                                    !["USDYImplementation"] = @ + 1]
      /\ members' = RolesAfterDeployUSDY(token, factory, sender)
      /\ ref' = [ref EXCEPT ![<<factory, "usdyProxy">>] = token,
                            ![<<factory, "usdyProxyAdmin">>] = proxyAdmin,
                            ![<<factory, "usdyImplementation">>] = implementation,
                            ![<<token, "proxyAdmin">>] = proxyAdmin,
                            ![<<token, "implementation">>] = implementation,
                            ![<<token, "blocklist">>] = lists[1],
                            ![<<token, "allowlist">>] = lists[2],
                            ![<<token, "sanctionsList">>] = lists[3],
                            ![<<proxyAdmin, "owner">>] = sender]

CanDeployAllowlist(sender, factory) == /\ sender = ref[<<factory, "guardian">>]
                                       /\ created["Allowlist"] < MaxInstances

DeployAllowlist(sender, factory, admin, setter) ==
  LET list == Fresh("Allowlist")
      proxyAdmin == Fresh("AllowlistProxyAdmin")
      implementation == Fresh("AllowlistImplementation")
  IN  /\ CanDeployAllowlist(sender, factory)
      /\ created' = [created EXCEPT !["Allowlist"] = @ + 1, !["AllowlistProxyAdmin"] = @ + 1,
                                    !["AllowlistImplementation"] = @ + 1]
      /\ members' = Granted(Granted(Granted(members,
                       <<list, "DEFAULT_ADMIN_ROLE">>, admin),
                       <<list, "ALLOWLIST_ADMIN">>, admin),
                       <<list, "ALLOWLIST_SETTER">>, setter)
      /\ ref' = [ref EXCEPT ![<<factory, "allowlistProxy">>] = list,
                            ![<<factory, "allowlistProxyAdmin">>] = proxyAdmin,
                            ![<<factory, "allowlistImplementation">>] = implementation,
                            ![<<list, "proxyAdmin">>] = proxyAdmin,
                            ![<<list, "implementation">>] = implementation,
                            ![<<proxyAdmin, "owner">>] = sender]

-----------------------------------------------------------------------------
(* The constructors.                                                       *)

\* The manager wants a collateral, a token, an asset sender, a fee recipient and
\* two lists that are not address(0), and asks the token for its decimals.  An
\* argument that is undefined fails.
Undefined == External("undefined")

CanConstruct(kind, args) ==
  /\ kind \in Kinds
  /\ created[kind] < MaxInstances
  /\ \A i \in DOMAIN args : args[i] # Undefined
  /\ kind = "USDYManager" => /\ \A i \in {1, 2, 5, 6, 9, 10} : args[i] # Zero
                             /\ Exists(args[2])

RefsAfterConstruct(kind, c, sender, args) ==
  IF kind \in {"AllowlistFactory", "USDYFactory"} THEN [ref EXCEPT ![<<c, "guardian">>] = args[1]]
  ELSE IF kind = "Blocklist" THEN [ref EXCEPT ![<<c, "owner">>] = sender]
  ELSE IF kind = "USDYManager"
  THEN [ref EXCEPT ![<<c, "collateral">>] = args[1],
                   ![<<c, "rwa">>] = args[2],
                   ![<<c, "assetSender">>] = args[5],
                   ![<<c, "feeRecipient">>] = args[6],
                   ![<<c, "minimumDepositAmount">>] = args[7],
                   ![<<c, "minimumRedemptionAmount">>] = args[8],
                   ![<<c, "minimumOffChainRedemptionAmount">>] = args[8],
                   ![<<c, "blocklist">>] = args[9],
                   ![<<c, "sanctionsList">>] = args[10]]
  ELSE ref

RolesAfterConstruct(kind, c, args) ==
  IF kind = "Pricer"
  THEN Granted(Granted(members, <<c, "DEFAULT_ADMIN_ROLE">>, args[1]),
               <<c, "PRICE_UPDATE_ROLE">>, args[2])
  ELSE IF kind = "USDYManager"
  THEN Granted(Granted(Granted(members, <<c, "DEFAULT_ADMIN_ROLE">>, args[3]),
                       <<c, "MANAGER_ADMIN">>, args[3]),
               <<c, "PAUSER_ADMIN">>, args[4])
  ELSE members

Construct(kind, sender, args) ==
  /\ CanConstruct(kind, args)
  /\ created' = [created EXCEPT ![kind] = @ + 1]
  /\ members' = RolesAfterConstruct(kind, Fresh(kind), args)
  /\ ref' = RefsAfterConstruct(kind, Fresh(kind), sender, args)

-----------------------------------------------------------------------------
(* The transactions of the scripts: what a call needs, and what it does.   *)
(* A call is a record of the contract, the function, the role (for         *)
(* grantRole) and the arguments.  Whatever is sent to an address without   *)
(* code succeeds and does nothing.                                         *)
CanCall(sender, call) ==
  Exists(call.to) =>
    /\ call.fn = "deployAllowlist" => CanDeployAllowlist(sender, call.to)
    /\ call.fn = "deployUSDY" => CanDeployUSDY(sender, call.to, call.args)
    /\ call.fn = "grantRole" => HasRole(call.to, RoleAdmin(call.to[1], call.role), sender)
    /\ call.fn = "setPricer" => HasRole(call.to, "MANAGER_ADMIN", sender)
    /\ call.fn = "addPrice" => HasRole(call.to, "PRICE_UPDATE_ROLE", sender)
    /\ call.fn = "transferOwnership" => sender = ref[<<call.to, "owner">>]
    /\ call.fn = "acceptOwnership" => sender = ref[<<call.to, "pendingOwner">>]

GrantRole(call) == /\ call.fn = "grantRole"
                   /\ members' = Granted(members, <<call.to, call.role>>, call.args[1])
                   /\ UNCHANGED <<created, ref>>

SetPricer(call) == /\ call.fn = "setPricer"
                   /\ ref' = [ref EXCEPT ![<<call.to, "pricer">>] = call.args[1]]
                   /\ UNCHANGED <<created, members>>

\* The scripts add one price, to a pricer that has none.
AddPrice(call) == /\ call.fn = "addPrice"
                  /\ ref' = [ref EXCEPT ![<<call.to, "latestPrice">>] = call.args[1]]
                  /\ UNCHANGED <<created, members>>

TransferOwnership(call) == /\ call.fn = "transferOwnership"
                           /\ ref' = [ref EXCEPT ![<<call.to, "pendingOwner">>] = call.args[1]]
                           /\ UNCHANGED <<created, members>>

AcceptOwnership(sender, call) == /\ call.fn = "acceptOwnership"
                                 /\ ref' = [ref EXCEPT ![<<call.to, "owner">>] = sender,
                                                       ![<<call.to, "pendingOwner">>] = Zero]
                                 /\ UNCHANGED <<created, members>>

Call(sender, call) ==
  /\ CanCall(sender, call)
  /\ \/ Exists(call.to) /\ call.fn = "deployAllowlist"
        /\ DeployAllowlist(sender, call.to, call.args[1], call.args[2])
     \/ Exists(call.to) /\ call.fn = "deployUSDY" /\ DeployUSDY(sender, call.to, call.args)
     \/ Exists(call.to) /\ \/ GrantRole(call)
                           \/ SetPricer(call)
                           \/ AddPrice(call)
                           \/ TransferOwnership(call)
                           \/ AcceptOwnership(sender, call)
     \/ ~Exists(call.to) /\ UNCHANGED chainVars
==============================================================================
