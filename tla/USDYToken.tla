------------------------------ MODULE USDYToken ------------------------------
(***************************************************************************)
(* contracts/usdy/USDY.sol with the ERC20 it is built from: balances,      *)
(* allowances and supply, minting by MINTER_ROLE, burning by the holder,   *)
(* by a spender and by BURNER_ROLE, pausing, and the three lists it asks   *)
(* before any of these, with the allowlist of module Allowlist in full.    *)
(*                                                                         *)
(* USDYManager sees of all this only what USDYRestrictions says: who may   *)
(* hold and move USDY.  ImplementsRestrictions shows that this is all the  *)
(* lists and the token's settings ever do.                                 *)
(***************************************************************************)
EXTENDS Allowlist

CONSTANTS NullAddress,      \* address(0)
          Blocklists,       \* deployments of Blocklist.sol
          SanctionsLists,   \* deployments of the (external) sanctions oracle
          Listable,         \* bound: the accounts that these lists ever name
          Amounts,          \* the amounts that are moved and approved
          UintMax,          \* the largest uint256: as an allowance it means "any amount"
          Owners, Spenders, \* bound: the accounts that approve, and are approved
          MaxSupply,        \* bound: the tokens in existence
          MaxEntitled,      \* bound: what an owner allows a spender in total
          Minters, Burners, Pausers, ListConfigurers  \* the holders of the roles

Uint == 0 .. UintMax

ASSUME TokenAssumption ==
  /\ NullAddress \notin Accounts \cup Blocklists \cup SanctionsLists \cup Allowlists
  /\ Listable \subseteq Accounts
  /\ Owners \subseteq Accounts /\ Spenders \subseteq Accounts
  /\ UintMax \in Nat /\ MaxEntitled \in Nat /\ MaxSupply \in Uint /\ Amounts \subseteq 0 .. UintMax

VARIABLES balances, totalSupply,
          allowances, \* <<owner, spender>> -> amount
          listed,     \* list -> the accounts it names
          token,      \* the pause flag and the pointers to the lists
          entitled    \* history: <<owner, spender>> -> what the owner has allowed the
                      \* spender so far, less what the spender used of it

ledgerVars == <<balances, totalSupply, allowances, entitled>>
vars == <<allowlistVars, ledgerVars, listed, token>>

Pairs == Accounts \X Accounts
\* What the token's allowlist answers, of each account
Allowed == {a \in Accounts : isAllowed(token.allowlist, a)}

Restrictions == INSTANCE USDYRestrictions
                  WITH allowed <- Allowed,
                       Listable <- Listable \cup (Accounts \ Contracts),
                       token   <- [paused        |-> token.paused,
                                   blocklist     |-> token.blocklist,
                                   sanctionsList |-> token.sanctionsList]

TypeOK ==
  /\ AllowlistTypeOK
  /\ balances \in [Accounts -> Uint] /\ totalSupply \in Uint
  /\ allowances \in [Pairs -> Uint]
  /\ listed \in [Blocklists \cup SanctionsLists -> SUBSET Accounts]
  /\ token \in [paused : BOOLEAN, blocklist : Blocklists, sanctionsList : SanctionsLists,
                allowlist : Allowlists]
  /\ entitled \in [Pairs -> Int]

\* initialize: the lists are given, none of them address(0).
Init == /\ AllowlistInit
        /\ balances = [a \in Accounts |-> 0] /\ totalSupply = 0
        /\ allowances = [p \in Pairs |-> 0]
        /\ entitled = [p \in Pairs |-> 0]
        /\ listed = [l \in Blocklists \cup SanctionsLists |-> {}]
        /\ token \in [paused : {FALSE}, blocklist : Blocklists,
                      sanctionsList : SanctionsLists, allowlist : ActiveAllowlists]

-----------------------------------------------------------------------------
(* The ledger.                                                             *)

\* _spendAllowance: an allowance of the largest number is never used up.
SpendAllowance(owner, spender, amount) ==
  IF allowances[<<owner, spender>>] = UintMax THEN UNCHANGED <<allowances, entitled>>
  ELSE /\ allowances[<<owner, spender>>] >= amount
       /\ allowances' = [allowances EXCEPT ![<<owner, spender>>] = @ - amount]
       /\ entitled' = [entitled EXCEPT ![<<owner, spender>>] = @ - amount]

\* _mint, _burn and _transfer, with the hook before them: one operator, since a mint
\* comes from address(0) and a burn goes there.
Debited(b, account, amount) ==
  IF account = NullAddress THEN b ELSE [b EXCEPT ![account] = @ - amount]
Credited(b, account, amount) ==
  IF account = NullAddress THEN b ELSE [b EXCEPT ![account] = @ + amount]

(* Mutation: burning skips the hook.                                       *)
MoveBurningUnasked(sender, from, to, amount) ==
  /\ to = NullAddress \/ Restrictions!BeforeTokenTransfer(sender, from, to)
  /\ from # NullAddress => balances[from] >= amount
  /\ from = NullAddress => totalSupply + amount <= MaxSupply
  /\ balances' = Credited(Debited(balances, from, amount), to, amount)
  /\ totalSupply' = totalSupply + (IF from = NullAddress THEN amount ELSE 0)
                                - (IF to = NullAddress THEN amount ELSE 0)
  /\ UNCHANGED <<allowlistVars, listed, token>>

Move(sender, from, to, amount) ==
  /\ Restrictions!BeforeTokenTransfer(sender, from, to)
  /\ from # NullAddress => balances[from] >= amount
  /\ from = NullAddress => totalSupply + amount <= MaxSupply
  /\ balances' = Credited(Debited(balances, from, amount), to, amount)
  /\ totalSupply' = totalSupply + (IF from = NullAddress THEN amount ELSE 0)
                                - (IF to = NullAddress THEN amount ELSE 0)
  /\ UNCHANGED <<allowlistVars, listed, token>>

Mint(sender, to, amount) == /\ sender \in Minters
                            /\ Move(sender, NullAddress, to, amount)
                            /\ UNCHANGED <<allowances, entitled>>

Transfer(sender, to, amount) == /\ Move(sender, sender, to, amount)
                                /\ UNCHANGED <<allowances, entitled>>

TransferFrom(sender, from, to, amount) == /\ SpendAllowance(from, sender, amount)
                                          /\ Move(sender, from, to, amount)

\* burn(amount) of ERC20Burnable
BurnOwn(sender, amount) == /\ Move(sender, sender, NullAddress, amount)
                           /\ UNCHANGED <<allowances, entitled>>

BurnFrom(sender, from, amount) == /\ SpendAllowance(from, sender, amount)
                                  /\ Move(sender, from, NullAddress, amount)

\* burn(from, amount) of USDY, with the same hook: not from an account that is listed
Burn(sender, from, amount) == /\ sender \in Burners
                              /\ Move(sender, from, NullAddress, amount)
                              /\ UNCHANGED <<allowances, entitled>>

\* _approve; the history adds what was newly allowed, or takes back what was withdrawn.
SetAllowance(owner, spender, amount, entitlement) ==
  /\ entitled[<<owner, spender>>] + entitlement <= MaxEntitled
  /\ allowances' = [allowances EXCEPT ![<<owner, spender>>] = amount]
  /\ entitled' = [entitled EXCEPT ![<<owner, spender>>] = @ + entitlement]
  /\ UNCHANGED <<balances, totalSupply, allowlistVars, listed, token>>

Approve(sender, spender, amount) == SetAllowance(sender, spender, amount, amount)

IncreaseAllowance(sender, spender, amount) ==
  /\ allowances[<<sender, spender>>] + amount <= UintMax
  /\ SetAllowance(sender, spender, allowances[<<sender, spender>>] + amount, amount)

(* Mutation: the allowance may be decreased below zero, which wraps.       *)
DecreaseAllowanceUnchecked(sender, spender, amount) ==
  SetAllowance(sender, spender,
               (allowances[<<sender, spender>>] - amount) % (UintMax + 1), -amount)

DecreaseAllowance(sender, spender, amount) ==
  /\ allowances[<<sender, spender>>] >= amount
  /\ SetAllowance(sender, spender, allowances[<<sender, spender>>] - amount, -amount)

-----------------------------------------------------------------------------
(* Settings, and the lists.                                                *)
SetPaused(sender, paused) == /\ sender \in Pausers
                             /\ token.paused # paused
                             /\ token' = [token EXCEPT !.paused = paused]
                             /\ UNCHANGED <<allowlistVars, ledgerVars, listed>>

(* Mutation: address(0) is accepted.                                       *)
SetAnyList(sender, field, list) == /\ sender \in ListConfigurers
                                   /\ token' = [token EXCEPT ![field] = list]
                                   /\ UNCHANGED <<allowlistVars, ledgerVars, listed>>

SetList(sender, field, list) == /\ sender \in ListConfigurers
                                /\ list # NullAddress
                                /\ token' = [token EXCEPT ![field] = list]
                                /\ UNCHANGED <<allowlistVars, ledgerVars, listed>>

SetBlocklist(sender, list)     == SetList(sender, "blocklist", list)
SetSanctionsList(sender, list) == SetList(sender, "sanctionsList", list)
SetAllowlist(sender, list)     == SetList(sender, "allowlist", list)

\* The owner of a blocklist, or the sanctions oracle, changes what it says.
ListStep == /\ UNCHANGED <<allowlistVars, ledgerVars, token>>
            /\ \E list \in Blocklists \cup SanctionsLists, accounts \in SUBSET Listable \ {{}} :
                 Restrictions!AddToList(list, accounts) \/ Restrictions!RemoveFromList(list, accounts)

AllowlistStep == AllowlistNext /\ UNCHANGED <<ledgerVars, listed, token>>

LedgerNext(sender, amount) ==
  \/ Mint(sender, sender, amount) \/ BurnOwn(sender, amount)
  \/ \E other \in Accounts :
       \/ Mint(sender, other, amount) \/ Transfer(sender, other, amount)
       \/ BurnFrom(sender, other, amount) \/ Burn(sender, other, amount)
       \/ \E to \in Accounts : TransferFrom(sender, other, to, amount)
       \/ /\ sender \in Owners /\ other \in Spenders
          /\ \/ Approve(sender, other, amount)
             \/ IncreaseAllowance(sender, other, amount)
             \/ DecreaseAllowance(sender, other, amount)

SettingsNext(sender) ==
  \/ \E paused \in BOOLEAN : SetPaused(sender, paused)
  \/ \E list \in Blocklists \cup {NullAddress} : SetBlocklist(sender, list)
  \/ \E list \in SanctionsLists \cup {NullAddress} : SetSanctionsList(sender, list)
  \/ \E list \in Allowlists \cup {NullAddress} : SetAllowlist(sender, list)

Next == \/ \E sender \in Accounts, amount \in Amounts : LedgerNext(sender, amount)
        \/ \E sender \in Accounts : SettingsNext(sender)
        \/ ListStep
        \/ AllowlistStep

Spec == Init /\ [][Next]_vars
-----------------------------------------------------------------------------
(***************************************************************************)
(* A balance changes only while the token is not paused and its holder is  *)
(* allowed and on no list of the token, whoever moves it, by whatever      *)
(* function: not even BURNER_ROLE takes tokens from a listed account.      *)
(***************************************************************************)
RestrictedBalancesStay ==
  [][ \A a \in Accounts : balances'[a] # balances[a] =>
        /\ ~token.paused
        /\ isAllowed(token.allowlist, a)
        /\ a \notin listed[token.blocklist] \cup listed[token.sanctionsList] ]_vars

(***************************************************************************)
(* Through every order of approvals, increases, decreases and uses, no     *)
(* spender has used more than the owner allowed in total, unless the owner *)
(* once allowed any amount: an approval that is raced by a use of the one  *)
(* before counts for both, and no more.                                    *)
(***************************************************************************)
SpentWithinApprovals == \A p \in Pairs : entitled[p] >= 0

(***************************************************************************)
(* What USDYManager is told of the token is all there is: the lists, the   *)
(* settings and the allowlist, with its terms and signatures, change the   *)
(* restrictions as USDYRestrictions lets them change.                      *)
(***************************************************************************)
ImplementsRestrictions == [][Restrictions!RestrictionsNext]_<<listed, Allowed, token.paused,
                               token.blocklist, token.sanctionsList>>
==============================================================================
