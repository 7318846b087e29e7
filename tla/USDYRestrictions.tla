-------------------------- MODULE USDYRestrictions --------------------------
(***************************************************************************)
(* Who may hold, move, mint and burn USDY: the pause flag and the lists    *)
(* that USDY._beforeTokenTransfer consults (contracts/usdy/USDY.sol), and  *)
(* the blocklist and sanctions list deployments behind the pointers that   *)
(* the token and the manager each keep (BlocklistClient.sol and            *)
(* SanctionsListClient.sol).                                               *)
(*                                                                         *)
(* The token and the manager may point to different deployments of a list; *)
(* a deployment is an element of Lists and listed[l] is the set of the     *)
(* accounts it names.  The answers of the allowlist are the set allowed.   *)
(***************************************************************************)
EXTENDS Integers

CONSTANTS Accounts,       \* every address with a role in the system
          Contracts,      \* those with code: the allowlist lets them pass
          NullAddress,    \* address(0)
          Blocklists,     \* deployments of Blocklist.sol
          SanctionsLists, \* deployments of the (external) sanctions oracle
          Listable        \* bound: the accounts that the lists ever name

Lists == Blocklists \cup SanctionsLists

ASSUME RestrictionsAssumption ==
  /\ NullAddress \notin Accounts \cup Lists
  /\ Contracts \subseteq Accounts
  /\ Listable \subseteq Accounts

VARIABLES listed,  \* list -> the accounts it names
          allowed, \* the accounts that are on the allowlist for a valid term
          token    \* USDY's pause flag and its pointers to the lists

restrictionVars == <<listed, allowed, token>>

TokenConfig == [paused : BOOLEAN, blocklist : Blocklists, sanctionsList : SanctionsLists]

RestrictionsTypeOK == /\ listed \in [Lists -> SUBSET Accounts]
                      /\ allowed \in SUBSET Accounts
                      /\ token \in TokenConfig

RestrictionsInit == /\ listed = [l \in Lists |-> {}]
                    /\ allowed = Accounts \ Contracts
                    /\ token \in [paused : {FALSE}, blocklist : Blocklists,
                                  sanctionsList : SanctionsLists]

-----------------------------------------------------------------------------
\* AllowlistUpgradeable.isAllowed: contracts are always allowed.
IsAllowed(account) == account \in Contracts \/ account \in allowed

IsListed(blocklist, sanctionsList, account) ==
  account \in listed[blocklist] \/ account \in listed[sanctionsList]

MayHold(account) ==
  IsAllowed(account) /\ ~IsListed(token.blocklist, token.sanctionsList, account)

(* Mutation: the recipient of a mint is not checked.                       *)
BeforeTokenTransferSkipsTo(sender, from, to) ==
  /\ ~token.paused
  /\ sender \notin {from, to} => MayHold(sender)
  /\ from # NullAddress => MayHold(from)

(***************************************************************************)
(* USDY._beforeTokenTransfer, run by every mint (from is address(0)),      *)
(* every burn (to is address(0)) and every transfer.  The caller is        *)
(* checked when it is neither end of the transfer.                         *)
(***************************************************************************)
BeforeTokenTransfer(sender, from, to) ==
  /\ ~token.paused
  /\ sender \notin {from, to} => MayHold(sender)
  /\ from # NullAddress => MayHold(from)
  /\ to # NullAddress => MayHold(to)

-----------------------------------------------------------------------------
\* addToBlocklist by the owner of the list; the sanctions oracle likewise.
AddToList(list, accounts) ==
  /\ listed' = [listed EXCEPT ![list] = @ \cup accounts]
  /\ UNCHANGED <<allowed, token>>

RemoveFromList(list, accounts) ==
  /\ listed' = [listed EXCEPT ![list] = @ \ accounts]
  /\ UNCHANGED <<allowed, token>>

(***************************************************************************)
(* The answers of the token's allowlist change, of one account (it agrees  *)
(* to a valid term, or its status is reset) or of many (the valid terms    *)
(* are replaced, or the token gets another allowlist).                     *)
(***************************************************************************)
SetAllowed(accounts) ==
  /\ allowed' = (allowed \ Listable) \cup accounts
  /\ UNCHANGED <<listed, token>>

SetTokenPaused(paused) ==
  /\ token' = [token EXCEPT !.paused = paused]
  /\ UNCHANGED <<listed, allowed>>

\* USDY.setBlocklist and USDY.setSanctionsList; address(0) is refused.
SetTokenBlocklist(list) ==
  /\ list # NullAddress
  /\ token' = [token EXCEPT !.blocklist = list]
  /\ UNCHANGED <<listed, allowed>>

SetTokenSanctionsList(list) ==
  /\ list # NullAddress
  /\ token' = [token EXCEPT !.sanctionsList = list]
  /\ UNCHANGED <<listed, allowed>>

RestrictionsNext ==
  \/ \E list \in Lists, accounts \in SUBSET Listable \ {{}} :
       AddToList(list, accounts) \/ RemoveFromList(list, accounts)
  \/ \E accounts \in SUBSET Listable : SetAllowed(accounts)
  \/ \E paused \in BOOLEAN : SetTokenPaused(paused)
  \/ \E list \in Blocklists \cup {NullAddress} : SetTokenBlocklist(list)
  \/ \E list \in SanctionsLists \cup {NullAddress} : SetTokenSanctionsList(list)
=============================================================================
