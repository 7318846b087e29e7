---------------------------- MODULE MCUSDYManager ----------------------------
(***************************************************************************)
(* Instances of USDYManager.  The configurations name accounts and lists   *)
(* as model values; here are the constants that a .cfg cannot write.       *)
(***************************************************************************)
EXTENDS USDYManager

\* What every user owns, and what the asset sender can pay
CONSTANTS UsdcOfUsers, UsdcOfFund

mcInitialUsdc == [a \in Accounts |-> CASE a \in Users        -> UsdcOfUsers
                                       [] a \in AssetSenders -> UsdcOfFund
                                       [] OTHER              -> 0]

\* One operator holds every role.
mcAllRoles == [role \in Roles |-> Operators]

\* The same, but nobody relays a transfer
mcNoRelayer == [mcAllRoles EXCEPT !["RELAYER_ROLE"] = {}]
==============================================================================
