------------------------------ MODULE Allowlist ------------------------------
(***************************************************************************)
(* contracts/usdy/allowlist/AllowlistUpgradeable.sol: the terms an account *)
(* may agree to, those that are valid, and who agreed to which.            *)
(*                                                                         *)
(* There may be several deployments.  A term is a text; an account agrees  *)
(* to an index of the list of texts, but it signs the text alone: without  *)
(* the index and without the address of the list.  Of validIndexes only    *)
(* the set matters.                                                        *)
(***************************************************************************)
EXTENDS Integers, Sequences

CONSTANTS Accounts,          \* every address with a role in the system
          Contracts,         \* those with code
          Allowlists,        \* deployments of the allowlist
          ActiveAllowlists,  \* bound: those whose functions are called
          AllowlistUsers,    \* bound: those who sign, and whose status changes
          Texts,             \* what a term may say
          MaxTerms,          \* bound: the terms of one list
          AllowlistAdmins,   \* the holders of ALLOWLIST_ADMIN
          AllowlistSetters   \* the holders of ALLOWLIST_SETTER

ASSUME AllowlistAssumption == /\ Contracts \subseteq Accounts
                              /\ AllowlistUsers \subseteq Accounts
                              /\ ActiveAllowlists \subseteq Allowlists
                              /\ MaxTerms \in Nat

VARIABLES terms,            \* list -> the texts of its terms; index i is at place i + 1
          currentTermIndex, \* list -> index
          validIndexes,     \* list -> the set of the valid indexes
          verifications,    \* list -> the pairs of an account and an index it agreed to
          signed,           \* external: the pairs of an account and a text it has signed
          agreed            \* history: list -> the pairs of an account and a text that it
                            \* agreed to by itself or by signature, or was given by a setter

allowlistVars == <<terms, currentTermIndex, validIndexes, verifications, signed, agreed>>

TermIds(list) == 0 .. Len(terms[list]) - 1
Text(list, i) == terms[list][i + 1]

AllowlistTypeOK ==
  /\ terms \in [Allowlists -> Seq(Texts)]
  /\ currentTermIndex \in [Allowlists -> Nat]
  /\ validIndexes \in [Allowlists -> SUBSET Nat]
  /\ verifications \in [Allowlists -> SUBSET (Accounts \X Nat)]
  /\ signed \subseteq Accounts \X Texts
  /\ agreed \in [Allowlists -> SUBSET (Accounts \X Texts)]

AllowlistInit == /\ terms = [l \in Allowlists |-> <<>>]
                 /\ currentTermIndex = [l \in Allowlists |-> 0]
                 /\ validIndexes = [l \in Allowlists |-> {}]
                 /\ verifications = [l \in Allowlists |-> {}]
                 /\ signed = {}
                 /\ agreed = [l \in Allowlists |-> {}]

-----------------------------------------------------------------------------
isAllowed(list, account) ==
  account \in Contracts \/ \E i \in validIndexes[list] : <<account, i>> \in verifications[list]

\* addTerm: the new term becomes the current one, but not a valid one.
AddTerm(sender, list, text) ==
  /\ sender \in AllowlistAdmins
  /\ Len(terms[list]) < MaxTerms
  /\ terms' = [terms EXCEPT ![list] = Append(@, text)]
  /\ currentTermIndex' = [currentTermIndex EXCEPT ![list] = Len(terms[list])]
  /\ UNCHANGED <<validIndexes, verifications, signed, agreed>>

SetCurrentTermIndex(sender, list, i) ==
  /\ sender \in AllowlistAdmins
  /\ i \in TermIds(list)
  /\ currentTermIndex' = [currentTermIndex EXCEPT ![list] = i]
  /\ UNCHANGED <<terms, validIndexes, verifications, signed, agreed>>

SetValidTermIndexes(sender, list, indexes) ==
  /\ sender \in AllowlistAdmins
  /\ indexes \subseteq TermIds(list)
  /\ validIndexes' = [validIndexes EXCEPT ![list] = indexes]
  /\ UNCHANGED <<terms, currentTermIndex, verifications, signed, agreed>>

(* Mutation: an account may be verified for a term that is yet to come.    *)
AnyIndex(list, i) == TRUE

TermExists(list, i) == i \in TermIds(list)

\* _setAccountStatus
SetStatus(list, account, i, status) ==
  /\ TermExists(list, i)
  /\ verifications' = [verifications EXCEPT ![list] =
                         IF status THEN @ \cup {<<account, i>>} ELSE @ \ {<<account, i>>}]
  /\ agreed' = [agreed EXCEPT ![list] =
                  IF status /\ i \in TermIds(list) THEN @ \cup {<<account, Text(list, i)>>} ELSE @]
  /\ UNCHANGED <<terms, currentTermIndex, validIndexes, signed>>

AddSelfToAllowlist(sender, list, i) ==
  /\ <<sender, i>> \notin verifications[list]
  /\ SetStatus(list, sender, i, TRUE)

SetAccountStatus(sender, list, account, i, status) ==
  /\ sender \in AllowlistSetters
  /\ SetStatus(list, account, i, status)

\* External: a user signs a text, on whatever occasion.
SignTerm(account, text) ==
  /\ account \notin Contracts
  /\ signed' = signed \cup {<<account, text>>}
  /\ UNCHANGED <<terms, currentTermIndex, validIndexes, verifications, agreed>>

SignedBy(account, text) == <<account, text>> \in signed

\* Anybody submits a signature, as often as the account is not verified.
AddAccountToAllowlist(list, account, i) ==
  /\ <<account, i>> \notin verifications[list]
  /\ i \in TermIds(list)
  /\ SignedBy(account, Text(list, i))
  /\ verifications' = [verifications EXCEPT ![list] = @ \cup {<<account, i>>}]
  /\ UNCHANGED <<terms, currentTermIndex, validIndexes, signed, agreed>>

AllowlistNext ==
  \/ \E list \in ActiveAllowlists, sender \in Accounts :
       \/ \E text \in Texts : AddTerm(sender, list, text)
       \/ \E i \in 0 .. MaxTerms : SetCurrentTermIndex(sender, list, i)
       \/ \E indexes \in SUBSET (0 .. MaxTerms) : SetValidTermIndexes(sender, list, indexes)
       \/ \E account \in AllowlistUsers, i \in 0 .. MaxTerms, status \in BOOLEAN :
            SetAccountStatus(sender, list, account, i, status)
  \/ \E list \in ActiveAllowlists, account \in AllowlistUsers, i \in 0 .. MaxTerms :
       AddSelfToAllowlist(account, list, i) \/ AddAccountToAllowlist(list, account, i)
  \/ \E account \in AllowlistUsers, text \in Texts : SignTerm(account, text)

-----------------------------------------------------------------------------
(***************************************************************************)
(* Whoever is allowed has agreed to the text of a term that is valid now,  *)
(* in person, by a signature of that text, or by decision of a setter:     *)
(* whatever terms were added, withdrawn and made valid again in between,   *)
(* nobody is allowed by a term that was written after they agreed.         *)
(***************************************************************************)
ConsentedToAValidTerm ==
  \A list \in Allowlists, account \in Accounts \ Contracts :
    isAllowed(list, account) =>
      \E i \in validIndexes[list] : /\ i \in TermIds(list)
                                    /\ <<account, Text(list, i)>> \in agreed[list] \cup signed
==============================================================================
