--------------------------- MODULE USDYTokenProofs ---------------------------
(***************************************************************************)
(* Theorems about USDYToken: types, who is allowed and why, what a spender *)
(* may use, and that restricted balances stay, for any number of accounts, *)
(* lists, terms and texts.                                                 *)
(***************************************************************************)
EXTENDS USDYToken, TLAPS

\* The types that the arguments below need: those of the allowlists, of the ledger and
\* of the settings.
AllowlistTyped == /\ terms \in [Allowlists -> Seq(Texts)]
                  /\ validIndexes \in [Allowlists -> SUBSET Nat]
                  /\ verifications \in [Allowlists -> SUBSET (Accounts \X Nat)]
                  /\ agreed \in [Allowlists -> SUBSET (Accounts \X Texts)]

\* Every verification has an agreement to the text of its index behind it.  The second
\* conjunct keeps the indexes below the number of terms, so that a new term finds no
\* verification that was there before it.
AgreementsBehind ==
  \A list \in Allowlists, account \in Accounts, i \in Nat :
    <<account, i>> \in verifications[list] =>
      /\ i < Len(terms[list])
      /\ <<account, Text(list, i)>> \in agreed[list] \cup signed

ValidTermsExist == \A list \in Allowlists : \A i \in validIndexes[list] : i < Len(terms[list])

ConsentInv == AllowlistTyped /\ AgreementsBehind /\ ValidTermsExist

\* What an appended term does to the texts: nothing, at the places that were there.
LEMMA AppendKeepsTexts ==
  ASSUME NEW s \in Seq(Texts), NEW text \in Texts
  PROVE  /\ Append(s, text) \in Seq(Texts)
         /\ Len(Append(s, text)) = Len(s) + 1
         /\ \A i \in Nat : i < Len(s) => Append(s, text)[i + 1] = s[i + 1]
  OBVIOUS

LEMMA AddTermConsent ==
  ASSUME ConsentInv, NEW sender, NEW list \in Allowlists, NEW text \in Texts,
         AddTerm(sender, list, text)
  PROVE  ConsentInv'
  <1>1. /\ terms' = [terms EXCEPT ![list] = Append(@, text)]
        /\ UNCHANGED <<validIndexes, verifications, signed, agreed>>
    BY DEF AddTerm
  <1>2. terms[list] \in Seq(Texts) /\ Len(terms[list]) \in Nat
    BY DEF ConsentInv, AllowlistTyped
  <1>3. /\ terms' \in [Allowlists -> Seq(Texts)]
        /\ terms'[list] = Append(terms[list], text)
        /\ \A l \in Allowlists : l # list => terms'[l] = terms[l]
    BY <1>1, <1>2, AppendKeepsTexts DEF ConsentInv, AllowlistTyped
  <1>4. ASSUME NEW l \in Allowlists, NEW i \in Nat, i < Len(terms[l])
        PROVE  i < Len(terms'[l]) /\ Text(l, i)' = Text(l, i)
    <2>1. CASE l = list
      BY <1>2, <1>3, <1>4, <2>1, AppendKeepsTexts DEF Text
    <2>2. CASE l # list
      BY <1>3, <1>4, <2>2 DEF Text
    <2>. QED BY <2>1, <2>2
  <1>5. AllowlistTyped'
    BY <1>1, <1>3 DEF ConsentInv, AllowlistTyped
  <1>6. AgreementsBehind'
    BY <1>1, <1>4 DEF ConsentInv, AgreementsBehind
  <1>7. ValidTermsExist'
    BY <1>1, <1>4 DEF ConsentInv, ValidTermsExist, AllowlistTyped
  <1>. QED BY <1>5, <1>6, <1>7 DEF ConsentInv

LEMMA SetStatusConsent ==
  ASSUME ConsentInv, NEW list \in Allowlists, NEW account \in Accounts,
         NEW i \in Nat, NEW status \in BOOLEAN, SetStatus(list, account, i, status)
  PROVE  ConsentInv'
  <1>1. /\ i < Len(terms[list]) /\ Len(terms[list]) \in Nat
        /\ Text(list, i) \in Texts
    BY DEF SetStatus, TermExists, TermIds, Text, ConsentInv, AllowlistTyped
  <1>2. /\ verifications' = [verifications EXCEPT ![list] =
             IF status THEN @ \cup {<<account, i>>} ELSE @ \ {<<account, i>>}]
        /\ agreed' = [agreed EXCEPT ![list] =
             IF status THEN @ \cup {<<account, Text(list, i)>>} ELSE @]
        /\ UNCHANGED <<terms, validIndexes, signed>>
    BY <1>1 DEF SetStatus, TermExists
  <1>3. AllowlistTyped'
    BY <1>1, <1>2 DEF ConsentInv, AllowlistTyped
  <1>4. \A l \in Allowlists : /\ agreed[l] \subseteq agreed'[l]
                              /\ verifications'[l] \subseteq verifications[l] \cup
                                   (IF l = list /\ status THEN {<<account, i>>} ELSE {})
    BY <1>2 DEF ConsentInv, AllowlistTyped
  <1>5. status => <<account, Text(list, i)>> \in agreed'[list]
    BY <1>2 DEF ConsentInv, AllowlistTyped
  <1>6. AgreementsBehind'
    <2>. SUFFICES ASSUME NEW l \in Allowlists, NEW a \in Accounts, NEW j \in Nat,
                         <<a, j>> \in verifications'[l]
                  PROVE  j < Len(terms[l]) /\ <<a, Text(l, j)>> \in agreed'[l] \cup signed
      BY <1>2 DEF AgreementsBehind, Text
    <2>1. CASE <<a, j>> \in verifications[l]
      BY <1>4, <2>1 DEF ConsentInv, AgreementsBehind
    <2>2. CASE l = list /\ status /\ a = account /\ j = i
      BY <1>1, <1>5, <2>2
    <2>. QED BY <1>4, <2>1, <2>2
  <1>7. ValidTermsExist'
    BY <1>2 DEF ConsentInv, ValidTermsExist
  <1>. QED BY <1>3, <1>6, <1>7 DEF ConsentInv

LEMMA AddAccountConsent ==
  ASSUME ConsentInv, NEW list \in Allowlists, NEW account \in Accounts, NEW i \in Nat,
         AddAccountToAllowlist(list, account, i)
  PROVE  ConsentInv'
  <1>1. /\ i < Len(terms[list]) /\ <<account, Text(list, i)>> \in signed
        /\ verifications' = [verifications EXCEPT ![list] = @ \cup {<<account, i>>}]
        /\ UNCHANGED <<terms, validIndexes, signed, agreed>>
    BY DEF AddAccountToAllowlist, TermIds, SignedBy, ConsentInv, AllowlistTyped
  <1>2. AllowlistTyped'
    BY <1>1 DEF ConsentInv, AllowlistTyped
  <1>3. \A l \in Allowlists : verifications'[l] \subseteq verifications[l] \cup
                                (IF l = list THEN {<<account, i>>} ELSE {})
    BY <1>1 DEF ConsentInv, AllowlistTyped
  <1>4. AgreementsBehind'
    <2>. SUFFICES ASSUME NEW l \in Allowlists, NEW a \in Accounts, NEW j \in Nat,
                         <<a, j>> \in verifications'[l]
                  PROVE  j < Len(terms[l]) /\ <<a, Text(l, j)>> \in agreed[l] \cup signed
      BY <1>1 DEF AgreementsBehind, Text
    <2>1. CASE <<a, j>> \in verifications[l]
      BY <2>1 DEF ConsentInv, AgreementsBehind
    <2>2. CASE l = list /\ a = account /\ j = i
      BY <1>1, <2>2
    <2>. QED BY <1>3, <2>1, <2>2
  <1>5. ValidTermsExist'
    BY <1>1 DEF ConsentInv, ValidTermsExist
  <1>. QED BY <1>2, <1>4, <1>5 DEF ConsentInv

LEMMA AllowlistNextConsent ==
  ASSUME ConsentInv, AllowlistNext
  PROVE  ConsentInv'
  <1>1. ASSUME NEW list \in ActiveAllowlists, NEW sender \in Accounts, NEW text \in Texts,
               AddTerm(sender, list, text)
        PROVE  ConsentInv'
    BY <1>1, AddTermConsent, AllowlistAssumption
  <1>2. ASSUME NEW list \in ActiveAllowlists, NEW sender \in Accounts, NEW i \in 0 .. MaxTerms,
               SetCurrentTermIndex(sender, list, i)
        PROVE  ConsentInv'
    BY <1>2 DEF SetCurrentTermIndex, ConsentInv, AllowlistTyped, AgreementsBehind,
                ValidTermsExist, Text
  <1>3. ASSUME NEW list \in ActiveAllowlists, NEW sender \in Accounts,
               NEW indexes \in SUBSET (0 .. MaxTerms), SetValidTermIndexes(sender, list, indexes)
        PROVE  ConsentInv'
    <2>1. /\ validIndexes' = [validIndexes EXCEPT ![list] = indexes]
          /\ UNCHANGED <<terms, verifications, signed, agreed>>
          /\ \A i \in indexes : i < Len(terms[list])
      BY <1>3, AllowlistAssumption DEF SetValidTermIndexes, TermIds, ConsentInv, AllowlistTyped
    <2>2. AllowlistTyped' /\ ValidTermsExist'
      BY <2>1, AllowlistAssumption DEF ConsentInv, AllowlistTyped, ValidTermsExist
    <2>3. AgreementsBehind'
      BY <2>1 DEF ConsentInv, AgreementsBehind, Text
    <2>. QED BY <2>2, <2>3 DEF ConsentInv
  <1>4. ASSUME NEW list \in ActiveAllowlists, NEW sender \in Accounts,
               NEW account \in AllowlistUsers, NEW i \in 0 .. MaxTerms, NEW status \in BOOLEAN,
               SetAccountStatus(sender, list, account, i, status)
        PROVE  ConsentInv'
    <2>1. SetStatus(list, account, i, status) /\ list \in Allowlists /\ i \in Nat
      BY <1>4, AllowlistAssumption DEF SetAccountStatus
    <2>2. account \in Accounts
      BY AllowlistAssumption
    <2>. QED BY <2>1, <2>2, SetStatusConsent
  <1>5. ASSUME NEW list \in ActiveAllowlists, NEW account \in AllowlistUsers,
               NEW i \in 0 .. MaxTerms, AddSelfToAllowlist(account, list, i)
        PROVE  ConsentInv'
    <2>1. SetStatus(list, account, i, TRUE)
      BY <1>5, Zenon DEF AddSelfToAllowlist
    <2>2. list \in Allowlists /\ account \in Accounts /\ i \in Nat
      BY AllowlistAssumption
    <2>. QED BY <2>1, <2>2, SetStatusConsent, Zenon
  <1>6. ASSUME NEW list \in ActiveAllowlists, NEW account \in AllowlistUsers,
               NEW i \in 0 .. MaxTerms, AddAccountToAllowlist(list, account, i)
        PROVE  ConsentInv'
    BY <1>6, AddAccountConsent, AllowlistAssumption
  <1>7. ASSUME NEW account \in AllowlistUsers, NEW text \in Texts, SignTerm(account, text)
        PROVE  ConsentInv'
    BY <1>7 DEF SignTerm, ConsentInv, AllowlistTyped, AgreementsBehind, ValidTermsExist, Text
  <1>. QED BY <1>1, <1>2, <1>3, <1>4, <1>5, <1>6, <1>7 DEF AllowlistNext

-----------------------------------------------------------------------------
(* The ledger, and what spenders may use.                                  *)

LedgerTyped == /\ balances \in [Accounts -> Int]
               /\ allowances \in [Pairs -> Nat]
               /\ entitled \in [Pairs -> Int]

\* No allowance is larger than what the owner granted and the spender did not use.
SpendersInv == LedgerTyped /\ \A p \in Pairs : allowances[p] <= entitled[p]

LEMMA SetAllowanceSpenders ==
  ASSUME SpendersInv, NEW owner \in Accounts, NEW spender \in Accounts, NEW amount \in Nat,
         NEW entitlement \in Int, SetAllowance(owner, spender, amount, entitlement),
         amount <= entitled[<<owner, spender>>] + entitlement
  PROVE  SpendersInv'
  <1>1. /\ <<owner, spender>> \in Pairs
        /\ allowances' = [allowances EXCEPT ![<<owner, spender>>] = amount]
        /\ entitled' = [entitled EXCEPT ![<<owner, spender>>] = @ + entitlement]
        /\ balances' = balances
    BY DEF SetAllowance, Pairs
  <1>. QED BY <1>1 DEF SpendersInv, LedgerTyped

LEMMA SpendAllowanceSpenders ==
  ASSUME SpendersInv, NEW owner \in Accounts, NEW spender \in Accounts, NEW amount \in Nat,
         SpendAllowance(owner, spender, amount), balances' \in [Accounts -> Int]
  PROVE  SpendersInv'
  <1>1. <<owner, spender>> \in Pairs
    BY DEF Pairs
  <1>2. CASE allowances[<<owner, spender>>] = UintMax
    BY <1>2 DEF SpendAllowance, SpendersInv, LedgerTyped
  <1>3. CASE allowances[<<owner, spender>>] # UintMax
    BY <1>1, <1>3 DEF SpendAllowance, SpendersInv, LedgerTyped
  <1>. QED BY <1>2, <1>3

LEMMA MoveTypes ==
  ASSUME LedgerTyped, NEW sender, NEW from \in Accounts \cup {NullAddress},
         NEW to \in Accounts \cup {NullAddress}, NEW amount \in Nat,
         Move(sender, from, to, amount)
  PROVE  balances' \in [Accounts -> Int]
  BY TokenAssumption DEF Move, Debited, Credited, LedgerTyped

LEMMA SpendersUntouched ==
  ASSUME SpendersInv, balances' \in [Accounts -> Int], UNCHANGED <<allowances, entitled>>
  PROVE  SpendersInv'
  BY DEF SpendersInv, LedgerTyped

LEMMA LedgerNextSpenders ==
  ASSUME SpendersInv, NEW sender \in Accounts, NEW amount \in Amounts, LedgerNext(sender, amount)
  PROVE  SpendersInv'
  <1>1. amount \in Nat
    BY TokenAssumption
  <1>2. LedgerTyped
    BY DEF SpendersInv
  <1>3. ASSUME NEW from \in Accounts \cup {NullAddress}, NEW to \in Accounts \cup {NullAddress},
               Move(sender, from, to, amount), UNCHANGED <<allowances, entitled>>
        PROVE  SpendersInv'
    BY <1>1, <1>2, <1>3, MoveTypes, SpendersUntouched
  <1>4. ASSUME NEW from \in Accounts, NEW to \in Accounts \cup {NullAddress},
               Move(sender, from, to, amount), SpendAllowance(from, sender, amount)
        PROVE  SpendersInv'
    BY <1>1, <1>2, <1>4, MoveTypes, SpendAllowanceSpenders
  <1>5. CASE Mint(sender, sender, amount) \/ BurnOwn(sender, amount)
    BY <1>3, <1>5 DEF Mint, BurnOwn
  <1>6. ASSUME NEW other \in Accounts,
               Mint(sender, other, amount) \/ Transfer(sender, other, amount)
                 \/ Burn(sender, other, amount)
        PROVE  SpendersInv'
    BY <1>3, <1>6 DEF Mint, Transfer, Burn
  <1>7. ASSUME NEW other \in Accounts,
               BurnFrom(sender, other, amount)
                 \/ \E to \in Accounts : TransferFrom(sender, other, to, amount)
        PROVE  SpendersInv'
    BY <1>4, <1>7 DEF BurnFrom, TransferFrom
  <1>8. ASSUME NEW other \in Accounts,
               \/ Approve(sender, other, amount)
               \/ IncreaseAllowance(sender, other, amount)
               \/ DecreaseAllowance(sender, other, amount)
        PROVE  SpendersInv'
    <2>1. /\ allowances[<<sender, other>>] \in Nat /\ entitled[<<sender, other>>] \in Int
          /\ allowances[<<sender, other>>] <= entitled[<<sender, other>>]
      BY DEF SpendersInv, LedgerTyped, Pairs
    <2>2. CASE Approve(sender, other, amount)
      BY <1>1, <2>1, <2>2, SetAllowanceSpenders DEF Approve
    <2>3. CASE IncreaseAllowance(sender, other, amount)
      BY <1>1, <2>1, <2>3, SetAllowanceSpenders DEF IncreaseAllowance
    <2>4. CASE DecreaseAllowance(sender, other, amount)
      BY <1>1, <2>1, <2>4, SetAllowanceSpenders DEF DecreaseAllowance
    <2>. QED BY <1>8, <2>2, <2>3, <2>4
  <1>. QED BY <1>5, <1>6, <1>7, <1>8 DEF LedgerNext

-----------------------------------------------------------------------------
(* The steps that touch only the other part.                               *)

LEMMA ConsentUntouched ==
  ASSUME ConsentInv, UNCHANGED allowlistVars
  PROVE  ConsentInv'
  BY DEF ConsentInv, allowlistVars, AllowlistTyped, AgreementsBehind, ValidTermsExist, Text

LEMMA LedgerKeepsAllowlists ==
  ASSUME NEW sender \in Accounts, NEW amount \in Amounts, LedgerNext(sender, amount)
  PROVE  UNCHANGED allowlistVars
  BY DEF LedgerNext, Mint, Transfer, TransferFrom, BurnOwn, BurnFrom, Burn, Move, Approve,
         IncreaseAllowance, DecreaseAllowance, SetAllowance

LEMMA SettingsKeepTheRest ==
  ASSUME NEW sender \in Accounts, SettingsNext(sender)
  PROVE  UNCHANGED allowlistVars /\ UNCHANGED ledgerVars
  BY DEF SettingsNext, SetPaused, SetBlocklist, SetSanctionsList, SetAllowlist, SetList

(***************************************************************************)
(* AllowlistUpgradeable: whoever is allowed agreed to a term that is valid *)
(* now, whatever terms were added, withdrawn or made valid in between.     *)
(***************************************************************************)
THEOREM AllowedByConsent == Spec => []ConsentedToAValidTerm
  <1>1. Init => ConsentInv
    BY DEF Init, AllowlistInit, ConsentInv, AllowlistTyped, AgreementsBehind, ValidTermsExist
  <1>2. ConsentInv /\ [Next]_vars => ConsentInv'
    <2>. SUFFICES ASSUME ConsentInv, [Next]_vars PROVE ConsentInv'
      OBVIOUS
    <2>1. ASSUME NEW sender \in Accounts, NEW amount \in Amounts, LedgerNext(sender, amount)
          PROVE  ConsentInv'
      BY <2>1, LedgerKeepsAllowlists, ConsentUntouched
    <2>2. ASSUME NEW sender \in Accounts, SettingsNext(sender) PROVE ConsentInv'
      BY <2>2, SettingsKeepTheRest, ConsentUntouched
    <2>3. CASE ListStep
      BY <2>3, ConsentUntouched DEF ListStep
    <2>4. CASE AllowlistStep
      BY <2>4, AllowlistNextConsent DEF AllowlistStep
    <2>5. CASE UNCHANGED vars
      BY <2>5, ConsentUntouched DEF vars
    <2>. QED BY <2>1, <2>2, <2>3, <2>4, <2>5 DEF Next
  <1>3. ConsentInv => ConsentedToAValidTerm
    <2>. SUFFICES ASSUME ConsentInv, NEW list \in Allowlists, NEW account \in Accounts \ Contracts,
                         isAllowed(list, account)
                  PROVE  \E i \in validIndexes[list] :
                           /\ i \in TermIds(list)
                           /\ <<account, Text(list, i)>> \in agreed[list] \cup signed
      BY DEF ConsentedToAValidTerm
    <2>1. PICK i \in validIndexes[list] : <<account, i>> \in verifications[list]
      BY DEF isAllowed
    <2>2. i \in Nat /\ i < Len(terms[list]) /\ Len(terms[list]) \in Nat
      BY DEF ConsentInv, ValidTermsExist, AllowlistTyped
    <2>3. i \in TermIds(list)
      BY <2>2 DEF TermIds
    <2>4. <<account, Text(list, i)>> \in agreed[list] \cup signed
      BY <2>1, <2>2 DEF ConsentInv, AgreementsBehind
    <2>. QED BY <2>3, <2>4
  <1>. QED BY <1>1, <1>2, <1>3, PTL DEF Spec

LEMMA SpendersAlways == Spec => []SpendersInv
  <1>1. Init => SpendersInv
    BY DEF Init, SpendersInv, LedgerTyped
  <1>2. SpendersInv /\ [Next]_vars => SpendersInv'
    <2>. SUFFICES ASSUME SpendersInv, [Next]_vars PROVE SpendersInv'
      OBVIOUS
    <2>0. UNCHANGED ledgerVars => SpendersInv'
      BY DEF ledgerVars, SpendersInv, LedgerTyped
    <2>1. ASSUME NEW sender \in Accounts, NEW amount \in Amounts, LedgerNext(sender, amount)
          PROVE  SpendersInv'
      BY <2>1, LedgerNextSpenders
    <2>2. ASSUME NEW sender \in Accounts, SettingsNext(sender) PROVE SpendersInv'
      BY <2>0, <2>2, SettingsKeepTheRest
    <2>3. CASE ListStep \/ AllowlistStep \/ UNCHANGED vars
      BY <2>0, <2>3 DEF ListStep, AllowlistStep, vars
    <2>. QED BY <2>1, <2>2, <2>3 DEF Next
  <1>. QED BY <1>1, <1>2, PTL DEF Spec

(***************************************************************************)
(* ERC20: no order of approvals and uses lets a spender use more than the  *)
(* owner allowed in total.                                                 *)
(***************************************************************************)
THEOREM SpendersKeepToApprovals == Spec => []SpentWithinApprovals
  <1>1. SpendersInv => SpentWithinApprovals
    BY DEF SpendersInv, LedgerTyped, SpentWithinApprovals
  <1>. QED BY <1>1, SpendersAlways, PTL

LEMMA MoveAsksTheLists ==
  ASSUME LedgerTyped, NEW sender, NEW from \in Accounts \cup {NullAddress},
         NEW to \in Accounts \cup {NullAddress}, NEW amount \in Nat,
         Move(sender, from, to, amount), NEW a \in Accounts, balances'[a] # balances[a]
  PROVE  /\ ~token.paused
         /\ isAllowed(token.allowlist, a)
         /\ a \notin listed[token.blocklist] \cup listed[token.sanctionsList]
  <1>1. a # NullAddress
    BY TokenAssumption
  <1>2. a \in {from, to}
    BY TokenAssumption DEF Move, Debited, Credited, LedgerTyped
  <1>3. Restrictions!BeforeTokenTransfer(sender, from, to)
    BY DEF Move
  <1>4. ~token.paused /\ Restrictions!MayHold(a)
    BY <1>1, <1>2, <1>3 DEF Restrictions!BeforeTokenTransfer
  <1>5. isAllowed(token.allowlist, a)
    BY <1>4 DEF Restrictions!MayHold, Restrictions!IsAllowed, Allowed, isAllowed
  <1>6. a \notin listed[token.blocklist] \cup listed[token.sanctionsList]
    BY <1>4 DEF Restrictions!MayHold, Restrictions!IsListed
  <1>. QED BY <1>4, <1>5, <1>6

(***************************************************************************)
(* USDY._beforeTokenTransfer: the balance of an account that is listed, or *)
(* not allowed, or of a paused token, is changed by no function.           *)
(***************************************************************************)
THEOREM RestrictedBalancesKept == Spec => RestrictedBalancesStay
  <1>. DEFINE Asked == \A a \in Accounts : balances'[a] # balances[a] =>
                         /\ ~token.paused
                         /\ isAllowed(token.allowlist, a)
                         /\ a \notin listed[token.blocklist] \cup listed[token.sanctionsList]
  <1>1. SpendersInv /\ [Next]_vars => [Asked]_vars
    <2>. SUFFICES ASSUME LedgerTyped, [Next]_vars PROVE Asked
      BY DEF SpendersInv
    <2>1. ASSUME NEW sender \in Accounts, NEW amount \in Amounts, LedgerNext(sender, amount)
          PROVE  Asked
      <3>1. amount \in Nat
        BY TokenAssumption
      <3>2. \/ balances' = balances
            \/ \E from, to \in Accounts \cup {NullAddress} : Move(sender, from, to, amount)
        BY <2>1 DEF LedgerNext, Mint, Transfer, TransferFrom, BurnOwn, BurnFrom, Burn,
                    Approve, IncreaseAllowance, DecreaseAllowance, SetAllowance
      <3>. QED BY <3>1, <3>2, MoveAsksTheLists
    <2>2. ASSUME NEW sender \in Accounts, SettingsNext(sender) PROVE Asked
      BY <2>2, SettingsKeepTheRest DEF ledgerVars
    <2>3. CASE ListStep \/ AllowlistStep \/ UNCHANGED vars
      BY <2>3 DEF ListStep, AllowlistStep, vars, ledgerVars
    <2>. QED BY <2>1, <2>2, <2>3 DEF Next
  <1>. QED BY <1>1, SpendersAlways, PTL DEF Spec, RestrictedBalancesStay

-----------------------------------------------------------------------------
(* The refinement: the settings, the lists and the allowlist change the    *)
(* restrictions in no other way than USDYRestrictions describes.           *)

TokenTyped == token \in [paused : BOOLEAN, blocklist : Blocklists,
                         sanctionsList : SanctionsLists, allowlist : Allowlists]

\* Contracts are always allowed; of the other accounts any set may be.
LEMMA AnswersMayChange ==
  ASSUME UNCHANGED <<listed, token.paused, token.blocklist, token.sanctionsList>>
  PROVE  Restrictions!RestrictionsNext
  <1>. DEFINE L == Listable \cup (Accounts \ Contracts)
  <1>1. Allowed' = (Allowed \ L) \cup (Allowed' \cap L)
    BY DEF Allowed, isAllowed
  <1>2. Restrictions!SetAllowed(Allowed' \cap L)
    BY <1>1 DEF Restrictions!SetAllowed
  <1>3. Allowed' \cap L \in SUBSET L
    OBVIOUS
  <1>. QED BY <1>2, <1>3 DEF Restrictions!RestrictionsNext

(***************************************************************************)
(* USDY with its lists implements USDYRestrictions, which is all that the  *)
(* model of the manager knows of it.                                       *)
(***************************************************************************)
THEOREM TokenImplementsRestrictions == Spec => ImplementsRestrictions
  <1>. DEFINE Seen == <<listed, Allowed, token.paused, token.blocklist, token.sanctionsList>>
  <1>1. Init => TokenTyped
    BY AllowlistAssumption DEF Init, TokenTyped
  <1>2. TokenTyped /\ [Next]_vars => TokenTyped'
    <2>. SUFFICES ASSUME TokenTyped, [Next]_vars PROVE TokenTyped'
      OBVIOUS
    <2>1. ASSUME NEW sender \in Accounts, SettingsNext(sender) PROVE TokenTyped'
      BY <2>1 DEF SettingsNext, SetPaused, SetBlocklist, SetSanctionsList, SetAllowlist, SetList,
                  TokenTyped
    <2>2. ASSUME NEW sender \in Accounts, NEW amount \in Amounts, LedgerNext(sender, amount)
          PROVE  TokenTyped'
      BY <2>2 DEF LedgerNext, Mint, Transfer, TransferFrom, BurnOwn, BurnFrom, Burn, Move, Approve,
                  IncreaseAllowance, DecreaseAllowance, SetAllowance, TokenTyped
    <2>3. CASE ListStep \/ AllowlistStep \/ UNCHANGED vars
      BY <2>3 DEF ListStep, AllowlistStep, vars, TokenTyped
    <2>. QED BY <2>1, <2>2, <2>3 DEF Next
  <1>3. TokenTyped /\ [Next]_vars => [Restrictions!RestrictionsNext]_Seen
    <2>. SUFFICES ASSUME TokenTyped, [Next]_vars
                  PROVE  Restrictions!RestrictionsNext \/ UNCHANGED Seen
      OBVIOUS
    <2>1. ASSUME NEW sender \in Accounts, NEW amount \in Amounts, LedgerNext(sender, amount)
          PROVE  UNCHANGED Seen
      <3>1. UNCHANGED <<validIndexes, verifications, listed, token>>
        BY <2>1 DEF LedgerNext, Mint, Transfer, TransferFrom, BurnOwn, BurnFrom, Burn, Move, Approve,
                    IncreaseAllowance, DecreaseAllowance, SetAllowance, allowlistVars
      <3>. QED BY <3>1 DEF Allowed, isAllowed
    <2>2. ASSUME NEW sender \in Accounts, NEW paused \in BOOLEAN, SetPaused(sender, paused)
          PROVE  Restrictions!RestrictionsNext
      <3>1. /\ token'.paused = paused /\ token'.blocklist = token.blocklist
            /\ token'.sanctionsList = token.sanctionsList /\ token'.allowlist = token.allowlist
            /\ UNCHANGED <<listed, validIndexes, verifications>>
        BY <2>2 DEF SetPaused, TokenTyped, allowlistVars
      <3>2. Allowed' = Allowed
        BY <3>1 DEF Allowed, isAllowed
      <3>. QED BY <3>1, <3>2 DEF Restrictions!RestrictionsNext, Restrictions!SetTokenPaused
    <2>3. ASSUME NEW sender \in Accounts, NEW list \in Blocklists \cup {NullAddress},
                 SetBlocklist(sender, list)
          PROVE  Restrictions!RestrictionsNext
      <3>1. /\ list # NullAddress
            /\ token'.paused = token.paused /\ token'.blocklist = list
            /\ token'.sanctionsList = token.sanctionsList /\ token'.allowlist = token.allowlist
            /\ UNCHANGED <<listed, validIndexes, verifications>>
        BY <2>3 DEF SetBlocklist, SetList, TokenTyped, allowlistVars
      <3>2. Allowed' = Allowed
        BY <3>1 DEF Allowed, isAllowed
      <3>. QED BY <3>1, <3>2 DEF Restrictions!RestrictionsNext, Restrictions!SetTokenBlocklist
    <2>4. ASSUME NEW sender \in Accounts, NEW list \in SanctionsLists \cup {NullAddress},
                 SetSanctionsList(sender, list)
          PROVE  Restrictions!RestrictionsNext
      <3>1. /\ list # NullAddress
            /\ token'.paused = token.paused /\ token'.blocklist = token.blocklist
            /\ token'.sanctionsList = list /\ token'.allowlist = token.allowlist
            /\ UNCHANGED <<listed, validIndexes, verifications>>
        BY <2>4 DEF SetSanctionsList, SetList, TokenTyped, allowlistVars
      <3>2. Allowed' = Allowed
        BY <3>1 DEF Allowed, isAllowed
      <3>. QED BY <3>1, <3>2 DEF Restrictions!RestrictionsNext, Restrictions!SetTokenSanctionsList
    <2>5. ASSUME NEW sender \in Accounts, NEW list \in Allowlists \cup {NullAddress},
                 SetAllowlist(sender, list)
          PROVE  Restrictions!RestrictionsNext
      BY <2>5, AnswersMayChange DEF SetAllowlist, SetList, TokenTyped
    <2>6. CASE ListStep
      <3>1. /\ UNCHANGED <<validIndexes, verifications, token>>
            /\ \E list \in Blocklists \cup SanctionsLists, accounts \in SUBSET Listable \ {{}} :
                 Restrictions!AddToList(list, accounts) \/ Restrictions!RemoveFromList(list, accounts)
        BY <2>6 DEF ListStep, allowlistVars
      <3>. QED BY <3>1 DEF Restrictions!RestrictionsNext, Restrictions!Lists
    <2>7. CASE AllowlistStep
      BY <2>7, AnswersMayChange DEF AllowlistStep
    <2>8. CASE UNCHANGED vars
      BY <2>8 DEF vars, allowlistVars, Allowed, isAllowed
    <2>. QED BY <2>1, <2>2, <2>3, <2>4, <2>5, <2>6, <2>7, <2>8 DEF Next, SettingsNext
  <1>. QED BY <1>1, <1>2, <1>3, PTL DEF Spec, ImplementsRestrictions
==============================================================================
