------------------------- MODULE ContractStoreProofs -------------------------
(***************************************************************************)
(* Proofs about ContractStore, for every set of accounts and codes and     *)
(* every depth of nesting.                                                 *)
(***************************************************************************)
EXTENDS ContractStore, TLAPS

LEMMA NameFacts ==
  ASSUME NEW a \in Accounts, NEW spelling \in Spellings
  PROVE  Name(a, spelling) \in Names
BY DEF Names

LEMMA NamesAccount == ASSUME NEW n \in Names PROVE n[1] \in Accounts
BY DEF Names, Name

LEMMA LookupFacts ==
  ASSUME TypeOK, NEW a \in Accounts
  PROVE  LookupCode(a) \in Values
<1>1. Name(a, "lower") \in Names
  BY NameFacts DEF Spellings
<1> QED
  BY <1>1 DEF TypeOK, LookupCode, OrElse

LEMMA FrameFacts ==
  ASSUME NEW n \in Names, NEW c \in Codes, NEW creating \in BOOLEAN
  PROVE  Frame(n, c, creating) \in Frames
BY DEF Frame, Frames

\* The steps on the stack of frames.
LEMMA TopFacts ==
  ASSUME TypeOK, ~Idle
  PROVE  /\ Len(context) \in Nat /\ Len(context) >= 1
         /\ Top \in Frames
         /\ Top.at \in Names
         /\ Top.at[1] \in Accounts
<1>1. context \in Seq(Frames) /\ context # <<>>
  BY DEF TypeOK, Idle
<1>2. Len(context) \in Nat /\ Len(context) >= 1
  BY <1>1
<1>3. Top \in Frames
  BY <1>1, <1>2 DEF Top
<1> QED
  BY <1>2, <1>3, NamesAccount DEF Frames

LEMMA EnterFacts ==
  ASSUME TypeOK, NEW f \in Frames, Enter(f)
  PROVE  /\ context' \in Seq(Frames)
         /\ context' # <<>>
         /\ Idle => context'[1] = f
         /\ ~Idle => context'[1] = context[1]
BY DEF TypeOK, Enter, Idle

LEMMA LeaveFacts ==
  ASSUME TypeOK, ~Idle, Leave
  PROVE  /\ context' \in Seq(Frames)
         /\ context' # <<>> => context'[1] = context[1]
<1> DEFINE n == Len(context) - 1
<1>1. context \in Seq(Frames) /\ n \in Nat /\ n <= Len(context)
  BY TopFacts DEF TypeOK
<1>2. context' = SubSeq(context, 1, n)
  BY DEF Leave
<1> HIDE DEF n
<1> QED
  BY <1>1, <1>2

LEMMA StopFacts ==
  ASSUME TypeOK, ~Idle, StopTop
  PROVE  /\ context' \in Seq(Frames)
         /\ context' # <<>>
         /\ context'[1].at = context[1].at
         /\ context'[1].runs = context[1].runs
<1> DEFINE n == Len(context)
<1>1. context \in Seq(Frames) /\ n \in Nat /\ n >= 1
  BY TopFacts DEF TypeOK
<1>2. context' = [context EXCEPT ![n] = [context[n] EXCEPT !.stopped = TRUE]]
  BY DEF StopTop
<1>3. context[n] \in Frames
  BY <1>1
<1>4. [context[n] EXCEPT !.stopped = TRUE] \in Frames
  BY <1>3 DEF Frames
<1>5. context' \in Seq(Frames) /\ Len(context') = n
  BY <1>1, <1>2, <1>4
<1>6. context'[1] = IF n = 1 THEN [context[n] EXCEPT !.stopped = TRUE] ELSE context[1]
  BY <1>1, <1>2
<1>7. context[1] \in Frames
  BY <1>1
<1> HIDE DEF n
<1>8. context'[1].at = context[1].at /\ context'[1].runs = context[1].runs
  BY <1>3, <1>6, <1>7 DEF Frames
<1> QED
  BY <1>1, <1>5, <1>8

LEMMA NextTypeOK == TypeOK /\ [Next]_vars => TypeOK'
<1> SUFFICES ASSUME TypeOK, [Next]_vars PROVE TypeOK'
  OBVIOUS
<1> DEFINE KeysOK == /\ raw \in [Names -> Values]
                     /\ bare \in [Accounts -> Values]
                     /\ tagged \in [Names -> Values]
                     /\ deployed \in [Accounts -> Values]
           HashOK == hash \in [Names -> Values]
           ContextOK == context \in Seq(Frames)
<1>0. KeysOK /\ HashOK /\ ContextOK
  BY DEF TypeOK
<1> SUFFICES KeysOK' /\ HashOK' /\ ContextOK'
  BY DEF TypeOK
<1>1. ASSUME NEW n \in Names, EthCall(n) PROVE KeysOK' /\ HashOK' /\ ContextOK'
  <2>1. raw[n] \in Codes
    BY <1>0, <1>1 DEF EthCall, Values
  <2>2. Frame(n, raw[n], FALSE) \in Frames
    BY <2>1, FrameFacts
  <2>3. ContextOK'
    BY <1>1, <2>2, EnterFacts DEF EthCall
  <2> QED
    BY <1>0, <1>1, <2>3 DEF EthCall, keys
<1>2. ASSUME NEW a \in Accounts, CallContract(a) PROVE KeysOK' /\ HashOK' /\ ContextOK'
  <2>1. LookupCode(a) \in Codes
    BY <1>2, LookupFacts DEF CallContract, Values
  <2>2. Name(a, "lower") \in Names
    BY NameFacts DEF Spellings
  <2>3. Frame(Name(a, "lower"), LookupCode(a), FALSE) \in Frames
    BY <2>1, <2>2, FrameFacts
  <2>4. ContextOK'
    BY <1>2, <2>3, EnterFacts DEF CallContract
  <2> QED
    BY <1>0, <1>2, <2>4 DEF CallContract, keys
<1>3. ASSUME NEW a \in Accounts, DelegateTo(a) PROVE KeysOK' /\ HashOK' /\ ContextOK'
  <2>1. LookupCode(a) \in Codes
    BY <1>3, LookupFacts DEF DelegateTo, Values
  <2>2. Top.at \in Names
    BY <1>3, TopFacts DEF DelegateTo, Running
  <2>3. Frame(Top.at, LookupCode(a), FALSE) \in Frames
    BY <2>1, <2>2, FrameFacts
  <2>4. ContextOK'
    BY <1>3, <2>3, EnterFacts DEF DelegateTo
  <2> QED
    BY <1>0, <1>3, <2>4 DEF DelegateTo, keys
<1>4. ASSUME NEW c \in Codes, RunInitCode(c) PROVE KeysOK' /\ HashOK' /\ ContextOK'
  <2>1. Top.at \in Names
    BY <1>4, TopFacts DEF RunInitCode, Running
  <2>2. Frame(Top.at, c, TRUE) \in Frames
    BY <2>1, FrameFacts
  <2>3. ContextOK'
    BY <1>4, <2>2, EnterFacts DEF RunInitCode
  <2> QED
    BY <1>0, <1>4, <2>3 DEF RunInitCode, keys
<1>5. ASSUME Return PROVE KeysOK' /\ HashOK' /\ ContextOK'
  BY <1>0, <1>5, LeaveFacts DEF Return, keys
<1>6. ASSUME NEW a \in Derivable, NEW c \in Codes, Deploy(a, c)
      PROVE  KeysOK' /\ HashOK' /\ ContextOK'
  <2>1. ContextOK'
    BY <1>6, LeaveFacts DEF Deploy
  <2>2. deployed' \in [Accounts -> Values]
    BY <1>0, <1>6 DEF Deploy, Values
  <2> QED
    BY <1>0, <1>6, <2>1, <2>2 DEF Deploy
<1>7. ASSUME SelfDestruct PROVE KeysOK' /\ HashOK' /\ ContextOK'
  <2>1. ContextOK'
    BY <1>7, StopFacts DEF SelfDestruct, Running
  <2>2. deployed' \in [Accounts -> Values]
    BY <1>0, <1>7 DEF SelfDestruct, Values
  <2> QED
    BY <1>0, <1>7, <2>1, <2>2 DEF SelfDestruct
<1>8. ASSUME NEW n \in Names, ExtCodeHash(n) PROVE KeysOK' /\ HashOK' /\ ContextOK'
  BY <1>0, <1>8 DEF ExtCodeHash, keys
<1>9. ASSUME NEW convention \in Conventions, NEW n \in Names, NEW v \in Values,
             OperatorStores(convention, n, v)
      PROVE  KeysOK' /\ HashOK' /\ ContextOK'
  <2>1. n[1] \in Accounts
    BY NamesAccount
  <2>2. raw' \in [Names -> Values] /\ tagged' \in [Names -> Values]
    BY <1>0, <1>9 DEF OperatorStores
  <2>3. bare' \in [Accounts -> Values] /\ deployed' \in [Accounts -> Values]
    BY <1>0, <1>9, <2>1 DEF OperatorStores
  <2> QED
    BY <1>0, <1>9, <2>2, <2>3 DEF OperatorStores
<1>10. CASE UNCHANGED vars
  BY <1>0, <1>10 DEF vars, keys
<1> QED
  BY <1>1, <1>2, <1>3, <1>4, <1>5, <1>6, <1>7, <1>8, <1>9, <1>10 DEF Next, Execution

\* Every key holds code or nothing, and every frame runs code, not lookup_code's nil.
THEOREM StoreTypeCorrect == Spec => []TypeOK
<1>1. Init => TypeOK
  BY DEF Init, TypeOK, Values, Conventions
<1> QED
  BY <1>1, NextTypeOK, PTL DEF Spec

\* While the operator leaves the keys alone, the cached hashes never go stale: no operation
\* of the interpreter writes a key that EXTCODEHASH reads. The invariant is inductive.
THEOREM CachedHashesFresh ==
  ASSUME ~OperatorRewrites PROVE Spec => []HashMatchesCode
<1>1. Init => HashMatchesCode
  BY DEF Init, HashMatchesCode
<1>2. TypeOK /\ HashMatchesCode /\ [Next]_vars => HashMatchesCode'
  <2> SUFFICES ASSUME TypeOK, HashMatchesCode, [Next]_vars PROVE HashMatchesCode'
    OBVIOUS
  <2>1. ASSUME UNCHANGED <<tagged, hash>> PROVE HashMatchesCode'
    BY <2>1 DEF HashMatchesCode
  <2>2. ASSUME NEW n \in Names, ExtCodeHash(n) PROVE HashMatchesCode'
    BY <2>2 DEF ExtCodeHash, HashMatchesCode, TypeOK, keys
  <2>3. ASSUME Execution, ~(\E n \in Names : ExtCodeHash(n)) PROVE UNCHANGED <<tagged, hash>>
    BY <2>3 DEF Execution, EthCall, CallContract, DelegateTo, RunInitCode, Return, Deploy,
                SelfDestruct, keys
  <2>4. ~(\E convention \in Conventions, n \in Names, v \in Values :
            OperatorStores(convention, n, v))
    BY DEF OperatorStores
  <2>5. CASE UNCHANGED vars
    BY <2>1, <2>5 DEF vars, keys
  <2> QED
    BY <2>1, <2>2, <2>3, <2>4, <2>5 DEF Next
<1> QED
  BY <1>1, <1>2, StoreTypeCorrect, PTL DEF Spec

\* The frame that eth_call opened finds its own code under CODESIZE and CODECOPY to its end,
\* even if the operator changes keys between calls.
THEOREM TopAlwaysReadsItsCode == Spec => []TopReadsItsCode
<1>1. Init => TopReadsItsCode
  BY DEF Init, TopReadsItsCode, Idle
<1>2. TypeOK /\ TopReadsItsCode /\ [Next]_vars => TopReadsItsCode'
  <2> SUFFICES ASSUME TypeOK, TopReadsItsCode, [Next]_vars, ~Idle'
               PROVE  raw'[context'[1].at] = context'[1].runs
    BY DEF TopReadsItsCode
  <2>1. ASSUME NEW n \in Names, EthCall(n) PROVE raw'[context'[1].at] = context'[1].runs
    <3>1. raw[n] \in Codes
      BY <2>1 DEF EthCall, Values, TypeOK
    <3>2. Frame(n, raw[n], FALSE) \in Frames
      BY <3>1, FrameFacts
    <3>3. context'[1] = Frame(n, raw[n], FALSE)
      BY <2>1, <3>2, EnterFacts DEF EthCall
    <3> QED
      BY <2>1, <3>3 DEF EthCall, Frame, keys
  <2>2. ASSUME ~Idle, raw' = raw,
               context'[1].at = context[1].at, context'[1].runs = context[1].runs
        PROVE  raw'[context'[1].at] = context'[1].runs
    BY <2>2 DEF TopReadsItsCode
  <2>3. ASSUME NEW f \in Frames, ~Idle, Enter(f), raw' = raw
        PROVE  raw'[context'[1].at] = context'[1].runs
    BY <2>2, <2>3, EnterFacts
  <2>4. ASSUME ~Idle, Leave, raw' = raw PROVE raw'[context'[1].at] = context'[1].runs
    BY <2>2, <2>4, LeaveFacts DEF Idle
  <2>5. ASSUME NEW a \in Accounts, CallContract(a)
        PROVE  raw'[context'[1].at] = context'[1].runs
    <3>1. LookupCode(a) \in Codes /\ Name(a, "lower") \in Names
      BY <2>5, LookupFacts, NameFacts DEF CallContract, Values, Spellings
    <3>2. Frame(Name(a, "lower"), LookupCode(a), FALSE) \in Frames
      BY <3>1, FrameFacts
    <3> QED
      BY <2>3, <2>5, <3>2 DEF CallContract, Running, keys
  <2>6. ASSUME NEW a \in Accounts, DelegateTo(a) PROVE raw'[context'[1].at] = context'[1].runs
    <3>1. LookupCode(a) \in Codes /\ Top.at \in Names
      BY <2>6, LookupFacts, TopFacts DEF DelegateTo, Running, Values
    <3>2. Frame(Top.at, LookupCode(a), FALSE) \in Frames
      BY <3>1, FrameFacts
    <3> QED
      BY <2>3, <2>6, <3>2 DEF DelegateTo, Running, keys
  <2>7. ASSUME NEW c \in Codes, RunInitCode(c) PROVE raw'[context'[1].at] = context'[1].runs
    <3>1. Top.at \in Names
      BY <2>7, TopFacts DEF RunInitCode, Running
    <3>2. Frame(Top.at, c, TRUE) \in Frames
      BY <3>1, FrameFacts
    <3> QED
      BY <2>3, <2>7, <3>2 DEF RunInitCode, Running, keys
  <2>8. ASSUME Return PROVE raw'[context'[1].at] = context'[1].runs
    BY <2>4, <2>8 DEF Return, keys
  <2>9. ASSUME NEW a \in Derivable, NEW c \in Codes, Deploy(a, c)
        PROVE  raw'[context'[1].at] = context'[1].runs
    BY <2>4, <2>9 DEF Deploy
  <2>10. ASSUME SelfDestruct PROVE raw'[context'[1].at] = context'[1].runs
    BY <2>2, <2>10, StopFacts DEF SelfDestruct, Running
  <2>11. ASSUME NEW n \in Names, ExtCodeHash(n) PROVE raw'[context'[1].at] = context'[1].runs
    BY <2>2, <2>11 DEF ExtCodeHash, Running, keys
  <2>12. ASSUME NEW convention \in Conventions, NEW n \in Names, NEW v \in Values,
                OperatorStores(convention, n, v)
         PROVE  FALSE
    BY <2>12 DEF OperatorStores, Idle
  <2>13. CASE UNCHANGED vars
    BY <2>2, <2>13 DEF vars, keys, Idle
  <2> QED
    BY <2>1, <2>5, <2>6, <2>7, <2>8, <2>9, <2>10, <2>11, <2>12, <2>13 DEF Next, Execution
<1> QED
  BY <1>1, <1>2, StoreTypeCorrect, PTL DEF Spec

\* Code under one of the operator's keys is what a CALL runs until the operator changes it.
THEOREM InstalledCodeStays ==
  ASSUME ~OperatorRewrites PROVE Spec => InstalledCodeIsStable
<1>1. TypeOK /\ [Next]_vars =>
        [\A a \in Accounts :
           raw[Name(a, "lower")] # None \/ bare[a] # None \/ tagged[Name(a, "lower")] # None
             => LookupCode(a)' = LookupCode(a)]_vars
  <2> SUFFICES ASSUME TypeOK, Next, NEW a \in Accounts,
                      \/ raw[Name(a, "lower")] # None
                      \/ bare[a] # None
                      \/ tagged[Name(a, "lower")] # None
               PROVE  LookupCode(a)' = LookupCode(a)
    OBVIOUS
  <2>1. UNCHANGED <<raw, bare, tagged>>
    BY DEF Next, Execution, EthCall, CallContract, DelegateTo, RunInitCode, Return, Deploy,
           SelfDestruct, ExtCodeHash, OperatorStores, keys
  <2> QED
    BY <2>1 DEF LookupCode, OrElse
<1> QED
  BY <1>1, StoreTypeCorrect, PTL DEF Spec, InstalledCodeIsStable
=============================================================================
