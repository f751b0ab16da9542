-------------------------- MODULE OperationsProofs --------------------------
(***************************************************************************)
(* The components the other modules do not prove about, and all components *)
(* together, for any constants: the composition implements each of them,   *)
(* as what they share is only the clock, so what is proved of a component  *)
(* alone holds of it among the others.                                     *)
(***************************************************************************)
EXTENDS Operations, DisputesProofs, AdministrationProofs, SumsProofs

-----------------------------------------------------------------------------
(* Places in an order.                                                     *)

(* The place of each member of a set: how many are before it, and itself.  *)
Place(S, R) == [x \in S |-> Cardinality({y \in S : <<y, x>> \in R})]

(* A relation that orders a set.                                           *)
Orders(R, S) ==
  /\ \A x, y \in S : <<x, y>> \in R \/ <<y, x>> \in R
  /\ \A x, y \in S : <<x, y>> \in R /\ <<y, x>> \in R => x = y
  /\ \A x, y, z \in S : <<x, y>> \in R /\ <<y, z>> \in R => <<x, z>> \in R

(* Places from the first to the last, in the order, each its own.          *)
Placing(p, R, S) ==
  /\ p \in [S -> 1..Cardinality(S)]
  /\ \A x, y \in S : <<x, y>> \in R /\ x # y => p[x] < p[y]
  /\ \A x, y \in S : p[x] = p[y] => x = y
  /\ \A k \in 1..Cardinality(S) : \E x \in S : p[x] = k

(* In an order that is total the members of a finite set have the places   *)
(* from the first to the last, each its own.                               *)
LEMMA PlacesAreAll ==
  ASSUME NEW S, IsFiniteSet(S), NEW R,
         Orders(R, S)
  PROVE  Placing(Place(S, R), R, S)
  <1> PICK place : place = Place(S, R)
    OBVIOUS
  <1>0. place = [x \in S |-> Cardinality({y \in S : <<y, x>> \in R})]
    BY DEF Place
  <1> DEFINE Upto(x) == {y \in S : <<y, x>> \in R}
  <1>1. PICK n \in Nat : n = Cardinality(S)
    BY FS_CardinalityType
  <1>2. ASSUME NEW x \in S
        PROVE  /\ IsFiniteSet(Upto(x)) /\ place[x] = Cardinality(Upto(x))
               /\ place[x] \in 1..n /\ x \in Upto(x)
    <2>1. x \in Upto(x) /\ Upto(x) \subseteq S /\ place[x] = Cardinality(Upto(x))
      BY <1>0 DEF Orders
    <2>2. IsFiniteSet(Upto(x)) /\ Cardinality(Upto(x)) <= n
          /\ Cardinality(Upto(x)) \in Nat
      BY <1>1, <2>1, FS_Subset, FS_CardinalityType
    <2>3. Cardinality(Upto(x)) # 0
      BY <2>1, <2>2, FS_EmptySet
    <2> QED BY <1>1, <2>1, <2>2, <2>3
  <1>3. ASSUME NEW x \in S, NEW y \in S, <<x, y>> \in R, x # y
        PROVE  place[x] < place[y]
    <2>1. Upto(x) \subseteq Upto(y) /\ y \notin Upto(x) /\ y \in Upto(y)
      BY <1>2, <1>3 DEF Orders
    <2>2. /\ IsFiniteSet(Upto(y)) /\ place[x] = Cardinality(Upto(x))
          /\ place[y] = Cardinality(Upto(y)) /\ place[x] \in 1..n /\ place[y] \in 1..n
      BY <1>2
    <2>3. Cardinality(Upto(x)) <= Cardinality(Upto(y))
          /\ Cardinality(Upto(x)) # Cardinality(Upto(y))
      <3> HIDE DEF Upto
      <3> QED BY <2>1, <2>2, FS_Subset
    <2> QED BY <2>2, <2>3
  <1>4. ASSUME NEW x \in S, NEW y \in S, place[x] = place[y]
        PROVE  x = y
    <2>1. place[x] \in 1..n /\ place[y] \in 1..n
      BY <1>2
    <2>2. ~(place[x] < place[y]) /\ ~(place[y] < place[x])
      BY <1>4, <2>1
    <2> QED BY <1>3, <2>2 DEF Orders
  <1>5. place \in [S -> 1..n]
    BY <1>0, <1>2
  <1>6. place \in Injection(S, 1..n)
    BY <1>4, <1>5 DEF Injection, IsInjective
  <1>7. IsFiniteSet(1..n) /\ Cardinality(1..n) = n
    BY <1>1, FS_Interval
  <1>8. place \in Surjection(S, 1..n)
    BY <1>1, <1>6, <1>7, FS_Injection
  <1>9. \A k \in 1..n : \E x \in S : place[x] = k
    BY <1>8 DEF Surjection
  <1> QED BY <1>1, <1>3, <1>4, <1>5, <1>9 DEF Placing

(* So have the members of a set of numbers, which can be listed.           *)
LEMMA ListedInOrder ==
  ASSUME NEW n \in Nat, NEW K \in SUBSET (1..n)
  PROVE  /\ Cardinality(K) \in 0..n
         /\ \A k \in 1..Cardinality(K) :
              \E i \in K : Cardinality({j \in K : j <= i}) = k
         /\ \A i \in K : Cardinality({j \in K : j <= i}) \in 1..Cardinality(K)
         /\ \A i, j \in K : Cardinality({k \in K : k <= i}) = Cardinality({k \in K : k <= j})
              => i = j
  <1> DEFINE R == {p \in K \X K : p[1] <= p[2]}
  <1>1. IsFiniteSet(K) /\ Cardinality(K) \in 0..n
    <2>1. IsFiniteSet(1..n) /\ Cardinality(1..n) = n
      BY FS_Interval
    <2>2. IsFiniteSet(K) /\ Cardinality(K) <= n
      BY <2>1, FS_Subset
    <2> QED BY <2>2, FS_CardinalityType
  <1>2. \A x, y \in K : <<x, y>> \in R <=> x <= y
    OBVIOUS
  <1>3. \A x \in K : x \in Int
    OBVIOUS
  <1>4. \A x \in K : Place(K, R)[x] = Cardinality({y \in K : y <= x})
    <2> TAKE x \in K
    <2>1. {y \in K : <<y, x>> \in R} = {y \in K : y <= x}
      BY <1>2
    <2> QED BY <2>1 DEF Place
  <1> HIDE DEF R
  <1>6. Orders(R, K)
    BY <1>2, <1>3 DEF Orders
  <1>7. /\ Place(K, R) \in [K -> 1..Cardinality(K)]
        /\ \A x, y \in K : Place(K, R)[x] = Place(K, R)[y] => x = y
        /\ \A k \in 1..Cardinality(K) : \E x \in K : Place(K, R)[x] = k
    <2>1. Placing(Place(K, R), R, K)
      BY <1>1, <1>6, PlacesAreAll
    <2> QED BY <2>1 DEF Placing
  <1> QED BY <1>1, <1>4, <1>7

-----------------------------------------------------------------------------
(* The callbacks of oracles.                                               *)

(* Each callback processed left its nonce, and its time or a later one.    *)
ProcessedRemembered ==
  \A i \in 1..Len(processed) :
    /\ <<processed[i].source, processed[i].nonce>> \in usedNonces
    /\ processed[i].at <= lastCallback[processed[i].source]

CallbacksInv ==
  /\ now \in Nat
  /\ lastCallback \in [Sources -> Nat]
  /\ processed \in Seq(Callbacks)
  /\ ProcessedRemembered
  /\ CallbacksOnce

LEMMA CallbacksInvInit == OraclesInit => CallbacksInv
  <1> SUFFICES ASSUME OraclesInit PROVE CallbacksInv
    OBVIOUS
  <1>1. Len(processed) = 0 /\ processed \in Seq(Callbacks)
    BY DEF OraclesInit
  <1>2. now \in Nat /\ lastCallback \in [Sources -> Nat]
    BY ClockAssumption DEF OraclesInit
  <1>3. ProcessedRemembered /\ CallbacksOnce
    BY <1>1 DEF ProcessedRemembered, CallbacksOnce
  <1> QED BY <1>1, <1>2, <1>3 DEF CallbacksInv

LEMMA ProcessCallbackKeeps ==
  ASSUME CallbacksInv, NEW s \in Sources, NEW n \in Nonces, NEW t \in Nat,
         ProcessCallback(s, n, t)
  PROVE  CallbacksInv'
  <1> DEFINE e == [source |-> s, nonce |-> n, at |-> now]
             N == Len(processed)
  <1>1. /\ <<s, n>> \notin usedNonces
        /\ now >= lastCallback[s] + CallbackInterval
        /\ usedNonces' = usedNonces \cup {<<s, n>>}
        /\ lastCallback' = [lastCallback EXCEPT ![s] = now]
        /\ processed' = Append(processed, e) /\ now' = now
    BY DEF ProcessCallback, NewNonce, Rested
  <1>2. e \in Callbacks /\ e.source = s /\ e.nonce = n /\ e.at = now
    BY DEF Callbacks, CallbacksInv
  <1> HIDE DEF e
  <1>3. /\ processed' \in Seq(Callbacks)
        /\ N \in Nat /\ Len(processed') = N + 1 /\ processed'[N + 1] = e
        /\ \A i \in 1..N : processed'[i] = processed[i]
    BY <1>1, <1>2, AppendProperties DEF CallbacksInv
  <1>4. \A i \in 1..N : /\ processed[i].source \in Sources
                        /\ processed[i].at \in Nat
    <2>1. \A i \in 1..N : processed[i] \in Callbacks
      BY ElementOfSeq DEF CallbacksInv
    <2> QED BY <2>1 DEF Callbacks
  <1>5. /\ now \in Nat /\ lastCallback[s] \in Nat /\ CallbackInterval \in Nat
        /\ lastCallback[s] <= now
    BY <1>1, OraclesAssumption DEF CallbacksInv
  <1>6. /\ lastCallback' \in [Sources -> Nat] /\ lastCallback'[s] = now
        /\ \A u \in Sources : lastCallback[u] <= lastCallback'[u]
    BY <1>1, <1>5 DEF CallbacksInv
  <1>7. \A i \in 1..(N + 1) : i = N + 1 \/ i \in 1..N
    BY <1>3
  <1>8. ASSUME NEW i \in 1..N
        PROVE  /\ <<processed[i].source, processed[i].nonce>> \in usedNonces
               /\ processed[i].at <= lastCallback[processed[i].source]
    BY DEF CallbacksInv, ProcessedRemembered
  <1>9. ProcessedRemembered'
    <2>1. ASSUME NEW i \in 1..(N + 1)
          PROVE  /\ <<processed'[i].source, processed'[i].nonce>> \in usedNonces'
                 /\ processed'[i].at <= lastCallback'[processed'[i].source]
      <3>1. CASE i = N + 1
        BY <3>1, <1>1, <1>2, <1>3, <1>5, <1>6
      <3>2. CASE i \in 1..N
        <4> DEFINE u == processed[i].source
        <4>1. /\ lastCallback[u] <= lastCallback'[u] /\ lastCallback[u] \in Nat
              /\ lastCallback'[u] \in Nat /\ processed[i].at \in Nat
          BY <3>2, <1>4, <1>6 DEF CallbacksInv
        <4>2. processed[i].at <= lastCallback[u]
          BY <3>2, <1>8
        <4>3. processed[i].at <= lastCallback'[u]
          BY <4>1, <4>2
        <4> QED BY <3>2, <4>3, <1>1, <1>3, <1>8
      <3> QED BY <3>1, <3>2, <1>7
    <2> QED BY <2>1, <1>3 DEF ProcessedRemembered
  <1>10. CallbacksOnce'
    <2>1. ASSUME NEW i \in 1..(N + 1), NEW j \in 1..(N + 1), i < j,
                 processed'[i].source = processed'[j].source
          PROVE  /\ processed'[i].nonce # processed'[j].nonce
                 /\ processed'[i].at + CallbackInterval <= processed'[j].at
      <3>1. i \in 1..N
        BY <2>1, <1>3
      <3>2. CASE j = N + 1
        <4>1. processed[i].source = s /\ processed'[i] = processed[i]
              /\ processed'[j] = e
          BY <2>1, <3>1, <3>2, <1>2, <1>3
        <4>2. processed[i].nonce # n
          BY <3>1, <4>1, <1>1, <1>8
        <4>3. processed[i].at <= lastCallback[s] /\ processed[i].at \in Nat
          BY <3>1, <4>1, <1>4, <1>8
        <4>4. processed[i].at + CallbackInterval <= now
          BY <4>3, <1>1, <1>5
        <4> QED BY <4>1, <4>2, <4>4, <1>2
      <3>3. CASE j \in 1..N
        BY <2>1, <3>1, <3>3, <1>3 DEF CallbacksInv, CallbacksOnce
      <3> QED BY <3>2, <3>3, <1>7
    <2> QED BY <2>1, <1>3 DEF CallbacksOnce
  <1> QED BY <1>1, <1>3, <1>6, <1>9, <1>10 DEF CallbacksInv

LEMMA CallbacksInvStep ==
  ASSUME CallbacksInv, [OraclesNext]_<<now, oracleVars>>
  PROVE  CallbacksInv'
  <1>1. ASSUME UNCHANGED callbackVars, now' \in Nat
        PROVE  CallbacksInv'
    BY <1>1 DEF callbackVars, CallbacksInv, ProcessedRemembered, CallbacksOnce
  <1>2. now \in Nat
    BY DEF CallbacksInv
  <1>3. ASSUME NEW s \in Sources, NEW n \in Nonces,
               NEW t \in {now, now + MaxDeviation + 1}, ProcessCallback(s, n, t)
        PROVE  CallbacksInv'
    BY <1>2, <1>3, ProcessCallbackKeeps, OraclesAssumption
  <1>4. CASE Tick /\ UNCHANGED oracleVars
    BY <1>1, <1>2, <1>4 DEF Tick, oracleVars
  <1>5. CASE UNCHANGED <<now, oracleVars>>
    BY <1>1, <1>2, <1>5 DEF oracleVars
  <1>6. ASSUME NEW s \in Sources,
               \/ AddSource(s) \/ RemoveSource(s)
               \/ \E on \in BOOLEAN : SwitchSource(s, on)
        PROVE  CallbacksInv'
    BY <1>1, <1>2, <1>6 DEF AddSource, RemoveSource, SwitchSource
  <1>7. ASSUME NEW a \in Curators,
               InitializeWhitelist(a) \/ AddCurator(a) \/ RemoveCurator(a)
        PROVE  CallbacksInv'
    BY <1>1, <1>2, <1>7 DEF InitializeWhitelist, AddCurator, RemoveCurator
  <1>8. ASSUME VerifyResult
        PROVE  CallbacksInv'
    BY <1>1, <1>2, <1>8 DEF VerifyResult, SourcesRule
  <1>9. ASSUME NEW o \in Outcome, OverrideResult(o)
        PROVE  CallbacksInv'
    BY <1>1, <1>2, <1>9 DEF OverrideResult
  <1> QED BY <1>3, <1>4, <1>5, <1>6, <1>7, <1>8, <1>9 DEF OraclesNext

(* An oracle's callbacks carry different nonces and come an interval       *)
(* apart, whatever is added to and removed from the whitelist meanwhile    *)
(* (prevent_replay_attack, enforce_rate_limiting).                         *)
THEOREM CallbacksAreNotReplayed == OraclesSpec => []CallbacksOnce
  <1>1. OraclesSpec => []CallbacksInv
    BY CallbacksInvInit, CallbacksInvStep, PTL DEF OraclesSpec
  <1>2. CallbacksInv => CallbacksOnce
    BY DEF CallbacksInv
  <1> QED BY <1>1, <1>2, PTL

-----------------------------------------------------------------------------
(* The balances.                                                           *)

LEMMA AmountChanges ==
  ASSUME NEW f \in [Depositors -> Nat], NEW u \in Depositors, NEW a \in Int,
         f[u] + a >= 0
  PROVE  /\ [f EXCEPT ![u] = @ + a] \in [Depositors -> Nat]
         /\ SumOver([f EXCEPT ![u] = @ + a], Depositors) = SumOver(f, Depositors) + a
         /\ SumOver(f, Depositors) \in Nat
  <1> DEFINE g == [f EXCEPT ![u] = @ + a]
  <1>1. /\ g \in [Depositors -> Nat] /\ g[u] = f[u] + a /\ f[u] \in Nat
        /\ \A v \in Depositors \ {u} : g[v] = f[v]
    OBVIOUS
  <1>2. Amounts(f, Depositors) /\ \A h \in [Depositors -> Nat] : Amounts(h, Depositors)
    BY BalancesAssumption DEF Amounts
  <1> HIDE DEF g
  <1>3. SumOver(g, Depositors) = SumOver(f, Depositors) - f[u] + g[u]
    BY <1>1, <1>2, SumChanges
  <1>4. SumOver(f, Depositors) \in Nat
    BY <1>2, SumIsAmount
  <1>5. SumOver(g, Depositors) = SumOver(f, Depositors) + a
    BY <1>1, <1>3, <1>4
  <1> QED BY <1>1, <1>4, <1>5 DEF g

BalancesInv == BalancesTypeOK /\ BalancesCovered

LEMMA BalancesInvInit == BalancesInit => BalancesInv
  <1> SUFFICES ASSUME BalancesInit PROVE BalancesInv
    OBVIOUS
  <1>1. BalancesTypeOK
    BY BalancesAssumption DEF BalancesInit, BalancesTypeOK, Gates
  <1>2. SumOver(credited, Depositors) = 0
    <2>1. \A u \in Depositors : credited[u] = 0
      BY DEF BalancesInit
    <2> QED BY <2>1, SumOfZeros
  <1>3. SumOver(purse, Depositors) = Tokens * Cardinality(Depositors)
    <2> DEFINE ones == [u \in Depositors |-> 1]
    <2>1. \A u \in Depositors : purse[u] = Tokens * ones[u]
      BY BalancesAssumption DEF BalancesInit
    <2>2. Amounts(ones, Depositors)
      BY BalancesAssumption DEF Amounts
    <2>3. SumOver(ones, Depositors) = Cardinality(Depositors)
      BY SumOfOnes, BalancesAssumption
    <2> HIDE DEF ones
    <2> QED BY <2>1, <2>2, <2>3, SumScales, BalancesAssumption
  <1>4. Tokens * Cardinality(Depositors) \in Nat
    BY BalancesAssumption, FS_CardinalityType
  <1>5. \A u \in Depositors : purse[u] + credited[u] + spent[u] = Tokens
    BY BalancesAssumption DEF BalancesInit
  <1> QED BY <1>1, <1>2, <1>3, <1>4, <1>5
          DEF BalancesInv, BalancesCovered, BalancesInit

(* A step moves p into the tokens of u, c into the balance and t into the  *)
(* stakes, which together come to nothing.                                 *)
MoneyMoved(u, p, c, t) ==
  /\ p \in Int /\ c \in Int /\ t \in Int /\ p + c + t = 0
  /\ purse[u] + p >= 0 /\ credited[u] + c >= 0 /\ held - p >= 0
  /\ purse' = [purse EXCEPT ![u] = @ + p]
  /\ held' = held - p
  /\ credited' = [credited EXCEPT ![u] = @ + c]
  /\ staked' = staked + t
  /\ spent' = [spent EXCEPT ![u] = @ + t]
  /\ gate' = gate /\ pauses' = pauses

LEMMA SharesMove ==
  ASSUME NEW x \in Int, NEW y \in Int, NEW z \in Int,
         NEW p \in Int, NEW c \in Int, NEW t \in Int, p + c + t = 0
  PROVE  (x + p) + (y + c) + (z + t) = x + y + z
  OBVIOUS

LEMMA MoneyMoves ==
  ASSUME BalancesInv, NEW u \in Depositors, NEW p, NEW c, NEW t, MoneyMoved(u, p, c, t)
  PROVE  BalancesInv'
  <1>9. /\ p \in Int /\ c \in Int /\ t \in Int /\ p + c + t = 0
        /\ purse[u] + p >= 0 /\ credited[u] + c >= 0 /\ held - p >= 0
        /\ purse' = [purse EXCEPT ![u] = @ + p] /\ held' = held - p
        /\ credited' = [credited EXCEPT ![u] = @ + c]
        /\ staked' = staked + t /\ spent' = [spent EXCEPT ![u] = @ + t]
        /\ gate' = gate /\ pauses' = pauses
    BY DEF MoneyMoved
  <1>0. /\ BalancesTypeOK
        /\ SumOver(credited, Depositors) + staked = held
        /\ SumOver(purse, Depositors) + held = Tokens * Cardinality(Depositors)
        /\ \A v \in Depositors : purse[v] + credited[v] + spent[v] = Tokens
        /\ held \in Nat /\ staked \in Int /\ spent \in [Depositors -> Int]
        /\ credited \in [Depositors -> Nat] /\ purse \in [Depositors -> Nat]
        /\ gate \in Gates /\ pauses \in 0..MaxPauses
    BY DEF BalancesInv, BalancesCovered, BalancesTypeOK
  <1>1. /\ purse' \in [Depositors -> Nat]
        /\ SumOver(purse', Depositors) = SumOver(purse, Depositors) + p
        /\ SumOver(purse, Depositors) \in Nat
    <2>1. purse \in [Depositors -> Nat]
      BY <1>0, <1>9
    <2> QED BY <1>9, <2>1, AmountChanges
  <1>2. /\ credited' \in [Depositors -> Nat]
        /\ SumOver(credited', Depositors) = SumOver(credited, Depositors) + c
        /\ SumOver(credited, Depositors) \in Nat
    <2>1. credited \in [Depositors -> Nat]
      BY <1>0, <1>9
    <2> QED BY <1>9, <2>1, AmountChanges
  <1>3. held' \in Nat /\ staked' \in Int /\ spent' \in [Depositors -> Int]
    BY <1>0, <1>9
  <1>4. SumOver(credited', Depositors) + staked' = held'
    BY <1>0, <1>9, <1>2
  <1>5. SumOver(purse', Depositors) + held' = Tokens * Cardinality(Depositors)
    BY <1>0, <1>9, <1>1
  <1>6. ASSUME NEW v \in Depositors
        PROVE  purse'[v] + credited'[v] + spent'[v] = Tokens
    <2>1. CASE v = u
      <3>1. /\ purse'[u] = purse[u] + p /\ credited'[u] = credited[u] + c
            /\ spent'[u] = spent[u] + t
        BY <1>0, <1>9
      <3>2. /\ purse[u] \in Nat /\ credited[u] \in Nat /\ spent[u] \in Int
            /\ purse[u] + credited[u] + spent[u] = Tokens
        BY <1>0, <1>9
      <3> QED BY <1>9, <2>1, <3>1, <3>2, SharesMove
    <2>2. CASE v # u
      <3>1. purse'[v] = purse[v] /\ credited'[v] = credited[v] /\ spent'[v] = spent[v]
        BY <1>0, <1>9, <2>2
      <3> QED BY <1>0, <1>9, <3>1
    <2> QED BY <2>1, <2>2
  <1>7. BalancesTypeOK'
    BY <1>0, <1>9, <1>1, <1>2, <1>3 DEF BalancesTypeOK
  <1>8. BalancesCovered'
    BY <1>4, <1>5, <1>6 DEF BalancesCovered
  <1> QED BY <1>7, <1>8 DEF BalancesInv

(* Nothing is added where nothing changes.                                 *)
LEMMA NothingAdded ==
  ASSUME BalancesTypeOK, NEW u \in Depositors
  PROVE  /\ purse = [purse EXCEPT ![u] = @ + 0]
         /\ credited = [credited EXCEPT ![u] = @ + 0]
         /\ spent = [spent EXCEPT ![u] = @ + 0]
         /\ held = held - 0 /\ staked = staked + 0
  <1>1. /\ purse \in [Depositors -> Nat] /\ credited \in [Depositors -> Nat]
        /\ spent \in [Depositors -> Int] /\ held \in Nat /\ staked \in Int
    BY DEF BalancesTypeOK
  <1> QED BY <1>1

LEMMA BalancesInvStep ==
  ASSUME BalancesInv, [BalancesNext]_balanceVars
  PROVE  BalancesInv'
  <1>0. /\ BalancesTypeOK /\ held \in Nat
        /\ \A u \in Depositors : /\ purse[u] \in Nat /\ credited[u] \in Nat
                               /\ spent[u] \in Int
    BY DEF BalancesInv, BalancesTypeOK
  <1>1. ASSUME NEW u \in Depositors, NEW a \in Transfers, Deposit(u, a)
        PROVE  BalancesInv'
    <2>1. /\ a \in Int /\ a > 0 /\ a <= purse[u]
          /\ purse' = [purse EXCEPT ![u] = @ - a] /\ held' = held + a
          /\ credited' = [credited EXCEPT ![u] = @ + a]
          /\ staked' = staked /\ spent' = spent /\ gate' = gate /\ pauses' = pauses
      BY <1>1, BalancesAssumption DEF Deposit, TransferIn, AddBalance, stakeVars
    <2>2. PICK b \in Int : b = 0 - a
      BY <2>1
    <2>3. /\ 0 \in Int /\ b + a + 0 = 0 /\ purse[u] + b >= 0 /\ credited[u] + a >= 0
          /\ held - b >= 0 /\ purse[u] - a = purse[u] + b /\ held + a = held - b
      BY <1>0, <2>1, <2>2
    <2>4. purse' = [purse EXCEPT ![u] = @ + b] /\ held' = held - b
      BY <2>1, <2>3
    <2>5. staked' = staked + 0 /\ spent' = [spent EXCEPT ![u] = @ + 0]
      BY <1>0, <2>1, NothingAdded
    <2>6. MoneyMoved(u, b, a, 0)
      BY <2>1, <2>2, <2>3, <2>4, <2>5, Zenon DEF MoneyMoved
    <2> QED BY <2>6, MoneyMoves
  <1>2. ASSUME NEW u \in Depositors, NEW a \in Transfers, Withdraw(u, a)
        PROVE  BalancesInv'
    <2>1. /\ a \in Int /\ a > 0 /\ a <= credited[u] /\ a <= held
          /\ purse' = [purse EXCEPT ![u] = @ + a] /\ held' = held - a
          /\ credited' = [credited EXCEPT ![u] = @ - a]
          /\ staked' = staked /\ spent' = spent /\ gate' = gate /\ pauses' = pauses
      BY <1>2, BalancesAssumption DEF Withdraw, TransferOut, SubBalance, stakeVars
    <2>2. PICK b \in Int : b = 0 - a
      BY <2>1
    <2>3. /\ 0 \in Int /\ a + b + 0 = 0 /\ purse[u] + a >= 0 /\ credited[u] + b >= 0
          /\ held - a >= 0 /\ credited[u] - a = credited[u] + b
      BY <1>0, <2>1, <2>2
    <2>4. credited' = [credited EXCEPT ![u] = @ + b]
      BY <2>1, <2>3
    <2>5. staked' = staked + 0 /\ spent' = [spent EXCEPT ![u] = @ + 0]
      BY <1>0, <2>1, NothingAdded
    <2>6. MoneyMoved(u, a, b, 0)
      BY <2>1, <2>2, <2>3, <2>4, <2>5, Zenon DEF MoneyMoved
    <2> QED BY <2>6, MoneyMoves
  <1>3. ASSUME NEW u \in Depositors, NEW a \in Transfers, NEW op,
               LockFunds(u, a, op)
        PROVE  BalancesInv'
    <2>1. /\ a \in Int /\ a >= 0 /\ a <= purse[u]
          /\ purse' = [purse EXCEPT ![u] = @ - a] /\ held' = held + a
          /\ staked' = staked + a /\ spent' = [spent EXCEPT ![u] = @ + a]
          /\ credited' = credited /\ gate' = gate /\ pauses' = pauses
      BY <1>3, BalancesAssumption DEF LockFunds, TransferIn, Stakes
    <2>2. PICK b \in Int : b = 0 - a
      BY <2>1
    <2>3. /\ 0 \in Int /\ b + 0 + a = 0 /\ purse[u] + b >= 0 /\ credited[u] + 0 >= 0
          /\ held - b >= 0 /\ purse[u] - a = purse[u] + b /\ held + a = held - b
      BY <1>0, <2>1, <2>2
    <2>4. purse' = [purse EXCEPT ![u] = @ + b] /\ held' = held - b
      BY <2>1, <2>3
    <2>5. credited' = [credited EXCEPT ![u] = @ + 0]
      BY <1>0, <2>1, NothingAdded
    <2>6. MoneyMoved(u, b, 0, a)
      BY <2>1, <2>2, <2>3, <2>4, <2>5, Zenon DEF MoneyMoved
    <2> QED BY <2>6, MoneyMoves
  <1>4. ASSUME NEW u \in Depositors, NEW a \in Transfers, UnlockFunds(u, a)
        PROVE  BalancesInv'
    <2>1. PICK b \in Int : b = 0 - a
      BY BalancesAssumption
    <2>2. /\ a \in Int /\ a >= 0 /\ a <= held
          /\ purse' = [purse EXCEPT ![u] = @ + a] /\ held' = held - a
          /\ staked' = staked + b /\ spent' = [spent EXCEPT ![u] = @ + b]
          /\ credited' = credited /\ gate' = gate /\ pauses' = pauses
      BY <1>4, <2>1, BalancesAssumption DEF UnlockFunds, TransferOut, Stakes
    <2>3. /\ 0 \in Int /\ a + 0 + b = 0 /\ purse[u] + a >= 0 /\ credited[u] + 0 >= 0
          /\ held - a >= 0
      BY <1>0, <2>1, <2>2
    <2>4. credited' = [credited EXCEPT ![u] = @ + 0]
      BY <1>0, <2>2, NothingAdded
    <2>5. MoneyMoved(u, a, 0, b)
      BY <2>1, <2>2, <2>3, <2>4, Zenon DEF MoneyMoved
    <2> QED BY <2>5, MoneyMoves
  <1>5. ASSUME NEW u \in Depositors, NEW a \in Transfers, CreditPayout(u, a)
        PROVE  BalancesInv'
    <2>1. PICK b \in Int : b = 0 - a
      BY BalancesAssumption
    <2>2. /\ a \in Int /\ a > 0
          /\ credited' = [credited EXCEPT ![u] = @ + a]
          /\ staked' = staked + b /\ spent' = [spent EXCEPT ![u] = @ + b]
          /\ purse' = purse /\ held' = held /\ gate' = gate /\ pauses' = pauses
      BY <1>5, <2>1, BalancesAssumption DEF CreditPayout, AddBalance, Stakes
    <2>3. /\ 0 \in Int /\ 0 + a + b = 0 /\ purse[u] + 0 >= 0 /\ credited[u] + a >= 0
          /\ held - 0 >= 0
      BY <1>0, <2>1, <2>2
    <2>4. purse' = [purse EXCEPT ![u] = @ + 0] /\ held' = held - 0
      BY <1>0, <2>2, NothingAdded
    <2>5. MoneyMoved(u, 0, a, b)
      BY <2>1, <2>2, <2>3, <2>4, Zenon DEF MoneyMoved
    <2> QED BY <2>5, MoneyMoves
  <1>6. ASSUME UNCHANGED moneyOnly, gate' \in Gates, pauses' \in 0..MaxPauses
        PROVE  BalancesInv'
    BY <1>6 DEF moneyOnly, stakeVars, BalancesInv, BalancesCovered, BalancesTypeOK
  <1>7. gate \in Gates /\ pauses \in 0..MaxPauses
    BY <1>0 DEF BalancesTypeOK
  <1>8. ASSUME \/ \E scope \in {"BettingOnly", "Full"}, w \in BOOLEAN :
                    PauseBalances(scope, w)
               \/ ResumeBalances \/ SettleGate \/ TripGate \/ RecoverGate
               \/ UNCHANGED balanceVars
        PROVE  BalancesInv'
    <2>1. UNCHANGED moneyOnly
      BY <1>8 DEF PauseBalances, ResumeBalances, SettleGate, TripGate,
                  RecoverGate, GateTo, balanceVars, moneyOnly
    <2>2. pauses' \in 0..MaxPauses
      BY <1>7, <1>8, BalancesAssumption
         DEF PauseBalances, ResumeBalances, SettleGate, TripGate,
             RecoverGate, GateTo, balanceVars
    <2>3. gate' \in Gates
      <3>1. CASE \E scope \in {"BettingOnly", "Full"}, w \in BOOLEAN :
                   PauseBalances(scope, w)
        BY <3>1 DEF PauseBalances, Gates
      <3>2. CASE ResumeBalances \/ SettleGate \/ TripGate
        BY <1>7, <3>2 DEF ResumeBalances, SettleGate, TripGate, GateTo, Gates
      <3>3. CASE RecoverGate
        BY <3>3 DEF RecoverGate, GateTo, Gates
      <3>4. CASE UNCHANGED balanceVars
        BY <1>7, <3>4 DEF balanceVars
      <3> QED BY <1>8, <3>1, <3>2, <3>3, <3>4
    <2> QED BY <1>6, <2>1, <2>2, <2>3
  <1> QED BY <1>1, <1>2, <1>3, <1>4, <1>5, <1>8 DEF BalancesNext

(* The balances exceed the tokens held by what refunds and payouts exceed  *)
(* the stakes and by nothing else, no token is lost and no user's share    *)
(* changes for another, whatever deposits, withdrawals, stakes, refunds    *)
(* and payouts come in whatever order and whatever the breaker refuses     *)
(* meanwhile (balances.rs, storage.rs; docs/contracts/BALANCES.md).        *)
THEOREM BalancesAreCovered == BalancesSpec => []BalancesCovered
  <1>1. BalancesSpec => []BalancesInv
    BY BalancesInvInit, BalancesInvStep, PTL DEF BalancesSpec
  <1>2. BalancesInv => BalancesCovered
    BY DEF BalancesInv
  <1> QED BY <1>1, <1>2, PTL

-----------------------------------------------------------------------------
(* The recovery.                                                           *)

(* No record reports more than was ever refunded.                          *)
RecordsBounded ==
  /\ inWork # NoRecovery => inWork.refunds <= refundedEver
  /\ \A i \in 1..Len(finished) : finished[i].refunds <= refundedEver

RecoveryInv == RecoveryTypeOK /\ RecordsBounded /\ RefundsAccounted

(* Of the history trimmed or pruned, the newest records are left.          *)
LEMMA RecordsLeft ==
  ASSUME NEW h \in Seq(RecoveryRecords), NEW m \in 1..(Len(h) + 1), NEW bound,
         \A i \in 1..Len(h) : h[i].refunds <= bound
  PROVE  LET left == SubSeq(h, m, Len(h)) IN
         /\ left \in Seq(RecoveryRecords) /\ Len(left) = Len(h) - m + 1
         /\ \A i \in 1..Len(left) : left[i].refunds <= bound
  <1> DEFINE left == SubSeq(h, m, Len(h))
  <1>1. Len(h) \in Nat
    OBVIOUS
  <1>2. /\ left \in Seq(RecoveryRecords)
        /\ Len(left) = IF m <= Len(h) THEN Len(h) - m + 1 ELSE 0
        /\ \A i \in 1..(Len(h) - m + 1) : left[i] = h[m + i - 1]
    BY <1>1, SubSeqProperties
  <1>3. Len(left) = Len(h) - m + 1
    BY <1>1, <1>2
  <1>4. \A i \in 1..Len(left) : m + i - 1 \in 1..Len(h)
    BY <1>1, <1>3
  <1> HIDE DEF left
  <1>5. \A i \in 1..Len(left) : left[i].refunds <= bound
    BY <1>2, <1>3, <1>4
  <1> QED BY <1>2, <1>3, <1>5 DEF left

LEMMA SavedKeeps ==
  ASSUME RecoveryTypeOK, NEW r \in RecoveryRecords, Saved(r), NEW bound \in Nat,
         r.refunds <= bound,
         \A i \in 1..Len(finished) : finished[i].refunds <= bound
  PROVE  /\ inWork' \in RecoveryRecords \cup {NoRecovery}
         /\ finished' \in Seq(RecoveryRecords) /\ Len(finished') <= MaxHistory
         /\ status' \in {"pending", "recovered", NoRecovery}
         /\ inWork' # NoRecovery => inWork'.refunds <= bound
         /\ \A i \in 1..Len(finished') : finished'[i].refunds <= bound
         /\ status' = "pending" <=> inWork' # NoRecovery
  <1>1. /\ inWork' = IF r.recovered THEN NoRecovery ELSE r
        /\ status' = IF r.recovered THEN "recovered" ELSE "pending"
        /\ finished' = IF r.recovered THEN Trimmed(Append(finished, r)) ELSE finished
    BY DEF Saved
  <1>2. r # NoRecovery
    BY NoRecoveryAssumption DEF RecoveryRecords
  <1>3. finished \in Seq(RecoveryRecords) /\ Len(finished) <= MaxHistory
        /\ Len(finished) \in Nat /\ MaxHistory \in Nat
    BY RecoveryAssumption DEF RecoveryTypeOK
  <1>4. PICK h \in Seq(RecoveryRecords) :
          /\ h = Append(finished, r) /\ Len(h) = Len(finished) + 1
          /\ \A i \in 1..Len(h) : h[i].refunds <= bound
    <2> DEFINE h == Append(finished, r)
    <2>1. /\ h \in Seq(RecoveryRecords) /\ Len(h) = Len(finished) + 1
          /\ \A i \in 1..Len(finished) : h[i] = finished[i]
          /\ h[Len(finished) + 1] = r
      BY <1>3, AppendProperties
    <2> HIDE DEF h
    <2>2. \A i \in 1..Len(h) : i \in 1..Len(finished) \/ i = Len(finished) + 1
      BY <1>3, <2>1
    <2>3. \A i \in 1..Len(h) : h[i].refunds <= bound
      BY <2>1, <2>2
    <2> QED BY <2>1, <2>3 DEF h
  <1>5. /\ Trimmed(h) \in Seq(RecoveryRecords) /\ Len(Trimmed(h)) <= MaxHistory
        /\ \A i \in 1..Len(Trimmed(h)) : Trimmed(h)[i].refunds <= bound
    <2>1. CASE Len(h) > MaxHistory
      <3>1. 2 \in 1..(Len(h) + 1)
        BY <1>3, <1>4
      <3>2. Trimmed(h) = SubSeq(h, 2, Len(h))
        BY <2>1 DEF Trimmed
      <3>3. /\ Trimmed(h) \in Seq(RecoveryRecords) /\ Len(Trimmed(h)) = Len(h) - 2 + 1
            /\ \A i \in 1..Len(Trimmed(h)) : Trimmed(h)[i].refunds <= bound
        BY <1>4, <3>1, <3>2, RecordsLeft
      <3> QED BY <1>3, <1>4, <3>3
    <2>2. CASE ~(Len(h) > MaxHistory)
      BY <1>3, <1>4, <2>2 DEF Trimmed
    <2> QED BY <2>1, <2>2
  <1>6. CASE r.recovered
    BY <1>1, <1>4, <1>5, <1>6
  <1>7. CASE ~r.recovered
    BY <1>1, <1>2, <1>3, <1>7
  <1> QED BY <1>6, <1>7

(* What is loaded is a record that reports no more than was refunded.      *)
LEMMA LoadedIs ==
  ASSUME RecoveryTypeOK, RecordsBounded
  PROVE  Loaded \in RecoveryRecords /\ Loaded.refunds <= refundedEver
  <1>1. CASE inWork # NoRecovery
    BY <1>1 DEF Loaded, RecoveryTypeOK, RecordsBounded
  <1>2. CASE inWork = NoRecovery /\ finished # <<>>
    <2>1. Len(finished) \in 1..Len(finished) /\ finished \in Seq(RecoveryRecords)
      BY <1>2, EmptySeq, LenProperties DEF RecoveryTypeOK
    <2>2. Loaded = finished[Len(finished)]
      BY <1>2 DEF Loaded
    <2>3. finished[Len(finished)] \in RecoveryRecords
      BY <2>1, ElementOfSeq
    <2> QED BY <2>1, <2>2, <2>3 DEF RecordsBounded
  <1>3. CASE inWork = NoRecovery /\ finished = <<>>
    <2>1. Loaded = [recovered |-> FALSE, refunds |-> 0]
      BY <1>3 DEF Loaded
    <2> QED BY <2>1 DEF RecoveryRecords, RecoveryTypeOK
  <1> QED BY <1>1, <1>2, <1>3

LEMMA StakesAreAmounts ==
  ASSUME NEW f \in [Stakers -> Nat]
  PROVE  Amounts(f, Stakers) /\ StakedOf(f) \in Nat
  <1>1. Amounts(f, Stakers)
    BY RecoveryAssumption DEF Amounts
  <1> QED BY <1>1, SumIsAmount DEF StakedOf

LEMMA RefundIsAmount ==
  ASSUME RecoveryTypeOK, NEW users \in RefundLists
  PROVE  RefundOf(users) \in Nat
  <1> DEFINE f == [i \in 1..Len(users) |-> booked.stakes[users[i]]]
  <1>1. users \in Seq(Stakers)
    BY RecoveryAssumption
  <1>2. IsFiniteSet(1..Len(users))
    BY <1>1, FS_Interval, LenProperties
  <1>3. \A i \in 1..Len(users) : f[i] \in Nat
    BY <1>1, ElementOfSeq DEF RecoveryTypeOK
  <1> HIDE DEF f
  <1>4. Amounts(f, 1..Len(users))
    BY <1>2, <1>3 DEF Amounts
  <1> QED BY <1>4, SumIsAmount DEF RefundOf, f

LEMMA StakesChange ==
  ASSUME NEW f \in [Stakers -> Nat], NEW u \in Stakers, NEW s \in Nat
  PROVE  /\ [f EXCEPT ![u] = s] \in [Stakers -> Nat]
         /\ StakedOf([f EXCEPT ![u] = s]) = StakedOf(f) - f[u] + s
         /\ StakedOf(f) \in Nat
  <1> DEFINE g == [f EXCEPT ![u] = s]
  <1>1. g \in [Stakers -> Nat] /\ g[u] = s /\ \A v \in Stakers \ {u} : g[v] = f[v]
    OBVIOUS
  <1> HIDE DEF g
  <1>2. Amounts(f, Stakers) /\ Amounts(g, Stakers) /\ StakedOf(f) \in Nat
    BY <1>1, StakesAreAmounts
  <1>3. SumOver(g, Stakers) = SumOver(f, Stakers) - f[u] + g[u]
    BY <1>1, <1>2, SumChanges
  <1> QED BY <1>1, <1>2, <1>3 DEF StakedOf, g

LEMMA RecoveryInvInit == RecoveryInit => RecoveryInv
  <1> SUFFICES ASSUME RecoveryInit PROVE RecoveryInv
    OBVIOUS
  <1>1. RecoveryTypeOK
    BY RecoveryAssumption, EmptySeq DEF RecoveryInit, RecoveryTypeOK
  <1>2. StakedOf(booked.stakes) = 0
    <2>1. \A u \in Stakers : booked.stakes[u] = 0
      BY DEF RecoveryInit
    <2> QED BY <2>1, SumOfZeros DEF StakedOf
  <1>3. Loaded = [recovered |-> FALSE, refunds |-> 0]
    BY DEF Loaded, RecoveryInit
  <1>4. RecordsBounded
    BY DEF RecordsBounded, RecoveryInit
  <1>5. status = "pending" <=> inWork # NoRecovery
    BY NoRecoveryAssumption DEF RecoveryInit
  <1> QED BY <1>1, <1>2, <1>3, <1>4, <1>5 DEF RecoveryInv, RefundsAccounted, RecoveryInit

LEMMA RecoveryInvStep ==
  ASSUME RecoveryInv, [RecoveryNext]_recoveryVars
  PROVE  RecoveryInv'
  <1>0. /\ RecoveryTypeOK /\ RecordsBounded /\ RefundsAccounted
        /\ booked.total \in Int /\ booked.stakes \in [Stakers -> Nat]
        /\ booked.claimed \in SUBSET Stakers /\ booked.closed \in BOOLEAN
        /\ refunded \in Nat /\ refundedEver \in Nat /\ shadowed \in Nat
        /\ MaxRecoverySteps \in Nat /\ recoverySteps \in 0..MaxRecoverySteps
        /\ booked.total = StakedOf(booked.stakes) + shadowed - refunded
        /\ status = "pending" <=> inWork # NoRecovery
    BY RecoveryAssumption DEF RecoveryInv, RecoveryTypeOK, RefundsAccounted
  (* It is enough that the types, the bound and the rest hold.             *)
  <1>1. ASSUME RecoveryTypeOK', RecordsBounded',
               (booked.total = StakedOf(booked.stakes) + shadowed - refunded)',
               (status = "pending" <=> inWork # NoRecovery)'
        PROVE  RecoveryInv'
    <2>1. Loaded'.refunds <= refundedEver'
      <3>1. CASE inWork' # NoRecovery
        BY <1>1, <3>1 DEF Loaded, RecordsBounded
      <3>2. CASE inWork' = NoRecovery /\ finished' # <<>>
        <4>1. Len(finished') \in 1..Len(finished')
          BY <1>1, <3>2, EmptySeq, LenProperties DEF RecoveryTypeOK
        <4> QED BY <1>1, <3>2, <4>1 DEF Loaded, RecordsBounded
      <3>3. CASE inWork' = NoRecovery /\ finished' = <<>>
        BY <1>1, <3>3 DEF Loaded, RecoveryTypeOK
      <3> QED BY <3>1, <3>2, <3>3
    <2> QED BY <1>1, <2>1 DEF RecoveryInv, RefundsAccounted
  <1>2. RecoveryStep => recoverySteps' \in 0..MaxRecoverySteps
    BY <1>0 DEF RecoveryStep
  <1>3. ASSUME NEW u \in Stakers, NEW s \in StakeAmounts, BookStake(u, s)
        PROVE  RecoveryInv'
    <2>1. s \in Nat
      BY RecoveryAssumption
    <2>2. /\ booked' = [booked EXCEPT !.total = @ + s, !.stakes[u] = s]
          /\ shadowed' = shadowed + booked.stakes[u]
          /\ UNCHANGED <<inWork, finished, status, refunded, refundedEver>>
          /\ RecoveryStep
      BY <1>3 DEF BookStake
    <2>3. /\ booked'.total = booked.total + s
          /\ booked'.stakes = [booked.stakes EXCEPT ![u] = s]
          /\ booked' = [total |-> booked.total + s,
                        stakes |-> [booked.stakes EXCEPT ![u] = s],
                        claimed |-> booked.claimed, closed |-> booked.closed]
      BY <1>0, <2>2 DEF RecoveryTypeOK
    <2>4. /\ [booked.stakes EXCEPT ![u] = s] \in [Stakers -> Nat]
          /\ StakedOf([booked.stakes EXCEPT ![u] = s])
               = StakedOf(booked.stakes) - booked.stakes[u] + s
          /\ StakedOf(booked.stakes) \in Nat
      BY <1>0, <2>1, StakesChange
    <2>5. StakedOf(booked'.stakes) = StakedOf(booked.stakes) - booked.stakes[u] + s
      BY <2>3, <2>4
    <2>6. booked.stakes[u] \in Nat
      BY <1>0
    <2>7. booked'.total = StakedOf(booked'.stakes) + shadowed' - refunded'
      BY <1>0, <2>1, <2>2, <2>3, <2>4, <2>5, <2>6
    <2>8. RecoveryTypeOK'
      <3>1. booked' \in [total : Int, stakes : [Stakers -> Nat],
                          claimed : SUBSET Stakers, closed : BOOLEAN]
        BY <1>0, <2>1, <2>3, <2>4
      <3>2. shadowed' \in Nat
        BY <1>0, <2>2, <2>6
      <3> QED BY <1>0, <1>2, <2>2, <3>1, <3>2 DEF RecoveryTypeOK
    <2>9. RecordsBounded'
      BY <1>0, <2>2 DEF RecordsBounded
    <2> QED BY <1>0, <1>1, <2>2, <2>7, <2>8, <2>9
  <1>4. ASSUME CloseBooked PROVE RecoveryInv'
    <2>1. /\ booked' = [booked EXCEPT !.closed = TRUE]
          /\ UNCHANGED <<inWork, finished, status, shadowed, refunded, refundedEver,
                         recoverySteps>>
      BY <1>4 DEF CloseBooked
    <2>2. /\ booked'.total = booked.total /\ booked'.stakes = booked.stakes
          /\ booked' \in [total : Int, stakes : [Stakers -> Nat],
                          claimed : SUBSET Stakers, closed : BOOLEAN]
      BY <1>0, <2>1 DEF RecoveryTypeOK
    <2>3. RecoveryTypeOK' /\ RecordsBounded'
      BY <1>0, <2>1, <2>2 DEF RecoveryTypeOK, RecordsBounded
    <2> QED BY <1>0, <1>1, <2>1, <2>2, <2>3
  <1>5. ASSUME RecoverMarketState PROVE RecoveryInv'
    <2>1. ASSUME NEW r \in RecoveryRecords, r.refunds = 0, Saved(r),
                 UNCHANGED refundedEver
          PROVE  /\ inWork' \in RecoveryRecords \cup {NoRecovery}
                 /\ finished' \in Seq(RecoveryRecords) /\ Len(finished') <= MaxHistory
                 /\ status' \in {"pending", "recovered", NoRecovery}
                 /\ RecordsBounded'
                 /\ status' = "pending" <=> inWork' # NoRecovery
      <3>1. /\ r.refunds <= refundedEver
            /\ \A i \in 1..Len(finished) : finished[i].refunds <= refundedEver
        BY <1>0, <2>1 DEF RecordsBounded
      <3>2. /\ inWork' \in RecoveryRecords \cup {NoRecovery}
            /\ finished' \in Seq(RecoveryRecords) /\ Len(finished') <= MaxHistory
            /\ status' \in {"pending", "recovered", NoRecovery}
            /\ inWork' # NoRecovery => inWork'.refunds <= refundedEver
            /\ \A i \in 1..Len(finished') : finished'[i].refunds <= refundedEver
            /\ status' = "pending" <=> inWork' # NoRecovery
        BY <1>0, <2>1, <3>1, SavedKeeps
      <3> QED BY <2>1, <3>2 DEF RecordsBounded
    <2>2. CASE /\ Saved([recovered |-> FALSE, refunds |-> 0])
               /\ UNCHANGED <<booked, shadowed, refunded, refundedEver>>
      <3>1. PICK r \in RecoveryRecords : r.refunds = 0 /\ Saved(r)
        BY <2>2 DEF RecoveryRecords
      <3>2. RecoveryStep
        BY <1>5 DEF RecoverMarketState
      <3> HIDE DEF Saved
      <3>3. RecoveryTypeOK'
        BY <1>0, <1>2, <2>1, <2>2, <3>1, <3>2 DEF RecoveryTypeOK
      <3> QED BY <1>0, <1>1, <2>1, <2>2, <3>1, <3>3
    <2>3. CASE /\ booked' = [booked EXCEPT !.total = StakedOf(booked.stakes)]
               /\ Saved([recovered |-> TRUE, refunds |-> 0])
               /\ shadowed' = 0 /\ refunded' = 0 /\ UNCHANGED refundedEver
      <3>1. PICK r \in RecoveryRecords : r.refunds = 0 /\ Saved(r)
        BY <2>3 DEF RecoveryRecords
      <3>2. RecoveryStep
        BY <1>5 DEF RecoverMarketState
      <3>3. StakedOf(booked.stakes) \in Nat
        BY <1>0, StakesAreAmounts
      <3>4. /\ booked'.total = StakedOf(booked.stakes)
            /\ booked'.stakes = booked.stakes
            /\ booked' \in [total : Int, stakes : [Stakers -> Nat],
                            claimed : SUBSET Stakers, closed : BOOLEAN]
        <4>1. booked' = [total |-> StakedOf(booked.stakes), stakes |-> booked.stakes,
                         claimed |-> booked.claimed, closed |-> booked.closed]
          BY <1>0, <2>3 DEF RecoveryTypeOK
        <4> QED BY <1>0, <3>3, <4>1
      <3>5. RecoveryTypeOK'
        BY <1>0, <1>2, <2>1, <2>3, <3>1, <3>2, <3>4 DEF RecoveryTypeOK
      <3>6. booked'.total = StakedOf(booked'.stakes) + shadowed' - refunded'
        BY <2>3, <3>3, <3>4
      <3> QED BY <1>1, <2>1, <2>3, <3>1, <3>5, <3>6
    <2> QED BY <1>5, <2>2, <2>3 DEF RecoverMarketState
  <1>6. ASSUME NEW users \in RefundLists, PartialRefundMechanism(users)
        PROVE  RecoveryInv'
    <2>1. PICK n \in Nat : n = RefundOf(users)
      BY <1>0, RefundIsAmount
    <2>2. PICK C \in SUBSET Stakers :
            booked' = [booked EXCEPT !.total = @ - n, !.claimed = @ \cup C]
      BY <1>6, <2>1 DEF PartialRefundMechanism
    <2>3. /\ RecoveryStep /\ Saved([Loaded EXCEPT !.refunds = @ + n])
          /\ refunded' = refunded + n /\ refundedEver' = refundedEver + n
          /\ shadowed' = shadowed
      BY <1>6, <2>1 DEF PartialRefundMechanism
    <2>4. Loaded \in RecoveryRecords /\ Loaded.refunds <= refundedEver
      BY <1>0, LoadedIs
    <2>5. PICK r \in RecoveryRecords : Saved(r) /\ r.refunds <= refundedEver + n
      <3>1. PICK l \in RecoveryRecords : l = Loaded
        BY <2>4
      <3>2. l.refunds \in Nat /\ [l EXCEPT !.refunds = @ + n] \in RecoveryRecords
            /\ [l EXCEPT !.refunds = @ + n].refunds = l.refunds + n
        BY <2>1 DEF RecoveryRecords
      <3>3. [l EXCEPT !.refunds = @ + n].refunds <= refundedEver + n
        BY <1>0, <2>1, <2>4, <3>1, <3>2
      <3> QED BY <2>3, <3>1, <3>2, <3>3
    <2>6. refundedEver + n \in Nat
          /\ \A i \in 1..Len(finished) : finished[i].refunds <= refundedEver + n
      <3>1. \A i \in 1..Len(finished) : finished[i].refunds \in Nat
        <4>1. \A i \in 1..Len(finished) : finished[i] \in RecoveryRecords
          BY <1>0, ElementOfSeq DEF RecoveryTypeOK
        <4> QED BY <4>1 DEF RecoveryRecords
      <3> QED BY <1>0, <2>1, <3>1 DEF RecordsBounded
    <2>7. /\ inWork' \in RecoveryRecords \cup {NoRecovery}
          /\ finished' \in Seq(RecoveryRecords) /\ Len(finished') <= MaxHistory
          /\ status' \in {"pending", "recovered", NoRecovery}
          /\ RecordsBounded'
          /\ status' = "pending" <=> inWork' # NoRecovery
      BY <1>0, <2>3, <2>5, <2>6, SavedKeeps DEF RecordsBounded
    <2>8. /\ booked'.total = booked.total - n /\ booked'.stakes = booked.stakes
          /\ booked' \in [total : Int, stakes : [Stakers -> Nat],
                          claimed : SUBSET Stakers, closed : BOOLEAN]
      <3>1. booked' = [total |-> booked.total - n, stakes |-> booked.stakes,
                       claimed |-> booked.claimed \cup C, closed |-> booked.closed]
        BY <1>0, <2>2 DEF RecoveryTypeOK
      <3> QED BY <1>0, <2>1, <3>1
    <2>9. RecoveryTypeOK'
      BY <1>0, <1>2, <2>1, <2>3, <2>7, <2>8, SMTT(60) DEF RecoveryTypeOK
    <2>10. booked'.total = StakedOf(booked'.stakes) + shadowed' - refunded'
      <3>1. StakedOf(booked.stakes) \in Nat
        BY <1>0, StakesAreAmounts
      <3> QED BY <1>0, <2>1, <2>3, <2>8, <3>1
    <2> QED BY <1>1, <2>7, <2>9, <2>10
  <1>7. ASSUME NEW count \in PruneCounts, PruneHistory(count) PROVE RecoveryInv'
    <2>1. /\ finished \in Seq(RecoveryRecords) /\ Len(finished) \in Nat
          /\ Len(finished) <= MaxHistory /\ MaxHistory \in Nat
          /\ count \in Nat /\ MaxPrune \in Nat
      BY <1>0, RecoveryAssumption DEF RecoveryTypeOK
    <2>2. PICK m \in 1..(Len(finished) + 1) :
            m = Lesser(Lesser(count, MaxPrune), Len(finished)) + 1
      <3>1. PICK k \in Nat : k = Lesser(count, MaxPrune)
        BY <2>1 DEF Lesser
      <3>2. Lesser(k, Len(finished)) \in 0..Len(finished)
        BY <2>1 DEF Lesser
      <3> QED BY <2>1, <3>1, <3>2
    <2>3. /\ finished' = SubSeq(finished, m, Len(finished))
          /\ UNCHANGED <<booked, inWork, status, shadowed, refunded, refundedEver,
                         recoverySteps>>
      BY <1>7, <2>2 DEF PruneHistory
    <2>4. \A i \in 1..Len(finished) : finished[i].refunds <= refundedEver
      BY <1>0 DEF RecordsBounded
    <2>5. /\ finished' \in Seq(RecoveryRecords)
          /\ Len(finished') = Len(finished) - m + 1
          /\ \A i \in 1..Len(finished') : finished'[i].refunds <= refundedEver
      BY <2>1, <2>2, <2>3, <2>4, RecordsLeft
    <2>6. Len(finished') <= MaxHistory
      BY <2>1, <2>2, <2>5
    <2>7. RecoveryTypeOK' /\ RecordsBounded'
      BY <1>0, <2>3, <2>5, <2>6 DEF RecoveryTypeOK, RecordsBounded
    <2> QED BY <1>0, <1>1, <2>3, <2>7
  <1>8. ASSUME UNCHANGED recoveryVars PROVE RecoveryInv'
    <2>1. RecoveryTypeOK' /\ RecordsBounded'
      BY <1>0, <1>8 DEF RecoveryTypeOK, RecordsBounded, recoveryVars
    <2> QED BY <1>0, <1>1, <1>8, <2>1 DEF recoveryVars
  <1> QED BY <1>3, <1>4, <1>5, <1>6, <1>7, <1>8 DEF RecoveryNext

(* The total of a market that recovery touched is what its records explain *)
(* and no record reports a refund that was not booked, for any stakers,    *)
(* any amounts and any lists of users (partial_refund_mechanism).          *)
THEOREM RefundsAreAccounted == RecoverySpec => []RefundsAccounted
  <1>1. RecoveryInit => RecoveryInv
    BY RecoveryInvInit
  <1>2. RecoveryInv /\ [RecoveryNext]_recoveryVars => RecoveryInv'
    BY RecoveryInvStep
  <1>3. RecoveryInv => RefundsAccounted
    BY DEF RecoveryInv
  <1> QED BY <1>1, <1>2, <1>3, PTL DEF RecoverySpec

-----------------------------------------------------------------------------
(* The identifiers of markets.                                             *)

(* A market's identifier is stored, and nobody's counter goes back to one  *)
(* that was given out.                                                     *)
IssuedRemembered ==
  \A i \in 1..Len(issued) :
    /\ issued[i].kind = "market" => issued[i].id \in marketIds
    /\ issued[i].id[2] < counters[issued[i].by]

MarketIdsInv == MarketIdsTypeOK /\ IssuedRemembered /\ NoMarketReplaced

LEMMA MarketIdsInvInit == MarketIdsInit => MarketIdsInv
  <1> SUFFICES ASSUME MarketIdsInit PROVE MarketIdsInv
    OBVIOUS
  <1>1. issued = <<>> /\ Len(issued) = 0
    BY EmptySeq DEF MarketIdsInit
  <1>2. MarketIdsTypeOK
    <2>1. 0 \in 0..(MaxCounter + 1)
      BY MarketIdsAssumption
    <2>2. issued \in Seq(Registrations)
      BY <1>1, EmptySeq
    <2> QED BY <2>1, <2>2 DEF MarketIdsTypeOK, MarketIdsInit
  <1> QED BY <1>1, <1>2 DEF MarketIdsInv, IssuedRemembered, NoMarketReplaced

(* What a creation registers is new.                                       *)
LEMMA GenerateIdKeeps ==
  ASSUME MarketIdsInv, NEW c \in Creators, NEW kind \in {"market", "event"},
         NEW attempt \in 0..(MaxRetries - 1), NEW d \in Digests,
         GenerateId(c, kind, attempt, d),
         marketIds \subseteq marketIds', marketIds' \subseteq Ids,
         kind = "market" => <<d, counters[c] + attempt>> \in marketIds',
         sealed' = sealed, eventIds' \subseteq Ids
  PROVE  MarketIdsInv'
  <1>0. /\ counters \in [Creators -> 0..(MaxCounter + 1)] /\ MaxCounter \in Nat
        /\ issued \in Seq(Registrations) /\ Len(issued) \in Nat
        /\ attempt \in Nat /\ sealed \in BOOLEAN
    BY MarketIdsAssumption DEF MarketIdsInv, MarketIdsTypeOK
  <1>1. PICK used \in Nat : used = counters[c] + attempt /\ used <= MaxCounter
    BY <1>0 DEF GenerateId
  <1>2. PICK r \in Registrations :
          r = [id |-> <<d, used>>, by |-> c, kind |-> kind]
    BY <1>1 DEF Registrations, Ids
  <1>3. /\ counters' = [counters EXCEPT ![c] = used + 1]
        /\ issued' = Append(issued, r) /\ <<d, used>> \notin marketIds
    BY <1>1, <1>2 DEF GenerateId, Collides
  <1>4. /\ issued' \in Seq(Registrations) /\ Len(issued') = Len(issued) + 1
        /\ \A i \in 1..Len(issued) : issued'[i] = issued[i]
        /\ issued'[Len(issued) + 1] = r
    BY <1>0, <1>3, AppendProperties
  <1>5. \A i \in 1..Len(issued) : issued[i] \in Registrations
    BY <1>0, ElementOfSeq
  <1>6. /\ counters' \in [Creators -> 0..(MaxCounter + 1)]
        /\ counters'[c] = used + 1
        /\ \A b \in Creators : counters[b] <= counters'[b]
    BY <1>0, <1>1, <1>3
  <1>7. \A i \in 1..Len(issued') : i \in 1..Len(issued) \/ i = Len(issued) + 1
    BY <1>0, <1>4
  <1>8. MarketIdsTypeOK'
    BY <1>0, <1>4, <1>6 DEF MarketIdsTypeOK
  <1>9. ASSUME NEW i \in 1..Len(issued)
        PROVE  /\ issued[i].kind = "market" => issued[i].id \in marketIds
               /\ issued[i].id[2] < counters[issued[i].by]
               /\ issued[i].by \in Creators /\ issued[i].id[2] \in Nat
    BY <1>5 DEF MarketIdsInv, IssuedRemembered, Registrations, Ids
  <1>10. IssuedRemembered'
    <2>1. ASSUME NEW i \in 1..Len(issued)
          PROVE  /\ issued[i].kind = "market" => issued[i].id \in marketIds'
                 /\ issued[i].id[2] < counters'[issued[i].by]
      <3>1. /\ counters[issued[i].by] \in Nat /\ counters'[issued[i].by] \in Nat
            /\ counters[issued[i].by] <= counters'[issued[i].by]
        BY <1>0, <1>6, <1>9
      <3> QED BY <1>9, <3>1
    <2>2. /\ r.kind = "market" => r.id \in marketIds'
          /\ r.id[2] < counters'[r.by]
      BY <1>1, <1>2, <1>6
    <2> QED BY <1>4, <1>7, <2>1, <2>2 DEF IssuedRemembered
  <1>11. NoMarketReplaced'
    <2>1. ASSUME NEW i \in 1..Len(issued),
                 issued[i].kind = "market" \/ issued[i].by = r.by
          PROVE  issued[i].id # r.id
      <3>1. CASE issued[i].kind = "market"
        BY <1>2, <1>3, <1>9, <3>1
      <3>2. CASE issued[i].by = r.by
        <4>1. issued[i].id[2] < counters[c] /\ counters[c] \in Nat
          BY <1>0, <1>2, <1>9, <3>2
        <4>2. issued[i].id[2] < used
          BY <1>0, <1>1, <1>9, <4>1
        <4> QED BY <1>1, <1>2, <1>9, <4>2
      <3> QED BY <2>1, <3>1, <3>2
    <2>2. \A i, j \in 1..Len(issued) :
            /\ i < j /\ (issued[i].kind = "market" \/ issued[i].by = issued[j].by)
            => issued[i].id # issued[j].id
      BY DEF MarketIdsInv, NoMarketReplaced
    <2>3. SUFFICES ASSUME NEW i \in 1..Len(issued'), NEW j \in 1..Len(issued'), i < j,
                   issued'[i].kind = "market" \/ issued'[i].by = issued'[j].by
                   PROVE  issued'[i].id # issued'[j].id
      BY DEF NoMarketReplaced
    <2>4. i \in 1..Len(issued) /\ issued'[i] = issued[i]
      BY <1>0, <1>4, <2>3
    <2> QED BY <1>4, <1>7, <2>1, <2>2, <2>3, <2>4
  <1> QED BY <1>8, <1>10, <1>11 DEF MarketIdsInv

LEMMA MarketIdsInvStep ==
  ASSUME MarketIdsInv, [MarketIdsNext]_idsVars
  PROVE  MarketIdsInv'
  <1>0. /\ MarketIdsTypeOK /\ marketIds \subseteq Ids /\ eventIds \subseteq Ids
        /\ counters \in [Creators -> 0..(MaxCounter + 1)] /\ MaxCounter \in Nat
    BY MarketIdsAssumption DEF MarketIdsInv, MarketIdsTypeOK
  <1>1. ASSUME NEW c \in Creators, NEW attempt \in 0..(MaxRetries - 1),
               NEW d \in Digests
        PROVE  <<d, counters[c] + attempt>> \in Ids
    BY <1>0 DEF Ids
  <1>2. ASSUME NEW c \in Creators, NEW attempt \in 0..(MaxRetries - 1),
               NEW d \in Digests, CreateMarket(c, attempt, d)
        PROVE  MarketIdsInv'
    <2>1. /\ GenerateId(c, "market", attempt, d)
          /\ marketIds' = marketIds \cup {<<d, counters[c] + attempt>>}
          /\ UNCHANGED <<sealed, eventIds>>
      BY <1>2 DEF CreateMarket
    <2> QED BY <1>0, <1>1, <2>1, GenerateIdKeeps
  <1>3. ASSUME NEW c \in Creators, NEW attempt \in 0..(MaxRetries - 1),
               NEW d \in Digests, CreateEvent(c, attempt, d)
        PROVE  MarketIdsInv'
    <2>1. /\ GenerateId(c, "event", attempt, d)
          /\ eventIds' = eventIds \cup {<<d, counters[c] + attempt>>}
          /\ UNCHANGED <<sealed, marketIds>>
      BY <1>3 DEF CreateEvent
    <2> QED BY <1>0, <1>1, <2>1, GenerateIdKeeps
  <1>4. CASE SealSeed
    BY <1>4 DEF SealSeed, MarketIdsInv, MarketIdsTypeOK, IssuedRemembered,
                NoMarketReplaced
  <1>5. CASE UNCHANGED idsVars
    BY <1>5 DEF idsVars, MarketIdsInv, MarketIdsTypeOK, IssuedRemembered,
                NoMarketReplaced
  <1> QED BY <1>2, <1>3, <1>4, <1>5 DEF MarketIdsNext

(* For any hash, any administrators and any number of retries, no market   *)
(* is stored over another and no administrator has an identifier twice     *)
(* (generate_market_id).                                                   *)
THEOREM IdentifiersStayApart == MarketIdsSpec => []NoMarketReplaced
  <1>1. MarketIdsInv => NoMarketReplaced
    BY DEF MarketIdsInv
  <1> QED BY <1>1, MarketIdsInvInit, MarketIdsInvStep, PTL DEF MarketIdsSpec

-----------------------------------------------------------------------------
(* The terms of a market.                                                  *)

ActiveBettors == {u \in Punters : IsActive(u)}

(* A copy may be older than the market only while no bet is active.        *)
TermsCopyAgrees ==
  copy # NoCopy =>
    /\ copy.commitment = copy.terms
    /\ ActiveBettors # {} => copy.terms = market.terms

ListingInv ==
  /\ ListingTypeOK
  /\ TermsKept
  /\ TermsCopyAgrees
  /\ Cardinality(ActiveBettors) <= betCount

LEMMA ActiveFinite ==
  /\ IsFiniteSet(ActiveBettors) /\ Cardinality(ActiveBettors) \in Nat
  /\ ActiveBettors = {} <=> Cardinality(ActiveBettors) = 0
  <1>1. IsFiniteSet(Punters) /\ ActiveBettors \subseteq Punters
    BY ListingAssumption DEF ActiveBettors
  <1>2. IsFiniteSet(ActiveBettors)
    BY <1>1, FS_Subset
  <1> QED BY <1>2, FS_CardinalityType, FS_EmptySet

(* Votes and bets that come and go leave the terms alone.                  *)
LEMMA WithVoteIs ==
  ASSUME NEW m \in Listings, NEW u \in Punters, NEW c \in Options, NEW s \in {0, 1}
  PROVE  /\ WithVote(m, u, c, s) \in Listings
         /\ WithVote(m, u, c, s).terms = m.terms
         /\ WithVote(m, u, c, s).commitment = m.commitment
  <1>0. PICK total \in Nat : total = m.total + s
    BY DEF Listings
  <1>1. PICK votes \in [Punters -> Options \cup {NoChoice}],
             stakes \in [Punters -> {0, 1}] :
          /\ votes = [m.votes EXCEPT ![u] = c]
          /\ stakes = [m.stakes EXCEPT ![u] = s]
    BY DEF Listings
  <1>2. PICK n : n = WithVote(m, u, c, s)
    OBVIOUS
  <1>3. n = [m EXCEPT !.votes = votes, !.stakes = stakes, !.total = total]
    BY <1>0, <1>1, <1>2 DEF WithVote, Listings
  <1>4. n \in Listings /\ n.terms = m.terms /\ n.commitment = m.commitment
    BY <1>0, <1>1, <1>3 DEF Listings
  <1> QED BY <1>2, <1>4

LEMMA WithoutBetIs ==
  ASSUME NEW m \in Listings, NEW u \in Punters
  PROVE  /\ WithoutBet(m, u) \in Listings
         /\ WithoutBet(m, u).terms = m.terms
         /\ WithoutBet(m, u).commitment = m.commitment
  <1>1. PICK total \in Nat : total = IF m.total > 0 THEN m.total - 1 ELSE 0
    BY DEF Listings
  <1>2. PICK votes \in [Punters -> Options \cup {NoChoice}],
             stakes \in [Punters -> {0, 1}] :
          /\ votes = [m.votes EXCEPT ![u] = NoChoice]
          /\ stakes = [m.stakes EXCEPT ![u] = 0]
    BY DEF Listings
  <1>3. PICK n : n = WithoutBet(m, u)
    OBVIOUS
  <1>4. n = [m EXCEPT !.votes = votes, !.stakes = stakes, !.total = total]
    BY <1>1, <1>2, <1>3 DEF WithoutBet, Listings
  <1>5. n \in Listings /\ n.terms = m.terms /\ n.commitment = m.commitment
    BY <1>1, <1>2, <1>4 DEF Listings
  <1> QED BY <1>3, <1>5

(* What a bet reads was committed, and is the market while bets are active.*)
LEMMA ReadMarketIs ==
  ASSUME ListingInv
  PROVE  /\ ReadMarket \in Listings /\ ReadMarket.commitment = ReadMarket.terms
         /\ ActiveBettors # {} => ReadMarket.terms = market.terms
  BY DEF ListingInv, ListingTypeOK, TermsCopyAgrees, TermsKept, ReadMarket

LEMMA ListingInvInit == ListingInit => ListingInv
  <1> SUFFICES ASSUME ListingInit PROVE ListingInv
    OBVIOUS
  <1>1. Terms # {}
    <2>1. PICK q \in Questions, s \in OutcomeSets : TRUE
      BY ListingAssumption
    <2>2. [question |-> q, outcomes |-> s] \in Terms
      BY <2>1 DEF Terms
    <2> QED BY <2>2
  <1>2. FirstTerms \in Terms /\ FirstLabel \in Labels
    BY <1>1, ListingAssumption DEF FirstTerms, FirstLabel
  <1>3. market \in Listings /\ market.commitment = market.terms
    BY <1>2 DEF ListingInit, Listings
  <1>4. /\ turnover \in 0..MaxTurnover /\ edits \in 0..MaxEdits
        /\ peeks \in 0..MaxPeeks
    BY ListingAssumption DEF ListingInit
  <1>5. ListingTypeOK
    BY <1>3, <1>4 DEF ListingTypeOK, ListingInit
  <1>6. ActiveBettors = {}
    BY DEF ActiveBettors, IsActive, ListingInit
  <1>7. \A u \in Punters : ~IsActive(u)
    BY <1>6 DEF ActiveBettors
  <1>8. Cardinality(ActiveBettors) <= betCount
    BY <1>6, FS_EmptySet DEF ListingInit
  <1> QED BY <1>3, <1>5, <1>6, <1>7, <1>8
          DEF ListingInv, TermsKept, TermsCopyAgrees, ListingInit

(* The market changes, under terms that are committed, while the bets do   *)
(* not: the terms stay if a bet is active.                                 *)
LEMMA TermsStay ==
  ASSUME ListingInv, bets' = bets, betCount' = betCount, phase' = phase,
         market' \in Listings, market'.commitment = market'.terms,
         ActiveBettors # {} => market'.terms = market.terms,
         copy' \in {copy, NoCopy, market'},
         turnover' \in 0..MaxTurnover, edits' \in 0..MaxEdits, peeks' \in 0..MaxPeeks
  PROVE  ListingInv'
  <1>1. ListingTypeOK'
    BY DEF ListingInv, ListingTypeOK
  <1>2. ActiveBettors' = ActiveBettors /\ \A u \in Punters : IsActive(u)' <=> IsActive(u)
    BY DEF ActiveBettors, IsActive
  <1>3. TermsKept'
    BY <1>2 DEF ListingInv, TermsKept, ActiveBettors
  <1>4. TermsCopyAgrees'
    BY <1>2 DEF ListingInv, TermsCopyAgrees
  <1> QED BY <1>1, <1>2, <1>3, <1>4 DEF ListingInv

LEMMA EditKeeps ==
  ASSUME ListingInv, NEW m \in Listings, m.commitment = m.terms, Edit(m)
  PROVE  ListingInv'
  <1>1. betCount = 0 /\ edits' = edits + 1 /\ edits < MaxEdits
        /\ market' = m /\ copy' = copy
        /\ UNCHANGED <<phase, bets, betCount, turnover, peeks>>
    BY DEF Edit, Editable, StoreDirectly
  <1>2. ActiveBettors = {}
    BY <1>1, ActiveFinite DEF ListingInv
  <1>3. /\ turnover' \in 0..MaxTurnover /\ edits' \in 0..MaxEdits
        /\ peeks' \in 0..MaxPeeks
    BY <1>1, ListingAssumption DEF ListingInv, ListingTypeOK
  <1> QED BY <1>1, <1>2, <1>3, TermsStay

LEMMA VoteListedKeeps ==
  ASSUME ListingInv, NEW u \in Punters, NEW c \in Options, NEW s \in {0, 1},
         VoteListed(u, c, s)
  PROVE  ListingInv'
  <1>1. /\ market' = WithVote(market, u, c, s) /\ copy' = copy
        /\ turnover < MaxTurnover /\ turnover' = turnover + 1
        /\ UNCHANGED <<phase, bets, betCount, edits, peeks>>
    BY DEF VoteListed, StoreDirectly
  <1>2. /\ market' \in Listings /\ market'.terms = market.terms
        /\ market'.commitment = market'.terms
    BY <1>1, WithVoteIs DEF ListingInv, ListingTypeOK, TermsKept
  <1>3. /\ turnover' \in 0..MaxTurnover /\ edits' \in 0..MaxEdits
        /\ peeks' \in 0..MaxPeeks
    BY <1>1, ListingAssumption DEF ListingInv, ListingTypeOK
  <1> QED BY <1>1, <1>2, <1>3, TermsStay

LEMMA BetListedKeeps ==
  ASSUME ListingInv, NEW u \in Punters, NEW c \in Options, BetListed(u, c)
  PROVE  ListingInv'
  <1> DEFINE m == ReadMarket
  <1>1. /\ m \in Listings /\ m.commitment = m.terms
        /\ ActiveBettors # {} => m.terms = market.terms
    BY ReadMarketIs
  <1>2. /\ c \in m.terms.outcomes /\ (bets[u] # NoChoice => bets[u].status = "Cancelled")
        /\ turnover < MaxTurnover /\ turnover' = turnover + 1
        /\ bets' = [bets EXCEPT ![u] = [status |-> "Active", choice |-> c,
                                        terms |-> m.terms]]
        /\ betCount' = betCount + 1
        /\ market' = WithVote(m, u, c, 1) /\ copy' = NoCopy
        /\ UNCHANGED <<phase, edits, peeks>>
    BY DEF BetListed, StoreThrough
  <1> HIDE DEF m
  <1>3. /\ market' \in Listings /\ market'.terms = m.terms
        /\ market'.commitment = market'.terms
    BY <1>1, <1>2, WithVoteIs
  <1>4. m.terms \in Terms
    BY <1>1 DEF Listings
  <1>5. PICK b \in ListedBets : b = [status |-> "Active", choice |-> c, terms |-> m.terms]
    BY <1>4 DEF ListedBets
  <1>6. /\ bets \in [Punters -> ListedBets \cup {NoChoice}]
        /\ bets' \in [Punters -> ListedBets \cup {NoChoice}]
        /\ bets'[u] = b /\ \A v \in Punters \ {u} : bets'[v] = bets[v]
    BY <1>2, <1>5 DEF ListingInv, ListingTypeOK
  <1>7. ~IsActive(u) /\ \A v \in Punters \ {u} : IsActive(v)' <=> IsActive(v)
    BY <1>2, <1>6 DEF IsActive
  <1>8. ListingTypeOK'
    <2>1. turnover' \in 0..MaxTurnover /\ betCount' \in Nat
      BY <1>2, ListingAssumption DEF ListingInv, ListingTypeOK
    <2> QED BY <1>2, <1>3, <1>6, <2>1 DEF ListingInv, ListingTypeOK
  <1>9. TermsKept'
    <2>1. ASSUME NEW v \in Punters, IsActive(v)'
          PROVE  bets'[v].terms = market'.terms /\ bets'[v].choice \in market'.terms.outcomes
      <3>1. CASE v = u
        BY <1>2, <1>3, <1>5, <1>6, <3>1
      <3>2. CASE v # u
        <4>1. IsActive(v) /\ ActiveBettors # {} /\ bets'[v] = bets[v]
          BY <1>6, <1>7, <2>1, <3>2 DEF ActiveBettors
        <4> QED BY <1>1, <1>3, <4>1 DEF ListingInv, TermsKept
      <3> QED BY <3>1, <3>2
    <2> QED BY <1>3, <2>1 DEF TermsKept
  <1>10. Cardinality(ActiveBettors') <= betCount'
    <2>1. ActiveBettors' \subseteq ActiveBettors \cup {u}
      BY <1>7 DEF ActiveBettors
    <2>2. /\ IsFiniteSet(ActiveBettors \cup {u})
          /\ Cardinality(ActiveBettors \cup {u}) = Cardinality(ActiveBettors) + 1
      <3>1. u \notin ActiveBettors
        BY <1>7 DEF ActiveBettors
      <3> QED BY <3>1, ActiveFinite, FS_AddElement
    <2>3. /\ Cardinality(ActiveBettors') \in Nat
          /\ Cardinality(ActiveBettors') <= Cardinality(ActiveBettors) + 1
      BY <2>1, <2>2, FS_Subset, FS_CardinalityType
    <2> QED BY <1>2, <2>3, ActiveFinite DEF ListingInv, ListingTypeOK
  <1> QED BY <1>2, <1>8, <1>9, <1>10 DEF ListingInv, TermsCopyAgrees

LEMMA CancelListedBetKeeps ==
  ASSUME ListingInv, NEW u \in Punters, CancelListedBet(u)
  PROVE  ListingInv'
  <1>1. /\ IsActive(u) /\ bets' = [bets EXCEPT ![u].status = "Cancelled"]
        /\ betCount' = IF betCount > 0 THEN betCount - 1 ELSE 0
        /\ market' = WithoutBet(ReadMarket, u) /\ copy' = NoCopy
        /\ UNCHANGED <<phase, turnover, edits, peeks>>
    BY DEF CancelListedBet, StoreThrough
  <1>2. u \in ActiveBettors
    BY <1>1 DEF ActiveBettors
  <1>3. /\ market' \in Listings /\ market'.terms = market.terms
        /\ market'.commitment = market'.terms
    BY <1>1, <1>2, ReadMarketIs, WithoutBetIs
  <1>4. PICK b \in ListedBets : b = bets[u]
    BY <1>1 DEF IsActive, ListingInv, ListingTypeOK
  <1>5. /\ [b EXCEPT !.status = "Cancelled"] \in ListedBets
        /\ [b EXCEPT !.status = "Cancelled"].status = "Cancelled"
    BY DEF ListedBets
  <1>6. /\ bets \in [Punters -> ListedBets \cup {NoChoice}]
        /\ bets' \in [Punters -> ListedBets \cup {NoChoice}]
        /\ bets'[u].status = "Cancelled"
        /\ \A v \in Punters \ {u} : bets'[v] = bets[v]
    BY <1>1, <1>4, <1>5 DEF ListingInv, ListingTypeOK
  <1>7. ListingTypeOK'
    BY <1>1, <1>3, <1>6 DEF ListingInv, ListingTypeOK
  <1>8. \A v \in Punters : IsActive(v)' => IsActive(v) /\ v # u /\ bets'[v] = bets[v]
    BY <1>6 DEF IsActive
  <1>9. TermsKept'
    BY <1>3, <1>8 DEF ListingInv, TermsKept
  <1>10. Cardinality(ActiveBettors') <= betCount'
    <2>1. ActiveBettors' \subseteq ActiveBettors \ {u}
      BY <1>8 DEF ActiveBettors
    <2>2. /\ IsFiniteSet(ActiveBettors \ {u})
          /\ Cardinality(ActiveBettors \ {u}) = Cardinality(ActiveBettors) - 1
      BY <1>2, ActiveFinite, FS_RemoveElement
    <2>3. /\ Cardinality(ActiveBettors') \in Nat
          /\ Cardinality(ActiveBettors') <= Cardinality(ActiveBettors) - 1
      BY <2>1, <2>2, FS_Subset, FS_CardinalityType
    <2>4. Cardinality(ActiveBettors) # 0
      BY <1>2, ActiveFinite
    <2> QED BY <1>1, <2>3, <2>4, ActiveFinite DEF ListingInv, ListingTypeOK
  <1> QED BY <1>1, <1>7, <1>9, <1>10 DEF ListingInv, TermsCopyAgrees

LEMMA CancelListingKeeps ==
  ASSUME ListingInv, CancelListing
  PROVE  ListingInv'
  <1> DEFINE gone == ActiveBettors
             m == IF copy = NoCopy THEN [market EXCEPT !.state = "Cancelled"] ELSE copy
  <1>1. PICK n \in Nat : n = Cardinality(gone)
    BY ActiveFinite
  <1>2. /\ bets' = [u \in Punters |-> IF u \in gone
                                      THEN [bets[u] EXCEPT !.status = "Refunded"]
                                      ELSE bets[u]]
        /\ market' = [m EXCEPT
             !.votes = [u \in Punters |-> IF u \in gone THEN NoChoice ELSE @[u]],
             !.stakes = [u \in Punters |-> IF u \in gone THEN 0 ELSE @[u]],
             !.total = IF @ > n THEN @ - n ELSE 0]
        /\ copy' = NoCopy
        /\ UNCHANGED <<phase, betCount, turnover, edits, peeks>>
    BY <1>1 DEF CancelListing, StoreThrough, ActiveBettors
  <1>3. m \in Listings /\ m.commitment = m.terms
    BY DEF ListingInv, ListingTypeOK, TermsCopyAgrees, TermsKept, Listings
  <1> HIDE DEF m
  <1>4. market' \in Listings /\ market'.commitment = market'.terms
    <2>1. PICK total \in Nat : total = IF m.total > n THEN m.total - n ELSE 0
      BY <1>1, <1>3 DEF Listings
    <2>2. PICK votes \in [Punters -> Options \cup {NoChoice}] :
            votes = [u \in Punters |-> IF u \in gone THEN NoChoice ELSE m.votes[u]]
      BY <1>3 DEF Listings
    <2>3. PICK stakes \in [Punters -> {0, 1}] :
            stakes = [u \in Punters |-> IF u \in gone THEN 0 ELSE m.stakes[u]]
      BY <1>3 DEF Listings
    <2>4. market' = [m EXCEPT !.votes = votes, !.stakes = stakes, !.total = total]
      BY <1>2, <1>3, <2>1, <2>2, <2>3 DEF Listings
    <2> QED BY <1>3, <2>1, <2>2, <2>3, <2>4 DEF Listings
  <1>5. ASSUME NEW u \in Punters
        PROVE  bets'[u] \in ListedBets \cup {NoChoice} /\ ~IsActive(u)'
    <2>1. bets[u] \in ListedBets \cup {NoChoice}
      BY DEF ListingInv, ListingTypeOK
    <2>2. CASE u \in gone
      <3>1. PICK b \in ListedBets : b = bets[u]
        BY <2>1, <2>2 DEF ActiveBettors, IsActive
      <3>2. /\ [b EXCEPT !.status = "Refunded"] \in ListedBets
            /\ [b EXCEPT !.status = "Refunded"].status # "Active"
        BY DEF ListedBets
      <3> QED BY <1>2, <2>2, <3>1, <3>2 DEF IsActive
    <2>3. CASE u \notin gone
      BY <1>2, <2>1, <2>3 DEF ActiveBettors, IsActive
    <2> QED BY <2>2, <2>3
  <1>6. bets' \in [Punters -> ListedBets \cup {NoChoice}]
    <2>1. \A u \in Punters : bets'[u] \in ListedBets \cup {NoChoice}
      BY <1>5
    <2> QED BY <1>2, <2>1
  <1>7. ListingTypeOK'
    BY <1>2, <1>4, <1>6 DEF ListingInv, ListingTypeOK
  <1>8. ActiveBettors' = {}
    BY <1>5 DEF ActiveBettors
  <1>9. Cardinality(ActiveBettors') <= betCount'
    BY <1>7, <1>8, FS_EmptySet DEF ListingTypeOK
  <1> QED BY <1>2, <1>4, <1>5, <1>7, <1>9 DEF ListingInv, TermsCopyAgrees, TermsKept

LEMMA ListingInvStep ==
  ASSUME ListingInv, [ListingNext]_listingVars
  PROVE  ListingInv'
  <1>0. /\ market \in Listings /\ market.commitment = market.terms
        /\ copy \in Listings \cup {NoCopy}
        /\ turnover \in 0..MaxTurnover /\ edits \in 0..MaxEdits
        /\ peeks \in 0..MaxPeeks /\ MaxPeeks \in Nat
    BY ListingAssumption DEF ListingInv, ListingTypeOK, TermsKept
  <1>1. ASSUME NEW q \in Questions, UpdateEventDescription(q) PROVE ListingInv'
    <2>1. PICK m : m = Committed([market EXCEPT !.terms.question = q])
      OBVIOUS
    <2>2. m \in Listings /\ m.commitment = m.terms
      BY <1>0, <2>1 DEF Committed, Listings, Terms
    <2> QED BY <1>1, <2>1, <2>2, EditKeeps DEF UpdateEventDescription
  <1>2. ASSUME NEW s \in OutcomeSets, UpdateEventOutcomes(s) PROVE ListingInv'
    <2>1. PICK m : m = Committed([market EXCEPT !.terms.outcomes = s])
      OBVIOUS
    <2>2. m \in Listings /\ m.commitment = m.terms
      BY <1>0, <2>1 DEF Committed, Listings, Terms
    <2> QED BY <1>2, <2>1, <2>2, EditKeeps DEF UpdateEventOutcomes
  <1>3. ASSUME NEW l \in Labels, UpdateEventCategory(l) PROVE ListingInv'
    <2>1. PICK m : m = [market EXCEPT !.category = l]
      OBVIOUS
    <2>2. m \in Listings /\ m.commitment = m.terms
      BY <1>0, <2>1 DEF Listings
    <2> QED BY <1>3, <2>1, <2>2, EditKeeps DEF UpdateEventCategory
  <1>4. ASSUME NEW l \in Labels, UpdateEventTags(l) PROVE ListingInv'
    <2>1. PICK m : m = [market EXCEPT !.tags = l]
      OBVIOUS
    <2>2. m \in Listings /\ m.commitment = m.terms
      BY <1>0, <2>1 DEF Listings
    <2> QED BY <1>4, <2>1, <2>2, EditKeeps DEF UpdateEventTags
  <1>5. ASSUME Peek PROVE ListingInv'
    <2>1. /\ copy' = market /\ UNCHANGED <<phase, market, bets, betCount, turnover, edits>>
          /\ peeks' \in 0..MaxPeeks
      BY <1>0, <1>5 DEF Peek
    <2> QED BY <1>0, <2>1, TermsStay
  <1>6. ASSUME Pass PROVE ListingInv'
    <2>1. /\ phase' \in 0..2
          /\ UNCHANGED <<market, copy, bets, betCount, turnover, edits, peeks>>
      BY <1>6 DEF Pass, ListingInv, ListingTypeOK
    <2>2. ListingTypeOK'
      BY <2>1 DEF ListingInv, ListingTypeOK
    <2> QED BY <2>1, <2>2
            DEF ListingInv, TermsKept, TermsCopyAgrees, ActiveBettors, IsActive
  <1>7. ASSUME UNCHANGED listingVars PROVE ListingInv'
    BY <1>7 DEF listingVars, ListingInv, ListingTypeOK, TermsKept, TermsCopyAgrees,
                ActiveBettors, IsActive
  <1>8. ASSUME NEW u \in Punters, NEW c \in Options,
               \/ BetListed(u, c)
               \/ \E s \in IF FreeVotes THEN {0, 1} ELSE {1} : VoteListed(u, c, s)
        PROVE  ListingInv'
    <2>1. BetListed(u, c) \/ \E s \in {0, 1} : VoteListed(u, c, s)
      BY <1>8
    <2> QED BY <2>1, BetListedKeeps, VoteListedKeeps
  <1> QED BY <1>1, <1>2, <1>3, <1>4, <1>5, <1>6, <1>7, <1>8,
             CancelListedBetKeeps, CancelListingKeeps DEF ListingNext

(* For any users, terms and copies, an active bet stays under the terms it *)
(* was placed on and the commitment is theirs (update_event_*, place_bet). *)
THEOREM TermsAreKept == ListingSpec => []TermsKept
  <1>1. ListingInv => TermsKept
    BY DEF ListingInv
  <1> QED BY <1>1, ListingInvInit, ListingInvStep, PTL DEF ListingSpec

-----------------------------------------------------------------------------
(* The journals.                                                           *)

(* Each record names the digest before it, and the head that of the last.  *)
ChainHolds ==
  /\ head.index = Len(trail)
  /\ trail # <<>> => Digest(trail[Len(trail)]) = head.digest
  /\ \A i \in 1..(Len(trail) - 1) : Digest(trail[i]) = trail[i + 1].previous

(* The queue is the end of all the alerts.                                 *)
QueueIsLatest ==
  /\ Len(queue) <= QueueCap /\ Len(queue) <= Len(raised)
  /\ \A i \in 1..Len(queue) : queue[i] = raised[Len(raised) - Len(queue) + i]
  /\ dropped => overflow
  /\ overflow => Len(queue) < Len(raised)

JournalsInv == JournalsTypeOK /\ ChainHolds /\ QueueIsLatest

LEMMA JournalsInvInit == JournalsInit => JournalsInv
  <1> SUFFICES ASSUME JournalsInit PROVE JournalsInv
    OBVIOUS
  <1>1. /\ trail = <<>> /\ queue = <<>> /\ raised = <<>> /\ head.index = 0
        /\ head.digest = <<>> /\ dropped = FALSE /\ overflow = FALSE
    BY DEF JournalsInit
  <1>2. \A S : <<>> \in Seq(S)
    BY EmptySeq
  <1>3. Len(trail) = 0 /\ Len(queue) = 0 /\ Len(raised) = 0
    BY <1>1, EmptySeq
  <1>4. JournalsTypeOK
    <2>1. head \in [index : Nat, digest : Seq(AuditActions)]
      BY <1>2 DEF JournalsInit
    <2>2. clears \in 0..MaxClears
      BY JournalsAssumption DEF JournalsInit
    <2> QED BY <1>1, <1>2, <2>1, <2>2 DEF JournalsTypeOK
  <1>5. ChainHolds
    BY <1>1, <1>3 DEF ChainHolds
  <1>6. QueueIsLatest
    BY <1>1, <1>3, JournalsAssumption DEF QueueIsLatest
  <1> QED BY <1>4, <1>5, <1>6 DEF JournalsInv

LEMMA AppendRecordKeeps ==
  ASSUME JournalsInv, NEW action \in AuditActions, AppendRecord(action)
  PROVE  JournalsInv'
  <1>0. /\ trail \in Seq(AuditRecords) /\ Len(trail) \in Nat
        /\ head.index = Len(trail) /\ head.digest \in Seq(AuditActions)
        /\ JournalsTypeOK
    BY LenProperties DEF JournalsInv, JournalsTypeOK, ChainHolds
  <1>1. PICK r \in AuditRecords :
          /\ r = [index |-> head.index + 1, action |-> action,
                  previous |-> head.digest]
          /\ Digest(r) \in Seq(AuditActions)
    <2>1. [index |-> head.index + 1, action |-> action, previous |-> head.digest]
            \in AuditRecords
      BY <1>0 DEF AuditRecords
    <2>2. Append(head.digest, action) \in Seq(AuditActions)
      BY <1>0, AppendProperties
    <2> QED BY <2>1, <2>2 DEF Digest
  <1>2. /\ trail' = Append(trail, r)
        /\ head' = [index |-> r.index, digest |-> Digest(r)]
        /\ UNCHANGED alertVars
    BY <1>1 DEF AppendRecord
  <1>3. /\ trail' \in Seq(AuditRecords) /\ Len(trail') = Len(trail) + 1
        /\ \A i \in 1..Len(trail) : trail'[i] = trail[i]
        /\ trail'[Len(trail) + 1] = r
    BY <1>0, <1>2, AppendProperties
  <1>4. head'.index = Len(trail') /\ head'.digest = Digest(r)
        /\ head' \in [index : Nat, digest : Seq(AuditActions)]
    BY <1>0, <1>1, <1>2, <1>3
  <1>5. JournalsTypeOK'
    BY <1>0, <1>2, <1>3, <1>4 DEF JournalsTypeOK, alertVars
  <1>6. QueueIsLatest'
    BY <1>2 DEF JournalsInv, QueueIsLatest, alertVars
  <1>7. ASSUME NEW i \in 1..(Len(trail') - 1)
        PROVE  Digest(trail'[i]) = trail'[i + 1].previous
    <2>1. i \in 1..Len(trail) /\ Len(trail) # 0
      BY <1>0, <1>3
    <2>2. trail # <<>>
      BY <2>1, EmptySeq
    <2>3. CASE i = Len(trail)
      <3>1. Digest(trail[i]) = head.digest
        BY <2>2, <2>3 DEF JournalsInv, ChainHolds
      <3> QED BY <1>1, <1>3, <2>1, <2>3, <3>1
    <2>4. CASE i # Len(trail)
      <3>1. i \in 1..(Len(trail) - 1) /\ i + 1 \in 1..Len(trail)
        BY <1>0, <2>1, <2>4
      <3>2. Digest(trail[i]) = trail[i + 1].previous
        BY <3>1 DEF JournalsInv, ChainHolds
      <3> QED BY <1>3, <2>1, <3>1, <3>2
    <2> QED BY <2>3, <2>4
  <1>8. ChainHolds'
    BY <1>3, <1>4, <1>7 DEF ChainHolds
  <1> QED BY <1>5, <1>6, <1>8 DEF JournalsInv

LEMMA StoreAlertKeeps ==
  ASSUME JournalsInv, NEW a \in Alerts, StoreAlert(a)
  PROVE  JournalsInv'
  <1>0. /\ queue \in Seq(Alerts) /\ Len(queue) \in Nat
        /\ raised \in Seq(Alerts) /\ Len(raised) \in Nat
        /\ QueueCap \in Nat \ {0} /\ JournalsTypeOK /\ QueueIsLatest
    BY LenProperties, JournalsAssumption DEF JournalsInv, JournalsTypeOK
  <1>1. PICK full \in BOOLEAN :
          /\ full <=> Len(queue) >= QueueCap
          /\ queue' = Append(IF full THEN Tail(queue) ELSE queue, a)
          /\ overflow' = (overflow \/ full)
          /\ raised' = Append(raised, a)
          /\ dropped' = (dropped \/ full)
          /\ UNCHANGED <<head, trail, clears>>
    BY DEF StoreAlert
  <1>2. PICK kept \in Seq(Alerts) :
          /\ kept = IF full THEN Tail(queue) ELSE queue
          /\ Len(kept) = IF full THEN Len(queue) - 1 ELSE Len(queue)
          /\ \A i \in 1..Len(kept) :
               kept[i] = queue[IF full THEN i + 1 ELSE i]
    <2>1. CASE full
      <3>1. queue # <<>>
        BY <1>0, <1>1, <2>1, EmptySeq
      <3>2. /\ Tail(queue) \in Seq(Alerts) /\ Len(Tail(queue)) = Len(queue) - 1
            /\ \A i \in 1..Len(Tail(queue)) : Tail(queue)[i] = queue[i + 1]
        BY <1>0, <3>1, HeadTailProperties
      <3> QED BY <2>1, <3>2
    <2>2. CASE ~full
      BY <1>0, <2>2
    <2> QED BY <2>1, <2>2
  <1>3. /\ queue' \in Seq(Alerts) /\ Len(queue') = Len(kept) + 1
        /\ \A i \in 1..Len(kept) : queue'[i] = kept[i]
        /\ queue'[Len(kept) + 1] = a
    BY <1>1, <1>2, AppendProperties
  <1>4. /\ raised' \in Seq(Alerts) /\ Len(raised') = Len(raised) + 1
        /\ \A i \in 1..Len(raised) : raised'[i] = raised[i]
        /\ raised'[Len(raised) + 1] = a
    BY <1>0, <1>1, AppendProperties
  <1>5. JournalsTypeOK'
    BY <1>0, <1>1, <1>3, <1>4 DEF JournalsTypeOK
  <1>6. ChainHolds'
    BY <1>1 DEF JournalsInv, ChainHolds
  <1>7. /\ Len(kept) \in Nat
        /\ Len(queue') <= QueueCap /\ Len(queue') <= Len(raised')
        /\ overflow' => Len(queue') < Len(raised')
        /\ dropped' => overflow'
    BY <1>0, <1>1, <1>2, <1>3, <1>4 DEF QueueIsLatest
  <1>8. ASSUME NEW i \in 1..Len(queue')
        PROVE  queue'[i] = raised'[Len(raised') - Len(queue') + i]
    <2>1. CASE i = Len(kept) + 1
      <3>1. Len(raised') - Len(queue') + i = Len(raised) + 1
        BY <1>0, <1>3, <1>4, <1>7, <2>1
      <3> QED BY <1>3, <1>4, <2>1, <3>1
    <2>2. CASE i \in 1..Len(kept)
      <3>1. PICK j \in 1..Len(queue) :
              /\ kept[i] = queue[j]
              /\ Len(raised') - Len(queue') + i = Len(raised) - Len(queue) + j
        <4>1. CASE full
          BY <1>0, <1>2, <1>3, <1>4, <1>7, <2>2, <4>1
        <4>2. CASE ~full
          BY <1>0, <1>2, <1>3, <1>4, <1>7, <2>2, <4>2
        <4> QED BY <4>1, <4>2
      <3>2. /\ queue[j] = raised[Len(raised) - Len(queue) + j]
            /\ Len(raised) - Len(queue) + j \in 1..Len(raised)
        BY <1>0 DEF QueueIsLatest
      <3> QED BY <1>3, <1>4, <2>2, <3>1, <3>2
    <2> QED BY <1>3, <1>7, <2>1, <2>2
  <1>9. QueueIsLatest'
    BY <1>7, <1>8 DEF QueueIsLatest
  <1> QED BY <1>5, <1>6, <1>9 DEF JournalsInv

LEMMA JournalsInvStep ==
  ASSUME JournalsInv, [JournalsNext]_journalVars
  PROVE  JournalsInv'
  <1>1. CASE ClearOverflow
    <2>1. clears' \in 0..MaxClears
      BY <1>1, JournalsAssumption DEF ClearOverflow, JournalsInv, JournalsTypeOK
    <2>2. JournalsTypeOK'
      BY <1>1, <2>1 DEF ClearOverflow, JournalsInv, JournalsTypeOK
    <2> QED BY <1>1, <2>2 DEF ClearOverflow, JournalsInv, ChainHolds, QueueIsLatest
  <1>2. CASE UNCHANGED journalVars
    BY <1>2 DEF journalVars, JournalsInv, JournalsTypeOK, ChainHolds, QueueIsLatest
  <1> QED BY <1>1, <1>2, AppendRecordKeeps, StoreAlertKeeps DEF JournalsNext

(* The chain verifies from any depth, and the queue is a piece of history. *)
LEMMA JournalsInvSays ==
  ASSUME JournalsInv
  PROVE  NothingLostSilently
  <1>0. /\ queue \in Seq(Alerts) /\ Len(queue) \in Nat
        /\ raised \in Seq(Alerts) /\ Len(raised) \in Nat
        /\ trail \in Seq(AuditRecords) /\ Len(trail) \in Nat
        /\ head.index = Len(trail) /\ ChainHolds /\ QueueIsLatest
    BY LenProperties DEF JournalsInv, JournalsTypeOK, ChainHolds
  <1>1. queue = SubSeq(raised, Len(raised) - Len(queue) + 1, Len(raised))
    <2> DEFINE m == Len(raised) - Len(queue) + 1
               s == SubSeq(raised, m, Len(raised))
    <2>1. m \in 1..(Len(raised) + 1) /\ Len(raised) - m + 1 = Len(queue)
      BY <1>0 DEF QueueIsLatest
    <2>2. /\ s \in Seq(Alerts)
          /\ Len(s) = IF m <= Len(raised) THEN Len(raised) - m + 1 ELSE 0
          /\ \A i \in 1..(Len(raised) - m + 1) : s[i] = raised[m + i - 1]
      BY <1>0, <2>1, SubSeqProperties
    <2>3. Len(s) = Len(queue)
      BY <1>0, <2>1, <2>2
    <2>4. \A i \in 1..Len(queue) : m + i - 1 = Len(raised) - Len(queue) + i
      BY <1>0
    <2>5. \A i \in 1..Len(queue) : s[i] = raised[Len(raised) - Len(queue) + i]
      <3> HIDE DEF s, m
      <3> QED BY <2>1, <2>2, <2>4
    <2>6. \A i \in 1..Len(queue) : s[i] = queue[i]
      BY <1>0, <2>5 DEF QueueIsLatest
    <2> HIDE DEF s
    <2>7. s = queue
      BY <1>0, <2>2, <2>3, <2>6, SeqEqual
    <2> QED BY <2>7 DEF s
  <1>2. ASSUME NEW depth \in 0..(head.index + 1)
        PROVE  VerifyIntegrity(depth)
    <2>1. SUFFICES ASSUME NEW k \in 0..((IF depth < head.index THEN depth
                                         ELSE head.index) - 1)
                   PROVE  LET i == head.index - k IN
                          /\ i \in DOMAIN trail
                          /\ Digest(trail[i]) = IF k = 0 THEN head.digest
                                                ELSE trail[i + 1].previous
      BY DEF VerifyIntegrity
    <2>2. PICK i \in 1..Len(trail) : i = Len(trail) - k
      <3>1. PICK n \in 0..Len(trail) :
              n = IF depth < head.index THEN depth ELSE head.index
        BY <1>0
      <3>2. k \in 0..(n - 1)
        BY <2>1, <3>1
      <3>3. Len(trail) - k \in 1..Len(trail)
        BY <1>0, <3>1, <3>2
      <3> QED BY <3>3
    <2>3. trail # <<>> /\ DOMAIN trail = 1..Len(trail)
      BY <1>0, <2>2, EmptySeq, LenProperties
    <2>4. CASE k = 0
      BY <1>0, <2>2, <2>3, <2>4 DEF ChainHolds
    <2>5. CASE k # 0
      <3>1. i \in 1..(Len(trail) - 1)
        BY <1>0, <2>1, <2>2, <2>5
      <3> QED BY <1>0, <2>2, <2>3, <2>5, <3>1 DEF ChainHolds
    <2> QED BY <2>4, <2>5
  <1>3. Len(LatestRecords(head.index + 1)) = Len(trail)
    <2> DEFINE s == LatestRecords(head.index + 1)
    <2>1. s = [k \in 1..Len(trail) |-> trail[Len(trail) - k + 1]]
      BY <1>0 DEF LatestRecords
    <2>2. \A k \in 1..Len(trail) : trail[Len(trail) - k + 1] \in AuditRecords
      <3>1. \A k \in 1..Len(trail) : Len(trail) - k + 1 \in 1..Len(trail)
        BY <1>0
      <3> QED BY <1>0, <3>1, ElementOfSeq
    <2>3. s \in [1..Len(trail) -> AuditRecords]
      BY <2>1, <2>2
    <2> HIDE DEF s
    <2>4. s \in Seq(AuditRecords)
      BY <1>0, <2>3, SeqDef
    <2>5. 1..Len(s) = 1..Len(trail) /\ Len(s) \in Nat
      BY <2>3, <2>4, LenProperties
    <2> QED BY <1>0, <2>5 DEF s
  <1> QED BY <1>0, <1>1, <1>2, <1>3 DEF NothingLostSilently, QueueIsLatest

(* For any actions, alerts and size of the queue, what is missing from it  *)
(* was flagged, and the audit trail verifies (store_alert, append_record). *)
THEOREM NothingIsLostSilently == JournalsSpec => []NothingLostSilently
  <1>1. JournalsInv => NothingLostSilently
    BY JournalsInvSays
  <1> QED BY <1>1, JournalsInvInit, JournalsInvStep, PTL DEF JournalsSpec

-----------------------------------------------------------------------------
(* The archive.                                                            *)

(* Not only neighbours are in order.                                       *)
IndexInOrder ==
  \A i, j \in 1..Len(index) : i < j => Before(index[i], index[j])

ArchiveInv ==
  /\ ArchiveTypeOK
  /\ IndexInOrder
  /\ \A i \in 1..Len(index) : archived[index[i].market] = index[i].at
  /\ \A m \in Archived : \E i \in 1..Len(index) : index[i].market = m
  /\ Len(index) <= MaxArchive

LEMMA EntriesAre ==
  ASSUME ArchiveTypeOK
  PROVE  /\ index \in Seq(Entries) /\ Len(index) \in Nat
         /\ \A i \in 1..Len(index) :
              /\ index[i] \in Entries /\ index[i].at \in Nat
              /\ index[i].market \in Settled /\ index[i].market \in Nat
  <1>1. index \in Seq(Entries) /\ Len(index) \in Nat
    BY LenProperties DEF ArchiveTypeOK
  <1>2. \A i \in 1..Len(index) : index[i] \in Entries
    BY <1>1, ElementOfSeq
  <1>3. Settled \subseteq Nat
    BY ArchiveAssumption
  <1> QED BY <1>1, <1>2, <1>3 DEF Entries

LEMMA ArchiveInvInit == ArchiveInit => ArchiveInv
  <1> SUFFICES ASSUME ArchiveInit PROVE ArchiveInv
    OBVIOUS
  <1>1. index = <<>> /\ Len(index) = 0 /\ index \in Seq(Entries)
    BY EmptySeq DEF ArchiveInit
  <1>2. /\ now \in StartTime..MaxTime /\ prunes \in 0..MaxPrunes /\ cursors \subseteq Cursors
    BY ClockAssumption, ArchiveAssumption DEF ArchiveInit, FromStart, Cursors
  <1>3. ArchiveTypeOK
    BY <1>1, <1>2 DEF ArchiveTypeOK, ArchiveInit
  <1>4. Archived = {}
    BY DEF Archived, ArchiveInit
  <1> QED BY <1>1, <1>3, <1>4, ArchiveAssumption DEF ArchiveInv, IndexInOrder

(* No market is listed twice.                                              *)
LEMMA ListedOnce ==
  ASSUME ArchiveInv, NEW i \in 1..Len(index), NEW j \in 1..Len(index),
         index[i].market = index[j].market
  PROVE  i = j
  <1>1. index[i].at = index[j].at
    BY DEF ArchiveInv
  <1>2. /\ index[i].at \in Nat /\ index[i].market \in Nat
    BY EntriesAre DEF ArchiveInv
  <1>3. ~Before(index[i], index[j]) /\ ~Before(index[j], index[i])
    BY <1>1, <1>2 DEF Before
  <1>4. ~(i < j) /\ ~(j < i)
    BY <1>3 DEF ArchiveInv, IndexInOrder
  <1> QED BY <1>4

LEMMA ArchiveEventKeeps ==
  ASSUME ArchiveInv, NEW m \in Settled, ArchiveEvent(m)
  PROVE  ArchiveInv'
  <1>0. /\ ArchiveTypeOK /\ now \in Nat /\ m \in Nat /\ MaxArchive \in Nat
        /\ archived \in [Settled -> Nat \cup {NotArchived}]
        /\ IndexInOrder
    BY ClockAssumption, ArchiveAssumption DEF ArchiveInv, ArchiveTypeOK
  <1>1. PICK n \in Nat : n = Len(index)
    BY <1>0, EntriesAre
  <1>2. \A i \in 1..n :
          /\ index[i] \in Entries /\ index[i].at \in Nat
          /\ index[i].market \in Settled /\ index[i].market \in Nat
    BY <1>0, <1>1, EntriesAre
  <1>3. PICK e \in Entries : e = [at |-> now, market |-> m]
    BY <1>0 DEF Entries
  <1>4. /\ m \notin Archived /\ n < MaxArchive
        /\ archived' = [archived EXCEPT ![m] = now]
        /\ index' = Inserted(e)
        /\ UNCHANGED <<now, cursors, prunes>>
    BY <1>1, <1>3 DEF ArchiveEvent
  <1>5. PICK place \in 1..(n + 1) :
          /\ \A i \in 1..n : i < place => ~Before(e, index[i])
          /\ place <= n => Before(e, index[place])
          /\ Inserted(e) = [i \in 1..(n + 1) |->
                IF i < place THEN index[i] ELSE IF i = place THEN e ELSE index[i - 1]]
    <2> DEFINE later == {i \in 1..n : Before(e, index[i])}
               first == CHOOSE i \in later : \A j \in later : i <= j
    <2>1. CASE later = {}
      <3>1. Inserted(e) = [i \in 1..(n + 1) |->
              IF i < n + 1 THEN index[i] ELSE IF i = n + 1 THEN e ELSE index[i - 1]]
        BY <1>1, <2>1 DEF Inserted
      <3>2. n + 1 \in 1..(n + 1) /\ ~(n + 1 <= n)
        BY <1>1
      <3>3. \A i \in 1..n : ~Before(e, index[i])
        BY <2>1
      <3> QED BY <3>1, <3>2, <3>3
    <2>2. CASE later # {}
      <3>1. \E i \in later : \A j \in later : i <= j
        BY <1>1, <2>2, LeastIndex
      <3>2. first \in later /\ \A j \in later : first <= j
        BY <3>1
      <3>3. Inserted(e) = [i \in 1..(n + 1) |->
              IF i < first THEN index[i] ELSE IF i = first THEN e ELSE index[i - 1]]
        BY <1>1, <2>2 DEF Inserted
      <3> HIDE DEF first
      <3>4. first \in 1..(n + 1) /\ Before(e, index[first])
        BY <1>1, <3>2
      <3>5. \A i \in 1..n : i < first => ~Before(e, index[i])
        BY <3>2, <3>4
      <3> QED BY <3>3, <3>4, <3>5
    <2> QED BY <2>1, <2>2
  <1>6. ASSUME NEW i \in 1..(n + 1)
        PROVE  /\ i < place => i \in 1..n /\ index'[i] = index[i]
               /\ i = place => index'[i] = e
               /\ i > place => i - 1 \in 1..n /\ index'[i] = index[i - 1]
    BY <1>1, <1>4, <1>5
  <1>7. \A i \in 1..(n + 1) : index'[i] \in Entries
    <2> TAKE i \in 1..(n + 1)
    <2>1. i < place \/ i = place \/ i > place
      BY <1>1
    <2> QED BY <1>2, <1>6, <2>1
  <1>8. index' \in Seq(Entries) /\ Len(index') = n + 1
    <2>1. index' = [i \in 1..(n + 1) |-> index'[i]]
      BY <1>4, <1>5
    <2>2. index' \in [1..(n + 1) -> Entries]
      BY <1>7, <2>1
    <2>3. index' \in Seq(Entries)
      BY <1>1, <2>2, SeqDef
    <2>4. 1..Len(index') = 1..(n + 1) /\ Len(index') \in Nat
      BY <2>2, <2>3, LenProperties
    <2> QED BY <1>1, <2>3, <2>4
  <1>9. /\ archived' \in [Settled -> Nat \cup {NotArchived}] /\ archived'[m] = now
        /\ \A k \in Settled \ {m} : archived'[k] = archived[k]
    BY <1>0, <1>4
  <1>10. ArchiveTypeOK'
    BY <1>0, <1>4, <1>8, <1>9 DEF ArchiveTypeOK
  <1>11. ASSUME NEW i \in 1..n PROVE index[i].market # m /\ archived[index[i].market] = index[i].at
    <2>1. archived[index[i].market] = index[i].at
      BY <1>1 DEF ArchiveInv
    <2>2. archived[index[i].market] # NotArchived
      BY <1>2, <2>1, ArchiveAssumption
    <2> QED BY <1>2, <1>4, <2>1, <2>2 DEF Archived
  (* What does not follow the new entry precedes it.                       *)
  <1>12. ASSUME NEW i \in 1..n, i < place PROVE Before(index[i], e)
    <2>1. ~Before(e, index[i])
      BY <1>5, <1>12
    <2> QED BY <1>0, <1>2, <1>3, <1>11, <2>1 DEF Before
  <1>13. ASSUME NEW i \in 1..n, i >= place PROVE Before(e, index[i])
    <2>1. place \in 1..n /\ Before(e, index[place])
      BY <1>1, <1>5, <1>13
    <2>2. i = place \/ Before(index[place], index[i])
      BY <1>0, <1>1, <1>13, <2>1 DEF IndexInOrder
    <2>3. CASE i = place
      BY <2>1, <2>3
    <2>4. CASE Before(index[place], index[i])
      <3>1. /\ e.at \in Nat /\ e.market \in Nat
            /\ index[place].at \in Nat /\ index[place].market \in Nat
            /\ index[i].at \in Nat /\ index[i].market \in Nat
        BY <1>0, <1>2, <1>3, <2>1
      <3> QED BY <2>1, <2>4, <3>1 DEF Before
    <2> QED BY <2>2, <2>3, <2>4
  <1>14. ASSUME NEW i \in 1..(n + 1), NEW j \in 1..(n + 1), i < j
         PROVE  Before(index'[i], index'[j])
    <2>1. CASE j < place
      <3>1. i \in 1..n /\ j \in 1..n /\ index'[i] = index[i] /\ index'[j] = index[j]
        BY <1>6, <1>14, <2>1
      <3> QED BY <1>0, <1>1, <1>14, <3>1 DEF IndexInOrder
    <2>2. CASE j = place
      <3>1. i \in 1..n /\ index'[i] = index[i] /\ index'[j] = e
        BY <1>6, <1>14, <2>2
      <3> QED BY <1>12, <1>14, <2>2, <3>1
    <2>3. CASE j > place
      <3>1. j - 1 \in 1..n /\ index'[j] = index[j - 1]
        BY <1>6, <2>3
      <3>2. CASE i < place
        <4>1. i \in 1..n /\ index'[i] = index[i] /\ i < j - 1
          BY <1>6, <2>3, <3>2
        <4> QED BY <1>0, <1>1, <3>1, <4>1 DEF IndexInOrder
      <3>3. CASE i = place
        <4>1. index'[i] = e /\ j - 1 >= place
          BY <1>6, <2>3, <3>3
        <4> QED BY <1>13, <3>1, <4>1
      <3>4. CASE i > place
        <4>1. i - 1 \in 1..n /\ index'[i] = index[i - 1] /\ i - 1 < j - 1
          BY <1>6, <1>14, <3>4
        <4> QED BY <1>0, <1>1, <3>1, <4>1 DEF IndexInOrder
      <3> QED BY <3>2, <3>3, <3>4
    <2> QED BY <1>14, <2>1, <2>2, <2>3
  <1>15. ASSUME NEW i \in 1..(n + 1)
         PROVE  archived'[index'[i].market] = index'[i].at
    <2>1. CASE i = place
      BY <1>3, <1>6, <1>9, <2>1
    <2>2. ASSUME NEW k \in 1..n, index'[i] = index[k]
          PROVE  archived'[index'[i].market] = index'[i].at
      BY <1>2, <1>9, <1>11, <2>2
    <2>3. i < place \/ i = place \/ i > place
      BY <1>1
    <2> QED BY <1>6, <2>1, <2>2, <2>3
  <1>16. ASSUME NEW k \in Archived'
         PROVE  \E i \in 1..(n + 1) : index'[i].market = k
    <2>1. CASE k = m
      <3>1. index'[place].market = m
        BY <1>3, <1>6
      <3> QED BY <2>1, <3>1
    <2>2. CASE k # m
      <3>1. k \in Archived
        BY <1>9, <2>2 DEF Archived
      <3>2. PICK i \in 1..n : index[i].market = k
        BY <1>1, <3>1 DEF ArchiveInv
      <3>3. CASE i < place
        <4>1. i \in 1..(n + 1) /\ index'[i] = index[i]
          BY <1>1, <1>6, <3>3
        <4> QED BY <3>2, <4>1
      <3>4. CASE i >= place
        <4>1. i + 1 \in 1..(n + 1) /\ i + 1 > place /\ (i + 1) - 1 = i
          BY <1>1, <3>4
        <4>2. index'[i + 1] = index[i]
          BY <1>6, <4>1
        <4> QED BY <3>2, <4>1, <4>2
      <3> QED BY <3>3, <3>4
    <2> QED BY <2>1, <2>2
  <1>17. IndexInOrder'
    BY <1>8, <1>14 DEF IndexInOrder
  <1>18. Len(index') <= MaxArchive
    BY <1>0, <1>1, <1>4, <1>8
  <1> QED BY <1>8, <1>10, <1>15, <1>16, <1>17, <1>18 DEF ArchiveInv

(* A page lies within the index.                                           *)
LEMMA PageWithin ==
  ASSUME ArchiveTypeOK, NEW c, NEW count \in Nat
  PROVE  /\ Skipped(c) \in 0..Len(index)
         /\ PageEnd(c, count) \in Skipped(c)..Len(index)
         /\ count > 0 /\ MaxPage > 0 /\ Skipped(c) < Len(index)
              => Skipped(c) < PageEnd(c, count)
  <1>1. Len(index) \in Nat /\ MaxPage \in Nat
    BY EntriesAre, ArchiveAssumption
  <1>2. Skipped(c) \in 0..Len(index)
    <2> DEFINE later == {i \in 1..Len(index) : Before(c, index[i])}
               first == CHOOSE i \in later : \A j \in later : i <= j
    <2>1. CASE c.at = 0 \/ later = {}
      BY <1>1, <2>1 DEF Skipped
    <2>2. CASE c.at # 0 /\ later # {}
      <3>1. \E i \in later : \A j \in later : i <= j
        BY <1>1, <2>2, LeastIndex
      <3>2. first \in later
        BY <3>1
      <3>3. Skipped(c) = first - 1
        BY <2>2 DEF Skipped
      <3> HIDE DEF first
      <3> QED BY <1>1, <3>2, <3>3
    <2> QED BY <2>1, <2>2
  <1> QED BY <1>1, <1>2 DEF PageEnd

LEMMA PruneArchiveKeeps ==
  ASSUME ArchiveInv, NEW c \in cursors, NEW count \in Pages, PruneArchive(c, count)
  PROVE  ArchiveInv'
  <1>0. /\ ArchiveTypeOK /\ IndexInOrder /\ c \in Cursors /\ count \in Nat
        /\ prunes \in 0..MaxPrunes /\ MaxPrunes \in Nat
        /\ archived \in [Settled -> Nat \cup {NotArchived}]
        /\ index \in Seq(Entries) /\ MaxArchive \in Nat
    BY ArchiveAssumption DEF ArchiveInv, ArchiveTypeOK
  <1>1. PICK n \in Nat, s \in Nat, end \in Nat :
          /\ n = Len(index) /\ s = Skipped(c) /\ end = PageEnd(c, count)
          /\ s < end /\ end <= n
    <2>1. count > 0 /\ MaxPage > 0 /\ Skipped(c) < Len(index)
      BY DEF PruneArchive
    <2>2. Len(index) \in Nat
      BY <1>0, EntriesAre
    <2>3. /\ Skipped(c) \in 0..Len(index) /\ Skipped(c) < PageEnd(c, count)
          /\ PageEnd(c, count) \in Skipped(c)..Len(index)
      BY <1>0, <2>1, PageWithin
    <2>4. Skipped(c) \in Nat /\ PageEnd(c, count) \in Nat /\ PageEnd(c, count) <= Len(index)
      BY <2>2, <2>3
    <2> QED BY <2>2, <2>3, <2>4
  <1>2. \A i \in 1..n :
          /\ index[i] \in Entries /\ index[i].at \in Nat
          /\ index[i].market \in Settled /\ index[i].market \in Nat
    BY <1>0, <1>1, EntriesAre
  <1>3. PICK gone, left :
          /\ gone = {index[i].market : i \in (s + 1)..end}
          /\ left = SubSeq(index, 1, s) \o SubSeq(index, end + 1, n)
          /\ archived' = [m \in Settled |-> IF m \in gone THEN NotArchived
                                            ELSE archived[m]]
          /\ index' = left
          /\ \E d \in BOOLEAN : cursors' = cursors \cup
               {[at |-> index[end].at, market |-> index[end].market, done |-> d]}
          /\ prunes' = prunes + 1 /\ prunes < MaxPrunes /\ now' = now
    BY <1>1 DEF PruneArchive
  <1>4. /\ SubSeq(index, 1, s) \in Seq(Entries) /\ Len(SubSeq(index, 1, s)) = s
        /\ \A i \in 1..s : SubSeq(index, 1, s)[i] = index[i]
    <2>1. \A i \in 1..s : index[i] \in Entries
      BY <1>1, <1>2
    <2>2. /\ SubSeq(index, 1, s) \in Seq(Entries)
          /\ Len(SubSeq(index, 1, s)) = IF 1 <= s THEN s - 1 + 1 ELSE 0
          /\ \A i \in 1..(s - 1 + 1) : SubSeq(index, 1, s)[i] = index[1 + i - 1]
      BY <1>1, <2>1, SubSeqProperties
    <2> QED BY <1>1, <2>2
  <1>5. /\ SubSeq(index, end + 1, n) \in Seq(Entries)
        /\ Len(SubSeq(index, end + 1, n)) = n - end
        /\ \A i \in 1..(n - end) : SubSeq(index, end + 1, n)[i] = index[end + i]
    <2>1. \A i \in (end + 1)..n : index[i] \in Entries
      BY <1>1, <1>2
    <2>2. /\ SubSeq(index, end + 1, n) \in Seq(Entries)
          /\ Len(SubSeq(index, end + 1, n)) = IF end + 1 <= n THEN n - (end + 1) + 1 ELSE 0
          /\ \A i \in 1..(n - (end + 1) + 1) :
               SubSeq(index, end + 1, n)[i] = index[(end + 1) + i - 1]
      BY <1>1, <2>1, SubSeqProperties, SMTT(60)
    <2> QED BY <1>1, <2>2, SMTT(60)
  <1>6. /\ index' \in Seq(Entries) /\ Len(index') = s + (n - end)
        /\ \A i \in 1..(s + (n - end)) :
             index'[i] = IF i <= s THEN index[i] ELSE index[end + (i - s)]
    <2> DEFINE front == SubSeq(index, 1, s)
               back == SubSeq(index, end + 1, n)
    <2> HIDE DEF front, back
    <2>1. /\ front \in Seq(Entries) /\ Len(front) = s
          /\ \A i \in 1..s : front[i] = index[i]
          /\ back \in Seq(Entries) /\ Len(back) = n - end
          /\ \A i \in 1..(n - end) : back[i] = index[end + i]
          /\ index' = front \o back
      BY <1>3, <1>4, <1>5 DEF front, back
    <2>2. /\ front \o back \in Seq(Entries) /\ Len(front \o back) = s + (n - end)
          /\ \A i \in 1..(s + (n - end)) :
               (front \o back)[i] = IF i <= s THEN front[i] ELSE back[i - s]
      <3>1. /\ front \o back \in Seq(Entries)
            /\ Len(front \o back) = Len(front) + Len(back)
            /\ \A i \in 1..(Len(front) + Len(back)) :
                 (front \o back)[i] = IF i <= Len(front) THEN front[i]
                                      ELSE back[i - Len(front)]
        BY <2>1, ConcatProperties
      <3> QED BY <2>1, <3>1
    <2>3. ASSUME NEW i \in 1..(s + (n - end))
          PROVE  index'[i] = IF i <= s THEN index[i] ELSE index[end + (i - s)]
      <3>1. CASE i <= s
        BY <1>1, <2>1, <2>2, <3>1
      <3>2. CASE ~(i <= s)
        <4>1. i - s \in 1..(n - end)
          BY <1>1, <3>2
        <4> QED BY <2>1, <2>2, <3>2, <4>1
      <3> QED BY <3>1, <3>2
    <2> QED BY <2>1, <2>2, <2>3
  (* Where an entry that is left stood.                                    *)
  <1>7. PICK stood \in [1..(s + (n - end)) -> Nat] :
          \A i \in 1..(s + (n - end)) :
            stood[i] = IF i <= s THEN i ELSE end + (i - s)
    <2> DEFINE f == [i \in 1..(s + (n - end)) |-> IF i <= s THEN i ELSE end + (i - s)]
    <2>1. f \in [1..(s + (n - end)) -> Nat]
      BY <1>1
    <2> QED BY <2>1
  <1>8. ASSUME NEW i \in 1..(s + (n - end))
        PROVE  /\ stood[i] \in 1..n /\ stood[i] \notin (s + 1)..end
               /\ index'[i] = index[stood[i]]
    BY <1>1, <1>6, <1>7, SMTT(60)
  <1>9. \A i, j \in 1..(s + (n - end)) : i < j => stood[i] < stood[j]
    BY <1>1, <1>7, SMTT(60)
  <1>10. IndexInOrder'
    <2>1. ASSUME NEW i \in 1..Len(index'), NEW j \in 1..Len(index'), i < j
          PROVE  Before(index'[i], index'[j])
      <3>1. i \in 1..(s + (n - end)) /\ j \in 1..(s + (n - end))
        BY <1>6
      <3>2. stood[i] \in 1..n /\ stood[j] \in 1..n /\ stood[i] < stood[j]
        BY <1>8, <1>9, <2>1, <3>1
      <3>3. Before(index[stood[i]], index[stood[j]])
        BY <1>0, <1>1, <3>2 DEF IndexInOrder
      <3> QED BY <1>8, <3>1, <3>3
    <2> QED BY <2>1 DEF IndexInOrder
  <1>11. ASSUME NEW i \in 1..n, i \notin (s + 1)..end
         PROVE  index[i].market \notin gone
    <2>1. ASSUME NEW j \in (s + 1)..end, index[j].market = index[i].market
          PROVE  FALSE
      <3>1. j \in 1..Len(index) /\ i \in 1..Len(index)
        BY <1>1, SMTT(60)
      <3> QED BY <1>11, <2>1, <3>1, ListedOnce
    <2> QED BY <1>3, <2>1
  <1>12. ASSUME NEW i \in 1..Len(index')
         PROVE  archived'[index'[i].market] = index'[i].at
    <2>1. i \in 1..(s + (n - end))
      BY <1>6
    <2>2. PICK k \in 1..n : k \notin (s + 1)..end /\ index'[i] = index[k]
      BY <1>8, <2>1
    <2>3. index[k].market \notin gone /\ index[k].market \in Settled
      BY <1>2, <1>11, <2>2
    <2>4. archived[index[k].market] = index[k].at
      BY <1>1 DEF ArchiveInv
    <2> QED BY <1>3, <2>2, <2>3, <2>4
  <1>13. ASSUME NEW m \in Archived'
         PROVE  \E i \in 1..Len(index') : index'[i].market = m
    <2>1. m \in Archived /\ m \notin gone
      BY <1>3, <1>13 DEF Archived
    <2>2. PICK k \in 1..n : index[k].market = m
      BY <1>1, <2>1 DEF ArchiveInv
    <2>3. k \notin (s + 1)..end
      BY <1>3, <2>1, <2>2
    <2>4. CASE k <= s
      <3>1. k \in 1..(s + (n - end)) /\ stood[k] = k
        BY <1>1, <1>7, <2>4
      <3>2. index'[k] = index[k] /\ k \in 1..Len(index')
        BY <1>6, <1>8, <3>1
      <3> QED BY <2>2, <3>2
    <2>5. CASE k > end
      <3>0. s \in Int /\ n \in Int /\ end \in Int /\ k \in Int /\ k > end /\ k <= n /\ s >= 0
        BY <1>1, <2>2, <2>5
      <3>1. PICK i \in 1..(s + (n - end)) : i = s + (k - end)
        BY <3>0
      <3>2. stood[i] = k
        <4>1. i > s
          BY <3>0, <3>1
        <4>2. end + (i - s) = k
          BY <3>0, <3>1
        <4>3. ~(i <= s)
          BY <3>0, <3>1, <4>1
        <4> QED BY <1>7, <4>2, <4>3
      <3>3. index'[i] = index[k] /\ i \in 1..Len(index')
        BY <1>6, <1>8, <3>2
      <3> QED BY <2>2, <3>3
    <2> QED BY <1>1, <2>3, <2>4, <2>5
  <1>14. ArchiveTypeOK'
    <2>1. archived' \in [Settled -> Nat \cup {NotArchived}]
      BY <1>0, <1>3
    <2>2. index[end].at \in Nat /\ index[end].market \in Nat
      BY <1>1, <1>2
    <2>3. cursors' \subseteq Cursors
      <3>1. \A d \in BOOLEAN :
              [at |-> index[end].at, market |-> index[end].market, done |-> d] \in Cursors
        BY <2>2 DEF Cursors
      <3>2. cursors \subseteq Cursors
        BY <1>0 DEF ArchiveTypeOK
      <3> QED BY <1>3, <3>1, <3>2
    <2>4. prunes' \in 0..MaxPrunes
      BY <1>0, <1>3
    <2> QED BY <1>0, <1>3, <1>6, <2>1, <2>3, <2>4 DEF ArchiveTypeOK
  <1>15. Len(index') <= MaxArchive
    BY <1>0, <1>1, <1>6, SMTT(60) DEF ArchiveInv
  <1> QED BY <1>10, <1>12, <1>13, <1>14, <1>15 DEF ArchiveInv

LEMMA ArchiveInvStep ==
  ASSUME ArchiveInv, [ArchiveNext]_<<now, archiveVars>>
  PROVE  ArchiveInv'
  <1>1. ASSUME NEW c \in cursors, NEW count \in Pages, PruneNothing(c, count)
        PROVE  ArchiveInv'
    <2>1. PICK d : /\ d = IF index = <<>> THEN [FromStart EXCEPT !.done = TRUE]
                          ELSE [c EXCEPT !.done = TRUE]
                   /\ cursors' = cursors \cup {d}
                   /\ UNCHANGED <<now, archived, index, prunes>>
      BY <1>1 DEF PruneNothing
    <2>2. c \in Cursors /\ FromStart \in Cursors
      BY DEF ArchiveInv, ArchiveTypeOK, FromStart, Cursors
    <2>3. d \in Cursors
      BY <2>1, <2>2 DEF Cursors
    <2>4. ArchiveTypeOK'
      BY <2>1, <2>3 DEF ArchiveInv, ArchiveTypeOK
    <2> QED BY <2>1, <2>4 DEF ArchiveInv, IndexInOrder, Archived
  <1>2. ASSUME UNCHANGED archiveVars, now' \in StartTime..MaxTime PROVE ArchiveInv'
    <2>1. ArchiveTypeOK'
      BY <1>2 DEF archiveVars, ArchiveInv, ArchiveTypeOK
    <2> QED BY <1>2, <2>1 DEF archiveVars, ArchiveInv, IndexInOrder, Archived
  <1>3. now \in StartTime..MaxTime /\ (Tick => now' \in StartTime..MaxTime)
    BY ClockAssumption DEF ArchiveInv, ArchiveTypeOK, Tick
  <1> QED BY <1>1, <1>2, <1>3, ArchiveEventKeeps, PruneArchiveKeeps
          DEF ArchiveNext, archiveVars

(* For any markets, times, cursors and page lengths, the index lists the   *)
(* archived markets, each once and in order (archive_event, prune_archive).*)
THEOREM IndexIsTheArchive == ArchiveSpec => []IndexMatchesArchive
  <1>1. ArchiveInv => IndexMatchesArchive
    <2>1. ASSUME ArchiveInv, NEW i \in 1..(Len(index) - 1)
          PROVE  Before(index[i], index[i + 1])
      <3>1. i \in 1..Len(index) /\ i + 1 \in 1..Len(index) /\ i < i + 1
        BY <2>1, EntriesAre DEF ArchiveInv
      <3> QED BY <2>1, <3>1 DEF ArchiveInv, IndexInOrder
    <2> QED BY <2>1 DEF ArchiveInv, IndexMatchesArchive
  <1> QED BY <1>1, ArchiveInvInit, ArchiveInvStep, PTL DEF ArchiveSpec

-----------------------------------------------------------------------------
(* The rate limiter.                                                       *)

(* first tells, for each call, the first one counted in the same window:   *)
(* windows hold no more calls than the highest limit and begin apart.      *)
Windows(first, times) ==
  /\ first \in [1..Len(times) -> 1..Len(times)]
  /\ \A j \in 1..Len(times) :
       first[j] <= j /\ first[first[j]] = first[j] /\ j - first[j] < MaxRateLimit
  /\ \A i, j \in 1..Len(times) : i <= j =>
       /\ first[i] <= first[j]
       /\ first[i] # first[j] => times[first[i]] + ShortestWindow <= times[first[j]]

(* The entry is that of the last window; without one that window is over.  *)
CountsLast(first) ==
  LET n == Len(admitted) IN
  /\ bucket # NoEntry =>
       /\ n > 0
       /\ bucket.start = admitted[first[n]]
       /\ bucket.count = n - first[n] + 1
       /\ bucket.start + ShortestWindow <= bucket.expires
  /\ bucket = NoEntry /\ n > 0 => admitted[first[n]] + ShortestWindow <= now

InTime ==
  /\ \A i, j \in 1..Len(admitted) : i <= j => admitted[i] <= admitted[j]
  /\ \A i \in 1..Len(admitted) : admitted[i] <= now

RateInv ==
  /\ RateTypeOK
  /\ InTime
  /\ \E first : Windows(first, admitted) /\ CountsLast(first)

LEMMA TimesAre ==
  ASSUME NEW times \in Seq(Nat)
  PROVE  Len(times) \in Nat /\ \A i \in 1..Len(times) : times[i] \in Nat
  BY LenProperties, ElementOfSeq

LEMMA WindowBegins ==
  ASSUME NEW times \in Seq(Nat), NEW t \in Nat, NEW first, Windows(first, times),
         Len(times) > 0 => times[first[Len(times)]] + ShortestWindow <= t
  PROVE  \E g : /\ Windows(g, Append(times, t))
                /\ g[Len(times) + 1] = Len(times) + 1
  <1>0. MaxRateLimit \in Nat /\ MaxRateLimit > 0 /\ ShortestWindow \in Nat
    BY RateLimiterAssumption
  <1>1. PICK n \in Nat : n = Len(times) /\ \A i \in 1..n : times[i] \in Nat
    BY TimesAre
  <1>2. PICK u \in Seq(Nat) :
          /\ u = Append(times, t) /\ Len(u) = n + 1
          /\ u[n + 1] = t /\ \A i \in 1..n : u[i] = times[i]
    <2>1. /\ Append(times, t) \in Seq(Nat) /\ Len(Append(times, t)) = Len(times) + 1
          /\ \A i \in 1..Len(times) : Append(times, t)[i] = times[i]
          /\ Append(times, t)[Len(times) + 1] = t
      BY AppendProperties
    <2> QED BY <1>1, <2>1
  <1>3. /\ first \in [1..n -> 1..n]
        /\ \A j \in 1..n :
             first[j] <= j /\ first[first[j]] = first[j] /\ j - first[j] < MaxRateLimit
        /\ \A i, j \in 1..n : i <= j =>
             /\ first[i] <= first[j]
             /\ first[i] # first[j] => times[first[i]] + ShortestWindow <= times[first[j]]
    BY <1>1 DEF Windows
  <1>9. \A i \in 1..n : first[i] \in 1..n /\ first[i] \in 1..(n + 1)
    <2> TAKE i \in 1..n
    <2>1. first[i] \in 1..n
      BY <1>3
    <2> QED BY <1>1, <2>1
  <1>4. PICK g \in [1..(n + 1) -> 1..(n + 1)] :
          g[n + 1] = n + 1 /\ \A i \in 1..n : g[i] = first[i]
    <2> DEFINE h == [i \in 1..(n + 1) |-> IF i \in 1..n THEN first[i] ELSE n + 1]
    <2>1. \A i \in 1..(n + 1) : h[i] \in 1..(n + 1)
      BY <1>1, <1>9
    <2>2. h \in [1..(n + 1) -> 1..(n + 1)] /\ h[n + 1] = n + 1
          /\ \A i \in 1..n : h[i] = first[i]
      BY <1>1, <2>1
    <2> QED BY <2>2
  <1>5. \A j \in 1..(n + 1) : j \in 1..n \/ j = n + 1
    BY <1>1
  <1>6. ASSUME NEW j \in 1..(n + 1)
        PROVE  g[j] <= j /\ g[g[j]] = g[j] /\ j - g[j] < MaxRateLimit
    <2>1. CASE j \in 1..n
      <3>1. first[j] \in 1..n
        BY <1>3, <2>1
      <3> QED BY <1>3, <1>4, <2>1, <3>1
    <2>2. CASE j = n + 1
      BY <1>0, <1>1, <1>4, <2>2
    <2> QED BY <1>5, <2>1, <2>2
  <1>7. ASSUME NEW i \in 1..(n + 1), NEW j \in 1..(n + 1), i <= j
        PROVE  /\ g[i] <= g[j]
               /\ g[i] # g[j] => u[g[i]] + ShortestWindow <= u[g[j]]
    <2>1. CASE j \in 1..n
      <3>1. i \in 1..n
        BY <1>1, <1>7, <2>1
      <3>2. first[i] \in 1..n /\ first[j] \in 1..n
        BY <1>9, <2>1, <3>1
      <3>3. /\ first[i] <= first[j]
            /\ first[i] # first[j] => times[first[i]] + ShortestWindow <= times[first[j]]
        BY <1>3, <1>7, <2>1, <3>1
      <3> QED BY <1>2, <1>4, <2>1, <3>1, <3>2, <3>3
    <2>2. CASE i \in 1..n /\ j = n + 1
      <3>0. n \in 1..n /\ i \in 1..n /\ i <= n /\ n > 0
        BY <1>1, <2>2
      <3>1. first[i] \in 1..n /\ first[n] \in 1..n
        BY <1>9, <3>0
      <3>2. times[first[n]] + ShortestWindow <= t
        BY <1>1, <3>0
      <3>3. times[first[i]] <= times[first[n]]
        <4>1. first[i] = first[n] \/ times[first[i]] + ShortestWindow <= times[first[n]]
          BY <1>3, <3>0
        <4>2. times[first[i]] \in Nat /\ times[first[n]] \in Nat
          BY <1>1, <3>1
        <4>3. PICK a \in Nat, b \in Nat : a = times[first[i]] /\ b = times[first[n]]
          BY <4>2
        <4>4. a = b \/ a + ShortestWindow <= b
          BY <4>1, <4>3
        <4>5. a <= b
          BY <1>0, <4>4, a \in Nat, b \in Nat
        <4> QED BY <4>3, <4>5
      <3>4. /\ times[first[i]] \in Nat /\ times[first[n]] \in Nat
            /\ g[i] = first[i] /\ g[j] = n + 1
            /\ u[g[i]] = times[first[i]] /\ u[g[j]] = t
        BY <1>1, <1>2, <1>4, <2>2, <3>1
      <3>5. g[i] <= g[j]
        BY <1>1, <3>1, <3>4
      <3>6. u[g[i]] + ShortestWindow <= u[g[j]]
        <4>1. PICK a \in Nat, b \in Nat : a = times[first[i]] /\ b = times[first[n]]
          BY <3>4
        <4>2. a <= b /\ b + ShortestWindow <= t
          BY <3>2, <3>3, <4>1
        <4>3. a + ShortestWindow <= t
          BY <1>0, <4>2, a \in Nat, b \in Nat
        <4> QED BY <3>4, <4>1, <4>3
      <3> QED BY <3>5, <3>6
    <2>3. CASE i = n + 1
      <3>1. j = n + 1 /\ g[i] = n + 1 /\ g[j] = n + 1
        BY <1>1, <1>4, <1>7, <2>3
      <3> QED BY <1>1, <3>1
    <2> QED BY <1>5, <2>1, <2>2, <2>3
  <1>8. Windows(g, u)
    BY <1>2, <1>4, <1>6, <1>7 DEF Windows
  <1> QED BY <1>1, <1>2, <1>4, <1>8

LEMMA WindowGoesOn ==
  ASSUME NEW times \in Seq(Nat), NEW t \in Nat, NEW first, Windows(first, times),
         Len(times) > 0, Len(times) - first[Len(times)] + 1 < MaxRateLimit
  PROVE  \E g : /\ Windows(g, Append(times, t))
                /\ g[Len(times) + 1] = first[Len(times)]
  <1>1. PICK n \in Nat : /\ n = Len(times) /\ n \in 1..n /\ n > 0
                         /\ n - first[n] + 1 < MaxRateLimit
    BY TimesAre
  <1>2. PICK u \in Seq(Nat) :
          u = Append(times, t) /\ Len(u) = n + 1 /\ \A i \in 1..n : u[i] = times[i]
    <2>1. /\ Append(times, t) \in Seq(Nat) /\ Len(Append(times, t)) = Len(times) + 1
          /\ \A i \in 1..Len(times) : Append(times, t)[i] = times[i]
          /\ Append(times, t)[Len(times) + 1] = t
      BY AppendProperties
    <2> QED BY <1>1, <2>1
  <1>3. /\ first \in [1..n -> 1..n]
        /\ \A j \in 1..n :
             first[j] <= j /\ first[first[j]] = first[j] /\ j - first[j] < MaxRateLimit
        /\ \A i, j \in 1..n : i <= j =>
             /\ first[i] <= first[j]
             /\ first[i] # first[j] => times[first[i]] + ShortestWindow <= times[first[j]]
    BY <1>1 DEF Windows
  <1>9. \A i \in 1..n : first[i] \in 1..n /\ first[i] \in 1..(n + 1)
    <2> TAKE i \in 1..n
    <2>1. first[i] \in 1..n
      BY <1>3
    <2> QED BY <1>1, <2>1
  <1>4. PICK g \in [1..(n + 1) -> 1..(n + 1)] :
          g[n + 1] = first[n] /\ \A i \in 1..n : g[i] = first[i]
    <2> DEFINE h == [i \in 1..(n + 1) |-> IF i \in 1..n THEN first[i] ELSE first[n]]
    <2>1. \A i \in 1..(n + 1) : h[i] \in 1..(n + 1)
      BY <1>1, <1>9
    <2>2. h \in [1..(n + 1) -> 1..(n + 1)] /\ h[n + 1] = first[n]
          /\ \A i \in 1..n : h[i] = first[i]
      BY <1>1, <2>1
    <2> QED BY <2>2
  (* The new call is as the last one.                                      *)
  <1>5. ASSUME NEW j \in 1..(n + 1)
        PROVE  \E k \in 1..n : /\ g[j] = first[k] /\ k <= j
                               /\ j = k \/ (k = n /\ j = n + 1)
    <2>1. CASE j \in 1..n
      <3>1. g[j] = first[j] /\ j <= j
        BY <1>1, <1>4, <2>1
      <3> QED BY <2>1, <3>1
    <2>2. CASE j = n + 1
      BY <1>1, <1>4, <2>2, SMTT(60)
    <2> QED BY <1>1, <2>1, <2>2
  <1>6. ASSUME NEW j \in 1..(n + 1)
        PROVE  g[j] <= j /\ g[g[j]] = g[j] /\ j - g[j] < MaxRateLimit
    <2>1. PICK k \in 1..n : /\ g[j] = first[k] /\ k <= j
                            /\ j = k \/ (k = n /\ j = n + 1)
      BY <1>5
    <2>2. first[k] \in 1..n /\ g[first[k]] = first[first[k]]
      BY <1>3, <1>4, <2>1
    <2>3. j - g[j] < MaxRateLimit
      <3>1. CASE j = k
        BY <1>3, <2>1, <3>1
      <3>2. CASE k = n /\ j = n + 1
        BY <1>1, <2>1, <2>2, <3>2, RateLimiterAssumption
      <3> QED BY <2>1, <3>1, <3>2
    <2> QED BY <1>1, <1>3, <2>1, <2>2, <2>3
  <1>7. ASSUME NEW i \in 1..(n + 1), NEW j \in 1..(n + 1), i <= j
        PROVE  /\ g[i] <= g[j]
               /\ g[i] # g[j] => u[g[i]] + ShortestWindow <= u[g[j]]
    <2>1. PICK k \in 1..n : /\ g[i] = first[k]
                            /\ i = k \/ (k = n /\ i = n + 1)
      BY <1>5
    <2>2. PICK l \in 1..n : /\ g[j] = first[l]
                            /\ j = l \/ (l = n /\ j = n + 1)
      BY <1>5
    <2>3. k <= l
      BY <1>1, <1>7, <2>1, <2>2
    <2>4. first[k] \in 1..n /\ first[l] \in 1..n
      BY <1>3
    <2> QED BY <1>2, <1>3, <2>1, <2>2, <2>3, <2>4
  <1>8. Windows(g, u)
    BY <1>2, <1>4, <1>6, <1>7 DEF Windows
  <1> QED BY <1>1, <1>2, <1>4, <1>8

LEMMA RateInvInit == RateInit => RateInv
  <1> SUFFICES ASSUME RateInit PROVE RateInv
    OBVIOUS
  <1>1. admitted = <<>> /\ Len(admitted) = 0 /\ admitted \in Seq(Nat) /\ bucket = NoEntry
    BY EmptySeq DEF RateInit
  <1>2. now \in StartTime..MaxTime
    BY ClockAssumption DEF RateInit
  <1>3. RateTypeOK
    BY <1>1, <1>2 DEF RateTypeOK, RateInit
  <1> DEFINE first == [i \in 1..0 |-> i]
  <1>4. Windows(first, admitted) /\ CountsLast(first)
    BY <1>1 DEF Windows, CountsLast
  <1>5. InTime
    BY <1>1 DEF InTime
  <1> HIDE DEF first
  <1> QED BY <1>3, <1>4, <1>5 DEF RateInv

LEMMA AdmitCallKeeps ==
  ASSUME RateInv, AdmitCall
  PROVE  RateInv'
  <1>0. /\ RateTypeOK /\ now \in Nat /\ admitted \in Seq(Nat)
        /\ MaxRateLimit \in Nat \ {0} /\ ShortestWindow \in Nat \ {0} /\ EntryLife \in Nat
    BY ClockAssumption, RateLimiterAssumption DEF RateInv, RateTypeOK
  <1>1. PICK n \in Nat : n = Len(admitted) /\ \A i \in 1..n : admitted[i] \in Nat
    BY <1>0, TimesAre
  <1>2. PICK limit \in Nat, window \in Nat :
          /\ limit = rateConfig.limit /\ limit <= MaxRateLimit
          /\ window = rateConfig.window /\ ShortestWindow <= window
    <2>1. rateConfig \in RateConfigs
      BY <1>0 DEF AdmitCall, RateTypeOK
    <2>2. /\ rateConfig.limit \in (IF Optional THEN 0 ELSE 1)..MaxRateLimit
          /\ rateConfig.window \in ShortestWindow..LongestWindow
      BY <2>1 DEF RateConfigs
    <2>3. /\ rateConfig.limit \in Nat /\ rateConfig.limit <= MaxRateLimit
          /\ rateConfig.window \in Nat /\ ShortestWindow <= rateConfig.window
      BY <1>0, <2>2, RateLimiterAssumption
    <2> QED BY <2>3
  <1>3. PICK first : Windows(first, admitted) /\ CountsLast(first)
    BY DEF RateInv
  <1>4. /\ Bucket.count < limit /\ bucket' = Counted
        /\ admitted' = Append(admitted, now)
        /\ UNCHANGED <<now, rateConfig>>
    BY <1>2 DEF AdmitCall, UnderLimit
  <1>5. /\ Bucket.count \in Nat /\ Bucket.start \in Nat /\ Bucket.expires \in Nat
        /\ bucket # NoEntry => Bucket = bucket
        /\ bucket = NoEntry => Bucket.count = 0 /\ Bucket.start = now /\ Bucket.expires = 0
    BY <1>0 DEF Bucket, RateTypeOK
  <1>6. PICK expires \in Nat :
          /\ expires = Later(Bucket.expires, now + window + EntryLife)
          /\ now + ShortestWindow <= expires /\ Bucket.expires <= expires
    <2>1. now + window + EntryLife \in Nat /\ now + ShortestWindow <= now + window + EntryLife
      BY <1>0, <1>2, SMTT(60)
    <2> QED BY <1>0, <1>5, <2>1 DEF Later
  <1>7. bucket' = IF now >= Bucket.start + window
                  THEN [count |-> 1, start |-> now, expires |-> expires]
                  ELSE [count |-> Bucket.count + 1, start |-> Bucket.start,
                        expires |-> expires]
    BY <1>2, <1>4, <1>6 DEF Counted
  <1>8. /\ bucket' \in [count : Nat, start : Nat, expires : Nat] /\ bucket' # NoEntry
    <2>1. bucket' \in [count : Nat, start : Nat, expires : Nat]
      BY <1>0, <1>5, <1>7
    <2> QED BY <2>1, RateLimiterAssumption
  <1>9. /\ admitted' \in Seq(Nat) /\ Len(admitted') = n + 1
        /\ \A i \in 1..n : admitted'[i] = admitted[i]
        /\ admitted'[n + 1] = now
    <2>1. /\ Append(admitted, now) \in Seq(Nat)
          /\ Len(Append(admitted, now)) = Len(admitted) + 1
          /\ \A i \in 1..Len(admitted) : Append(admitted, now)[i] = admitted[i]
          /\ Append(admitted, now)[Len(admitted) + 1] = now
      BY <1>0, AppendProperties
    <2> QED BY <1>1, <1>4, <2>1
  <1>10. RateTypeOK'
    BY <1>0, <1>4, <1>8, <1>9 DEF RateTypeOK
  <1>11. InTime'
    <2>1. \A j \in 1..(n + 1) : j \in 1..n \/ j = n + 1
      BY <1>1
    <2>2. ASSUME NEW i \in 1..(n + 1) PROVE admitted'[i] <= now
      <3>1. CASE i \in 1..n
        BY <1>1, <1>9, <3>1 DEF RateInv, InTime
      <3>2. CASE i = n + 1
        BY <1>0, <1>9, <3>2
      <3> QED BY <2>1, <3>1, <3>2
    <2>3. ASSUME NEW i \in 1..(n + 1), NEW j \in 1..(n + 1), i <= j
          PROVE  admitted'[i] <= admitted'[j]
      <3>1. CASE j \in 1..n
        <4>1. i \in 1..n
          BY <1>1, <2>3, <3>1
        <4> QED BY <1>1, <1>9, <2>3, <3>1, <4>1 DEF RateInv, InTime
      <3>2. CASE j = n + 1
        BY <1>9, <2>2, <3>2
      <3> QED BY <2>1, <3>1, <3>2
    <2> QED BY <1>4, <1>9, <2>2, <2>3 DEF InTime
  <1>12. \E g : Windows(g, admitted') /\ CountsLast(g)'
    <2>1. CASE bucket = NoEntry \/ now >= Bucket.start + window
      <3>1. n > 0 => admitted[first[n]] + ShortestWindow <= now
        <4>1. CASE bucket = NoEntry
          BY <1>1, <1>3, <4>1 DEF CountsLast
        <4>2. CASE bucket # NoEntry /\ now >= Bucket.start + window
          <5>1. Bucket.start = admitted[first[n]]
            BY <1>1, <1>3, <1>5, <4>2 DEF CountsLast
          <5>2. Bucket.start + ShortestWindow <= now
            BY <1>0, <1>2, <1>5, <4>2
          <5> QED BY <5>1, <5>2
        <4> QED BY <2>1, <4>1, <4>2
      <3>2. PICK g : Windows(g, admitted') /\ g[n + 1] = n + 1
        BY <1>0, <1>1, <1>3, <1>4, <3>1, WindowBegins
      <3>3. bucket' = [count |-> 1, start |-> now, expires |-> expires]
        <4>1. CASE bucket = NoEntry
          <5>1. ~(now >= Bucket.start + window)
            BY <1>0, <1>2, <1>5, <4>1
          <5> QED BY <1>5, <1>7, <4>1, <5>1
        <4>2. CASE now >= Bucket.start + window
          BY <1>7, <4>2
        <4> QED BY <2>1, <4>1, <4>2
      <3>4. CountsLast(g)'
        <4>1. admitted'[g[n + 1]] = now /\ n + 1 > 0 /\ (n + 1) - g[n + 1] + 1 = 1
          BY <1>1, <1>9, <3>2
        <4> QED BY <1>6, <1>8, <1>9, <3>3, <4>1 DEF CountsLast
      <3> QED BY <3>2, <3>4
    <2>2. CASE bucket # NoEntry /\ ~(now >= Bucket.start + window)
      <3>1. /\ n > 0 /\ Bucket.start = admitted[first[n]]
            /\ Bucket.count = n - first[n] + 1
            /\ Bucket.start + ShortestWindow <= Bucket.expires
        BY <1>1, <1>3, <1>5, <2>2 DEF CountsLast
      <3>2. n - first[n] + 1 < MaxRateLimit
        <4>1. Bucket.count < MaxRateLimit
          BY <1>0, <1>2, <1>4, <1>5
        <4> QED BY <3>1, <4>1
      <3>3. PICK g : Windows(g, admitted') /\ g[n + 1] = first[n]
        BY <1>0, <1>1, <1>3, <1>4, <3>1, <3>2, WindowGoesOn
      <3>4. bucket' = [count |-> Bucket.count + 1, start |-> Bucket.start,
                       expires |-> expires]
        BY <1>7, <2>2
      <3>5. first[n] \in 1..n
        <4>1. n \in 1..n
          BY <1>1, <3>1
        <4> QED BY <1>1, <1>3, <4>1 DEF Windows
      <3>6. CountsLast(g)'
        <4>1. admitted'[g[n + 1]] = Bucket.start
          BY <1>9, <3>1, <3>3, <3>5
        <4>2. Bucket.count + 1 = (n + 1) - g[n + 1] + 1
          BY <1>1, <3>1, <3>3, <3>5
        <4>3. Bucket.start + ShortestWindow <= expires
          <5>1. PICK e \in Nat : e = Bucket.start /\ e + ShortestWindow <= Bucket.expires
            BY <1>5, <3>1
          <5>2. e + ShortestWindow <= expires
            BY <1>0, <1>5, <1>6, <5>1
          <5> QED BY <5>1, <5>2
        <4>4. n + 1 > 0
          BY <1>1
        <4> QED BY <1>8, <1>9, <3>4, <4>1, <4>2, <4>3, <4>4 DEF CountsLast
      <3> QED BY <3>3, <3>6
    <2> QED BY <2>1, <2>2
  <1> QED BY <1>10, <1>11, <1>12 DEF RateInv

LEMMA RateInvStep ==
  ASSUME RateInv, [RateNext]_<<now, rateVars>>
  PROVE  RateInv'
  <1>0. /\ RateTypeOK /\ now \in StartTime..MaxTime /\ now \in Nat /\ MaxTime \in Nat
        /\ admitted \in Seq(Nat) /\ ShortestWindow \in Nat
    BY ClockAssumption, RateLimiterAssumption DEF RateInv, RateTypeOK
  <1>1. PICK n \in Nat : n = Len(admitted) /\ \A i \in 1..n : admitted[i] \in Nat
    BY <1>0, TimesAre
  <1>2. PICK first : Windows(first, admitted) /\ CountsLast(first)
    BY DEF RateInv
  <1>3. ASSUME NEW l \in RateLimits, NEW w \in RateWindows, UpdateRateLimits(l, w)
        PROVE  RateInv'
    <2>1. /\ rateConfig' \in RateConfigs /\ UNCHANGED <<now, bucket, admitted>>
      BY <1>3 DEF UpdateRateLimits
    <2>2. RateTypeOK'
      BY <1>0, <2>1 DEF RateTypeOK
    <2>3. Windows(first, admitted') /\ CountsLast(first)' /\ InTime'
      BY <1>2, <2>1 DEF CountsLast, RateInv, InTime
    <2> QED BY <2>2, <2>3 DEF RateInv
  <1>4. ASSUME DropEntry PROVE RateInv'
    <2>1. /\ bucket # NoEntry /\ now > bucket.expires /\ bucket' = NoEntry
          /\ UNCHANGED <<now, rateConfig, admitted>>
      BY <1>4 DEF DropEntry
    <2>2. RateTypeOK'
      BY <1>0, <2>1 DEF RateTypeOK
    <2>3. admitted[first[n]] + ShortestWindow <= now
      <3>1. /\ admitted[first[n]] = bucket.start
            /\ bucket.start + ShortestWindow <= bucket.expires
        BY <1>1, <1>2, <2>1 DEF CountsLast
      <3>2. bucket.start \in Nat /\ bucket.expires \in Nat
        BY <1>0, <2>1 DEF RateTypeOK
      <3>3. bucket.start + ShortestWindow <= now
        BY <1>0, <2>1, <3>1, <3>2
      <3> QED BY <3>1, <3>3
    <2>4. CountsLast(first)'
      BY <1>1, <2>1, <2>3 DEF CountsLast
    <2>5. Windows(first, admitted') /\ InTime'
      BY <1>2, <2>1 DEF RateInv, InTime
    <2> QED BY <2>2, <2>4, <2>5 DEF RateInv
  <1>5. ASSUME UNCHANGED rateVars, now' \in StartTime..MaxTime, now <= now'
        PROVE  RateInv'
    <2>1. UNCHANGED <<rateConfig, bucket, admitted>> /\ now' \in Nat
      BY <1>5, ClockAssumption DEF rateVars
    <2>2. RateTypeOK'
      BY <1>0, <1>5, <2>1 DEF RateTypeOK
    <2>3. InTime'
      <3>1. ASSUME NEW i \in 1..n PROVE admitted[i] <= now'
        <4>1. admitted[i] \in Nat /\ admitted[i] <= now
          BY <1>1 DEF RateInv, InTime
        <4> QED BY <1>0, <1>5, <2>1, <4>1
      <3> QED BY <1>1, <2>1, <3>1 DEF RateInv, InTime
    <2>4. n > 0 => admitted[first[n]] \in Nat
      <3>1. n > 0 => n \in 1..n
        BY <1>1
      <3>2. n > 0 => first[n] \in 1..n
        BY <1>1, <1>2, <3>1 DEF Windows
      <3> QED BY <1>1, <3>2
    <2>5. bucket = NoEntry /\ n > 0 => admitted[first[n]] + ShortestWindow <= now'
      <3>1. SUFFICES ASSUME bucket = NoEntry, n > 0
                     PROVE  admitted[first[n]] + ShortestWindow <= now'
        OBVIOUS
      <3>2. admitted[first[n]] + ShortestWindow <= now
        BY <1>1, <1>2, <3>1 DEF CountsLast
      <3>3. PICK a \in Nat : a = admitted[first[n]] /\ a + ShortestWindow <= now
        BY <2>4, <3>1, <3>2
      <3>4. a + ShortestWindow <= now'
        BY <1>0, <1>5, <2>1, <3>3
      <3> QED BY <3>3, <3>4
    <2>6. CountsLast(first)' /\ Windows(first, admitted')
      BY <1>1, <1>2, <2>1, <2>5 DEF CountsLast
    <2> QED BY <2>2, <2>3, <2>6 DEF RateInv
  <1>6. Tick => now' \in StartTime..MaxTime /\ now <= now'
    BY <1>0, ClockAssumption DEF Tick
  <1> QED BY <1>0, <1>3, <1>4, <1>5, <1>6, AdmitCallKeeps DEF RateNext

(* A span as long as the shortest window meets at most two windows, and    *)
(* not both from end to end.                                               *)
LEMMA RateInvBounds ==
  ASSUME RateInv
  PROVE  RateBounded
  <1>0. /\ admitted \in Seq(Nat) /\ ShortestWindow \in Nat \ {0}
        /\ MaxRateLimit \in Nat \ {0} /\ InTime
    BY RateLimiterAssumption DEF RateInv, RateTypeOK
  <1>1. PICK n \in Nat : n = Len(admitted) /\ \A i \in 1..n : admitted[i] \in Nat
    BY <1>0, TimesAre
  <1>2. PICK first :
          /\ first \in [1..n -> 1..n]
          /\ \A j \in 1..n :
               first[j] <= j /\ first[first[j]] = first[j] /\ j - first[j] < MaxRateLimit
          /\ \A i, j \in 1..n : i <= j =>
               /\ first[i] <= first[j]
               /\ first[i] # first[j] =>
                    admitted[first[i]] + ShortestWindow <= admitted[first[j]]
    BY <1>1 DEF RateInv, Windows
  <1>3. \A i, j \in 1..n : i <= j => admitted[i] <= admitted[j]
    BY <1>0, <1>1 DEF InTime
  <1> SUFFICES ASSUME NEW i \in 1..n
               PROVE  Cardinality({j \in 1..n :
                                     /\ admitted[j] >= admitted[i]
                                     /\ admitted[j] < admitted[i] + ShortestWindow})
                        < 2 * MaxRateLimit
    BY <1>1 DEF RateBounded
  <1> DEFINE span == {j \in 1..n : /\ admitted[j] >= admitted[i]
                                   /\ admitted[j] < admitted[i] + ShortestWindow}
  <1>4. PICK t \in Nat : t = admitted[i]
    BY <1>1
  <1>5. span \subseteq 1..n /\ i \in span
    BY <1>0, <1>1, <1>4
  <1> HIDE DEF span
  <1>6. PICK a \in span : \A j \in span : a <= j
    BY <1>1, <1>5, LeastIndex
  <1>7. PICK b \in span : \A j \in span : j <= b
    BY <1>1, <1>5, GreatestIndex
  <1> USE DEF span
  <1>8. /\ a \in 1..n /\ b \in 1..n /\ a <= b /\ span \subseteq a..b
        /\ admitted[a] >= t /\ admitted[b] < t + ShortestWindow
    BY <1>1, <1>4, <1>5, <1>6, <1>7
  <1> HIDE DEF span
  <1>9. Cardinality(span) <= b - a + 1
    <2>1. IsFiniteSet(a..b) /\ Cardinality(a..b) = b - a + 1
      BY <1>8, FS_Interval
    <2> QED BY <1>8, <2>1, FS_Subset
  <1>10. b - a + 1 < 2 * MaxRateLimit
    <2>0. first[a] \in 1..n /\ first[b] \in 1..n /\ first[a] <= a /\ first[b] <= b
          /\ a - first[a] < MaxRateLimit /\ b - first[b] < MaxRateLimit
          /\ first[a] <= first[b]
      BY <1>2, <1>8
    <2>1. CASE first[a] = first[b]
      BY <1>0, <1>8, <2>0, <2>1
    <2>2. CASE first[a] # first[b]
      <3>1. PICK f \in 1..n : f = first[b] /\ first[f] = f /\ f <= b
        BY <1>2, <1>8, <2>0
      <3>2. a < f
        <4>1. ASSUME f <= a PROVE FALSE
          <5>1. first[f] <= first[a]
            BY <1>2, <1>8, <3>1, <4>1
          <5> QED BY <2>0, <2>2, <3>1, <5>1
        <4> QED BY <1>8, <3>1, <4>1
      <3>3. f - 1 \in 1..n /\ a <= f - 1
        BY <1>8, <3>1, <3>2
      <3>4. admitted[f] < t + ShortestWindow /\ admitted[f] \in Nat
        <4>1. admitted[f] <= admitted[b] /\ admitted[f] \in Nat /\ admitted[b] \in Nat
          BY <1>1, <1>3, <1>8, <3>1
        <4> QED BY <1>0, <1>8, <4>1
      (* The call before f is in a window with the first of the span.      *)
      <3>5. first[f - 1] = first[a]
        <4>1. ASSUME first[f - 1] # first[a] PROVE FALSE
          <5>1. PICK g \in 1..n : g = first[f - 1] /\ first[g] = g /\ g <= f - 1
            BY <1>2, <3>3
          <5>2. a < g
            <6>1. ASSUME g <= a PROVE FALSE
              <7>1. first[g] <= first[a] /\ first[a] <= first[f - 1]
                BY <1>2, <1>8, <3>3, <5>1, <6>1
              <7> QED BY <2>0, <4>1, <5>1, <7>1
            <6> QED BY <1>8, <5>1, <6>1
          <5>3. first[g] # first[f] /\ g <= f
            BY <3>1, <3>3, <5>1
          <5>4. admitted[g] + ShortestWindow <= admitted[f]
            BY <1>2, <3>1, <5>1, <5>3
          <5>5. admitted[g] >= t /\ admitted[g] \in Nat
            <6>1. admitted[a] <= admitted[g] /\ admitted[a] \in Nat /\ admitted[g] \in Nat
              BY <1>1, <1>3, <1>8, <5>1, <5>2
            <6> QED BY <1>8, <6>1
          <5> QED BY <1>0, <3>4, <5>4, <5>5
        <4> QED BY <4>1
      <3>6. (f - 1) - first[a] < MaxRateLimit
        BY <1>2, <3>3, <3>5
      <3>7. first[a] # a
        <4>1. ASSUME first[a] = a PROVE FALSE
          <5>1. admitted[a] + ShortestWindow <= admitted[f]
            BY <1>2, <1>8, <2>2, <3>1, <3>2, <4>1
          <5>2. admitted[a] \in Nat
            BY <1>1, <1>8
          <5> QED BY <1>0, <1>8, <3>4, <5>1, <5>2, SMTT(60)
        <4> QED BY <4>1
      <3>8. f - a < MaxRateLimit
        <4>1. PICK h \in 1..n : h = first[a] /\ h <= a /\ h # a
          BY <2>0, <3>7
        <4>2. (f - 1) - h < MaxRateLimit
          BY <3>6, <4>1
        <4>3. f \in Int /\ a \in Int /\ h \in Int /\ MaxRateLimit \in Int
          BY <1>0, <1>1, <1>8, <3>1, <4>1, SMTT(60)
        <4> QED BY <4>1, <4>2, <4>3
      <3>9. b - f < MaxRateLimit
        BY <2>0, <3>1
      <3> QED BY <1>0, <1>8, <3>1, <3>8, <3>9
    <2> QED BY <2>1, <2>2
  <1>11. Cardinality(span) \in Nat
    <2>1. IsFiniteSet(span)
      <3>1. IsFiniteSet(1..n)
        BY <1>1, FS_Interval
      <3> QED BY <1>5, <3>1, FS_Subset
    <2> QED BY <2>1, FS_CardinalityType
  <1>12. Cardinality(span) < 2 * MaxRateLimit
    BY <1>0, <1>8, <1>9, <1>10, <1>11
  <1> QED BY <1>12 DEF span

(* For any limits, windows and changes of both, a caller gets through less *)
(* than twice the highest limit in a span as long as the shortest window   *)
(* (check_limit, update_limit).                                            *)
THEOREM RateIsBounded == RateSpec => []RateBounded
  <1>1. RateInv => RateBounded
    BY RateInvBounds
  <1> QED BY <1>1, RateInvInit, RateInvStep, PTL DEF RateSpec

-----------------------------------------------------------------------------
(* The whitelist and the verdicts.                                         *)

LEMMA DivideBack ==
  ASSUME NEW a \in Nat, NEW t \in Nat, t > 0, NEW m \in Nat, a \div t >= m
  PROVE  a >= m * t
  <1>1. PICK q \in Int : q = a \div t
    OBVIOUS
  <1>2. a = q * t + (a % t) /\ a % t >= 0
    BY <1>1
  <1>3. q * t >= m * t
    BY <1>1
  <1> QED BY <1>1, <1>2, <1>3

(* The entries of a list without repetitions, taken at some places, are as *)
(* many as the places.                                                     *)
LEMMA ListedAt ==
  ASSUME NEW l, NEW K, IsFiniteSet(K), \A i, j \in K : l[i] = l[j] => i = j
  PROVE  /\ IsFiniteSet({l[i] : i \in K})
         /\ Cardinality({l[i] : i \in K}) = Cardinality(K)
  <1> DEFINE f == [i \in K |-> l[i]]
             T == {l[i] : i \in K}
  <1>1. f \in Surjection(K, T)
    BY DEF Surjection
  <1>2. f \in Injection(K, T)
    BY DEF Injection, IsInjective
  <1> QED BY <1>1, <1>2, FS_Surjection

(* No oracle is listed twice, and only oracles of the whitelist are.       *)
SourcesListedOnce ==
  /\ \A i, j \in 1..Len(listed) : listed[i] = listed[j] => i = j
  /\ \A i \in 1..Len(listed) : listed[i] \in whitelisted

VerdictInv == OraclesTypeOK /\ SourcesListedOnce /\ VerdictByMajority

LEMMA VerdictInvInit == OraclesInit => VerdictInv
  <1> SUFFICES ASSUME OraclesInit PROVE VerdictInv
    OBVIOUS
  <1>1. OraclesTypeOK
    BY ClockAssumption, OraclesAssumption DEF OraclesInit, OraclesTypeOK
  <1>2. SourcesListedOnce /\ VerdictByMajority
    BY DEF OraclesInit, SourcesListedOnce, VerdictByMajority
  <1> QED BY <1>1, <1>2 DEF VerdictInv

(* What is left of the list when an oracle is taken from it.               *)
LEMMA ListWithoutIs ==
  ASSUME OraclesTypeOK, SourcesListedOnce, NEW s \in Sources
  PROVE  LET l == ListWithout(s)
         IN  /\ l \in Seq(Sources)
             /\ \A i, j \in 1..Len(l) : l[i] = l[j] => i = j
             /\ \A i \in 1..Len(l) : l[i] \in whitelisted \ {s}
  <1>1. PICK n \in Nat : n = Len(listed)
    BY DEF OraclesTypeOK
  <1>2. PICK K \in SUBSET (1..n) : K = OtherEntries(s)
    BY <1>1 DEF OtherEntries
  <1>3. PICK m \in Nat : m = Cardinality(K)
    BY <1>1, <1>2, ListedInOrder
  <1> DEFINE at(k) == CHOOSE i \in K : Cardinality({j \in K : j <= i}) = k
  <1>4. \A k \in 1..m : at(k) \in K /\ Cardinality({j \in K : j <= at(k)}) = k
    <2>1. \A k \in 1..m : \E i \in K : Cardinality({j \in K : j <= i}) = k
      BY <1>3, ListedInOrder, ZenonT(60)
    <2> QED BY <2>1
  <1>5. \A i \in K : i \in 1..n /\ listed[i] \in whitelisted \ {s} /\ listed[i] \in Sources
    BY <1>1, <1>2 DEF OtherEntries, OraclesTypeOK, SourcesListedOnce
  <1>6. ListWithout(s) = [k \in 1..m |-> listed[at(k)]]
    BY <1>2, <1>3 DEF ListWithout
  <1>7. \A k, h \in 1..m : at(k) = at(h) => k = h
    BY <1>4, ZenonT(60)
  <1> HIDE DEF at
  <1>8. ListWithout(s) \in Seq(Sources) /\ Len(ListWithout(s)) = m
    <2>1. \A k \in 1..m : listed[at(k)] \in Sources
      BY <1>4, <1>5
    <2>2. ListWithout(s) \in [1..m -> Sources]
      BY <1>6, <2>1
    <2> QED BY <2>2
  <1>9. \A k \in 1..m : ListWithout(s)[k] \in whitelisted \ {s}
    BY <1>4, <1>5, <1>6
  <1>10. \A k, h \in 1..m : ListWithout(s)[k] = ListWithout(s)[h] => k = h
    <2> SUFFICES ASSUME NEW k \in 1..m, NEW h \in 1..m,
                        ListWithout(s)[k] = ListWithout(s)[h]
                 PROVE  k = h
      OBVIOUS
    <2>1. listed[at(k)] = listed[at(h)]
      BY <1>6
    <2>2. at(k) \in 1..Len(listed) /\ at(h) \in 1..Len(listed)
      BY <1>1, <1>4, <1>5
    <2> QED BY <1>7, <2>1, <2>2 DEF SourcesListedOnce
  <1> QED BY <1>8, <1>9, <1>10

(* Asked of a list without repetitions, as many oracles as entries answer. *)
LEMMA CountsOracles ==
  ASSUME OraclesTypeOK, SourcesListedOnce, NEW answers, NEW o
  PROVE  /\ IsFiniteSet({s \in Asked : answers[s] = o})
         /\ Count(answers, o) = Cardinality({s \in Asked : answers[s] = o})
         /\ Count(answers, o) \in Nat
  <1> DEFINE K == {i \in ActiveEntries : answers[listed[i]] = o}
  <1>1. K \subseteq 1..Len(listed) /\ Len(listed) \in Nat
    BY DEF ActiveEntries, OraclesTypeOK
  <1>2. IsFiniteSet(1..Len(listed))
    BY <1>1, FS_Interval
  <1>3. IsFiniteSet(K) /\ Cardinality(K) \in Nat
    BY <1>1, <1>2, FS_Subset, FS_CardinalityType
  <1>4. \A i, j \in K : listed[i] = listed[j] => i = j
    BY <1>1 DEF SourcesListedOnce
  <1>5. {s \in Asked : answers[s] = o} = {listed[i] : i \in K}
    BY DEF Asked
  <1>6. Count(answers, o) = Cardinality(K)
    BY DEF Count
  <1> HIDE DEF K
  <1>7. IsFiniteSet({listed[i] : i \in K})
        /\ Cardinality({listed[i] : i \in K}) = Cardinality(K)
    BY <1>3, <1>4, ListedAt
  <1> QED BY <1>3, <1>5, <1>6, <1>7

LEMMA SourcesRuleKeeps ==
  ASSUME VerdictInv, NEW answers \in [Asked -> Outcome \cup {"none"}],
         SourcesRule(answers)
  PROVE  VerdictInv'
  <1> DEFINE heard(a) == {s \in Asked : answers[s] = a}
  <1>1. PICK y \in Nat, n \in Nat : y = Count(answers, "yes") /\ n = Count(answers, "no")
    BY CountsOracles DEF VerdictInv
  <1>2. PICK f \in Outcome : f = Favoured(answers)
    BY DEF Favoured, Outcome
  <1>3. PICK c \in Nat : /\ c = Count(answers, f) /\ c = Cardinality(heard(f))
                         /\ f = "yes" => c = y
                         /\ f = "no" => c = n
    <2>1. Count(answers, f) \in Nat /\ Count(answers, f) = Cardinality(heard(f))
      BY CountsOracles DEF VerdictInv
    <2> QED BY <1>1, <2>1
  <1>4. Cardinality(heard("yes") \cup heard("no")) = y + n
    <2>1. /\ IsFiniteSet(heard("yes")) /\ Cardinality(heard("yes")) = y
          /\ IsFiniteSet(heard("no")) /\ Cardinality(heard("no")) = n
      BY <1>1, CountsOracles DEF VerdictInv
    <2>2. heard("yes") \cap heard("no") = {}
      OBVIOUS
    <2>3. PICK Y, N : Y = heard("yes") /\ N = heard("no")
      OBVIOUS
    <2>4. Cardinality(Y \cap N) = 0
      BY <2>2, <2>3, FS_EmptySet
    <2>5. Cardinality(Y \cup N) = Cardinality(Y) + Cardinality(N) - Cardinality(Y \cap N)
      BY <2>1, <2>3, FS_Union
    <2>6. Cardinality(Y) = y /\ Cardinality(N) = n
      BY <2>1, <2>3
    <2>7. Cardinality(Y \cup N) = y + n
      BY <2>4, <2>5, <2>6
    <2> QED BY <2>3, <2>7
  <1>5. y + n > 0 /\ (c * 100) \div (y + n) >= 66
    BY <1>1, <1>2, <1>3 DEF SourcesRule, SourcesAgree, ConsensusThreshold
  <1>6. c * 100 >= 66 * (y + n)
    BY <1>5, DivideBack
  <1>7. c > 0
    BY <1>5, <1>6
  <1>8. verdict' = [by |-> "sources", outcome |-> f, agreed |-> c, answered |-> y + n]
    BY <1>2, <1>3, <1>4 DEF SourcesRule
  <1>9. VerdictByMajority'
    BY <1>6, <1>7, <1>8 DEF VerdictByMajority, ConsensusThreshold
  <1>10. verdict' \in Verdicts
    BY <1>8 DEF Verdicts
  <1>11. OraclesTypeOK' /\ SourcesListedOnce'
    BY <1>10 DEF VerdictInv, SourcesRule, OraclesTypeOK, SourcesListedOnce,
                 whitelistVars, callbackVars
  <1> QED BY <1>9, <1>11 DEF VerdictInv

LEMMA VerdictInvStep ==
  VerdictInv /\ [OraclesNext]_<<now, oracleVars>> => VerdictInv'
  <1> SUFFICES ASSUME VerdictInv, [OraclesNext]_<<now, oracleVars>>
               PROVE  VerdictInv'
    OBVIOUS
  <1> USE DEF VerdictInv
  <1>1. ASSUME UNCHANGED <<listed, whitelisted, verdict>>, OraclesTypeOK'
        PROVE  VerdictInv'
    BY <1>1 DEF SourcesListedOnce, VerdictByMajority
  <1>2. ASSUME NEW a \in Curators,
               InitializeWhitelist(a) \/ AddCurator(a) \/ RemoveCurator(a)
        PROVE  VerdictInv'
    <2>1. OraclesTypeOK'
      BY <1>2 DEF OraclesTypeOK, InitializeWhitelist, AddCurator, RemoveCurator, callbackVars
    <2> QED BY <1>1, <1>2, <2>1 DEF InitializeWhitelist, AddCurator, RemoveCurator
  <1>3. ASSUME NEW s \in Sources, AddSource(s)
        PROVE  VerdictInv'
    <2>1. PICK n \in Nat : n = Len(listed)
      BY DEF OraclesTypeOK
    <2>2. /\ listed' \in Seq(Sources) /\ Len(listed') = n + 1
          /\ listed'[n + 1] = s
          /\ \A i \in 1..n : listed'[i] = listed[i]
      BY <1>3, <2>1 DEF AddSource, OraclesTypeOK
    <2>3. \A i \in 1..n : listed[i] \in whitelisted /\ listed[i] # s
      BY <1>3, <2>1 DEF AddSource, SourcesListedOnce
    <2>4. \A i \in 1..(n + 1) : i \in 1..n \/ i = n + 1
      OBVIOUS
    <2>5. \A i, j \in 1..(n + 1) : listed'[i] = listed'[j] => i = j
      BY <2>1, <2>2, <2>3, <2>4 DEF SourcesListedOnce
    <2>6. \A i \in 1..(n + 1) : listed'[i] \in whitelisted'
      BY <1>3, <2>2, <2>3, <2>4 DEF AddSource
    <2>7. SourcesListedOnce'
      BY <2>2, <2>5, <2>6 DEF SourcesListedOnce
    <2>8. OraclesTypeOK' /\ VerdictByMajority'
      BY <1>3, <2>2 DEF OraclesTypeOK, AddSource, callbackVars, VerdictByMajority
    <2> QED BY <2>7, <2>8
  <1>4. ASSUME NEW s \in Sources, RemoveSource(s)
        PROVE  VerdictInv'
    <2>1. SourcesListedOnce' /\ listed' \in Seq(Sources)
      BY <1>4, ListWithoutIs DEF SourcesListedOnce, RemoveSource
    <2>2. OraclesTypeOK' /\ VerdictByMajority'
      BY <1>4, <2>1 DEF OraclesTypeOK, RemoveSource, callbackVars, VerdictByMajority
    <2> QED BY <2>1, <2>2
  <1>5. ASSUME NEW s \in Sources, NEW on \in BOOLEAN, SwitchSource(s, on)
        PROVE  VerdictInv'
    <2>1. OraclesTypeOK'
      BY <1>5 DEF OraclesTypeOK, SwitchSource, callbackVars
    <2> QED BY <1>1, <1>5, <2>1 DEF SwitchSource
  <1>6. ASSUME NEW o \in Outcome, OverrideResult(o)
        PROVE  VerdictInv'
    <2>1. OraclesTypeOK' /\ VerdictByMajority'
      BY <1>6 DEF OraclesTypeOK, OverrideResult, whitelistVars, callbackVars, Verdicts,
                  VerdictByMajority
    <2> QED BY <1>6, <2>1 DEF OverrideResult, whitelistVars, SourcesListedOnce
  <1>7. ASSUME NEW s \in Sources, NEW n \in Nonces, NEW t, ProcessCallback(s, n, t)
        PROVE  VerdictInv'
    <2>1. processed' \in Seq(Callbacks) /\ Len(processed') <= MaxCallbacks
      <3>1. now \in Nat /\ processed \in Seq(Callbacks)
        BY ClockAssumption DEF OraclesTypeOK
      <3>2. [source |-> s, nonce |-> n, at |-> now] \in Callbacks
        BY <3>1 DEF Callbacks
      <3>3. processed' = Append(processed, [source |-> s, nonce |-> n, at |-> now])
            /\ Len(processed) < MaxCallbacks
        BY <1>7 DEF ProcessCallback
      <3> QED BY <3>1, <3>2, <3>3, OraclesAssumption
    <2>2. lastCallback' \in [Sources -> Nat] /\ usedNonces' \subseteq Sources \X Nonces
      BY <1>7, ClockAssumption DEF ProcessCallback, Rested, NewNonce, OraclesTypeOK
    <2>3. OraclesTypeOK'
      BY <1>7, <2>1, <2>2 DEF OraclesTypeOK, ProcessCallback, whitelistVars
    <2> QED BY <1>1, <1>7, <2>3 DEF ProcessCallback, whitelistVars
  <1>8. CASE Tick /\ UNCHANGED oracleVars
    <2>1. OraclesTypeOK'
      BY <1>8, ClockAssumption DEF OraclesTypeOK, Tick, oracleVars, whitelistVars, callbackVars
    <2> QED BY <1>1, <1>8, <2>1 DEF oracleVars, whitelistVars
  <1>9. CASE UNCHANGED <<now, oracleVars>>
    <2>1. OraclesTypeOK'
      BY <1>9 DEF OraclesTypeOK, oracleVars, whitelistVars, callbackVars
    <2> QED BY <1>1, <1>9, <2>1 DEF oracleVars, whitelistVars
  <1> QED BY <1>2, <1>3, <1>4, <1>5, <1>6, <1>7, <1>8, <1>9, SourcesRuleKeeps
             DEF OraclesNext, VerifyResult

(* A verdict of the sources is that of nearly two thirds of the distinct   *)
(* oracles that answered, for any oracles, added and removed in any order  *)
(* (oracles.rs, verify_result and OracleList).                             *)
THEOREM VerdictIsMajority == OraclesSpec => []VerdictByMajority
  <1>1. VerdictInv => VerdictByMajority
    BY DEF VerdictInv
  <1> QED BY <1>1, VerdictInvInit, VerdictInvStep, PTL DEF OraclesSpec

-----------------------------------------------------------------------------
(* Ranks by a key.                                                         *)

(* The place of a number among others by a key, and where keys are equal   *)
(* by the numbers.                                                         *)
Ahead(v, f, g) == v[f] < v[g] \/ (v[f] = v[g] /\ f <= g)

KeyRank(K, v, f) == Cardinality({g \in K : Ahead(v, g, f)})

LEMMA KeysOrder ==
  ASSUME NEW i \in Int, NEW j \in Int, NEW k \in Int,
         NEW x \in Int, NEW y \in Int, NEW z \in Int
  PROVE  /\ (i < j \/ (i = j /\ x <= y)) \/ (j < i \/ (j = i /\ y <= x))
         /\ (i < j \/ (i = j /\ x <= y)) /\ (j < i \/ (j = i /\ y <= x)) => x = y
         /\ (i < j \/ (i = j /\ x <= y)) /\ (j < k \/ (j = k /\ y <= z))
              => (i < k \/ (i = k /\ x <= z))
  OBVIOUS

LEMMA AheadOrders ==
  ASSUME NEW K \in SUBSET Int, NEW v \in [K -> Int],
         NEW x \in K, NEW y \in K, NEW z \in K
  PROVE  /\ Ahead(v, x, y) \/ Ahead(v, y, x)
         /\ Ahead(v, x, y) /\ Ahead(v, y, x) => x = y
         /\ Ahead(v, x, y) /\ Ahead(v, y, z) => Ahead(v, x, z)
         /\ v[x] < v[y] => Ahead(v, x, y) /\ x # y
  <1>1. PICK i \in Int, j \in Int, k \in Int : i = v[x] /\ j = v[y] /\ k = v[z]
    OBVIOUS
  <1>2. x \in Int /\ y \in Int /\ z \in Int
    OBVIOUS
  <1>3. /\ Ahead(v, x, y) <=> i < j \/ (i = j /\ x <= y)
        /\ Ahead(v, y, x) <=> j < i \/ (j = i /\ y <= x)
        /\ Ahead(v, y, z) <=> j < k \/ (j = k /\ y <= z)
        /\ Ahead(v, x, z) <=> i < k \/ (i = k /\ x <= z)
    BY <1>1 DEF Ahead
  <1>4. v[x] < v[y] => Ahead(v, x, y) /\ x # y
    <2>1. v[x] < v[y] => i < j
      BY <1>1
    <2>2. i < j => i # j
      BY <1>1
    <2>3. x = y => i = j
      BY <1>1
    <2>4. v[x] < v[y] => Ahead(v, x, y)
      BY Zenon DEF Ahead
    <2> QED BY <2>1, <2>2, <2>3, <2>4
  <1>5. /\ (i < j \/ (i = j /\ x <= y)) \/ (j < i \/ (j = i /\ y <= x))
        /\ (i < j \/ (i = j /\ x <= y)) /\ (j < i \/ (j = i /\ y <= x)) => x = y
        /\ (i < j \/ (i = j /\ x <= y)) /\ (j < k \/ (j = k /\ y <= z))
             => (i < k \/ (i = k /\ x <= z))
    BY <1>1, <1>2, KeysOrder
  <1> QED BY <1>3, <1>4, <1>5, Zenon

LEMMA RanksByKey ==
  ASSUME NEW K \in SUBSET Int, IsFiniteSet(K), NEW v \in [K -> Int]
  PROVE  /\ \A f \in K : KeyRank(K, v, f) \in 1..Cardinality(K)
         /\ \A f, g \in K : v[f] < v[g] => KeyRank(K, v, f) < KeyRank(K, v, g)
         /\ \A f, g \in K : Ahead(v, f, g) /\ f # g => KeyRank(K, v, f) < KeyRank(K, v, g)
         /\ \A n \in 1..Cardinality(K) : \E f \in K : KeyRank(K, v, f) = n
         /\ \A f, g \in K : KeyRank(K, v, f) = KeyRank(K, v, g) => f = g
  <1> DEFINE R == {p \in K \X K : Ahead(v, p[1], p[2])}
  <1>1. \A f, g \in K : <<f, g>> \in R <=> Ahead(v, f, g)
    OBVIOUS
  <1>2. \A f \in K : KeyRank(K, v, f) = Place(K, R)[f]
    <2> TAKE f \in K
    <2>1. {g \in K : <<g, f>> \in R} = {g \in K : Ahead(v, g, f)}
      BY <1>1
    <2> QED BY <2>1 DEF KeyRank, Place
  <1> HIDE DEF R
  <1>3. \A x, y \in K : <<x, y>> \in R \/ <<y, x>> \in R
    BY <1>1, AheadOrders
  <1>4. \A x, y \in K : <<x, y>> \in R /\ <<y, x>> \in R => x = y
    BY <1>1, AheadOrders
  <1>5. \A x, y, z \in K : <<x, y>> \in R /\ <<y, z>> \in R => <<x, z>> \in R
    BY <1>1, AheadOrders
  <1>6. Orders(R, K)
    BY <1>3, <1>4, <1>5 DEF Orders
  <1>7. /\ Place(K, R) \in [K -> 1..Cardinality(K)]
        /\ \A x, y \in K : <<x, y>> \in R /\ x # y => Place(K, R)[x] < Place(K, R)[y]
        /\ \A x, y \in K : Place(K, R)[x] = Place(K, R)[y] => x = y
        /\ \A k \in 1..Cardinality(K) : \E x \in K : Place(K, R)[x] = k
    <2>1. Placing(Place(K, R), R, K)
      BY <1>6, PlacesAreAll
    <2> QED BY <2>1 DEF Placing
  <1>10. \A f, g \in K : v[f] < v[g] => <<f, g>> \in R /\ f # g
    BY <1>1, AheadOrders
  <1>11. \A f, g \in K : v[f] < v[g] => KeyRank(K, v, f) < KeyRank(K, v, g)
    <2> SUFFICES ASSUME NEW f \in K, NEW g \in K, v[f] < v[g]
                 PROVE  KeyRank(K, v, f) < KeyRank(K, v, g)
      OBVIOUS
    <2>1. <<f, g>> \in R /\ f # g
      BY <1>10
    <2>2. Place(K, R)[f] < Place(K, R)[g]
      BY <1>7, <2>1
    <2> QED BY <1>2, <2>2
  <1>12. \A f, g \in K : Ahead(v, f, g) /\ f # g => KeyRank(K, v, f) < KeyRank(K, v, g)
    <2> SUFFICES ASSUME NEW f \in K, NEW g \in K, Ahead(v, f, g), f # g
                 PROVE  KeyRank(K, v, f) < KeyRank(K, v, g)
      OBVIOUS
    <2>1. Place(K, R)[f] < Place(K, R)[g]
      BY <1>1, <1>7
    <2> QED BY <1>2, <2>1
  <1> QED BY <1>2, <1>7, <1>11, <1>12

-----------------------------------------------------------------------------
(* The weighted median.                                                    *)

(* Quotes, whatever the set their weight is taken from.                    *)
QuotesOf(W) == [price : Nat, weight : W, included : BOOLEAN]

LEMMA QuoteParts ==
  ASSUME NEW W, NEW x \in QuotesOf(W)
  PROVE  x.price \in Nat /\ x.weight \in W /\ x.included \in BOOLEAN
  BY DEF QuotesOf

LEMMA QuoteOfParts ==
  ASSUME NEW W, NEW p \in Nat, NEW w \in W, NEW i \in BOOLEAN
  PROVE  [price |-> p, included |-> i, weight |-> w] \in QuotesOf(W)
  BY DEF QuotesOf

LEMMA QuoteReset ==
  ASSUME NEW W, NEW x \in QuotesOf(W), NEW i \in BOOLEAN
  PROVE  [x EXCEPT !.included = i] \in QuotesOf(W)
  BY DEF QuotesOf

(* The scale of the weights, and of the rates.                             *)
WeightScale == 0..10000

LEMMA OfScale ==
  ASSUME NEW w \in WeightScale
  PROVE  w \in Nat /\ w <= 10000
  BY SMTT(60) DEF WeightScale

LEMMA QuotesByScale == QuotesOf(WeightScale) = Quotes
  BY ZenonT(60) DEF Quotes, QuotesOf, WeightScale

LEMMA QuoteIs ==
  ASSUME NEW x \in Quotes
  PROVE  /\ x.price \in Nat /\ x.weight \in Nat
         /\ x.weight <= 10000 /\ x.included \in BOOLEAN
  <1>1. x.price \in Nat /\ x.weight \in WeightScale /\ x.included \in BOOLEAN
    BY QuotesByScale, QuoteParts, Zenon
  <1>2. x.weight \in Nat /\ x.weight <= 10000
    BY <1>1, OfScale
  <1> QED BY <1>1, <1>2

(* A quotient is at most what makes the dividend.                          *)
LEMMA QuotientWithin ==
  ASSUME NEW a \in Nat, NEW d \in Nat, d > 0, NEW m \in Nat, a <= m * d
  PROVE  a \div d \in 0..m
  <1>1. PICK v \in Int : v = a \div d
    OBVIOUS
  <1>2. PICK r \in Int : a = v * d + r /\ 0 <= r /\ r < d
    BY <1>1
  <1>3. v >= 0
    <2> SUFFICES ASSUME v <= -1 PROVE FALSE
      BY <1>1
    <2>1. v * d <= (-1) * d
      BY <1>1
    <2> QED BY <1>2, <2>1
  <1>4. v <= m
    <2> SUFFICES ASSUME v >= m + 1 PROVE FALSE
      BY <1>1
    <2>1. v * d >= (m + 1) * d
      BY <1>1
    <2>2. (m + 1) * d = m * d + d
      OBVIOUS
    <2> QED BY <1>2, <2>1, <2>2
  <1> QED BY <1>1, <1>3, <1>4

(* A confidence makes a weight within its scale.                           *)
LEMMA WeightInScale ==
  ASSUME NEW p \in Int, p > 0, NEW c \in Int \cup {NoConfidence}
  PROVE  WeightOf(p, c) \in WeightScale
  <1>1. CASE c = NoConfidence
    BY <1>1 DEF WeightOf, WeightScale
  <1>2. CASE c # NoConfidence /\ c <= 0
    BY <1>2 DEF WeightOf, WeightScale
  <1>3. CASE c # NoConfidence /\ ~(c <= 0)
    <2>1. PICK d \in Nat, a \in Nat : d = p + c /\ d > p /\ a = p * 10000
      BY <1>3
    <2>2. PICK m \in Nat : m = 10000
      OBVIOUS
    <2>3. WeightScale = 0..m
      BY <2>2, SMTT(60) DEF WeightScale
    <2>4. a <= m * d /\ m >= 1
      BY <2>1, <2>2
    <2>5. PICK w \in 0..m : w = a \div d
      BY <2>1, <2>4, QuotientWithin
    <2>6. WeightOf(p, c) = Least1(w)
      BY <1>3, <2>1, <2>5 DEF WeightOf
    <2>7. Least1(w) \in 0..m
      BY <2>4 DEF Least1
    <2> QED BY <2>6, <2>7, <2>3, Zenon
  <1> QED BY <1>1, <1>2, <1>3

(* Weights add up, feed by feed.                                           *)
LEMMA WeightsAdd ==
  ASSUME NEW q \in [Feeds -> Quotes], NEW A \in SUBSET Feeds, NEW B \in SUBSET Feeds
  PROVE  /\ WeightSum(q, A) \in Nat
         /\ A \subseteq B => WeightSum(q, A) <= WeightSum(q, B)
         /\ A \cap B = {} => WeightSum(q, A) + WeightSum(q, B) = WeightSum(q, A \cup B)
         /\ A # {} => WeightSum(q, A) > 0
         /\ WeightSum(q, {}) = 0
  <1> DEFINE w(f, S) == IF f \in S THEN Least1(q[f].weight) ELSE 0
  <1>1. PICK x \in Nat \ {0}, y \in Nat \ {0}, z \in Nat \ {0} :
          x = Least1(q[1].weight) /\ y = Least1(q[2].weight) /\ z = Least1(q[3].weight)
    <2>1. 1 \in Feeds /\ 2 \in Feeds /\ 3 \in Feeds
      BY DEF Feeds
    <2>2. \A f \in Feeds : q[f].weight \in Nat
      <3>1. \A f \in Feeds : q[f] \in Quotes
        OBVIOUS
      <3> QED BY <3>1, QuoteIs
    <2>3. \A f \in Feeds : Least1(q[f].weight) \in Nat \ {0}
      BY <2>2 DEF Least1
    <2> QED BY <2>1, <2>3
  <1>2. \A S \in SUBSET Feeds :
          WeightSum(q, S) = (IF 1 \in S THEN x ELSE 0) + (IF 2 \in S THEN y ELSE 0)
                            + (IF 3 \in S THEN z ELSE 0)
    BY <1>1 DEF WeightSum, Feeds
  <1>3. A \in SUBSET {1, 2, 3} /\ B \in SUBSET {1, 2, 3} /\ Feeds = {1, 2, 3}
    BY DEF Feeds
  <1>4. WeightSum(q, A \cup B) = (IF 1 \in A \/ 1 \in B THEN x ELSE 0)
          + (IF 2 \in A \/ 2 \in B THEN y ELSE 0) + (IF 3 \in A \/ 3 \in B THEN z ELSE 0)
    BY <1>2
  <1>5. /\ WeightSum(q, A) = (IF 1 \in A THEN x ELSE 0) + (IF 2 \in A THEN y ELSE 0)
                             + (IF 3 \in A THEN z ELSE 0)
        /\ WeightSum(q, B) = (IF 1 \in B THEN x ELSE 0) + (IF 2 \in B THEN y ELSE 0)
                             + (IF 3 \in B THEN z ELSE 0)
    BY <1>2
  <1>6. WeightSum(q, {}) = 0
    BY <1>2
  <1>7. A \subseteq B => WeightSum(q, A) <= WeightSum(q, B)
    BY <1>5
  <1>8. A \cap B = {} => WeightSum(q, A) + WeightSum(q, B) = WeightSum(q, A \cup B)
    BY <1>4, <1>5
  <1>9. A # {} => 1 \in A \/ 2 \in A \/ 3 \in A
    BY <1>3
  <1> QED BY <1>5, <1>6, <1>7, <1>8, <1>9

(* By price, and by their order where prices are equal, feeds have places. *)
LEMMA FeedsAreRanked ==
  ASSUME NEW q \in [Feeds -> Quotes]
  PROVE  LET K == Included(q)
         IN  /\ K \subseteq Feeds /\ IsFiniteSet(K) /\ Cardinality(K) \in Nat
             /\ \A f \in K : Rank(q, f) \in 1..Cardinality(K)
             /\ \A f, g \in K : q[f].price < q[g].price => Rank(q, f) < Rank(q, g)
             /\ \A n \in 1..Cardinality(K) : \E f \in K : Rank(q, f) = n
  <1> DEFINE K == Included(q)
             v == [f \in K |-> q[f].price]
  <1>1. K \subseteq Feeds /\ IsFiniteSet(K) /\ Cardinality(K) \in Nat
    <2>1. K \subseteq Feeds
      BY DEF Included
    <2>2. IsFiniteSet(Feeds)
      <3>1. 1 \in Int /\ 3 \in Int
        OBVIOUS
      <3>2. IsFiniteSet(1..3)
        BY <3>1, FS_Interval
      <3> QED BY <3>2 DEF Feeds
    <2> QED BY <2>1, <2>2, FS_Subset, FS_CardinalityType
  <1>2. K \subseteq Int /\ v \in [K -> Int]
    <2>1. \A f \in K : f \in Feeds /\ q[f] \in Quotes
      BY <1>1
    <2>2. K \subseteq Int
      BY <1>1 DEF Feeds
    <2>3. \A f \in K : q[f].price \in Int
      BY <2>1, QuoteIs
    <2> QED BY <2>2, <2>3
  <1>3. \A f \in K : Rank(q, f) = KeyRank(K, v, f)
    <2> TAKE f \in K
    <2>1. \A g \in K : (\/ q[g].price < q[f].price
                        \/ q[g].price = q[f].price /\ g <= f) <=> Ahead(v, g, f)
      <3> TAKE g \in K
      <3>1. v[g] = q[g].price /\ v[f] = q[f].price
        OBVIOUS
      <3>2. Ahead(v, g, f) <=> v[g] < v[f] \/ (v[g] = v[f] /\ g <= f)
        BY DEF Ahead
      <3> HIDE DEF v
      <3> QED BY <3>1, <3>2, Zenon
    <2> HIDE DEF v
    <2>2. {g \in K : \/ q[g].price < q[f].price
                     \/ q[g].price = q[f].price /\ g <= f}
          = {g \in K : Ahead(v, g, f)}
      BY <2>1, Zenon
    <2> QED BY <2>2 DEF Rank, KeyRank
  <1>4. \A f, g \in K : q[f].price < q[g].price => v[f] < v[g]
    OBVIOUS
  <1> HIDE DEF v, K
  <1>5. /\ \A f \in K : KeyRank(K, v, f) \in 1..Cardinality(K)
        /\ \A f, g \in K : v[f] < v[g] => KeyRank(K, v, f) < KeyRank(K, v, g)
        /\ \A n \in 1..Cardinality(K) : \E f \in K : KeyRank(K, v, f) = n
    BY <1>1, <1>2, RanksByKey
  <1>6. \A f \in K : Rank(q, f) \in 1..Cardinality(K)
    BY <1>3, <1>5
  <1>7. \A f, g \in K : q[f].price < q[g].price => Rank(q, f) < Rank(q, g)
    BY <1>3, <1>4, <1>5
  <1>8. \A n \in 1..Cardinality(K) : \E f \in K : Rank(q, f) = n
    BY <1>3, <1>5
  <1> QED BY <1>1, <1>6, <1>7, <1>8 DEF K

(* The first of the places where the weights reach half.                   *)
LEMMA HalfIsReached ==
  ASSUME NEW q \in [Feeds -> Quotes], Included(q) # {}
  PROVE  LET half == (WeightSum(q, Included(q)) + 1) \div 2
         IN \E n \in 1..Cardinality(Included(q)) :
              /\ Cumulative(q, n) >= half
              /\ \A j \in 1..(n - 1) : Cumulative(q, j) < half
  <1> DEFINE K == Included(q)
  <1>1. PICK m \in Nat : m = Cardinality(K) /\ m > 0
    BY FeedsAreRanked, FS_EmptySet
  <1>2. PICK t \in Nat : t = WeightSum(q, K) /\ t > 0
    BY FeedsAreRanked, WeightsAdd
  <1>3. PICK half \in Int : half = (t + 1) \div 2 /\ half <= t
    BY <1>2
  <1>4. \A j \in 1..m : Cumulative(q, j) \in Nat
    BY FeedsAreRanked, WeightsAdd DEF Cumulative
  <1>5. Cumulative(q, m) = t
    <2>1. {f \in K : Rank(q, f) <= m} = K
      BY <1>1, FeedsAreRanked
    <2> QED BY <1>2, <2>1 DEF Cumulative
  <1> DEFINE I == {j \in 1..m : Cumulative(q, j) >= half}
  <1>6. I \subseteq Nat /\ m \in I
    BY <1>1, <1>3, <1>5
  <1>7. PICK n \in I : \A j \in I : n <= j
    BY <1>6, LeastIndex
  <1>8. \A j \in 1..(n - 1) : Cumulative(q, j) < half
    BY <1>3, <1>4, <1>7
  <1> QED BY <1>1, <1>2, <1>3, <1>7, <1>8

(* The price reached splits the weights.                                   *)
LEMMA MedianIsBetween ==
  ASSUME NEW q \in [Feeds -> Quotes], Included(q) # {}
  PROVE  LET kept == Included(q)
             price == WeightedMedian(q)
             Weighs(fs) == 2 * WeightSum(q, fs) <= WeightSum(q, kept)
         IN  /\ price \in Nat
             /\ \E f \in kept : q[f].price = price
             /\ Weighs({f \in kept : q[f].price < price})
             /\ Weighs({f \in kept : q[f].price > price})
  <1> DEFINE K == Included(q)
             price == WeightedMedian(q)
             below == {f \in K : q[f].price < price}
             above == {f \in K : q[f].price > price}
             Upto(n) == {f \in K : Rank(q, f) <= n}
             half == (WeightSum(q, K) + 1) \div 2
  <1>1. PICK m \in Nat : m = Cardinality(K) /\ K \subseteq Feeds
    BY FeedsAreRanked
  <1>2. PICK t \in Nat : t = WeightSum(q, K) /\ t > 0
    BY <1>1, WeightsAdd
  <1>3. PICK h \in Int : h = half /\ t <= 2 * h /\ 2 * h <= t + 1
    BY <1>2
  <1>4. PICK n : /\ n = CHOOSE i \in 1..m :
                           /\ Cumulative(q, i) >= h
                           /\ \A j \in 1..(i - 1) : Cumulative(q, j) < h
                 /\ n \in 1..m
                 /\ Cumulative(q, n) >= h
                 /\ \A j \in 1..(n - 1) : Cumulative(q, j) < h
    BY <1>1, <1>3, HalfIsReached
  <1>5. PICK f \in K : f = Nth(q, n) /\ Rank(q, f) = n
    <2>1. \E g \in K : Rank(q, g) = n
      BY <1>1, <1>4, FeedsAreRanked
    <2> QED BY <2>1 DEF Nth
  <1>6. price = q[f].price
    BY <1>1, <1>3, <1>4, <1>5 DEF WeightedMedian
  <1>7. \A g \in K : q[g] \in Quotes /\ q[g].price \in Nat /\ Rank(q, g) \in 1..m
    <2>1. \A g \in K : q[g] \in Quotes
      BY <1>1
    <2> QED BY <1>1, <2>1, QuoteIs, FeedsAreRanked
  <1>8. price \in Nat /\ n \in Nat
    BY <1>4, <1>6, <1>7
  <1>9. \A g \in below : Rank(q, g) < n
    BY <1>5, <1>6, FeedsAreRanked
  <1>10. \A g \in above : n < Rank(q, g)
    <2> TAKE g \in above
    <2>1. q[f].price < q[g].price
      BY <1>6, <1>7
    <2> QED BY <1>5, <2>1, FeedsAreRanked
  <1>11. WeightSum(q, below) \in Nat /\ WeightSum(q, above) \in Nat
         /\ below \subseteq K /\ above \subseteq K
    BY <1>1, WeightsAdd
  <1>12. PICK b \in Nat, a \in Nat : b = WeightSum(q, below) /\ a = WeightSum(q, above)
    BY <1>11
  <1>13. 2 * b <= t
    <2>1. CASE n = 1
      <3>1. below = {}
        BY <1>7, <1>9, <2>1
      <3>2. b = 0
        BY <1>1, <1>12, <3>1, WeightsAdd
      <3> QED BY <3>2
    <2>2. CASE n # 1
      <3>1. n - 1 \in 1..(n - 1) /\ Cumulative(q, n - 1) < h
        BY <1>4, <2>2
      <3>2. below \subseteq Upto(n - 1) /\ Upto(n - 1) \subseteq Feeds
        BY <1>1, <1>7, <1>8, <1>9
      <3>3. Cumulative(q, n - 1) = WeightSum(q, Upto(n - 1))
        BY DEF Cumulative
      <3> HIDE DEF below, Upto
      <3>4. PICK c \in Nat : c = Cumulative(q, n - 1) /\ b <= c
        BY <1>1, <1>11, <1>12, <3>2, <3>3, WeightsAdd
      <3>5. c < h
        BY <3>1, <3>4
      <3> QED BY <1>3, <3>4, <3>5
    <2> QED BY <2>1, <2>2
  <1>14. 2 * a <= t
    <2>1. above \cap Upto(n) = {} /\ Upto(n) \subseteq K
      BY <1>7, <1>8, <1>10
    <2>2. Cumulative(q, n) = WeightSum(q, Upto(n))
      BY DEF Cumulative
    <2>3. Upto(n) \cup above \subseteq K
      BY <1>11, <2>1
    <2> HIDE DEF above, Upto, K
    <2>4. PICK c \in Nat : c = WeightSum(q, Upto(n)) /\ c >= h
      BY <1>1, <1>4, <2>1, <2>2, WeightsAdd
    <2>5. a + c = WeightSum(q, above \cup Upto(n))
      BY <1>1, <1>11, <1>12, <2>1, <2>4, WeightsAdd
    <2>6. WeightSum(q, above \cup Upto(n)) <= t
      BY <1>1, <1>2, <1>11, <2>1, <2>3, WeightsAdd
    <2>7. a + c <= t
      BY <2>5, <2>6
    <2> QED BY <1>3, <2>4, <2>7
  <1> HIDE DEF below, above, price
  <1>15. 2 * WeightSum(q, below) <= WeightSum(q, K)
    BY <1>2, <1>12, <1>13
  <1>16. 2 * WeightSum(q, above) <= WeightSum(q, K)
    BY <1>2, <1>12, <1>14
  <1> QED BY <1>5, <1>6, <1>8, <1>15, <1>16 DEF below, above, price

MedianInv == MedianTypeOK /\ MedianSplits

LEMMA MedianInvInit == MedianInit => MedianInv
  BY ClockAssumption DEF MedianInit, MedianInv, MedianTypeOK, MedianSplits

(* What the feeds answered, and what is kept of it.                        *)
LEMMA QuotesAre ==
  ASSUME NEW answers \in [Feeds -> Answers], NEW bps
  PROVE  LET asked == [f \in Feeds |-> QuoteOf(answers[f])]
         IN  asked \in [Feeds -> Quotes] /\ Filtered(asked, bps) \in [Feeds -> Quotes]
  <1>1. ASSUME NEW a \in Answers PROVE QuoteOf(a) \in Quotes
    <2>1. a.price \in Int /\ a.confidence \in Int \cup {NoConfidence}
      BY <1>1, MedianAssumption DEF Answers
    <2>2. PICK p \in Int : p = a.price
      BY <2>1
    <2>3. CASE p > 0
      <3>1. PICK c \in Int \cup {NoConfidence} : c = a.confidence
        BY <2>1
      <3>2. PICK w : w = WeightOf(p, c) /\ w \in WeightScale
        BY <2>2, <2>3, <3>1, WeightInScale
      <3>3. QuoteOf(a) = [price |-> p, included |-> TRUE, weight |-> w]
        <4>1. w = WeightOf(a.price, a.confidence) /\ a.price > 0
          BY <2>2, <2>3, <3>1, <3>2
        <4> HIDE <3>2
        <4> QED BY <2>2, <4>1, Zenon DEF QuoteOf
      <3>4. p \in Nat
        BY <2>2, <2>3
      <3>5. TRUE \in BOOLEAN
        OBVIOUS
      <3>6. [price |-> p, included |-> TRUE, weight |-> w] \in QuotesOf(WeightScale)
        BY <3>2, <3>4, <3>5, QuoteOfParts, Zenon
      <3> QED BY <3>3, <3>6, QuotesByScale, Zenon
    <2>4. CASE ~(p > 0)
      <3>1. QuoteOf(a) = [price |-> 0, weight |-> 0, included |-> FALSE]
        BY <2>2, <2>4 DEF QuoteOf
      <3>2. 0 \in 0..10000
        OBVIOUS
      <3> QED BY <3>1, <3>2 DEF Quotes
    <2> QED BY <2>3, <2>4
  <1>2. PICK asked : asked = [f \in Feeds |-> QuoteOf(answers[f])]
    OBVIOUS
  <1>3. asked \in [Feeds -> Quotes]
    BY <1>1, <1>2
  <1>4. ASSUME NEW x \in Quotes, NEW i \in BOOLEAN
        PROVE  [x EXCEPT !.included = i] \in Quotes
    BY <1>4, QuotesByScale, QuoteReset
  <1>5. Filtered(asked, bps) \in [Feeds -> Quotes]
    <2> DEFINE m == SimpleMedian(asked)
               i(f) == asked[f].included /\ (m > 0 => Deviation(asked[f].price, m) <= bps)
    <2>1. \A f \in Feeds : i(f) \in BOOLEAN /\ asked[f] \in Quotes
      BY <1>3
    <2>2. Filtered(asked, bps) = [f \in Feeds |-> [asked[f] EXCEPT !.included = i(f)]]
      BY DEF Filtered
    <2> HIDE DEF i
    <2> QED BY <1>4, <2>1, <2>2
  <1> QED BY <1>2, <1>3, <1>5

LEMMA FeedsRuleKeeps ==
  ASSUME MedianInv, medianConfig # NoMedian, NEW answers \in [Feeds -> Answers],
         FeedsRule(answers)
  PROVE  MedianInv'
  <1>1. PICK asked : asked = [f \in Feeds |-> QuoteOf(answers[f])]
    OBVIOUS
  <1>2. PICK q : q = Filtered(asked, medianConfig.deviation)
    OBVIOUS
  <1>3. asked \in [Feeds -> Quotes] /\ q \in [Feeds -> Quotes]
    BY <1>1, <1>2, QuotesAre
  <1>4. PICK price : price = WeightedMedian(q)
    OBVIOUS
  <1>5. /\ Cardinality(Included(q)) >= medianConfig.sources /\ Included(q) # {}
        /\ medianConfig \in MedianConfigs
        /\ ruling' = [quotes |-> q, price |-> price, outcome |-> OutcomeOf(price),
                      config |-> medianConfig, answered |-> asked]
        /\ UNCHANGED <<now, medianConfig, strike>>
    BY <1>1, <1>2, <1>4 DEF FeedsRule, MedianInv, MedianTypeOK
  <1>6. /\ price \in Nat
        /\ \E f \in Included(q) : q[f].price = price
        /\ 2 * WeightSum(q, {f \in Included(q) : q[f].price < price})
             <= WeightSum(q, Included(q))
        /\ 2 * WeightSum(q, {f \in Included(q) : q[f].price > price})
             <= WeightSum(q, Included(q))
    BY <1>3, <1>4, <1>5, MedianIsBetween
  <1>7. MedianTypeOK'
    <2>1. OutcomeOf(price) \in {"yes", "no"}
      BY DEF OutcomeOf
    <2>2. ruling' \in [quotes : [Feeds -> Quotes], price : Nat,
                       outcome : {"yes", "no"}, config : MedianConfigs,
                       answered : [Feeds -> Quotes]]
      BY <1>3, <1>5, <1>6, <2>1
    <2> QED BY <1>5, <2>2 DEF MedianInv, MedianTypeOK
  <1>8. /\ (\A f \in Included(q) : Met(q[f].price)) => OutcomeOf(price) = "yes"
        /\ (\A f \in Included(q) : ~Met(q[f].price)) => OutcomeOf(price) = "no"
    BY <1>6 DEF OutcomeOf
  <1>9. \A p : Met(p)' <=> Met(p)
    BY <1>5 DEF Met
  <1>10. MedianSplits'
    <2>1. /\ ruling'.quotes = q /\ ruling'.price = price
          /\ ruling'.outcome = OutcomeOf(price) /\ ruling'.config = medianConfig
      BY <1>5
    <2> HIDE <1>5
    <2> QED BY <1>5, <1>6, <1>8, <1>9, <2>1 DEF MedianSplits
  <1> QED BY <1>7, <1>10 DEF MedianInv

LEMMA MedianInvStep ==
  MedianInv /\ [MedianNext]_<<now, medianVars>> => MedianInv'
  <1> SUFFICES ASSUME MedianInv, [MedianNext]_<<now, medianVars>> PROVE MedianInv'
    OBVIOUS
  <1>1. ASSUME UNCHANGED <<strike, ruling>>, MedianTypeOK'
        PROVE  MedianInv'
    BY <1>1 DEF MedianInv, MedianSplits, Met
  <1>2. ASSUME NEW c \in MedianConfigs, SetMedianConfig(c) PROVE MedianInv'
    <2>1. MedianTypeOK'
      BY <1>2 DEF MedianInv, MedianTypeOK, SetMedianConfig
    <2> QED BY <1>1, <1>2, <2>1 DEF SetMedianConfig
  <1>3. CASE Tick /\ UNCHANGED medianVars
    <2>1. MedianTypeOK'
      BY <1>3, ClockAssumption DEF MedianInv, MedianTypeOK, Tick, medianVars
    <2> QED BY <1>1, <1>3, <2>1 DEF medianVars
  <1>4. CASE UNCHANGED <<now, medianVars>>
    <2>1. MedianTypeOK'
      BY <1>4 DEF MedianInv, MedianTypeOK, medianVars
    <2> QED BY <1>1, <1>4, <2>1 DEF medianVars
  <1> QED BY <1>2, <1>3, <1>4, FeedsRuleKeeps
             DEF MedianNext, ResolveWithMedian

(* The price ruled by splits the weight of the feeds that were kept, for   *)
(* any prices, confidences and thresholds (resolution.rs, weighted_median  *)
(* and resolve_with_median).                                               *)
THEOREM MedianIsFair == MedianSpec => []MedianSplits
  <1>1. MedianInv => MedianSplits
    BY DEF MedianInv
  <1> QED BY <1>1, MedianInvInit, MedianInvStep, PTL DEF MedianSpec

-----------------------------------------------------------------------------
(* The leaderboards.                                                       *)

(* A place of the board by what its entry won, the most first.             *)
WonLess(board) == [i \in 1..Len(board) |-> 0 - board[i].winnings]

(* Entries, whatever the set their rate is taken from.                     *)
BoardEntriesOf(W) == [user : Players, winnings : Nat, rate : W, bets : Nat]

LEMMA EntryParts ==
  ASSUME NEW W, NEW x \in BoardEntriesOf(W)
  PROVE  x.user \in Players /\ x.winnings \in Nat
  BY DEF BoardEntriesOf

LEMMA EntryOfParts ==
  ASSUME NEW W, NEW p \in Players, NEW v \in Nat, NEW w \in W, NEW b \in Nat
  PROVE  LET e == [user |-> p, winnings |-> v, rate |-> w, bets |-> b]
         IN  e \in BoardEntriesOf(W) /\ e.user = p /\ e.winnings = v
  BY DEF BoardEntriesOf

LEMMA EntriesByScale == BoardEntriesOf(WeightScale) = BoardEntries
  BY ZenonT(60) DEF BoardEntries, BoardEntriesOf, WeightScale

LEMMA EntryIs ==
  ASSUME NEW board \in Seq(BoardEntries), NEW i \in 1..Len(board)
  PROVE  board[i] \in BoardEntries /\ board[i].user \in Players
         /\ board[i].winnings \in Nat
  <1>1. PICK e : e = board[i] /\ e \in BoardEntries
    OBVIOUS
  <1>2. e.user \in Players /\ e.winnings \in Nat
    <2> HIDE <1>1
    <2> QED BY <1>1, EntriesByScale, EntryParts, Zenon
  <1> QED BY <1>1, <1>2

LEMMA PlacesOfBoard ==
  ASSUME NEW board \in Seq(BoardEntries)
  PROVE  LET K == 1..Len(board)
             v == WonLess(board)
         IN  /\ K \in SUBSET Int /\ IsFiniteSet(K) /\ Cardinality(K) = Len(board)
             /\ v \in [K -> Int]
             /\ \A i, j \in K : v[i] < v[j] <=> board[i].winnings > board[j].winnings
             /\ \A i, j \in K :
                  Above("winnings", board[i], board[j]) <=> v[i] < v[j]
  <1>1. PICK n \in Nat : n = Len(board)
    OBVIOUS
  <1>2. IsFiniteSet(1..n) /\ Cardinality(1..n) = n
    <2>1. 1 \in Int /\ n \in Int
      OBVIOUS
    <2>2. IsFiniteSet(1..n) /\ Cardinality(1..n) = IF 1 > n THEN 0 ELSE n - 1 + 1
      BY <2>1, FS_Interval
    <2> QED BY <2>2
  <1>3. \A i \in 1..n : board[i].winnings \in Nat
    BY <1>1, EntryIs
  <1>4. \A i \in 1..n : WonLess(board)[i] = 0 - board[i].winnings
    BY <1>1 DEF WonLess
  <1>5. WonLess(board) \in [1..n -> Int]
    BY <1>1, <1>3 DEF WonLess
  <1>6. ASSUME NEW i \in 1..n, NEW j \in 1..n
        PROVE  WonLess(board)[i] < WonLess(board)[j] <=> board[i].winnings > board[j].winnings
    <2>1. PICK a \in Nat, b \in Nat : a = board[i].winnings /\ b = board[j].winnings
      BY <1>3
    <2>2. (0 - a < 0 - b) <=> (a > b)
      BY <2>1, SMTT(60)
    <2> QED BY <1>4, <2>1, <2>2
  <1>7. \A i, j \in 1..n : Above("winnings", board[i], board[j])
                          <=> board[i].winnings > board[j].winnings
    BY DEF Above
  <1> QED BY <1>1, <1>2, <1>5, <1>6, <1>7

(* There is a lowest entry: nobody on the board won less.                  *)
LEMMA LowestIs ==
  ASSUME NEW board \in Seq(BoardEntries), Len(board) > 0
  PROVE  LET low == Lowest("winnings", board)
         IN  /\ low \in 1..Len(board)
             /\ \A j \in 1..Len(board) : board[low].winnings <= board[j].winnings
  <1> DEFINE K == 1..Len(board)
             v == WonLess(board)
             w == [i \in K |-> 0 - v[i]]
  <1>1. /\ K \in SUBSET Int /\ IsFiniteSet(K) /\ Cardinality(K) = Len(board)
        /\ v \in [K -> Int]
        /\ \A i, j \in K : Above("winnings", board[i], board[j]) <=> v[i] < v[j]
    BY PlacesOfBoard
  <1>2. w \in [K -> Int]
    BY <1>1
  <1>3. \A i, j \in K : v[i] < v[j] <=> w[j] < w[i]
    <2> TAKE i, j \in K
    <2>1. PICK a \in Int, b \in Int : a = v[i] /\ b = v[j]
      BY <1>1
    <2>2. w[i] = 0 - a /\ w[j] = 0 - b
      BY <2>1
    <2> QED BY <2>1, <2>2
  <1>4. 1 \in 1..Cardinality(K)
    BY <1>1
  <1> HIDE DEF K, v, w
  <1>5. PICK i \in K : KeyRank(K, w, i) = 1
    BY <1>1, <1>2, <1>4, RanksByKey
  <1>6. \A j \in K : KeyRank(K, w, j) \in Nat /\ KeyRank(K, w, j) >= 1
    BY <1>1, <1>2, RanksByKey
  <1>7. \A j \in K : ~(Ahead(w, j, i) /\ j # i)
    BY <1>1, <1>2, <1>5, <1>6, RanksByKey
  <1>8. \A j \in K : /\ ~(v[i] < v[j])
                     /\ j < i => v[j] < v[i]
    <2> TAKE j \in K
    <2>1. PICK a \in Int, b \in Int : a = w[i] /\ b = w[j]
      BY <1>2
    <2>2. i \in Int /\ j \in Int
      BY <1>1
    <2>3. Ahead(w, j, i) <=> b < a \/ (b = a /\ j <= i)
      BY <2>1 DEF Ahead
    <2>4. ~(b < a)
      BY <1>7, <2>1, <2>3
    <2>5. j < i => a < b
      BY <1>7, <2>1, <2>2, <2>3
    <2> QED BY <1>3, <2>1, <2>4, <2>5
  <1>9. \E k \in 1..Len(board) :
           \A j \in 1..Len(board) : /\ ~Above("winnings", board[k], board[j])
                                    /\ j < k => Above("winnings", board[j], board[k])
    BY <1>1, <1>8 DEF K
  <1>10. PICK low \in 1..Len(board) :
           /\ low = Lowest("winnings", board)
           /\ \A j \in 1..Len(board) : ~Above("winnings", board[low], board[j])
    BY <1>9 DEF Lowest
  <1>11. ASSUME NEW j \in 1..Len(board)
         PROVE  board[low].winnings <= board[j].winnings
    <2>1. PICK a \in Nat, b \in Nat : a = board[low].winnings /\ b = board[j].winnings
      BY <1>10, EntryIs
    <2>2. ~(a > b)
      BY <1>10, <2>1 DEF Above
    <2> QED BY <2>1, <2>2
  <1> QED BY <1>10, <1>11

(* The query shows every entry of the board, those that won most first.    *)
LEMMA TopIsSorted ==
  ASSUME NEW n \in Nat, boards["winnings"] \in Seq(BoardEntries),
         Len(boards["winnings"]) <= n
  PROVE  LET top == Top("winnings", n)
         IN  /\ Ranked(top) = Ranked(boards["winnings"])
             /\ \A i \in 1..(Len(top) - 1) : top[i].winnings >= top[i + 1].winnings
  <1> PICK board \in Seq(BoardEntries) : board = boards["winnings"]
    OBVIOUS
  <1>1. PICK m \in Nat : m = Len(board) /\ m <= n
    OBVIOUS
  <1> DEFINE K == 1..m
             v == WonLess(board)
             at(r) == CHOOSE i \in K : RankOf("winnings", board, i) = r
             top == Top("winnings", n)
  <1>2. /\ K \in SUBSET Int /\ IsFiniteSet(K) /\ Cardinality(K) = m
        /\ v \in [K -> Int]
        /\ \A i, j \in K : v[i] < v[j] <=> board[i].winnings > board[j].winnings
        /\ \A i, j \in K : Above("winnings", board[i], board[j]) <=> v[i] < v[j]
    BY <1>1, PlacesOfBoard
  <1>3. ASSUME NEW i \in K
        PROVE  RankOf("winnings", board, i) = KeyRank(K, v, i)
    <2> DEFINE A == {j \in K : Ahead(v, j, i)}
               B == {j \in K : \/ Above("winnings", board[j], board[i])
                               \/ j < i /\ ~Above("winnings", board[i], board[j])}
    <2>1. ASSUME NEW j \in K
          PROVE  j \in A <=> j = i \/ j \in B
      <3>1. PICK a \in Int, b \in Int : a = v[i] /\ b = v[j]
        BY <1>2
      <3>2. j \in A <=> b < a \/ (b = a /\ j <= i)
        BY <3>1 DEF Ahead
      <3>3. j \in B <=> b < a \/ (j < i /\ ~(a < b))
        BY <1>2, <3>1
      <3>4. i = j => a = b
        BY <3>1
      <3> HIDE DEF A, B
      <3>5. i \in Int /\ j \in Int
        OBVIOUS
      <3> QED BY <3>1, <3>2, <3>3, <3>4, <3>5
    <2>2. i \notin B
      <3>1. PICK a \in Int : a = v[i]
        BY <1>2
      <3>2. i \in B => a < a \/ i < i
        BY <1>2, <3>1
      <3> QED BY <3>1, <3>2
    <2>3. B \subseteq K
      OBVIOUS
    <2>4. A = B \cup {i}
      <3>1. A \subseteq K
        OBVIOUS
      <3> HIDE DEF A, B
      <3> QED BY <2>1, <2>3, <3>1
    <2>5. IsFiniteSet(B) /\ Cardinality(B) \in Nat
      BY <1>2, <2>3, FS_Subset, FS_CardinalityType
    <2>6. RankOf("winnings", board, i) = 1 + Cardinality(B)
      BY <1>1 DEF RankOf
    <2>7. KeyRank(K, v, i) = Cardinality(A)
      BY DEF KeyRank
    <2> HIDE DEF A, B
    <2>8. Cardinality(A) = Cardinality(B) + 1
      BY <2>2, <2>4, <2>5, FS_AddElement
    <2> QED BY <2>5, <2>6, <2>7, <2>8
  <1>4. /\ \A r \in 1..m : \E i \in K : RankOf("winnings", board, i) = r
        /\ \A i \in K : RankOf("winnings", board, i) \in 1..m
        /\ \A i, j \in K : RankOf("winnings", board, i) = RankOf("winnings", board, j) => i = j
        /\ \A i, j \in K : v[i] < v[j]
             => RankOf("winnings", board, i) < RankOf("winnings", board, j)
    <2> HIDE DEF K, v
    <2>1. /\ \A i \in K : KeyRank(K, v, i) \in 1..m
          /\ \A f, g \in K : v[f] < v[g] => KeyRank(K, v, f) < KeyRank(K, v, g)
          /\ \A r \in 1..m : \E f \in K : KeyRank(K, v, f) = r
          /\ \A f, g \in K : KeyRank(K, v, f) = KeyRank(K, v, g) => f = g
      BY <1>2, RanksByKey, SMTT(60)
    <2> QED BY <1>3, <2>1
  <1>5. \A r \in 1..m : at(r) \in K /\ RankOf("winnings", board, at(r)) = r
    BY <1>4
  <1>6. top = [r \in 1..m |-> board[at(r)]] /\ Len(top) = m
    <2>1. top = [r \in 1..(IF n < m THEN n ELSE m) |-> board[at(r)]]
      BY <1>1 DEF Top
    <2>2. (IF n < m THEN n ELSE m) = m
      BY <1>1
    <2>3. top = [r \in 1..m |-> board[at(r)]]
      BY <2>1, <2>2
    <2> HIDE DEF top, at
    <2>4. top \in Seq(BoardEntries) /\ Len(top) = m
      <3>1. \A r \in 1..m : board[at(r)] \in BoardEntries
        BY <1>1, <1>5
      <3>2. top \in [1..m -> BoardEntries]
        BY <2>3, <3>1
      <3> QED BY <2>3, <3>2
    <2> QED BY <2>3, <2>4
  <1> HIDE DEF at, top
  <1>7. Ranked(top) = Ranked(board)
    <2>1. ASSUME NEW i \in K PROVE \E r \in 1..m : top[r].user = board[i].user
      <3>1. PICK r \in 1..m : r = RankOf("winnings", board, i)
        BY <1>4
      <3>2. at(r) = i
        BY <1>4, <1>5, <3>1
      <3> QED BY <1>6, <3>2
    <2>2. ASSUME NEW r \in 1..m PROVE \E i \in K : top[r].user = board[i].user
      BY <1>5, <1>6
    <2>3. Ranked(top) = {top[r].user : r \in 1..m}
      BY <1>6 DEF Ranked
    <2>4. Ranked(board) = {board[i].user : i \in K}
      BY <1>1 DEF Ranked
    <2> HIDE DEF K
    <2>5. {top[r].user : r \in 1..m} = {board[i].user : i \in K}
      <3>1. ASSUME NEW u \in {top[r].user : r \in 1..m}
            PROVE  u \in {board[i].user : i \in K}
        <4>1. PICK r \in 1..m : u = top[r].user
          OBVIOUS
        <4> QED BY <2>2, <4>1
      <3>2. ASSUME NEW u \in {board[i].user : i \in K}
            PROVE  u \in {top[r].user : r \in 1..m}
        <4>1. PICK i \in K : u = board[i].user
          OBVIOUS
        <4> QED BY <2>1, <4>1
      <3> QED BY <3>1, <3>2
    <2> QED BY <2>3, <2>4, <2>5
  <1>8. ASSUME NEW r \in 1..(m - 1)
        PROVE  top[r].winnings >= top[r + 1].winnings
    <2>1. r \in 1..m /\ r + 1 \in 1..m /\ r < r + 1
      BY <1>1
    <2>2. /\ top[r] = board[at(r)] /\ top[r + 1] = board[at(r + 1)]
          /\ at(r) \in K /\ at(r + 1) \in K
          /\ RankOf("winnings", board, at(r)) = r
          /\ RankOf("winnings", board, at(r + 1)) = r + 1
      BY <1>5, <1>6, <2>1
    <2>3. PICK a \in Nat, b \in Nat :
            a = board[at(r)].winnings /\ b = board[at(r + 1)].winnings
      BY <1>1, <2>2, EntryIs
    <2>4. ~(v[at(r + 1)] < v[at(r)])
      <3>1. ~(r + 1 < r)
        BY <2>1
      <3>2. PICK x \in K, y \in K : x = at(r + 1) /\ y = at(r)
        BY <2>2
      <3>3. RankOf("winnings", board, x) = r + 1 /\ RankOf("winnings", board, y) = r
        BY <2>2, <3>2
      <3>4. v[x] < v[y]
              => RankOf("winnings", board, x) < RankOf("winnings", board, y)
        BY <1>4, <3>2
      <3>5. ~(v[x] < v[y])
        BY <3>1, <3>3, <3>4
      <3> QED BY <3>2, <3>5
    <2>5. ~(b > a)
      BY <1>2, <2>2, <2>3, <2>4
    <2>6. a >= b
      BY <2>3, <2>5, SMTT(60)
    <2>7. top[r].winnings = a /\ top[r + 1].winnings = b
      BY <2>2, <2>3
    <2> QED BY <2>6, <2>7
  <1> QED BY <1>6, <1>7, <1>8 DEF top

(* What makes a board of winnings that of these records: a winner is on it *)
(* unless it is full of others that won as much.                           *)
SoundBoard(board, rec) ==
  LET won == {p \in Players : rec[p].won > 0}
  IN  /\ \A i, j \in 1..Len(board) : board[i].user = board[j].user => i = j
      /\ \A i \in 1..Len(board) : board[i].winnings = rec[board[i].user].winnings
      /\ Len(board) <= BoardSize
      /\ Len(board) = BoardSize \/ Ranked(board) = won
      /\ Ranked(board) \subseteq won
      /\ \A p \in won \ Ranked(board), q \in Ranked(board) :
           rec[p].winnings <= rec[q].winnings

BoardInv == StandingsTypeOK /\ SoundBoard(boards["winnings"], record)

(* The ways a board takes an entry.                                        *)
WithEntry(board, k, e) == [board EXCEPT ![k] = e]

LEMMA ReplacedIs ==
  ASSUME NEW board \in Seq(BoardEntries), NEW k, NEW e \in BoardEntries
  PROVE  /\ WithEntry(board, k, e) \in Seq(BoardEntries)
         /\ Len(WithEntry(board, k, e)) = Len(board)
         /\ \A i \in 1..Len(board) :
              WithEntry(board, k, e)[i] = IF i = k THEN e ELSE board[i]
  <1>1. PICK n \in Nat : n = Len(board) /\ board \in [1..n -> BoardEntries]
    OBVIOUS
  <1>2. \A i \in 1..n : WithEntry(board, k, e)[i] = IF i = k THEN e ELSE board[i]
    BY <1>1 DEF WithEntry
  <1>3. WithEntry(board, k, e) \in [1..n -> BoardEntries]
    BY <1>1 DEF WithEntry
  <1>4. WithEntry(board, k, e) \in Seq(BoardEntries) /\ Len(WithEntry(board, k, e)) = n
    <2> PICK b : b = WithEntry(board, k, e)
      OBVIOUS
    <2>1. b \in [1..n -> BoardEntries]
      BY <1>3
    <2> QED BY <1>1, <2>1
  <1> QED BY <1>1, <1>2, <1>4

LEMMA AppendedIs ==
  ASSUME NEW board \in Seq(BoardEntries), NEW e \in BoardEntries
  PROVE  /\ Append(board, e) \in Seq(BoardEntries)
         /\ Len(Append(board, e)) = Len(board) + 1
         /\ \A i \in 1..(Len(board) + 1) :
              Append(board, e)[i] = IF i = Len(board) + 1 THEN e ELSE board[i]
  OBVIOUS

(* Whatever the board, an entry taken is one of the entries.               *)
LEMMA UpsertType ==
  ASSUME NEW by \in Boards, NEW board \in Seq(BoardEntries), NEW e \in BoardEntries
  PROVE  Upsert(by, board, e) \in Seq(BoardEntries)
  <1>1. \A k : [board EXCEPT ![k] = e] \in Seq(BoardEntries)
    BY ReplacedIs DEF WithEntry
  <1>2. Append(board, e) \in Seq(BoardEntries)
    BY AppendedIs
  <1>3. CASE e.user \in Ranked(board)
    BY <1>1, <1>3 DEF Upsert
  <1>4. CASE e.user \notin Ranked(board) /\ Len(board) < BoardSize
    BY <1>2, <1>4 DEF Upsert
  <1>5. CASE e.user \notin Ranked(board) /\ ~(Len(board) < BoardSize)
    <2> DEFINE k == Lowest(by, board)
    <2>1. Upsert(by, board, e) = IF Above(by, e, board[k]) THEN [board EXCEPT ![k] = e]
                                                           ELSE board
      BY <1>5 DEF Upsert
    <2> HIDE DEF k
    <2> QED BY <1>1, <2>1
  <1> QED BY <1>3, <1>4, <1>5

(* A claim by p: the records before and after it, and p's entry.           *)
Claimed(rec, after, p, e) ==
  /\ rec \in [Players -> Records] /\ after \in [Players -> Records]
  /\ p \in Players /\ e \in BoardEntries /\ e.user = p
  /\ after[p].won > 0 /\ after[p].winnings = e.winnings
  /\ rec[p].winnings <= e.winnings
  /\ \A x \in Players \ {p} : after[x] = rec[x]

(* The parts of a record.                                                  *)
RecordOf(b, wa, wi, wo, ra) ==
  [bets |-> b, wagered |-> wa, winnings |-> wi, won |-> wo, rate |-> ra]

LEMMA RecordParts ==
  /\ \A b, wa, wi, wo \in Nat, ra \in WeightScale : RecordOf(b, wa, wi, wo, ra) \in Records
  /\ \A r \in Records : \E b, wa, wi, wo \in Nat, ra \in WeightScale :
       r = RecordOf(b, wa, wi, wo, ra)
  <1>1. Records = [bets : Nat, wagered : Nat, winnings : Nat, won : Nat,
                   rate : WeightScale]
    BY ZenonT(60) DEF Records, WeightScale
  <1>2. \A b, wa, wi, wo \in Nat, ra \in WeightScale : RecordOf(b, wa, wi, wo, ra) \in Records
    BY <1>1 DEF RecordOf
  <1>3. ASSUME NEW r \in Records
        PROVE  \E b, wa, wi, wo \in Nat, ra \in WeightScale :
                 r = RecordOf(b, wa, wi, wo, ra)
    <2>1. /\ r.bets \in Nat /\ r.wagered \in Nat /\ r.winnings \in Nat
          /\ r.won \in Nat /\ r.rate \in WeightScale
          /\ r = RecordOf(r.bets, r.wagered, r.winnings, r.won, r.rate)
      BY <1>1 DEF RecordOf
    <2> QED BY <2>1
  <1> QED BY <1>2, <1>3

LEMMA WonIsNat ==
  ASSUME NEW r \in Records
  PROVE  r.winnings \in Nat
  <1>1. PICK bs, wa, wo, ra : \E wi \in Nat : r = RecordOf(bs, wa, wi, wo, ra)
    BY RecordParts
  <1> QED BY <1>1 DEF RecordOf

LEMMA RecordIs ==
  ASSUME NEW rec \in [Players -> Records], NEW p \in Players
  PROVE  rec[p].winnings \in Nat
  <1>1. rec[p] \in Records
    OBVIOUS
  <1> QED BY <1>1, WonIsNat

LEMMA ClaimedIs ==
  ASSUME NEW rec, NEW after, NEW p, NEW e, Claimed(rec, after, p, e)
  PROVE  LET won == {x \in Players : rec[x].won > 0}
         IN  /\ {x \in Players : after[x].won > 0} = won \cup {p}
             /\ \A x \in Players : rec[x].winnings \in Nat /\ after[x].winnings \in Nat
             /\ \A x \in Players : rec[x].winnings <= after[x].winnings
             /\ \A x \in Players \ {p} : after[x].winnings = rec[x].winnings
  <1>1. \A x \in Players : rec[x].winnings \in Nat /\ after[x].winnings \in Nat
    BY RecordIs DEF Claimed
  <1>2. \A x \in Players \ {p} : after[x].winnings = rec[x].winnings
                                /\ after[x].won = rec[x].won
    BY DEF Claimed
  <1>3. \A x \in Players : rec[x].winnings <= after[x].winnings
    <2> TAKE x \in Players
    <2>1. CASE x = p
      BY <2>1 DEF Claimed
    <2>2. CASE x # p
      <3>1. PICK a \in Nat : a = rec[x].winnings
        BY <1>1
      <3>2. a <= a
        BY <3>1
      <3> QED BY <1>2, <2>2, <3>1, <3>2
    <2> QED BY <2>1, <2>2
  <1>4. {x \in Players : after[x].won > 0} = {x \in Players : rec[x].won > 0} \cup {p}
    BY <1>2 DEF Claimed
  <1> QED BY <1>1, <1>2, <1>3, <1>4

(* The entry of a player on the board is replaced.                         *)
LEMMA UpsertRanked ==
  ASSUME NEW board \in Seq(BoardEntries), NEW rec, NEW after, NEW p, NEW e,
         Claimed(rec, after, p, e), SoundBoard(board, rec), p \in Ranked(board)
  PROVE  SoundBoard(Upsert("winnings", board, e), after)
  <1>1. PICK n \in Nat : n = Len(board)
    OBVIOUS
  <1>2. PICK k \in 1..n : k = PlaceOf(board, p) /\ board[k].user = p
    <2>1. \E i \in 1..Len(board) : board[i].user = p
      BY DEF Ranked
    <2> QED BY <1>1, <2>1 DEF PlaceOf
  <1>3. PICK b : /\ b = Upsert("winnings", board, e) /\ Len(b) = n
                 /\ \A i \in 1..n : b[i] = IF i = k THEN e ELSE board[i]
    <2>1. Upsert("winnings", board, e) = WithEntry(board, k, e)
      BY <1>2 DEF Upsert, WithEntry, Claimed
    <2> QED BY <1>1, <2>1, ReplacedIs DEF Claimed
  <1>4. \A i \in 1..n : b[i].user = board[i].user
    BY <1>2, <1>3 DEF Claimed
  <1>5. Ranked(b) = Ranked(board)
    BY <1>1, <1>3, <1>4 DEF Ranked
  <1>6. \A i \in 1..n : b[i].winnings = after[b[i].user].winnings
    <2> TAKE i \in 1..n
    <2>1. CASE i = k
      BY <1>3, <2>1 DEF Claimed
    <2>2. CASE i # k
      <3>1. board[i].user # p /\ board[i].user \in Players /\ b[i] = board[i]
        BY <1>1, <1>2, <1>3, <2>2, EntryIs DEF SoundBoard
      <3>2. board[i].winnings = rec[board[i].user].winnings
        BY <1>1 DEF SoundBoard
      <3> QED BY <3>1, <3>2 DEF Claimed
    <2> QED BY <2>1, <2>2
  <1> DEFINE won == {x \in Players : rec[x].won > 0}
             wonAfter == {x \in Players : after[x].won > 0}
  <1>7. wonAfter = won
    <2>1. p \in won
      BY DEF SoundBoard
    <2>2. wonAfter = won \cup {p}
      BY ClaimedIs
    <2> QED BY <2>1, <2>2
  <1>8. ASSUME NEW x \in won \ Ranked(board), NEW q \in Ranked(board)
        PROVE  after[x].winnings <= after[q].winnings
    <2>1. rec[x].winnings <= rec[q].winnings /\ q \in Players /\ x # p
      BY DEF SoundBoard
    <2>2. PICK a \in Nat, c \in Nat, d \in Nat :
            /\ a = rec[x].winnings /\ c = rec[q].winnings /\ d = after[q].winnings
            /\ c <= d /\ after[x].winnings = a
      BY <2>1, ClaimedIs
    <2>3. a <= d
      BY <2>1, <2>2
    <2> QED BY <2>2, <2>3
  <1>9. /\ \A i, j \in 1..n : b[i].user = b[j].user => i = j
        /\ n <= BoardSize
        /\ n = BoardSize \/ Ranked(b) = wonAfter
        /\ Ranked(b) \subseteq wonAfter
    BY <1>1, <1>4, <1>5, <1>7 DEF SoundBoard
  <1>10. \A x \in wonAfter \ Ranked(b), q \in Ranked(b) :
            after[x].winnings <= after[q].winnings
    BY <1>5, <1>7, <1>8
  <1> HIDE DEF won, wonAfter
  <1> QED BY <1>3, <1>6, <1>9, <1>10 DEF SoundBoard, wonAfter

(* A new entry takes a free place: all other winners are on the board.     *)
LEMMA UpsertFree ==
  ASSUME NEW board \in Seq(BoardEntries), NEW rec, NEW after, NEW p, NEW e,
         Claimed(rec, after, p, e), SoundBoard(board, rec),
         p \notin Ranked(board), Len(board) < BoardSize
  PROVE  SoundBoard(Upsert("winnings", board, e), after)
  <1>1. PICK n \in Nat : n = Len(board) /\ n + 1 <= BoardSize /\ n # BoardSize
    BY StandingsAssumption
  <1>2. PICK b : /\ b = Upsert("winnings", board, e) /\ Len(b) = n + 1
                 /\ \A i \in 1..(n + 1) : b[i] = IF i = n + 1 THEN e ELSE board[i]
    <2>1. Upsert("winnings", board, e) = Append(board, e)
      BY DEF Upsert, Claimed
    <2> QED BY <1>1, <2>1, AppendedIs DEF Claimed
  <1> DEFINE won == {x \in Players : rec[x].won > 0}
             wonAfter == {x \in Players : after[x].won > 0}
  <1>3. \A i \in 1..n : b[i] = board[i] /\ i \in 1..(n + 1)
    BY <1>1, <1>2
  <1>4. b[n + 1] = e /\ n + 1 \in 1..(n + 1)
    BY <1>1, <1>2
  <1>5. \A i \in 1..(n + 1) : i \in 1..n \/ i = n + 1
    BY <1>1
  <1>6. \A i \in 1..n : board[i].user # p /\ board[i].user \in Players
    BY <1>1, EntryIs DEF Ranked
  <1>7. Ranked(b) = Ranked(board) \cup {p}
    <2>1. Ranked(board) = {board[i].user : i \in 1..n}
      BY <1>1 DEF Ranked
    <2>2. Ranked(b) = {b[i].user : i \in 1..(n + 1)}
      BY <1>2 DEF Ranked
    <2>3. e.user = p
      BY DEF Claimed
    <2>4. ASSUME NEW u \in Ranked(b) PROVE u \in Ranked(board) \cup {p}
      <3>1. PICK i \in 1..(n + 1) : u = b[i].user
        BY <2>2
      <3> QED BY <1>3, <1>4, <1>5, <2>1, <2>3, <3>1
    <2>5. ASSUME NEW u \in Ranked(board) PROVE u \in Ranked(b)
      <3>1. PICK i \in 1..n : u = board[i].user
        BY <2>1
      <3> QED BY <1>3, <2>2, <3>1
    <2>6. p \in Ranked(b)
      BY <1>4, <2>2, <2>3
    <2> QED BY <2>4, <2>5, <2>6
  <1>8. wonAfter = won \cup {p} /\ Ranked(board) = won
    BY <1>1, ClaimedIs DEF SoundBoard
  <1>9. \A i, j \in 1..(n + 1) : b[i].user = b[j].user => i = j
    <2>1. \A i, j \in 1..n : board[i].user = board[j].user => i = j
      BY <1>1 DEF SoundBoard
    <2>2. e.user = p
      BY DEF Claimed
    <2> QED BY <1>3, <1>4, <1>5, <1>6, <2>1, <2>2
  <1>10. \A i \in 1..(n + 1) : b[i].winnings = after[b[i].user].winnings
    <2> TAKE i \in 1..(n + 1)
    <2>1. CASE i = n + 1
      BY <1>4, <2>1 DEF Claimed
    <2>2. CASE i \in 1..n
      <3>1. board[i].winnings = rec[board[i].user].winnings
        BY <1>1, <2>2 DEF SoundBoard
      <3>2. after[board[i].user] = rec[board[i].user]
        BY <1>6, <2>2 DEF Claimed
      <3> QED BY <1>3, <2>2, <3>1, <3>2
    <2> QED BY <1>5, <2>1, <2>2
  <1> HIDE DEF won, wonAfter
  <1>11. Ranked(b) = wonAfter
    BY <1>7, <1>8
  <1>12. \A x \in wonAfter \ Ranked(b) : FALSE
    BY <1>11
  <1> QED BY <1>1, <1>2, <1>9, <1>10, <1>11, <1>12 DEF SoundBoard, wonAfter

(* A new entry takes the place of the lowest, if it is above it.           *)
LEMMA UpsertFull ==
  ASSUME NEW board \in Seq(BoardEntries), NEW rec, NEW after, NEW p, NEW e,
         Claimed(rec, after, p, e), SoundBoard(board, rec),
         p \notin Ranked(board), ~(Len(board) < BoardSize)
  PROVE  SoundBoard(Upsert("winnings", board, e), after)
  <1>1. PICK n \in Nat : n = Len(board) /\ n = BoardSize /\ n > 0
    BY StandingsAssumption DEF SoundBoard
  <1> DEFINE won == {x \in Players : rec[x].won > 0}
             wonAfter == {x \in Players : after[x].won > 0}
             least == Lowest("winnings", board)
  <1>2. PICK k \in 1..n : /\ k = least
                          /\ \A j \in 1..n : board[k].winnings <= board[j].winnings
    BY <1>1, LowestIs
  <1>3. \A i \in 1..n : /\ board[i].user # p /\ board[i].user \in Players
                        /\ board[i].winnings = rec[board[i].user].winnings
                        /\ board[i].winnings \in Nat
    BY <1>1, EntryIs DEF Ranked, SoundBoard
  <1>4. Ranked(board) = {board[i].user : i \in 1..n}
    BY <1>1 DEF Ranked
  <1>5. PICK l \in Nat : l = board[k].winnings /\ l = rec[board[k].user].winnings
    BY <1>3
  <1>6. \A q \in Ranked(board) : l <= rec[q].winnings
    BY <1>2, <1>3, <1>4, <1>5
  <1>7. PICK w \in Nat : w = e.winnings /\ w = after[p].winnings /\ p \in Players
    <2>1. p \in Players /\ e.winnings = after[p].winnings
      BY DEF Claimed
    <2> QED BY <2>1, ClaimedIs
  <1>8. /\ wonAfter = won \cup {p} /\ Ranked(board) \subseteq won
        /\ won \subseteq Players
    BY ClaimedIs DEF SoundBoard
  <1>9. \A x \in won \ Ranked(board) : rec[x].winnings <= l
    BY <1>4, <1>5 DEF SoundBoard
  <1>10. \A x \in Players : rec[x].winnings \in Nat
    BY ClaimedIs
  <1>11. \A x \in Players \ {p} : after[x] = rec[x]
    BY DEF Claimed
  <1>12. Upsert("winnings", board, e) = IF w > l THEN WithEntry(board, k, e) ELSE board
    <2>1. Upsert("winnings", board, e)
          = IF Above("winnings", e, board[k]) THEN WithEntry(board, k, e) ELSE board
      BY <1>2 DEF Upsert, Claimed, WithEntry
    <2>2. Above("winnings", e, board[k]) <=> w > l
      BY <1>5, <1>7 DEF Above
    <2> QED BY <2>1, <2>2
  <1> HIDE DEF won, wonAfter, least
  <1>13. CASE w > l
    <2>1. PICK b : /\ b = Upsert("winnings", board, e) /\ Len(b) = n
                   /\ \A i \in 1..n : b[i] = IF i = k THEN e ELSE board[i]
      <3>1. Upsert("winnings", board, e) = WithEntry(board, k, e)
        BY <1>12, <1>13
      <3>2. /\ Len(WithEntry(board, k, e)) = n
            /\ \A i \in 1..n : WithEntry(board, k, e)[i] = IF i = k THEN e ELSE board[i]
        <4>1. e \in BoardEntries
          BY DEF Claimed
        <4>2. /\ Len(WithEntry(board, k, e)) = Len(board)
              /\ \A i \in 1..Len(board) :
                   WithEntry(board, k, e)[i] = IF i = k THEN e ELSE board[i]
          BY <4>1, ReplacedIs
        <4> QED BY <1>1, <4>2
      <3> QED BY <3>1, <3>2
    <2>2. e.user = p
      BY DEF Claimed
    <2>3. \A i, j \in 1..n : board[i].user = board[j].user => i = j
      BY <1>1 DEF SoundBoard
    <2>4. \A i, j \in 1..n : b[i].user = b[j].user => i = j
      BY <1>3, <2>1, <2>2, <2>3
    <2>5. Ranked(b) = (Ranked(board) \ {board[k].user}) \cup {p}
      <3>1. Ranked(b) = {b[i].user : i \in 1..n}
        BY <2>1 DEF Ranked
      <3>2. ASSUME NEW u \in Ranked(b)
            PROVE  u \in (Ranked(board) \ {board[k].user}) \cup {p}
        <4>1. PICK i \in 1..n : u = b[i].user
          BY <3>1
        <4>2. CASE i = k
          BY <2>1, <2>2, <4>1, <4>2
        <4>3. CASE i # k
          <5>1. u = board[i].user
            BY <2>1, <4>1, <4>3
          <5> QED BY <1>4, <2>3, <4>3, <5>1
        <4> QED BY <4>2, <4>3
      <3>3. ASSUME NEW u \in Ranked(board), u # board[k].user PROVE u \in Ranked(b)
        <4>1. PICK i \in 1..n : u = board[i].user
          BY <1>4
        <4>2. b[i].user = u
          BY <2>1, <3>3, <4>1
        <4> QED BY <3>1, <4>2
      <3>4. p \in Ranked(b)
        BY <2>1, <2>2, <3>1
      <3> QED BY <3>2, <3>3, <3>4
    <2>6. \A i \in 1..n : b[i].winnings = after[b[i].user].winnings
      <3> TAKE i \in 1..n
      <3>1. CASE i = k
        BY <1>7, <2>1, <2>2, <3>1
      <3>2. CASE i # k
        BY <1>3, <1>11, <2>1, <3>2
      <3> QED BY <3>1, <3>2
    <2>7. Ranked(b) \subseteq wonAfter
      BY <1>8, <2>5
    <2>8. ASSUME NEW x \in wonAfter \ Ranked(b), NEW q \in Ranked(b)
          PROVE  after[x].winnings <= after[q].winnings
      <3>1. x # p /\ x \in Players /\ (x = board[k].user \/ x \in won \ Ranked(board))
        BY <1>8, <2>5
      <3>2. PICK a \in Nat : a = rec[x].winnings /\ a = after[x].winnings
        BY <1>10, <1>11, <3>1
      <3>3. a <= l
        <4>1. CASE x = board[k].user
          <5>1. a = l
            BY <1>5, <3>2, <4>1
          <5> QED BY <1>5, <5>1
        <4>2. CASE x \in won \ Ranked(board)
          BY <1>9, <3>2, <4>2
        <4> QED BY <3>1, <4>1, <4>2
      <3>4. CASE q = p
        BY <1>7, <1>13, <3>2, <3>3, <3>4
      <3>5. CASE q # p
        <4>1. q \in Ranked(board) /\ q \in Players
          BY <1>8, <2>5, <3>5
        <4>2. PICK c \in Nat : c = rec[q].winnings /\ c = after[q].winnings /\ l <= c
          BY <1>6, <1>10, <1>11, <3>5, <4>1
        <4>3. a <= c
          BY <1>5, <3>2, <3>3, <4>2, SMTT(60)
        <4> QED BY <3>2, <4>2, <4>3
      <3> QED BY <3>4, <3>5
    <2>9. n <= BoardSize
      BY <1>1
    <2> QED BY <1>1, <2>1, <2>4, <2>6, <2>7, <2>8, <2>9 DEF SoundBoard, wonAfter
  <1>14. CASE ~(w > l)
    <2>1. Upsert("winnings", board, e) = board
      BY <1>12, <1>14
    <2>2. \A i \in 1..n : board[i].winnings = after[board[i].user].winnings
      BY <1>3, <1>11
    <2>3. ASSUME NEW x \in wonAfter \ Ranked(board), NEW q \in Ranked(board)
          PROVE  after[x].winnings <= after[q].winnings
      <3>1. q # p /\ q \in Players
        BY <1>8
      <3>2. PICK c \in Nat : c = rec[q].winnings /\ c = after[q].winnings /\ l <= c
        BY <1>6, <1>10, <1>11, <3>1
      <3>3. CASE x = p
        BY <1>5, <1>7, <1>14, <3>2, <3>3
      <3>4. CASE x # p
        <4>1. x \in won \ Ranked(board) /\ x \in Players
          BY <1>8, <3>4
        <4>2. PICK a \in Nat : a = rec[x].winnings /\ a = after[x].winnings /\ a <= l
          BY <1>9, <1>10, <1>11, <3>4, <4>1
        <4>3. a <= c
          BY <1>5, <3>2, <4>2, SMTT(60)
        <4> QED BY <3>2, <4>2, <4>3
      <3> QED BY <3>3, <3>4
    <2>4. /\ \A i, j \in 1..n : board[i].user = board[j].user => i = j
          /\ n <= BoardSize /\ Ranked(board) \subseteq wonAfter
      BY <1>1, <1>8 DEF SoundBoard
    <2> QED BY <1>1, <2>1, <2>2, <2>3, <2>4 DEF SoundBoard, wonAfter
  <1> QED BY <1>5, <1>7, <1>13, <1>14

LEMMA BoardInvInit == StandingsInit => BoardInv
  <1> SUFFICES ASSUME StandingsInit PROVE BoardInv
    OBVIOUS
  <1>1. StandingsTypeOK
    <2>1. [p \in Players |-> [bets |-> 0, wagered |-> 0, winnings |-> 0,
                              won |-> 0, rate |-> 0]] \in [Players -> Records]
      BY DEF Records
    <2>2. [b \in Boards |-> <<>>] \in [Boards -> Seq(BoardEntries)]
      OBVIOUS
    <2>3. claims \in 0..MaxClaims
      BY StandingsAssumption DEF StandingsInit
    <2> QED BY <2>1, <2>2, <2>3 DEF StandingsInit, StandingsTypeOK
  <1>2. boards["winnings"] = <<>> /\ Len(boards["winnings"]) = 0
    BY DEF StandingsInit, Boards
  <1>3. \A p \in Players : record[p].won = 0
    BY DEF StandingsInit
  <1>4. Ranked(boards["winnings"]) = {}
    BY <1>2 DEF Ranked
  <1>5. {p \in Players : record[p].won > 0} = {}
    BY <1>3
  <1> QED BY <1>1, <1>2, <1>4, <1>5, StandingsAssumption DEF BoardInv, SoundBoard

(* What a claim makes of a record, and of the entry made from it.          *)
LEMMA AfterClaimIs ==
  ASSUME NEW r \in Records, NEW prize \in Nat
  PROVE  /\ AfterClaim(r, prize) \in Records
         /\ AfterClaim(r, prize).won > 0
         /\ AfterClaim(r, prize).winnings = r.winnings + prize
  <1>1. PICK bs \in Nat, wa \in Nat, wi \in Nat, wo \in Nat, ra \in WeightScale :
          r = RecordOf(bs, wa, wi, wo, ra)
    BY RecordParts
  <1>2. PICK wi2 \in Nat, wo2 \in Nat :
          wi2 = wi + prize /\ wo2 = wo + 1 /\ wo2 > 0
    BY <1>1
  <1>3. [r EXCEPT !.winnings = @ + prize, !.won = @ + 1] = RecordOf(bs, wa, wi2, wo2, ra)
    <2>1. r.winnings = wi /\ r.won = wo
      BY <1>1 DEF RecordOf
    <2>2. [r EXCEPT !.winnings = @ + prize, !.won = @ + 1]
          = [r EXCEPT !.winnings = wi2, !.won = wo2]
      BY <1>2, <2>1
    <2>3. [RecordOf(bs, wa, wi, wo, ra) EXCEPT !.winnings = wi2, !.won = wo2]
          = RecordOf(bs, wa, wi2, wo2, ra)
      <3>1. [RecordOf(bs, wa, wi, wo, ra) EXCEPT !.winnings = wi2]
            = RecordOf(bs, wa, wi2, wo, ra)
        BY DEF RecordOf
      <3>2. [RecordOf(bs, wa, wi2, wo, ra) EXCEPT !.won = wo2]
            = RecordOf(bs, wa, wi2, wo2, ra)
        BY DEF RecordOf
      <3>3. [RecordOf(bs, wa, wi, wo, ra) EXCEPT !.winnings = wi2, !.won = wo2]
            = [[RecordOf(bs, wa, wi, wo, ra) EXCEPT !.winnings = wi2] EXCEPT !.won = wo2]
        OBVIOUS
      <3> QED BY <3>1, <3>2, <3>3
    <2> QED BY <1>1, <2>2, <2>3
  <1>4. WinRate(RecordOf(bs, wa, wi2, wo2, ra)) \in WeightScale
    <2>1. CASE bs = 0
      BY <1>1, <2>1 DEF WinRate, RecordOf
    <2>2. CASE bs # 0
      <3>1. PICK m \in Nat : m = 10000
        OBVIOUS
      <3>2. PICK a \in Nat : a = wo2 * m
        BY <1>2, <3>1
      <3>3. a <= a * bs /\ bs > 0
        BY <1>1, <2>2, <3>2
      <3>4. PICK q \in 0..a : q = a \div bs
        BY <1>1, <3>2, <3>3, QuotientWithin
      <3>5. WinRate(RecordOf(bs, wa, wi2, wo2, ra)) = IF q < m THEN q ELSE m
        BY <2>2, <3>1, <3>2, <3>4 DEF WinRate, RecordOf
      <3>6. (IF q < m THEN q ELSE m) \in 0..m
        <4>1. \A x, y \in Nat : (IF x < y THEN x ELSE y) \in 0..y
          OBVIOUS
        <4>2. q \in Nat
          BY <3>2, <3>4
        <4> QED BY <3>1, <4>1, <4>2
      <3>7. 0..m = WeightScale
        BY <3>1 DEF WeightScale
      <3> QED BY <3>5, <3>6, <3>7
    <2> QED BY <2>1, <2>2
  <1>5. PICK w \in WeightScale : w = WinRate(RecordOf(bs, wa, wi2, wo2, ra))
    BY <1>4
  <1>6. AfterClaim(r, prize) = RecordOf(bs, wa, wi2, wo2, w)
    <2>1. AfterClaim(r, prize)
          = [RecordOf(bs, wa, wi2, wo2, ra) EXCEPT
               !.rate = WinRate(RecordOf(bs, wa, wi2, wo2, ra))]
      BY <1>3 DEF AfterClaim
    <2>2. AfterClaim(r, prize) = [RecordOf(bs, wa, wi2, wo2, ra) EXCEPT !.rate = w]
      BY <1>5, <2>1
    <2> QED BY <2>2 DEF RecordOf
  <1>7. AfterClaim(r, prize) \in Records
    <2>1. RecordOf(bs, wa, wi2, wo2, w) \in Records
      BY <1>1, <1>2, <1>5, RecordParts
    <2> QED BY <1>6, <2>1
  <1>8. r.winnings = wi /\ AfterClaim(r, prize).winnings = wi2
        /\ AfterClaim(r, prize).won = wo2
    BY <1>1, <1>6 DEF RecordOf
  <1> QED BY <1>2, <1>7, <1>8

LEMMA RecordWinningsClaimedKeeps ==
  ASSUME BoardInv, NEW p \in Players, NEW prize \in Prizes, NEW fee \in {0, 1},
         RecordWinningsClaimed(p, prize, fee)
  PROVE  BoardInv'
  <1>1. PICK r \in Records : r = AfterClaim(record[p], prize) /\ r.won > 0
                            /\ r.winnings = record[p].winnings + prize
    <2>1. record[p] \in Records /\ prize \in Nat
      BY StandingsAssumption DEF BoardInv, StandingsTypeOK
    <2> QED BY <2>1, AfterClaimIs
  <1>2. PICK e : e = EntryOf(p, r)
    OBVIOUS
  <1>3. e \in BoardEntries /\ e.user = p /\ e.winnings = r.winnings
    <2>1. PICK bs \in Nat, wa \in Nat, wi \in Nat, wo \in Nat, ra \in WeightScale :
            r = RecordOf(bs, wa, wi, wo, ra)
      BY <1>1, RecordParts
    <2>2. r.winnings = wi /\ r.rate = ra /\ r.bets = bs
      BY <2>1 DEF RecordOf
    <2>3. PICK x : x = [user |-> p, winnings |-> wi, rate |-> ra, bets |-> bs]
      OBVIOUS
    <2>4. e = x
      BY <1>2, <2>2, <2>3, Zenon DEF EntryOf
    <2>5. x \in BoardEntries /\ x.user = p /\ x.winnings = wi
      BY <2>1, <2>3, EntriesByScale, EntryOfParts, Zenon
    <2> QED BY <2>2, <2>4, <2>5, Zenon
  <1>4. /\ record \in [Players -> Records]
        /\ record' = [record EXCEPT ![p] = r]
        /\ boards' = [by \in Boards |-> Upsert(by, boards[by], e)]
        /\ claims' \in 0..MaxClaims
        /\ platform' = [platform EXCEPT !.fees = @ + fee]
    <2>1. claims \in 0..MaxClaims /\ claims < MaxClaims /\ claims' = claims + 1
      BY DEF RecordWinningsClaimed, BoardInv, StandingsTypeOK
    <2>2. claims' \in 0..MaxClaims
      BY <2>1, StandingsAssumption
    <2> QED BY <1>1, <1>2, <2>2 DEF RecordWinningsClaimed, BoardInv, StandingsTypeOK
  <1>5. record' \in [Players -> Records]
    BY <1>1, <1>4
  <1>6. \A by \in Boards : boards[by] \in Seq(BoardEntries)
    BY DEF BoardInv, StandingsTypeOK
  <1>7. boards' \in [Boards -> Seq(BoardEntries)]
    <2>1. \A by \in Boards : Upsert(by, boards[by], e) \in Seq(BoardEntries)
      BY <1>3, <1>6, UpsertType
    <2> QED BY <1>4, <2>1
  <1>8. platform' \in [created : Nat, bets : Nat, volume : Nat, fees : Nat, open : Nat]
    <2>1. platform \in [created : Nat, bets : Nat, volume : Nat, fees : Nat, open : Nat]
      BY DEF BoardInv, StandingsTypeOK
    <2>2. platform.fees + fee \in Nat
      BY <2>1
    <2> QED BY <1>4, <2>1, <2>2
  <1>9. StandingsTypeOK'
    BY <1>4, <1>5, <1>7, <1>8 DEF StandingsTypeOK
  <1>10. Claimed(record, record', p, e)
    <2>1. record[p].winnings <= r.winnings
      <3>1. record[p].winnings \in Nat /\ prize \in Nat
        BY <1>4, RecordIs, StandingsAssumption
      <3> QED BY <1>1, <3>1
    <2> QED BY <1>1, <1>3, <1>4, <1>5, <2>1 DEF Claimed
  <1>11. /\ boards["winnings"] \in Seq(BoardEntries)
         /\ SoundBoard(boards["winnings"], record)
         /\ boards'["winnings"] = Upsert("winnings", boards["winnings"], e)
    BY <1>4, <1>6 DEF BoardInv, Boards
  <1>12. SoundBoard(boards'["winnings"], record')
    BY <1>10, <1>11, UpsertRanked, UpsertFree, UpsertFull
  <1> QED BY <1>9, <1>12 DEF BoardInv

LEMMA BoardInvStep ==
  BoardInv /\ [StandingsNext]_standingsVars => BoardInv'
  <1> SUFFICES ASSUME BoardInv, [StandingsNext]_standingsVars PROVE BoardInv'
    OBVIOUS
  <1>1. /\ platform \in [created : Nat, bets : Nat, volume : Nat, fees : Nat, open : Nat]
        /\ record \in [Players -> Records]
        /\ boards \in [Boards -> Seq(BoardEntries)] /\ claims \in 0..MaxClaims
    BY DEF BoardInv, StandingsTypeOK
  <1>2. PICK a \in Nat, b \in Nat, c \in Nat, d \in Nat, o \in Nat :
          platform = [created |-> a, bets |-> b, volume |-> c, fees |-> d, open |-> o]
    BY <1>1
  <1>3. CASE RecordMarketCreated
    <2>1. platform' = [created |-> a + 1, bets |-> b, volume |-> c, fees |-> d,
                       open |-> o + 1]
      BY <1>2, <1>3 DEF RecordMarketCreated
    <2>2. a + 1 \in Nat /\ o + 1 \in Nat
      BY <1>2
    <2> QED BY <1>1, <1>2, <1>3, <2>1, <2>2
            DEF RecordMarketCreated, BoardInv, StandingsTypeOK
  <1>4. CASE RecordMarketResolved
    <2>1. PICK x \in Nat : x = IF o > 0 THEN o - 1 ELSE 0
      BY <1>2
    <2>2. platform' = [created |-> a, bets |-> b, volume |-> c, fees |-> d, open |-> x]
      BY <1>2, <1>4, <2>1 DEF RecordMarketResolved
    <2> QED BY <1>1, <1>2, <1>4, <2>1, <2>2
            DEF RecordMarketResolved, BoardInv, StandingsTypeOK
  <1>5. ASSUME NEW p \in Players, NEW amount \in BetSizes, RecordBetPlaced(p, amount)
        PROVE  BoardInv'
    <2>1. amount \in Nat
      BY StandingsAssumption
    <2>2. platform' = [created |-> a, bets |-> b + 1, volume |-> c + amount,
                       fees |-> d, open |-> o]
      BY <1>2, <1>5 DEF RecordBetPlaced
    <2>3. b + 1 \in Nat /\ c + amount \in Nat
      BY <1>2, <2>1
    <2>4. platform' \in [created : Nat, bets : Nat, volume : Nat, fees : Nat, open : Nat]
      BY <1>2, <2>2, <2>3
    <2>5. record' = [record EXCEPT ![p].bets = @ + 1, ![p].wagered = @ + amount]
          /\ UNCHANGED <<boards, claims>>
      BY <1>5 DEF RecordBetPlaced
    <2>6. PICK r \in Records : r = record[p]
      BY <1>1
    <2>7. PICK s : s = [r EXCEPT !.bets = @ + 1, !.wagered = @ + amount]
      OBVIOUS
    <2>8. s \in Records /\ s.won = r.won /\ s.winnings = r.winnings
      <3>1. PICK bs \in Nat, wa \in Nat, wi \in Nat, wo \in Nat, ra \in WeightScale :
              r = RecordOf(bs, wa, wi, wo, ra)
        BY <2>6, RecordParts
      <3>2. s = RecordOf(bs + 1, wa + amount, wi, wo, ra)
        BY <2>7, <3>1 DEF RecordOf
      <3>3. bs + 1 \in Nat /\ wa + amount \in Nat
        BY <2>1, <3>1
      <3>4. s \in Records
        BY <3>1, <3>2, <3>3, RecordParts
      <3>5. s.won = wo /\ r.won = wo /\ s.winnings = wi /\ r.winnings = wi
        BY <3>1, <3>2 DEF RecordOf
      <3> QED BY <3>4, <3>5
    <2>9. record' = [record EXCEPT ![p] = s]
      BY <1>1, <2>5, <2>6, <2>7
    <2>10. record' \in [Players -> Records]
      BY <1>1, <2>8, <2>9
    <2>11. StandingsTypeOK'
      BY <1>1, <2>4, <2>5, <2>10 DEF StandingsTypeOK
    <2>12. \A x \in Players : record'[x].won = record[x].won
                            /\ record'[x].winnings = record[x].winnings
      BY <1>1, <2>6, <2>8, <2>9
    <2>13. \A i \in 1..Len(boards["winnings"]) : boards["winnings"][i].user \in Players
      <3>1. boards["winnings"] \in Seq(BoardEntries)
        BY <1>1 DEF Boards
      <3> QED BY <3>1, EntryIs
    <2>14. {x \in Players : record'[x].won > 0} = {x \in Players : record[x].won > 0}
      BY <2>12
    <2>15. Ranked(boards["winnings"]) \subseteq Players
      BY <2>13 DEF Ranked
    <2>16. SoundBoard(boards["winnings"], record')
      BY <2>12, <2>13, <2>14, <2>15 DEF SoundBoard, BoardInv
    <2> QED BY <2>5, <2>11, <2>16 DEF BoardInv
  <1>6. CASE UNCHANGED standingsVars
    BY <1>6 DEF BoardInv, StandingsTypeOK, standingsVars
  <1> QED BY <1>3, <1>4, <1>5, <1>6, RecordWinningsClaimedKeeps DEF StandingsNext

(* The board of winnings shows those that won most, for any players and    *)
(* prizes and any size of the board (leaderboard.rs).                      *)
THEOREM BoardShowsTheBest == StandingsSpec => []WinningsBoardIsTop
  <1>1. BoardInv => WinningsBoardIsTop
    <2> SUFFICES ASSUME BoardInv PROVE WinningsBoardIsTop
      OBVIOUS
    <2>1. boards["winnings"] \in Seq(BoardEntries)
      BY DEF BoardInv, StandingsTypeOK, Boards
    <2>2. Len(boards["winnings"]) <= BoardSize /\ BoardSize \in Nat
      BY StandingsAssumption DEF BoardInv, SoundBoard
    <2>3. LET top == Top("winnings", BoardSize)
          IN  /\ Ranked(top) = Ranked(boards["winnings"])
              /\ \A i \in 1..(Len(top) - 1) : top[i].winnings >= top[i + 1].winnings
      BY <2>1, <2>2, TopIsSorted
    <2> QED BY <2>3 DEF BoardInv, SoundBoard, WinningsBoardIsTop, Winners
  <1> QED BY <1>1, BoardInvInit, BoardInvStep, PTL DEF StandingsSpec

-----------------------------------------------------------------------------
(* The composition.                                                        *)

(* Each component leaves the clock alone or lets it tick.                  *)
ClockStep == UNCHANGED now \/ Tick

LEMMA DisputesClock == DisputesNext => ClockStep
  BY DEF DisputesNext, ClockStep, ProcessDispute, VoteOnDispute, ResolveDispute,
         CommunityVote, OracleAnswers, ForceResolve, OverrideAnswer,
         ExtendMarketDuration, Configure, SetAntiGriefFloor, SetHistoryCap,
         SetDisputeStakeCap, SetDisputeCumulativeStakeCap,
         SetCumulativeExtensionCap

LEMMA TimeoutsClock == TimeoutsNext => ClockStep
  BY DEF TimeoutsNext, ClockStep, SetDisputeTimeout, ExtendDisputeTimeout,
         AutoResolveDisputeOnTimeout

LEMMA VaultClock == VaultNext => ClockStep
  BY DEF VaultNext, ClockStep, RecordFeeCollection, WithdrawCollectedFees,
         WithdrawFees, SetSchedule

LEMMA FeeConfigClock == FeeConfigNext => ClockStep
  BY DEF FeeConfigNext, ClockStep, CommitFeeConfig, RevealFeeConfig, QueueUpdate,
         ApplyUpdate, CancelQueuedUpdate

LEMMA AdminsClock == AdminsNext => ClockStep
  <1>1. RosterStep => UNCHANGED now
    BY DEF RosterStep, MigrateToMultiAdmin, AssignRole, AddAdmin, RemoveAdmin,
           UpdateAdminRole, SetActive, DeactivateRole, TransferAdmin
  <1>2. ApprovalStep => UNCHANGED now
    BY DEF ApprovalStep, ProposeThreshold, ConfirmThreshold,
           CancelThresholdProposal, CreatePendingAction, ApproveAction,
           ExecuteAction
  <1> QED BY <1>1, <1>2 DEF AdminsNext, ClockStep

LEMMA RateClock == RateNext => ClockStep
  BY DEF RateNext, ClockStep, UpdateRateLimits, AdmitCall, DropEntry

LEMMA ArchiveClock == ArchiveNext => ClockStep
  BY DEF ArchiveNext, ClockStep, ArchiveEvent, PruneArchive, PruneNothing

LEMMA OraclesClock == OraclesNext => ClockStep
  BY DEF OraclesNext, ClockStep, InitializeWhitelist, AddCurator, RemoveCurator,
         AddSource, RemoveSource, SwitchSource, VerifyResult, SourcesRule, OverrideResult,
         ProcessCallback

LEMMA MedianClock == MedianNext => ClockStep
  BY DEF MedianNext, ClockStep, SetMedianConfig, ResolveWithMedian, FeedsRule

LEMMA OperationsClock == OperationsNext => ClockStep
  BY DisputesClock, TimeoutsClock, VaultClock, FeeConfigClock, AdminsClock,
     RateClock, ArchiveClock, OraclesClock, MedianClock
     DEF OperationsNext, ComponentStep, ClockStep

(* A step of the composition is, for a component, a step of its own, a     *)
(* tick, or nothing.                                                       *)
LEMMA StepOfEach ==
  ASSUME [OperationsNext]_operationsVars
  PROVE  /\ [DisputesNext]_<<now, disputesVars>>
         /\ [TimeoutsNext]_<<now, timeoutVars>>
         /\ [MultiSigNext]_multisigVars
         /\ [VaultNext]_<<now, vaultVars>>
         /\ [FeeConfigNext]_<<now, feeConfigVars>>
         /\ [AdminsNext]_<<now, adminsVars>>
         /\ [RateNext]_<<now, rateVars>>
         /\ [UpgradesNext]_upgradesVars
         /\ [RecoveryNext]_recoveryVars
         /\ [ArchiveNext]_<<now, archiveVars>>
         /\ [OraclesNext]_<<now, oracleVars>>
         /\ [StandingsNext]_standingsVars
         /\ [MarketIdsNext]_idsVars
         /\ [ListingNext]_listingVars
         /\ [BalancesNext]_balanceVars
         /\ [JournalsNext]_journalVars
         /\ [MedianNext]_<<now, medianVars>>
  <1>1. CASE UNCHANGED operationsVars
    BY <1>1 DEF operationsVars
  <1>2. CASE OperationsNext
    <2>1. ComponentStep /\ Others(subject)
      BY <1>2 DEF OperationsNext
    <2>2. UNCHANGED now \/ Tick
      BY <1>2, OperationsClock DEF ClockStep
    <2>3. [DisputesNext]_<<now, disputesVars>>
      BY <2>1, <2>2 DEF ComponentStep, Others, DisputesNext
    <2>4. [TimeoutsNext]_<<now, timeoutVars>>
      BY <2>1, <2>2 DEF ComponentStep, Others, TimeoutsNext
    <2>5. [MultiSigNext]_multisigVars
      BY <2>1 DEF ComponentStep, Others
    <2>6. [VaultNext]_<<now, vaultVars>>
      BY <2>1, <2>2 DEF ComponentStep, Others, VaultNext
    <2>7. [FeeConfigNext]_<<now, feeConfigVars>>
      BY <2>1, <2>2 DEF ComponentStep, Others, FeeConfigNext
    <2>8. [AdminsNext]_<<now, adminsVars>>
      BY <2>1, <2>2 DEF ComponentStep, Others, AdminsNext
    <2>9. [RateNext]_<<now, rateVars>>
      BY <2>1, <2>2 DEF ComponentStep, Others, RateNext
    <2>10. [UpgradesNext]_upgradesVars
      BY <2>1 DEF ComponentStep, Others
    <2>11. [RecoveryNext]_recoveryVars
      BY <2>1 DEF ComponentStep, Others
    <2>12. [ArchiveNext]_<<now, archiveVars>>
      BY <2>1, <2>2 DEF ComponentStep, Others, ArchiveNext
    <2>13. [OraclesNext]_<<now, oracleVars>>
      BY <2>1, <2>2 DEF ComponentStep, Others, OraclesNext
    <2>14. [StandingsNext]_standingsVars
      BY <2>1 DEF ComponentStep, Others
    <2>15. [MarketIdsNext]_idsVars
      BY <2>1 DEF ComponentStep, Others
    <2>16. [ListingNext]_listingVars
      BY <2>1 DEF ComponentStep, Others
    <2>17. [BalancesNext]_balanceVars
      BY <2>1 DEF ComponentStep, Others
    <2>18. [JournalsNext]_journalVars
      BY <2>1 DEF ComponentStep, Others
    <2>19. [MedianNext]_<<now, medianVars>>
      BY <2>1, <2>2 DEF ComponentStep, Others, MedianNext
    <2> QED BY <2>3, <2>4, <2>5, <2>6, <2>7, <2>8, <2>9, <2>10, <2>11, <2>12,
               <2>13, <2>14, <2>15, <2>16, <2>17, <2>18, <2>19
  <1> QED BY <1>1, <1>2

(* Followed together, the components behave each as it does alone.         *)
THEOREM OperationsImplementsEach ==
  OperationsSpec => /\ DisputesSpec /\ TimeoutsSpec /\ MultiSigSpec
                    /\ VaultSpec /\ FeeConfigSpec
                    /\ AdminsSpec /\ RateSpec /\ UpgradesSpec
                    /\ RecoverySpec /\ ArchiveSpec /\ OraclesSpec
                    /\ StandingsSpec /\ MarketIdsSpec /\ ListingSpec
                    /\ BalancesSpec /\ JournalsSpec /\ MedianSpec
  <1>1. OperationsInit => /\ DisputesInit /\ TimeoutsInit /\ MultiSigInit
                          /\ VaultInit /\ FeeConfigInit
                          /\ AdminsInit /\ RateInit /\ UpgradesInit
                          /\ RecoveryInit /\ ArchiveInit /\ OraclesInit
                          /\ StandingsInit /\ MarketIdsInit /\ ListingInit
                          /\ BalancesInit /\ JournalsInit /\ MedianInit
    BY DEF OperationsInit
  <1>2. [OperationsNext]_operationsVars =>
          /\ [DisputesNext]_<<now, disputesVars>>
          /\ [TimeoutsNext]_<<now, timeoutVars>>
          /\ [MultiSigNext]_multisigVars
          /\ [VaultNext]_<<now, vaultVars>>
          /\ [FeeConfigNext]_<<now, feeConfigVars>>
          /\ [AdminsNext]_<<now, adminsVars>>
          /\ [RateNext]_<<now, rateVars>>
          /\ [UpgradesNext]_upgradesVars
          /\ [RecoveryNext]_recoveryVars
          /\ [ArchiveNext]_<<now, archiveVars>>
          /\ [OraclesNext]_<<now, oracleVars>>
          /\ [StandingsNext]_standingsVars
          /\ [MarketIdsNext]_idsVars
          /\ [ListingNext]_listingVars
          /\ [BalancesNext]_balanceVars
          /\ [JournalsNext]_journalVars
          /\ [MedianNext]_<<now, medianVars>>
    BY StepOfEach
  <1> QED BY <1>1, <1>2, PTL
          DEF OperationsSpec, DisputesSpec, TimeoutsSpec, MultiSigSpec, VaultSpec,
              FeeConfigSpec, AdminsSpec, RateSpec, UpgradesSpec, RecoverySpec,
              ArchiveSpec, OraclesSpec, StandingsSpec, MarketIdsSpec, ListingSpec,
              BalancesSpec, JournalsSpec, MedianSpec

(* The records, counters, lists and copies each component stores keep      *)
(* their types, followed together, for any values of the constants.        *)
THEOREM OperationsTyped == OperationsSpec => []OperationsTypeOK
  <1>1. RateSpec => []RateTypeOK
    <2>1. RateInv => RateTypeOK
      BY DEF RateInv
    <2> QED BY <2>1, RateInvInit, RateInvStep, PTL DEF RateSpec
  <1>2. RecoverySpec => []RecoveryTypeOK
    <2>1. RecoveryInv => RecoveryTypeOK
      BY DEF RecoveryInv
    <2> QED BY <2>1, RecoveryInvInit, RecoveryInvStep, PTL DEF RecoverySpec
  <1>3. ArchiveSpec => []ArchiveTypeOK
    <2>1. ArchiveInv => ArchiveTypeOK
      BY DEF ArchiveInv
    <2> QED BY <2>1, ArchiveInvInit, ArchiveInvStep, PTL DEF ArchiveSpec
  <1>4. OraclesSpec => []OraclesTypeOK
    <2>1. VerdictInv => OraclesTypeOK
      BY DEF VerdictInv
    <2> QED BY <2>1, VerdictInvInit, VerdictInvStep, PTL DEF OraclesSpec
  <1>5. StandingsSpec => []StandingsTypeOK
    <2>1. BoardInv => StandingsTypeOK
      BY DEF BoardInv
    <2> QED BY <2>1, BoardInvInit, BoardInvStep, PTL DEF StandingsSpec
  <1>6. MarketIdsSpec => []MarketIdsTypeOK
    <2>1. MarketIdsInv => MarketIdsTypeOK
      BY DEF MarketIdsInv
    <2> QED BY <2>1, MarketIdsInvInit, MarketIdsInvStep, PTL DEF MarketIdsSpec
  <1>7. ListingSpec => []ListingTypeOK
    <2>1. ListingInv => ListingTypeOK
      BY DEF ListingInv
    <2> QED BY <2>1, ListingInvInit, ListingInvStep, PTL DEF ListingSpec
  <1>8. BalancesSpec => []BalancesTypeOK
    <2>1. BalancesInv => BalancesTypeOK
      BY DEF BalancesInv
    <2> QED BY <2>1, BalancesInvInit, BalancesInvStep, PTL DEF BalancesSpec
  <1>9. JournalsSpec => []JournalsTypeOK
    <2>1. JournalsInv => JournalsTypeOK
      BY DEF JournalsInv
    <2> QED BY <2>1, JournalsInvInit, JournalsInvStep, PTL DEF JournalsSpec
  <1>10. MedianSpec => []MedianTypeOK
    <2>1. MedianInv => MedianTypeOK
      BY DEF MedianInv
    <2> QED BY <2>1, MedianInvInit, MedianInvStep, PTL DEF MedianSpec
  <1>11. CodeTypeOK /\ VersionTypeOK => UpgradesTypeOK
    BY DEF CodeTypeOK, VersionTypeOK, UpgradesTypeOK, CodeRecords
  <1>12. (/\ DisputesTypeOK /\ TimeoutsTypeOK /\ MultiSigTypeOK
         /\ VaultTypeOK /\ FeeConfigTypeOK /\ AdminsTypeOK
         /\ UpgradesTypeOK /\ RateTypeOK /\ RecoveryTypeOK
         /\ ArchiveTypeOK /\ OraclesTypeOK /\ StandingsTypeOK
         /\ MarketIdsTypeOK /\ ListingTypeOK /\ BalancesTypeOK
         /\ JournalsTypeOK /\ MedianTypeOK)
       => OperationsTypeOK
    BY DEF OperationsTypeOK
  <1> QED BY <1>1, <1>2, <1>3, <1>4, <1>5, <1>6, <1>7, <1>8, <1>9,
             <1>10, <1>11, <1>12, OperationsImplementsEach, DisputesTyped,
             TimeoutsEnd, ApprovalsReachThreshold, WithdrawalsApart,
             NoUnannouncedChange, AdminsTyped, RecordsAreTrue, VersionsInOrder, PTL

(* What is proved of each component alone holds of it in the composition.  *)
THEOREM OperationsSafe ==
  OperationsSpec => [](/\ DisputeStakesBacked /\ OpenDisputesRecorded
                       /\ ExtensionsExplained
                       /\ TimeoutBounded /\ ApprovedByThreshold
                       /\ DrawsApart /\ ChangesWereAnnounced
                       /\ FeeConfigRemembered
                       /\ RosterCounted /\ ExecutedOnApproval
                       /\ RecordsMatchCode /\ UpgradesInOrder
                       /\ CallbacksOnce /\ BalancesCovered /\ RefundsAccounted
                       /\ NoMarketReplaced /\ TermsKept
                       /\ NothingLostSilently /\ IndexMatchesArchive
                       /\ RateBounded /\ VerdictByMajority
                       /\ MedianSplits /\ WinningsBoardIsTop)
  BY OperationsImplementsEach, StakesAreBacked, NoOpenDisputeIsLost,
     EndTimeExplained, TimeoutsEnd, ApprovalsReachThreshold, WithdrawalsApart,
     NoUnannouncedChange, HistoryIsTrue, RosterAgrees, ActionsWereApproved,
     RecordsAreTrue, VersionsInOrder, CallbacksAreNotReplayed,
     BalancesAreCovered, RefundsAreAccounted, IdentifiersStayApart,
     TermsAreKept, NothingIsLostSilently, IndexIsTheArchive, RateIsBounded,
     VerdictIsMajority, MedianIsFair, BoardShowsTheBest, PTL

=============================================================================
