------------------------ MODULE CircuitBreakerProofs ------------------------
(***************************************************************************)
(* The invariants of the circuit breaker, for every configuration          *)
(* validate_config accepts and any length of time.                         *)
(***************************************************************************)
EXTENDS CircuitBreaker, SequenceTheorems, TLAPS

(* What ties the admissions of a trial to its windows: outside a trial     *)
(* both are empty; nothing is admitted in the future or after the current  *)
(* window; and a call admitted a quota or more before the current window   *)
(* began lies a whole window before it.                                    *)
WindowsApart ==
  /\ breaker.state # "HalfOpen" => window = ClearWindow /\ admits = <<>>
  /\ window.start <= now
  /\ \A i \in 1..Len(admits) : admits[i] <= now
  /\ \A i \in 1..Len(admits) : admits[i] < window.start + Window
  /\ \A i \in 1..Len(admits) :
       i + Quota + window.admitted <= Len(admits)
         => admits[i] + Window <= window.start

IInv == /\ TypeOK
        /\ WindowIsFresh
        /\ ProbesAreOfThisTrial
        /\ WindowsApart
        /\ BurstBounded

(* Two breakers have recorded the same outcomes.                           *)
SameCounts(b, c) == /\ b.totalRequests = c.totalRequests
                    /\ b.errorCount = c.errorCount

(* Appending n copies of t to a sequence of times.                         *)
LEMMA AdmittedAt ==
  ASSUME NEW s \in Seq(Nat), NEW n \in Nat, NEW t \in Nat
  PROVE  LET r == s \o [i \in 1..n |-> t] IN
         /\ r \in Seq(Nat)
         /\ Len(r) = Len(s) + n
         /\ \A i \in 1..Len(r) : r[i] = IF i <= Len(s) THEN s[i] ELSE t
  <1> DEFINE c == [i \in 1..n |-> t]
             r == s \o c
  <1>1. c \in Seq(Nat) /\ Len(c) = n
    <2>1. c \in Seq(Nat)  OBVIOUS
    <2>2. Len(c) = n      BY <2>1, LenProperties
    <2> QED BY <2>1, <2>2
  <1>2. /\ r \in Seq(Nat)
        /\ Len(r) = Len(s) + n
        /\ \A i \in 1..Len(r) : r[i] = IF i <= Len(s) THEN s[i]
                                                      ELSE c[i - Len(s)]
    BY <1>1, ConcatProperties
  <1>3. \A i \in 1..Len(r) : i > Len(s) => c[i - Len(s)] = t
    BY <1>2
  <1> QED BY <1>2, <1>3

(* The breaker's initial state satisfies the invariant.                    *)
LEMMA InitIInv == Init => IInv
  BY ConfigAssumption, TimeAssumption
     DEF Init, IInv, TypeOK, Breakers, Windows, ClearWindow, WindowIsFresh,
         ProbesAreOfThisTrial, WindowsApart, BurstBounded

(* What the updates of the breaker's state leave in the fields the         *)
(* invariant is about.                                                     *)
LEMMA PausedKeeps ==
  ASSUME NEW b \in Breakers, now \in Nat,
         NEW scope \in {"BettingOnly", "Full"}, NEW allow \in BOOLEAN
  PROVE  /\ Paused(b, scope, allow) \in Breakers
         /\ Paused(b, scope, allow).state = "Open"
         /\ SameCounts(Paused(b, scope, allow), b)
         /\ Paused(b, scope, allow).halfOpenRequests = b.halfOpenRequests
  BY DEF Breakers, SameCounts, Paused

LEMMA HalfOpenedKeeps ==
  ASSUME NEW b \in Breakers, now \in Nat
  PROVE  /\ HalfOpened(b) \in Breakers
         /\ SameCounts(HalfOpened(b), b)
         /\ HalfOpened(b).halfOpenRequests = 0
  BY DEF Breakers, SameCounts, HalfOpened

LEMMA RecoveredKeeps ==
  ASSUME NEW b \in Breakers
  PROVE  /\ Recovered(b) \in Breakers
         /\ Recovered(b).state = "Closed"
         /\ SameCounts(Recovered(b), b)
         /\ Recovered(b).halfOpenRequests = 0
  BY DEF Breakers, SameCounts, Recovered

LEMMA TrippedKeeps ==
  ASSUME NEW b \in Breakers, now \in Nat
  PROVE  /\ Tripped(b) \in Breakers
         /\ Tripped(b).state = "Open"
         /\ SameCounts(Tripped(b), b)
         /\ Tripped(b).halfOpenRequests = b.halfOpenRequests
  BY DEF Breakers, SameCounts, Tripped

LEMMA SettledKeeps ==
  ASSUME NEW b \in Breakers, NEW state \in {"Closed", "Open"}
  PROVE  /\ Settled(b, state) \in Breakers
         /\ Settled(b, state).state = state
         /\ SameCounts(Settled(b, state), b)
         /\ Settled(b, state).halfOpenRequests = 0
  BY DEF Breakers, SameCounts, Settled

LEMMA CountedCounts ==
  ASSUME NEW b \in Breakers, NEW errors \in Nat
  PROVE  /\ Counted(b, errors) \in Breakers
         /\ Counted(b, errors).state = b.state
         /\ Counted(b, errors).totalRequests = b.totalRequests + 1
         /\ Counted(b, errors).errorCount = b.errorCount + errors
         /\ Counted(b, errors).halfOpenRequests = b.halfOpenRequests
  <1>0. b.totalRequests \in Nat /\ b.errorCount \in Nat
    BY DEF Breakers
  <1>1. PICK t \in Nat : t = b.totalRequests + 1
    BY <1>0
  <1>2. PICK e \in Nat : e = b.errorCount + errors
    BY <1>0
  <1>3. Counted(b, errors) = [b EXCEPT !.totalRequests = t, !.errorCount = e]
    BY <1>1, <1>2 DEF Counted
  <1> QED BY <1>1, <1>2, <1>3 DEF Breakers

LEMMA ProbedCounts ==
  ASSUME NEW b \in Breakers
  PROVE  /\ Probed(b) \in Breakers
         /\ Probed(b).state = b.state
         /\ SameCounts(Probed(b), b)
         /\ Probed(b).halfOpenRequests = b.halfOpenRequests + 1
  BY DEF Breakers, SameCounts, Probed

LEMMA UnprobedKeeps ==
  ASSUME NEW b \in Breakers, NEW state \in {"Closed", "Open"}
  PROVE  /\ Unprobed(b, state) \in Breakers
         /\ Unprobed(b, state).state = state
         /\ SameCounts(Unprobed(b, state), b)
         /\ Unprobed(b, state).halfOpenRequests = 0
  BY DEF Breakers, SameCounts, Unprobed

(* A step that writes a breaker through update_state keeps the invariant   *)
(* if the breaker it writes keeps the bounds and, in a trial, leaves the   *)
(* window alone and counts the probes right.                               *)
LEMMA UpdateStateKeepsIInv ==
  ASSUME IInv, NEW b \in Breakers, NEW w, UpdateState(b, w),
         now' = now, probes' \in Nat,
         b.halfOpenRequests < MaxProbes, b.totalRequests <= MaxRequests,
         b.errorCount <= b.totalRequests,
         b.state = "HalfOpen" => b.halfOpenRequests = probes' /\ w = window
  PROVE  IInv'
  <1> USE ConfigAssumption, TimeAssumption
  <1>1. breaker' = b
    BY DEF UpdateState
  <1>2. CASE b.state # "HalfOpen"
    <2>1. window' = ClearWindow /\ admits' = <<>>
      BY <1>2 DEF UpdateState
    <2>2. TypeOK'
      BY <1>1, <2>1 DEF IInv, TypeOK, ClearWindow, Windows
    <2> QED BY <1>1, <1>2, <2>1, <2>2
            DEF IInv, TypeOK, ClearWindow, WindowIsFresh, ProbesAreOfThisTrial,
                WindowsApart, BurstBounded
  <1>3. CASE b.state = "HalfOpen"
    <2>1. window' = window /\ admits' = admits
      BY <1>3 DEF UpdateState
    <2> QED BY <1>1, <1>3, <2>1
            DEF IInv, TypeOK, WindowIsFresh, ProbesAreOfThisTrial, WindowsApart,
                BurstBounded
  <1> QED BY <1>2, <1>3

(* Admitting n calls to a window.                                          *)
LEMMA AdmittingCounts ==
  ASSUME NEW w \in Windows, NEW n \in Nat
  PROVE  /\ Admitting(w, n) \in Windows
         /\ Admitting(w, n).admitted = w.admitted + n
         /\ Admitting(w, n).failures = w.failures
         /\ Admitting(w, n).start = w.start
  BY DEF Windows, Admitting

(* An admission keeps the bursts apart.                                    *)
LEMMA AdmitKeepsWindows ==
  ASSUME IInv, NEW n \in 1..2, Admit(n)
  PROVE  IInv'
  <1> USE ConfigAssumption, TimeAssumption
  <1>0. PICK w : w = CurrentWindow
    OBVIOUS
  <1>1. /\ now \in Nat
        /\ now' = now /\ breaker' = breaker /\ probes' = probes
        /\ w.admitted + n <= Quota
        /\ window' = Admitting(w, n)
        /\ breaker.state = "HalfOpen"
    BY <1>0 DEF IInv, TypeOK, Admit
  <1>2. /\ admits \in Seq(Nat) /\ Len(admits) \in Nat
        /\ \A i \in 1..Len(admits) : admits[i] \in Nat
    BY ElementOfSeq, LenProperties DEF IInv, TypeOK
  <1>3. /\ admits' \in Seq(Nat)
        /\ Len(admits') = Len(admits) + n
        /\ \A i \in 1..Len(admits') :
             admits'[i] = IF i <= Len(admits) THEN admits[i] ELSE now
    BY <1>1, <1>2, AdmittedAt DEF Admit
  (* The window the call is decided in obeys the invariant already.        *)
  <1>4. /\ w \in Windows
        /\ w.failures = 0 /\ w.admitted <= Len(admits)
        /\ w.start <= now /\ now < w.start + Window
        /\ \A i \in 1..Len(admits) :
             /\ i > Len(admits) - w.admitted <=> admits[i] >= w.start
             /\ i + Quota + w.admitted <= Len(admits)
                  => admits[i] + Window <= w.start
    <2>0. /\ window \in Windows /\ window.start \in Nat /\ Window \in Nat
          /\ Window > 0 /\ Quota \in Nat
          /\ window.admitted \in Nat /\ window.admitted <= Quota
      BY DEF IInv, TypeOK, Windows
    <2>1. CASE now >= window.start + Window
      <3>1. w = [admitted |-> 0, failures |-> 0, start |-> now]
        BY <2>1, <1>0 DEF CurrentWindow
      <3>2. /\ w \in Windows /\ w.failures = 0 /\ w.admitted = 0
            /\ w.start = now
        BY <3>1, <1>1 DEF Windows
      <3>3. \A i \in 1..Len(admits) : /\ admits[i] < window.start + Window
                                     /\ admits[i] \in Nat
        BY <1>2 DEF IInv, WindowsApart
      <3>4. \A i \in 1..Len(admits) : admits[i] < now
        BY <2>0, <2>1, <3>3, <1>1
      <3>5. ASSUME NEW i \in 1..Len(admits)
            PROVE  /\ i > Len(admits) - w.admitted <=> admits[i] >= w.start
                   /\ i + Quota + w.admitted <= Len(admits)
                        => admits[i] + Window <= w.start
        <4>1. ~(i > Len(admits) - w.admitted) /\ ~(admits[i] >= w.start)
          BY <3>2, <3>3, <3>4, <1>1, <1>2
        <4>2. ASSUME i + Quota <= Len(admits)
              PROVE  admits[i] + Window <= now
          <5>1. ~(i > Len(admits) - window.admitted)
            BY <4>2, <2>0, <1>2
          <5>2. admits[i] < window.start
            BY <5>1, <2>0, <3>3 DEF IInv, WindowIsFresh
          <5> QED BY <5>2, <2>0, <2>1, <3>3, <1>1
        <4> QED BY <4>1, <4>2, <3>2
      <3> QED BY <3>2, <3>5, <2>0, <1>1, <1>2
    <2>2. CASE ~(now >= window.start + Window)
      <3>1. w = window
        BY <2>2, <1>0 DEF CurrentWindow
      <3> QED BY <3>1, <2>0, <2>2, <1>1
              DEF IInv, WindowIsFresh, WindowsApart
    <2> QED BY <2>1, <2>2
  <1>5. /\ window' \in Windows
        /\ window'.start = w.start /\ window'.failures = 0
        /\ window'.admitted = w.admitted + n
    <2>1. n \in Nat
      OBVIOUS
    <2>2. window' = Admitting(w, n)
      BY <1>1
    <2> QED BY <1>4, <2>1, <2>2, AdmittingCounts
  <1>5a. /\ w.admitted \in Nat /\ w.start \in Nat /\ n \in Nat
        /\ Quota \in Nat /\ Window \in Nat /\ Len(admits') \in Nat
    BY <1>2, <1>3, <1>4 DEF Windows
  <1>6. TypeOK'
    BY <1>1, <1>3, <1>4, <1>5 DEF IInv, TypeOK, Windows
  <1>7. WindowIsFresh'
    <2>1. ASSUME NEW i \in 1..Len(admits')
          PROVE  i > Len(admits') - window'.admitted
                   <=> admits'[i] >= window'.start
      <3>1. CASE i <= Len(admits)
        <4>1. i \in 1..Len(admits) /\ admits'[i] = admits[i]
          BY <3>1, <1>2, <1>3
        <4>2. i > Len(admits) - w.admitted <=> admits[i] >= w.start
          BY <4>1, <1>4
        <4>3. Len(admits') - window'.admitted = Len(admits) - w.admitted
          BY <1>2, <1>3, <1>5, <1>5a
        <4> QED BY <4>1, <4>2, <4>3, <1>5
      <3>2. CASE i > Len(admits)
        <4>1. admits'[i] = now /\ i \in Nat
          BY <3>2, <1>2, <1>3
        <4>2. admits'[i] >= window'.start
          BY <4>1, <1>4, <1>5
        <4>3. Len(admits') - window'.admitted = Len(admits) - w.admitted
          BY <1>2, <1>3, <1>5, <1>5a
        <4>4. i > Len(admits') - window'.admitted
          BY <3>2, <4>1, <4>3, <1>2, <1>5a
        <4> QED BY <4>2, <4>4
      <3> QED BY <3>1, <3>2, <1>2
    <2> QED BY <2>1, <1>2, <1>3, <1>4, <1>5, <1>5a DEF WindowIsFresh
  <1>8. ProbesAreOfThisTrial'
    BY <1>1 DEF IInv, ProbesAreOfThisTrial
  <1>9. WindowsApart'
    <2>1. \A i \in 1..Len(admits') :
            /\ admits'[i] <= now'
            /\ admits'[i] < window'.start + Window
      <3> SUFFICES ASSUME NEW i \in 1..Len(admits')
                   PROVE  admits'[i] <= now /\ admits'[i] < w.start + Window
        BY <1>1, <1>5
      <3>1. CASE i <= Len(admits)
        <4>1. i \in 1..Len(admits) /\ admits'[i] = admits[i]
          BY <3>1, <1>2, <1>3
        <4>2. admits[i] <= now
          BY <4>1 DEF IInv, WindowsApart
        <4>3. /\ admits[i] <= now /\ now < w.start + Window
              /\ admits[i] \in Nat /\ now \in Nat /\ w.start \in Nat
              /\ Window \in Nat
          BY <4>1, <4>2, <1>1, <1>2, <1>4, <1>5a
        <4> QED BY <4>1, <4>3
      <3>2. CASE i > Len(admits)
        BY <3>2, <1>1, <1>2, <1>3, <1>4, <1>5a
      <3> QED BY <3>1, <3>2, <1>2
    <2>2. \A i \in 1..Len(admits') :
            i + Quota + window'.admitted <= Len(admits')
              => admits'[i] + Window <= window'.start
      <3> SUFFICES ASSUME NEW i \in 1..Len(admits'),
                          i + Quota + window'.admitted <= Len(admits')
                   PROVE  admits'[i] + Window <= w.start
        BY <1>5
      <3>1. i \in 1..Len(admits) /\ i + Quota + w.admitted <= Len(admits)
        <4>1. /\ i \in Nat /\ i >= 1 /\ n > 0 /\ Quota > 0
              /\ Len(admits) \in Nat
          BY <1>2
        <4>2. i + Quota + (w.admitted + n) <= Len(admits) + n
          BY <1>3, <1>5
        <4>3. /\ i + Quota + w.admitted <= Len(admits)
              /\ i <= Len(admits)
          BY <4>1, <4>2, <1>5a
        <4> QED BY <4>1, <4>3
      <3>2. admits'[i] = admits[i]
        BY <3>1, <1>2, <1>3
      <3> QED BY <3>1, <3>2, <1>4
    <2> QED BY <2>1, <2>2, <1>1, <1>4, <1>5, <1>5a DEF WindowsApart
  <1>10. BurstBounded'
    <2> SUFFICES ASSUME NEW i \in 1..Len(admits'),
                        i + 2 * Quota <= Len(admits')
                 PROVE  admits'[i + 2 * Quota] >= admits'[i] + Window
      BY DEF BurstBounded
    <2>1. CASE i + 2 * Quota <= Len(admits)
      <3>1. /\ i \in 1..Len(admits)
            /\ i \in 1..Len(admits') /\ i + 2 * Quota \in 1..Len(admits')
        BY <2>1, <1>2, <1>3
      <3>2. admits'[i] = admits[i] /\ admits'[i + 2 * Quota] = admits[i + 2 * Quota]
        BY <2>1, <3>1, <1>3
      <3>3. admits[i + 2 * Quota] >= admits[i] + Window
        BY <2>1, <3>1 DEF IInv, BurstBounded
      <3> QED BY <3>2, <3>3
    <2>2. CASE i + 2 * Quota > Len(admits)
      <3>1. /\ i \in 1..Len(admits) /\ i + Quota + w.admitted <= Len(admits)
            /\ i + 2 * Quota \in 1..Len(admits')
        <4>1. PICK q \in Nat : q = Quota
          BY <1>5a
        <4>2. i + 2 * q <= Len(admits) + n /\ w.admitted + n <= q /\ q > 0
          BY <4>1, <1>1, <1>3
        <4>3. i \in Nat /\ i >= 1 /\ Len(admits) \in Nat /\ w.admitted \in Nat
          BY <1>2, <1>5a
        <4>4. i + q + w.admitted <= Len(admits) /\ i <= Len(admits)
          BY <4>2, <4>3, SMTT(60)
        <4>5. i + 2 * Quota <= Len(admits') /\ i + 2 * Quota \in Nat
          BY <4>3, <1>5a
        <4> QED BY <4>1, <4>3, <4>4, <4>5, <1>5a
      <3>2. admits'[i] = admits[i] /\ admits'[i + 2 * Quota] = now
        BY <2>2, <3>1, <1>2, <1>3
      <3>3. admits[i] + Window <= w.start /\ admits[i] \in Nat
        BY <3>1, <1>2, <1>4
      <3> QED BY <3>2, <3>3, <1>1, <1>4, <1>5a
    <2> QED BY <2>1, <2>2, <1>2
  <1> QED BY <1>6, <1>7, <1>8, <1>9, <1>10 DEF IInv

(* The invariant is inductive.                                             *)
LEMMA NextIInv == IInv /\ [Next]_vars => IInv'
  <1> SUFFICES ASSUME IInv, [Next]_vars PROVE IInv'
    OBVIOUS
  <1> USE ConfigAssumption, TimeAssumption
  <1>0. /\ now \in Nat
        /\ breaker \in Breakers
        /\ breaker.halfOpenRequests < MaxProbes
        /\ breaker.totalRequests <= MaxRequests
        /\ breaker.errorCount <= breaker.totalRequests
        /\ probes \in Nat
        /\ breaker.state = "HalfOpen" => breaker.halfOpenRequests = probes
    BY DEF IInv, TypeOK, ProbesAreOfThisTrial
  <1>1. ASSUME NEW scope \in {"BettingOnly", "Full"}, NEW allow \in BOOLEAN,
               PauseWithOptions(scope, allow)
        PROVE  IInv'
    BY <1>0, <1>1, PausedKeeps, UpdateStateKeepsIInv
       DEF PauseWithOptions, SameCounts
  <1>2. ASSUME RequestResume PROVE IInv'
    BY <1>0, <1>2, HalfOpenedKeeps, UpdateStateKeepsIInv DEF RequestResume, SameCounts
  <1>3. ASSUME CircuitBreakerRecovery PROVE IInv'
    BY <1>0, <1>3, RecoveredKeeps, UpdateStateKeepsIInv
       DEF CircuitBreakerRecovery, SameCounts
  <1>4. ASSUME NEW high \in BOOLEAN, AutomaticTrigger(high) PROVE IInv'
    <2> DEFINE h == HalfOpened(breaker)
    <2>1. /\ now' = now /\ probes' = 0
          /\ \/ UpdateState(h, window)
             \/ UpdateState(Tripped(h), window)
             \/ UpdateState(Tripped(breaker), window)
      BY <1>4, Zenon DEF AutomaticTrigger
    <2>2. /\ h \in Breakers /\ SameCounts(h, breaker)
          /\ h.halfOpenRequests = 0
      BY <1>0, HalfOpenedKeeps
    <2>3. /\ Tripped(h) \in Breakers /\ SameCounts(Tripped(h), h)
          /\ Tripped(h).halfOpenRequests = 0
          /\ Tripped(h).state = "Open"
      BY <1>0, <2>2, TrippedKeeps
    <2>4. /\ Tripped(breaker) \in Breakers
          /\ SameCounts(Tripped(breaker), breaker)
          /\ Tripped(breaker).halfOpenRequests = breaker.halfOpenRequests
          /\ Tripped(breaker).state = "Open"
      BY <1>0, TrippedKeeps
    <2> HIDE DEF h
    <2>5. CASE UpdateState(h, window)
      BY <1>0, <2>1, <2>2, <2>5, UpdateStateKeepsIInv DEF SameCounts
    <2>6. CASE UpdateState(Tripped(h), window)
      BY <1>0, <2>1, <2>2, <2>3, <2>6, UpdateStateKeepsIInv DEF SameCounts
    <2>7. CASE UpdateState(Tripped(breaker), window)
      BY <1>0, <2>1, <2>4, <2>7, UpdateStateKeepsIInv DEF SameCounts
    <2> QED BY <2>1, <2>5, <2>6, <2>7
  <1>5. ASSUME NEW n \in 1..2, Admit(n) PROVE IInv'
    BY <1>5, AdmitKeepsWindows
  <1>6. ASSUME QuotaExhausted PROVE IInv'
    <2>1. /\ now' = now /\ probes' = 0
          /\ \/ UpdateState(Settled(breaker, "Closed"), window)
             \/ UpdateState(Settled(Tripped(breaker), "Open"), window)
      BY <1>6, Zenon DEF QuotaExhausted
    <2>2. Tripped(breaker) \in Breakers /\ SameCounts(Tripped(breaker), breaker)
      BY <1>0, TrippedKeeps
    <2>3. ASSUME NEW t \in Breakers, SameCounts(t, breaker),
                 NEW state \in {"Closed", "Open"},
                 UpdateState(Settled(t, state), window)
          PROVE  IInv'
      <3>1. /\ Settled(t, state) \in Breakers
            /\ Settled(t, state).state = state
            /\ SameCounts(Settled(t, state), t)
            /\ Settled(t, state).halfOpenRequests = 0
        BY <2>3, SettledKeeps
      <3> QED BY <1>0, <2>1, <2>3, <3>1, UpdateStateKeepsIInv DEF SameCounts
    <2> QED BY <1>0, <2>1, <2>2, <2>3 DEF SameCounts
  <1>7. ASSUME RecordSuccess PROVE IInv'
    <2> DEFINE b == Counted(breaker, 0)
    <2>1. /\ b \in Breakers /\ b.state = breaker.state
          /\ b.totalRequests = breaker.totalRequests + 1
          /\ b.errorCount = breaker.errorCount + 0
          /\ b.halfOpenRequests = breaker.halfOpenRequests
      BY <1>0, CountedCounts
    <2>2. /\ Probed(b) \in Breakers /\ SameCounts(Probed(b), b)
          /\ Probed(b).state = b.state
          /\ Probed(b).halfOpenRequests = b.halfOpenRequests + 1
          /\ Unprobed(b, "Closed") \in Breakers
          /\ SameCounts(Unprobed(b, "Closed"), b)
          /\ Unprobed(b, "Closed").state = "Closed"
          /\ Unprobed(b, "Closed").halfOpenRequests = 0
      BY <2>1, ProbedCounts, UnprobedKeeps
    <2> HIDE DEF b
    <2>3. now' = now /\ breaker.totalRequests + 1 <= MaxRequests
      BY <1>0, <1>7 DEF RecordSuccess, Breakers
    <2> DEFINE counts == /\ breaker.state = "HalfOpen"
                         /\ now >= breaker.halfOpenSince + RecoveryTimeout
               last == breaker.halfOpenRequests + 1 >= MaxProbes
    <2>4. CASE ~counts
      <3>1. UpdateState(b, window) /\ probes' = probes
        BY <1>7, <2>4 DEF RecordSuccess, b
      <3> QED BY <1>0, <2>1, <2>3, <3>1, UpdateStateKeepsIInv DEF Breakers
    <2>5. CASE counts /\ ~last
      <3>1. UpdateState(Probed(b), window) /\ probes' = probes + 1
        BY <1>7, <2>5 DEF RecordSuccess, b
      <3>2. /\ Probed(b).halfOpenRequests < MaxProbes
            /\ Probed(b).halfOpenRequests = probes'
        BY <1>0, <2>1, <2>2, <2>5, <3>1 DEF Breakers
      <3> QED BY <1>0, <2>1, <2>2, <2>3, <3>1, <3>2, UpdateStateKeepsIInv
              DEF Breakers, SameCounts
    <2>6. CASE counts /\ last
      <3>1. UpdateState(Unprobed(b, "Closed"), window) /\ probes' = 0
        BY <1>7, <2>6 DEF RecordSuccess, b
      <3> QED BY <1>0, <2>1, <2>2, <2>3, <3>1, UpdateStateKeepsIInv
              DEF Breakers, SameCounts
    <2> QED BY <2>4, <2>5, <2>6
  <1>8. ASSUME RecordFailure PROVE IInv'
    <2> DEFINE b == Counted(breaker, 1)
    <2>1. /\ b \in Breakers /\ b.state = breaker.state
          /\ b.totalRequests = breaker.totalRequests + 1
          /\ b.errorCount = breaker.errorCount + 1
          /\ b.halfOpenRequests = breaker.halfOpenRequests
      BY <1>0, CountedCounts
    <2>2. Tripped(b) \in Breakers /\ SameCounts(Tripped(b), b)
      BY <1>0, <2>1, TrippedKeeps
    <2>3. /\ Unprobed(Tripped(b), "Open") \in Breakers
          /\ SameCounts(Unprobed(Tripped(b), "Open"), Tripped(b))
          /\ Unprobed(Tripped(b), "Open").state = "Open"
          /\ Unprobed(Tripped(b), "Open").halfOpenRequests = 0
      BY <2>2, UnprobedKeeps
    <2> HIDE DEF b
    <2>4. now' = now /\ breaker.totalRequests + 1 <= MaxRequests
      BY <1>0, <1>8 DEF RecordFailure, Breakers
    <2>5. CASE breaker.state = "HalfOpen"
      <3>1. PICK w : /\ UpdateState(Unprobed(Tripped(b), "Open"), w)
                     /\ probes' = 0
        BY <1>8, <2>5 DEF RecordFailure, b
      <3> QED BY <1>0, <2>1, <2>2, <2>3, <2>4, <3>1, UpdateStateKeepsIInv
              DEF Breakers, SameCounts
    <2>6. CASE breaker.state # "HalfOpen"
      <3>1. UpdateState(b, window) /\ probes' = probes
        BY <1>8, <2>6 DEF RecordFailure, b
      <3> QED BY <1>0, <2>1, <2>4, <2>6, <3>1, UpdateStateKeepsIInv DEF Breakers
    <2> QED BY <2>5, <2>6
  <1>9. ASSUME Tick PROVE IInv'
    <2>1. /\ now' = now + 1 /\ now' <= MaxTime
          /\ breaker' = breaker /\ window' = window /\ admits' = admits
          /\ probes' = probes
      BY <1>0, <1>9 DEF Tick
    <2>2. \A i \in 1..Len(admits) : admits[i] \in Nat
      BY ElementOfSeq DEF IInv, TypeOK
    <2>3. TypeOK'
      BY <1>0, <2>1 DEF IInv, TypeOK
    <2>4. WindowsApart'
      <3>1. /\ now \in Nat /\ window.start \in Nat /\ window.start <= now
            /\ \A i \in 1..Len(admits) : admits[i] <= now
        BY <1>0 DEF IInv, TypeOK, Windows, WindowsApart
      <3>2. /\ window.start <= now'
            /\ \A i \in 1..Len(admits) : admits[i] <= now'
        BY <2>1, <2>2, <3>1
      <3> QED BY <2>1, <3>2 DEF IInv, WindowsApart
    <2> QED BY <2>1, <2>3, <2>4 DEF IInv, WindowIsFresh, ProbesAreOfThisTrial,
                                    BurstBounded
  <1>10. CASE UNCHANGED vars
    BY <1>10 DEF vars, IInv, TypeOK, WindowIsFresh, ProbesAreOfThisTrial,
                 WindowsApart, BurstBounded
  <1> QED BY <1>1, <1>2, <1>3, <1>4, <1>5, <1>6, <1>7, <1>8, <1>9, <1>10
          DEF Next

(* The invariant holds of every behaviour.                                 *)
LEMMA Invariance == Spec => []IInv
  BY InitIInv, NextIInv, PTL DEF Spec

(* The breaker's data keeps its types and bounds (CircuitBreakerState,     *)
(* HalfOpenWindow): no more than the quota is ever counted in a window.    *)
THEOREM TypeCorrect == Spec => []TypeOK
  BY Invariance, PTL DEF IInv

(* The admission window and the probe count belong to the current trial:   *)
(* nothing done in one trial is counted in the next (update_state,         *)
(* request_resume).                                                        *)
THEOREM TrialsAreFresh == Spec => []TrialIsFresh
  <1>1. IInv => TrialIsFresh
    BY DEF IInv, TrialIsFresh
  <1> QED BY <1>1, Invariance, PTL

(* A trial never admits more than two quotas of calls in a span shorter    *)
(* than the evaluation window, whatever the quota, the window and the      *)
(* timing of calls (half_open_admit).                                      *)
THEOREM BurstsAreBounded == Spec => []BurstBounded
  BY Invariance, PTL DEF IInv

=============================================================================
