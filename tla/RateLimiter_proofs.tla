------------------------- MODULE RateLimiter_proofs -------------------------
(* Theorems about RateLimiter, for every limit, window and number of       *)
(* concurrent requests.                                                    *)
EXTENDS RateLimiter, Recursion, SequenceTheorems

IInv == TypeOK /\ OneSetsExpiry

LEMMA SuccTyped == ASSUME NEW n \in 0 .. Ceiling PROVE Succ(n) \in 1 .. Ceiling
BY BoundsAreNat DEF Succ, Ceiling

LEMMA IncrTyped ==
    ASSUME TypeOK, NEW r \in Request, Incr(r)
    PROVE  recent' \in [1 .. Window -> Nat]
BY BoundsAreNat DEF TypeOK, Incr

\* recent is shifted by one tick.
LEMMA ShiftTyped ==
    ASSUME NEW f \in [1 .. Window -> Nat]
    PROVE  <<0>> \o Front(f) \in [1 .. Window -> Nat]
<1>1. f \in Seq(Nat) /\ Len(f) = Window
  BY BoundsAreNat
<1>2. Front(f) \in Seq(Nat) /\ Len(Front(f)) = Window - 1
  BY <1>1, BoundsAreNat DEF Front
<1>3. <<0>> \o Front(f) \in Seq(Nat) /\ Len(<<0>> \o Front(f)) = Window
  BY <1>2, BoundsAreNat
<1> DEFINE g == <<0>> \o Front(f)
<1> HIDE DEF g
<1>4. g \in [1 .. Len(g) -> Nat]
  BY <1>3, LenProperties DEF g
<1> QED BY <1>3, <1>4 DEF g

LEMMA ShiftedBy ==
    ASSUME NEW f \in [1 .. Window -> Nat]
    PROVE  LET g == <<0>> \o Front(f)
           IN  /\ g \in [1 .. Window -> Nat] /\ g[1] = 0
               /\ \A i \in 2 .. Window : g[i] = f[i - 1]
<1>1. f \in Seq(Nat) /\ Len(f) = Window
  BY BoundsAreNat
<1>2. /\ Front(f) \in Seq(Nat) /\ Len(Front(f)) = Window - 1
      /\ \A i \in 1 .. Window - 1 : Front(f)[i] = f[i]
  BY <1>1, BoundsAreNat DEF Front
<1> DEFINE h == Front(f)
<1> HIDE DEF h
<1>3. h \in Seq(Nat) /\ Len(h) = Window - 1 /\ \A i \in 1 .. Window - 1 : h[i] = f[i]
  BY <1>2 DEF h
<1>4. (<<0>> \o h)[1] = 0
  BY <1>3, BoundsAreNat
<1>5. ASSUME NEW i \in 2 .. Window PROVE (<<0>> \o h)[i] = f[i - 1]
  <2>1. (<<0>> \o h)[i] = h[i - 1]
    <3>1. i \in 1 .. Len(<<0>>) + Len(h) /\ ~(i <= Len(<<0>>)) /\ Len(<<0>>) = 1
      BY <1>3, BoundsAreNat
    <3>2. <<0>> \in Seq(Nat)
      OBVIOUS
    <3>3. (<<0>> \o h)[i] = IF i <= Len(<<0>>) THEN <<0>>[i] ELSE h[i - Len(<<0>>)]
      BY <1>3, <3>1, <3>2, ConcatProperties
    <3> QED BY <3>1, <3>3
  <2>2. i - 1 \in 1 .. Window - 1
    BY BoundsAreNat
  <2> QED BY <1>3, <2>1, <2>2
<1> QED BY <1>4, <1>5, ShiftTyped DEF h

LEMMA IInvInit == Init => IInv
BY BoundsAreNat DEF Init, IInv, TypeOK, OneSetsExpiry, Ceiling

LEMMA IInvStep == IInv /\ [Next]_vars => IInv'
<1> SUFFICES ASSUME IInv, [Next]_vars PROVE IInv'
  OBVIOUS
<1> USE BoundsAreNat DEF IInv
<1>1. ASSUME NEW r \in Request, Incr(r) PROVE IInv'
  <2>1. count' = Succ(count) /\ count' \in 1 .. Ceiling /\ ttl' = ttl
    BY <1>1, SuccTyped DEF Incr, TypeOK
  <2>2. count' = 1 => count = 0
    BY <1>1 DEF Incr, Succ, Ceiling, TypeOK
  <2>3. TypeOK'
    BY <1>1, <2>1, IncrTyped DEF Incr, GoTo, TypeOK
  <2>4. OneSetsExpiry'
    BY <1>1, <2>1, <2>2 DEF Incr, GoTo, TypeOK, OneSetsExpiry
  <2> QED BY <2>3, <2>4
<1>2. ASSUME NEW r \in Request, IncrFails(r) PROVE IInv'
  <2>1. count' \in 0 .. Ceiling /\ (count > 0 => count' > 0) /\ (count' = 0 => count = 0)
    BY <1>2, SuccTyped DEF IncrFails, TypeOK
  <2>2. TypeOK'
    BY <1>2, <2>1 DEF IncrFails, GoTo, TypeOK
  <2>3. OneSetsExpiry'
    BY <1>2, <2>1 DEF IncrFails, GoTo, TypeOK, OneSetsExpiry
  <2> QED BY <2>2, <2>3
<1>3. ASSUME NEW r \in Request, Expire(r) PROVE IInv'
  BY <1>3 DEF Expire, GoTo, TypeOK, OneSetsExpiry
<1>4. ASSUME NEW r \in Request, ExpireFails(r) PROVE IInv'
  BY <1>4 DEF ExpireFails, GoTo, TypeOK, OneSetsExpiry
<1>5. ASSUME NEW r \in Request, Forward(r) \/ Reject(r) \/ Answer(r) \/ Cancel(r) PROVE IInv'
  <2>1. UNCHANGED <<count, ttl, seen, recent>>
        /\ \E p \in {"idle", "forward"} : pc' = [pc EXCEPT ![r] = p]
    BY <1>5 DEF Forward, Reject, Answer, Cancel, GoTo, key
  <2> QED BY <2>1 DEF TypeOK, OneSetsExpiry
<1>6. CASE Tick
  <2>1. recent' \in [1 .. Window -> Nat]
    BY <1>6, ShiftTyped DEF Tick, TypeOK
  <2>2. TypeOK'
    BY <1>6, <2>1, NoExpiryIsNoTime DEF Tick, TypeOK, Ceiling
  <2>3. OneSetsExpiry'
    BY <1>6, NoExpiryIsNoTime DEF Tick, TypeOK, OneSetsExpiry
  <2> QED BY <2>2, <2>3
<1>7. CASE UNCHANGED vars
  BY <1>7 DEF vars, TypeOK, OneSetsExpiry
<1> QED BY <1>1, <1>2, <1>3, <1>4, <1>5, <1>6, <1>7 DEF Next, Handle

\* The counter, its TTL and the requests always have their types.
THEOREM LimiterTypeCorrect == Spec => []TypeOK
BY IInvInit, IInvStep, PTL DEF Spec, IInv

\* However many requests run between the two commands that open a window, one
\* at most is about to set the expiry, and of a key that has none.
THEOREM OneSetsExpiryAlways == Spec => []OneSetsExpiry
BY IInvInit, IInvStep, PTL DEF Spec, IInv

\* No request prolongs a running window.
THEOREM WindowOnlyRunsDown == Spec => WindowNotExtended
<1> DEFINE Down == ttl # NoExpiry /\ ttl' # ttl => ttl' = ttl - 1 \/ (ttl = 1 /\ count' = 0)
<1>1. IInv /\ [Next]_vars => [Down]_vars
  <2> SUFFICES ASSUME IInv, Next, ttl # NoExpiry, ttl' # ttl
               PROVE  ttl' = ttl - 1 \/ (ttl = 1 /\ count' = 0)
    BY DEF vars
  <2>1. CASE \E r \in Request : Expire(r) \/ ExpireFails(r)
    BY <2>1 DEF Expire, ExpireFails, IInv, OneSetsExpiry
  <2>2. CASE Tick
    <3>1. ttl \in 1 .. Window
      BY DEF IInv, TypeOK
    <3>2. CASE ttl = 1
      BY <2>2, <3>2 DEF Tick
    <3>3. CASE ttl # 1
      <4>1. ttl \in Nat \ {0, 1}
        BY <3>1, <3>3, BoundsAreNat
      <4>2. ttl' = IF ttl \in Nat \ {0, 1} THEN ttl - 1 ELSE NoExpiry
        BY <2>2 DEF Tick
      <4> QED BY <4>1, <4>2
    <3> QED BY <3>2, <3>3
  <2> QED
    BY <2>1, <2>2 DEF Next, Handle, Incr, IncrFails, Forward, Reject, Answer, Cancel, key
<1> QED BY <1>1, IInvInit, IInvStep, PTL DEF Spec, WindowNotExtended

----------------------------------------------------------------------------
(* The burst: some tick s ago the running window began.  What passed since  *)
(* then is within its count; what passed before belongs to one window more, *)
(* because a window that has ended has lasted Window ticks.                 *)

BeganAt(s) ==
    LET sums == PartialSums(recent, Window)
    IN  /\ sums[s] <= count /\ sums[s] <= Limit
        /\ sums[Window] - sums[s] <= Limit
        /\ ttl # NoExpiry => s + ttl > Window

Burst ==
    /\ count = 0 => recent[1] = 0
    /\ \E s \in 1 .. Window : BeganAt(s)

\* One more that passed now is one more in every sum.
LEMMA SumsIncr ==
    ASSUME NEW f \in [1 .. Window -> Nat], NEW g, g = [f EXCEPT ![1] = @ + 1]
    PROVE  \A i \in 1 .. Window : PartialSums(g, Window)[i] = PartialSums(f, Window)[i] + 1
<1> USE BoundsAreNat
<1> DEFINE p == PartialSums(f, Window)
           t == [i \in 0 .. Window |-> IF i = 0 THEN 0 ELSE p[i] + 1]
<1>1. IsSums(p, f, Window)
  BY SumsExist
<1>2. g \in [1 .. Window -> Int]
  OBVIOUS
<1>3. IsSums(PartialSums(g, Window), g, Window)
  BY <1>2, SumsExist
<1> HIDE DEF p
<1>4. IsSums(t, g, Window)
  <2>1. t \in [0 .. Window -> Int] /\ t[0] = 0
    BY <1>1 DEF IsSums
  <2>2. ASSUME NEW i \in 1 .. Window PROVE t[i] = t[i - 1] + g[i]
    <3>1. p[i] = p[i - 1] + f[i] /\ p[0] = 0 /\ p[i - 1] \in Int /\ f[i] \in Int
      BY <1>1 DEF IsSums
    <3> QED BY <3>1
  <2> HIDE DEF t
  <2> QED BY <2>1, <2>2 DEF IsSums
<1>5. PartialSums(g, Window) = t
  BY <1>3, <1>4, SumsUnique
<1> QED BY <1>5 DEF p

\* A tick later every sum is what the one before it was.
LEMMA SumsShift ==
    ASSUME NEW f \in [1 .. Window -> Nat], NEW g \in [1 .. Window -> Nat],
           g[1] = 0, \A i \in 2 .. Window : g[i] = f[i - 1]
    PROVE  \A i \in 1 .. Window : PartialSums(g, Window)[i] = PartialSums(f, Window)[i - 1]
<1> USE BoundsAreNat
<1> DEFINE p == PartialSums(f, Window)
           t == [i \in 0 .. Window |-> IF i = 0 THEN 0 ELSE p[i - 1]]
<1>1. IsSums(p, f, Window) /\ IsSums(PartialSums(g, Window), g, Window)
  BY SumsExist
<1> HIDE DEF p
<1>2. IsSums(t, g, Window)
  <2>1. t \in [0 .. Window -> Int] /\ t[0] = 0
    <3>1. \A i \in 0 .. Window : i # 0 => i - 1 \in 0 .. Window
      OBVIOUS
    <3>2. \A i \in 0 .. Window : p[i] \in Int
      BY <1>1 DEF IsSums
    <3> QED BY <3>1, <3>2
  <2>2. ASSUME NEW i \in 1 .. Window PROVE t[i] = t[i - 1] + g[i]
    <3>1. CASE i = 1
      BY <1>1, <3>1 DEF IsSums
    <3>2. CASE i # 1
      <4> DEFINE k == i - 1
      <4>a. k \in 1 .. Window /\ i \in 2 .. Window
        BY <3>2
      <4>b. p[k] = p[k - 1] + f[k]
        BY <1>1, <4>a DEF IsSums
      <4>1. p[i - 1] = p[i - 2] + f[i - 1] /\ g[i] = f[i - 1]
        BY <4>a, <4>b
      <4> QED BY <3>2, <4>1
    <3> QED BY <3>1, <3>2
  <2> HIDE DEF t
  <2> QED BY <2>1, <2>2 DEF IsSums
<1>3. PartialSums(g, Window) = t
  BY <1>1, <1>2, SumsUnique
<1> QED BY <1>3 DEF p

LEMMA BurstInit == Init => Burst
<1> SUFFICES ASSUME Init PROVE Burst
  OBVIOUS
<1> USE BoundsAreNat
<1> DEFINE z == [i \in 0 .. Window |-> 0]
<1>1. recent = [i \in 1 .. Window |-> 0] /\ count = 0 /\ ttl = NoExpiry
  BY DEF Init
<1>2. IsSums(z, recent, Window)
  BY <1>1 DEF IsSums
<1>3. recent \in [1 .. Window -> Int]
  BY <1>1
<1>4. PartialSums(recent, Window) = z
  BY <1>2, <1>3, SumsExist, SumsUnique
<1> QED BY <1>1, <1>4 DEF Burst, BeganAt

\* What the sums are, as far as the steps below need it.
LEMMA SumsOfRecent ==
    ASSUME TypeOK
    PROVE  LET sums == PartialSums(recent, Window)
           IN  /\ sums[0] = 0 /\ \A i \in 0 .. Window : sums[i] \in Int
               /\ \A i, j \in 0 .. Window : i <= j => sums[i] <= sums[j]
               /\ sums[1] = recent[1]
<1> DEFINE p == PartialSums(recent, Window)
<1>1. recent \in [1 .. Window -> Nat] /\ recent \in [1 .. Window -> Int] /\ Window \in Nat \ {0}
  BY BoundsAreNat DEF TypeOK
<1>2. IsSums(p, recent, Window)
  BY <1>1, SumsExist
<1>3. \A i, j \in 0 .. Window : i <= j => p[i] <= p[j]
  BY <1>1, <1>2, SumsGrow
<1> HIDE DEF p
<1>4. p[0] = 0 /\ (\A i \in 0 .. Window : p[i] \in Int) /\ p[1] = p[0] + recent[1] /\ recent[1] \in Int
  BY <1>1, <1>2 DEF IsSums
<1>5. p[1] = recent[1]
  BY <1>4
<1> QED BY <1>3, <1>4, <1>5 DEF p

LEMMA BurstStep == TypeOK /\ TypeOK' /\ Burst /\ [Next]_vars => Burst'
<1> SUFFICES ASSUME TypeOK, TypeOK', Burst, [Next]_vars PROVE Burst'
  OBVIOUS
<1> USE BoundsAreNat
<1> DEFINE p == PartialSums(recent, Window)
           q == PartialSums(recent', Window)
<1> HIDE DEF p, q
<1>p. /\ p[0] = 0 /\ \A i \in 0 .. Window : p[i] \in Int
      /\ \A i, j \in 0 .. Window : i <= j => p[i] <= p[j]
      /\ p[1] = recent[1]
  BY SumsOfRecent DEF p
<1>s. count = 0 => recent[1] = 0
  BY DEF Burst
<1>e. PICK s \in 1 .. Window : /\ p[s] <= count /\ p[s] <= Limit /\ p[Window] - p[s] <= Limit
                               /\ ttl # NoExpiry => s + ttl > Window
  <2>1. PICK s \in 1 .. Window : BeganAt(s)
    BY DEF Burst
  <2>2. /\ p[s] <= count /\ p[s] <= Limit /\ p[Window] - p[s] <= Limit
        /\ ttl # NoExpiry => s + ttl > Window
    BY <2>1 DEF BeganAt, p
  <2> QED BY <2>2
<1>g. ASSUME count' = 0 => recent'[1] = 0,
             NEW w \in 1 .. Window, q[w] <= count', q[w] <= Limit, q[Window] - q[w] <= Limit,
             ttl' # NoExpiry => w + ttl' > Window
      PROVE  Burst'
  <2>1. BeganAt(w)'
    BY <1>g DEF BeganAt, q
  <2> QED BY <1>g, <2>1 DEF Burst
<1>t. count \in 0 .. Ceiling /\ count' \in 0 .. Ceiling /\ recent \in [1 .. Window -> Nat]
      /\ ttl \in 1 .. Window \cup {NoExpiry} /\ ttl' \in 1 .. Window \cup {NoExpiry}
  BY DEF TypeOK
<1>1. ASSUME recent' = recent, count' >= count,
             ttl' = ttl \/ ttl' = Window
      PROVE  Burst'
  <2>1. q = p
    BY <1>1 DEF p, q
  <2>3. p[s] <= count'
    BY <1>1, <1>t, <1>p, <1>e
  <2>4. ttl' # NoExpiry => s + ttl' > Window
    BY <1>1, <1>e
  <2>5. count' = 0 => recent'[1] = 0
    BY <1>1, <1>s, <1>t
  <2> QED BY <1>g, <2>1, <1>e, <2>3, <2>4, <2>5
<1>2. ASSUME NEW r \in Request, Incr(r) PROVE Burst'
  <2>1. CASE Passes(count')
    <3>1. /\ recent' = [recent EXCEPT ![1] = @ + 1] /\ ttl' = ttl
          /\ count' = count + 1 /\ count' <= Limit
      BY <1>2, <2>1, <1>t DEF Incr, Passes, Succ, Ceiling
    <3>2. \A i \in 1 .. Window : q[i] = p[i] + 1
      BY <1>t, <3>1, SumsIncr DEF p, q
    <3>3. q[s] = p[s] + 1 /\ q[Window] = p[Window] + 1
      BY <3>2
    <3>4. p[s] \in Int /\ p[Window] \in Int /\ count \in Int
      BY <1>t, <1>p
    <3>5. q[s] <= count' /\ q[Window] - q[s] <= Limit
      BY <1>e, <3>1, <3>3, <3>4
    <3>6. q[s] <= count' /\ q[s] <= Limit /\ q[Window] - q[s] <= Limit
      BY <3>1, <3>3, <3>4, <3>5
    <3>7. count' # 0
      BY <1>t, <3>1
    <3> QED BY <1>g, <3>1, <1>e, <3>6, <3>7
  <2>2. CASE ~Passes(count')
    BY <1>1, <1>2, <1>t, <2>2 DEF Incr, Succ
  <2> QED BY <2>1, <2>2
<1>3. ASSUME NEW r \in Request, IncrFails(r) PROVE Burst'
  BY <1>1, <1>3, <1>t DEF IncrFails, Succ
<1>4. ASSUME NEW r \in Request, Handle(r) \/ Cancel(r) PROVE Burst'
  <2>1. recent' = recent /\ count' = count /\ (ttl' = ttl \/ ttl' = Window)
    BY <1>4 DEF Handle, Expire, ExpireFails, Forward, Reject, Answer, Cancel, key
  <2> QED BY <1>1, <1>t, <2>1
<1>5. CASE Tick
  <2>1. /\ recent' \in [1 .. Window -> Nat] /\ recent'[1] = 0
        /\ \A i \in 2 .. Window : recent'[i] = recent[i - 1]
    BY <1>5, ShiftedBy DEF Tick, TypeOK
  <2>2. \A i \in 1 .. Window : q[i] = p[i - 1]
    BY <1>t, <2>1, SumsShift DEF p, q
  <2>4. CASE ttl = 1
    <3>1. count' = 0 /\ ttl' = NoExpiry /\ s = Window
      BY <1>5, <1>e, <2>4, NoExpiryIsNoTime DEF Tick
    <3>2. q[1] = 0 /\ q[Window] = p[Window - 1] /\ p[Window - 1] <= p[Window]
      BY <1>p, <2>2
    <3>3. q[1] <= count' /\ q[1] <= Limit /\ q[Window] - q[1] <= Limit
      BY <1>p, <1>e, <3>1, <3>2
    <3> QED BY <1>g, <2>1, <3>1, <3>3
  <2>5. CASE ttl # 1
    <3>1. count' = count /\ (ttl' = NoExpiry \/ (ttl \in 2 .. Window /\ ttl' = ttl - 1))
      <4>1. CASE ttl = NoExpiry
        BY <1>5, <4>1, NoExpiryIsNoTime DEF Tick
      <4>2. CASE ttl # NoExpiry
        <5>1. ttl \in 2 .. Window /\ ttl \in Nat \ {0, 1}
          BY <1>t, <2>5, <4>2
        <5> QED BY <1>5, <2>5, <5>1 DEF Tick
      <4> QED BY <4>1, <4>2
    <3>2. CASE s < Window
      <4>1. q[s + 1] = p[s] /\ q[Window] = p[Window - 1] /\ p[Window - 1] <= p[Window]
        BY <1>p, <2>2, <3>2
      <4>2. q[s + 1] <= count' /\ q[s + 1] <= Limit /\ q[Window] - q[s + 1] <= Limit
        BY SMTT(20), <1>p, <1>t, <1>e, <3>1, <4>1
      <4>3. ttl' # NoExpiry => (s + 1) + ttl' > Window
        BY <1>e, <3>1, NoExpiryIsNoTime
      <4> QED BY <1>g, <2>1, <3>2, <4>2, <4>3
    <3>3. CASE s = Window
      <4>1. q[Window] = p[Window - 1] /\ p[Window - 1] <= p[Window] /\ p[Window - 1] \in Int
        BY <1>p, <2>2
      <4>2. q[Window] <= count' /\ q[Window] <= Limit /\ q[Window] - q[Window] <= Limit
        BY <1>p, <1>t, <1>e, <3>1, <3>3, <4>1
      <4>3. ttl' # NoExpiry => Window + ttl' > Window
        <5>1. \A k \in 1 .. Window : Window + k > Window
          OBVIOUS
        <5> QED BY <1>t, <5>1
      <4> QED BY <1>g, <2>1, <4>2, <4>3
    <3> QED BY <3>2, <3>3
  <2> QED BY <2>4, <2>5
<1>6. CASE UNCHANGED vars
  BY <1>1, <1>6, <1>t DEF vars
<1> QED BY <1>2, <1>3, <1>4, <1>5, <1>6 DEF Next

\* The counter lets at most twice the limit pass in any Window ticks, whatever
\* requests overlap, fail or are cancelled.
THEOREM BurstBounded == Spec => []BurstBound
<1>1. TypeOK /\ Burst => BurstBound
  <2> SUFFICES ASSUME TypeOK, Burst PROVE BurstBound
    OBVIOUS
  <2> DEFINE p == PartialSums(recent, Window)
  <2>1. \A i \in 0 .. Window : p[i] \in Int
    BY SumsOfRecent
  <2>2. PICK s \in 1 .. Window : p[s] <= Limit /\ p[Window] - p[s] <= Limit
    BY DEF Burst, BeganAt
  <2> HIDE DEF p
  <2>3. p[Window] <= 2 * Limit
    BY <2>1, <2>2, BoundsAreNat
  <2> QED BY <2>3 DEF p, BurstBound, SumTo
<1> QED BY <1>1, IInvInit, IInvStep, BurstInit, BurstStep, PTL DEF Spec, IInv
=============================================================================
