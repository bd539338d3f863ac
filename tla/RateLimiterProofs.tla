-------------------------- MODULE RateLimiterProofs --------------------------
(***************************************************************************)
(* Proofs about RateLimiter, for every rate, window, and set of clients:   *)
(* the type invariant, the bound on bursts and the fairness of refusals.   *)
(*                                                                         *)
(* Neither bound is inductive.  The strengthening finds, in the history of *)
(* each key, the admission that filled the present bucket: it was made at  *)
(* lastReset, one token was taken by each admission from there on, and     *)
(* every admission at least Rate places before it is a window older.       *)
(***************************************************************************)
EXTENDS RateLimiter, TLAPS

-----------------------------------------------------------------------------
(* Type correctness                                                        *)

\* The initial state is typed.
LEMMA InitTyped == Init => TypeOK
  BY RateLimiterAssumption DEF Init, TypeOK, Keys, NoToken

\* A bucket key of a request that passed auth is a key.
LEMMA BucketKeyIsKey ==
    ASSUME NEW token \in ApiKeys \cup {NoToken}, NEW address \in Addresses,
           Authenticated(token)
    PROVE  BucketKey(token, address) \in Keys
  BY DEF Authenticated, BucketKey, Keys, NoToken

\* Every step keeps the types.
LEMMA NextTyped == TypeOK /\ [Next]_vars => TypeOK'
<1> SUFFICES ASSUME TypeOK, [Next]_vars PROVE TypeOK'
  OBVIOUS
<1> USE RateLimiterAssumption DEF TypeOK, Answer
<1>1. CASE Tick
  BY <1>1 DEF Tick
<1>2. CASE Preflight
  BY <1>2 DEF Preflight
<1>3. ASSUME NEW token, Unauthorized(token) PROVE TypeOK'
  BY <1>3 DEF Unauthorized
<1>4. ASSUME NEW path, NEW token, Uncounted(path, token) PROVE TypeOK'
  BY <1>4 DEF Uncounted
<1>5. ASSUME NEW key \in Keys, FirstRequest(key) PROVE TypeOK'
  BY <1>5 DEF FirstRequest, Refill, Admit
<1>6. ASSUME NEW key \in Keys, NewWindow(key) PROVE TypeOK'
  BY <1>6 DEF NewWindow, Refill, Admit
<1>7. ASSUME NEW key \in Keys, TakeToken(key) PROVE TypeOK'
  BY <1>7 DEF TakeToken, Admit
<1>8. ASSUME NEW key \in Keys, Refuse(key) PROVE TypeOK'
  BY <1>8 DEF Refuse
<1>9. CASE UNCHANGED vars
  BY <1>9 DEF vars
<1>10. ASSUME NEW token \in ApiKeys \cup {NoToken}, NEW address \in Addresses,
              Counted(token, address)
       PROVE  TypeOK'
  <2> DEFINE key == BucketKey(token, address)
  <2>1. key \in Keys /\ Allow(key)
    BY <1>10, BucketKeyIsKey DEF Counted
  <2> HIDE DEF key
  <2> QED
    BY <2>1, <1>5, <1>6, <1>7, <1>8, SMTT(60) DEF Allow
<1> QED
  <2> HIDE DEF TypeOK, Answer
  <2> QED
    BY <1>1, <1>2, <1>3, <1>4, <1>9, <1>10 DEF Next

\* Every variable of the model keeps its type: a bucket never holds fewer
\* than 0 nor as many as Rate + 1 tokens.
THEOREM TypeCorrect == Spec => []TypeOK
<1>1. Init => TypeOK
  BY InitTyped
<1>2. TypeOK /\ [Next]_vars => TypeOK'
  BY NextTyped
<1> QED
  BY <1>1, <1>2, PTL DEF Spec

-----------------------------------------------------------------------------
(* The bounds                                                              *)

\* The place in the history of key k where its bucket was filled.
Filled(k) == Len(admitted[k]) - (Rate - tokens[k]) + 1

\* Admission times never decrease, and none lies in the future.
Chronicle(a, t) ==
    /\ \A i \in 1 .. Len(a) : a[i] <= t
    /\ \A i, j \in 1 .. Len(a) : i <= j => a[i] <= a[j]

\* Any n + 1 admissions in a row span at least a window.
Spread(a, n) ==
    \A i \in 1 .. Len(a) : i + n <= Len(a) => a[i + n] - a[i] >= Window

BucketState(k) ==
    /\ Chronicle(admitted[k], now)
    /\ Spread(admitted[k], 2 * Rate - 1)
    /\ k \notin counters => admitted[k] = <<>>
    /\ k \in counters =>
          /\ tokens[k] < Rate
          /\ Filled(k) \in 1 .. Len(admitted[k])
          /\ admitted[k][Filled(k)] = lastReset[k]
          /\ \A i \in 1 .. Len(admitted[k]) : i + Rate <= Filled(k) =>
                lastReset[k] - admitted[k][i] >= Window

BucketInv == \A k \in Keys : BucketState(k)

\* The first admission of a key.
LEMMA FirstAdmission ==
    ASSUME TypeOK, BucketInv, NEW key \in Keys, FirstRequest(key)
    PROVE  BucketState(key)'
<1>1. admitted[key] = <<>>
  BY DEF FirstRequest, BucketInv, BucketState
<1>2. /\ admitted'[key] = Append(admitted[key], now)
      /\ tokens'[key] = Rate - 1 /\ lastReset'[key] = now
      /\ key \in counters' /\ now' = now /\ now \in Nat
  BY DEF TypeOK, FirstRequest, Refill, Admit
<1>3. admitted'[key] = <<now>>
  BY <1>1, <1>2
<1>4. /\ Rate \in Nat \ {0}
      /\ Len(<<now>>) = 1 /\ <<now>>[1] = now
  BY RateLimiterAssumption
<1>5. Filled(key)' = 1
  BY <1>2, <1>3, <1>4 DEF Filled
<1> QED
  BY <1>2, <1>3, <1>4, <1>5 DEF BucketState, Chronicle, Spread

\* A later one, appended to the history.
LEMMA AppendAdmission ==
    ASSUME NEW a \in Seq(Nat), NEW t \in Nat, Chronicle(a, t)
    PROVE  /\ Len(Append(a, t)) = Len(a) + 1
           /\ \A i \in 1 .. Len(a) : Append(a, t)[i] = a[i]
           /\ Append(a, t)[Len(a) + 1] = t
           /\ Chronicle(Append(a, t), t)
<1> DEFINE b == Append(a, t)
<1>1. Len(b) = Len(a) + 1 /\ Len(a) \in Nat
  OBVIOUS
<1>2. \A i \in 1 .. Len(a) : b[i] = a[i]
  OBVIOUS
<1>3. b[Len(a) + 1] = t
  OBVIOUS
<1> HIDE DEF b
<1>4. \A i \in 1 .. Len(b) : i \in 1 .. Len(a) \/ i = Len(a) + 1
  BY <1>1
<1>5. \A i \in 1 .. Len(b) : b[i] <= t
  BY <1>1, <1>2, <1>3, <1>4 DEF Chronicle
<1>6. ASSUME NEW i \in 1 .. Len(b), NEW j \in 1 .. Len(b), i <= j
      PROVE  b[i] <= b[j]
  <2>1. CASE j = Len(a) + 1
    BY <1>3, <1>5, <2>1
  <2>2. CASE j \in 1 .. Len(a)
    <3>1. i \in 1 .. Len(a)
      BY <1>1, <1>6, <2>2
    <3> QED
      BY <1>2, <1>6, <2>2, <3>1 DEF Chronicle
  <2> QED
    BY <1>4, <2>1, <2>2
<1>7. Chronicle(b, t)
  BY <1>5, <1>6 DEF Chronicle
<1> QED
  BY <1>1, <1>2, <1>3, <1>7 DEF b

\* A place up to m + 1 and not m + 1 is one up to m.
LEMMA BelowNext ==
    ASSUME NEW m \in Nat, NEW i \in 1 .. m, NEW n \in Nat \ {0},
           i + n <= m + 1, i + n # m + 1
    PROVE  i + n \in 1 .. m
  OBVIOUS

\* Appending keeps the spread when the new time is a window after the one it
\* completes a run with.
LEMMA SpreadAppend ==
    ASSUME NEW a \in Seq(Nat), NEW t \in Nat, NEW n \in Nat \ {0},
           Spread(a, n),
           \A i \in 1 .. Len(a) : i + n = Len(a) + 1 => t - a[i] >= Window
    PROVE  Spread(Append(a, t), n)
<1> DEFINE b == Append(a, t)
<1>0. Len(b) = Len(a) + 1 /\ Len(a) \in Nat
  OBVIOUS
<1>1. /\ \A i \in 1 .. Len(a) : b[i] = a[i]
      /\ b[Len(a) + 1] = t
  OBVIOUS
<1> HIDE DEF b
<1>2. ASSUME NEW i \in 1 .. Len(b), i + n <= Len(b)
      PROVE  b[i + n] - b[i] >= Window
  <2>1. i \in 1 .. Len(a)
    BY <1>0, <1>2
  <2>2. CASE i + n = Len(a) + 1
    BY <1>1, <2>1, <2>2
  <2>3. CASE i + n # Len(a) + 1
    <3>1. i + n \in 1 .. Len(a)
      <4>1. i + n <= Len(a) + 1
        BY <1>0, <1>2
      <4> QED
        BY <1>0, <2>1, <2>3, <4>1, BelowNext
    <3> QED
      BY <1>1, <2>1, <3>1 DEF Spread
  <2> QED
    BY <2>2, <2>3
<1> QED
  BY <1>2 DEF Spread, b

\* The arithmetic of places: with k of R tokens left after n admissions, the
\* bucket was filled at place n - (R - k) + 1.
LEMMA Places ==
    ASSUME NEW n \in Nat, NEW R \in Nat \ {0}, NEW k \in Nat, NEW i \in Nat,
           i + (2 * R - 1) = n + 1
    PROVE  /\ i <= n - (R - k) + 1
           /\ k > 0 => i + R <= n - (R - k) + 1
  OBVIOUS

\* Admissions up to an earlier one are no younger than it.
LEMMA OlderThan ==
    ASSUME NEW a \in Seq(Nat), NEW t \in Nat, Chronicle(a, t),
           NEW f \in 1 .. Len(a), NEW i \in 1 .. Len(a), i <= f
    PROVE  /\ a[i] \in Nat /\ a[f] \in Nat
           /\ a[i] <= a[f] /\ a[f] <= t
  BY DEF Chronicle

\* The request that finds its bucket a window old: everything up to the old
\* filling is at least a window older than now.
LEMMA RefillAdmission ==
    ASSUME TypeOK, BucketInv, NEW key \in Keys, NewWindow(key)
    PROVE  BucketState(key)'
<1> DEFINE a == admitted[key]
           f == Filled(key)
<1>1. /\ admitted'[key] = Append(a, now) /\ a \in Seq(Nat) /\ now \in Nat
      /\ tokens'[key] = Rate - 1 /\ lastReset'[key] = now
      /\ key \in counters /\ key \in counters' /\ now' = now
      /\ now - lastReset[key] >= Window
  BY DEF TypeOK, NewWindow, Refill, Admit, Expired
<1>2. /\ Chronicle(a, now) /\ Spread(a, 2 * Rate - 1)
      /\ tokens[key] < Rate /\ f \in 1 .. Len(a) /\ a[f] = lastReset[key]
  BY <1>1 DEF BucketInv, BucketState
<1>3. /\ f = Len(a) - (Rate - tokens[key]) + 1
      /\ tokens[key] \in Nat /\ Len(a) \in Nat
      /\ Rate \in Nat \ {0} /\ Window \in Nat \ {0}
  BY <1>1, RateLimiterAssumption DEF Filled, TypeOK
<1>4. /\ Len(Append(a, now)) = Len(a) + 1
      /\ \A i \in 1 .. Len(a) : Append(a, now)[i] = a[i]
      /\ Append(a, now)[Len(a) + 1] = now
      /\ Chronicle(Append(a, now), now)
  BY <1>1, <1>2, AppendAdmission
<1>5. ASSUME NEW i \in 1 .. Len(a), i <= f
      PROVE  now - a[i] >= Window
  <2>1. a[i] <= a[f] /\ a[i] \in Nat /\ a[f] \in Nat
    BY <1>1, <1>2, <1>5, OlderThan
  <2>2. now \in Nat /\ now - a[f] >= Window /\ Window \in Nat
    BY <1>1, <1>2, <1>3
  <2> HIDE DEF a, f
  <2> QED
    BY <2>1, <2>2
<1>6. Filled(key)' = Len(a) + 1
  BY <1>1, <1>3, <1>4 DEF Filled
<1> HIDE DEF a, f
<1>7. Spread(Append(a, now), 2 * Rate - 1)
  <2>1. 2 * Rate - 1 \in Nat \ {0}
    BY <1>3
  <2>2. ASSUME NEW i \in 1 .. Len(a), i + (2 * Rate - 1) = Len(a) + 1
        PROVE  now - a[i] >= Window
    <3>1. i <= f
      BY <1>3, <2>2, Places
    <3> QED
      BY <1>5, <3>1
  <2> QED
    BY <1>1, <1>2, <2>1, <2>2, SpreadAppend
<1>8. ASSUME NEW i \in 1 .. Len(a) + 1, i + Rate <= Len(a) + 1
      PROVE  now - Append(a, now)[i] >= Window
  <2>1. i \in 1 .. Len(a) /\ i <= f
    BY <1>3, <1>8
  <2> QED
    BY <1>4, <1>5, <2>1
<1>9. tokens'[key] < Rate
  BY <1>1, <1>3
<1>10. Filled(key)' \in 1 .. Len(Append(a, now))
  BY <1>3, <1>4, <1>6
<1> QED
  BY <1>1, <1>4, <1>6, <1>7, <1>8, <1>9, <1>10 DEF BucketState

\* A request that takes a token: its bucket was filled where it was, and the
\* history a window before that is Rate places away.
LEMMA TokenAdmission ==
    ASSUME TypeOK, BucketInv, NEW key \in Keys, TakeToken(key)
    PROVE  BucketState(key)'
<1> DEFINE a == admitted[key]
           f == Filled(key)
<1>1. /\ admitted'[key] = Append(a, now) /\ a \in Seq(Nat) /\ now \in Nat
      /\ tokens'[key] = tokens[key] - 1 /\ lastReset'[key] = lastReset[key]
      /\ tokens[key] > 0 /\ lastReset[key] \in Nat
      /\ key \in counters /\ key \in counters' /\ now' = now
  BY DEF TypeOK, TakeToken, Admit
<1>2. /\ Chronicle(a, now) /\ Spread(a, 2 * Rate - 1)
      /\ tokens[key] < Rate /\ f \in 1 .. Len(a) /\ a[f] = lastReset[key]
      /\ \A i \in 1 .. Len(a) : i + Rate <= f => lastReset[key] - a[i] >= Window
  BY <1>1 DEF BucketInv, BucketState
<1>3. /\ f = Len(a) - (Rate - tokens[key]) + 1
      /\ tokens[key] \in Nat /\ Len(a) \in Nat
      /\ Rate \in Nat \ {0} /\ Window \in Nat \ {0}
  BY <1>1, RateLimiterAssumption DEF Filled, TypeOK
<1>4. /\ Len(Append(a, now)) = Len(a) + 1
      /\ \A i \in 1 .. Len(a) : Append(a, now)[i] = a[i]
      /\ Append(a, now)[Len(a) + 1] = now
      /\ Chronicle(Append(a, now), now)
  BY <1>1, <1>2, AppendAdmission
<1>5. Filled(key)' = f
  <2>1. Len(admitted'[key]) = Len(a) + 1 /\ tokens'[key] = tokens[key] - 1
    BY <1>1, <1>4
  <2> QED
    BY <1>3, <2>1 DEF Filled
<1> HIDE DEF a, f
<1>6. lastReset[key] <= now
  <2>1. /\ a \in Seq(Nat) /\ now \in Nat /\ Chronicle(a, now)
        /\ f \in 1 .. Len(a) /\ a[f] = lastReset[key]
    BY <1>1, <1>2
  <2>2. f <= f
    BY <2>1
  <2>3. a[f] <= now
    BY <2>1, <2>2, OlderThan
  <2> QED
    BY <2>1, <2>3
<1>7. Spread(Append(a, now), 2 * Rate - 1)
  <2>1. 2 * Rate - 1 \in Nat \ {0}
    BY <1>3
  <2>2. ASSUME NEW i \in 1 .. Len(a), i + (2 * Rate - 1) = Len(a) + 1
        PROVE  now - a[i] >= Window
    <3>1. i + Rate <= f
      <4>1. tokens[key] > 0
        BY <1>1
      <4> QED
        BY <1>3, <2>2, <4>1, Places
    <3>2. lastReset[key] - a[i] >= Window
      BY <1>2, <3>1
    <3>3. a[i] \in Nat
      BY <1>1
    <3> QED
      BY <1>1, <1>3, <1>6, <3>2, <3>3
  <2> QED
    BY <1>1, <1>2, <2>1, <2>2, SpreadAppend
<1>8. ASSUME NEW i \in 1 .. Len(a) + 1, i + Rate <= f
      PROVE  lastReset[key] - Append(a, now)[i] >= Window
  <2>1. i \in 1 .. Len(a)
    BY <1>2, <1>3, <1>8
  <2> QED
    BY <1>2, <1>4, <1>8, <2>1
<1>9. tokens'[key] < Rate
  BY <1>1, <1>2, <1>3
<1>10. /\ f \in 1 .. Len(Append(a, now))
       /\ Append(a, now)[f] = lastReset[key]
  BY <1>2, <1>3, <1>4
<1> QED
  BY <1>1, <1>4, <1>5, <1>7, <1>8, <1>9, <1>10 DEF BucketState

\* A step that leaves the buckets alone.
LEMMA BucketFrame ==
    ASSUME TypeOK, BucketInv, NEW k \in Keys,
           now' = now \/ now' = now + 1,
           k \in counters' <=> k \in counters,
           tokens'[k] = tokens[k], lastReset'[k] = lastReset[k],
           admitted'[k] = admitted[k]
    PROVE  BucketState(k)'
<1>1. Filled(k)' = Filled(k)
  BY DEF Filled
<1>2. \A i \in 1 .. Len(admitted[k]) : admitted[k][i] \in Nat
  BY DEF TypeOK
<1> QED
  BY <1>1, <1>2, SMTT(60) DEF TypeOK, BucketInv, BucketState, Chronicle, Spread

\* Every step keeps the buckets in line with the history.
LEMMA BucketInvStep == TypeOK /\ BucketInv /\ [Next]_vars => BucketInv'
<1> SUFFICES ASSUME TypeOK, BucketInv, [Next]_vars, NEW k \in Keys
             PROVE  BucketState(k)'
  BY DEF BucketInv
<1>1. CASE UNCHANGED <<counters, tokens, lastReset, admitted>>
           /\ now' \in {now, now + 1}
  BY <1>1, BucketFrame
<1>2. ASSUME NEW key \in Keys, FirstRequest(key) PROVE BucketState(k)'
  <2>1. CASE k = key
    BY <1>2, <2>1, FirstAdmission
  <2>2. CASE k # key
    <3>1. /\ k \in counters' <=> k \in counters
          /\ now' = now
          /\ tokens'[k] = tokens[k] /\ lastReset'[k] = lastReset[k]
          /\ admitted'[k] = admitted[k]
      BY <1>2, <2>2 DEF FirstRequest, Refill, Admit, TypeOK
    <3> QED
      BY <3>1, BucketFrame
  <2> QED
    BY <2>1, <2>2
<1>3. ASSUME NEW key \in Keys, NewWindow(key) PROVE BucketState(k)'
  <2>1. CASE k = key
    BY <1>3, <2>1, RefillAdmission
  <2>2. CASE k # key
    BY <1>3, <2>2, BucketFrame DEF NewWindow, Refill, Admit, TypeOK
  <2> QED
    BY <2>1, <2>2
<1>4. ASSUME NEW key \in Keys, TakeToken(key) PROVE BucketState(k)'
  <2>1. CASE k = key
    BY <1>4, <2>1, TokenAdmission
  <2>2. CASE k # key
    BY <1>4, <2>2, BucketFrame DEF TakeToken, Admit, TypeOK
  <2> QED
    BY <2>1, <2>2
<1>5. ASSUME NEW key \in Keys, Refuse(key) PROVE BucketState(k)'
  BY <1>1, <1>5 DEF Refuse
<1>6. ASSUME NEW token, Unauthorized(token) PROVE BucketState(k)'
  BY <1>1, <1>6 DEF Unauthorized
<1>7. ASSUME NEW path, NEW token, Uncounted(path, token)
      PROVE  BucketState(k)'
  BY <1>1, <1>7 DEF Uncounted
<1>8. CASE Tick \/ Preflight \/ UNCHANGED vars
  BY <1>1, <1>8 DEF Tick, Preflight, vars
<1> QED
  BY <1>2, <1>3, <1>4, <1>5, <1>6, <1>7, <1>8, BucketKeyIsKey
     DEF Next, Counted, Allow

\* A fresh limiter has admitted nobody.
LEMMA InitBuckets == Init => BucketInv
  BY RateLimiterAssumption
     DEF Init, BucketInv, BucketState, Chronicle, Spread, Keys

\* No key is let through 2 * Rate times in less than a window (Allow).
THEOREM BurstBoundHolds == Spec => []BurstBound
<1>1. Init => TypeOK /\ BucketInv
  BY InitTyped, InitBuckets
<1>2. TypeOK /\ BucketInv /\ [Next]_vars => TypeOK' /\ BucketInv'
  BY NextTyped, BucketInvStep
<1>3. TypeOK /\ BucketInv => BurstBound
  <2> SUFFICES ASSUME TypeOK, BucketInv, NEW k \in Keys,
                      NEW i \in DOMAIN admitted[k],
                      i + 2 * Rate - 1 \in DOMAIN admitted[k]
               PROVE  admitted[k][i + 2 * Rate - 1] - admitted[k][i] >= Window
    BY DEF BurstBound
  <2>1. DOMAIN admitted[k] = 1 .. Len(admitted[k])
    BY DEF TypeOK
  <2>2. Spread(admitted[k], 2 * Rate - 1)
    BY DEF BucketInv, BucketState
  <2>3. i + (2 * Rate - 1) = i + 2 * Rate - 1
    BY <2>1, RateLimiterAssumption
  <2>4. i \in 1 .. Len(admitted[k]) /\ i + (2 * Rate - 1) <= Len(admitted[k])
    BY <2>1, <2>3
  <2> QED
    BY <2>2, <2>3, <2>4 DEF Spread
<1> QED
  BY <1>1, <1>2, <1>3, PTL DEF Spec

-----------------------------------------------------------------------------
(* Refusals                                                                *)

\* Every step keeps it: only Refuse answers 429, and an admission is an
\* answer of its own.
LEMMA RefusalStep ==
    TypeOK /\ BucketInv /\ RefusalJustified /\ [Next]_vars => RefusalJustified'
<1> SUFFICES ASSUME TypeOK, BucketInv, RefusalJustified, [Next]_vars
             PROVE  RefusalJustified'
  OBVIOUS
<1>1. ASSUME NEW key \in Keys, Refuse(key) PROVE RefusalJustified'
  <2> DEFINE a == admitted[key]
  <2>1. /\ tokens[key] = 0 /\ key \in counters /\ now - lastReset[key] < Window
        /\ answer'.key = key /\ answer'.at = now /\ admitted'[key] = a
    BY <1>1, RateLimiterAssumption DEF Refuse, Expired, Answer, TypeOK
  <2>2. Len(a) - (Rate - 0) + 1 \in 1 .. Len(a)
        /\ a[Len(a) - (Rate - 0) + 1] = lastReset[key]
    BY <2>1 DEF BucketInv, BucketState, Filled
  <2>3. Len(a) \in Nat /\ Rate \in Nat
    BY RateLimiterAssumption DEF TypeOK
  <2> HIDE DEF a
  <2>4. Len(a) - (Rate - 0) + 1 = Len(a) - Rate + 1 /\ Len(a) >= Rate
    BY <2>2, <2>3
  <2> QED
    BY <2>1, <2>2, <2>4 DEF RefusalJustified
<1>2. CASE answer'.code # 429
  BY <1>2 DEF RefusalJustified
<1>3. CASE UNCHANGED <<answer, admitted>>
  BY <1>3 DEF RefusalJustified
<1>4. ASSUME NEW key \in Keys, Allow(key) PROVE RefusalJustified'
  BY <1>1, <1>2, <1>4
     DEF Allow, FirstRequest, NewWindow, TakeToken, Admit, Answer
<1>5. ASSUME NEW token \in ApiKeys \cup {NoToken}, NEW address \in Addresses,
             Counted(token, address)
      PROVE  RefusalJustified'
  <2> DEFINE key == BucketKey(token, address)
  <2>1. key \in Keys /\ Allow(key)
    BY <1>5, BucketKeyIsKey DEF Counted
  <2> HIDE DEF key
  <2> QED
    BY <1>4, <2>1
<1>6. CASE Preflight
  BY <1>2, <1>6 DEF Preflight, Answer
<1>7. ASSUME NEW token, Unauthorized(token) PROVE RefusalJustified'
  BY <1>2, <1>7 DEF Unauthorized, Answer
<1>8. ASSUME NEW path, NEW token, Uncounted(path, token)
      PROVE  RefusalJustified'
  BY <1>2, <1>8 DEF Uncounted, Answer
<1>9. CASE Tick \/ UNCHANGED vars
  BY <1>3, <1>9 DEF Tick, vars
<1> QED
  BY <1>5, <1>6, <1>7, <1>8, <1>9 DEF Next

\* Nobody is refused who has not been let through Rate times within the last
\* window (Allow).
THEOREM RefusalJustifiedHolds == Spec => []RefusalJustified
<1>1. Init => TypeOK /\ BucketInv /\ RefusalJustified
  BY InitTyped, InitBuckets DEF Init, RefusalJustified
<1>2. TypeOK /\ BucketInv /\ RefusalJustified /\ [Next]_vars
        => TypeOK' /\ BucketInv' /\ RefusalJustified'
  BY NextTyped, BucketInvStep, RefusalStep
<1> QED
  BY <1>1, <1>2, PTL DEF Spec
=============================================================================
