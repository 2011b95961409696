----------------------------- MODULE AuthProofs -------------------------------
(***************************************************************************)
(* The authentication endpoints use the limiter as it is meant to be used, *)
(* so that what is proved of the limiter alone holds of them, and they     *)
(* keep tokens, accounts and answers apart, for every number of clients,   *)
(* sessions and requests.                                                  *)
(***************************************************************************)
EXTENDS AuthSessions, SequenceTheorems, TLAPS

-----------------------------------------------------------------------------
(***************************************************************************)
(* The limiter alone: it keeps its limit, and refuses only when it has to, *)
(* for every limit, window and set of keys.                                *)
(***************************************************************************)
(***************************************************************************)
(* The inductive invariant: a deque is the end of its history, what is no  *)
(* longer in it is a window old, and histories are in the order of time.   *)
(***************************************************************************)
Gone(k) == Len(accepted[k]) - Len(bucket[k])

EndOfHistory(k) ==
  /\ Gone(k) >= 0
  /\ \A i \in 1 .. Len(bucket[k]) : bucket[k][i] = accepted[k][Gone(k) + i]
  /\ \A i \in 1 .. Gone(k) : accepted[k][i] <= clock - Window

InOrder(k) ==
  /\ \A i \in 1 .. Len(accepted[k]) : accepted[k][i] <= clock
  /\ \A i, j \in 1 .. Len(accepted[k]) : i <= j => accepted[k][i] <= accepted[k][j]

LimiterInv ==
  /\ LimiterTypeOK
  /\ \A k \in Keys : EndOfHistory(k) /\ InOrder(k)
  /\ LimitPerWindow
  /\ RefusedOnlyWhenFull

-----------------------------------------------------------------------------
\* What Since leaves: the entries after the first n.
LEMMA SinceProperties ==
  ASSUME NEW S, NEW q \in Seq(S), NEW n \in 0 .. Len(q)
  PROVE  /\ Since(q, n) \in Seq(S)
         /\ Len(Since(q, n)) = Len(q) - n
         /\ \A i \in 1 .. Len(q) - n : Since(q, n)[i] = q[n + i]
  BY SMT DEF Since

\* Popping old entries keeps a deque the end of its history, and the entries that
\* are left are younger than a window.
LEMMA Popped ==
  ASSUME LimiterInv, NEW k \in Keys, NEW n \in 0 .. Len(bucket[k]), Drops(k, n)
  PROVE  LET left == Since(bucket[k], n)
             gone == Gone(k) + n
         IN  /\ left \in Seq(Times)
             /\ Len(left) = Len(accepted[k]) - gone
             /\ \A i \in 1 .. Len(left) : left[i] = accepted[k][gone + i]
             /\ \A i \in 1 .. gone : accepted[k][i] <= clock - Window
             /\ \A i \in 1 .. Len(left) : left[i] > clock - Window
  <1> USE LimiterAssumption
  <1> DEFINE left == Since(bucket[k], n)
             gone == Gone(k) + n
  <1>1. /\ clock \in Nat /\ Window \in Nat /\ n \in Nat
        /\ bucket[k] \in Seq(Times) /\ accepted[k] \in Seq(Times)
    BY DEF LimiterInv, LimiterTypeOK, Times
  <1>2. EndOfHistory(k) /\ InOrder(k)
    BY DEF LimiterInv
  <1>3. /\ left \in Seq(Times)
        /\ Len(left) = Len(bucket[k]) - n
        /\ \A i \in 1 .. Len(bucket[k]) - n : left[i] = bucket[k][n + i]
    BY <1>1, SinceProperties
  <1>4. /\ Len(bucket[k]) \in Nat /\ Len(accepted[k]) \in Nat /\ Gone(k) \in Nat
        /\ \A i \in 1 .. Len(accepted[k]) : accepted[k][i] \in Nat
        /\ Len(accepted[k]) = Gone(k) + Len(bucket[k])
    BY <1>1, <1>2 DEF EndOfHistory, Gone, Times
  <1>5. \A i \in 1 .. Len(bucket[k]) : bucket[k][i] = accepted[k][Gone(k) + i]
    BY <1>2 DEF EndOfHistory
  <1>6. Len(left) = Len(accepted[k]) - gone
    BY <1>3, <1>4, <1>1
  <1>7. \A i \in 1 .. Len(left) : left[i] = accepted[k][gone + i]
    <2>1. TAKE i \in 1 .. Len(left)
    <2>2. n + i \in 1 .. Len(bucket[k]) /\ Gone(k) + (n + i) = gone + i
      BY <1>1, <1>3, <1>4
    <2>3. left[i] = bucket[k][n + i]
      BY <1>3
    <2> QED
      BY <2>2, <2>3, <1>5
  <1>8. \A i \in 1 .. gone : accepted[k][i] <= clock - Window
    <2>1. TAKE i \in 1 .. gone
    <2>2. CASE i <= Gone(k)
      BY <2>2, <1>2, <1>4 DEF EndOfHistory
    <2>3. CASE i > Gone(k)
      <3>1. i - Gone(k) \in 1 .. n
        BY <2>3, <1>1, <1>4
      <3>2. bucket[k][i - Gone(k)] <= clock - Window
        BY <3>1 DEF Drops
      <3>3. i - Gone(k) \in 1 .. Len(bucket[k]) /\ Gone(k) + (i - Gone(k)) = i
        BY <3>1, <1>1, <1>4
      <3> QED
        BY <3>2, <3>3, <1>5
    <2> QED
      BY <2>2, <2>3, <1>4
  <1>9. \A i \in 1 .. Len(left) : left[i] > clock - Window
    <2>1. TAKE i \in 1 .. Len(left)
    <2>2. n < Len(bucket[k]) /\ bucket[k][n + 1] > clock - Window
      BY <1>1, <1>3, <1>4 DEF Drops
    <2>3. bucket[k][n + 1] = accepted[k][gone + 1]
      <3>1. n \in Nat /\ Len(bucket[k]) \in Nat /\ Gone(k) \in Nat
        BY <1>1, <1>4
      <3>2. \A m, length, g \in Nat :
              m < length => m + 1 \in 1 .. length /\ g + (m + 1) = g + m + 1
        OBVIOUS
      <3>3. n + 1 \in 1 .. Len(bucket[k]) /\ Gone(k) + (n + 1) = gone + 1
        BY <2>2, <3>1, <3>2
      <3> QED
        BY <3>3, <1>5
    <2>4. /\ i \in Nat /\ i >= 1 /\ i <= Len(bucket[k]) - n /\ gone \in Nat
          /\ gone + Len(bucket[k]) - n = Len(accepted[k])
      <3>1. PICK A, B, g : A = Len(accepted[k]) /\ B = Len(bucket[k]) /\ g = Gone(k)
        OBVIOUS
      <3>2. A \in Nat /\ B \in Nat /\ g \in Nat /\ n \in Nat /\ n <= B /\ g = A - B
        BY <1>1, <1>4, <3>1 DEF Gone
      <3>3. i \in 1 .. B - n
        BY <1>3, <3>1
      <3>4. i \in Nat /\ i >= 1 /\ i <= B - n /\ g + n \in Nat /\ (g + n) + B - n = A
        BY <3>2, <3>3
      <3> QED
        BY <3>1, <3>4
    <2> HIDE DEF gone, left
    <2>5. /\ gone + 1 \in 1 .. Len(accepted[k]) /\ gone + i \in 1 .. Len(accepted[k])
          /\ gone + 1 <= gone + i
      BY <2>4, <1>1, <1>4
    <2>6. accepted[k][gone + 1] <= accepted[k][gone + i]
      BY <2>5, <1>2 DEF InOrder
    <2>7. left[i] = accepted[k][gone + i]
      BY <1>7
    <2>8. \A j \in 1 .. Len(accepted[k]) : accepted[k][j] \in Nat
      BY <1>4
    <2>9. accepted[k][gone + 1] \in Nat /\ accepted[k][gone + i] \in Nat
      BY <2>5, <2>8
    <2>10. clock \in Nat /\ Window \in Nat
      BY <1>1
    <2> QED
      BY <2>2, <2>3, <2>6, <2>7, <2>9, <2>10
  <1> QED
    BY <1>3, <1>6, <1>7, <1>8, <1>9

-----------------------------------------------------------------------------
LEMMA Initially == LimiterInit => LimiterInv
  BY LimiterAssumption DEF LimiterInit, LimiterInv, LimiterTypeOK, Times, EndOfHistory, InOrder, Gone,
     LimitPerWindow, RefusedOnlyWhenFull, NoVerdict

\* Letting a call in appends it to a history whose entry Limit places before is gone
\* from the deque.
LEMMA AdmitKeeps ==
  ASSUME LimiterInv, NEW k \in Keys, Admit(k), UNCHANGED clock
  PROVE  LimiterInv'
  <1> USE LimiterAssumption
  <1>1. PICK n \in 0 .. Len(bucket[k]) :
          /\ Drops(k, n)
          /\ Len(bucket[k]) - n < Limit
          /\ bucket' = [bucket EXCEPT ![k] = Append(Since(@, n), clock)]
          /\ accepted' = [accepted EXCEPT ![k] = Append(@, clock)]
          /\ verdict' = Verdict(k, TRUE)
    BY DEF Admit
  <1> DEFINE left == Since(bucket[k], n)
             gone == Gone(k) + n
             times == accepted[k]
  <1>2. /\ left \in Seq(Times)
        /\ Len(left) = Len(times) - gone
        /\ \A i \in 1 .. Len(left) : left[i] = times[gone + i]
        /\ \A i \in 1 .. gone : times[i] <= clock - Window
    BY <1>1, Popped
  <1>3. /\ clock \in Times /\ clock \in Nat /\ n \in Nat /\ Limit \in Nat /\ Window \in Nat
        /\ bucket \in [Keys -> Seq(Times)] /\ accepted \in [Keys -> Seq(Times)]
        /\ times \in Seq(Times) /\ bucket[k] \in Seq(Times)
    BY DEF LimiterInv, LimiterTypeOK, Times
  <1>4. /\ Len(times) \in Nat /\ Len(left) \in Nat /\ gone \in Nat
        /\ \A i \in 1 .. Len(times) : times[i] \in Nat
    BY <1>2, <1>3 DEF LimiterInv, EndOfHistory, Gone, Times
  <1>5. Len(left) < Limit
    BY <1>1, <1>3, SinceProperties
  <1>6. /\ bucket'[k] = Append(left, clock) /\ accepted'[k] = Append(times, clock)
        /\ \A l \in Keys \ {k} : bucket'[l] = bucket[l] /\ accepted'[l] = accepted[l]
    BY <1>1, <1>3
  <1>7. /\ Len(Append(times, clock)) = Len(times) + 1
        /\ Append(times, clock)[Len(times) + 1] = clock
        /\ \A i \in 1 .. Len(times) : Append(times, clock)[i] = times[i]
        /\ Append(times, clock) \in Seq(Times)
        /\ Len(Append(left, clock)) = Len(left) + 1
        /\ Append(left, clock)[Len(left) + 1] = clock
        /\ \A i \in 1 .. Len(left) : Append(left, clock)[i] = left[i]
        /\ Append(left, clock) \in Seq(Times)
    BY <1>2, <1>3, AppendProperties
  <1>8. LimiterTypeOK'
    BY <1>1, <1>3, <1>6, <1>7 DEF LimiterInv, LimiterTypeOK, Verdict
  <1>9. ASSUME NEW l \in Keys PROVE (EndOfHistory(l) /\ InOrder(l))'
    <2>1. CASE l = k
      <3>1. Len(accepted'[k]) - Len(bucket'[k]) = gone
        BY <1>2, <1>4, <1>6, <1>7
      <3>2. \A i \in 1 .. Len(bucket'[k]) : bucket'[k][i] = accepted'[k][gone + i]
        <4>1. TAKE i \in 1 .. Len(bucket'[k])
        <4>2. CASE i = Len(left) + 1
          BY <4>2, <1>2, <1>4, <1>6, <1>7
        <4>3. CASE i # Len(left) + 1
          <5>1. i \in 1 .. Len(left) /\ gone + i \in 1 .. Len(times)
            <6>1. PICK L, T, g : L = Len(left) /\ T = Len(times) /\ g = gone
              OBVIOUS
            <6>2. L \in Nat /\ T \in Nat /\ g \in Nat /\ L = T - g
              BY <1>2, <1>4, <6>1
            <6>3. i \in 1 .. L + 1 /\ i # L + 1
              BY <4>3, <1>6, <1>7, <6>1
            <6>4. i \in 1 .. L /\ g + i \in 1 .. T
              BY <6>2, <6>3
            <6> QED
              BY <6>1, <6>4
          <5> QED
            BY <5>1, <1>2, <1>6, <1>7
        <4> QED
          BY <4>2, <4>3
      <3>3. \A i \in 1 .. gone : accepted'[k][i] <= clock - Window
        BY <1>2, <1>4, <1>6, <1>7
      <3>4. /\ \A i \in 1 .. Len(accepted'[k]) : accepted'[k][i] <= clock
            /\ \A i, j \in 1 .. Len(accepted'[k]) : i <= j => accepted'[k][i] <= accepted'[k][j]
        <4>1. InOrder(k)
          BY DEF LimiterInv
        <4>2. \A i \in 1 .. Len(times) : times[i] <= clock
          BY <4>1 DEF InOrder
        <4>3. \A i, j \in 1 .. Len(times) : i <= j => times[i] <= times[j]
          BY <4>1 DEF InOrder
        <4>4. \A i \in 1 .. Len(times) + 1 : Append(times, clock)[i] <= clock
          BY <4>2, <1>3, <1>4, <1>7
        <4>5. \A i, j \in 1 .. Len(times) + 1 :
                i <= j => Append(times, clock)[i] <= Append(times, clock)[j]
          <5>1. TAKE i, j \in 1 .. Len(times) + 1
          <5>2. CASE j = Len(times) + 1
            BY <5>2, <4>4, <1>7
          <5>3. CASE j # Len(times) + 1 /\ i # Len(times) + 1
            <6>1. i \in 1 .. Len(times) /\ j \in 1 .. Len(times)
              <7>1. PICK T : T = Len(times)
                OBVIOUS
              <7>2. T \in Nat /\ i \in 1 .. T + 1 /\ j \in 1 .. T + 1 /\ i # T + 1 /\ j # T + 1
                BY <1>4, <5>1, <5>3, <7>1
              <7> QED
                BY <7>1, <7>2
            <6> HIDE DEF times
            <6> QED
              BY <6>1, <4>3, <1>7
          <5>4. CASE j # Len(times) + 1 /\ i = Len(times) + 1
            BY <5>4, <1>4
          <5> QED
            BY <5>2, <5>3, <5>4
        <4> QED
          BY <4>4, <4>5, <1>6, <1>7
      <3>5. Gone(k)' = gone /\ gone >= 0
        <4>1. Gone(k)' = Len(accepted'[k]) - Len(bucket'[k])
          BY DEF Gone
        <4>2. gone \in Nat
          BY <1>4
        <4> HIDE DEF gone, left, times
        <4> QED
          BY <4>1, <4>2, <3>1
      <3>6. EndOfHistory(k)'
        <4> HIDE DEF gone, left, times
        <4> QED
          BY <3>2, <3>3, <3>5 DEF EndOfHistory
      <3>7. InOrder(k)'
        BY <3>4 DEF InOrder
      <3> QED
        BY <2>1, <3>6, <3>7
    <2>2. CASE l # k
      BY <2>2, <1>6 DEF LimiterInv, EndOfHistory, InOrder, Gone
    <2> QED
      BY <2>1, <2>2
  <1>10. LimitPerWindow'
    <2>1. SUFFICES ASSUME NEW l \in Keys, NEW i \in DOMAIN accepted'[l],
                          i + Limit \in DOMAIN accepted'[l]
                   PROVE  accepted'[l][i + Limit] - accepted'[l][i] >= Window
      BY DEF LimitPerWindow
    <2>2. CASE l # k
      BY <2>1, <2>2, <1>6 DEF LimiterInv, LimitPerWindow
    <2>3. CASE l = k
      <3>1. i \in 1 .. Len(times) + 1 /\ i + Limit \in 1 .. Len(times) + 1
        BY <2>1, <2>3, <1>6, <1>7
      <3>2. i \in 1 .. Len(times) /\ accepted'[k][i] = times[i]
        BY <3>1, <1>3, <1>4, <1>6, <1>7
      <3>3. CASE i + Limit = Len(times) + 1
        <4>1. i \in 1 .. gone
          BY <3>1, <3>3, <1>2, <1>4, <1>5, <1>3
        <4>2. times[i] <= clock - Window /\ accepted'[k][i + Limit] = clock
          BY <4>1, <3>3, <1>2, <1>6, <1>7
        <4> QED
          BY <4>2, <3>2, <2>3, <1>3, <1>4
      <3>4. CASE i + Limit # Len(times) + 1
        <4>1. i + Limit \in 1 .. Len(times) /\ accepted'[k][i + Limit] = times[i + Limit]
          BY <3>1, <3>4, <1>3, <1>4, <1>6, <1>7
        <4>2. times[i + Limit] - times[i] >= Window
          BY <4>1, <3>2, <1>3 DEF LimiterInv, LimitPerWindow
        <4> QED
          BY <4>1, <4>2, <3>2, <2>3
      <3> QED
        BY <3>3, <3>4
    <2> QED
      BY <2>2, <2>3
  <1>11. RefusedOnlyWhenFull'
    BY <1>1 DEF RefusedOnlyWhenFull, Verdict
  <1> QED
    BY <1>8, <1>9, <1>10, <1>11 DEF LimiterInv

\* A refusal finds Limit entries in the deque, all of them younger than a window.
LEMMA TurnAwayKeeps ==
  ASSUME LimiterInv, NEW k \in Keys, TurnAway(k), UNCHANGED clock
  PROVE  LimiterInv'
  <1> USE LimiterAssumption
  <1>1. PICK n \in 0 .. Len(bucket[k]) :
          /\ Drops(k, n)
          /\ Len(bucket[k]) - n >= Limit
          /\ bucket' = [bucket EXCEPT ![k] = Since(@, n)]
          /\ verdict' = Verdict(k, FALSE)
          /\ UNCHANGED accepted
    BY DEF TurnAway
  <1> DEFINE left == Since(bucket[k], n)
             gone == Gone(k) + n
             times == accepted[k]
  <1>2. /\ left \in Seq(Times)
        /\ Len(left) = Len(times) - gone
        /\ \A i \in 1 .. Len(left) : left[i] = times[gone + i]
        /\ \A i \in 1 .. gone : times[i] <= clock - Window
        /\ \A i \in 1 .. Len(left) : left[i] > clock - Window
    BY <1>1, Popped
  <1>3. /\ clock \in Times /\ clock \in Nat /\ n \in Nat /\ Limit \in Nat \ {0} /\ Window \in Nat
        /\ bucket \in [Keys -> Seq(Times)] /\ accepted \in [Keys -> Seq(Times)]
        /\ times \in Seq(Times) /\ bucket[k] \in Seq(Times)
    BY DEF LimiterInv, LimiterTypeOK, Times
  <1>4. /\ Len(times) \in Nat /\ Len(left) \in Nat /\ gone \in Nat
        /\ \A i \in 1 .. Len(times) : times[i] \in Nat
    BY <1>2, <1>3 DEF LimiterInv, EndOfHistory, Gone, Times
  <1>5. Len(left) >= Limit
    BY <1>1, <1>3, SinceProperties
  <1>6. /\ bucket'[k] = left /\ \A l \in Keys \ {k} : bucket'[l] = bucket[l]
        /\ accepted' = accepted /\ clock' = clock
    BY <1>1, <1>3
  <1>7. LimiterTypeOK'
    BY <1>1, <1>2, <1>3 DEF LimiterInv, LimiterTypeOK, Verdict
  <1>8. ASSUME NEW l \in Keys PROVE (EndOfHistory(l) /\ InOrder(l))'
    <2>1. CASE l = k
      <3>1. Len(accepted'[k]) - Len(bucket'[k]) = gone
        <4>1. Len(times) - Len(left) = gone
          <5> HIDE DEF gone, left, times
          <5> QED
            BY <1>2, <1>4
        <4> QED
          BY <4>1, <1>6
      <3>2. Gone(k)' = gone /\ gone >= 0
        <4>1. Gone(k)' = Len(accepted'[k]) - Len(bucket'[k])
          BY DEF Gone
        <4>2. gone \in Nat
          BY <1>4
        <4> HIDE DEF gone, left, times
        <4> QED
          BY <4>1, <4>2, <3>1
      <3>3. \A i \in 1 .. Len(bucket'[k]) : bucket'[k][i] = accepted'[k][gone + i]
        BY <1>1, <1>2, <1>6
      <3>4. \A i \in 1 .. gone : accepted'[k][i] <= clock' - Window
        BY <1>1, <1>2
      <3>5. EndOfHistory(k)'
        <4> HIDE DEF gone, left, times
        <4> QED
          BY <3>2, <3>3, <3>4 DEF EndOfHistory
      <3>6. InOrder(k)'
        BY <1>1 DEF LimiterInv, InOrder
      <3> QED
        BY <2>1, <3>5, <3>6
    <2>2. CASE l # k
      <3>1. bucket'[l] = bucket[l] /\ accepted'[l] = accepted[l] /\ clock' = clock
        BY <2>2, <1>6
      <3>2. EndOfHistory(l) /\ InOrder(l)
        BY DEF LimiterInv
      <3> QED
        BY <3>1, <3>2 DEF EndOfHistory, InOrder, Gone
    <2> QED
      BY <2>1, <2>2
  <1>9. LimitPerWindow'
    BY <1>1 DEF LimiterInv, LimitPerWindow
  <1>10. RefusedOnlyWhenFull'
    <2> DEFINE from == Len(times) - Limit + 1
    <2>1. from >= 1 /\ from - gone \in 1 .. Len(left) /\ gone + (from - gone) = from
      BY <1>2, <1>3, <1>4, <1>5
    <2>2. left[from - gone] = times[from] /\ left[from - gone] > clock - Window
      BY <2>1, <1>2
    <2>3. from \in 1 .. Len(times) /\ times[from] \in Nat
      BY <2>1, <1>3, <1>4
    <2>4. clock - times[from] < Window
      BY <2>2, <2>3, <1>3
    <2> QED
      BY <2>1, <2>4, <1>1 DEF RefusedOnlyWhenFull, Verdict
  <1> QED
    BY <1>7, <1>8, <1>9, <1>10 DEF LimiterInv

LEMMA ForgetKeeps ==
  ASSUME LimiterInv, Forget, UNCHANGED clock
  PROVE  LimiterInv'
  BY LimiterAssumption DEF LimiterInv, Forget, LimiterTypeOK, Times, EndOfHistory, InOrder, Gone,
     LimitPerWindow, RefusedOnlyWhenFull, NoVerdict

LEMMA TickKeeps ==
  ASSUME LimiterInv, clock < MaxTime, clock' = clock + 1, UNCHANGED <<bucket, accepted, verdict>>
  PROVE  LimiterInv'
  <1> USE LimiterAssumption
  <1>1. clock \in Nat /\ clock' \in Times
    BY DEF LimiterInv, LimiterTypeOK, Times
  <1>2. LimiterTypeOK'
    BY <1>1 DEF LimiterInv, LimiterTypeOK, Times
  <1>3. ASSUME NEW k \in Keys PROVE (EndOfHistory(k) /\ InOrder(k))'
    <2>1. EndOfHistory(k) /\ InOrder(k)
      BY DEF LimiterInv
    <2>2. /\ accepted[k] \in Seq(Times) /\ bucket[k] \in Seq(Times)
          /\ \A i \in 1 .. Len(accepted[k]) : accepted[k][i] \in Nat
      BY DEF LimiterInv, LimiterTypeOK, Times
    <2>3. /\ bucket' = bucket /\ accepted' = accepted /\ clock' = clock + 1
          /\ Gone(k)' = Gone(k) /\ Gone(k) \in Nat
          /\ Len(accepted[k]) \in Nat /\ Len(bucket[k]) \in Nat
          /\ Len(accepted[k]) = Gone(k) + Len(bucket[k])
      BY <2>1, <2>2 DEF EndOfHistory, Gone
    <2>4. \A i \in 1 .. Gone(k) : accepted[k][i] <= clock' - Window
      <3>1. TAKE i \in 1 .. Gone(k)
      <3>2. accepted[k][i] <= clock - Window /\ i \in 1 .. Len(accepted[k])
        BY <2>1, <2>3 DEF EndOfHistory
      <3>3. PICK x : x = accepted[k][i]
        OBVIOUS
      <3>4. x \in Nat /\ x <= clock - Window
        BY <3>2, <3>3, <2>2
      <3>5. x <= (clock + 1) - Window
        BY <3>4, <1>1
      <3> QED
        BY <3>3, <3>5, <2>3
    <2>5. EndOfHistory(k)'
      BY <2>1, <2>3, <2>4 DEF EndOfHistory
    <2>6. InOrder(k)'
      <3>1. ASSUME NEW i \in 1 .. Len(accepted[k]) PROVE accepted[k][i] <= clock'
        <4>1. accepted[k][i] <= clock /\ accepted[k][i] \in Nat
          BY <2>1, <2>2 DEF InOrder
        <4> QED
          BY <4>1, <2>3, <1>1
      <3>2. \A i, j \in 1 .. Len(accepted[k]) : i <= j => accepted[k][i] <= accepted[k][j]
        BY <2>1 DEF InOrder
      <3>3. accepted' = accepted
        BY <2>3
      <3> QED
        BY <3>1, <3>2, <3>3 DEF InOrder
    <2> QED
      BY <2>5, <2>6
  <1>4. LimitPerWindow' /\ RefusedOnlyWhenFull'
    BY DEF LimiterInv, LimitPerWindow, RefusedOnlyWhenFull
  <1> QED
    BY <1>2, <1>3, <1>4 DEF LimiterInv

LEMMA Inductive == LimiterSpec => []LimiterInv
  <1>1. LimiterInv /\ [LimiterNext]_limiterVars => LimiterInv'
    <2> SUFFICES ASSUME LimiterInv, [LimiterNext]_limiterVars PROVE LimiterInv'
      OBVIOUS
    <2>1. ASSUME NEW k \in Keys, Admit(k), UNCHANGED clock PROVE LimiterInv'
      BY <2>1, AdmitKeeps
    <2>2. ASSUME NEW k \in Keys, TurnAway(k), UNCHANGED clock PROVE LimiterInv'
      BY <2>2, TurnAwayKeeps
    <2>3. CASE Forget /\ UNCHANGED clock
      BY <2>3, ForgetKeeps
    <2>4. CASE clock < MaxTime /\ clock' = clock + 1 /\ UNCHANGED <<bucket, accepted, verdict>>
      BY <2>4, TickKeeps
    <2>5. CASE UNCHANGED limiterVars
      BY <2>5 DEF limiterVars, LimiterInv, LimiterTypeOK, EndOfHistory, InOrder, Gone, LimitPerWindow,
         RefusedOnlyWhenFull
    <2> QED
      BY <2>1, <2>2, <2>3, <2>4, <2>5 DEF LimiterNext
  <1> QED
    BY <1>1, Initially, PTL DEF LimiterSpec

-----------------------------------------------------------------------------
\* Deques, histories and verdicts keep their types, whatever the limit and window.
THEOREM LimiterTyped == LimiterSpec => []LimiterTypeOK
  BY Inductive, PTL DEF LimiterInv

\* At most Limit calls of one key are let in during any window (setup.py:33).
THEOREM AtMostLimitPerWindow == LimiterSpec => []LimitPerWindow
  BY Inductive, PTL DEF LimiterInv

\* A call is refused only after Limit calls of its key were let in within a window
\* (setup.py:34).
THEOREM NeverRefusedEarly == LimiterSpec => []RefusedOnlyWhenFull
  BY Inductive, PTL DEF LimiterInv

-----------------------------------------------------------------------------
\* The actions of the endpoints that ask the limiter, or stop its process, are its
\* actions.
LEMMA EnterIsLimited ==
  ASSUME NEW s, NEW client \in Clients, NEW path \in Paths, NEW work,
         Enter(s, client, path, work)
  PROVE  LimiterNext
  <1>1. <<client, path>> \in Keys
    BY AuthAssumption
  <1>2. /\ UNCHANGED clock
        /\ Admit(<<client, path>>) \/ TurnAway(<<client, path>>)
    BY DEF Enter
  <1> HIDE DEF Admit, TurnAway
  <1> QED
    BY <1>1, <1>2 DEF LimiterNext

LEMMA RegisterIsLimited ==
  ASSUME NEW s, Register(s)
  PROVE  LimiterNext \/ UNCHANGED limiterVars
  <1>1. CASE BeginRegister(s)
    <2>1. PICK form \in Forms : \E work : Enter(s, form.client, "/auth/register", work)
      BY <1>1 DEF BeginRegister
    <2>2. form.client \in Clients /\ "/auth/register" \in Paths
      BY AuthAssumption DEF Paths
    <2> QED
      BY <2>1, <2>2, EnterIsLimited
  <1>2. CASE CheckEmail(s) \/ CheckUsername(s) \/ InsertUser(s) \/ CommitUser(s) \/ Welcome(s)
    BY <1>2 DEF CheckEmail, CheckUsername, InsertUser, CommitUser, Welcome
  <1> QED
    BY <1>1, <1>2 DEF Register

LEMMA LoginIsLimited ==
  ASSUME NEW s, Login(s)
  PROVE  LimiterNext \/ UNCHANGED limiterVars
  <1>1. CASE BeginLogin(s)
    <2>1. PICK client \in Clients : \E work : Enter(s, client, "/auth/login", work)
      BY <1>1 DEF BeginLogin
    <2>2. "/auth/login" \in Paths
      BY DEF Paths
    <2> QED
      BY <2>1, <2>2, EnterIsLimited
  <1>2. CASE \/ FindUser(s) \/ Expire(s) \/ Stamp(s)
             \/ InsertToken(s) \/ CommitToken(s) \/ HandOut(s)
    BY <1>2 DEF FindUser, Expire, Stamp, InsertToken, CommitToken, HandOut
  <1> QED
    BY <1>1, <1>2 DEF Login

\* Refreshing and logging out are not limited (setup.py:18).
LEMMA TokensAreNotLimited ==
  ASSUME NEW s, Refresh(s) \/ Logout(s)
  PROVE  UNCHANGED limiterVars
  BY DEF Refresh, Logout, BeginRefresh, BeginLogout, Present, FindRefresh, GrantAccess,
     FindLogout, Revoke, CommitLogout

LEMMA NextIsLimited == Next => LimiterNext \/ UNCHANGED limiterVars
  <1> SUFFICES ASSUME Next PROVE LimiterNext \/ UNCHANGED limiterVars
    OBVIOUS
  <1>1. ASSUME NEW s \in Sessions, Register(s) PROVE LimiterNext \/ UNCHANGED limiterVars
    BY <1>1, RegisterIsLimited
  <1>2. ASSUME NEW s \in Sessions, Login(s) PROVE LimiterNext \/ UNCHANGED limiterVars
    BY <1>2, LoginIsLimited
  <1>3. ASSUME NEW s \in Sessions, Refresh(s) \/ Logout(s) PROVE UNCHANGED limiterVars
    BY <1>3, TokensAreNotLimited
  <1>4. CASE Deactivate
    BY <1>4 DEF Deactivate
  <1>5. CASE Restart
    BY <1>5 DEF Restart, LimiterNext
  <1>6. CASE Tick
    BY <1>6 DEF Tick, LimiterNext
  <1> QED
    BY <1>1, <1>2, <1>3, <1>4, <1>5, <1>6 DEF Next

-----------------------------------------------------------------------------
\* Every behaviour of the endpoints is a behaviour of the limiter (setup.py:52): each
\* of their steps calls it once, clears it with its process, or leaves it alone.
THEOREM AuthUsesTheLimiter == Spec => LimiterSpec
  <1>1. Init => LimiterInit
    BY DEF Init
  <1>2. [Next]_vars => [LimiterNext]_limiterVars
    BY NextIsLimited DEF vars
  <1> QED
    BY <1>1, <1>2, PTL DEF Spec, LimiterSpec

\* At most Limit logins, and as many registrations, of one client are let in during
\* any window, whatever else the endpoints do meanwhile (setup.py:33).
THEOREM AuthIsLimited == Spec => []LimitPerWindow
  BY AuthUsesTheLimiter, AtMostLimitPerWindow, PTL

\* A login or a registration is answered 429 only after Limit of them were let in
\* within a window (setup.py:34).
THEOREM AuthIsNotRefusedEarly == Spec => []RefusedOnlyWhenFull
  BY AuthUsesTheLimiter, NeverRefusedEarly, PTL

-----------------------------------------------------------------------------
(***************************************************************************)
(* Tokens and accounts: the inductive invariant.                           *)
(***************************************************************************)
Account == [username : Spellings, secret : Clients, active : BOOLEAN]

Token == [user : Spellings, iat : Nat, exp : Nat]

\* What a session holds at each place of a request.
Work ==
  {Idle}
  \cup [pc : {"check-email", "check-username", "insert-user", "commit-user", "welcome"},
        client : Clients, email : Spellings, username : Spellings, taken : BOOLEAN]
  \cup [pc : {"find-user", "expire"}, client : Clients, email : Spellings]
  \cup [pc : {"stamp"}, user : Spellings, exp : Nat]
  \cup [pc : {"insert-token", "commit-token", "hand-out"}, token : Token]
  \cup [pc : {"find-refresh", "load-user"}, kind : {"refresh"}, token : Token, alive : BOOLEAN]
  \cup [pc : {"find-logout", "revoke", "commit-logout"}, kind : {"logout"}, token : Token,
        alive : BOOLEAN]

AuthTyped ==
  /\ clock \in Nat
  /\ DOMAIN accounts \subseteq Spellings
  /\ accounts \in [DOMAIN accounts -> Account]
  /\ DOMAIN tokens \subseteq Token
  /\ tokens \in [DOMAIN tokens -> BOOLEAN]
  /\ \A t \in DOMAIN tokens : t.user \in DOMAIN accounts
  /\ held \in [DOMAIN held -> Nat]
  /\ DOMAIN held \subseteq DOMAIN tokens
  /\ session \in [Sessions -> Work]

\* What a session has found out, and still is so: accounts stay and keep their names
\* and passwords, an inactive account and a revoked token stay so.
Found(w) ==
  /\ w.pc = "check-email" => (w.taken => w.email \in DOMAIN accounts \/ UsernameTaken(w.username))
  /\ w.pc = "check-username" => (w.taken => UsernameTaken(w.username))
  /\ w.pc \in {"insert-user", "commit-user"} => ~ w.taken
  /\ w.pc = "welcome" => /\ Lower[w.email] \in DOMAIN accounts
                         /\ accounts[Lower[w.email]].secret = w.client
  /\ w.pc = "expire" => w.email \in DOMAIN accounts
  /\ w.pc = "stamp" => w.user \in DOMAIN accounts
  /\ w.pc \in {"insert-token", "commit-token", "hand-out"} => w.token.user \in DOMAIN accounts
  /\ w.pc \in {"find-refresh", "load-user", "find-logout", "revoke", "commit-logout"}
       => w.token \in DOMAIN tokens
  /\ w.pc = "find-refresh" =>
       (~ w.alive => tokens[w.token] \/ ~ accounts[w.token.user].active)
  /\ w.pc = "load-user" => (~ w.alive => ~ accounts[w.token.user].active)
  /\ w.pc = "find-logout" => (~ w.alive => tokens[w.token])
  /\ w.pc \in {"revoke", "commit-logout"} => w.alive

\* Rows that are inserted and not committed are new ...
NewRows ==
  \A s \in Sessions :
    /\ At(s, "commit-user") => Lower[session[s].email] \notin DOMAIN accounts
    /\ At(s, "commit-token") => session[s].token \notin DOMAIN tokens
    /\ At(s, "hand-out") => session[s].token \in DOMAIN tokens \ DOMAIN held

\* ... and of one session each.
Alone ==
  \A r, s \in Sessions : r # s =>
    /\ At(r, "commit-user") /\ At(s, "commit-user")
         => Lower[session[r].email] # Lower[session[s].email]
    /\ session[r].pc \in {"commit-token", "hand-out"} /\ session[s].pc \in {"commit-token", "hand-out"}
         => session[r].token # session[s].token

AuthInv ==
  /\ AuthTyped
  /\ \A s \in Sessions : Found(session[s])
  /\ NewRows
  /\ Alone
  /\ TokensAreHandedOutOnce
  /\ DeadTokensAreRefused
  /\ WelcomedOwnTheirAccount
  /\ TakenNamesAreSaidTaken

-----------------------------------------------------------------------------
\* What never goes back.
Later ==
  /\ DOMAIN accounts \subseteq DOMAIN accounts'
  /\ \A e \in DOMAIN accounts :
       /\ accounts'[e].username = accounts[e].username
       /\ accounts'[e].secret = accounts[e].secret
       /\ accounts'[e].active => accounts[e].active
  /\ DOMAIN tokens \subseteq DOMAIN tokens'
  /\ \A t \in DOMAIN tokens : tokens[t] => tokens'[t]

LEMMA LowerIsTyped == \A x \in Spellings : Lower[x] \in Spellings
  BY AuthAssumption

\* What a session has found out outlasts the steps of the others.
LEMMA FoundLasts ==
  ASSUME AuthTyped, Later, NEW s \in Sessions, Found(session[s]), session'[s] = session[s]
  PROVE  Found(session[s])'
<1>1. session[s] \in Work
  BY DEF AuthTyped
<1>2. \A name : UsernameTaken(name) => UsernameTaken(name)'
  BY DEF Later, UsernameTaken
<1>3. \A e \in DOMAIN accounts : accounts'[e].secret = accounts[e].secret
  BY DEF Later
<1> QED
  BY <1>1, <1>2, <1>3 DEF Found, Later, AuthTyped, Work, Idle

LEMMA OthersFound ==
  ASSUME AuthInv, Later, NEW s \in Sessions, Found(session[s])',
         \A r \in Others(s) : session'[r] = session[r]
  PROVE  \A r \in Sessions : Found(session[r])'
<1> TAKE r \in Sessions
<1>1. CASE r = s
  BY <1>1
<1>2. CASE r # s
  BY <1>2, FoundLasts DEF AuthInv, Others
<1> QED
  BY <1>1, <1>2

LEMMA StillLater == UNCHANGED tables => Later
  BY DEF tables, Later

\* A step of a session that has no row under way afterwards.
LEMMA QuietStep ==
  ASSUME AuthInv, NEW s \in Sessions, NEW w \in Work, session' = [session EXCEPT ![s] = w],
         w.pc \notin {"commit-user", "commit-token", "hand-out"},
         Found(session[s])', clock' = clock, UNCHANGED <<tables, held>>,
         DeadTokensAreRefused', WelcomedOwnTheirAccount', TakenNamesAreSaidTaken'
  PROVE  AuthInv'
<1>1. AuthTyped'
  BY DEF AuthInv, AuthTyped, tables
<1>2. \A r \in Sessions : session'[r] = IF r = s THEN w ELSE session[r]
  BY DEF AuthInv, AuthTyped
<1>3. \A r \in Sessions : Found(session[r])'
  BY <1>2, OthersFound, StillLater DEF Others
<1>4. NewRows'
  BY <1>2 DEF AuthInv, NewRows, At, tables
<1>5. Alone'
  BY <1>2 DEF AuthInv, Alone, At
<1>6. TokensAreHandedOutOnce'
  BY DEF AuthInv, TokensAreHandedOutOnce
<1> QED
  BY <1>1, <1>3, <1>4, <1>5, <1>6 DEF AuthInv

LEMMA IdleWorks == Idle \in Work /\ Idle.pc = "idle"
  BY DEF Idle, Work

LEMMA IdleFound ==
  ASSUME NEW s \in Sessions, session'[s] = Idle
  PROVE  Found(session[s])'
  BY DEF Idle, Found

LEMMA HistoriesKept ==
  ASSUME AuthInv
  PROVE  /\ UNCHANGED used => DeadTokensAreRefused'
         /\ UNCHANGED <<tables, welcomed>> => WelcomedOwnTheirAccount'
         /\ UNCHANGED failed => TakenNamesAreSaidTaken'
<1>1. UNCHANGED used => DeadTokensAreRefused'
  BY DEF AuthInv, DeadTokensAreRefused
<1>2. UNCHANGED <<tables, welcomed>> => WelcomedOwnTheirAccount'
  BY DEF AuthInv, WelcomedOwnTheirAccount, tables
<1>3. UNCHANGED failed => TakenNamesAreSaidTaken'
  BY DEF AuthInv, TakenNamesAreSaidTaken
<1> QED
  BY <1>1, <1>2, <1>3

\* A step that ends the work of a session, with whatever answer.
LEMMA EndKeeps ==
  ASSUME AuthInv, NEW s \in Sessions, End(s), clock' = clock, UNCHANGED <<tables, held>>,
         DeadTokensAreRefused', WelcomedOwnTheirAccount', TakenNamesAreSaidTaken'
  PROVE  AuthInv'
<1>1. session'[s] = Idle
  BY DEF End, AuthInv, AuthTyped
<1> QED
  BY <1>1, IdleWorks, IdleFound, QuietStep DEF End

-----------------------------------------------------------------------------
(***************************************************************************)
(* Registering.                                                            *)
(***************************************************************************)
\* A request is let in with its work, or turned away.
LEMMA EnterKeeps ==
  ASSUME AuthInv, NEW s \in Sessions, NEW client, NEW path, NEW work \in Work,
         Enter(s, client, path, work),
         work.pc \notin {"commit-user", "commit-token", "hand-out"},
         session'[s] = work => Found(session[s])'
  PROVE  AuthInv'
<1>1. clock' = clock /\ UNCHANGED <<tables, histories>>
  BY DEF Enter
<1>2. DeadTokensAreRefused' /\ WelcomedOwnTheirAccount' /\ TakenNamesAreSaidTaken'
  BY <1>1, HistoriesKept DEF histories
<1>3. CASE session' = [session EXCEPT ![s] = work]
  <2>1. session'[s] = work
    BY <1>3 DEF AuthInv, AuthTyped
  <2> QED
    BY <1>1, <1>2, <1>3, <2>1, QuietStep DEF histories
<1>4. CASE UNCHANGED session
  <2>1. \A r \in Sessions : Found(session[r])'
    BY <1>1, <1>4, StillLater, FoundLasts DEF AuthInv
  <2>2. AuthTyped' /\ NewRows' /\ Alone' /\ TokensAreHandedOutOnce'
    BY <1>1, <1>4 DEF AuthInv, AuthTyped, NewRows, Alone, TokensAreHandedOutOnce, At, tables,
                      histories
  <2> QED
    BY <1>2, <2>1, <2>2 DEF AuthInv
<1> HIDE DEF Admit, TurnAway
<1> QED
  BY <1>3, <1>4 DEF Enter

LEMMA BeginRegisterKeeps ==
  ASSUME AuthInv, NEW s \in Sessions, BeginRegister(s)
  PROVE  AuthInv'
<1> DEFINE taken(form) == form.email \in DOMAIN accounts \/ UsernameTaken(form.username)
           work(form) ==
             [pc |-> "check-email", client |-> form.client, email |-> form.email,
              username |-> form.username, taken |-> taken(form)]
<1>1. PICK form \in Forms : Enter(s, form.client, "/auth/register", work(form))
  BY DEF BeginRegister
<1>2. taken(form) \in BOOLEAN
  BY DEF UsernameTaken
<1>3. UNCHANGED tables
  BY <1>1 DEF Enter
<1>4. taken(form) => form.email \in DOMAIN accounts' \/ UsernameTaken(form.username)'
  BY <1>3, Zenon DEF tables, UsernameTaken
<1> HIDE DEF taken
<1>5. work(form) \in Work /\ work(form).pc = "check-email"
  BY <1>2, AuthAssumption DEF Work
<1>6. session'[s] = work(form) => Found(session[s])'
  BY <1>4 DEF Found
<1> HIDE DEF work
<1> QED
  BY <1>1, <1>5, <1>6, EnterKeeps

\* The tests that a request only passes or ends.
LEMMA CheckKeeps ==
  ASSUME AuthInv, NEW s \in Sessions,
         CheckEmail(s) \/ CheckUsername(s) \/ FindUser(s) \/ FindRefresh(s) \/ FindLogout(s) \/ Revoke(s)
  PROVE  AuthInv'
<1>1. clock' = clock /\ UNCHANGED <<tables, histories>>
  BY DEF CheckEmail, CheckUsername, FindUser, FindRefresh, FindLogout, Revoke, limiterVars
<1>2. DeadTokensAreRefused' /\ WelcomedOwnTheirAccount' /\ TakenNamesAreSaidTaken'
  BY <1>1, HistoriesKept DEF histories
<1>3. CASE End(s)
  BY <1>1, <1>2, <1>3, EndKeeps DEF histories
<1>4. CASE ~ End(s)
  <2>1. PICK pc : Goto(s, pc) /\
          \/ CheckEmail(s) /\ pc = "check-username" /\ session[s].email \notin DOMAIN accounts
          \/ CheckUsername(s) /\ pc = "insert-user" /\ ~ UsernameTaken(session[s].username)
          \/ /\ FindUser(s)
             /\ pc = "expire"
             /\ session[s].email \in DOMAIN accounts
          \/ /\ FindRefresh(s)
             /\ pc = "load-user"
             /\ ~ tokens[session[s].token]
          \/ /\ FindLogout(s)
             /\ pc = "revoke"
             /\ ~ tokens[session[s].token]
          \/ Revoke(s) /\ pc = "commit-logout"
    BY <1>4 DEF CheckEmail, CheckUsername, FindUser, FindRefresh, FindLogout, Revoke, MayLogIn
  <2> DEFINE w == [session[s] EXCEPT !.pc = pc]
  <2>2. session' = [session EXCEPT ![s] = w] /\ session'[s] = w
    BY <2>1 DEF Goto, AuthInv, AuthTyped
  <2>3. session[s] \in Work /\ Found(session[s])
    BY DEF AuthInv, AuthTyped
  <2>4. w \in Work /\ w.pc = pc
    BY <2>1, <2>3 DEF CheckEmail, CheckUsername, FindUser, FindRefresh, FindLogout, Revoke, At,
                      Work, Idle
  <2>5. Found(w)
    BY <2>1, <2>3 DEF CheckEmail, CheckUsername, FindUser, FindRefresh, FindLogout, Revoke, At,
                      Work, Idle, Found
  <2>6. Found(session[s])'
    BY <1>1, <2>2, <2>5 DEF Found, tables, UsernameTaken
  <2> HIDE DEF w
  <2>7. pc \notin {"commit-user", "commit-token", "hand-out"}
    BY <2>1
  <2> QED
    BY <1>1, <1>2, <2>2, <2>4, <2>6, <2>7, QuietStep DEF histories
<1> QED
  BY <1>3, <1>4

LEMMA InsertUserKeeps ==
  ASSUME AuthInv, NEW s \in Sessions, InsertUser(s)
  PROVE  AuthInv'
<1>1. clock' = clock /\ UNCHANGED <<tables, held, welcomed, used>>
  BY DEF InsertUser, limiterVars
<1>2. session[s] \in Work /\ Found(session[s]) /\ session[s].pc = "insert-user" /\ ~ session[s].taken
  BY DEF AuthInv, AuthTyped, InsertUser, At, Found
<1>3. DeadTokensAreRefused' /\ WelcomedOwnTheirAccount'
  BY <1>1, HistoriesKept
<1>4. TakenNamesAreSaidTaken'
  BY <1>2 DEF InsertUser, AuthInv, TakenNamesAreSaidTaken
<1>5. CASE End(s)
  BY <1>1, <1>3, <1>4, <1>5, EndKeeps
<1>6. CASE Goto(s, "commit-user") /\ Lower[session[s].email] \notin DOMAIN accounts
  <2> DEFINE w == [session[s] EXCEPT !.pc = "commit-user"]
  <2>1. w \in Work /\ w.pc = "commit-user" /\ w.email = session[s].email /\ ~ w.taken
    BY <1>2 DEF Work, Idle
  <2>2. session' = [session EXCEPT ![s] = w]
    BY <1>6 DEF Goto
  <2> HIDE DEF w
  <2>3. \A r \in Sessions : session'[r] = IF r = s THEN w ELSE session[r]
    BY <2>2 DEF AuthInv, AuthTyped
  <2>4. AuthTyped'
    BY <1>1, <2>1, <2>2 DEF AuthInv, AuthTyped, tables
  <2>5. Found(session[s])'
    BY <2>1, <2>3 DEF Found
  <2>6. \A r \in Sessions : Found(session[r])'
    BY <1>1, <2>3, <2>5, OthersFound, StillLater DEF Others
  <2>7. NewRows'
    BY <1>1, <1>6, <2>1, <2>3 DEF AuthInv, NewRows, At, tables
  <2>8. Alone'
    <3>1. \A r \in Others(s) : At(r, "commit-user")
            => Lower[session[r].email] # Lower[session[s].email]
      BY DEF InsertUser, Inserts
    <3> QED
      BY <2>1, <2>3, <3>1 DEF AuthInv, Alone, At, Others
  <2>9. TokensAreHandedOutOnce'
    BY <1>1 DEF AuthInv, TokensAreHandedOutOnce
  <2> QED
    BY <1>3, <1>4, <2>4, <2>6, <2>7, <2>8, <2>9 DEF AuthInv
<1> QED
  BY <1>5, <1>6 DEF InsertUser

LEMMA CommitUserKeeps ==
  ASSUME AuthInv, NEW s \in Sessions, CommitUser(s)
  PROVE  AuthInv'
<1> DEFINE email == Lower[session[s].email]
           account == [username |-> Lower[session[s].username], secret |-> session[s].client,
                       active |-> TRUE]
           w == [session[s] EXCEPT !.pc = "welcome"]
<1>1. clock' = clock /\ UNCHANGED <<tokens, histories>>
  BY DEF CommitUser, limiterVars
<1>2. session[s] \in Work /\ Found(session[s]) /\ session[s].pc = "commit-user"
  BY DEF AuthInv, AuthTyped, CommitUser, At
<1>3. email \in Spellings /\ email \notin DOMAIN accounts /\ account \in Account
  BY <1>2, LowerIsTyped DEF Work, Idle, Account, AuthInv, NewRows, CommitUser
<1>4. w \in Work /\ w.pc = "welcome" /\ Lower[w.email] = email /\ w.client = account.secret
  BY <1>2 DEF Work, Idle
<1>5. session' = [session EXCEPT ![s] = w]
  BY DEF CommitUser, Goto
<1>6. accounts' = [e \in {email} \cup DOMAIN accounts |-> IF e = email THEN account ELSE accounts[e]]
  BY DEF CommitUser, With
<1> HIDE DEF email, account, w
<1>7. /\ DOMAIN accounts' = {email} \cup DOMAIN accounts
      /\ accounts'[email] = account
      /\ \A e \in DOMAIN accounts : accounts'[e] = accounts[e]
  BY <1>3, <1>6
<1>8. \A r \in Sessions : session'[r] = IF r = s THEN w ELSE session[r]
  BY <1>5 DEF AuthInv, AuthTyped
<1>9. Later
  BY <1>1, <1>7 DEF Later, histories
<1>10. AuthTyped'
  BY <1>1, <1>3, <1>4, <1>5, <1>6 DEF AuthInv, AuthTyped, histories
<1>11. Found(session[s])'
  BY <1>4, <1>7, <1>8 DEF Found
<1>12. \A r \in Sessions : Found(session[r])'
  BY <1>8, <1>9, <1>11, OthersFound DEF Others
<1>13. NewRows'
  <2>1. \A r \in Sessions : r # s /\ At(r, "commit-user") => Lower[session[r].email] # email
    BY <1>2 DEF AuthInv, Alone, At, email
  <2> QED
    BY <1>1, <1>4, <1>7, <1>8, <2>1 DEF AuthInv, NewRows, At, histories
<1>14. Alone'
  BY <1>4, <1>8 DEF AuthInv, Alone, At
<1>15. TokensAreHandedOutOnce' /\ DeadTokensAreRefused' /\ TakenNamesAreSaidTaken'
  BY <1>1 DEF AuthInv, TokensAreHandedOutOnce, DeadTokensAreRefused, TakenNamesAreSaidTaken, histories
<1>16. WelcomedOwnTheirAccount'
  BY <1>1, <1>7 DEF AuthInv, WelcomedOwnTheirAccount, histories
<1> QED
  BY <1>10, <1>12, <1>13, <1>14, <1>15, <1>16 DEF AuthInv

LEMMA WelcomeKeeps ==
  ASSUME AuthInv, NEW s \in Sessions, Welcome(s)
  PROVE  AuthInv'
<1>1. clock' = clock /\ UNCHANGED <<tables, held, used, failed>>
  BY DEF Welcome, limiterVars
<1>2. /\ Lower[session[s].email] \in DOMAIN accounts
      /\ accounts[Lower[session[s].email]].secret = session[s].client
  BY DEF AuthInv, Welcome, At, Found
<1>3. WelcomedOwnTheirAccount'
  BY <1>1, <1>2 DEF Welcome, AuthInv, WelcomedOwnTheirAccount, tables
<1> QED
  BY <1>1, <1>3, EndKeeps, HistoriesKept DEF Welcome

-----------------------------------------------------------------------------
(***************************************************************************)
(* Logging in.                                                             *)
(***************************************************************************)
LEMMA BeginLoginKeeps ==
  ASSUME AuthInv, NEW s \in Sessions, BeginLogin(s)
  PROVE  AuthInv'
<1> DEFINE work(client, email) == [pc |-> "find-user", client |-> client, email |-> Lower[email]]
<1>1. PICK client \in Clients, email \in Spellings :
        Enter(s, client, "/auth/login", work(client, email))
  BY DEF BeginLogin
<1>2. work(client, email) \in Work /\ work(client, email).pc = "find-user"
  BY LowerIsTyped DEF Work
<1>3. session'[s] = work(client, email) => Found(session[s])'
  BY DEF Found
<1> HIDE DEF work
<1> QED
  BY <1>1, <1>2, <1>3, EnterKeeps

LEMMA SignKeeps ==
  ASSUME AuthInv, NEW s \in Sessions, Expire(s) \/ Stamp(s)
  PROVE  AuthInv'
<1>1. clock' = clock /\ UNCHANGED <<tables, histories>>
  BY DEF Expire, Stamp, limiterVars
<1>2. DeadTokensAreRefused' /\ WelcomedOwnTheirAccount' /\ TakenNamesAreSaidTaken'
  BY <1>1, HistoriesKept DEF histories
<1>3. session[s] \in Work /\ Found(session[s]) /\ clock \in Nat
  BY DEF AuthInv, AuthTyped
<1>4. CASE Expire(s)
  <2> DEFINE w == [pc |-> "stamp", user |-> session[s].email, exp |-> clock + RefreshLife]
  <2>1. w \in Work /\ w.pc = "stamp" /\ w.user \in DOMAIN accounts
    BY <1>3, <1>4, AuthAssumption DEF Expire, At, Work, Idle, Found
  <2>2. session' = [session EXCEPT ![s] = w] /\ session'[s] = w
    BY <1>4 DEF Expire, AuthInv, AuthTyped
  <2> HIDE DEF w
  <2>3. Found(session[s])'
    BY <1>1, <2>1, <2>2 DEF Found, tables
  <2> QED
    BY <1>1, <1>2, <2>1, <2>2, <2>3, QuietStep DEF histories
<1>5. CASE Stamp(s) /\ session[s].exp > clock
  <2> DEFINE token == [user |-> session[s].user, iat |-> clock, exp |-> session[s].exp]
             w == [pc |-> "insert-token", token |-> token]
  <2>1. token \in Token /\ token.user \in DOMAIN accounts
    BY <1>3, <1>5 DEF Stamp, At, Work, Idle, Found, Token
  <2>2. session' = [session EXCEPT ![s] = w] /\ session'[s] = w
    BY <1>5 DEF Stamp, AuthInv, AuthTyped
  <2> HIDE DEF token
  <2>3. w \in Work /\ w.pc = "insert-token"
    BY <2>1 DEF Work
  <2>4. Found(session[s])'
    BY <1>1, <2>1, <2>2 DEF Found, tables
  <2> HIDE DEF w
  <2> QED
    BY <1>1, <1>2, <2>2, <2>3, <2>4, QuietStep DEF histories
<1>6. CASE Stamp(s) /\ ~ session[s].exp > clock
  BY <1>1, <1>2, <1>6, EndKeeps DEF Stamp, histories
<1> QED
  BY <1>4, <1>5, <1>6

LEMMA InsertTokenKeeps ==
  ASSUME AuthInv, NEW s \in Sessions, InsertToken(s)
  PROVE  AuthInv'
<1>1. clock' = clock /\ UNCHANGED <<tables, histories>>
  BY DEF InsertToken, limiterVars
<1>2. DeadTokensAreRefused' /\ WelcomedOwnTheirAccount' /\ TakenNamesAreSaidTaken'
  BY <1>1, HistoriesKept DEF histories
<1>3. CASE End(s)
  BY <1>1, <1>2, <1>3, EndKeeps DEF histories
<1>4. CASE Goto(s, "commit-token") /\ session[s].token \notin DOMAIN tokens
  <2> DEFINE w == [session[s] EXCEPT !.pc = "commit-token"]
  <2>1. session[s] \in Work /\ Found(session[s]) /\ session[s].pc = "insert-token"
    BY DEF AuthInv, AuthTyped, InsertToken, At
  <2>2. /\ w \in Work
        /\ w.pc = "commit-token"
        /\ w.token = session[s].token
        /\ w.token.user \in DOMAIN accounts
    BY <2>1 DEF Work, Idle, Found
  <2>3. session' = [session EXCEPT ![s] = w]
    BY <1>4 DEF Goto
  <2> HIDE DEF w
  <2>4. \A r \in Sessions : session'[r] = IF r = s THEN w ELSE session[r]
    BY <2>3 DEF AuthInv, AuthTyped
  <2>5. AuthTyped'
    BY <1>1, <2>2, <2>3 DEF AuthInv, AuthTyped, tables, histories
  <2>6. Found(session[s])'
    BY <1>1, <2>2, <2>4 DEF Found, tables
  <2>7. \A r \in Sessions : Found(session[r])'
    BY <1>1, <2>4, <2>6, OthersFound, StillLater DEF Others
  <2>8. NewRows'
    BY <1>1, <1>4, <2>2, <2>4 DEF AuthInv, NewRows, At, tables, histories
  <2>9. \A r \in Sessions : r # s /\ session[r].pc \in {"commit-token", "hand-out"}
          => session[r].token # session[s].token
    BY <1>4 DEF InsertToken, Others, At, AuthInv, NewRows
  <2>10. Alone'
    BY <2>2, <2>4, <2>9 DEF AuthInv, Alone, At
  <2>11. TokensAreHandedOutOnce'
    BY <1>1 DEF AuthInv, TokensAreHandedOutOnce, histories
  <2> QED
    BY <1>2, <2>5, <2>7, <2>8, <2>10, <2>11 DEF AuthInv
<1> QED
  BY <1>3, <1>4 DEF InsertToken

LEMMA CommitTokenKeeps ==
  ASSUME AuthInv, NEW s \in Sessions, CommitToken(s)
  PROVE  AuthInv'
<1> DEFINE token == session[s].token
           w == [session[s] EXCEPT !.pc = "hand-out"]
<1>1. clock' = clock /\ UNCHANGED <<accounts, histories>>
  BY DEF CommitToken, limiterVars
<1>2. session[s] \in Work /\ Found(session[s]) /\ session[s].pc = "commit-token"
  BY DEF AuthInv, AuthTyped, CommitToken, At
<1>3. token \in Token /\ token \notin DOMAIN tokens /\ token.user \in DOMAIN accounts
  BY <1>2 DEF Work, Idle, Found, AuthInv, NewRows, CommitToken
<1>4. w \in Work /\ w.pc = "hand-out" /\ w.token = token
  BY <1>2 DEF Work, Idle
<1>5. session' = [session EXCEPT ![s] = w]
  BY DEF CommitToken, Goto
<1>6. tokens' = [t \in {token} \cup DOMAIN tokens |-> IF t = token THEN FALSE ELSE tokens[t]]
  BY DEF CommitToken, With
<1>7. token \notin DOMAIN held
  BY <1>3 DEF AuthInv, AuthTyped
<1> HIDE DEF token, w
<1>8. /\ DOMAIN tokens' = {token} \cup DOMAIN tokens
      /\ \A t \in DOMAIN tokens : tokens'[t] = tokens[t]
  BY <1>3, <1>6
<1>9. \A r \in Sessions : session'[r] = IF r = s THEN w ELSE session[r]
  BY <1>5 DEF AuthInv, AuthTyped
<1>10. Later
  BY <1>1, <1>8 DEF Later, histories
<1>11. AuthTyped'
  BY <1>1, <1>3, <1>4, <1>5, <1>6, <1>8 DEF AuthInv, AuthTyped, histories
<1>12. Found(session[s])'
  BY <1>1, <1>3, <1>4, <1>9 DEF Found
<1>13. \A r \in Sessions : Found(session[r])'
  BY <1>9, <1>10, <1>12, OthersFound DEF Others
<1>14. NewRows'
  <2>1. \A r \in Sessions : r # s /\ At(r, "commit-token") => session[r].token # token
    BY <1>2 DEF AuthInv, Alone, At, token
  <2> QED
    BY <1>1, <1>4, <1>7, <1>8, <1>9, <2>1 DEF AuthInv, NewRows, At, histories
<1>15. Alone'
  <2>1. \A r \in Sessions : r # s /\ session[r].pc \in {"commit-token", "hand-out"}
          => session[r].token # token
    BY <1>2 DEF AuthInv, Alone, token
  <2> QED
    BY <1>4, <1>9, <2>1 DEF AuthInv, Alone, At
<1>16. TokensAreHandedOutOnce' /\ DeadTokensAreRefused' /\ TakenNamesAreSaidTaken'
  BY <1>1 DEF AuthInv, TokensAreHandedOutOnce, DeadTokensAreRefused, TakenNamesAreSaidTaken, histories
<1>17. WelcomedOwnTheirAccount'
  BY <1>1 DEF AuthInv, WelcomedOwnTheirAccount, histories
<1> QED
  BY <1>11, <1>13, <1>14, <1>15, <1>16, <1>17 DEF AuthInv

LEMMA HandOutKeeps ==
  ASSUME AuthInv, NEW s \in Sessions, HandOut(s)
  PROVE  AuthInv'
<1> DEFINE token == session[s].token
<1>1. clock' = clock /\ UNCHANGED <<tables, welcomed, used, failed>> /\ End(s)
  BY DEF HandOut, limiterVars
<1>2. session[s].pc = "hand-out" /\ token \in DOMAIN tokens /\ token \notin DOMAIN held
  BY DEF HandOut, At, AuthInv, NewRows
<1>3. held' = [t \in {token} \cup DOMAIN held |-> IF t = token THEN 1 ELSE held[t]]
  BY <1>2 DEF HandOut, With
<1>4. \A r \in Sessions : session'[r] = IF r = s THEN Idle ELSE session[r]
  BY <1>1 DEF End, AuthInv, AuthTyped
<1>5. \A r \in Sessions : r # s /\ At(r, "hand-out") => session[r].token # token
  BY <1>2 DEF AuthInv, Alone, At
<1> HIDE DEF token
<1>6. AuthTyped'
  <2>1. held' \in [DOMAIN held' -> Nat] /\ DOMAIN held' \subseteq DOMAIN tokens'
    BY <1>1, <1>2, <1>3 DEF AuthInv, AuthTyped, tables
  <2>2. session' \in [Sessions -> Work]
    BY <1>1, IdleWorks DEF End, AuthInv, AuthTyped
  <2> QED
    BY <1>1, <2>1, <2>2 DEF AuthInv, AuthTyped, tables
<1>7. \A r \in Sessions : Found(session[r])'
  BY <1>1, <1>4, IdleFound, OthersFound, StillLater DEF Others
<1>8. NewRows'
  BY <1>1, <1>3, <1>4, <1>5, IdleWorks DEF AuthInv, NewRows, At, tables
<1>9. Alone'
  BY <1>4, IdleWorks DEF AuthInv, Alone, At
<1>10. TokensAreHandedOutOnce'
  BY <1>3 DEF AuthInv, TokensAreHandedOutOnce
<1> QED
  BY <1>1, <1>6, <1>7, <1>8, <1>9, <1>10, HistoriesKept DEF AuthInv

-----------------------------------------------------------------------------
(***************************************************************************)
(* Refreshing and logging out.                                             *)
(***************************************************************************)
LEMMA PresentKeeps ==
  ASSUME AuthInv, NEW s \in Sessions, NEW kind, NEW pc, Present(s, kind, pc),
         <<kind, pc>> \in {<<"refresh", "find-refresh">>, <<"logout", "find-logout">>}
  PROVE  AuthInv'
<1>1. PICK token \in DOMAIN held :
        /\ UNCHANGED <<limiterVars, tables, histories>>
        /\ IF token.exp > clock
           THEN session' = [session EXCEPT ![s] =
                  [pc |-> pc, kind |-> kind, token |-> token, alive |-> Alive(token, kind)]]
           ELSE UNCHANGED session
  BY DEF Present
<1>2. clock' = clock /\ UNCHANGED <<tables, histories>>
  BY <1>1 DEF limiterVars
<1>3. DeadTokensAreRefused' /\ WelcomedOwnTheirAccount' /\ TakenNamesAreSaidTaken'
  BY <1>2, HistoriesKept DEF histories
<1>4. token \in Token /\ token \in DOMAIN tokens /\ Alive(token, kind) \in BOOLEAN
  BY DEF AuthInv, AuthTyped, Alive
<1> DEFINE alive == Alive(token, kind)
           w == [pc |-> pc, kind |-> kind, token |-> token, alive |-> alive]
<1>5. CASE token.exp > clock
  <2>1. ~ alive => tokens[token] \/ (kind = "refresh" /\ ~ accounts[token.user].active)
    BY <1>5 DEF Alive
  <2> HIDE DEF alive
  <2>2. w \in Work /\ w.pc = pc /\ pc \notin {"commit-user", "commit-token", "hand-out"}
    BY <1>4 DEF Work, alive
  <2>3. session' = [session EXCEPT ![s] = w] /\ session'[s] = w
    BY <1>1, <1>5 DEF AuthInv, AuthTyped, alive
  <2>4. Found(session[s])'
    BY <1>2, <1>4, <2>1, <2>3 DEF Found, tables
  <2> HIDE DEF w
  <2> QED
    BY <1>2, <1>3, <2>2, <2>3, <2>4, QuietStep DEF histories
<1>6. CASE ~ token.exp > clock
  <2>1. UNCHANGED session
    BY <1>1, <1>6
  <2>2. \A r \in Sessions : Found(session[r])'
    BY <1>2, <2>1, StillLater, FoundLasts DEF AuthInv
  <2>3. AuthTyped' /\ NewRows' /\ Alone' /\ TokensAreHandedOutOnce'
    BY <1>2, <2>1 DEF AuthInv, AuthTyped, NewRows, Alone, TokensAreHandedOutOnce, At, tables,
                      histories
  <2> QED
    BY <1>3, <2>2, <2>3 DEF AuthInv
<1> QED
  BY <1>5, <1>6

\* A refresh is answered 200 when the account is active still, and a logout when the
\* row was not revoked: a dead token was found to be so before.
LEMMA GrantAccessKeeps ==
  ASSUME AuthInv, NEW s \in Sessions, GrantAccess(s)
  PROVE  AuthInv'
<1>1. clock' = clock /\ UNCHANGED <<tables, held, welcomed, failed>> /\ End(s)
  BY DEF GrantAccess, limiterVars
<1>2. Found(session[s]) /\ session[s].pc = "load-user" /\ session[s] \in Work
  BY DEF GrantAccess, At, AuthInv, AuthTyped
<1>3. accounts[session[s].token.user].active => session[s].alive
  BY <1>2 DEF Found, Work, Idle
<1>4. DeadTokensAreRefused'
  BY <1>3 DEF GrantAccess, Grant, AuthInv, DeadTokensAreRefused
<1> QED
  BY <1>1, <1>4, EndKeeps, HistoriesKept

LEMMA CommitLogoutKeeps ==
  ASSUME AuthInv, NEW s \in Sessions, CommitLogout(s)
  PROVE  AuthInv'
<1>1. clock' = clock /\ UNCHANGED <<accounts, held, welcomed, failed>> /\ End(s)
  BY DEF CommitLogout, limiterVars
<1>2. Found(session[s]) /\ session[s].pc = "commit-logout"
  BY DEF CommitLogout, At, AuthInv
<1>3. session[s].alive
  BY <1>2 DEF Found
<1>4. DeadTokensAreRefused'
  BY <1>3 DEF CommitLogout, Grant, AuthInv, DeadTokensAreRefused
<1>5. \A r \in Sessions : session'[r] = IF r = s THEN Idle ELSE session[r]
  BY <1>1 DEF End, AuthInv, AuthTyped
<1>6. /\ DOMAIN tokens' = DOMAIN tokens
      /\ tokens' \in [DOMAIN tokens' -> BOOLEAN]
      /\ \A t \in DOMAIN tokens : tokens[t] => tokens'[t]
  BY DEF CommitLogout, AuthInv, AuthTyped
<1>7. Later
  BY <1>1, <1>6 DEF Later
<1>8. AuthTyped'
  <2>1. session' \in [Sessions -> Work]
    BY <1>1, IdleWorks DEF End, AuthInv, AuthTyped
  <2> QED
    BY <1>1, <1>6, <2>1 DEF AuthInv, AuthTyped
<1>9. \A r \in Sessions : Found(session[r])'
  BY <1>5, <1>7, IdleFound, OthersFound DEF Others
<1>10. NewRows'
  BY <1>1, <1>5, <1>6, IdleWorks DEF AuthInv, NewRows, At
<1>11. Alone'
  BY <1>5, IdleWorks DEF AuthInv, Alone, At
<1>12. TokensAreHandedOutOnce' /\ WelcomedOwnTheirAccount' /\ TakenNamesAreSaidTaken'
  BY <1>1 DEF AuthInv, TokensAreHandedOutOnce, WelcomedOwnTheirAccount, TakenNamesAreSaidTaken
<1> QED
  BY <1>4, <1>8, <1>9, <1>10, <1>11, <1>12 DEF AuthInv

-----------------------------------------------------------------------------
(***************************************************************************)
(* The steps of no session.                                                *)
(***************************************************************************)
LEMMA DeactivateKeeps == AuthInv /\ Deactivate => AuthInv'
<1> SUFFICES ASSUME AuthInv, Deactivate PROVE AuthInv'
  OBVIOUS
<1>1. PICK e \in DOMAIN accounts :
        /\ accounts' = [accounts EXCEPT ![e].active = FALSE]
        /\ UNCHANGED <<limiterVars, tokens, session, begun, histories>>
  BY DEF Deactivate
<1> DEFINE row == [accounts[e] EXCEPT !.active = FALSE]
<1>2. accounts[e] \in Account
  BY DEF AuthInv, AuthTyped
<1>3. /\ row \in Account
      /\ row.username = accounts[e].username
      /\ row.secret = accounts[e].secret
      /\ ~ row.active
  BY <1>2 DEF Account
<1>4. accounts' = [accounts EXCEPT ![e] = row]
  BY <1>1
<1> HIDE DEF row
<1>5. DOMAIN accounts' = DOMAIN accounts /\ accounts' \in [DOMAIN accounts' -> Account]
  BY <1>3, <1>4 DEF AuthInv, AuthTyped
<1>6. \A x \in DOMAIN accounts : accounts'[x] = IF x = e THEN row ELSE accounts[x]
  BY <1>4
<1>7. Later
  BY <1>1, <1>3, <1>5, <1>6 DEF Later
<1>8. clock' = clock /\ UNCHANGED <<tokens, session, histories>>
  BY <1>1 DEF limiterVars
<1>9. AuthTyped'
  BY <1>5, <1>8 DEF AuthInv, AuthTyped, histories
<1>10. \A r \in Sessions : Found(session[r])'
  BY <1>7, <1>8, FoundLasts DEF AuthInv
<1>11. NewRows' /\ Alone'
  BY <1>5, <1>8 DEF AuthInv, NewRows, Alone, At, histories
<1>12. TokensAreHandedOutOnce' /\ DeadTokensAreRefused' /\ TakenNamesAreSaidTaken'
  BY <1>8 DEF AuthInv, TokensAreHandedOutOnce, DeadTokensAreRefused, TakenNamesAreSaidTaken, histories
<1>13. WelcomedOwnTheirAccount'
  BY <1>3, <1>5, <1>6, <1>8 DEF AuthInv, WelcomedOwnTheirAccount, histories
<1> QED
  BY <1>9, <1>10, <1>11, <1>12, <1>13 DEF AuthInv

LEMMA RestartKeeps == AuthInv /\ Restart => AuthInv'
<1> SUFFICES ASSUME AuthInv, Restart PROVE AuthInv'
  OBVIOUS
<1>1. clock' = clock /\ UNCHANGED <<tables, histories>>
  BY DEF Restart
<1>2. session' = [s \in Sessions |-> Idle] /\ \A s \in Sessions : session'[s] = Idle
  BY DEF Restart
<1>3. AuthTyped'
  BY <1>1, <1>2, IdleWorks DEF AuthInv, AuthTyped, tables, histories
<1>4. \A s \in Sessions : Found(session[s])'
  BY <1>2, IdleFound
<1>5. NewRows' /\ Alone'
  BY <1>2, IdleWorks DEF NewRows, Alone, At
<1>6. TokensAreHandedOutOnce'
  BY <1>1 DEF AuthInv, TokensAreHandedOutOnce, histories
<1> QED
  BY <1>1, <1>3, <1>4, <1>5, <1>6, HistoriesKept DEF AuthInv, histories

LEMMA StandsStill ==
  ASSUME AuthInv, clock' \in Nat, UNCHANGED <<tables, session, histories>>
  PROVE  AuthInv'
<1>1. AuthTyped'
  BY DEF AuthInv, AuthTyped, tables, histories
<1>2. \A s \in Sessions : Found(session[s])'
  BY StillLater, FoundLasts DEF AuthInv
<1>3. NewRows' /\ Alone'
  BY DEF AuthInv, NewRows, Alone, At, tables, histories
<1>4. TokensAreHandedOutOnce'
  BY DEF AuthInv, TokensAreHandedOutOnce, histories
<1> QED
  BY <1>1, <1>2, <1>3, <1>4, HistoriesKept DEF AuthInv, histories

LEMMA AuthInitially == Init => AuthInv
<1> SUFFICES ASSUME Init PROVE AuthInv
  OBVIOUS
<1>1. /\ clock = 0 /\ accounts = Known /\ tokens = <<>> /\ held = <<>> /\ used = {} /\ failed = {}
      /\ session = [s \in Sessions |-> Idle]
      /\ welcomed = {[email |-> e, client |-> Known[e].secret] : e \in DOMAIN Known}
  BY DEF Init, LimiterInit
<1>2. DOMAIN tokens = {} /\ DOMAIN held = {}
  BY <1>1
<1>3. \A e \in DOMAIN Known : e \in Spellings /\ Lower[e] = e
  BY AuthAssumption
<1>4. AuthTyped
  <2>1. accounts \in [DOMAIN accounts -> Account] /\ DOMAIN accounts \subseteq Spellings
    BY <1>1, <1>3, AuthAssumption DEF Account
  <2>2. tokens \in [DOMAIN tokens -> BOOLEAN] /\ held \in [DOMAIN held -> Nat]
    BY <1>1
  <2> QED
    BY <1>1, <1>2, <2>1, <2>2, IdleWorks DEF AuthTyped
<1>5. \A s \in Sessions : Found(session[s])
  BY <1>1 DEF Found, Idle
<1>6. NewRows /\ Alone
  BY <1>1, IdleWorks DEF NewRows, Alone, At
<1>7. WelcomedOwnTheirAccount
  BY <1>1, <1>3 DEF WelcomedOwnTheirAccount
<1>8. TokensAreHandedOutOnce /\ DeadTokensAreRefused /\ TakenNamesAreSaidTaken
  BY <1>1, <1>2 DEF TokensAreHandedOutOnce, DeadTokensAreRefused, TakenNamesAreSaidTaken
<1> QED
  BY <1>4, <1>5, <1>6, <1>7, <1>8 DEF AuthInv

LEMMA NextKeeps == AuthInv /\ [Next]_vars => AuthInv'
<1> SUFFICES ASSUME AuthInv, [Next]_vars PROVE AuthInv'
  OBVIOUS
<1>1. ASSUME NEW s \in Sessions, Register(s) PROVE AuthInv'
  BY <1>1, BeginRegisterKeeps, CheckKeeps, InsertUserKeeps, CommitUserKeeps, WelcomeKeeps
     DEF Register
<1>2. ASSUME NEW s \in Sessions, Login(s) PROVE AuthInv'
  BY <1>2, BeginLoginKeeps, CheckKeeps, SignKeeps, InsertTokenKeeps, CommitTokenKeeps, HandOutKeeps
     DEF Login
<1>3. ASSUME NEW s \in Sessions, Refresh(s) \/ Logout(s) PROVE AuthInv'
  <2>1. CASE BeginRefresh(s) \/ BeginLogout(s)
    BY <2>1, PresentKeeps DEF BeginRefresh, BeginLogout
  <2> QED
    BY <1>3, <2>1, CheckKeeps, GrantAccessKeeps, CommitLogoutKeeps DEF Refresh, Logout
<1>4. CASE Tick
  BY <1>4, StandsStill DEF Tick, AuthInv, AuthTyped
<1>5. CASE UNCHANGED vars
  BY <1>5, StandsStill DEF vars, limiterVars, AuthInv, AuthTyped
<1> QED
  BY <1>1, <1>2, <1>3, <1>4, <1>5, DeactivateKeeps, RestartKeeps DEF Next

LEMMA AlwaysAuthInv == Spec => []AuthInv
  BY AuthInitially, NextKeeps, PTL DEF Spec

-----------------------------------------------------------------------------
\* Accounts, tokens and what sessions hold keep their types; every token is of an
\* account, and none is answered that has no row (refresh_token.py:15).
THEOREM TokensHaveAccounts == Spec => []AuthTyped
  BY AlwaysAuthInv, PTL DEF AuthInv

\* However many logins of one account are signed in the same second, one of them is
\* answered and the others fail (refresh_token.py:16).
THEOREM NoTokenTwice == Spec => []TokensAreHandedOutOnce
  BY AlwaysAuthInv, PTL DEF AuthInv

\* No refresh or logout that begins too late is answered 200, whatever logouts,
\* deactivations and restarts it overlaps (auth_service.py:83, 86, 90, 108).
THEOREM NoDeadTokenServes == Spec => []DeadTokensAreRefused
  BY AlwaysAuthInv, PTL DEF AuthInv

\* Nobody takes over an account that was answered 201, nor changes its password
\* (auth_service.py:48, 65).
THEOREM WelcomeLasts == Spec => []WelcomedOwnTheirAccount
  BY AlwaysAuthInv, PTL DEF AuthInv

\* Only registrations that overlap or differ in capitals reach the unique constraints
\* and are answered 500 (auth_service.py:37, 40).
THEOREM ConflictIsSaid == Spec => []TakenNamesAreSaidTaken
  BY AlwaysAuthInv, PTL DEF AuthInv
=============================================================================
