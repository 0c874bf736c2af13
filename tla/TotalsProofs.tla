---------------------------- MODULE TotalsProofs ----------------------------
(***************************************************************************)
(* What a total of a sequence of integers is, for every sequence.  The     *)
(* total is a recursive function, so its definition says only that it is   *)
(* some solution of the recursion: that one exists, that its value does    *)
(* not depend on the choice and what it amounts to are proved here, by     *)
(* induction over the sequence.                                            *)
(***************************************************************************)
EXTENDS Totals, WellFoundedInduction, TLAPS

(* Induction over 0..n in terms of a set: the least number outside it would*)
(* have a predecessor inside.                                              *)
LEMMA UpTo ==
  ASSUME NEW n \in Nat, NEW T, 0 \in T, \A i \in 0..(n - 1) : i \in T => i + 1 \in T
  PROVE  0..n \subseteq T
<1> DEFINE Out == (0..n) \ T
           R == OpToRel(<, Nat)
<1> SUFFICES ASSUME Out # {} PROVE FALSE
  OBVIOUS
<1>0. IsWellFoundedOn(R, Nat)
  BY NatLessThanWellFounded
<1>1. \A x, y \in Nat : <<x, y>> \in R <=> x < y
  BY DEF OpToRel
<1>2. Out \subseteq Nat
  OBVIOUS
<1> HIDE DEF R, Out
<1>3. PICK x \in Out : \A y \in Out : ~(<<y, x>> \in R)
  BY <1>0, <1>2, WFMin
<1>4. x \in 0..n /\ x \notin T
  BY DEF Out
<1>5. x # 0 /\ x - 1 \in 0..n /\ x - 1 \in 0 .. (n - 1)
  BY <1>4
<1>6. x - 1 \in T
  <2>1. x \in Nat /\ x - 1 \in Nat /\ x - 1 < x
    BY <1>4, <1>5
  <2>2. <<x - 1, x>> \in R
    BY <1>1, <2>1
  <2> QED
    BY <1>3, <1>5, <2>2 DEF Out
<1> QED
  BY <1>4, <1>5, <1>6

(* s is the running total of the first n values of v.                      *)
Running(v, n, s) ==
    s \in [0..n -> Int] /\ s[0] = 0 /\ \A i \in 1..n : s[i] = s[i - 1] + v[i]

(* Every sequence of integers has a running total.                         *)
LEMMA RunningExists ==
  ASSUME NEW v \in Seq(Int)
  PROVE  \E s : Running(v, Len(v), s)
<1> DEFINE n == Len(v)
           T == {k \in 0..n : \E s : Running(v, k, s)}
<1>1. n \in Nat /\ \A i \in 1..n : v[i] \in Int
  OBVIOUS
<1>2. 0 \in T
  <2>1. Running(v, 0, [i \in 0..0 |-> 0])
    BY DEF Running
  <2> QED
    BY <1>1, <2>1
<1>3. ASSUME NEW k \in 0..(n - 1), k \in T PROVE k + 1 \in T
  <2>1. PICK s : Running(v, k, s)
    BY <1>3
  <2> DEFINE r == [i \in 0..(k + 1) |-> IF i <= k THEN s[i] ELSE s[k] + v[k + 1]]
  <2>2. Running(v, k + 1, r)
    BY <1>1, <2>1 DEF Running
  <2> QED
    BY <1>1, <2>2
<1>4. n \in T
  <2> HIDE DEF T
  <2>1. 0..n \subseteq T
    BY <1>1, <1>2, <1>3, UpTo
  <2> QED
    BY <1>1, <2>1
<1> QED
  BY <1>4

(* Running totals of the same values end in the same total.                *)
LEMMA RunningUnique ==
  ASSUME NEW v, NEW w, NEW n \in Nat, NEW s, NEW r, Running(v, n, s), Running(w, n, r),
         \A i \in 1..n : v[i] = w[i]
  PROVE  s[n] = r[n]
<1> DEFINE T == {k \in 0..n : s[k] = r[k]}
<1>1. 0 \in T
  BY DEF Running
<1>2. \A i \in 0..(n - 1) : i \in T => i + 1 \in T
  BY DEF Running
<1> HIDE DEF T
<1>3. 0..n \subseteq T
  BY <1>1, <1>2, UpTo
<1> QED
  BY <1>3 DEF T

(* Total is the end of a running total.                                    *)
LEMMA TotalIsRunning ==
  ASSUME NEW v \in Seq(Int)
  PROVE  \E s : Running(v, Len(v), s) /\ Total(v) = s[Len(v)]
<1> DEFINE n == Len(v)
           F(s) == [i \in 0..n |-> IF i = 0 THEN 0 ELSE s[i - 1] + v[i]]
           total == CHOOSE s : s = F(s)
<1>1. Total(v) = total[n]
  BY Zenon DEF Total
<1>2. PICK s : Running(v, n, s)
  BY RunningExists
<1>3. s = F(s)
  BY <1>2 DEF Running
<1>4. total = F(total)
  <2> HIDE DEF F
  <2> QED
    BY <1>3
<1> HIDE DEF total
<1>5. /\ n \in Nat /\ DOMAIN total = 0..n /\ total[0] = 0
      /\ \A i \in 1..n : v[i] \in Int /\ total[i] = total[i - 1] + v[i]
  <2>1. n \in Nat /\ \A i \in 1..n : v[i] \in Int
    OBVIOUS
  <2> HIDE DEF n
  <2>2. DOMAIN total = 0..n
    BY <1>4
  <2>3. total[0] = 0
    BY <1>4, <2>1
  <2>4. ASSUME NEW i \in 1..n PROVE total[i] = total[i - 1] + v[i]
    <3>1. i \in 0..n /\ i # 0
      BY <2>1
    <3> QED
      BY <1>4, <3>1
  <2> QED
    BY <2>1, <2>2, <2>3, <2>4
<1> HIDE DEF n, F
<1> DEFINE T == {k \in 0..n : total[k] \in Int}
<1>6. 0..n \subseteq T
  <2>1. 0 \in T
    BY <1>5
  <2>2. ASSUME NEW i \in 0..(n - 1), i \in T PROVE i + 1 \in T
    <3>1. i + 1 \in 1..n /\ (i + 1) - 1 = i /\ i + 1 \in 0..n /\ total[i] \in Int
      BY <1>5, <2>2
    <3>2. total[i + 1] = total[i] + v[i + 1] /\ v[i + 1] \in Int
      BY <1>5, <3>1
    <3>3. total[i + 1] \in Int
      BY <3>1, <3>2
    <3> QED
      BY <3>1, <3>3
  <2> HIDE DEF T
  <2> QED
    BY <1>5, <2>1, <2>2, UpTo
<1>7. total = [i \in 0..n |-> total[i]]
  BY <1>4, <1>5 DEF F
<1>8. Running(v, n, total)
  BY <1>5, <1>6, <1>7 DEF Running
<1> QED
  BY <1>1, <1>8 DEF n

(* No values, no total.                                                    *)
LEMMA TotalEmpty == Total(<<>>) = 0
<1>1. <<>> \in Seq(Int) /\ Len(<<>>) = 0
  OBVIOUS
<1> QED
  BY <1>1, TotalIsRunning DEF Running

(* A total of integers is an integer.                                      *)
LEMMA TotalType ==
  ASSUME NEW v \in Seq(Int)
  PROVE  Total(v) \in Int
  BY TotalIsRunning DEF Running

(* One more value adds itself to the total: what the loop over the segments*)
(* and closeAt of the meter have in common.                                *)
LEMMA TotalGrows ==
  ASSUME NEW v \in Seq(Int), NEW w \in Seq(Int), Len(w) = Len(v) + 1,
         \A i \in 1..Len(v) : w[i] = v[i]
  PROVE  Total(w) = Total(v) + w[Len(w)]
<1> DEFINE n == Len(v)
<1>1. PICK s : Running(v, n, s) /\ Total(v) = s[n]
  BY TotalIsRunning
<1>2. PICK r : Running(w, n + 1, r) /\ Total(w) = r[n + 1]
  BY TotalIsRunning
<1> DEFINE q == [i \in 0..n |-> r[i]]
<1>0. n \in Nat
  OBVIOUS
<1>3. Running(v, n, q)
  BY <1>0, <1>2 DEF Running
<1>4. q[n] = s[n]
  <2> HIDE DEF q, n
  <2> QED
    BY <1>0, <1>1, <1>3, RunningUnique
<1>5. r[n + 1] = r[n] + w[n + 1] /\ q[n] = r[n]
  BY <1>0, <1>2 DEF Running
<1> QED
  BY <1>1, <1>2, <1>4, <1>5

(* What no step changes is at the end what it was at the start.            *)
LEMMA Still ==
  ASSUME NEW n \in Nat, NEW d, \A i \in 0..(n - 1) : d[i + 1] = d[i]
  PROVE  d[n] = d[0]
<1> DEFINE T == {k \in 0..n : d[k] = d[0]}
<1>1. 0 \in T
  OBVIOUS
<1>2. \A i \in 0..(n - 1) : i \in T => i + 1 \in T
  OBVIOUS
<1> HIDE DEF T
<1>3. 0..n \subseteq T
  BY <1>1, <1>2, UpTo
<1> QED
  BY <1>3 DEF T

(* One step of a running total.                                            *)
LEMMA RunningStep ==
  ASSUME NEW v, NEW n \in Nat, NEW s, Running(v, n, s), NEW i \in 0..(n - 1)
  PROVE  s[i] \in Int /\ s[i + 1] = s[i] + v[i + 1]
<1>1. i + 1 \in 1..n /\ (i + 1) - 1 = i /\ i \in 0..n
  OBVIOUS
<1> QED
  BY <1>1 DEF Running

(* Together v and w are the increments of h.                               *)
Telescopes(v, w, h) ==
    /\ \A i \in 0..Len(v) : h[i] \in Int
    /\ \A i \in 0..(Len(v) - 1) : v[i + 1] + w[i + 1] = h[i + 1] - h[i]

(* The increments of h add up to its whole rise: what two adjoining        *)
(* segments count is counted once.                                         *)
LEMMA TotalsTelescope ==
  ASSUME NEW v \in Seq(Int), NEW w \in Seq(Int), Len(w) = Len(v), NEW h,
         Telescopes(v, w, h)
  PROVE  Total(v) + Total(w) = h[Len(v)] - h[0]
<1>1. PICK s : Running(v, Len(v), s) /\ Total(v) = s[Len(v)]
  BY TotalIsRunning
<1>2. PICK r : Running(w, Len(v), r) /\ Total(w) = r[Len(v)]
  BY TotalIsRunning
<1> DEFINE d == [i \in 0..Len(v) |-> s[i] + r[i] - h[i]]
<1>3. ASSUME NEW i \in 0..(Len(v) - 1) PROVE d[i + 1] = d[i]
  <2>0. Len(v) \in Nat
    OBVIOUS
  <2>1. i + 1 \in 1..Len(v) /\ i + 1 \in 0..Len(v) /\ i \in 0..Len(v)
    BY <2>0
  <2>2. s[i] \in Int /\ s[i + 1] = s[i] + v[i + 1]
    BY <1>1, <2>0, RunningStep
  <2>3. r[i] \in Int /\ r[i + 1] = r[i] + w[i + 1]
    BY <1>2, <2>0, RunningStep
  <2>4. v[i + 1] \in Int /\ w[i + 1] \in Int
    BY <2>1
  <2>5. h[i] \in Int /\ h[i + 1] \in Int /\ v[i + 1] + w[i + 1] = h[i + 1] - h[i]
    BY <2>1, Zenon DEF Telescopes
  <2>6. PICK x \in Int, y \in Int, p \in Int, q \in Int, g \in Int, k \in Int :
            x = s[i] /\ y = r[i] /\ p = v[i + 1] /\ q = w[i + 1] /\ g = h[i] /\ k = h[i + 1]
    BY <2>2, <2>3, <2>4, <2>5, Zenon
  <2>7. p + q = k - g
    BY <2>5, <2>6, Zenon
  <2>8. (x + p) + (y + q) - k = x + y - g
    BY ONLY <2>7
  <2>9. (s[i] + v[i + 1]) + (r[i] + w[i + 1]) - h[i + 1] = s[i] + r[i] - h[i]
    BY ONLY <2>6, <2>8, Zenon
  <2>10. d[i + 1] = s[i + 1] + r[i + 1] - h[i + 1] /\ d[i] = s[i] + r[i] - h[i]
    BY <2>1, Zenon
  <2> QED
    BY <2>2, <2>3, <2>9, <2>10, Zenon
<1>4. Len(v) \in Nat /\ 0 \in 0..Len(v) /\ Len(v) \in 0..Len(v)
  OBVIOUS
<1>5. /\ d[Len(v)] = s[Len(v)] + r[Len(v)] - h[Len(v)]
      /\ d[0] = s[0] + r[0] - h[0]
  BY <1>4, Zenon
<1>6. /\ s[0] = 0 /\ r[0] = 0 /\ s[Len(v)] \in Int /\ r[Len(v)] \in Int
      /\ h[0] \in Int /\ h[Len(v)] \in Int
  BY <1>1, <1>2, <1>4 DEF Running, Telescopes
<1> HIDE DEF d
<1>7. d[Len(v)] = d[0]
  BY <1>3, <1>4, Still
<1>8. s[Len(v)] + r[Len(v)] - h[Len(v)] = 0 + 0 - h[0]
  BY <1>5, <1>6, <1>7, Zenon
<1>9. PICK x \in Int, y \in Int, g \in Int, k \in Int :
           x = s[Len(v)] /\ y = r[Len(v)] /\ g = h[0] /\ k = h[Len(v)]
  BY <1>6, Zenon
<1>10. x + y - k = 0 + 0 - g
  BY <1>8, <1>9, Zenon
<1>11. x + y = k - g
  BY ONLY <1>10
<1>12. s[Len(v)] + r[Len(v)] = h[Len(v)] - h[0]
  BY <1>9, <1>11, Zenon
<1> QED
  BY <1>1, <1>2, <1>12, Zenon
=============================================================================
