---------------------------- MODULE Tier0_proofs ----------------------------
(***************************************************************************)
(* What the device leaves of the commands an operation has queued: however *)
(* Finished cuts the queue into stretches, it is what one command after    *)
(* the other leaves, for a queue of every length.                          *)
(***************************************************************************)
EXTENDS Tier0, WellFoundedInduction, TLAPS

-----------------------------------------------------------------------------
(* One step after another *)

\* Induction on a set of natural numbers: one that holds 0 and with each number the next
\* holds all.
LEMMA SetInduction ==
  ASSUME NEW T \in SUBSET Nat, 0 \in T, \A n \in T : n + 1 \in T
  PROVE  \A n \in Nat : n \in T
<1> SUFFICES ASSUME Nat \ T # {} PROVE FALSE
  OBVIOUS
<1>1. PICK n \in Nat \ T : \A k \in Nat \ T : ~ (<<k, n>> \in OpToRel(<, Nat))
  BY NatLessThanWellFounded, WFMin
<1>2. \A k \in Nat : k < n => k \in T
  BY <1>1 DEF OpToRel
<1>3. n # 0 /\ n - 1 \in Nat /\ n - 1 < n /\ (n - 1) + 1 = n
  OBVIOUS
<1> QED
  BY <1>1, <1>2, <1>3

\* A step and what follows it is what follows that step.
LEMMA ThenIs ==
  ASSUME NEW rest, NEW first, DOMAIN rest = {first}
  PROVE  Then(rest) = rest[first]
<1>1. (CHOOSE step \in DOMAIN rest : TRUE) \in DOMAIN rest
  OBVIOUS
<1>2. (CHOOSE step \in DOMAIN rest : TRUE) = first
  BY <1>1
<1> QED
  BY <1>2 DEF Then

\* f lists the memories and faults before the first and after each of the first n commands.
Runs(m, n, f) ==
  f = [i \in 0..n |-> IF i = 0 THEN Unfinished(m) ELSE CarryOut(m, f[i - 1], m.queue[i])]

\* There is a run of every length, whatever the commands are.
LEMMA RunExists ==
  ASSUME NEW m
  PROVE  \A n \in Nat : \E f : Runs(m, n, f)
<1> DEFINE T == {n \in Nat : \E f : Runs(m, n, f)}
<1>1. 0 \in T
  <2> DEFINE f == [i \in 0..0 |-> Unfinished(m)]
  <2>1. f = [i \in 0..0 |-> IF i = 0 THEN Unfinished(m)
                            ELSE CarryOut(m, f[i - 1], m.queue[i])]
    OBVIOUS
  <2> QED
    BY <2>1 DEF Runs
<1>2. ASSUME NEW n \in T
      PROVE  n + 1 \in T
  <2>1. PICK f : Runs(m, n, f)
    OBVIOUS
  <2> DEFINE g == [i \in 0..(n + 1) |-> IF i = n + 1 THEN CarryOut(m, f[n], m.queue[i])
                                        ELSE f[i]]
  <2>2. \A i \in 0..n : f[i] = IF i = 0 THEN Unfinished(m)
                               ELSE CarryOut(m, f[i - 1], m.queue[i])
    BY <2>1 DEF Runs
  <2>3. \A i \in 0..(n + 1) : g[i] = IF i = 0 THEN Unfinished(m)
                                     ELSE CarryOut(m, g[i - 1], m.queue[i])
    <3> TAKE i \in 0..(n + 1)
    <3>1. CASE i = 0
      BY <2>2, <3>1
    <3>2. CASE i \in 1..n
      <4>1. g[i] = f[i] /\ g[i - 1] = f[i - 1]
        BY <3>2
      <4> HIDE DEF g
      <4> QED
        BY <2>2, <3>2, <4>1
    <3>3. CASE i = n + 1
      <4>1. g[i] = CarryOut(m, f[n], m.queue[i]) /\ g[i - 1] = f[n] /\ i # 0
        BY <3>3
      <4> HIDE DEF g
      <4> QED
        BY <4>1
    <3> QED
      BY <3>1, <3>2, <3>3
  <2>4. g = [i \in 0..(n + 1) |-> g[i]]
    OBVIOUS
  <2> HIDE DEF g
  <2>5. g = [i \in 0..(n + 1) |-> IF i = 0 THEN Unfinished(m)
                                  ELSE CarryOut(m, g[i - 1], m.queue[i])]
    BY <2>3, <2>4
  <2>6. Runs(m, n + 1, g)
    BY <2>5 DEF Runs
  <2> QED
    BY <2>6
<1> HIDE DEF T
<1>3. \A n \in Nat : n \in T
  BY <1>1, <1>2, SetInduction DEF T
<1> QED
  BY <1>3 DEF T

\* A stretch of the queue, carried out from where the run is, leaves what the run leaves.
LEMMA WorkedOffRuns ==
  ASSUME NEW m, NEW n \in Nat, NEW f, Runs(m, n, f),
         NEW from \in 0..n, NEW to \in from..n
  PROVE  WorkedOff(m, f[from], from, to) = f[to]
<1> DEFINE Is(g) == g = [i \in from..to |->
                          IF i = from THEN f[from]
                          ELSE Then([before \in {g[i - 1]} |-> CarryOut(m, before, m.queue[i])])]
           h == [i \in from..to |-> f[i]]
           after == CHOOSE g : Is(g)
<1>1. \A i \in 0..n : f[i] = IF i = 0 THEN Unfinished(m)
                             ELSE CarryOut(m, f[i - 1], m.queue[i])
  BY DEF Runs
<1>2. \A before, i : Then([b \in {before} |-> CarryOut(m, b, m.queue[i])])
                       = CarryOut(m, before, m.queue[i])
  BY ThenIs
<1>3. \A i \in from..to : h[i] = IF i = from THEN f[from]
        ELSE Then([before \in {h[i - 1]} |-> CarryOut(m, before, m.queue[i])])
  <2> TAKE i \in from..to
  <2>1. CASE i = from
    BY <2>1
  <2>2. CASE i # from
    <3>1. h[i] = f[i] /\ h[i - 1] = f[i - 1] /\ i \in 0..n /\ i # 0
      BY <2>2
    <3> HIDE DEF h
    <3>2. h[i] = CarryOut(m, h[i - 1], m.queue[i])
      BY <1>1, <3>1
    <3> QED
      BY <1>2, <2>2, <3>2
  <2> QED
    BY <2>1, <2>2
<1>4. h = [i \in from..to |-> h[i]]
  OBVIOUS
<1> HIDE DEF h
<1>5. Is(h)
  BY <1>3, <1>4
<1> HIDE DEF Is
<1>6. Is(after)
  BY <1>5
<1>7. WorkedOff(m, f[from], from, to) = after[to]
  BY DEF WorkedOff, Is
<1> HIDE DEF after
<1>8. \A i \in from..to : after[i] = IF i = from THEN f[from]
                                     ELSE CarryOut(m, after[i - 1], m.queue[i])
  <2>1. \A i \in from..to : after[i] = IF i = from THEN f[from]
          ELSE Then([before \in {after[i - 1]} |-> CarryOut(m, before, m.queue[i])])
    BY <1>6 DEF Is
  <2> QED
    BY <1>2, <2>1
<1> DEFINE T == {k \in Nat : from + k <= to => after[from + k] = f[from + k]}
<1>9. 0 \in T
  BY <1>8
<1>10. ASSUME NEW k \in T
       PROVE  k + 1 \in T
  <2> SUFFICES ASSUME from + (k + 1) <= to
               PROVE  after[from + (k + 1)] = f[from + (k + 1)]
    OBVIOUS
  <2>1. k \in Nat /\ after[from + k] = f[from + k]
    OBVIOUS
  <2> DEFINE i == from + (k + 1)
  <2>2. i \in from..to /\ i \in 0..n /\ i # from /\ i # 0 /\ i - 1 = from + k
    BY <2>1
  <2> HIDE DEF i, T
  <2>3. after[i] = CarryOut(m, after[i - 1], m.queue[i]) /\ f[i] = CarryOut(m, f[i - 1], m.queue[i])
    BY <1>1, <1>8, <2>2
  <2>4. after[i] = f[i]
    BY <2>1, <2>2, <2>3
  <2> QED
    BY <2>4 DEF i
<1> HIDE DEF T
<1>11. \A k \in Nat : k \in T
  BY <1>9, <1>10, SetInduction DEF T
<1>12. to - from \in Nat /\ from + (to - from) = to
  OBVIOUS
<1>13. to - from \in T
  BY <1>11, <1>12
<1>14. after[to] = f[to]
  BY <1>12, <1>13 DEF T
<1> QED
  BY <1>7, <1>14

\* The lesser of two numbers.
LEMMA MinOfTwo ==
  ASSUME NEW a \in Int, NEW b \in Int
  PROVE  Min({a, b}) = IF a <= b THEN a ELSE b
<1> DEFINE least == IF a <= b THEN a ELSE b
<1>1. least \in {a, b} /\ (\A y \in {a, b} : least =< y) /\ least \in Int
  OBVIOUS
<1>2. \A x \in {a, b} : (\A y \in {a, b} : x =< y) => x = least
  BY <1>1
<1> HIDE DEF least
<1>3. Min({a, b}) \in {a, b} /\ (\A y \in {a, b} : Min({a, b}) =< y)
  BY <1>1 DEF Min
<1> QED
  BY <1>2, <1>3 DEF least

\* The greater of two numbers.
LEMMA MaxOfTwo ==
  ASSUME NEW a \in Int, NEW b \in Int
  PROVE  Max({a, b}) = IF a >= b THEN a ELSE b
<1> DEFINE most == IF a >= b THEN a ELSE b
<1>1. most \in {a, b} /\ (\A y \in {a, b} : most >= y) /\ most \in Int
  OBVIOUS
<1>2. \A x \in {a, b} : (\A y \in {a, b} : x >= y) => x = most
  BY <1>1
<1> HIDE DEF most
<1>3. Max({a, b}) \in {a, b} /\ (\A y \in {a, b} : Max({a, b}) >= y)
  BY <1>1 DEF Max
<1> QED
  BY <1>2, <1>3 DEF most

\* However the queue is cut into stretches, its commands are carried out one after another.
LEMMA FinishedRuns ==
  ASSUME NEW m, Len(m.queue) \in Nat, NEW f, Runs(m, Len(m.queue), f)
  PROVE  Finished(m) = f[Len(m.queue)]
<1> DEFINE n == Len(m.queue)
           last == n \div Stretch + 1
           upTo(k) == Min({Stretch * k, n})
           Is(g) == g = [k \in 0..last |->
                          IF k = 0 THEN Unfinished(m)
                          ELSE Then([done \in {g[k - 1]} |->
                                     WorkedOff(m, done, upTo(k - 1), upTo(k))])]
           h == [k \in 0..last |-> f[upTo(k)]]
           worked == CHOOSE g : Is(g)
<1>1. Finished(m) = worked[last]
  BY DEF Finished
<1>2. \A done, k : Then([d \in {done} |-> WorkedOff(m, d, upTo(k - 1), upTo(k))])
                     = WorkedOff(m, done, upTo(k - 1), upTo(k))
  BY ThenIs
<1>3. n \in Nat /\ last \in Nat /\ Stretch * last >= n
  <2>1. n \in Nat
    OBVIOUS
  <2> HIDE DEF n
  <2>2. n \div 12 \in Nat /\ 12 * (n \div 12 + 1) >= n
    BY <2>1
  <2> QED
    BY <2>1, <2>2 DEF Stretch
<1> HIDE DEF n, last
<1>4. \A k \in Nat : upTo(k) = IF Stretch * k <= n THEN Stretch * k ELSE n
  BY <1>3, MinOfTwo DEF Stretch
<1> HIDE DEF upTo
<1>5. upTo(0) = 0 /\ upTo(last) = n
  BY <1>3, <1>4 DEF Stretch
<1>6. \A k \in Nat :
        /\ upTo(k) \in 0..n
        /\ k # 0 => upTo(k - 1) \in 0..n /\ upTo(k) \in upTo(k - 1)..n
  BY <1>3, <1>4 DEF Stretch
<1>7. f[0] = Unfinished(m)
  BY <1>3 DEF Runs, n
<1>8. \A k \in Nat \ {0} : WorkedOff(m, f[upTo(k - 1)], upTo(k - 1), upTo(k)) = f[upTo(k)]
  <2> TAKE k \in Nat \ {0}
  <2>1. upTo(k - 1) \in 0..n /\ upTo(k) \in upTo(k - 1)..n /\ Runs(m, n, f)
    BY <1>6 DEF n
  <2>2. \A a \in 0..n : \A b \in a..n : WorkedOff(m, f[a], a, b) = f[b]
    BY <1>3, <2>1, WorkedOffRuns
  <2> QED
    BY <2>1, <2>2
<1>9. \A k \in 0..last : h[k] = IF k = 0 THEN Unfinished(m)
        ELSE Then([done \in {h[k - 1]} |-> WorkedOff(m, done, upTo(k - 1), upTo(k))])
  <2> TAKE k \in 0..last
  <2>1. CASE k = 0
    BY <1>5, <1>7, <2>1
  <2>2. CASE k # 0
    <3>1. h[k] = f[upTo(k)] /\ h[k - 1] = f[upTo(k - 1)] /\ k \in Nat \ {0}
      BY <1>3, <2>2
    <3> HIDE DEF h
    <3>2. h[k] = WorkedOff(m, h[k - 1], upTo(k - 1), upTo(k))
      BY <1>8, <3>1
    <3> QED
      BY <1>2, <2>2, <3>2
  <2> QED
    BY <2>1, <2>2
<1>10. h = [k \in 0..last |-> h[k]]
  OBVIOUS
<1>11. h[last] = f[n]
  BY <1>3, <1>5
<1> HIDE DEF h
<1>12. Is(h)
  BY <1>9, <1>10
<1> HIDE DEF Is
<1>13. Is(worked)
  BY <1>12
<1> HIDE DEF worked
<1>14. \A k \in 0..last : worked[k] = IF k = 0 THEN Unfinished(m)
                          ELSE WorkedOff(m, worked[k - 1], upTo(k - 1), upTo(k))
  <2>1. \A k \in 0..last : worked[k] = IF k = 0 THEN Unfinished(m)
          ELSE Then([done \in {worked[k - 1]} |-> WorkedOff(m, done, upTo(k - 1), upTo(k))])
    BY <1>13 DEF Is
  <2> QED
    BY <1>2, <2>1
<1> DEFINE T == {k \in Nat : k <= last => worked[k] = f[upTo(k)]}
<1>15. 0 \in T
  BY <1>3, <1>5, <1>7, <1>14
<1>16. ASSUME NEW k \in T
       PROVE  k + 1 \in T
  <2> SUFFICES ASSUME k + 1 <= last PROVE worked[k + 1] = f[upTo(k + 1)]
    OBVIOUS
  <2>1. k \in Nat /\ worked[k] = f[upTo(k)]
    BY <1>3
  <2>2. k + 1 \in 0..last /\ k + 1 # 0 /\ (k + 1) - 1 = k /\ k + 1 \in Nat \ {0}
    BY <1>3, <2>1
  <2> HIDE DEF T
  <2>3. worked[k + 1] = WorkedOff(m, worked[k], upTo(k), upTo(k + 1))
    BY <1>14, <2>2
  <2>4. WorkedOff(m, f[upTo(k)], upTo(k), upTo(k + 1)) = f[upTo(k + 1)]
    BY <1>8, <2>2
  <2> QED
    BY <2>1, <2>3, <2>4
<1> HIDE DEF T
<1>17. \A k \in Nat : k \in T
  BY <1>15, <1>16, SetInduction DEF T
<1>18. worked[last] = f[n]
  BY <1>3, <1>5, <1>17 DEF T
<1> QED
  BY <1>1, <1>18 DEF n

\* No command leaves the memories as they are.
LEMMA FinishedNone ==
  ASSUME NEW m, m.queue = <<>>
  PROVE  Finished(m) = Unfinished(m)
<1>1. Len(m.queue) = 0
  OBVIOUS
<1>2. PICK f : Runs(m, 0, f)
  BY RunExists
<1>3. f[0] = Unfinished(m)
  BY <1>2 DEF Runs
<1> QED
  BY <1>1, <1>2, <1>3, FinishedRuns

\* One command leaves what carrying it out leaves.
LEMMA FinishedOne ==
  ASSUME NEW m, NEW cmd, m.queue = <<cmd>>
  PROVE  Finished(m) = CarryOut(m, Unfinished(m), cmd)
<1>1. Len(m.queue) = 1 /\ m.queue[1] = cmd
  OBVIOUS
<1>2. PICK f : Runs(m, 1, f)
  BY RunExists
<1>3. f[0] = Unfinished(m) /\ f[1] = CarryOut(m, f[0], m.queue[1])
  BY <1>2 DEF Runs
<1> QED
  BY <1>1, <1>2, <1>3, FinishedRuns

=============================================================================
