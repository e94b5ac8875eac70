----------------------------- MODULE TaskQueues -----------------------------
(***************************************************************************)
(* What the proofs say of a queue of tasks: whether it holds one of a kind,  *)
(* at most one, and all of one kind before those of another; and what        *)
(* appending tasks, taking the first and cancelling some make of that.       *)
(***************************************************************************)
EXTENDS Integers, Sequences, TLAPS

Has(q, T) == \E i \in DOMAIN q : q[i] \in T
Single(q, T) == \A i, j \in DOMAIN q : q[i] \in T /\ q[j] \in T => i = j
Before(q, A, B) == \A i, j \in DOMAIN q : q[i] \in A /\ q[j] \in B => i < j

(* The last of the tasks T in the queue is t.                               *)
LastOf(q, T, t) ==
  \E i \in DOMAIN q : /\ q[i] = t /\ t \in T
                      /\ \A j \in DOMAIN q : q[j] \in T => j <= i

(* r is q and then t, or q is t and then r.                                 *)
Adds(q, t, r) ==
  \E n \in Nat : /\ DOMAIN q = 1 .. n /\ DOMAIN r = 1 .. n + 1
                 /\ \A i \in 1 .. n : r[i] = q[i]
                 /\ r[n + 1] = t

Takes(q, t, r) ==
  \E n \in Nat \ {0} : /\ DOMAIN q = 1 .. n /\ DOMAIN r = 1 .. n - 1
                       /\ \A i \in 1 .. n - 1 : r[i] = q[i + 1]
                       /\ q[1] = t

LEMMA Kinds ==
  ASSUME NEW q
  PROVE  /\ \A A, B : Has(q, A \cup B) <=> Has(q, A) \/ Has(q, B)
         /\ \A A, B : A \subseteq B /\ Has(q, A) => Has(q, B)
         /\ \A A, B : A \subseteq B /\ Single(q, B) => Single(q, A)
         /\ \A T : ~Has(q, T) => Single(q, T)
         /\ \A A, B : ~Has(q, A) \/ ~Has(q, B) => Before(q, A, B)
  BY DEF Has, Single, Before

LEMMA EmptyQueue ==
  ASSUME NEW q, q = << >>
  PROVE  /\ \A T : ~Has(q, T) /\ Single(q, T)
         /\ \A A, B : Before(q, A, B)
  BY DEF Has, Single, Before

LEMMA AddTask ==
  ASSUME NEW q, NEW t, NEW r, Adds(q, t, r)
  PROVE  /\ \A T : Has(r, T) <=> Has(q, T) \/ t \in T
         /\ \A T : Single(q, T) /\ (t \in T => ~Has(q, T)) => Single(r, T)
         /\ \A A, B : Before(q, A, B) /\ (t \in A => ~Has(q, B) /\ t \notin B)
                        => Before(r, A, B)
<1>1. PICK n \in Nat : /\ DOMAIN q = 1 .. n /\ DOMAIN r = 1 .. n + 1
                       /\ \A i \in 1 .. n : r[i] = q[i]
                       /\ r[n + 1] = t
  BY DEF Adds
<1>2. ASSUME NEW T PROVE Has(r, T) <=> Has(q, T) \/ t \in T
  <2>1. 1 .. n + 1 = 1 .. n \cup {n + 1}
    OBVIOUS
  <2>. QED
    BY <1>1, <2>1 DEF Has
<1>3. ASSUME NEW T, Single(q, T), t \in T => ~Has(q, T) PROVE Single(r, T)
  BY <1>1, <1>3 DEF Has, Single
<1>4. ASSUME NEW A, NEW B, Before(q, A, B), t \in A => ~Has(q, B) /\ t \notin B
      PROVE  Before(r, A, B)
  BY <1>1, <1>4 DEF Has, Before
<1>. QED
  BY <1>2, <1>3, <1>4

LEMMA AppendAdds ==
  ASSUME NEW S, NEW q \in Seq(S), NEW t PROVE Adds(q, t, Append(q, t))
<1>1. /\ Len(q) \in Nat /\ DOMAIN q = 1 .. Len(q)
      /\ DOMAIN Append(q, t) = 1 .. Len(q) + 1
      /\ \A i \in 1 .. Len(q) : Append(q, t)[i] = q[i]
      /\ Append(q, t)[Len(q) + 1] = t
  OBVIOUS
<1>. QED
  BY <1>1 DEF Adds

LEMMA TakeTask ==
  ASSUME NEW q, NEW t, NEW r, Takes(q, t, r)
  PROVE  /\ \A T : Has(q, T) <=> Has(r, T) \/ t \in T
         /\ \A T : Single(q, T) => Single(r, T)
         /\ \A T : Single(q, T) /\ t \in T => ~Has(r, T)
         /\ \A A, B : Before(q, A, B) => Before(r, A, B)
         /\ \A A, B : Before(q, A, B) /\ t \in B => ~Has(q, A)
<1>1. PICK n \in Nat \ {0} : /\ DOMAIN q = 1 .. n /\ DOMAIN r = 1 .. n - 1
                             /\ \A i \in 1 .. n - 1 : r[i] = q[i + 1]
                             /\ q[1] = t
                             /\ n >= 1 /\ 1 \in 1 .. n
  BY DEF Takes
<1>2. \A i \in 1 .. n - 1 : i + 1 \in 1 .. n /\ i + 1 # 1
  BY <1>1
<1>3. \A i \in 1 .. n : i = 1 \/ (i - 1 \in 1 .. n - 1 /\ i = (i - 1) + 1)
  BY <1>1
<1>4. ASSUME NEW T PROVE Has(q, T) <=> Has(r, T) \/ t \in T
  <2>1. Has(r, T) \/ t \in T => Has(q, T)
    BY <1>1, <1>2 DEF Has
  <2>2. ASSUME NEW i \in 1 .. n, q[i] \in T PROVE Has(r, T) \/ t \in T
    <3>1. CASE i # 1
      <4>1. i - 1 \in 1 .. n - 1 /\ r[i - 1] = q[i]
        BY <1>1, <1>3, <3>1
      <4>. QED
        BY <1>1, <2>2, <4>1 DEF Has
    <3>. QED
      BY <1>1, <2>2, <3>1
  <2>. QED
    BY <1>1, <2>1, <2>2 DEF Has
<1>5. ASSUME NEW T, Single(q, T) PROVE Single(r, T)
  <2>1. ASSUME NEW i \in 1 .. n - 1, NEW j \in 1 .. n - 1, r[i] \in T, r[j] \in T
        PROVE  i = j
    <3>1. i + 1 = j + 1
      BY <1>1, <1>2, <1>5, <2>1 DEF Single
    <3>. QED
      BY <3>1
  <2>. QED
    BY <1>1, <2>1 DEF Single
<1>6. ASSUME NEW T, Single(q, T), t \in T PROVE ~Has(r, T)
  <2>1. ASSUME NEW i \in 1 .. n - 1, r[i] \in T PROVE FALSE
    <3>1. 1 = i + 1
      BY <1>1, <1>2, <1>6, <2>1 DEF Single
    <3>. QED
      BY <1>2, <3>1
  <2>. QED
    BY <1>1, <2>1 DEF Has
<1>7. ASSUME NEW A, NEW B, Before(q, A, B) PROVE Before(r, A, B)
  <2>1. ASSUME NEW i \in 1 .. n - 1, NEW j \in 1 .. n - 1, r[i] \in A, r[j] \in B
        PROVE  i < j
    <3>1. i + 1 < j + 1
      BY <1>1, <1>2, <1>7, <2>1 DEF Before
    <3>. QED
      BY <3>1
  <2>. QED
    BY <1>1, <2>1 DEF Before
<1>8. ASSUME NEW A, NEW B, Before(q, A, B), t \in B PROVE ~Has(q, A)
  <2>1. ASSUME NEW i \in 1 .. n, q[i] \in A PROVE FALSE
    <3>1. i < 1
      BY <1>1, <1>8, <2>1 DEF Before
    <3>. QED
      BY <1>1, <3>1
  <2>. QED
    BY <1>1, <2>1 DEF Has
<1>. QED
  BY <1>4, <1>5, <1>6, <1>7, <1>8

LEMMA TailTakes ==
  ASSUME NEW S, NEW q \in Seq(S), q # << >> PROVE Takes(q, Head(q), Tail(q))
<1>1. /\ Len(q) \in Nat \ {0} /\ DOMAIN q = 1 .. Len(q)
      /\ DOMAIN Tail(q) = 1 .. Len(q) - 1
      /\ \A i \in 1 .. Len(q) - 1 : Tail(q)[i] = q[i + 1]
      /\ Head(q) = q[1]
  OBVIOUS
<1>. QED
  BY <1>1 DEF Takes

LEMMA AddLast ==
  ASSUME NEW q, NEW t, NEW r, Adds(q, t, r)
  PROVE  /\ \A T : t \in T => LastOf(r, T, t)
         /\ \A T, x : t \notin T => (LastOf(r, T, x) <=> LastOf(q, T, x))
<1>1. PICK n \in Nat : /\ DOMAIN q = 1 .. n /\ DOMAIN r = 1 .. n + 1
                       /\ \A i \in 1 .. n : r[i] = q[i]
                       /\ r[n + 1] = t
  BY DEF Adds
<1>2. \A i \in 1 .. n : i \in 1 .. n + 1 /\ i <= n + 1
  BY <1>1
<1>3. \A i \in 1 .. n + 1 : i \in 1 .. n \/ i = n + 1
  BY <1>1
<1>4. ASSUME NEW T, t \in T PROVE LastOf(r, T, t)
  BY <1>1, <1>4 DEF LastOf
<1>5. ASSUME NEW T, NEW x, t \notin T PROVE LastOf(r, T, x) <=> LastOf(q, T, x)
  <2>1. ASSUME NEW i \in 1 .. n, q[i] = x, x \in T, \A j \in 1 .. n : q[j] \in T => j <= i
        PROVE  LastOf(r, T, x)
    BY <1>1, <1>2, <1>3, <1>5, <2>1 DEF LastOf
  <2>2. ASSUME NEW i \in 1 .. n + 1, r[i] = x, x \in T,
               \A j \in 1 .. n + 1 : r[j] \in T => j <= i
        PROVE  LastOf(q, T, x)
    BY <1>1, <1>2, <1>3, <1>5, <2>2 DEF LastOf
  <2>. QED
    BY <1>1, <2>1, <2>2 DEF LastOf
<1>. QED
  BY <1>4, <1>5

LEMMA TakeLast ==
  ASSUME NEW q, NEW t, NEW r, Takes(q, t, r)
  PROVE  \A T, x : LastOf(q, T, x) => IF Has(r, T) THEN LastOf(r, T, x) ELSE t = x
<1>1. PICK n \in Nat \ {0} : /\ DOMAIN q = 1 .. n /\ DOMAIN r = 1 .. n - 1
                             /\ \A i \in 1 .. n - 1 : r[i] = q[i + 1]
                             /\ q[1] = t
  BY DEF Takes
<1>2. \A i \in 1 .. n - 1 : i + 1 \in 1 .. n
  BY <1>1
<1>. SUFFICES ASSUME NEW T, NEW x, LastOf(q, T, x)
              PROVE  IF Has(r, T) THEN LastOf(r, T, x) ELSE t = x
  OBVIOUS
<1>3. PICK k \in 1 .. n : q[k] = x /\ x \in T /\ \A j \in 1 .. n : q[j] \in T => j <= k
  BY <1>1 DEF LastOf
<1>4. CASE k = 1
  <2>1. ~Has(r, T)
    <3>. SUFFICES ASSUME NEW i \in 1 .. n - 1, r[i] \in T PROVE FALSE
      BY <1>1 DEF Has
    <3>1. i + 1 <= 1
      BY <1>1, <1>2, <1>3, <1>4
    <3>. QED
      BY <1>1, <3>1
  <2>. QED
    BY <1>1, <1>3, <1>4, <2>1
<1>5. CASE k # 1
  <2>. DEFINE i == k - 1
  <2>1. i \in 1 .. n - 1 /\ i + 1 = k
    BY <1>1, <1>3, <1>5
  <2>2. r[i] = x
    BY <1>1, <1>3, <2>1
  <2>3. \A j \in 1 .. n - 1 : r[j] \in T => j <= i
    <3>. SUFFICES ASSUME NEW j \in 1 .. n - 1, r[j] \in T PROVE j <= i
      OBVIOUS
    <3>1. j + 1 <= k
      BY <1>1, <1>2, <1>3
    <3>. QED
      BY <1>1, <2>1, <3>1
  <2>. HIDE DEF i
  <2>. QED
    BY <1>1, <1>3, <2>1, <2>2, <2>3 DEF LastOf, Has
<1>. QED
  BY <1>4, <1>5

(* Some tasks are replaced by c.                                            *)
LEMMA CancelTasks ==
  ASSUME NEW q, NEW C, NEW c, NEW r,
         r = [i \in DOMAIN q |-> IF q[i] \in C THEN c ELSE q[i]]
  PROVE  /\ \A T : c \notin T => (Has(r, T) <=> Has(q, T \ C))
         /\ \A T : c \notin T /\ Single(q, T \ C) => Single(r, T)
  BY DEF Has, Single
=============================================================================
