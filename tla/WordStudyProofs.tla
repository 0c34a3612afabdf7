---------------------------- MODULE WordStudyProofs ----------------------------
(***************************************************************************)
(* Theorems about the word-study store, its page and the upload loop       *)
(* (WordStudy), for any capacity of the outbox and any number of           *)
(* observations, sessions and power losses: no observation that was        *)
(* recorded is lost, the store is one the code can read, the numbers of a  *)
(* session reach the server in order, and the store implements a log       *)
(* (ObservationLog) from which only verdicts take observations away.       *)
(*                                                                         *)
(* A transaction is a plan of file operations, any of which may fail or be *)
(* the last before a power loss, so the invariant speaks of what is left   *)
(* of the plan.  PlanShape: its steps come in one order (Rank) and those   *)
(* of a replacement one behind the other (Follows), so that its files are  *)
(* where they are needed.  JournalInv: the journal is clean, the cache     *)
(* says what it says, and what the plan installs or appends follows from   *)
(* it.  SessionInv: the snapshot a boot reads is past all that the journal *)
(* holds, or the plan will move it there before records go, and the page   *)
(* has the session of the files.  UploadInv: the loop holds the head of    *)
(* the journal, no number below a waiting one is missing, and each record  *)
(* that goes has its verdict.                                              *)
(*                                                                         *)
(* A power loss leaves what the files alone say (OnDisk).  The refinement  *)
(* rests on how a step moves the list that waits (WaitingMoves).           *)
(***************************************************************************)
EXTENDS WordInvariant, FiniteSetTheorems, SequenceTheorems, WellFoundedInduction, TLAPS

-------------------------------------------------------------------------------
(* The records of a journal *)

\* The numbers of a finite set, counted from the least: Nth finds each of them, in order.
LEMMA NthNumber ==
    ASSUME NEW k \in Nat, NEW S \in SUBSET (1..k)
    PROVE  /\ IsFiniteSet(S) /\ Cardinality(S) \in Nat /\ Cardinality(S) <= k
           /\ \A n \in 1..Cardinality(S) : Nth(S, n) \in S
           /\ \A m, n \in 1..Cardinality(S) : m < n => Nth(S, m) < Nth(S, n)
           /\ \A i \in S : \E n \in 1..Cardinality(S) : Nth(S, n) = i
<1> DEFINE upTo(i) == {j \in S : j <= i}
           c == Cardinality(S)
           rank == [i \in S |-> Cardinality(upTo(i))]
<1>1. IsFiniteSet(S) /\ c \in Nat /\ c <= k
  <2>1. IsFiniteSet(1..k) /\ Cardinality(1..k) = k
    BY FS_Interval
  <2>2. IsFiniteSet(S) /\ c <= k
    BY <2>1, FS_Subset
  <2> QED BY <2>2, FS_CardinalityType
<1>2. \A i \in S : i \in Nat
  OBVIOUS
<1>3. \A i \in S : IsFiniteSet(upTo(i)) /\ rank[i] \in 1..c
  <2> SUFFICES ASSUME NEW i \in S
               PROVE  IsFiniteSet(upTo(i)) /\ rank[i] \in 1..c
    OBVIOUS
  <2>1. upTo(i) \in SUBSET S /\ i \in upTo(i)
    BY <1>2
  <2>2. IsFiniteSet(upTo(i)) /\ Cardinality(upTo(i)) <= c
    BY <1>1, <2>1, FS_Subset
  <2>3. Cardinality(upTo(i)) \in Nat /\ Cardinality(upTo(i)) # 0
    BY <2>1, <2>2, FS_CardinalityType, FS_EmptySet
  <2> QED BY <1>1, <2>2, <2>3
<1>4. \A i, j \in S : i < j => rank[i] < rank[j]
  <2> SUFFICES ASSUME NEW i \in S, NEW j \in S, i < j
               PROVE  rank[i] < rank[j]
    OBVIOUS
  <2>0. j <= j /\ ~(j <= i) /\ \A m \in S : m <= i => m <= j
    BY <1>2
  <2>1. upTo(i) \in SUBSET upTo(j) /\ j \in upTo(j) /\ j \notin upTo(i)
    <3> HIDE DEF rank, c
    <3> QED BY <2>0, Zenon
  <2>2. IsFiniteSet(upTo(j))
    BY <1>3
  <2>3. Cardinality(upTo(i)) <= Cardinality(upTo(j)) /\ Cardinality(upTo(i)) # Cardinality(upTo(j))
    BY <2>1, <2>2, FS_Subset
  <2>4. rank[i] \in Nat /\ rank[j] \in Nat
    BY <1>3
  <2> QED BY <2>3, <2>4
<1>5. \A i, j \in S : i # j => rank[i] # rank[j]
  <2> SUFFICES ASSUME NEW i \in S, NEW j \in S, i # j
               PROVE  rank[i] # rank[j]
    OBVIOUS
  <2>1. i < j \/ j < i
    BY <1>2
  <2>2. rank[i] \in Nat /\ rank[j] \in Nat
    BY <1>3
  <2> QED BY <1>4, <2>1, <2>2
<1>6. rank \in Injection(S, 1..c)
  BY <1>3, <1>5 DEF Injection, IsInjective
<1>7. IsFiniteSet(1..c) /\ Cardinality(1..c) = c
  BY <1>1, FS_Interval
<1>8. rank \in Surjection(S, 1..c)
  BY <1>6, <1>7, FS_Injection
<1>9. \A n \in 1..c : Nth(S, n) \in S /\ rank[Nth(S, n)] = n
  <2> SUFFICES ASSUME NEW n \in 1..c
               PROVE  Nth(S, n) \in S /\ rank[Nth(S, n)] = n
    OBVIOUS
  <2>1. \E i \in S : rank[i] = n
    BY <1>8 DEF Surjection
  <2>2. \E i \in S : Cardinality({j \in S : j <= i}) = n
    BY <2>1
  <2>3. Nth(S, n) \in S /\ Cardinality({j \in S : j <= Nth(S, n)}) = n
    BY <2>2 DEF Nth
  <2> QED BY <2>3
<1>10. \A m, n \in 1..c : m < n => Nth(S, m) < Nth(S, n)
  <2> SUFFICES ASSUME NEW m \in 1..c, NEW n \in 1..c, m < n
               PROVE  Nth(S, m) < Nth(S, n)
    OBVIOUS
  <2>1. Nth(S, m) \in S /\ Nth(S, n) \in S /\ rank[Nth(S, m)] = m /\ rank[Nth(S, n)] = n
    BY <1>9
  <2>2. Nth(S, m) \in Nat /\ Nth(S, n) \in Nat
    BY <1>2, <2>1
  <2>3. ~(rank[Nth(S, n)] < rank[Nth(S, m)]) /\ rank[Nth(S, n)] # rank[Nth(S, m)]
    <3> HIDE DEF rank
    <3> QED BY <2>1
  <2>4. ~(Nth(S, n) < Nth(S, m))
    <3> HIDE DEF rank
    <3> QED BY <1>4, <2>1, <2>3
  <2>5. Nth(S, n) # Nth(S, m)
    BY <2>3
  <2> QED BY <2>2, <2>4, <2>5
<1>11. \A i \in S : \E n \in 1..c : Nth(S, n) = i
  <2> SUFFICES ASSUME NEW i \in S
               PROVE  \E n \in 1..c : Nth(S, n) = i
    OBVIOUS
  <2>1. rank[i] \in 1..c
    BY <1>3
  <2>2. Nth(S, rank[i]) \in S /\ rank[Nth(S, rank[i])] = rank[i]
    BY <1>9, <2>1
  <2>3. Nth(S, rank[i]) = i
    BY <1>5, <2>2
  <2> QED BY <2>1, <2>3
<1> QED BY <1>1, <1>9, <1>10, <1>11

\* There is one way to list a set of numbers in increasing order.
LEMMA OnlyEnumeration ==
    ASSUME NEW k \in Nat, NEW S \in SUBSET (1..k), NEW c \in Nat, NEW f \in [1..c -> S],
           \A m, n \in 1..c : m < n => f[m] < f[n],
           \A i \in S : \E n \in 1..c : f[n] = i
    PROVE  Cardinality(S) = c /\ \A n \in 1..c : Nth(S, n) = f[n]
<1> DEFINE upTo(i) == {j \in S : j <= i}
<1>1. \A i \in S : i \in Nat
  OBVIOUS
<1>2. \A m, n \in 1..c : f[m] = f[n] => m = n
  <2> SUFFICES ASSUME NEW m \in 1..c, NEW n \in 1..c, f[m] = f[n]
               PROVE  m = n
    OBVIOUS
  <2>1. f[m] \in Nat
    BY <1>1
  <2>2. ~(f[m] < f[n]) /\ ~(f[n] < f[m])
    BY <2>1
  <2> QED BY <2>2
<1>3. \A m \in 1..c : IsFiniteSet(upTo(f[m])) /\ Cardinality(upTo(f[m])) = m
  <2> SUFFICES ASSUME NEW m \in 1..c
               PROVE  IsFiniteSet(upTo(f[m])) /\ Cardinality(upTo(f[m])) = m
    OBVIOUS
  <2> DEFINE g == [n \in 1..m |-> f[n]]
  <2>1. IsFiniteSet(1..m) /\ Cardinality(1..m) = m
    BY FS_Interval
  <2>2. \A n \in 1..m : n \in 1..c /\ g[n] = f[n] /\ f[n] \in S /\ f[n] <= f[m]
    <3> SUFFICES ASSUME NEW n \in 1..m
                 PROVE  n \in 1..c /\ g[n] = f[n] /\ f[n] \in S /\ f[n] <= f[m]
      OBVIOUS
    <3>1. n \in 1..c /\ (n = m \/ n < m)
      OBVIOUS
    <3>2. f[n] \in Nat /\ f[m] \in Nat
      BY <1>1, <3>1
    <3> QED BY <3>1, <3>2
  <2>3. \A j \in upTo(f[m]) : \E n \in 1..m : g[n] = j
    <3> SUFFICES ASSUME NEW j \in S, j <= f[m]
                 PROVE  \E n \in 1..m : f[n] = j
      BY <2>2
    <3>1. PICK n \in 1..c : f[n] = j
      OBVIOUS
    <3>2. f[m] \in Nat /\ f[n] \in Nat
      BY <1>1, <3>1
    <3>3. ~(m < n)
      BY <3>1, <3>2
    <3> QED BY <3>1, <3>3
  <2>4. g \in [1..m -> upTo(f[m])]
    BY <2>2
  <2>5. g \in Bijection(1..m, upTo(f[m]))
    <3>1. \A a, b \in 1..m : g[a] = g[b] => a = b
      BY <1>2, <2>2
    <3> HIDE DEF g, upTo
    <3> QED BY <2>3, <2>4, <3>1 DEF Bijection, Injection, IsInjective, Surjection
  <2>6. ExistsBijection(1..m, upTo(f[m]))
    BY <2>5 DEF ExistsBijection
  <2> QED BY <2>1, <2>6, FS_Bijection
<1>4. Cardinality(S) = c
  <2>1. IsFiniteSet(1..c) /\ Cardinality(1..c) = c
    BY FS_Interval
  <2>2. f \in Bijection(1..c, S)
    BY <1>2 DEF Bijection, Injection, IsInjective, Surjection
  <2>3. ExistsBijection(1..c, S)
    BY <2>2 DEF ExistsBijection
  <2> QED BY <2>1, <2>3, FS_Bijection
<1>5. \A n \in 1..c : Nth(S, n) = f[n]
  <2> SUFFICES ASSUME NEW n \in 1..c
               PROVE  Nth(S, n) = f[n]
    OBVIOUS
  <2>1. f[n] \in S /\ Cardinality({j \in S : j <= f[n]}) = n
    BY <1>3
  <2>2. \A i \in S : Cardinality({j \in S : j <= i}) = n => i = f[n]
    <3> SUFFICES ASSUME NEW i \in S, Cardinality({j \in S : j <= i}) = n
                 PROVE  i = f[n]
      OBVIOUS
    <3>1. PICK m \in 1..c : f[m] = i
      OBVIOUS
    <3> QED BY <1>3, <3>1
  <2>3. Nth(S, n) \in S /\ Cardinality({j \in S : j <= Nth(S, n)}) = n
    BY <2>1 DEF Nth
  <2> QED BY <2>2, <2>3
<1> QED BY <1>4, <1>5

\* A greater number is listed last.
LEMMA NthOfLonger ==
    ASSUME NEW k \in Nat, NEW S \in SUBSET (1..k)
    PROVE  /\ Cardinality(S \cup {k + 1}) = Cardinality(S) + 1
           /\ \A n \in 1..Cardinality(S) : Nth(S \cup {k + 1}, n) = Nth(S, n)
           /\ Nth(S \cup {k + 1}, Cardinality(S) + 1) = k + 1
<1> DEFINE c == Cardinality(S)
           T == S \cup {k + 1}
           f == [n \in 1..c + 1 |-> IF n = c + 1 THEN k + 1 ELSE Nth(S, n)]
<1>1. /\ c \in Nat
      /\ \A n \in 1..c : Nth(S, n) \in S
      /\ \A m, n \in 1..c : m < n => Nth(S, m) < Nth(S, n)
      /\ \A i \in S : \E n \in 1..c : Nth(S, n) = i
  BY NthNumber
<1> HIDE DEF c
<1>2. k + 1 \in Nat /\ T \in SUBSET (1..k + 1) /\ c + 1 \in Nat
  BY <1>1
<1>3. \A n \in 1..c + 1 : n = c + 1 \/ (n \in 1..c /\ n # c + 1)
  BY <1>1
<1>4. \A n \in 1..c : n \in 1..c + 1 /\ f[n] = Nth(S, n)
  BY <1>1
<1>5. c + 1 \in 1..c + 1 /\ f[c + 1] = k + 1
  BY <1>1
<1>6. f \in [1..c + 1 -> T]
  BY <1>1, <1>3
<1>7. \A m, n \in 1..c + 1 : m < n => f[m] < f[n]
  <2> SUFFICES ASSUME NEW m \in 1..c + 1, NEW n \in 1..c + 1, m < n
               PROVE  f[m] < f[n]
    OBVIOUS
  <2>1. m \in 1..c
    BY <1>1
  <2>2. f[m] = Nth(S, m) /\ Nth(S, m) \in 1..k
    BY <1>1, <1>4, <2>1
  <2>3. CASE n = c + 1
    BY <1>5, <2>2, <2>3
  <2>4. CASE n # c + 1
    <3>1. n \in 1..c /\ f[n] = Nth(S, n)
      BY <1>3, <1>4, <2>4
    <3> QED BY <1>1, <2>1, <2>2, <3>1
  <2> QED BY <2>3, <2>4
<1>8. \A i \in T : \E n \in 1..c + 1 : f[n] = i
  BY <1>1, <1>4, <1>5
<1>9. Cardinality(T) = c + 1 /\ \A n \in 1..c + 1 : Nth(T, n) = f[n]
  <2> HIDE DEF T, f
  <2> QED BY <1>2, <1>6, <1>7, <1>8, OnlyEnumeration
<1>10. \A n \in 1..c : Nth(T, n) = Nth(S, n)
  <2> HIDE DEF T, f
  <2> QED BY <1>4, <1>9
<1>11. Nth(T, c + 1) = k + 1
  <2> HIDE DEF T, f
  <2> QED BY <1>5, <1>9
<1> QED BY <1>9, <1>10, <1>11 DEF c

\* Without its least number, a set is listed from its second.
LEMMA NthOfRest ==
    ASSUME NEW k \in Nat, NEW S \in SUBSET (1..k), S # {}
    PROVE  LET rest == S \ {Nth(S, 1)}
           IN  /\ Cardinality(S) \in Nat \ {0} /\ Cardinality(rest) = Cardinality(S) - 1
               /\ \A n \in 1..Cardinality(S) - 1 : Nth(rest, n) = Nth(S, n + 1)
<1> DEFINE c == Cardinality(S)
           T == S \ {Nth(S, 1)}
           f == [n \in 1..c - 1 |-> Nth(S, n + 1)]
<1>1. /\ c \in Nat
      /\ \A n \in 1..c : Nth(S, n) \in S
      /\ \A m, n \in 1..c : m < n => Nth(S, m) < Nth(S, n)
      /\ \A i \in S : \E n \in 1..c : Nth(S, n) = i
  BY NthNumber
<1> HIDE DEF c
<1>2. c - 1 \in Nat /\ c # 0 /\ 1 \in 1..c
  <2>1. PICK i : i \in S
    OBVIOUS
  <2>2. PICK n \in 1..c : Nth(S, n) = i
    BY <1>1, <2>1
  <2> QED BY <1>1, <2>2
<1>3. \A n \in 1..c - 1 : n + 1 \in 1..c /\ 1 < n + 1 /\ f[n] = Nth(S, n + 1)
  BY <1>2, <1>1
<1>4. \A m, n \in 1..c : m # n => Nth(S, m) # Nth(S, n)
  <2> SUFFICES ASSUME NEW m \in 1..c, NEW n \in 1..c, m # n
               PROVE  Nth(S, m) # Nth(S, n)
    OBVIOUS
  <2>1. m < n \/ n < m
    OBVIOUS
  <2>2. Nth(S, m) \in 1..k /\ Nth(S, n) \in 1..k
    <3>1. Nth(S, m) \in S /\ Nth(S, n) \in S
      BY <1>1
    <3> QED BY <3>1
  <2> QED BY <1>1, <2>1, <2>2
<1>5. f \in [1..c - 1 -> T]
  <2> SUFFICES ASSUME NEW n \in 1..c - 1
               PROVE  Nth(S, n + 1) \in T
    OBVIOUS
  <2>1. n + 1 \in 1..c /\ n + 1 # 1
    BY <1>3
  <2> QED BY <1>1, <1>2, <1>4, <2>1
<1>6. \A m, n \in 1..c - 1 : m < n => f[m] < f[n]
  <2> SUFFICES ASSUME NEW m \in 1..c - 1, NEW n \in 1..c - 1, m < n
               PROVE  f[m] < f[n]
    OBVIOUS
  <2>1. m + 1 < n + 1 /\ m + 1 \in 1..c /\ n + 1 \in 1..c
    BY <1>1
  <2>2. Nth(S, m + 1) < Nth(S, n + 1)
    BY <1>1, <2>1
  <2> QED BY <1>3, <2>2
<1>7. \A i \in T : \E n \in 1..c - 1 : f[n] = i
  <2> SUFFICES ASSUME NEW i \in T
               PROVE  \E n \in 1..c - 1 : f[n] = i
    OBVIOUS
  <2>1. PICK n \in 1..c : Nth(S, n) = i
    BY <1>1
  <2>2. n # 1
    BY <2>1
  <2>3. n - 1 \in 1..c - 1 /\ (n - 1) + 1 = n
    BY <1>1, <2>2
  <2>4. f[n - 1] = i
    BY <2>1, <2>3
  <2> QED BY <2>3, <2>4
<1>8. Cardinality(T) = c - 1 /\ \A n \in 1..c - 1 : Nth(T, n) = f[n]
  <2>1. T \in SUBSET (1..k)
    OBVIOUS
  <2> HIDE DEF T, f
  <2> QED BY <1>2, <1>5, <1>6, <1>7, <2>1, OnlyEnumeration
<1>9. \A n \in 1..c - 1 : Nth(T, n) = Nth(S, n + 1)
  BY <1>3, <1>8
<1> QED BY <1>1, <1>2, <1>8, <1>9 DEF c

\* What a scan says.
LEMMA ScanFields ==
    ASSUME NEW p, NEW a, NEW n, NEW t, NEW b
    PROVE  /\ OutboxScan(p, a, n, t, b).loaded = TRUE
           /\ OutboxScan(p, a, n, t, b).pending = p
           /\ OutboxScan(p, a, n, t, b).acked = a
           /\ OutboxScan(p, a, n, t, b).acks = n
           /\ OutboxScan(p, a, n, t, b).partialTail = t
           /\ OutboxScan(p, a, n, t, b).fromBackup = b
           /\ OutboxScan(p, a, n, t, b) # None
           /\ DOMAIN OutboxScan(p, a, n, t, b)
                  = {"loaded", "pending", "acked", "acks", "partialTail", "fromBackup"}
<1>1. OutboxScan(p, a, n, t, b) # None
  <2>1. "kind" \notin DOMAIN OutboxScan(p, a, n, t, b) /\ "kind" \in DOMAIN None
    BY DEF OutboxScan, None
  <2> QED BY <2>1
<1> QED BY <1>1 DEF OutboxScan

\* The records of a journal.
LEMMA CleanRecords ==
    ASSUME NEW f, Clean(f)
    PROVE  /\ Len(f) \in Nat /\ DOMAIN f = 1..Len(f)
           /\ \A i \in 1..Len(f) : f[i] = Torn \/ f[i] \in Entries
           /\ \A i \in 1..Len(f) : f[i].kind \in {"obs", "ack"} => f[i] \in Entries
           /\ \A i \in 1..Len(f) : f[i].kind = "torn" <=> f[i] = Torn
<1>1. f \in Seq(Entries \cup {Torn})
  BY DEF Clean
<1>2. Len(f) \in Nat /\ DOMAIN f = 1..Len(f)
  BY <1>1
<1>3. \A i \in 1..Len(f) : f[i] = Torn \/ f[i] \in Entries
  BY <1>1
<1>4. Torn.kind = "torn" /\ \A e \in Entries : e.kind \in {"obs", "ack"}
  BY DEF Torn, Entries
<1> QED BY <1>2, <1>3, <1>4

\* What the scan takes for pending and for acknowledged.
LEMMA CleanPlaces ==
    ASSUME NEW f, Clean(f)
    PROVE  /\ {i \in DOMAIN f : PendingAt(f, i)} = WaitPlaces(f)
           /\ {i \in DOMAIN f : AcknowledgedAt(f, i)} = AckPlaces(f)
<1>1. /\ Len(f) \in Nat /\ DOMAIN f = 1..Len(f)
      /\ \A i \in 1..Len(f) : f[i].kind \in {"obs", "ack"} => f[i] \in Entries
  BY CleanRecords
<1>2. \A i, j \in 1..Len(f) :
          f[i].kind = "obs" /\ f[j].kind = "obs" /\ f[i].id = f[j].id => i = j
  BY DEF Clean
<1>3. \A i, j \in 1..Len(f) :
          f[i].kind = "ack" /\ f[j].kind = "ack" /\ f[i].id = f[j].id => i = j
  BY DEF Clean
<1>4. \A j \in 1..Len(f) : f[j].kind = "ack" =>
          \E i \in 1..Len(f) : i < j /\ f[i].kind = "obs" /\ f[j].id = f[i].id
  <2> SUFFICES ASSUME NEW j \in 1..Len(f), f[j].kind = "ack"
               PROVE  \E i \in 1..Len(f) : i < j /\ f[i].kind = "obs" /\ f[j].id = f[i].id
    OBVIOUS
  <2>1. PICK i \in 1..j - 1 : f[i].kind = "obs" /\ f[j] = AckOf(f[i])
    BY DEF Clean
  <2>2. i \in 1..Len(f) /\ i < j
    BY <1>1
  <2>3. f[i] \in Entries
    BY <1>1, <2>1, <2>2
  <2>4. f[j].id = f[i].id
    BY <2>1, <2>3 DEF AckOf, Entries
  <2> QED BY <2>1, <2>2, <2>4
<1>5. \A i \in 1..Len(f) : PendingAt(f, i) <=> i \in WaitPlaces(f)
  <2> SUFFICES ASSUME NEW i \in 1..Len(f)
               PROVE  PendingAt(f, i) <=> i \in WaitPlaces(f)
    OBVIOUS
  <2>1. f[i].kind = "obs" =>
            (AckedLater(f, i) <=> \E j \in AckPlaces(f) : f[j].id = f[i].id)
    <3> SUFFICES ASSUME f[i].kind = "obs"
                 PROVE  AckedLater(f, i) <=> \E j \in AckPlaces(f) : f[j].id = f[i].id
      OBVIOUS
    <3>1. ASSUME NEW j \in i + 1..Len(f), f[j].kind = "ack", f[i].id = f[j].id
          PROVE  \E n \in AckPlaces(f) : f[n].id = f[i].id
      <4>1. j \in 1..Len(f)
        BY <1>1
      <4> QED BY <3>1, <4>1 DEF AckPlaces
    <3>2. ASSUME NEW j \in 1..Len(f), f[j].kind = "ack", f[i].id = f[j].id
          PROVE  j \in i + 1..Len(f)
      <4>1. PICK n \in 1..Len(f) : n < j /\ f[n].kind = "obs" /\ f[j].id = f[n].id
        BY <1>4, <3>2
      <4>2. n = i
        BY <1>2, <3>2, <4>1
      <4> QED BY <1>1, <4>1, <4>2
    <3> QED BY <3>1, <3>2 DEF AckedLater, Same, AckPlaces
  <2>2. f[i].kind = "obs" =>
            \A j \in 1..i - 1 : ~(f[j].kind = "obs" /\ f[i].id = f[j].id)
    <3> SUFFICES ASSUME f[i].kind = "obs", NEW j \in 1..i - 1, f[j].kind = "obs",
                        f[i].id = f[j].id
                 PROVE  FALSE
      OBVIOUS
    <3>1. j \in 1..Len(f) /\ j # i
      BY <1>1
    <3> QED BY <1>2, <3>1
  <2> QED BY <2>1, <2>2 DEF PendingAt, WaitPlaces, ObsPlaces, Same
<1>6. \A j \in 1..Len(f) : AcknowledgedAt(f, j) <=> j \in AckPlaces(f)
  <2> SUFFICES ASSUME NEW j \in 1..Len(f), f[j].kind = "ack"
               PROVE  AcknowledgedAt(f, j)
    BY DEF AcknowledgedAt, AckPlaces
  <2>1. ObservedBefore(f, j)
    <3>1. PICK i \in 1..Len(f) : i < j /\ f[i].kind = "obs" /\ f[j].id = f[i].id
      BY <1>4
    <3>2. i \in 1..j - 1
      BY <1>1, <3>1
    <3> QED BY <3>1, <3>2 DEF ObservedBefore, Same
  <2>2. \A i \in 1..j - 1 : ~(f[i].kind = "ack" /\ f[i].id = f[j].id)
    <3> SUFFICES ASSUME NEW i \in 1..j - 1, f[i].kind = "ack", f[i].id = f[j].id
                 PROVE  FALSE
      OBVIOUS
    <3>1. i \in 1..Len(f) /\ i # j
      BY <1>1
    <3> QED BY <1>3, <3>1
  <2> QED BY <2>1, <2>2 DEF AcknowledgedAt, Same
<1>7. WaitPlaces(f) \subseteq 1..Len(f) /\ AckPlaces(f) \subseteq 1..Len(f)
  BY DEF WaitPlaces, ObsPlaces, AckPlaces
<1> QED BY <1>1, <1>5, <1>6, <1>7

\* The records at some places, as observations.
LEMMA PickedRecords ==
    ASSUME NEW f, Clean(f), NEW S \in SUBSET (1..Len(f)),
           \A i \in S : f[i] \in Entries
    PROVE  /\ Picked(f, S) \in Seq(Observations)
           /\ Len(Picked(f, S)) = Cardinality(S) /\ Cardinality(S) \in Nat
           /\ \A n \in 1..Cardinality(S) :
                  Picked(f, S)[n] = AsObs(f[Nth(S, n)]) /\ Nth(S, n) \in S
           /\ [n \in DOMAIN RecordsAt(f, S) |-> [RecordsAt(f, S)[n] EXCEPT !.kind = "obs"]]
                  = Picked(f, S)
<1>1. Cardinality(S) \in Nat /\ \A n \in 1..Cardinality(S) : Nth(S, n) \in S
  BY CleanRecords, NthNumber
<1>2. \A n \in 1..Cardinality(S) : AsObs(f[Nth(S, n)]) \in Observations
  <2>1. \A e \in Entries : AsObs(e) \in Observations
    BY DEF AsObs, Observations, Entries
  <2> QED BY <1>1, <2>1
<1>3. Picked(f, S) = [n \in 1..Cardinality(S) |-> AsObs(f[Nth(S, n)])]
  BY DEF Picked
<1>4. Picked(f, S) \in Seq(Observations) /\ Len(Picked(f, S)) = Cardinality(S)
  BY <1>1, <1>2, <1>3
<1>5. \A n \in 1..Cardinality(S) :
          Picked(f, S)[n] = AsObs(f[Nth(S, n)]) /\ Nth(S, n) \in S
  BY <1>1, <1>3
<1>6. [n \in DOMAIN RecordsAt(f, S) |-> [RecordsAt(f, S)[n] EXCEPT !.kind = "obs"]]
          = Picked(f, S)
  BY <1>3 DEF RecordsAt, AsObs
<1> QED BY <1>1, <1>4, <1>5, <1>6

\* The scan of a journal that the program wrote.
LEMMA CleanScan ==
    ASSUME NEW f, Clean(f)
    PROVE  ScanOutboxFile(f) = IF Len(WaitingIn(f)) <= Capacity
                               THEN ScanOf(WaitingIn(f), AckedIn(f), HasTorn(f)) ELSE None
<1>1. /\ Len(f) \in Nat /\ DOMAIN f = 1..Len(f)
      /\ \A i \in 1..Len(f) : f[i].kind \in {"obs", "ack"} => f[i] \in Entries
  BY CleanRecords
<1>2. /\ WaitPlaces(f) \in SUBSET (1..Len(f)) /\ \A i \in WaitPlaces(f) : f[i] \in Entries
      /\ AckPlaces(f) \in SUBSET (1..Len(f)) /\ \A i \in AckPlaces(f) : f[i] \in Entries
  BY <1>1 DEF WaitPlaces, ObsPlaces, AckPlaces
<1>3. ObservationsAt(f, {i \in DOMAIN f : PendingAt(f, i)}) = WaitingIn(f)
  <2>1. {i \in DOMAIN f : PendingAt(f, i)} = WaitPlaces(f)
    BY CleanPlaces
  <2>2. [n \in DOMAIN RecordsAt(f, WaitPlaces(f)) |->
             [RecordsAt(f, WaitPlaces(f))[n] EXCEPT !.kind = "obs"]] = WaitingIn(f)
    BY <1>2, PickedRecords DEF WaitingIn
  <2>3. ObservationsAt(f, WaitPlaces(f)) = WaitingIn(f)
    BY <2>2 DEF ObservationsAt
  <2> QED BY <2>1, <2>3
<1>5. {i \in DOMAIN f : f[i].kind = "ack"} = AckPlaces(f)
  BY <1>1 DEF AckPlaces
<1>4. ObservationsAt(f, {i \in AckPlaces(f) : AcknowledgedAt(f, i)}) = AckedIn(f)
  <2>1. {i \in AckPlaces(f) : AcknowledgedAt(f, i)} = AckPlaces(f)
    BY CleanPlaces
  <2>2. [n \in DOMAIN RecordsAt(f, AckPlaces(f)) |->
             [RecordsAt(f, AckPlaces(f))[n] EXCEPT !.kind = "obs"]] = AckedIn(f)
    BY <1>2, PickedRecords DEF AckedIn
  <2>3. ObservationsAt(f, AckPlaces(f)) = AckedIn(f)
    BY <2>2 DEF ObservationsAt
  <2> QED BY <2>1, <2>3
<1>6. Len(AckedIn(f)) = Cardinality(AckPlaces(f))
  BY <1>2, PickedRecords DEF AckedIn
<1> DEFINE torn == {i \in DOMAIN f : f[i] = Torn}
<1>7. torn \subseteq {Len(f)} /\ (torn # {} <=> HasTorn(f))
  BY <1>1 DEF Clean, HasTorn
<1>8. (torn # {}) = HasTorn(f)
  BY <1>7 DEF HasTorn
<1>9. ScanOutboxFile(f)
          = IF torn \subseteq {Len(f)} /\ Len(WaitingIn(f)) <= Capacity
            THEN OutboxScan(WaitingIn(f), AckedIn(f), Cardinality(AckPlaces(f)),
                            torn # {}, FALSE)
            ELSE None
  BY <1>3, <1>4, <1>5 DEF ScanOutboxFile
<1> HIDE DEF torn
<1>10. ScanOutboxFile(f)
          = IF Len(WaitingIn(f)) <= Capacity
            THEN OutboxScan(WaitingIn(f), AckedIn(f), Len(AckedIn(f)), torn # {}, FALSE)
            ELSE None
  BY <1>6, <1>7, <1>9
<1> QED BY <1>8, <1>10 DEF ScanOf

\* An append leaves what is picked from before it, and may add to it.
LEMMA PickedSame ==
    ASSUME NEW f, NEW x, Clean(f), Clean(Append(f, x)),
           NEW S \in SUBSET (1..Len(f)), \A i \in S : f[i] \in Entries
    PROVE  /\ Picked(Append(f, x), S) = Picked(f, S)
           /\ x \in Entries =>
                  Picked(Append(f, x), S \cup {Len(f) + 1}) = Append(Picked(f, S), AsObs(x))
<1> DEFINE g == Append(f, x)
           c == Cardinality(S)
<1>1. Len(f) \in Nat /\ f \in Seq(Entries \cup {Torn}) /\ g \in Seq(Entries \cup {Torn})
  BY CleanRecords DEF Clean
<1>2. /\ Len(g) = Len(f) + 1 /\ g[Len(f) + 1] = x
      /\ \A i \in 1..Len(f) : g[i] = f[i]
  <2>1. DOMAIN g = 1..Len(f) + 1
    BY <1>1
  <2> QED BY <1>1
<1>3. /\ c \in Nat /\ Picked(f, S) \in Seq(Observations) /\ Len(Picked(f, S)) = c
      /\ \A n \in 1..c : Picked(f, S)[n] = AsObs(f[Nth(S, n)]) /\ Nth(S, n) \in S
  BY PickedRecords
<1>4. Picked(g, S) = Picked(f, S)
  <2>1. \A n \in 1..c : AsObs(g[Nth(S, n)]) = AsObs(f[Nth(S, n)])
    BY <1>2, <1>3
  <2> HIDE DEF g
  <2> QED BY <2>1 DEF Picked
<1>5. ASSUME x \in Entries
      PROVE  Picked(g, S \cup {Len(f) + 1}) = Append(Picked(f, S), AsObs(x))
  <2> DEFINE T == S \cup {Len(f) + 1}
             p == Picked(g, T)
             q == Append(Picked(f, S), AsObs(x))
  <2>1. /\ Cardinality(T) = c + 1
        /\ \A n \in 1..c : Nth(T, n) = Nth(S, n)
        /\ Nth(T, c + 1) = Len(f) + 1
    BY <1>1, NthOfLonger
  <2>2. p = [n \in 1..c + 1 |-> AsObs(g[Nth(T, n)])]
    BY <2>1 DEF Picked
  <2>3. AsObs(x) \in Observations
    BY <1>5 DEF AsObs, Observations, Entries
  <2>4. q \in Seq(Observations) /\ Len(q) = c + 1 /\ DOMAIN q = 1..c + 1
        /\ q[c + 1] = AsObs(x) /\ \A n \in 1..c : q[n] = Picked(f, S)[n]
    BY <1>3, <2>3
  <2>5. \A n \in 1..c + 1 : p[n] = q[n]
    <3> SUFFICES ASSUME NEW n \in 1..c + 1
                 PROVE  p[n] = q[n]
      OBVIOUS
    <3>1. p[n] = AsObs(g[Nth(T, n)])
      <4> HIDE DEF p, g
      <4> QED BY <2>2
    <3>2. CASE n = c + 1
      <4> HIDE DEF p, q, g, T
      <4> QED BY <1>2, <2>1, <2>4, <3>1, <3>2
    <3>3. CASE n # c + 1
      <4>1. n \in 1..c
        BY <1>3, <3>3
      <4>2. Nth(T, n) = Nth(S, n) /\ Nth(S, n) \in 1..Len(f)
        BY <1>3, <2>1, <4>1
      <4> HIDE DEF p, q, g, T
      <4> QED BY <1>2, <1>3, <2>4, <3>1, <4>1, <4>2
    <3> QED BY <3>2, <3>3
  <2>6. DOMAIN p = 1..c + 1 /\ p = [n \in 1..c + 1 |-> p[n]]
    <3> HIDE DEF p, g, T
    <3> QED BY <2>2
  <2>7. q = [n \in 1..c + 1 |-> q[n]]
    <3> HIDE DEF q
    <3> QED BY <2>4
  <2> HIDE DEF p, q
  <2>8. p = q
    BY <2>5, <2>6, <2>7
  <2> QED BY <2>8 DEF p, q
<1> QED BY <1>4, <1>5

\* The first record picked, and the rest.
LEMMA PickedRest ==
    ASSUME NEW f, Clean(f), NEW S \in SUBSET (1..Len(f)), S # {},
           \A i \in S : f[i] \in Entries
    PROVE  /\ Picked(f, S) # <<>>
           /\ Nth(S, 1) \in S /\ Head(Picked(f, S)) = AsObs(f[Nth(S, 1)])
           /\ Picked(f, S \ {Nth(S, 1)}) = Tail(Picked(f, S))
<1> DEFINE c == Cardinality(S)
           T == S \ {Nth(S, 1)}
           p == Picked(f, S)
           q == Picked(f, T)
<1>1. Len(f) \in Nat
  BY CleanRecords
<1>2. /\ c \in Nat \ {0} /\ Cardinality(T) = c - 1
      /\ \A n \in 1..c - 1 : Nth(T, n) = Nth(S, n + 1)
  BY <1>1, NthOfRest
<1>3. /\ p \in Seq(Observations) /\ Len(p) = c
      /\ \A n \in 1..c : p[n] = AsObs(f[Nth(S, n)]) /\ Nth(S, n) \in S
  BY PickedRecords
<1>4. /\ q \in Seq(Observations) /\ Len(q) = c - 1
      /\ \A n \in 1..c - 1 : q[n] = AsObs(f[Nth(T, n)])
  <2>1. T \in SUBSET (1..Len(f)) /\ \A i \in T : f[i] \in Entries
    OBVIOUS
  <2>2. /\ q \in Seq(Observations) /\ Len(q) = Cardinality(T)
        /\ \A n \in 1..Cardinality(T) : q[n] = AsObs(f[Nth(T, n)])
    <3> HIDE DEF T
    <3> QED BY <2>1, PickedRecords
  <2> HIDE DEF T, q
  <2> QED BY <1>2, <2>2
<1> HIDE DEF p, q, T, c
<1>5. p # <<>> /\ 1 \in 1..c /\ Head(p) = p[1]
  BY <1>2, <1>3
<1>6. /\ Tail(p) \in Seq(Observations) /\ Len(Tail(p)) = c - 1
      /\ \A n \in 1..c - 1 : Tail(p)[n] = p[n + 1]
  BY <1>2, <1>3, <1>5
<1>7. \A n \in 1..c - 1 : q[n] = Tail(p)[n]
  <2> SUFFICES ASSUME NEW n \in 1..c - 1
               PROVE  q[n] = Tail(p)[n]
    OBVIOUS
  <2>1. n + 1 \in 1..c
    BY <1>2
  <2> QED BY <1>2, <1>3, <1>4, <1>6, <2>1
<1>8. q = Tail(p)
  <2>1. q = [n \in 1..Len(q) |-> q[n]]
    BY <1>4
  <2>2. \A r \in Seq(Observations) : r = [n \in 1..Len(r) |-> r[n]]
    OBVIOUS
  <2> QED BY <1>4, <1>6, <1>7, <2>1, <2>2
<1> QED BY <1>3, <1>5, <1>8 DEF p, q, T, c

\* The elements and the names of what is picked.
LEMMA PickedElements ==
    ASSUME NEW f, Clean(f), NEW S \in SUBSET (1..Len(f)),
           \A i \in S : f[i] \in Entries
    PROVE  /\ \A i \in S : \E n \in 1..Len(Picked(f, S)) : Picked(f, S)[n] = AsObs(f[i])
           /\ IdsOf(Picked(f, S)) = {f[i].id : i \in S}
<1> DEFINE c == Cardinality(S)
           p == Picked(f, S)
<1>1. /\ p \in Seq(Observations) /\ Len(p) = c
      /\ \A n \in 1..c : p[n] = AsObs(f[Nth(S, n)]) /\ Nth(S, n) \in S
  BY PickedRecords
<1>2. \A i \in S : \E n \in 1..c : Nth(S, n) = i
  BY CleanRecords, NthNumber
<1>3. \A i \in S : AsObs(f[i]).id = f[i].id
  BY DEF AsObs, Entries
<1> HIDE DEF p, c
<1>4. \A i \in S : \E n \in 1..c : p[n] = AsObs(f[i])
  BY <1>1, <1>2
<1>5. DOMAIN p = 1..c
  BY <1>1
<1>6. \A n \in 1..c : p[n].id = f[Nth(S, n)].id
  BY <1>1, <1>3
<1>7. IdsOf(p) = {f[i].id : i \in S}
  <2>1. \A x \in IdsOf(p) : \E i \in S : x = f[i].id
    BY <1>1, <1>5, <1>6 DEF IdsOf
  <2>2. \A i \in S : \E n \in 1..c : p[n].id = f[i].id
    BY <1>2, <1>6
  <2>3. \A i \in S : f[i].id \in IdsOf(p)
    BY <1>5, <2>2 DEF IdsOf
  <2> QED BY <2>1, <2>3
<1> QED BY <1>1, <1>4, <1>7 DEF p, c

\* A journal and one record more.
LEMMA LongerFile ==
    ASSUME NEW f, Clean(f), NEW x \in Entries \cup {Torn}
    PROVE  /\ Len(f) \in Nat /\ Append(f, x) \in Seq(Entries \cup {Torn})
           /\ Len(Append(f, x)) = Len(f) + 1 /\ Append(f, x)[Len(f) + 1] = x
           /\ \A i \in 1..Len(f) : i \in 1..Len(f) + 1 /\ Append(f, x)[i] = f[i]
           /\ \A i \in 1..Len(f) + 1 : i = Len(f) + 1 \/ i \in 1..Len(f)
           /\ 1..Len(f) + 1 = 1..Len(f) \cup {Len(f) + 1}
           /\ Len(f) + 1 \notin 1..Len(f)
<1>1. f \in Seq(Entries \cup {Torn}) /\ Len(f) \in Nat
  BY CleanRecords DEF Clean
<1>2. Append(f, x) \in Seq(Entries \cup {Torn}) /\ Len(Append(f, x)) = Len(f) + 1
  BY <1>1
<1>3. Append(f, x)[Len(f) + 1] = x /\ \A i \in 1..Len(f) : Append(f, x)[i] = f[i]
  BY <1>1
<1> QED BY <1>1, <1>2, <1>3

\* The places of the records are places of records.
LEMMA PlacesOf ==
    ASSUME NEW f, Clean(f)
    PROVE  /\ WaitPlaces(f) \in SUBSET (1..Len(f)) /\ AckPlaces(f) \in SUBSET (1..Len(f))
           /\ \A i \in WaitPlaces(f) : f[i] \in Entries /\ f[i].kind = "obs" /\ AsObs(f[i]) = f[i]
           /\ \A i \in AckPlaces(f) : f[i] \in Entries /\ f[i].kind = "ack"
<1>1. \A i \in 1..Len(f) : f[i].kind \in {"obs", "ack"} => f[i] \in Entries
  BY CleanRecords
<1>2. \A e \in Entries : e.kind = "obs" => AsObs(e) = e
  BY DEF AsObs, Entries
<1> QED BY <1>1, <1>2 DEF WaitPlaces, ObsPlaces, AckPlaces

\* The lists of a journal.
LEMMA CleanLists ==
    ASSUME NEW f, Clean(f)
    PROVE  /\ WaitingIn(f) \in Seq(Observations) /\ DistinctIds(WaitingIn(f))
           /\ AckedIn(f) \in Seq(Observations)
           /\ HasTorn(f) \in BOOLEAN
<1> DEFINE S == WaitPlaces(f)
           c == Cardinality(S)
           p == WaitingIn(f)
<1>1. AckedIn(f) \in Seq(Observations)
  BY PlacesOf, PickedRecords DEF AckedIn
<1>2. /\ p \in Seq(Observations) /\ Len(p) = c
      /\ \A n \in 1..c : p[n] = f[Nth(S, n)] /\ Nth(S, n) \in S
  BY PlacesOf, PickedRecords DEF WaitingIn
<1>3. Len(f) \in Nat
  BY CleanRecords
<1>4. c \in Nat /\ \A m, n \in 1..c : m < n => Nth(S, m) < Nth(S, n)
  BY <1>3, PlacesOf, NthNumber
<1>5. \A i, j \in S : f[i].id = f[j].id => i = j
  BY DEF Clean, WaitPlaces, ObsPlaces
<1>6. S \in SUBSET (1..Len(f))
  BY PlacesOf
<1> HIDE DEF S, p, c
<1>7. DistinctIds(p)
  <2> SUFFICES ASSUME NEW m \in 1..c, NEW n \in 1..c, p[m].id = p[n].id
               PROVE  m = n
    BY <1>2 DEF DistinctIds
  <2>0. Nth(S, m) \in S /\ Nth(S, n) \in S /\ f[Nth(S, m)].id = f[Nth(S, n)].id
    BY <1>2
  <2>1. Nth(S, m) = Nth(S, n) /\ Nth(S, m) \in Nat
    <3>1. Nth(S, m) = Nth(S, n)
      BY <1>5, <2>0
    <3>2. Nth(S, m) \in 1..Len(f)
      BY <1>6, <2>0
    <3> QED BY <3>1, <3>2
  <2>2. ~(Nth(S, m) < Nth(S, n)) /\ ~(Nth(S, n) < Nth(S, m))
    BY <2>1
  <2>3. ~(m < n) /\ ~(n < m)
    BY <1>4, <2>2
  <2> QED BY <1>4, <2>3
<1> QED BY <1>1, <1>2, <1>7 DEF p, HasTorn

\* An observation of a journal waits or was acknowledged.
LEMMA CleanIds ==
    ASSUME NEW f, Clean(f), NEW i \in 1..Len(f), f[i].kind = "obs"
    PROVE  f[i].id \in IdsOf(AckedIn(f)) \cup IdsOf(WaitingIn(f))
<1>1. /\ IdsOf(AckedIn(f)) = {f[j].id : j \in AckPlaces(f)}
      /\ IdsOf(WaitingIn(f)) = {f[j].id : j \in WaitPlaces(f)}
  BY PlacesOf, PickedElements DEF AckedIn, WaitingIn
<1>2. CASE i \in WaitPlaces(f)
  BY <1>1, <1>2
<1>3. CASE i \notin WaitPlaces(f)
  <2>1. PICK j \in AckPlaces(f) : f[j].id = f[i].id
    BY <1>3 DEF WaitPlaces, ObsPlaces
  <2> QED BY <1>1, <2>1
<1> QED BY <1>2, <1>3

\* A new observation is appended.
LEMMA ObsFile ==
    ASSUME NEW f, Clean(f), ~HasTorn(f), NEW o \in Observations,
           o.id \notin IdsOf(AckedIn(f)) \cup IdsOf(WaitingIn(f))
    PROVE  /\ Clean(Append(f, o)) /\ ~HasTorn(Append(f, o))
           /\ WaitingIn(Append(f, o)) = Append(WaitingIn(f), o)
           /\ AckedIn(Append(f, o)) = AckedIn(f)
<1> DEFINE g == Append(f, o)
           n == Len(f) + 1
<1>1. o \in Entries /\ o.kind = "obs" /\ o # Torn /\ AsObs(o) = o
  BY DEF Observations, Entries, Torn, AsObs
<1>2. /\ Len(f) \in Nat /\ g \in Seq(Entries \cup {Torn}) /\ Len(g) = n /\ g[n] = o
      /\ \A i \in 1..Len(f) : i \in 1..n /\ g[i] = f[i]
      /\ \A i \in 1..n : i = n \/ i \in 1..Len(f)
      /\ n \notin 1..Len(f)
  BY <1>1, LongerFile
<1>3. \A i \in 1..Len(f) : f[i].kind \in {"obs", "ack"} => f[i].id # o.id
  <2>1. \A i \in 1..Len(f) : f[i].kind = "obs" => f[i].id # o.id
    BY CleanIds
  <2>2. \A i \in AckPlaces(f) : f[i].id # o.id
    BY PlacesOf, PickedElements DEF AckedIn
  <2> QED BY <2>1, <2>2 DEF AckPlaces
<1> HIDE DEF g
<1>4. \A i \in 1..n : g[i] # Torn
  BY <1>1, <1>2 DEF HasTorn
<1>5. Clean(g)
  <2>1. \A i, j \in 1..n :
            g[i].kind = "obs" /\ g[j].kind = "obs" /\ g[i].id = g[j].id => i = j
    <3> SUFFICES ASSUME NEW i \in 1..n, NEW j \in 1..n, g[i].kind = "obs",
                        g[j].kind = "obs", g[i].id = g[j].id
                 PROVE  i = j
      OBVIOUS
    <3>1. \A a, b \in 1..Len(f) :
              f[a].kind = "obs" /\ f[b].kind = "obs" /\ f[a].id = f[b].id => a = b
      BY DEF Clean
    <3> QED BY <1>2, <1>3, <3>1
  <2>2. \A i, j \in 1..n :
            g[i].kind = "ack" /\ g[j].kind = "ack" /\ g[i].id = g[j].id => i = j
    <3> SUFFICES ASSUME NEW i \in 1..n, NEW j \in 1..n, g[i].kind = "ack",
                        g[j].kind = "ack", g[i].id = g[j].id
                 PROVE  i = j
      OBVIOUS
    <3>1. \A a, b \in 1..Len(f) :
              f[a].kind = "ack" /\ f[b].kind = "ack" /\ f[a].id = f[b].id => a = b
      BY DEF Clean
    <3> QED BY <1>1, <1>2, <3>1
  <2>3. \A j \in 1..n : g[j].kind = "ack" =>
            \E i \in 1..j - 1 : g[i].kind = "obs" /\ g[j] = AckOf(g[i])
    <3> SUFFICES ASSUME NEW j \in 1..n, g[j].kind = "ack"
                 PROVE  \E i \in 1..j - 1 : g[i].kind = "obs" /\ g[j] = AckOf(g[i])
      OBVIOUS
    <3>1. j \in 1..Len(f) /\ f[j].kind = "ack"
      BY <1>1, <1>2
    <3>2. PICK i \in 1..j - 1 : f[i].kind = "obs" /\ f[j] = AckOf(f[i])
      BY <3>1 DEF Clean
    <3>3. i \in 1..Len(f)
      BY <1>2, <3>1
    <3> QED BY <1>2, <3>1, <3>2, <3>3
  <2> QED BY <1>2, <1>4, <2>1, <2>2, <2>3 DEF Clean
<1>6. AckPlaces(g) = AckPlaces(f)
  BY <1>1, <1>2 DEF AckPlaces
<1>7. WaitPlaces(g) = WaitPlaces(f) \cup {n}
  <2>1. ObsPlaces(g) = ObsPlaces(f) \cup {n}
    BY <1>1, <1>2 DEF ObsPlaces
  <2>2. \A j \in AckPlaces(f) : g[j] = f[j] /\ f[j].id # o.id
    BY <1>2, <1>3 DEF AckPlaces
  <2>3. \A i \in ObsPlaces(f) : g[i] = f[i]
    BY <1>2 DEF ObsPlaces
  <2>4. \A i \in ObsPlaces(f) : i \in WaitPlaces(g) <=> i \in WaitPlaces(f)
    BY <1>6, <2>1, <2>2, <2>3 DEF WaitPlaces
  <2>5. n \in WaitPlaces(g)
    BY <1>2, <1>6, <2>1, <2>2 DEF WaitPlaces
  <2>6. WaitPlaces(g) \subseteq ObsPlaces(f) \cup {n} /\ WaitPlaces(f) \subseteq ObsPlaces(f)
    BY <2>1 DEF WaitPlaces
  <2> QED BY <2>4, <2>5, <2>6
<1>8. WaitingIn(g) = Append(WaitingIn(f), o)
  BY <1>1, <1>5, <1>7, PlacesOf, PickedSame DEF WaitingIn, g
<1>9. AckedIn(g) = AckedIn(f)
  <2>0. AckPlaces(f) \in SUBSET (1..Len(f)) /\ \A i \in AckPlaces(f) : f[i] \in Entries
    BY PlacesOf
  <2>1. Picked(g, AckPlaces(f)) = Picked(f, AckPlaces(f))
    BY <1>5, <2>0, PickedSame DEF g
  <2> QED BY <1>6, <2>1 DEF AckedIn
<1>10. ~HasTorn(g)
  BY <1>2, <1>4 DEF HasTorn
<1> QED BY <1>5, <1>8, <1>9, <1>10 DEF g

\* The first observation that waits is acknowledged.
LEMMA AckFile ==
    ASSUME NEW f, Clean(f), ~HasTorn(f), WaitingIn(f) # <<>>
    PROVE  LET g == Append(f, AckOf(Head(WaitingIn(f))))
           IN  /\ Clean(g) /\ ~HasTorn(g)
               /\ WaitingIn(g) = Tail(WaitingIn(f))
               /\ AckedIn(g) = Append(AckedIn(f), Head(WaitingIn(f)))
<1> DEFINE h == Head(WaitingIn(f))
           x == AckOf(h)
           g == Append(f, x)
           n == Len(f) + 1
           w == Nth(WaitPlaces(f), 1)
<1>0. WaitPlaces(f) # {}
  <2> SUFFICES ASSUME WaitPlaces(f) = {}
               PROVE  FALSE
    OBVIOUS
  <2>1. Cardinality(WaitPlaces(f)) = 0
    BY FS_EmptySet
  <2>2. WaitingIn(f) \in Seq(Observations) /\ Len(WaitingIn(f)) = 0
    BY <2>1, PlacesOf, PickedRecords DEF WaitingIn
  <2> QED BY <2>2
<1>1. /\ w \in WaitPlaces(f) /\ h = AsObs(f[w])
      /\ Picked(f, WaitPlaces(f) \ {w}) = Tail(WaitingIn(f))
  BY <1>0, PlacesOf, PickedRest DEF WaitingIn
<1>2. w \in 1..Len(f) /\ f[w] \in Entries /\ f[w].kind = "obs" /\ h = f[w]
  BY <1>1, PlacesOf
<1>3. x \in Entries /\ x.kind = "ack" /\ x.id = f[w].id /\ x # Torn /\ AsObs(x) = h
  BY <1>2 DEF AckOf, Entries, Torn, AsObs
<1> HIDE DEF w, h
<1>4. /\ Len(f) \in Nat /\ g \in Seq(Entries \cup {Torn}) /\ Len(g) = n /\ g[n] = x
      /\ \A i \in 1..Len(f) : i \in 1..n /\ g[i] = f[i]
      /\ \A i \in 1..n : i = n \/ i \in 1..Len(f)
      /\ n \notin 1..Len(f)
  <2> HIDE DEF x
  <2> QED BY <1>3, LongerFile
<1>5. \A i \in 1..Len(f) : f[i].kind = "ack" => f[i].id # f[w].id
  BY <1>1 DEF WaitPlaces, AckPlaces
<1>6. \A i \in 1..Len(f) : f[i].kind = "obs" /\ f[i].id = f[w].id => i = w
  BY <1>2 DEF Clean
<1> HIDE DEF g
<1>7. \A i \in 1..n : g[i] # Torn
  <2> HIDE DEF x
  <2> QED BY <1>3, <1>4 DEF HasTorn
<1>8. Clean(g)
  <2> USE DEF x
  <2>1. \A i, j \in 1..n :
            g[i].kind = "obs" /\ g[j].kind = "obs" /\ g[i].id = g[j].id => i = j
    <3> HIDE DEF x
    <3> SUFFICES ASSUME NEW i \in 1..n, NEW j \in 1..n, g[i].kind = "obs",
                        g[j].kind = "obs", g[i].id = g[j].id
                 PROVE  i = j
      OBVIOUS
    <3>1. \A a, b \in 1..Len(f) :
              f[a].kind = "obs" /\ f[b].kind = "obs" /\ f[a].id = f[b].id => a = b
      BY DEF Clean
    <3> QED BY <1>3, <1>4, <3>1
  <2>2. \A i, j \in 1..n :
            g[i].kind = "ack" /\ g[j].kind = "ack" /\ g[i].id = g[j].id => i = j
    <3> HIDE DEF x
    <3> SUFFICES ASSUME NEW i \in 1..n, NEW j \in 1..n, g[i].kind = "ack",
                        g[j].kind = "ack", g[i].id = g[j].id
                 PROVE  i = j
      OBVIOUS
    <3>1. \A a, b \in 1..Len(f) :
              f[a].kind = "ack" /\ f[b].kind = "ack" /\ f[a].id = f[b].id => a = b
      BY DEF Clean
    <3> QED BY <1>3, <1>4, <1>5, <3>1
  <2>3. \A j \in 1..n : g[j].kind = "ack" =>
            \E i \in 1..j - 1 : g[i].kind = "obs" /\ g[j] = AckOf(g[i])
    <3> SUFFICES ASSUME NEW j \in 1..n, g[j].kind = "ack"
                 PROVE  \E i \in 1..j - 1 : g[i].kind = "obs" /\ g[j] = AckOf(g[i])
      OBVIOUS
    <3>1. CASE j = n
      <4>1. w \in 1..j - 1 /\ g[w] = f[w]
        BY <1>2, <1>4, <3>1
      <4> QED BY <1>2, <1>4, <3>1, <4>1
    <3>2. CASE j # n
      <4>1. j \in 1..Len(f) /\ g[j] = f[j]
        BY <1>4, <3>2
      <4>2. PICK i \in 1..j - 1 : f[i].kind = "obs" /\ f[j] = AckOf(f[i])
        BY <4>1 DEF Clean
      <4>3. i \in 1..Len(f)
        BY <1>4, <4>1
      <4> QED BY <1>4, <4>1, <4>2, <4>3
    <3> QED BY <3>1, <3>2
  <2> QED BY <1>4, <1>7, <2>1, <2>2, <2>3 DEF Clean
<1> HIDE DEF x
<1>9. AckPlaces(g) = AckPlaces(f) \cup {n}
  BY <1>3, <1>4 DEF AckPlaces
<1>10. WaitPlaces(g) = WaitPlaces(f) \ {w}
  <2>1. ObsPlaces(g) = ObsPlaces(f)
    BY <1>3, <1>4 DEF ObsPlaces
  <2>2. \A i \in ObsPlaces(f) : g[i] = f[i] /\ (f[i].id = x.id <=> i = w)
    BY <1>2, <1>3, <1>4, <1>6 DEF ObsPlaces
  <2>3. \A j \in AckPlaces(f) : g[j] = f[j]
    BY <1>4 DEF AckPlaces
  <2>4. \A i \in ObsPlaces(f) : i \in WaitPlaces(g) <=> i \in WaitPlaces(f) /\ i # w
    BY <1>4, <1>9, <2>1, <2>2, <2>3 DEF WaitPlaces
  <2>5. WaitPlaces(g) \subseteq ObsPlaces(f) /\ WaitPlaces(f) \subseteq ObsPlaces(f)
    BY <2>1 DEF WaitPlaces
  <2> QED BY <2>4, <2>5
<1>11. WaitingIn(g) = Tail(WaitingIn(f))
  <2>1. WaitPlaces(f) \ {w} \in SUBSET (1..Len(f))
        /\ \A i \in WaitPlaces(f) \ {w} : f[i] \in Entries
    BY PlacesOf
  <2>2. Picked(g, WaitPlaces(f) \ {w}) = Picked(f, WaitPlaces(f) \ {w})
    BY <1>8, <2>1, PickedSame DEF g
  <2> QED BY <1>1, <1>10, <2>2 DEF WaitingIn
<1>12. AckedIn(g) = Append(AckedIn(f), h)
  <2>1. Picked(g, AckPlaces(f) \cup {n}) = Append(Picked(f, AckPlaces(f)), AsObs(x))
    BY <1>3, <1>8, PlacesOf, PickedSame DEF g
  <2> QED BY <1>3, <1>9, <2>1 DEF AckedIn
<1>13. ~HasTorn(g)
  BY <1>4, <1>7 DEF HasTorn
<1> QED BY <1>8, <1>11, <1>12, <1>13 DEF g, h, x

\* Part of a record is appended.
LEMMA TornFile ==
    ASSUME NEW f, Clean(f), ~HasTorn(f)
    PROVE  LET g == Append(f, Torn)
           IN  /\ Clean(g) /\ HasTorn(g)
               /\ WaitingIn(g) = WaitingIn(f) /\ AckedIn(g) = AckedIn(f)
<1> DEFINE g == Append(f, Torn)
           n == Len(f) + 1
<1>1. /\ Len(f) \in Nat /\ g \in Seq(Entries \cup {Torn}) /\ Len(g) = n /\ g[n] = Torn
      /\ \A i \in 1..Len(f) : i \in 1..n /\ g[i] = f[i]
      /\ \A i \in 1..n : i = n \/ i \in 1..Len(f)
      /\ n \notin 1..Len(f)
  BY LongerFile
<1>2. Torn.kind = "torn"
  BY DEF Torn
<1> HIDE DEF g
<1>3. g[n].kind = "torn" /\ \A i \in 1..n : g[i].kind \in {"obs", "ack"} => i \in 1..Len(f)
  BY <1>1, <1>2
<1>4. Clean(g)
  <2>1. \A i, j \in 1..n :
            g[i].kind = "obs" /\ g[j].kind = "obs" /\ g[i].id = g[j].id => i = j
    <3>1. \A a, b \in 1..Len(f) :
              f[a].kind = "obs" /\ f[b].kind = "obs" /\ f[a].id = f[b].id => a = b
      BY DEF Clean
    <3> QED BY <1>1, <1>3, <3>1
  <2>2. \A i, j \in 1..n :
            g[i].kind = "ack" /\ g[j].kind = "ack" /\ g[i].id = g[j].id => i = j
    <3>1. \A a, b \in 1..Len(f) :
              f[a].kind = "ack" /\ f[b].kind = "ack" /\ f[a].id = f[b].id => a = b
      BY DEF Clean
    <3> QED BY <1>1, <1>3, <3>1
  <2>3. \A j \in 1..n : g[j].kind = "ack" =>
            \E i \in 1..j - 1 : g[i].kind = "obs" /\ g[j] = AckOf(g[i])
    <3> SUFFICES ASSUME NEW j \in 1..n, g[j].kind = "ack"
                 PROVE  \E i \in 1..j - 1 : g[i].kind = "obs" /\ g[j] = AckOf(g[i])
      OBVIOUS
    <3>1. j \in 1..Len(f) /\ g[j] = f[j]
      BY <1>1, <1>3
    <3>2. PICK i \in 1..j - 1 : f[i].kind = "obs" /\ f[j] = AckOf(f[i])
      BY <3>1 DEF Clean
    <3>3. i \in 1..Len(f)
      BY <1>1, <3>1
    <3> QED BY <1>1, <3>1, <3>2, <3>3
  <2>4. \A i \in 1..n : g[i] = Torn => i = n
    BY <1>1 DEF HasTorn
  <2> QED BY <1>1, <2>1, <2>2, <2>3, <2>4 DEF Clean
<1>5. AckPlaces(g) = AckPlaces(f) /\ ObsPlaces(g) = ObsPlaces(f)
  BY <1>1, <1>3 DEF AckPlaces, ObsPlaces
<1>6. WaitPlaces(g) = WaitPlaces(f)
  <2>1. \A i \in ObsPlaces(f) \cup AckPlaces(f) : g[i] = f[i]
    BY <1>1 DEF AckPlaces, ObsPlaces
  <2> QED BY <1>5, <2>1 DEF WaitPlaces
<1>7. WaitingIn(g) = WaitingIn(f)
  <2>0. WaitPlaces(f) \in SUBSET (1..Len(f)) /\ \A i \in WaitPlaces(f) : f[i] \in Entries
    BY PlacesOf
  <2>1. Picked(g, WaitPlaces(f)) = Picked(f, WaitPlaces(f))
    BY <1>4, <2>0, PickedSame DEF g
  <2> QED BY <1>6, <2>1 DEF WaitingIn
<1>8. AckedIn(g) = AckedIn(f)
  <2>0. AckPlaces(f) \in SUBSET (1..Len(f)) /\ \A i \in AckPlaces(f) : f[i] \in Entries
    BY PlacesOf
  <2>1. Picked(g, AckPlaces(f)) = Picked(f, AckPlaces(f))
    BY <1>4, <2>0, PickedSame DEF g
  <2> QED BY <1>5, <2>1 DEF AckedIn
<1>9. HasTorn(g)
  <2>1. n \in 1..Len(g)
    BY <1>1
  <2> QED BY <1>1, <2>1 DEF HasTorn
<1> QED BY <1>4, <1>7, <1>8, <1>9 DEF g

\* The numbers up to k are listed in their order.
LEMMA NthOfAll ==
    ASSUME NEW k \in Nat
    PROVE  Cardinality(1..k) = k /\ \A n \in 1..k : Nth(1..k, n) = n
<1> DEFINE S == 1..k
           e == [n \in 1..k |-> n]
<1>1. /\ S \in SUBSET (1..k) /\ e \in [1..k -> S] /\ \A n \in 1..k : e[n] = n
  OBVIOUS
<1>2. \A m, n \in 1..k : m < n => e[m] < e[n]
  BY <1>1
<1>3. \A i \in S : \E n \in 1..k : e[n] = i
  BY <1>1
<1>4. Cardinality(S) = k /\ \A n \in 1..k : Nth(S, n) = e[n]
  <2> HIDE DEF e, S
  <2> QED BY <1>1, <1>2, <1>3, OnlyEnumeration, ZenonT(60)
<1> HIDE DEF e
<1> QED BY <1>1, <1>4

\* A journal of observations alone.
LEMMA NewFile ==
    ASSUME NEW s \in Seq(Observations), DistinctIds(s)
    PROVE  Clean(s) /\ ~HasTorn(s) /\ WaitingIn(s) = s /\ AckedIn(s) = <<>>
<1>1. Len(s) \in Nat /\ DOMAIN s = 1..Len(s)
      /\ \A i \in 1..Len(s) : s[i] \in Observations
  OBVIOUS
<1>2. \A o \in Observations : o \in Entries /\ o.kind = "obs" /\ AsObs(o) = o /\ o # Torn
  BY DEF Observations, Entries, AsObs, Torn
<1>3. \A i \in 1..Len(s) : /\ s[i] \in Entries /\ s[i].kind = "obs"
                           /\ AsObs(s[i]) = s[i] /\ s[i] # Torn
  BY <1>1, <1>2
<1>4. s \in Seq(Entries \cup {Torn})
  BY <1>1, <1>3
<1>5. Clean(s)
  BY <1>3, <1>4 DEF Clean, DistinctIds
<1>6. ~HasTorn(s)
  BY <1>3 DEF HasTorn
<1>7. AckPlaces(s) = {} /\ WaitPlaces(s) = 1..Len(s)
  BY <1>3 DEF AckPlaces, WaitPlaces, ObsPlaces
<1>8. AckedIn(s) = <<>>
  <2>1. Cardinality(AckPlaces(s)) = 0
    BY <1>7, FS_EmptySet
  <2>2. AckedIn(s) \in Seq(Observations) /\ Len(AckedIn(s)) = 0
    BY <1>5, <2>1, PlacesOf, PickedRecords DEF AckedIn
  <2> QED BY <2>2
<1>9. WaitingIn(s) = s
  <2>4. Cardinality(1..Len(s)) = Len(s) /\ \A n \in 1..Len(s) : Nth(1..Len(s), n) = n
    BY <1>1, NthOfAll
  <2>5. WaitingIn(s) = [n \in 1..Len(s) |-> AsObs(s[Nth(1..Len(s), n)])]
    BY <1>7, <2>4 DEF WaitingIn, Picked
  <2>6. \A n \in 1..Len(s) : AsObs(s[Nth(1..Len(s), n)]) = s[n]
    BY <1>3, <2>4
  <2>7. s = [n \in 1..Len(s) |-> s[n]]
    OBVIOUS
  <2> QED BY <2>5, <2>6, <2>7
<1> QED BY <1>5, <1>6, <1>8, <1>9

-------------------------------------------------------------------------------
(* The cursor *)

\* A set of numbers has a least one.
LEMMA LeastOf ==
    ASSUME NEW T \in SUBSET Nat, T # {}
    PROVE  \E m \in T : \A y \in T : m <= y
<1>1. PICK m \in T : \A y \in T : <<y, m>> \notin OpToRel(<, Nat)
  BY WFMin, NatLessThanWellFounded
<1>2. \A y \in T : ~(y < m)
  BY <1>1 DEF OpToRel
<1> QED BY <1>2

\* A set of numbers below a bound has a greatest one.
LEMMA GreatestOf ==
    ASSUME NEW n \in Nat, NEW S \in SUBSET (0..n), S # {}
    PROVE  Max(S) \in S /\ \A y \in S : y <= Max(S)
<1> DEFINE T == {n - x : x \in S}
<1>1. T \in SUBSET Nat /\ T # {}
  <2>1. \A x \in S : x \in 0..n
    OBVIOUS
  <2>2. \A x \in S : n - x \in Nat
    BY <2>1
  <2> QED BY <2>2
<1>2. PICK m \in T : \A y \in T : m <= y
  BY <1>1, LeastOf
<1>3. PICK x \in S : m = n - x
  BY <1>2
<1>4. \A y \in S : x >= y
  BY <1>2, <1>3
<1>5. \E z \in S : \A y \in S : z >= y
  BY <1>4
<1>6. Max(S) \in S /\ \A y \in S : Max(S) >= y
  BY <1>5 DEF Max
<1> QED BY <1>6

\* The cursor past a set of records: its own, or behind one of them that has a card.
LEMMA NextFacts ==
    ASSUME NEW s \in Sessions, NEW R \in SUBSET Observations
    PROVE  /\ NextOf(s, R) \in Nat /\ s.next <= NextOf(s, R) /\ NextOf(s, R) <= s.end
           /\ \/ NextOf(s, R) = s.next
              \/ \E r \in R : r.sid = s.sid /\ r.seq + 1 = NextOf(s, R)
           /\ \A r \in R : r.sid = s.sid /\ r.seq + 1 <= s.end => r.seq + 1 <= NextOf(s, R)
<1> DEFINE own == {q \in R : q.sid = s.sid}
           behind == {r.seq + 1 : r \in own} \cap 0..s.end
           S == {s.next} \cup behind
<1>1. s.next \in Nat /\ s.end \in Nat /\ s.next <= s.end
  BY DEF Sessions
<1>2. S \in SUBSET (0..s.end) /\ S # {}
  BY <1>1
<1>3. NextOf(s, R) = Max(S)
  BY DEF NextOf
<1>4. Max(S) \in S /\ \A y \in S : y <= Max(S)
  <2> HIDE DEF S
  <2> QED BY <1>1, <1>2, GreatestOf
<1>5. \A r \in R : r.seq + 1 \in Nat
  BY DEF Observations, Entries
<1>6. \A r \in R : r.sid = s.sid /\ r.seq + 1 <= s.end => r.seq + 1 \in S
  BY <1>1, <1>5
<1>7. Max(S) \in 0..s.end /\ s.next \in S
  BY <1>2, <1>4
<1>8. Max(S) = s.next \/ \E r \in R : r.sid = s.sid /\ r.seq + 1 = Max(S)
  BY <1>4
<1> HIDE DEF S
<1> QED BY <1>1, <1>3, <1>4, <1>6, <1>7, <1>8

\* The cursor is the number that is not passed and that a record brings.
LEMMA NextIs ==
    ASSUME NEW s \in Sessions, NEW R \in SUBSET Observations, NEW n \in Nat, s.next <= n,
           n = s.next \/ (n <= s.end /\ \E r \in R : r.sid = s.sid /\ r.seq + 1 = n),
           \A r \in R : r.sid = s.sid /\ r.seq + 1 <= s.end => r.seq + 1 <= n
    PROVE  NextOf(s, R) = n
<1> DEFINE m == NextOf(s, R)
<1>1. /\ m \in Nat /\ s.next <= m /\ m <= s.end
      /\ m = s.next \/ \E r \in R : r.sid = s.sid /\ r.seq + 1 = m
      /\ \A r \in R : r.sid = s.sid /\ r.seq + 1 <= s.end => r.seq + 1 <= m
  BY NextFacts
<1>2. s.next \in Nat /\ s.end \in Nat
  BY DEF Sessions
<1> HIDE DEF m
<1>3. m <= n
  BY <1>1, <1>2
<1>4. n <= m
  BY <1>1, <1>2
<1>5. m = n
  BY <1>1, <1>3, <1>4
<1> QED BY <1>5 DEF m

\* The snapshot moved past a set of records.
LEMMA MovedFacts ==
    ASSUME NEW s \in Sessions, NEW R \in SUBSET Observations
    PROVE  /\ Moved(s, R) \in Sessions
           /\ Moved(s, R).sid = s.sid /\ Moved(s, R).end = s.end
           /\ Moved(s, R).next = NextOf(s, R)
           /\ Moved(s, R) = s <=> NextOf(s, R) = s.next
           /\ Moved(Moved(s, R), R) = Moved(s, R)
<1> DEFINE t == Moved(s, R)
<1>1. /\ NextOf(s, R) \in Nat /\ s.next <= NextOf(s, R) /\ NextOf(s, R) <= s.end
      /\ \/ NextOf(s, R) = s.next
         \/ \E r \in R : r.sid = s.sid /\ r.seq + 1 = NextOf(s, R)
      /\ \A r \in R : r.sid = s.sid /\ r.seq + 1 <= s.end => r.seq + 1 <= NextOf(s, R)
  BY NextFacts
<1>2. t.sid = s.sid /\ t.end = s.end /\ t.next = NextOf(s, R) /\ t \in Sessions
  BY <1>1 DEF Moved, Sessions
<1>3. t = s <=> NextOf(s, R) = s.next
  BY DEF Moved, Sessions
<1>4. NextOf(t, R) = NextOf(s, R)
  <2> HIDE DEF t
  <2> QED BY <1>1, <1>2, NextIs
<1>5. Moved(t, R) = t
  <2>1. t = [t EXCEPT !.next = NextOf(s, R)]
    <3> HIDE DEF t
    <3>1. \A u \in Sessions : u = [u EXCEPT !.next = u.next]
      BY DEF Sessions
    <3> QED BY <1>2, <3>1
  <2> HIDE DEF t
  <2> QED BY <1>4, <2>1 DEF Moved
<1> QED BY <1>2, <1>3, <1>5

\* A snapshot that is past a set of records is past any of them.
LEMMA InPlace ==
    ASSUME NEW s \in Sessions, NEW R \in SUBSET Observations, NEW Q \in SUBSET R,
           Moved(s, R) = s
    PROVE  Moved(s, Q) = s
<1>1. NextOf(s, R) = s.next
  BY MovedFacts
<1>2. Q \in SUBSET Observations /\ s.next \in Nat
  BY DEF Sessions
<1>3. \A r \in Q : r.sid = s.sid /\ r.seq + 1 <= s.end => r.seq + 1 <= s.next
  BY <1>1, NextFacts
<1>4. NextOf(s, Q) = s.next
  BY <1>2, <1>3, NextIs
<1> QED BY <1>2, <1>4, MovedFacts

\* The elements of sequences.
LEMMA ElementsOf ==
    ASSUME NEW T, NEW a \in Seq(T), NEW b \in Seq(T), NEW x \in T
    PROVE  /\ Elements(a) \in SUBSET T
           /\ Elements(a \o b) = Elements(a) \cup Elements(b)
           /\ Elements(Append(a, x)) = Elements(a) \cup {x}
           /\ a # <<>> => /\ Head(a) \in Elements(a) /\ Tail(a) \in Seq(T)
                          /\ Elements(a) = {Head(a)} \cup Elements(Tail(a))
           /\ Elements(a) = {} <=> a = <<>>
           /\ Elements(a) = Range(a)
<1>1. Elements(a) \in SUBSET T
  BY DEF Elements
<1>2. Elements(a \o b) = Elements(a) \cup Elements(b)
  <2>1. Len(a \o b) = Len(a) + Len(b) /\ Len(a) \in Nat /\ Len(b) \in Nat
    OBVIOUS
  <2>2. \A i \in 1..Len(a) : i \in 1..Len(a) + Len(b) /\ (a \o b)[i] = a[i]
    OBVIOUS
  <2>3. \A i \in 1..Len(b) : Len(a) + i \in 1..Len(a) + Len(b) /\ (a \o b)[Len(a) + i] = b[i]
    OBVIOUS
  <2>4. \A i \in 1..Len(a) + Len(b) :
            (i \in 1..Len(a) /\ (a \o b)[i] = a[i])
            \/ (i - Len(a) \in 1..Len(b) /\ (a \o b)[i] = b[i - Len(a)])
    OBVIOUS
  <2>5. \A e \in Elements(a) \cup Elements(b) : e \in Elements(a \o b)
    BY <2>1, <2>2, <2>3 DEF Elements
  <2>6. \A e \in Elements(a \o b) : e \in Elements(a) \cup Elements(b)
    BY <2>1, <2>4 DEF Elements
  <2> QED BY <2>5, <2>6
<1>3. Elements(Append(a, x)) = Elements(a) \cup {x}
  <2>1. /\ Len(Append(a, x)) = Len(a) + 1 /\ Len(a) \in Nat
        /\ Append(a, x)[Len(a) + 1] = x
        /\ \A i \in 1..Len(a) : Append(a, x)[i] = a[i]
    OBVIOUS
  <2>2. 1..Len(a) + 1 = 1..Len(a) \cup {Len(a) + 1}
    BY <2>1
  <2> QED BY <2>1, <2>2 DEF Elements
<1>4. ASSUME a # <<>>
      PROVE  /\ Head(a) \in Elements(a) /\ Tail(a) \in Seq(T)
             /\ Elements(a) = {Head(a)} \cup Elements(Tail(a))
  <2>1. /\ Len(a) \in Nat \ {0} /\ Head(a) = a[1]
        /\ Tail(a) \in Seq(T) /\ Len(Tail(a)) = Len(a) - 1
        /\ \A i \in 1..Len(a) - 1 : Tail(a)[i] = a[i + 1]
    BY <1>4
  <2>2. \A i \in 1..Len(a) : i = 1 \/ (i - 1 \in 1..Len(a) - 1 /\ i = (i - 1) + 1)
    BY <2>1
  <2>3. 1 \in 1..Len(a) /\ \A i \in 1..Len(a) - 1 : i + 1 \in 1..Len(a)
    BY <2>1
  <2>4. \A e \in Elements(a) : e \in {Head(a)} \cup Elements(Tail(a))
    BY <2>1, <2>2 DEF Elements
  <2>5. \A e \in {Head(a)} \cup Elements(Tail(a)) : e \in Elements(a)
    BY <2>1, <2>3 DEF Elements
  <2>6. Elements(a) = {Head(a)} \cup Elements(Tail(a))
    BY <2>4, <2>5
  <2> QED BY <2>1, <2>5, <2>6
<1>5. Elements(a) = {} <=> a = <<>>
  <2>1. Len(a) \in Nat /\ (a = <<>> <=> Len(a) = 0)
    OBVIOUS
  <2>2. Len(a) # 0 => a[1] \in Elements(a)
    BY <2>1 DEF Elements
  <2>3. Len(a) = 0 => Elements(a) = {}
    BY DEF Elements
  <2> QED BY <2>1, <2>2, <2>3
<1>6. Elements(a) = Range(a)
  <2>1. DOMAIN a = 1..Len(a)
    OBVIOUS
  <2> QED BY <2>1 DEF Elements, Range
<1> QED BY <1>1, <1>2, <1>3, <1>4, <1>5, <1>6

\* The reconciliation of a snapshot moves it past the records of the scan.
LEMMA ReconcileIs ==
    ASSUME NEW s \in Sessions, NEW scan,
           scan.pending \in Seq(Observations), scan.acked \in Seq(Observations)
    PROVE  ReconcileSession(s, scan)
               = Moved(s, Elements(scan.acked) \cup Elements(scan.pending))
<1> DEFINE a == scan.acked
           p == scan.pending
           R == Elements(a) \cup Elements(p)
<1>1. a \in Seq(Observations) /\ p \in Seq(Observations)
  OBVIOUS
<1> HIDE DEF a, p
<1>2. a \o p \in Seq(Observations)
  BY <1>1
<1>3. Range(a \o p) = R
  <2>1. Elements(a \o p) = R
    <3>1. CASE a = <<>> /\ p = <<>>
      <4>1. Elements(<<>>) = {} /\ a \o p = <<>>
        BY <3>1 DEF Elements
      <4> QED BY <3>1, <4>1
    <3>2. CASE ~(a = <<>> /\ p = <<>>)
      <4>1. \E x : x \in Observations
        <5>1. a = <<>> \/ a[1] \in Observations
          BY <1>1
        <5>2. p = <<>> \/ p[1] \in Observations
          BY <1>1
        <5> QED BY <3>2, <5>1, <5>2
      <4> QED BY <1>1, <4>1, ElementsOf
    <3> QED BY <3>1, <3>2
  <2>2. DOMAIN (a \o p) = 1..Len(a \o p)
    BY <1>2
  <2> QED BY <2>1, <2>2 DEF Elements, Range
<1> HIDE DEF R
<1>4. ReconcileSession(s, scan)
          = [s EXCEPT !.next = Max({s.next} \cup ({r.seq + 1 : r \in {q \in R : q.sid = s.sid}}
                                                      \cap 0..s.end))]
  BY <1>3 DEF ReconcileSession, a, p
<1>5. ReconcileSession(s, scan) = Moved(s, R)
  BY <1>4 DEF Moved, NextOf
<1> QED BY <1>5 DEF R, a, p

-------------------------------------------------------------------------------
(* What follows from the invariant *)

\* A file that does not exist is none of what the files hold.
LEMMA NotAbsent ==
    /\ Absent \notin Sessions
    /\ Absent \notin Seq(Entries \cup {Torn})
    /\ Absent \notin Seq(Observations)
    /\ Absent \notin Seq(Nat)
<1> DEFINE X == [kind : {"obs", "ack", "torn"}, id : Nat, sid : Nat, seq : Nat]
<1>1. Absent \notin Seq(X) /\ Absent \notin Seq(Nat)
      /\ Absent \notin [sid : Nat, next : Nat, end : Nat]
  BY AbsentAssumption
<1>2. \A e \in Entries \cup {Torn} : e \in X
  BY DEF Entries, Torn
<1>3. \A e \in Observations : e \in Entries
  BY DEF Observations
<1> HIDE DEF X
<1>4. Seq(Entries \cup {Torn}) \subseteq Seq(X) /\ Seq(Observations) \subseteq Seq(X)
  BY <1>2, <1>3
<1>5. \A s \in Sessions : s \in [sid : Nat, next : Nat, end : Nat]
  BY DEF Sessions
<1> QED BY <1>1, <1>4, <1>5

\* An empty journal.
LEMMA EmptyJournal ==
    Clean(<<>>) /\ ~HasTorn(<<>>) /\ WaitingIn(<<>>) = <<>> /\ AckedIn(<<>>) = <<>>
<1>1. <<>> \in Seq(Observations) /\ DistinctIds(<<>>)
  BY DEF DistinctIds
<1> QED BY <1>1, NewFile

\* What the journal on disk holds.
LEMMA JournalFacts ==
    ASSUME DiskTyped, JournalSound
    PROVE  /\ Content \in Seq(Entries \cup {Torn}) /\ Clean(Content)
           /\ Waiting \in Seq(Observations) /\ DistinctIds(Waiting)
           /\ Acked \in Seq(Observations)
           /\ Len(Waiting) \in Nat /\ Len(Waiting) <= Capacity /\ Capacity \in Nat
           /\ Len(Acked) \in Nat
           /\ TornTail \in BOOLEAN /\ FromBackup \in BOOLEAN
           /\ Kept \in SUBSET Observations
           /\ Elements(Waiting) \in SUBSET Observations /\ Elements(Acked) \in SUBSET Observations
<1>1. Clean(Content) /\ Len(Waiting) <= Capacity
  BY DEF JournalSound
<1>2. /\ Waiting \in Seq(Observations) /\ DistinctIds(Waiting)
      /\ Acked \in Seq(Observations) /\ TornTail \in BOOLEAN
  BY <1>1, CleanLists DEF Waiting, Acked, TornTail
<1>3. FromBackup \in BOOLEAN
  BY DEF FromBackup
<1>4. Elements(Waiting) \in SUBSET Observations /\ Elements(Acked) \in SUBSET Observations
  BY <1>2 DEF Elements
<1>5. Content \in Seq(Entries \cup {Torn})
  BY <1>1 DEF Clean
<1>6. Capacity \in Nat
  BY CapacityAssumption
<1>7. Kept \in SUBSET Observations
  BY <1>4 DEF Kept
<1> QED BY <1>1, <1>2, <1>3, <1>4, <1>5, <1>6, <1>7

\* What a reboot reads of the journal.
LEMMA BootReads ==
    ASSUME DiskTyped, JournalSound
    PROVE  /\ BootScan = OutboxScan(Waiting, Acked, Len(Acked), TornTail, FromBackup)
           /\ BootScan # None
           /\ BootPending = Waiting
<1> DEFINE primary == disk.journal.primary
           backup == disk.journal.backup
<1>1. /\ disk.journal = [primary |-> primary, backup |-> backup]
      /\ primary \in Seq(Entries \cup {Torn}) \cup {Absent}
      /\ backup \in Seq(Entries \cup {Torn}) \cup {Absent}
  BY DEF DiskTyped, Pairs
<1>2. Clean(Content) /\ Len(WaitingIn(Content)) <= Capacity
  BY DEF JournalSound, Waiting
<1>3. ScanOutboxFile(Content)
          = OutboxScan(Waiting, Acked, Len(Acked), TornTail, FALSE)
  <2>1. ScanOutboxFile(Content) = ScanOf(Waiting, Acked, TornTail)
    BY <1>2, CleanScan DEF Waiting, Acked, TornTail
  <2> QED BY <2>1 DEF ScanOf
<1>4. ScanOutboxFile(Content) # None
  <2>1. "kind" \notin DOMAIN ScanOutboxFile(Content) /\ "kind" \in DOMAIN None
    BY <1>3 DEF OutboxScan, None
  <2> QED BY <2>1
<1>5. BootScan = OutboxScan(Waiting, Acked, Len(Acked), TornTail, FromBackup)
  <2>1. CASE primary # Absent
    <3>1. Content = primary /\ FromBackup = FALSE
      BY <2>1 DEF Content, ContentOf, FromBackup
    <3>2. ReadFile(primary) = ScanOutboxFile(Content)
      BY <2>1, <3>1 DEF ReadFile
    <3>3. BootScan = ScanOutboxFile(Content)
      BY <1>4, <3>2 DEF BootScan, ScanOutbox
    <3> QED BY <1>3, <3>1, <3>3
  <2>2. CASE primary = Absent /\ backup # Absent
    <3>1. Content = backup /\ FromBackup = TRUE
      BY <2>2 DEF Content, ContentOf, FromBackup
    <3>2. ReadFile(primary) = None /\ ReadFile(backup) = ScanOutboxFile(Content)
      BY <2>2, <3>1 DEF ReadFile
    <3>3. BootScan = Recovered(ScanOutboxFile(Content))
      BY <1>4, <3>2 DEF BootScan, ScanOutbox
    <3>4. Recovered(ScanOutboxFile(Content))
              = OutboxScan(Waiting, Acked, Len(Acked), TornTail, TRUE)
      <4> DEFINE sc == ScanOutboxFile(Content)
      <4>1. sc.pending = Waiting /\ sc.acked = Acked /\ sc.acks = Len(Acked)
            /\ sc.partialTail = TornTail
        BY <1>3 DEF OutboxScan
      <4> HIDE DEF sc
      <4>2. Recovered(sc) = OutboxScan(Waiting, Acked, Len(Acked), TornTail, TRUE)
        BY <4>1 DEF Recovered
      <4> QED BY <4>2 DEF sc
    <3> QED BY <3>1, <3>3, <3>4
  <2>3. CASE primary = Absent /\ backup = Absent
    <3>1. Content = <<>> /\ FromBackup = FALSE
      BY <2>3 DEF Content, ContentOf, FromBackup
    <3>2. ReadFile(primary) = None /\ ReadFile(backup) = None
      BY <2>3 DEF ReadFile
    <3>3. disk.journal = EmptyFile
      BY <1>1, <2>3 DEF EmptyFile
    <3>4. BootScan = EmptyScan
      BY <3>2, <3>3 DEF BootScan, ScanOutbox
    <3>5. Waiting = <<>> /\ Acked = <<>> /\ TornTail = FALSE
      BY <3>1, EmptyJournal DEF Waiting, Acked, TornTail, HasTorn
    <3>6. Len(Acked) = 0
      BY <3>5
    <3> QED BY <3>1, <3>4, <3>5, <3>6 DEF EmptyScan
  <2> QED BY <2>1, <2>2, <2>3
<1>6. BootScan # None
  <2>1. "kind" \notin DOMAIN BootScan /\ "kind" \in DOMAIN None
    BY <1>5 DEF OutboxScan, None
  <2> QED BY <2>1
<1>7. BootPending = Waiting
  <2>1. BootPending = BootScan.pending
    BY <1>6 DEF BootPending
  <2>2. BootScan.pending = Waiting
    BY <1>5 DEF OutboxScan
  <2> QED BY <2>1, <2>2
<1> QED BY <1>5, <1>6, <1>7

\* What a reboot reads of the session.
LEMMA SnapshotFacts ==
    ASSUME DiskTyped, JournalSound
    PROVE  /\ Snapshots \in SUBSET Sessions
           /\ Stored = Absent <=> Snapshots = {}
           /\ Stored = Absent => Boot = Absent
           /\ Stored # Absent =>
                  /\ Stored \in Snapshots /\ Stored \in Sessions
                  /\ Boot \in Sessions /\ Boot # Absent
                  /\ Boot.sid = Stored.sid /\ Boot.end = Stored.end
                  /\ Boot.next = NextOf(Stored, Kept)
                  /\ Boot = Stored <=> Boot.next = Stored.next
                  /\ Moved(Boot, Kept) = Boot
                  /\ NextOf(Boot, Kept) = Boot.next
           /\ BootSession = Boot
<1>1. /\ disk.session.primary \in Sessions \cup {Absent}
      /\ disk.session.backup \in Sessions \cup {Absent}
  BY DEF DiskTyped, Pairs
<1>2. Snapshots \in SUBSET Sessions
  BY <1>1 DEF Snapshots
<1>3. Stored = Absent <=> Snapshots = {}
  BY <1>1 DEF Stored, LoadSession, Snapshots
<1>4. Stored # Absent => Stored \in Snapshots
  BY DEF Stored, LoadSession, Snapshots
<1>5. Stored = Absent => Boot = Absent
  BY DEF Boot
<1>6. Kept \in SUBSET Observations
  BY JournalFacts
<1>7. ASSUME Stored # Absent
      PROVE  /\ Boot \in Sessions /\ Boot # Absent
             /\ Boot.sid = Stored.sid /\ Boot.end = Stored.end
             /\ Boot.next = NextOf(Stored, Kept)
             /\ Boot = Stored <=> Boot.next = Stored.next
             /\ Moved(Boot, Kept) = Boot
             /\ NextOf(Boot, Kept) = Boot.next
  <2>1. Stored \in Sessions /\ Boot = Moved(Stored, Kept)
    BY <1>2, <1>4, <1>7 DEF Boot
  <2>2. /\ Boot \in Sessions /\ Boot.sid = Stored.sid /\ Boot.end = Stored.end
        /\ Boot.next = NextOf(Stored, Kept)
        /\ Boot = Stored <=> NextOf(Stored, Kept) = Stored.next
        /\ Moved(Boot, Kept) = Boot
    BY <1>6, <2>1, MovedFacts
  <2>3. Boot # Absent
    BY <2>2, NotAbsent
  <2>4. NextOf(Boot, Kept) = Boot.next
    BY <1>6, <2>2, MovedFacts
  <2> QED BY <2>2, <2>3, <2>4
<1>8. BootSession = Boot
  <2>1. BootScan # None /\ BootScan = OutboxScan(Waiting, Acked, Len(Acked), TornTail, FromBackup)
    BY BootReads
  <2>2. CASE Stored = Absent
    BY <1>5, <2>2 DEF BootSession, Stored
  <2>3. CASE Stored # Absent
    <3>1. BootSession = ReconcileSession(Stored, BootScan)
      BY <2>1, <2>3 DEF BootSession, Stored
    <3>2. Stored \in Sessions /\ Waiting \in Seq(Observations) /\ Acked \in Seq(Observations)
      BY <1>2, <1>4, <2>3, JournalFacts
    <3>3. BootScan.pending = Waiting /\ BootScan.acked = Acked
      BY <2>1 DEF OutboxScan
    <3>4. ReconcileSession(Stored, BootScan)
              = Moved(Stored, Elements(BootScan.acked) \cup Elements(BootScan.pending))
      BY <3>2, <3>3, ReconcileIs
    <3> QED BY <2>3, <3>1, <3>3, <3>4 DEF Boot, Kept
  <2> QED BY <2>2, <2>3
<1> QED BY <1>2, <1>3, <1>4, <1>5, <1>7, <1>8

\* What is on disk depends on nothing else.
LEMMA DiskStays ==
    ASSUME disk' = disk
    PROVE  /\ Content' = Content /\ Waiting' = Waiting /\ Acked' = Acked
           /\ TornTail' = TornTail /\ FromBackup' = FromBackup /\ Kept' = Kept
           /\ Snapshots' = Snapshots /\ Stored' = Stored /\ Boot' = Boot
           /\ DiskTyped' <=> DiskTyped
           /\ JournalSound' <=> JournalSound
<1>1. Content' = Content
  BY DEF Content
<1>2. Waiting' = Waiting /\ Acked' = Acked /\ TornTail' = TornTail
  BY <1>1 DEF Waiting, Acked, TornTail
<1>3. Kept' = Kept
  BY <1>2 DEF Kept
<1>4. FromBackup' = FromBackup /\ Snapshots' = Snapshots /\ Stored' = Stored
  BY DEF FromBackup, Snapshots, Stored
<1>5. Boot' = Boot
  BY <1>3, <1>4 DEF Boot
<1>6. DiskTyped' <=> DiskTyped
  BY DEF DiskTyped
<1>7. JournalSound' <=> JournalSound
  BY <1>1, <1>2 DEF JournalSound
<1> QED BY <1>1, <1>2, <1>3, <1>4, <1>5, <1>6, <1>7

\* What is left to do depends on the plan alone.
LEMMA PlanStays ==
    ASSUME todo' = todo
    PROVE  /\ Left' = Left
           /\ AckLeft' <=> AckLeft
           /\ ObsLeft' <=> ObsLeft
           /\ JournalLeft' <=> JournalLeft
           /\ SessionLeft' <=> SessionLeft
           /\ Installing' <=> Installing
<1>1. Left' = Left
  BY DEF Left
<1> QED BY <1>1 DEF AckLeft, ObsLeft, JournalLeft, SessionLeft, Installing, Head1

\* A transaction that is over has nothing left to do.
LEMMA NothingLeft ==
    ASSUME todo = <<>>
    PROVE  /\ Left = {} /\ ~AckLeft /\ ~ObsLeft /\ ~JournalLeft /\ ~SessionLeft
           /\ ~Installing
           /\ \A a : Ends(a) <=> result = a
<1>1. Left = {}
  BY DEF Left, Elements
<1> QED BY <1>1 DEF AckLeft, ObsLeft, JournalLeft, SessionLeft, Installing, Ends

-------------------------------------------------------------------------------
(* The order of a plan *)

\* A part of a plan: complete replacements, of ranks between two bounds.
Piece(p, low, high) ==
    /\ p \in Seq(Steps)
    /\ Chained(p) /\ Increasing(p)
    /\ \A i \in 1..Len(p) : Rank(p[i]) \in Nat /\ low <= Rank(p[i]) /\ Rank(p[i]) < high
    /\ p # <<>> => /\ p[1].do \notin {"backup", "install", "create"}
                   /\ p[Len(p)].do \notin {"removeBackup", "backup", "removePrimary"}

\* The elements of a list of three.
LEMMA ThreeElements ==
    ASSUME NEW x, NEW y, NEW z
    PROVE  Elements(<<x, y, z>>) = {x, y, z}
<1>1. 1..3 = {1, 2, 3}
  OBVIOUS
<1>2. \A e : e \in Elements(<<x, y, z>>) <=> \E i \in {1, 2, 3} : e = <<x, y, z>>[i]
  BY <1>1 DEF Elements
<1>3. <<x, y, z>>[1] = x /\ <<x, y, z>>[2] = y /\ <<x, y, z>>[3] = z
  OBVIOUS
<1> QED BY <1>2, <1>3

\* Lists of one, two and three elements.
LEMMA ShortLists ==
    ASSUME NEW T, NEW x \in T, NEW y \in T, NEW z \in T
    PROVE  /\ <<x>> \in Seq(T) /\ Len(<<x>>) = 1 /\ <<x>>[1] = x /\ <<x>> # <<>>
           /\ <<x, y>> \in Seq(T) /\ Len(<<x, y>>) = 2 /\ <<x, y>>[1] = x
           /\ <<x, y>>[2] = y /\ <<x, y>> # <<>>
           /\ <<x, y, z>> \in Seq(T) /\ Len(<<x, y, z>>) = 3 /\ <<x, y, z>>[1] = x
           /\ <<x, y, z>>[2] = y /\ <<x, y, z>>[3] = z /\ <<x, y, z>> # <<>>
           /\ Elements(<<x>>) = {x} /\ Elements(<<x, y>>) = {x, y}
           /\ Elements(<<x, y, z>>) = {x, y, z}
           /\ Elements(<<>>) = {}
<1>1. 1..1 = {1} /\ 1..2 = {1, 2} /\ 1..3 = {1, 2, 3}
  OBVIOUS
<1>2. Elements(<<x>>) = {x}
  <2>1. \A e : e \in Elements(<<x>>) <=> \E i \in {1} : e = <<x>>[i]
    BY <1>1 DEF Elements
  <2>2. <<x>>[1] = x
    OBVIOUS
  <2> QED BY <2>1, <2>2
<1>3. Elements(<<x, y>>) = {x, y}
  <2>1. \A e : e \in Elements(<<x, y>>) <=> \E i \in {1, 2} : e = <<x, y>>[i]
    BY <1>1 DEF Elements
  <2>2. <<x, y>>[1] = x /\ <<x, y>>[2] = y
    OBVIOUS
  <2> QED BY <2>1, <2>2
<1>4. Elements(<<x, y, z>>) = {x, y, z}
  BY ThreeElements
<1>5. Elements(<<>>) = {}
  BY DEF Elements
<1> QED BY <1>2, <1>3, <1>4, <1>5

\* The ranks of the steps.
LEMMA Ranks ==
    ASSUME NEW x \in Steps
    PROVE  /\ Rank(x) \in Nat /\ Rank(x) <= 40
           /\ x.do = "return" <=> Rank(x) = 40
           /\ x.do = "append" => AckAppend(x) \/ ObsAppend(x)
           /\ AckAppend(x) <=> Rank(x) = 9
           /\ ObsAppend(x) <=> Rank(x) = 30
           /\ x.file = "rejected" <=> Rank(x) < 9
           /\ x.file = "session" <=> 10 <= Rank(x) /\ Rank(x) < 20
           /\ x.do # "append" /\ x.file = "journal" <=> 20 <= Rank(x) /\ Rank(x) < 30
           /\ JournalInstall(x) => 20 <= Rank(x) /\ Rank(x) < 30
           /\ SessionInstall(x) => 10 <= Rank(x) /\ Rank(x) < 20
<1>1. x.do = "append" => x.data.kind \in {"obs", "ack"} /\ x.file = "journal"
  BY DEF Steps, Entries
<1>2. x.do = "return" <=> x.file = "none"
  BY DEF Steps, Files
<1>3. x.file \in {"none", "rejected", "session", "journal"}
  BY DEF Steps, Files
<1>4. x.file = "none" \/ FirstOf(x.file) \in {0, 10, 20}
  BY DEF FirstOf
<1>5. /\ x.file = "rejected" => FirstOf(x.file) = 0
      /\ x.file = "session" => FirstOf(x.file) = 10
      /\ x.file = "journal" => FirstOf(x.file) = 20
  BY DEF FirstOf
<1>6. Place(x.do) \in 1..7
  BY DEF Place
<1>7. AckAppend(x) => ~ObsAppend(x)
  BY DEF AckAppend, ObsAppend
<1>8. /\ x.do = "return" => Rank(x) = 40
      /\ x.do # "return" /\ AckAppend(x) => Rank(x) = 9
      /\ x.do # "return" /\ ~AckAppend(x) /\ ObsAppend(x) => Rank(x) = 30
      /\ x.do # "return" /\ ~AckAppend(x) /\ ~ObsAppend(x)
             => Rank(x) = FirstOf(x.file) + Place(x.do)
  BY DEF Rank, AckAppend, ObsAppend
<1>9. AckAppend(x) \/ ObsAppend(x) <=> x.do = "append"
  BY <1>1 DEF AckAppend, ObsAppend
<1>10. CASE x.do = "return"
  BY <1>1, <1>2, <1>8, <1>9, <1>10 DEF JournalInstall, SessionInstall
<1>11. CASE x.do = "append"
  BY <1>1, <1>2, <1>7, <1>8, <1>9, <1>11 DEF JournalInstall, SessionInstall
<1>12. CASE x.do \notin {"return", "append"}
  BY <1>2, <1>3, <1>4, <1>5, <1>6, <1>8, <1>9, <1>12 DEF JournalInstall, SessionInstall
<1> QED BY <1>10, <1>11, <1>12

\* Two parts of a plan make one.
LEMMA Joined ==
    ASSUME NEW low \in Nat, NEW mid \in Nat, NEW high \in Nat, low <= mid, mid <= high,
           NEW p, NEW q, Piece(p, low, mid), Piece(q, mid, high)
    PROVE  Piece(p \o q, low, high) /\ Elements(p \o q) = Elements(p) \cup Elements(q)
<1> DEFINE r == p \o q
           m == Len(p)
           n == Len(q)
<1>1. p \in Seq(Steps) /\ q \in Seq(Steps) /\ m \in Nat /\ n \in Nat
  BY DEF Piece
<1>2. /\ r \in Seq(Steps) /\ Len(r) = m + n
      /\ \A i \in 1..m : r[i] = p[i]
      /\ \A i \in 1..m + n : i \in 1..m \/ (i - m \in 1..n /\ m < i /\ r[i] = q[i - m])
  BY <1>1
<1> HIDE DEF r, m, n
<1>3. /\ \A i \in 1..m : Rank(p[i]) \in Nat /\ low <= Rank(p[i]) /\ Rank(p[i]) < mid
      /\ \A i \in 1..n : Rank(q[i]) \in Nat /\ mid <= Rank(q[i]) /\ Rank(q[i]) < high
  BY DEF Piece, m, n
<1>4. \A i \in 1..m + n : Rank(r[i]) \in Nat /\ low <= Rank(r[i]) /\ Rank(r[i]) < high
  BY <1>2, <1>3
<1>5. Increasing(r)
  <2> SUFFICES ASSUME NEW j \in 1..m + n, NEW k \in 1..m + n, j < k
               PROVE  Rank(r[j]) < Rank(r[k])
    BY <1>2 DEF Increasing
  <2>1. \A i, l \in 1..m : i < l => Rank(p[i]) < Rank(p[l])
    BY DEF Piece, Increasing, m
  <2>2. \A i, l \in 1..n : i < l => Rank(q[i]) < Rank(q[l])
    BY DEF Piece, Increasing, n
  <2>3. CASE k \in 1..m
    <3>1. j \in 1..m
      BY <1>1, <2>3
    <3> QED BY <1>2, <2>1, <2>3, <3>1
  <2>4. CASE j \in 1..m /\ k \notin 1..m
    BY <1>2, <1>3, <2>4
  <2>5. CASE j \notin 1..m /\ k \notin 1..m
    <3>1. j - m \in 1..n /\ k - m \in 1..n /\ j - m < k - m
          /\ r[j] = q[j - m] /\ r[k] = q[k - m]
      BY <1>1, <1>2, <2>5
    <3> QED BY <2>2, <3>1
  <2> QED BY <2>3, <2>4, <2>5
<1>6. Chained(r)
  <2>0. Len(r) - 1 = m + n - 1
    BY <1>1, <1>2
  <2> SUFFICES ASSUME NEW k \in 1..m + n - 1
               PROVE  Follows(r[k], r[k + 1])
    BY <2>0 DEF Chained
  <2>1. CASE k + 1 \in 1..m
    <3>1. k \in 1..m - 1 /\ k \in 1..m
      BY <1>1, <2>1
    <3>2. Follows(p[k], p[k + 1])
      BY <3>1 DEF Piece, Chained, m
    <3> QED BY <1>2, <2>1, <3>1, <3>2
  <2>2. CASE k = m
    <3>1. m \in 1..m /\ 1 \in 1..n /\ r[k] = p[m] /\ r[k + 1] = q[1]
      <4>1. m + 1 \in 1..m + n /\ m + 1 \notin 1..m /\ (m + 1) - m = 1 /\ m \in 1..m
        BY <1>1, <2>2
      <4> QED BY <1>2, <2>2, <4>1
    <3>2. p # <<>> /\ q # <<>>
      BY <3>1 DEF m, n
    <3>3. /\ p[m].do \notin {"removeBackup", "backup", "removePrimary"}
          /\ q[1].do \notin {"backup", "install", "create"}
      BY <3>2 DEF Piece, m
    <3> QED BY <3>1, <3>3 DEF Follows
  <2>3. CASE m < k
    <3>1. k \in 1..m + n /\ k + 1 \in 1..m + n /\ k \notin 1..m /\ k + 1 \notin 1..m
          /\ k - m \in 1..n - 1 /\ (k + 1) - m = (k - m) + 1
      BY <1>1, <2>3
    <3>2. r[k] = q[k - m] /\ r[k + 1] = q[(k - m) + 1]
      BY <1>2, <3>1
    <3>3. Follows(q[k - m], q[(k - m) + 1])
      BY <3>1 DEF Piece, Chained, n
    <3> QED BY <3>2, <3>3
  <2> QED BY <1>1, <2>1, <2>2, <2>3
<1>7. r # <<>> => /\ r[1].do \notin {"backup", "install", "create"}
                  /\ r[m + n].do \notin {"removeBackup", "backup", "removePrimary"}
  <2>1. CASE m = 0 /\ n = 0
    BY <1>2, <2>1
  <2>2. CASE m = 0 /\ n # 0
    <3>1. r[1] = q[1] /\ r[m + n] = q[n]
      <4>1. 1 \in 1..m + n /\ m + n \in 1..m + n /\ 1 \notin 1..m /\ m + n \notin 1..m
            /\ 1 - m = 1 /\ (m + n) - m = n
        BY <1>1, <2>2
      <4> QED BY <1>2, <4>1
    <3>2. q # <<>>
      BY <2>2 DEF n
    <3> QED BY <3>1, <3>2 DEF Piece, n
  <2>3. CASE m # 0 /\ n = 0
    <3>1. r[1] = p[1] /\ r[m + n] = p[m]
      <4>1. 1 \in 1..m /\ m \in 1..m /\ m + n = m
        BY <1>1, <2>3
      <4> QED BY <1>2, <4>1
    <3>2. p # <<>>
      BY <2>3 DEF m
    <3> QED BY <3>1, <3>2 DEF Piece, m
  <2>4. CASE m # 0 /\ n # 0
    <3>1. r[1] = p[1] /\ r[m + n] = q[n]
      <4>1. 1 \in 1..m /\ m + n \in 1..m + n /\ m + n \notin 1..m /\ (m + n) - m = n
        BY <1>1, <2>4
      <4> QED BY <1>2, <4>1
    <3>2. p # <<>> /\ q # <<>>
      BY <2>4 DEF m, n
    <3> QED BY <3>1, <3>2 DEF Piece, m, n
  <2> QED BY <2>1, <2>2, <2>3, <2>4
<1>8. Piece(r, low, high)
  BY <1>2, <1>4, <1>5, <1>6, <1>7 DEF Piece
<1>9. Elements(r) = Elements(p) \cup Elements(q)
  <2>1. \A a, b \in Seq(Steps) : Elements(a \o b) = Elements(a) \cup Elements(b)
    <3> SUFFICES ASSUME NEW a \in Seq(Steps), NEW b \in Seq(Steps)
                 PROVE  Elements(a \o b) = Elements(a) \cup Elements(b)
      OBVIOUS
    <3>1. Refuse("ok")[1] \in Steps
      BY DEF Refuse, Do, Steps, Answers
    <3> QED BY <3>1, ElementsOf
  <2> QED BY <1>1, <2>1 DEF r
<1> QED BY <1>8, <1>9 DEF r

\* Nothing to do, and one step of its own.
LEMMA OneStep ==
    ASSUME NEW x \in Steps, NEW low \in Nat, NEW high \in Nat,
           low <= Rank(x), Rank(x) < high,
           x.do \notin {"backup", "install", "create", "removeBackup", "removePrimary"}
    PROVE  Piece(<<x>>, low, high) /\ Piece(<<>>, low, high) /\ Elements(<<x>>) = {x}
           /\ Elements(<<>>) = {}
<1>1. <<x>> \in Seq(Steps) /\ Len(<<x>>) = 1 /\ <<x>>[1] = x /\ Elements(<<x>>) = {x}
  BY ShortLists
<1>2. Rank(x) \in Nat
  BY Ranks
<1>3. \A i \in 1..1 : i = 1
  OBVIOUS
<1>4. Increasing(<<x>>) /\ Chained(<<x>>)
  BY <1>1, <1>3 DEF Increasing, Chained
<1>5. Piece(<<x>>, low, high)
  BY <1>1, <1>2, <1>3, <1>4 DEF Piece
<1>6. Piece(<<>>, low, high)
  BY DEF Piece, Increasing, Chained
<1> QED BY <1>1, <1>5, <1>6 DEF Elements

\* A file found only in its backup is written as the primary again.
LEMMA RecoverPiece ==
    ASSUME NEW file \in {"journal", "session"}, NEW data, Do("create", file, data) \in Steps
    PROVE  LET p == <<Do("removePrimary", file, Absent), Do("create", file, data)>>
           IN  /\ Piece(p, FirstOf(file), FirstOf(file) + 3)
               /\ Elements(p) = {Do("removePrimary", file, Absent), Do("create", file, data)}
<1> DEFINE x == Do("removePrimary", file, Absent)
           y == Do("create", file, data)
           p == <<x, y>>
<1>1. x \in Steps /\ y \in Steps
  BY DEF Do, Steps
<1>2. /\ x.do = "removePrimary" /\ x.file = file
      /\ y.do = "create" /\ y.file = file
  BY DEF Do
<1>3. Rank(x) = FirstOf(file) + 1 /\ Rank(y) = FirstOf(file) + 2
  BY <1>2 DEF Rank, AckAppend, ObsAppend, Place
<1>4. FirstOf(file) \in Nat
  BY DEF FirstOf
<1> HIDE DEF x, y
<1>5. p \in Seq(Steps) /\ Len(p) = 2 /\ p[1] = x /\ p[2] = y /\ Elements(p) = {x, y}
  BY <1>1, ShortLists
<1> HIDE DEF p
<1>6. \A i \in 1..2 : i = 1 \/ i = 2
  OBVIOUS
<1>7. Increasing(p)
  BY <1>3, <1>4, <1>5, <1>6 DEF Increasing
<1>8. Chained(p)
  <2>1. Follows(x, y)
    BY <1>2 DEF Follows
  <2>2. \A k \in 1..Len(p) - 1 : k = 1 /\ k + 1 = 2
    BY <1>5
  <2> QED BY <1>5, <2>1, <2>2 DEF Chained
<1>9. Piece(p, FirstOf(file), FirstOf(file) + 3)
  <2>1. \A i \in 1..Len(p) : Rank(p[i]) \in Nat /\ FirstOf(file) <= Rank(p[i])
                             /\ Rank(p[i]) < FirstOf(file) + 3
    BY <1>3, <1>4, <1>5, <1>6
  <2> QED BY <1>2, <1>5, <1>7, <1>8, <2>1 DEF Piece
<1> QED BY <1>5, <1>9 DEF p, x, y

\* A file is replaced and its old content kept as the backup.
LEMMA ReplacePiece ==
    ASSUME NEW file \in Files, NEW data, Do("install", file, data) \in Steps
    PROVE  LET p == <<Do("removeBackup", file, Absent), Do("backup", file, Absent),
                      Do("install", file, data)>>
           IN  /\ Piece(p, FirstOf(file) + 3, FirstOf(file) + 6)
               /\ Elements(p) = {Do("removeBackup", file, Absent), Do("backup", file, Absent),
                                 Do("install", file, data)}
<1> DEFINE x == Do("removeBackup", file, Absent)
           y == Do("backup", file, Absent)
           z == Do("install", file, data)
           p == <<x, y, z>>
<1>1. x \in Steps /\ y \in Steps /\ z \in Steps
  BY DEF Do, Steps
<1>2. /\ x.do = "removeBackup" /\ x.file = file
      /\ y.do = "backup" /\ y.file = file
      /\ z.do = "install" /\ z.file = file
  BY DEF Do
<1>3. /\ Rank(x) = FirstOf(file) + 3 /\ Rank(y) = FirstOf(file) + 4
      /\ Rank(z) = FirstOf(file) + 5
  BY <1>2 DEF Rank, AckAppend, ObsAppend, Place
<1>4. FirstOf(file) \in Nat
  BY DEF FirstOf, Files
<1> HIDE DEF x, y, z
<1>5. /\ p \in Seq(Steps) /\ Len(p) = 3 /\ p[1] = x /\ p[2] = y /\ p[3] = z
      /\ Elements(p) = {x, y, z}
  <2>1. p \in Seq(Steps) /\ Len(p) = 3 /\ p[1] = x /\ p[2] = y /\ p[3] = z
    BY <1>1
  <2>2. Elements(<<x, y, z>>) = {x, y, z}
    BY ThreeElements
  <2> QED BY <2>1, <2>2
<1> HIDE DEF p
<1>6. \A i \in 1..3 : i = 1 \/ i = 2 \/ i = 3
  OBVIOUS
<1>7. Increasing(p)
  BY <1>3, <1>4, <1>5, <1>6 DEF Increasing
<1>8. Chained(p)
  <2>1. Follows(x, y) /\ Follows(y, z)
    BY <1>2 DEF Follows
  <2>2. \A k \in 1..Len(p) - 1 : (k = 1 /\ k + 1 = 2) \/ (k = 2 /\ k + 1 = 3)
    BY <1>5
  <2> QED BY <1>5, <2>1, <2>2 DEF Chained
<1>9. Piece(p, FirstOf(file) + 3, FirstOf(file) + 6)
  <2>1. \A i \in 1..Len(p) : Rank(p[i]) \in Nat /\ FirstOf(file) + 3 <= Rank(p[i])
                             /\ Rank(p[i]) < FirstOf(file) + 6
    BY <1>3, <1>4, <1>5, <1>6
  <2> QED BY <1>2, <1>5, <1>7, <1>8, <2>1 DEF Piece
<1> QED BY <1>5, <1>9 DEF p, x, y, z

\* A part of a plan and the answer make a plan.
LEMMA Complete ==
    ASSUME NEW p, Piece(p, 0, 31), NEW answer \in Answers
    PROVE  /\ Planned(p \o Refuse(answer)) /\ p \o Refuse(answer) # <<>>
           /\ Elements(p \o Refuse(answer)) = Elements(p) \cup {Do("return", "none", answer)}
           /\ \A x \in Elements(p) : x \in Steps /\ Rank(x) < 31 /\ x.do # "return"
           /\ p # <<>> => Head(p \o Refuse(answer)) = p[1]
           /\ p = <<>> => Head(p \o Refuse(answer)) = Do("return", "none", answer)
<1> DEFINE e == Do("return", "none", answer)
           q == Refuse(answer)
           t == p \o q
<1>1. e \in Steps /\ e.do = "return" /\ Rank(e) = 40
  <2>1. e \in Steps /\ e.do = "return"
    BY DEF Do, Steps
  <2> QED BY <2>1, Ranks
<1>2. q = <<e>>
  BY DEF Refuse
<1> HIDE DEF e, q
<1>3. Piece(q, 31, 41) /\ Elements(q) = {e} /\ q \in Seq(Steps) /\ Len(q) = 1 /\ q[1] = e
  BY <1>1, <1>2, OneStep, ShortLists
<1>4. Piece(t, 0, 41) /\ Elements(t) = Elements(p) \cup {e}
  BY <1>3, Joined
<1>5. p \in Seq(Steps) /\ Len(p) \in Nat
  BY DEF Piece
<1>6. Len(t) = Len(p) + 1 /\ t[Len(t)] = e /\ t # <<>> /\ t \in Seq(Steps)
  <2>0. q \in Seq(Steps) /\ Len(q) = 1
    BY <1>3
  <2>1. /\ t \in Seq(Steps) /\ Len(t) = Len(p) + Len(q)
        /\ \A i \in 1..Len(p) + Len(q) :
               t[i] = IF i <= Len(p) THEN p[i] ELSE q[i - Len(p)]
    BY <1>5, <2>0, ConcatProperties
  <2> HIDE DEF t
  <2>2. t[Len(p) + 1] = q[1]
    <3>1. Len(p) + 1 \in 1..Len(p) + Len(q) /\ ~(Len(p) + 1 <= Len(p)) /\ (Len(p) + 1) - Len(p) = 1
      BY <1>5, <2>0
    <3> QED BY <2>1, <3>1
  <2>3. Len(t) = Len(p) + 1 /\ t[Len(t)] = e
    BY <1>3, <2>1, <2>2
  <2>4. t # <<>>
    BY <1>5, <2>1, <2>3
  <2> QED BY <2>1, <2>3, <2>4
<1>7. Planned(t)
  BY <1>1, <1>4, <1>6 DEF Planned, Piece
<1>8. \A x \in Elements(p) : x \in Steps /\ Rank(x) < 31 /\ x.do # "return"
  <2> SUFFICES ASSUME NEW i \in 1..Len(p)
               PROVE  p[i] \in Steps /\ Rank(p[i]) < 31 /\ p[i].do # "return"
    BY DEF Elements
  <2>1. p[i] \in Steps /\ Rank(p[i]) < 31
    BY <1>5 DEF Piece
  <2>2. Rank(p[i]) # 40
    BY <2>1
  <2> QED BY <2>1, <2>2, Ranks
<1>9. p # <<>> => Head(t) = p[1]
  <2> SUFFICES ASSUME p # <<>>
               PROVE  Head(t) = p[1]
    OBVIOUS
  <2>1. Len(p) # 0 /\ Head(t) = t[1]
    BY <1>5, <1>6
  <2> QED BY <1>3, <1>5, <2>1
<1>10. p = <<>> => Head(t) = e
  BY <1>3
<1> QED BY <1>4, <1>6, <1>7, <1>8, <1>9, <1>10 DEF e, t, q

\* A scan that finds the records of the journal on disk.
SameJournal(scan) ==
    /\ scan = OutboxScan(scan.pending, scan.acked, scan.acks, scan.partialTail,
                         scan.fromBackup)
    /\ scan.pending \in Seq(Observations) /\ scan.acked \in Seq(Observations)
    /\ Elements(scan.acked) \cup Elements(scan.pending) = Kept

\* The bounds of a part may be wider.
LEMMA Wider ==
    ASSUME NEW p, NEW low \in Nat, NEW high \in Nat, NEW lower \in Nat, NEW higher \in Nat,
           Piece(p, low, high), lower <= low, high <= higher
    PROVE  Piece(p, lower, higher)
<1>1. \A i \in 1..Len(p) : Rank(p[i]) \in Nat /\ lower <= Rank(p[i]) /\ Rank(p[i]) < higher
  BY DEF Piece
<1> QED BY <1>1 DEF Piece

\* The sessions are moved past the records of the journal.
LEMMA CheckpointPlan ==
    ASSUME DiskTyped, JournalSound, NEW scan, SameJournal(scan)
    PROVE  LET c == CheckpointSessions(scan)
           IN  /\ Piece(c, 10, 20)
               /\ \A x \in Elements(c) :
                      /\ x \in Steps /\ x.file = "session"
                      /\ x.do \in {"removePrimary", "create", "removeBackup", "backup",
                                   "install"}
                      /\ x.do = "removePrimary" => disk.session.primary = Absent
                      /\ SessionInstall(x) =>
                             /\ Stored # Absent
                             /\ x.data = Boot \/ (x.data = Stored /\ x.do = "create")
               /\ Stored = Boot \/ \E x \in Elements(c) : SessionInstall(x) /\ x.data = Boot
               /\ \/ disk.session.primary # Absent \/ Stored = Absent
                  \/ \E x \in Elements(c) : SessionInstall(x)
<1> DEFINE r == RecoverSession
           v == SaveReconciled(scan)
           c == CheckpointSessions(scan)
           good(x) == /\ x \in Steps /\ x.file = "session"
                      /\ x.do \in {"removePrimary", "create", "removeBackup", "backup",
                                   "install"}
                      /\ x.do = "removePrimary" => disk.session.primary = Absent
                      /\ SessionInstall(x) =>
                             /\ Stored # Absent
                             /\ x.data = Boot \/ (x.data = Stored /\ x.do = "create")
<1>1. /\ disk.session.primary \in Sessions \cup {Absent}
      /\ disk.session.backup \in Sessions \cup {Absent}
  BY DEF DiskTyped, Pairs
<1>2. FirstOf("session") = 10
  BY DEF FirstOf
<1>3. /\ Piece(r, 10, 13)
      /\ \A x \in Elements(r) : good(x)
      /\ \/ disk.session.primary # Absent \/ Stored = Absent
         \/ \E x \in Elements(r) : SessionInstall(x)
  <2>1. CASE disk.session.primary = Absent /\ disk.session.backup # Absent
    <3> DEFINE x == Do("removePrimary", "session", Absent)
               y == Do("create", "session", disk.session.backup)
    <3>1. r = <<x, y>>
      BY <2>1 DEF RecoverSession, Replace
    <3>2. y \in Steps /\ x \in Steps
      BY <1>1, <2>1 DEF Do, Steps
    <3>3. Piece(<<x, y>>, 10, 13) /\ Elements(<<x, y>>) = {x, y}
      <4>1. FirstOf("session") + 3 = 13
        BY <1>2
      <4> QED BY <1>2, <3>2, <4>1, RecoverPiece
    <3>4. Stored = disk.session.backup /\ Stored # Absent
      BY <2>1 DEF Stored, LoadSession
    <3>5. good(x) /\ good(y) /\ SessionInstall(y)
      BY <2>1, <3>2, <3>4 DEF SessionInstall, Do
    <3> QED BY <3>1, <3>3, <3>5
  <2>2. CASE ~(disk.session.primary = Absent /\ disk.session.backup # Absent)
    <3>1. r = <<>>
      BY <2>2 DEF RecoverSession
    <3>2. Piece(<<>>, 10, 13) /\ Elements(<<>>) = {}
      BY DEF Piece, Increasing, Chained, Elements
    <3>3. disk.session.primary # Absent \/ Stored = Absent
      BY <2>2 DEF Stored, LoadSession
    <3> QED BY <3>1, <3>2, <3>3
  <2> QED BY <2>1, <2>2
<1>4. Stored # Absent => ReconcileSession(Stored, scan) = Boot /\ Boot \in Sessions
  <2> SUFFICES ASSUME Stored # Absent
               PROVE  ReconcileSession(Stored, scan) = Boot /\ Boot \in Sessions
    OBVIOUS
  <2>1. Stored \in Sessions /\ Boot \in Sessions
    BY SnapshotFacts
  <2>2. scan.pending \in Seq(Observations) /\ scan.acked \in Seq(Observations)
    BY DEF SameJournal
  <2>3. ReconcileSession(Stored, scan)
            = Moved(Stored, Elements(scan.acked) \cup Elements(scan.pending))
    BY <2>1, <2>2, ReconcileIs
  <2>4. ReconcileSession(Stored, scan) = Moved(Stored, Kept)
    BY <2>3 DEF SameJournal
  <2> QED BY <2>1, <2>4 DEF Boot
<1>5. /\ Piece(v, 13, 20)
      /\ \A x \in Elements(v) : good(x)
      /\ Stored = Boot \/ \E x \in Elements(v) : SessionInstall(x) /\ x.data = Boot
  <2>1. CASE Stored # Absent /\ Boot # Stored
    <3> DEFINE x == Do("removeBackup", "session", Absent)
               y == Do("backup", "session", Absent)
               z == Do("install", "session", Boot)
    <3>1. v = <<x, y, z>>
      BY <1>4, <2>1 DEF SaveReconciled, Replace, Stored
    <3>2. x \in Steps /\ y \in Steps /\ z \in Steps
      BY <1>4, <2>1 DEF Do, Steps, Files
    <3>3. Piece(<<x, y, z>>, 13, 20) /\ Elements(<<x, y, z>>) = {x, y, z}
      <4>1. Piece(<<x, y, z>>, FirstOf("session") + 3, FirstOf("session") + 6)
            /\ Elements(<<x, y, z>>) = {x, y, z}
        BY <3>2, ReplacePiece DEF Files
      <4>2. FirstOf("session") + 3 = 13 /\ FirstOf("session") + 6 = 16
        BY <1>2
      <4>3. Piece(<<x, y, z>>, 13, 16)
        BY <4>1, <4>2
      <4> HIDE DEF x, y, z
      <4>4. Piece(<<x, y, z>>, 13, 20)
        BY <4>3, Wider
      <4> QED BY <4>1, <4>4
    <3>4. good(x) /\ good(y) /\ good(z) /\ SessionInstall(z) /\ z.data = Boot
      BY <2>1, <3>2 DEF SessionInstall, Do
    <3> QED BY <3>1, <3>3, <3>4
  <2>2. CASE ~(Stored # Absent /\ Boot # Stored)
    <3>1. v = <<>>
      BY <1>4, <2>2 DEF SaveReconciled, Stored
    <3>2. Piece(<<>>, 13, 20) /\ Elements(<<>>) = {}
      BY DEF Piece, Increasing, Chained, Elements
    <3>3. Stored = Boot
      BY <2>2, SnapshotFacts
    <3> QED BY <3>1, <3>2, <3>3
  <2> QED BY <2>1, <2>2
<1>6. c = r \o v
  BY DEF CheckpointSessions
<1> HIDE DEF r, v, c, good
<1>7. Piece(c, 10, 20) /\ Elements(c) = Elements(r) \cup Elements(v)
  BY <1>3, <1>5, <1>6, Joined
<1>8. /\ \A x \in Elements(c) : good(x)
      /\ Stored = Boot \/ \E x \in Elements(c) : SessionInstall(x) /\ x.data = Boot
      /\ \/ disk.session.primary # Absent \/ Stored = Absent
         \/ \E x \in Elements(c) : SessionInstall(x)
  BY <1>3, <1>5, <1>7
<1> QED BY <1>7, <1>8 DEF c, good

\* The journal is replaced by the records that wait.
LEMMA CompactPlan ==
    ASSUME NEW scan, scan.pending \in Seq(Observations)
    PROVE  LET c == CompactCached(scan)
           IN  /\ Piece(c, 20, 30)
               /\ \A x \in Elements(c) :
                      /\ x \in Steps /\ x.file = "journal"
                      /\ x.do \in {"removePrimary", "create", "removeBackup", "backup",
                                   "install"}
                      /\ x.do = "removePrimary" => scan.fromBackup
                      /\ JournalInstall(x) => x.data = scan.pending
               /\ \E x \in Elements(c) : JournalInstall(x)
<1> DEFINE c == CompactCached(scan)
           good(x) == /\ x \in Steps /\ x.file = "journal"
                      /\ x.do \in {"removePrimary", "create", "removeBackup", "backup",
                                   "install"}
                      /\ x.do = "removePrimary" => scan.fromBackup
                      /\ JournalInstall(x) => x.data = scan.pending
<1>1. FirstOf("journal") = 20
  BY DEF FirstOf
<1>2. CASE scan.fromBackup
  <2> DEFINE x == Do("removePrimary", "journal", Absent)
             y == Do("create", "journal", scan.pending)
  <2>1. c = <<x, y>>
    BY <1>2 DEF CompactCached, Replace
  <2>2. x \in Steps /\ y \in Steps
    BY DEF Do, Steps
  <2>3. Piece(<<x, y>>, 20, 30) /\ Elements(<<x, y>>) = {x, y}
    <3>1. Piece(<<x, y>>, FirstOf("journal"), FirstOf("journal") + 3)
          /\ Elements(<<x, y>>) = {x, y}
      BY <2>2, RecoverPiece
    <3>2. FirstOf("journal") + 3 = 23
      BY <1>1
    <3>3. Piece(<<x, y>>, 20, 23)
      BY <1>1, <3>1, <3>2
    <3> HIDE DEF x, y
    <3>4. Piece(<<x, y>>, 20, 30)
      BY <3>3, Wider
    <3> QED BY <3>1, <3>4
  <2>4. good(x) /\ good(y) /\ JournalInstall(y)
    BY <1>2, <2>2 DEF JournalInstall, Do
  <2> QED BY <2>1, <2>3, <2>4
<1>3. CASE ~scan.fromBackup
  <2> DEFINE x == Do("removeBackup", "journal", Absent)
             y == Do("backup", "journal", Absent)
             z == Do("install", "journal", scan.pending)
  <2>1. c = <<x, y, z>>
    BY <1>3 DEF CompactCached, Replace
  <2>2. x \in Steps /\ y \in Steps /\ z \in Steps
    BY DEF Do, Steps, Files
  <2>3. Piece(<<x, y, z>>, 20, 30) /\ Elements(<<x, y, z>>) = {x, y, z}
    <3>1. Piece(<<x, y, z>>, FirstOf("journal") + 3, FirstOf("journal") + 6)
          /\ Elements(<<x, y, z>>) = {x, y, z}
      BY <2>2, ReplacePiece DEF Files
    <3>2. FirstOf("journal") + 3 = 23 /\ FirstOf("journal") + 6 = 26
      BY <1>1
    <3>3. Piece(<<x, y, z>>, 23, 26)
      BY <3>1, <3>2
    <3> HIDE DEF x, y, z
    <3>4. Piece(<<x, y, z>>, 20, 30)
      BY <3>3, Wider
    <3> QED BY <3>1, <3>4
  <2>4. good(x) /\ good(y) /\ good(z) /\ JournalInstall(z)
    BY <2>2 DEF JournalInstall, Do
  <2> QED BY <2>1, <2>3, <2>4
<1> QED BY <1>2, <1>3

\* A record is copied to the quarantine.
LEMMA RejectedPlan ==
    ASSUME DiskTyped, NEW record \in Observations
    PROVE  LET c == RejectPlan(record)
           IN  /\ Piece(c, 0, 9)
               /\ \A x \in Elements(c) :
                      x \in Steps /\ x.file = "rejected"
                      /\ x.do \notin {"removePrimary", "append", "return"}
<1> DEFINE old == IF disk.rejected.primary = Absent THEN <<>> ELSE disk.rejected.primary
           keep == IF Len(old) < RejectedCapacity THEN old
                   ELSE SubSeq(old, Len(old) - RejectedCapacity + 2, Len(old))
           data == Append(keep, record.id)
           x == Do("removeBackup", "rejected", Absent)
           y == Do("backup", "rejected", Absent)
           z == Do("install", "rejected", data)
           e == Do("eraseBackup", "rejected", Absent)
           p == <<x, y, z>>
           q == IF disk.rejected.primary = Absent THEN <<>> ELSE <<e>>
<1>1. old \in Seq(Nat)
  BY DEF DiskTyped, Pairs
<1> HIDE DEF old
<1>2. keep \in Seq(Nat)
  <2>1. RejectedCapacity \in Nat \ {0}
    BY CapacityAssumption
  <2>2. ASSUME ~(Len(old) < RejectedCapacity)
        PROVE  SubSeq(old, Len(old) - RejectedCapacity + 2, Len(old)) \in Seq(Nat)
    <3>1. Len(old) \in Nat /\ Len(old) - RejectedCapacity + 2 \in Nat \ {0}
      BY <1>1, <2>1, <2>2
    <3>2. \A i \in Len(old) - RejectedCapacity + 2 .. Len(old) : i \in 1..Len(old)
      BY <3>1
    <3>3. \A i \in Len(old) - RejectedCapacity + 2 .. Len(old) : old[i] \in Nat
      BY <1>1, <3>2
    <3> QED BY <1>1, <3>1, <3>3, SubSeqProperties
  <2> QED BY <1>1, <2>2
<1>3. record.id \in Nat
  BY DEF Observations, Entries
<1> HIDE DEF keep
<1>4. data \in Seq(Nat)
  BY <1>2, <1>3
<1> HIDE DEF data
<1>5. x \in Steps /\ y \in Steps /\ z \in Steps /\ e \in Steps
  BY <1>4 DEF Do, Steps, Files
<1>6. RejectPlan(record) = p \o q
  BY DEF RejectPlan, Replace, data, keep, old
<1>7. FirstOf("rejected") = 0
  BY DEF FirstOf
<1>8. Piece(p, 3, 6) /\ Elements(p) = {x, y, z}
  <2>1. Piece(p, FirstOf("rejected") + 3, FirstOf("rejected") + 6) /\ Elements(p) = {x, y, z}
    BY <1>5, ReplacePiece DEF Files
  <2>2. FirstOf("rejected") + 3 = 3 /\ FirstOf("rejected") + 6 = 6
    BY <1>7
  <2> QED BY <2>1, <2>2
<1>9. \A s \in {x, y, z, e} : s.file = "rejected"
                             /\ s.do \notin {"removePrimary", "append", "return"}
  BY DEF Do
<1>10. Piece(q, 6, 9) /\ Elements(q) \in SUBSET {e}
  <2>1. e.do = "eraseBackup" /\ Rank(e) = 6
    BY <1>7 DEF Do, Rank, AckAppend, ObsAppend, Place
  <2> HIDE DEF e
  <2>2. Piece(<<e>>, 6, 9) /\ Piece(<<>>, 6, 9) /\ Elements(<<e>>) = {e} /\ Elements(<<>>) = {}
    BY <1>5, <2>1, OneStep
  <2> QED BY <2>2
<1> HIDE DEF x, y, z, e, p, q
<1>11. Piece(p \o q, 3, 9) /\ Elements(p \o q) = Elements(p) \cup Elements(q)
  BY <1>8, <1>10, Joined
<1>12. Piece(p \o q, 0, 9)
  BY <1>11, Wider
<1>13. \A s \in Elements(p \o q) : s \in {x, y, z, e}
  BY <1>8, <1>10, <1>11
<1> QED BY <1>5, <1>6, <1>9, <1>12, <1>13

-------------------------------------------------------------------------------
(* Steps that leave the files alone *)

\* Nothing in the store changes.
LEMMA StoreStays ==
    ASSUME WordInv, UNCHANGED storeVars
    PROVE  /\ DiskTyped' /\ PlanShape' /\ JournalInv'
           /\ disk' = disk /\ cache' = cache /\ op' = op /\ todo' = todo /\ result' = result
           /\ Content' = Content /\ Waiting' = Waiting /\ Acked' = Acked /\ Kept' = Kept
           /\ Snapshots' = Snapshots /\ Stored' = Stored /\ Boot' = Boot
           /\ Left' = Left
           /\ AckLeft' <=> AckLeft
           /\ ObsLeft' <=> ObsLeft
           /\ JournalLeft' <=> JournalLeft
           /\ SessionLeft' <=> SessionLeft
           /\ Repaired' <=> Repaired
           /\ WillBeMoved' <=> WillBeMoved
           /\ \A a : Ends(a)' <=> Ends(a)
<1>1. disk' = disk /\ cache' = cache /\ op' = op /\ todo' = todo /\ result' = result
  BY DEF storeVars
<1>2. /\ Content' = Content /\ Waiting' = Waiting /\ Acked' = Acked
      /\ TornTail' = TornTail /\ FromBackup' = FromBackup /\ Kept' = Kept
      /\ Snapshots' = Snapshots /\ Stored' = Stored /\ Boot' = Boot
      /\ DiskTyped' <=> DiskTyped
      /\ JournalSound' <=> JournalSound
  BY <1>1, DiskStays
<1>3. /\ Left' = Left
      /\ AckLeft' <=> AckLeft
      /\ ObsLeft' <=> ObsLeft
      /\ JournalLeft' <=> JournalLeft
      /\ SessionLeft' <=> SessionLeft
      /\ Installing' <=> Installing
  BY <1>1, PlanStays
<1>4. \A a : Ends(a)' <=> Ends(a)
  BY <1>1, <1>3 DEF Ends
<1>5. PlanShape'
  <2>1. PlanShape
    BY DEF WordInv
  <2> QED BY <1>1, <1>3, <2>1 DEF PlanShape, Head1, Slot
<1>6. Repaired' <=> Repaired
  BY <1>1 DEF Repaired
<1>7. CacheSound'
  <2>1. CacheSound
    BY DEF WordInv, JournalInv
  <2> QED BY <1>1, <1>2, <1>3, <2>1 DEF CacheSound
<1>8. JournalPlan'
  <2>1. JournalPlan
    BY DEF WordInv, JournalInv
  <2>2. Target' = Target
    BY <1>2, <1>3 DEF Target
  <2> QED BY <1>1, <1>2, <1>3, <1>4, <1>6, <2>1, <2>2 DEF JournalPlan
<1>9. WillBeMoved' <=> WillBeMoved
  BY <1>2, <1>3 DEF WillBeMoved
<1>10. DiskTyped' /\ JournalSound'
  BY <1>2 DEF WordInv, Typed, JournalInv
<1> QED BY <1>1, <1>2, <1>3, <1>4, <1>5, <1>6, <1>7, <1>8, <1>9, <1>10 DEF JournalInv

\* The server has the same numbers and the same records wait.
LEMMA SameNumbers ==
    ASSUME server' = server, Waiting' = Waiting
    PROVE  /\ \A sid, m, w : Brought(sid, m, w)' <=> Brought(sid, m, w)
           /\ \A s : Covered(s)' <=> Covered(s)
           /\ Judged' = Judged
<1>1. \A sid, m, w : Brought(sid, m, w)' <=> Brought(sid, m, w)
  BY DEF Brought
<1>2. \A s : Covered(s)' <=> Covered(s)
  BY DEF Covered, Brought
<1> QED BY <1>1, <1>2 DEF Judged

\* What the records and the session say stays true while they stay.
LEMMA DataStays ==
    ASSUME PageSound, RecordsFit, NumbersSound, NoGap, Verdicts,
           Waiting' = Waiting, Acked' = Acked, Stored' = Stored,
           Snapshots' \in SUBSET Snapshots,
           ui' = ui, server' = server, created' = created, recorded' = recorded,
           dropped' = dropped,
           Committed' <=> Committed, op'.kind = "commit" /\ Committed => op.kind = "commit"
    PROVE  PageSound' /\ RecordsFit' /\ NumbersSound' /\ NoGap' /\ Verdicts'
<1>1. Kept' = Kept
  BY DEF Kept
<1>2. Boot' = Boot
  BY <1>1 DEF Boot
<1>3. PageSound'
  BY <1>2 DEF PageSound
<1>4. RecordsFit'
  BY <1>1 DEF RecordsFit
<1>5. NumbersSound'
  BY <1>1, <1>2 DEF NumbersSound, SequenceRecordedOnce
<1>6. NoGap'
  <2>1. /\ \A sid, m, w : Brought(sid, m, w)' <=> Brought(sid, m, w)
        /\ \A s : Covered(s)' <=> Covered(s)
    BY SameNumbers
  <2>3. Gapless(Waiting)'
    <3>1. Gapless(Waiting)
      BY DEF NoGap
    <3> QED BY <3>1 DEF Gapless, Brought
  <2>4. \A s \in Snapshots' : Covered(s)'
    BY <2>1 DEF NoGap
  <2>5. ui'.session # NoSession => Covered(ui.session)'
    BY <2>1 DEF NoGap, Covered, Brought
  <2>6. Committed' => Brought(ui.session.sid, ui.session.next, Elements(Waiting))'
    BY DEF NoGap, Brought
  <2> QED BY <2>3, <2>4, <2>5, <2>6 DEF NoGap
<1>7. Verdicts'
  BY <1>1 DEF Verdicts, Judged
<1> QED BY <1>3, <1>4, <1>5, <1>6, <1>7

\* The page changes while no transaction of its own runs.
LEMMA UiFacts ==
    ASSUME WordInv, UNCHANGED storeVars, uploader' = uploader, server' = server,
           ui.state \in {"ready", "failed", "committing", "saved", "unsaved"},
           ui'.state \in {"ready", "failed", "committing", "saved", "unsaved", "off"}
    PROVE  /\ op.kind \notin {"load", "save", "clear", "commit"}
           /\ DiskTyped' /\ UploaderTyped' /\ OpTyped'
           /\ PlanShape' /\ JournalInv' /\ SessionPlan' /\ HeadHeld'
           /\ Content' = Content /\ Waiting' = Waiting /\ Acked' = Acked /\ Kept' = Kept
           /\ Snapshots' = Snapshots /\ Stored' = Stored /\ Boot' = Boot
           /\ Committed <=> ui.state = "saved"
           /\ Committed' <=> ui'.state = "saved"
<1>1. /\ DiskTyped' /\ PlanShape' /\ JournalInv'
      /\ disk' = disk /\ cache' = cache /\ op' = op /\ todo' = todo /\ result' = result
      /\ Content' = Content /\ Waiting' = Waiting /\ Acked' = Acked /\ Kept' = Kept
      /\ Snapshots' = Snapshots /\ Stored' = Stored /\ Boot' = Boot
      /\ Left' = Left
      /\ AckLeft' <=> AckLeft
      /\ ObsLeft' <=> ObsLeft
      /\ JournalLeft' <=> JournalLeft
      /\ SessionLeft' <=> SessionLeft
      /\ Repaired' <=> Repaired
      /\ WillBeMoved' <=> WillBeMoved
      /\ \A a : Ends(a)' <=> Ends(a)
  BY StoreStays
<1>2. OpTyped /\ UploaderTyped
  BY DEF WordInv, Typed
<1>3. op.kind \notin {"load", "save", "clear", "commit"}
  BY <1>2 DEF OpTyped
<1>4. UploaderTyped'
  BY <1>2 DEF UploaderTyped
<1>5. OpTyped'
  BY <1>1, <1>2, <1>3 DEF OpTyped
<1>6. (Committed <=> ui.state = "saved") /\ (Committed' <=> ui'.state = "saved")
  BY <1>1, <1>3 DEF Committed
<1>7. SessionPlan'
  <2>1. SessionPlan
    BY DEF WordInv, SessionInv
  <2> QED BY <1>1, <1>3, <2>1 DEF SessionPlan
<1>8. HeadHeld'
  <2>1. HeadHeld
    BY DEF WordInv, UploadInv
  <2>2. (Holding' <=> Holding) /\ Judged' = Judged
    BY <1>1 DEF Holding, Judged
  <2> QED BY <1>1, <2>1, <2>2 DEF HeadHeld
<1> QED BY <1>1, <1>3, <1>4, <1>5, <1>6, <1>7, <1>8

\* What the page needs of the invariant, and what it shows again.
LEMMA UiKeeps ==
    ASSUME WordInv, UNCHANGED storeVars, uploader' = uploader, server' = server,
           ui.state \in {"ready", "failed", "committing", "saved", "unsaved"},
           ui'.state \in {"ready", "failed", "committing", "saved", "unsaved", "off"},
           recorded' = recorded, dropped' = dropped,
           UiTyped', CountsTyped', PageSound',
           \A o \in recorded : ui'.state # "off" /\ ui'.session.sid \notin dropped
                                   /\ o.sid = ui'.session.sid =>
               o.seq < ui'.session.next \/ (ui'.state = "saved" /\ o = ui'.obs),
           created.ids <= created'.ids, created'.sids = created.sids,
           ui'.session # NoSession => Covered(ui.session)',
           ui'.state = "saved" => ui.state = "saved" /\ ui'.session = ui.session,
           ui'.state \in WithObs /\ ui'.state # "saved" =>
               ui'.obs.id \notin Judged /\ \A r \in Kept : r.id # ui'.obs.id
    PROVE  WordInv'
<1>1. /\ op.kind \notin {"load", "save", "clear", "commit"}
      /\ DiskTyped' /\ UploaderTyped' /\ OpTyped'
      /\ PlanShape' /\ JournalInv' /\ SessionPlan' /\ HeadHeld'
      /\ Content' = Content /\ Waiting' = Waiting /\ Acked' = Acked /\ Kept' = Kept
      /\ Snapshots' = Snapshots /\ Stored' = Stored /\ Boot' = Boot
      /\ Committed <=> ui.state = "saved"
      /\ Committed' <=> ui'.state = "saved"
  BY UiFacts
<1>2. op' = op
  BY DEF storeVars
<1>3. RecordsFit /\ NumbersSound /\ NoGap /\ Verdicts
  BY DEF WordInv, SessionInv, UploadInv
<1>4. RecordsFit'
  BY <1>1, <1>3 DEF RecordsFit
<1>5. created.ids \in Nat /\ created'.ids \in Nat /\ created.sids \in Nat
  BY DEF WordInv, Typed, CountsTyped
<1>6. Kept \in SUBSET Observations /\ recorded \in SUBSET Observations
  BY JournalFacts DEF WordInv, Typed, JournalInv, CountsTyped
<1>7. NumbersSound'
  <2>1. \A o \in recorded' : o.sid \notin dropped' =>
            Stored' # Absent /\ Stored'.sid = o.sid /\ o.seq < Boot'.next
    BY <1>1, <1>3 DEF NumbersSound
  <2>2. ui'.state \in PageStates /\ ui'.session.sid \notin dropped' =>
            \A o \in recorded' : o.sid = ui'.session.sid =>
                o.seq < ui'.session.next \/ (ui'.state = "saved" /\ o = ui'.obs)
    BY DEF PageStates
  <2>3. \A r \in Kept' \cup recorded' : r.id <= created'.ids /\ r.sid <= created'.sids
    <3>1. \A r \in Kept \cup recorded : r.id <= created.ids /\ r.sid <= created.sids
      BY <1>3 DEF NumbersSound
    <3>2. \A r \in Kept \cup recorded : r.id \in Nat
      BY <1>6 DEF Observations, Entries
    <3> QED BY <1>1, <1>5, <3>1, <3>2
  <2>4. \A s \in Snapshots' : s.sid <= created'.sids
    BY <1>1, <1>3 DEF NumbersSound
  <2>5. SequenceRecordedOnce'
    BY <1>3 DEF NumbersSound, SequenceRecordedOnce
  <2> QED BY <2>1, <2>2, <2>3, <2>4, <2>5 DEF NumbersSound
<1>8. NoGap'
  <2>1. /\ \A sid, m, w : Brought(sid, m, w)' <=> Brought(sid, m, w)
        /\ \A s : Covered(s)' <=> Covered(s)
    BY <1>1, SameNumbers
  <2>2. Gapless(Waiting)'
    <3>1. Gapless(Waiting)
      BY <1>3 DEF NoGap
    <3> QED BY <1>1, <3>1 DEF Gapless, Brought
  <2>3. \A s \in Snapshots' : Covered(s)'
    BY <1>1, <1>3, <2>1 DEF NoGap
  <2>4. Committed' => Brought(ui.session.sid, ui.session.next, Elements(Waiting))'
    BY <1>1, <1>3 DEF NoGap, Brought
  <2> QED BY <2>2, <2>3, <2>4 DEF NoGap
<1>9. Verdicts'
  <2>1. Judged' = Judged
    BY DEF Judged
  <2> QED BY <1>1, <1>2, <1>3, <2>1 DEF Verdicts
<1> QED BY <1>1, <1>4, <1>7, <1>8, <1>9 DEF WordInv, Typed, SessionInv, UploadInv

\* The user answers a card.
LEMMA AnswerKeeps ==
    ASSUME WordInv, Answer
    PROVE  WordInv'
<1> DEFINE id == created.ids + 1
           obs == Obs(id, ui.session.sid, ui.session.next)
<1>1. /\ ui.state = "ready" /\ ui.session.next < ui.session.end /\ created.ids < MaxIds
      /\ ui' = [ui EXCEPT !.state = "committing", !.obs = obs]
      /\ created' = [created EXCEPT !.ids = id]
      /\ UNCHANGED storeVars /\ uploader' = uploader /\ server' = server
      /\ recorded' = recorded /\ dropped' = dropped
  BY DEF Answer
<1>2. UiTyped /\ CountsTyped /\ PageSound /\ NumbersSound /\ NoGap
  BY DEF WordInv, Typed, SessionInv, UploadInv
<1>3. ui.session \in Sessions /\ ui.obs = None
  BY <1>1, <1>2 DEF UiTyped, PageStates, WithObs
<1>4. /\ ui'.state = "committing" /\ ui'.session = ui.session /\ ui'.obs = obs
      /\ ui' \in [state : {"committing"}, session : {ui.session}, obs : {obs}]
  BY <1>1, <1>2 DEF UiTyped
<1>5. created \in [ids : 0..MaxIds, sids : 0..MaxSessions] /\ MaxIds \in Nat
      /\ MaxSessions \in Nat
  BY <1>2, BoundAssumption DEF CountsTyped
<1>6. /\ created'.ids = id /\ created'.sids = created.sids
      /\ created' \in [ids : 0..MaxIds, sids : 0..MaxSessions]
  BY <1>1, <1>5
<1>7. /\ ui.session.sid \in 1..MaxSessions /\ ui.session.next \in Nat
      /\ ui.session.end \in Nat /\ (ui.session.end <= MaxIds \/ ui.session.end = 1)
  BY <1>3 DEF Sessions
<1>8. obs \in Observations /\ obs.id = id /\ obs.sid = ui.session.sid
      /\ obs.seq = ui.session.next
  <2>1. id \in 1..MaxIds /\ ui.session.next \in 0..MaxIds - 1
    BY <1>1, <1>5, <1>7
  <2> QED BY <1>7, <2>1 DEF Obs, Observations, Entries
<1> HIDE DEF obs
<1>9. UiTyped'
  <2>1. ui' \in [state : PageStates \cup {"off", "loading", "starting", "clearing"},
                 session : Sessions \cup {NoSession}, obs : Observations \cup {None}]
    BY <1>3, <1>4, <1>8 DEF PageStates
  <2>2. ui.session.sid <= created.sids
    BY <1>2 DEF UiTyped
  <2>3. ui'.obs.id <= created'.ids
    BY <1>4, <1>5, <1>6, <1>8
  <2> QED BY <1>1, <1>3, <1>4, <1>6, <1>8, <2>1, <2>2, <2>3 DEF UiTyped, PageStates, WithObs
<1>10. CountsTyped'
  <2>1. 1..created.ids \subseteq 1..created'.ids
    BY <1>5, <1>6
  <2>2. Judged' = Judged
    BY <1>1 DEF Judged
  <2> QED BY <1>1, <1>2, <1>6, <2>1, <2>2 DEF CountsTyped
<1>11. op.kind \notin {"load", "save", "clear", "commit"}
       /\ (Committed <=> ui.state = "saved") /\ (Committed' <=> ui'.state = "saved")
       /\ Stored' = Stored /\ Boot' = Boot
  BY <1>1, <1>4, UiFacts
<1>12. PageSound'
  BY <1>1, <1>2, <1>4, <1>11 DEF PageSound, PageStates
<1>13. \A o \in recorded : ui'.state # "off" /\ ui'.session.sid \notin dropped
                               /\ o.sid = ui'.session.sid =>
           o.seq < ui'.session.next \/ (ui'.state = "saved" /\ o = ui'.obs)
  BY <1>1, <1>2, <1>4 DEF NumbersSound, PageStates
<1>14. Covered(ui.session)'
  <2>1. Covered(ui.session)
    <3>1. ui.session # NoSession
      BY <1>7 DEF NoSession, Session
    <3> QED BY <1>2, <3>1 DEF NoGap
  <2>2. Waiting' = Waiting
    BY <1>1, <1>4, UiFacts
  <2> QED BY <1>1, <1>4, <2>1, <2>2 DEF Covered, Brought
<1>15. obs.id \notin Judged /\ \A r \in Kept : r.id # obs.id
  <2>1. Judged \subseteq 1..created.ids
    BY <1>2 DEF CountsTyped
  <2>2. \A r \in Kept : r.id <= created.ids
    BY <1>2 DEF NumbersSound
  <2> QED BY <1>5, <1>8, <2>1, <2>2
<1>16. created.ids <= created'.ids
  BY <1>5, <1>6
<1> QED BY <1>1, <1>4, <1>6, <1>9, <1>10, <1>12, <1>13, <1>14, <1>15, <1>16, UiKeeps

\* The same observation is sent again, or the page is left.
LEMMA RetryKeeps ==
    ASSUME WordInv, Retry \/ LeavePage
    PROVE  WordInv'
<1>1. /\ ui.state \in {"ready", "failed"}
      /\ \/ ui.state = "failed" /\ ui' = [ui EXCEPT !.state = "committing"]
         \/ ui' = UiOff
      /\ UNCHANGED storeVars /\ uploader' = uploader /\ server' = server
      /\ created' = created /\ recorded' = recorded /\ dropped' = dropped
  BY DEF Retry, LeavePage
<1>2. UiTyped /\ CountsTyped /\ PageSound /\ NumbersSound /\ NoGap /\ Verdicts
  BY DEF WordInv, Typed, SessionInv, UploadInv
<1>3. \/ /\ ui.state = "failed" /\ ui'.state = "committing"
         /\ ui'.session = ui.session /\ ui'.obs = ui.obs
         /\ ui' \in [state : {"committing"}, session : {ui.session}, obs : {ui.obs}]
      \/ /\ ui'.state = "off" /\ ui'.session = NoSession /\ ui'.obs = None
         /\ ui' \in [state : {"off"}, session : {NoSession}, obs : {None}]
  BY <1>1, <1>2 DEF UiTyped, UiOff
<1>4. created \in [ids : 0..MaxIds, sids : 0..MaxSessions]
  BY <1>2 DEF CountsTyped
<1>5. UiTyped'
  <2>1. CASE ui'.state = "committing"
    BY <1>1, <1>2, <1>3, <2>1 DEF UiTyped, PageStates, WithObs
  <2>2. CASE ui'.state = "off"
    <3>1. NoSession.sid = 0
      BY DEF NoSession, Session
    <3> QED BY <1>1, <1>3, <1>4, <2>2, <3>1 DEF UiTyped, PageStates, WithObs
  <2> QED BY <1>3, <2>1, <2>2
<1>6. CountsTyped'
  BY <1>1, <1>2 DEF CountsTyped, Judged
<1>7. (Committed <=> ui.state = "saved") /\ (Committed' <=> ui'.state = "saved")
      /\ Stored' = Stored /\ Boot' = Boot /\ Waiting' = Waiting
  BY <1>1, <1>3, UiFacts
<1>8. PageSound'
  BY <1>1, <1>2, <1>3, <1>7 DEF PageSound, PageStates
<1>9. \A o \in recorded : ui'.state # "off" /\ ui'.session.sid \notin dropped
                              /\ o.sid = ui'.session.sid =>
          o.seq < ui'.session.next \/ (ui'.state = "saved" /\ o = ui'.obs)
  BY <1>1, <1>2, <1>3 DEF NumbersSound, PageStates
<1>10. ui'.session # NoSession => Covered(ui.session)'
  BY <1>1, <1>2, <1>3, <1>7 DEF NoGap, Covered, Brought
<1>11. ui'.state \in WithObs /\ ui'.state # "saved" =>
           ui'.obs.id \notin Judged /\ \A r \in Kept : r.id # ui'.obs.id
  BY <1>1, <1>2, <1>3, <1>7 DEF Verdicts, WithObs
<1>12. created.ids <= created'.ids /\ created'.sids = created.sids
  BY <1>1, <1>4
<1>13. ui'.state \in {"committing", "off"}
  BY <1>3
<1> QED BY <1>1, <1>5, <1>6, <1>8, <1>9, <1>10, <1>11, <1>12, <1>13, UiKeeps

\* The page takes the result of a commit.
LEMMA ApplyCommitResultKeeps ==
    ASSUME WordInv, ApplyCommitResult
    PROVE  WordInv'
<1>1. /\ ui.state \in {"saved", "unsaved"}
      /\ ui' = IF ui.state = "saved"
               THEN [ui EXCEPT !.state = "ready", !.session.next = ui.obs.seq + 1, !.obs = None]
               ELSE [ui EXCEPT !.state = "failed"]
      /\ UNCHANGED storeVars /\ uploader' = uploader /\ server' = server
      /\ created' = created /\ recorded' = recorded /\ dropped' = dropped
  BY DEF ApplyCommitResult
<1>2. UiTyped /\ CountsTyped /\ PageSound /\ NumbersSound /\ NoGap /\ Verdicts
  BY DEF WordInv, Typed, SessionInv, UploadInv
<1>3. /\ ui.session \in Sessions /\ ui.obs \in Observations /\ ui.obs.seq = ui.session.next
      /\ ui.obs.sid = ui.session.sid /\ ui.obs.seq < ui.session.end
      /\ ui.session.sid <= created.sids
  BY <1>1, <1>2 DEF UiTyped, PageStates, WithObs
<1>4. /\ ui.session.next \in Nat /\ ui.session.end \in Nat /\ ui.session.sid \in 1..MaxSessions
      /\ ui.session = [sid |-> ui.session.sid, next |-> ui.session.next, end |-> ui.session.end]
  BY <1>3 DEF Sessions
<1> DEFINE s == [ui.session EXCEPT !.next = ui.obs.seq + 1]
<1>5. s.sid = ui.session.sid /\ s.end = ui.session.end /\ s.next = ui.session.next + 1
      /\ s \in Sessions
  BY <1>3, <1>4 DEF Sessions
<1>6. ui = [state |-> ui.state, session |-> ui.session, obs |-> ui.obs]
  BY <1>2 DEF UiTyped
<1>7. ui.state = "saved" => /\ ui'.state = "ready" /\ ui'.session = s /\ ui'.obs = None
                            /\ ui' \in [state : {"ready"}, session : {s}, obs : {None}]
  BY <1>1, <1>6
<1>8. ui.state = "unsaved" =>
          /\ ui'.state = "failed" /\ ui'.session = ui.session /\ ui'.obs = ui.obs
          /\ ui' \in [state : {"failed"}, session : {ui.session}, obs : {ui.obs}]
  BY <1>1, <1>6
<1> HIDE DEF s
<1>9. UiTyped'
  <2>1. CASE ui.state = "saved"
    <3>1. ui' \in [state : PageStates \cup {"off", "loading", "starting", "clearing"},
                   session : Sessions \cup {NoSession}, obs : Observations \cup {None}]
      BY <1>5, <1>7, <2>1 DEF PageStates
    <3> QED BY <1>1, <1>3, <1>5, <1>7, <2>1, <3>1 DEF UiTyped, PageStates, WithObs
  <2>2. CASE ui.state = "unsaved"
    BY <1>1, <1>2, <1>8, <2>2 DEF UiTyped, PageStates, WithObs
  <2> QED BY <1>1, <2>1, <2>2
<1>10. CountsTyped'
  BY <1>1, <1>2 DEF CountsTyped, Judged
<1>11. (Committed <=> ui.state = "saved") /\ (Committed' <=> ui'.state = "saved")
       /\ Stored' = Stored /\ Boot' = Boot /\ Waiting' = Waiting
  BY <1>1, <1>7, <1>8, UiFacts
<1>12. PageSound'
  <2>1. CASE ui.state = "saved"
    BY <1>1, <1>2, <1>5, <1>7, <1>11, <2>1 DEF PageSound, PageStates
  <2>2. CASE ui.state = "unsaved"
    BY <1>1, <1>2, <1>8, <1>11, <2>2 DEF PageSound, PageStates
  <2> QED BY <1>1, <2>1, <2>2
<1>13. \A o \in recorded : ui'.state # "off" /\ ui'.session.sid \notin dropped
                               /\ o.sid = ui'.session.sid =>
           o.seq < ui'.session.next \/ (ui'.state = "saved" /\ o = ui'.obs)
  <2>1. CASE ui.state = "saved"
    <3> SUFFICES ASSUME NEW o \in recorded, ui.session.sid \notin dropped,
                        o.sid = ui.session.sid
                 PROVE  o.seq < ui.session.next + 1
      BY <1>5, <1>7, <2>1
    <3>1. o.seq < ui.session.next \/ o = ui.obs
      BY <1>2, <2>1 DEF NumbersSound, PageStates
    <3>2. o.seq \in Nat
      BY <1>2 DEF CountsTyped, Observations, Entries
    <3> QED BY <1>3, <1>4, <3>1, <3>2
  <2>2. CASE ui.state = "unsaved"
    BY <1>1, <1>2, <1>8, <2>2 DEF NumbersSound, PageStates
  <2> QED BY <1>1, <2>1, <2>2
<1>14. Covered(ui.session)'
  <2>1. Covered(ui.session)
    <3>1. ui.session # NoSession
      BY <1>4 DEF NoSession, Session
    <3> QED BY <1>2, <3>1 DEF NoGap
  <2>2. CASE ui.state = "saved"
    <3>1. Brought(ui.session.sid, ui.session.next, Elements(Waiting))
      BY <1>2, <1>11, <2>2 DEF NoGap
    <3>2. \A m \in 0..s.next - 1 : m \in 0..ui.session.next - 1 \/ m = ui.session.next
      BY <1>4, <1>5
    <3>3. Covered(s)
      BY <1>5, <2>1, <3>1, <3>2 DEF Covered
    <3> QED BY <1>1, <1>7, <1>11, <2>2, <3>3 DEF Covered, Brought
  <2>3. CASE ui.state = "unsaved"
    BY <1>1, <1>8, <1>11, <2>1, <2>3 DEF Covered, Brought
  <2> QED BY <1>1, <2>2, <2>3
<1>15. ui'.state \in WithObs /\ ui'.state # "saved" =>
           ui'.obs.id \notin Judged /\ \A r \in Kept : r.id # ui'.obs.id
  BY <1>1, <1>2, <1>7, <1>8, <1>11 DEF Verdicts, WithObs
<1>16. created.ids <= created'.ids /\ created'.sids = created.sids
  BY <1>1, <1>2 DEF CountsTyped
<1>17. ui'.state \in {"ready", "failed"}
  BY <1>1, <1>7, <1>8
<1> QED BY <1>1, <1>9, <1>10, <1>12, <1>13, <1>14, <1>15, <1>16, <1>17, UiKeeps

\* What the upload loop holds.
LEMMA HeldFacts ==
    ASSUME WordInv, uploader.state \in {"holding", "accepted", "refused"}
    PROVE  /\ Waiting \in Seq(Observations) /\ Waiting # <<>> /\ uploader.obs = Head(Waiting)
           /\ Repaired
           /\ uploader.obs \in Observations /\ uploader.obs \in Elements(Waiting)
           /\ op.kind \notin {"peek", "ack", "quarantine"}
           /\ uploader.obs.sid \in Sids /\ uploader.obs.seq \in Nat
           /\ uploader.obs.seq <= MaxIds - 1
           /\ uploader.obs.id \in 1..created.ids
           /\ server.next[uploader.obs.sid] \in 0..MaxIds
           /\ uploader.obs.seq <= server.next[uploader.obs.sid]
           /\ \A r \in Elements(Waiting) : r.id = uploader.obs.id => r = uploader.obs
<1>1. Waiting \in Seq(Observations) /\ DistinctIds(Waiting)
  BY JournalFacts DEF WordInv, Typed, JournalInv
<1>2. Repaired /\ Waiting # <<>> /\ uploader.obs = Head(Waiting)
  BY DEF WordInv, UploadInv, HeadHeld, Holding
<1>3. uploader.obs = Waiting[1] /\ 1 \in 1..Len(Waiting) /\ uploader.obs \in Observations
  BY <1>1, <1>2
<1>4. uploader.obs \in Elements(Waiting)
  BY <1>3 DEF Elements
<1>5. op.kind \notin {"peek", "ack", "quarantine"}
  BY DEF WordInv, Typed, OpTyped
<1>6. /\ uploader.obs.sid \in Sids /\ uploader.obs.seq \in Nat /\ uploader.obs.id \in Nat \ {0}
      /\ uploader.obs.seq <= MaxIds - 1
  BY <1>3, BoundAssumption DEF Observations, Entries, Sids
<1>7. uploader.obs.id <= created.ids
  BY <1>4 DEF WordInv, SessionInv, NumbersSound, Kept
<1>8. server.next[uploader.obs.sid] \in 0..MaxIds
  BY <1>6 DEF WordInv, Typed, CountsTyped
<1>9. uploader.obs.seq <= server.next[uploader.obs.sid]
  <2> DEFINE q == uploader.obs.seq
             n == server.next[uploader.obs.sid]
  <2>0. q = 0 \/ q - 1 \in 0..q - 1
    BY <1>6
  <2>1. q # 0 => Brought(uploader.obs.sid, q - 1, {Waiting[j] : j \in 1..1 - 1})
    <3>1. \A m \in 0..Waiting[1].seq - 1 :
              Brought(Waiting[1].sid, m, {Waiting[j] : j \in 1..1 - 1})
      BY <1>3 DEF WordInv, UploadInv, NoGap, Gapless
    <3> QED BY <1>3, <2>0, <3>1
  <2>2. {Waiting[j] : j \in 1..1 - 1} = {}
    OBVIOUS
  <2>3. q # 0 => q - 1 < n
    BY <2>1, <2>2 DEF Brought
  <2> QED BY <1>6, <1>8, <2>3
<1>10. \A r \in Elements(Waiting) : r.id = uploader.obs.id => r = uploader.obs
  BY <1>1, <1>3 DEF Elements, DistinctIds
<1>11. created.ids \in Nat
  BY DEF WordInv, Typed, CountsTyped
<1> QED BY <1>1, <1>2, <1>3, <1>4, <1>5, <1>6, <1>7, <1>8, <1>9, <1>10, <1>11

\* The server answers, and the loop hears of it or not.
LEMMA ServerAnswers ==
    ASSUME WordInv, uploader.state = "holding", UNCHANGED storeVars,
           ui' = ui, created' = created, recorded' = recorded, dropped' = dropped,
           server' = [next |-> server'.next, accepted |-> server'.accepted,
                      refused |-> server'.refused],
           server'.next \in [Sids -> 0..MaxIds],
           \A sid \in Sids : server.next[sid] <= server'.next[sid],
           Judged \in SUBSET (Judged'), Judged' \in SUBSET (Judged \cup {uploader.obs.id}),
           server'.accepted \in SUBSET (server.accepted \cup {uploader.obs.id}),
           uploader.obs.id \in server'.accepted =>
               uploader.obs.seq < server'.next[uploader.obs.sid],
           \/ uploader' = Uploader("idle", None)
           \/ /\ uploader' \in [state : {"accepted", "refused"}, obs : {uploader.obs}]
              /\ uploader.obs.id \in Judged'
              /\ uploader.obs.seq < server'.next[uploader.obs.sid]
    PROVE  WordInv'
<1> DEFINE o == uploader.obs
<1>1. /\ Waiting \in Seq(Observations) /\ Waiting # <<>> /\ o = Head(Waiting)
      /\ Repaired /\ o \in Observations /\ o \in Elements(Waiting)
      /\ op.kind \notin {"peek", "ack", "quarantine"}
      /\ o.sid \in Sids /\ o.id \in 1..created.ids
      /\ \A r \in Elements(Waiting) : r.id = o.id => r = o
  BY HeldFacts
<1>2. /\ DiskTyped' /\ PlanShape' /\ JournalInv'
      /\ disk' = disk /\ cache' = cache /\ op' = op /\ todo' = todo /\ result' = result
      /\ Content' = Content /\ Waiting' = Waiting /\ Acked' = Acked /\ Kept' = Kept
      /\ Snapshots' = Snapshots /\ Stored' = Stored /\ Boot' = Boot
      /\ Left' = Left
      /\ AckLeft' <=> AckLeft
      /\ ObsLeft' <=> ObsLeft
      /\ JournalLeft' <=> JournalLeft
      /\ SessionLeft' <=> SessionLeft
      /\ Repaired' <=> Repaired
      /\ WillBeMoved' <=> WillBeMoved
      /\ \A a : Ends(a)' <=> Ends(a)
  BY StoreStays
<1>3. /\ UiTyped /\ OpTyped /\ CountsTyped /\ SessionPlan /\ PageSound /\ RecordsFit
      /\ NumbersSound /\ HeadHeld /\ NoGap /\ Verdicts
  BY DEF WordInv, Typed, SessionInv, UploadInv
<1>4. Committed' <=> Committed
  BY <1>2 DEF Committed
<1>5. /\ Kept \in SUBSET Observations
      /\ Elements(Waiting) \in SUBSET Observations /\ Elements(Acked) \in SUBSET Observations
      /\ Snapshots \in SUBSET Sessions
  BY JournalFacts, SnapshotFacts DEF WordInv, Typed, JournalInv
<1>6. \A sid \in Sids : server.next[sid] \in Nat /\ server'.next[sid] \in Nat
  BY <1>3 DEF CountsTyped
<1>7. \A e \in Observations : e.sid \in Sids /\ e.seq \in Nat
  BY DEF Observations, Entries, Sids
<1>8. \A r \in Observations : r.seq < server.next[r.sid] => r.seq < server'.next[r.sid]
  BY <1>6, <1>7
<1> HIDE DEF o
<1>9. UiTyped'
  BY <1>3 DEF UiTyped
<1>10. UploaderTyped'
  BY <1>1 DEF UploaderTyped, o
<1>11. uploader'.state \in {"idle", "accepted", "refused"}
       /\ (uploader'.state # "idle" => uploader'.obs = o)
  BY DEF Uploader, o
<1>12. OpTyped'
  BY <1>1, <1>2, <1>3, <1>11 DEF OpTyped
<1>13. CountsTyped'
  <2>1. Judged' \subseteq 1..created.ids
    BY <1>1, <1>3 DEF CountsTyped, o
  <2> QED BY <1>3, <2>1 DEF CountsTyped
<1>14. SessionPlan'
  BY <1>2, <1>3, <1>4 DEF SessionPlan, Saved
<1>15. PageSound' /\ RecordsFit'
  BY <1>2, <1>3, <1>4 DEF PageSound, RecordsFit
<1>16. NumbersSound'
  BY <1>2, <1>3 DEF NumbersSound, SequenceRecordedOnce
<1>17. HeadHeld'
  <2>1. Repaired' /\ Waiting' # <<>> /\ op'.kind # "peek"
    BY <1>1, <1>2
  <2>2. uploader'.state # "idle" =>
            /\ uploader'.obs = Head(Waiting')
            /\ uploader'.obs.id \in Judged'
            /\ uploader'.obs.seq < server'.next[uploader'.obs.sid]
    BY <1>1, <1>2, <1>11 DEF Uploader, o
  <2>3. Holding' => uploader'.state # "idle"
    BY DEF Holding
  <2> QED BY <2>1, <2>2, <2>3 DEF HeadHeld
<1>18. NoGap'
  <2>1. \A sid \in Sids, m \in Nat : \A w : Brought(sid, m, w) => Brought(sid, m, w)'
    BY <1>6 DEF Brought
  <2>2. Gapless(Waiting)'
    <3>1. \A i \in 1..Len(Waiting) : Waiting[i].sid \in Sids /\ Waiting[i].seq \in Nat
      <4>1. \A i \in 1..Len(Waiting) : Waiting[i] \in Observations
        BY <1>1
      <4> QED BY <1>7, <4>1
    <3>2. \A i \in 1..Len(Waiting) : \A m \in 0..Waiting[i].seq - 1 :
              \/ m < server.next[Waiting[i].sid]
              \/ \E r \in {Waiting[j] : j \in 1..i - 1} : r.sid = Waiting[i].sid /\ r.seq = m
      BY <1>3 DEF NoGap, Gapless, Brought
    <3>3. \A i \in 1..Len(Waiting) : \A m \in 0..Waiting[i].seq - 1 :
              \/ m < server'.next[Waiting[i].sid]
              \/ \E r \in {Waiting[j] : j \in 1..i - 1} : r.sid = Waiting[i].sid /\ r.seq = m
      <4>1. \A i \in 1..Len(Waiting) : \A m \in 0..Waiting[i].seq - 1 :
                m < server.next[Waiting[i].sid] => m < server'.next[Waiting[i].sid]
        BY <1>6, <3>1
      <4> QED BY <3>2, <4>1
    <3> QED BY <1>2, <3>3 DEF Gapless, Brought
  <2>3. \A s \in Sessions : Covered(s) => Covered(s)'
    <3>1. \A s \in Sessions : s.sid \in Sids /\ s.next \in Nat
      BY DEF Sessions, Sids
    <3> SUFFICES ASSUME NEW s \in Sessions, Covered(s)
                 PROVE  \A m \in 0..s.next - 1 : Brought(s.sid, m, Elements(Waiting))'
      BY DEF Covered
    <3>2. \A m \in 0..s.next - 1 : Brought(s.sid, m, Elements(Waiting))
      BY DEF Covered
    <3> QED BY <1>2, <1>6, <3>1, <3>2 DEF Brought
  <2>4. \A s \in Snapshots' : Covered(s)'
    BY <1>2, <1>3, <1>5, <2>3 DEF NoGap
  <2>5. ui'.session # NoSession => Covered(ui.session)'
    <3> SUFFICES ASSUME ui.session # NoSession
                 PROVE  Covered(ui.session)'
      OBVIOUS
    <3>1. ui.session \in Sessions /\ Covered(ui.session)
      BY <1>3 DEF UiTyped, NoGap
    <3>2. \A s : s = ui.session => (Covered(s)' => Covered(ui.session)')
      BY DEF Covered, Brought
    <3> QED BY <2>3, <3>1, <3>2
  <2>6. Committed' => Brought(ui.session.sid, ui.session.next, Elements(Waiting))'
    <3> SUFFICES ASSUME Committed
                 PROVE  Brought(ui.session.sid, ui.session.next, Elements(Waiting))'
      BY <1>4
    <3>1. Brought(ui.session.sid, ui.session.next, Elements(Waiting))
      BY <1>3 DEF NoGap
    <3>2. ui.session \in Sessions
      BY <1>3 DEF Committed, OpTyped, UiTyped, PageStates
    <3>3. ui.session.sid \in Sids /\ ui.session.next \in Nat
      BY <3>2 DEF Sessions, Sids
    <3> QED BY <1>2, <1>6, <3>1, <3>3 DEF Brought
  <2> QED BY <2>2, <2>4, <2>5, <2>6 DEF NoGap
<1>19. Verdicts'
  <2>1. \A r \in Elements(Waiting') : r.id \in server'.accepted => r.seq < server'.next[r.sid]
    <3> SUFFICES ASSUME NEW r \in Elements(Waiting), r.id \in server'.accepted
                 PROVE  r.seq < server'.next[r.sid]
      BY <1>2
    <3>1. CASE r.id = o.id
      BY <1>1, <3>1 DEF o
    <3>2. CASE r.id # o.id
      BY <1>3, <1>5, <1>8, <3>2 DEF Verdicts, o
    <3> QED BY <3>1, <3>2
  <2>2. \A r \in Elements(Acked') : r.id \in Judged' /\ r.seq < server'.next[r.sid]
    BY <1>2, <1>3, <1>5, <1>8 DEF Verdicts
  <2>3. ui'.state \in WithObs /\ ~Committed' =>
            ui'.obs.id \notin Judged' /\ \A r \in Kept' : r.id # ui'.obs.id
    <3> SUFFICES ASSUME ui.state \in WithObs, ~Committed
                 PROVE  ui.obs.id \notin Judged' /\ \A r \in Kept : r.id # ui.obs.id
      BY <1>2, <1>4
    <3>1. ui.obs.id \notin Judged /\ \A r \in Kept : r.id # ui.obs.id
      BY <1>3 DEF Verdicts
    <3>2. o \in Kept
      BY <1>1 DEF Kept
    <3> QED BY <3>1, <3>2 DEF o
  <2>4. op'.kind = "commit" /\ Committed' => ui'.obs \in Elements(Waiting')
    BY <1>2, <1>3, <1>4 DEF Verdicts
  <2>5. \A e \in recorded' : e.id \in Judged' \/ \E r \in Elements(Waiting') : r.id = e.id
    BY <1>2, <1>3 DEF Verdicts
  <2> QED BY <2>1, <2>2, <2>3, <2>4, <2>5 DEF Verdicts
<1> QED BY <1>2, <1>9, <1>10, <1>12, <1>13, <1>14, <1>15, <1>16, <1>17, <1>18, <1>19
        DEF WordInv, Typed, SessionInv, UploadInv

\* The loop sends the head of the journal, or finds no server.
LEMMA SubmitKeeps ==
    ASSUME WordInv, Submit \/ SubmitRefused \/ SubmitDeferred
    PROVE  WordInv'
<1> DEFINE o == uploader.obs
           n == server.next[o.sid]
<1>1. /\ uploader.state = "holding" /\ UNCHANGED storeVars
      /\ ui' = ui /\ created' = created /\ recorded' = recorded /\ dropped' = dropped
  BY DEF Submit, SubmitRefused, SubmitDeferred
<1>2. /\ o \in Observations /\ o \in Elements(Waiting) /\ o.sid \in Sids /\ o.seq \in Nat
      /\ o.seq <= MaxIds - 1 /\ n \in 0..MaxIds /\ o.seq <= n
  BY <1>1, HeldFacts
<1>3. /\ server = [next |-> server.next, accepted |-> server.accepted,
                   refused |-> server.refused]
      /\ server.next \in [Sids -> 0..MaxIds]
  BY DEF WordInv, Typed, CountsTyped
<1>4. o.id \in server.accepted => o.seq < n
  BY <1>2 DEF WordInv, UploadInv, Verdicts
<1>5. uploader = [state |-> "holding", obs |-> o]
  <2>1. UploaderTyped
    BY DEF WordInv, Typed
  <2> QED BY <1>1, <2>1 DEF UploaderTyped, Uploader
<1>6. Verdict(o) = "next" => o.id \notin server.accepted /\ o.seq = n
  BY <1>2 DEF Verdict
<1>7. Verdict(o) = "applied" => o.id \notin server.accepted /\ o.seq < n
  BY <1>2 DEF Verdict
<1>8. Verdict(o) = "accept" => o.id \in server.accepted
  BY <1>2 DEF Verdict
<1> DEFINE bumped == [server.next EXCEPT ![o.sid] = @ + 1]
<1>9. Verdict(o) = "next" =>
          /\ bumped \in [Sids -> 0..MaxIds] /\ bumped[o.sid] = n + 1
          /\ \A sid \in Sids : server.next[sid] <= bumped[sid]
  <2> SUFFICES ASSUME Verdict(o) = "next"
               PROVE  /\ bumped \in [Sids -> 0..MaxIds] /\ bumped[o.sid] = n + 1
                      /\ \A sid \in Sids : server.next[sid] <= bumped[sid]
    OBVIOUS
  <2>1. n + 1 \in 0..MaxIds
    BY <1>2, <1>6, BoundAssumption
  <2>2. \A sid \in Sids : server.next[sid] \in Nat
    BY <1>3
  <2> QED BY <1>2, <1>3, <2>1, <2>2
<1> HIDE DEF bumped
<1>10. CASE SubmitDeferred
  <2>1. uploader' = Uploader("idle", None) /\ server' = server
    BY <1>10 DEF SubmitDeferred
  <2>2. \A sid \in Sids : server.next[sid] \in Nat
    BY <1>3
  <2>3. \A sid \in Sids : server.next[sid] <= server.next[sid]
    BY <2>2
  <2>4. Judged' = Judged
    BY <2>1 DEF Judged
  <2> QED BY <1>1, <1>3, <1>4, <2>1, <2>3, <2>4, ServerAnswers
<1>11. CASE Submit
  <2>1. /\ Verdict(o) \in {"accept", "next"}
        /\ server' = IF Verdict(o) = "accept" THEN server
                     ELSE [server EXCEPT !.next[o.sid] = @ + 1, !.accepted = @ \cup {o.id}]
        /\ uploader' \in {[uploader EXCEPT !.state = "accepted"], Uploader("idle", None)}
    BY <1>11 DEF Submit
  <2>2. uploader' = Uploader("idle", None) \/ uploader' = [state |-> "accepted", obs |-> o]
    BY <1>5, <2>1
  <2>3. CASE Verdict(o) = "accept"
    <3>1. server' = server /\ o.id \in server.accepted /\ o.seq < n
      BY <1>4, <1>8, <2>1, <2>3
    <3>2. Judged' = Judged /\ o.id \in Judged
      BY <3>1 DEF Judged
    <3>3. \A sid \in Sids : server.next[sid] <= server'.next[sid]
      <4>1. \A sid \in Sids : server.next[sid] \in Nat
        BY <1>3
      <4> QED BY <3>1, <4>1
    <3>4. \/ uploader' = Uploader("idle", None)
          \/ /\ uploader' \in [state : {"accepted", "refused"}, obs : {uploader.obs}]
             /\ uploader.obs.id \in Judged'
             /\ uploader.obs.seq < server'.next[uploader.obs.sid]
      BY <2>2, <3>1, <3>2
    <3> QED BY <1>1, <1>3, <3>1, <3>2, <3>3, <3>4, ServerAnswers
  <2>4. CASE Verdict(o) = "next"
    <3>1. server' = [next |-> bumped, accepted |-> server.accepted \cup {o.id},
                     refused |-> server.refused]
      BY <1>3, <2>1, <2>4 DEF bumped
    <3>2. /\ server'.next = bumped /\ server'.accepted = server.accepted \cup {o.id}
          /\ server'.refused = server.refused
      BY <3>1
    <3>3. Judged' = Judged \cup {o.id}
      BY <3>2 DEF Judged
    <3>4. o.seq < server'.next[o.sid]
      BY <1>2, <1>6, <1>9, <2>4, <3>2
    <3>5. \/ uploader' = Uploader("idle", None)
          \/ /\ uploader' \in [state : {"accepted", "refused"}, obs : {uploader.obs}]
             /\ uploader.obs.id \in Judged'
             /\ uploader.obs.seq < server'.next[uploader.obs.sid]
      BY <2>2, <3>3, <3>4
    <3> QED BY <1>1, <1>9, <2>4, <3>1, <3>2, <3>3, <3>4, <3>5, ServerAnswers
  <2> QED BY <2>1, <2>3, <2>4
<1>12. CASE SubmitRefused
  <2>1. /\ Verdict(o) \in {"applied", "next"}
        /\ server' = [server EXCEPT !.refused = @ \cup {o.id},
                         !.next[o.sid] = IF Verdict(o) = "next" THEN @ + 1 ELSE @]
        /\ uploader' \in {[uploader EXCEPT !.state = "refused"], Uploader("idle", None)}
    BY <1>12 DEF SubmitRefused
  <2>2. uploader' = Uploader("idle", None) \/ uploader' = [state |-> "refused", obs |-> o]
    BY <1>5, <2>1
  <2>3. /\ server' = [next |-> server'.next, accepted |-> server.accepted,
                      refused |-> server.refused \cup {o.id}]
        /\ server'.next = IF Verdict(o) = "next" THEN bumped ELSE server.next
    <3>1. [server.next EXCEPT ![o.sid] = @] = server.next
      BY <1>3
    <3>2. CASE Verdict(o) = "next"
      BY <1>3, <2>1, <3>2 DEF bumped
    <3>3. CASE Verdict(o) # "next"
      BY <1>3, <2>1, <3>1, <3>3
    <3> QED BY <3>2, <3>3
  <2>4. server'.accepted = server.accepted /\ server'.refused = server.refused \cup {o.id}
    BY <2>3
  <2>5. Judged' = Judged \cup {o.id}
    BY <2>4 DEF Judged
  <2>6. /\ server'.next \in [Sids -> 0..MaxIds]
        /\ \A sid \in Sids : server.next[sid] <= server'.next[sid]
        /\ o.seq < server'.next[o.sid]
    <3>1. \A sid \in Sids : server.next[sid] \in Nat
      BY <1>3
    <3>2. CASE Verdict(o) = "next"
      BY <1>2, <1>6, <1>9, <2>3, <3>2
    <3>3. CASE Verdict(o) = "applied"
      BY <1>3, <1>7, <2>3, <3>1, <3>3
    <3> QED BY <2>1, <3>2, <3>3
  <2>7. \/ uploader' = Uploader("idle", None)
        \/ /\ uploader' \in [state : {"accepted", "refused"}, obs : {uploader.obs}]
           /\ uploader.obs.id \in Judged'
           /\ uploader.obs.seq < server'.next[uploader.obs.sid]
    BY <2>2, <2>5, <2>6
  <2> QED BY <1>1, <2>3, <2>4, <2>5, <2>6, <2>7, ServerAnswers
<1> QED BY <1>10, <1>11, <1>12

\* No transaction runs once the callers take the answer.
LEMMA ReleaseStays ==
    ASSUME WordInv, op # None, result # "busy", Release
    PROVE  /\ todo = <<>> /\ todo' = <<>> /\ op' = None /\ result' = "busy"
           /\ disk' = disk /\ cache' = cache
           /\ result \in Answers \cup {"ioError"}
           /\ DiskTyped' /\ PlanShape' /\ JournalInv'
           /\ Content' = Content /\ Waiting' = Waiting /\ Acked' = Acked /\ Kept' = Kept
           /\ Snapshots' = Snapshots /\ Stored' = Stored /\ Boot' = Boot
           /\ Left = {} /\ Left' = {} /\ ~AckLeft /\ ~ObsLeft /\ ~JournalLeft /\ ~SessionLeft
           /\ ~AckLeft' /\ ~ObsLeft' /\ ~JournalLeft' /\ ~SessionLeft'
           /\ Repaired' <=> Repaired
           /\ \A a : Ends(a) <=> result = a
           /\ \A a \in Answers : ~Ends(a)'
           /\ op'.kind = "none"
<1>1. op' = None /\ result' = "busy" /\ disk' = disk /\ cache' = cache /\ todo' = todo
  BY DEF Release
<1>2. OpTyped
  BY DEF WordInv, Typed
<1>3. todo = <<>> /\ result \in Answers \cup {"ioError"}
  BY <1>2 DEF OpTyped
<1>4. /\ Content' = Content /\ Waiting' = Waiting /\ Acked' = Acked
      /\ TornTail' = TornTail /\ FromBackup' = FromBackup /\ Kept' = Kept
      /\ Snapshots' = Snapshots /\ Stored' = Stored /\ Boot' = Boot
      /\ DiskTyped' <=> DiskTyped
      /\ JournalSound' <=> JournalSound
  BY <1>1, DiskStays
<1>5. /\ Left' = Left
      /\ AckLeft' <=> AckLeft
      /\ ObsLeft' <=> ObsLeft
      /\ JournalLeft' <=> JournalLeft
      /\ SessionLeft' <=> SessionLeft
      /\ Installing' <=> Installing
  BY <1>1, PlanStays
<1>6. /\ Left = {} /\ ~AckLeft /\ ~ObsLeft /\ ~JournalLeft /\ ~SessionLeft /\ ~Installing
      /\ \A a : Ends(a) <=> result = a
  BY <1>3, NothingLeft
<1>7. \A a \in Answers : ~Ends(a)'
  <2>1. "busy" \notin Answers
    BY DEF Answers
  <2> QED BY <1>1, <1>5, <1>6, <2>1 DEF Ends
<1>8. PlanShape'
  <2>1. PlanShape
    BY DEF WordInv
  <2> QED BY <1>1, <1>3, <1>5, <1>6, <2>1 DEF PlanShape, Head1, Slot
<1>9. Repaired' <=> Repaired
  BY <1>1 DEF Repaired
<1>10. CacheSound'
  <2>1. CacheSound
    BY DEF WordInv, JournalInv
  <2> QED BY <1>1, <1>4, <1>5, <2>1 DEF CacheSound
<1>11. JournalPlan'
  BY <1>5, <1>6 DEF JournalPlan
<1>12. DiskTyped' /\ JournalSound'
  BY <1>4 DEF WordInv, Typed, JournalInv
<1>13. op'.kind = "none"
  BY <1>1 DEF None
<1> QED BY <1>1, <1>3, <1>4, <1>5, <1>6, <1>7, <1>8, <1>9, <1>10, <1>11, <1>12, <1>13
        DEF JournalInv

\* The upload loop or the sleep takes its answer.
LEMMA AnsweredKeeps ==
    ASSUME WordInv, Peeked \/ Resolved \/ Prepared
    PROVE  WordInv'
<1>1. /\ op # None /\ result # "busy" /\ Release
      /\ op.kind \in {"peek", "ack", "quarantine", "prepare"}
      /\ ui' = ui /\ server' = server /\ created' = created /\ recorded' = recorded
      /\ dropped' = dropped
  BY DEF Peeked, Resolved, Prepared, Done
<1>2. /\ todo = <<>> /\ todo' = <<>> /\ op' = None /\ result' = "busy"
      /\ disk' = disk /\ cache' = cache
      /\ DiskTyped' /\ PlanShape' /\ JournalInv'
      /\ Content' = Content /\ Waiting' = Waiting /\ Acked' = Acked /\ Kept' = Kept
      /\ Snapshots' = Snapshots /\ Stored' = Stored /\ Boot' = Boot
      /\ Left' = {} /\ ~AckLeft /\ ~ObsLeft /\ ~JournalLeft
      /\ ~AckLeft' /\ ~ObsLeft' /\ ~JournalLeft' /\ ~SessionLeft'
      /\ Repaired' <=> Repaired
      /\ \A a : Ends(a) <=> result = a
      /\ \A a \in Answers : ~Ends(a)'
      /\ op'.kind = "none"
  BY <1>1, ReleaseStays
<1>3. /\ DiskTyped /\ UiTyped /\ UploaderTyped /\ OpTyped /\ CountsTyped /\ SessionPlan
      /\ PageSound /\ RecordsFit /\ NumbersSound /\ HeadHeld /\ NoGap /\ Verdicts
      /\ JournalSound /\ CacheSound
  BY DEF WordInv, Typed, SessionInv, UploadInv, JournalInv
<1>4. Committed' <=> Committed
  BY <1>1, <1>2 DEF Committed
<1>5. Waiting \in Seq(Observations)
  BY <1>3, JournalFacts
<1>6. PageSound' /\ RecordsFit' /\ NumbersSound' /\ NoGap' /\ Verdicts'
  BY <1>1, <1>2, <1>3, <1>4, DataStays
<1>7. SessionPlan'
  BY <1>2, <1>3 DEF SessionPlan
<1>8. UiTyped' /\ CountsTyped'
  BY <1>1, <1>3 DEF UiTyped, CountsTyped, Judged
<1>9. \/ /\ op.kind \in {"peek", "ack", "quarantine"} /\ uploader' = Uploader("idle", None)
      \/ /\ op.kind = "prepare" /\ uploader' = uploader
      \/ /\ op.kind = "peek" /\ result = "ok"
         /\ uploader' = Uploader("holding", Head(cache.pending))
  BY DEF Peeked, Resolved, Prepared, Done
<1>10. op.kind = "peek" /\ result = "ok" =>
           /\ Repaired /\ Waiting # <<>> /\ cache.pending = Waiting
           /\ Head(Waiting) \in Observations
  <2> SUFFICES ASSUME op.kind = "peek", result = "ok"
               PROVE  /\ Repaired /\ Waiting # <<>> /\ cache.pending = Waiting
                      /\ Head(Waiting) \in Observations
    OBVIOUS
  <2>1. cache.loaded /\ Waiting # <<>> /\ Repaired
    BY <1>2, <1>3 DEF HeadHeld
  <2>2. cache.pending = Waiting
    BY <1>3, <2>1 DEF CacheSound, OutboxScan
  <2> QED BY <1>5, <2>1, <2>2
<1>11. UploaderTyped'
  BY <1>3, <1>9, <1>10 DEF UploaderTyped, Uploader
<1>12. uploader'.state \notin {"peeking", "acking", "quarantining"}
  BY <1>3, <1>9 DEF OpTyped, Uploader
<1>13. OpTyped'
  <2>1. op.kind \in {"peek", "ack", "quarantine", "prepare"} /\ op' \in Transactions
    BY <1>1, <1>2 DEF Transactions
  <2> QED BY <1>1, <1>2, <1>3, <1>12, <2>1 DEF OpTyped
<1>14. HeadHeld'
  <2>1. CASE uploader' = Uploader("idle", None)
    BY <1>2, <2>1 DEF HeadHeld, Holding, Uploader
  <2>2. CASE op.kind = "prepare" /\ uploader' = uploader
    <3>1. Judged' = Judged
      BY <1>1 DEF Judged
    <3>2. Holding' => Holding
      BY <1>2, <2>2 DEF Holding
    <3> QED BY <1>1, <1>2, <1>3, <2>2, <3>1, <3>2 DEF HeadHeld
  <2>3. CASE op.kind = "peek" /\ result = "ok"
             /\ uploader' = Uploader("holding", Head(cache.pending))
    BY <1>2, <1>10, <2>3 DEF HeadHeld, Holding, Uploader
  <2> QED BY <1>9, <2>1, <2>2, <2>3
<1> QED BY <1>2, <1>6, <1>7, <1>8, <1>11, <1>13, <1>14
        DEF WordInv, Typed, SessionInv, UploadInv

\* The page that was loaded, or could not be.
LEMMA PageLoadedKeeps ==
    ASSUME WordInv, PageLoaded
    PROVE  WordInv'
<1>1. /\ op # None /\ op.kind = "load" /\ result # "busy" /\ Release
      /\ ui' = IF result = "ok"
               THEN [UiOff EXCEPT !.state = "ready", !.session = disk.session.primary]
               ELSE UiOff
      /\ uploader' = uploader /\ server' = server /\ created' = created
      /\ recorded' = recorded /\ dropped' = dropped
  BY DEF PageLoaded, Done
<1>2. /\ todo = <<>> /\ todo' = <<>> /\ op' = None /\ result' = "busy"
      /\ disk' = disk /\ cache' = cache
      /\ DiskTyped' /\ PlanShape' /\ JournalInv'
      /\ Content' = Content /\ Waiting' = Waiting /\ Acked' = Acked /\ Kept' = Kept
      /\ Snapshots' = Snapshots /\ Stored' = Stored /\ Boot' = Boot
      /\ Left = {} /\ Left' = {} /\ ~AckLeft /\ ~ObsLeft /\ ~JournalLeft /\ ~SessionLeft
      /\ ~AckLeft' /\ ~ObsLeft' /\ ~JournalLeft' /\ ~SessionLeft'
      /\ Repaired' <=> Repaired
      /\ \A a : Ends(a) <=> result = a
      /\ \A a \in Answers : ~Ends(a)'
      /\ op'.kind = "none"
  BY <1>1, ReleaseStays
<1>3. /\ DiskTyped /\ UiTyped /\ UploaderTyped /\ OpTyped /\ CountsTyped /\ SessionPlan
      /\ PageSound /\ RecordsFit /\ NumbersSound /\ HeadHeld /\ NoGap /\ Verdicts
      /\ JournalSound
  BY DEF WordInv, Typed, SessionInv, UploadInv, JournalInv
<1> DEFINE s == disk.session.primary
<1>4. ui.state = "loading"
  BY <1>1, <1>3 DEF OpTyped
<1>5. result = "ok" => /\ s # Absent /\ s = Stored /\ Boot = Stored
                       /\ s \in Sessions /\ s \in Snapshots
  <2> SUFFICES ASSUME result = "ok"
               PROVE  /\ s # Absent /\ s = Stored /\ Boot = Stored
                      /\ s \in Sessions /\ s \in Snapshots
    OBVIOUS
  <2>1. s # Absent /\ Stored = Boot
    BY <1>1, <1>2, <1>3 DEF SessionPlan, WillBeMoved
  <2>2. s = Stored
    BY <2>1 DEF Stored, LoadSession
  <2>3. Stored \in Sessions /\ Stored \in Snapshots
    BY <1>3, <2>1, <2>2, SnapshotFacts
  <2> QED BY <2>1, <2>2, <2>3
<1>6. \/ /\ result = "ok" /\ ui'.state = "ready" /\ ui'.session = s /\ ui'.obs = None
         /\ ui' \in [state : {"ready"}, session : {s}, obs : {None}]
      \/ /\ ui'.state = "off" /\ ui'.session = NoSession /\ ui'.obs = None
         /\ ui' \in [state : {"off"}, session : {NoSession}, obs : {None}]
  BY <1>1 DEF UiOff
<1> HIDE DEF s
<1>7. created \in [ids : 0..MaxIds, sids : 0..MaxSessions]
  BY <1>3 DEF CountsTyped
<1>8. UiTyped'
  <2>1. CASE ui'.state = "ready"
    <3>1. s.sid <= created.sids
      BY <1>3, <1>5, <1>6, <2>1 DEF NumbersSound
    <3> QED BY <1>1, <1>5, <1>6, <2>1, <3>1 DEF UiTyped, PageStates, WithObs
  <2>2. CASE ui'.state = "off"
    <3>1. NoSession.sid = 0
      BY DEF NoSession, Session
    <3> QED BY <1>1, <1>6, <1>7, <2>2, <3>1 DEF UiTyped, PageStates, WithObs
  <2> QED BY <1>6, <2>1, <2>2
<1>9. CountsTyped' /\ UploaderTyped'
  BY <1>1, <1>3 DEF CountsTyped, Judged, UploaderTyped
<1>10. ui'.state \in {"ready", "off"}
  BY <1>6
<1>11. OpTyped'
  <2>1. op' \in Transactions
    BY <1>2 DEF Transactions
  <2>2. uploader.state \notin {"peeking", "acking", "quarantining"}
    BY <1>1, <1>3 DEF OpTyped
  <2> QED BY <1>1, <1>2, <1>10, <2>1, <2>2 DEF OpTyped
<1>12. ~Committed'
  BY <1>2, <1>10 DEF Committed
<1>13. SessionPlan'
  BY <1>2 DEF SessionPlan
<1>14. PageSound'
  <2>1. ui'.state = "ready" => Stored.end >= s.end /\ Boot.next = s.next
    <3>1. \A x \in Sessions : x.end >= x.end
      BY DEF Sessions
    <3> QED BY <1>5, <1>6, <3>1
  <2> QED BY <1>2, <1>5, <1>6, <1>12, <2>1 DEF PageSound, PageStates
<1>15. RecordsFit'
  BY <1>1, <1>2, <1>3 DEF RecordsFit
<1>16. NumbersSound'
  <2>1. ui'.state \in PageStates /\ ui'.session.sid \notin dropped =>
            \A o \in recorded : o.sid = ui'.session.sid => o.seq < ui'.session.next
    BY <1>3, <1>5, <1>6 DEF NumbersSound, PageStates
  <2>2. SequenceRecordedOnce'
    BY <1>1, <1>3 DEF NumbersSound, SequenceRecordedOnce
  <2> QED BY <1>1, <1>2, <1>3, <1>10, <2>1, <2>2 DEF NumbersSound
<1>17. HeadHeld'
  <2>1. Judged' = Judged /\ (Holding' <=> Holding)
    BY <1>1, <1>2 DEF Judged, Holding
  <2> QED BY <1>1, <1>2, <1>3, <2>1 DEF HeadHeld
<1>18. NoGap'
  <2>1. /\ \A sid, m, w : Brought(sid, m, w)' <=> Brought(sid, m, w)
        /\ \A x : Covered(x)' <=> Covered(x)
    BY <1>1, <1>2, SameNumbers
  <2>2. Gapless(Waiting)'
    <3>1. Gapless(Waiting)
      BY <1>3 DEF NoGap
    <3> QED BY <1>1, <1>2, <3>1 DEF Gapless, Brought
  <2>3. \A x \in Snapshots' : Covered(x)'
    BY <1>2, <1>3, <2>1 DEF NoGap
  <2>4. ui'.session # NoSession => Covered(ui.session)'
    <3> SUFFICES ASSUME ui'.session # NoSession
                 PROVE  Covered(ui.session)'
      OBVIOUS
    <3>1. ui'.session = s /\ Covered(s)
      BY <1>3, <1>5, <1>6 DEF NoGap
    <3> QED BY <1>1, <1>2, <3>1 DEF Covered, Brought
  <2> QED BY <1>12, <2>2, <2>3, <2>4 DEF NoGap
<1>19. Verdicts'
  <2>1. Judged' = Judged /\ ui'.state \notin WithObs
    BY <1>1, <1>10 DEF Judged, WithObs
  <2> QED BY <1>1, <1>2, <1>3, <1>12, <2>1 DEF Verdicts
<1> QED BY <1>2, <1>8, <1>9, <1>11, <1>13, <1>14, <1>15, <1>16, <1>17, <1>18, <1>19
        DEF WordInv, Typed, SessionInv, UploadInv

\* The page takes an answer: what it says of itself is enough.
LEMMA ReturnKeeps ==
    ASSUME WordInv, op # None, op.kind \in {"load", "save", "clear", "commit"},
           result # "busy", Release, uploader' = uploader, server' = server,
           dropped' = dropped,
           ui'.state \in {"ready", "failed", "saved", "unsaved", "off"},
           UiTyped', CountsTyped', PageSound', NumbersSound',
           ui'.session # NoSession => Covered(ui.session)',
           ui'.state = "saved" => Brought(ui.session.sid, ui.session.next, Elements(Waiting))',
           ui'.state \in WithObs /\ ui'.state # "saved" =>
               ui'.obs.id \notin Judged /\ \A r \in Kept : r.id # ui'.obs.id,
           \A o \in recorded' : o.id \in Judged \/ \E r \in Elements(Waiting) : r.id = o.id
    PROVE  WordInv'
<1>1. /\ todo = <<>> /\ todo' = <<>> /\ op' = None /\ result' = "busy"
      /\ disk' = disk /\ cache' = cache
      /\ DiskTyped' /\ PlanShape' /\ JournalInv'
      /\ Content' = Content /\ Waiting' = Waiting /\ Acked' = Acked /\ Kept' = Kept
      /\ Snapshots' = Snapshots /\ Stored' = Stored /\ Boot' = Boot
      /\ Left = {} /\ Left' = {} /\ ~AckLeft /\ ~ObsLeft /\ ~JournalLeft /\ ~SessionLeft
      /\ ~AckLeft' /\ ~ObsLeft' /\ ~JournalLeft' /\ ~SessionLeft'
      /\ Repaired' <=> Repaired
      /\ \A a : Ends(a) <=> result = a
      /\ \A a \in Answers : ~Ends(a)'
      /\ op'.kind = "none"
  BY ReleaseStays
<1>2. /\ UploaderTyped /\ OpTyped /\ RecordsFit /\ HeadHeld /\ NoGap /\ Verdicts
  BY DEF WordInv, Typed, SessionInv, UploadInv
<1>3. UploaderTyped'
  BY <1>2 DEF UploaderTyped
<1>4. OpTyped'
  <2>1. op' \in Transactions
    BY <1>1 DEF Transactions
  <2>2. uploader.state \notin {"peeking", "acking", "quarantining"}
    BY <1>2 DEF OpTyped
  <2> QED BY <1>1, <2>1, <2>2 DEF OpTyped
<1>5. Committed' <=> ui'.state = "saved"
  BY <1>1 DEF Committed
<1>6. SessionPlan'
  BY <1>1 DEF SessionPlan
<1>7. RecordsFit'
  BY <1>1, <1>2 DEF RecordsFit
<1>8. HeadHeld'
  <2>1. Judged' = Judged /\ (Holding' <=> Holding)
    BY <1>1 DEF Judged, Holding
  <2> QED BY <1>1, <1>2, <2>1 DEF HeadHeld
<1>9. NoGap'
  <2>1. \A x : Covered(x)' <=> Covered(x)
    BY <1>1, SameNumbers
  <2>2. Gapless(Waiting)'
    <3>1. Gapless(Waiting)
      BY <1>2 DEF NoGap
    <3> QED BY <1>1, <3>1 DEF Gapless, Brought
  <2>3. \A x \in Snapshots' : Covered(x)'
    BY <1>1, <1>2, <2>1 DEF NoGap
  <2> QED BY <1>5, <2>2, <2>3 DEF NoGap
<1>10. Verdicts'
  <2>1. Judged' = Judged
    BY DEF Judged
  <2> QED BY <1>1, <1>2, <1>5, <2>1 DEF Verdicts
<1> QED BY <1>1, <1>3, <1>4, <1>6, <1>7, <1>8, <1>9, <1>10
        DEF WordInv, Typed, SessionInv, UploadInv

\* The page gave its session up.
LEMMA SessionClearedKeeps ==
    ASSUME WordInv, SessionCleared
    PROVE  WordInv'
<1>1. /\ op # None /\ op.kind = "clear" /\ result # "busy" /\ Release
      /\ ui' = UiOff /\ uploader' = uploader /\ server' = server
      /\ created' = created /\ recorded' = recorded /\ dropped' = dropped
  BY DEF SessionCleared, Done
<1>2. /\ Waiting' = Waiting /\ Kept' = Kept
      /\ Snapshots' = Snapshots /\ Stored' = Stored /\ Boot' = Boot
  BY <1>1, ReleaseStays
<1>3. CountsTyped /\ NumbersSound /\ Verdicts
  BY DEF WordInv, Typed, SessionInv, UploadInv
<1>4. ui'.state = "off" /\ ui'.session = NoSession /\ ui'.obs = None
      /\ ui' \in [state : {"off"}, session : {NoSession}, obs : {None}]
  BY <1>1 DEF UiOff
<1>5. UiTyped'
  <2>1. created \in [ids : 0..MaxIds, sids : 0..MaxSessions] /\ NoSession.sid = 0
    BY <1>3 DEF CountsTyped, NoSession, Session
  <2> QED BY <1>1, <1>4, <2>1 DEF UiTyped, PageStates, WithObs
<1>6. CountsTyped'
  BY <1>1, <1>3 DEF CountsTyped, Judged
<1>7. PageSound'
  BY <1>4 DEF PageSound, PageStates
<1>8. NumbersSound'
  <2>1. SequenceRecordedOnce'
    BY <1>1, <1>3 DEF NumbersSound, SequenceRecordedOnce
  <2> QED BY <1>1, <1>2, <1>3, <1>4, <2>1 DEF NumbersSound, PageStates
<1>9. \A o \in recorded' : o.id \in Judged \/ \E r \in Elements(Waiting) : r.id = o.id
  BY <1>1, <1>3 DEF Verdicts
<1>10. ui'.state \notin WithObs
  BY <1>4 DEF WithObs
<1> QED BY <1>1, <1>4, <1>5, <1>6, <1>7, <1>8, <1>9, <1>10, ReturnKeeps

\* The page got its session saved, or not.
LEMMA SessionSavedKeeps ==
    ASSUME WordInv, SessionSaved
    PROVE  WordInv'
<1>1. /\ op # None /\ op.kind = "save" /\ result # "busy" /\ Release
      /\ ui' = IF ui.state = "starting"
               THEN IF result = "ok" THEN [ui EXCEPT !.state = "ready"] ELSE UiOff
               ELSE [ui EXCEPT
                        !.state = IF ui.state = "saving" THEN "ready" ELSE "failed",
                        !.session = IF result = "ok" THEN Paged(ui.session) ELSE @]
      /\ uploader' = uploader /\ server' = server /\ created' = created
      /\ recorded' = recorded /\ dropped' = dropped
  BY DEF SessionSaved, Done
<1>2. /\ Waiting' = Waiting /\ Kept' = Kept /\ todo = <<>>
      /\ Snapshots' = Snapshots /\ Stored' = Stored /\ Boot' = Boot
      /\ ~SessionLeft /\ op'.kind = "none"
      /\ \A a : Ends(a) <=> result = a
  BY <1>1, ReleaseStays
<1>3. /\ DiskTyped /\ UiTyped /\ OpTyped /\ CountsTyped /\ SessionPlan /\ PageSound
      /\ NumbersSound /\ NoGap /\ Verdicts /\ JournalSound
  BY DEF WordInv, Typed, SessionInv, UploadInv, JournalInv
<1>4. ui.state \in {"starting", "saving", "savingFailed"} /\ ~Committed
  BY <1>1, <1>3 DEF OpTyped, Committed
<1>5. ui.session \in Sessions /\ ui.session.sid <= created.sids
  BY <1>3, <1>4 DEF UiTyped, PageStates
<1>6. ui = [state |-> ui.state, session |-> ui.session, obs |-> ui.obs]
  BY <1>3 DEF UiTyped
<1>7. /\ ui.session.next \in Nat /\ ui.session.end \in Nat /\ ui.session.sid \in 1..MaxSessions
      /\ ui.session.next <= ui.session.end
      /\ ui.session = [sid |-> ui.session.sid, next |-> ui.session.next,
                       end |-> ui.session.end]
  BY <1>5 DEF Sessions
<1> DEFINE s == IF result = "ok" /\ ui.state # "starting" THEN Paged(ui.session)
                ELSE ui.session
<1>8. s.sid = ui.session.sid /\ s.next = ui.session.next
      /\ s.end \in {ui.session.end, ui.session.end + 1}
      /\ (result = "ok" => s = Saved)
  BY <1>4, <1>7 DEF Paged, Saved
<1>9. \/ /\ ui.state = "starting" /\ result # "ok"
         /\ ui'.state = "off" /\ ui'.session = NoSession /\ ui'.obs = None
         /\ ui' \in [state : {"off"}, session : {NoSession}, obs : {None}]
      \/ /\ ui.state = "savingFailed" /\ ui'.state = "failed"
         /\ ui'.session = s /\ ui'.obs = ui.obs
         /\ ui' \in [state : {"failed"}, session : {s}, obs : {ui.obs}]
      \/ /\ ui.state = "saving" \/ (ui.state = "starting" /\ result = "ok")
         /\ ui'.state = "ready" /\ ui'.session = s /\ ui'.obs = ui.obs
         /\ ui' \in [state : {"ready"}, session : {s}, obs : {ui.obs}]
  <2>1. CASE ui.state = "starting"
    BY <1>1, <1>6, <2>1 DEF UiOff
  <2>2. CASE ui.state # "starting"
    BY <1>1, <1>4, <1>6, <2>2
  <2> QED BY <2>1, <2>2
<1> HIDE DEF s
<1>10. result = "ok" => Stored = s /\ Stored # Absent /\ Stored \in Sessions
  <2> SUFFICES ASSUME result = "ok"
               PROVE  Stored = s /\ Stored # Absent /\ Stored \in Sessions
    OBVIOUS
  <2>1. Stored = s
    BY <1>1, <1>2, <1>3, <1>8 DEF SessionPlan
  <2>2. Stored # Absent
    <3>1. s = [sid |-> s.sid, next |-> s.next, end |-> s.end]
          /\ s.sid \in Nat /\ s.next \in Nat /\ s.end \in Nat
      BY <1>7, <1>8 DEF s, Paged
    <3>2. s \in [sid : Nat, next : Nat, end : Nat]
      BY <3>1
    <3> QED BY <2>1, <3>2, AbsentAssumption
  <2> QED BY <1>3, <2>1, <2>2, SnapshotFacts
<1>11. s \in Sessions
  BY <1>5, <1>10 DEF s
<1>12. ui'.state \in {"off", "ready", "failed"}
       /\ (ui'.state # "off" => ui'.session = s /\ ui'.obs = ui.obs)
  BY <1>9
<1>13. created \in [ids : 0..MaxIds, sids : 0..MaxSessions]
  BY <1>3 DEF CountsTyped
<1>14. UiTyped'
  <2>1. CASE ui'.state = "off"
    <3>1. NoSession.sid = 0
      BY DEF NoSession, Session
    <3> QED BY <1>1, <1>9, <1>13, <2>1, <3>1 DEF UiTyped, PageStates, WithObs
  <2>2. CASE ui'.state = "failed"
    <3>1. ui.state = "savingFailed" /\ ui'.session = s /\ ui'.obs = ui.obs
          /\ ui' \in [state : {"failed"}, session : {s}, obs : {ui.obs}]
      BY <1>9, <2>2
    <3>2. /\ ui.obs \in Observations /\ ui.obs.sid = ui.session.sid
          /\ ui.obs.seq = ui.session.next /\ ui.obs.seq < ui.session.end
          /\ ui.obs.id <= created.ids
      BY <1>3, <3>1 DEF UiTyped, WithObs
    <3>3. ui.obs.seq < s.end
      BY <1>7, <1>8, <3>2
    <3> QED BY <1>1, <1>5, <1>8, <1>11, <2>2, <3>1, <3>2, <3>3
            DEF UiTyped, PageStates, WithObs
  <2>3. CASE ui'.state = "ready"
    <3>1. ui.state \in {"saving", "starting"} /\ ui'.session = s /\ ui'.obs = ui.obs
          /\ ui' \in [state : {"ready"}, session : {s}, obs : {ui.obs}]
      BY <1>9, <2>3
    <3>2. ui.obs = None
      BY <1>3, <3>1 DEF UiTyped, WithObs
    <3> QED BY <1>1, <1>5, <1>8, <1>11, <2>3, <3>1, <3>2 DEF UiTyped, PageStates, WithObs
  <2> QED BY <1>12, <2>1, <2>2, <2>3
<1>15. CountsTyped'
  BY <1>1, <1>3 DEF CountsTyped, Judged
<1>16. ~Committed'
  BY <1>2, <1>12 DEF Committed
<1>17. ui.state = "starting" => \A r \in Kept \cup recorded : r.sid # ui.session.sid
  BY <1>3 DEF NumbersSound
<1>18. PageSound'
  <2> SUFFICES ASSUME ui'.state # "off"
               PROVE  /\ Stored # Absent /\ Stored.sid = s.sid
                      /\ s.sid \notin dropped => Stored.end >= s.end /\ Boot.next = s.next
    BY <1>1, <1>2, <1>12, <1>16 DEF PageSound, PageStates
  <2>1. CASE ui.state # "starting"
    <3>1. /\ Stored # Absent /\ Stored.sid = ui.session.sid
          /\ ui.session.sid \notin dropped =>
                 Stored.end >= ui.session.end /\ Boot.next = ui.session.next
      BY <1>3, <1>4, <2>1 DEF PageSound, PageStates
    <3>2. result # "ok" => s = ui.session
      BY DEF s
    <3>3. result = "ok" => Stored.end >= s.end
      BY <1>10 DEF Sessions
    <3> QED BY <1>8, <3>1, <3>2, <3>3
  <2>2. CASE ui.state = "starting"
    <3>1. result = "ok" /\ Stored = s /\ s = ui.session
      BY <1>9, <1>10, <2>2 DEF s
    <3>2. Kept \in SUBSET Observations /\ Stored # Absent
          /\ Boot.next = NextOf(Stored, Kept)
      BY <1>3, <1>10, <3>1, JournalFacts, SnapshotFacts
    <3>3. \A r \in Kept : r.sid # s.sid
      BY <1>17, <2>2, <3>1
    <3>4. NextOf(s, Kept) = s.next
      <4>1. s.next \in Nat
        BY <1>7, <1>8
      <4> QED BY <1>11, <3>2, <3>3, <4>1, NextIs
    <3>5. s.end >= s.end
      BY <1>11 DEF Sessions
    <3> QED BY <3>1, <3>2, <3>4, <3>5
  <2> QED BY <2>1, <2>2
<1>19. NumbersSound'
  <2>1. ui'.state \in PageStates /\ ui'.session.sid \notin dropped' =>
            \A o \in recorded' : o.sid = ui'.session.sid =>
                o.seq < ui'.session.next \/ (ui'.state = "saved" /\ o = ui'.obs)
    <3>1. CASE ui.state # "starting"
      <4>1. ui.session.sid \notin dropped =>
                \A o \in recorded : o.sid = ui.session.sid => o.seq < ui.session.next
        BY <1>3, <1>4, <3>1 DEF NumbersSound, PageStates
      <4> QED BY <1>1, <1>8, <1>12, <4>1 DEF PageStates
    <3>2. CASE ui.state = "starting"
      BY <1>1, <1>8, <1>12, <1>17, <3>2 DEF PageStates
    <3> QED BY <3>1, <3>2
  <2>2. SequenceRecordedOnce'
    BY <1>1, <1>3 DEF NumbersSound, SequenceRecordedOnce
  <2> QED BY <1>1, <1>2, <1>3, <1>12, <2>1, <2>2 DEF NumbersSound
<1>20. ui'.session # NoSession => Covered(ui.session)'
  <2> SUFFICES ASSUME ui'.session # NoSession
               PROVE  Covered(ui.session)'
    OBVIOUS
  <2>1. ui'.session = s
    BY <1>9
  <2>2. ui.session # NoSession
    BY <1>7 DEF NoSession, Session
  <2>3. Covered(ui.session)
    BY <1>3, <2>2 DEF NoGap
  <2>4. Covered(s)
    BY <1>8, <2>3 DEF Covered
  <2> QED BY <1>1, <1>2, <2>1, <2>4 DEF Covered, Brought
<1>21. \A o \in recorded' : o.id \in Judged \/ \E r \in Elements(Waiting) : r.id = o.id
  BY <1>1, <1>3 DEF Verdicts
<1>22. ui'.state \in WithObs =>
           ui'.obs.id \notin Judged /\ \A r \in Kept : r.id # ui'.obs.id
  <2> SUFFICES ASSUME ui'.state = "failed"
               PROVE  ui'.obs.id \notin Judged /\ \A r \in Kept : r.id # ui'.obs.id
    BY <1>12 DEF WithObs
  <2>1. ui.state = "savingFailed" /\ ui'.obs = ui.obs
    BY <1>9
  <2> QED BY <1>3, <1>4, <2>1 DEF Verdicts, WithObs
<1> QED BY <1>1, <1>12, <1>14, <1>15, <1>18, <1>19, <1>20, <1>21, <1>22, ReturnKeeps

\* The page hears of its commit.
LEMMA CommitReturnedKeeps ==
    ASSUME WordInv, CommitReturned
    PROVE  WordInv'
<1>1. /\ op # None /\ op.kind = "commit" /\ result # "busy" /\ Release
      /\ ui' = [ui EXCEPT !.state = IF result = "ok" THEN "saved" ELSE "unsaved"]
      /\ recorded' = IF result = "ok" THEN recorded \cup {ui.obs} ELSE recorded
      /\ uploader' = uploader /\ server' = server /\ created' = created
      /\ dropped' = dropped
  BY DEF CommitReturned, Done
<1>2. /\ Waiting' = Waiting /\ Kept' = Kept /\ todo = <<>>
      /\ Snapshots' = Snapshots /\ Stored' = Stored /\ Boot' = Boot
      /\ ~ObsLeft /\ op'.kind = "none"
      /\ \A a : Ends(a) <=> result = a
  BY <1>1, ReleaseStays
<1>3. /\ DiskTyped /\ UiTyped /\ OpTyped /\ CountsTyped /\ SessionPlan /\ PageSound
      /\ NumbersSound /\ NoGap /\ Verdicts /\ JournalSound
  BY DEF WordInv, Typed, SessionInv, UploadInv, JournalInv
<1>4. ui.state = "persisting" /\ (Committed <=> result = "ok")
  BY <1>1, <1>2, <1>3 DEF OpTyped, Committed
<1>5. /\ ui.session \in Sessions /\ ui.obs \in Observations /\ ui.obs.seq = ui.session.next
      /\ ui.obs.sid = ui.session.sid /\ ui.obs.seq < ui.session.end
      /\ ui.session.sid <= created.sids /\ ui.obs.id <= created.ids
  BY <1>3, <1>4 DEF UiTyped, PageStates, WithObs
<1>6. ui = [state |-> ui.state, session |-> ui.session, obs |-> ui.obs]
  BY <1>3 DEF UiTyped
<1>7. \/ /\ result = "ok" /\ ui'.state = "saved" /\ ui'.session = ui.session
         /\ ui'.obs = ui.obs
         /\ ui' \in [state : {"saved"}, session : {ui.session}, obs : {ui.obs}]
      \/ /\ result # "ok" /\ ui'.state = "unsaved" /\ ui'.session = ui.session
         /\ ui'.obs = ui.obs
         /\ ui' \in [state : {"unsaved"}, session : {ui.session}, obs : {ui.obs}]
  BY <1>1, <1>6
<1>8. ui'.state \in {"saved", "unsaved"} /\ ui'.session = ui.session /\ ui'.obs = ui.obs
      /\ (ui'.state = "saved" <=> result = "ok")
  BY <1>7
<1>9. UiTyped'
  BY <1>1, <1>5, <1>7, <1>8 DEF UiTyped, PageStates, WithObs
<1>10. CountsTyped'
  <2>1. recorded' \subseteq Observations
    BY <1>1, <1>3, <1>5 DEF CountsTyped
  <2> QED BY <1>1, <1>3, <2>1 DEF CountsTyped, Judged
<1>11. Committed' <=> Committed
  <2>1. Committed' <=> ui'.state = "saved"
    BY <1>2 DEF Committed
  <2> QED BY <1>4, <1>8, <2>1
<1>12. PageSound'
  BY <1>1, <1>2, <1>3, <1>4, <1>8, <1>11 DEF PageSound, PageStates
<1>13. result = "ok" => ui.obs \in Elements(Waiting)
  BY <1>1, <1>3, <1>4 DEF Verdicts
<1>14. /\ Stored # Absent /\ Stored.sid = ui.session.sid
       /\ ui.session.sid \notin dropped =>
              Boot.next = IF Committed THEN ui.session.next + 1 ELSE ui.session.next
  BY <1>3, <1>4 DEF PageSound, PageStates
<1>15. NumbersSound'
  <2>1. \A o \in recorded' : o.sid \notin dropped' =>
            Stored' # Absent /\ Stored'.sid = o.sid /\ o.seq < Boot'.next
    <3>1. result = "ok" /\ ui.session.sid \notin dropped => ui.obs.seq < Boot.next
      BY <1>4, <1>5, <1>14 DEF Sessions
    <3> QED BY <1>1, <1>2, <1>3, <1>5, <1>14, <3>1 DEF NumbersSound
  <2>2. ui.session.sid \notin dropped =>
            \A o \in recorded : o.sid = ui.session.sid => o.seq < ui.session.next
    BY <1>3, <1>4 DEF NumbersSound, PageStates
  <2>3. ui'.state \in PageStates /\ ui'.session.sid \notin dropped' =>
            \A o \in recorded' : o.sid = ui'.session.sid =>
                o.seq < ui'.session.next \/ (ui'.state = "saved" /\ o = ui'.obs)
    BY <1>1, <1>8, <2>2
  <2>4. \A r \in Kept' \cup recorded' : r.id <= created'.ids /\ r.sid <= created'.sids
    BY <1>1, <1>2, <1>3, <1>5 DEF NumbersSound
  <2>5. SequenceRecordedOnce'
    <3>1. SequenceRecordedOnce
      BY <1>3 DEF NumbersSound
    <3>2. \A o \in recorded : o.sid = ui.obs.sid /\ o.sid \notin dropped =>
              o.seq # ui.obs.seq
      <4>1. \A o \in recorded : o.seq \in Nat
        BY <1>3 DEF CountsTyped, Observations, Entries
      <4>2. ui.session.next \in Nat
        BY <1>5 DEF Sessions
      <4> QED BY <1>5, <2>2, <4>1, <4>2
    <3> QED BY <1>1, <3>1, <3>2 DEF SequenceRecordedOnce
  <2>6. ui'.state # "starting"
    BY <1>8
  <2> QED BY <1>1, <1>2, <1>3, <2>1, <2>3, <2>4, <2>5, <2>6 DEF NumbersSound
<1>16. Covered(ui.session)'
  <2>1. ui.session # NoSession
    BY <1>5 DEF NoSession, Session, Sessions
  <2>2. Covered(ui.session)
    BY <1>3, <2>1 DEF NoGap
  <2> QED BY <1>1, <1>2, <1>8, <2>2 DEF Covered, Brought
<1>17. ui'.state = "saved" => Brought(ui.session.sid, ui.session.next, Elements(Waiting))'
  BY <1>1, <1>2, <1>3, <1>4, <1>8 DEF NoGap, Brought
<1>18. ui'.state \in WithObs /\ ui'.state # "saved" =>
           ui'.obs.id \notin Judged /\ \A r \in Kept : r.id # ui'.obs.id
  BY <1>3, <1>4, <1>8 DEF Verdicts, WithObs
<1>19. \A o \in recorded' : o.id \in Judged \/ \E r \in Elements(Waiting) : r.id = o.id
  BY <1>1, <1>3, <1>13 DEF Verdicts
<1> QED BY <1>1, <1>8, <1>9, <1>10, <1>12, <1>15, <1>16, <1>17, <1>18, <1>19, ReturnKeeps

-------------------------------------------------------------------------------
(* Steps that begin a transaction *)

\* What a transaction finds in the journal when it starts.
LEMMA BeginScan ==
    ASSUME WordInv, op = None
    PROVE  /\ todo = <<>> /\ result = "busy"
           /\ Scan # None
           /\ Scan = OutboxScan(Waiting, Acked, Len(Acked), TornTail, FromBackup)
           /\ Scan.loaded /\ Scan.pending = Waiting /\ Scan.acked = Acked
           /\ Scan.acks = Len(Acked) /\ Scan.partialTail = TornTail
           /\ Scan.fromBackup = FromBackup
           /\ SameJournal(Scan)
           /\ cache.loaded => Scan = cache
           /\ Repaired => ~TornTail /\ ~FromBackup /\ Scan = cache
<1>1. DiskTyped /\ JournalSound /\ CacheSound /\ OpTyped
  BY DEF WordInv, Typed, JournalInv
<1>2. todo = <<>> /\ result = "busy"
  BY <1>1 DEF OpTyped
<1>3. ~Installing
  BY <1>2 DEF Installing
<1>4. /\ Waiting \in Seq(Observations) /\ Acked \in Seq(Observations)
      /\ FromBackup \in BOOLEAN /\ TornTail \in BOOLEAN
  BY <1>1, JournalFacts
<1>5. Scan = OutboxScan(Waiting, Acked, Len(Acked), TornTail, FromBackup)
  <2>1. CASE cache.loaded
    <3>1. cache = OutboxScan(Waiting, Acked, Len(Acked), TornTail, FromBackup /\ ~Installing)
      BY <1>1, <2>1 DEF CacheSound
    <3>2. (FromBackup /\ ~Installing) = FromBackup
      BY <1>3, <1>4
    <3> QED BY <2>1, <3>1, <3>2 DEF Scan
  <2>2. CASE ~cache.loaded
    <3>1. BootScan = OutboxScan(Waiting, Acked, Len(Acked), TornTail, FromBackup)
      BY <1>1, BootReads
    <3> QED BY <2>2, <3>1 DEF Scan, BootScan
  <2> QED BY <2>1, <2>2
<1>6. /\ Scan.loaded = TRUE /\ Scan.pending = Waiting /\ Scan.acked = Acked
      /\ Scan.acks = Len(Acked) /\ Scan.partialTail = TornTail
      /\ Scan.fromBackup = FromBackup
  BY <1>5 DEF OutboxScan
<1>7. Scan # None
  <2>1. "kind" \notin DOMAIN Scan /\ "kind" \in DOMAIN None
    BY <1>5 DEF OutboxScan, None
  <2> QED BY <2>1
<1>8. SameJournal(Scan)
  BY <1>4, <1>5, <1>6 DEF SameJournal, Kept
<1>9. cache.loaded => Scan = cache
  BY DEF Scan
<1>10. Repaired => ~TornTail /\ ~FromBackup /\ Scan = cache
  BY <1>6, <1>9 DEF Repaired
<1> QED BY <1>2, <1>5, <1>6, <1>7, <1>8, <1>9, <1>10

\* The head of what waits, found by its name and taken away.
LEMMA HeadTaken ==
    ASSUME NEW w \in Seq(Observations), DistinctIds(w), w # <<>>
    PROVE  /\ Head(w).id \in IdsOf(w)
           /\ Find(w, Head(w).id) = Head(w)
           /\ Without(w, Head(w).id) = Tail(w)
           /\ Head(w) \in Observations /\ Tail(w) \in Seq(Observations)
           /\ Elements(w) = {Head(w)} \cup Elements(Tail(w))
<1> DEFINE id == Head(w).id
           i == PlaceOf(w, id)
<1>1. /\ Len(w) \in Nat \ {0} /\ DOMAIN w = 1..Len(w) /\ Head(w) = w[1] /\ 1 \in 1..Len(w)
      /\ Head(w) \in Observations /\ Tail(w) \in Seq(Observations)
  OBVIOUS
<1>2. id \in IdsOf(w)
  BY <1>1 DEF IdsOf
<1>3. i = 1
  <2>1. \A k \in DOMAIN w : w[k].id = id <=> k = 1
    BY <1>1 DEF DistinctIds
  <2> QED BY <1>1, <2>1 DEF PlaceOf
<1>4. Find(w, id) = Head(w)
  BY <1>1, <1>3 DEF Find
<1>5. Without(w, id) = Tail(w)
  <2> DEFINE first == SubSeq(w, 1, 0)
             rest == SubSeq(w, 2, Len(w))
  <2>1. Without(w, id) = first \o rest
    <3>1. Without(w, id) = SubSeq(w, 1, i - 1) \o SubSeq(w, i + 1, Len(w))
      BY DEF Without, RemoveAt
    <3> HIDE DEF i
    <3>2. i - 1 = 0 /\ i + 1 = 2
      BY <1>3
    <3> QED BY <3>1, <3>2
  <2>2. first = <<>>
    OBVIOUS
  <2>3. rest = Tail(w)
    BY <1>1
  <2>4. <<>> \o Tail(w) = Tail(w)
    BY <1>1
  <2> QED BY <2>1, <2>2, <2>3, <2>4
<1>6. Elements(w) = {Head(w)} \cup Elements(Tail(w))
  BY <1>1, ElementsOf
<1> QED BY <1>1, <1>2, <1>4, <1>5, <1>6

\* The part of a plan that saves the sessions and compacts the journal.
Maintenance(p, data) ==
    /\ Piece(p, 10, 30)
    /\ \A x \in Elements(p) :
           /\ x \in Steps /\ x.file \in {"session", "journal"}
           /\ x.do \in {"removePrimary", "create", "removeBackup", "backup", "install"}
           /\ x.do = "removePrimary" => disk[x.file].primary = Absent
           /\ x.do = "removePrimary" /\ x.file = "journal" => FromBackup
           /\ SessionInstall(x) =>
                  /\ Stored # Absent
                  /\ x.data = Boot \/ (x.data = Stored /\ x.do = "create")
           /\ JournalInstall(x) => x.data = data
    /\ (\E x \in Elements(p) : JournalInstall(x)) =>
           Stored = Boot \/ \E x \in Elements(p) : SessionInstall(x) /\ x.data = Boot

\* Nothing is maintained.
LEMMA NoMaintenance ==
    ASSUME NEW data
    PROVE  Maintenance(<<>>, data) /\ Elements(<<>>) = {}
<1>1. Piece(<<>>, 10, 30) /\ Elements(<<>>) = {}
  BY DEF Piece, Increasing, Chained, Elements
<1> QED BY <1>1 DEF Maintenance

\* The sessions are saved.
LEMMA SavesSessions ==
    ASSUME DiskTyped, JournalSound, NEW scan, SameJournal(scan), NEW data
    PROVE  LET c == CheckpointSessions(scan)
           IN  /\ Maintenance(c, data)
               /\ \A x \in Elements(c) : x.file = "session"
               /\ Stored = Boot \/ \E x \in Elements(c) : SessionInstall(x) /\ x.data = Boot
               /\ \/ disk.session.primary # Absent \/ Stored = Absent
                  \/ \E x \in Elements(c) : SessionInstall(x)
<1> DEFINE c == CheckpointSessions(scan)
<1>1. /\ Piece(c, 10, 20)
      /\ \A x \in Elements(c) :
             /\ x \in Steps /\ x.file = "session"
             /\ x.do \in {"removePrimary", "create", "removeBackup", "backup",
                          "install"}
             /\ x.do = "removePrimary" => disk.session.primary = Absent
             /\ SessionInstall(x) =>
                    /\ Stored # Absent
                    /\ x.data = Boot \/ (x.data = Stored /\ x.do = "create")
      /\ Stored = Boot \/ \E x \in Elements(c) : SessionInstall(x) /\ x.data = Boot
      /\ \/ disk.session.primary # Absent \/ Stored = Absent
         \/ \E x \in Elements(c) : SessionInstall(x)
  BY CheckpointPlan
<1> HIDE DEF c
<1>2. Piece(c, 10, 30)
  BY <1>1, Wider
<1>3. \A x \in Elements(c) : ~JournalInstall(x)
  BY <1>1 DEF JournalInstall
<1>4. Maintenance(c, data)
  BY <1>1, <1>2, <1>3 DEF Maintenance
<1> QED BY <1>1, <1>4 DEF c

\* The sessions are saved and the journal compacted.
LEMMA SavesAndCompacts ==
    ASSUME DiskTyped, JournalSound, NEW scan, SameJournal(scan), scan.fromBackup => FromBackup
    PROVE  LET c == CheckpointSessions(scan) \o CompactCached(scan)
           IN  /\ Maintenance(c, scan.pending)
               /\ \E x \in Elements(c) : JournalInstall(x)
               /\ \/ disk.session.primary # Absent \/ Stored = Absent
                  \/ \E x \in Elements(c) : SessionInstall(x)
<1> DEFINE a == CheckpointSessions(scan)
           b == CompactCached(scan)
           c == a \o b
           data == scan.pending
<1>0. scan.pending \in Seq(Observations)
  BY DEF SameJournal
<1>1. /\ Maintenance(a, data)
      /\ \A x \in Elements(a) : x.file = "session"
      /\ Stored = Boot \/ \E x \in Elements(a) : SessionInstall(x) /\ x.data = Boot
      /\ \/ disk.session.primary # Absent \/ Stored = Absent
         \/ \E x \in Elements(a) : SessionInstall(x)
  BY SavesSessions
<1>2. /\ Piece(b, 20, 30)
      /\ \A x \in Elements(b) :
             /\ x \in Steps /\ x.file = "journal"
             /\ x.do \in {"removePrimary", "create", "removeBackup", "backup",
                          "install"}
             /\ x.do = "removePrimary" => scan.fromBackup
             /\ JournalInstall(x) => x.data = scan.pending
      /\ \E x \in Elements(b) : JournalInstall(x)
  BY <1>0, CompactPlan
<1>3. Piece(a, 10, 20)
  BY CheckpointPlan
<1> HIDE DEF a, b, data
<1>4. Piece(c, 10, 30) /\ Elements(c) = Elements(a) \cup Elements(b)
  BY <1>2, <1>3, Joined
<1>5. FromBackup => disk.journal.primary = Absent
  BY DEF FromBackup
<1> HIDE DEF c
<1>6. \A x \in Elements(b) : ~SessionInstall(x)
  BY <1>2 DEF SessionInstall
<1>7. Maintenance(c, data)
  <2>1. \A x \in Elements(b) :
           /\ x \in Steps /\ x.file \in {"session", "journal"}
           /\ x.do \in {"removePrimary", "create", "removeBackup", "backup", "install"}
           /\ x.do = "removePrimary" => disk[x.file].primary = Absent
           /\ x.do = "removePrimary" /\ x.file = "journal" => FromBackup
           /\ JournalInstall(x) => x.data = data
    BY <1>2, <1>5 DEF data
  <2> QED BY <1>1, <1>4, <1>6, <2>1 DEF Maintenance
<1> QED BY <1>1, <1>2, <1>4, <1>7 DEF c, a, b, data

\* A transaction starts: the disk is as it was, and its plan is what was laid out.
LEMMA Begins ==
    ASSUME WordInv, NEW t \in Transactions, t # None, NEW p, Piece(p, 0, 31),
           NEW answer \in Answers, Start(t, p \o Refuse(answer)), cache' \in {cache, Scan},
           \A x \in Elements(p) :
               /\ x.do = "removePrimary" /\ t.kind # "clear" => disk[x.file].primary = Absent
               /\ x.do = "eraseBackup" /\ x.file = "session" => t.kind = "clear"
               /\ SessionInstall(x) => t.kind # "clear"
    PROVE  /\ op = None /\ todo = <<>> /\ result = "busy"
           /\ disk' = disk /\ op' = t /\ result' = "busy" /\ todo' # <<>>
           /\ Left = {} /\ ~AckLeft /\ ~ObsLeft /\ ~JournalLeft /\ ~SessionLeft
           /\ Left' = Elements(p) \cup {Do("return", "none", answer)}
           /\ \A x \in Elements(p) : x \in Steps /\ x.do # "return"
           /\ DiskTyped' /\ PlanShape' /\ JournalSound' /\ CacheSound'
           /\ Content' = Content /\ Waiting' = Waiting /\ Acked' = Acked /\ Kept' = Kept
           /\ Snapshots' = Snapshots /\ Stored' = Stored /\ Boot' = Boot
           /\ AckLeft' <=> \E x \in Elements(p) : AckAppend(x)
           /\ ObsLeft' <=> \E x \in Elements(p) : ObsAppend(x)
           /\ JournalLeft' <=> \E x \in Elements(p) : JournalInstall(x)
           /\ SessionLeft' <=> \E x \in Elements(p) : SessionInstall(x)
           /\ \A a \in Answers : Ends(a)' <=> a = answer
           /\ \A a \in Answers : ~Ends(a)
           /\ Repaired => Repaired'
           /\ cache' = Scan /\ ~TornTail /\ ~FromBackup => Repaired'
           /\ cache' = Scan => cache'.loaded
<1> DEFINE e == Do("return", "none", answer)
<1>1. op = None /\ op' = t /\ todo' = p \o Refuse(answer) /\ result' = "busy" /\ disk' = disk
  BY DEF Start
<1>2. /\ todo = <<>> /\ result = "busy"
      /\ Scan = OutboxScan(Waiting, Acked, Len(Acked), TornTail, FromBackup)
      /\ Scan.loaded /\ Scan.partialTail = TornTail /\ Scan.fromBackup = FromBackup
      /\ Repaired => ~TornTail /\ ~FromBackup /\ Scan = cache
  BY <1>1, BeginScan
<1>3. /\ Planned(todo') /\ todo' # <<>> /\ Left' = Elements(p) \cup {e}
      /\ \A x \in Elements(p) : x \in Steps /\ x.do # "return"
      /\ p # <<>> => Head1' = p[1]
      /\ p = <<>> => Head1' = e
  <2>1. /\ Planned(p \o Refuse(answer)) /\ p \o Refuse(answer) # <<>>
        /\ Elements(p \o Refuse(answer)) = Elements(p) \cup {Do("return", "none", answer)}
        /\ \A x \in Elements(p) : x \in Steps /\ Rank(x) < 31 /\ x.do # "return"
        /\ p # <<>> => Head(p \o Refuse(answer)) = p[1]
        /\ p = <<>> => Head(p \o Refuse(answer)) = Do("return", "none", answer)
    BY Complete
  <2> QED BY <1>1, <2>1 DEF Left, Head1
<1>4. /\ e.do = "return" /\ e.file = "none" /\ e.data = answer
      /\ ~AckAppend(e) /\ ~ObsAppend(e) /\ ~JournalInstall(e) /\ ~SessionInstall(e)
  BY DEF Do, AckAppend, ObsAppend, JournalInstall, SessionInstall
<1> HIDE DEF e
<1>5. /\ Left = {} /\ ~AckLeft /\ ~ObsLeft /\ ~JournalLeft /\ ~SessionLeft /\ ~Installing
      /\ \A a : Ends(a) <=> result = a
  BY <1>2, NothingLeft
<1>6. /\ Content' = Content /\ Waiting' = Waiting /\ Acked' = Acked
      /\ TornTail' = TornTail /\ FromBackup' = FromBackup /\ Kept' = Kept
      /\ Snapshots' = Snapshots /\ Stored' = Stored /\ Boot' = Boot
      /\ DiskTyped' <=> DiskTyped
      /\ JournalSound' <=> JournalSound
  BY <1>1, DiskStays
<1>7. DiskTyped' /\ JournalSound'
  BY <1>6 DEF WordInv, Typed, JournalInv
<1>8. /\ AckLeft' <=> \E x \in Elements(p) : AckAppend(x)
      /\ ObsLeft' <=> \E x \in Elements(p) : ObsAppend(x)
      /\ JournalLeft' <=> \E x \in Elements(p) : JournalInstall(x)
      /\ SessionLeft' <=> \E x \in Elements(p) : SessionInstall(x)
  BY <1>3, <1>4 DEF AckLeft, ObsLeft, JournalLeft, SessionLeft
<1>9. "busy" \notin Answers
  BY DEF Answers
<1>10. \A a \in Answers : Ends(a)' <=> a = answer
  BY <1>1, <1>3, <1>4, <1>9 DEF Ends
<1>11. \A a \in Answers : ~Ends(a)
  BY <1>2, <1>5, <1>9
<1>12. p # <<>> => p[1].do \notin {"backup", "install", "create"}
  BY DEF Piece
<1>13. Head1'.do \notin {"backup", "install"}
  BY <1>3, <1>4, <1>12
<1>14. PlanShape'
  <2>1. \A x \in Left' :
            /\ x.do = "removePrimary" /\ op'.kind # "clear" => disk'[x.file].primary = Absent
            /\ x.do = "eraseBackup" /\ x.file = "session" => op'.kind = "clear"
    BY <1>1, <1>3, <1>4
  <2>2. op'.kind = "clear" => ~SessionLeft'
    BY <1>1, <1>8
  <2> QED BY <1>3, <1>13, <2>1, <2>2 DEF PlanShape
<1>15. ~Installing'
  BY <1>13 DEF Installing
<1>16. CacheSound'
  <2>1. FromBackup \in BOOLEAN
    BY DEF FromBackup
  <2>2. (FromBackup' /\ ~Installing') = FromBackup
    BY <1>6, <1>15, <2>1
  <2>3. CASE cache' = Scan
    BY <1>2, <1>6, <2>2, <2>3 DEF CacheSound
  <2>4. CASE cache' = cache
    <3>1. CacheSound /\ (FromBackup /\ ~Installing) = FromBackup
      BY <1>5, <2>1 DEF WordInv, JournalInv
    <3> QED BY <1>6, <2>2, <2>4, <3>1 DEF CacheSound
  <2> QED BY <2>3, <2>4
<1>17. Repaired => Repaired'
  BY <1>2 DEF Repaired
<1>18. cache' = Scan /\ ~TornTail /\ ~FromBackup => Repaired'
  BY <1>2 DEF Repaired
<1> QED BY <1>1, <1>2, <1>3, <1>5, <1>6, <1>7, <1>8, <1>10, <1>11, <1>14, <1>16, <1>17, <1>18
        DEF e

\* The transaction is not about the page: the page and what is known of it stay.
LEMMA BeginsAside ==
    ASSUME WordInv, NEW t \in Transactions, t.kind \in {"peek", "prepare", "ack", "quarantine"},
           NEW p, Piece(p, 0, 31),
           NEW answer \in Answers, Start(t, p \o Refuse(answer)), cache' \in {cache, Scan},
           \A x \in Elements(p) :
               /\ x.do = "removePrimary" => disk[x.file].primary = Absent
               /\ ~(x.do = "eraseBackup" /\ x.file = "session")
               /\ ~ObsAppend(x)
               /\ x.file = "journal" => cache'.loaded
               /\ SessionInstall(x) =>
                      Stored # Absent /\ (x.data = Boot \/ (x.data = Stored /\ x.do = "create"))
               /\ AckAppend(x) =>
                      t.kind \in {"ack", "quarantine"} /\ x.data = AckOf(Head(Waiting)),
           \A x \in Elements(p) : JournalInstall(x) =>
               x.data = IF \E y \in Elements(p) : AckAppend(y) THEN Tail(Waiting)
                        ELSE Waiting,
           (\E x \in Elements(p) : AckAppend(x)) =>
               \A x \in Elements(p) : ~(x.do = "removePrimary" /\ x.file = "journal"),
           (\E x \in Elements(p) : JournalInstall(x)) =>
               Stored = Boot \/ \E x \in Elements(p) : SessionInstall(x) /\ x.data = Boot,
           ui' = ui, server' = server, created' = created, recorded' = recorded,
           dropped' = dropped, UploaderTyped', OpTyped', HeadHeld'
    PROVE  WordInv'
<1>0. t # None
  BY DEF None
<1>1. /\ op = None /\ todo = <<>> /\ result = "busy"
      /\ disk' = disk /\ op' = t /\ result' = "busy" /\ todo' # <<>>
      /\ Left = {} /\ ~AckLeft /\ ~ObsLeft /\ ~JournalLeft /\ ~SessionLeft
      /\ Left' = Elements(p) \cup {Do("return", "none", answer)}
      /\ \A x \in Elements(p) : x \in Steps /\ x.do # "return"
      /\ DiskTyped' /\ PlanShape' /\ JournalSound' /\ CacheSound'
      /\ Content' = Content /\ Waiting' = Waiting /\ Acked' = Acked /\ Kept' = Kept
      /\ Snapshots' = Snapshots /\ Stored' = Stored /\ Boot' = Boot
      /\ AckLeft' <=> \E x \in Elements(p) : AckAppend(x)
      /\ ObsLeft' <=> \E x \in Elements(p) : ObsAppend(x)
      /\ JournalLeft' <=> \E x \in Elements(p) : JournalInstall(x)
      /\ SessionLeft' <=> \E x \in Elements(p) : SessionInstall(x)
  BY <1>0, Begins
<1> DEFINE e == Do("return", "none", answer)
<1>2. /\ e.do = "return" /\ e.file = "none"
      /\ ~AckAppend(e) /\ ~ObsAppend(e) /\ ~JournalInstall(e) /\ ~SessionInstall(e)
  BY DEF Do, AckAppend, ObsAppend, JournalInstall, SessionInstall
<1> HIDE DEF e
<1>3. /\ UiTyped /\ OpTyped /\ CountsTyped /\ PageSound /\ RecordsFit /\ NumbersSound
      /\ NoGap /\ Verdicts
  BY DEF WordInv, Typed, SessionInv, UploadInv
<1>4. \A x \in Left' : x \in Elements(p) \/ x = e
  BY <1>1 DEF e
<1>5. ~ObsLeft'
  BY <1>1
<1>6. JournalPlan'
  <2>1. Target' = IF \E y \in Elements(p) : AckAppend(y) THEN Tail(Waiting) ELSE Waiting
    BY <1>1 DEF Target
  <2>2. \A x \in Left' : /\ x.file = "journal" => cache'.loaded
                         /\ JournalInstall(x) => x.data = Target'
                         /\ AckAppend(x) => x.data = AckOf(Head(Waiting'))
                         /\ ~ObsAppend(x)
    BY <1>1, <1>2, <1>4, <2>1
  <2>3. AckLeft' => /\ op'.kind \in {"ack", "quarantine"}
                    /\ \A x \in Left' : ~(x.do = "removePrimary" /\ x.file = "journal")
    BY <1>1, <1>2, <1>4
  <2>4. op'.kind \notin {"save", "clear"}
    BY <1>1
  <2> QED BY <1>5, <2>2, <2>3, <2>4 DEF JournalPlan
<1>7. op'.kind \notin {"load", "save", "clear", "commit"} /\ op.kind = "none"
  BY <1>1 DEF None
<1>8. Committed' <=> Committed
  BY <1>7 DEF Committed
<1>9. SessionPlan'
  <2>1. \A x \in Left' : SessionInstall(x) =>
            Stored' # Absent /\ (x.data = Boot' \/ (x.data = Stored' /\ x.do = "create"))
    BY <1>1, <1>2, <1>4
  <2>2. JournalLeft' => WillBeMoved'
    <3>1. \A x \in Elements(p) : x \in Left'
      BY <1>1
    <3> QED BY <1>1, <3>1 DEF WillBeMoved
  <2> QED BY <1>7, <2>1, <2>2 DEF SessionPlan
<1>10. PageSound' /\ RecordsFit' /\ NumbersSound' /\ NoGap' /\ Verdicts'
  BY <1>1, <1>3, <1>7, <1>8, DataStays
<1>11. UiTyped' /\ CountsTyped'
  BY <1>3 DEF UiTyped, CountsTyped, Judged
<1> QED BY <1>1, <1>6, <1>9, <1>10, <1>11
        DEF WordInv, Typed, JournalInv, SessionInv, UploadInv

\* Nothing added to a plan.
LEMMA NothingAdded ==
    ASSUME NEW p \in Seq(Steps), NEW answer \in Answers
    PROVE  /\ <<>> \o Refuse(answer) = Refuse(answer)
           /\ p \o <<>> = p /\ <<>> \o p = p
           /\ Return = Refuse("ok")
<1>1. Do("return", "none", answer) \in Steps
  BY DEF Do, Steps
<1>2. Refuse(answer) \in Seq(Steps)
  BY <1>1 DEF Refuse
<1>3. \A q \in Seq(Steps) : q \o <<>> = q /\ <<>> \o q = q
  OBVIOUS
<1>4. Return = Refuse("ok")
  BY DEF Return, Refuse
<1> QED BY <1>2, <1>3, <1>4

\* A transaction repairs the journal it found torn or in its backup.
LEMMA RepairPart ==
    ASSUME WordInv, op = None
    PROVE  /\ Maintenance(Repair(Scan), Waiting)
           /\ \/ \E x \in Elements(Repair(Scan)) : JournalInstall(x)
              \/ Repair(Scan) = <<>> /\ ~TornTail /\ ~FromBackup
<1>1. /\ Scan.pending = Waiting /\ Scan.partialTail = TornTail
      /\ Scan.fromBackup = FromBackup /\ SameJournal(Scan)
  BY BeginScan
<1>2. DiskTyped /\ JournalSound
  BY DEF WordInv, Typed, JournalInv
<1>3. CASE TornTail \/ FromBackup
  <2> DEFINE sc == Scan
  <2>1. Repair(sc) = CheckpointSessions(sc) \o CompactCached(sc)
    BY <1>1, <1>3 DEF Repair
  <2>2. SameJournal(sc) /\ (sc.fromBackup => FromBackup) /\ sc.pending = Waiting
    BY <1>1
  <2> HIDE DEF sc
  <2>3. LET c == CheckpointSessions(sc) \o CompactCached(sc)
        IN  Maintenance(c, sc.pending) /\ \E x \in Elements(c) : JournalInstall(x)
    BY <1>2, <2>2, SavesAndCompacts
  <2>4. Maintenance(Repair(sc), Waiting) /\ \E x \in Elements(Repair(sc)) : JournalInstall(x)
    BY <2>1, <2>2, <2>3
  <2> QED BY <2>4 DEF sc
<1>4. CASE ~(TornTail \/ FromBackup)
  <2>1. Repair(Scan) = <<>>
    BY <1>1, <1>4 DEF Repair
  <2> QED BY <1>4, <2>1, NoMaintenance
<1> QED BY <1>3, <1>4

\* No transaction runs: nobody waits for one.
LEMMA NobodyWaits ==
    ASSUME WordInv, op = None
    PROVE  /\ ui.state \notin {"loading", "starting", "saving", "savingFailed", "clearing",
                               "persisting"}
           /\ uploader.state \notin {"peeking", "acking", "quarantining"}
           /\ Committed <=> ui.state = "saved"
           /\ Holding <=> uploader.state \in {"holding", "accepted", "refused"}
           /\ op.kind = "none"
<1>1. op.kind = "none"
  BY DEF None
<1>2. OpTyped
  BY DEF WordInv, Typed
<1>3. /\ ui.state \notin {"loading", "starting", "saving", "savingFailed", "clearing",
                          "persisting"}
      /\ uploader.state \notin {"peeking", "acking", "quarantining"}
  BY <1>1, <1>2 DEF OpTyped
<1> QED BY <1>1, <1>3 DEF Committed, Holding

\* Maintenance alone does not touch what the page or the server knows.
LEMMA HousekeepingKeeps ==
    ASSUME WordInv, NEW p, Maintenance(p, Waiting),
           NEW kind \in {"peek", "prepare"}, NEW answer \in Answers,
           Start([kind |-> kind], p \o Refuse(answer)), cache' \in {cache, Scan},
           \A x \in Elements(p) : x.file = "journal" => cache'.loaded,
           ui' = ui, server' = server, created' = created, recorded' = recorded,
           dropped' = dropped,
           \/ kind = "prepare" /\ uploader' = uploader
           \/ /\ kind = "peek" /\ uploader' = Uploader("peeking", None)
              /\ answer = "ok" =>
                     /\ Waiting # <<>> /\ cache'.loaded
                     /\ \/ \E x \in Elements(p) : JournalInstall(x)
                        \/ cache' = Scan /\ ~TornTail /\ ~FromBackup
    PROVE  WordInv'
<1> DEFINE t == [kind |-> kind]
<1>1. t \in Transactions /\ t.kind = kind /\ t # None
  BY DEF Transactions, None
<1>2. Piece(p, 0, 31)
  BY Wider DEF Maintenance
<1>3. \A x \in Elements(p) :
          /\ x.do = "removePrimary" => disk[x.file].primary = Absent
          /\ ~(x.do = "eraseBackup" /\ x.file = "session")
          /\ ~ObsAppend(x) /\ ~AckAppend(x)
          /\ SessionInstall(x) =>
                 Stored # Absent /\ (x.data = Boot \/ (x.data = Stored /\ x.do = "create"))
          /\ JournalInstall(x) => x.data = Waiting
  BY DEF Maintenance, ObsAppend, AckAppend
<1>4. (\E x \in Elements(p) : JournalInstall(x)) =>
          Stored = Boot \/ \E x \in Elements(p) : SessionInstall(x) /\ x.data = Boot
  BY DEF Maintenance
<1> HIDE DEF t
<1>5. kind # "clear" /\ kind \in {"peek", "prepare", "ack", "quarantine"}
  OBVIOUS
<1>6. Start(t, p \o Refuse(answer))
  BY DEF t
<1>7. /\ op = None /\ op' = t /\ result' = "busy" /\ todo' # <<>>
      /\ Waiting' = Waiting
      /\ AckLeft' <=> \E x \in Elements(p) : AckAppend(x)
      /\ JournalLeft' <=> \E x \in Elements(p) : JournalInstall(x)
      /\ \A a \in Answers : Ends(a)' <=> a = answer
      /\ Repaired => Repaired'
      /\ cache' = Scan /\ ~TornTail /\ ~FromBackup => Repaired'
  BY <1>1, <1>2, <1>3, <1>5, <1>6, Begins
<1>8. /\ ui.state \notin {"loading", "starting", "saving", "savingFailed", "clearing",
                          "persisting"}
      /\ uploader.state \notin {"peeking", "acking", "quarantining"}
      /\ Holding <=> uploader.state \in {"holding", "accepted", "refused"}
  BY <1>7, NobodyWaits
<1>9. OpTyped /\ UploaderTyped /\ HeadHeld
  BY DEF WordInv, Typed, UploadInv
<1>10. "ok" \in Answers
  BY DEF Answers
<1>11. CASE kind = "prepare" /\ uploader' = uploader
  <2>1. UploaderTyped'
    BY <1>9, <1>11 DEF UploaderTyped
  <2>2. OpTyped'
    BY <1>1, <1>7, <1>8, <1>11 DEF OpTyped
  <2>3. HeadHeld'
    <3>1. Holding' => Holding
      BY <1>8, <1>11 DEF Holding
    <3>2. Judged' = Judged
      BY DEF Judged
    <3> QED BY <1>1, <1>7, <1>9, <1>11, <3>1, <3>2 DEF HeadHeld
  <2> QED BY <1>1, <1>2, <1>3, <1>4, <1>5, <1>6, <2>1, <2>2, <2>3, BeginsAside
<1>12. CASE kind = "peek" /\ uploader' = Uploader("peeking", None)
  <2>1. UploaderTyped'
    BY <1>12 DEF UploaderTyped
  <2>2. uploader'.state = "peeking"
    BY <1>12 DEF Uploader
  <2>3. OpTyped'
    BY <1>1, <1>7, <1>8, <1>12, <2>2 DEF OpTyped
  <2>4. HeadHeld'
    BY <1>7, <1>10, <1>12, <2>2 DEF HeadHeld, Holding
  <2> QED BY <1>1, <1>2, <1>3, <1>4, <1>5, <1>6, <2>1, <2>3, <2>4, BeginsAside
<1> QED BY <1>11, <1>12

\* The upload loop asks for the head of the journal.
LEMMA PeekKeeps ==
    ASSUME WordInv, Peek
    PROVE  WordInv'
<1> DEFINE p == Repair(Scan)
           answer == IF Waiting = <<>> THEN "notFound" ELSE "ok"
<1>1. /\ op = None /\ EnsureOutboxCache
      /\ Start([kind |-> "peek"],
               IF Scan = None THEN Refuse("unreadable")
               ELSE Repair(Scan)
                       \o (IF Scan.pending = <<>> THEN Refuse("notFound") ELSE Return))
      /\ uploader' = Uploader("peeking", None)
      /\ ui' = ui /\ server' = server /\ created' = created /\ recorded' = recorded
      /\ dropped' = dropped
  BY DEF Peek, BeginPeek, Start
<1>2. Scan # None /\ Scan.loaded /\ Scan.pending = Waiting
  BY <1>1, BeginScan
<1>3. cache' = Scan
  BY <1>1, <1>2 DEF EnsureOutboxCache
<1>4. Start([kind |-> "peek"], p \o Refuse(answer))
  BY <1>1, <1>2 DEF Return, Refuse
<1>5. /\ Maintenance(p, Waiting)
      /\ \/ \E x \in Elements(p) : JournalInstall(x)
         \/ p = <<>> /\ ~TornTail /\ ~FromBackup
  BY <1>1, RepairPart
<1>6. answer \in Answers /\ (answer = "ok" => Waiting # <<>>)
  BY DEF Answers
<1> HIDE DEF p, answer
<1> QED BY <1>1, <1>2, <1>3, <1>4, <1>5, <1>6, HousekeepingKeeps

\* The journal is made ready for sleep.
LEMMA PrepareKeeps ==
    ASSUME WordInv, PrepareForSleep
    PROVE  WordInv'
<1>1. PICK deadline \in {"none", "passed", "passesInCheckpoint"} : BeginPrepareSleep(deadline)
  BY DEF PrepareForSleep
<1>2. /\ ui' = ui /\ uploader' = uploader /\ server' = server /\ created' = created
      /\ recorded' = recorded /\ dropped' = dropped
  BY DEF PrepareForSleep
<1>3. "ok" \in Answers /\ "unreadable" \in Answers
  BY DEF Answers
<1>4. <<>> \in Seq(Steps)
  OBVIOUS
<1>5. CASE deadline = "passed"
  <2>1. Start([kind |-> "prepare"], Return) /\ cache' = cache
    BY <1>1, <1>5 DEF BeginPrepareSleep
  <2>2. Return = <<>> \o Refuse("ok")
    BY <1>3, <1>4, NothingAdded
  <2>3. Start([kind |-> "prepare"], <<>> \o Refuse("ok"))
    BY <2>1, <2>2
  <2> QED BY <1>2, <1>3, <2>1, <2>3, NoMaintenance, HousekeepingKeeps
<1>6. CASE deadline # "passed"
  <2>1. /\ EnsureOutboxCache
        /\ Start([kind |-> "prepare"],
                 CASE Scan = None -> Refuse("unreadable")
                   [] Scan # None /\ Scan.acks = 0 /\ Repair(Scan) = <<>> -> Return
                   [] OTHER -> CheckpointSessions(Scan)
                                 \o (IF deadline = "none" THEN CompactCached(Scan)
                                     ELSE <<>>)
                                 \o Return)
    BY <1>1, <1>6 DEF BeginPrepareSleep
  <2>2. op = None
    BY <2>1 DEF Start
  <2>3. Scan # None /\ Scan.loaded /\ Scan.pending = Waiting /\ SameJournal(Scan)
        /\ Scan.fromBackup = FromBackup
    BY <2>2, BeginScan
  <2>4. cache' = Scan
    BY <2>1, <2>3 DEF EnsureOutboxCache
  <2>5. DiskTyped /\ JournalSound
    BY DEF WordInv, Typed, JournalInv
  <2> DEFINE a == CheckpointSessions(Scan)
             b == CompactCached(Scan)
             p == IF Scan.acks = 0 /\ Repair(Scan) = <<>> THEN <<>>
                  ELSE a \o (IF deadline = "none" THEN b ELSE <<>>)
  <2>6. Maintenance(a, Waiting)
    BY <2>3, <2>5, SavesSessions
  <2>7. Maintenance(a \o b, Waiting)
    <3> DEFINE sc == Scan
    <3>1. SameJournal(sc) /\ (sc.fromBackup => FromBackup) /\ sc.pending = Waiting
      BY <2>3
    <3> HIDE DEF sc
    <3>2. LET c == CheckpointSessions(sc) \o CompactCached(sc)
          IN  Maintenance(c, sc.pending)
      BY <2>5, <3>1, SavesAndCompacts
    <3> QED BY <3>1, <3>2 DEF sc
  <2>8. a \in Seq(Steps)
    BY <2>6 DEF Maintenance, Piece
  <2> HIDE DEF a, b
  <2>9. a \o <<>> = a /\ Return = Refuse("ok") /\ <<>> \o Refuse("ok") = Refuse("ok")
    BY <1>3, <2>8, NothingAdded
  <2>10. Maintenance(p, Waiting)
    BY <2>6, <2>7, <2>9, NoMaintenance
  <2>11. Start([kind |-> "prepare"], p \o Refuse("ok"))
    BY <2>1, <2>3, <2>9 DEF a, b
  <2> HIDE DEF p
  <2> QED BY <1>2, <1>3, <2>3, <2>4, <2>10, <2>11, HousekeepingKeeps
<1> QED BY <1>5, <1>6

\* The part of a plan that acknowledges the head of the journal.
LEMMA AckPart ==
    ASSUME WordInv, op = None, Repaired, Waiting # <<>>
    PROVE  LET p == AckPlan(Scan, Head(Waiting).id)
               a == Do("append", "journal", AckOf(Head(Waiting)))
               m == MaybeCompact(AfterAck(Scan, Head(Waiting).id))
           IN  /\ Unresolved(Scan, Head(Waiting).id)
               /\ Find(Scan.pending, Head(Waiting).id) = Head(Waiting)
               /\ Head(Waiting) \in Observations
               /\ a \in Steps /\ AckAppend(a)
               /\ Maintenance(m, Tail(Waiting))
               /\ Piece(p, 9, 30) /\ Elements(p) = {a} \cup Elements(m)
<1> DEFINE h == Head(Waiting)
           scan == AfterAck(Scan, h.id)
           a == Do("append", "journal", AckOf(h))
           m == MaybeCompact(scan)
           p == AckPlan(Scan, h.id)
<1>1. /\ Scan # None /\ Scan.pending = Waiting /\ Scan.acked = Acked
      /\ Scan.acks = Len(Acked) /\ Scan.partialTail = TornTail
      /\ Scan.fromBackup = FromBackup /\ ~TornTail /\ ~FromBackup
  BY BeginScan
<1>2. /\ DiskTyped /\ JournalSound
      /\ Waiting \in Seq(Observations) /\ DistinctIds(Waiting) /\ Acked \in Seq(Observations)
  BY JournalFacts DEF WordInv, Typed, JournalInv
<1>3. /\ h.id \in IdsOf(Waiting) /\ Find(Waiting, h.id) = h
      /\ Without(Waiting, h.id) = Tail(Waiting)
      /\ h \in Observations /\ Tail(Waiting) \in Seq(Observations)
      /\ Elements(Waiting) = {h} \cup Elements(Tail(Waiting))
  BY <1>2, HeadTaken
<1> HIDE DEF h
<1>4. scan = OutboxScan(Tail(Waiting), Append(Acked, h), Scan.acks + 1, TornTail, FromBackup)
  BY <1>1, <1>3 DEF AfterAck
<1>5. /\ scan.pending = Tail(Waiting) /\ scan.acked = Append(Acked, h)
      /\ scan.acks = Scan.acks + 1 /\ scan.partialTail = TornTail
      /\ scan.fromBackup = FromBackup
  BY <1>4 DEF OutboxScan
<1> HIDE DEF scan
<1>6. SameJournal(scan)
  <2>1. Append(Acked, h) \in Seq(Observations)
    BY <1>2, <1>3
  <2>2. Elements(Append(Acked, h)) = Elements(Acked) \cup {h}
    BY <1>2, <1>3, ElementsOf
  <2> QED BY <1>3, <1>4, <1>5, <2>1, <2>2 DEF SameJournal, Kept
<1>7. AckOf(h) \in Entries /\ AckOf(h).kind = "ack"
  BY <1>3 DEF AckOf, Observations, Entries
<1>8. a \in Steps /\ AckAppend(a) /\ a.do = "append"
  BY <1>7 DEF Do, Steps, AckAppend
<1>9. Maintenance(m, Tail(Waiting))
  <2>1. CASE scan.acks < AckThreshold
    <3>1. m = <<>>
      BY <2>1 DEF MaybeCompact
    <3> QED BY <3>1, NoMaintenance
  <2>2. CASE ~(scan.acks < AckThreshold)
    <3>1. m = CheckpointSessions(scan) \o CompactCached(scan)
      BY <2>2 DEF MaybeCompact
    <3>2. LET c == CheckpointSessions(scan) \o CompactCached(scan)
          IN  Maintenance(c, scan.pending)
      BY <1>2, <1>5, <1>6, SavesAndCompacts
    <3> QED BY <1>5, <3>1, <3>2
  <2> QED BY <2>1, <2>2
<1>10. Rank(a) = 9
  BY <1>8, Ranks
<1>11. p = <<a>> \o m
  BY <1>1, <1>3 DEF AckPlan, scan
<1> HIDE DEF a, m, p
<1>12. Piece(<<a>>, 9, 10) /\ Elements(<<a>>) = {a}
  <2>1. a \in Steps /\ 9 <= Rank(a) /\ Rank(a) < 10 /\ 9 \in Nat /\ 10 \in Nat
        /\ a.do \notin {"backup", "install", "create", "removeBackup", "removePrimary"}
    BY <1>8, <1>10
  <2> QED BY <2>1, OneStep
<1>13. Piece(m, 10, 30)
  BY <1>9 DEF Maintenance
<1>14. Piece(p, 9, 30) /\ Elements(p) = {a} \cup Elements(m)
  BY <1>11, <1>12, <1>13, Joined
<1>15. Unresolved(Scan, h.id) /\ Find(Scan.pending, h.id) = h
  BY <1>1, <1>3 DEF Unresolved
<1> QED BY <1>3, <1>8, <1>9, <1>14, <1>15 DEF h, a, m, p, scan

\* The upload loop has its head acknowledged, after a copy or not.
LEMMA ResolvingKeeps ==
    ASSUME WordInv, uploader.state \in {"accepted", "refused"},
           NEW kind \in {"ack", "quarantine"}, NEW p, NEW q,
           Piece(q, 0, 9),
           \A x \in Elements(q) : x \in Steps /\ x.file = "rejected"
                                  /\ x.do \notin {"removePrimary", "append", "return"},
           Piece(p, 0, 30),
           Elements(p) = Elements(q) \cup Elements(AckPlan(Scan, uploader.obs.id)),
           Start([kind |-> kind, id |-> uploader.obs.id], p \o Refuse("ok")),
           cache' = Scan,
           uploader' = [uploader EXCEPT !.state = IF kind = "ack" THEN "acking"
                                                  ELSE "quarantining"],
           ui' = ui, server' = server, created' = created, recorded' = recorded,
           dropped' = dropped
    PROVE  WordInv'
<1> DEFINE h == uploader.obs
           t == [kind |-> kind, id |-> h.id]
           a == Do("append", "journal", AckOf(h))
           m == MaybeCompact(AfterAck(Scan, h.id))
<1>1. op = None
  BY DEF Start
<1>2. /\ Waiting \in Seq(Observations) /\ Waiting # <<>> /\ h = Head(Waiting)
      /\ Repaired /\ h \in Observations
  BY HeldFacts
<1>3. /\ a \in Steps /\ AckAppend(a) /\ Maintenance(m, Tail(Waiting))
      /\ Elements(AckPlan(Scan, h.id)) = {a} \cup Elements(m)
  <2>1. LET r == AckPlan(Scan, Head(Waiting).id)
            b == Do("append", "journal", AckOf(Head(Waiting)))
            n == MaybeCompact(AfterAck(Scan, Head(Waiting).id))
        IN  /\ b \in Steps /\ AckAppend(b)
            /\ Maintenance(n, Tail(Waiting))
            /\ Elements(r) = {b} \cup Elements(n)
    BY <1>1, <1>2, AckPart
  <2> QED BY <1>2, <2>1
<1>4. a.do = "append" /\ a.file = "journal" /\ a.data = AckOf(h)
  BY DEF Do
<1>5. t \in Transactions /\ t # None /\ t.kind = kind /\ t.id = h.id
  <2>1. h.id \in 1..MaxIds
    BY <1>2 DEF Observations, Entries
  <2> QED BY <2>1 DEF Transactions, None
<1>6. Elements(p) = Elements(q) \cup ({a} \cup Elements(m))
  BY <1>3
<1>7. Start(t, p \o Refuse("ok"))
  OBVIOUS
<1>8. "ok" \in Answers
  BY DEF Answers
<1>9. Piece(p, 0, 31)
  BY Wider
<1>10. /\ Scan.loaded /\ ~FromBackup /\ ~TornTail
  BY <1>1, <1>2, BeginScan
<1>11. UploaderTyped /\ OpTyped /\ HeadHeld
  BY DEF WordInv, Typed, UploadInv
<1>12. uploader = [state |-> uploader.state, obs |-> h]
  BY <1>11 DEF UploaderTyped, Uploader
<1>13. uploader' = [state |-> IF kind = "ack" THEN "acking" ELSE "quarantining", obs |-> h]
  BY <1>12
<1>14. uploader'.obs = h /\ (uploader'.state = "acking" <=> kind = "ack")
       /\ (uploader'.state = "quarantining" <=> kind = "quarantine")
       /\ uploader'.state \in {"acking", "quarantining"}
  BY <1>13
<1> HIDE DEF h, t, a, m
<1>15. \A x \in Elements(m) :
           /\ x \in Steps /\ x.file \in {"session", "journal"}
           /\ x.do \in {"removePrimary", "create", "removeBackup", "backup", "install"}
           /\ x.do = "removePrimary" => disk[x.file].primary = Absent
           /\ x.do = "removePrimary" /\ x.file = "journal" => FromBackup
           /\ SessionInstall(x) =>
                  /\ Stored # Absent
                  /\ x.data = Boot \/ (x.data = Stored /\ x.do = "create")
           /\ JournalInstall(x) => x.data = Tail(Waiting)
  BY <1>3 DEF Maintenance
<1>16. \A x \in Elements(p) :
           /\ x.do = "removePrimary" => disk[x.file].primary = Absent
           /\ ~(x.do = "eraseBackup" /\ x.file = "session")
           /\ ~ObsAppend(x)
           /\ SessionInstall(x) =>
                  Stored # Absent /\ (x.data = Boot \/ (x.data = Stored /\ x.do = "create"))
           /\ AckAppend(x) => x = a
           /\ JournalInstall(x) => x \in Elements(m)
           /\ ~(x.do = "removePrimary" /\ x.file = "journal")
  <2>1. \A x \in Elements(q) :
           /\ x.do # "removePrimary" /\ ~(x.do = "eraseBackup" /\ x.file = "session")
           /\ ~ObsAppend(x) /\ ~AckAppend(x) /\ ~SessionInstall(x) /\ ~JournalInstall(x)
    BY DEF ObsAppend, AckAppend, SessionInstall, JournalInstall
  <2>2. ~ObsAppend(a) /\ ~SessionInstall(a) /\ ~JournalInstall(a)
    BY <1>3, <1>4 DEF ObsAppend, AckAppend, SessionInstall, JournalInstall
  <2>3. \A x \in Elements(m) : ~ObsAppend(x) /\ ~AckAppend(x)
    BY <1>15 DEF ObsAppend, AckAppend
  <2> QED BY <1>4, <1>6, <1>10, <1>15, <2>1, <2>2, <2>3
<1>17. /\ \E x \in Elements(p) : AckAppend(x)
       /\ \A x \in Elements(p) : AckAppend(x) => x.data = AckOf(Head(Waiting))
       /\ \A x \in Elements(p) : JournalInstall(x) => x.data = Tail(Waiting)
  BY <1>2, <1>3, <1>4, <1>6, <1>15, <1>16
<1>18. (\E x \in Elements(p) : JournalInstall(x)) =>
           Stored = Boot \/ \E x \in Elements(p) : SessionInstall(x) /\ x.data = Boot
  BY <1>3, <1>6, <1>16 DEF Maintenance
<1>19. /\ op' = t /\ result' = "busy" /\ todo' # <<>>
       /\ Waiting' = Waiting
       /\ AckLeft' <=> \E x \in Elements(p) : AckAppend(x)
       /\ Repaired => Repaired'
  BY <1>5, <1>7, <1>8, <1>9, <1>16, Begins
<1>20. ui.state \notin {"loading", "starting", "saving", "savingFailed", "clearing",
                        "persisting"}
  BY <1>1, NobodyWaits
<1>21. UploaderTyped'
  <2>1. \A s \in {"acking", "quarantining"}, o \in Observations :
            [state |-> s, obs |-> o]
                \in [state : {"holding", "accepted", "refused", "acking", "quarantining"},
                    obs : Observations]
    OBVIOUS
  <2>2. h \in Observations
    BY <1>2
  <2>3. uploader' \in [state : {"holding", "accepted", "refused", "acking", "quarantining"},
                       obs : Observations]
    BY <1>13, <2>1, <2>2
  <2> QED BY <2>3 DEF UploaderTyped
<1>22. OpTyped'
  BY <1>5, <1>14, <1>19, <1>20 DEF OpTyped
<1>23. HeadHeld'
  <2>1. h.id \in Judged /\ h.seq < server.next[h.sid]
    BY <1>11 DEF HeadHeld, Holding, h
  <2>2. Judged' = Judged
    BY DEF Judged
  <2> QED BY <1>2, <1>5, <1>14, <1>19, <2>1, <2>2 DEF HeadHeld, Holding
<1>24. t.kind \in {"ack", "quarantine"} /\ t.kind \in {"peek", "prepare", "ack", "quarantine"}
  BY <1>5
<1>25. cache'.loaded
  BY <1>10
<1> QED BY <1>5, <1>7, <1>8, <1>9, <1>16, <1>17, <1>18, <1>21, <1>22, <1>23, <1>24, <1>25,
           BeginsAside

\* The upload loop acknowledges its head, or quarantines it.
LEMMA AcknowledgeKeeps ==
    ASSUME WordInv, Acknowledge \/ Quarantine
    PROVE  WordInv'
<1> DEFINE h == uploader.obs
           a == AckPlan(Scan, h.id)
           r == RejectPlan(h)
<1>1. /\ uploader.state \in {"accepted", "refused"} /\ EnsureOutboxCache /\ op = None
      /\ ui' = ui /\ server' = server /\ created' = created /\ recorded' = recorded
      /\ dropped' = dropped
  BY DEF Acknowledge, Quarantine, BeginAck, BeginQuarantine, Start
<1>2. Waiting # <<>> /\ h = Head(Waiting) /\ Repaired /\ h \in Observations
  BY <1>1, HeldFacts
<1>3. /\ Unresolved(Scan, h.id) /\ Find(Scan.pending, h.id) = h /\ Piece(a, 9, 30)
  <2>1. LET p == AckPlan(Scan, Head(Waiting).id)
        IN  /\ Unresolved(Scan, Head(Waiting).id)
            /\ Find(Scan.pending, Head(Waiting).id) = Head(Waiting)
            /\ Piece(p, 9, 30)
    BY <1>1, <1>2, AckPart
  <2> QED BY <1>2, <2>1
<1>4. Scan # None
  BY <1>1, BeginScan
<1>5. cache' = Scan
  BY <1>1, <1>4 DEF EnsureOutboxCache
<1>6. Return = Refuse("ok")
  BY DEF Return, Refuse
<1>7. Piece(<<>>, 0, 9) /\ Elements(<<>>) = {}
  BY DEF Piece, Increasing, Chained, Elements
<1>8. CASE Acknowledge
  <2>1. /\ Start([kind |-> "ack", id |-> h.id], a \o Refuse("ok"))
        /\ uploader' = [uploader EXCEPT !.state = "acking"]
    BY <1>3, <1>6, <1>8 DEF Acknowledge, BeginAck
  <2> HIDE DEF a
  <2>2. Piece(a, 0, 30)
    BY <1>3, Wider
  <2>3. Elements(a) = Elements(<<>>) \cup Elements(a)
    BY <1>7
  <2>4. \A x \in Elements(<<>>) : x \in Steps /\ x.file = "rejected"
                                  /\ x.do \notin {"removePrimary", "append", "return"}
    BY <1>7
  <2> USE DEF a
  <2> QED BY <1>1, <1>5, <1>7, <2>1, <2>2, <2>3, <2>4, ResolvingKeeps
<1>9. CASE Quarantine
  <2>1. /\ Start([kind |-> "quarantine", id |-> h.id], r \o a \o Refuse("ok"))
        /\ uploader' = [uploader EXCEPT !.state = "quarantining"]
    BY <1>3, <1>6, <1>9 DEF Quarantine, BeginQuarantine
  <2>2. DiskTyped
    BY DEF WordInv, Typed
  <2>3. /\ Piece(r, 0, 9)
        /\ \A x \in Elements(r) :
               x \in Steps /\ x.file = "rejected"
               /\ x.do \notin {"removePrimary", "append", "return"}
    BY <1>2, <2>2, RejectedPlan
  <2> HIDE DEF a, r
  <2>4. Piece(r \o a, 0, 30) /\ Elements(r \o a) = Elements(r) \cup Elements(a)
    BY <1>3, <2>3, Joined
  <2> USE DEF a
  <2> QED BY <1>1, <1>5, <2>1, <2>3, <2>4, ResolvingKeeps
<1> QED BY <1>8, <1>9 DEF Acknowledge, Quarantine

\* The page has its session loaded, saved or cleared.
LEMMA SlotBegins ==
    ASSUME WordInv, NEW t \in Transactions, t.kind \in {"load", "save", "clear"},
           NEW p, Piece(p, 0, 31), NEW answer \in Answers,
           Start(t, p \o Refuse(answer)), cache' \in {cache, Scan},
           uploader' = uploader, server' = server, recorded' = recorded,
           \/ t.kind = "load" /\ ui'.state = "loading"
           \/ t.kind = "save" /\ ui'.state \in {"starting", "saving", "savingFailed"}
           \/ t.kind = "clear" /\ ui'.state = "clearing",
           \A x \in Elements(p) :
               /\ x.do = "removePrimary" /\ t.kind # "clear" => disk[x.file].primary = Absent
               /\ x.do = "eraseBackup" /\ x.file = "session" => t.kind = "clear"
               /\ ~AckAppend(x) /\ ~ObsAppend(x)
               /\ x.file = "journal" => cache'.loaded
               /\ JournalInstall(x) => t.kind = "load" /\ x.data = Waiting
               /\ SessionInstall(x) =>
                      /\ t.kind # "clear"
                      /\ IF t.kind = "save" THEN x.data = Saved'
                         ELSE Stored # Absent
                              /\ (x.data = Boot \/ (x.data = Stored /\ x.do = "create")),
           (\E x \in Elements(p) : JournalInstall(x)) \/ (t.kind = "load" /\ answer = "ok") =>
               Stored = Boot \/ \E x \in Elements(p) : SessionInstall(x) /\ x.data = Boot,
           t.kind = "load" /\ answer = "ok" =>
               disk.session.primary # Absent \/ \E x \in Elements(p) : SessionInstall(x),
           t.kind = "save" => \E x \in Elements(p) : SessionInstall(x),
           UiTyped', CountsTyped', PageSound', RecordsFit', NumbersSound',
           ui'.session # NoSession => Covered(ui.session)',
           ui'.state \in WithObs => ui.state \in WithObs /\ ~Committed /\ ui'.obs = ui.obs
    PROVE  WordInv'
<1>0. t # None
  BY DEF None
<1>1. /\ op = None /\ todo = <<>> /\ result = "busy"
      /\ disk' = disk /\ op' = t /\ result' = "busy" /\ todo' # <<>>
      /\ Left = {} /\ ~AckLeft /\ ~ObsLeft /\ ~JournalLeft /\ ~SessionLeft
      /\ Left' = Elements(p) \cup {Do("return", "none", answer)}
      /\ \A x \in Elements(p) : x \in Steps /\ x.do # "return"
      /\ DiskTyped' /\ PlanShape' /\ JournalSound' /\ CacheSound'
      /\ Content' = Content /\ Waiting' = Waiting /\ Acked' = Acked /\ Kept' = Kept
      /\ Snapshots' = Snapshots /\ Stored' = Stored /\ Boot' = Boot
      /\ AckLeft' <=> \E x \in Elements(p) : AckAppend(x)
      /\ ObsLeft' <=> \E x \in Elements(p) : ObsAppend(x)
      /\ JournalLeft' <=> \E x \in Elements(p) : JournalInstall(x)
      /\ SessionLeft' <=> \E x \in Elements(p) : SessionInstall(x)
      /\ \A a \in Answers : Ends(a)' <=> a = answer
      /\ Repaired => Repaired'
  BY <1>0, Begins
<1> DEFINE e == Do("return", "none", answer)
<1>2. /\ e.do = "return" /\ e.file = "none"
      /\ ~AckAppend(e) /\ ~ObsAppend(e) /\ ~JournalInstall(e) /\ ~SessionInstall(e)
  BY DEF Do, AckAppend, ObsAppend, JournalInstall, SessionInstall
<1> HIDE DEF e
<1>3. \A x \in Left' : x \in Elements(p) \/ x = e
  BY <1>1 DEF e
<1>4. /\ UploaderTyped /\ OpTyped /\ HeadHeld /\ NoGap /\ Verdicts
  BY DEF WordInv, Typed, UploadInv
<1>5. uploader.state \notin {"peeking", "acking", "quarantining"}
  BY <1>1, NobodyWaits
<1>6. "ok" \in Answers
  BY DEF Answers
<1>7. UploaderTyped'
  BY <1>4 DEF UploaderTyped
<1>8. OpTyped'
  <2>1. /\ t.kind = "load" <=> ui'.state = "loading"
        /\ t.kind = "save" <=> ui'.state \in {"starting", "saving", "savingFailed"}
        /\ t.kind = "clear" <=> ui'.state = "clearing"
        /\ ui'.state # "persisting"
        /\ t.kind \notin {"commit", "peek", "ack", "quarantine"}
    OBVIOUS
  <2>2. uploader'.state \notin {"peeking", "acking", "quarantining"}
    BY <1>5
  <2> QED BY <1>0, <1>1, <2>1, <2>2 DEF OpTyped
<1>9. ~Committed'
  BY <1>1 DEF Committed
<1>10. JournalPlan'
  <2>1. Target' = Waiting /\ ~AckLeft' /\ ~ObsLeft'
    BY <1>1 DEF Target
  <2>2. \A x \in Left' : /\ x.file = "journal" => cache'.loaded
                         /\ JournalInstall(x) => x.data = Target' /\ t.kind = "load"
                         /\ ~ObsAppend(x) /\ ~AckAppend(x)
    BY <1>2, <1>3, <2>1
  <2>3. JournalLeft' => t.kind = "load"
    BY <1>1
  <2> QED BY <1>1, <2>1, <2>2, <2>3 DEF JournalPlan
<1>11. SessionPlan'
  <2>1. \A x \in Left' : SessionInstall(x) =>
            IF t.kind = "save" THEN x.data = Saved'
            ELSE Stored # Absent /\ (x.data = Boot \/ (x.data = Stored /\ x.do = "create"))
    BY <1>2, <1>3
  <2>2. \A x \in Elements(p) : x \in Left'
    BY <1>1
  <2>3. JournalLeft' \/ (t.kind = "load" /\ answer = "ok") => WillBeMoved'
    BY <1>1, <2>2 DEF WillBeMoved
  <2>4. Ends("ok")' <=> answer = "ok"
    BY <1>1, <1>6
  <2> QED BY <1>1, <2>1, <2>3, <2>4 DEF SessionPlan
<1>12. HeadHeld'
  <2>1. Holding' => Holding
    BY <1>5 DEF Holding
  <2>2. Judged' = Judged
    BY DEF Judged
  <2> QED BY <1>1, <1>4, <2>1, <2>2 DEF HeadHeld
<1>13. NoGap'
  <2>1. \A x : Covered(x)' <=> Covered(x)
    BY <1>1, SameNumbers
  <2>2. Gapless(Waiting)'
    <3>1. Gapless(Waiting)
      BY <1>4 DEF NoGap
    <3> QED BY <1>1, <3>1 DEF Gapless, Brought
  <2>3. \A x \in Snapshots' : Covered(x)'
    BY <1>1, <1>4, <2>1 DEF NoGap
  <2> QED BY <1>9, <2>2, <2>3 DEF NoGap
<1>14. Verdicts'
  <2>1. Judged' = Judged
    BY DEF Judged
  <2> QED BY <1>1, <1>4, <1>9, <2>1 DEF Verdicts
<1> QED BY <1>1, <1>7, <1>8, <1>10, <1>11, <1>12, <1>13, <1>14
        DEF WordInv, Typed, JournalInv, SessionInv, UploadInv

\* The page is opened.
LEMMA OpenPageKeeps ==
    ASSUME WordInv, OpenPage
    PROVE  WordInv'
<1>1. /\ ui.state = "off" /\ BeginLoadSession /\ ui' = [ui EXCEPT !.state = "loading"]
      /\ uploader' = uploader /\ server' = server /\ created' = created
      /\ recorded' = recorded /\ dropped' = dropped
  BY DEF OpenPage
<1>2. op = None /\ disk' = disk
  BY <1>1 DEF BeginLoadSession, Start
<1>3. /\ DiskTyped /\ UiTyped /\ CountsTyped /\ RecordsFit /\ NumbersSound /\ JournalSound
  BY DEF WordInv, Typed, SessionInv, JournalInv
<1>4. ui.session = NoSession /\ ui.obs = None
      /\ ui = [state |-> ui.state, session |-> ui.session, obs |-> ui.obs]
  BY <1>1, <1>3 DEF UiTyped, PageStates, WithObs
<1>5. /\ ui'.state = "loading" /\ ui'.session = NoSession /\ ui'.obs = None
      /\ ui' \in [state : {"loading"}, session : {NoSession}, obs : {None}]
  BY <1>1, <1>4
<1>6. UiTyped'
  <2>1. created \in [ids : 0..MaxIds, sids : 0..MaxSessions] /\ NoSession.sid = 0
    BY <1>3 DEF CountsTyped, NoSession, Session
  <2> QED BY <1>1, <1>5, <2>1 DEF UiTyped, PageStates, WithObs
<1>7. CountsTyped'
  BY <1>1, <1>3 DEF CountsTyped, Judged
<1>8. Kept' = Kept /\ Snapshots' = Snapshots /\ Stored' = Stored /\ Boot' = Boot
  BY <1>2, DiskStays
<1>9. PageSound' /\ RecordsFit'
  BY <1>1, <1>3, <1>5, <1>8 DEF PageSound, RecordsFit, PageStates
<1>10. NumbersSound'
  <2>1. SequenceRecordedOnce'
    BY <1>1, <1>3 DEF NumbersSound, SequenceRecordedOnce
  <2> QED BY <1>1, <1>3, <1>5, <1>8, <2>1 DEF NumbersSound, PageStates
<1>11. ui'.session = NoSession /\ ui'.state \notin WithObs
  BY <1>5 DEF WithObs
<1> DEFINE t == [kind |-> "load"]
<1>12. t \in Transactions /\ t.kind = "load"
  BY DEF Transactions
<1>13. "ok" \in Answers /\ "notFound" \in Answers /\ <<>> \in Seq(Steps)
  BY DEF Answers
<1>14. CASE Stored = Absent
  <2>1. Start(t, Refuse("notFound")) /\ cache' = cache
    BY <1>1, <1>14 DEF BeginLoadSession, Stored
  <2>2. Start(t, <<>> \o Refuse("notFound"))
    BY <1>13, <2>1, NothingAdded
  <2>3. Piece(<<>>, 0, 31) /\ Elements(<<>>) = {}
    BY DEF Piece, Increasing, Chained, Elements
  <2> HIDE DEF t
  <2>4. "notFound" # "ok" /\ t.kind \in {"load", "save", "clear"}
    BY <1>12
  <2> QED BY <1>1, <1>5, <1>6, <1>7, <1>9, <1>10, <1>11, <1>12, <1>13, <2>1, <2>2, <2>3, <2>4,
             SlotBegins
<1>15. CASE Stored # Absent
  <2> DEFINE a == CheckpointSessions(Scan)
             b == CompactCached(Scan)
             p == a \o (IF Scan.partialTail \/ Scan.fromBackup THEN b ELSE <<>>)
  <2>1. /\ EnsureOutboxCache
        /\ Start(t, IF Scan = None THEN RecoverSession \o Refuse("unreadable")
                    ELSE CheckpointSessions(Scan)
                            \o (IF Scan.partialTail \/ Scan.fromBackup
                                THEN CompactCached(Scan) ELSE <<>>)
                            \o Return)
    BY <1>1, <1>15 DEF BeginLoadSession, Stored
  <2>2. /\ Scan # None /\ Scan.loaded /\ Scan.pending = Waiting /\ SameJournal(Scan)
        /\ Scan.fromBackup = FromBackup
    BY <1>2, BeginScan
  <2>3. cache' = Scan
    BY <2>1, <2>2 DEF EnsureOutboxCache
  <2>4. Return = Refuse("ok")
    BY <1>13, NothingAdded
  <2>5. Start(t, p \o Refuse("ok"))
    BY <2>1, <2>2, <2>4
  <2>6. /\ Maintenance(a, Waiting)
        /\ Stored = Boot \/ \E x \in Elements(a) : SessionInstall(x) /\ x.data = Boot
        /\ disk.session.primary # Absent \/ \E x \in Elements(a) : SessionInstall(x)
    BY <1>3, <1>15, <2>2, SavesSessions
  <2>7. /\ Maintenance(a \o b, Waiting)
        /\ \E x \in Elements(a \o b) : JournalInstall(x)
        /\ disk.session.primary # Absent \/ \E x \in Elements(a \o b) : SessionInstall(x)
    <3> DEFINE sc == Scan
    <3>1. SameJournal(sc) /\ (sc.fromBackup => FromBackup) /\ sc.pending = Waiting
      BY <2>2
    <3> HIDE DEF sc
    <3>2. LET c == CheckpointSessions(sc) \o CompactCached(sc)
          IN  /\ Maintenance(c, sc.pending)
              /\ \E x \in Elements(c) : JournalInstall(x)
              /\ \/ disk.session.primary # Absent \/ Stored = Absent
                 \/ \E x \in Elements(c) : SessionInstall(x)
      BY <1>3, <3>1, SavesAndCompacts
    <3> QED BY <1>15, <3>1, <3>2 DEF sc
  <2>8. Stored = Boot \/ \E x \in Elements(a \o b) : SessionInstall(x) /\ x.data = Boot
    BY <2>7 DEF Maintenance
  <2>9. a \in Seq(Steps)
    BY <2>6 DEF Maintenance, Piece
  <2> HIDE DEF a, b
  <2>10. a \o <<>> = a
    BY <1>13, <2>9, NothingAdded
  <2>11. /\ Maintenance(p, Waiting)
         /\ Stored = Boot \/ \E x \in Elements(p) : SessionInstall(x) /\ x.data = Boot
         /\ disk.session.primary # Absent \/ \E x \in Elements(p) : SessionInstall(x)
    BY <2>6, <2>7, <2>8, <2>10
  <2> HIDE DEF p
  <2>12. Piece(p, 0, 31)
    BY <2>11, Wider DEF Maintenance
  <2>13. \A x \in Elements(p) :
             /\ x.do = "removePrimary" => disk[x.file].primary = Absent
             /\ x.do # "eraseBackup" /\ ~AckAppend(x) /\ ~ObsAppend(x)
             /\ JournalInstall(x) => x.data = Waiting
             /\ SessionInstall(x) =>
                    Stored # Absent
                    /\ (x.data = Boot \/ (x.data = Stored /\ x.do = "create"))
    BY <2>11 DEF Maintenance, AckAppend, ObsAppend
  <2> HIDE DEF t
  <2>14. t.kind \in {"load", "save", "clear"} /\ t.kind \notin {"save", "clear"}
    BY <1>12
  <2> QED BY <1>1, <1>5, <1>6, <1>7, <1>9, <1>10, <1>11, <1>12, <1>13, <2>2, <2>3, <2>5,
             <2>11, <2>12, <2>13, <2>14, SlotBegins
<1> QED BY <1>14, <1>15

\* The plan of a save: the snapshot, then the companion file.
LEMMA SavePart ==
    ASSUME NEW s \in Sessions
    PROVE  LET p == Replace("session", s, FALSE) \o <<Do("cursor", "session", Absent)>>
           IN  /\ Piece(p, 0, 31)
               /\ \A x \in Elements(p) :
                      /\ x.file = "session" /\ ~AckAppend(x) /\ ~ObsAppend(x)
                      /\ x.do \notin {"removePrimary", "eraseBackup"}
                      /\ SessionInstall(x) => x.data = s
               /\ \E x \in Elements(p) : SessionInstall(x)
<1> DEFINE r == Do("removeBackup", "session", Absent)
           b == Do("backup", "session", Absent)
           i == Do("install", "session", s)
           c == Do("cursor", "session", Absent)
           q == <<r, b, i>>
           p == q \o <<c>>
<1>1. /\ r.do = "removeBackup" /\ r.file = "session"
      /\ b.do = "backup" /\ b.file = "session"
      /\ i.do = "install" /\ i.file = "session" /\ i.data = s
      /\ c.do = "cursor" /\ c.file = "session"
      /\ i \in Steps /\ c \in Steps
  BY DEF Do, Steps, Files
<1>2. "session" \in Files /\ FirstOf("session") = 10
  BY DEF Files, FirstOf
<1>3. Rank(c) = 17
  BY <1>1 DEF Rank, AckAppend, ObsAppend, FirstOf, Place
<1>4. Replace("session", s, FALSE) = q
  BY DEF Replace
<1>5. Piece(q, 13, 16) /\ Elements(q) = {r, b, i}
  <2>1. Do("install", "session", s) \in Steps
    BY <1>1
  <2>2. Piece(q, FirstOf("session") + 3, FirstOf("session") + 6) /\ Elements(q) = {r, b, i}
    BY <1>2, <2>1, ReplacePiece
  <2>3. FirstOf("session") + 3 = 13 /\ FirstOf("session") + 6 = 16
    BY <1>2
  <2> QED BY <2>2, <2>3
<1> HIDE DEF r, b, i, c, q
<1>6. Piece(<<c>>, 16, 18) /\ Elements(<<c>>) = {c}
  <2>1. 16 <= Rank(c) /\ Rank(c) < 18
        /\ c.do \notin {"backup", "install", "create", "removeBackup", "removePrimary"}
    BY <1>1, <1>3
  <2> QED BY <1>1, <2>1, OneStep
<1>7. Piece(p, 13, 18) /\ Elements(p) = Elements(q) \cup Elements(<<c>>)
  BY <1>5, <1>6, Joined
<1>8. Elements(p) = {r, b, i, c}
  BY <1>5, <1>6, <1>7
<1> HIDE DEF p
<1>9. Piece(p, 0, 31)
  BY <1>7, Wider
<1>10. \A x \in Elements(p) :
           /\ x.file = "session" /\ ~AckAppend(x) /\ ~ObsAppend(x)
           /\ x.do \notin {"removePrimary", "eraseBackup"}
           /\ SessionInstall(x) => x.data = s
  BY <1>1, <1>8 DEF AckAppend, ObsAppend, SessionInstall
<1>11. SessionInstall(i) /\ i \in Elements(p)
  BY <1>1, <1>8 DEF SessionInstall
<1> QED BY <1>4, <1>9, <1>10, <1>11 DEF p, c

\* Every session that exists is dropped once the slot is replaced or cleared.
LEMMA OldSessions ==
    ASSUME WordInv
    PROVE  /\ \A r \in Kept \cup recorded : r.sid \in 1..created.sids
           /\ \A s \in Snapshots : s.sid \in 1..created.sids
           /\ Stored # Absent => Stored.sid \in 1..created.sids
           /\ created.sids \in 0..MaxSessions /\ created.sids \in Nat
<1>1. DiskTyped /\ JournalSound /\ CountsTyped /\ NumbersSound
  BY DEF WordInv, Typed, JournalInv, SessionInv
<1>2. created.sids \in 0..MaxSessions /\ MaxSessions \in Nat
  BY <1>1, BoundAssumption DEF CountsTyped
<1>3. created.sids \in Nat
  BY <1>2
<1>4. \A r \in Kept \cup recorded : r \in Observations /\ r.sid <= created.sids
  BY <1>1, JournalFacts DEF CountsTyped, NumbersSound
<1>5. \A r \in Observations : r.sid \in 1..MaxSessions
  BY DEF Observations, Entries
<1>6. \A r \in Kept \cup recorded : r.sid \in 1..created.sids
  BY <1>2, <1>3, <1>4, <1>5
<1>7. \A s \in Snapshots : s \in Sessions /\ s.sid <= created.sids
  BY <1>1, SnapshotFacts DEF NumbersSound
<1>8. \A s \in Sessions : s.sid \in 1..MaxSessions
  BY DEF Sessions
<1>9. \A s \in Snapshots : s.sid \in 1..created.sids
  BY <1>2, <1>3, <1>7, <1>8
<1>10. Stored # Absent => Stored \in Snapshots
  BY <1>1, SnapshotFacts
<1> QED BY <1>2, <1>3, <1>6, <1>9, <1>10

\* A session is started.
LEMMA StartSessionKeeps ==
    ASSUME WordInv, StartSession
    PROVE  WordInv'
<1> DEFINE sid == created.sids + 1
           s == Session(sid, 0, 1)
           p == Replace("session", s, FALSE) \o <<Do("cursor", "session", Absent)>>
           t == [kind |-> "save"]
<1>1. /\ ui.state = "off" /\ created.sids < MaxSessions /\ BeginSaveSession(s)
      /\ ui' = [UiOff EXCEPT !.state = "starting", !.session = s]
      /\ created' = [created EXCEPT !.sids = sid]
      /\ dropped' = dropped \cup 1..created.sids
      /\ uploader' = uploader /\ server' = server /\ recorded' = recorded
  BY DEF StartSession
<1>2. /\ Start(t, p \o Return) /\ cache' = cache /\ disk' = disk
  BY <1>1 DEF BeginSaveSession, Start
<1>3. Return = Refuse("ok") /\ "ok" \in Answers
  BY DEF Return, Refuse, Answers
<1>4. Start(t, p \o Refuse("ok"))
  BY <1>2, <1>3
<1>5. /\ DiskTyped /\ UiTyped /\ CountsTyped /\ RecordsFit /\ NumbersSound /\ JournalSound
  BY DEF WordInv, Typed, SessionInv, JournalInv
<1>6. /\ \A r \in Kept \cup recorded : r.sid \in 1..created.sids
      /\ \A x \in Snapshots : x.sid \in 1..created.sids
      /\ Stored # Absent => Stored.sid \in 1..created.sids
      /\ created.sids \in 0..MaxSessions /\ created.sids \in Nat
  BY OldSessions
<1>7. MaxSessions \in Nat /\ MaxIds \in Nat
  BY BoundAssumption
<1>8. /\ s \in Sessions /\ s # NoSession /\ s.sid = sid /\ s.next = 0 /\ s.end = 1
  <2>1. sid \in 1..MaxSessions /\ sid # 0
    BY <1>1, <1>6, <1>7
  <2> HIDE DEF sid
  <2> QED BY <2>1, <1>7 DEF Session, NoSession, Sessions
<1>9. /\ ui' \in [state : {"starting"}, session : {s}, obs : {None}]
      /\ ui'.state = "starting" /\ ui'.session = s /\ ui'.obs = None
  BY <1>1 DEF UiOff
<1>10. /\ created' \in [ids : 0..MaxIds, sids : 0..MaxSessions]
       /\ created'.ids = created.ids /\ created'.sids = sid
  <2>1. created \in [ids : 0..MaxIds, sids : 0..MaxSessions]
    BY <1>5 DEF CountsTyped
  <2>2. sid \in 0..MaxSessions
    BY <1>1, <1>6, <1>7
  <2> HIDE DEF sid
  <2> QED BY <1>1, <2>1, <2>2
<1>11. /\ 1..created.sids \subseteq dropped' /\ sid = created.sids + 1
       /\ 1..sid - 1 = 1..created.sids /\ 1..created.sids \subseteq 1..sid
       /\ sid > created.sids
  BY <1>1, <1>6
<1> HIDE DEF p, s, sid
<1>12. UiTyped'
  <2>1. "starting" \notin PageStates /\ "starting" \notin WithObs
    BY DEF PageStates, WithObs
  <2>2. s = Session(sid, 0, 1)
    BY DEF s
  <2>3. sid <= sid
    BY <1>6, <1>11
  <2>4. ui' \in [state : PageStates \cup {"off", "loading", "starting", "clearing"},
               session : Sessions \cup {NoSession}, obs : Observations \cup {None}]
    BY <1>8, <1>9
  <2> QED BY <1>8, <1>9, <1>10, <2>1, <2>2, <2>3, <2>4 DEF UiTyped
<1>13. CountsTyped'
  <2>1. dropped' \subseteq 1..sid
    <3>1. dropped \subseteq 1..created.sids
      BY <1>5 DEF CountsTyped
    <3> QED BY <1>1, <1>11, <3>1
  <2> QED BY <1>1, <1>5, <1>10, <1>11, <2>1 DEF CountsTyped, Judged
<1>14. Kept' = Kept /\ Snapshots' = Snapshots /\ Stored' = Stored /\ Boot' = Boot
  BY <1>2, DiskStays
<1>15. PageSound'
  BY <1>9 DEF PageSound, PageStates
<1>16. RecordsFit'
  BY <1>6, <1>11, <1>14 DEF RecordsFit
<1>17. NumbersSound'
  <2>1. \A o \in recorded' : o.sid \in dropped'
    BY <1>1, <1>6, <1>11
  <2>2. SequenceRecordedOnce'
    BY <2>1 DEF SequenceRecordedOnce
  <2>3. \A r \in Kept' \cup recorded' :
            r.id <= created'.ids /\ r.sid <= created'.sids /\ r.sid # ui'.session.sid
    <3>1. \A r \in Kept \cup recorded : r.id <= created.ids
      BY <1>5 DEF NumbersSound
    <3>2. \A k \in 1..created.sids : k <= sid /\ k # sid
      BY <1>6, <1>11
    <3> QED BY <1>1, <1>6, <1>8, <1>9, <1>10, <1>14, <3>1, <3>2
  <2>4. \A x \in Snapshots' : x.sid <= created'.sids
    <3>1. \A k \in 1..created.sids : k <= sid
      BY <1>6, <1>11
    <3> QED BY <1>6, <1>10, <1>14, <3>1
  <2>5. ui'.state \notin PageStates
    BY <1>9 DEF PageStates
  <2> QED BY <2>1, <2>2, <2>3, <2>4, <2>5 DEF NumbersSound
<1>18. Covered(ui.session)'
  BY <1>8, <1>9 DEF Covered
<1>19. ui'.state \notin WithObs
  BY <1>9 DEF WithObs
<1>20. Saved' = s
  BY <1>9 DEF Saved
<1>21. /\ Piece(p, 0, 31)
       /\ \A x \in Elements(p) :
              /\ x.file = "session" /\ ~AckAppend(x) /\ ~ObsAppend(x)
              /\ x.do \notin {"removePrimary", "eraseBackup"}
              /\ SessionInstall(x) => x.data = s
       /\ \E x \in Elements(p) : SessionInstall(x)
  BY <1>8, SavePart DEF p
<1>22. \A x \in Elements(p) : ~JournalInstall(x)
  BY <1>21 DEF JournalInstall
<1>23. t \in Transactions /\ t.kind = "save"
  BY DEF Transactions
<1> HIDE DEF t
<1>24. t.kind \in {"load", "save", "clear"} /\ t.kind \notin {"load", "clear"}
  BY <1>23
<1> QED BY <1>1, <1>2, <1>3, <1>4, <1>9, <1>12, <1>13, <1>15, <1>16, <1>17, <1>18, <1>19,
           <1>20, <1>21, <1>22, <1>23, <1>24, SlotBegins

\* A page of candidates is saved.
LEMMA ApplyCandidatePageKeeps ==
    ASSUME WordInv, ApplyCandidatePage
    PROVE  WordInv'
<1> DEFINE s == Paged(ui.session)
           p == Replace("session", s, FALSE) \o <<Do("cursor", "session", Absent)>>
           t == [kind |-> "save"]
<1>1. /\ ui.state \in {"ready", "failed"} /\ ui.session.end < MaxIds /\ BeginSaveSession(s)
      /\ ui' = [ui EXCEPT !.state = IF ui.state = "ready" THEN "saving" ELSE "savingFailed"]
      /\ uploader' = uploader /\ server' = server /\ recorded' = recorded
      /\ created' = created /\ dropped' = dropped
  BY DEF ApplyCandidatePage
<1>2. /\ Start(t, p \o Return) /\ cache' = cache /\ disk' = disk /\ op' = t /\ op = None
  BY <1>1 DEF BeginSaveSession, Start
<1>3. Return = Refuse("ok") /\ "ok" \in Answers
  BY DEF Return, Refuse, Answers
<1>4. Start(t, p \o Refuse("ok"))
  BY <1>2, <1>3
<1>5. /\ DiskTyped /\ UiTyped /\ CountsTyped /\ RecordsFit /\ NumbersSound /\ JournalSound
      /\ PageSound /\ NoGap
  BY DEF WordInv, Typed, SessionInv, JournalInv, UploadInv
<1>6. /\ ui' = [state |-> IF ui.state = "ready" THEN "saving" ELSE "savingFailed",
               session |-> ui.session, obs |-> ui.obs]
      /\ ui.session \in Sessions /\ ui.obs \in Observations \cup {None}
  BY <1>1, <1>5 DEF UiTyped, PageStates
<1>7. /\ ui'.session = ui.session /\ ui'.obs = ui.obs
      /\ ui'.state \in {"saving", "savingFailed"}
      /\ ui'.state = "savingFailed" <=> ui.state = "failed"
  BY <1>1, <1>6
<1>8. s \in Sessions /\ Saved' = s
  <2>1. MaxIds \in Nat
    BY BoundAssumption
  <2>2. s = [ui.session EXCEPT !.end = @ + 1]
    BY DEF Paged
  <2>3. /\ ui.session.end \in Nat /\ ui.session.next \in Nat
        /\ ui.session.next <= ui.session.end /\ ui.session.sid \in 1..MaxSessions
        /\ ui.session = [sid |-> ui.session.sid, next |-> ui.session.next,
                         end |-> ui.session.end]
    BY <1>6 DEF Sessions
  <2>4. s = [sid |-> ui.session.sid, next |-> ui.session.next, end |-> ui.session.end + 1]
    BY <2>2, <2>3
  <2>5. s \in Sessions
    <3>1. /\ ui.session.end + 1 \in Nat /\ ui.session.next <= ui.session.end + 1
          /\ ui.session.end + 1 <= MaxIds
      BY <1>1, <2>1, <2>3
    <3> QED BY <2>3, <2>4, <3>1 DEF Sessions
  <2> QED BY <1>7, <2>5 DEF Saved, Paged
<1> HIDE DEF p, s
<1>9. UiTyped'
  <2>1. ui' \in [state : PageStates \cup {"off", "loading", "starting", "clearing"},
               session : Sessions \cup {NoSession}, obs : Observations \cup {None}]
    BY <1>6 DEF PageStates
  <2>2. ui'.state \in PageStates /\ (ui'.state \in WithObs <=> ui.state \in WithObs)
    BY <1>1, <1>7 DEF PageStates, WithObs
  <2>3. ui.state \notin {"starting", "clearing"} /\ ui'.state \notin {"starting", "clearing"}
    BY <1>1, <1>7
  <2> QED BY <1>1, <1>5, <1>6, <1>7, <2>1, <2>2, <2>3 DEF UiTyped
<1>10. CountsTyped'
  BY <1>1, <1>5 DEF CountsTyped, Judged
<1>11. Kept' = Kept /\ Snapshots' = Snapshots /\ Stored' = Stored /\ Boot' = Boot
       /\ Waiting' = Waiting
  BY <1>2, DiskStays
<1>12. ~Committed
  BY <1>1, <1>2, NobodyWaits
<1>13. ~Committed'
  BY <1>2, <1>7 DEF Committed
<1>14. PageSound'
  <2>1. ui.state \in PageStates
    BY <1>1 DEF PageStates
  <2> QED BY <1>1, <1>5, <1>7, <1>11, <1>12, <1>13, <2>1 DEF PageSound
<1>15. RecordsFit'
  BY <1>1, <1>5, <1>11 DEF RecordsFit
<1>16. NumbersSound'
  <2>1. SequenceRecordedOnce'
    BY <1>1, <1>5 DEF NumbersSound, SequenceRecordedOnce
  <2>2. ui.state \in PageStates /\ ui.state # "saved" /\ ui'.state # "starting"
    BY <1>1, <1>7 DEF PageStates
  <2> QED BY <1>1, <1>5, <1>7, <1>11, <2>1, <2>2 DEF NumbersSound
<1>17. Covered(ui.session)'
  <2>1. ui.session # NoSession
    BY <1>1, <1>6 DEF Sessions, NoSession, Session
  <2>2. Covered(ui.session)
    BY <1>5, <2>1 DEF NoGap
  <2> QED BY <1>1, <1>7, <1>11, <2>2 DEF Covered, Brought
<1>18. ui'.state \in WithObs => ui.state \in WithObs /\ ~Committed /\ ui'.obs = ui.obs
  BY <1>1, <1>7, <1>12 DEF WithObs
<1>19. /\ Piece(p, 0, 31)
       /\ \A x \in Elements(p) :
              /\ x.file = "session" /\ ~AckAppend(x) /\ ~ObsAppend(x)
              /\ x.do \notin {"removePrimary", "eraseBackup"}
              /\ SessionInstall(x) => x.data = s
       /\ \E x \in Elements(p) : SessionInstall(x)
  BY <1>8, SavePart DEF p
<1>20. \A x \in Elements(p) : ~JournalInstall(x)
  BY <1>19 DEF JournalInstall
<1>21. t \in Transactions /\ t.kind = "save"
  BY DEF Transactions
<1> HIDE DEF t
<1>22. t.kind \in {"load", "save", "clear"} /\ t.kind \notin {"load", "clear"}
  BY <1>21
<1>23. ui'.state \in {"starting", "saving", "savingFailed"}
  BY <1>7
<1> QED BY <1>1, <1>2, <1>3, <1>4, <1>8, <1>9, <1>10, <1>14, <1>15, <1>16, <1>17, <1>18, <1>19,
           <1>20, <1>21, <1>22, <1>23, SlotBegins

\* The plan of a clear: both copies of the slot go.
LEMMA ClearPart ==
    LET p == <<Do("removePrimary", "session", Absent), Do("eraseBackup", "session", Absent)>>
    IN  /\ Piece(p, 0, 31)
        /\ Elements(p) = {Do("removePrimary", "session", Absent),
                          Do("eraseBackup", "session", Absent)}
<1> DEFINE x == Do("removePrimary", "session", Absent)
           y == Do("eraseBackup", "session", Absent)
           p == <<x, y>>
<1>1. /\ x.do = "removePrimary" /\ x.file = "session"
      /\ y.do = "eraseBackup" /\ y.file = "session"
      /\ x \in Steps /\ y \in Steps
  BY DEF Do, Steps
<1>2. Rank(x) = 11 /\ Rank(y) = 16
  BY <1>1 DEF Rank, AckAppend, ObsAppend, FirstOf, Place
<1> HIDE DEF x, y
<1>3. /\ p \in Seq(Steps) /\ Len(p) = 2 /\ p[1] = x /\ p[2] = y
      /\ Elements(p) = {x, y}
  <2>1. x \in Steps /\ y \in Steps
    BY <1>1
  <2> QED BY <2>1, ShortLists
<1> HIDE DEF p
<1>4. Increasing(p)
  BY <1>2, <1>3 DEF Increasing
<1>5. Chained(p)
  BY <1>1, <1>3 DEF Chained, Follows
<1>6. Piece(p, 0, 31)
  BY <1>1, <1>2, <1>3, <1>4, <1>5 DEF Piece
<1> QED BY <1>3, <1>6 DEF p, x, y

\* The slot is cleared.
LEMMA ClearSessionKeeps ==
    ASSUME WordInv, ClearSession
    PROVE  WordInv'
<1> DEFINE p == <<Do("removePrimary", "session", Absent), Do("eraseBackup", "session", Absent)>>
           t == [kind |-> "clear"]
<1>1. /\ ui.state \in {"ready", "failed"} /\ BeginClearSession
      /\ ui' = [UiOff EXCEPT !.state = "clearing"]
      /\ uploader' = uploader /\ server' = server /\ recorded' = recorded
      /\ created' = created /\ dropped' = dropped \cup 1..created.sids
  BY DEF ClearSession
<1>2. /\ Start(t, p \o Return) /\ cache' = cache /\ disk' = disk
  BY <1>1 DEF BeginClearSession, Start
<1>3. Return = Refuse("ok") /\ "ok" \in Answers
  BY DEF Return, Refuse, Answers
<1>4. Start(t, p \o Refuse("ok"))
  BY <1>2, <1>3
<1>5. /\ DiskTyped /\ UiTyped /\ CountsTyped /\ RecordsFit /\ NumbersSound /\ JournalSound
  BY DEF WordInv, Typed, SessionInv, JournalInv
<1>6. /\ \A r \in Kept \cup recorded : r.sid \in 1..created.sids
      /\ \A x \in Snapshots : x.sid \in 1..created.sids
      /\ Stored # Absent => Stored.sid \in 1..created.sids
      /\ created.sids \in 0..MaxSessions /\ created.sids \in Nat
  BY OldSessions
<1>7. /\ ui' \in [state : {"clearing"}, session : {NoSession}, obs : {None}]
      /\ ui'.state = "clearing" /\ ui'.session = NoSession /\ ui'.obs = None
  BY <1>1 DEF UiOff
<1>8. 1..created.sids \subseteq dropped'
  BY <1>1
<1>9. UiTyped'
  <2>1. ui'.state \notin PageStates \cup {"starting"} /\ ui'.state \notin WithObs
    BY <1>7 DEF PageStates, WithObs
  <2>2. NoSession.sid <= created.sids
    BY <1>6 DEF NoSession, Session
  <2>3. ui' \in [state : PageStates \cup {"off", "loading", "starting", "clearing"},
               session : Sessions \cup {NoSession}, obs : Observations \cup {None}]
    BY <1>7
  <2> QED BY <1>1, <1>7, <1>8, <2>1, <2>2, <2>3 DEF UiTyped
<1>10. CountsTyped'
  BY <1>1, <1>5 DEF CountsTyped, Judged
<1>11. Kept' = Kept /\ Snapshots' = Snapshots /\ Stored' = Stored /\ Boot' = Boot
  BY <1>2, DiskStays
<1>12. PageSound'
  BY <1>7 DEF PageSound, PageStates
<1>13. RecordsFit'
  BY <1>6, <1>8, <1>11 DEF RecordsFit
<1>14. NumbersSound'
  <2>1. \A o \in recorded' : o.sid \in dropped'
    BY <1>1, <1>6, <1>8
  <2>2. SequenceRecordedOnce'
    BY <2>1 DEF SequenceRecordedOnce
  <2>3. ui'.state \notin PageStates /\ ui'.state # "starting"
    BY <1>7 DEF PageStates
  <2> QED BY <1>1, <1>5, <1>11, <2>1, <2>2, <2>3 DEF NumbersSound
<1>15. ui'.state \notin WithObs
  BY <1>7 DEF WithObs
<1>16. /\ Piece(p, 0, 31)
       /\ Elements(p) = {Do("removePrimary", "session", Absent),
                         Do("eraseBackup", "session", Absent)}
  BY ClearPart
<1>17. \A x \in Elements(p) :
           /\ ~AckAppend(x) /\ ~ObsAppend(x) /\ ~JournalInstall(x) /\ ~SessionInstall(x)
           /\ x.file = "session"
  BY <1>16 DEF Do, AckAppend, ObsAppend, JournalInstall, SessionInstall
<1> HIDE DEF p
<1>18. t \in Transactions /\ t.kind = "clear"
  BY DEF Transactions
<1> HIDE DEF t
<1>19. t.kind \in {"load", "save", "clear"} /\ t.kind \notin {"load", "save"}
  BY <1>18
<1> QED BY <1>1, <1>2, <1>3, <1>4, <1>7, <1>9, <1>10, <1>12, <1>13, <1>14, <1>15, <1>16, <1>17,
           <1>18, <1>19, SlotBegins

\* The commit of the observation of the page begins.
LEMMA CommitBegins ==
    ASSUME WordInv, ui.state = "committing", NEW p, Piece(p, 0, 31), NEW answer \in Answers,
           Start([kind |-> "commit", obs |-> ui.obs], p \o Refuse(answer)), cache' = Scan,
           ui' = [ui EXCEPT !.state = "persisting"], uploader' = uploader, server' = server,
           created' = created, recorded' = recorded, dropped' = dropped,
           \A x \in Elements(p) :
               /\ x.do = "removePrimary" => disk[x.file].primary = Absent
               /\ x.do # "eraseBackup" /\ ~AckAppend(x)
               /\ ObsAppend(x) => x.data = ui.obs
               /\ JournalInstall(x) => x.data = Waiting
               /\ SessionInstall(x) =>
                      Stored # Absent /\ (x.data = Boot \/ (x.data = Stored /\ x.do = "create")),
           (\E x \in Elements(p) : JournalInstall(x)) =>
               Stored = Boot \/ \E x \in Elements(p) : SessionInstall(x) /\ x.data = Boot,
           answer = "ok" <=> \E x \in Elements(p) : ObsAppend(x),
           answer = "ok" => /\ Len(Waiting) < Capacity
                            /\ \/ \E x \in Elements(p) : JournalInstall(x)
                               \/ ~TornTail /\ ~FromBackup
    PROVE  WordInv'
<1> DEFINE t == [kind |-> "commit", obs |-> ui.obs]
<1>1. /\ DiskTyped /\ UiTyped /\ CountsTyped /\ RecordsFit /\ NumbersSound /\ JournalSound
      /\ PageSound /\ UploaderTyped /\ OpTyped /\ HeadHeld /\ NoGap /\ Verdicts
  BY DEF WordInv, Typed, SessionInv, JournalInv, UploadInv
<1>2. ui.state \in PageStates /\ ui.state \in WithObs /\ ui.obs \in Observations
  BY <1>1 DEF UiTyped, PageStates, WithObs
<1>3. t \in Transactions /\ t # None /\ t.kind = "commit" /\ t.obs = ui.obs
  BY <1>2 DEF Transactions, None
<1>4. Start(t, p \o Refuse(answer))
  OBVIOUS
<1> HIDE DEF t
<1>5. /\ op = None /\ todo = <<>> /\ result = "busy"
      /\ disk' = disk /\ op' = t /\ result' = "busy" /\ todo' # <<>>
      /\ Left = {} /\ ~AckLeft /\ ~ObsLeft /\ ~JournalLeft /\ ~SessionLeft
      /\ Left' = Elements(p) \cup {Do("return", "none", answer)}
      /\ \A x \in Elements(p) : x \in Steps /\ x.do # "return"
      /\ DiskTyped' /\ PlanShape' /\ JournalSound' /\ CacheSound'
      /\ Content' = Content /\ Waiting' = Waiting /\ Acked' = Acked /\ Kept' = Kept
      /\ Snapshots' = Snapshots /\ Stored' = Stored /\ Boot' = Boot
      /\ AckLeft' <=> \E x \in Elements(p) : AckAppend(x)
      /\ ObsLeft' <=> \E x \in Elements(p) : ObsAppend(x)
      /\ JournalLeft' <=> \E x \in Elements(p) : JournalInstall(x)
      /\ SessionLeft' <=> \E x \in Elements(p) : SessionInstall(x)
      /\ \A a \in Answers : Ends(a)' <=> a = answer
      /\ Repaired => Repaired'
      /\ cache' = Scan /\ ~TornTail /\ ~FromBackup => Repaired'
      /\ cache' = Scan => cache'.loaded
  <2>1. cache' \in {cache, Scan}
    OBVIOUS
  <2>2. \A x \in Elements(p) :
            /\ x.do = "removePrimary" /\ t.kind # "clear" => disk[x.file].primary = Absent
            /\ x.do = "eraseBackup" /\ x.file = "session" => t.kind = "clear"
            /\ SessionInstall(x) => t.kind # "clear"
    BY <1>3
  <2> QED BY <1>3, <1>4, <2>1, <2>2, Begins
<1> DEFINE e == Do("return", "none", answer)
<1>6. /\ e.do = "return" /\ e.file = "none"
      /\ ~AckAppend(e) /\ ~ObsAppend(e) /\ ~JournalInstall(e) /\ ~SessionInstall(e)
  BY DEF Do, AckAppend, ObsAppend, JournalInstall, SessionInstall
<1> HIDE DEF e
<1>7. \A x \in Left' : x \in Elements(p) \/ x = e
  BY <1>5 DEF e
<1>8. uploader.state \notin {"peeking", "acking", "quarantining"} /\ ~Committed
  BY <1>5, NobodyWaits
<1>9. "ok" \in Answers
  BY DEF Answers
<1>10. /\ ui' = [state |-> "persisting", session |-> ui.session, obs |-> ui.obs]
       /\ ui'.session = ui.session /\ ui'.obs = ui.obs /\ ui'.state = "persisting"
       /\ ui.session \in Sessions
  BY <1>1, <1>2 DEF UiTyped
<1>11. ~Committed'
  <2>1. Ends("ok")' => ObsLeft'
    BY <1>5, <1>9
  <2> QED BY <1>10, <2>1 DEF Committed
<1>12. UiTyped'
  <2>1. ui' \in [state : PageStates \cup {"off", "loading", "starting", "clearing"},
               session : Sessions \cup {NoSession}, obs : Observations \cup {None}]
    BY <1>2, <1>10 DEF PageStates
  <2>2. ui'.state \in PageStates /\ ui'.state \in WithObs
    BY <1>10 DEF PageStates, WithObs
  <2> QED BY <1>1, <1>2, <1>10, <2>1, <2>2 DEF UiTyped
<1>13. UploaderTyped' /\ CountsTyped'
  BY <1>1 DEF UploaderTyped, CountsTyped, Judged
<1>14. OpTyped'
  <2>1. uploader'.state \notin {"peeking", "acking", "quarantining"}
    BY <1>8
  <2>2. /\ t.kind \notin {"load", "save", "clear", "peek", "ack", "quarantine"}
        /\ ui'.state \notin {"loading", "starting", "saving", "savingFailed", "clearing"}
    BY <1>3, <1>10
  <2> QED BY <1>3, <1>5, <1>10, <2>1, <2>2 DEF OpTyped
<1>15. JournalPlan'
  <2>1. Target' = Waiting /\ ~AckLeft'
    BY <1>5 DEF Target
  <2>2. \A x \in Left' : /\ JournalInstall(x) => x.data = Target'
                         /\ ObsAppend(x) => x.data = ui.obs
                         /\ ~AckAppend(x)
    BY <1>6, <1>7, <2>1
  <2>3. cache'.loaded
    BY <1>5
  <2>4. ObsLeft' => Ends("ok")' /\ Len(Waiting) < Capacity
    BY <1>5, <1>9
  <2>5. ObsLeft' /\ ~JournalLeft' => Repaired'
    BY <1>5
  <2> QED BY <1>3, <1>5, <2>1, <2>2, <2>3, <2>4, <2>5 DEF JournalPlan
<1>16. SessionPlan'
  <2>1. \A x \in Left' : SessionInstall(x) =>
            Stored # Absent /\ (x.data = Boot \/ (x.data = Stored /\ x.do = "create"))
    BY <1>6, <1>7
  <2>2. \A x \in Elements(p) : x \in Left'
    BY <1>5
  <2>3. JournalLeft' => WillBeMoved'
    BY <1>5, <2>2 DEF WillBeMoved
  <2>4. op'.kind = "commit"
    BY <1>3, <1>5
  <2> QED BY <1>5, <1>11, <2>1, <2>3, <2>4 DEF SessionPlan
<1>17. PageSound'
  <2>1. ui.state \in PageStates => Stored # Absent /\ Stored.sid = ui.session.sid
    BY <1>1 DEF PageSound
  <2> QED BY <1>1, <1>2, <1>5, <1>8, <1>10, <1>11, <2>1 DEF PageSound
<1>18. RecordsFit'
  BY <1>1, <1>5 DEF RecordsFit
<1>19. NumbersSound'
  <2>1. SequenceRecordedOnce'
    BY <1>1 DEF NumbersSound, SequenceRecordedOnce
  <2>2. ui'.state # "starting" /\ ui.state # "saved"
    BY <1>10
  <2> QED BY <1>1, <1>2, <1>5, <1>10, <2>1, <2>2 DEF NumbersSound
<1>20. HeadHeld'
  <2>1. Holding' => Holding
    BY <1>8 DEF Holding
  <2>2. Judged' = Judged
    BY DEF Judged
  <2>3. op'.kind # "peek"
    BY <1>3, <1>5
  <2> QED BY <1>1, <1>5, <2>1, <2>2, <2>3 DEF HeadHeld
<1>21. NoGap'
  <2>1. \A x : Covered(x)' <=> Covered(x)
    BY <1>5, SameNumbers
  <2>2. Gapless(Waiting)'
    <3>1. Gapless(Waiting)
      BY <1>1 DEF NoGap
    <3> QED BY <1>5, <3>1 DEF Gapless, Brought
  <2>3. \A x \in Snapshots' : Covered(x)'
    BY <1>1, <1>5, <2>1 DEF NoGap
  <2>4. ui'.session # NoSession => Covered(ui.session)'
    <3>1. ui.session # NoSession => Covered(ui.session)
      BY <1>1 DEF NoGap
    <3> QED BY <1>5, <1>10, <3>1 DEF Covered, Brought
  <2> QED BY <1>11, <2>2, <2>3, <2>4 DEF NoGap
<1>22. Verdicts'
  <2>1. Judged' = Judged
    BY DEF Judged
  <2>2. ui.obs.id \notin Judged /\ \A r \in Kept : r.id # ui.obs.id
    BY <1>1, <1>2, <1>8 DEF Verdicts
  <2> QED BY <1>1, <1>5, <1>10, <1>11, <2>1, <2>2 DEF Verdicts
<1> QED BY <1>5, <1>12, <1>13, <1>14, <1>15, <1>16, <1>17, <1>18, <1>19, <1>20, <1>21, <1>22
        DEF WordInv, Typed, JournalInv, SessionInv, UploadInv

\* The observation of the page is committed.
LEMMA CommitObservationKeeps ==
    ASSUME WordInv, CommitObservation
    PROVE  WordInv'
<1>1. /\ ui.state = "committing"
      /\ BeginCommit(ui.obs, [ui.session EXCEPT !.next = ui.obs.seq + 1])
      /\ ui' = [ui EXCEPT !.state = "persisting"] /\ uploader' = uploader
      /\ server' = server /\ created' = created /\ recorded' = recorded /\ dropped' = dropped
  BY DEF CommitObservation
<1>2. op = None
  BY <1>1 DEF BeginCommit, Start
<1>3. /\ DiskTyped /\ UiTyped /\ JournalSound /\ Verdicts
  BY DEF WordInv, Typed, JournalInv, UploadInv
<1>4. ui.state \in WithObs /\ ui.obs \in Observations
  BY <1>1, <1>3 DEF UiTyped, PageStates, WithObs
<1>5. ~Committed
  BY <1>1, <1>2, NobodyWaits
<1>6. /\ Scan # None /\ Scan.loaded /\ Scan.pending = Waiting /\ Scan.acked = Acked
  BY <1>2, BeginScan
<1>7. cache' = Scan
  BY <1>1, <1>6 DEF BeginCommit, EnsureOutboxCache
<1>8. Waiting \in Seq(Observations) /\ Acked \in Seq(Observations) /\ Len(Waiting) \in Nat
      /\ Capacity \in Nat
  BY <1>3, JournalFacts
<1>9. ui.obs.id \notin IdsOf(Scan.pending \o Scan.acked)
  <2>1. Elements(Waiting \o Acked) = Kept
    <3>1. ui.obs \in Observations
      BY <1>4
    <3>2. Elements(Waiting \o Acked) = Elements(Waiting) \cup Elements(Acked)
      BY <1>8, <3>1, ElementsOf
    <3> QED BY <3>2 DEF Kept
  <2>2. \A r \in Kept : r.id # ui.obs.id
    BY <1>3, <1>4, <1>5 DEF Verdicts
  <2> DEFINE w == Waiting \o Acked
  <2>3. w \in Seq(Observations)
    BY <1>8
  <2>4. Scan.pending \o Scan.acked = w
    BY <1>6
  <2> HIDE DEF w
  <2>5. \A i \in DOMAIN w : w[i] \in Elements(w)
    BY <2>3 DEF Elements
  <2> QED BY <2>1, <2>2, <2>4, <2>5 DEF IdsOf, w
<1> DEFINE t == [kind |-> "commit", obs |-> ui.obs]
           a == Do("append", "journal", ui.obs)
           p == Repair(Scan) \o <<a>>
<1>10. "ok" \in Answers /\ "full" \in Answers /\ <<>> \in Seq(Steps) /\ Return = Refuse("ok")
  BY DEF Answers, Return, Refuse
<1>11. CASE Len(Waiting) >= Capacity
  <2>1. Start(t, Refuse("full"))
    BY <1>1, <1>6, <1>9, <1>11 DEF BeginCommit
  <2>2. <<>> \o Refuse("full") = Refuse("full")
    BY <1>10, NothingAdded
  <2>3. Start(t, <<>> \o Refuse("full"))
    BY <2>1, <2>2
  <2>4. Piece(<<>>, 0, 31) /\ Elements(<<>>) = {} /\ "full" # "ok"
    BY DEF Piece, Increasing, Chained, Elements
  <2> HIDE DEF t
  <2> QED BY <1>1, <1>7, <1>10, <2>3, <2>4, CommitBegins DEF t
<1>12. CASE ~(Len(Waiting) >= Capacity)
  <2>1. Start(t, Repair(Scan) \o <<a>> \o Return)
    BY <1>1, <1>6, <1>9, <1>12 DEF BeginCommit
  <2>2. Start(t, p \o Refuse("ok"))
    BY <1>10, <2>1
  <2>3. /\ Maintenance(Repair(Scan), Waiting)
        /\ \/ \E x \in Elements(Repair(Scan)) : JournalInstall(x)
           \/ Repair(Scan) = <<>> /\ ~TornTail /\ ~FromBackup
    BY <1>2, RepairPart
  <2>4. /\ a \in Steps /\ a.do = "append" /\ a.file = "journal" /\ a.data = ui.obs
        /\ a.data.kind = "obs"
    BY <1>4 DEF Do, Steps, Observations
  <2> HIDE DEF a
  <2>5. ObsAppend(a) /\ ~AckAppend(a) /\ ~JournalInstall(a) /\ ~SessionInstall(a)
    BY <2>4 DEF ObsAppend, AckAppend, JournalInstall, SessionInstall
  <2>6. Rank(a) = 30
    BY <2>4, <2>5, Ranks
  <2>7. Piece(<<a>>, 30, 31) /\ Elements(<<a>>) = {a}
    <3>1. 30 <= Rank(a) /\ Rank(a) < 31
          /\ a.do \notin {"backup", "install", "create", "removeBackup", "removePrimary"}
      BY <2>4, <2>6
    <3> QED BY <2>4, <3>1, OneStep
  <2> DEFINE r == Repair(Scan)
  <2>8. Piece(r, 10, 30)
    BY <2>3 DEF Maintenance
  <2> HIDE DEF r
  <2>9. Piece(r \o <<a>>, 10, 31) /\ Elements(r \o <<a>>) = Elements(r) \cup Elements(<<a>>)
    BY <2>7, <2>8, Joined
  <2>10. p = r \o <<a>>
    BY DEF r
  <2> HIDE DEF p
  <2>11. Piece(p, 0, 31) /\ Elements(p) = Elements(r) \cup {a}
    <3>1. Piece(p, 10, 31)
      BY <2>9, <2>10
    <3> QED BY <2>7, <2>9, <2>10, <3>1, Wider
  <2>12. \A x \in Elements(r) :
             /\ x.do = "removePrimary" => disk[x.file].primary = Absent
             /\ x.do \notin {"eraseBackup", "append"}
             /\ SessionInstall(x) =>
                    Stored # Absent /\ (x.data = Boot \/ (x.data = Stored /\ x.do = "create"))
             /\ JournalInstall(x) => x.data = Waiting
    BY <2>3 DEF Maintenance, r
  <2>13. \A x \in Elements(p) :
             /\ x.do = "removePrimary" => disk[x.file].primary = Absent
             /\ x.do # "eraseBackup" /\ ~AckAppend(x)
             /\ ObsAppend(x) => x.data = ui.obs
             /\ SessionInstall(x) =>
                    Stored # Absent /\ (x.data = Boot \/ (x.data = Stored /\ x.do = "create"))
             /\ JournalInstall(x) => x.data = Waiting
    BY <2>4, <2>5, <2>11, <2>12 DEF ObsAppend, AckAppend
  <2>14. (\E x \in Elements(p) : JournalInstall(x)) =>
             Stored = Boot \/ \E x \in Elements(p) : SessionInstall(x) /\ x.data = Boot
    <3>1. (\E x \in Elements(r) : JournalInstall(x)) =>
              Stored = Boot \/ \E x \in Elements(r) : SessionInstall(x) /\ x.data = Boot
      BY <2>3 DEF Maintenance, r
    <3> QED BY <2>5, <2>11, <3>1
  <2>15. \E x \in Elements(p) : ObsAppend(x)
    BY <2>5, <2>11
  <2>16. (\E x \in Elements(p) : JournalInstall(x)) \/ (~TornTail /\ ~FromBackup)
    BY <2>3, <2>11 DEF r
  <2>17. Len(Waiting) < Capacity
    BY <1>8, <1>12
  <2> HIDE DEF t
  <2> QED BY <1>1, <1>7, <1>10, <2>2, <2>11, <2>13, <2>14, <2>15, <2>16, <2>17, CommitBegins
          DEF t
<1> QED BY <1>11, <1>12

-------------------------------------------------------------------------------
(* Steps of a file operation *)

\* The first step of the plan is done: those behind it are left, in their order.
LEMMA HeadDone ==
    ASSUME WordInv, todo # <<>>, Head1.do # "return", todo' = Tail(todo), result' = result
    PROVE  /\ op # None /\ result = "busy" /\ Head1 \in Steps /\ Head1 \in Left
           /\ todo' # <<>> /\ Planned(todo)'
           /\ Left = {Head1} \cup Left' /\ Left \in SUBSET Steps
           /\ \A x \in Left' : Rank(Head1) < Rank(x)
           /\ Head1' \in Left' /\ Follows(Head1, Head1')
           /\ \A a : Ends(a)' <=> Ends(a)
<1>1. Planned(todo) /\ OpTyped
  BY DEF WordInv, Typed, PlanShape
<1>2. todo \in Seq(Steps) /\ Chained(todo) /\ Increasing(todo) /\ todo[Len(todo)].do = "return"
  BY <1>1 DEF Planned
<1>3. Head1 = todo[1] /\ Len(todo) \in Nat \ {0}
  BY <1>2 DEF Head1
<1>4. Len(todo) # 1
  BY <1>2, <1>3
<1>5. /\ todo' \in Seq(Steps) /\ Len(todo') = Len(todo) - 1 /\ todo' # <<>>
      /\ \A i \in 1..Len(todo) - 1 : todo'[i] = todo[i + 1]
  BY <1>2, <1>3, <1>4, SMTT(30)
<1> DEFINE q == Tail(todo)
<1>6. q = todo' /\ Len(q) = Len(todo) - 1 /\ Len(q) \in Nat \ {0}
  BY <1>3, <1>4, <1>5
<1>7. Chained(q)
  <2>1. \A k \in 1..Len(q) - 1 : k + 1 \in 1..Len(todo) - 1 /\ k \in 1..Len(todo) - 1
    BY <1>3, <1>6
  <2> QED BY <1>2, <1>5, <1>6, <2>1 DEF Chained
<1>8. Increasing(q)
  <2>1. \A k \in 1..Len(q) : k + 1 \in 1..Len(todo) /\ k \in 1..Len(todo) - 1
    BY <1>3, <1>6
  <2>2. \A j, k \in 1..Len(q) : j < k => j + 1 < k + 1
    BY <1>6
  <2> QED BY <1>2, <1>5, <1>6, <2>1, <2>2 DEF Increasing
<1>9. q[Len(q)].do = "return"
  <2>1. Len(q) \in 1..Len(todo) - 1 /\ Len(q) + 1 = Len(todo)
    BY <1>3, <1>6
  <2> QED BY <1>2, <1>5, <1>6, <2>1
<1>10. Planned(q)
  BY <1>5, <1>6, <1>7, <1>8, <1>9 DEF Planned
<1>11. Planned(todo)'
  <2>1. \A s : s = q => Planned(s)
    BY <1>10
  <2> QED BY <1>6, <2>1 DEF Planned, Chained, Increasing
<1>12. Left = {Head1} \cup Elements(q) /\ Head1 \in Left /\ Left \in SUBSET Steps
  <2>1. Head1 \in Steps
    BY <1>2, <1>3
  <2>2. /\ Elements(todo) \in SUBSET Steps /\ Head(todo) \in Elements(todo)
        /\ Elements(todo) = {Head(todo)} \cup Elements(Tail(todo))
    BY <1>2, <2>1, ElementsOf
  <2> QED BY <2>2 DEF Left, Head1
<1>13. Left' = Elements(q)
  BY DEF Left, Elements
<1>14. \A x \in Left' : Rank(Head1) < Rank(x)
  <2>1. \A i \in 1..Len(q) : Rank(Head1) < Rank(q[i])
    <3>1. \A i \in 1..Len(q) : i + 1 \in 1..Len(todo) /\ i \in 1..Len(todo) - 1 /\ 1 < i + 1
                               /\ 1 \in 1..Len(todo)
      BY <1>3, <1>6
    <3> QED BY <1>2, <1>3, <1>5, <1>6, <3>1 DEF Increasing
  <2> QED BY <1>13, <2>1 DEF Elements
<1>0. \A n \in Nat \ {0} : n # 1 => 1 \in 1..n - 1
  OBVIOUS
<1>15. Head1' = q[1] /\ q[1] = todo[2]
  <2>1. Head1' = todo'[1]
    BY <1>5 DEF Head1
  <2>2. 1 \in 1..Len(todo) - 1 /\ 1 + 1 = 2
    BY <1>3, <1>4, <1>0
  <2> QED BY <1>5, <1>6, <2>1, <2>2
<1>16. Head1' \in Left' /\ Follows(Head1, Head1')
  <2>1. 1 \in 1..Len(q)
    BY <1>6
  <2>2. Head1' \in Left'
    BY <1>13, <1>15, <2>1 DEF Elements
  <2>3. 1 \in 1..Len(todo) - 1 /\ 1 + 1 = 2
    BY <1>3, <1>4, <1>0
  <2>4. Follows(todo[1], todo[2])
    BY <1>2, <2>3 DEF Chained
  <2> QED BY <1>3, <1>15, <2>2, <2>4
<1>17. \A a : Ends(a)' <=> Ends(a)
  <2>1. \A x \in Left : x = Head1 \/ x \in Left'
    BY <1>12, <1>13
  <2>2. \A x \in Left' : x \in Left
    BY <1>12, <1>13
  <2> QED BY <2>1, <2>2 DEF Ends
<1>18. op # None /\ result = "busy"
  BY <1>1 DEF OpTyped
<1> QED BY <1>2, <1>3, <1>5, <1>11, <1>12, <1>13, <1>14, <1>16, <1>17, <1>18

\* A step that changes neither what a reboot reads nor the cache keeps the invariant: what
\* is left is what was, but for a rotation that became a creation.
LEMMA QuietKeeps ==
    ASSUME WordInv, cache' = cache, op' = op, ui' = ui, uploader' = uploader,
           server' = server, created' = created, recorded' = recorded, dropped' = dropped,
           OpTyped', DiskTyped', PlanShape',
           Content' = Content, Stored' = Stored, Snapshots' \in SUBSET Snapshots,
           (FromBackup /\ ~Installing)' <=> (FromBackup /\ ~Installing),
           Ends("ok")' <=> Ends("ok"),
           \A x \in Left' : \E y \in Left :
               /\ x.file = y.file /\ x.data = y.data
               /\ x.do = y.do \/ (y.do = "install" /\ x.do = "create"),
           \A y \in Left : y.do = "append" => y \in Left',
           \A y \in Left : SessionInstall(y) \/ JournalInstall(y) =>
               \E x \in Left' : x.file = y.file /\ x.data = y.data
                                /\ x.do \in {"install", "create"},
           disk.session.primary # Absent => (disk.session.primary # Absent)' \/ SessionLeft'
    PROVE  WordInv' /\ Waiting' = Waiting
<1>1. /\ UiTyped /\ UploaderTyped /\ CountsTyped /\ JournalSound /\ CacheSound /\ JournalPlan
      /\ SessionPlan /\ PageSound /\ RecordsFit /\ NumbersSound
      /\ HeadHeld /\ NoGap /\ Verdicts
  BY DEF WordInv, Typed, JournalInv, SessionInv, UploadInv
<1>2. /\ Waiting' = Waiting /\ Acked' = Acked /\ TornTail' = TornTail
      /\ Kept' = Kept /\ Boot' = Boot /\ JournalSound'
  <2>1. Waiting' = Waiting /\ Acked' = Acked /\ TornTail' = TornTail
    BY DEF Waiting, Acked, TornTail
  <2>2. Kept' = Kept
    BY <2>1 DEF Kept
  <2>3. Boot' = Boot
    BY <2>2 DEF Boot
  <2> QED BY <1>1, <2>1, <2>2, <2>3 DEF JournalSound
<1>3. CacheSound'
  BY <1>1, <1>2 DEF CacheSound
<1>4. /\ \A x \in Left' : \E y \in Left :
             /\ SessionInstall(x) => SessionInstall(y) /\ x.data = y.data
                                     /\ (y.do = "create" => x.do = "create")
             /\ JournalInstall(x) => JournalInstall(y) /\ x.data = y.data
             /\ x.file = y.file /\ (AckAppend(x) => x.data = y.data /\ AckAppend(y))
             /\ ObsAppend(x) => x.data = y.data /\ ObsAppend(y)
             /\ x.do = "removePrimary" => y.do = "removePrimary"
             /\ y.do = "return" => x.do = "return"
      /\ \A y \in Left : SessionInstall(y) => \E x \in Left' : SessionInstall(x)
                                                               /\ x.data = y.data
      /\ \A y \in Left : JournalInstall(y) => \E x \in Left' : JournalInstall(x)
      /\ \A y \in Left : AckAppend(y) \/ ObsAppend(y) => y \in Left'
  BY DEF SessionInstall, JournalInstall, AckAppend, ObsAppend
<1>5. /\ AckLeft' <=> AckLeft
      /\ ObsLeft' <=> ObsLeft
      /\ JournalLeft' <=> JournalLeft
      /\ SessionLeft' <=> SessionLeft
  BY <1>4 DEF AckLeft, ObsLeft, JournalLeft, SessionLeft
<1>6. Repaired' <=> Repaired
  BY DEF Repaired
<1>7. Committed' <=> Committed
  BY <1>5 DEF Committed
<1>8. JournalPlan'
  <2>1. Target' = Target
    BY <1>2, <1>5 DEF Target
  <2>2. \A x \in Left' :
            /\ x.file = "journal" => cache.loaded
            /\ JournalInstall(x) => x.data = Target
            /\ AckAppend(x) => x.data = AckOf(Head(Waiting))
            /\ ObsAppend(x) => x.data = op.obs
    BY <1>1, <1>4 DEF JournalPlan
  <2>3. AckLeft => \A x \in Left' : ~(x.do = "removePrimary" /\ x.file = "journal")
    BY <1>1, <1>4 DEF JournalPlan
  <2> QED BY <1>1, <1>2, <1>5, <1>6, <2>1, <2>2, <2>3 DEF JournalPlan
<1>9. WillBeMoved' <=> WillBeMoved
  <2>1. (\E x \in Left' : SessionInstall(x) /\ x.data = Boot)
            <=> (\E x \in Left : SessionInstall(x) /\ x.data = Boot)
    BY <1>4
  <2> QED BY <1>2, <2>1 DEF WillBeMoved
<1>10. SessionPlan'
  <2>1. Saved' = Saved
    BY DEF Saved
  <2>2. \A x \in Left' : SessionInstall(x) =>
            IF op.kind = "save" THEN x.data = Saved
            ELSE Stored # Absent /\ (x.data = Boot \/ (x.data = Stored /\ x.do = "create"))
    BY <1>1, <1>4 DEF SessionPlan
  <2>3. op.kind = "load" /\ Ends("ok")' => (disk.session.primary # Absent)' \/ SessionLeft'
    BY <1>1, <1>5 DEF SessionPlan
  <2>4. op.kind = "commit" /\ Committed => \A x \in Left' : x.do = "return"
    BY <1>1, <1>4 DEF SessionPlan
  <2>5. op.kind = "save" /\ Ends("ok") /\ ~SessionLeft => Stored = Saved
    BY <1>1 DEF SessionPlan
  <2>6. JournalLeft \/ (op.kind = "load" /\ Ends("ok")) => WillBeMoved
    BY <1>1 DEF SessionPlan
  <2> QED BY <1>2, <1>5, <1>7, <1>9, <2>1, <2>2, <2>3, <2>4, <2>5, <2>6 DEF SessionPlan
<1>11. PageSound' /\ RecordsFit' /\ NumbersSound' /\ NoGap' /\ Verdicts'
  <2>1. op'.kind = "commit" /\ Committed => op.kind = "commit"
    OBVIOUS
  <2> QED BY <1>1, <1>2, <1>7, <2>1, DataStays
<1>12. HeadHeld'
  <2>1. Holding' <=> Holding
    BY <1>5 DEF Holding
  <2>2. Judged' = Judged
    BY DEF Judged
  <2> QED BY <1>1, <1>2, <1>5, <1>6, <2>1, <2>2 DEF HeadHeld
<1>13. UiTyped' /\ UploaderTyped' /\ CountsTyped'
  BY <1>1 DEF UiTyped, UploaderTyped, CountsTyped, Judged
<1> QED BY <1>2, <1>3, <1>8, <1>10, <1>11, <1>12, <1>13
        DEF WordInv, Typed, JournalInv, SessionInv, UploadInv

\* One file gets another pair of copies.
LEMMA SlotChanged ==
    ASSUME DiskTyped, NEW f \in Files, NEW pair, disk' = [disk EXCEPT ![f] = pair],
           f = "journal" => pair \in Pairs(Seq(Entries \cup {Torn})),
           f = "session" => pair \in Pairs(Sessions),
           f = "rejected" => pair \in Pairs(Seq(Nat))
    PROVE  /\ DiskTyped' /\ disk'[f] = pair
           /\ \A g \in Files : g # f => disk'[g] = disk[g]
           /\ f # "journal" => Content' = Content /\ (FromBackup' <=> FromBackup)
           /\ f # "session" => Stored' = Stored /\ Snapshots' = Snapshots
<1>1. disk = [journal |-> disk.journal, session |-> disk.session, rejected |-> disk.rejected]
  BY DEF DiskTyped
<1>2. DOMAIN disk = Files
  BY <1>1 DEF Files
<1>3. disk'[f] = pair /\ \A g \in Files : g # f => disk'[g] = disk[g]
  BY <1>2
<1>4. /\ disk'.journal \in Pairs(Seq(Entries \cup {Torn}))
      /\ disk'.session \in Pairs(Sessions)
      /\ disk'.rejected \in Pairs(Seq(Nat))
  BY <1>3 DEF DiskTyped, Files
<1>5. disk' = [journal |-> disk'.journal, session |-> disk'.session,
               rejected |-> disk'.rejected]
  BY <1>1, <1>2 DEF Files
<1>6. DiskTyped'
  BY <1>4, <1>5 DEF DiskTyped
<1>7. f # "journal" => disk'.journal = disk.journal
  BY <1>3 DEF Files
<1>8. f # "session" => disk'.session = disk.session
  BY <1>3 DEF Files
<1>9. f # "journal" => Content' = Content /\ (FromBackup' <=> FromBackup)
  BY <1>7 DEF Content, FromBackup
<1>10. f # "session" => Stored' = Stored /\ Snapshots' = Snapshots
  BY <1>8 DEF Stored, Snapshots
<1> QED BY <1>3, <1>6, <1>9, <1>10

\* The copies of a file are a pair.
LEMMA SlotTyped ==
    ASSUME DiskTyped, NEW f \in Files
    PROVE  /\ disk[f] = [primary |-> disk[f].primary, backup |-> disk[f].backup]
           /\ f = "journal" => disk[f] \in Pairs(Seq(Entries \cup {Torn}))
           /\ f = "session" => disk[f] \in Pairs(Sessions)
           /\ f = "rejected" => disk[f] \in Pairs(Seq(Nat))
<1>1. /\ f = "journal" => disk[f] \in Pairs(Seq(Entries \cup {Torn}))
      /\ f = "session" => disk[f] \in Pairs(Sessions)
      /\ f = "rejected" => disk[f] \in Pairs(Seq(Nat))
  BY DEF DiskTyped
<1>2. f \in {"journal", "session", "rejected"}
  BY DEF Files
<1>3. \A c : \A pair \in Pairs(c) : pair = [primary |-> pair.primary, backup |-> pair.backup]
  BY DEF Pairs
<1> QED BY <1>1, <1>2, <1>3

\* A step that only leaves the plan shorter.
LEMMA TailKeeps ==
    ASSUME WordInv, todo # <<>>, Head1.do \notin {"return", "append"},
           ~SessionInstall(Head1), ~JournalInstall(Head1), Continue, cache' = cache,
           ui' = ui, uploader' = uploader, server' = server, created' = created,
           recorded' = recorded, dropped' = dropped, DiskTyped',
           Content' = Content, Stored' = Stored, Snapshots' \in SUBSET Snapshots,
           (FromBackup /\ ~Installing)' <=> (FromBackup /\ ~Installing),
           (Head1.do = "backup" => Slot.primary # Absent)',
           (Head1.do = "install" => Slot.primary = Absent)',
           \A g \in Files : g # "rejected" /\ disk[g].primary = Absent =>
               disk'[g].primary = Absent,
           disk.session.primary # Absent => (disk.session.primary # Absent)' \/ SessionLeft'
    PROVE  WordInv' /\ Waiting' = Waiting
<1>1. todo' = Tail(todo) /\ op' = op /\ result' = result
  BY DEF Continue
<1>2. OpTyped /\ PlanShape
  BY DEF WordInv, Typed
<1>3. /\ op # None /\ result = "busy" /\ Head1 \in Steps /\ Head1 \in Left
      /\ todo' # <<>> /\ Planned(todo)'
      /\ Left = {Head1} \cup Left' /\ Left \in SUBSET Steps
      /\ \A a : Ends(a)' <=> Ends(a)
  BY <1>1, HeadDone
<1>4. OpTyped'
  BY <1>1, <1>2, <1>3 DEF OpTyped
<1>5. \A x \in Left' : x \in Left
  BY <1>3
<1>6. PlanShape'
  <2>1. \A x \in Left' : x.do = "removePrimary" /\ op.kind # "clear" =>
            disk'[x.file].primary = Absent
    <3>1. \A x \in Steps : x.do = "removePrimary" => x.file \in Files /\ x.file # "rejected"
      BY DEF Steps, Files
    <3> QED BY <1>2, <1>3, <1>5, <3>1 DEF PlanShape
  <2>2. op.kind = "clear" => ~SessionLeft'
    BY <1>2, <1>5 DEF PlanShape, SessionLeft
  <2>3. \A x \in Left' : x.do = "eraseBackup" /\ x.file = "session" => op.kind = "clear"
    BY <1>2, <1>5 DEF PlanShape
  <2> QED BY <1>1, <1>3, <2>1, <2>2, <2>3 DEF PlanShape
<1>7. \A x \in Left' : \E y \in Left :
          /\ x.file = y.file /\ x.data = y.data
          /\ x.do = y.do \/ (y.do = "install" /\ x.do = "create")
  BY <1>5
<1>8. \A y \in Left : y.do = "append" => y \in Left'
  BY <1>3
<1>9. \A y \in Left : SessionInstall(y) \/ JournalInstall(y) =>
          \E x \in Left' : x.file = y.file /\ x.data = y.data
                           /\ x.do \in {"install", "create"}
  BY <1>3 DEF SessionInstall, JournalInstall
<1> QED BY <1>1, <1>3, <1>4, <1>6, <1>7, <1>8, <1>9, QuietKeeps

\* The old backup goes before the primary takes its place.
LEMMA RemoveOldBackupKeeps ==
    ASSUME WordInv, RemoveBackup, Slot.primary # Absent,
           UNCHANGED <<ui, uploader, server, created, recorded, dropped>>
    PROVE  WordInv' /\ Waiting' = Waiting
<1>1. /\ todo # <<>> /\ Head1.do = "removeBackup" /\ Continue /\ cache' = cache
      /\ disk' = [disk EXCEPT ![Head1.file] = [Slot EXCEPT !.backup = Absent]]
  BY DEF RemoveBackup, Writing, SetSlot
<1>2. todo' = Tail(todo) /\ result' = result
  BY <1>1 DEF Continue
<1>3. /\ Head1 \in Steps /\ Follows(Head1, Head1')
  BY <1>1, <1>2, HeadDone
<1>4. DiskTyped
  BY DEF WordInv, Typed
<1> DEFINE f == Head1.file
<1>5. f \in Files
  BY <1>1, <1>3 DEF Steps
<1>6. Head1'.do = "backup" /\ Head1'.file = f
  BY <1>1, <1>3 DEF Follows
<1> DEFINE pair == [primary |-> disk[f].primary, backup |-> Absent]
<1>7. Slot = disk[f]
  BY DEF Slot
<1>8. [Slot EXCEPT !.backup = Absent] = pair
  <2>1. disk[f] = [primary |-> disk[f].primary, backup |-> disk[f].backup]
    BY <1>4, <1>5, SlotTyped
  <2>2. \A x, y : [[primary |-> x, backup |-> y] EXCEPT !.backup = Absent]
                     = [primary |-> x, backup |-> Absent]
    OBVIOUS
  <2> QED BY <1>7, <2>1, <2>2
<1>9. /\ f = "journal" => pair \in Pairs(Seq(Entries \cup {Torn}))
      /\ f = "session" => pair \in Pairs(Sessions)
      /\ f = "rejected" => pair \in Pairs(Seq(Nat))
  BY <1>4, <1>5, SlotTyped DEF Pairs
<1>10. disk' = [disk EXCEPT ![f] = pair]
  BY <1>1, <1>8
<1>11. pair.primary = disk[f].primary /\ pair.backup = Absent /\ disk[f].primary # Absent
  BY <1>7
<1> HIDE DEF f, pair
<1>12. /\ DiskTyped' /\ disk'[f] = pair
       /\ \A g \in Files : g # f => disk'[g] = disk[g]
       /\ f # "journal" => Content' = Content /\ (FromBackup' <=> FromBackup)
       /\ f # "session" => Stored' = Stored /\ Snapshots' = Snapshots
  BY <1>4, <1>5, <1>9, <1>10, SlotChanged
<1>13. \A g \in Files : disk'[g].primary = disk[g].primary
  BY <1>11, <1>12
<1>14. Content' = Content /\ (FromBackup' <=> FromBackup)
  <2>1. CASE f = "journal"
    BY <1>11, <1>12, <2>1 DEF Content, ContentOf, FromBackup
  <2> QED BY <1>12, <2>1
<1>15. Stored' = Stored /\ Snapshots' \in SUBSET Snapshots
  <2>1. CASE f = "session"
    BY <1>11, <1>12, <2>1 DEF Stored, LoadSession, Snapshots
  <2> QED BY <1>12, <2>1
<1>16. ~Installing /\ ~Installing'
  BY <1>1, <1>6 DEF Installing
<1>17. /\ (Head1.do = "backup" => Slot.primary # Absent)'
       /\ (Head1.do = "install" => Slot.primary = Absent)'
  <2>1. Slot' = disk'[f]
    BY <1>6 DEF Slot
  <2> QED BY <1>6, <1>11, <1>12, <2>1
<1>18. (disk.session.primary)' = disk.session.primary
  BY <1>13 DEF Files
<1>19. ~SessionInstall(Head1) /\ ~JournalInstall(Head1) /\ Head1.do \notin {"return", "append"}
  BY <1>1 DEF SessionInstall, JournalInstall
<1> QED BY <1>1, <1>12, <1>13, <1>14, <1>15, <1>16, <1>17, <1>18, <1>19, TailKeeps

\* The primary becomes the backup.
LEMMA RenamePrimaryKeeps ==
    ASSUME WordInv, RenamePrimaryToBackup,
           UNCHANGED <<ui, uploader, server, created, recorded, dropped>>
    PROVE  WordInv' /\ Waiting' = Waiting
<1>1. /\ todo # <<>> /\ Head1.do = "backup" /\ Continue /\ cache' = cache
      /\ disk' = [disk EXCEPT ![Head1.file] = [primary |-> Absent, backup |-> Slot.primary]]
  BY DEF RenamePrimaryToBackup, Writing, SetSlot
<1>2. todo' = Tail(todo) /\ result' = result
  BY <1>1 DEF Continue
<1>3. Head1 \in Steps /\ Follows(Head1, Head1') /\ Head1' \in Left'
  BY <1>1, <1>2, HeadDone
<1>4. DiskTyped /\ PlanShape
  BY DEF WordInv, Typed
<1> DEFINE f == Head1.file
<1>5. f \in Files
  BY <1>1, <1>3 DEF Steps
<1>6. Head1'.do = "install" /\ Head1'.file = f
  BY <1>1, <1>3 DEF Follows
<1> DEFINE pair == [primary |-> Absent, backup |-> disk[f].primary]
<1>7. Slot = disk[f] /\ disk[f].primary # Absent
  BY <1>1, <1>4 DEF Slot, PlanShape
<1>8. /\ f = "journal" => pair \in Pairs(Seq(Entries \cup {Torn}))
      /\ f = "session" => pair \in Pairs(Sessions)
      /\ f = "rejected" => pair \in Pairs(Seq(Nat))
  BY <1>4, <1>5, SlotTyped DEF Pairs
<1>9. disk' = [disk EXCEPT ![f] = pair]
  BY <1>1, <1>7
<1>10. pair.primary = Absent /\ pair.backup = disk[f].primary
  OBVIOUS
<1>11. Head1.file = f
  OBVIOUS
<1> HIDE DEF f, pair
<1>12. /\ DiskTyped' /\ disk'[f] = pair
       /\ \A g \in Files : g # f => disk'[g] = disk[g]
       /\ f # "journal" => Content' = Content /\ (FromBackup' <=> FromBackup)
       /\ f # "session" => Stored' = Stored /\ Snapshots' = Snapshots
  BY <1>4, <1>5, <1>8, <1>9, SlotChanged
<1>13. \A g \in Files : disk[g].primary = Absent => disk'[g].primary = Absent
  BY <1>10, <1>12
<1>14. Content' = Content
  <2>1. CASE f = "journal"
    BY <1>7, <1>10, <1>12, <2>1 DEF Content, ContentOf
  <2> QED BY <1>12, <2>1
<1>15. Stored' = Stored /\ Snapshots' \in SUBSET Snapshots
  <2>1. CASE f = "session"
    BY <1>7, <1>10, <1>12, <2>1 DEF Stored, LoadSession, Snapshots
  <2> QED BY <1>12, <2>1
<1>16. (FromBackup /\ ~Installing)' <=> (FromBackup /\ ~Installing)
  <2>1. ~Installing
    BY <1>1 DEF Installing
  <2>2. CASE f = "journal"
    <3>1. ~FromBackup
      BY <1>7, <2>2 DEF FromBackup
    <3>2. Installing'
      <4>1. todo' # <<>>
        BY <1>1, <1>2, HeadDone
      <4> QED BY <1>6, <2>2, <4>1 DEF Installing
    <3> QED BY <3>1, <3>2
  <2>3. CASE f # "journal"
    <3>1. ~Installing'
      BY <1>6, <2>3 DEF Installing
    <3> QED BY <1>12, <2>1, <2>3, <3>1
  <2> QED BY <2>2, <2>3
<1>17. /\ (Head1.do = "backup" => Slot.primary # Absent)'
       /\ (Head1.do = "install" => Slot.primary = Absent)'
  <2>1. Slot' = disk'[f]
    BY <1>6 DEF Slot
  <2> QED BY <1>6, <1>10, <1>12, <2>1
<1>18. disk.session.primary # Absent => (disk.session.primary # Absent)' \/ SessionLeft'
  <2>1. CASE f = "session"
    BY <1>3, <1>6, <2>1 DEF SessionLeft, SessionInstall
  <2>2. CASE f # "session"
    BY <1>12, <2>2 DEF Files
  <2> QED BY <2>1, <2>2
<1>19. ~SessionInstall(Head1) /\ ~JournalInstall(Head1) /\ Head1.do \notin {"return", "append"}
  BY <1>1 DEF SessionInstall, JournalInstall
<1> QED BY <1>1, <1>12, <1>13, <1>14, <1>15, <1>16, <1>17, <1>18, <1>19, TailKeeps

\* Without a primary the rotation is a creation.
LEMMA RotationIsCreation ==
    ASSUME NEW t \in Seq(Steps), Chained(t), Increasing(t), t[Len(t)].do = "return", t # <<>>,
           t[1].do = "removeBackup"
    PROVE  LET c == [t[3] EXCEPT !.do = "create"]
               q == <<c>> \o SubSeq(t, 4, Len(t))
           IN  /\ Len(t) \in Nat /\ 4 <= Len(t)
               /\ t[2].do = "backup" /\ t[3].do = "install"
               /\ t[2].file = t[1].file /\ t[3].file = t[1].file
               /\ c \in Steps /\ c.do = "create" /\ c.file = t[1].file /\ c.data = t[3].data
               /\ q # <<>> /\ Head(q) = c /\ Planned(q)
               /\ Elements(q) = {c} \cup {t[i] : i \in 4..Len(t)}
<1> DEFINE c == [t[3] EXCEPT !.do = "create"]
           r == SubSeq(t, 4, Len(t))
           q == <<c>> \o r
<1>1. Len(t) \in Nat \ {0} /\ \A i \in 1..Len(t) : t[i] \in Steps
  OBVIOUS
<1>2. \A n \in Nat \ {0} :
          /\ n # 1 => 1 \in 1..n - 1
          /\ n # 1 /\ n # 2 => 2 \in 1..n - 1
          /\ n # 1 /\ n # 2 /\ n # 3 =>
                 4 <= n /\ 3 \in 1..n - 1 /\ 1 \in 1..n /\ 3 \in 1..n /\ 4 \in 1..n
  OBVIOUS
<1>3. Len(t) # 1
  BY <1>1
<1>4. t[2].do = "backup" /\ t[2].file = t[1].file
  <2>1. 1 \in 1..Len(t) - 1 /\ 1 + 1 = 2
    BY <1>1, <1>2, <1>3
  <2>2. Follows(t[1], t[2])
    BY <2>1 DEF Chained
  <2> QED BY <2>2 DEF Follows
<1>5. Len(t) # 2
  BY <1>4
<1>6. t[3].do = "install" /\ t[3].file = t[1].file
  <2>1. 2 \in 1..Len(t) - 1
    BY <1>1, <1>2, <1>3, <1>5
  <2>2. Follows(t[2], t[2 + 1]) /\ 2 + 1 = 3
    BY <2>1 DEF Chained
  <2> QED BY <1>4, <2>2 DEF Follows
<1>7. Len(t) # 3
  BY <1>6
<1>8. 4 <= Len(t) /\ 3 \in 1..Len(t) - 1 /\ 1 \in 1..Len(t) /\ 3 \in 1..Len(t)
      /\ 4 \in 1..Len(t)
  BY <1>1, <1>2, <1>3, <1>5, <1>7
<1>9. Follows(t[3], t[4])
  <2>1. 3 + 1 = 4
    OBVIOUS
  <2> QED BY <1>8, <2>1 DEF Chained
<1>10. c \in Steps /\ c.do = "create" /\ c.file = t[1].file /\ c.data = t[3].data
  <2>1. t[3] \in Steps
    BY <1>1, <1>8
  <2>2. t[3] = [do |-> "install", file |-> t[3].file, data |-> t[3].data]
    BY <1>6, <2>1 DEF Steps
  <2>3. c = [do |-> "create", file |-> t[3].file, data |-> t[3].data]
    BY <2>2
  <2>4. \A x, y : [do |-> "install", file |-> x, data |-> y] \in Steps
                    => [do |-> "create", file |-> x, data |-> y] \in Steps
    BY DEF Steps
  <2> HIDE DEF c
  <2> QED BY <1>6, <2>1, <2>2, <2>3, <2>4
<1>11. Rank(c) < Rank(t[3]) /\ Rank(c) \in Nat
  <2>1. /\ ~AckAppend(c) /\ ~ObsAppend(c) /\ ~AckAppend(t[3]) /\ ~ObsAppend(t[3])
    BY <1>6, <1>10 DEF AckAppend, ObsAppend
  <2>2. FirstOf(t[1].file) \in Nat
    BY DEF FirstOf
  <2> HIDE DEF c
  <2>3. Rank(c) = FirstOf(t[1].file) + 2 /\ Rank(t[3]) = FirstOf(t[1].file) + 5
    BY <1>6, <1>10, <2>1 DEF Rank, Place
  <2> QED BY <2>2, <2>3
<1>12. /\ r \in Seq(Steps) /\ Len(r) = Len(t) - 3 /\ Len(r) \in Nat
       /\ \A i \in 1..Len(t) - 3 : r[i] = t[i + 3]
  <2>1. 4 \in 1..Len(t) + 1 /\ Len(t) \in 4 - 1..Len(t)
    BY <1>1, <1>8
  <2> QED BY <1>1, <1>8, <2>1
<1> HIDE DEF c, r
<1>13. /\ q \in Seq(Steps) /\ Len(q) = Len(t) - 2 /\ q # <<>> /\ q[1] = c /\ Head(q) = c
       /\ \A i \in 2..Len(t) - 2 : q[i] = t[i + 2]
  <2>1. <<c>> \in Seq(Steps) /\ Len(<<c>>) = 1 /\ <<c>>[1] = c
    BY <1>10
  <2>2. q \in Seq(Steps) /\ Len(q) = 1 + Len(r)
    BY <1>12, <2>1, ConcatProperties
  <2>3. \A i \in 1..1 + Len(r) : q[i] = IF i <= 1 THEN <<c>>[i] ELSE r[i - 1]
    BY <1>12, <2>1, ConcatProperties
  <2> HIDE DEF q
  <2>4. Len(q) = Len(t) - 2 /\ 1 \in 1..1 + Len(r)
    BY <1>1, <1>8, <1>12, <2>2
  <2>5. q[1] = c
    BY <2>1, <2>3, <2>4
  <2>6. q # <<>> /\ Head(q) = q[1]
    BY <1>1, <1>8, <2>2, <2>4
  <2>7. ASSUME NEW i \in 2..Len(t) - 2
        PROVE  q[i] = t[i + 2]
    <3>1. i \in 1..1 + Len(r) /\ ~(i <= 1) /\ i - 1 \in 1..Len(t) - 3 /\ (i - 1) + 3 = i + 2
      BY <1>1, <1>8, <1>12
    <3> QED BY <1>12, <2>3, <3>1
  <2> QED BY <2>2, <2>4, <2>5, <2>6, <2>7
<1> HIDE DEF q
<1>14. Chained(q)
  <2> SUFFICES ASSUME NEW k \in 1..Len(q) - 1
               PROVE  Follows(q[k], q[k + 1])
    BY DEF Chained
  <2>1. CASE k = 1
    <3>1. k + 1 = 2 /\ 2 \in 2..Len(t) - 2 /\ 2 + 2 = 4
      BY <1>1, <1>8, <2>1, <1>13
    <3>2. q[k] = c /\ q[k + 1] = t[4]
      BY <1>13, <2>1, <3>1
    <3> QED BY <1>6, <1>9, <1>10, <3>2 DEF Follows
  <2>2. CASE k # 1
    <3>1. k \in 2..Len(t) - 2 /\ k + 1 \in 2..Len(t) - 2 /\ k + 2 \in 1..Len(t) - 1
          /\ (k + 1) + 2 = (k + 2) + 1
      BY <1>1, <1>8, <2>2, <1>13
    <3> QED BY <1>13, <3>1 DEF Chained
  <2> QED BY <2>1, <2>2
<1>15. \A i \in 1..Len(q) : i = 1 \/ (i \in 2..Len(t) - 2 /\ i + 2 \in 1..Len(t) /\ 3 < i + 2)
  BY <1>1, <1>8, <1>13
<1>16. \A i \in 1..Len(t) : Rank(t[i]) \in Nat
  BY <1>1, Ranks
<1>17. Increasing(q)
  <2> SUFFICES ASSUME NEW j \in 1..Len(q), NEW k \in 1..Len(q), j < k
               PROVE  Rank(q[j]) < Rank(q[k])
    BY DEF Increasing
  <2>1. k \in 2..Len(t) - 2 /\ k + 2 \in 1..Len(t) /\ 3 < k + 2 /\ q[k] = t[k + 2]
    BY <1>13, <1>15
  <2>2. CASE j = 1
    <3>1. Rank(t[3]) < Rank(t[k + 2])
      BY <1>8, <2>1 DEF Increasing
    <3>2. Rank(t[3]) \in Nat /\ Rank(t[k + 2]) \in Nat
      BY <1>8, <1>16, <2>1
    <3> QED BY <1>11, <1>13, <2>1, <2>2, <3>1, <3>2
  <2>3. CASE j # 1
    <3>1. j \in 2..Len(t) - 2 /\ j + 2 \in 1..Len(t) /\ q[j] = t[j + 2] /\ j + 2 < k + 2
      BY <1>13, <1>15, <2>3
    <3> QED BY <2>1, <3>1 DEF Increasing
  <2> QED BY <2>2, <2>3
<1>18. q[Len(q)].do = "return"
  <2>1. Len(q) \in 2..Len(t) - 2 /\ Len(q) + 2 = Len(t)
    BY <1>1, <1>8, <1>13
  <2> QED BY <1>13, <2>1
<1>19. Planned(q)
  BY <1>13, <1>14, <1>17, <1>18 DEF Planned
<1>20. Elements(q) = {c} \cup {t[i] : i \in 4..Len(t)}
  <2>1. \A i \in 1..Len(q) : q[i] \in {c} \cup {t[j] : j \in 4..Len(t)}
    <3> SUFFICES ASSUME NEW i \in 1..Len(q), i # 1
                 PROVE  q[i] \in {t[j] : j \in 4..Len(t)}
      BY <1>13
    <3>1. i \in 2..Len(t) - 2 /\ i + 2 \in 4..Len(t) /\ q[i] = t[i + 2]
      BY <1>1, <1>13, <1>15
    <3> QED BY <3>1
  <2>2. c \in Elements(q)
    <3>1. 1 \in 1..Len(q)
      BY <1>1, <1>8, <1>13
    <3> QED BY <1>13, <3>1 DEF Elements
  <2>3. ASSUME NEW j \in 4..Len(t)
        PROVE  t[j] \in Elements(q)
    <3>1. j - 2 \in 2..Len(t) - 2 /\ j - 2 \in 1..Len(q) /\ (j - 2) + 2 = j
      BY <1>1, <1>8, <1>13
    <3> QED BY <1>13, <3>1 DEF Elements
  <2> QED BY <2>1, <2>2, <2>3 DEF Elements
<1> QED BY <1>1, <1>4, <1>6, <1>8, <1>10, <1>13, <1>19, <1>20 DEF q, r, c

\* There is no primary to keep: the rotation becomes a creation.
LEMMA NoRotationKeeps ==
    ASSUME WordInv, RemoveBackup, Slot.primary = Absent,
           UNCHANGED <<ui, uploader, server, created, recorded, dropped>>
    PROVE  WordInv' /\ Waiting' = Waiting
<1> DEFINE c == [todo[3] EXCEPT !.do = "create"]
           q == <<c>> \o SubSeq(todo, 4, Len(todo))
<1>1. /\ todo # <<>> /\ Head1.do = "removeBackup" /\ cache' = cache /\ disk' = disk
      /\ todo' = q /\ op' = op /\ result' = result
  BY DEF RemoveBackup, Writing
<1>2. /\ DiskTyped /\ OpTyped /\ PlanShape /\ JournalSound
  BY DEF WordInv, Typed, JournalInv
<1>3. todo \in Seq(Steps) /\ Chained(todo) /\ Increasing(todo)
      /\ todo[Len(todo)].do = "return" /\ Head1 = todo[1]
  BY <1>1, <1>2 DEF PlanShape, Planned, Head1
<1>4. /\ Len(todo) \in Nat /\ 4 <= Len(todo)
      /\ todo[2].do = "backup" /\ todo[3].do = "install"
      /\ todo[2].file = todo[1].file /\ todo[3].file = todo[1].file
      /\ c \in Steps /\ c.do = "create" /\ c.file = todo[1].file /\ c.data = todo[3].data
      /\ q # <<>> /\ Head(q) = c /\ Planned(q)
      /\ Elements(q) = {c} \cup {todo[i] : i \in 4..Len(todo)}
  BY <1>1, <1>3, RotationIsCreation
<1>5. Head1' = c
  BY <1>1, <1>4 DEF Head1
<1>6. Left' = {c} \cup {todo[i] : i \in 4..Len(todo)}
  <2>1. todo' = q /\ Elements(q) = {c} \cup {todo[i] : i \in 4..Len(todo)}
    BY <1>1, <1>4
  <2> HIDE DEF q, c
  <2>2. Left' = {todo'[i] : i \in 1..Len(todo')}
    BY DEF Left, Elements
  <2>3. Left' = {q[i] : i \in 1..Len(q)}
    BY <2>1, <2>2
  <2> QED BY <2>1, <2>3 DEF Elements
<1>7. Planned(todo)'
  <2>1. \A s : s = q => Planned(s)
    BY <1>4
  <2> QED BY <1>1, <2>1 DEF Planned, Chained, Increasing
<1>8. \A y \in Left : \/ y = todo[1] \/ y = todo[2] \/ y = todo[3]
                      \/ y \in {todo[i] : i \in 4..Len(todo)}
  <2>1. \A i \in 1..Len(todo) : i = 1 \/ i = 2 \/ i = 3 \/ i \in 4..Len(todo)
    BY <1>4
  <2> QED BY <2>1 DEF Left, Elements
<1>9. /\ todo[3] \in Left /\ \A i \in 4..Len(todo) : todo[i] \in Left
  <2>1. 3 \in 1..Len(todo) /\ \A i \in 4..Len(todo) : i \in 1..Len(todo)
    BY <1>4
  <2> QED BY <2>1 DEF Left, Elements
<1>10. todo[1].do = "removeBackup"
  BY <1>1, <1>3
<1> DEFINE rest == {todo[i] : i \in 4..Len(todo)}
           first == todo[1]
           second == todo[2]
           third == todo[3]
<1>11. /\ first.do = "removeBackup" /\ second.do = "backup" /\ third.do = "install"
       /\ third.file = first.file /\ third \in Left /\ \A x \in rest : x \in Left
       /\ c.do = "create" /\ c.file = third.file /\ c.data = third.data
       /\ Left' = {c} \cup rest
       /\ \A y \in Left : y = first \/ y = second \/ y = third \/ y \in rest
  BY <1>4, <1>6, <1>8, <1>9, <1>10
<1>12. todo' # <<>>
  BY <1>1, <1>4
<1> HIDE DEF c, q, rest, first, second, third
<1>13. OpTyped'
  BY <1>1, <1>2, <1>12 DEF OpTyped
<1>14. DiskTyped' /\ Content' = Content /\ Stored' = Stored /\ Snapshots' = Snapshots
       /\ FromBackup' = FromBackup
  BY <1>1, <1>2, DiskStays
<1>15. PlanShape'
  <2>1. \A x \in Left' : x.do = "removePrimary" /\ op.kind # "clear" =>
            disk[x.file].primary = Absent
    BY <1>2, <1>11 DEF PlanShape
  <2>2. \A x \in Left' : x.do = "eraseBackup" /\ x.file = "session" => op.kind = "clear"
    BY <1>2, <1>11 DEF PlanShape
  <2>3. op.kind = "clear" => ~SessionLeft'
    <3>1. SessionInstall(c) => SessionInstall(third)
      BY <1>11 DEF SessionInstall
    <3>2. SessionLeft' => SessionLeft
      BY <1>11, <3>1 DEF SessionLeft
    <3> QED BY <1>2, <3>2 DEF PlanShape
  <2>4. Head1'.do = "create"
    BY <1>5, <1>11
  <2> QED BY <1>1, <1>7, <2>1, <2>2, <2>3, <2>4 DEF PlanShape
<1>16. (FromBackup /\ ~Installing)' <=> (FromBackup /\ ~Installing)
  <2>1. ~Installing /\ ~Installing'
    BY <1>1, <1>5, <1>11 DEF Installing
  <2> QED BY <1>14, <2>1
<1>17. Ends("ok")' <=> Ends("ok")
  <2>1. (\E x \in Left' : x.do = "return" /\ x.data = "ok")
            <=> (\E x \in Left : x.do = "return" /\ x.data = "ok")
    BY <1>11
  <2> QED BY <1>1, <2>1 DEF Ends
<1>18. \A x \in Left' : \E y \in Left :
           /\ x.file = y.file /\ x.data = y.data
           /\ x.do = y.do \/ (y.do = "install" /\ x.do = "create")
  BY <1>11
<1>19. \A y \in Left : y.do = "append" => y \in Left'
  BY <1>11
<1>20. \A y \in Left : SessionInstall(y) \/ JournalInstall(y) =>
           \E x \in Left' : x.file = y.file /\ x.data = y.data
                            /\ x.do \in {"install", "create"}
  BY <1>11 DEF SessionInstall, JournalInstall
<1> QED BY <1>1, <1>13, <1>14, <1>15, <1>16, <1>17, <1>18, <1>19, <1>20, QuietKeeps

\* The primary is away already when the plan removes it, but for a clear.
LEMMA RemovePrimaryKeeps ==
    ASSUME WordInv, RemovePrimary, op.kind # "clear",
           UNCHANGED <<ui, uploader, server, created, recorded, dropped>>
    PROVE  WordInv' /\ Waiting' = Waiting
<1>1. /\ todo # <<>> /\ Head1.do = "removePrimary" /\ Continue /\ cache' = cache
      /\ disk' = [disk EXCEPT ![Head1.file] = [Slot EXCEPT !.primary = Absent]]
  BY DEF RemovePrimary, Writing, SetSlot
<1>2. todo' = Tail(todo) /\ result' = result
  BY <1>1 DEF Continue
<1>3. /\ Head1 \in Steps /\ Head1 \in Left /\ Follows(Head1, Head1')
  BY <1>1, <1>2, HeadDone
<1>4. DiskTyped /\ PlanShape
  BY DEF WordInv, Typed
<1> DEFINE f == Head1.file
<1>5. f \in Files
  BY <1>1, <1>3 DEF Steps, Files
<1>6. Slot = disk[f] /\ disk[f].primary = Absent
  BY <1>1, <1>3, <1>4 DEF Slot, PlanShape
<1>7. [Slot EXCEPT !.primary = Absent] = Slot
  <2>1. disk[f] = [primary |-> disk[f].primary, backup |-> disk[f].backup]
    BY <1>4, <1>5, SlotTyped
  <2>2. \A x, y : [[primary |-> x, backup |-> y] EXCEPT !.primary = Absent]
                     = [primary |-> Absent, backup |-> y]
    OBVIOUS
  <2> QED BY <1>6, <2>1, <2>2
<1>8. disk' = disk
  <2>1. disk = [journal |-> disk.journal, session |-> disk.session, rejected |-> disk.rejected]
    BY <1>4 DEF DiskTyped
  <2>2. disk' = [disk EXCEPT ![f] = disk[f]]
    BY <1>1, <1>6, <1>7
  <2> QED BY <2>1, <2>2
<1>9. /\ DiskTyped' /\ Content' = Content /\ Stored' = Stored /\ Snapshots' \in SUBSET Snapshots
      /\ FromBackup' = FromBackup
  BY <1>4, <1>8, DiskStays
<1>10. ~Installing /\ ~Installing' /\ Head1'.do \notin {"backup", "install"}
  BY <1>1, <1>3 DEF Installing, Follows
<1>11. ~SessionInstall(Head1) /\ ~JournalInstall(Head1) /\ Head1.do \notin {"return", "append"}
  BY <1>1 DEF SessionInstall, JournalInstall
<1> QED BY <1>1, <1>8, <1>9, <1>10, <1>11, TailKeeps

\* The companion file of a session is not part of the model.
LEMMA WriteCursorKeeps ==
    ASSUME WordInv, WriteSessionCursor,
           UNCHANGED <<ui, uploader, server, created, recorded, dropped>>
    PROVE  WordInv' /\ Waiting' = Waiting
<1>1. /\ todo # <<>> /\ Head1.do = "cursor" /\ Continue /\ cache' = cache /\ disk' = disk
  BY DEF WriteSessionCursor, Writing
<1>2. todo' = Tail(todo) /\ result' = result
  BY <1>1 DEF Continue
<1>3. Follows(Head1, Head1')
  BY <1>1, <1>2, HeadDone
<1>4. DiskTyped
  BY DEF WordInv, Typed
<1>5. /\ DiskTyped' /\ Content' = Content /\ Stored' = Stored /\ Snapshots' \in SUBSET Snapshots
      /\ FromBackup' = FromBackup
  BY <1>1, <1>4, DiskStays
<1>6. ~Installing /\ ~Installing' /\ Head1'.do \notin {"backup", "install"}
  BY <1>1, <1>3 DEF Installing, Follows
<1>7. ~SessionInstall(Head1) /\ ~JournalInstall(Head1) /\ Head1.do \notin {"return", "append"}
  BY <1>1 DEF SessionInstall, JournalInstall
<1> QED BY <1>1, <1>5, <1>6, <1>7, TailKeeps

\* The quarantine journal is no other component's file.
LEMMA RejectedKeeps ==
    ASSUME WordInv, EraseBackup \/ InstallTemporary, Head1.file = "rejected",
           UNCHANGED <<ui, uploader, server, created, recorded, dropped>>
    PROVE  WordInv' /\ Waiting' = Waiting
<1>1. /\ todo # <<>> /\ Head1.do \in {"eraseBackup", "install", "create"} /\ Continue
      /\ cache' = cache
      /\ disk' = [disk EXCEPT ![Head1.file] =
                      IF Head1.do = "eraseBackup" THEN [Slot EXCEPT !.backup = Absent]
                      ELSE [Slot EXCEPT !.primary = Head1.data]]
  <2>1. CASE EraseBackup
    BY <2>1 DEF EraseBackup, Writing, SetSlot
  <2>2. CASE InstallTemporary
    BY <2>2 DEF InstallTemporary, Writing, SetSlot
  <2> QED BY <2>1, <2>2
<1>2. todo' = Tail(todo) /\ result' = result
  BY <1>1 DEF Continue
<1>3. Head1 \in Steps /\ Follows(Head1, Head1')
  BY <1>1, <1>2, HeadDone
<1>4. DiskTyped
  BY DEF WordInv, Typed
<1> DEFINE f == Head1.file
           pair == IF Head1.do = "eraseBackup"
                   THEN [primary |-> disk[f].primary, backup |-> Absent]
                   ELSE [primary |-> Head1.data, backup |-> disk[f].backup]
<1>5. f \in Files /\ f = "rejected"
  BY DEF Files
<1>6. disk[f] = [primary |-> disk[f].primary, backup |-> disk[f].backup]
      /\ disk[f] \in Pairs(Seq(Nat))
  BY <1>4, <1>5, SlotTyped
<1>7. disk' = [disk EXCEPT ![f] = pair]
  <2>1. \A x, y, z : /\ [[primary |-> x, backup |-> y] EXCEPT !.primary = z]
                            = [primary |-> z, backup |-> y]
                     /\ [[primary |-> x, backup |-> y] EXCEPT !.backup = z]
                            = [primary |-> x, backup |-> z]
    OBVIOUS
  <2>2. Slot = disk[f]
    BY DEF Slot
  <2>3. CASE Head1.do = "eraseBackup"
    <3>1. [Slot EXCEPT !.backup = Absent] = pair
      BY <1>6, <2>1, <2>2, <2>3
    <3> QED BY <1>1, <2>3, <3>1
  <2>4. CASE Head1.do # "eraseBackup"
    <3>1. [Slot EXCEPT !.primary = Head1.data] = pair
      BY <1>6, <2>1, <2>2, <2>4
    <3> QED BY <1>1, <2>4, <3>1
  <2> QED BY <2>3, <2>4
<1>8. pair \in Pairs(Seq(Nat))
  <2>1. Head1.do # "eraseBackup" => Head1.data \in Seq(Nat)
    BY <1>1, <1>3, <1>5 DEF Steps
  <2>2. disk[f].primary \in Seq(Nat) \cup {Absent} /\ disk[f].backup \in Seq(Nat) \cup {Absent}
    BY <1>6 DEF Pairs
  <2> QED BY <2>1, <2>2 DEF Pairs
<1> HIDE DEF pair
<1>9. /\ DiskTyped' /\ Content' = Content /\ (FromBackup' <=> FromBackup)
      /\ Stored' = Stored /\ Snapshots' = Snapshots
      /\ \A g \in Files : g # f => disk'[g] = disk[g]
  BY <1>4, <1>5, <1>7, <1>8, SlotChanged
<1>10. disk'.session = disk.session /\ \A g \in Files : g # "rejected" => disk'[g] = disk[g]
  BY <1>5, <1>9 DEF Files
<1>11. ~Installing /\ ~Installing' /\ Head1'.do \notin {"backup", "install"}
  BY <1>1, <1>3 DEF Installing, Follows
<1>12. ~SessionInstall(Head1) /\ ~JournalInstall(Head1) /\ Head1.do \notin {"return", "append"}
  BY <1>1 DEF SessionInstall, JournalInstall
<1> QED BY <1>1, <1>9, <1>10, <1>11, <1>12, TailKeeps

\* The answer is the last step.
LEMMA FinishKeeps ==
    ASSUME WordInv, Finish, UNCHANGED <<ui, uploader, server, created, recorded, dropped>>
    PROVE  WordInv' /\ Waiting' = Waiting
<1>1. /\ todo # <<>> /\ Head1.do = "return" /\ todo' = <<>> /\ result' = Head1.data
      /\ disk' = disk /\ cache' = cache /\ op' = op
  BY DEF Finish, Writing
<1>2. /\ DiskTyped /\ OpTyped /\ PlanShape
  BY DEF WordInv, Typed
<1>3. /\ todo \in Seq(Steps) /\ Increasing(todo) /\ todo[Len(todo)].do = "return"
      /\ Head1 = todo[1] /\ Len(todo) \in Nat \ {0}
      /\ \A i \in 1..Len(todo) : todo[i] \in Steps
  BY <1>1, <1>2 DEF PlanShape, Planned, Head1
<1>4. Len(todo) = 1
  <2> SUFFICES ASSUME Len(todo) # 1 PROVE FALSE
    OBVIOUS
  <2>1. 1 \in 1..Len(todo) /\ Len(todo) \in 1..Len(todo) /\ 1 < Len(todo)
    <3>1. \A n \in Nat \ {0} : n # 1 => 1 \in 1..n /\ n \in 1..n /\ 1 < n
      OBVIOUS
    <3> QED BY <1>3, <3>1
  <2>2. Rank(todo[1]) = 40 /\ Rank(todo[Len(todo)]) = 40
    BY <1>1, <1>3, <2>1, Ranks
  <2> QED BY <1>3, <2>1, <2>2 DEF Increasing
<1>5. Left = {Head1} /\ Head1 \in Steps
  <2>1. 1..Len(todo) = {1}
    BY <1>4
  <2> QED BY <1>3, <2>1 DEF Left, Elements
<1>6. Head1.data \in Answers
  BY <1>1, <1>5 DEF Steps
<1>7. Left' = {} /\ ~SessionLeft' /\ ~Installing'
  BY <1>1 DEF Left, Elements, SessionLeft, Installing
<1>8. OpTyped'
  <2>1. result' \in Answers /\ result' # "busy" /\ op # None
    BY <1>1, <1>2, <1>6 DEF Answers, OpTyped
  <2> QED BY <1>1, <1>2, <2>1 DEF OpTyped
<1>9. PlanShape'
  <2>1. Planned(<<>>)
    BY DEF Planned, Chained, Increasing
  <2>2. Planned(todo)'
    BY <1>1, <2>1 DEF Planned, Chained, Increasing
  <2> QED BY <1>1, <1>7, <2>2 DEF PlanShape
<1>10. DiskTyped' /\ Content' = Content /\ Stored' = Stored /\ Snapshots' \in SUBSET Snapshots
       /\ FromBackup' = FromBackup
  BY <1>1, <1>2, DiskStays
<1>11. ~Installing
  BY <1>1 DEF Installing
<1>12. Ends("ok")' <=> Ends("ok")
  <2>1. result = "busy"
    BY <1>1, <1>2 DEF OpTyped
  <2> QED BY <1>1, <1>5, <1>7, <2>1 DEF Ends
<1>13. \A y \in Left : y.do # "append" /\ ~SessionInstall(y) /\ ~JournalInstall(y)
  BY <1>1, <1>5 DEF SessionInstall, JournalInstall
<1> QED BY <1>1, <1>7, <1>8, <1>9, <1>10, <1>11, <1>12, <1>13, QuietKeeps

\* A session that is cleared was dropped: nothing is asked of its snapshots any more.
LEMMA ClearKeeps ==
    ASSUME WordInv, op.kind = "clear",
           RemovePrimary \/ (EraseBackup /\ Head1.file = "session"),
           UNCHANGED <<ui, uploader, server, created, recorded, dropped>>
    PROVE  WordInv' /\ Waiting' = Waiting
<1>1. /\ todo # <<>> /\ Head1.do \in {"removePrimary", "eraseBackup"} /\ Continue
      /\ cache' = cache
      /\ Head1.do = "eraseBackup" => Head1.file = "session"
      /\ disk' = [disk EXCEPT ![Head1.file] =
                      IF Head1.do = "eraseBackup" THEN [Slot EXCEPT !.backup = Absent]
                      ELSE [Slot EXCEPT !.primary = Absent]]
  <2>1. CASE RemovePrimary
    BY <2>1 DEF RemovePrimary, Writing, SetSlot
  <2>2. CASE EraseBackup /\ Head1.file = "session"
    BY <2>2 DEF EraseBackup, Writing, SetSlot
  <2> QED BY <2>1, <2>2
<1>2. todo' = Tail(todo) /\ result' = result /\ op' = op
  BY <1>1 DEF Continue
<1>3. /\ op # None /\ result = "busy" /\ Head1 \in Steps
      /\ todo' # <<>> /\ Planned(todo)'
      /\ Left = {Head1} \cup Left' /\ Left \in SUBSET Steps
      /\ Head1' \in Left' /\ Follows(Head1, Head1')
  BY <1>1, <1>2, HeadDone
<1>4. /\ DiskTyped /\ OpTyped /\ PlanShape /\ UiTyped /\ UploaderTyped /\ CountsTyped
      /\ JournalSound /\ CacheSound /\ JournalPlan /\ NumbersSound
      /\ HeadHeld /\ NoGap /\ Verdicts
  BY DEF WordInv, Typed, JournalInv, SessionInv, UploadInv
<1>5. ~AckLeft /\ ~ObsLeft /\ ~JournalLeft /\ ~SessionLeft
  BY <1>4 DEF JournalPlan, PlanShape
<1>6. \A x \in Left' : /\ x \in Left /\ ~AckAppend(x) /\ ~ObsAppend(x)
                       /\ ~JournalInstall(x) /\ ~SessionInstall(x)
  BY <1>3, <1>5 DEF AckLeft, ObsLeft, JournalLeft, SessionLeft
<1>7. ~AckLeft' /\ ~ObsLeft' /\ ~JournalLeft' /\ ~SessionLeft'
  BY <1>6 DEF AckLeft, ObsLeft, JournalLeft, SessionLeft
<1>8. Head1.file = "session"
  <2> SUFFICES ASSUME Head1.do = "removePrimary", Head1.file # "session" PROVE FALSE
    BY <1>1
  <2>1. Head1.file = "journal"
    BY <1>3 DEF Steps
  <2>2. Head1'.do \in {"create", "eraseBackup"} /\ Head1'.file = "journal" /\ Head1' \in Steps
    BY <1>3, <2>1 DEF Follows
  <2>3. Head1'.do = "create"
    BY <2>2 DEF Steps
  <2> QED BY <1>3, <1>6, <2>2, <2>3 DEF JournalInstall
<1>9. Head1'.do \notin {"backup", "install"}
  BY <1>1, <1>3 DEF Follows
<1> DEFINE f == "session"
           pair == IF Head1.do = "eraseBackup"
                   THEN [primary |-> disk[f].primary, backup |-> Absent]
                   ELSE [primary |-> Absent, backup |-> disk[f].backup]
<1>10. f \in Files
  BY DEF Files
<1>11. disk[f] = [primary |-> disk[f].primary, backup |-> disk[f].backup]
       /\ disk[f] \in Pairs(Sessions)
  BY <1>4, <1>10, SlotTyped
<1>12. disk' = [disk EXCEPT ![f] = pair]
  <2>1. \A x, y, z : /\ [[primary |-> x, backup |-> y] EXCEPT !.primary = z]
                            = [primary |-> z, backup |-> y]
                     /\ [[primary |-> x, backup |-> y] EXCEPT !.backup = z]
                            = [primary |-> x, backup |-> z]
    OBVIOUS
  <2>2. Slot = disk[f]
    BY <1>8 DEF Slot
  <2>3. CASE Head1.do = "eraseBackup"
    <3>1. [Slot EXCEPT !.backup = Absent] = pair
      BY <1>11, <2>1, <2>2, <2>3
    <3> QED BY <1>1, <1>8, <2>3, <3>1
  <2>4. CASE Head1.do # "eraseBackup"
    <3>1. [Slot EXCEPT !.primary = Absent] = pair
      BY <1>11, <2>1, <2>2, <2>4
    <3> QED BY <1>1, <1>8, <2>4, <3>1
  <2> QED BY <2>3, <2>4
<1>13. /\ pair \in Pairs(Sessions)
       /\ pair.primary \in {Absent, disk[f].primary} /\ pair.backup \in {Absent, disk[f].backup}
  BY <1>11 DEF Pairs
<1>14. f # "journal" /\ f # "rejected"
  OBVIOUS
<1> HIDE DEF pair, f
<1>15. /\ DiskTyped' /\ disk'[f] = pair /\ Content' = Content /\ (FromBackup' <=> FromBackup)
  BY <1>4, <1>10, <1>12, <1>13, <1>14, SlotChanged
<1>16. Snapshots' \in SUBSET Snapshots /\ (Stored' # Absent => Stored' \in Snapshots)
  <2>1. disk'.session = pair
    BY <1>15 DEF f
  <2>2. /\ pair.primary \in {Absent, disk.session.primary}
        /\ pair.backup \in {Absent, disk.session.backup}
    BY <1>13 DEF f
  <2> QED BY <2>1, <2>2 DEF Snapshots, Stored, LoadSession
<1>17. /\ Waiting' = Waiting /\ Acked' = Acked /\ TornTail' = TornTail /\ Kept' = Kept
       /\ JournalSound'
  <2>1. Waiting' = Waiting /\ Acked' = Acked /\ TornTail' = TornTail
    BY <1>15 DEF Waiting, Acked, TornTail
  <2> QED BY <1>4, <1>15, <2>1 DEF JournalSound, Kept
<1>18. CacheSound'
  <2>1. ~Installing /\ ~Installing'
    BY <1>1, <1>9 DEF Installing
  <2> QED BY <1>1, <1>4, <1>15, <1>17, <2>1 DEF CacheSound
<1>19. JournalPlan'
  <2>1. \A x \in Left' : x.file = "journal" => cache.loaded
    BY <1>4, <1>6 DEF JournalPlan
  <2> QED BY <1>1, <1>6, <1>7, <2>1 DEF JournalPlan
<1>20. OpTyped' /\ UiTyped' /\ UploaderTyped' /\ CountsTyped'
  BY <1>2, <1>3, <1>4 DEF OpTyped, UiTyped, UploaderTyped, CountsTyped, Judged
<1>21. PlanShape'
  <2>1. \A x \in Left' : x.do = "eraseBackup" /\ x.file = "session" => op.kind = "clear"
    OBVIOUS
  <2> QED BY <1>2, <1>3, <1>7, <1>9, <2>1 DEF PlanShape
<1>22. ui.state = "clearing"
  BY <1>4 DEF OpTyped
<1>23. 1..created.sids \subseteq dropped
  BY <1>4, <1>22 DEF UiTyped
<1>24. /\ \A r \in Kept \cup recorded : r.sid \in 1..created.sids
       /\ \A s \in Snapshots : s.sid \in 1..created.sids
  BY OldSessions
<1>25. ~Committed /\ ~Committed'
  BY <1>2, <1>22 DEF Committed
<1>26. SessionPlan'
  BY <1>2, <1>6, <1>7 DEF SessionPlan
<1>27. PageSound'
  BY <1>22 DEF PageSound, PageStates
<1>28. RecordsFit'
  BY <1>16, <1>23, <1>24 DEF RecordsFit
<1>29. NumbersSound'
  <2>1. \A o \in recorded : o.sid \in dropped
    BY <1>23, <1>24
  <2>2. SequenceRecordedOnce'
    BY <2>1 DEF SequenceRecordedOnce
  <2>3. ui.state \notin PageStates /\ ui.state # "starting"
    BY <1>22 DEF PageStates
  <2> QED BY <1>4, <1>16, <1>17, <2>1, <2>2, <2>3 DEF NumbersSound
<1>30. HeadHeld'
  <2>1. Holding' <=> Holding
    BY <1>5, <1>7 DEF Holding
  <2>2. Judged' = Judged /\ (Repaired' <=> Repaired)
    BY <1>1 DEF Judged, Repaired
  <2> QED BY <1>2, <1>4, <1>17, <2>1, <2>2 DEF HeadHeld
<1>31. NoGap'
  <2>1. \A x : Covered(x)' <=> Covered(x)
    BY <1>17, SameNumbers
  <2>2. Gapless(Waiting)'
    <3>1. Gapless(Waiting)
      BY <1>4 DEF NoGap
    <3> QED BY <1>17, <3>1 DEF Gapless, Brought
  <2>3. \A x \in Snapshots' : Covered(x)'
    BY <1>4, <1>16, <2>1 DEF NoGap
  <2>4. ui.session = NoSession
    BY <1>4, <1>22 DEF UiTyped, PageStates
  <2> QED BY <1>25, <2>2, <2>3, <2>4 DEF NoGap
<1>32. Verdicts'
  <2>1. ui.state \notin WithObs
    BY <1>22 DEF WithObs
  <2>2. Judged' = Judged
    BY DEF Judged
  <2> QED BY <1>4, <1>17, <1>25, <2>1, <2>2 DEF Verdicts
<1> QED BY <1>15, <1>17, <1>18, <1>19, <1>20, <1>21, <1>26, <1>27, <1>28, <1>29, <1>30, <1>31,
           <1>32 DEF WordInv, Typed, JournalInv, SessionInv, UploadInv

-------------------------------------------------------------------------------
(* A snapshot is installed *)

\* A new snapshot is there: what this leaves as it was.
LEMMA SnapshotInstalled ==
    ASSUME WordInv, InstallTemporary, Head1.file = "session",
           UNCHANGED <<ui, uploader, server, created, recorded, dropped>>
    PROVE  /\ Head1 \in Left /\ SessionInstall(Head1) /\ Head1.data \in Sessions
           /\ op' = op /\ op.kind # "clear"
           /\ Left = {Head1} \cup Left' /\ \A x \in Left' : Rank(Head1) < Rank(x)
           /\ Left \in SUBSET Steps
           /\ \A a : Ends(a)' <=> Ends(a)
           /\ JournalLeft' <=> JournalLeft
           /\ Committed' <=> Committed
           /\ op.kind = "commit" => ~Committed
           /\ disk'.session.primary = Head1.data
           /\ Waiting' = Waiting /\ Acked' = Acked /\ Kept' = Kept
           /\ Stored' = Head1.data /\ Boot' = Moved(Head1.data, Kept)
           /\ Snapshots' \in SUBSET (Snapshots \cup {Head1.data})
           /\ Typed' /\ PlanShape' /\ JournalInv' /\ HeadHeld' /\ Verdicts'
<1>1. /\ todo # <<>> /\ Head1.do \in {"install", "create"} /\ Continue /\ cache' = cache
      /\ disk' = [disk EXCEPT ![Head1.file] = [Slot EXCEPT !.primary = Head1.data]]
  BY DEF InstallTemporary, Writing, SetSlot
<1>2. todo' = Tail(todo) /\ result' = result /\ op' = op
  BY <1>1 DEF Continue
<1>3. /\ op # None /\ result = "busy" /\ Head1 \in Steps /\ Head1 \in Left
      /\ todo' # <<>> /\ Planned(todo)'
      /\ Left = {Head1} \cup Left' /\ Left \in SUBSET Steps
      /\ \A x \in Left' : Rank(Head1) < Rank(x)
      /\ Follows(Head1, Head1')
      /\ \A a : Ends(a)' <=> Ends(a)
  BY <1>1, <1>2, HeadDone
<1>4. /\ DiskTyped /\ OpTyped /\ PlanShape /\ UiTyped /\ UploaderTyped /\ CountsTyped
      /\ JournalSound /\ CacheSound /\ JournalPlan /\ SessionPlan
      /\ HeadHeld /\ Verdicts
  BY DEF WordInv, Typed, JournalInv, SessionInv, UploadInv
<1>5. SessionInstall(Head1) /\ ~JournalInstall(Head1) /\ ~AckAppend(Head1) /\ ~ObsAppend(Head1)
  BY <1>1 DEF SessionInstall, JournalInstall, AckAppend, ObsAppend
<1>6. Head1.data \in Sessions
  BY <1>1, <1>3 DEF Steps
<1>7. op.kind # "clear"
  BY <1>3, <1>4, <1>5 DEF PlanShape, SessionLeft
<1>8. /\ AckLeft' <=> AckLeft
      /\ ObsLeft' <=> ObsLeft
      /\ JournalLeft' <=> JournalLeft
      /\ SessionLeft' => SessionLeft
  BY <1>3, <1>5 DEF AckLeft, ObsLeft, JournalLeft, SessionLeft
<1>9. Head1'.do \notin {"backup", "install"}
  BY <1>1, <1>3 DEF Follows
<1> DEFINE f == "session"
           pair == [primary |-> Head1.data, backup |-> disk[f].backup]
<1>10. f \in Files /\ f # "journal" /\ f # "rejected" /\ Head1.file = f
  BY DEF Files
<1>11. disk[f] = [primary |-> disk[f].primary, backup |-> disk[f].backup]
       /\ disk[f] \in Pairs(Sessions)
  BY <1>4, <1>10, SlotTyped
<1>12. disk' = [disk EXCEPT ![f] = pair]
  <2>1. \A x, y, z : [[primary |-> x, backup |-> y] EXCEPT !.primary = z]
                         = [primary |-> z, backup |-> y]
    OBVIOUS
  <2>2. Slot = disk[f]
    BY <1>10 DEF Slot
  <2>3. [Slot EXCEPT !.primary = Head1.data] = pair
    BY <1>11, <2>1, <2>2
  <2> QED BY <1>1, <1>10, <2>3
<1>13. pair \in Pairs(Sessions) /\ pair.primary = Head1.data /\ pair.backup = disk.session.backup
  BY <1>6, <1>11 DEF Pairs
<1>14. disk'.session = disk'[f]
  OBVIOUS
<1> HIDE DEF pair, f
<1>15. /\ DiskTyped' /\ disk'[f] = pair /\ Content' = Content /\ (FromBackup' <=> FromBackup)
       /\ \A g \in Files : g # f => disk'[g] = disk[g]
  BY <1>4, <1>10, <1>12, <1>13, SlotChanged
<1>16. /\ Stored' = Head1.data /\ disk'.session.primary = Head1.data
       /\ Snapshots' \in SUBSET (Snapshots \cup {Head1.data})
  <2>1. Head1.data # Absent
    BY <1>6, NotAbsent
  <2> QED BY <1>13, <1>14, <1>15, <2>1 DEF Snapshots, Stored, LoadSession
<1>17. /\ Waiting' = Waiting /\ Acked' = Acked /\ TornTail' = TornTail /\ Kept' = Kept
       /\ JournalSound'
  <2>1. Waiting' = Waiting /\ Acked' = Acked /\ TornTail' = TornTail
    BY <1>15 DEF Waiting, Acked, TornTail
  <2> QED BY <1>4, <1>15, <2>1 DEF JournalSound, Kept
<1>18. Boot' = Moved(Head1.data, Kept)
  <2>1. Head1.data # Absent
    BY <1>6, NotAbsent
  <2>2. Stored' # Absent /\ Boot' = Moved(Stored', Kept')
    BY <1>16, <2>1 DEF Boot
  <2> QED BY <1>16, <1>17, <2>2
<1>19. CacheSound'
  <2>1. ~Installing /\ ~Installing'
    BY <1>9, <1>10 DEF Installing
  <2> QED BY <1>1, <1>4, <1>15, <1>17, <2>1 DEF CacheSound
<1>20. \A x \in Left' : x \in Left
  BY <1>3
<1>21. Repaired' <=> Repaired
  BY <1>1 DEF Repaired
<1>22. JournalPlan'
  <2>1. Target' = Target
    BY <1>8, <1>17 DEF Target
  <2>2. \A x \in Left' :
            /\ x.file = "journal" => cache.loaded
            /\ JournalInstall(x) => x.data = Target
            /\ AckAppend(x) => x.data = AckOf(Head(Waiting))
            /\ ObsAppend(x) => x.data = op.obs
    BY <1>4, <1>20 DEF JournalPlan
  <2>3. AckLeft => \A x \in Left' : ~(x.do = "removePrimary" /\ x.file = "journal")
    BY <1>4, <1>20 DEF JournalPlan
  <2> QED BY <1>1, <1>2, <1>3, <1>4, <1>8, <1>17, <1>21, <2>1, <2>2, <2>3 DEF JournalPlan
<1>23. OpTyped' /\ UiTyped' /\ UploaderTyped' /\ CountsTyped'
  BY <1>2, <1>3, <1>4 DEF OpTyped, UiTyped, UploaderTyped, CountsTyped, Judged
<1>24. PlanShape'
  <2>1. \A x \in Left' : x.do = "removePrimary" /\ op.kind # "clear" =>
            disk'[x.file].primary = Absent
    <3> SUFFICES ASSUME NEW x \in Left', x.do = "removePrimary"
                 PROVE  disk'[x.file].primary = Absent
      OBVIOUS
    <3>1. x \in Left /\ x \in Steps /\ x.file \in {"journal", "session"}
      BY <1>3 DEF Steps
    <3>2. x.file # "session"
      <4> SUFFICES ASSUME x.file = "session" PROVE FALSE
        OBVIOUS
      <4>1. Rank(x) = 11
        BY DEF Rank, AckAppend, ObsAppend, FirstOf, Place
      <4>2. Rank(Head1) = 12 \/ Rank(Head1) = 15
        BY <1>1 DEF Rank, AckAppend, ObsAppend, FirstOf, Place
      <4> QED BY <1>3, <4>1, <4>2
    <3>3. disk'[x.file] = disk[x.file]
      BY <1>15, <3>1, <3>2 DEF Files, f
    <3> QED BY <1>4, <1>7, <3>1, <3>3 DEF PlanShape
  <2>2. \A x \in Left' : x.do = "eraseBackup" /\ x.file = "session" => op.kind = "clear"
    BY <1>4, <1>20 DEF PlanShape
  <2> QED BY <1>2, <1>3, <1>7, <1>9, <2>1, <2>2 DEF PlanShape
<1>25. Committed' <=> Committed
  BY <1>2, <1>3, <1>8 DEF Committed
<1>26. op.kind = "commit" => ~Committed
  BY <1>1, <1>3, <1>4 DEF SessionPlan
<1>27. HeadHeld'
  <2>1. Holding' <=> Holding
    BY <1>8 DEF Holding
  <2>2. Judged' = Judged
    BY DEF Judged
  <2> QED BY <1>1, <1>2, <1>3, <1>4, <1>8, <1>17, <1>21, <2>1, <2>2 DEF HeadHeld
<1>28. Verdicts'
  <2>1. Judged' = Judged
    BY DEF Judged
  <2> QED BY <1>2, <1>4, <1>17, <1>25, <2>1 DEF Verdicts
<1> QED BY <1>2, <1>3, <1>5, <1>6, <1>7, <1>8, <1>15, <1>16, <1>17, <1>18, <1>19, <1>22, <1>23,
           <1>24, <1>25, <1>26, <1>27, <1>28 DEF Typed, JournalInv

\* What a reboot makes of the snapshot asks for no number that nobody brings.
LEMMA BootCovered ==
    ASSUME WordInv, Stored # Absent
    PROVE  Covered(Boot)
<1>1. /\ DiskTyped /\ CountsTyped /\ JournalSound /\ NoGap /\ Verdicts
  BY DEF WordInv, Typed, JournalInv, UploadInv
<1>2. /\ Stored \in Snapshots /\ Stored \in Sessions
      /\ Boot \in Sessions /\ Boot.sid = Stored.sid /\ Boot.next = NextOf(Stored, Kept)
  BY <1>1, SnapshotFacts
<1>3. /\ Waiting \in Seq(Observations) /\ Kept \in SUBSET Observations
      /\ Elements(Waiting) \in SUBSET Observations
  BY <1>1, JournalFacts
<1>4. /\ Boot.next = Stored.next
         \/ \E r \in Kept : r.sid = Stored.sid /\ r.seq + 1 = Boot.next
  BY <1>2, <1>3, NextFacts
<1>5. CASE Boot.next = Stored.next
  <2>1. Covered(Stored)
    BY <1>1, <1>2 DEF NoGap
  <2> QED BY <1>2, <1>5, <2>1 DEF Covered
<1>6. ASSUME NEW r \in Kept, r.sid = Stored.sid, r.seq + 1 = Boot.next
      PROVE  Covered(Boot)
  <2>1. r \in Observations /\ r.seq \in Nat /\ r.sid \in Sids
    BY <1>3 DEF Observations, Entries, Sids
  <2>2. \A m \in 0..Boot.next - 1 : m = r.seq \/ m \in 0..r.seq - 1
    BY <1>6, <2>1
  <2>3. CASE r \in Elements(Waiting)
    <3>1. PICK i \in 1..Len(Waiting) : Waiting[i] = r
      BY <2>3 DEF Elements
    <3>2. \A m \in 0..r.seq - 1 : Brought(r.sid, m, {Waiting[j] : j \in 1..i - 1})
      BY <1>1, <3>1 DEF NoGap, Gapless
    <3>3. {Waiting[j] : j \in 1..i - 1} \subseteq Elements(Waiting)
      BY <1>3 DEF Elements
    <3>4. \A m \in 0..r.seq - 1 : Brought(r.sid, m, Elements(Waiting))
      BY <3>2, <3>3 DEF Brought
    <3>5. Brought(r.sid, r.seq, Elements(Waiting))
      BY <2>3 DEF Brought
    <3> QED BY <1>2, <1>6, <2>2, <3>4, <3>5 DEF Covered
  <2>4. CASE r \in Elements(Acked)
    <3>1. r.seq < server.next[r.sid] /\ server.next[r.sid] \in 0..MaxIds /\ MaxIds \in Nat
      BY <1>1, <2>1, <2>4, BoundAssumption DEF Verdicts, CountsTyped
    <3>2. \A m \in 0..r.seq - 1 : m < server.next[r.sid]
      BY <2>1, <3>1
    <3> QED BY <1>2, <1>6, <2>2, <3>1, <3>2 DEF Covered, Brought
  <2> QED BY <2>3, <2>4 DEF Kept
<1> QED BY <1>4, <1>5, <1>6

\* A snapshot that the numbers allow keeps the invariant.
LEMMA SnapshotFits ==
    ASSUME WordInv, InstallTemporary, Head1.file = "session",
           UNCHANGED <<ui, uploader, server, created, recorded, dropped>>,
           Covered(Head1.data), Head1.data.sid <= created.sids,
           SessionPlan', PageSound', RecordsFit',
           \A o \in recorded : o.sid \notin dropped =>
               Head1.data.sid = o.sid /\ o.seq < Boot'.next
    PROVE  WordInv'
<1>1. /\ Head1.data \in Sessions
      /\ Committed' <=> Committed
      /\ Waiting' = Waiting /\ Kept' = Kept /\ Stored' = Head1.data
      /\ Snapshots' \in SUBSET (Snapshots \cup {Head1.data})
      /\ Typed' /\ PlanShape' /\ JournalInv' /\ HeadHeld' /\ Verdicts'
  BY SnapshotInstalled
<1>2. NumbersSound /\ NoGap
  BY DEF WordInv, SessionInv, UploadInv
<1>3. NumbersSound'
  <2>1. SequenceRecordedOnce'
    BY <1>2 DEF NumbersSound, SequenceRecordedOnce
  <2>2. Stored' # Absent
    BY <1>1, NotAbsent
  <2>3. \A s \in Snapshots' : s.sid <= created.sids
    BY <1>1, <1>2 DEF NumbersSound
  <2> QED BY <1>1, <1>2, <2>1, <2>2, <2>3 DEF NumbersSound
<1>4. NoGap'
  <2>1. \A x : Covered(x)' <=> Covered(x)
    BY <1>1, SameNumbers
  <2>2. Gapless(Waiting)'
    <3>1. Gapless(Waiting)
      BY <1>2 DEF NoGap
    <3> QED BY <1>1, <3>1 DEF Gapless, Brought
  <2>3. \A x \in Snapshots' : Covered(x)'
    BY <1>1, <1>2, <2>1 DEF NoGap
  <2>4. ui.session # NoSession => Covered(ui.session)'
    BY <1>2, <2>1 DEF NoGap
  <2>5. Committed => Brought(ui.session.sid, ui.session.next, Elements(Waiting))'
    <3>1. Committed => Brought(ui.session.sid, ui.session.next, Elements(Waiting))
      BY <1>2 DEF NoGap
    <3> QED BY <1>1, <3>1 DEF Brought
  <2>6. ui'.session # NoSession => Covered(ui.session)'
    BY <2>4
  <2> QED BY <1>1, <2>2, <2>3, <2>5, <2>6 DEF NoGap
<1> QED BY <1>1, <1>3, <1>4 DEF WordInv, SessionInv, UploadInv

\* The snapshot on disk is recovered, or moved past the records.
LEMMA CheckpointKeeps ==
    ASSUME WordInv, InstallTemporary, Head1.file = "session", op.kind # "save",
           UNCHANGED <<ui, uploader, server, created, recorded, dropped>>
    PROVE  WordInv'
<1> DEFINE d == Head1.data
<1>1. /\ Head1 \in Left /\ SessionInstall(Head1) /\ d \in Sessions
      /\ op' = op /\ op.kind # "clear"
      /\ Left = {Head1} \cup Left' /\ \A x \in Left' : Rank(Head1) < Rank(x)
      /\ \A a : Ends(a)' <=> Ends(a)
      /\ JournalLeft' <=> JournalLeft
      /\ Committed' <=> Committed
      /\ op.kind = "commit" => ~Committed
      /\ disk'.session.primary = d
      /\ Kept' = Kept
      /\ Stored' = d /\ Boot' = Moved(d, Kept)
  BY SnapshotInstalled
<1>2. /\ DiskTyped /\ JournalSound /\ SessionPlan /\ PageSound /\ RecordsFit /\ NumbersSound
      /\ NoGap
  BY DEF WordInv, Typed, JournalInv, SessionInv, UploadInv
<1>3. /\ Stored # Absent /\ (d = Boot \/ (d = Stored /\ Head1.do = "create"))
  BY <1>1, <1>2 DEF SessionPlan
<1>4. /\ Stored \in Snapshots /\ Stored \in Sessions /\ Boot \in Sessions
      /\ Boot.sid = Stored.sid /\ Boot.end = Stored.end /\ Boot.next = NextOf(Stored, Kept)
      /\ Moved(Boot, Kept) = Boot
  BY <1>2, <1>3, SnapshotFacts
<1>5. Boot' = Boot
  <2>1. Boot = Moved(Stored, Kept)
    BY <1>3 DEF Boot
  <2> QED BY <1>1, <1>3, <1>4, <2>1
<1>6. d.sid = Stored.sid /\ d.end = Stored.end /\ Stored' # Absent
  BY <1>1, <1>3, <1>4, NotAbsent
<1>7. Covered(d)
  BY <1>2, <1>3, <1>4, BootCovered DEF NoGap
<1>8. d.sid <= created.sids
  BY <1>2, <1>4, <1>6 DEF NumbersSound
<1>9. SessionPlan'
  <2>1. \A x \in Left' : SessionInstall(x) => x.data = Boot
    <3> SUFFICES ASSUME NEW x \in Left', SessionInstall(x), x.data # Boot PROVE FALSE
      OBVIOUS
    <3>1. x \in Left /\ x.do = "create" /\ x.file = "session"
      BY <1>1, <1>2 DEF SessionPlan, SessionInstall
    <3>2. Rank(x) = 12
      BY <3>1 DEF Rank, AckAppend, ObsAppend, FirstOf, Place
    <3>3. Rank(Head1) = 12 \/ Rank(Head1) = 15
      BY <1>1 DEF SessionInstall, Rank, AckAppend, ObsAppend, FirstOf, Place
    <3> QED BY <1>1, <3>2, <3>3
  <2>2. JournalLeft' \/ (op.kind = "load" /\ Ends("ok")') => WillBeMoved'
    <3>1. JournalLeft' \/ (op.kind = "load" /\ Ends("ok")') => WillBeMoved
      BY <1>1, <1>2 DEF SessionPlan
    <3>2. WillBeMoved => WillBeMoved'
      <4>1. CASE d = Boot
        BY <1>1, <1>5, <4>1 DEF WillBeMoved
      <4>2. CASE d # Boot
        <5>1. WillBeMoved => \E x \in Left' : SessionInstall(x) /\ x.data = Boot
          BY <1>1, <1>3, <4>2 DEF WillBeMoved
        <5> QED BY <1>5, <5>1 DEF WillBeMoved
      <4> QED BY <4>1, <4>2
    <3> QED BY <3>1, <3>2
  <2>3. disk'.session.primary # Absent
    BY <1>1, NotAbsent
  <2> QED BY <1>1, <1>5, <1>6, <2>1, <2>2, <2>3 DEF SessionPlan
<1>10. PageSound'
  BY <1>1, <1>2, <1>5, <1>6 DEF PageSound
<1>11. RecordsFit'
  BY <1>1, <1>2, <1>3, <1>6 DEF RecordsFit
<1>12. \A o \in recorded : o.sid \notin dropped => d.sid = o.sid /\ o.seq < Boot'.next
  BY <1>2, <1>5, <1>6 DEF NumbersSound
<1> QED BY <1>7, <1>8, <1>9, <1>10, <1>11, <1>12, SnapshotFits

\* The session of the page is saved.
LEMMA SaveKeeps ==
    ASSUME WordInv, InstallTemporary, Head1.file = "session", op.kind = "save",
           UNCHANGED <<ui, uploader, server, created, recorded, dropped>>
    PROVE  WordInv'
<1> DEFINE d == Head1.data
<1>1. /\ Head1 \in Left /\ SessionInstall(Head1) /\ d \in Sessions
      /\ op' = op
      /\ Left = {Head1} \cup Left'
      /\ \A a : Ends(a)' <=> Ends(a)
      /\ JournalLeft' <=> JournalLeft
      /\ Committed' <=> Committed
      /\ Kept' = Kept
      /\ Stored' = d /\ Boot' = Moved(d, Kept)
  BY SnapshotInstalled
<1>2. /\ DiskTyped /\ JournalSound /\ JournalPlan /\ SessionPlan /\ PageSound /\ RecordsFit
      /\ NumbersSound /\ NoGap /\ UiTyped /\ CountsTyped /\ OpTyped
  BY DEF WordInv, Typed, JournalInv, SessionInv, UploadInv
<1>3. d = Saved /\ Stored' # Absent
  BY <1>1, <1>2, NotAbsent DEF SessionPlan
<1>4. ui.state \in {"starting", "saving", "savingFailed"}
  BY <1>2 DEF OpTyped
<1>5. ~Committed
  BY <1>4 DEF Committed
<1>6. ui.session \in Sessions /\ ui.session # NoSession
  <2>1. ui.session \in Sessions
    BY <1>2, <1>4 DEF UiTyped, PageStates
  <2> QED BY <2>1 DEF Sessions, NoSession, Session
<1>7. ~JournalLeft
  BY <1>2 DEF JournalPlan
<1>8. SessionPlan'
  <2>1. \A x \in Left' : SessionInstall(x) => x.data = Saved
    BY <1>1, <1>2 DEF SessionPlan
  <2>2. Saved' = Saved
    BY DEF Saved
  <2> QED BY <1>1, <1>3, <1>7, <2>1, <2>2 DEF SessionPlan
<1>9. Covered(ui.session)
  BY <1>2, <1>6 DEF NoGap
<1>10. ui.session.sid <= created.sids
  BY <1>2 DEF UiTyped
<1>11. Kept \in SUBSET Observations
  BY <1>2, JournalFacts
<1>12. CASE ui.state = "starting"
  <2>1. d = ui.session /\ ui.session.sid = created.sids
    BY <1>2, <1>3, <1>12 DEF Saved, UiTyped, Session
  <2>2. Covered(d) /\ d.sid <= created.sids
    BY <1>9, <1>10, <2>1
  <2>3. PageSound'
    BY <1>12 DEF PageSound, PageStates
  <2>4. \A r \in Kept \cup recorded : r.sid # d.sid
    BY <1>2, <1>12, <2>1 DEF NumbersSound
  <2>5. RecordsFit'
    BY <1>1, <2>4 DEF RecordsFit
  <2>6. \A o \in recorded : o.sid \in dropped
    <3>1. \A r \in Kept \cup recorded : r.sid \in 1..created.sids
      BY OldSessions
    <3>2. created.sids \in Nat /\ 1..created.sids - 1 \subseteq dropped
      BY <1>2, OldSessions DEF CountsTyped
    <3>3. \A k \in 1..created.sids : k # created.sids => k \in 1..created.sids - 1
      BY <3>2
    <3> QED BY <2>1, <2>4, <3>1, <3>2, <3>3
  <2> QED BY <1>8, <2>2, <2>3, <2>5, <2>6, SnapshotFits
<1>13. CASE ui.state \in {"saving", "savingFailed"}
  <2>1. d = Paged(ui.session)
    BY <1>3, <1>13 DEF Saved
  <2>2. /\ d.sid = ui.session.sid /\ d.next = ui.session.next
        /\ d.end = ui.session.end + 1
        /\ ui.session.next \in Nat /\ ui.session.end \in Nat
        /\ ui.session.next <= ui.session.end
    <3>1. ui.session = [sid |-> ui.session.sid, next |-> ui.session.next,
                        end |-> ui.session.end]
      BY <1>6 DEF Sessions
    <3>2. d = [ui.session EXCEPT !.end = ui.session.end + 1]
      BY <2>1 DEF Paged
    <3> QED BY <1>6, <3>1, <3>2 DEF Sessions
  <2>3. Covered(d) /\ d.sid <= created.sids
    BY <1>9, <1>10, <2>2 DEF Covered
  <2>4. /\ Stored # Absent /\ Stored.sid = ui.session.sid
        /\ ui.session.sid \notin dropped =>
               Stored.end >= ui.session.end /\ Boot.next = ui.session.next
    BY <1>2, <1>5, <1>13 DEF PageSound, PageStates
  <2>5. /\ Stored \in Sessions /\ Boot.next = NextOf(Stored, Kept)
    BY <1>2, <2>4, SnapshotFacts
  <2>6. ASSUME d.sid \notin dropped
        PROVE  /\ \A r \in Kept : r.sid = d.sid => r.seq + 1 <= ui.session.next
               /\ NextOf(d, Kept) = ui.session.next
    <3>1. \A r \in Kept : r.sid = Stored.sid => r.seq + 1 <= Stored.end
      BY <1>2, <2>2, <2>4, <2>6 DEF RecordsFit
    <3>2. \A r \in Kept : r.sid = Stored.sid /\ r.seq + 1 <= Stored.end =>
              r.seq + 1 <= NextOf(Stored, Kept)
      BY <1>11, <2>5, NextFacts
    <3>3. NextOf(Stored, Kept) = ui.session.next
      BY <2>2, <2>4, <2>5, <2>6
    <3>4. \A r \in Kept : r.sid = d.sid => r.seq + 1 <= ui.session.next
      BY <2>2, <2>4, <3>1, <3>2, <3>3
    <3>5. \A r \in Kept : r.sid = d.sid /\ r.seq + 1 <= d.end => r.seq + 1 <= ui.session.next
      BY <3>4
    <3>6. d.next <= ui.session.next /\ ui.session.next = d.next /\ ui.session.next \in Nat
      BY <2>2
    <3>7. NextOf(d, Kept) = ui.session.next
      BY <1>1, <1>11, <3>5, <3>6, NextIs
    <3> QED BY <3>4, <3>7
  <2>7. Boot'.next = NextOf(d, Kept)
    BY <1>1, <1>11, MovedFacts
  <2>8. PageSound'
    BY <1>1, <1>3, <1>5, <2>2, <2>6, <2>7 DEF PageSound
  <2>9. RecordsFit'
    <3> SUFFICES ASSUME d.sid \notin dropped, NEW r \in Kept, r.sid = d.sid
                 PROVE  r.seq + 1 <= d.end
      BY <1>1 DEF RecordsFit
    <3>1. r.seq + 1 <= ui.session.next /\ r.seq \in Nat
      BY <1>11, <2>6 DEF Observations, Entries
    <3> QED BY <2>2, <3>1
  <2>10. \A o \in recorded : o.sid \notin dropped => d.sid = o.sid /\ o.seq < Boot'.next
    <3>1. \A o \in recorded : o.sid \notin dropped => Stored.sid = o.sid /\ o.seq < Boot.next
      BY <1>2 DEF NumbersSound
    <3> QED BY <2>2, <2>4, <2>6, <2>7, <3>1
  <2> QED BY <1>8, <2>3, <2>8, <2>9, <2>10, SnapshotFits
<1> QED BY <1>4, <1>12, <1>13

-------------------------------------------------------------------------------
(* A journal is installed *)

\* The journal is compacted to what waits.
LEMMA CompactionKeeps ==
    ASSUME WordInv, InstallTemporary, Head1.file = "journal",
           UNCHANGED <<ui, uploader, server, created, recorded, dropped>>
    PROVE  WordInv' /\ Waiting' = Waiting
<1>1. /\ todo # <<>> /\ Head1.do \in {"install", "create"} /\ Continue
      /\ cache' = OutboxScan(Head1.data, <<>>, 0, FALSE, FALSE)
      /\ disk' = [disk EXCEPT ![Head1.file] = [Slot EXCEPT !.primary = Head1.data]]
  BY DEF InstallTemporary, Writing, SetSlot
<1>2. todo' = Tail(todo) /\ result' = result /\ op' = op
  BY <1>1 DEF Continue
<1>3. /\ op # None /\ result = "busy" /\ Head1 \in Steps /\ Head1 \in Left
      /\ todo' # <<>> /\ Planned(todo)'
      /\ Left = {Head1} \cup Left' /\ Left \in SUBSET Steps
      /\ \A x \in Left' : Rank(Head1) < Rank(x)
      /\ Follows(Head1, Head1')
      /\ \A a : Ends(a)' <=> Ends(a)
  BY <1>1, <1>2, HeadDone
<1>4. /\ DiskTyped /\ OpTyped /\ PlanShape /\ UiTyped /\ UploaderTyped /\ CountsTyped
      /\ JournalSound /\ CacheSound /\ JournalPlan /\ SessionPlan
      /\ PageSound /\ RecordsFit /\ NumbersSound /\ HeadHeld /\ NoGap /\ Verdicts
  BY DEF WordInv, Typed, JournalInv, SessionInv, UploadInv
<1>5. JournalInstall(Head1) /\ ~SessionInstall(Head1) /\ ~AckAppend(Head1) /\ ~ObsAppend(Head1)
  BY <1>1 DEF SessionInstall, JournalInstall, AckAppend, ObsAppend
<1>6. Rank(Head1) = 22 \/ Rank(Head1) = 25
  BY <1>1 DEF Rank, AckAppend, ObsAppend, FirstOf, Place
<1>7. ~AckLeft /\ ~SessionLeft /\ JournalLeft
  <2>1. \A x \in Left' : Rank(x) \in Nat /\ ~AckAppend(x) /\ ~SessionInstall(x)
    <3> SUFFICES ASSUME NEW x \in Left' PROVE Rank(x) \in Nat /\ ~AckAppend(x)
                                              /\ ~SessionInstall(x)
      OBVIOUS
    <3>1. x \in Steps /\ Rank(Head1) < Rank(x)
      BY <1>3
    <3>2. /\ Rank(x) \in Nat /\ (AckAppend(x) <=> Rank(x) = 9)
          /\ SessionInstall(x) => 10 <= Rank(x) /\ Rank(x) < 20
      BY <3>1, Ranks
    <3> QED BY <1>6, <3>1, <3>2
  <2> QED BY <1>3, <1>5, <2>1 DEF AckLeft, SessionLeft, JournalLeft
<1>8. /\ ~AckLeft' /\ (ObsLeft' <=> ObsLeft) /\ (JournalLeft' => JournalLeft) /\ ~SessionLeft'
  BY <1>3, <1>5, <1>7 DEF AckLeft, ObsLeft, JournalLeft, SessionLeft
<1>9. Head1.data = Waiting
  BY <1>3, <1>4, <1>5, <1>7 DEF JournalPlan, Target
<1>10. /\ Waiting \in Seq(Observations) /\ DistinctIds(Waiting) /\ Len(Waiting) <= Capacity
       /\ Kept \in SUBSET Observations /\ Elements(Waiting) \in SUBSET Observations
  BY <1>4, JournalFacts
<1>11. op.kind \notin {"save", "clear"} /\ Stored = Boot
  <2>1. op.kind \notin {"save", "clear"}
    BY <1>4, <1>7 DEF JournalPlan
  <2>2. WillBeMoved
    BY <1>4, <1>7 DEF SessionPlan
  <2> QED BY <1>7, <2>1, <2>2 DEF WillBeMoved, SessionLeft
<1>12. ~(op.kind = "commit" /\ Committed)
  BY <1>1, <1>3, <1>4 DEF SessionPlan
<1>13. Head1'.do \notin {"backup", "install"}
  BY <1>1, <1>3 DEF Follows
<1> DEFINE f == "journal"
           pair == [primary |-> Waiting, backup |-> disk[f].backup]
<1>14. f \in Files /\ f # "session" /\ f # "rejected" /\ Head1.file = f
  BY DEF Files
<1>15. disk[f] = [primary |-> disk[f].primary, backup |-> disk[f].backup]
       /\ disk[f] \in Pairs(Seq(Entries \cup {Torn}))
  BY <1>4, <1>14, SlotTyped
<1>16. disk' = [disk EXCEPT ![f] = pair]
  <2>1. \A x, y, z : [[primary |-> x, backup |-> y] EXCEPT !.primary = z]
                         = [primary |-> z, backup |-> y]
    OBVIOUS
  <2>2. Slot = disk[f]
    BY <1>14 DEF Slot
  <2>3. [Slot EXCEPT !.primary = Head1.data] = pair
    BY <1>9, <1>15, <2>1, <2>2
  <2> QED BY <1>1, <1>14, <2>3
<1>17. pair \in Pairs(Seq(Entries \cup {Torn})) /\ pair.primary = Waiting
  <2>1. Waiting \in Seq(Entries \cup {Torn})
    BY <1>10 DEF Observations
  <2> QED BY <1>15, <2>1 DEF Pairs
<1>18. disk'.journal = disk'[f]
  OBVIOUS
<1> HIDE DEF pair, f
<1>19. /\ DiskTyped' /\ disk'[f] = pair /\ Stored' = Stored /\ Snapshots' = Snapshots
       /\ \A g \in Files : g # f => disk'[g] = disk[g]
  BY <1>4, <1>14, <1>16, <1>17, SlotChanged
<1>20. disk'.journal.primary = Waiting /\ Waiting # Absent
  BY <1>10, <1>17, <1>18, <1>19, NotAbsent
<1>21. Content' = Waiting /\ ~FromBackup'
  BY <1>20 DEF Content, ContentOf, FromBackup
<1>22. Clean(Waiting) /\ ~HasTorn(Waiting) /\ WaitingIn(Waiting) = Waiting
       /\ AckedIn(Waiting) = <<>>
  BY <1>10, NewFile
<1>23. /\ Waiting' = Waiting /\ Acked' = <<>> /\ ~TornTail'
       /\ Kept' = Elements(Waiting) /\ Kept' \in SUBSET Kept
  <2>1. Waiting' = WaitingIn(Content') /\ Acked' = AckedIn(Content')
        /\ (TornTail' <=> HasTorn(Content'))
    BY DEF Waiting, Acked, TornTail
  <2>2. Waiting' = Waiting /\ Acked' = <<>> /\ ~TornTail'
    BY <1>21, <1>22, <2>1
  <2>3. Kept' = Elements(Acked') \cup Elements(Waiting')
    BY DEF Kept, Elements
  <2>4. Elements(<<>>) = {}
    BY DEF Elements
  <2> QED BY <2>2, <2>3, <2>4 DEF Kept
<1>24. JournalSound'
  BY <1>10, <1>21, <1>22, <1>23 DEF JournalSound, Clean
<1>25. Boot' = Boot
  <2>1. CASE Stored = Absent
    BY <1>19, <2>1 DEF Boot
  <2>2. CASE Stored # Absent
    <3>1. Stored \in Sessions /\ Moved(Stored, Kept) = Stored
      BY <1>4, <1>11, <2>2, SnapshotFacts DEF Boot
    <3> DEFINE k == Elements(Waiting)
    <3>2. k \in SUBSET Kept
      BY DEF Kept
    <3> HIDE DEF k
    <3>3. Moved(Stored, k) = Stored
      BY <1>10, <3>1, <3>2, InPlace
    <3>4. Boot' = Moved(Stored, k)
      BY <1>19, <1>23, <2>2 DEF Boot, k
    <3> QED BY <1>11, <3>3, <3>4
  <2> QED BY <2>1, <2>2
<1>26. CacheSound' /\ Repaired' /\ cache'.loaded
  <2>1. cache' = OutboxScan(Waiting, <<>>, 0, FALSE, FALSE)
    BY <1>1, <1>9
  <2>2. cache'.loaded /\ ~cache'.partialTail /\ ~cache'.fromBackup
    BY <2>1 DEF OutboxScan
  <2>3. Len(Acked') = 0
    BY <1>23
  <2>4. TornTail' = FALSE
    BY <1>23 DEF TornTail, HasTorn
  <2>5. (FromBackup /\ ~Installing)' = FALSE
    BY <1>21
  <2>6. cache' = OutboxScan(Waiting, Acked, Len(Acked), TornTail, FromBackup /\ ~Installing)'
    BY <1>23, <2>1, <2>3, <2>4, <2>5
  <2> QED BY <2>2, <2>6 DEF CacheSound, Repaired
<1>27. \A x \in Left' : x \in Left
  BY <1>3
<1>28. JournalPlan'
  <2>1. Target' = Waiting
    BY <1>8, <1>23 DEF Target
  <2>2. \A x \in Left' :
            /\ JournalInstall(x) => x.data = Waiting
            /\ ~AckAppend(x)
            /\ ObsAppend(x) => x.data = op.obs
    BY <1>4, <1>7, <1>27 DEF JournalPlan, Target, AckLeft
  <2>3. ObsLeft => op.kind = "commit" /\ Ends("ok") /\ Len(Waiting) < Capacity
    BY <1>4 DEF JournalPlan
  <2> QED BY <1>2, <1>3, <1>8, <1>11, <1>23, <1>26, <2>1, <2>2, <2>3 DEF JournalPlan
<1>29. OpTyped' /\ UiTyped' /\ UploaderTyped' /\ CountsTyped'
  BY <1>2, <1>3, <1>4 DEF OpTyped, UiTyped, UploaderTyped, CountsTyped, Judged
<1>30. PlanShape'
  <2>1. \A x \in Left' : x.do = "removePrimary" /\ op.kind # "clear" =>
            disk'[x.file].primary = Absent
    <3> SUFFICES ASSUME NEW x \in Left', x.do = "removePrimary"
                 PROVE  disk'[x.file].primary = Absent
      OBVIOUS
    <3>1. x \in Left /\ x \in Steps /\ x.file \in {"journal", "session"}
      BY <1>3 DEF Steps
    <3>2. x.file # "journal"
      <4> SUFFICES ASSUME x.file = "journal" PROVE FALSE
        OBVIOUS
      <4>1. Rank(x) = 21
        BY DEF Rank, AckAppend, ObsAppend, FirstOf, Place
      <4> QED BY <1>3, <1>6, <4>1
    <3>3. disk'[x.file] = disk[x.file]
      BY <1>19, <3>1, <3>2 DEF Files, f
    <3> QED BY <1>4, <1>11, <3>1, <3>3 DEF PlanShape
  <2>2. \A x \in Left' : x.do = "eraseBackup" /\ x.file = "session" => op.kind = "clear"
    BY <1>4, <1>27 DEF PlanShape
  <2> QED BY <1>2, <1>3, <1>8, <1>13, <2>1, <2>2 DEF PlanShape
<1>31. Committed' <=> Committed
  BY <1>2, <1>3, <1>8 DEF Committed
<1>32. SessionPlan'
  <2>1. \A x \in Left' : ~SessionInstall(x)
    BY <1>8 DEF SessionLeft
  <2>2. disk'.session = disk.session
    BY <1>14, <1>19 DEF Files
  <2>3. op.kind = "load" /\ Ends("ok") => disk.session.primary # Absent
    BY <1>4, <1>7 DEF SessionPlan
  <2>4. WillBeMoved'
    BY <1>11, <1>19, <1>25 DEF WillBeMoved
  <2> QED BY <1>2, <1>3, <1>11, <1>12, <1>31, <2>1, <2>2, <2>3, <2>4 DEF SessionPlan
<1>33. PageSound' /\ RecordsFit'
  BY <1>4, <1>19, <1>23, <1>25, <1>31 DEF PageSound, RecordsFit
<1>34. NumbersSound'
  <2>1. SequenceRecordedOnce'
    BY <1>4 DEF NumbersSound, SequenceRecordedOnce
  <2>2. \A r \in Kept' \cup recorded : r \in Kept \cup recorded
    BY <1>23
  <2> QED BY <1>4, <1>19, <1>25, <2>1, <2>2 DEF NumbersSound
<1>35. HeadHeld'
  <2>1. Holding' => Holding
    BY <1>8 DEF Holding
  <2>2. Judged' = Judged
    BY DEF Judged
  <2> QED BY <1>2, <1>3, <1>4, <1>23, <1>26, <2>1, <2>2 DEF HeadHeld
<1>36. NoGap'
  <2>1. \A x : Covered(x)' <=> Covered(x)
    BY <1>23, SameNumbers
  <2>2. Gapless(Waiting)'
    <3>1. Gapless(Waiting)
      BY <1>4 DEF NoGap
    <3> QED BY <1>23, <3>1 DEF Gapless, Brought
  <2>3. \A x \in Snapshots' : Covered(x)'
    BY <1>4, <1>19, <2>1 DEF NoGap
  <2>4. ui.session # NoSession => Covered(ui.session)
    BY <1>4 DEF NoGap
  <2>5. ui'.session # NoSession => Covered(ui.session)'
    BY <1>23, <2>4 DEF Covered, Brought
  <2>6. Committed => Brought(ui.session.sid, ui.session.next, Elements(Waiting))'
    <3>1. Committed => Brought(ui.session.sid, ui.session.next, Elements(Waiting))
      BY <1>4 DEF NoGap
    <3> QED BY <1>23, <3>1 DEF Brought
  <2> QED BY <1>31, <2>2, <2>3, <2>5, <2>6 DEF NoGap
<1>37. Verdicts'
  <2>1. Judged' = Judged
    BY DEF Judged
  <2>2. \A r \in Kept' : r \in Kept
    BY <1>23
  <2>3. Elements(Acked)' = {} /\ Elements(Waiting)' = Elements(Waiting)
    BY <1>23 DEF Elements
  <2> QED BY <1>2, <1>4, <1>12, <1>31, <2>1, <2>2, <2>3 DEF Verdicts
<1> QED BY <1>19, <1>23, <1>24, <1>26, <1>28, <1>29, <1>30, <1>32, <1>33, <1>34, <1>35, <1>36, <1>37
        DEF WordInv, Typed, JournalInv, SessionInv, UploadInv

-------------------------------------------------------------------------------
(* A record is appended *)

\* The journal has another primary.
LEMMA JournalGrows ==
    ASSUME DiskTyped, NEW file \in Seq(Entries \cup {Torn}),
           disk' = [disk EXCEPT !.journal.primary = file]
    PROVE  /\ DiskTyped' /\ Content' = file /\ ~FromBackup'
           /\ Stored' = Stored /\ Snapshots' = Snapshots /\ disk'.session = disk.session
           /\ \A g \in Files : g # "journal" => disk'[g] = disk[g]
<1> DEFINE f == "journal"
           pair == [primary |-> file, backup |-> disk[f].backup]
<1>1. f \in Files /\ f # "session" /\ f # "rejected"
  BY DEF Files
<1>2. disk[f] = [primary |-> disk[f].primary, backup |-> disk[f].backup]
      /\ disk[f] \in Pairs(Seq(Entries \cup {Torn}))
  BY <1>1, SlotTyped
<1>3. disk' = [disk EXCEPT ![f] = pair]
  <2>1. \A x, y, z : [[primary |-> x, backup |-> y] EXCEPT !.primary = z]
                         = [primary |-> z, backup |-> y]
    OBVIOUS
  <2>2. [disk[f] EXCEPT !.primary = file] = pair
    BY <1>2, <2>1
  <2>3. disk' = [disk EXCEPT ![f] = [disk[f] EXCEPT !.primary = file]]
    OBVIOUS
  <2> QED BY <2>2, <2>3
<1>4. pair \in Pairs(Seq(Entries \cup {Torn})) /\ pair.primary = file
  BY <1>2 DEF Pairs
<1>5. disk'.journal = disk'[f]
  OBVIOUS
<1> HIDE DEF pair, f
<1>6. /\ DiskTyped' /\ disk'[f] = pair /\ Stored' = Stored /\ Snapshots' = Snapshots
      /\ \A g \in Files : g # f => disk'[g] = disk[g]
  BY <1>1, <1>3, <1>4, SlotChanged
<1>7. disk'.journal.primary = file /\ file # Absent
  BY <1>4, <1>5, <1>6, NotAbsent
<1>8. Content' = file /\ ~FromBackup'
  BY <1>7 DEF Content, ContentOf, FromBackup
<1> QED BY <1>1, <1>6, <1>8 DEF Files, f

\* An append starts with its journal and its cache whole.
LEMMA AppendStarts ==
    ASSUME WordInv, todo # <<>>, Head1.do = "append"
    PROVE  /\ op # None /\ Head1 \in Steps /\ Head1 \in Left /\ Left \in SUBSET Steps
           /\ Repaired /\ TornTail = FALSE /\ FromBackup = FALSE
           /\ cache = OutboxScan(Waiting, Acked, Len(Acked), FALSE, FALSE)
           /\ \A r : Appended(r) = Append(Content, r)
           /\ HalfAppended = {disk.journal.primary, Append(Content, Torn),
                              Append(Content, Head1.data)}
           /\ \/ /\ AckAppend(Head1) /\ op.kind \in {"ack", "quarantine"}
                 /\ Waiting # <<>> /\ Head1.data = AckOf(Head(Waiting))
                 /\ Head(Waiting).id \in Judged
                 /\ Head(Waiting).seq < server.next[Head(Waiting).sid]
              \/ /\ ObsAppend(Head1) /\ op.kind = "commit" /\ Ends("ok")
                 /\ Len(Waiting) < Capacity /\ Head1.data = ui.obs
                 /\ ui.state = "persisting" /\ ~Committed
<1>1. /\ DiskTyped /\ OpTyped /\ PlanShape /\ UiTyped /\ UploaderTyped
      /\ JournalSound /\ CacheSound /\ JournalPlan /\ HeadHeld
  BY DEF WordInv, Typed, JournalInv, UploadInv
<1>2. todo \in Seq(Steps) /\ Increasing(todo) /\ Head1 = todo[1] /\ Len(todo) \in Nat \ {0}
  BY <1>1 DEF PlanShape, Planned, Head1
<1>3. Head1 \in Steps /\ Head1 \in Left /\ Left \in SUBSET Steps
  BY <1>2 DEF Left, Elements
<1>4. op # None
  BY <1>1 DEF OpTyped
<1>5. \A x \in Left : x = Head1 \/ Rank(Head1) < Rank(x)
  <2>1. \A i \in 1..Len(todo) : i = 1 \/ (1 < i /\ 1 \in 1..Len(todo))
    BY <1>2
  <2> QED BY <1>2, <2>1 DEF Left, Elements, Increasing
<1>6. AckAppend(Head1) \/ ObsAppend(Head1)
  BY <1>3, Ranks
<1>7. AckAppend(Head1) =>
          /\ op.kind \in {"ack", "quarantine"} /\ Repaired
          /\ Waiting # <<>> /\ Head1.data = AckOf(Head(Waiting))
          /\ Head(Waiting).id \in Judged
          /\ Head(Waiting).seq < server.next[Head(Waiting).sid]
  <2> SUFFICES ASSUME AckAppend(Head1)
               PROVE  /\ op.kind \in {"ack", "quarantine"} /\ Repaired
                      /\ Waiting # <<>> /\ Head1.data = AckOf(Head(Waiting))
                      /\ Head(Waiting).id \in Judged
                      /\ Head(Waiting).seq < server.next[Head(Waiting).sid]
    OBVIOUS
  <2>1. AckLeft /\ op.kind \in {"ack", "quarantine"} /\ Head1.data = AckOf(Head(Waiting))
    BY <1>1, <1>3 DEF AckLeft, JournalPlan
  <2>2. uploader.state \in {"acking", "quarantining"}
    BY <1>1, <2>1 DEF OpTyped
  <2>3. Holding /\ uploader.state # "holding"
    BY <2>1, <2>2 DEF Holding
  <2>4. Repaired /\ Waiting # <<>> /\ uploader.obs = Head(Waiting)
    BY <1>1, <2>3 DEF HeadHeld
  <2>5. uploader.obs.id \in Judged /\ uploader.obs.seq < server.next[uploader.obs.sid]
    BY <1>1, <2>3 DEF HeadHeld
  <2> QED BY <2>1, <2>4, <2>5
<1>8. ObsAppend(Head1) =>
          /\ op.kind = "commit" /\ Ends("ok") /\ Repaired
          /\ Len(Waiting) < Capacity /\ Head1.data = ui.obs
          /\ ui.state = "persisting" /\ ~Committed
  <2> SUFFICES ASSUME ObsAppend(Head1)
               PROVE  /\ op.kind = "commit" /\ Ends("ok") /\ Repaired
                      /\ Len(Waiting) < Capacity /\ Head1.data = ui.obs
                      /\ ui.state = "persisting" /\ ~Committed
    OBVIOUS
  <2>1. ObsLeft /\ op.kind = "commit" /\ Ends("ok") /\ Len(Waiting) < Capacity
        /\ Head1.data = op.obs
    BY <1>1, <1>3 DEF ObsLeft, JournalPlan
  <2>2. Rank(Head1) = 30
    BY <1>3, Ranks
  <2>3. \A x \in Left : ~JournalInstall(x)
    <3> SUFFICES ASSUME NEW x \in Left, JournalInstall(x) PROVE FALSE
      OBVIOUS
    <3>1. x \in Steps
      BY <1>3
    <3>2. 20 <= Rank(x) /\ Rank(x) < 30 /\ Rank(x) \in Nat
      BY <3>1, Ranks
    <3>3. x # Head1
      BY <2>2, <3>2
    <3> QED BY <1>5, <2>2, <3>2, <3>3
  <2>4. Repaired
    BY <1>1, <2>1, <2>3 DEF JournalPlan, JournalLeft
  <2>5. ui.state = "persisting" /\ op.obs = ui.obs
    BY <1>1, <2>1 DEF OpTyped
  <2>6. ~Committed
    BY <2>1, <2>5 DEF Committed
  <2> QED BY <2>1, <2>4, <2>5, <2>6
<1>9. Repaired
  BY <1>6, <1>7, <1>8
<1>10. ~Installing
  BY DEF Installing
<1>11. TornTail = FALSE /\ FromBackup = FALSE
  <2>1. cache = OutboxScan(Waiting, Acked, Len(Acked), TornTail, FromBackup /\ ~Installing)
    BY <1>1, <1>9 DEF CacheSound, Repaired
  <2>2. ~TornTail /\ ~(FromBackup /\ ~Installing)
    BY <1>9, <2>1 DEF OutboxScan, Repaired
  <2> QED BY <1>10, <2>2 DEF TornTail, HasTorn, FromBackup
<1>12. cache = OutboxScan(Waiting, Acked, Len(Acked), FALSE, FALSE)
  <2>1. cache = OutboxScan(Waiting, Acked, Len(Acked), TornTail, FromBackup /\ ~Installing)
    BY <1>1, <1>9 DEF CacheSound, Repaired
  <2>2. (FromBackup /\ ~Installing) = FALSE
    BY <1>10, <1>11
  <2> QED BY <1>11, <2>1, <2>2
<1>13. (IF disk.journal.primary = Absent THEN <<>> ELSE disk.journal.primary) = Content
  BY <1>11 DEF FromBackup, Content, ContentOf
<1>14. \A r : Appended(r) = Append(Content, r)
  <2>1. \A r : Append(<<>>, r) = <<r>>
    OBVIOUS
  <2> QED BY <1>13, <2>1 DEF Appended
<1>15. HalfAppended = {disk.journal.primary, Append(Content, Torn), Append(Content, Head1.data)}
  BY <1>13 DEF HalfAppended
<1> QED BY <1>3, <1>4, <1>6, <1>7, <1>8, <1>9, <1>11, <1>12, <1>14, <1>15

\* What the files say, whoever runs: all that a power loss leaves.
OnDisk ==
    /\ DiskTyped /\ JournalSound /\ RecordsFit
    /\ Gapless(Waiting) /\ \A s \in Snapshots : Covered(s)
    /\ \A r \in Elements(Waiting) : r.id \in server.accepted => r.seq < server.next[r.sid]
    /\ \A r \in Elements(Acked) : r.id \in Judged /\ r.seq < server.next[r.sid]
    /\ \A o \in recorded : o.id \in Judged \/ \E r \in Elements(Waiting) : r.id = o.id
    /\ \A o \in recorded : o.sid \notin dropped =>
           Stored # Absent /\ Stored.sid = o.sid /\ o.seq < Boot.next
    /\ \A r \in Kept \cup recorded : r.id <= created.ids /\ r.sid <= created.sids
    /\ \A s \in Snapshots : s.sid <= created.sids
    /\ SequenceRecordedOnce

\* The invariant says that much of the files.
LEMMA DiskSound ==
    ASSUME WordInv
    PROVE  OnDisk
BY DEF WordInv, Typed, JournalInv, SessionInv, UploadInv, OnDisk, NoGap, Verdicts, NumbersSound

\* What a step may do to the list that waits: nothing, take its judged head, or append an
\* observation that is new.
WaitingMoves ==
    \/ Waiting' = Waiting
    \/ Waiting # <<>> /\ Waiting' = Tail(Waiting) /\ Head(Waiting).id \in Judged
    \/ \E o \in Observations :
           Waiting' = Append(Waiting, o) /\ o.id \notin Judged \cup IdsOf(Waiting)

\* A journal with the same records, of which some are acknowledged now.
LEMMA SameRecords ==
    ASSUME OnDisk, DiskTyped', JournalSound', Gapless(Waiting)',
           Kept' = Kept, Stored' = Stored, Snapshots' = Snapshots,
           server' = server, created' = created, recorded' = recorded, dropped' = dropped,
           Elements(Waiting') \in SUBSET Elements(Waiting),
           \A r \in Elements(Waiting) : r \in Elements(Waiting') \/ r.id \in Judged,
           \A r \in Elements(Acked') :
               r \in Elements(Acked) \/ (r.id \in Judged /\ r.seq < server.next[r.sid]),
           \A sid, m : Brought(sid, m, Elements(Waiting)) =>
                           Brought(sid, m, Elements(Waiting))'
    PROVE  OnDisk' /\ Boot' = Boot
<1>1. Boot' = Boot
  BY DEF Boot
<1>2. Judged' = Judged
  BY DEF Judged
<1>3. RecordsFit'
  BY DEF OnDisk, RecordsFit
<1>4. (\A s \in Snapshots : Covered(s))'
  BY DEF OnDisk, Covered
<1>5. (\A r \in Elements(Waiting) : r.id \in server.accepted => r.seq < server.next[r.sid])'
  BY DEF OnDisk
<1>6. (\A r \in Elements(Acked) : r.id \in Judged /\ r.seq < server.next[r.sid])'
  BY <1>2 DEF OnDisk
<1>7. (\A o \in recorded : o.id \in Judged \/ \E r \in Elements(Waiting) : r.id = o.id)'
  <2> SUFFICES ASSUME NEW o \in recorded, o.id \notin Judged
               PROVE  \E r \in Elements(Waiting') : r.id = o.id
    BY <1>2
  <2>1. PICK r \in Elements(Waiting) : r.id = o.id
    BY DEF OnDisk
  <2> QED BY <2>1
<1>8. (\A o \in recorded : o.sid \notin dropped =>
           Stored # Absent /\ Stored.sid = o.sid /\ o.seq < Boot.next)'
  BY <1>1 DEF OnDisk
<1>9. (\A r \in Kept \cup recorded : r.id <= created.ids /\ r.sid <= created.sids)'
      /\ (\A s \in Snapshots : s.sid <= created.sids)'
  BY DEF OnDisk
<1>10. SequenceRecordedOnce'
  BY DEF OnDisk, SequenceRecordedOnce
<1> QED BY <1>1, <1>3, <1>4, <1>5, <1>6, <1>7, <1>8, <1>9, <1>10 DEF OnDisk

\* Without its head that the server has, a list without gaps has none.
LEMMA GaplessTail ==
    ASSUME NEW w \in Seq(Observations), w # <<>>, Gapless(w),
           Head(w).seq < server.next[Head(w).sid]
    PROVE  Gapless(Tail(w))
<1>1. /\ Len(Tail(w)) = Len(w) - 1 /\ Len(w) \in Nat
      /\ \A i \in 1..Len(Tail(w)) : Tail(w)[i] = w[i + 1] /\ i + 1 \in 1..Len(w)
      /\ w[1] = Head(w)
  OBVIOUS
<1>2. SUFFICES ASSUME NEW i \in 1..Len(Tail(w)), NEW m \in 0..Tail(w)[i].seq - 1
               PROVE  Brought(Tail(w)[i].sid, m, {Tail(w)[j] : j \in 1..i - 1})
  BY DEF Gapless
<1> DEFINE n == i + 1
<1>3. n \in 1..Len(w) /\ Tail(w)[i] = w[n] /\ m \in 0..w[n].seq - 1 /\ n - 1 = i
  BY <1>1
<1>4. i \in Nat
  OBVIOUS
<1> HIDE DEF n
<1>5. Brought(w[n].sid, m, {w[j] : j \in 1..n - 1})
  BY <1>3 DEF Gapless
<1>6. CASE m < server.next[w[n].sid]
  BY <1>3, <1>6 DEF Brought
<1>7. ASSUME NEW j \in 1..n - 1, w[j].sid = w[n].sid, w[j].seq = m
      PROVE  Brought(w[n].sid, m, {Tail(w)[k] : k \in 1..i - 1})
  <2>1. CASE j = 1
    BY <1>1, <1>7, <2>1 DEF Brought
  <2>2. CASE j # 1
    <3>1. j - 1 \in 1..i - 1 /\ j - 1 \in 1..Len(Tail(w)) /\ j - 1 + 1 = j
      BY <1>1, <1>3, <1>4, <2>2
    <3>2. Tail(w)[j - 1] = w[j]
      BY <1>1, <3>1
    <3> QED BY <1>7, <3>1, <3>2 DEF Brought
  <2> QED BY <2>1, <2>2
<1> QED BY <1>3, <1>5, <1>6, <1>7 DEF Brought

\* An ACK at the end of the journal: its head does not wait any more.
LEMMA AckLands ==
    ASSUME WordInv, todo # <<>>, Head1.do = "append", AckAppend(Head1),
           disk' = [disk EXCEPT !.journal.primary = Append(Content, Head1.data)],
           server' = server, created' = created, recorded' = recorded, dropped' = dropped
    PROVE  /\ WaitingMoves
           /\ OnDisk' /\ TornTail' = FALSE /\ FromBackup' = FALSE
           /\ Waiting' = Tail(Waiting) /\ Acked' = Append(Acked, Head(Waiting))
           /\ Kept' = Kept /\ Stored' = Stored /\ Snapshots' = Snapshots /\ Boot' = Boot
           /\ disk'.session = disk.session
           /\ \A g \in Files : g # "journal" => disk'[g] = disk[g]
           /\ \A sid, m : Brought(sid, m, Elements(Waiting)) =>
                              Brought(sid, m, Elements(Waiting))'
<1> DEFINE file == Append(Content, AckOf(Head(Waiting)))
<1>1. /\ OnDisk /\ DiskTyped /\ JournalSound /\ Gapless(Waiting)
  BY DiskSound DEF OnDisk
<1>2. /\ Waiting # <<>> /\ Head1.data = AckOf(Head(Waiting)) /\ TornTail = FALSE
      /\ Head(Waiting).id \in Judged /\ Head(Waiting).seq < server.next[Head(Waiting).sid]
  BY AppendStarts DEF AckAppend, ObsAppend
<1>3. /\ Clean(Content) /\ Waiting \in Seq(Observations) /\ Acked \in Seq(Observations)
      /\ Len(Waiting) \in Nat /\ Len(Waiting) <= Capacity /\ Capacity \in Nat
  BY <1>1, JournalFacts
<1>4. /\ Clean(file) /\ ~HasTorn(file)
      /\ WaitingIn(file) = Tail(Waiting) /\ AckedIn(file) = Append(Acked, Head(Waiting))
  BY <1>2, <1>3, AckFile DEF TornTail, Waiting, Acked
<1>5. file \in Seq(Entries \cup {Torn})
  BY <1>4 DEF Clean
<1>6. disk' = [disk EXCEPT !.journal.primary = file]
  BY <1>2
<1> HIDE DEF file
<1>7. /\ DiskTyped' /\ Content' = file /\ ~FromBackup'
      /\ Stored' = Stored /\ Snapshots' = Snapshots /\ disk'.session = disk.session
      /\ \A g \in Files : g # "journal" => disk'[g] = disk[g]
  BY <1>1, <1>5, <1>6, JournalGrows
<1>8. /\ Waiting' = Tail(Waiting) /\ Acked' = Append(Acked, Head(Waiting))
      /\ TornTail' = FALSE
  BY <1>4, <1>7 DEF Waiting, Acked, TornTail, HasTorn
<1>9. FromBackup' = FALSE
  BY <1>7 DEF FromBackup
<1>10. /\ Elements(Waiting) = {Head(Waiting)} \cup Elements(Tail(Waiting))
       /\ Head(Waiting) \in Observations
  <2>1. Head(Waiting) \in Observations
    BY <1>2, <1>3
  <2> QED BY <1>2, <1>3, <2>1, ElementsOf
<1>11. Elements(Append(Acked, Head(Waiting))) = Elements(Acked) \cup {Head(Waiting)}
  BY <1>3, <1>10, ElementsOf
<1>12. Kept' = Kept
  BY <1>8, <1>10, <1>11 DEF Kept
<1>13. \A sid, m : Brought(sid, m, Elements(Waiting)) => Brought(sid, m, Elements(Waiting))'
  BY <1>2, <1>8, <1>10 DEF Brought
<1>14. JournalSound'
  <2>1. Len(Tail(Waiting)) <= Len(Waiting) /\ Len(Tail(Waiting)) \in Nat
    BY <1>2, <1>3
  <2>2. Len(Tail(Waiting)) <= Capacity
    BY <1>3, <2>1
  <2> QED BY <1>4, <1>7, <1>8, <2>2 DEF JournalSound
<1>15. Gapless(Waiting)'
  <2>1. Gapless(Tail(Waiting))
    BY <1>1, <1>2, <1>3, GaplessTail
  <2>2. \A s : Gapless(s)' <=> Gapless(s)
    BY DEF Gapless, Brought
  <2> QED BY <1>8, <2>1, <2>2
<1>16. OnDisk' /\ Boot' = Boot
  <2>1. /\ Elements(Waiting') \in SUBSET Elements(Waiting)
        /\ \A r \in Elements(Waiting) : r \in Elements(Waiting') \/ r.id \in Judged
    BY <1>2, <1>8, <1>10
  <2>2. \A r \in Elements(Acked') :
            r \in Elements(Acked) \/ (r.id \in Judged /\ r.seq < server.next[r.sid])
    BY <1>2, <1>8, <1>11
  <2> QED BY <1>1, <1>7, <1>12, <1>13, <1>14, <1>15, <2>1, <2>2, SameRecords
<1>17. WaitingMoves
  BY <1>2, <1>8 DEF WaitingMoves
<1> QED BY <1>7, <1>8, <1>9, <1>12, <1>13, <1>16, <1>17

\* Part of a record at the end of the journal changes nothing that it says.
LEMMA TornLands ==
    ASSUME WordInv, todo # <<>>, Head1.do = "append",
           disk' = [disk EXCEPT !.journal.primary = Append(Content, Torn)],
           server' = server, created' = created, recorded' = recorded, dropped' = dropped
    PROVE  OnDisk' /\ WaitingMoves
<1> DEFINE file == Append(Content, Torn)
<1>1. /\ OnDisk /\ DiskTyped /\ JournalSound /\ Gapless(Waiting)
  BY DiskSound DEF OnDisk
<1>2. TornTail = FALSE
  BY AppendStarts
<1>3. Clean(Content)
  BY <1>1, JournalFacts
<1>4. Clean(file) /\ WaitingIn(file) = Waiting /\ AckedIn(file) = Acked
  BY <1>2, <1>3, TornFile DEF TornTail, Waiting, Acked
<1>5. file \in Seq(Entries \cup {Torn})
  BY <1>4 DEF Clean
<1>6. disk' = [disk EXCEPT !.journal.primary = file]
  OBVIOUS
<1> HIDE DEF file
<1>7. DiskTyped' /\ Content' = file /\ Stored' = Stored /\ Snapshots' = Snapshots
  BY <1>1, <1>5, <1>6, JournalGrows
<1>8. Waiting' = Waiting /\ Acked' = Acked
  BY <1>4, <1>7 DEF Waiting, Acked
<1>9. Kept' = Kept
  BY <1>8 DEF Kept
<1>10. JournalSound'
  BY <1>1, <1>4, <1>7, <1>8 DEF JournalSound
<1>11. \A sid, m : Brought(sid, m, Elements(Waiting)) => Brought(sid, m, Elements(Waiting))'
  BY <1>8 DEF Brought
<1>12. Gapless(Waiting)'
  BY <1>1, <1>8 DEF Gapless, Brought
<1> QED BY <1>1, <1>7, <1>8, <1>9, <1>10, <1>11, <1>12, SameRecords DEF WaitingMoves

\* A number of a session behind a list that has, or whose server has, all before it.
LEMMA GaplessNext ==
    ASSUME NEW w \in Seq(Observations), NEW o \in Observations, Gapless(w),
           \A m \in 0..o.seq - 1 : Brought(o.sid, m, Elements(w))
    PROVE  Gapless(Append(w, o))
<1> DEFINE v == Append(w, o)
<1>1. /\ Len(v) = Len(w) + 1 /\ Len(w) \in Nat /\ v[Len(w) + 1] = o
      /\ \A i \in 1..Len(w) : v[i] = w[i] /\ i \in 1..Len(v)
  OBVIOUS
<1> HIDE DEF v
<1> SUFFICES ASSUME NEW i \in 1..Len(v), NEW m \in 0..v[i].seq - 1
             PROVE  Brought(v[i].sid, m, {v[j] : j \in 1..i - 1})
  BY DEF Gapless, v
<1>2. CASE i \in 1..Len(w)
  <2>1. \A j \in 1..i - 1 : j \in 1..Len(w)
    BY <1>1, <1>2
  <2>2. {v[j] : j \in 1..i - 1} = {w[j] : j \in 1..i - 1}
    BY <1>1, <2>1
  <2>3. v[i] = w[i] /\ m \in 0..w[i].seq - 1
    BY <1>1, <1>2
  <2>4. Brought(w[i].sid, m, {w[j] : j \in 1..i - 1})
    BY <1>2, <2>3 DEF Gapless
  <2> QED BY <2>2, <2>3, <2>4
<1>3. CASE i \notin 1..Len(w)
  <2>1. i = Len(w) + 1 /\ i - 1 = Len(w)
    BY <1>1, <1>3
  <2>2. {v[j] : j \in 1..i - 1} = Elements(w)
    BY <1>1, <2>1 DEF Elements
  <2>3. v[i] = o
    BY <1>1, <2>1
  <2> QED BY <2>2, <2>3
<1> QED BY <1>2, <1>3

\* An observation at the end of the journal: it is the next one of the page's session,
\* and moves the cursor that a reboot finds past it.
LEMMA ObsLands ==
    ASSUME WordInv, todo # <<>>, Head1.do = "append", ObsAppend(Head1),
           disk' = [disk EXCEPT !.journal.primary = Append(Content, Head1.data)],
           server' = server, created' = created, recorded' = recorded, dropped' = dropped
    PROVE  /\ WaitingMoves
           /\ OnDisk' /\ TornTail' = FALSE /\ FromBackup' = FALSE
           /\ Waiting' = Append(Waiting, ui.obs) /\ Acked' = Acked
           /\ Elements(Waiting') = Elements(Waiting) \cup {ui.obs}
           /\ Kept' = Kept \cup {ui.obs} /\ Stored' = Stored /\ Snapshots' = Snapshots
           /\ Stored # Absent /\ Stored.sid = ui.session.sid
           /\ ui.session.sid \notin dropped =>
                  Boot'.next = ui.session.next + 1 /\ Stored.end >= ui.session.end
           /\ disk'.session = disk.session
           /\ \A g \in Files : g # "journal" => disk'[g] = disk[g]
<1> DEFINE file == Append(Content, ui.obs)
<1>1. /\ OnDisk /\ DiskTyped /\ JournalSound /\ Gapless(Waiting) /\ RecordsFit
  BY DiskSound DEF OnDisk
<1>2. /\ Head1.data = ui.obs /\ TornTail = FALSE /\ Len(Waiting) < Capacity
      /\ ui.state = "persisting" /\ ~Committed
  BY AppendStarts DEF AckAppend, ObsAppend
<1>3. /\ Clean(Content) /\ Waiting \in Seq(Observations) /\ Acked \in Seq(Observations)
      /\ Len(Waiting) \in Nat /\ Len(Waiting) <= Capacity /\ Capacity \in Nat
      /\ Kept \in SUBSET Observations
  BY <1>1, JournalFacts
<1>4. UiTyped /\ CountsTyped /\ PageSound /\ NumbersSound /\ NoGap /\ Verdicts
  BY DEF WordInv, Typed, SessionInv, UploadInv
<1>5. /\ ui.obs \in Observations /\ ui.session \in Sessions
      /\ ui.obs.sid = ui.session.sid /\ ui.obs.seq = ui.session.next
      /\ ui.obs.seq < ui.session.end /\ ui.obs.id <= created.ids
      /\ ui.session.sid <= created.sids
  BY <1>2, <1>4 DEF UiTyped, WithObs, PageStates
<1>6. ui.obs.id \notin Judged /\ \A r \in Kept : r.id # ui.obs.id
  BY <1>2, <1>4 DEF Verdicts, WithObs
<1>7. ui.obs.id \notin IdsOf(AckedIn(Content)) \cup IdsOf(WaitingIn(Content))
  <2>1. \A s \in Seq(Observations) : \A i \in DOMAIN s : s[i] \in Elements(s)
    BY DEF Elements
  <2> QED BY <1>3, <1>6, <2>1 DEF IdsOf, Kept, Waiting, Acked
<1>8. /\ Clean(file) /\ ~HasTorn(file)
      /\ WaitingIn(file) = Append(Waiting, ui.obs) /\ AckedIn(file) = Acked
  BY <1>2, <1>3, <1>5, <1>7, ObsFile DEF TornTail, Waiting, Acked
<1>9. file \in Seq(Entries \cup {Torn})
  BY <1>8 DEF Clean
<1>10. disk' = [disk EXCEPT !.journal.primary = file]
  BY <1>2
<1> HIDE DEF file
<1>11. /\ DiskTyped' /\ Content' = file /\ ~FromBackup'
       /\ Stored' = Stored /\ Snapshots' = Snapshots /\ disk'.session = disk.session
       /\ \A g \in Files : g # "journal" => disk'[g] = disk[g]
  BY <1>1, <1>9, <1>10, JournalGrows
<1>12. /\ Waiting' = Append(Waiting, ui.obs) /\ Acked' = Acked
       /\ TornTail' = FALSE
  BY <1>8, <1>11 DEF Waiting, Acked, TornTail, HasTorn
<1>13. FromBackup' = FALSE
  BY <1>11 DEF FromBackup
<1>14. Elements(Waiting') = Elements(Waiting) \cup {ui.obs}
  <2>1. Elements(Append(Waiting, ui.obs)) = Elements(Waiting) \cup {ui.obs}
    BY <1>3, <1>5, ElementsOf
  <2> QED BY <1>12, <2>1
<1>15. Kept' = Kept \cup {ui.obs}
  BY <1>12, <1>14 DEF Kept
<1>16. JournalSound'
  <2>1. Len(Append(Waiting, ui.obs)) = Len(Waiting) + 1
    BY <1>3, <1>5
  <2>2. Len(Append(Waiting, ui.obs)) <= Capacity
    BY <1>2, <1>3, <2>1
  <2> QED BY <1>8, <1>11, <1>12, <2>2 DEF JournalSound
<1>17. \A sid, m : Brought(sid, m, Elements(Waiting)) => Brought(sid, m, Elements(Waiting))'
  BY <1>14 DEF Brought
<1>18. Gapless(Waiting)'
  <2>1. Covered(ui.session)
    <3>1. 0 \notin 1..MaxSessions
      OBVIOUS
    <3>2. ui.session # NoSession
      BY <1>5, <3>1 DEF Sessions, NoSession, Session
    <3> QED BY <1>4, <3>2 DEF NoGap
  <2>2. \A m \in 0..ui.obs.seq - 1 : Brought(ui.obs.sid, m, Elements(Waiting))
    BY <1>5, <2>1 DEF Covered
  <2>3. Gapless(Append(Waiting, ui.obs))
    BY <1>1, <1>3, <1>5, <2>2, GaplessNext
  <2>4. \A s : Gapless(s)' <=> Gapless(s)
    BY DEF Gapless, Brought
  <2> QED BY <1>12, <2>3, <2>4
<1>19. /\ Stored # Absent /\ Stored.sid = ui.session.sid
       /\ ui.session.sid \notin dropped =>
              Stored.end >= ui.session.end /\ Boot.next = ui.session.next
  BY <1>2, <1>4 DEF PageSound, PageStates
<1>20. /\ Stored \in Sessions /\ Boot \in Sessions /\ Boot.next = NextOf(Stored, Kept)
  BY <1>1, <1>19, SnapshotFacts
<1>21. RecordsFit'
  <2> SUFFICES ASSUME Stored.sid \notin dropped, NEW r \in Kept \cup {ui.obs},
                      r.sid = Stored.sid
               PROVE  r.seq + 1 <= Stored.end
    BY <1>11, <1>15 DEF RecordsFit
  <2>1. CASE r \in Kept
    BY <1>1, <1>19, <2>1 DEF RecordsFit
  <2>2. CASE r = ui.obs
    <3>1. ui.obs.seq \in Nat /\ ui.session.end \in Nat /\ Stored.end \in Nat
      BY <1>5, <1>20 DEF Observations, Entries, Sessions
    <3> QED BY <1>5, <1>19, <2>2, <3>1
  <2> QED BY <2>1, <2>2
<1>22. Boot' = Moved(Stored, Kept \cup {ui.obs})
  BY <1>11, <1>15, <1>19 DEF Boot
<1>23. Kept \cup {ui.obs} \in SUBSET Observations
  BY <1>3, <1>5
<1>24. ui.session.sid \notin dropped => Boot'.next = ui.session.next + 1
  <2> SUFFICES ASSUME ui.session.sid \notin dropped
               PROVE  Boot'.next = ui.session.next + 1
    OBVIOUS
  <2> DEFINE n == ui.session.next + 1
             R == Kept \cup {ui.obs}
  <2>1. /\ ui.session.next \in Nat /\ n \in Nat /\ ui.session.end \in Nat
        /\ Stored.next \in Nat /\ Stored.end \in Nat /\ ui.obs.seq \in Nat
    BY <1>5, <1>20 DEF Sessions, Observations, Entries
  <2>2. /\ Stored.next <= NextOf(Stored, Kept) /\ NextOf(Stored, Kept) = ui.session.next
        /\ \A r \in Kept : r.sid = Stored.sid /\ r.seq + 1 <= Stored.end =>
               r.seq + 1 <= ui.session.next
    BY <1>3, <1>19, <1>20, NextFacts
  <2>3. \A r \in Kept : r.seq \in Nat
    BY <1>3 DEF Observations, Entries
  <2>4. \A r \in R : r.sid = Stored.sid /\ r.seq + 1 <= Stored.end => r.seq + 1 <= n
    <3>1. \A r \in Kept : r.sid = Stored.sid /\ r.seq + 1 <= Stored.end => r.seq + 1 <= n
      BY <2>1, <2>2, <2>3
    <3>2. ui.obs.seq + 1 <= n
      BY <1>5, <2>1
    <3> QED BY <3>1, <3>2
  <2>5. Stored.next <= n /\ n <= Stored.end
    BY <1>5, <1>19, <2>1, <2>2
  <2>6. \E r \in R : r.sid = Stored.sid /\ r.seq + 1 = n
    BY <1>5, <1>19
  <2>7. R \in SUBSET Observations
    BY <1>23
  <2> HIDE DEF n, R
  <2>8. NextOf(Stored, R) = n
    BY <1>20, <2>1, <2>4, <2>5, <2>6, <2>7, NextIs
  <2>9. Moved(Stored, R).next = NextOf(Stored, R)
    BY <1>20, <2>7, MovedFacts
  <2> QED BY <1>22, <2>8, <2>9 DEF n, R
<1>25. (\A s \in Snapshots : Covered(s))'
  BY <1>1, <1>11, <1>17 DEF OnDisk, Covered
<1>26. Judged' = Judged
  BY DEF Judged
<1>27. (\A r \in Elements(Waiting) : r.id \in server.accepted => r.seq < server.next[r.sid])'
       /\ (\A r \in Elements(Acked) : r.id \in Judged /\ r.seq < server.next[r.sid])'
  <2>1. ui.obs.id \notin server.accepted
    BY <1>6 DEF Judged
  <2> QED BY <1>1, <1>12, <1>14, <1>26, <2>1 DEF OnDisk
<1>28. (\A o \in recorded : o.id \in Judged \/ \E r \in Elements(Waiting) : r.id = o.id)'
  BY <1>1, <1>14, <1>26 DEF OnDisk
<1>29. (\A o \in recorded : o.sid \notin dropped =>
            Stored # Absent /\ Stored.sid = o.sid /\ o.seq < Boot.next)'
  <2> SUFFICES ASSUME NEW o \in recorded, o.sid \notin dropped
               PROVE  Stored # Absent /\ Stored.sid = o.sid /\ o.seq < Boot'.next
    BY <1>11
  <2>1. Stored # Absent /\ Stored.sid = o.sid /\ o.seq < Boot.next
    BY <1>1 DEF OnDisk
  <2>2. o.seq \in Nat /\ ui.session.next \in Nat
    BY <1>4, <1>5 DEF CountsTyped, Observations, Entries, Sessions
  <2> QED BY <1>19, <1>24, <2>1, <2>2
<1>30. (\A r \in Kept \cup recorded : r.id <= created.ids /\ r.sid <= created.sids)'
       /\ (\A s \in Snapshots : s.sid <= created.sids)'
  BY <1>1, <1>5, <1>11, <1>15 DEF OnDisk
<1>31. SequenceRecordedOnce'
  BY <1>1 DEF OnDisk, SequenceRecordedOnce
<1>32. OnDisk'
  BY <1>11, <1>16, <1>18, <1>21, <1>25, <1>27, <1>28, <1>29, <1>30, <1>31 DEF OnDisk
<1>33. WaitingMoves
  BY <1>5, <1>6, <1>7, <1>12 DEF WaitingMoves, Waiting
<1> QED BY <1>11, <1>12, <1>13, <1>14, <1>15, <1>19, <1>24, <1>32, <1>33

\* An append succeeds: what this leaves as it was.
LEMMA RecordAppended ==
    ASSUME WordInv, AppendRecord, UNCHANGED <<ui, uploader, server, created, recorded, dropped>>
    PROVE  /\ todo # <<>> /\ Head1.do = "append"
           /\ disk' = [disk EXCEPT !.journal.primary = Append(Content, Head1.data)]
           /\ cache' = IF Head1.data.kind = "obs" THEN AfterObservation(cache, Head1.data)
                       ELSE AfterAck(cache, Head1.data.id)
           /\ op' = op /\ result' = result /\ todo' # <<>> /\ Planned(todo)'
           /\ Left = {Head1} \cup Left' /\ Left \in SUBSET Steps
           /\ \A x \in Left' : Rank(Head1) < Rank(x)
           /\ Head1'.do \notin {"backup", "install"} /\ ~Installing'
           /\ \A a : Ends(a)' <=> Ends(a)
           /\ UiTyped' /\ UploaderTyped' /\ OpTyped' /\ CountsTyped'
           /\ (JournalLeft' <=> JournalLeft) /\ (SessionLeft' <=> SessionLeft)
<1>1. todo # <<>> /\ Head1.do = "append" /\ Continue
  BY DEF AppendRecord, Writing
<1>2. todo' = Tail(todo) /\ result' = result /\ op' = op
  BY <1>1 DEF Continue
<1>3. /\ op # None /\ result = "busy"
      /\ todo' # <<>> /\ Planned(todo)'
      /\ Left = {Head1} \cup Left' /\ Left \in SUBSET Steps
      /\ \A x \in Left' : Rank(Head1) < Rank(x)
      /\ Follows(Head1, Head1')
      /\ \A a : Ends(a)' <=> Ends(a)
  BY <1>1, <1>2, HeadDone
<1>4. Head1'.do \notin {"backup", "install"}
  BY <1>1, <1>3 DEF Follows
<1>5. ~Installing'
  BY <1>4 DEF Installing
<1>6. disk' = [disk EXCEPT !.journal.primary = Append(Content, Head1.data)]
  <2>1. Appended(Head1.data) = Append(Content, Head1.data)
    BY <1>1, AppendStarts
  <2>2. disk' = [disk EXCEPT !.journal.primary = Appended(Head1.data)]
    BY DEF AppendRecord
  <2> QED BY <2>1, <2>2
<1>7. cache' = IF Head1.data.kind = "obs" THEN AfterObservation(cache, Head1.data)
               ELSE AfterAck(cache, Head1.data.id)
  BY DEF AppendRecord
<1>8. UiTyped /\ UploaderTyped /\ OpTyped /\ CountsTyped
  BY DEF WordInv, Typed
<1>9. OpTyped' /\ UiTyped' /\ UploaderTyped' /\ CountsTyped'
  BY <1>1, <1>2, <1>3, <1>8 DEF OpTyped, UiTyped, UploaderTyped, CountsTyped, Judged
<1>10. ~JournalInstall(Head1) /\ ~SessionInstall(Head1)
  BY <1>1 DEF JournalInstall, SessionInstall
<1>11. (JournalLeft' <=> JournalLeft) /\ (SessionLeft' <=> SessionLeft)
  BY <1>3, <1>10 DEF JournalLeft, SessionLeft
<1> QED BY <1>1, <1>2, <1>3, <1>4, <1>5, <1>6, <1>7, <1>9, <1>11

\* An ACK is appended: the head of the journal is gone, and nobody holds it.
LEMMA AckAppendedKeeps ==
    ASSUME WordInv, AppendRecord, AckAppend(Head1),
           UNCHANGED <<ui, uploader, server, created, recorded, dropped>>
    PROVE  WordInv' /\ WaitingMoves
<1>1. /\ todo # <<>> /\ Head1.do = "append"
      /\ disk' = [disk EXCEPT !.journal.primary = Append(Content, Head1.data)]
      /\ cache' = AfterAck(cache, Head1.data.id)
      /\ op' = op /\ result' = result /\ todo' # <<>> /\ Planned(todo)'
      /\ Left = {Head1} \cup Left' /\ Left \in SUBSET Steps
      /\ \A x \in Left' : Rank(Head1) < Rank(x)
      /\ Head1'.do \notin {"backup", "install"} /\ ~Installing'
      /\ \A a : Ends(a)' <=> Ends(a)
      /\ UiTyped' /\ UploaderTyped' /\ OpTyped' /\ CountsTyped'
      /\ (JournalLeft' <=> JournalLeft) /\ (SessionLeft' <=> SessionLeft)
  <2>1. Head1.data.kind # "obs"
    BY DEF AckAppend
  <2> QED BY <2>1, RecordAppended
<1>2. /\ OpTyped /\ PlanShape /\ JournalSound /\ JournalPlan /\ SessionPlan
      /\ PageSound /\ RecordsFit /\ NumbersSound /\ NoGap /\ Verdicts /\ DiskTyped
      /\ CountsTyped
  BY DEF WordInv, Typed, JournalInv, SessionInv, UploadInv
<1>3. /\ op.kind \in {"ack", "quarantine"} /\ Waiting # <<>>
      /\ Head1.data = AckOf(Head(Waiting))
      /\ Head1 \in Left
      /\ cache = OutboxScan(Waiting, Acked, Len(Acked), FALSE, FALSE)
  BY <1>1, AppendStarts DEF AckAppend, ObsAppend
<1>4. /\ WaitingMoves
      /\ OnDisk' /\ TornTail' = FALSE /\ FromBackup' = FALSE
      /\ Waiting' = Tail(Waiting) /\ Acked' = Append(Acked, Head(Waiting))
      /\ Kept' = Kept /\ Stored' = Stored /\ Snapshots' = Snapshots /\ Boot' = Boot
      /\ disk'.session = disk.session
      /\ \A g \in Files : g # "journal" => disk'[g] = disk[g]
      /\ \A sid, m : Brought(sid, m, Elements(Waiting)) => Brought(sid, m, Elements(Waiting))'
  BY <1>1, AckLands
<1>5. /\ Waiting \in Seq(Observations) /\ DistinctIds(Waiting) /\ Acked \in Seq(Observations)
      /\ Len(Acked) \in Nat
  BY <1>2, JournalFacts
<1>6. AckLeft /\ ~AckLeft' /\ ~ObsLeft'
  <2>1. AckLeft
    BY <1>3 DEF AckLeft
  <2>2. ~AckLeft'
    <3> SUFFICES ASSUME NEW x \in Left', AckAppend(x) PROVE FALSE
      BY DEF AckLeft
    <3>1. x \in Steps /\ Head1 \in Steps
      BY <1>1
    <3>2. Rank(x) = 9 /\ Rank(Head1) = 9
      BY <3>1, Ranks
    <3>3. Rank(Head1) < Rank(x)
      BY <1>1
    <3> QED BY <3>2, <3>3
  <2>3. ~ObsLeft
    BY <1>2, <1>3 DEF JournalPlan
  <2> QED BY <1>1, <2>1, <2>2, <2>3 DEF ObsLeft
<1>7. cache' = OutboxScan(Waiting', Acked', Len(Acked'), FALSE, FALSE)
  <2>1. /\ Find(Waiting, Head(Waiting).id) = Head(Waiting)
        /\ Without(Waiting, Head(Waiting).id) = Tail(Waiting)
        /\ Head(Waiting) \in Observations
    BY <1>3, <1>5, HeadTaken
  <2>2. Head1.data.id = Head(Waiting).id
    BY <1>3, <2>1 DEF AckOf, Observations, Entries
  <2>3. Len(Append(Acked, Head(Waiting))) = Len(Acked) + 1
    BY <1>5, <2>1
  <2>4. /\ cache.pending = Waiting /\ cache.acked = Acked /\ cache.acks = Len(Acked)
        /\ cache.partialTail = FALSE /\ cache.fromBackup = FALSE
    BY <1>3 DEF OutboxScan
  <2> QED BY <1>1, <1>4, <2>1, <2>2, <2>3, <2>4 DEF AfterAck
<1>8. cache'.loaded
  BY <1>7 DEF OutboxScan
<1>9. CacheSound'
  <2>1. (FromBackup /\ ~Installing)' = FALSE
    BY <1>4
  <2> QED BY <1>4, <1>7, <1>8, <2>1 DEF CacheSound
<1>10. JournalSound' /\ DiskTyped'
  BY <1>4 DEF OnDisk
<1>11. \A x \in Left' : x \in Left
  BY <1>1
<1>12. JournalPlan'
  <2>1. Target' = Target
    BY <1>4, <1>6 DEF Target
  <2>2. \A x \in Left' : JournalInstall(x) => x.data = Target
    BY <1>2, <1>11 DEF JournalPlan
  <2>3. \A x \in Left' : ~AckAppend(x) /\ ~ObsAppend(x)
    BY <1>6 DEF AckLeft, ObsLeft
  <2>4. JournalLeft' => op'.kind \notin {"save", "clear"}
    BY <1>1, <1>3
  <2> QED BY <1>6, <1>8, <2>1, <2>2, <2>3, <2>4 DEF JournalPlan
<1>13. PlanShape'
  <2>1. \A x \in Left' : x.do = "removePrimary" /\ op.kind # "clear" =>
            disk'[x.file].primary = Absent
    <3> SUFFICES ASSUME NEW x \in Left', x.do = "removePrimary", op.kind # "clear"
                 PROVE  disk'[x.file].primary = Absent
      OBVIOUS
    <3>1. x \in Left /\ x.file \in {"journal", "session"}
      BY <1>1 DEF Steps
    <3>2. x.file # "journal"
      BY <1>2, <1>6, <3>1 DEF JournalPlan
    <3>3. disk'[x.file] = disk[x.file]
      BY <1>4, <3>1, <3>2 DEF Files
    <3> QED BY <1>2, <3>1, <3>3 DEF PlanShape
  <2>2. \A x \in Left' : x.do = "eraseBackup" /\ x.file = "session" => op.kind = "clear"
    BY <1>2, <1>11 DEF PlanShape
  <2>3. op.kind = "clear" => ~SessionLeft
    BY <1>2 DEF PlanShape
  <2> QED BY <1>1, <2>1, <2>2, <2>3 DEF PlanShape
<1>14. Committed' <=> Committed
  BY <1>1, <1>3 DEF Committed
<1>15. SessionPlan'
  <2>1. Saved' = Saved
    BY DEF Saved
  <2>2. ~SessionInstall(Head1)
    BY <1>1 DEF SessionInstall
  <2>3. WillBeMoved => WillBeMoved'
    BY <1>1, <1>4, <2>2 DEF WillBeMoved
  <2>4. JournalLeft' => WillBeMoved'
    BY <1>1, <1>2, <2>3 DEF SessionPlan
  <2>5. \A x \in Left' : SessionInstall(x) =>
            Stored' # Absent /\ (x.data = Boot' \/ (x.data = Stored' /\ x.do = "create"))
    BY <1>2, <1>3, <1>4, <1>11 DEF SessionPlan
  <2>6. op'.kind \notin {"load", "save", "commit"}
    BY <1>1, <1>3
  <2> QED BY <2>4, <2>5, <2>6 DEF SessionPlan
<1>16. PageSound'
  BY <1>2, <1>4, <1>14 DEF PageSound
<1>17. RecordsFit' /\ NumbersSound'
  <2>1. NumbersSound'
    BY <1>2, <1>4 DEF NumbersSound, SequenceRecordedOnce
  <2> QED BY <1>4, <2>1 DEF OnDisk
<1>18. HeadHeld'
  <2>1. uploader.state \in {"acking", "quarantining"}
    BY <1>2, <1>3 DEF OpTyped
  <2>2. ~Holding'
    BY <1>6, <2>1 DEF Holding
  <2> QED BY <1>1, <1>3, <2>2 DEF HeadHeld
<1>19. NoGap'
  <2>1. Gapless(Waiting)' /\ (\A s \in Snapshots : Covered(s))'
    BY <1>4 DEF OnDisk
  <2>2. (ui.session # NoSession => Covered(ui.session))'
    BY <1>2, <1>4 DEF NoGap, Covered
  <2>3. (Committed => Brought(ui.session.sid, ui.session.next, Elements(Waiting)))'
    BY <1>2, <1>4, <1>14 DEF NoGap
  <2> QED BY <2>1, <2>2, <2>3 DEF NoGap
<1>20. Verdicts'
  <2>1. Judged' = Judged
    BY DEF Judged
  <2>2. (ui.state \in WithObs /\ ~Committed =>
           ui.obs.id \notin Judged /\ \A r \in Kept : r.id # ui.obs.id)'
    BY <1>2, <1>4, <1>14, <2>1 DEF Verdicts
  <2>3. op'.kind # "commit"
    BY <1>1, <1>3
  <2>4. (\A r \in Elements(Waiting) : r.id \in server.accepted => r.seq < server.next[r.sid])'
        /\ (\A r \in Elements(Acked) : r.id \in Judged /\ r.seq < server.next[r.sid])'
        /\ (\A o \in recorded : o.id \in Judged \/ \E r \in Elements(Waiting) : r.id = o.id)'
    BY <1>4 DEF OnDisk
  <2> QED BY <2>2, <2>3, <2>4 DEF Verdicts
<1> QED BY <1>1, <1>4, <1>9, <1>10, <1>12, <1>13, <1>15, <1>16, <1>17, <1>18, <1>19, <1>20
        DEF WordInv, Typed, JournalInv, SessionInv, UploadInv

\* An observation is appended: it is in the journal, and only the answer is left.
LEMMA ObsAppendedKeeps ==
    ASSUME WordInv, AppendRecord, ObsAppend(Head1),
           UNCHANGED <<ui, uploader, server, created, recorded, dropped>>
    PROVE  WordInv' /\ WaitingMoves
<1>1. /\ todo # <<>> /\ Head1.do = "append"
      /\ disk' = [disk EXCEPT !.journal.primary = Append(Content, Head1.data)]
      /\ cache' = AfterObservation(cache, Head1.data)
      /\ op' = op /\ result' = result /\ todo' # <<>> /\ Planned(todo)'
      /\ Left = {Head1} \cup Left' /\ Left \in SUBSET Steps
      /\ \A x \in Left' : Rank(Head1) < Rank(x)
      /\ Head1'.do \notin {"backup", "install"} /\ ~Installing'
      /\ \A a : Ends(a)' <=> Ends(a)
      /\ UiTyped' /\ UploaderTyped' /\ OpTyped' /\ CountsTyped'
      /\ (JournalLeft' <=> JournalLeft) /\ (SessionLeft' <=> SessionLeft)
  <2>1. Head1.data.kind = "obs"
    BY DEF ObsAppend
  <2> QED BY <2>1, RecordAppended
<1>2. /\ OpTyped /\ PlanShape /\ JournalSound /\ JournalPlan /\ SessionPlan
      /\ PageSound /\ NumbersSound /\ NoGap /\ Verdicts /\ HeadHeld /\ DiskTyped /\ UiTyped
  BY DEF WordInv, Typed, JournalInv, SessionInv, UploadInv
<1>3. /\ op.kind = "commit" /\ Ends("ok") /\ Head1.data = ui.obs
      /\ ui.state = "persisting"
      /\ cache = OutboxScan(Waiting, Acked, Len(Acked), FALSE, FALSE)
  BY <1>1, AppendStarts DEF AckAppend, ObsAppend
<1>4. /\ WaitingMoves
      /\ OnDisk' /\ TornTail' = FALSE /\ FromBackup' = FALSE
      /\ Waiting' = Append(Waiting, ui.obs) /\ Acked' = Acked
      /\ Elements(Waiting') = Elements(Waiting) \cup {ui.obs}
      /\ Kept' = Kept \cup {ui.obs} /\ Stored' = Stored /\ Snapshots' = Snapshots
      /\ Stored # Absent /\ Stored.sid = ui.session.sid
      /\ ui.session.sid \notin dropped =>
             Boot'.next = ui.session.next + 1 /\ Stored.end >= ui.session.end
  BY <1>1, ObsLands
<1>5. \A x \in Left' : x.do = "return" /\ x.file = "none"
  <2> SUFFICES ASSUME NEW x \in Left' PROVE x.do = "return" /\ x.file = "none"
    OBVIOUS
  <2>1. x \in Steps /\ Head1 \in Steps
    BY <1>1
  <2>2. Rank(Head1) = 30 /\ Rank(Head1) < Rank(x)
    BY <1>1, <2>1, Ranks
  <2>3. /\ Rank(x) \in Nat /\ x.file \notin {"rejected", "session"}
        /\ x.do # "append" => x.file # "journal"
    BY <2>1, <2>2, Ranks
  <2>4. x.do # "append"
    BY <2>1, <2>2, Ranks
  <2>5. x.file \notin Files
    BY <2>3, <2>4 DEF Files
  <2> QED BY <2>1, <2>5 DEF Steps, Files
<1>6. ~AckLeft' /\ ~ObsLeft' /\ ~JournalLeft' /\ ~SessionLeft'
  BY <1>5 DEF AckLeft, ObsLeft, JournalLeft, SessionLeft, AckAppend, ObsAppend, JournalInstall,
              SessionInstall
<1>7. cache' = OutboxScan(Waiting', Acked', Len(Acked'), FALSE, FALSE)
  <2>1. /\ cache.pending = Waiting /\ cache.acked = Acked /\ cache.acks = Len(Acked)
        /\ cache.partialTail = FALSE /\ cache.fromBackup = FALSE
    BY <1>3 DEF OutboxScan
  <2> QED BY <1>1, <1>3, <1>4, <2>1 DEF AfterObservation
<1>8. Repaired'
  <2>1. cache'.loaded /\ cache'.partialTail = FALSE /\ cache'.fromBackup = FALSE
    BY <1>7 DEF OutboxScan
  <2> QED BY <2>1 DEF Repaired
<1>9. CacheSound'
  <2>1. (FromBackup /\ ~Installing)' = FALSE
    BY <1>4
  <2>2. cache'.loaded
    BY <1>8 DEF Repaired
  <2> QED BY <1>4, <1>7, <2>1, <2>2 DEF CacheSound
<1>10. JournalSound' /\ DiskTyped'
  BY <1>4 DEF OnDisk
<1>11. JournalPlan'
  BY <1>5, <1>6 DEF JournalPlan, JournalInstall, AckAppend, ObsAppend
<1>12. PlanShape'
  BY <1>1, <1>5, <1>6 DEF PlanShape
<1>13. Committed'
  BY <1>1, <1>3, <1>6 DEF Committed
<1>14. SessionPlan'
  BY <1>1, <1>3, <1>5, <1>6 DEF SessionPlan, SessionInstall
<1>15. PageSound'
  BY <1>4, <1>13 DEF PageSound
<1>16. RecordsFit' /\ NumbersSound'
  <2>1. /\ (\A o \in recorded : o.sid \notin dropped =>
                Stored # Absent /\ Stored.sid = o.sid /\ o.seq < Boot.next)'
        /\ (\A r \in Kept \cup recorded : r.id <= created.ids /\ r.sid <= created.sids)'
        /\ (\A s \in Snapshots : s.sid <= created.sids)' /\ SequenceRecordedOnce'
        /\ RecordsFit'
    BY <1>4 DEF OnDisk
  <2>2. (ui.state \in PageStates /\ ui.session.sid \notin dropped =>
           \A o \in recorded : o.sid = ui.session.sid =>
               o.seq < ui.session.next \/ (ui.state = "saved" /\ o = ui.obs))'
    BY <1>2 DEF NumbersSound
  <2>3. ui'.state # "starting"
    BY <1>3
  <2> QED BY <2>1, <2>2, <2>3 DEF NumbersSound
<1>17. HeadHeld'
  <2>1. uploader.state \notin {"acking", "quarantining"}
    BY <1>2, <1>3 DEF OpTyped
  <2>2. Holding' => Holding
    BY <2>1 DEF Holding
  <2>3. Judged' = Judged
    BY DEF Judged
  <2>4. Waiting \in Seq(Observations) /\ ui.obs \in Observations
    BY <1>2, <1>3, JournalFacts DEF UiTyped, WithObs
  <2>5. Waiting # <<>> => Append(Waiting, ui.obs) # <<>>
                          /\ Head(Append(Waiting, ui.obs)) = Head(Waiting)
    BY <2>4
  <2>6. Holding => Waiting # <<>> /\ uploader.obs = Head(Waiting)
    BY <1>2 DEF HeadHeld
  <2>7. Holding /\ uploader.state # "holding" =>
            uploader.obs.id \in Judged /\ uploader.obs.seq < server.next[uploader.obs.sid]
    BY <1>2 DEF HeadHeld
  <2>8. (Holding => Repaired /\ Waiting # <<>> /\ uploader.obs = Head(Waiting))'
    BY <1>4, <1>8, <2>2, <2>5, <2>6
  <2>9. op'.kind # "peek"
    BY <1>1, <1>3
  <2> QED BY <2>2, <2>3, <2>7, <2>8, <2>9 DEF HeadHeld
<1>18. NoGap'
  <2>1. Gapless(Waiting)' /\ (\A s \in Snapshots : Covered(s))'
    BY <1>4 DEF OnDisk
  <2>2. \A sid, m : Brought(sid, m, Elements(Waiting)) => Brought(sid, m, Elements(Waiting))'
    BY <1>4 DEF Brought
  <2>3. (ui.session # NoSession => Covered(ui.session))'
    BY <1>2, <2>2 DEF NoGap, Covered
  <2>4. ui.obs.sid = ui.session.sid /\ ui.obs.seq = ui.session.next
    BY <1>2, <1>3 DEF UiTyped, WithObs
  <2>5. Brought(ui.session.sid, ui.session.next, Elements(Waiting))'
    BY <1>4, <2>4 DEF Brought
  <2> QED BY <2>1, <2>3, <2>5 DEF NoGap
<1>19. Verdicts'
  <2>1. ui'.obs \in Elements(Waiting')
    BY <1>4
  <2>2. (\A r \in Elements(Waiting) : r.id \in server.accepted => r.seq < server.next[r.sid])'
        /\ (\A r \in Elements(Acked) : r.id \in Judged /\ r.seq < server.next[r.sid])'
        /\ (\A o \in recorded : o.id \in Judged \/ \E r \in Elements(Waiting) : r.id = o.id)'
    BY <1>4 DEF OnDisk
  <2> QED BY <1>13, <2>1, <2>2 DEF Verdicts
<1> QED BY <1>1, <1>4, <1>9, <1>10, <1>11, <1>12, <1>14, <1>15, <1>16, <1>17, <1>18, <1>19
        DEF WordInv, Typed, JournalInv, SessionInv, UploadInv

-------------------------------------------------------------------------------
(* Failures and power losses *)

\* Nothing is planned any more.
LEMMA PlanEmpty ==
    ASSUME todo' = <<>>
    PROVE  /\ Left' = {} /\ ~AckLeft' /\ ~ObsLeft' /\ ~JournalLeft' /\ ~SessionLeft'
           /\ ~Installing' /\ PlanShape' /\ JournalPlan'
           /\ \A a : Ends(a)' <=> result' = a
<1>1. Left' = {}
  <2>1. \A i \in 1..Len(<<>>) : FALSE
    OBVIOUS
  <2> QED BY <2>1 DEF Left, Elements
<1>2. ~AckLeft' /\ ~ObsLeft' /\ ~JournalLeft' /\ ~SessionLeft'
  BY <1>1 DEF AckLeft, ObsLeft, JournalLeft, SessionLeft
<1>3. ~Installing'
  BY DEF Installing
<1>4. Planned(<<>>)
  <2>1. <<>> \in Seq(Steps) /\ Len(<<>>) = 0
    OBVIOUS
  <2>2. \A i \in 1..0 : FALSE
    OBVIOUS
  <2>3. \A i \in 1..0 - 1 : FALSE
    OBVIOUS
  <2> QED BY <2>1, <2>2, <2>3 DEF Planned, Chained, Increasing
<1>5. Planned(todo')
  BY <1>4
<1>6. PlanShape'
  BY <1>1, <1>2, <1>5 DEF PlanShape
<1>7. JournalPlan'
  BY <1>1, <1>2 DEF JournalPlan
<1>8. \A a : Ends(a)' <=> result' = a
  BY <1>1 DEF Ends
<1> QED BY <1>1, <1>2, <1>3, <1>6, <1>7, <1>8

\* An installation that fails puts the old file back; what fails otherwise changes no file.
LEMMA FailureLeaves ==
    ASSUME WordInv, FileOperationFails
    PROVE  /\ DiskTyped' /\ Content' = Content /\ Stored' = Stored
           /\ Snapshots' \in SUBSET Snapshots
           /\ (FromBackup /\ ~Installing)' <=> (FromBackup /\ ~Installing)
<1>1. /\ todo # <<>> /\ Head1.do # "return" /\ todo' = <<>>
      /\ IF Head1.do = "install"
         THEN disk' = [disk EXCEPT ![Head1.file] = [primary |-> Slot.backup, backup |-> Absent]]
         ELSE disk' = disk
  BY DEF FileOperationFails, SetSlot, Abort
<1>2. DiskTyped /\ PlanShape
  BY DEF WordInv, Typed
<1>3. Head1 \in Steps
  <2>1. todo \in Seq(Steps)
    BY <1>2 DEF PlanShape, Planned
  <2> QED BY <1>1, <2>1 DEF Head1
<1>4. ~Installing'
  BY <1>1, PlanEmpty
<1>5. CASE Head1.do # "install"
  <2>1. disk' = disk
    BY <1>1, <1>5
  <2>2. ~Installing
    BY <1>5 DEF Installing
  <2> QED BY <1>2, <1>4, <2>1, <2>2, DiskStays
<1>6. CASE Head1.do = "install"
  <2> DEFINE f == Head1.file
             pair == [primary |-> disk[f].backup, backup |-> Absent]
  <2>1. f \in Files /\ Slot = disk[f] /\ disk[f].primary = Absent
    BY <1>1, <1>2, <1>3, <1>6 DEF Steps, Files, PlanShape, Slot
  <2>2. disk' = [disk EXCEPT ![f] = pair]
    BY <1>1, <1>6, <2>1
  <2>3. /\ disk[f] = [primary |-> disk[f].primary, backup |-> disk[f].backup]
        /\ f = "journal" => disk[f] \in Pairs(Seq(Entries \cup {Torn}))
        /\ f = "session" => disk[f] \in Pairs(Sessions)
        /\ f = "rejected" => disk[f] \in Pairs(Seq(Nat))
    BY <1>2, <2>1, SlotTyped
  <2>4. \A S : disk[f] \in Pairs(S) => pair \in Pairs(S)
    BY DEF Pairs
  <2>5. /\ f = "journal" => pair \in Pairs(Seq(Entries \cup {Torn}))
        /\ f = "session" => pair \in Pairs(Sessions)
        /\ f = "rejected" => pair \in Pairs(Seq(Nat))
    BY <2>3, <2>4
  <2>6. pair.primary = disk[f].backup /\ pair.backup = Absent
    OBVIOUS
  <2>7. /\ f = "journal" => Installing
        /\ f # "journal" => ~Installing
    BY <1>1, <1>6 DEF Installing
  <2> HIDE DEF f, pair
  <2>8. /\ DiskTyped' /\ disk'[f] = pair
        /\ f # "journal" => Content' = Content /\ (FromBackup' <=> FromBackup)
        /\ f # "session" => Stored' = Stored /\ Snapshots' = Snapshots
    BY <1>2, <2>1, <2>2, <2>5, SlotChanged
  <2>9. ASSUME f = "journal"
        PROVE  Content' = Content /\ ~FromBackup'
    <3>1. disk'.journal = pair /\ disk.journal.primary = Absent
          /\ pair.primary = disk.journal.backup
      BY <2>1, <2>6, <2>8, <2>9
    <3> QED BY <2>6, <3>1 DEF Content, ContentOf, FromBackup
  <2>10. ASSUME f = "session"
         PROVE  Stored' = Stored /\ Snapshots' \in SUBSET Snapshots
    <3>1. disk'.session = pair /\ disk.session.primary = Absent
          /\ pair.primary = disk.session.backup
      BY <2>1, <2>6, <2>8, <2>10
    <3> QED BY <2>6, <3>1 DEF Stored, LoadSession, Snapshots
  <2> QED BY <1>4, <2>7, <2>8, <2>9, <2>10
<1> QED BY <1>5, <1>6

\* A file operation fails: its transaction answers with the error.
LEMMA FailureKeeps ==
    ASSUME WordInv, FileOperationFails,
           UNCHANGED <<ui, uploader, server, created, recorded, dropped>>
    PROVE  WordInv' /\ Waiting' = Waiting
<1>1. /\ todo # <<>> /\ Head1.do # "return"
      /\ todo' = <<>> /\ result' = "ioError" /\ cache' = cache /\ op' = op
  BY DEF FileOperationFails, Abort
<1>2. /\ DiskTyped' /\ Content' = Content /\ Stored' = Stored
      /\ Snapshots' \in SUBSET Snapshots
      /\ (FromBackup /\ ~Installing)' <=> (FromBackup /\ ~Installing)
  BY FailureLeaves
<1>3. /\ Left' = {} /\ ~AckLeft' /\ ~ObsLeft' /\ ~JournalLeft' /\ ~SessionLeft'
      /\ PlanShape' /\ JournalPlan'
      /\ \A a : Ends(a)' <=> result' = a
  BY <1>1, PlanEmpty
<1>4. /\ DiskTyped /\ OpTyped /\ PlanShape /\ UiTyped /\ UploaderTyped /\ CountsTyped
      /\ JournalSound /\ CacheSound /\ SessionPlan
      /\ PageSound /\ RecordsFit /\ NumbersSound /\ HeadHeld /\ NoGap /\ Verdicts
  BY DEF WordInv, Typed, JournalInv, SessionInv, UploadInv
<1>5. op # None /\ result = "busy" /\ Head1 \in Left
  <2>1. todo \in Seq(Steps) /\ Len(todo) \in Nat /\ Len(todo) # 0 /\ Head1 = todo[1]
    BY <1>1, <1>4 DEF PlanShape, Planned, Head1
  <2>2. Head1 \in Left
    BY <2>1 DEF Left, Elements
  <2> QED BY <1>1, <1>4, <2>2 DEF OpTyped
<1>6. /\ Waiting' = Waiting /\ Acked' = Acked /\ TornTail' = TornTail /\ JournalSound'
  <2>1. Waiting' = Waiting /\ Acked' = Acked /\ TornTail' = TornTail
    BY <1>2 DEF Waiting, Acked, TornTail
  <2> QED BY <1>2, <1>4, <2>1 DEF JournalSound
<1>7. CacheSound'
  <2>1. (FromBackup /\ ~Installing)' = (FromBackup /\ ~Installing)
    BY <1>2 DEF FromBackup
  <2>2. cache' = IF cache.loaded
                 THEN OutboxScan(Waiting, Acked, Len(Acked), TornTail, FromBackup /\ ~Installing)
                 ELSE ColdCache
    BY <1>1, <1>4 DEF CacheSound
  <2> QED BY <1>1, <1>6, <2>1, <2>2 DEF CacheSound
<1>8. ~Ends("ok")'
  BY <1>1, <1>3
<1>9. OpTyped' /\ UiTyped' /\ UploaderTyped' /\ CountsTyped'
  BY <1>1, <1>4, <1>5 DEF OpTyped, UiTyped, UploaderTyped, CountsTyped, Judged
<1>10. Committed' <=> Committed
  <2>1. op.kind = "commit" => ~Committed
    BY <1>1, <1>4, <1>5 DEF SessionPlan
  <2> QED BY <1>1, <1>8, <2>1 DEF Committed
<1>11. SessionPlan'
  BY <1>1, <1>3, <1>8 DEF SessionPlan
<1>12. PageSound' /\ RecordsFit' /\ NumbersSound' /\ NoGap' /\ Verdicts'
  BY <1>1, <1>2, <1>4, <1>6, <1>10, DataStays
<1>13. HeadHeld'
  <2>1. Holding' => Holding
    BY <1>3 DEF Holding
  <2>2. Judged' = Judged /\ (Repaired' <=> Repaired)
    BY <1>1 DEF Judged, Repaired
  <2> QED BY <1>4, <1>6, <1>8, <2>1, <2>2 DEF HeadHeld
<1> QED BY <1>2, <1>3, <1>6, <1>7, <1>9, <1>11, <1>12, <1>13
        DEF WordInv, Typed, JournalInv, SessionInv, UploadInv

\* After a power loss only the files are left.
LEMMA ColdKeeps ==
    ASSUME CountsTyped, OnDisk', cache' = ColdCache, op' = None, todo' = <<>>, result' = "busy",
           ui' = UiOff, uploader' = Uploader("idle", None),
           server' = server, created' = created, recorded' = recorded, dropped' = dropped
    PROVE  WordInv'
<1>1. /\ Left' = {} /\ ~AckLeft' /\ ~ObsLeft' /\ ~JournalLeft' /\ ~SessionLeft'
      /\ PlanShape' /\ JournalPlan'
      /\ \A a : Ends(a)' <=> result' = a
  BY PlanEmpty
<1>2. /\ ui'.state = "off" /\ ui'.session = NoSession /\ ui'.obs = None
      /\ ui'.session.sid = 0
      /\ ui' \in [state : {"off"}, session : {NoSession}, obs : {None}]
  BY DEF UiOff, NoSession, Session
<1>3. uploader'.state = "idle" /\ op'.kind = "none"
  BY DEF Uploader, None
<1>4. ~Ends("ok")'
  BY <1>1
<1>5. CountsTyped'
  BY DEF CountsTyped, Judged
<1>6. UiTyped'
  <2>1. created.sids \in Nat /\ 0 <= created.sids
    BY BoundAssumption DEF CountsTyped
  <2> QED BY <1>2, <2>1 DEF UiTyped, PageStates, WithObs
<1>7. UploaderTyped'
  BY DEF UploaderTyped
<1>8. OpTyped'
  BY <1>2, <1>3 DEF OpTyped, Transactions, Answers
<1>9. CacheSound'
  <2>1. ~ColdCache.loaded
    BY DEF ColdCache
  <2> QED BY <2>1 DEF CacheSound
<1>10. ~Committed'
  BY <1>2, <1>3 DEF Committed
<1>11. SessionPlan'
  BY <1>1, <1>3, <1>4 DEF SessionPlan
<1>12. PageSound'
  BY <1>2 DEF PageSound, PageStates
<1>13. NumbersSound' /\ RecordsFit'
  BY <1>2 DEF NumbersSound, OnDisk, PageStates
<1>14. HeadHeld'
  BY <1>3 DEF HeadHeld, Holding
<1>15. NoGap'
  BY <1>2, <1>10 DEF NoGap, OnDisk
<1>16. Verdicts'
  BY <1>2, <1>3 DEF Verdicts, OnDisk, WithObs
<1>17. DiskTyped' /\ JournalSound'
  BY DEF OnDisk
<1> QED BY <1>1, <1>5, <1>6, <1>7, <1>8, <1>9, <1>11, <1>12, <1>13, <1>14, <1>15, <1>16, <1>17
        DEF WordInv, Typed, JournalInv, SessionInv, UploadInv

\* Power is lost: the disk stays as it is, or with an append that is half done or done.
LEMMA PowerLossLeaves ==
    ASSUME WordInv, Reset
    PROVE  OnDisk' /\ WaitingMoves
<1>1. server' = server /\ created' = created /\ recorded' = recorded /\ dropped' = dropped
  BY DEF Reset
<1>2. DiskTyped
  BY DEF WordInv, Typed
<1>3. PICK file \in IF Writing("append") THEN HalfAppended ELSE {disk.journal.primary} :
          disk' = [disk EXCEPT !.journal.primary = file]
  BY DEF Reset, LosePower
<1>4. ASSUME file = disk.journal.primary
      PROVE  OnDisk' /\ WaitingMoves
  <2>1. disk.journal = [primary |-> disk.journal.primary, backup |-> disk.journal.backup]
    BY <1>2 DEF DiskTyped, Pairs
  <2>2. \A x, y : [[primary |-> x, backup |-> y] EXCEPT !.primary = x]
                      = [primary |-> x, backup |-> y]
    OBVIOUS
  <2>3. [disk.journal EXCEPT !.primary = file] = disk.journal
    BY <1>4, <2>1, <2>2
  <2>4. disk' = [disk EXCEPT !.journal = disk.journal]
    BY <1>3, <2>3
  <2>5. disk' = disk
    BY <1>2, <2>4 DEF DiskTyped
  <2>6. OnDisk
    BY DiskSound
  <2>7. /\ Waiting' = Waiting /\ Acked' = Acked /\ Kept' = Kept
        /\ Snapshots' = Snapshots /\ Stored' = Stored /\ Boot' = Boot
        /\ DiskTyped' <=> DiskTyped
        /\ JournalSound' <=> JournalSound
    BY <2>5, DiskStays
  <2>8. \A sid, m : Brought(sid, m, Elements(Waiting)) => Brought(sid, m, Elements(Waiting))'
    BY <1>1, <2>7 DEF Brought
  <2>9. Gapless(Waiting)'
    BY <1>1, <2>6, <2>7 DEF Gapless, Brought, OnDisk
  <2> QED BY <1>1, <2>6, <2>7, <2>8, <2>9, SameRecords DEF OnDisk, WaitingMoves
<1>5. ASSUME file # disk.journal.primary
      PROVE  OnDisk' /\ WaitingMoves
  <2>1. todo # <<>> /\ Head1.do = "append" /\ file \in HalfAppended
    BY <1>3, <1>5 DEF Writing
  <2>2. file = Append(Content, Torn) \/ file = Append(Content, Head1.data)
    BY <1>5, <2>1, AppendStarts
  <2>3. AckAppend(Head1) \/ ObsAppend(Head1)
    BY <2>1, AppendStarts
  <2>4. CASE file = Append(Content, Torn)
    BY <1>1, <1>3, <2>1, <2>4, TornLands
  <2>5. CASE file = Append(Content, Head1.data) /\ AckAppend(Head1)
    BY <1>1, <1>3, <2>1, <2>5, AckLands
  <2>6. CASE file = Append(Content, Head1.data) /\ ObsAppend(Head1)
    BY <1>1, <1>3, <2>1, <2>6, ObsLands
  <2> QED BY <2>2, <2>3, <2>4, <2>5, <2>6
<1> QED BY <1>4, <1>5

\* Power is lost and the device starts again.
LEMMA ResetKeeps ==
    ASSUME WordInv, Reset
    PROVE  WordInv'
<1>1. /\ cache' = ColdCache /\ op' = None /\ todo' = <<>> /\ result' = "busy"
      /\ ui' = UiOff /\ uploader' = Uploader("idle", None)
      /\ server' = server /\ created' = created /\ recorded' = recorded /\ dropped' = dropped
  BY DEF Reset, LosePower
<1>2. CountsTyped
  BY DEF WordInv, Typed
<1> QED BY <1>1, <1>2, PowerLossLeaves, ColdKeeps

-------------------------------------------------------------------------------
(* The invariant and the properties *)

\* The storage task makes its next file operation, or answers.
LEMMA FileStepKeeps ==
    ASSUME WordInv, FileStep, UNCHANGED <<ui, uploader, server, created, recorded, dropped>>
    PROVE  WordInv' /\ WaitingMoves
<1>1. PlanShape
  BY DEF WordInv
<1>2. todo # <<>> => Head1 \in Steps /\ Head1 \in Left
  <2>1. todo # <<>> => /\ todo \in Seq(Steps) /\ Len(todo) \in Nat /\ Len(todo) # 0
                       /\ Head1 = todo[1]
    BY <1>1 DEF PlanShape, Planned, Head1
  <2> QED BY <2>1 DEF Left, Elements
<1>3. CASE RemoveBackup
  BY <1>3, NoRotationKeeps, RemoveOldBackupKeeps DEF WaitingMoves
<1>4. CASE RenamePrimaryToBackup
  BY <1>4, RenamePrimaryKeeps DEF WaitingMoves
<1>5. CASE RemovePrimary
  BY <1>5, RemovePrimaryKeeps, ClearKeeps DEF WaitingMoves
<1>6. CASE EraseBackup
  <2>1. todo # <<>> /\ Head1.do = "eraseBackup"
    BY <1>6 DEF EraseBackup, Writing
  <2>2. Head1.file \in {"session", "rejected"}
    BY <1>2, <2>1 DEF Steps
  <2>3. Head1.file = "session" => op.kind = "clear"
    BY <1>1, <1>2, <2>1 DEF PlanShape
  <2> QED BY <1>6, <2>2, <2>3, ClearKeeps, RejectedKeeps DEF WaitingMoves
<1>7. CASE WriteSessionCursor
  BY <1>7, WriteCursorKeeps DEF WaitingMoves
<1>8. CASE InstallTemporary
  <2>1. todo # <<>> /\ Head1.do \in {"install", "create"}
    BY <1>8 DEF InstallTemporary, Writing
  <2>2. Head1.file \in {"journal", "session", "rejected"}
    BY <1>2, <2>1 DEF Steps
  <2> QED BY <1>8, <2>2, CompactionKeeps, CheckpointKeeps, SaveKeeps, RejectedKeeps,
            SnapshotInstalled DEF WaitingMoves
<1>9. CASE AppendRecord
  <2>1. todo # <<>> /\ Head1.do = "append"
    BY <1>9 DEF AppendRecord, Writing
  <2>2. AckAppend(Head1) \/ ObsAppend(Head1)
    BY <2>1, AppendStarts
  <2> QED BY <1>9, <2>2, AckAppendedKeeps, ObsAppendedKeeps
<1>10. CASE Finish
  BY <1>10, FinishKeeps DEF WaitingMoves
<1> QED BY <1>3, <1>4, <1>5, <1>6, <1>7, <1>8, <1>9, <1>10 DEF FileStep

\* Nothing was written yet.
LEMMA NewStore ==
    ASSUME Init
    PROVE  WordInv
<1>1. /\ disk = [journal |-> EmptyFile, session |-> EmptyFile, rejected |-> EmptyFile]
      /\ cache = ColdCache /\ op = None /\ todo = <<>> /\ result = "busy"
      /\ ui = UiOff /\ uploader = Uploader("idle", None)
      /\ server = [next |-> [s \in Sids |-> 0], accepted |-> {}, refused |-> {}]
      /\ created = [ids |-> 0, sids |-> 0] /\ recorded = {} /\ dropped = {}
  BY DEF Init, InitStore
<1>2. /\ ui.state = "off" /\ ui.session = NoSession /\ ui.obs = None /\ ui.session.sid = 0
      /\ ui \in [state : {"off"}, session : {NoSession}, obs : {None}]
      /\ uploader.state = "idle" /\ op.kind = "none"
  BY <1>1 DEF UiOff, NoSession, Session, Uploader, None
<1>3. Content = <<>> /\ Stored = Absent /\ Snapshots = {}
  BY <1>1 DEF Content, ContentOf, EmptyFile, Stored, LoadSession, Snapshots
<1>4. Waiting = <<>> /\ Acked = <<>> /\ Kept = {} /\ JournalSound
  <2>1. Waiting = <<>> /\ Acked = <<>> /\ Clean(Content)
    BY <1>3, EmptyJournal DEF Waiting, Acked
  <2>2. Elements(<<>>) = {}
    BY DEF Elements
  <2>3. Len(<<>>) <= Capacity
    BY CapacityAssumption
  <2>4. Kept = {}
    BY <2>1, <2>2 DEF Kept
  <2> QED BY <2>1, <2>3, <2>4 DEF JournalSound
<1>5. Elements(Waiting) = {} /\ Elements(Acked) = {} /\ Len(Waiting) = 0
  BY <1>4 DEF Elements
<1>6. DiskTyped
  BY <1>1 DEF DiskTyped, EmptyFile, Pairs
<1>7. /\ Left = {} /\ ~AckLeft /\ ~ObsLeft /\ ~JournalLeft /\ ~SessionLeft
      /\ \A a : Ends(a) <=> result = a
  BY <1>1, NothingLeft
<1>8. ~Ends("ok")
  BY <1>1, <1>7
<1>9. UiTyped
  BY <1>1, <1>2 DEF UiTyped, PageStates, WithObs
<1>10. OpTyped /\ UploaderTyped
  BY <1>1, <1>2 DEF OpTyped, UploaderTyped, Transactions, Answers
<1>11. CountsTyped
  <2>1. MaxIds \in Nat /\ MaxSessions \in Nat
    BY BoundAssumption
  <2>2. [s \in Sids |-> 0] \in [Sids -> 0..MaxIds]
    BY <2>1
  <2>3. created \in [ids : 0..MaxIds, sids : 0..MaxSessions]
    BY <1>1, <2>1
  <2>4. 1..created.sids - 1 = {}
    BY <1>1
  <2> QED BY <1>1, <2>2, <2>3, <2>4 DEF CountsTyped, Judged
<1>12. PlanShape
  <2>1. Planned(<<>>)
    BY DEF Planned, Chained, Increasing
  <2> QED BY <1>1, <1>7, <2>1 DEF PlanShape
<1>13. CacheSound /\ JournalPlan
  <2>1. ~ColdCache.loaded
    BY DEF ColdCache
  <2> QED BY <1>1, <1>7, <2>1 DEF CacheSound, JournalPlan
<1>14. SessionPlan /\ PageSound /\ RecordsFit /\ NumbersSound
  BY <1>1, <1>2, <1>3, <1>4, <1>7, <1>8
     DEF SessionPlan, PageSound, RecordsFit, NumbersSound, PageStates, SequenceRecordedOnce
<1>15. ~Committed
  BY <1>2 DEF Committed
<1>16. HeadHeld /\ NoGap /\ Verdicts
  <2>1. Gapless(Waiting)
    BY <1>5 DEF Gapless
  <2> QED BY <1>1, <1>2, <1>3, <1>5, <1>15, <2>1 DEF HeadHeld, Holding, NoGap, Verdicts, WithObs
<1> QED BY <1>4, <1>6, <1>9, <1>10, <1>11, <1>12, <1>13, <1>14, <1>16
        DEF WordInv, Typed, JournalInv, SessionInv, UploadInv

\* Nothing happens.
LEMMA StutterKeeps ==
    ASSUME WordInv, UNCHANGED vars
    PROVE  WordInv'
<1>1. /\ UNCHANGED storeVars /\ ui' = ui /\ uploader' = uploader /\ server' = server
      /\ created' = created /\ recorded' = recorded /\ dropped' = dropped
  BY DEF vars
<1>2. /\ DiskTyped' /\ PlanShape' /\ JournalInv' /\ op' = op /\ todo' = todo
      /\ result' = result
      /\ Waiting' = Waiting /\ Acked' = Acked /\ Stored' = Stored /\ Boot' = Boot
      /\ Snapshots' = Snapshots
      /\ disk' = disk /\ cache' = cache
      /\ Left' = Left
      /\ AckLeft' <=> AckLeft
      /\ ObsLeft' <=> ObsLeft
      /\ JournalLeft' <=> JournalLeft
      /\ SessionLeft' <=> SessionLeft
      /\ Repaired' <=> Repaired
      /\ WillBeMoved' <=> WillBeMoved
      /\ \A a : Ends(a)' <=> Ends(a)
  BY <1>1, StoreStays
<1>3. /\ OpTyped /\ UiTyped /\ UploaderTyped /\ CountsTyped /\ SessionPlan
      /\ PageSound /\ RecordsFit /\ NumbersSound /\ HeadHeld /\ NoGap /\ Verdicts
  BY DEF WordInv, Typed, SessionInv, UploadInv
<1>4. OpTyped' /\ UiTyped' /\ UploaderTyped' /\ CountsTyped'
  BY <1>1, <1>2, <1>3 DEF OpTyped, UiTyped, UploaderTyped, CountsTyped, Judged
<1>5. Committed' <=> Committed
  BY <1>1, <1>2 DEF Committed
<1>6. SessionPlan'
  <2>1. Saved' = Saved
    BY <1>1 DEF Saved
  <2> QED BY <1>1, <1>2, <1>3, <1>5, <2>1 DEF SessionPlan
<1>7. PageSound' /\ RecordsFit' /\ NumbersSound' /\ NoGap' /\ Verdicts'
  BY <1>1, <1>2, <1>3, <1>5, DataStays
<1>8. HeadHeld'
  BY <1>1, <1>2, <1>3 DEF HeadHeld, Holding, Judged
<1> QED BY <1>2, <1>4, <1>6, <1>7, <1>8 DEF WordInv, Typed, SessionInv, UploadInv

\* Every step of the system preserves the invariant.
LEMMA WordStepKeeps ==
    ASSUME WordInv, [Next]_vars
    PROVE  WordInv'
<1>1. CASE OpenPage \/ PageLoaded \/ StartSession \/ ApplyCandidatePage \/ SessionSaved
  BY <1>1, OpenPageKeeps, PageLoadedKeeps, StartSessionKeeps, ApplyCandidatePageKeeps,
     SessionSavedKeeps
<1>2. CASE Answer \/ Retry \/ CommitObservation \/ CommitReturned \/ ApplyCommitResult
           \/ LeavePage
  BY <1>2, AnswerKeeps, RetryKeeps, CommitObservationKeeps, CommitReturnedKeeps,
     ApplyCommitResultKeeps
<1>3. CASE ClearSession \/ SessionCleared
  BY <1>3, ClearSessionKeeps, SessionClearedKeeps
<1>4. CASE Peek \/ Peeked \/ Resolved \/ Prepared \/ PrepareForSleep
  BY <1>4, PeekKeeps, AnsweredKeeps, PrepareKeeps
<1>5. CASE Submit \/ SubmitRefused \/ SubmitDeferred \/ Acknowledge \/ Quarantine
  BY <1>5, SubmitKeeps, AcknowledgeKeeps
<1>6. CASE Reset
  BY <1>6, ResetKeeps
<1>7. CASE StoreStep
  BY <1>7, FileStepKeeps DEF StoreStep
<1>8. CASE StoreFault
  BY <1>8, FailureKeeps DEF StoreFault
<1>9. CASE UNCHANGED vars
  BY <1>9, StutterKeeps
<1> QED BY <1>1, <1>2, <1>3, <1>4, <1>5, <1>6, <1>7, <1>8, <1>9 DEF Next

\* The invariant holds from the start on.
THEOREM WordStoreInvariant == Spec => []WordInv
<1>1. Init => WordInv
  BY NewStore
<1>2. WordInv /\ [Next]_vars => WordInv'
  BY WordStepKeeps
<1> QED BY <1>1, <1>2, PTL DEF Spec

\* The types, of the invariant.
LEMMA WordTypes ==
    ASSUME WordInv
    PROVE  TypeOK
<1>1. /\ DiskTyped /\ OpTyped /\ UiTyped /\ CountsTyped /\ CacheSound
  BY DEF WordInv, Typed, JournalInv
<1>2. MaxIds \in Nat /\ MaxSessions \in Nat
  BY BoundAssumption
<1>3. DOMAIN disk = {"journal", "session", "rejected"}
  BY <1>1 DEF DiskTyped
<1>4. DOMAIN cache = DOMAIN ColdCache
  <2>1. DOMAIN ColdCache = {"loaded", "pending", "acked", "acks", "partialTail", "fromBackup"}
    BY DEF ColdCache
  <2>2. CASE cache.loaded
    <3>1. cache = OutboxScan(Waiting, Acked, Len(Acked), TornTail, FromBackup /\ ~Installing)
      BY <1>1, <2>2 DEF CacheSound
    <3> QED BY <2>1, <3>1 DEF OutboxScan
  <2>3. CASE ~cache.loaded
    BY <1>1, <2>3 DEF CacheSound
  <2> QED BY <2>2, <2>3
<1>5. ui.session.sid \in 0..MaxSessions
  BY <1>1, <1>2 DEF UiTyped, Sessions, NoSession, Session
<1>6. server.accepted \cup server.refused \subseteq Ids /\ dropped \subseteq Sids
  <2>1. created.ids \in 0..MaxIds /\ created.sids \in 0..MaxSessions
    BY <1>1 DEF CountsTyped
  <2> QED BY <1>1, <1>2, <2>1 DEF CountsTyped, Judged, Ids, Sids
<1> QED BY <1>1, <1>3, <1>4, <1>5, <1>6 DEF TypeOK, OpTyped, CountsTyped

\* The journal loads again whatever a power loss cut short, and what the transactions
\* trust in RAM is what reading it again would give (EnsureOutboxCache and ScanOutbox,
\* word_study_store.cpp).
THEOREM StoreIsSound == Spec => []StoreSound
<1>1. WordInv => StoreSound
  <2> SUFFICES ASSUME WordInv PROVE StoreSound
    OBVIOUS
  <2>1. DiskTyped /\ JournalSound /\ CacheSound
    BY DEF WordInv, Typed, JournalInv
  <2>2. /\ BootScan = OutboxScan(Waiting, Acked, Len(Acked), TornTail, FromBackup)
        /\ BootScan # None
    BY <2>1, BootReads
  <2>3. CacheMatchesDisk
    <3> SUFFICES ASSUME cache.loaded, todo = <<>> PROVE cache = BootScan
      BY DEF CacheMatchesDisk, BootScan
    <3>1. (FromBackup /\ ~Installing) = FromBackup
      BY DEF Installing, FromBackup
    <3> QED BY <2>1, <2>2, <3>1 DEF CacheSound
  <2> QED BY <2>2, <2>3, WordTypes DEF StoreSound, JournalReadable
<1> QED BY <1>1, WordStoreInvariant, PTL

\* No observation the user was told is saved is lost, at whatever file operation power
\* goes (the order of the durable writes, CommitObservationTransaction).
THEOREM NothingIsLost == Spec => []NoObservationLost
<1>1. WordInv => NoObservationLost
  <2> SUFFICES ASSUME WordInv, NEW o \in recorded
               PROVE  \/ o.id \in server.accepted \/ o.id \in server.refused
                      \/ o.id \in IdsOf(BootPending)
    BY DEF NoObservationLost
  <2>1. DiskTyped /\ JournalSound /\ Verdicts
    BY DEF WordInv, Typed, JournalInv, UploadInv
  <2>2. BootPending = Waiting /\ Waiting \in Seq(Observations)
    BY <2>1, BootReads, JournalFacts
  <2>3. o.id \in Judged \/ \E r \in Elements(Waiting) : r.id = o.id
    BY <2>1 DEF Verdicts
  <2>4. \A r \in Elements(Waiting) : r.id \in IdsOf(Waiting)
    BY <2>2 DEF Elements, IdsOf
  <2> QED BY <2>2, <2>3, <2>4 DEF Judged
<1> QED BY <1>1, WordStoreInvariant, PTL

\* The numbers of a session, from the cursor of the page over the journal to the server:
\* the cursor comes back after a reboot, no number is given twice, and the upload never
\* runs into a gap (ReconcileSession, word_study_store.cpp).
THEOREM SequencesAreSound == Spec => []SequencesSound
<1>1. WordInv => SequencesSound
  <2> SUFFICES ASSUME WordInv PROVE SequencesSound
    OBVIOUS
  <2>1. DiskTyped /\ JournalSound /\ OpTyped /\ UiTyped /\ PageSound /\ NumbersSound
    BY DEF WordInv, Typed, JournalInv, SessionInv
  <2>2. CursorSurvivesReboot
    <3> SUFFICES ASSUME ui.state \in {"ready", "saving"}, ui.session.sid \notin dropped
                 PROVE  /\ BootSession.sid = ui.session.sid
                        /\ BootSession.next = ui.session.next
                        /\ BootSession.end >= ui.session.end
      BY DEF CursorSurvivesReboot
    <3>1. ~Committed
      BY <2>1 DEF Committed, OpTyped
    <3>2. /\ Stored # Absent /\ Stored.sid = ui.session.sid
          /\ Stored.end >= ui.session.end /\ Boot.next = ui.session.next
      BY <2>1, <3>1 DEF PageSound, PageStates
    <3> QED BY <2>1, <3>2, SnapshotFacts
  <2>3. SequenceRecordedOnce
    BY <2>1 DEF NumbersSound
  <2>4. NoSequenceGap
    BY HeldFacts DEF NoSequenceGap
  <2> QED BY <2>2, <2>3, <2>4 DEF SequencesSound
<1> QED BY <1>1, WordStoreInvariant, PTL

-------------------------------------------------------------------------------
(* The refinement of the log *)

\* What a step does to the list that waits and to the verdicts: one of the server's on an
\* observation that waits, or a move of the list.
LEMMA WaitingAndVerdicts ==
    ASSUME WordInv, [Next]_vars
    PROVE  \/ /\ Waiting' = Waiting
              /\ \/ Judged' = Judged
                 \/ \E id \in IdsOf(Waiting) : Judged' = Judged \cup {id}
           \/ Judged' = Judged /\ WaitingMoves
<1>1. ASSUME disk' = disk, server' = server
      PROVE  Waiting' = Waiting /\ Judged' = Judged
  BY <1>1, DiskStays DEF Judged
<1>2. CASE OpenPage \/ PageLoaded \/ StartSession \/ ApplyCandidatePage \/ SessionSaved
           \/ CommitObservation \/ CommitReturned \/ ClearSession \/ SessionCleared
           \/ Peek \/ Peeked \/ Resolved \/ Acknowledge \/ Quarantine
  BY <1>1, <1>2
     DEF OpenPage, PageLoaded, StartSession, ApplyCandidatePage, SessionSaved,
         CommitObservation, CommitReturned, ClearSession, SessionCleared, Peek, Peeked,
         Resolved, Acknowledge, Quarantine, Release, Start, BeginLoadSession,
         BeginSaveSession, BeginClearSession, BeginCommit, BeginPeek, BeginAck, BeginQuarantine
<1>3. CASE Answer \/ Retry \/ ApplyCommitResult \/ LeavePage \/ SubmitDeferred \/ UNCHANGED vars
  BY <1>1, <1>3
     DEF Answer, Retry, ApplyCommitResult, LeavePage, SubmitDeferred, vars, storeVars
<1>4. CASE PrepareForSleep \/ Prepared
  <2>1. disk' = disk
    BY <1>4 DEF PrepareForSleep, Prepared, BeginPrepareSleep, Start, Release
  <2>2. server' = server
    BY <1>4 DEF PrepareForSleep, Prepared
  <2> QED BY <1>1, <2>1, <2>2
<1>5. CASE Submit \/ SubmitRefused
  <2>1. uploader.state = "holding" /\ disk' = disk
    BY <1>5 DEF Submit, SubmitRefused, storeVars
  <2>2. uploader.obs \in Elements(Waiting) /\ Waiting \in Seq(Observations)
    BY <2>1, HeldFacts
  <2>3. uploader.obs.id \in IdsOf(Waiting)
    BY <2>2 DEF Elements, IdsOf
  <2>4. \/ server' = server
        \/ /\ server'.accepted = server.accepted \cup {uploader.obs.id}
           /\ server'.refused = server.refused
        \/ /\ server'.refused = server.refused \cup {uploader.obs.id}
           /\ server'.accepted = server.accepted
    <3>1. server = [next |-> server.next, accepted |-> server.accepted,
                    refused |-> server.refused]
      BY DEF WordInv, Typed, CountsTyped
    <3>2. CASE Submit
      BY <3>1, <3>2 DEF Submit
    <3>3. CASE SubmitRefused
      BY <3>1, <3>3 DEF SubmitRefused
    <3> QED BY <1>5, <3>2, <3>3
  <2>5. Judged' = Judged \/ Judged' = Judged \cup {uploader.obs.id}
    BY <2>4 DEF Judged
  <2> QED BY <2>1, <2>3, <2>5, DiskStays
<1>6. CASE Reset
  BY <1>6, PowerLossLeaves DEF Reset, Judged
<1>7. CASE StoreStep
  BY <1>7, FileStepKeeps DEF StoreStep, Judged
<1>8. CASE StoreFault
  BY <1>8, FailureKeeps DEF StoreFault, Judged
<1> QED BY <1>2, <1>3, <1>4, <1>5, <1>6, <1>7, <1>8 DEF Next

\* The identifiers that wait, after a move of the list.
LEMMA WaitingIds ==
    ASSUME NEW w \in Seq(Observations), DistinctIds(w)
    PROVE  /\ IdsOf(w) \in SUBSET Ids
           /\ \A o \in Observations : IdsOf(Append(w, o)) = IdsOf(w) \cup {o.id} /\ o.id \in Ids
           /\ w # <<>> => /\ Head(w).id \in IdsOf(w)
                          /\ IdsOf(Tail(w)) = IdsOf(w) \ {Head(w).id}
<1>1. \A s \in Seq(Observations) : IdsOf(s) = {r.id : r \in Elements(s)}
  BY DEF IdsOf, Elements
<1>2. \A o \in Observations : o.id \in Ids
  BY DEF Observations, Entries, Ids
<1>3. IdsOf(w) \in SUBSET Ids
  <2>1. \A i \in DOMAIN w : w[i] \in Observations
    OBVIOUS
  <2> QED BY <1>2, <2>1 DEF IdsOf
<1>4. ASSUME NEW o \in Observations
      PROVE  IdsOf(Append(w, o)) = IdsOf(w) \cup {o.id}
  <2>1. Append(w, o) \in Seq(Observations)
    OBVIOUS
  <2>2. Elements(Append(w, o)) = Elements(w) \cup {o}
    BY ElementsOf
  <2> QED BY <1>1, <2>1, <2>2
<1>5. ASSUME w # <<>>
      PROVE  Head(w).id \in IdsOf(w) /\ IdsOf(Tail(w)) = IdsOf(w) \ {Head(w).id}
  <2>1. /\ Len(w) \in Nat \ {0} /\ Head(w) = w[1] /\ Len(Tail(w)) = Len(w) - 1
        /\ DOMAIN Tail(w) = 1..Len(w) - 1 /\ DOMAIN w = 1..Len(w)
        /\ \A i \in 1..Len(w) - 1 : Tail(w)[i] = w[i + 1] /\ i + 1 \in 1..Len(w)
    BY <1>5
  <2>2. Head(w).id \in IdsOf(w)
    BY <2>1 DEF IdsOf
  <2>3. ASSUME NEW i \in 1..Len(w) - 1
        PROVE  Tail(w)[i].id \in IdsOf(w) \ {Head(w).id}
    <3>1. Tail(w)[i] = w[i + 1] /\ i + 1 \in 1..Len(w) /\ i + 1 # 1 /\ 1 \in 1..Len(w)
      BY <2>1
    <3>2. w[i + 1].id # w[1].id
      BY <3>1 DEF DistinctIds
    <3> QED BY <2>1, <3>1, <3>2 DEF IdsOf
  <2>4. ASSUME NEW i \in 1..Len(w), w[i].id # Head(w).id
        PROVE  w[i].id \in IdsOf(Tail(w))
    <3>1. i - 1 \in 1..Len(w) - 1 /\ i - 1 + 1 = i
      BY <2>1, <2>4
    <3>2. Tail(w)[i - 1] = w[i]
      BY <2>1, <3>1
    <3> QED BY <2>1, <3>1, <3>2 DEF IdsOf
  <2> QED BY <2>1, <2>2, <2>3, <2>4 DEF IdsOf
<1> QED BY <1>2, <1>3, <1>4, <1>5

\* What a reboot would upload is the list that waits.
LEMMA PendingWaits == WordInv => BootPending = Waiting
BY BootReads DEF WordInv, Typed, JournalInv

\* The store is the log of ObservationLog: although each transaction is several file
\* operations and power may go at each, an observation appears at once in what a reboot
\* uploads, stays there until its verdict, and does not come back.
THEOREM StoreImplementsLog == Spec => ImplementsLog
<1>1. Init => Log!Init
  <2> SUFFICES ASSUME Init PROVE Log!Init
    OBVIOUS
  <2>1. WordInv
    BY NewStore
  <2>2. disk.journal = EmptyFile
    BY DEF Init, InitStore
  <2>3. Waiting = <<>>
    BY <2>2, EmptyJournal DEF Waiting, Content, ContentOf, EmptyFile
  <2>4. IdsOf(<<>>) = {}
    BY DEF IdsOf
  <2> QED BY <2>1, <2>3, <2>4, PendingWaits DEF Log!Init, Init
<1>2. (WordInv => BootPending = Waiting)'
  BY PendingWaits, PTL
<1>3. WordInv /\ WordInv' /\ [Next]_vars => [Log!Next]_(Log!vars)
  <2> SUFFICES ASSUME WordInv, WordInv', [Next]_vars
               PROVE  Log!Next \/ UNCHANGED Log!vars
    OBVIOUS
  <2>1. BootPending = Waiting /\ BootPending' = Waiting'
    BY <1>2, PendingWaits
  <2>2. Waiting \in Seq(Observations) /\ DistinctIds(Waiting)
    BY JournalFacts DEF WordInv, Typed, JournalInv
  <2>3. /\ IdsOf(Waiting) \in SUBSET Ids
        /\ \A o \in Observations :
               /\ IdsOf(Append(Waiting, o)) = IdsOf(Waiting) \cup {o.id}
               /\ o.id \in Ids
        /\ Waiting # <<>> => /\ Head(Waiting).id \in IdsOf(Waiting)
                            /\ IdsOf(Tail(Waiting)) = IdsOf(Waiting) \ {Head(Waiting).id}
    BY <2>2, WaitingIds
  <2>4. \/ Waiting' = Waiting /\ Judged' = Judged
        \/ /\ Waiting' = Waiting
           /\ \E id \in IdsOf(Waiting) : Judged' = Judged \cup {id}
        \/ Judged' = Judged /\ WaitingMoves
    BY WaitingAndVerdicts
  <2>5. CASE Waiting' = Waiting /\ Judged' = Judged
    <3>1. IdsOf(BootPending)' = IdsOf(BootPending)
      BY <2>1, <2>5
    <3> QED BY <2>5, <3>1 DEF Log!vars, Judged
  <2>6. CASE /\ Waiting' = Waiting
             /\ \E id \in IdsOf(Waiting) : Judged' = Judged \cup {id}
    <3>1. PICK id \in IdsOf(Waiting) : Judged' = Judged \cup {id}
      BY <2>6
    <3>2. IdsOf(BootPending)' = IdsOf(BootPending) /\ IdsOf(BootPending) = IdsOf(Waiting)
      BY <2>1, <2>6
    <3>3. CASE id \in Judged
      BY <3>1, <3>2, <3>3 DEF Log!vars, Judged
    <3>4. CASE id \notin Judged
      BY <3>1, <3>2, <3>4 DEF Log!Next, Log!Judge, Judged
    <3> QED BY <3>3, <3>4
  <2>7. CASE Judged' = Judged /\ WaitingMoves
    <3>1. CASE Waiting' = Waiting
      BY <2>5, <2>7, <3>1
    <3>2. CASE Waiting # <<>> /\ Waiting' = Tail(Waiting) /\ Head(Waiting).id \in Judged
      <4>1. IdsOf(BootPending)' = IdsOf(BootPending) \ {Head(Waiting).id}
        BY <2>1, <2>3, <3>2
      <4>2. Head(Waiting).id \in IdsOf(BootPending)
        BY <2>1, <2>3, <3>2
      <4> QED BY <2>7, <3>2, <4>1, <4>2 DEF Log!Next, Log!Drop, Judged
    <3>3. ASSUME NEW o \in Observations, Waiting' = Append(Waiting, o),
                 o.id \notin Judged \cup IdsOf(Waiting)
          PROVE  Log!Next
      <4>1. IdsOf(BootPending)' = IdsOf(BootPending) \cup {o.id}
        BY <2>1, <2>3, <3>3
      <4>2. o.id \in Ids \ (IdsOf(BootPending) \cup Judged)
        BY <2>1, <2>3, <3>3
      <4> QED BY <2>7, <4>1, <4>2 DEF Log!Next, Log!Record, Judged
    <3> QED BY <2>7, <3>1, <3>2, <3>3 DEF WaitingMoves
  <2> QED BY <2>4, <2>5, <2>6, <2>7
<1> QED BY <1>1, <1>3, WordStoreInvariant, PTL DEF Spec, ImplementsLog, Log!Spec
================================================================================
