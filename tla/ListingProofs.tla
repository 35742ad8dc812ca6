------------------------------ MODULE ListingProofs ------------------------------
(***************************************************************************)
(* A walk through the list misses nothing and no page is too long, for any *)
(* transactions, page sizes, statuses and size of usize.                   *)
(***************************************************************************)
EXTENDS Listing, FiniteSetTheorems, TLAPS

-----------------------------------------------------------------------------
(* Ranks.                                                                  *)

\* There are finitely many keys in front of a key.
LEMMA FrontFinite ==
    ASSUME NEW S \in SUBSET Nat, NEW k \in Nat
    PROVE  IsFiniteSet({x \in S : x < k})
  <1> DEFINE front == {x \in S : x < k}
  <1>1. front \in SUBSET Nat
        OBVIOUS
  <1>2. \A x \in front : x <= k
        OBVIOUS
  <1> HIDE DEF front
  <1>3. IsFiniteSet(front)
        BY <1>1, <1>2, FS_BoundedSetOfNaturals
  <1> QED
      BY <1>3 DEF front

LEMMA RankType ==
    ASSUME NEW S \in SUBSET Nat, NEW k \in Nat
    PROVE  Rank(S, k) \in Nat
  BY FrontFinite, FS_CardinalityType DEF Rank

\* No key moves to the front when others are added.
LEMMA RankGrows ==
    ASSUME NEW T \in SUBSET Nat, NEW S \in SUBSET T, NEW k \in Nat
    PROVE  Rank(S, k) <= Rank(T, k)
  <1>1. {x \in S : x < k} \in SUBSET {x \in T : x < k}
        OBVIOUS
  <1> QED
      BY <1>1, FrontFinite, FS_Subset DEF Rank

\* Keys have different ranks, in their order.
LEMMA RankOrder ==
    ASSUME NEW S \in SUBSET Nat, NEW j \in S, NEW k \in Nat, j < k
    PROVE  Rank(S, j) < Rank(S, k)
  <1> DEFINE A == {x \in S : x < j}
             B == {x \in S : x < k}
  <1>1. A \in SUBSET B /\ j \in B /\ j \notin A
        <2>1. \A x \in A : x \in B
              OBVIOUS
        <2>2. j \in B /\ j \notin A
              OBVIOUS
        <2> QED
            BY <2>1, <2>2
  <1>2. IsFiniteSet(A) /\ IsFiniteSet(B) /\ Cardinality(A) \in Nat /\ Cardinality(B) \in Nat
        BY FrontFinite, FS_CardinalityType
  <1>3. Cardinality(A) <= Cardinality(B) /\ Cardinality(A) # Cardinality(B)
        <2> HIDE DEF A, B
        <2> QED
            BY <1>1, <1>2, FS_Subset
  <1> QED
      BY <1>2, <1>3 DEF Rank

\* Of n consecutive ranks there are at most n keys.
LEMMA RankWindow ==
    ASSUME NEW S \in SUBSET Nat, NEW T \in SUBSET S, NEW a \in Nat, NEW n \in Nat,
           \A k \in T : a <= Rank(S, k) /\ Rank(S, k) < a + n
    PROVE  IsFiniteSet(T) /\ Cardinality(T) <= n
  <1> DEFINE f == [k \in T |-> Rank(S, k)]
             W == a..(a + n - 1)
  <1>1. f \in [T -> W]
        <2>1. \A k \in T : k \in Nat /\ Rank(S, k) \in Nat
              BY RankType
        <2>2. \A k \in T : Rank(S, k) \in W
              BY <2>1
        <2> QED
            BY <2>2
  <1>2. ASSUME NEW j \in T, NEW k \in T, f[j] = f[k] PROVE j = k
        <2>1. /\ j \in S /\ k \in S /\ j \in Nat /\ k \in Nat
              /\ Rank(S, j) \in Nat /\ Rank(S, k) \in Nat /\ Rank(S, j) = Rank(S, k)
              BY <1>2, RankType
        <2>2. ~(j < k) /\ ~(k < j)
              BY <2>1, RankOrder
        <2> QED
            BY <2>1, <2>2
  <1>3. f \in Injection(T, W)
        BY <1>1, <1>2 DEF Injection, IsInjective
  <1>4. IsFiniteSet(W) /\ Cardinality(W) = n
        <2>1. a \in Int /\ a + n - 1 \in Int /\ (a > a + n - 1 <=> n = 0)
              OBVIOUS
        <2> QED
            BY <2>1, FS_Interval
  <1> HIDE DEF f, W
  <1> QED
      BY <1>3, <1>4, FS_Injection

-----------------------------------------------------------------------------
(* The invariant.                                                          *)

\* Transactions stored between two keys.
Between(j, k) == {x \in StoredGids : j < x /\ x < k}

\* What a scan holds: values of stored transactions, no more of them than the
\* page ends at, and none in front of the iterator.
ScanInv ==
    /\ TypeOK
    /\ IsFiniteSet(vals)
    /\ Read \subseteq StoredGids
    /\ \A g \in matching : Asked(txns[g])
    /\ pc = "idle" => vals = {} /\ cursor = 0
    /\ pc = "scanning" /\ store = "sql" => vals = {}
    /\ pc # "idle" => offset < UsizeSize /\ Cardinality(vals) <= offset + limit
    /\ store = "sled" => \A g \in Read : g <= cursor

\* Where the transactions are that must not be missed: those read were on an
\* earlier page or are on this one; those the iterator has still ahead were on an
\* earlier page or will be read behind the offset; those it will never read come
\* behind the page.
WalkInv ==
    /\ NothingMissed
    /\ \A v \in vals : v.gid \in matching =>
          /\ Asked(v.status)
          /\ Rank(Read, v.gid) < offset => v.gid \in seen
    /\ pc = "scanning" /\ store = "sled" => \A g \in matching \ Read :
          /\ cursor < g
          /\ g \in seen \/ offset <= Cardinality(vals) + Cardinality(Between(cursor, g))
    /\ pc = "scanned" /\ offset + limit < UsizeSize => \A g \in matching \ Read :
          offset + limit <= Rank(StoredGids, g)

Clean == store = "sql" => barriers = {}

ListingInv == ScanInv /\ PageFits /\ (Clean => WalkInv)

-----------------------------------------------------------------------------
(* Scans.                                                                  *)

\* Keys are numbers, and those of transactions are not 0, where an iterator begins.
LEMMA KeyType ==
    /\ Gids \in SUBSET (Nat \ {0})
    /\ StoredGids \in SUBSET Nat
    /\ \A g \in StoredGids : g \in Gids /\ g \in Nat /\ 0 < g
    /\ BarrierKeys \in SUBSET Nat
    /\ Limits \in SUBSET Nat
    /\ UsizeSize \in Nat \ {0}
    /\ \A s \in Statuses : s # "none"
  <1>1. \A g \in Gids : g \in Nat /\ 0 < g
        BY ListingAssumption
  <1>2. \A n \in Limits : n \in Nat
        BY ListingAssumption
  <1>3. \A k \in BarrierKeys : k \in Nat
        BY ListingAssumption
  <1>4. \A s \in Statuses : s # "none"
        BY ListingAssumption
  <1>5. UsizeSize \in Nat \ {0}
        BY ListingAssumption
  <1> QED
      BY <1>1, <1>2, <1>3, <1>4, <1>5 DEF StoredGids

\* There is one value of each transaction a scan has read.
LEMMA ReadCount ==
    ASSUME TypeOK, IsFiniteSet(vals)
    PROVE  /\ IsFiniteSet(Read)
           /\ Cardinality(Read) = Cardinality(vals)
           /\ Cardinality(vals) \in Nat
           /\ Read \in SUBSET Nat
  <1> DEFINE f == [v \in vals |-> v.gid]
  <1>1. f \in [vals -> Read] /\ \A g \in Read : \E v \in vals : f[v] = g
        BY DEF Read
  <1>2. \A v, w \in vals : f[v] = f[w] => v = w
        BY DEF TypeOK
  <1>3. f \in Bijection(vals, Read)
        BY <1>1, <1>2 DEF Bijection, Injection, Surjection, IsInjective
  <1>4. ExistsBijection(vals, Read)
        <2> HIDE DEF f
        <2> QED
            BY <1>3 DEF ExistsBijection
  <1>5. Read \in SUBSET Nat
        BY KeyType DEF TypeOK, Read, Value
  <1> QED
      BY <1>4, <1>5, FS_Bijection, FS_CardinalityType

\* offset + limit may wrap, and is never more than it would be without.
LEMMA ScanLimitBounds ==
    ASSUME offset \in Nat, limit \in Nat
    PROVE  /\ ScanLimit \in Nat
           /\ ScanLimit <= offset + limit
           /\ offset + limit < UsizeSize => ScanLimit = offset + limit
  <1>1. UsizeSize \in Nat /\ UsizeSize > 0
        BY KeyType
  <1>2. \A n \in Nat : n % UsizeSize \in Nat /\ n % UsizeSize <= n
        BY <1>1
  <1>3. \A n \in Nat : n < UsizeSize => n % UsizeSize = n
        BY <1>1
  <1> QED
      BY <1>2, <1>3 DEF ScanLimit

\* The first n rows are n at most.
LEMMA FirstRowsCount ==
    ASSUME TypeOK, NEW n \in Nat
    PROVE  IsFiniteSet(FirstRows(n)) /\ Cardinality(FirstRows(n)) <= n
  <1> DEFINE rows == StoredGids \cup barriers
  <1>1. rows \in SUBSET Nat
        BY KeyType DEF TypeOK
  <1>2. FirstRows(n) \in SUBSET rows
        BY DEF FirstRows
  <1>3. \A k \in FirstRows(n) : 0 <= Rank(rows, k) /\ Rank(rows, k) < 0 + n
        BY <1>1, RankType DEF FirstRows
  <1> HIDE DEF rows
  <1> QED
      BY <1>1, <1>2, <1>3, RankWindow

LEMMA ListingInit == Init => ListingInv
  <1> SUFFICES ASSUME Init PROVE ListingInv
      OBVIOUS
  <1>1. ScanInv
        BY KeyType, FS_EmptySet DEF Init, ScanInv, TypeOK, Read, Asked, StoredGids
  <1>2. PageFits
        BY FS_EmptySet DEF Init, PageFits
  <1>3. ASSUME NEW g \in StoredGids PROVE ~(Rank(StoredGids, g) < 0)
        BY KeyType, RankType
  <1>4. WalkInv
        BY <1>3 DEF Init, WalkInv, NothingMissed
  <1> QED
      BY <1>1, <1>2, <1>4 DEF ListingInv

-----------------------------------------------------------------------------
(* Scans keep their shape.                                                 *)

\* A transaction that is saved is stored from then on, and none is ever deleted.
LEMMA StoredGrows ==
    ASSUME TypeOK, [Next]_vars
    PROVE  StoredGids \in SUBSET StoredGids'
  <1>1. ASSUME NEW g \in Gids, NEW status \in Statuses, TxnSaved(g, status)
        PROVE  StoredGids \in SUBSET StoredGids'
        BY <1>1, KeyType DEF TxnSaved, StoredGids, TypeOK
  <1>2. ASSUME UNCHANGED txns PROVE StoredGids' = StoredGids
        BY <1>2 DEF StoredGids
  <1> QED
      BY <1>1, <1>2 DEF Next, vars, dataVars, BarrierInserted, ListBegins, SledReads, SledDone,
         SqlReads, ListAnswers

LEMMA SavedScan ==
    ASSUME ScanInv, NEW g \in Gids, NEW status \in Statuses, TxnSaved(g, status)
    PROVE  ScanInv'
  <1>1. /\ UNCHANGED <<store, barriers, filter, offset, limit, pc, cursor, vals, page, seen>>
        /\ txns' = [txns EXCEPT ![g] = status]
        /\ matching' = IF Asked(status) THEN matching ELSE matching \ {g}
        BY DEF TxnSaved, scanVars, walkVars
  <1>2. StoredGids \subseteq StoredGids'
        BY StoredGrows DEF ScanInv, Next
  <1>3. Read' = Read
        BY <1>1 DEF Read
  <1>4. \A x \in matching' : x \in matching /\ Asked(txns[x])' /\ x \in StoredGids'
        BY <1>1, <1>2 DEF ScanInv, TypeOK, Asked, StoredGids
  <1>5. TypeOK'
        BY <1>1, <1>4 DEF ScanInv, TypeOK
  <1> QED
      BY <1>1, <1>2, <1>3, <1>4, <1>5 DEF ScanInv

\* The iterator reads one more value, which is no more than the limit.
LEMMA ReadScan ==
    ASSUME ScanInv, SledReads
    PROVE  /\ ScanInv'
           /\ Read' = Read \cup {cursor'}
           /\ cursor' \in Ahead /\ \A x \in Ahead : cursor' <= x
           /\ vals' = vals \cup {[gid |-> cursor', status |-> txns[cursor']]}
           /\ Cardinality(vals') = Cardinality(vals) + 1
  <1>1. PICK g \in Ahead : /\ \A other \in Ahead : g <= other
                           /\ cursor' = g
                           /\ vals' = vals \cup {[gid |-> g, status |-> txns[g]]}
        BY DEF SledReads
  <1>2. g \in StoredGids /\ g \in Gids /\ g \in Nat /\ cursor < g /\ txns[g] \in Statuses
        BY KeyType DEF Ahead, StoredGids, ScanInv, TypeOK
  <1>3. /\ store = "sled" /\ pc = "scanning" /\ Cardinality(vals) < ScanLimit
        /\ UNCHANGED <<store, txns, barriers, limit, pc, filter, offset, page, seen, matching>>
        BY DEF SledReads, dataVars, walkVars
  <1>4. cursor \in Nat /\ \A x \in Read : x \in Nat /\ x <= cursor
        BY <1>3, KeyType DEF ScanInv, TypeOK
  <1>5. g \notin Read
        BY <1>2, <1>4
  <1>6. [gid |-> g, status |-> txns[g]] \notin vals
        BY <1>5 DEF Read
  <1>7. Read' = Read \cup {g}
        <2> DEFINE new == [gid |-> g, status |-> txns[g]]
        <2>1. new.gid = g
              OBVIOUS
        <2> HIDE DEF new
        <2>2. vals' = vals \cup {new}
              BY <1>1 DEF new
        <2> QED
            BY <2>1, <2>2 DEF Read
  <1>8. IsFiniteSet(vals') /\ Cardinality(vals') = Cardinality(vals) + 1
        BY <1>1, <1>6, FS_AddElement DEF ScanInv
  <1>9. Cardinality(vals') <= offset + limit
        <2>1. offset \in Nat /\ limit \in Nat
              BY KeyType DEF ScanInv, TypeOK
        <2>2. ScanLimit \in Nat /\ ScanLimit <= offset + limit /\ Cardinality(vals) \in Nat
              BY <2>1, ScanLimitBounds, FS_CardinalityType DEF ScanInv
        <2> QED
            BY <1>3, <1>8, <2>1, <2>2
  <1>10. StoredGids' = StoredGids
        BY <1>3 DEF StoredGids
  <1>11. \A v, w \in vals' : v.gid = w.gid => v = w
        BY <1>1, <1>5 DEF ScanInv, TypeOK, Read
  <1>12. TypeOK'
        BY <1>1, <1>2, <1>3, <1>10, <1>11 DEF ScanInv, TypeOK, Value
  <1>13. \A x \in Read' : x \in StoredGids /\ x <= cursor'
        BY <1>1, <1>2, <1>4, <1>7 DEF ScanInv
  <1>14. \A x \in matching : Asked(txns[x])'
        BY <1>3 DEF ScanInv, Asked
  <1> QED
      BY <1>1, <1>3, <1>7, <1>8, <1>9, <1>10, <1>12, <1>13, <1>14 DEF ScanInv

\* A query returns no more values than the limit either, as the rows are limited.
LEMMA SelectScan ==
    ASSUME ScanInv, SqlReads
    PROVE  ScanInv' /\ Read' = FirstRows(ScanLimit) \cap Gids
  <1> DEFINE found == FirstRows(ScanLimit) \cap Gids
             f == [g \in found |-> [gid |-> g, status |-> txns[g]]]
  <1>1. /\ store = "sql" /\ pc = "scanning" /\ pc' = "scanned"
        /\ vals' = {[gid |-> g, status |-> txns[g]] : g \in found}
        /\ UNCHANGED <<store, txns, barriers, limit, cursor, filter, offset, page, seen, matching>>
        BY DEF SqlReads, dataVars, walkVars
  <1>2. found \subseteq StoredGids
        <2>1. \A g \in Gids : g \notin barriers
              BY ListingAssumption DEF ScanInv, TypeOK
        <2> QED
            BY <2>1 DEF FirstRows
  <1>3. \A g \in found : txns[g] \in Statuses
        BY <1>2 DEF StoredGids, ScanInv, TypeOK
  <1>4. Read' = found
        <2>1. \A v \in vals' : v.gid \in found
              BY <1>1
        <2>2. ASSUME NEW g \in found PROVE \E v \in vals' : v.gid = g
              <3>1. [gid |-> g, status |-> txns[g]] \in vals'
                    BY <1>1
              <3>2. [gid |-> g, status |-> txns[g]].gid = g
                    OBVIOUS
              <3> QED
                  BY <3>1, <3>2
        <2> HIDE DEF found
        <2> QED
            BY <2>1, <2>2 DEF Read
  <1>5. f \in Surjection(found, vals')
        BY <1>1 DEF Surjection
  <1>6. /\ IsFiniteSet(found) /\ Cardinality(found) \in Nat
        /\ Cardinality(found) <= offset + limit
        <2>1. offset \in Nat /\ limit \in Nat
              BY KeyType DEF ScanInv, TypeOK
        <2>2. ScanLimit \in Nat /\ ScanLimit <= offset + limit
              BY <2>1, ScanLimitBounds
        <2>3. IsFiniteSet(FirstRows(ScanLimit)) /\ Cardinality(FirstRows(ScanLimit)) <= ScanLimit
              BY <2>2, FirstRowsCount DEF ScanInv
        <2>4. /\ IsFiniteSet(found) /\ Cardinality(found) <= Cardinality(FirstRows(ScanLimit))
              /\ Cardinality(found) \in Nat /\ Cardinality(FirstRows(ScanLimit)) \in Nat
              BY <2>3, FS_Intersection, FS_CardinalityType
        <2> QED
            BY <2>1, <2>2, <2>3, <2>4
  <1>7. /\ IsFiniteSet(vals') /\ Cardinality(vals') \in Nat
        /\ Cardinality(vals') <= Cardinality(found)
        <2> HIDE DEF f, found
        <2> QED
            BY <1>5, <1>6, FS_Surjection, FS_CardinalityType
  <1>8. Cardinality(vals') <= offset + limit
        <2>1. offset \in Nat /\ limit \in Nat
              BY KeyType DEF ScanInv, TypeOK
        <2> QED
            BY <1>6, <1>7, <2>1
  <1>9. StoredGids' = StoredGids
        BY <1>1 DEF StoredGids
  <1>10. \A v, w \in vals' : v.gid = w.gid => v = w
        BY <1>1
  <1>11. vals' \subseteq Value
        BY <1>1, <1>3 DEF Value
  <1>12. TypeOK'
        BY <1>1, <1>9, <1>10, <1>11 DEF ScanInv, TypeOK
  <1>13. \A x \in matching : Asked(txns[x])'
        BY <1>1 DEF ScanInv, Asked
  <1> HIDE DEF f, found
  <1>14. ScanInv'
        BY <1>1, <1>2, <1>4, <1>7, <1>8, <1>9, <1>12, <1>13 DEF ScanInv
  <1> QED
      BY <1>4, <1>14 DEF found

\* The page answered holds at most limit values: those of consecutive indices.
LEMMA AnswerScan ==
    ASSUME ScanInv, ListAnswers
    PROVE  ScanInv' /\ PageFits'
  <1>1. /\ pc = "scanned" /\ pc' = "idle" /\ cursor' = 0 /\ vals' = {}
        /\ page' = Page /\ offset' = offset + limit
        /\ seen' = seen \cup {v.gid : v \in Page}
        /\ UNCHANGED <<store, txns, barriers, filter, limit, matching>>
        BY DEF ListAnswers, dataVars
  <1>2. offset \in Nat /\ limit \in Nat /\ Cardinality(vals) <= offset + limit
        <2>1. offset \in Nat /\ limit \in Nat
              BY KeyType DEF ScanInv, TypeOK
        <2>2. Cardinality(vals) <= offset + limit
              BY <1>1 DEF ScanInv
        <2> QED
            BY <2>1, <2>2
  <1>3. /\ IsFiniteSet(Read) /\ Cardinality(Read) = Cardinality(vals)
        /\ Cardinality(vals) \in Nat /\ Read \in SUBSET Nat
        BY ReadCount DEF ScanInv
  <1>4. ASSUME NEW k \in Read PROVE Rank(Read, k) \in Nat /\ Rank(Read, k) < offset + limit
        <2> DEFINE front == {x \in Read : x < k}
        <2>1. k \in Nat /\ k \notin front
              BY <1>3
        <2>2. front \in SUBSET Read /\ front # Read
              BY <2>1
        <2> HIDE DEF front
        <2>3. /\ Cardinality(front) <= Cardinality(Read) /\ Cardinality(front) # Cardinality(Read)
              /\ Cardinality(front) \in Nat
              BY <1>3, <2>2, FS_Subset, FS_CardinalityType
        <2>4. Rank(Read, k) = Cardinality(front)
              BY DEF Rank, front
        <2> QED
            BY <1>2, <1>3, <2>3, <2>4
  <1> DEFINE on == {v.gid : v \in Page}
             f == [v \in Page |-> v.gid]
  <1>5. on \in SUBSET Read /\ \A k \in on : offset <= Rank(Read, k) /\ Rank(Read, k) < offset + limit
        BY <1>4 DEF Page, Read
  <1>6. IsFiniteSet(on) /\ Cardinality(on) <= limit
        <2> HIDE DEF on
        <2> QED
            BY <1>2, <1>3, <1>5, RankWindow
  <1>7. f \in Injection(Page, on)
        <2>1. f \in [Page -> on]
              OBVIOUS
        <2>2. \A v, w \in Page : f[v] = f[w] => v = w
              BY DEF Page, ScanInv, TypeOK
        <2> QED
            BY <2>1, <2>2 DEF Injection, IsInjective
  <1>8. Cardinality(Page) <= limit
        <2> HIDE DEF f, on
        <2>1. IsFiniteSet(Page) /\ Cardinality(Page) <= Cardinality(on)
              BY <1>6, <1>7, FS_Injection
        <2>2. Cardinality(Page) \in Nat /\ Cardinality(on) \in Nat
              BY <1>6, <2>1, FS_CardinalityType
        <2> QED
            BY <1>2, <1>6, <2>1, <2>2
  <1>9. Page \subseteq Value /\ on \subseteq Gids
        BY DEF Page, ScanInv, TypeOK, Value
  <1>10. Read' = {} /\ StoredGids' = StoredGids
        BY <1>1 DEF Read, StoredGids
  <1>11. \A x \in matching' : Asked(txns[x])'
        BY <1>1 DEF ScanInv, Asked
  <1> HIDE DEF f
  <1>12. TypeOK'
        BY <1>1, <1>2, <1>9, <1>10 DEF ScanInv, TypeOK
  <1>13. ScanInv'
        BY <1>1, <1>10, <1>11, <1>12, FS_EmptySet DEF ScanInv
  <1> QED
      BY <1>1, <1>8, <1>13 DEF PageFits

LEMMA ScanNext ==
    ASSUME ScanInv, PageFits, [Next]_vars
    PROVE  ScanInv' /\ PageFits'
  <1>1. ASSUME NEW g \in Gids, NEW status \in Statuses, TxnSaved(g, status)
        PROVE  ScanInv' /\ PageFits'
        <2>1. pc' = pc /\ page' = page /\ limit' = limit
              BY <1>1 DEF TxnSaved, scanVars, walkVars
        <2> QED
            BY <1>1, <2>1, SavedScan DEF PageFits
  <1>2. ASSUME NEW k \in BarrierKeys, BarrierInserted(k) PROVE ScanInv' /\ PageFits'
        BY <1>2 DEF BarrierInserted, ScanInv, TypeOK, PageFits, scanVars, walkVars, Read,
           StoredGids, Asked
  <1>3. ASSUME NEW n \in Limits, ListBegins(n) PROVE ScanInv' /\ PageFits'
        <2>1. /\ pc = "idle" /\ pc' = "scanning" /\ offset < UsizeSize /\ limit' = n
              /\ vals = {} /\ Read' = Read /\ StoredGids' = StoredGids
              /\ UNCHANGED <<store, txns, barriers, filter, offset, cursor, vals, page, seen, matching>>
              BY <1>3 DEF ListBegins, dataVars, walkVars, ScanInv, Read, StoredGids
        <2>2. Cardinality(vals) <= offset + n
              BY <2>1, KeyType, FS_EmptySet DEF ScanInv, TypeOK
        <2>3. TypeOK'
              BY <2>1 DEF ScanInv, TypeOK
        <2>4. \A x \in matching' : Asked(txns[x])'
              BY <2>1 DEF ScanInv, Asked
        <2> QED
            BY <2>1, <2>2, <2>3, <2>4 DEF ScanInv, PageFits
  <1>4. CASE SledReads
        <2>1. pc' = pc /\ pc = "scanning"
              BY <1>4 DEF SledReads
        <2> QED
            BY <1>4, <2>1, ReadScan DEF PageFits
  <1>5. CASE SledDone
        <2>1. /\ pc = "scanning" /\ pc' = "scanned" /\ Read' = Read /\ StoredGids' = StoredGids
              /\ UNCHANGED <<store, txns, barriers, filter, offset, limit, cursor, vals, page, seen, matching>>
              BY <1>5 DEF SledDone, dataVars, walkVars, Read, StoredGids
        <2>2. TypeOK'
              BY <2>1 DEF ScanInv, TypeOK
        <2>3. \A x \in matching' : Asked(txns[x])'
              BY <2>1 DEF ScanInv, Asked
        <2> QED
            BY <2>1, <2>2, <2>3 DEF ScanInv, PageFits
  <1>6. CASE SqlReads
        <2>1. pc' = "scanned"
              BY <1>6 DEF SqlReads
        <2> QED
            BY <1>6, <2>1, SelectScan DEF PageFits
  <1>7. CASE ListAnswers
        BY <1>7, AnswerScan
  <1>8. CASE UNCHANGED vars
        BY <1>8 DEF vars, dataVars, scanVars, walkVars, ScanInv, TypeOK, PageFits, Read,
           StoredGids, Asked
  <1> QED
      BY <1>1, <1>2, <1>3, <1>4, <1>5, <1>6, <1>7, <1>8 DEF Next

-----------------------------------------------------------------------------
(* The walk.                                                               *)

\* What was clean is so before: barrier keys are never deleted.
LEMMA CleanBefore ==
    ASSUME [Next]_vars, Clean' PROVE Clean
  BY DEF Next, vars, dataVars, Clean, TxnSaved, BarrierInserted, ListBegins, SledReads, SledDone,
     SqlReads, ListAnswers

\* New transactions only move others back, away from the offset.
LEMMA SavedWalk ==
    ASSUME ScanInv, WalkInv, NEW g \in Gids, NEW status \in Statuses, TxnSaved(g, status)
    PROVE  WalkInv'
  <1>1. /\ UNCHANGED <<store, barriers, filter, offset, limit, pc, cursor, vals, page, seen>>
        /\ \A x \in matching' : x \in matching
        BY DEF TxnSaved, scanVars, walkVars
  <1>2. StoredGids \in SUBSET StoredGids' /\ StoredGids' \in SUBSET Nat
        <2>1. StoredGids \in SUBSET StoredGids'
              BY StoredGrows DEF ScanInv, Next
        <2> QED
            BY <2>1, KeyType DEF StoredGids
  <1>3. Read' = Read
        BY <1>1 DEF Read
  <1>4. \A x \in matching : /\ x \in Nat
                             /\ Rank(StoredGids, x) \in Nat /\ Rank(StoredGids', x) \in Nat
                             /\ Rank(StoredGids, x) <= Rank(StoredGids', x)
        BY <1>2, RankType, RankGrows, KeyType DEF ScanInv, TypeOK
  <1>5. \A x \in matching :
            /\ Cardinality(Between(cursor, x)) \in Nat /\ Cardinality(Between(cursor, x)') \in Nat
            /\ Cardinality(Between(cursor, x)) <= Cardinality(Between(cursor, x)')
        <2> SUFFICES ASSUME NEW x \in matching
                     PROVE  /\ Cardinality(Between(cursor, x)) \in Nat
                            /\ Cardinality(Between(cursor, x)') \in Nat
                            /\ Cardinality(Between(cursor, x)) <= Cardinality(Between(cursor, x)')
            OBVIOUS
        <2> DEFINE S == {y \in StoredGids' : y < x}
        <2>1. IsFiniteSet(S)
              BY <1>2, <1>4, FrontFinite
        <2>2. Between(cursor, x) \in SUBSET Between(cursor, x)' /\ Between(cursor, x)' \in SUBSET S
              BY <1>1, <1>2 DEF Between
        <2> HIDE DEF S
        <2>3. IsFiniteSet(Between(cursor, x)')
              BY <2>1, <2>2, FS_Subset
        <2> QED
            BY <2>2, <2>3, FS_Subset, FS_CardinalityType
  <1>6. offset \in Nat /\ limit \in Nat /\ Cardinality(vals) \in Nat
        BY KeyType, FS_CardinalityType DEF ScanInv, TypeOK
  <1>7. NothingMissed'
        BY <1>1, <1>4, <1>6 DEF WalkInv, NothingMissed
  <1>8. (\A v \in vals : v.gid \in matching =>
            Asked(v.status) /\ (Rank(Read, v.gid) < offset => v.gid \in seen))'
        BY <1>1, <1>3 DEF WalkInv, Asked
  <1>9. (pc = "scanning" /\ store = "sled" => \A x \in matching \ Read :
            /\ cursor < x
            /\ x \in seen \/ offset <= Cardinality(vals) + Cardinality(Between(cursor, x)))'
        BY <1>1, <1>3, <1>5, <1>6 DEF WalkInv
  <1>10. (pc = "scanned" /\ offset + limit < UsizeSize => \A x \in matching \ Read :
            offset + limit <= Rank(StoredGids, x))'
        BY <1>1, <1>3, <1>4, <1>6 DEF WalkInv
  <1> QED
      BY <1>7, <1>8, <1>9, <1>10 DEF WalkInv

\* The iterator is in front of every transaction that must still be seen, and as many
\* transactions as the offset says have been or will be read before it.
LEMMA BeginsWalk ==
    ASSUME ScanInv, WalkInv, NEW n \in Limits, ListBegins(n)
    PROVE  WalkInv'
  <1>1. /\ pc' = "scanning" /\ offset < UsizeSize /\ vals = {} /\ vals' = {} /\ cursor' = 0
        /\ StoredGids' = StoredGids /\ Read' = {} /\ Cardinality(vals') = 0
        /\ UNCHANGED <<store, filter, offset, seen, matching>>
        BY FS_EmptySet DEF ListBegins, dataVars, walkVars, ScanInv, Read, StoredGids
  <1>2. NothingMissed'
        BY <1>1 DEF WalkInv, NothingMissed
  <1>3. ASSUME NEW g \in matching
        PROVE  0 < g /\ (g \in seen \/ offset <= 0 + Cardinality(Between(0, g)))
        <2>1. g \in StoredGids /\ g \in Nat /\ 0 < g
              BY KeyType DEF ScanInv, TypeOK
        <2>2. Between(0, g) = {x \in StoredGids : x < g}
              BY KeyType DEF Between
        <2>3. g \in seen \/ ~(Rank(StoredGids, g) < offset)
              BY <1>1 DEF WalkInv, NothingMissed
        <2>4. offset \in Nat /\ Rank(StoredGids, g) \in Nat
              BY <2>1, KeyType, RankType DEF ScanInv, TypeOK
        <2> QED
            BY <2>1, <2>2, <2>3, <2>4 DEF Rank
  <1>4. \A g \in matching' : Between(cursor, g)' = Between(0, g)
        BY <1>1 DEF Between
  <1> QED
      BY <1>1, <1>2, <1>3, <1>4 DEF WalkInv

\* One transaction less is ahead of the iterator, and one more behind it.
LEMMA ReadWalk ==
    ASSUME ScanInv, WalkInv, SledReads
    PROVE  WalkInv'
  <1>1. /\ store = "sled" /\ pc = "scanning" /\ pc' = "scanning"
        /\ UNCHANGED <<store, txns, limit, filter, offset, seen, matching>>
        /\ StoredGids' = StoredGids
        BY DEF SledReads, dataVars, walkVars, StoredGids
  <1> DEFINE h == cursor'
             new == [gid |-> h, status |-> txns[h]]
  <1>2. /\ Read' = Read \cup {h} /\ vals' = vals \cup {new} /\ new.gid = h /\ new.status = txns[h]
        /\ h \in Ahead /\ \A x \in Ahead : h <= x
        /\ Cardinality(vals') = Cardinality(vals) + 1
        BY ReadScan
  <1> HIDE DEF new, h
  <1>3. /\ h \in StoredGids /\ h \in Nat /\ cursor \in Nat /\ cursor < h
        /\ \A x \in Read : x \in Nat /\ x < h
        <2>1. h \in StoredGids /\ cursor < h /\ h \in Nat
              BY <1>2, KeyType DEF Ahead
        <2>2. cursor \in Nat /\ \A x \in Read : x \in Nat /\ x <= cursor
              BY <1>1, KeyType DEF ScanInv, TypeOK
        <2> QED
            BY <2>1, <2>2
  <1>4. offset \in Nat /\ Cardinality(vals) \in Nat /\ Cardinality(Read) = Cardinality(vals)
        BY ReadCount DEF ScanInv, TypeOK
  <1>5. NothingMissed'
        BY <1>1 DEF WalkInv, NothingMissed
  <1>6. ASSUME NEW v \in vals', v.gid \in matching
        PROVE  Asked(v.status) /\ (Rank(Read', v.gid) < offset => v.gid \in seen)
        <2>1. CASE v = new
              <3>1. h \in matching /\ h \notin Read
                    BY <1>2, <1>3, <1>6, <2>1
              <3>2. Asked(txns[h])
                    BY <3>1 DEF ScanInv
              <3>3. h \in seen \/ offset <= Cardinality(vals) + Cardinality(Between(cursor, h))
                    BY <1>1, <3>1 DEF WalkInv
              <3>4. Cardinality(Between(cursor, h)) = 0
                    <4>1. \A x \in StoredGids : x \in Nat /\ (cursor < x => h <= x)
                          BY <1>2, KeyType DEF Ahead
                    <4>2. \A x \in StoredGids : ~(cursor < x /\ x < h)
                          BY <1>3, <4>1
                    <4>3. Between(cursor, h) = {}
                          BY <4>2 DEF Between
                    <4> QED
                        BY <4>3, FS_EmptySet
              <3>5. Rank(Read', h) = Cardinality(vals)
                    <4>1. {x \in Read' : x < h} = Read
                          BY <1>2, <1>3
                    <4> QED
                        BY <1>4, <4>1 DEF Rank
              <3> QED
                  BY <1>2, <1>4, <2>1, <3>2, <3>3, <3>4, <3>5
        <2>2. CASE v \in vals
              <3>1. v.gid \in Read
                    BY <2>2 DEF Read
              <3>2. {x \in Read' : x < v.gid} = {x \in Read : x < v.gid}
                    BY <1>2, <1>3, <3>1
              <3> QED
                  BY <1>6, <2>2, <3>2 DEF WalkInv, Rank
        <2> QED
            BY <1>2, <2>1, <2>2
  <1>7. ASSUME NEW g \in matching \ Read'
        PROVE  h < g /\ (g \in seen \/ offset <= Cardinality(vals') + Cardinality(Between(h, g)))
        <2>1. g \in StoredGids /\ g \in Nat /\ g # h /\ g \notin Read
              BY <1>2, KeyType DEF ScanInv, TypeOK
        <2>2. cursor < g /\ (g \in seen \/ offset <= Cardinality(vals) + Cardinality(Between(cursor, g)))
              BY <1>1, <2>1 DEF WalkInv
        <2>3. h < g
              BY <1>2, <1>3, <2>1, <2>2 DEF Ahead
        <2>4. /\ Between(h, g) = Between(cursor, g) \ {h}
              /\ h \in Between(cursor, g)
              <3>1. \A x \in StoredGids : x \in Nat /\ (cursor < x => h <= x)
                    BY <1>2, KeyType DEF Ahead
              <3>2. \A x \in StoredGids : h < x <=> cursor < x /\ x # h
                    BY <1>3, <3>1
              <3> QED
                  BY <1>3, <2>3, <3>2 DEF Between
        <2>5. IsFiniteSet(Between(cursor, g)) /\ Cardinality(Between(cursor, g)) \in Nat
              <3> DEFINE S == {x \in StoredGids : x < g}
              <3>1. IsFiniteSet(S)
                    BY <2>1, KeyType, FrontFinite
              <3>2. Between(cursor, g) \in SUBSET S
                    BY DEF Between
              <3> HIDE DEF S
              <3> QED
                  BY <3>1, <3>2, FS_Subset, FS_CardinalityType
        <2>6. Cardinality(Between(h, g)) = Cardinality(Between(cursor, g)) - 1
              BY <2>4, <2>5, FS_RemoveElement
        <2> QED
            BY <1>2, <1>4, <2>2, <2>3, <2>5, <2>6
  <1>8. \A g \in matching' : Between(cursor, g)' = Between(h, g)
        BY <1>1 DEF Between, h
  <1>9. (\A v \in vals : v.gid \in matching =>
            Asked(v.status) /\ (Rank(Read, v.gid) < offset => v.gid \in seen))'
        BY <1>1, <1>6 DEF Asked
  <1>10. (\A g \in matching \ Read :
            /\ cursor < g
            /\ g \in seen \/ offset <= Cardinality(vals) + Cardinality(Between(cursor, g)))'
        BY <1>1, <1>7, <1>8 DEF h
  <1> QED
      BY <1>1, <1>5, <1>9, <1>10 DEF WalkInv

\* The iterator ends when it has read enough, or has nothing ahead.
LEMMA DoneWalk ==
    ASSUME ScanInv, WalkInv, SledDone
    PROVE  WalkInv'
  <1>1. /\ store = "sled" /\ pc = "scanning" /\ pc' = "scanned"
        /\ Cardinality(vals) >= ScanLimit \/ Ahead = {}
        /\ StoredGids' = StoredGids /\ Read' = Read
        /\ UNCHANGED <<store, txns, limit, cursor, vals, filter, offset, seen, matching>>
        BY DEF SledDone, dataVars, walkVars, StoredGids, Read
  <1>2. NothingMissed'
        BY <1>1 DEF WalkInv, NothingMissed
  <1>3. (\A v \in vals : v.gid \in matching =>
            Asked(v.status) /\ (Rank(Read, v.gid) < offset => v.gid \in seen))'
        BY <1>1 DEF WalkInv, Asked
  <1>4. ASSUME offset + limit < UsizeSize, NEW g \in matching \ Read
        PROVE  offset + limit <= Rank(StoredGids, g)
        <2>1. g \in StoredGids /\ g \in Nat /\ cursor < g
              BY <1>1, KeyType DEF ScanInv, TypeOK, WalkInv
        <2>2. Ahead # {}
              BY <2>1 DEF Ahead
        <2>3. offset \in Nat /\ limit \in Nat
              BY KeyType DEF ScanInv, TypeOK
        <2>4. Cardinality(vals) >= offset + limit
              BY <1>1, <1>4, <2>2, <2>3, ScanLimitBounds
        <2>5. Read \in SUBSET {x \in StoredGids : x < g}
              <3>1. cursor \in Nat /\ \A x \in Read : x \in StoredGids /\ x \in Nat /\ x <= cursor
                    BY <1>1, KeyType DEF ScanInv, TypeOK
              <3> QED
                  BY <2>1, <3>1
        <2>6. Cardinality(vals) <= Rank(StoredGids, g)
              <3>1. IsFiniteSet({x \in StoredGids : x < g})
                    BY <2>1, KeyType, FrontFinite
              <3>2. Cardinality(Read) <= Cardinality({x \in StoredGids : x < g})
                    BY <2>5, <3>1, FS_Subset
              <3> QED
                  BY <3>2, ReadCount DEF Rank, ScanInv
        <2> QED
            BY <2>1, <2>3, <2>4, <2>6, ReadCount, RankType, KeyType DEF ScanInv
  <1> QED
      BY <1>1, <1>2, <1>3, <1>4 DEF WalkInv

\* A query of a table without barrier keys returns the first transactions.
LEMMA SelectWalk ==
    ASSUME ScanInv, WalkInv, Clean, SqlReads
    PROVE  WalkInv'
  <1>1. /\ store = "sql" /\ pc = "scanning" /\ pc' = "scanned" /\ barriers = {}
        /\ vals' = {[gid |-> g, status |-> txns[g]] : g \in FirstRows(ScanLimit) \cap Gids}
        /\ StoredGids' = StoredGids /\ offset < UsizeSize
        /\ UNCHANGED <<store, txns, limit, filter, offset, seen, matching>>
        BY DEF SqlReads, dataVars, walkVars, StoredGids, Clean, ScanInv
  <1>2. offset \in Nat /\ limit \in Nat /\ ScanLimit \in Nat
        BY KeyType, ScanLimitBounds DEF ScanInv, TypeOK
  <1>3. Read' = {g \in StoredGids : Rank(StoredGids, g) < ScanLimit}
        <2>1. Read' = FirstRows(ScanLimit) \cap Gids
              BY SelectScan
        <2>2. StoredGids \cup barriers = StoredGids
              BY <1>1
        <2> QED
            BY <2>1, <2>2, KeyType DEF FirstRows
  <1>4. NothingMissed'
        BY <1>1 DEF WalkInv, NothingMissed
  <1>5. ASSUME NEW v \in vals', v.gid \in matching
        PROVE  Asked(v.status) /\ (Rank(Read', v.gid) < offset => v.gid \in seen)
        <2>1. PICK g \in FirstRows(ScanLimit) \cap Gids : v = [gid |-> g, status |-> txns[g]]
              BY <1>1
        <2>2. g \in Read' /\ g \in matching /\ v.gid = g /\ v.status = txns[g]
              BY <1>5, <2>1, SelectScan
        <2>3. g \in StoredGids /\ g \in Nat /\ Rank(StoredGids, g) < ScanLimit
              BY <1>3, <2>2, KeyType
        <2>4. ASSUME NEW x \in StoredGids, x < g PROVE x \in Read'
              <3>1. Rank(StoredGids, x) < Rank(StoredGids, g)
                    BY <2>3, <2>4, KeyType, RankOrder
              <3>2. Rank(StoredGids, x) \in Nat /\ Rank(StoredGids, g) \in Nat
                    BY <2>3, KeyType, RankType
              <3> QED
                  BY <1>2, <1>3, <2>3, <3>1, <3>2
        <2>5. {x \in Read' : x < g} = {x \in StoredGids : x < g}
              BY <1>3, <2>4
        <2> QED
            BY <1>1, <2>2, <2>3, <2>5 DEF ScanInv, WalkInv, NothingMissed, Rank
  <1>6. ASSUME offset + limit < UsizeSize, NEW g \in matching \ Read'
        PROVE  offset + limit <= Rank(StoredGids, g)
        <2>1. g \in StoredGids /\ Rank(StoredGids, g) \in Nat
              BY KeyType, RankType DEF ScanInv, TypeOK
        <2>2. ScanLimit = offset + limit
              BY <1>2, <1>6, ScanLimitBounds
        <2> QED
            BY <1>2, <1>3, <2>1, <2>2
  <1>7. (\A v \in vals : v.gid \in matching =>
            Asked(v.status) /\ (Rank(Read, v.gid) < offset => v.gid \in seen))'
        BY <1>1, <1>5 DEF Asked
  <1> QED
      BY <1>1, <1>4, <1>6, <1>7 DEF WalkInv

\* What is between offset and offset + limit is on the page.
LEMMA AnswersWalk ==
    ASSUME ScanInv, WalkInv, ListAnswers
    PROVE  WalkInv'
  <1>1. /\ pc = "scanned" /\ pc' = "idle" /\ vals' = {} /\ offset' = offset + limit
        /\ seen' = seen \cup {v.gid : v \in Page} /\ matching' = matching
        /\ StoredGids' = StoredGids
        BY DEF ListAnswers, dataVars, StoredGids
  <1>2. ASSUME offset + limit < UsizeSize, NEW g \in matching,
               Rank(StoredGids, g) < offset + limit
        PROVE  g \in seen'
        <2>1. offset \in Nat /\ limit \in Nat /\ g \in Nat /\ Rank(StoredGids, g) \in Nat
              BY KeyType, RankType DEF ScanInv, TypeOK
        <2>2. g \in Read
              BY <1>1, <1>2, <2>1 DEF WalkInv
        <2>3. PICK v \in vals : v.gid = g
              BY <2>2 DEF Read
        <2>4. CASE Rank(Read, g) < offset
              BY <1>1, <2>3, <2>4 DEF WalkInv
        <2>5. CASE ~(Rank(Read, g) < offset)
              <3>1. Rank(Read, g) >= offset
                    BY <2>1, <2>5, ReadCount, RankType DEF ScanInv
              <3>2. v \in Page
                    BY <2>3, <3>1 DEF WalkInv, Page
              <3> QED
                  BY <1>1, <2>3, <3>2
        <2> QED
            BY <2>4, <2>5
  <1>3. NothingMissed'
        BY <1>1, <1>2 DEF NothingMissed
  <1> QED
      BY <1>1, <1>3 DEF WalkInv

LEMMA ListingNext == ListingInv /\ [Next]_vars => ListingInv'
  <1> SUFFICES ASSUME ListingInv, [Next]_vars PROVE ListingInv'
      OBVIOUS
  <1>1. ScanInv' /\ PageFits'
        BY ScanNext DEF ListingInv
  <1>2. ASSUME Clean' PROVE WalkInv'
        <2>1. ScanInv /\ Clean /\ WalkInv
              BY <1>2, CleanBefore DEF ListingInv
        <2>2. ASSUME NEW k \in BarrierKeys, BarrierInserted(k) PROVE FALSE
              BY <1>2, <2>2 DEF Clean, BarrierInserted
        <2>3. CASE UNCHANGED vars
              BY <2>1, <2>3 DEF vars, dataVars, scanVars, walkVars, WalkInv, NothingMissed,
                 StoredGids, Read, Between, Asked
        <2> QED
            BY <2>1, <2>2, <2>3, SavedWalk, BeginsWalk, ReadWalk, DoneWalk, SelectWalk,
               AnswersWalk DEF Next
  <1> QED
      BY <1>1, <1>2 DEF ListingInv

-----------------------------------------------------------------------------
(* Theorems.                                                               *)

\* Every variable of the walk keeps its type, and no scan returns a transaction
\* twice, whatever is saved while the iterator goes on.
THEOREM ListingTypeCorrect == Spec => []TypeOK
  <1>1. ListingInv => TypeOK
        BY DEF ListingInv, ScanInv
  <1> QED
      BY <1>1, ListingInit, ListingNext, PTL DEF Spec

\* For any page sizes and any size of usize, no page is longer than its limit.
THEOREM PagesFit == Spec => []PageFits
  <1>1. ListingInv => PageFits
        BY DEF ListingInv
  <1> QED
      BY <1>1, ListingInit, ListingNext, PTL DEF Spec

\* For any transactions, page sizes and filters, a client that walks through the list
\* misses nothing that was there and matched all along; over SQL as long as no
\* barrier key is stored.
THEOREM WalksComplete == Spec => []WalkComplete
  <1>1. ListingInv => WalkComplete
        BY DEF ListingInv, WalkInv, Clean, WalkComplete
  <1> QED
      BY <1>1, ListingInit, ListingNext, PTL DEF Spec

=============================================================================
