-------------------------- MODULE ListPagingProofs ---------------------------
(***************************************************************************)
(* For any tenders, limits and numbers of rows: a caller that pages        *)
(* through a tender while nothing is revoked is shown every row that was   *)
(* live when it began, if no two rows share their created_at.              *)
(***************************************************************************)
EXTENDS ListPaging, EntryTableProofs, FiniteSetTheorems, FunctionTheorems

\* The number of listed rows that come before row i.
Before(tenant, tender, i) ==
    Cardinality({j \in Ids(tenant, tender) : created[j] < created[i]})

\* As long as nothing is revoked, the rows of the start stay listed, and one
\* that has not been shown is still ahead of the caller.
PagingOK ==
    scan # Idle /\ scan.quiet =>
        /\ scan.start \subseteq Ids(scan.tenant, scan.tender)
        /\ DistinctTimes => \A i \in scan.start \ scan.seen :
              ~scan.done /\ scan.offset <= Before(scan.tenant, scan.tender, i)

RowIds == {r.id : r \in rows}

ScanType == [tenant : Tenants, tender : Tenders, limit : Windows,
             offset : Nat, start : SUBSET RowIds, seen : SUBSET RowIds,
             quiet : BOOLEAN, done : BOOLEAN]

LInv ==
    /\ rows \in SUBSET Rows
    /\ IsFiniteSet(rows)
    /\ TableOK(rows, Cardinality(rows))
    /\ created \in [0..(MaxRows - 1) -> 0..now]
    /\ now \in 0..MaxTime
    /\ Cardinality(rows) <= MaxRows
    /\ scan # Idle => scan \in ScanType
    /\ PagingOK

-----------------------------------------------------------------------------
(* Facts about the order and the pages.                                     *)

\* The elements of S whose place in f is from a up to but not including b.
Segment(S, f, a, b) == {i \in S : a <= f[i] /\ f[i] < b}

\* A part of a bijection onto an initial segment counts what it covers.
LEMMA SegmentCount ==
  ASSUME NEW S, NEW n \in Nat, NEW f \in Bijection(S, 0..(n - 1)),
         NEW a \in 0..n, NEW b \in a..n
  PROVE  IsFiniteSet(Segment(S, f, a, b)) /\ Cardinality(Segment(S, f, a, b)) = b - a
  <1> DEFINE T == {i \in S : a <= f[i] /\ f[i] < b}
             U == a..(b - 1)
             g == [i \in T |-> f[i]]
  <1>1. /\ f \in [S -> 0..(n - 1)]
        /\ \A i, j \in S : f[i] = f[j] => i = j
        /\ \A k \in 0..(n - 1) : \E i \in S : f[i] = k
    BY DEF Bijection, Injection, Surjection, IsInjective
  <1>2. g \in [T -> U]
    BY <1>1
  <1>3. \A i, j \in T : g[i] = g[j] => i = j
    BY <1>1
  <1>4. \A k \in U : \E i \in T : g[i] = k
    <2> SUFFICES ASSUME NEW k \in U PROVE \E i \in T : g[i] = k
      OBVIOUS
    <2>1. k \in 0..(n - 1) /\ a <= k /\ k < b
      OBVIOUS
    <2>2. PICK i \in S : f[i] = k
      BY <1>1, <2>1
    <2> QED
      BY <2>1, <2>2
  <1> HIDE DEF g
  <1>5. g \in Bijection(T, U)
    BY <1>2, <1>3, <1>4 DEF Bijection, Injection, Surjection, IsInjective
  <1>6. IsFiniteSet(U) /\ Cardinality(U) = b - a
    <2> DEFINE c == b - 1
    <2>1. a \in Int /\ c \in Int /\ (IF a > c THEN 0 ELSE c - a + 1) = b - a
      OBVIOUS
    <2> HIDE DEF c
    <2>2. IsFiniteSet(a..c) /\ Cardinality(a..c) = b - a
      BY <2>1, FS_Interval, Zenon
    <2> QED
      BY <2>2 DEF c
  <1>7. ExistsBijection(U, T)
    <2> HIDE DEF T, U
    <2>1. ExistsBijection(T, U)
      BY <1>5 DEF ExistsBijection
    <2> QED
      BY <2>1, Fun_ExistsBijSymmetric
  <1> HIDE DEF T, U
  <1>8. IsFiniteSet(T) /\ Cardinality(T) = b - a
    BY <1>6, <1>7, FS_Bijection
  <1> QED
    BY <1>8 DEF T, Segment

\* The ids of a table are below the next one.
LEMMA TableIds ==
  ASSUME NEW t \in SUBSET Rows, NEW n \in Nat, TableOK(t, n), NEW S \in SUBSET t
  PROVE  IsFiniteSet({r.id : r \in S}) /\ {r.id : r \in S} \subseteq 0..(n - 1)
  <1> DEFINE I == {r.id : r \in S}
  <1>1. I \in SUBSET (0..(n - 1))
    BY DEF TableOK, Rows
  <1>2. 0 \in Int /\ n - 1 \in Int
    OBVIOUS
  <1>3. IsFiniteSet(0..(n - 1))
    BY <1>2, FS_Interval
  <1> HIDE DEF I
  <1>4. IsFiniteSet(I)
    BY <1>1, <1>3, FS_Subset, Zenon
  <1> QED
    BY <1>1, <1>4 DEF I

\* So are those of the listed rows, of which there are finitely many.
LEMMA IdsFinite ==
  ASSUME LInv, NEW tenant, NEW tender
  PROVE  /\ IsFiniteSet(Ids(tenant, tender)) /\ Ids(tenant, tender) \subseteq RowIds
         /\ RowIds \subseteq 0..(MaxRows - 1)
  <1>1. /\ Cardinality(rows) \in Nat /\ Cardinality(rows) <= MaxRows /\ MaxRows \in Nat
        /\ rows \in SUBSET Rows /\ TableOK(rows, Cardinality(rows))
    BY FS_CardinalityType, WindowAssumption DEF LInv
  <1>2. Listed(rows, tenant, tender) \in SUBSET rows /\ rows \in SUBSET rows
    BY DEF Listed
  <1>3. IsFiniteSet(Ids(tenant, tender))
    BY <1>1, <1>2, TableIds, Zenon DEF Ids
  <1>4. RowIds \subseteq 0..(Cardinality(rows) - 1)
    BY <1>1, <1>2, TableIds, Zenon DEF RowIds
  <1>5. 0..(Cardinality(rows) - 1) \subseteq 0..(MaxRows - 1)
    BY <1>1
  <1>6. Ids(tenant, tender) \subseteq RowIds
    BY <1>2 DEF Ids, RowIds
  <1> QED
    BY <1>3, <1>4, <1>5, <1>6

\* created_at is a time.
LEMMA CreatedNat ==
  ASSUME LInv, NEW i \in RowIds
  PROVE  created[i] \in Nat
  <1>1. i \in 0..(MaxRows - 1)
    BY IdsFinite
  <1> QED
    BY <1>1 DEF LInv

\* When no two rows share their created_at, the place of a row in the order
\* is the number of rows before it.
LEMMA OrderPlace ==
  ASSUME LInv, DistinctTimes, NEW tenant, NEW tender,
         NEW f \in Orders(Ids(tenant, tender)), NEW i \in Ids(tenant, tender)
  PROVE  f[i] = Before(tenant, tender, i)
  <1> DEFINE S == Ids(tenant, tender)
             n == Cardinality(S)
  <1>1. IsFiniteSet(S) /\ n \in Nat /\ S \subseteq RowIds
    BY IdsFinite, FS_CardinalityType
  <1>2. /\ f \in Bijection(S, 0..(n - 1))
        /\ \A j, k \in S : created[j] < created[k] => f[j] < f[k]
    BY DEF Orders
  <1>3. f \in [S -> 0..(n - 1)]
    BY <1>2 DEF Bijection, Injection
  <1>4. \A j \in S : j # i => created[j] # created[i]
    BY DEF DistinctTimes, Ids, Listed
  <1>5. \A j \in S : created[j] \in Nat
    BY <1>1, CreatedNat
  <1> HIDE DEF S
  <1>6. i \in S
    BY DEF S
  <1>7. \A j \in S : created[j] < created[i] <=> 0 <= f[j] /\ f[j] < f[i]
    <2> SUFFICES ASSUME NEW j \in S
                 PROVE  created[j] < created[i] <=> 0 <= f[j] /\ f[j] < f[i]
      OBVIOUS
    <2>1. f[j] \in Nat /\ f[i] \in Nat
      BY <1>3, <1>6
    <2>2. CASE j = i
      BY <1>5, <1>6, <2>1, <2>2
    <2>3. CASE j # i
      <3>1. created[j] < created[i] \/ created[i] < created[j]
        BY <1>4, <1>5, <1>6, <2>3
      <3> QED
        BY <1>2, <1>5, <1>6, <2>1, <3>1
    <2> QED
      BY <2>2, <2>3
  <1> DEFINE T == Segment(S, f, 0, f[i])
  <1>8. Cardinality(T) = f[i] - 0
    <2>1. 0 \in 0..n /\ f[i] \in 0..n
      BY <1>1, <1>3, <1>6
    <2> HIDE DEF n
    <2> QED
      BY <1>1, <1>2, <2>1, SegmentCount
  <1>9. T = {j \in S : created[j] < created[i]}
    BY <1>7 DEF Segment
  <1>10. f[i] \in Nat
    BY <1>3, <1>6
  <1> HIDE DEF T
  <1> QED
    BY <1>8, <1>9, <1>10 DEF Before, S

\* The limit a caller advances by is at least one.
LEMMA LimitNat ==
  ASSUME NEW asked \in Windows
  PROVE  Limit(asked) \in Nat /\ EchoedLimit(asked) = Limit(asked)
  BY LimitAssumption, WindowAssumption DEF Limit, EchoedLimit

\* A page that ends before the last row is full.
LEMMA FullPage ==
  ASSUME NEW S, IsFiniteSet(S), NEW f \in Orders(S), NEW i \in S,
         NEW offset \in Nat, NEW limit \in Nat, offset + limit <= f[i]
  PROVE  Cardinality(Segment(S, f, offset, offset + limit)) = limit
  <1> DEFINE n == Cardinality(S)
             b == offset + limit
  <1>1. n \in Nat /\ f \in Bijection(S, 0..(n - 1))
    BY FS_CardinalityType DEF Orders
  <1>2. f[i] \in 0..(n - 1)
    BY <1>1 DEF Bijection, Injection
  <1>3. offset \in 0..n /\ b \in offset..n /\ b - offset = limit
    BY <1>1, <1>2
  <1> HIDE DEF n, b
  <1>4. Cardinality(Segment(S, f, offset, b)) = b - offset
    BY <1>1, <1>3, SegmentCount
  <1> QED
    BY <1>3, <1>4 DEF b

-----------------------------------------------------------------------------
(* The steps.                                                                *)

\* A grant adds a row with a new id, and its created_at.
LEMMA GrantAdds ==
  ASSUME LInv, NEW k \in Keys, NEW level \in Levels, Grant(k, level)
  PROVE  /\ rows' \in SUBSET Rows /\ IsFiniteSet(rows')
         /\ TableOK(rows, Cardinality(rows))' /\ Cardinality(rows)' <= MaxRows
         /\ rows \subseteq rows' /\ UNCHANGED <<now, scan>>
         /\ created' \in [0..(MaxRows - 1) -> 0..now]
         /\ \A i \in RowIds : created'[i] = created[i]
  <1> DEFINE n == Cardinality(rows)
             r == Inserted(n, k, level, NoExpiry)
  <1>1. /\ n \in Nat /\ n < MaxRows /\ MaxRows \in Nat /\ NoExpiry \in Expiries
        /\ ~Blocked(rows, k) /\ rows' = rows \cup {r}
    BY FS_CardinalityType, WindowAssumption DEF LInv, Grant, Expiries
  <1>2. r \in Rows /\ r.id = n
    BY <1>1, InsertedType DEF Inserted
  <1>3. r \notin rows
    BY <1>1, <1>2 DEF LInv, TableOK
  <1>4. IsFiniteSet(rows') /\ Cardinality(rows') = n + 1
    BY <1>1, <1>3, FS_AddElement DEF LInv
  <1>5. TableOK(rows \cup {r}, n + 1)
    BY <1>1, InsertKeepsTable, Zenon DEF LInv
  <1>6. TableOK(rows, Cardinality(rows))'
    BY <1>1, <1>4, <1>5
  <1>7. PICK t \in 0..now : created' = [created EXCEPT ![n] = t]
    BY Zenon DEF Grant
  <1>8. created' \in [0..(MaxRows - 1) -> 0..now]
    BY <1>7, Zenon DEF LInv
  <1>9. \A i \in RowIds : i # n
    BY <1>1 DEF RowIds, LInv, TableOK
  <1>10. \A i \in RowIds : i \in 0..(MaxRows - 1)
    BY IdsFinite
  <1>11. \A i \in RowIds : created'[i] = created[i]
    BY <1>7, <1>9, <1>10 DEF LInv
  <1>12. rows' \in SUBSET Rows /\ rows \subseteq rows'
    BY <1>1, <1>2 DEF LInv
  <1> QED
    BY <1>1, <1>4, <1>6, <1>8, <1>11, <1>12 DEF Grant

\* A late grant may push a row further back, never forward.
LEMMA GrantPushesBack ==
  ASSUME LInv, NEW k \in Keys, NEW level \in Levels, Grant(k, level),
         NEW tenant, NEW tender
  PROVE  /\ Ids(tenant, tender) \subseteq Ids(tenant, tender)'
         /\ \A i \in Ids(tenant, tender) :
               /\ Before(tenant, tender, i) \in Nat
               /\ Before(tenant, tender, i)' \in Nat
               /\ Before(tenant, tender, i) <= Before(tenant, tender, i)'
  <1>1. /\ rows' \in SUBSET Rows /\ IsFiniteSet(rows') /\ rows \subseteq rows'
        /\ TableOK(rows', Cardinality(rows'))
        /\ \A i \in RowIds : created'[i] = created[i]
    BY GrantAdds
  <1>2. Ids(tenant, tender) \subseteq Ids(tenant, tender)'
    BY <1>1 DEF Ids, Listed
  <1>3. IsFiniteSet(Ids(tenant, tender)')
    <2>1. Listed(rows', tenant, tender) \in SUBSET rows' /\ Cardinality(rows') \in Nat
      BY <1>1, FS_CardinalityType DEF Listed
    <2> QED
      BY <1>1, <2>1, TableIds, Zenon DEF Ids
  <1>4. Ids(tenant, tender) \subseteq RowIds
    BY IdsFinite
  <1>5. ASSUME NEW i \in Ids(tenant, tender)
        PROVE  /\ Before(tenant, tender, i) \in Nat
               /\ Before(tenant, tender, i)' \in Nat
               /\ Before(tenant, tender, i) <= Before(tenant, tender, i)'
    <2> DEFINE S == {j \in Ids(tenant, tender) : created[j] < created[i]}
               T == {j \in Ids(tenant, tender)' : created'[j] < created'[i]}
    <2>1. S \in SUBSET T /\ T \in SUBSET (Ids(tenant, tender)')
      BY <1>1, <1>2, <1>4
    <2>2. Before(tenant, tender, i) = Cardinality(S)
      BY DEF Before
    <2>3. Before(tenant, tender, i)' = Cardinality(T)
      BY DEF Before
    <2> HIDE DEF S, T
    <2>4. IsFiniteSet(T)
      BY <1>3, <2>1, FS_Subset
    <2>5. IsFiniteSet(S) /\ Cardinality(S) <= Cardinality(T)
      BY <2>1, <2>4, FS_Subset
    <2>6. Cardinality(S) \in Nat /\ Cardinality(T) \in Nat
      BY <2>4, <2>5, FS_CardinalityType
    <2> QED
      BY <2>2, <2>3, <2>5, <2>6
  <1> QED
    BY <1>2, <1>5

\* A grant keeps the invariant.
LEMMA GrantKeeps ==
  ASSUME LInv, NEW k \in Keys, NEW level \in Levels, Grant(k, level)
  PROVE  LInv'
  <1>1. /\ rows' \in SUBSET Rows /\ IsFiniteSet(rows')
        /\ TableOK(rows, Cardinality(rows))' /\ Cardinality(rows)' <= MaxRows
        /\ rows \subseteq rows' /\ UNCHANGED <<now, scan>>
        /\ created' \in [0..(MaxRows - 1) -> 0..now]
        /\ \A i \in RowIds : created'[i] = created[i]
    BY GrantAdds
  <1>2. RowIds \subseteq RowIds'
    BY <1>1 DEF RowIds
  <1>3. (scan # Idle => scan \in ScanType)'
    <2>1. ScanType \subseteq ScanType'
      BY <1>2 DEF ScanType
    <2> QED
      BY <1>1, <2>1 DEF LInv
  <1>4. DistinctTimes' => DistinctTimes
    BY <1>1 DEF DistinctTimes, RowIds
  <1>5. PagingOK'
    <2> SUFFICES ASSUME scan # Idle, scan.quiet
                 PROVE  /\ scan.start \subseteq Ids(scan.tenant, scan.tender)'
                        /\ DistinctTimes' => \A i \in scan.start \ scan.seen :
                              /\ ~scan.done
                              /\ scan.offset <= Before(scan.tenant, scan.tender, i)'
      BY <1>1, Zenon DEF PagingOK, Ids, Before
    <2>1. PICK tenant, tender : tenant = scan.tenant /\ tender = scan.tender
      OBVIOUS
    <2>2. /\ scan.start \subseteq Ids(tenant, tender)
          /\ DistinctTimes => \A i \in scan.start \ scan.seen :
                ~scan.done /\ scan.offset <= Before(tenant, tender, i)
      BY <2>1 DEF LInv, PagingOK
    <2>3. scan.offset \in Nat
      BY DEF LInv, ScanType
    <2>4. /\ scan.start \subseteq Ids(tenant, tender)'
          /\ DistinctTimes' => \A i \in scan.start \ scan.seen :
                ~scan.done /\ scan.offset <= Before(tenant, tender, i)'
      BY <1>4, <2>2, <2>3, GrantPushesBack
    <2>5. /\ Ids(scan.tenant, scan.tender)' = Ids(tenant, tender)'
          /\ \A i : Before(scan.tenant, scan.tender, i)' = Before(tenant, tender, i)'
      BY <1>1, <2>1 DEF Ids, Before
    <2> QED
      BY <2>4, <2>5
  <1> QED
    BY <1>1, <1>3, <1>5 DEF LInv

\* A revoke keeps the invariant: it keeps the ids, and the caller no longer
\* pages undisturbed.
LEMMA RevokeKeeps ==
  ASSUME LInv, NEW r \in rows, Revoke(r)
  PROVE  LInv'
  <1>1. /\ rows \in SUBSET Rows /\ IsFiniteSet(rows) /\ Cardinality(rows) \in Nat
        /\ TableOK(rows, Cardinality(rows)) /\ {r} \in SUBSET rows /\ ~r.deleted
        /\ rows' = SoftDelete(rows, {r}) /\ UNCHANGED <<created, now>>
    BY FS_CardinalityType DEF LInv, Revoke, RevokeMatches
  <1>2. rows' \in SUBSET Rows
    BY <1>1, SoftDeleteType
  <1>3. IsFiniteSet(rows') /\ Cardinality(rows') = Cardinality(rows)
    <2>1. \A q, s \in rows : q.id = s.id => q = s
      BY <1>1 DEF TableOK
    <2>2. PICK f \in [rows -> SoftDelete(rows, {r})] :
            /\ \A q, s \in rows : f[q] = f[s] => q = s
            /\ \A s \in SoftDelete(rows, {r}) : \E q \in rows : f[q] = s
      BY <1>1, <2>1, SoftDeleteOneToOne, ZenonT(60)
    <2>3. f \in Bijection(rows, rows')
      BY <1>1, <2>2, Zenon DEF Bijection, Injection, Surjection, IsInjective
    <2> QED
      BY <1>1, <2>3, FS_Bijection DEF ExistsBijection
  <1>4. TableOK(rows', Cardinality(rows'))
    <2>1. \A q \in {r} : ~q.deleted
      BY <1>1
    <2>2. TableOK(SoftDelete(rows, {r}), Cardinality(rows))
      BY <1>1, <2>1, SoftDeleteKeepsTable
    <2> QED
      BY <1>1, <1>3, <2>2
  <1>5. RowIds \subseteq RowIds'
    <2>1. SoftDeleted(r).id = r.id
      BY <1>1, SoftDeletedRow, Zenon
    <2> QED
      BY <1>1, <2>1 DEF RowIds, SoftDelete
  <1>6. scan' # Idle => scan' \in ScanType' /\ ~scan'.quiet
    <2> SUFFICES ASSUME scan' # Idle PROVE scan' \in ScanType' /\ ~scan'.quiet
      OBVIOUS
    <2>1. scan' = [scan EXCEPT !.quiet = FALSE] /\ scan \in ScanType
      BY DEF Revoke, LInv
    <2>2. scan' \in ScanType /\ scan'.quiet = FALSE
      BY <2>1, Zenon DEF ScanType
    <2>3. ScanType \subseteq ScanType'
      BY <1>5 DEF ScanType
    <2> QED
      BY <2>2, <2>3
  <1>7. PagingOK'
    BY <1>6 DEF PagingOK
  <1> QED
    BY <1>1, <1>2, <1>3, <1>4, <1>6, <1>7, Zenon DEF LInv

\* A new scan has every row ahead of it.
LEMMA StartKeeps ==
  ASSUME LInv, NEW tenant \in Tenants, NEW tender \in Tenders,
         NEW asked \in Windows, StartScan(tenant, tender, asked)
  PROVE  LInv'
  <1>1. UNCHANGED <<rows, created, now>>
    BY DEF StartScan
  <1>2. Ids(tenant, tender) \subseteq RowIds /\ IsFiniteSet(Ids(tenant, tender))
    BY IdsFinite
  <1>3. /\ scan'.tenant = tenant /\ scan'.tender = tender /\ scan'.offset = 0
        /\ scan'.start = Ids(tenant, tender) /\ scan'.done = FALSE
    BY DEF StartScan
  <1>4. scan' \in ScanType'
    BY <1>1, <1>2 DEF StartScan, ScanType, RowIds
  <1>5. \A i : Before(tenant, tender, i) \in Nat
    <2> TAKE i
    <2> DEFINE S == {j \in Ids(tenant, tender) : created[j] < created[i]}
    <2>1. S \in SUBSET Ids(tenant, tender)
      OBVIOUS
    <2>2. Before(tenant, tender, i) = Cardinality(S)
      BY DEF Before
    <2> HIDE DEF S
    <2> QED
      BY <1>2, <2>1, <2>2, FS_Subset, FS_CardinalityType
  <1>6. /\ Ids(scan.tenant, scan.tender)' = Ids(tenant, tender)
        /\ \A i : Before(scan.tenant, scan.tender, i)' = Before(tenant, tender, i)
    BY <1>1, <1>3 DEF Ids, Before
  <1>7. PagingOK'
    BY <1>3, <1>5, <1>6 DEF PagingOK
  <1> QED
    BY <1>1, <1>4, <1>7 DEF LInv, RowIds

\* A page shows what its window covers; what it leaves out lies behind the
\* window, and then the page is full.
LEMMA PageCovers ==
  ASSUME LInv, NEW tenant, NEW tender, NEW limit \in Nat, NEW offset \in Nat,
         NEW page \in Pages(tenant, tender, limit, offset)
  PROVE  /\ page \subseteq Ids(tenant, tender)
         /\ DistinctTimes => \A i \in Ids(tenant, tender) \ page :
               offset <= Before(tenant, tender, i) =>
                  /\ offset + limit <= Before(tenant, tender, i)
                  /\ Cardinality(page) = limit
  <1> DEFINE S == Ids(tenant, tender)
  <1>1. IsFiniteSet(S) /\ Cardinality(S) \in Nat
    BY IdsFinite, FS_CardinalityType
  <1>2. PICK f \in Orders(S) :
          page = {i \in DOMAIN f : offset <= f[i] /\ f[i] < offset + limit}
    BY DEF Pages
  <1>3. f \in [S -> 0..(Cardinality(S) - 1)]
    BY DEF Orders, Bijection, Injection
  <1>4. page = Segment(S, f, offset, offset + limit)
    BY <1>2, <1>3 DEF Segment
  <1>5. page \subseteq S
    BY <1>4 DEF Segment
  <1>6. ASSUME DistinctTimes, NEW i \in S \ page, offset <= Before(tenant, tender, i)
        PROVE  /\ offset + limit <= Before(tenant, tender, i)
               /\ Cardinality(page) = limit
    <2>1. f[i] = Before(tenant, tender, i)
      BY <1>6, OrderPlace
    <2>2. f[i] \in Nat
      BY <1>3, <1>1
    <2>3. offset + limit <= f[i]
      BY <1>2, <1>3, <1>6, <2>1, <2>2
    <2> HIDE DEF S
    <2>4. Cardinality(page) = limit
      BY <1>1, <1>4, <1>6, <2>3, FullPage
    <2> QED
      BY <2>1, <2>3, <2>4
  <1> QED
    BY <1>5, <1>6

\* A TAC-1 call keeps the invariant.
LEMMA ListKeeps ==
  ASSUME LInv, List
  PROVE  LInv'
  <1>1. UNCHANGED <<rows, created, now>> /\ scan # Idle /\ ~scan.done /\ scan \in ScanType
    BY DEF List, LInv
  <1>2. PICK tenant, tender, limit, offset :
          /\ tenant = scan.tenant /\ tender = scan.tender
          /\ limit = Limit(scan.limit) /\ offset = scan.offset
    OBVIOUS
  <1>3. limit \in Nat /\ limit = EchoedLimit(scan.limit) /\ offset \in Nat
    BY <1>1, <1>2, LimitNat DEF ScanType
  <1>4. PICK page \in Pages(tenant, tender, limit, offset) :
          scan' = [scan EXCEPT !.offset = scan.offset + limit,
                               !.seen = scan.seen \cup page,
                               !.done = Cardinality(page) < limit]
    BY <1>2, <1>3, Zenon DEF List
  <1>5. /\ page \subseteq Ids(tenant, tender)
        /\ DistinctTimes => \A i \in Ids(tenant, tender) \ page :
              offset <= Before(tenant, tender, i) =>
                 /\ offset + limit <= Before(tenant, tender, i)
                 /\ Cardinality(page) = limit
    BY <1>3, PageCovers
  <1>6. Ids(tenant, tender) \subseteq RowIds
    BY IdsFinite
  <1>7. /\ scan' \in ScanType /\ scan'.tenant = tenant /\ scan'.tender = tender
        /\ scan'.start = scan.start /\ scan'.seen = scan.seen \cup page
        /\ scan'.offset = offset + limit /\ scan'.quiet = scan.quiet
        /\ scan'.done = (Cardinality(page) < limit)
    <2>1. PICK o, seen, b : /\ o = scan.offset + limit /\ seen = scan.seen \cup page
                            /\ b = (Cardinality(page) < limit)
      BY Zenon
    <2>2. o \in Nat /\ b \in BOOLEAN
      BY <1>2, <1>3, <2>1
    <2>3. seen \in SUBSET RowIds
      BY <1>1, <1>5, <1>6, <2>1 DEF ScanType
    <2>4. scan' = [scan EXCEPT !.offset = o, !.seen = seen, !.done = b]
      BY <1>4, <2>1
    <2>5. /\ scan' \in ScanType /\ scan'.tenant = scan.tenant /\ scan'.tender = scan.tender
          /\ scan'.start = scan.start /\ scan'.seen = seen /\ scan'.offset = o
          /\ scan'.quiet = scan.quiet /\ scan'.done = b
      BY <1>1, <2>2, <2>3, <2>4, ZenonT(60) DEF ScanType
    <2> QED
      BY <1>2, <2>1, <2>5
  <1>8. scan' \in ScanType'
    BY <1>1, <1>7 DEF ScanType, RowIds
  <1>9. /\ Ids(scan.tenant, scan.tender)' = Ids(tenant, tender)
        /\ \A i : Before(scan.tenant, scan.tender, i)' = Before(tenant, tender, i)
        /\ DistinctTimes' = DistinctTimes
    BY <1>1, <1>7 DEF Ids, Before, DistinctTimes
  <1>10. ASSUME scan.quiet
         PROVE  /\ scan.start \subseteq Ids(tenant, tender)
                /\ DistinctTimes => \A i \in scan.start \ scan.seen :
                      offset <= Before(tenant, tender, i)
    BY <1>1, <1>2, <1>10 DEF LInv, PagingOK
  <1>11. PagingOK'
    <2> SUFFICES ASSUME scan.quiet
                 PROVE  /\ scan.start \subseteq Ids(tenant, tender)
                        /\ DistinctTimes => \A i \in scan.start \ (scan.seen \cup page) :
                              /\ ~(Cardinality(page) < limit)
                              /\ offset + limit <= Before(tenant, tender, i)
      BY <1>7, <1>9, Zenon DEF PagingOK
    <2> QED
      BY <1>3, <1>5, <1>10
  <1> QED
    BY <1>1, <1>8, <1>11 DEF LInv, RowIds

\* Time passes.
LEMMA TickKeeps ==
  ASSUME LInv, Tick
  PROVE  LInv'
  <1>1. UNCHANGED <<rows, created, scan>> /\ now' \in 0..MaxTime /\ 0..now \subseteq 0..now'
    BY WindowAssumption DEF LInv, Tick
  <1>2. created' \in [0..(MaxRows - 1) -> 0..now']
    BY <1>1 DEF LInv
  <1>3. ScanType' = ScanType /\ PagingOK' = PagingOK
    BY <1>1 DEF ScanType, RowIds, PagingOK, DistinctTimes, Ids, Before
  <1> QED
    BY <1>1, <1>2, <1>3 DEF LInv

-----------------------------------------------------------------------------
\* The invariant holds initially.
LEMMA LInit == Init => LInv
  <1> SUFFICES ASSUME Init PROVE LInv
    OBVIOUS
  <1>1. IsFiniteSet(rows) /\ Cardinality(rows) = 0
    BY FS_EmptySet DEF Init
  <1>2. TableOK(rows, Cardinality(rows))
    BY DEF Init, TableOK
  <1> QED
    BY <1>1, <1>2, WindowAssumption DEF Init, LInv, PagingOK

\* Every step keeps it.
LEMMA LNext == LInv /\ [Next]_vars => LInv'
  <1> SUFFICES ASSUME LInv, [Next]_vars PROVE LInv'
    OBVIOUS
  <1>1. CASE \E k \in Keys, level \in Levels : Grant(k, level)
    BY <1>1, GrantKeeps
  <1>2. CASE \E r \in rows : Revoke(r)
    BY <1>2, RevokeKeeps
  <1>3. CASE \E tenant \in Tenants, tender \in Tenders, asked \in Windows :
               StartScan(tenant, tender, asked)
    BY <1>3, StartKeeps
  <1>4. CASE List
    BY <1>4, ListKeeps
  <1>5. CASE Tick
    BY <1>5, TickKeeps
  <1>6. CASE UNCHANGED vars
    <2>1. UNCHANGED <<rows, created, now, scan>>
      BY <1>6 DEF vars
    <2>2. ScanType' = ScanType /\ PagingOK' = PagingOK
      BY <2>1 DEF ScanType, RowIds, PagingOK, DistinctTimes, Ids, Before
    <2> QED
      BY <2>1, <2>2 DEF LInv
  <1> QED
    BY <1>1, <1>2, <1>3, <1>4, <1>5, <1>6 DEF Next

\* LInv is an invariant of the paging caller and the writers beside it.
LEMMA LInvariant == Spec => []LInv
  BY LInit, LNext, PTL DEF Spec

\* The table, the clock and the caller keep their types, and no id is used
\* twice, for any number of rows (repository.go's List, ListResponse).
THEOREM ListTypes == Spec => []LTypeOK
  <1>1. LInv => LTypeOK
    BY DEF LInv, LTypeOK, TableOK, ScanType, RowIds
  <1> QED
    BY <1>1, LInvariant, PTL

\* Paging is complete for every limit, tender and number of rows, however
\* late the grants beside it commit: a caller of TAC-1 that has come to the
\* tail has been shown every row that was live when it began, unless a row
\* was revoked meanwhile or two rows share their created_at.
THEOREM PagingIsComplete == Spec => []QuietPagingComplete
  <1>1. LInv => QuietPagingComplete
    BY DEF LInv, PagingOK, QuietPagingComplete
  <1> QED
    BY <1>1, LInvariant, PTL
=============================================================================
