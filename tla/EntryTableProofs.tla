-------------------------- MODULE EntryTableProofs --------------------------
(***************************************************************************)
(* Facts about the operators of EntryTable, for any table: what an INSERT  *)
(* and a soft deletion make of rows, and of the grants the rows record.    *)
(***************************************************************************)
EXTENDS EntryTable, TLAPS

\* Soft deletion turns a row into a row: the flag set, the version bumped,
\* everything else as it was.
LEMMA SoftDeletedRow ==
    ASSUME NEW r \in Rows
    PROVE  /\ SoftDeleted(r) \in Rows
           /\ SoftDeleted(r).id = r.id
           /\ SoftDeleted(r).key = r.key
           /\ SoftDeleted(r).deleted = TRUE
           /\ SoftDeleted(r).version = r.version + 1
  <1> DEFINE d == [r EXCEPT !.deleted = TRUE]
  <1>1. /\ d \in Rows /\ d.id = r.id /\ d.key = r.key
        /\ d.deleted = TRUE /\ d.version = r.version
    BY Zenon DEF Rows
  <1>2. SoftDeleted(r) = [d EXCEPT !.version = d.version + 1]
    BY DEF SoftDeleted, TouchRow
  <1> HIDE DEF d
  <1>3. QED
    BY <1>1, <1>2 DEF Rows

\* Soft deletion keeps the table a table.
LEMMA SoftDeleteType ==
    ASSUME NEW t \in SUBSET Rows, NEW S \in SUBSET t
    PROVE  SoftDelete(t, S) \in SUBSET Rows
  BY SoftDeletedRow, Zenon DEF SoftDelete

\* Soft deletion neither adds nor loses a row: old and new rows correspond one
\* to one, as long as the rows of the table can be told apart by their ids.
LEMMA SoftDeleteOneToOne ==
    ASSUME NEW t \in SUBSET Rows, NEW S \in SUBSET t,
           \A r, s \in t : r.id = s.id => r = s
    PROVE  \E f \in [t -> SoftDelete(t, S)] :
              /\ \A r, s \in t : f[r] = f[s] => r = s
              /\ \A q \in SoftDelete(t, S) : \E r \in t : f[r] = q
  <1> DEFINE f == [r \in t |-> IF r \in S THEN SoftDeleted(r) ELSE r]
  <1>1. \A r \in t : f[r].id = r.id
    BY SoftDeletedRow, Zenon
  <1>2. f \in [t -> SoftDelete(t, S)]
    BY DEF SoftDelete
  <1>3. \A q \in SoftDelete(t, S) : \E r \in t : f[r] = q
    BY DEF SoftDelete
  <1>4. \A r, s \in t : f[r] = f[s] => r = s
    BY <1>1
  <1> HIDE DEF f
  <1>5. QED
    BY <1>2, <1>3, <1>4

\* The row of an INSERT is a row.
LEMMA InsertedType ==
    ASSUME NEW i \in Nat, NEW k \in Keys, NEW l \in Levels,
           NEW x \in Expiries
    PROVE  Inserted(i, k, l, x) \in Rows
  BY DEF Inserted, Rows

-----------------------------------------------------------------------------
(* The table: one live row per key, and what record_version counts.         *)

\* The inductive invariant of the table, as a predicate on a table t whose
\* ids were drawn below n.  The bound on the ids is what makes the id of an
\* INSERT fresh.
TableOK(t, n) ==
    /\ \A r \in t : r.id < n
    /\ \A r \in t : r.version = IF r.deleted THEN 2 ELSE 1
    /\ \A r, s \in t :
          (r.id = s.id \/ (r.key = s.key /\ ~r.deleted /\ ~s.deleted)) => r = s

\* An INSERT that the unique index lets through keeps the invariant.
LEMMA InsertKeepsTable ==
    ASSUME NEW t \in SUBSET Rows, NEW n \in Nat, TableOK(t, n),
           NEW k \in Keys, NEW l \in Levels, NEW x \in Expiries,
           ~Blocked(t, k)
    PROVE  TableOK(t \cup {Inserted(n, k, l, x)}, n + 1)
  <1> DEFINE i == Inserted(n, k, l, x)
  <1>1. /\ i.id = n /\ i.key = k /\ i.version = 1 /\ i.deleted = FALSE
    BY DEF Inserted
  <1>2. \A r \in t : r.id \in Nat /\ r.id < n
    BY DEF TableOK, Rows
  <1>3. \A r \in t : r.key = k => r.deleted
    BY DEF Blocked
  <1>4. SUFFICES TableOK(t \cup {i}, n + 1)
    OBVIOUS
  <1> HIDE DEF i
  <1>5. QED
    BY <1>1, <1>2, <1>3 DEF TableOK

\* Soft deletion of live rows keeps the invariant.
LEMMA SoftDeleteKeepsTable ==
    ASSUME NEW t \in SUBSET Rows, NEW n \in Nat, TableOK(t, n),
           NEW S \in SUBSET t, \A r \in S : ~r.deleted
    PROVE  TableOK(SoftDelete(t, S), n)
  <1>1. ASSUME NEW q \in SoftDelete(t, S)
        PROVE  \/ q \in t \ S
               \/ \E r \in S : /\ q = SoftDeleted(r)
                               /\ q.id = r.id
                               /\ q.deleted = TRUE
                               /\ q.version = 2
    <2>1. CASE q \notin t \ S
      <3>1. PICK r \in S : q = SoftDeleted(r)
        BY <2>1 DEF SoftDelete
      <3>2. r \in Rows /\ r.version = 1
        BY DEF TableOK
      <3>3. q.id = r.id /\ q.deleted = TRUE /\ q.version = r.version + 1
        BY <3>1, <3>2, SoftDeletedRow, Zenon
      <3>4. q.version = 2
        BY <3>2, <3>3
      <3>5. QED
        BY <3>1, <3>3, <3>4
    <2>2. QED
      BY <2>1, Zenon
  <1>2. \A q \in SoftDelete(t, S) : q.id < n
    BY <1>1, Zenon DEF TableOK
  <1>3. \A q \in SoftDelete(t, S) : q.version = IF q.deleted THEN 2 ELSE 1
    BY <1>1, Zenon DEF TableOK
  <1>4. ASSUME NEW q \in SoftDelete(t, S), NEW p \in SoftDelete(t, S),
               q.id = p.id \/ (q.key = p.key /\ ~q.deleted /\ ~p.deleted)
        PROVE  q = p
    <2>1. CASE q \in t \ S /\ p \in t \ S
      BY <1>4, <2>1 DEF TableOK
    <2>2. CASE q \in t \ S /\ p \notin t \ S
      <3>1. PICK s \in S : p.id = s.id /\ p.deleted = TRUE
        BY <1>1, <2>2, Zenon
      <3>2. q.id # s.id
        BY <2>2 DEF TableOK
      <3>3. QED
        BY <1>4, <3>1, <3>2
    <2>3. CASE q \notin t \ S /\ p \in t \ S
      <3>1. PICK s \in S : q.id = s.id /\ q.deleted = TRUE
        BY <1>1, <2>3, Zenon
      <3>2. p.id # s.id
        BY <2>3 DEF TableOK
      <3>3. QED
        BY <1>4, <3>1, <3>2
    <2>4. CASE q \notin t \ S /\ p \notin t \ S
      <3>1. PICK s \in S : q = SoftDeleted(s) /\ q.id = s.id /\ q.deleted = TRUE
        BY <1>1, <2>4, Zenon
      <3>2. PICK r \in S : p = SoftDeleted(r) /\ p.id = r.id
        BY <1>1, <2>4, Zenon
      <3>3. s.id = r.id => s = r
        BY DEF TableOK
      <3>4. QED
        BY <1>4, <3>1, <3>2, <3>3
    <2>5. QED
      BY <2>1, <2>2, <2>3, <2>4
  <1>5. QED
    BY <1>2, <1>3, <1>4 DEF TableOK

\* Deleting rows keeps the invariant.
LEMMA DeleteKeepsTable ==
    ASSUME NEW t, NEW n, TableOK(t, n), NEW S
    PROVE  TableOK(t \ S, n)
  BY DEF TableOK

-----------------------------------------------------------------------------
(* The grants the rows record.                                              *)

\* The grants a set of rows records.
Recorded(S) == {GrantOf(r) : r \in S}

\* An id names one row.
OneRowPerId(t) == \A r, s \in t : r.id = s.id => r = s

\* A row and its soft-deleted form record the same grant.
LEMMA GrantOfRow ==
    ASSUME NEW r \in Rows
    PROVE  /\ GrantOf(r).id = r.id /\ GrantOf(r).key = r.key
           /\ GrantOf(SoftDeleted(r)) = GrantOf(r)
  <1> DEFINE d == [r EXCEPT !.deleted = TRUE]
  <1>1. d \in Rows /\ GrantOf(d) = GrantOf(r)
    BY Zenon DEF Rows, GrantOf
  <1>2. SoftDeleted(r) = [d EXCEPT !.version = d.version + 1]
    BY DEF SoftDeleted, TouchRow
  <1> HIDE DEF d
  <1>3. GrantOf(SoftDeleted(r)) = GrantOf(d)
    BY <1>1, <1>2 DEF Rows, GrantOf
  <1>4. QED
    BY <1>1, <1>3 DEF GrantOf

\* Different rows record different grants.
LEMMA RecordedDiffers ==
    ASSUME NEW t \in SUBSET Rows, OneRowPerId(t),
           NEW r \in t, NEW s \in t, GrantOf(r) = GrantOf(s)
    PROVE  r = s
  BY GrantOfRow DEF OneRowPerId

\* Soft deletion takes the grants of the rows back.
LEMMA SoftDeleteTakesBack ==
    ASSUME NEW t \in SUBSET Rows, OneRowPerId(t),
           NEW S \in SUBSET t, \A r \in S : ~r.deleted
    PROVE  /\ LiveGrants(SoftDelete(t, S)) = LiveGrants(t) \ Recorded(S)
           /\ PastGrants(SoftDelete(t, S)) = PastGrants(t) \cup Recorded(S)
  <1>1. \A r \in SoftDelete(t, S) :
           \/ r \in t \ S
           \/ r.deleted /\ \E s \in S : r = SoftDeleted(s)
    BY SoftDeletedRow, Zenon DEF SoftDelete
  <1>2. \A s \in S : /\ SoftDeleted(s) \in SoftDelete(t, S)
                     /\ SoftDeleted(s).deleted
                     /\ GrantOf(SoftDeleted(s)) = GrantOf(s)
    BY SoftDeletedRow, GrantOfRow, Zenon DEF SoftDelete
  <1>3. t \ S \subseteq SoftDelete(t, S)
    BY DEF SoftDelete
  <1>4. LiveGrants(SoftDelete(t, S)) = LiveGrants(t) \ Recorded(S)
    <2>1. ASSUME NEW g \in LiveGrants(SoftDelete(t, S))
          PROVE  g \in LiveGrants(t) \ Recorded(S)
      <3>1. PICK r \in SoftDelete(t, S) : ~r.deleted /\ g = GrantOf(r)
        BY <2>1 DEF LiveGrants
      <3>2. r \in t \ S
        BY <1>1, <3>1
      <3>3. QED
        BY <3>1, <3>2, RecordedDiffers DEF LiveGrants, Recorded
    <2>2. ASSUME NEW g \in LiveGrants(t) \ Recorded(S)
          PROVE  g \in LiveGrants(SoftDelete(t, S))
      <3>1. PICK r \in t : ~r.deleted /\ g = GrantOf(r)
        BY <2>2 DEF LiveGrants
      <3>2. r \in SoftDelete(t, S)
        BY <1>3, <2>2, <3>1 DEF Recorded
      <3>3. QED
        BY <3>1, <3>2 DEF LiveGrants
    <2>3. QED
      BY <2>1, <2>2
  <1>5. PastGrants(SoftDelete(t, S)) = PastGrants(t) \cup Recorded(S)
    <2>1. ASSUME NEW g \in PastGrants(SoftDelete(t, S))
          PROVE  g \in PastGrants(t) \cup Recorded(S)
      <3>1. PICK r \in SoftDelete(t, S) : r.deleted /\ g = GrantOf(r)
        BY <2>1 DEF PastGrants
      <3>2. CASE r \in t \ S
        BY <3>1, <3>2 DEF PastGrants
      <3>3. CASE \E s \in S : r = SoftDeleted(s)
        BY <1>2, <3>1, <3>3 DEF Recorded
      <3>4. QED
        BY <1>1, <3>2, <3>3
    <2>2. ASSUME NEW g \in PastGrants(t) PROVE g \in PastGrants(SoftDelete(t, S))
      BY <1>3, <2>2 DEF PastGrants
    <2>3. ASSUME NEW g \in Recorded(S) PROVE g \in PastGrants(SoftDelete(t, S))
      BY <1>2, <2>3 DEF PastGrants, Recorded
    <2>4. QED
      BY <2>1, <2>2, <2>3
  <1>6. QED
    BY <1>4, <1>5

\* An INSERT adds the grant it records.
LEMMA InsertAdds ==
    ASSUME NEW t, NEW i, ~i.deleted
    PROVE  /\ LiveGrants(t \cup {i}) = LiveGrants(t) \cup {GrantOf(i)}
           /\ PastGrants(t \cup {i}) = PastGrants(t)
  BY DEF LiveGrants, PastGrants

\* A DELETE forgets the grants of the rows.
LEMMA DeleteForgets ==
    ASSUME NEW t \in SUBSET Rows, OneRowPerId(t), NEW S \in SUBSET t
    PROVE  /\ LiveGrants(t \ S) = LiveGrants(t) \ Recorded(S)
           /\ PastGrants(t \ S) = PastGrants(t) \ Recorded(S)
  <1>1. \A r \in t, s \in S : GrantOf(r) = GrantOf(s) => r = s
    BY RecordedDiffers
  <1> QED
    BY <1>1 DEF LiveGrants, PastGrants, Recorded

\* The grants of a user, and of a tenant, are those its statement matches.
LEMMA MatchesRecord ==
    ASSUME NEW t \in SUBSET Rows, NEW a, NEW u
    PROVE  /\ {g \in LiveGrants(t) : g.key.tenant = a /\ g.key.user = u}
                = Recorded(UserMatches(t, a, u))
           /\ {g \in LiveGrants(t) \cup PastGrants(t) : g.key.tenant = a}
                = Recorded(TenantMatches(t, a))
  <1>1. \A r \in t : GrantOf(r).key = r.key
    BY DEF GrantOf
  <1> QED
    BY <1>1 DEF LiveGrants, PastGrants, Recorded, UserMatches, TenantMatches

\* What a statement sees of its matches is the oldest of them.
LEMMA SnapshotIsOldest ==
    ASSUME NEW M \in SUBSET Rows, NEW n \in Nat
    PROVE  /\ Recorded(SeenBy(M, n)) \subseteq Recorded(M)
           /\ \A g \in Recorded(SeenBy(M, n)),
                h \in Recorded(M) \ Recorded(SeenBy(M, n)) : g.id < h.id
  <1>1. Recorded(SeenBy(M, n)) \subseteq Recorded(M)
    BY DEF Recorded, SeenBy
  <1>2. ASSUME NEW g \in Recorded(SeenBy(M, n)),
               NEW h \in Recorded(M) \ Recorded(SeenBy(M, n))
        PROVE  g.id < h.id
    <2>1. PICK r \in SeenBy(M, n) : g = GrantOf(r)
      BY DEF Recorded
    <2>2. PICK s \in M : h = GrantOf(s) /\ s \notin SeenBy(M, n)
      BY DEF Recorded
    <2>3. r.id < n /\ ~(s.id < n) /\ r.id \in Nat /\ s.id \in Nat
      BY <2>1, <2>2 DEF SeenBy, Rows
    <2> QED
      BY <2>1, <2>2, <2>3 DEF GrantOf
  <1> QED
    BY <1>1, <1>2
=============================================================================
