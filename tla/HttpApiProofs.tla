---------------------------- MODULE HttpApiProofs ----------------------------
(***************************************************************************)
(* For any requests, roles, identifiers and bounds: what an answer of the  *)
(* HTTP layer tells its caller about the table is true.                    *)
(***************************************************************************)
EXTENDS HttpApi, EntryTableProofs, FiniteSetTheorems

-----------------------------------------------------------------------------
(* Facts about the lists of checks.                                         *)

\* Some check that fails is the first one to fail.
LEMMA FirstOfMany ==
    ASSUME NEW S \in SUBSET (1..9), S # {}
    PROVE  \E i \in S : \A j \in S : i <= j
  <1>1. ASSUME NEW n \in 1..9, n \in S, \A j \in 1..9 : j < n => j \notin S
        PROVE  \E i \in S : \A j \in S : i <= j
    BY <1>1
  <1> DEFINE P(n) == \A j \in 1..9 : j < n => j \notin S
  <1>2. P(1)
    OBVIOUS
  <1>3. /\ P(1) /\ 1 \notin S => P(2)
        /\ P(2) /\ 2 \notin S => P(3)
        /\ P(3) /\ 3 \notin S => P(4)
        /\ P(4) /\ 4 \notin S => P(5)
        /\ P(5) /\ 5 \notin S => P(6)
        /\ P(6) /\ 6 \notin S => P(7)
        /\ P(7) /\ 7 \notin S => P(8)
        /\ P(8) /\ 8 \notin S => P(9)
        /\ P(9) /\ 9 \notin S => S = {}
    OBVIOUS
  <1>4. \E n \in 1..9 : n \in S /\ P(n)
    BY <1>2, <1>3, Zenon
  <1> QED
    BY <1>1, <1>4

\* FirstFailure is "ok" exactly when every check holds, and else the code of
\* a check.
LEMMA FirstFailureCode ==
    ASSUME NEW n \in 0..9, NEW checks, DOMAIN checks = 1..n,
           NEW C, "ok" \notin C, \A i \in 1..n : checks[i][2] \in C
    PROVE  /\ FirstFailure(checks) = "ok" <=> \A i \in 1..n : checks[i][1]
           /\ FirstFailure(checks) # "ok" => FirstFailure(checks) \in C
  <1> DEFINE F == {i \in DOMAIN checks : ~checks[i][1]}
             m == CHOOSE i \in F : \A j \in F : i <= j
  <1>1. FirstFailure(checks) = IF F = {} THEN "ok" ELSE checks[m][2]
    BY DEF FirstFailure
  <1>2. F # {} => m \in F
    <2>1. F \in SUBSET (1..9)
      OBVIOUS
    <2> QED
      BY <2>1, FirstOfMany
  <1>3. F # {} => checks[m][2] \in C
    BY <1>2
  <1>4. F = {} <=> \A i \in 1..n : checks[i][1]
    OBVIOUS
  <1> HIDE DEF F, m
  <1> QED
    BY <1>1, <1>3, <1>4

\* A list whose second check fails is answered with the code of the first or
\* of the second.
LEMMA SecondFails ==
    ASSUME NEW n \in 2..9, NEW checks, DOMAIN checks = 1..n, ~checks[2][1]
    PROVE  FirstFailure(checks) \in {checks[1][2], checks[2][2]}
  <1> DEFINE F == {i \in DOMAIN checks : ~checks[i][1]}
             m == CHOOSE i \in F : \A j \in F : i <= j
  <1>1. 2 \in F
    OBVIOUS
  <1>2. FirstFailure(checks) = checks[m][2]
    BY <1>1 DEF FirstFailure
  <1>3. \E i \in F : \A j \in F : i <= j
    <2>1. CASE 1 \in F
      BY <2>1
    <2>2. CASE 1 \notin F
      BY <1>1, <2>2
    <2> QED
      BY <2>1, <2>2
  <1>4. m \in F /\ m <= 2
    BY <1>1, <1>3
  <1>5. m \in 1..2
    BY <1>4
  <1> HIDE DEF F, m
  <1> QED
    BY <1>2, <1>5

Refused == {"invalid_request", "insufficient_role"}

\* TAC-1: the checks, and the codes it refuses with.
LEMMA ListCodes ==
    ASSUME NEW c
    PROVE  LET f == FirstFailure(ListChecks(c))
           IN  /\ f # "ok" => f \in Refused
               /\ f = "ok" => SameTenant(c)
  <1> DEFINE s == ListChecks(c)
  <1>1. /\ DOMAIN s = 1..4 /\ s[2][1] = SameTenant(c)
        /\ \A i \in 1..4 : s[i][2] \in Refused
    BY DEF ListChecks, Refused
  <1>2. "ok" \notin Refused
    BY DEF Refused
  <1> HIDE DEF s
  <1>3. /\ FirstFailure(s) = "ok" <=> \A i \in 1..4 : s[i][1]
        /\ FirstFailure(s) # "ok" => FirstFailure(s) \in Refused
    BY <1>1, <1>2, FirstFailureCode, 4 \in 0..9
  <1> QED
    BY <1>1, <1>3 DEF s

GrantRefused ==
    Refused \cup {"unauthorized", "invalid_access_level", "invalid_reason",
                 "invalid_expiry"}

\* TAC-2: the checks, and the codes it refuses with.
LEMMA GrantCodes ==
    ASSUME NEW c
    PROVE  LET f == FirstFailure(GrantChecks(c))
           IN  /\ f # "ok" => f \in GrantRefused
               /\ f = "ok" => /\ IsUUID(c.tenant) /\ IsUUID(c.tender) /\ IsUUID(c.user)
                              /\ SameTenant(c) /\ ValidLevel(c.level)
  <1> DEFINE s == GrantChecks(c)
  <1>1. /\ DOMAIN s = 1..9
        /\ s[1][1] = IsUUID(c.tenant) /\ s[2][1] = SameTenant(c)
        /\ s[3][1] = IsUUID(c.tender) /\ s[5][1] = IsUUID(c.user)
        /\ s[7][1] = ValidLevel(c.level)
    BY DEF GrantChecks
  <1>2. \A i \in 1..9 : s[i][2] \in GrantRefused
    <2>1. /\ s[1][2] \in GrantRefused /\ s[2][2] \in GrantRefused
          /\ s[3][2] \in GrantRefused /\ s[4][2] \in GrantRefused
          /\ s[5][2] \in GrantRefused /\ s[6][2] \in GrantRefused
          /\ s[7][2] \in GrantRefused /\ s[8][2] \in GrantRefused
          /\ s[9][2] \in GrantRefused
      BY DEF GrantChecks, GrantRefused, Refused
    <2> HIDE DEF s
    <2> QED
      BY <2>1
  <1>3. "ok" \notin GrantRefused
    BY DEF GrantRefused, Refused
  <1> HIDE DEF s
  <1>4. /\ FirstFailure(s) = "ok" <=> \A i \in 1..9 : s[i][1]
        /\ FirstFailure(s) # "ok" => FirstFailure(s) \in GrantRefused
    BY <1>1, <1>2, <1>3, FirstFailureCode, 9 \in 0..9
  <1> QED
    BY <1>1, <1>4 DEF s

\* TAC-3: the checks, and the codes it refuses with.
LEMMA RevokeCodes ==
    ASSUME NEW c
    PROVE  LET f == FirstFailure(RevokeChecks(c))
           IN  /\ f # "ok" => f \in Refused
               /\ f = "ok" => SameTenant(c)
  <1> DEFINE s == RevokeChecks(c)
  <1>1. /\ DOMAIN s = 1..5 /\ s[2][1] = SameTenant(c)
        /\ \A i \in 1..5 : s[i][2] \in Refused
    BY DEF RevokeChecks, Refused
  <1>2. "ok" \notin Refused
    BY DEF Refused
  <1> HIDE DEF s
  <1>3. /\ FirstFailure(s) = "ok" <=> \A i \in 1..5 : s[i][1]
        /\ FirstFailure(s) # "ok" => FirstFailure(s) \in Refused
    BY <1>1, <1>2, FirstFailureCode, 5 \in 0..9
  <1> QED
    BY <1>1, <1>3 DEF s

\* TAC-4: the codes it refuses with.
LEMMA CheckCodes ==
    ASSUME NEW c
    PROVE  LET f == FirstFailure(CheckChecks(c)) IN f # "ok" => f \in Refused
  <1> DEFINE s == CheckChecks(c)
  <1>1. DOMAIN s = 1..3 /\ \A i \in 1..3 : s[i][2] \in Refused
    BY DEF CheckChecks, Refused
  <1>2. "ok" \notin Refused
    BY DEF Refused
  <1> HIDE DEF s
  <1>3. FirstFailure(s) # "ok" => FirstFailure(s) \in Refused
    BY <1>1, <1>2, FirstFailureCode, 3 \in 0..9
  <1> QED
    BY <1>3 DEF s

\* An outsider fails the second check of TAC-1, TAC-2 and TAC-3, so that none
\* of the later ones decides the answer.
LEMMA OutsiderCodes ==
    ASSUME NEW c, ~SameTenant(c)
    PROVE  /\ FirstFailure(ListChecks(c)) \in Refused
           /\ FirstFailure(GrantChecks(c)) \in Refused
           /\ FirstFailure(RevokeChecks(c)) \in Refused
  <1>1. FirstFailure(ListChecks(c)) \in Refused
    BY ListCodes
  <1>2. FirstFailure(RevokeChecks(c)) \in Refused
    BY RevokeCodes
  <1>3. FirstFailure(GrantChecks(c)) \in Refused
    <2> DEFINE s == GrantChecks(c)
    <2>1. DOMAIN s = 1..9 /\ ~s[2][1] /\ {s[1][2], s[2][2]} = Refused
      BY DEF GrantChecks, Refused
    <2> HIDE DEF s
    <2>2. FirstFailure(s) \in {s[1][2], s[2][2]}
      BY <2>1, SecondFails, 9 \in 2..9
    <2> QED
      BY <2>1, <2>2 DEF s
  <1> QED
    BY <1>1, <1>2, <1>3

\* The statuses of the codes the theorems speak of.
LEMMA Statuses ==
    /\ \A f \in Refused : Status(f) \in {400, 403}
    /\ Status("ok") = 200
    /\ \A e \in DbErrors : DbCode(e) \in {"dependency_unavailable",
                                          "internal_server_error"}
    /\ \A e \in DbErrors : Status(DbCode(e)) \in {500, 503}
    /\ Ambiguous \subseteq DbErrors
BY DEF Status, Refused, DbErrors, DbCode, Ambiguous

-----------------------------------------------------------------------------
(* The inductive invariant.                                                  *)

AnswerType == [route : {"list", "grant", "revoke", "check"},
               call : Calls, code : Codes]

\* Ids are handed out by counting the rows, which is sound as long as no row
\* is lost; every version a caller has been shown is 1, as that of live rows.
HInv ==
    /\ rows \in SUBSET Rows
    /\ IsFiniteSet(rows)
    /\ TableOK(rows, Cardinality(rows))
    /\ now \in 0..MaxTime
    /\ tokens \subseteq Keys \X {1}
    /\ answer # NoAnswer => answer \in AnswerType

\* A step that writes nothing keeps the invariant, whatever it answers.
LEMMA UnwrittenKeepsInv ==
    ASSUME HInv, NEW c \in Calls, NEW route \in {"list", "grant", "revoke", "check"},
           NEW code \in Codes, Answer(route, c, code), Unwritten
    PROVE  HInv'
  <1>1. answer' \in AnswerType
    BY DEF Answer, AnswerType
  <1> QED
    BY <1>1 DEF HInv, Unwritten

\* The refusals and the failures of the database have codes.
LEMMA RefusalCodes ==
    /\ Refused \subseteq Codes /\ GrantRefused \subseteq Codes
    /\ \A e \in DbErrors : DbCode(e) \in Codes
    /\ {"ok", "core_unavailable", "grantee_not_active_member", "duplicate_grant",
        "optimistic_lock_conflict"} \subseteq Codes
BY Statuses DEF Refused, GrantRefused, Codes

\* TAC-1 keeps the invariant: the rows of a page are live, so their version
\* is 1.
LEMMA ListKeepsInv ==
    ASSUME HInv, NEW c \in Calls, List(c)
    PROVE  HInv'
  <1>1. CASE Refuse("list", c, ListChecks(c))
    <2>1. FirstFailure(ListChecks(c)) \in Codes
      BY <1>1, ListCodes, RefusalCodes DEF Refuse
    <2> QED
      BY <1>1, <2>1, UnwrittenKeepsInv DEF Refuse
  <1>2. CASE ListPage(c)
    <2>1. PICK page \in SUBSET Listed(rows, c.tenant, c.tender) :
            tokens' = tokens \cup {<<r.key, r.version>> : r \in page}
      BY <1>2 DEF ListPage
    <2>2. \A r \in page : r.key \in Keys /\ r.version = 1
      BY DEF Listed, HInv, TableOK, Rows
    <2>3. tokens' \subseteq Keys \X {1}
      BY <2>1, <2>2 DEF HInv
    <2>4. answer' \in AnswerType
      BY <1>2, RefusalCodes DEF ListPage, Answer, AnswerType
    <2> QED
      BY <1>2, <2>3, <2>4 DEF ListPage, HInv
  <1>3. CASE DbFailure("list", c, ListChecks(c))
    BY <1>3, UnwrittenKeepsInv, RefusalCodes DEF DbFailure
  <1> QED
    BY <1>1, <1>2, <1>3 DEF List

\* A call that passes the checks of TAC-2 names a key.
LEMMA GrantNamesKey ==
    ASSUME NEW c \in Calls, FirstFailure(GrantChecks(c)) = "ok"
    PROVE  Key(c) \in Keys /\ c.level \in Levels /\ c.expires \in Expiries
BY GrantCodes, CallAssumption DEF IsUUID, ValidLevel, Key, Keys

\* The row TAC-2 inserts has an id of its own.
LEMMA GrantInsertedKeepsInv ==
    ASSUME HInv, NEW c \in Calls, GrantInserted(c)
    PROVE  HInv'
  <1> DEFINE n == Cardinality(rows)
             r == Inserted(n, Key(c), c.level, c.expires)
  <1>1. /\ Key(c) \in Keys /\ c.level \in Levels /\ c.expires \in Expiries
        /\ ~Blocked(rows, Key(c)) /\ n \in Nat
        /\ rows' = rows \cup {r} /\ now' = now
    BY GrantNamesKey, FS_CardinalityType DEF GrantInserted, HInv
  <1>2. r \in Rows /\ r.id = n /\ r.key = Key(c) /\ r.version = 1
    BY <1>1, InsertedType DEF Inserted
  <1>3. r \notin rows
    BY <1>1, <1>2 DEF HInv, TableOK
  <1>4. IsFiniteSet(rows') /\ Cardinality(rows') = n + 1
    BY <1>1, <1>3, FS_AddElement DEF HInv
  <1>5. TableOK(rows \cup {r}, n + 1)
    BY <1>1, InsertKeepsTable DEF HInv
  <1>6. tokens' \subseteq Keys \X {1}
    BY <1>1, <1>2 DEF GrantInserted, HInv
  <1>7. answer' \in AnswerType
    BY RefusalCodes, Statuses DEF GrantInserted, Answer, AnswerType
  <1>8. rows' \in SUBSET Rows
    BY <1>1, <1>2 DEF HInv
  <1>9. TableOK(rows, Cardinality(rows))'
    BY <1>1, <1>4, <1>5
  <1> QED
    BY <1>1, <1>4, <1>6, <1>7, <1>8, <1>9 DEF HInv

\* TAC-2 keeps the invariant.
LEMMA GrantKeepsInv ==
    ASSUME HInv, NEW c \in Calls, Grant(c)
    PROVE  HInv'
  <1>1. CASE Refuse("grant", c, GrantChecks(c))
    <2>1. FirstFailure(GrantChecks(c)) \in Codes
      BY <1>1, GrantCodes, RefusalCodes DEF Refuse
    <2> QED
      BY <1>1, <2>1, UnwrittenKeepsInv DEF Refuse
  <1>2. CASE GrantUnverified(c)
    BY <1>2, UnwrittenKeepsInv, RefusalCodes DEF GrantUnverified
  <1>3. CASE GrantDuplicate(c)
    BY <1>3, UnwrittenKeepsInv, RefusalCodes DEF GrantDuplicate
  <1>4. CASE GrantInserted(c)
    BY <1>4, GrantInsertedKeepsInv
  <1>5. CASE DbFailure("grant", c, GrantChecks(c))
    BY <1>5, UnwrittenKeepsInv, RefusalCodes DEF DbFailure
  <1> QED
    BY <1>1, <1>2, <1>3, <1>4, <1>5 DEF Grant

\* The UPDATE of TAC-3 loses no row and brings none back.
LEMMA RevokeDoneKeepsInv ==
    ASSUME HInv, NEW c \in Calls, RevokeDone(c)
    PROVE  HInv'
  <1> DEFINE S == RevokeMatches(rows, Key(c), c.version)
  <1>1. S \in SUBSET rows /\ \A r \in S : ~r.deleted
    BY DEF RevokeMatches
  <1>2. rows' = SoftDelete(rows, S) /\ now' = now /\ tokens' = tokens
    BY DEF RevokeDone
  <1> HIDE DEF S
  <1>3. rows' \in SUBSET Rows
    BY <1>1, <1>2, SoftDeleteType DEF HInv
  <1>4. \A r, s \in rows : r.id = s.id => r = s
    BY DEF HInv, TableOK
  <1>5. IsFiniteSet(rows') /\ Cardinality(rows') = Cardinality(rows)
    <2>1. rows \in SUBSET Rows
      BY DEF HInv
    <2>2. PICK f \in [rows -> SoftDelete(rows, S)] :
            /\ \A r, s \in rows : f[r] = f[s] => r = s
            /\ \A q \in SoftDelete(rows, S) : \E r \in rows : f[r] = q
      BY <1>1, <1>4, <2>1, SoftDeleteOneToOne
    <2>3. f \in Bijection(rows, rows')
      BY <1>2, <2>2 DEF Bijection, Injection, Surjection, IsInjective
    <2> QED
      BY <2>3, FS_Bijection DEF ExistsBijection, HInv
  <1>6. Cardinality(rows) \in Nat
    BY FS_CardinalityType DEF HInv
  <1>7. TableOK(SoftDelete(rows, S), Cardinality(rows))
    BY <1>1, <1>6, SoftDeleteKeepsTable DEF HInv
  <1>8. TableOK(rows, Cardinality(rows))'
    BY <1>2, <1>5, <1>7
  <1>9. answer' \in AnswerType
    BY RefusalCodes, Statuses DEF RevokeDone, Answer, AnswerType
  <1> QED
    BY <1>2, <1>3, <1>5, <1>8, <1>9 DEF HInv

\* TAC-3 keeps the invariant.
LEMMA RevokeKeepsInv ==
    ASSUME HInv, NEW c \in Calls, Revoke(c)
    PROVE  HInv'
  <1>1. CASE Refuse("revoke", c, RevokeChecks(c))
    <2>1. FirstFailure(RevokeChecks(c)) \in Codes
      BY <1>1, RevokeCodes, RefusalCodes DEF Refuse
    <2> QED
      BY <1>1, <2>1, UnwrittenKeepsInv DEF Refuse
  <1>2. CASE RevokeConflict(c)
    BY <1>2, UnwrittenKeepsInv, RefusalCodes DEF RevokeConflict
  <1>3. CASE RevokeDone(c)
    BY <1>3, RevokeDoneKeepsInv
  <1>4. CASE RevokeFailed(c)
    BY <1>4, UnwrittenKeepsInv, RefusalCodes DEF RevokeFailed, DbFailure
  <1> QED
    BY <1>1, <1>2, <1>3, <1>4 DEF Revoke

\* TAC-4 keeps the invariant: it writes nothing.
LEMMA CheckKeepsInv ==
    ASSUME HInv, NEW c \in Calls, CheckAccess(c)
    PROVE  HInv'
  <1>1. CASE Refuse("check", c, CheckChecks(c))
    <2>1. FirstFailure(CheckChecks(c)) \in Codes
      BY <1>1, CheckCodes, RefusalCodes DEF Refuse
    <2> QED
      BY <1>1, <2>1, UnwrittenKeepsInv DEF Refuse
  <1>2. CASE CheckAnswered(c)
    BY <1>2, UnwrittenKeepsInv, RefusalCodes DEF CheckAnswered
  <1>3. CASE DbFailure("check", c, CheckChecks(c))
    BY <1>3, UnwrittenKeepsInv, RefusalCodes DEF DbFailure
  <1> QED
    BY <1>1, <1>2, <1>3 DEF CheckAccess

\* The inductive invariant of the HTTP layer.
THEOREM HInvariant == Spec => []HInv
<1>1. Init => HInv
    BY FS_EmptySet, CallAssumption DEF Init, HInv, TableOK
<1>2. HInv /\ Tick => HInv'
    BY CallAssumption DEF HInv, Tick
<1>3. HInv /\ UNCHANGED vars => HInv'
    BY DEF HInv, vars
<1>4. HInv /\ [Next]_vars => HInv'
    BY <1>2, <1>3, ListKeepsInv, GrantKeepsInv, RevokeKeepsInv, CheckKeepsInv
       DEF Next
<1> QED
    BY <1>1, <1>4, PTL DEF Spec

\* The variables have their types and an id is used once.
THEOREM HttpTypes == Spec => []HTypeOK
<1>1. HInv => HTypeOK
    BY DEF HInv, HTypeOK, TableOK, AnswerType
<1> QED
    BY <1>1, HInvariant, PTL

-----------------------------------------------------------------------------
(* What an answer says.                                                      *)

Handled(c) == List(c) \/ Grant(c) \/ Revoke(c) \/ CheckAccess(c)

\* What Answer records.
LEMMA AnswerFields ==
    ASSUME NEW route, NEW c, NEW code, Answer(route, c, code)
    PROVE  answer'.route = route /\ answer'.call = c /\ answer'.code = code
BY DEF Answer

\* After the INSERT the key has a live row.
LEMMA InsertedIsLive ==
    ASSUME NEW c, GrantInserted(c)
    PROVE  Blocked(rows', Key(c))
  <1> DEFINE r == Inserted(Cardinality(rows), Key(c), c.level, c.expires)
  <1>1. r \in rows'
    BY DEF GrantInserted
  <1>2. r.key = Key(c) /\ ~r.deleted
    BY DEF Inserted
  <1> QED
    BY <1>1, <1>2 DEF Blocked

\* A version that was shown is 1, and so is that of every live row: when
\* the UPDATE of TAC-3 was given such a version, no live row is left.
LEMMA RevokedIsGone ==
    ASSUME HInv, NEW c, <<Key(c), c.version>> \in tokens
    PROVE  /\ RevokeConflict(c) => ~Blocked(rows', Key(c))
           /\ RevokeDone(c) => ~Blocked(rows', Key(c))
  <1> DEFINE S == RevokeMatches(rows, Key(c), c.version)
  <1>1. c.version = 1
    BY DEF HInv
  <1>2. \A r \in rows : r.key = Key(c) /\ ~r.deleted => r \in S
    BY <1>1 DEF HInv, TableOK, RevokeMatches
  <1>3. S \in SUBSET rows
    BY DEF RevokeMatches
  <1>4. RevokeConflict(c) => rows' = rows /\ S = {}
    BY DEF RevokeConflict, Unwritten
  <1>5. RevokeDone(c) => rows' = SoftDelete(rows, S)
    BY DEF RevokeDone
  <1> HIDE DEF S
  <1>6. RevokeConflict(c) => ~Blocked(rows', Key(c))
    BY <1>2, <1>4 DEF Blocked
  <1>7. \A q \in SoftDelete(rows, S) : q.key = Key(c) => q.deleted
    <2>1. \A r \in S : SoftDeleted(r).deleted = TRUE
      BY <1>3, SoftDeletedRow, Zenon DEF HInv
    <2> QED
      BY <1>2, <2>1 DEF SoftDelete
  <1>8. RevokeDone(c) => ~Blocked(rows', Key(c))
    BY <1>5, <1>7 DEF Blocked
  <1> QED
    BY <1>6, <1>8

\* A settled answer of TAC-2 is true.
LEMMA GrantHolds ==
    ASSUME HInv, NEW c \in Calls, Grant(c)
    PROVE  AnswerHolds
  <1>1. answer'.route = "grant" /\ answer'.call = c
    BY AnswerFields DEF Grant, Refuse, GrantUnverified, GrantDuplicate,
                        GrantInserted, DbFailure
  <1>2. answer'.code \in {"ok", "duplicate_grant"} => Blocked(rows', Key(c))
    <2>1. CASE Refuse("grant", c, GrantChecks(c))
      <3>1. answer'.code \in GrantRefused
        BY <2>1, GrantCodes, AnswerFields DEF Refuse
      <3> QED
        BY <3>1 DEF GrantRefused, Refused
    <2>2. CASE GrantUnverified(c)
      BY <2>2, AnswerFields DEF GrantUnverified
    <2>3. CASE GrantDuplicate(c)
      BY <2>3 DEF GrantDuplicate, Unwritten
    <2>4. CASE GrantInserted(c)
      BY <2>4, InsertedIsLive
    <2>5. CASE DbFailure("grant", c, GrantChecks(c))
      BY <2>5, AnswerFields, Statuses DEF DbFailure
    <2> QED
      BY <2>1, <2>2, <2>3, <2>4, <2>5 DEF Grant
  <1> QED
    BY <1>1, <1>2 DEF AnswerHolds

\* A settled answer of TAC-3 is true.
LEMMA RevokeHolds ==
    ASSUME HInv, NEW c \in Calls, Revoke(c)
    PROVE  AnswerHolds
  <1>1. answer'.route = "revoke" /\ answer'.call = c
    BY AnswerFields DEF Revoke, Refuse, RevokeConflict, RevokeDone, RevokeFailed,
                        DbFailure
  <1>2. ASSUME answer'.code \in {"ok", "optimistic_lock_conflict"},
               <<Key(c), c.version>> \in tokens
        PROVE  ~Blocked(rows', Key(c))
    <2>1. CASE Refuse("revoke", c, RevokeChecks(c))
      <3>1. answer'.code \in Refused
        BY <2>1, RevokeCodes, AnswerFields DEF Refuse
      <3> QED
        BY <1>2, <3>1 DEF Refused
    <2>2. CASE RevokeConflict(c)
      BY <1>2, <2>2, RevokedIsGone
    <2>3. CASE RevokeDone(c)
      BY <1>2, <2>3, RevokedIsGone
    <2>4. CASE RevokeFailed(c)
      BY <1>2, <2>4, AnswerFields, Statuses DEF RevokeFailed, DbFailure
    <2> QED
      BY <2>1, <2>2, <2>3, <2>4 DEF Revoke
  <1> QED
    BY <1>1, <1>2 DEF AnswerHolds

\* The routes of TAC-1 and TAC-4.
LEMMA OtherRoutes ==
    ASSUME NEW c
    PROVE  /\ List(c) => answer'.route = "list" /\ answer'.call = c /\ rows' = rows
           /\ CheckAccess(c) =>
                answer'.route = "check" /\ answer'.call = c /\ rows' = rows
BY AnswerFields DEF List, CheckAccess, Refuse, ListPage, CheckAnswered, DbFailure,
                    Unwritten

\* A 201, a 204 or a 409 tells the caller what the table holds.
THEOREM AnswersSettle == Spec => SettledAnswers
<1>1. ASSUME HInv, NEW c \in Calls, Handled(c)
      PROVE  AnswerHolds
    <2>1. CASE List(c) \/ CheckAccess(c)
        BY <2>1, OtherRoutes DEF AnswerHolds
    <2> QED
        BY <1>1, <2>1, GrantHolds, RevokeHolds DEF Handled
<1>2. HInv /\ [Next]_vars => [AnswerHolds]_<<rows, answer>>
    BY <1>1 DEF Next, Handled, Tick, vars
<1> QED
    BY <1>2, HInvariant, PTL DEF Spec, SettledAnswers

\* Only the INSERT of TAC-2 and the UPDATE of TAC-3 write, and neither is
\* answered with a 4xx.
THEOREM RefusalsWriteNothing == Spec => RefusedWroteNothing
<1>1. ASSUME NEW c \in Calls, Handled(c)
      PROVE  RefusalIsHarmless
    <2>1. CASE GrantInserted(c) \/ RevokeDone(c)
        <3>1. \/ answer'.code = "ok"
              \/ \E e \in Ambiguous : answer'.code = DbCode(e)
            BY <2>1, AnswerFields DEF GrantInserted, RevokeDone
        <3>2. Status(answer'.code) \in {200, 500, 503}
            BY <3>1, Statuses
        <3> QED
            BY <3>2 DEF RefusalIsHarmless
    <2>2. CASE ~GrantInserted(c) /\ ~RevokeDone(c)
        <3>1. rows' = rows
            BY <1>1, <2>2, OtherRoutes
               DEF Handled, Grant, Revoke, Refuse, GrantUnverified, GrantDuplicate,
                   RevokeConflict, RevokeFailed, DbFailure, Unwritten
        <3> QED
            BY <3>1 DEF RefusalIsHarmless
    <2> QED
        BY <2>1, <2>2
<1>2. [Next]_vars => [RefusalIsHarmless]_<<rows, answer>>
    BY <1>1 DEF Next, Handled, Tick, vars
<1> QED
    BY <1>2, PTL DEF Spec, RefusedWroteNothing

\* Whatever the table and Core hold, an outsider is refused with 400 or 403.
THEOREM OutsidersRefused == Spec => OutsidersGetNothing
<1>1. ASSUME NEW c \in Calls, Handled(c)
      PROVE  OutsiderIsRefused
    <2>1. answer'.call = c
        BY <1>1, OtherRoutes, AnswerFields
           DEF Handled, Grant, Refuse, GrantUnverified, GrantDuplicate,
               GrantInserted, Revoke, RevokeConflict, RevokeDone, RevokeFailed,
               DbFailure
    <2>2. CASE SameTenant(c)
        BY <2>1, <2>2 DEF OutsiderIsRefused
    <2>3. CASE CheckAccess(c)
        BY <2>3, OtherRoutes DEF OutsiderIsRefused
    <2>4. CASE ~SameTenant(c) /\ ~CheckAccess(c)
        <3>1. "ok" \notin Refused
            BY SMTT(30) DEF Refused
        <3>2. \/ Refuse("list", c, ListChecks(c))
              \/ Refuse("grant", c, GrantChecks(c))
              \/ Refuse("revoke", c, RevokeChecks(c))
            BY <1>1, <2>4, <3>1, OutsiderCodes
               DEF Handled, List, ListPage, Grant, GrantUnverified,
                   GrantDuplicate, GrantInserted, Revoke, RevokeConflict,
                   RevokeDone, RevokeFailed, DbFailure
        <3>3. answer'.code \in Refused /\ rows' = rows /\ tokens' = tokens
            BY <2>4, <3>2, OutsiderCodes, AnswerFields DEF Refuse, Unwritten
        <3> QED
            BY <3>3, Statuses DEF OutsiderIsRefused
    <2> QED
        BY <2>2, <2>3, <2>4
<1>2. [Next]_vars => [OutsiderIsRefused]_<<rows, tokens, answer>>
    BY <1>1 DEF Next, Handled, Tick, vars
<1> QED
    BY <1>2, PTL DEF Spec, OutsidersGetNothing

-----------------------------------------------------------------------------
(* The HTTP layer implements AccessTable.                                    *)

\* The INSERT of TAC-2 is a grant on a free key.
LEMMA GrantInsertedImplements ==
    ASSUME HInv, NEW c \in Calls, GrantInserted(c)
    PROVE  Access!Grant
  <1> DEFINE n == Cardinality(rows)
             i == Inserted(n, Key(c), c.level, c.expires)
             g == GrantOf(i)
  <1>1. rows' = rows \cup {i} /\ ~Blocked(rows, Key(c))
    BY DEF GrantInserted
  <1>2. ~i.deleted /\ g.id = n /\ g.key = Key(c)
    BY DEF Inserted, GrantOf
  <1>3. /\ \A h \in LiveGrants(rows) : h.key # Key(c)
        /\ \A h \in LiveGrants(rows) \cup PastGrants(rows) : h.id # n
    <2>1. n \in Nat
      BY FS_CardinalityType DEF HInv
    <2>2. \A r \in rows : GrantOf(r).id = r.id /\ r.id # n /\ GrantOf(r).key = r.key
      BY <2>1 DEF HInv, TableOK, GrantOf, Rows
    <2> HIDE DEF n
    <2> QED
      BY <1>1, <2>2, Zenon DEF LiveGrants, PastGrants, Blocked
  <1> HIDE DEF i, n
  <1>4. /\ LiveGrants(rows') = LiveGrants(rows) \cup {g}
        /\ PastGrants(rows') = PastGrants(rows)
    BY <1>1, <1>2, InsertAdds
  <1> HIDE DEF g
  <1> QED
    BY <1>2, <1>3, <1>4 DEF Access!Grant

\* The UPDATE of TAC-3 takes back the one grant of its key.
LEMMA RevokeDoneImplements ==
    ASSUME HInv, NEW c \in Calls, RevokeDone(c)
    PROVE  \E k \in Keys : Access!Revoke(k)
  <1> DEFINE k == Key(c)
             S == RevokeMatches(rows, k, c.version)
  <1>1. /\ S # {} /\ rows' = SoftDelete(rows, S)
        /\ S \in SUBSET rows /\ \A r \in S : ~r.deleted /\ r.key = k
    BY DEF RevokeDone, RevokeMatches
  <1> HIDE DEF k, S
  <1>2. PICK s \in S : TRUE
    BY <1>1
  <1>3. k \in Keys
    BY <1>1, <1>2 DEF HInv, Rows
  <1>4. Access!TakeBack(Recorded(S))
    <2>1. OneRowPerId(rows)
      BY DEF HInv, TableOK, OneRowPerId
    <2>2. /\ LiveGrants(rows') = LiveGrants(rows) \ Recorded(S)
          /\ PastGrants(rows') = PastGrants(rows) \cup Recorded(S)
      BY <1>1, <2>1, SoftDeleteTakesBack DEF HInv
    <2>3. Recorded(S) # {}
      BY <1>2 DEF Recorded
    <2> QED
      BY <2>2, <2>3 DEF Access!TakeBack
  <1>5. {g \in LiveGrants(rows) : g.key = k} = Recorded(S)
    <2>1. \A r \in rows : ~r.deleted /\ r.key = k => r \in S
      BY <1>1, <1>2, Zenon DEF HInv, TableOK
    <2>2. \A r \in rows : GrantOf(r).key = r.key
      BY DEF GrantOf
    <2> QED
      BY <1>1, <2>1, <2>2, Zenon DEF LiveGrants, Recorded
  <1> QED
    BY <1>3, <1>4, <1>5, Zenon DEF Access!Revoke

\* For any requests the table changes as AccessTable says, whatever is
\* answered and whatever answers to a COMMIT are lost.
THEOREM HttpImplementsAccessTable == Spec => ImplementsAccessTable
  <1>1. Init => Access!Init
    BY DEF Init, Access!Init, LiveGrants, PastGrants
  <1>2. HInv /\ [Next]_vars => [Access!Next]_Access!avars
    <2> SUFFICES ASSUME HInv, [Next]_vars PROVE Access!Next \/ UNCHANGED Access!avars
      OBVIOUS
    <2>1. CASE UNCHANGED rows
      BY <2>1 DEF Access!avars, LiveGrants, PastGrants
    <2>2. ASSUME NEW c \in Calls, GrantInserted(c) PROVE Access!Next
      BY <2>2, GrantInsertedImplements DEF Access!Next
    <2>3. ASSUME NEW c \in Calls, RevokeDone(c) PROVE Access!Next
      BY <2>3, RevokeDoneImplements DEF Access!Next, Access!Keys, Keys
    <2> QED
      BY <2>1, <2>2, <2>3, Zenon
         DEF Next, List, Grant, Revoke, CheckAccess, Tick, Refuse, ListPage, DbFailure,
             GrantUnverified, GrantDuplicate, RevokeConflict, RevokeFailed,
             CheckAnswered, Unwritten, vars
  <1> QED
    BY <1>1, <1>2, HInvariant, PTL DEF Spec, ImplementsAccessTable, Access!Spec
=============================================================================
