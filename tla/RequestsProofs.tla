--------------------------- MODULE RequestsProofs ---------------------------
(***************************************************************************)
(* The theorems about Pages, Assets and Archives, which MCRequests         *)
(* instantiates: for any values of their constants.                        *)
(***************************************************************************)
EXTENDS MCRequests, FiniteSetTheorems, WellFoundedInduction, TLAPS

\* The instances have copies of the operators on finite sets.
LEMMA SameFinite == \A S : Listing!IsFiniteSet(S) <=> IsFiniteSet(S)
BY DEF Listing!IsFiniteSet, IsFiniteSet

LEMMA SameCardinality == \A S : Listing!Cardinality(S) = Cardinality(S)
BY DEF Listing!Cardinality, Cardinality

LEMMA SameSize == \A S : Timeline!Cardinality(S) = Cardinality(S)
BY DEF Timeline!Cardinality, Cardinality

-----------------------------------------------------------------------------
(* Pages: sets of ids *)

LEMMA Least ==
    ASSUME NEW T, T \subseteq Nat, T # {}
    PROVE  \E x \in T : \A y \in T : x <= y
<1>1. PICK x \in T : \A y \in T : ~(<<y, x>> \in OpToRel(<, Nat))
  BY NatLessThanWellFounded, WFMin
<1>2. \A y \in T : x <= y
  <2> SUFFICES ASSUME NEW y \in T, ~(x <= y) PROVE FALSE
    OBVIOUS
  <2>1. x \in Nat /\ y \in Nat /\ y < x
    OBVIOUS
  <2>2. <<y, x>> \in OpToRel(<, Nat)
    BY <2>1 DEF OpToRel
  <2> QED
    BY <1>1, <2>2
<1> QED
  BY <1>2

\* A finite set of numbers has a greatest element: the least number that bounds the set is
\* in it.
LEMMA Greatest ==
    ASSUME NEW T, T \subseteq Nat, T # {}, IsFiniteSet(T)
    PROVE  Listing!Max(T) \in T /\ \A y \in T : y <= Listing!Max(T)
<1> DEFINE Below(x) == {y \in T : y <= x}
           Counts   == {Cardinality(T) - Cardinality(Below(x)) : x \in T}
<1>1. \A x \in T : IsFiniteSet(Below(x)) /\ Cardinality(Below(x)) \in Nat /\ Cardinality(Below(x)) <= Cardinality(T)
  BY FS_Subset, FS_CardinalityType
<1>2. Cardinality(T) \in Nat
  BY FS_CardinalityType
<1>3. PICK n \in Counts : \A m \in Counts : n <= m
  <2>1. Counts \subseteq Nat /\ Counts # {}
    <3> HIDE DEF Below
    <3>1. \A x \in T : Cardinality(T) - Cardinality(Below(x)) \in Nat
      BY <1>1, <1>2
    <3> QED
      BY <3>1
  <2> HIDE DEF Counts
  <2> QED
    BY <2>1, Least
<1>4. PICK x \in T : n = Cardinality(T) - Cardinality(Below(x))
  OBVIOUS
<1>5. \A y \in T : y <= x
  <2> SUFFICES ASSUME NEW y \in T, ~(y <= x) PROVE FALSE
    OBVIOUS
  <2>1. Below(x) \subseteq Below(y) /\ y \in Below(y) /\ y \notin Below(x)
    <3>1. \A z \in T : z \in Int
      OBVIOUS
    <3>2. x < y
      BY <3>1
    <3>3. \A z \in Int : z <= x => z <= y
      BY <3>1, <3>2
    <3>4. Below(x) \subseteq Below(y)
      BY <3>1, <3>3
    <3>5. y <= y
      BY <3>1
    <3> QED
      BY <3>4, <3>5
  <2>2. Cardinality(Below(x)) < Cardinality(Below(y))
    BY <1>1, <2>1, FS_Subset
  <2>3. n <= Cardinality(T) - Cardinality(Below(y))
    BY <1>3
  <2> HIDE DEF Below, Counts
  <2> QED
    BY <1>1, <1>2, <1>4, <2>2, <2>3
<1>6. \E z \in T : \A y \in T : z >= y
  BY <1>5
<1> QED
  BY <1>6 DEF Listing!Max

\* The first n of a set are closed downwards, and when there are fewer, they are all.
LEMMA Firsts ==
    ASSUME NEW S, S \subseteq Nat, IsFiniteSet(S), NEW n \in Nat
    PROVE  /\ Listing!FirstOf(S, n) \subseteq S
           /\ \A x \in Listing!FirstOf(S, n), y \in S : y <= x => y \in Listing!FirstOf(S, n)
           /\ IsFiniteSet(Listing!FirstOf(S, n)) /\ Cardinality(Listing!FirstOf(S, n)) \in Nat
           /\ Cardinality(Listing!FirstOf(S, n)) <= n
           /\ Cardinality(Listing!FirstOf(S, n)) < n => Listing!FirstOf(S, n) = S
           /\ n # 0 /\ S # {} => Listing!FirstOf(S, n) # {}
<1> DEFINE Upto(x) == {q \in S : q <= x}
<1>1. \A x \in S : IsFiniteSet(Upto(x)) /\ Cardinality(Upto(x)) \in Nat
  BY FS_Subset, FS_CardinalityType
<1>2. Listing!FirstOf(S, n) = {x \in S : Cardinality(Upto(x)) <= n}
  BY SameCardinality DEF Listing!FirstOf
<1>3. IsFiniteSet(Listing!FirstOf(S, n)) /\ Cardinality(Listing!FirstOf(S, n)) \in Nat
  <2>1. Listing!FirstOf(S, n) \subseteq S
    BY <1>2
  <2> QED
    BY <2>1, FS_Subset, FS_CardinalityType
<1>4. ASSUME NEW x \in Listing!FirstOf(S, n), NEW y \in S, y <= x PROVE y \in Listing!FirstOf(S, n)
  <2>1. Upto(y) \subseteq Upto(x) /\ x \in S
    <3>1. x \in S /\ \A z \in S : z \in Int
      BY <1>2
    <3>2. y \in Int /\ x \in Int
      BY <3>1
    <3>3. \A z \in Int : z <= y => z <= x
      BY <1>4, <3>2
    <3> QED
      BY <3>1, <3>3
  <2>2. Cardinality(Upto(y)) <= Cardinality(Upto(x))
    BY <1>1, <2>1, FS_Subset
  <2>3. Cardinality(Upto(x)) <= n
    BY <1>2
  <2> HIDE DEF Upto
  <2> QED
    BY <1>1, <1>2, <2>1, <2>2, <2>3
<1>5. ASSUME Listing!FirstOf(S, n) # S PROVE n <= Cardinality(Listing!FirstOf(S, n))
  <2>1. PICK x \in S \ Listing!FirstOf(S, n) : \A y \in S \ Listing!FirstOf(S, n) : x <= y
    <3>1. S \ Listing!FirstOf(S, n) \subseteq Nat /\ S \ Listing!FirstOf(S, n) # {}
      BY <1>2, <1>5
    <3> QED
      BY <3>1, Least
  <2>2. Upto(x) \subseteq Listing!FirstOf(S, n) \cup {x} /\ x \notin Listing!FirstOf(S, n)
    <3>1. \A z \in S : z \in Int
      OBVIOUS
    <3>2. ASSUME NEW z \in S, z <= x, z \notin Listing!FirstOf(S, n) PROVE z = x
      BY <2>1, <3>1, <3>2
    <3> QED
      BY <2>1, <3>2
  <2>3. /\ IsFiniteSet(Listing!FirstOf(S, n) \cup {x})
        /\ Cardinality(Listing!FirstOf(S, n) \cup {x}) = Cardinality(Listing!FirstOf(S, n)) + 1
    BY <1>3, <2>2, FS_AddElement
  <2>4. Cardinality(Upto(x)) <= Cardinality(Listing!FirstOf(S, n)) + 1
    BY <2>2, <2>3, FS_Subset
  <2>5. ~(Cardinality(Upto(x)) <= n)
    BY <1>2, <2>1
  <2> HIDE DEF Upto
  <2> QED
    BY <1>1, <1>3, <2>4, <2>5
<1>6. ASSUME n # 0, S # {} PROVE Listing!FirstOf(S, n) # {}
  <2>1. CASE Listing!FirstOf(S, n) = S
    BY <1>6, <2>1
  <2>2. CASE Listing!FirstOf(S, n) # S
    BY <1>3, <1>5, <1>6, <2>2, FS_EmptySet
  <2> QED
    BY <2>1, <2>2
<1>7. Cardinality(Listing!FirstOf(S, n)) <= n
  <2>1. CASE Listing!FirstOf(S, n) = {}
    BY <2>1, FS_EmptySet
  <2>2. CASE Listing!FirstOf(S, n) # {}
    <3>1. Listing!FirstOf(S, n) \subseteq Nat
      BY <1>2
    <3>2. PICK x \in Listing!FirstOf(S, n) : \A y \in Listing!FirstOf(S, n) : y <= x
      BY <1>3, <2>2, <3>1, Greatest
    <3>3. x \in S /\ Listing!FirstOf(S, n) \subseteq Upto(x) /\ Cardinality(Upto(x)) <= n
      BY <1>2, <3>2
    <3>4. Cardinality(Listing!FirstOf(S, n)) <= Cardinality(Upto(x))
      BY <1>1, <3>3, FS_Subset
    <3> HIDE DEF Upto
    <3> QED
      BY <1>1, <1>3, <3>3, <3>4
  <2> QED
    BY <2>1, <2>2
<1> QED
  BY <1>2, <1>3, <1>4, <1>5, <1>6, <1>7

-----------------------------------------------------------------------------
(* Pages: the invariant *)

\* Rows that have been there all the time, are allowed, and not beyond an id.
SteadyUpto(id) == {s \in steady : s <= id}

PagesInv ==
    /\ rows \subseteq Id /\ steady \subseteq rows \cap Allowed
    /\ listing \in {"ready", "again", "scan", "finished"}
    /\ asked \in Nat /\ cursor \in Nat /\ limit \in Nat \ {0} /\ scanned \in Nat
    /\ items \subseteq Id
    /\ listing # "finished" => SteadyUpto(asked) \subseteq got
    /\ listing = "scan" =>
         /\ asked <= cursor /\ scanned < ScanLimit
         /\ \A i \in items : i <= cursor
         /\ Cardinality(items) < limit
         /\ SteadyUpto(cursor) \subseteq got \cup items
    /\ listing = "finished" => steady \subseteq got

LEMMA PagesInvInit == ASSUME Listing!PagesAssumption PROVE Listing!Init => PagesInv
<1>1. \A i \in Id : i \in Nat /\ ~(i <= 0)
  BY Listing!PagesAssumption DEF Listing!PagesAssumption
<1> SUFFICES ASSUME Listing!Init PROVE PagesInv
  OBVIOUS
<1>2. rows \subseteq Id /\ steady \subseteq rows \cap Allowed
  BY DEF Listing!Init
<1>3. SteadyUpto(0) = {}
  BY <1>1, <1>2 DEF SteadyUpto
<1> QED
  BY <1>2, <1>3 DEF Listing!Init, PagesInv

LEMMA ScanStep ==
    ASSUME Listing!PagesAssumption, PagesInv, Listing!Scan
    PROVE  PagesInv'
<1> DEFINE n     == Listing!Smaller(PageLimit, ScanLimit - scanned)
           rest  == Listing!RowsAfter(cursor)
           page  == Listing!FirstOf(rest, n)
           more  == rest # page
           room  == limit - Cardinality(items)
           found == Listing!FirstOf(page \cap Allowed, room)
<1>1. /\ listing = "scan" /\ items' = items \cup found /\ UNCHANGED <<rows, steady>>
      /\ IF Cardinality(items') = limit THEN Listing!Answer(Listing!CursorAfter(page, found, more))
         ELSE IF ~more THEN Listing!Answer(0)
         ELSE IF scanned + Cardinality(page) >= ScanLimit THEN Listing!Answer(Listing!Max(page))
         ELSE /\ cursor' = Listing!Max(page) /\ scanned' = scanned + Cardinality(page)
              /\ UNCHANGED <<listing, asked, limit, got>>
  BY SameCardinality DEF Listing!Scan
<1>2. /\ \A i \in Id : i \in Nat /\ i # 0
      /\ IsFiniteSet(Id) /\ ScanLimit \in Nat \ {0} /\ PageLimit \in Nat \ {0}
  BY SameFinite DEF Listing!PagesAssumption
<1>3. n \in Nat \ {0}
  BY <1>1, <1>2 DEF PagesInv, Listing!Smaller
<1>4. IsFiniteSet(items) /\ Cardinality(items) \in Nat /\ room \in Nat \ {0}
  <2>1. IsFiniteSet(items) /\ Cardinality(items) \in Nat
    BY <1>2, FS_Subset, FS_CardinalityType DEF PagesInv
  <2> QED
    BY <1>1, <2>1 DEF PagesInv
<1>5. rest \subseteq Id /\ rest \subseteq Nat /\ IsFiniteSet(rest) /\ \A r \in rest : r > cursor
  <2>1. rest \subseteq Id
    BY DEF Listing!RowsAfter, PagesInv
  <2> QED
    BY <1>2, <2>1, FS_Subset DEF Listing!RowsAfter
<1> HIDE DEF n, rest
<1>6. /\ page \subseteq rest /\ IsFiniteSet(page) /\ Cardinality(page) \in Nat
      /\ \A x \in page, y \in rest : y <= x => y \in page
      /\ rest # {} => page # {}
  BY <1>3, <1>5, Firsts
<1>7. page \cap Allowed \subseteq Nat /\ IsFiniteSet(page \cap Allowed)
  BY <1>5, <1>6, FS_Subset
<1> HIDE DEF page, room
<1>8. /\ found \subseteq page \cap Allowed /\ IsFiniteSet(found) /\ Cardinality(found) \in Nat
      /\ \A x \in found, y \in page \cap Allowed : y <= x => y \in found
      /\ Cardinality(found) <= room /\ (Cardinality(found) < room => found = page \cap Allowed)
  BY <1>4, <1>7, Firsts
<1> HIDE DEF found
<1>9. Cardinality(items') = Cardinality(items) + Cardinality(found) /\ items' \subseteq Id /\ IsFiniteSet(items')
  <2>1. \A i \in items : i \notin found
    BY <1>1, <1>2, <1>5, <1>6, <1>8 DEF PagesInv
  <2>2. items \cap found = {}
    BY <2>1
  <2>3. IsFiniteSet(items \cup found) /\ Cardinality(items \cup found) = Cardinality(items) + Cardinality(found)
    BY <1>4, <1>8, <2>2, FS_Union, FS_EmptySet
  <2> QED
    BY <1>1, <1>5, <1>6, <1>8, <2>3 DEF PagesInv
\* Steady rows beyond the cursor are among those rest.
<1>10. \A s \in steady : s \in Nat /\ s \in Allowed /\ s \in rows /\ (s <= cursor \/ s \in rest)
  BY <1>2, <1>5 DEF PagesInv, rest, Listing!RowsAfter
<1>11. Cardinality(items') # limit => found = page \cap Allowed
  BY <1>1, <1>4, <1>8, <1>9 DEF PagesInv, room
<1>12. rest # {} => Listing!Max(page) \in page /\ Listing!Max(page) \in Nat \ {0} /\ \A y \in page : y <= Listing!Max(page)
  <2>1. page \subseteq Nat
    BY <1>5, <1>6
  <2> QED
    BY <1>2, <1>5, <1>6, <2>1, Greatest
<1>13. rest # {} => \A s \in steady : s <= Listing!Max(page) => s <= cursor \/ s \in page
  BY <1>6, <1>10, <1>12
<1>14. \A s \in steady : s <= cursor => s \in got \cup items'
  BY <1>1 DEF PagesInv, SteadyUpto
<1>15. ASSUME NEW next \in Nat, Listing!Answer(next),
             next = 0 => steady \subseteq got \cup items',
             next # 0 => SteadyUpto(next) \subseteq got \cup items'
       PROVE  PagesInv'
  BY <1>1, <1>9, <1>15 DEF PagesInv, Listing!Answer, SteadyUpto
<1>16. CASE Cardinality(items') = limit
  <2>1. found # {}
    <3>1. Cardinality(found) # 0
      BY <1>1, <1>4, <1>9, <1>16 DEF PagesInv
    <3> QED
      BY <3>1, FS_EmptySet
  <2>2. Listing!Max(found) \in found /\ \A y \in found : y <= Listing!Max(found)
    <3>1. found \subseteq Nat
      BY <1>7, <1>8
    <3> QED
      BY <1>8, <2>1, <3>1, Greatest
  <2>3. rest # {} /\ Listing!Max(found) \in page /\ Listing!Max(found) \in Nat \ {0}
    BY <1>2, <1>5, <1>6, <1>8, <2>2
  <2>4. Listing!Answer(Listing!CursorAfter(page, found, more))
    BY <1>1, <1>16
  <2>5. ASSUME NEW s \in steady, s <= Listing!Max(found) PROVE s \in got \cup items'
    <3>1. CASE s <= cursor
      BY <1>14, <3>1
    <3>2. CASE s \in rest
      BY <1>1, <1>6, <1>8, <1>10, <2>2, <2>3, <2>5, <3>2
    <3> QED
      BY <1>10, <3>1, <3>2
  <2>6. CASE Listing!Max(found) # Listing!Max(page)
    BY <1>15, <2>3, <2>4, <2>5, <2>6 DEF Listing!CursorAfter, SteadyUpto
  <2>7. CASE Listing!Max(found) = Listing!Max(page) /\ more
    BY <1>15, <2>3, <2>4, <2>5, <2>7 DEF Listing!CursorAfter, SteadyUpto
  <2>8. CASE Listing!Max(found) = Listing!Max(page) /\ ~more
    <3>1. \A s \in steady : s <= cursor \/ s <= Listing!Max(found)
      BY <1>10, <1>12, <2>3, <2>8
    <3>2. steady \subseteq got \cup items'
      BY <1>14, <2>5, <3>1
    <3> QED
      BY <1>15, <2>4, <2>8, <3>2 DEF Listing!CursorAfter
  <2> QED
    BY <2>6, <2>7, <2>8
<1>17. CASE Cardinality(items') # limit /\ ~more
  <2>1. steady \subseteq got \cup items'
    BY <1>1, <1>10, <1>11, <1>14, <1>17
  <2> QED
    BY <1>1, <1>15, <1>17, <2>1
<1>18. CASE Cardinality(items') # limit /\ more
  <2>1. rest # {}
    <3>1. CASE rest = {}
      BY <1>6, <1>18, <3>1
    <3> QED
      BY <3>1
  <2>2. SteadyUpto(Listing!Max(page)) \subseteq got \cup items'
    BY <1>1, <1>10, <1>11, <1>13, <1>14, <1>18, <2>1 DEF SteadyUpto
  <2>3. CASE scanned + Cardinality(page) >= ScanLimit
    BY <1>1, <1>12, <1>15, <1>18, <2>1, <2>2, <2>3
  <2>4. CASE ~(scanned + Cardinality(page) >= ScanLimit)
    <3>1. /\ cursor' = Listing!Max(page) /\ scanned' = scanned + Cardinality(page)
          /\ UNCHANGED <<rows, steady, listing, asked, limit, got>>
      BY <1>1, <1>18, <2>4
    <3>2. Listing!Max(page) \in Nat /\ Listing!Max(page) > cursor
      BY <1>5, <1>6, <1>12, <2>1
    <3>3. \A i \in items' : i <= cursor'
      BY <1>1, <1>2, <1>8, <1>12, <2>1, <3>1, <3>2 DEF PagesInv
    <3>4. Cardinality(items') < limit'
      BY <1>4, <1>8, <1>9, <1>18, <3>1 DEF PagesInv, room
    <3>5. scanned' \in Nat /\ scanned' < ScanLimit
      BY <1>2, <1>6, <2>4, <3>1 DEF PagesInv
    <3>6. SteadyUpto(cursor)' \subseteq got' \cup items'
      BY <2>2, <3>1 DEF SteadyUpto
    <3> QED
      BY <1>1, <1>9, <3>1, <3>2, <3>3, <3>4, <3>5, <3>6 DEF PagesInv, SteadyUpto
  <2> QED
    BY <2>3, <2>4
<1> QED
  BY <1>16, <1>17, <1>18

LEMMA PagesInvStep ==
    ASSUME Listing!PagesAssumption
    PROVE  PagesInv /\ [Listing!Next]_(Listing!vars) => PagesInv'
<1> SUFFICES ASSUME PagesInv, [Listing!Next]_(Listing!vars) PROVE PagesInv'
  OBVIOUS
<1>1. CASE Listing!Begin
  <2>1. Cardinality({}) = 0
    BY FS_EmptySet
  <2>2. limit' \in Nat \ {0}
    BY <1>1 DEF Listing!Begin, Listing!PagesAssumption
  <2> QED
    BY <1>1, <2>1, <2>2 DEF Listing!Begin, PagesInv, SteadyUpto, Listing!PagesAssumption
<1>2. CASE Listing!Scan
  BY <1>2, ScanStep
<1>3. CASE Listing!Fail
  BY <1>3 DEF Listing!Fail, PagesInv, SteadyUpto
<1>4. ASSUME NEW id \in Id, Listing!Change(id) PROVE PagesInv'
  BY <1>4 DEF Listing!Change, PagesInv, SteadyUpto, Listing!call
<1>5. CASE UNCHANGED Listing!vars
  BY <1>5 DEF Listing!vars, Listing!call, PagesInv, SteadyUpto
<1> QED
  BY <1>1, <1>2, <1>3, <1>4, <1>5 DEF Listing!Next

\* Whoever follows the cursors to the end has seen every row that was there all the time
\* (NothingMissed), for any table, credential and limits.
THEOREM NothingIsMissed == Listing!Spec => []NothingMissed
<1>1. Listing!Init => PagesInv
  BY PagesInvInit, PagesAssumed
<1>2. PagesInv /\ [Listing!Next]_(Listing!vars) => PagesInv'
  BY PagesInvStep, PagesAssumed
<1>3. PagesInv => Listing!NothingMissed
  BY DEF PagesInv, Listing!NothingMissed
<1> QED
  BY <1>1, <1>2, <1>3, PTL DEF Listing!Spec, NothingMissed

-----------------------------------------------------------------------------
(* Assets: the bytes of assets and their order *)

\* Finitely many assets have finitely many bytes.
LEMMA WeightsFinite ==
    ASSUME Timeline!AssetsAssumption, NEW S, S \subseteq Kind \X Nat, IsFiniteSet(S)
    PROVE  IsFiniteSet(UNION {{k} \X (1..Size[k[1]]) : k \in S})
<1> DEFINE Of == {{k} \X (1..Size[k[1]]) : k \in S}
           f  == [k \in S |-> {k} \X (1..Size[k[1]])]
<1>1. IsFiniteSet(Of)
  <2>1. f \in Surjection(S, Of)
    BY DEF Surjection
  <2> QED
    BY <2>1, FS_Surjection
<1>2. ASSUME NEW T \in Of PROVE IsFiniteSet(T)
  <2>1. PICK k \in S : T = {k} \X (1..Size[k[1]])
    OBVIOUS
  <2>2. Size[k[1]] \in Nat
    <3>1. k[1] \in Kind
      OBVIOUS
    <3> QED
      BY <3>1 DEF Timeline!AssetsAssumption
  <2>3. IsFiniteSet({k}) /\ IsFiniteSet(1..Size[k[1]])
    BY <2>2, 1 \in Int, Size[k[1]] \in Int, FS_Singleton, FS_Interval
  <2> QED
    BY <2>1, <2>3, FS_Product
<1> QED
  BY <1>1, <1>2, FS_UNION

\* Some of the assets have at most the bytes of all.
LEMMA BytesAreMonotone ==
    ASSUME Timeline!AssetsAssumption, NEW S, S \subseteq Kind \X Nat, IsFiniteSet(S), NEW T, T \subseteq S
    PROVE  Timeline!Bytes(S) \in Nat /\ Timeline!Bytes(T) \in Nat /\ Timeline!Bytes(T) <= Timeline!Bytes(S)
<1>1. IsFiniteSet(UNION {{k} \X (1..Size[k[1]]) : k \in S})
  BY WeightsFinite
<1>2. UNION {{k} \X (1..Size[k[1]]) : k \in T} \in SUBSET UNION {{k} \X (1..Size[k[1]]) : k \in S}
  OBVIOUS
<1> QED
  BY <1>1, <1>2, FS_Subset, FS_CardinalityType, SameSize DEF Timeline!Bytes

LEMMA NothingHasNoBytes == Timeline!Bytes({}) = 0
<1>1. UNION {{k} \X (1..Size[k[1]]) : k \in {}} = {}
  OBVIOUS
<1> QED
  BY <1>1, FS_EmptySet, SameSize DEF Timeline!Bytes

\* The order of use: any two assets are comparable, and it has no cycle.
Ranked(order, keys) ==
    /\ \A j, k \in keys : j # k => <<j, k>> \in order \/ <<k, j>> \in order
    /\ \A k \in keys : <<k, k>> \notin order
    /\ \A i, j, k \in keys : <<i, j>> \in order /\ <<j, k>> \in order => <<i, k>> \in order

\* Whatever is left of the assets keeps an order.
LEMMA RankedSubset ==
    ASSUME NEW order, NEW keys, Ranked(order, keys), NEW S, S \subseteq keys
    PROVE  Ranked(order \cap (S \X S), S)
BY DEF Ranked

\* An order of use stays one when an asset is used, or comes in.
LEMMA TouchedIsRanked ==
    ASSUME NEW order, NEW old, Ranked(order, old), order \subseteq old \X old,
           NEW keys, NEW key \in keys, keys \ {key} \subseteq old
    PROVE  Ranked(Timeline!Touched(order, keys, key), keys)
<1>1. \A j, k \in keys \ {key} : <<j, k>> \in Timeline!Touched(order, keys, key) <=> <<j, k>> \in order
  BY DEF Timeline!Touched
<1>2. \A j \in keys \ {key} : <<j, key>> \in Timeline!Touched(order, keys, key)
  BY DEF Timeline!Touched
<1>3. \A j \in keys : <<key, j>> \notin Timeline!Touched(order, keys, key)
  BY DEF Timeline!Touched
<1> HIDE DEF Timeline!Touched
<1>4. \A j, k \in keys : j # k => <<j, k>> \in Timeline!Touched(order, keys, key) \/ <<k, j>> \in Timeline!Touched(order, keys, key)
  BY <1>1, <1>2 DEF Ranked
<1>5. \A k \in keys : <<k, k>> \notin Timeline!Touched(order, keys, key)
  BY <1>1, <1>3 DEF Ranked
<1>6. \A i, j, k \in keys :
         <<i, j>> \in Timeline!Touched(order, keys, key) /\ <<j, k>> \in Timeline!Touched(order, keys, key)
            => <<i, k>> \in Timeline!Touched(order, keys, key)
  BY <1>1, <1>2, <1>3 DEF Ranked
<1> QED
  BY <1>4, <1>5, <1>6 DEF Ranked

\* A bounded count has its greatest value somewhere.
LEMMA MostOf ==
    ASSUME NEW T, T # {}, NEW f \in [T -> Nat], NEW n \in Nat, \A x \in T : f[x] <= n
    PROVE  \E x \in T : \A y \in T : f[y] <= f[x]
<1> DEFINE Gaps == {n - f[x] : x \in T}
<1>1. Gaps \subseteq Nat /\ Gaps # {}
  OBVIOUS
<1>2. PICK m \in Gaps : \A g \in Gaps : m <= g
  <2> HIDE DEF Gaps
  <2> QED
    BY <1>1, Least
<1>3. PICK x \in T : m = n - f[x]
  OBVIOUS
<1>4. \A y \in T : n - f[x] <= n - f[y]
  BY <1>2, <1>3
<1>5. \A y \in T : f[y] <= f[x]
  BY <1>4
<1> QED
  BY <1>5

\* What eviction leaves fits the budget: the least recently used asset of it fits together
\* with all the others.
LEMMA EvictFits ==
    ASSUME Timeline!AssetsAssumption, budget \in Nat,
           NEW keys, keys \subseteq Kind \X Nat, IsFiniteSet(keys), NEW order, Ranked(order, keys)
    PROVE  Timeline!Bytes(Timeline!Evict(order, keys)) <= budget
<1> DEFINE Since(k) == {k} \cup {j \in keys : <<k, j>> \in order}
           kept     == Timeline!Evict(order, keys)
<1>1. kept = {k \in keys : Timeline!Bytes(Since(k)) <= budget}
  BY DEF Timeline!Evict
<1>2. \A k \in keys : Since(k) \subseteq keys /\ IsFiniteSet(Since(k)) /\ Cardinality(Since(k)) \in Nat /\ Cardinality(Since(k)) <= Cardinality(keys)
  BY FS_Subset, FS_CardinalityType
<1>3. CASE kept = {}
  BY <1>3, NothingHasNoBytes
<1>4. CASE kept # {}
  <2> DEFINE count == [k \in kept |-> Cardinality(Since(k))]
  <2>1. PICK k \in kept : \A j \in kept : count[j] <= count[k]
    <3>1. count \in [kept -> Nat] /\ Cardinality(keys) \in Nat /\ \A j \in kept : count[j] <= Cardinality(keys)
      BY <1>1, <1>2, FS_CardinalityType
    <3> HIDE DEF count, kept
    <3> QED
      BY <1>4, <3>1, MostOf
  <2>2. \A j \in kept : Cardinality(Since(j)) <= Cardinality(Since(k))
    BY <2>1
  <2>3. kept \subseteq Since(k)
    <3> SUFFICES ASSUME NEW j \in kept, j \notin Since(k) PROVE FALSE
      OBVIOUS
    <3>1. j \in keys /\ k \in keys
      BY <1>1
    <3>2. <<j, k>> \in order
      BY <3>1 DEF Ranked
    <3>3. Since(k) \subseteq Since(j) /\ Since(k) # Since(j)
      BY <3>1, <3>2 DEF Ranked
    <3>4. Cardinality(Since(k)) <= Cardinality(Since(j)) /\ Cardinality(Since(k)) # Cardinality(Since(j))
      <4> HIDE DEF Since
      <4> QED
        BY <1>2, <3>1, <3>3, FS_Subset
    <3> HIDE DEF Since, kept
    <3> QED
      BY <1>2, <2>2, <3>1, <3>4
  <2>4. Timeline!Bytes(Since(k)) <= budget /\ k \in keys
    BY <1>1
  <2>5. Since(k) \subseteq Kind \X Nat /\ IsFiniteSet(Since(k))
    BY <1>2, <2>4
  <2>6. Timeline!Bytes(kept) \in Nat /\ Timeline!Bytes(Since(k)) \in Nat /\ Timeline!Bytes(kept) <= Timeline!Bytes(Since(k))
    <3> HIDE DEF Since, kept
    <3> QED
      BY <2>3, <2>5, BytesAreMonotone
  <2> HIDE DEF Since, kept
  <2>7. Timeline!Bytes(kept) <= budget
    BY <2>4, <2>6
  <2> QED
    BY <2>7 DEF kept
<1> QED
  BY <1>3, <1>4

-----------------------------------------------------------------------------
(* Assets: the invariant *)

AssetsTyped ==
    /\ disk \in Nat \ {0} /\ catalog \in Nat /\ budget \in Nat
    /\ cache = [k \in Timeline!Cached |-> cache[k]]
    /\ Timeline!Cached \subseteq Kind \X Nat /\ IsFiniteSet(Timeline!Cached)
    /\ step \in [Client -> {"idle", "validate", "open", "cached", "render", "answered"}]
    /\ kind \in [Client -> Kind \cup {None}]
    /\ item \in [Client -> Nat \cup {None}]
    /\ source \in [Client -> Nat \cup {None}]
    /\ reads \in [Client -> SUBSET Nat]
    /\ since \in [Client -> SUBSET Nat]
    /\ DOMAIN answer = Client /\ answer = [c \in Client |-> answer[c]]

\* A cached asset was rendered from the version in its key or those that followed.
Fresh == \A k \in Timeline!Cached : cache[k] \subseteq k[2]..disk

\* A request has seen every version since it opened its file, and reads no other.
Informed(c) ==
    /\ step[c] # "answered" => answer[c] = None
    /\ step[c] # "idle" => disk \in since[c]
    /\ step[c] \in {"validate", "open", "cached", "render"} => kind[c] \in Kind
    /\ step[c] \in {"cached", "render"} => source[c] \in Nat /\ source[c] <= disk /\ source[c]..disk \subseteq since[c]
    /\ step[c] = "render" => reads[c] \subseteq source[c]..disk

Bound == \A c \in Client : Informed(c)

Ordered == older \subseteq Timeline!Cached \X Timeline!Cached /\ Ranked(older, Timeline!Cached)

AssetsInv == AssetsTyped /\ Fresh /\ Bound /\ Ordered /\ Timeline!FreshBytes /\ Timeline!WithinBudget

LEMMA AssetsInvInit == ASSUME Timeline!AssetsAssumption PROVE Timeline!Init => AssetsInv
<1> SUFFICES ASSUME Timeline!Init PROVE AssetsInv
  OBVIOUS
<1>1. Timeline!Cached = {} /\ older = {}
  BY DEF Timeline!Init, Timeline!Cached
<1>2. AssetsTyped
  BY <1>1, FS_EmptySet DEF Timeline!Init, AssetsTyped, Timeline!AssetsAssumption
<1>3. Fresh /\ Bound /\ Ordered /\ Timeline!FreshBytes
  BY <1>1 DEF Timeline!Init, Fresh, Bound, Informed, Ordered, Ranked, Timeline!FreshBytes
<1>4. Timeline!WithinBudget
  BY <1>1, <1>2, NothingHasNoBytes DEF AssetsTyped, Timeline!WithinBudget
<1> QED
  BY <1>2, <1>3, <1>4 DEF AssetsInv

\* What Keep leaves.
LEMMA Kept ==
    ASSUME NEW assets, NEW order, NEW keys, Timeline!Keep(assets, order, keys)
    PROVE  /\ Timeline!Cached' = keys /\ cache' = [k \in Timeline!Cached' |-> cache'[k]]
           /\ \A k \in keys : cache'[k] = assets[k]
           /\ older' = order \cap (keys \X keys)
BY DEF Timeline!Keep, Timeline!Cached

\* A hit comes from a version the request has seen, for its key has the version of the
\* file it has opened; and what eviction leaves fits.
LEMMA LookUpStep ==
    ASSUME Timeline!AssetsAssumption, AssetsInv, NEW c \in Client, Timeline!LookUp(c)
    PROVE  AssetsInv'
<1> DEFINE kept == Timeline!Evict(older, Timeline!Cached)
           key  == Timeline!KeyOf(c)
<1>1. Timeline!At(c, "cached") /\ over' = FALSE /\ UNCHANGED <<disk, catalog, budget, since>>
  BY DEF Timeline!LookUp, Timeline!media
<1>2. kept \subseteq Timeline!Cached /\ IsFiniteSet(kept)
  BY FS_Subset DEF Timeline!Evict, AssetsInv, AssetsTyped
<1>3. Timeline!Bytes(kept) <= budget
  BY EvictFits DEF AssetsInv, AssetsTyped, Ordered
<1> HIDE DEF kept, key
<1>4. CASE key \notin kept
  <2>1. /\ Timeline!Keep(cache, older, kept)
        /\ reads' = [reads EXCEPT ![c] = {source[c]}]
        /\ Timeline!Goto(c, "render") /\ UNCHANGED <<kind, known, item, source, detached, answer>>
    BY <1>4 DEF Timeline!LookUp, kept, key
  <2>2. Timeline!Cached' = kept /\ (\A k \in kept : cache'[k] = cache[k]) /\ cache' = [k \in Timeline!Cached' |-> cache'[k]]
    BY <2>1, Kept
  <2>3. Ordered'
    BY <1>2, <2>1, Kept, RankedSubset DEF AssetsInv, Ordered
  <2>4. AssetsTyped'
    BY <1>1, <1>2, <2>1, <2>2 DEF AssetsInv, AssetsTyped, Bound, Informed, Timeline!At,
       Timeline!Goto
  <2>5. Fresh' /\ Bound' /\ Timeline!FreshBytes'
    <3>1. Fresh'
      BY <1>1, <1>2, <2>1, <2>2 DEF AssetsInv, AssetsTyped, Fresh
    <3>2. Bound'
      BY <1>1, <1>2, <2>1, <2>2 DEF AssetsInv, AssetsTyped, Bound, Informed, Timeline!Reply,
         Timeline!Goto, Timeline!At
    <3>3. Timeline!FreshBytes'
      BY <1>1, <1>2, <2>1, <2>2 DEF AssetsInv, AssetsTyped, Timeline!FreshBytes, Timeline!Reply,
         Timeline!Goto, Timeline!At
    <3> QED
      BY <3>1, <3>2, <3>3
  <2>6. Timeline!WithinBudget'
    BY <1>1, <1>3, <2>2 DEF Timeline!WithinBudget, Timeline!Bytes
  <2> QED
    BY <2>3, <2>4, <2>5, <2>6 DEF AssetsInv
<1>5. CASE key \in kept
  <2>1. /\ Timeline!Keep(cache, Timeline!Touched(older, kept, key), kept)
        /\ Timeline!Reply(c, [status |-> "hit", of |-> cache[key]])
    BY <1>5 DEF Timeline!LookUp, kept, key
  <2>2. Timeline!Cached' = kept /\ (\A k \in kept : cache'[k] = cache[k]) /\ cache' = [k \in Timeline!Cached' |-> cache'[k]]
    BY <2>1, Kept
  <2>3. Ordered'
    <3>1. Ranked(Timeline!Touched(older, kept, key), kept)
      BY <1>2, <1>5, TouchedIsRanked DEF AssetsInv, Ordered
    <3> QED
      BY <2>1, <3>1, Kept, RankedSubset DEF Ordered
  <2>4. AssetsTyped'
    BY <1>1, <1>2, <2>1, <2>2 DEF AssetsInv, AssetsTyped, Timeline!Reply, Timeline!Goto
  <2>5. cache[key] \subseteq since[c]
    <3>1. cache[key] \subseteq source[c]..disk
      BY <1>2, <1>5 DEF AssetsInv, Fresh, key, Timeline!KeyOf
    <3> QED
      BY <1>1, <3>1 DEF AssetsInv, Bound, Informed, Timeline!At
  <2>6. Fresh' /\ Bound' /\ Timeline!FreshBytes'
    <3>1. Fresh'
      BY <1>1, <1>2, <2>1, <2>2, <2>5 DEF AssetsInv, AssetsTyped, Fresh
    <3>2. Bound'
      BY <1>1, <1>2, <2>1, <2>2, <2>5 DEF AssetsInv, AssetsTyped, Bound, Informed, Timeline!Reply,
         Timeline!Goto, Timeline!At
    <3>3. Timeline!FreshBytes'
      BY <1>1, <1>2, <2>1, <2>2, <2>5 DEF AssetsInv, AssetsTyped, Timeline!FreshBytes,
         Timeline!Reply, Timeline!Goto, Timeline!At
    <3> QED
      BY <3>1, <3>2, <3>3
  <2>7. Timeline!WithinBudget'
    BY <1>1, <1>3, <2>2 DEF Timeline!WithinBudget, Timeline!Bytes
  <2> QED
    BY <2>3, <2>4, <2>6, <2>7 DEF AssetsInv
<1> QED
  BY <1>4, <1>5

\* What is published was read from the version of its key or one of those that followed,
\* and it fits together with what eviction leaves.
LEMMA PublishStep ==
    ASSUME Timeline!AssetsAssumption, AssetsInv, NEW c \in Client, Timeline!Publish(c)
    PROVE  AssetsInv'
<1> DEFINE key    == Timeline!KeyOf(c)
           keys   == Timeline!Cached \cup {key}
           order  == Timeline!Touched(older, keys, key)
           kept   == Timeline!Evict(order, keys)
           assets == [k \in keys |-> IF k = key THEN reads[c] ELSE cache[k]]
<1>1. /\ Timeline!At(c, "render") /\ over' = FALSE /\ UNCHANGED <<disk, catalog, budget, since>>
      /\ Timeline!Keep(assets, order, kept)
      /\ Timeline!Reply(c, [status |-> "miss", of |-> reads[c]])
  BY DEF Timeline!Publish, Timeline!media
<1>2. key \in Kind \X Nat /\ key[2] = source[c] /\ reads[c] \subseteq source[c]..disk
  BY <1>1 DEF AssetsInv, Bound, Informed, Timeline!At, Timeline!KeyOf
<1>3. keys \subseteq Kind \X Nat /\ IsFiniteSet(keys)
  BY <1>2, FS_AddElement DEF AssetsInv, AssetsTyped
<1> HIDE DEF key
<1>4. Ranked(order, keys)
  <2>1. keys \ {key} \subseteq Timeline!Cached /\ key \in keys
    OBVIOUS
  <2> HIDE DEF keys
  <2> QED
    BY <2>1, TouchedIsRanked DEF AssetsInv, Ordered
<1>5. kept \subseteq keys /\ IsFiniteSet(kept)
  BY <1>3, FS_Subset DEF Timeline!Evict
<1>6. Timeline!Bytes(kept) <= budget
  <2> HIDE DEF order, keys
  <2> QED
    BY <1>3, <1>4, EvictFits DEF AssetsInv, AssetsTyped
<1>7. \A k \in keys : assets[k] \subseteq k[2]..disk
  BY <1>2 DEF AssetsInv, Fresh
<1> HIDE DEF keys, order, kept, assets
<1>8. Timeline!Cached' = kept /\ (\A k \in kept : cache'[k] = assets[k]) /\ cache' = [k \in Timeline!Cached' |-> cache'[k]]
  BY <1>1, Kept
<1>9. Ordered'
  BY <1>1, <1>4, <1>5, <1>8, Kept, RankedSubset DEF Ordered
<1>10. AssetsTyped'
  BY <1>1, <1>3, <1>5, <1>8 DEF AssetsInv, AssetsTyped, Timeline!Reply, Timeline!Goto
<1>11. Fresh' /\ Bound' /\ Timeline!FreshBytes'
  <2>1. reads[c] \subseteq since[c]
    BY <1>1, <1>2 DEF AssetsInv, Bound, Informed, Timeline!At
  <2> QED
    <3>1. Fresh'
      BY <1>1, <1>5, <1>7, <1>8, <2>1 DEF AssetsInv, AssetsTyped, Fresh
    <3>2. Bound'
      BY <1>1, <1>5, <1>7, <1>8, <2>1 DEF AssetsInv, AssetsTyped, Bound, Informed, Timeline!Reply,
         Timeline!Goto, Timeline!At
    <3>3. Timeline!FreshBytes'
      BY <1>1, <1>5, <1>7, <1>8, <2>1 DEF AssetsInv, AssetsTyped, Timeline!FreshBytes,
         Timeline!Reply, Timeline!Goto, Timeline!At
    <3> QED
      BY <3>1, <3>2, <3>3
<1>12. Timeline!WithinBudget'
  BY <1>1, <1>6, <1>8 DEF Timeline!WithinBudget, Timeline!Bytes
<1> QED
  BY <1>9, <1>10, <1>11, <1>12 DEF AssetsInv

\* To remove an asset frees its bytes.
LEMMA UnpublishStep ==
    ASSUME Timeline!AssetsAssumption, AssetsInv, NEW c \in Client, Timeline!Unpublish(c)
    PROVE  AssetsInv'
<1> DEFINE kept == Timeline!Cached \ {Timeline!KeyOf(c)}
<1>1. /\ Timeline!At(c, "render") /\ UNCHANGED <<disk, catalog, budget, over, since>>
      /\ Timeline!Keep(cache, older, kept) /\ Timeline!Reply(c, None)
  BY DEF Timeline!Unpublish, Timeline!media
<1>2. kept \subseteq Timeline!Cached
  OBVIOUS
<1> HIDE DEF kept
<1>3. IsFiniteSet(kept)
  BY <1>2, FS_Subset DEF AssetsInv, AssetsTyped
<1>4. Timeline!Cached' = kept /\ (\A k \in kept : cache'[k] = cache[k]) /\ cache' = [k \in Timeline!Cached' |-> cache'[k]]
  BY <1>1, Kept
<1>5. Ordered'
  BY <1>1, <1>2, <1>4, Kept, RankedSubset DEF AssetsInv, Ordered
<1>6. AssetsTyped'
  BY <1>1, <1>2, <1>3, <1>4 DEF AssetsInv, AssetsTyped, Timeline!Reply, Timeline!Goto
<1>7. Fresh' /\ Bound' /\ Timeline!FreshBytes'
  BY <1>1, <1>2, <1>4 DEF AssetsInv, AssetsTyped, Fresh, Bound, Informed, Timeline!FreshBytes,
     Timeline!Reply, Timeline!Goto
<1>8. Timeline!WithinBudget'
  <2>1. Timeline!Bytes(kept) \in Nat /\ Timeline!Bytes(Timeline!Cached) \in Nat /\ Timeline!Bytes(kept) <= Timeline!Bytes(Timeline!Cached)
    BY <1>2, BytesAreMonotone DEF AssetsInv, AssetsTyped
  <2>2. Timeline!Bytes(Timeline!Cached)' = Timeline!Bytes(kept)
    BY <1>4 DEF Timeline!Bytes
  <2>3. CASE over
    BY <1>1, <2>3 DEF Timeline!WithinBudget
  <2>4. CASE Timeline!Bytes(Timeline!Cached) <= budget
    BY <1>1, <2>1, <2>2, <2>4 DEF AssetsInv, AssetsTyped, Timeline!WithinBudget
  <2> QED
    BY <2>3, <2>4 DEF AssetsInv, Timeline!WithinBudget
<1> QED
  BY <1>5, <1>6, <1>7, <1>8 DEF AssetsInv

\* A step that leaves the cache and its limit alone.
LEMMA StoreStays ==
    ASSUME AssetsInv, UNCHANGED Timeline!store, AssetsTyped', disk <= disk'
    PROVE  Fresh' /\ Ordered' /\ Timeline!WithinBudget'
<1>1. UNCHANGED <<cache, older, budget, over, Timeline!Cached>>
  BY DEF Timeline!store, Timeline!Cached
<1>2. Fresh'
  BY <1>1 DEF AssetsInv, AssetsTyped, Fresh
<1>3. Ordered'
  BY <1>1 DEF AssetsInv, Ordered
<1>4. Timeline!WithinBudget'
  BY <1>1 DEF AssetsInv, Timeline!WithinBudget, Timeline!Bytes
<1> QED
  BY <1>2, <1>3, <1>4

\* The steps of the handlers before and after the cache.
LEMMA HandlerStep ==
    ASSUME Timeline!AssetsAssumption, AssetsInv, NEW c \in Client,
           Timeline!Arrive(c) \/ Timeline!Validate(c) \/ Timeline!OpenSource(c) \/ Timeline!Fail(c) \/ Timeline!Leave(c)
    PROVE  AssetsInv'
<1>1. UNCHANGED Timeline!store /\ UNCHANGED <<disk, catalog>>
  BY DEF Timeline!Arrive, Timeline!Validate, Timeline!OpenSource, Timeline!Fail, Timeline!Leave,
     Timeline!media
<1>0. UNCHANGED <<cache, older, budget, over, Timeline!Cached>>
  BY <1>1 DEF Timeline!store, Timeline!Cached
<1>7. AssetsTyped' /\ Bound' /\ Timeline!FreshBytes'
  <2>2. CASE Timeline!Arrive(c)
    <3>1. AssetsTyped'
      BY <1>0, <1>1, <2>2 DEF Timeline!Arrive, AssetsInv, AssetsTyped, Timeline!At, Timeline!Goto
    <3>2. Bound'
      BY <1>0, <1>1, <2>2 DEF Timeline!Arrive, AssetsInv, AssetsTyped, Bound, Informed,
         Timeline!At, Timeline!Goto
    <3>3. Timeline!FreshBytes'
      BY <1>0, <1>1, <2>2 DEF Timeline!Arrive, AssetsInv, AssetsTyped, Bound, Informed,
         Timeline!FreshBytes, Timeline!At, Timeline!Goto
    <3> QED
      BY <3>1, <3>2, <3>3
  <2>3. CASE Timeline!Validate(c)
    <3>1. AssetsTyped'
      BY <1>0, <1>1, <2>3 DEF Timeline!Validate, AssetsInv, AssetsTyped, Timeline!At,
         Timeline!Goto, Timeline!Reply
    <3>2. Bound'
      <4>1. ASSUME NEW a, Timeline!Reply(c, a) PROVE Bound'
        <5>1. step[c] = "validate" /\ since' = since
          BY <2>3 DEF Timeline!Validate, Timeline!At
        <5> QED
          BY <1>1, <4>1, <5>1 DEF AssetsInv, AssetsTyped, Bound, Informed, Timeline!Goto,
             Timeline!Reply
      <4>2. CASE Timeline!Goto(c, "open") /\ UNCHANGED <<kind, source, reads, answer, since>>
        BY <1>0, <1>1, <2>3, <4>2 DEF Timeline!Validate, AssetsInv, AssetsTyped, Bound, Informed,
           Timeline!At, Timeline!Goto
      <4> QED
        BY <2>3, <4>1, <4>2 DEF Timeline!Validate
    <3>3. Timeline!FreshBytes'
      BY <1>0, <1>1, <2>3 DEF Timeline!Validate, AssetsInv, AssetsTyped, Bound, Informed,
         Timeline!FreshBytes, Timeline!At, Timeline!Goto, Timeline!Reply
    <3> QED
      BY <3>1, <3>2, <3>3
  <2>4. CASE Timeline!OpenSource(c)
    <3>1. AssetsTyped'
      BY <1>0, <1>1, <2>4 DEF Timeline!OpenSource, AssetsInv, AssetsTyped, Timeline!At,
         Timeline!Goto, Timeline!Reply
    <3>2. Bound'
      BY <1>0, <1>1, <2>4 DEF Timeline!OpenSource, AssetsInv, AssetsTyped, Bound, Informed,
         Timeline!At, Timeline!Goto, Timeline!Reply
    <3>3. Timeline!FreshBytes'
      BY <1>0, <1>1, <2>4 DEF Timeline!OpenSource, AssetsInv, AssetsTyped, Bound, Informed,
         Timeline!FreshBytes, Timeline!At, Timeline!Goto, Timeline!Reply
    <3> QED
      BY <3>1, <3>2, <3>3
  <2>5. CASE Timeline!Fail(c)
    BY <1>0, <1>1, <2>5 DEF Timeline!Fail, AssetsInv, AssetsTyped, Bound, Informed,
       Timeline!FreshBytes, Timeline!Goto, Timeline!Reply
  <2>6. CASE Timeline!Leave(c)
    BY <1>0, <1>1, <2>6 DEF Timeline!Leave, AssetsInv, AssetsTyped, Bound, Informed,
       Timeline!FreshBytes, Timeline!At, Timeline!Goto, Timeline!Reply
  <2> QED
    BY <2>2, <2>3, <2>4, <2>5, <2>6
<1> QED
  BY <1>1, <1>7, StoreStays DEF AssetsInv, AssetsTyped

\* Whoever is asking when the file changes has been shown the new version.
LEMMA NewVersionWitnessed ==
    ASSUME AssetsInv, disk' = disk + 1, UNCHANGED <<step, kind, source, answer>>,
           \A c \in Client : reads'[c] \subseteq reads[c] \cup {disk'}, Timeline!Witness
    PROVE  Bound'
<1> SUFFICES ASSUME NEW c \in Client PROVE Informed(c)'
  BY DEF Bound
<1>1. step[c] # "idle" => since'[c] = since[c] \cup {disk'}
  BY DEF Timeline!Witness
<1>2. Informed(c) /\ disk \in Nat
  BY DEF AssetsInv, AssetsTyped, Bound
<1>3. ASSUME step[c] \in {"cached", "render"}
      PROVE  /\ source[c] <= disk' /\ source[c]..disk' \subseteq since'[c]
             /\ step[c] = "render" => reads'[c] \subseteq source[c]..disk'
  <2>1. source[c] \in Nat /\ source[c] <= disk
    BY <1>2, <1>3 DEF Informed
  <2>2. source[c]..disk' = (source[c]..disk) \cup {disk'} /\ source[c] <= disk'
    BY <1>2, <2>1
  <2> QED
    BY <1>1, <1>2, <1>3, <2>2 DEF Informed
<1> QED
  BY <1>1, <1>2, <1>3 DEF Informed

\* The settings, the index and the file system.
LEMMA OutsideStep ==
    ASSUME Timeline!AssetsAssumption, AssetsInv,
           (\E n \in Limit : Timeline!SetMaxBytes(n)) \/ Timeline!Index \/ Timeline!Replace \/ Timeline!Rewrite
    PROVE  AssetsInv'
<1>1. ASSUME NEW n \in Limit, Timeline!SetMaxBytes(n) PROVE AssetsInv'
  <2>1. UNCHANGED <<cache, older, Timeline!Cached, Timeline!media, Timeline!locals, since>> /\ n \in Nat
    BY <1>1 DEF Timeline!SetMaxBytes, Timeline!Cached, Timeline!AssetsAssumption
  <2>2. AssetsTyped'
    BY <1>1, <2>1 DEF AssetsInv, AssetsTyped, Timeline!SetMaxBytes, Timeline!media,
       Timeline!locals
  <2>3. Fresh' /\ Bound' /\ Timeline!FreshBytes'
    BY <2>1 DEF AssetsInv, AssetsTyped, Fresh, Bound, Informed, Timeline!FreshBytes,
       Timeline!media, Timeline!locals
  <2>4. Ordered'
    BY <2>1 DEF AssetsInv, Ordered
  <2>5. Timeline!WithinBudget'
    <3>1. Timeline!Bytes(Timeline!Cached)' = Timeline!Bytes(Timeline!Cached) /\ Timeline!Bytes(Timeline!Cached) \in Nat
      BY <2>1, BytesAreMonotone DEF AssetsInv, AssetsTyped, Timeline!Bytes
    <3>2. CASE over'
      BY <3>2 DEF Timeline!WithinBudget
    <3>3. CASE ~over'
      <4>1. ~(Timeline!Bytes(Timeline!Cached) > n)
        BY <1>1, <3>3, Zenon DEF Timeline!SetMaxBytes
      <4> QED
        BY <1>1, <2>1, <3>1, <4>1 DEF Timeline!WithinBudget, Timeline!SetMaxBytes
    <3> QED
      BY <3>2, <3>3
  <2> QED
    BY <2>2, <2>3, <2>4, <2>5 DEF AssetsInv
<1>2. CASE Timeline!Index \/ Timeline!Replace \/ Timeline!Rewrite
  <2>1. UNCHANGED Timeline!store /\ UNCHANGED <<cache, older, budget, over, Timeline!Cached>>
    BY <1>2 DEF Timeline!Index, Timeline!Replace, Timeline!Rewrite, Timeline!store,
       Timeline!Cached
  <2>2. disk <= disk'
    BY <1>2 DEF Timeline!Index, Timeline!Replace, Timeline!Rewrite, AssetsInv, AssetsTyped
  <2>3. CASE Timeline!Index
    <3>1. AssetsTyped'
      BY <2>1, <2>3 DEF Timeline!Index, AssetsInv, AssetsTyped, Timeline!locals
    <3>2. Bound' /\ Timeline!FreshBytes'
      BY <2>1, <2>3 DEF Timeline!Index, AssetsInv, AssetsTyped, Bound, Informed,
         Timeline!FreshBytes, Timeline!locals
    <3> QED
      BY <2>1, <2>2, <3>1, <3>2, StoreStays DEF AssetsInv
  <2>4. CASE Timeline!Replace
    <3>1. AssetsTyped'
      BY <2>1, <2>4 DEF Timeline!Replace, Timeline!Witness, AssetsInv, AssetsTyped
    <3>2. Bound'
      BY <2>4, NewVersionWitnessed DEF Timeline!Replace, AssetsInv, AssetsTyped
    <3>3. Timeline!FreshBytes'
      BY <2>1, <2>4 DEF Timeline!Replace, Timeline!Witness, AssetsInv, AssetsTyped, Bound,
         Informed, Timeline!FreshBytes
    <3> QED
      BY <2>1, <2>2, <3>1, <3>2, <3>3, StoreStays DEF AssetsInv
  <2>5. CASE Timeline!Rewrite
    <3>1. AssetsTyped'
      BY <2>1, <2>5 DEF Timeline!Rewrite, Timeline!Witness, AssetsInv, AssetsTyped
    <3>2. Bound'
      BY <2>5, NewVersionWitnessed DEF Timeline!Rewrite, AssetsInv, AssetsTyped
    <3>3. Timeline!FreshBytes'
      BY <2>1, <2>5 DEF Timeline!Rewrite, Timeline!Witness, AssetsInv, AssetsTyped, Bound,
         Informed, Timeline!FreshBytes
    <3> QED
      BY <2>1, <2>2, <3>1, <3>2, <3>3, StoreStays DEF AssetsInv
  <2> QED
    BY <1>2, <2>3, <2>4, <2>5
<1> QED
  BY <1>1, <1>2

LEMMA AssetsInvStep ==
    ASSUME Timeline!AssetsAssumption, AssetsInv, [Timeline!Next]_(Timeline!vars)
    PROVE  AssetsInv'
<1>1. ASSUME NEW c \in Client,
             \/ Timeline!Arrive(c) \/ Timeline!Validate(c) \/ Timeline!OpenSource(c) \/ Timeline!LookUp(c)
             \/ Timeline!Publish(c) \/ Timeline!Unpublish(c) \/ Timeline!Fail(c) \/ Timeline!Leave(c)
      PROVE  AssetsInv'
  BY <1>1, HandlerStep, LookUpStep, PublishStep, UnpublishStep
<1>2. CASE UNCHANGED Timeline!vars
  <2>1. UNCHANGED Timeline!store /\ UNCHANGED <<cache, older, budget, over, Timeline!Cached, Timeline!media, Timeline!locals, since>>
    BY <1>2 DEF Timeline!vars, Timeline!store, Timeline!Cached
  <2>2. AssetsTyped'
    BY <2>1 DEF AssetsInv, AssetsTyped, Timeline!media, Timeline!locals
  <2>3. Bound' /\ Timeline!FreshBytes'
    BY <2>1 DEF AssetsInv, AssetsTyped, Bound, Informed, Timeline!FreshBytes, Timeline!media,
       Timeline!locals
  <2> QED
    BY <2>1, <2>2, <2>3, StoreStays DEF AssetsInv, AssetsTyped, Timeline!media
<1> QED
  BY <1>1, <1>2, OutsideStep DEF Timeline!Next

\* Whatever a request is shown comes from versions that the file has had meanwhile
\* (FreshBytes), for any number of clients and versions.
THEOREM FreshBytesAreServed == Timeline!Spec => []FreshBytes
<1>1. AssetsInv => Timeline!FreshBytes
  BY DEF AssetsInv
<1> QED
  BY <1>1, AssetsInvInit, AssetsInvStep, AssetsAssumed, PTL DEF Timeline!Spec, FreshBytes

\* Eviction keeps the cache within its budget (WithinBudget), whatever the sizes of the
\* assets and the limits.
THEOREM CacheStaysWithinBudget == Timeline!Spec => []WithinBudget
<1>1. AssetsInv => Timeline!WithinBudget
  BY DEF AssetsInv
<1> QED
  BY <1>1, AssetsInvInit, AssetsInvStep, AssetsAssumed, PTL DEF Timeline!Spec, WithinBudget

-----------------------------------------------------------------------------
(* Archives: the invariant *)

\* What a manifest may say, and the stages that need the lock.
Manifest == [name : Batch!Name, file : Request]
Working  == {"look", "read", "check", "compare", "build", "name", "publish", "open"}
Sure     == {"judge", "clean"}

ArchivesTyped ==
    /\ zip \in [Batch!Name -> Request \cup {None, Foreign}]
    /\ announced \in Manifest \cup {None}
    /\ present \subseteq Output
    /\ elapsed \in BOOLEAN /\ overlapped \in BOOLEAN
    /\ lock \in Request \cup {None}
    /\ content \in [Request -> SUBSET Output]
    /\ values \in [Process -> Batch!Name \cup {None}]
    /\ server \in [Process -> {"down", "boot", "judge", "clean", "up"}]
    /\ seen \in [Process -> Manifest \cup {None}]
    /\ stage \in [Request -> Working \cup {Batch!Free, "waiting"} \cup Batch!Ended]
    /\ attempt \in [Request -> Batch!Name]
    /\ note \in [Request -> Manifest \cup {None}]

\* A manifest that has been read was there.
Noted ==
    /\ \A p \in Process : server[p] \in Sure => seen[p] # None
    /\ \A r \in Request : stage[r] \in {"check", "compare"} => note[r] # None

\* The archive that a request has built lies in the directory.
InZip(r) == \E n \in Batch!Name : zip[n] = r

\* Only a whole archive gets a name, and once it has one it does not change.
Complete ==
    \A r \in Request :
        /\ stage[r] \in {"name", "publish", "open"} => Batch!Whole(r) /\ Batch!Readable(r)
        /\ InZip(r) => Batch!Whole(r) /\ Batch!Readable(r) /\ stage[r] \in {"open"} \cup Batch!Ended

\* The lock.
Exclusive == \A r \in Request : stage[r] \in Working => lock = r

\* Nobody reconciles during a publication.
NoOverlap == \A p \in Process, r \in Request : ~(server[p] \in Sure /\ stage[r] = "publish")

\* Whatever lies in the directory is announced ...
Listed == \A n \in Batch!Name : zip[n] \in Request => announced = [name |-> n, file |-> zip[n]]

\* ... and what a process remembers is that, as long as it has time left.
Remembered == \A p \in Process : values[p] # None /\ ~elapsed =>
    announced # None /\ announced.name = values[p] /\ zip[values[p]] = announced.file

\* Whoever builds an archive does so because there is none.
Building == \A r \in Request :
    /\ stage[r] \in {"build", "name", "publish"} => \A n \in Batch!Name : zip[n] \notin Request
    /\ stage[r] = "build" => elapsed \/ \A p \in Process : values[p] = None
    /\ stage[r] \in {"name", "publish"} => \A p \in Process : values[p] = None
    /\ stage[r] = "publish" => announced = [name |-> attempt[r], file |-> r]
    /\ stage[r] = "open" =>
        /\ announced \in {None, [name |-> attempt[r], file |-> r]}
        /\ ~elapsed => zip[attempt[r]] = r /\ values[Batch!Home(r)] = attempt[r]

\* What a starting process has read of the manifest.
Judged == \A p \in Process :
    /\ server[p] \in Sure => announced \in {None, seen[p]}
    /\ server[p] = "clean" => elapsed \/ ~Batch!Intact(seen[p])

Calm == NoOverlap /\ Listed /\ Remembered /\ Building /\ Judged
ArchivesInv == ArchivesTyped /\ Noted /\ Complete /\ Exclusive /\ (overlapped \/ Calm)


\* What an expired entry takes with it: the file under its name, or none, and the manifest
\* only together with that file.
LEMMA CleanupTakes ==
    ASSUME Batch!ArchivesAssumption, ArchivesInv, NEW p \in Process, Batch!Cleanup(p)
    PROVE  /\ elapsed /\ server[p] = "up" /\ values[p] \in Batch!Name
           /\ values' = [values EXCEPT ![p] = None]
           /\ UNCHANGED <<present, content, elapsed, lock, server, seen, stage, attempt, note, overlapped>>
           /\ zip' \in {zip, [zip EXCEPT ![values[p]] = None]}
           /\ \A n \in Batch!Name : zip'[n] \in Request => zip'[n] = zip[n]
           /\ announced' \in {announced, None}
           /\ announced' # announced =>
                /\ announced # None /\ announced.name = values[p]
                /\ zip[values[p]] = announced.file => zip' = [zip EXCEPT ![values[p]] = None]
<1> DEFINE Takes ==
           /\ zip' \in {zip, [zip EXCEPT ![values[p]] = None]}
           /\ announced' \in {announced, None}
           /\ announced' # announced =>
                /\ announced # None /\ announced.name = values[p]
                /\ zip[values[p]] = announced.file => zip' = [zip EXCEPT ![values[p]] = None]
<1>1. /\ elapsed /\ server[p] = "up" /\ values[p] \in Batch!Name
      /\ values' = [values EXCEPT ![p] = None]
      /\ UNCHANGED <<present, content, elapsed, lock, server, seen, stage, attempt, note, overlapped>>
  BY DEF Batch!Cleanup, ArchivesInv, ArchivesTyped, Batch!boots, Batch!calls
<1>2. ASSUME p \in owned PROVE Takes
  <2>1. /\ announced # None /\ announced.name = values[p]
        /\ zip' = [zip EXCEPT ![values[p]] = IF Batch!Intact(announced) THEN None ELSE zip[values[p]]]
        /\ announced' = None
    BY <1>2 DEF Batch!Cleanup
  <2>2. CASE Batch!Intact(announced)
    BY <1>1, <2>1, <2>2 DEF Batch!Intact
  <2>3. CASE ~Batch!Intact(announced)
    <3>1. zip' = zip
      BY <2>1, <2>3 DEF ArchivesInv, ArchivesTyped
    <3> QED
      BY <1>1, <2>1, <2>3, <3>1 DEF Batch!Intact
  <2> QED
    BY <2>2, <2>3
<1>3. ASSUME p \notin owned PROVE Takes
  BY <1>1, <1>3 DEF Batch!Cleanup
<1>4. \A n \in Batch!Name : zip'[n] \in Request => zip'[n] = zip[n]
  <2>1. zip' \in {zip, [zip EXCEPT ![values[p]] = None]}
    BY <1>2, <1>3
  <2> QED
    BY <1>1, <2>1 DEF ArchivesInv, ArchivesTyped, Batch!ArchivesAssumption
<1> QED
  BY <1>1, <1>2, <1>3, <1>4

\* Every step keeps the variables of Archives in their ranges.
LEMMA ArchivesTypedStep ==
    ASSUME Batch!ArchivesAssumption, ArchivesInv, [Batch!Next]_(Batch!vars)
    PROVE  (ArchivesTyped /\ Noted)'
<1> USE DEF Batch!ArchivesAssumption
<1>1. ASSUME NEW r \in Request, Batch!Ask(r) PROVE (ArchivesTyped /\ Noted)'
  <2>0. Batch!At(r, "idle") /\ UNCHANGED <<Batch!files, elapsed, Batch!stores, Batch!boots, cancelled, overlapped>>
    BY <1>1 DEF Batch!Ask, Batch!Free
  <2>1. CASE Batch!Hand(r)
    BY <2>0, <2>1 DEF ArchivesInv, ArchivesTyped, Noted, Batch!Hand, Batch!At, Batch!files,
       Batch!stores, Batch!boots, Batch!Free, Batch!Ended, Working, Batch!Name, Manifest, Sure,
       Batch!Goto, Batch!Unlock, Batch!Locals, Batch!Home
  <2>2. CASE Batch!Goto(r, "waiting") /\ UNCHANGED <<attempt, note, lock>>
    BY <2>0, <2>2 DEF ArchivesInv, ArchivesTyped, Noted, Batch!Goto, Batch!At, Batch!files,
       Batch!stores, Batch!boots, Batch!Free, Batch!Ended, Working, Batch!Name, Manifest, Sure,
       Batch!Home
  <2>3. CASE Batch!Fail(r)
    BY <2>0, <2>3 DEF ArchivesInv, ArchivesTyped, Noted, Batch!Fail, Batch!At, Batch!files,
       Batch!stores, Batch!boots, Batch!Free, Batch!Ended, Working, Batch!Name, Manifest, Sure,
       Batch!Goto, Batch!Unlock, Batch!Locals, Batch!Home
  <2> QED
    BY <1>1, <2>1, <2>2, <2>3 DEF Batch!Ask
<1>2. ASSUME NEW r \in Request, Batch!Lock(r) PROVE (ArchivesTyped /\ Noted)'
  BY <1>2 DEF Batch!Lock, ArchivesInv, ArchivesTyped, Noted, Batch!files, Batch!stores,
     Batch!boots, Batch!Goto, Batch!At, Batch!Free, Batch!Ended, Working, Batch!Name, Manifest,
     Sure, Batch!Home
<1>3. ASSUME NEW r \in Request, Batch!StopWaiting(r) PROVE (ArchivesTyped /\ Noted)'
  BY <1>3 DEF Batch!StopWaiting, ArchivesInv, ArchivesTyped, Noted, Batch!files, Batch!stores,
     Batch!boots, Batch!At, Batch!Fail, Batch!Free, Batch!Ended, Working, Batch!Name, Manifest,
     Sure, Batch!Home, Batch!Goto, Batch!Unlock, Batch!Locals
<1>4. ASSUME NEW r \in Request, Batch!Look(r) PROVE (ArchivesTyped /\ Noted)'
  <2>0. Batch!At(r, "look") /\ UNCHANGED <<Batch!files, elapsed, Batch!stores, Batch!boots, cancelled, overlapped>>
    BY <1>4 DEF Batch!Look
  <2>1. CASE Batch!Hand(r)
    BY <2>0, <2>1 DEF ArchivesInv, ArchivesTyped, Noted, Batch!Hand, Batch!At, Batch!files,
       Batch!stores, Batch!boots, Batch!Free, Batch!Ended, Working, Batch!Name, Manifest, Sure,
       Batch!Goto, Batch!Unlock, Batch!Locals, Batch!Home
  <2>2. CASE Batch!Fail(r)
    BY <2>0, <2>2 DEF ArchivesInv, ArchivesTyped, Noted, Batch!Fail, Batch!At, Batch!files,
       Batch!stores, Batch!boots, Batch!Free, Batch!Ended, Working, Batch!Name, Manifest, Sure,
       Batch!Goto, Batch!Unlock, Batch!Locals, Batch!Home
  <2>3. CASE Batch!Goto(r, "read") /\ UNCHANGED <<attempt, note, lock>>
    BY <2>0, <2>3 DEF ArchivesInv, ArchivesTyped, Noted, Batch!Goto, Batch!At, Batch!files,
       Batch!stores, Batch!boots, Batch!Free, Batch!Ended, Working, Batch!Name, Manifest, Sure,
       Batch!Home
  <2> QED
    BY <1>4, <2>1, <2>2, <2>3 DEF Batch!Look
<1>5. ASSUME NEW r \in Request, Batch!ReadManifest(r) PROVE (ArchivesTyped /\ Noted)'
  <2>0. Batch!At(r, "read") /\ UNCHANGED <<Batch!files, elapsed, Batch!stores, Batch!boots, cancelled, overlapped>>
    BY <1>5 DEF Batch!ReadManifest
  <2>1. CASE Batch!Goto(r, "build") /\ announced = None /\ UNCHANGED <<attempt, note, lock>>
    BY <2>0, <2>1 DEF ArchivesInv, ArchivesTyped, Noted, Batch!Goto, Batch!At, Batch!files,
       Batch!stores, Batch!boots, Batch!Free, Batch!Ended, Working, Batch!Name, Manifest, Sure,
       Batch!Home
  <2>2. CASE Batch!Fail(r)
    BY <2>0, <2>2 DEF ArchivesInv, ArchivesTyped, Noted, Batch!Fail, Batch!At, Batch!files,
       Batch!stores, Batch!boots, Batch!Free, Batch!Ended, Working, Batch!Name, Manifest, Sure,
       Batch!Goto, Batch!Unlock, Batch!Locals, Batch!Home
  <2>3. CASE /\ announced # None /\ note' = [note EXCEPT ![r] = announced]
            /\ Batch!Goto(r, "check") /\ UNCHANGED <<attempt, lock>>
    BY <2>0, <2>3 DEF ArchivesInv, ArchivesTyped, Noted, Batch!Goto, Batch!At, Batch!files,
       Batch!stores, Batch!boots, Batch!Free, Batch!Ended, Working, Batch!Name, Manifest, Sure,
       Batch!Home
  <2> QED
    BY <1>5, <2>1, <2>2, <2>3 DEF Batch!ReadManifest
<1>6. ASSUME NEW r \in Request, Batch!CheckPublished(r) PROVE (ArchivesTyped /\ Noted)'
  <2>0. Batch!At(r, "check") /\ UNCHANGED <<Batch!files, elapsed, owned, Batch!boots, cancelled, overlapped>>
    BY <1>6 DEF Batch!CheckPublished
  <2>1. CASE /\ Batch!Intact(note[r]) /\ values' = [values EXCEPT ![Batch!Home(r)] = note[r].name]
            /\ Batch!Goto(r, "compare") /\ UNCHANGED <<attempt, note, lock>>
    BY <2>0, <2>1 DEF ArchivesInv, ArchivesTyped, Noted, Batch!Goto, Batch!Home, Batch!Intact,
       Batch!At, Batch!files, Batch!stores, Batch!boots, Batch!Free, Batch!Ended, Working,
       Batch!Name, Manifest, Sure
  <2>2. CASE Batch!Fail(r) /\ UNCHANGED values
    BY <2>0, <2>2 DEF ArchivesInv, ArchivesTyped, Noted, Batch!Fail, Batch!At, Batch!files,
       Batch!stores, Batch!boots, Batch!Free, Batch!Ended, Working, Batch!Name, Manifest, Sure,
       Batch!Goto, Batch!Unlock, Batch!Locals, Batch!Home
  <2> QED
    BY <1>6, <2>1, <2>2 DEF Batch!CheckPublished
<1>7. ASSUME NEW r \in Request, Batch!Compare(r) PROVE (ArchivesTyped /\ Noted)'
  <2>0. Batch!At(r, "compare") /\ UNCHANGED <<Batch!files, elapsed, values, Batch!boots, cancelled, overlapped>>
    BY <1>7 DEF Batch!Compare
  <2>1. CASE Batch!Hand(r)
    BY <2>0, <2>1 DEF ArchivesInv, ArchivesTyped, Noted, Batch!Hand, Batch!At, Batch!files,
       Batch!stores, Batch!boots, Batch!Free, Batch!Ended, Working, Batch!Name, Manifest, Sure,
       Batch!Goto, Batch!Unlock, Batch!Locals, Batch!Home
  <2>2. CASE Batch!Fail(r)
    BY <2>0, <2>2 DEF ArchivesInv, ArchivesTyped, Noted, Batch!Fail, Batch!At, Batch!files,
       Batch!stores, Batch!boots, Batch!Free, Batch!Ended, Working, Batch!Name, Manifest, Sure,
       Batch!Goto, Batch!Unlock, Batch!Locals, Batch!Home
  <2> QED
    BY <1>7, <2>1, <2>2 DEF Batch!Compare
<1>8. ASSUME NEW r \in Request, Batch!Copy(r) PROVE (ArchivesTyped /\ Noted)'
  BY <1>8 DEF Batch!Copy, ArchivesInv, ArchivesTyped, Noted, Batch!stores, Batch!boots,
     Batch!Goto, Batch!At, Batch!Free, Batch!Ended, Working, Batch!Name, Manifest, Sure,
     Batch!Home
<1>9. ASSUME NEW r \in Request, Batch!Abandon(r) PROVE (ArchivesTyped /\ Noted)'
  BY <1>9 DEF Batch!Abandon, ArchivesInv, ArchivesTyped, Noted, Batch!stores, Batch!boots,
     Batch!At, Batch!Fail, Batch!Free, Batch!Ended, Working, Batch!Name, Manifest, Sure,
     Batch!Home, Batch!Goto, Batch!Unlock, Batch!Locals
<1>10. ASSUME NEW r \in Request, Batch!NextName(r) PROVE (ArchivesTyped /\ Noted)'
  BY <1>10 DEF Batch!NextName, ArchivesInv, ArchivesTyped, Noted, Batch!files, Batch!stores,
     Batch!boots, Batch!At, Batch!Free, Batch!Ended, Working, Batch!Name, Manifest, Sure,
     Batch!Home
<1>11. ASSUME NEW r \in Request, Batch!Announce(r) PROVE (ArchivesTyped /\ Noted)'
  BY <1>11 DEF Batch!Announce, ArchivesInv, ArchivesTyped, Noted, Batch!boots, Batch!Goto,
     Batch!At, Batch!Home, Batch!Overlap, Batch!Free, Batch!Ended, Working, Batch!Name, Manifest,
     Sure
<1>12. ASSUME NEW r \in Request, Batch!Publish(r) PROVE (ArchivesTyped /\ Noted)'
  BY <1>12 DEF Batch!Publish, ArchivesInv, ArchivesTyped, Noted, Batch!boots, Batch!Goto,
     Batch!At, Batch!Home, Batch!Free, Batch!Ended, Working, Batch!Name, Manifest, Sure
<1>13. ASSUME NEW r \in Request, Batch!Collision(r) PROVE (ArchivesTyped /\ Noted)'
  BY <1>13 DEF Batch!Collision, ArchivesInv, ArchivesTyped, Noted, Batch!boots, Batch!Goto,
     Batch!At, Batch!Home, Batch!ClearManifest, Batch!Free, Batch!Ended, Working, Batch!Name,
     Manifest, Sure
<1>14. ASSUME NEW r \in Request, Batch!PublishFails(r) PROVE (ArchivesTyped /\ Noted)'
  BY <1>14 DEF Batch!PublishFails, ArchivesInv, ArchivesTyped, Noted, Batch!boots, Batch!At,
     Batch!Home, Batch!Fail, Batch!ClearManifest, Batch!Free, Batch!Ended, Working, Batch!Name,
     Manifest, Sure, Batch!Goto, Batch!Unlock, Batch!Locals
<1>15. ASSUME NEW r \in Request, Batch!Deliver(r) PROVE (ArchivesTyped /\ Noted)'
  <2>0. Batch!At(r, "open") /\ UNCHANGED <<present, temp, content, elapsed, values, Batch!boots, cancelled, overlapped>>
    BY <1>15 DEF Batch!Deliver
  <2>1. CASE /\ Batch!Openable(values[Batch!Home(r)]) /\ Batch!Hand(r) /\ UNCHANGED <<zip, announced, owned>>
    BY <2>0, <2>1 DEF ArchivesInv, ArchivesTyped, Noted, Batch!Home, Batch!Hand, Batch!Openable,
       Batch!At, Batch!files, Batch!stores, Batch!boots, Batch!Free, Batch!Ended, Working,
       Batch!Name, Manifest, Sure, Batch!Goto, Batch!Unlock, Batch!Locals
  <2>2. CASE /\ ~Batch!Openable(values[Batch!Home(r)]) /\ zip' = [zip EXCEPT ![attempt[r]] = None]
            /\ Batch!ClearManifest(Batch!Home(r)) /\ Batch!Fail(r)
    BY <2>0, <2>2 DEF ArchivesInv, ArchivesTyped, Noted, Batch!Home, Batch!Fail,
       Batch!ClearManifest, Batch!Openable, Batch!At, Batch!files, Batch!stores, Batch!boots,
       Batch!Free, Batch!Ended, Working, Batch!Name, Manifest, Sure, Batch!Goto, Batch!Unlock,
       Batch!Locals
  <2> QED
    BY <1>15, <2>1, <2>2 DEF Batch!Deliver
<1>16. ASSUME NEW r \in Request, Batch!Close(r) PROVE (ArchivesTyped /\ Noted)'
  BY <1>16 DEF Batch!Close, ArchivesInv, ArchivesTyped, Noted, Batch!files, Batch!stores,
     Batch!boots, Batch!Goto, Batch!At, Batch!Free, Batch!Ended, Working, Batch!Name, Manifest,
     Sure, Batch!Home
<1>17. ASSUME NEW r \in Request, Batch!Cancel(r) PROVE (ArchivesTyped /\ Noted)'
  BY <1>17 DEF Batch!Cancel, ArchivesInv, ArchivesTyped, Noted, Batch!files, Batch!stores,
     Batch!boots, Batch!Ended, Batch!Free, Working, Batch!Name, Manifest, Sure
<1>18. ASSUME NEW p \in Process, Batch!Crash(p) PROVE (ArchivesTyped /\ Noted)'
  BY <1>18 DEF Batch!Crash, ArchivesInv, ArchivesTyped, Noted, Batch!files, Batch!Home,
     Batch!Free, Batch!Ended, Working, Batch!Name, Manifest, Sure
<1>19. ASSUME NEW p \in Process, Batch!Boot(p) PROVE (ArchivesTyped /\ Noted)'
  BY <1>19 DEF Batch!Boot, ArchivesInv, ArchivesTyped, Noted, Batch!files, Batch!stores,
     Batch!calls, Batch!Free, Batch!Ended, Working, Batch!Name, Manifest, Sure
<1>20. ASSUME NEW p \in Process, Batch!Reconcile(p) PROVE (ArchivesTyped /\ Noted)'
  BY <1>20 DEF Batch!Reconcile, ArchivesInv, ArchivesTyped, Noted, Batch!files, Batch!stores,
     Batch!calls, Batch!Overlap, Batch!Free, Batch!Ended, Working, Batch!Name, Manifest, Sure
<1>21. ASSUME NEW p \in Process, Batch!Adopt(p) PROVE (ArchivesTyped /\ Noted)'
  <2>1. /\ seen[p] \in Manifest /\ seen[p] # None
        /\ UNCHANGED <<zip, announced, present, content, elapsed, lock, stage, attempt, note>>
        /\ overlapped' \in BOOLEAN
    BY <1>21 DEF Batch!Adopt, Batch!files, Batch!calls, Batch!Overlap, ArchivesInv, ArchivesTyped, Noted, Sure
  <2>2. \/ /\ values' = [values EXCEPT ![p] = seen[p].name]
           /\ server' = [server EXCEPT ![p] = "up"]
           /\ seen' = [seen EXCEPT ![p] = None]
        \/ /\ server' = [server EXCEPT ![p] = "clean"]
           /\ UNCHANGED <<values, seen>>
    BY <1>21 DEF Batch!Adopt, Batch!stores
  <2>3. seen[p].name \in Batch!Name
    BY <2>1 DEF Manifest
  <2> QED
    BY <2>1, <2>2, <2>3 DEF ArchivesInv, ArchivesTyped, Noted, Sure
<1>22. ASSUME NEW p \in Process, Batch!Discard(p) PROVE (ArchivesTyped /\ Noted)'
  BY <1>22 DEF Batch!Discard, ArchivesInv, ArchivesTyped, Noted, Batch!stores, Batch!calls,
     Batch!Intact, Batch!Free, Batch!Ended, Working, Batch!Name, Manifest, Sure
<1>23. ASSUME NEW p \in Process, Batch!Cleanup(p) PROVE (ArchivesTyped /\ Noted)'
  <2>1. /\ zip' \in {zip, [zip EXCEPT ![values[p]] = None]} /\ values[p] \in Batch!Name
        /\ values' = [values EXCEPT ![p] = None] /\ announced' \in {announced, None}
        /\ UNCHANGED <<present, content, elapsed, lock, server, seen, stage, attempt, note, overlapped>>
    BY <1>23, CleanupTakes
  <2>2. zip' \in [Batch!Name -> Request \cup {None, Foreign}]
    BY <2>1 DEF ArchivesInv, ArchivesTyped
  <2> QED
    BY <2>1, <2>2 DEF ArchivesInv, ArchivesTyped, Noted
<1>24. ASSUME NEW n \in Batch!Name, Batch!Collide(n) PROVE (ArchivesTyped /\ Noted)'
  BY <1>24 DEF Batch!Collide, ArchivesInv, ArchivesTyped, Noted, Batch!Name, Batch!stores,
     Batch!boots, Batch!calls, Batch!Free, Batch!Ended, Working, Manifest, Sure
<1>25. ASSUME NEW o \in Output, Batch!Vanish(o) PROVE (ArchivesTyped /\ Noted)'
  BY <1>25 DEF Batch!Vanish, ArchivesInv, ArchivesTyped, Noted, Batch!stores, Batch!boots,
     Batch!calls, Batch!Free, Batch!Ended, Working, Batch!Name, Manifest, Sure
<1>26. CASE Batch!Expire
  BY <1>26 DEF Batch!Expire, ArchivesInv, ArchivesTyped, Noted, Batch!files, Batch!stores,
     Batch!boots, Batch!calls, Batch!Free, Batch!Ended, Working, Batch!Name, Manifest, Sure
<1>27. CASE UNCHANGED Batch!vars
  BY <1>27 DEF Batch!vars, ArchivesInv, ArchivesTyped, Noted, Batch!files, Batch!stores,
     Batch!boots, Batch!calls, Batch!Free, Batch!Ended, Working, Batch!Name, Manifest, Sure
<1> QED
  BY <1>1, <1>2, <1>3, <1>4, <1>5, <1>6, <1>7, <1>8, <1>9, <1>10, <1>11, <1>12, <1>13, <1>14,
     <1>15, <1>16, <1>17, <1>18, <1>19, <1>20, <1>21, <1>22, <1>23, <1>24, <1>25, <1>26, <1>27
     DEF Batch!Next, Batch!Step, Batch!Restart

\* A process that has reconciled during a publication stays on record.
LEMMA HistoryStays == ASSUME ArchivesInv, overlapped, [Batch!Next]_(Batch!vars) PROVE overlapped'
<1>1. ASSUME NEW r \in Request, Batch!Step(r) \/ Batch!Close(r) \/ Batch!Cancel(r) PROVE overlapped'
  BY <1>1 DEF Batch!Step, Batch!Close, Batch!Cancel, Batch!Ask, Batch!Lock, Batch!StopWaiting,
     Batch!Look, Batch!ReadManifest, Batch!CheckPublished, Batch!Compare, Batch!Copy,
     Batch!Abandon, 
     Batch!NextName, Batch!Announce, Batch!Publish, Batch!Collision, Batch!PublishFails, Batch!Deliver, Batch!Overlap
<1>2. ASSUME NEW p \in Process, Batch!Crash(p) \/ Batch!Restart(p) \/ Batch!Cleanup(p) PROVE overlapped'
  BY <1>2 DEF Batch!Crash, Batch!Restart, Batch!Cleanup, Batch!Boot, Batch!Reconcile, Batch!Adopt,
     Batch!Discard, Batch!Overlap
<1>3. CASE UNCHANGED Batch!vars
  BY <1>3 DEF Batch!vars
<1> QED
  BY <1>1, <1>2, <1>3 DEF Batch!Next, Batch!Collide, Batch!Vanish, Batch!Expire

\* No archive is named before all outputs are in it, and none changes afterwards.
LEMMA CompleteStep ==
    ASSUME Batch!ArchivesAssumption, ArchivesInv, [Batch!Next]_(Batch!vars)
    PROVE  Complete'
<1> USE DEF Batch!ArchivesAssumption
<1>1. ASSUME NEW r \in Request, Batch!Ask(r) PROVE Complete'
  <2>0. Batch!At(r, "idle") /\ UNCHANGED <<zip, content>>
    BY <1>1 DEF Batch!Ask, Batch!files, Batch!Free
  <2>1. CASE Batch!Hand(r)
    BY <2>0, <2>1 DEF ArchivesInv, ArchivesTyped, Complete, Batch!Hand, Batch!At, Batch!files,
       Batch!stores, Batch!boots, Batch!Free, Batch!Ended, Working, Batch!Name, Manifest,
       Batch!Whole, Batch!Readable, InZip, Batch!Goto, Batch!Unlock, Batch!Locals, Batch!Home
  <2>2. CASE Batch!Goto(r, "waiting") /\ UNCHANGED <<attempt, note, lock>>
    BY <2>0, <2>2 DEF ArchivesInv, ArchivesTyped, Complete, Batch!Goto, Batch!At, Batch!files,
       Batch!stores, Batch!boots, Batch!Free, Batch!Ended, Working, Batch!Name, Manifest,
       Batch!Whole, Batch!Readable, InZip, Batch!Home
  <2>3. CASE Batch!Fail(r)
    BY <2>0, <2>3 DEF ArchivesInv, ArchivesTyped, Complete, Batch!Fail, Batch!At, Batch!files,
       Batch!stores, Batch!boots, Batch!Free, Batch!Ended, Working, Batch!Name, Manifest,
       Batch!Whole, Batch!Readable, InZip, Batch!Goto, Batch!Unlock, Batch!Locals, Batch!Home
  <2> QED
    BY <1>1, <2>1, <2>2, <2>3 DEF Batch!Ask
<1>2. ASSUME NEW r \in Request, Batch!Lock(r) PROVE Complete'
  BY <1>2 DEF Batch!Lock, ArchivesInv, ArchivesTyped, Complete, Batch!files, Batch!stores,
     Batch!boots, Batch!Goto, Batch!At, Batch!Free, Batch!Ended, Working, Batch!Name, Manifest,
     Batch!Whole, Batch!Readable, InZip, Batch!Home
<1>3. ASSUME NEW r \in Request, Batch!StopWaiting(r) PROVE Complete'
  BY <1>3 DEF Batch!StopWaiting, ArchivesInv, ArchivesTyped, Complete, Batch!files, Batch!stores,
     Batch!boots, Batch!At, Batch!Fail, Batch!Free, Batch!Ended, Working, Batch!Name, Manifest,
     Batch!Whole, Batch!Readable, InZip, Batch!Home, Batch!Goto, Batch!Unlock, Batch!Locals
<1>4. ASSUME NEW r \in Request, Batch!Look(r) PROVE Complete'
  <2>1. stage[r] = "look" /\ UNCHANGED <<zip, content>>
    BY <1>4 DEF Batch!Look, Batch!At, Batch!files
  <2>2. \E at \in {"reading", "ended", "read"} : stage' = [stage EXCEPT ![r] = at]
    BY <1>4 DEF Batch!Look, Batch!Hand, Batch!Fail, Batch!Goto
  <2> QED
    BY <2>1, <2>2 DEF ArchivesInv, ArchivesTyped, Complete, Batch!Whole, Batch!Readable, InZip, Batch!Ended
<1>5. ASSUME NEW r \in Request, Batch!ReadManifest(r) PROVE Complete'
  <2>0. Batch!At(r, "read") /\ UNCHANGED <<Batch!files, elapsed, Batch!stores, Batch!boots, cancelled, overlapped>>
    BY <1>5 DEF Batch!ReadManifest
  <2>1. CASE Batch!Goto(r, "build") /\ announced = None /\ UNCHANGED <<attempt, note, lock>>
    BY <2>0, <2>1 DEF ArchivesInv, ArchivesTyped, Complete, Batch!Goto, Batch!At, Batch!files,
       Batch!stores, Batch!boots, Batch!Free, Batch!Ended, Working, Batch!Name, Manifest,
       Batch!Whole, Batch!Readable, InZip, Batch!Home
  <2>2. CASE Batch!Fail(r)
    BY <2>0, <2>2 DEF ArchivesInv, ArchivesTyped, Complete, Batch!Fail, Batch!At, Batch!files,
       Batch!stores, Batch!boots, Batch!Free, Batch!Ended, Working, Batch!Name, Manifest,
       Batch!Whole, Batch!Readable, InZip, Batch!Goto, Batch!Unlock, Batch!Locals, Batch!Home
  <2>3. CASE /\ announced # None /\ note' = [note EXCEPT ![r] = announced]
            /\ Batch!Goto(r, "check") /\ UNCHANGED <<attempt, lock>>
    BY <2>0, <2>3 DEF ArchivesInv, ArchivesTyped, Complete, Batch!Goto, Batch!At, Batch!files,
       Batch!stores, Batch!boots, Batch!Free, Batch!Ended, Working, Batch!Name, Manifest,
       Batch!Whole, Batch!Readable, InZip, Batch!Home
  <2> QED
    BY <1>5, <2>1, <2>2, <2>3 DEF Batch!ReadManifest
<1>6. ASSUME NEW r \in Request, Batch!CheckPublished(r) PROVE Complete'
  <2>0. Batch!At(r, "check") /\ UNCHANGED <<Batch!files, elapsed, owned, Batch!boots, cancelled, overlapped>>
    BY <1>6 DEF Batch!CheckPublished
  <2>1. CASE /\ Batch!Intact(note[r]) /\ values' = [values EXCEPT ![Batch!Home(r)] = note[r].name]
            /\ Batch!Goto(r, "compare") /\ UNCHANGED <<attempt, note, lock>>
    BY <2>0, <2>1 DEF ArchivesInv, ArchivesTyped, Complete, Batch!Goto, Batch!Home, Batch!Intact,
       Batch!At, Batch!files, Batch!stores, Batch!boots, Batch!Free, Batch!Ended, Working,
       Batch!Name, Manifest, Batch!Whole, Batch!Readable, InZip
  <2>2. CASE Batch!Fail(r) /\ UNCHANGED values
    BY <2>0, <2>2 DEF ArchivesInv, ArchivesTyped, Complete, Batch!Fail, Batch!At, Batch!files,
       Batch!stores, Batch!boots, Batch!Free, Batch!Ended, Working, Batch!Name, Manifest,
       Batch!Whole, Batch!Readable, InZip, Batch!Goto, Batch!Unlock, Batch!Locals, Batch!Home
  <2> QED
    BY <1>6, <2>1, <2>2 DEF Batch!CheckPublished
<1>7. ASSUME NEW r \in Request, Batch!Compare(r) PROVE Complete'
  <2>0. Batch!At(r, "compare") /\ UNCHANGED <<zip, content>>
    BY <1>7 DEF Batch!Compare, Batch!files, Batch!Free
  <2>1. CASE Batch!Hand(r)
    BY <2>0, <2>1 DEF ArchivesInv, ArchivesTyped, Complete, Batch!Hand, Batch!At, Batch!files,
       Batch!stores, Batch!boots, Batch!Free, Batch!Ended, Working, Batch!Name, Manifest,
       Batch!Whole, Batch!Readable, InZip, Batch!Goto, Batch!Unlock, Batch!Locals, Batch!Home
  <2>2. CASE Batch!Fail(r)
    BY <2>0, <2>2 DEF ArchivesInv, ArchivesTyped, Complete, Batch!Fail, Batch!At, Batch!files,
       Batch!stores, Batch!boots, Batch!Free, Batch!Ended, Working, Batch!Name, Manifest,
       Batch!Whole, Batch!Readable, InZip, Batch!Goto, Batch!Unlock, Batch!Locals, Batch!Home
  <2> QED
    BY <1>7, <2>1, <2>2 DEF Batch!Compare
<1>8. ASSUME NEW r \in Request, Batch!Copy(r) PROVE Complete'
  BY <1>8 DEF Batch!Copy, ArchivesInv, ArchivesTyped, Complete, Batch!stores, Batch!boots,
     Batch!Goto, Batch!At, Batch!Free, Batch!Ended, Working, Batch!Name, Manifest, Batch!Whole,
     Batch!Readable, InZip, Batch!Home
<1>9. ASSUME NEW r \in Request, Batch!Abandon(r) PROVE Complete'
  BY <1>9 DEF Batch!Abandon, ArchivesInv, ArchivesTyped, Complete, Batch!stores, Batch!boots,
     Batch!At, Batch!Fail, Batch!Free, Batch!Ended, Working, Batch!Name, Manifest, Batch!Whole,
     Batch!Readable, InZip, Batch!Home, Batch!Goto, Batch!Unlock, Batch!Locals
<1>10. ASSUME NEW r \in Request, Batch!NextName(r) PROVE Complete'
  BY <1>10 DEF Batch!NextName, ArchivesInv, ArchivesTyped, Complete, Batch!files, Batch!stores,
     Batch!boots, Batch!At, Batch!Free, Batch!Ended, Working, Batch!Name, Manifest, Batch!Whole,
     Batch!Readable, InZip, Batch!Home
<1>11. ASSUME NEW r \in Request, Batch!Announce(r) PROVE Complete'
  BY <1>11 DEF Batch!Announce, ArchivesInv, ArchivesTyped, Complete, Batch!boots, Batch!Goto,
     Batch!At, Batch!Home, Batch!Overlap, Batch!Free, Batch!Ended, Working, Batch!Name, Manifest,
     Batch!Whole, Batch!Readable, InZip
<1>12. ASSUME NEW r \in Request, Batch!Publish(r) PROVE Complete'
  BY <1>12 DEF Batch!Publish, ArchivesInv, ArchivesTyped, Complete, Batch!boots, Batch!Goto,
     Batch!At, Batch!Home, Batch!Free, Batch!Ended, Working, Batch!Name, Manifest, Batch!Whole,
     Batch!Readable, InZip
<1>13. ASSUME NEW r \in Request, Batch!Collision(r) PROVE Complete'
  BY <1>13 DEF Batch!Collision, ArchivesInv, ArchivesTyped, Complete, Batch!boots, Batch!Goto,
     Batch!At, Batch!Home, Batch!ClearManifest, Batch!Free, Batch!Ended, Working, Batch!Name,
     Manifest, Batch!Whole, Batch!Readable, InZip
<1>14. ASSUME NEW r \in Request, Batch!PublishFails(r) PROVE Complete'
  BY <1>14 DEF Batch!PublishFails, ArchivesInv, ArchivesTyped, Complete, Batch!boots, Batch!At,
     Batch!Home, Batch!Fail, Batch!ClearManifest, Batch!Free, Batch!Ended, Working, Batch!Name,
     Manifest, Batch!Whole, Batch!Readable, InZip, Batch!Goto, Batch!Unlock, Batch!Locals
<1>15. ASSUME NEW r \in Request, Batch!Deliver(r) PROVE Complete'
  <2>0. Batch!At(r, "open") /\ UNCHANGED <<present, temp, content, elapsed, values, Batch!boots, cancelled, overlapped>>
    BY <1>15 DEF Batch!Deliver
  <2>1. CASE /\ Batch!Openable(values[Batch!Home(r)]) /\ Batch!Hand(r) /\ UNCHANGED <<zip, announced, owned>>
    BY <2>0, <2>1 DEF ArchivesInv, ArchivesTyped, Complete, Batch!Home, Batch!Hand,
       Batch!Openable, Batch!At, Batch!files, Batch!stores, Batch!boots, Batch!Free, Batch!Ended,
       Working, Batch!Name, Manifest, Batch!Whole, Batch!Readable, InZip, Batch!Goto,
       Batch!Unlock, Batch!Locals
  <2>2. CASE /\ ~Batch!Openable(values[Batch!Home(r)]) /\ zip' = [zip EXCEPT ![attempt[r]] = None]
            /\ Batch!ClearManifest(Batch!Home(r)) /\ Batch!Fail(r)
    BY <2>0, <2>2 DEF ArchivesInv, ArchivesTyped, Complete, Batch!Home, Batch!Fail,
       Batch!ClearManifest, Batch!Openable, Batch!At, Batch!files, Batch!stores, Batch!boots,
       Batch!Free, Batch!Ended, Working, Batch!Name, Manifest, Batch!Whole, Batch!Readable, InZip,
       Batch!Goto, Batch!Unlock, Batch!Locals
  <2> QED
    BY <1>15, <2>1, <2>2 DEF Batch!Deliver
<1>16. ASSUME NEW r \in Request, Batch!Close(r) PROVE Complete'
  BY <1>16 DEF Batch!Close, ArchivesInv, ArchivesTyped, Complete, Batch!files, Batch!stores,
     Batch!boots, Batch!Goto, Batch!At, Batch!Free, Batch!Ended, Working, Batch!Name, Manifest,
     Batch!Whole, Batch!Readable, InZip, Batch!Home
<1>17. ASSUME NEW r \in Request, Batch!Cancel(r) PROVE Complete'
  BY <1>17 DEF Batch!Cancel, ArchivesInv, ArchivesTyped, Complete, Batch!files, Batch!stores,
     Batch!boots, Batch!Ended, Batch!Free, Working, Batch!Name, Manifest, Batch!Whole,
     Batch!Readable, InZip
<1>18. ASSUME NEW p \in Process, Batch!Crash(p) PROVE Complete'
  BY <1>18 DEF Batch!Crash, ArchivesInv, ArchivesTyped, Complete, Batch!files, Batch!Home,
     Batch!Free, Batch!Ended, Working, Batch!Name, Manifest, Batch!Whole, Batch!Readable, InZip
<1>19. ASSUME NEW p \in Process, Batch!Boot(p) PROVE Complete'
  BY <1>19 DEF Batch!Boot, ArchivesInv, ArchivesTyped, Complete, Batch!files, Batch!stores,
     Batch!calls, Batch!Free, Batch!Ended, Working, Batch!Name, Manifest, Batch!Whole,
     Batch!Readable, InZip
<1>20. ASSUME NEW p \in Process, Batch!Reconcile(p) PROVE Complete'
  BY <1>20 DEF Batch!Reconcile, ArchivesInv, ArchivesTyped, Complete, Batch!files, Batch!stores,
     Batch!calls, Batch!Overlap, Batch!Free, Batch!Ended, Working, Batch!Name, Manifest,
     Batch!Whole, Batch!Readable, InZip
<1>21. ASSUME NEW p \in Process, Batch!Adopt(p) PROVE Complete'
  BY <1>21 DEF Batch!Adopt, ArchivesInv, ArchivesTyped, Complete, Batch!files, Batch!stores,
     Batch!calls, Batch!Intact, Batch!Readable, Batch!Overlap, Batch!Free, Batch!Ended, Working,
     Batch!Name, Manifest, Batch!Whole, InZip
<1>22. ASSUME NEW p \in Process, Batch!Discard(p) PROVE Complete'
  BY <1>22 DEF Batch!Discard, ArchivesInv, ArchivesTyped, Complete, Batch!stores, Batch!calls,
     Batch!Intact, Batch!Free, Batch!Ended, Working, Batch!Name, Manifest, Batch!Whole,
     Batch!Readable, InZip
<1>23. ASSUME NEW p \in Process, Batch!Cleanup(p) PROVE Complete'
  <2>1. \A r \in Request : InZip(r)' => InZip(r)
    BY <1>23, CleanupTakes DEF InZip
  <2>2. UNCHANGED <<stage, content>>
    BY <1>23, CleanupTakes
  <2> QED
    BY <2>1, <2>2 DEF ArchivesInv, Complete, Batch!Whole, Batch!Readable
<1>24. ASSUME NEW n \in Batch!Name, Batch!Collide(n) PROVE Complete'
  BY <1>24 DEF Batch!Collide, ArchivesInv, ArchivesTyped, Complete, Batch!Name, Batch!stores,
     Batch!boots, Batch!calls, Batch!Free, Batch!Ended, Working, Manifest, Batch!Whole,
     Batch!Readable, InZip
<1>25. ASSUME NEW o \in Output, Batch!Vanish(o) PROVE Complete'
  BY <1>25 DEF Batch!Vanish, ArchivesInv, ArchivesTyped, Complete, Batch!stores, Batch!boots,
     Batch!calls, Batch!Free, Batch!Ended, Working, Batch!Name, Manifest, Batch!Whole,
     Batch!Readable, InZip
<1>26. CASE Batch!Expire
  BY <1>26 DEF Batch!Expire, ArchivesInv, ArchivesTyped, Complete, Batch!files, Batch!stores,
     Batch!boots, Batch!calls, Batch!Free, Batch!Ended, Working, Batch!Name, Manifest,
     Batch!Whole, Batch!Readable, InZip
<1>27. CASE UNCHANGED Batch!vars
  BY <1>27 DEF Batch!vars, ArchivesInv, ArchivesTyped, Complete, Batch!files, Batch!stores,
     Batch!boots, Batch!calls, Batch!Free, Batch!Ended, Working, Batch!Name, Manifest,
     Batch!Whole, Batch!Readable, InZip
<1> QED
  BY <1>1, <1>2, <1>3, <1>4, <1>5, <1>6, <1>7, <1>8, <1>9, <1>10, <1>11, <1>12, <1>13, <1>14,
     <1>15, <1>16, <1>17, <1>18, <1>19, <1>20, <1>21, <1>22, <1>23, <1>24, <1>25, <1>26, <1>27
     DEF Batch!Next, Batch!Step, Batch!Restart

\* Whoever returns, with a file or an error, gives back no lock but his own.
LEMMA LockGivenBack ==
    ASSUME ArchivesInv, NEW r \in Request, Batch!Fail(r) \/ Batch!Hand(r)
    PROVE  Exclusive'
<1>1. lock' = IF lock = r THEN None ELSE lock
  BY DEF Batch!Fail, Batch!Hand, Batch!Unlock
<1>2. stage' \in {[stage EXCEPT ![r] = "ended"], [stage EXCEPT ![r] = "reading"]}
  BY DEF Batch!Fail, Batch!Hand, Batch!Goto
<1>3. \A q \in Request : stage'[q] \in Working => q # r /\ stage'[q] = stage[q]
  BY <1>2 DEF ArchivesInv, ArchivesTyped, Working
<1> QED
  BY <1>1, <1>3 DEF ArchivesInv, Exclusive

\* Whoever works on the archive holds the lock: an error returns it, a crash frees it.
LEMMA ExclusiveStep ==
    ASSUME Batch!ArchivesAssumption, ArchivesInv, [Batch!Next]_(Batch!vars)
    PROVE  Exclusive'
<1> USE DEF Batch!ArchivesAssumption
<1>1. ASSUME NEW r \in Request, Batch!Ask(r) PROVE Exclusive'
  <2>1. CASE Batch!Hand(r) \/ Batch!Fail(r)
    BY <2>1, LockGivenBack
  <2>2. CASE Batch!Goto(r, "waiting") /\ UNCHANGED <<attempt, note, lock>>
    BY <2>2 DEF ArchivesInv, ArchivesTyped, Exclusive, Batch!Goto, Working
  <2> QED
    BY <1>1, <2>1, <2>2 DEF Batch!Ask
<1>2. ASSUME NEW r \in Request, Batch!Lock(r) PROVE Exclusive'
  BY <1>2 DEF Batch!Lock, ArchivesInv, ArchivesTyped, Exclusive, Batch!files, Batch!stores,
     Batch!boots, Batch!Goto, Batch!At, Batch!Free, Batch!Ended, Working, Batch!Name, Manifest,
     Batch!Home
<1>3. ASSUME NEW r \in Request, Batch!StopWaiting(r) PROVE Exclusive'
  BY <1>3, LockGivenBack DEF Batch!StopWaiting
<1>4. ASSUME NEW r \in Request, Batch!Look(r) PROVE Exclusive'
  <2>0. Batch!At(r, "look")
    BY <1>4 DEF Batch!Look
  <2>1. CASE Batch!Hand(r) \/ Batch!Fail(r)
    BY <2>1, LockGivenBack
  <2>3. CASE Batch!Goto(r, "read") /\ UNCHANGED <<attempt, note, lock>>
    BY <2>0, <2>3 DEF ArchivesInv, ArchivesTyped, Exclusive, Batch!Goto, Batch!At, Working
  <2> QED
    BY <1>4, <2>1, <2>3 DEF Batch!Look
<1>5. ASSUME NEW r \in Request, Batch!ReadManifest(r) PROVE Exclusive'
  BY <1>5 DEF Batch!ReadManifest, ArchivesInv, ArchivesTyped, Exclusive, Batch!files,
     Batch!stores, Batch!boots, Batch!Goto, Batch!At, Batch!Fail, Batch!Free, Batch!Ended,
     Working, Batch!Name, Manifest, Batch!Home, Batch!Unlock, Batch!Locals
<1>6. ASSUME NEW r \in Request, Batch!CheckPublished(r) PROVE Exclusive'
  BY <1>6 DEF Batch!CheckPublished, ArchivesInv, ArchivesTyped, Exclusive, Batch!files,
     Batch!boots, Batch!Goto, Batch!At, Batch!Home, Batch!Fail, Batch!Intact, Batch!Whole,
     Batch!Free, Batch!Ended, Working, Batch!Name, Manifest, Batch!Unlock, Batch!Locals
<1>7. ASSUME NEW r \in Request, Batch!Compare(r) PROVE Exclusive'
  BY <1>7, LockGivenBack DEF Batch!Compare
<1>8. ASSUME NEW r \in Request, Batch!Copy(r) PROVE Exclusive'
  BY <1>8 DEF Batch!Copy, ArchivesInv, ArchivesTyped, Exclusive, Batch!stores, Batch!boots,
     Batch!Goto, Batch!At, Batch!Free, Batch!Ended, Working, Batch!Name, Manifest, Batch!Home
<1>9. ASSUME NEW r \in Request, Batch!Abandon(r) PROVE Exclusive'
  BY <1>9, LockGivenBack DEF Batch!Abandon
<1>10. ASSUME NEW r \in Request, Batch!NextName(r) PROVE Exclusive'
  BY <1>10 DEF Batch!NextName, ArchivesInv, ArchivesTyped, Exclusive, Batch!files, Batch!stores,
     Batch!boots, Batch!At, Batch!Free, Batch!Ended, Working, Batch!Name, Manifest, Batch!Home
<1>11. ASSUME NEW r \in Request, Batch!Announce(r) PROVE Exclusive'
  BY <1>11 DEF Batch!Announce, ArchivesInv, ArchivesTyped, Exclusive, Batch!boots, Batch!Goto,
     Batch!At, Batch!Home, Batch!Overlap, Batch!Free, Batch!Ended, Working, Batch!Name, Manifest
<1>12. ASSUME NEW r \in Request, Batch!Publish(r) PROVE Exclusive'
  BY <1>12 DEF Batch!Publish, ArchivesInv, ArchivesTyped, Exclusive, Batch!boots, Batch!Goto,
     Batch!At, Batch!Home, Batch!Free, Batch!Ended, Working, Batch!Name, Manifest
<1>13. ASSUME NEW r \in Request, Batch!Collision(r) PROVE Exclusive'
  BY <1>13 DEF Batch!Collision, ArchivesInv, ArchivesTyped, Exclusive, Batch!boots, Batch!Goto,
     Batch!At, Batch!Home, Batch!ClearManifest, Batch!Free, Batch!Ended, Working, Batch!Name,
     Manifest
<1>14. ASSUME NEW r \in Request, Batch!PublishFails(r) PROVE Exclusive'
  BY <1>14, LockGivenBack DEF Batch!PublishFails
<1>15. ASSUME NEW r \in Request, Batch!Deliver(r) PROVE Exclusive'
  BY <1>15, LockGivenBack DEF Batch!Deliver
<1>16. ASSUME NEW r \in Request, Batch!Close(r) PROVE Exclusive'
  BY <1>16 DEF Batch!Close, ArchivesInv, ArchivesTyped, Exclusive, Batch!files, Batch!stores,
     Batch!boots, Batch!Goto, Batch!At, Batch!Free, Batch!Ended, Working, Batch!Name, Manifest,
     Batch!Home
<1>17. ASSUME NEW r \in Request, Batch!Cancel(r) PROVE Exclusive'
  BY <1>17 DEF Batch!Cancel, ArchivesInv, ArchivesTyped, Exclusive, Batch!files, Batch!stores,
     Batch!boots, Batch!Ended, Batch!Free, Working, Batch!Name, Manifest
<1>18. ASSUME NEW p \in Process, Batch!Crash(p) PROVE Exclusive'
  BY <1>18 DEF Batch!Crash, ArchivesInv, ArchivesTyped, Exclusive, Batch!files, Batch!Home,
     Batch!Free, Batch!Ended, Working, Batch!Name, Manifest
<1>19. ASSUME NEW p \in Process, Batch!Boot(p) PROVE Exclusive'
  BY <1>19 DEF Batch!Boot, ArchivesInv, ArchivesTyped, Exclusive, Batch!files, Batch!stores,
     Batch!calls, Batch!Free, Batch!Ended, Working, Batch!Name, Manifest
<1>20. ASSUME NEW p \in Process, Batch!Reconcile(p) PROVE Exclusive'
  BY <1>20 DEF Batch!Reconcile, ArchivesInv, ArchivesTyped, Exclusive, Batch!files, Batch!stores,
     Batch!calls, Batch!Overlap, Batch!Free, Batch!Ended, Working, Batch!Name, Manifest
<1>21. ASSUME NEW p \in Process, Batch!Adopt(p) PROVE Exclusive'
  BY <1>21 DEF Batch!Adopt, ArchivesInv, ArchivesTyped, Exclusive, Batch!files, Batch!stores,
     Batch!calls, Batch!Intact, Batch!Readable, Batch!Overlap, Batch!Free, Batch!Ended, Working,
     Batch!Name, Manifest
<1>22. ASSUME NEW p \in Process, Batch!Discard(p) PROVE Exclusive'
  BY <1>22 DEF Batch!Discard, ArchivesInv, ArchivesTyped, Exclusive, Batch!stores, Batch!calls,
     Batch!Intact, Batch!Free, Batch!Ended, Working, Batch!Name, Manifest
<1>23. ASSUME NEW p \in Process, Batch!Cleanup(p) PROVE Exclusive'
  BY <1>23, CleanupTakes DEF ArchivesInv, ArchivesTyped, Exclusive, Batch!Openable, Batch!files,
     Batch!stores, Batch!boots, Batch!calls, Batch!Goto, Batch!At, Batch!Home, Batch!Fail,
     Batch!Hand, Batch!Unlock, Batch!Locals, Batch!ClearManifest, Batch!Free, Batch!Ended,
     Working, Sure, Batch!Name, Manifest
<1>24. ASSUME NEW n \in Batch!Name, Batch!Collide(n) PROVE Exclusive'
  BY <1>24 DEF Batch!Collide, ArchivesInv, ArchivesTyped, Exclusive, Batch!Name, Batch!stores,
     Batch!boots, Batch!calls, Batch!Free, Batch!Ended, Working, Manifest
<1>25. ASSUME NEW o \in Output, Batch!Vanish(o) PROVE Exclusive'
  BY <1>25 DEF Batch!Vanish, ArchivesInv, ArchivesTyped, Exclusive, Batch!stores, Batch!boots,
     Batch!calls, Batch!Free, Batch!Ended, Working, Batch!Name, Manifest
<1>26. CASE Batch!Expire
  BY <1>26 DEF Batch!Expire, ArchivesInv, ArchivesTyped, Exclusive, Batch!files, Batch!stores,
     Batch!boots, Batch!calls, Batch!Free, Batch!Ended, Working, Batch!Name, Manifest
<1>27. CASE UNCHANGED Batch!vars
  BY <1>27 DEF Batch!vars, ArchivesInv, ArchivesTyped, Exclusive, Batch!files, Batch!stores,
     Batch!boots, Batch!calls, Batch!Free, Batch!Ended, Working, Batch!Name, Manifest
<1> QED
  BY <1>1, <1>2, <1>3, <1>4, <1>5, <1>6, <1>7, <1>8, <1>9, <1>10, <1>11, <1>12, <1>13, <1>14,
     <1>15, <1>16, <1>17, <1>18, <1>19, <1>20, <1>21, <1>22, <1>23, <1>24, <1>25, <1>26, <1>27
     DEF Batch!Next, Batch!Step, Batch!Restart

\* While nobody reconciles during a publication, nobody does: it would be on record.
LEMMA NoOverlapStep ==
    ASSUME Batch!ArchivesAssumption, ArchivesInv, ~overlapped, ~overlapped', Calm, [Batch!Next]_(Batch!vars)
    PROVE  NoOverlap'
<1> USE DEF Batch!ArchivesAssumption
<1>1. ASSUME NEW r \in Request, Batch!Ask(r) PROVE NoOverlap'
  BY <1>1 DEF Batch!Ask, ArchivesInv, ArchivesTyped, Calm, NoOverlap, Batch!files, Batch!stores,
     Batch!boots, Batch!Goto, Batch!At, Batch!Home, Batch!Fail, Batch!Hand, Batch!Free,
     Batch!Openable, Batch!Ended, Working, Batch!Name, Manifest, Sure, Batch!Unlock, Batch!Locals
<1>2. ASSUME NEW r \in Request, Batch!Lock(r) PROVE NoOverlap'
  BY <1>2 DEF Batch!Lock, ArchivesInv, ArchivesTyped, Calm, NoOverlap, Batch!files, Batch!stores,
     Batch!boots, Batch!Goto, Batch!At, Batch!Free, Batch!Ended, Working, Batch!Name, Manifest,
     Sure, Batch!Home
<1>3. ASSUME NEW r \in Request, Batch!StopWaiting(r) PROVE NoOverlap'
  BY <1>3 DEF Batch!StopWaiting, ArchivesInv, ArchivesTyped, Calm, NoOverlap, Batch!files,
     Batch!stores, Batch!boots, Batch!At, Batch!Fail, Batch!Free, Batch!Ended, Working,
     Batch!Name, Manifest, Sure, Batch!Home, Batch!Goto, Batch!Unlock, Batch!Locals
<1>4. ASSUME NEW r \in Request, Batch!Look(r) PROVE NoOverlap'
  BY <1>4 DEF Batch!Look, ArchivesInv, ArchivesTyped, Calm, NoOverlap, Batch!files, Batch!stores,
     Batch!boots, Batch!Goto, Batch!At, Batch!Home, Batch!Fail, Batch!Hand, Batch!Openable,
     Batch!Free, Batch!Ended, Working, Batch!Name, Manifest, Sure, Batch!Unlock, Batch!Locals
<1>5. ASSUME NEW r \in Request, Batch!ReadManifest(r) PROVE NoOverlap'
  BY <1>5 DEF Batch!ReadManifest, ArchivesInv, ArchivesTyped, Calm, NoOverlap, Batch!files,
     Batch!stores, Batch!boots, Batch!Goto, Batch!At, Batch!Fail, Batch!Free, Batch!Ended,
     Working, Batch!Name, Manifest, Sure, Batch!Home, Batch!Unlock, Batch!Locals
<1>6. ASSUME NEW r \in Request, Batch!CheckPublished(r) PROVE NoOverlap'
  BY <1>6 DEF Batch!CheckPublished, ArchivesInv, ArchivesTyped, Calm, NoOverlap, Batch!files,
     Batch!boots, Batch!Goto, Batch!At, Batch!Home, Batch!Fail, Batch!Intact, Batch!Whole,
     Batch!Free, Batch!Ended, Working, Batch!Name, Manifest, Sure, Batch!Unlock, Batch!Locals
<1>7. ASSUME NEW r \in Request, Batch!Compare(r) PROVE NoOverlap'
  BY <1>7 DEF Batch!Compare, ArchivesInv, ArchivesTyped, Calm, NoOverlap, Batch!files,
     Batch!boots, Batch!At, Batch!Home, Batch!Fail, Batch!Hand, Batch!Openable, Batch!Free,
     Batch!Ended, Working, Batch!Name, Manifest, Sure, Batch!Goto, Batch!Unlock, Batch!Locals
<1>8. ASSUME NEW r \in Request, Batch!Copy(r) PROVE NoOverlap'
  BY <1>8 DEF Batch!Copy, ArchivesInv, ArchivesTyped, Calm, NoOverlap, Batch!stores, Batch!boots,
     Batch!Goto, Batch!At, Batch!Free, Batch!Ended, Working, Batch!Name, Manifest, Sure,
     Batch!Home
<1>9. ASSUME NEW r \in Request, Batch!Abandon(r) PROVE NoOverlap'
  BY <1>9 DEF Batch!Abandon, ArchivesInv, ArchivesTyped, Calm, NoOverlap, Batch!stores,
     Batch!boots, Batch!At, Batch!Fail, Batch!Free, Batch!Ended, Working, Batch!Name, Manifest,
     Sure, Batch!Home, Batch!Goto, Batch!Unlock, Batch!Locals
<1>10. ASSUME NEW r \in Request, Batch!NextName(r) PROVE NoOverlap'
  BY <1>10 DEF Batch!NextName, ArchivesInv, ArchivesTyped, Calm, NoOverlap, Batch!files,
     Batch!stores, Batch!boots, Batch!At, Batch!Free, Batch!Ended, Working, Batch!Name, Manifest,
     Sure, Batch!Home
<1>11. ASSUME NEW r \in Request, Batch!Announce(r) PROVE NoOverlap'
  BY <1>11 DEF Batch!Announce, ArchivesInv, ArchivesTyped, Calm, NoOverlap, Batch!boots,
     Batch!Goto, Batch!At, Batch!Home, Batch!Overlap, Batch!Free, Batch!Ended, Working,
     Batch!Name, Manifest, Sure
<1>12. ASSUME NEW r \in Request, Batch!Publish(r) PROVE NoOverlap'
  BY <1>12 DEF Batch!Publish, ArchivesInv, ArchivesTyped, Calm, NoOverlap, Batch!boots,
     Batch!Goto, Batch!At, Batch!Home, Batch!Free, Batch!Ended, Working, Batch!Name, Manifest,
     Sure
<1>13. ASSUME NEW r \in Request, Batch!Collision(r) PROVE NoOverlap'
  BY <1>13 DEF Batch!Collision, ArchivesInv, ArchivesTyped, Calm, NoOverlap, Batch!boots,
     Batch!Goto, Batch!At, Batch!Home, Batch!ClearManifest, Batch!Free, Batch!Ended, Working,
     Batch!Name, Manifest, Sure
<1>14. ASSUME NEW r \in Request, Batch!PublishFails(r) PROVE NoOverlap'
  BY <1>14 DEF Batch!PublishFails, ArchivesInv, ArchivesTyped, Calm, NoOverlap, Batch!boots,
     Batch!At, Batch!Home, Batch!Fail, Batch!ClearManifest, Batch!Free, Batch!Ended, Working,
     Batch!Name, Manifest, Sure, Batch!Goto, Batch!Unlock, Batch!Locals
<1>15. ASSUME NEW r \in Request, Batch!Deliver(r) PROVE NoOverlap'
  BY <1>15 DEF Batch!Deliver, ArchivesInv, ArchivesTyped, Calm, NoOverlap, Batch!boots, Batch!At,
     Batch!Home, Batch!Fail, Batch!Hand, Batch!ClearManifest, Batch!Openable, Batch!Free,
     Batch!Ended, Working, Batch!Name, Manifest, Sure, Batch!Goto, Batch!Unlock, Batch!Locals
<1>16. ASSUME NEW r \in Request, Batch!Close(r) PROVE NoOverlap'
  BY <1>16 DEF Batch!Close, ArchivesInv, ArchivesTyped, Calm, NoOverlap, Batch!files,
     Batch!stores, Batch!boots, Batch!Goto, Batch!At, Batch!Free, Batch!Ended, Working,
     Batch!Name, Manifest, Sure, Batch!Home
<1>17. ASSUME NEW r \in Request, Batch!Cancel(r) PROVE NoOverlap'
  BY <1>17 DEF Batch!Cancel, ArchivesInv, ArchivesTyped, Calm, NoOverlap, Batch!files,
     Batch!stores, Batch!boots, Batch!Ended, Batch!Free, Working, Batch!Name, Manifest, Sure
<1>18. ASSUME NEW p \in Process, Batch!Crash(p) PROVE NoOverlap'
  BY <1>18 DEF Batch!Crash, ArchivesInv, ArchivesTyped, Calm, NoOverlap, Batch!files, Batch!Home,
     Batch!Free, Batch!Ended, Working, Batch!Name, Manifest, Sure
<1>19. ASSUME NEW p \in Process, Batch!Boot(p) PROVE NoOverlap'
  BY <1>19 DEF Batch!Boot, ArchivesInv, ArchivesTyped, Calm, NoOverlap, Batch!files, Batch!stores,
     Batch!calls, Batch!Free, Batch!Ended, Working, Batch!Name, Manifest, Sure
<1>20. ASSUME NEW p \in Process, Batch!Reconcile(p) PROVE NoOverlap'
  BY <1>20 DEF Batch!Reconcile, ArchivesInv, ArchivesTyped, Calm, NoOverlap, Batch!files,
     Batch!stores, Batch!calls, Batch!Overlap, Batch!Free, Batch!Ended, Working, Batch!Name,
     Manifest, Sure
<1>21. ASSUME NEW p \in Process, Batch!Adopt(p) PROVE NoOverlap'
  BY <1>21 DEF Batch!Adopt, ArchivesInv, ArchivesTyped, Calm, NoOverlap, Batch!files,
     Batch!stores, Batch!calls, Batch!Intact, Batch!Readable, Batch!Overlap, Batch!Free,
     Batch!Ended, Working, Batch!Name, Manifest, Sure
<1>22. ASSUME NEW p \in Process, Batch!Discard(p) PROVE NoOverlap'
  BY <1>22 DEF Batch!Discard, ArchivesInv, ArchivesTyped, Calm, NoOverlap, Batch!stores,
     Batch!calls, Batch!Intact, Batch!Free, Batch!Ended, Working, Batch!Name, Manifest, Sure
<1>23. ASSUME NEW p \in Process, Batch!Cleanup(p) PROVE NoOverlap'
  BY <1>23, CleanupTakes DEF ArchivesInv, ArchivesTyped, Noted, Complete, Exclusive, Calm,
     NoOverlap, Listed, Remembered, Building, Judged, Batch!Intact, Batch!Openable, Batch!Whole,
     Batch!Readable, Batch!Overlap, Batch!files, Batch!stores, Batch!boots, Batch!calls,
     Batch!Goto, Batch!At, Batch!Home, Batch!Fail, Batch!Hand, Batch!Unlock, Batch!Locals,
     Batch!ClearManifest, Batch!Free, Batch!Ended, Working, Sure, Batch!Name, Manifest
<1>24. ASSUME NEW n \in Batch!Name, Batch!Collide(n) PROVE NoOverlap'
  BY <1>24 DEF Batch!Collide, ArchivesInv, ArchivesTyped, Calm, NoOverlap, Batch!Name,
     Batch!stores, Batch!boots, Batch!calls, Batch!Free, Batch!Ended, Working, Manifest, Sure
<1>25. ASSUME NEW o \in Output, Batch!Vanish(o) PROVE NoOverlap'
  BY <1>25 DEF Batch!Vanish, ArchivesInv, ArchivesTyped, Calm, NoOverlap, Batch!stores,
     Batch!boots, Batch!calls, Batch!Free, Batch!Ended, Working, Batch!Name, Manifest, Sure
<1>26. CASE Batch!Expire
  BY <1>26 DEF Batch!Expire, ArchivesInv, ArchivesTyped, Calm, NoOverlap, Batch!files,
     Batch!stores, Batch!boots, Batch!calls, Batch!Free, Batch!Ended, Working, Batch!Name,
     Manifest, Sure
<1>27. CASE UNCHANGED Batch!vars
  BY <1>27 DEF Batch!vars, ArchivesInv, ArchivesTyped, Calm, NoOverlap, Batch!files, Batch!stores,
     Batch!boots, Batch!calls, Batch!Free, Batch!Ended, Working, Batch!Name, Manifest, Sure
<1> QED
  BY <1>1, <1>2, <1>3, <1>4, <1>5, <1>6, <1>7, <1>8, <1>9, <1>10, <1>11, <1>12, <1>13, <1>14,
     <1>15, <1>16, <1>17, <1>18, <1>19, <1>20, <1>21, <1>22, <1>23, <1>24, <1>25, <1>26, <1>27
     DEF Batch!Next, Batch!Step, Batch!Restart

\* An archive appears after its manifest, and its manifest goes only with it or after it.
LEMMA ListedStep ==
    ASSUME Batch!ArchivesAssumption, ArchivesInv, ~overlapped, ~overlapped', Calm, [Batch!Next]_(Batch!vars)
    PROVE  Listed'
<1> USE DEF Batch!ArchivesAssumption
<1>1. ASSUME NEW r \in Request, Batch!Ask(r) PROVE Listed'
  BY <1>1 DEF Batch!Ask, ArchivesInv, ArchivesTyped, Calm, Listed, Batch!files, Batch!stores,
     Batch!boots, Batch!Goto, Batch!At, Batch!Home, Batch!Fail, Batch!Hand, Batch!Free,
     Batch!Openable, Batch!Ended, Working, Batch!Name, Manifest, Batch!Unlock, Batch!Locals
<1>2. ASSUME NEW r \in Request, Batch!Lock(r) PROVE Listed'
  BY <1>2 DEF Batch!Lock, ArchivesInv, ArchivesTyped, Calm, Listed, Batch!files, Batch!stores,
     Batch!boots, Batch!Goto, Batch!At, Batch!Free, Batch!Ended, Working, Batch!Name, Manifest,
     Batch!Home
<1>3. ASSUME NEW r \in Request, Batch!StopWaiting(r) PROVE Listed'
  BY <1>3 DEF Batch!StopWaiting, ArchivesInv, ArchivesTyped, Calm, Listed, Batch!files,
     Batch!stores, Batch!boots, Batch!At, Batch!Fail, Batch!Free, Batch!Ended, Working,
     Batch!Name, Manifest, Batch!Home, Batch!Goto, Batch!Unlock, Batch!Locals
<1>4. ASSUME NEW r \in Request, Batch!Look(r) PROVE Listed'
  BY <1>4 DEF Batch!Look, ArchivesInv, ArchivesTyped, Calm, Listed, Batch!files, Batch!stores,
     Batch!boots, Batch!Goto, Batch!At, Batch!Home, Batch!Fail, Batch!Hand, Batch!Openable,
     Batch!Free, Batch!Ended, Working, Batch!Name, Manifest, Batch!Unlock, Batch!Locals
<1>5. ASSUME NEW r \in Request, Batch!ReadManifest(r) PROVE Listed'
  BY <1>5 DEF Batch!ReadManifest, ArchivesInv, ArchivesTyped, Calm, Listed, Batch!files,
     Batch!stores, Batch!boots, Batch!Goto, Batch!At, Batch!Fail, Batch!Free, Batch!Ended,
     Working, Batch!Name, Manifest, Batch!Home, Batch!Unlock, Batch!Locals
<1>6. ASSUME NEW r \in Request, Batch!CheckPublished(r) PROVE Listed'
  BY <1>6 DEF Batch!CheckPublished, ArchivesInv, ArchivesTyped, Calm, Listed, Batch!files,
     Batch!boots, Batch!Goto, Batch!At, Batch!Home, Batch!Fail, Batch!Intact, Batch!Whole,
     Batch!Free, Batch!Ended, Working, Batch!Name, Manifest, Batch!Unlock, Batch!Locals
<1>7. ASSUME NEW r \in Request, Batch!Compare(r) PROVE Listed'
  BY <1>7 DEF Batch!Compare, ArchivesInv, ArchivesTyped, Calm, Listed, Batch!files, Batch!boots,
     Batch!At, Batch!Home, Batch!Fail, Batch!Hand, Batch!Openable, Batch!Free, Batch!Ended,
     Working, Batch!Name, Manifest, Batch!Goto, Batch!Unlock, Batch!Locals
<1>8. ASSUME NEW r \in Request, Batch!Copy(r) PROVE Listed'
  BY <1>8 DEF Batch!Copy, ArchivesInv, ArchivesTyped, Calm, Listed, Batch!stores, Batch!boots,
     Batch!Goto, Batch!At, Batch!Free, Batch!Ended, Working, Batch!Name, Manifest, Batch!Home
<1>9. ASSUME NEW r \in Request, Batch!Abandon(r) PROVE Listed'
  BY <1>9 DEF Batch!Abandon, ArchivesInv, ArchivesTyped, Calm, Listed, Batch!stores, Batch!boots,
     Batch!At, Batch!Fail, Batch!Free, Batch!Ended, Working, Batch!Name, Manifest, Batch!Home,
     Batch!Goto, Batch!Unlock, Batch!Locals
<1>10. ASSUME NEW r \in Request, Batch!NextName(r) PROVE Listed'
  BY <1>10 DEF Batch!NextName, ArchivesInv, ArchivesTyped, Calm, Listed, Batch!files,
     Batch!stores, Batch!boots, Batch!At, Batch!Free, Batch!Ended, Working, Batch!Name, Manifest,
     Batch!Home
<1>11. ASSUME NEW r \in Request, Batch!Announce(r) PROVE Listed'
  BY <1>11 DEF Batch!Announce, ArchivesInv, ArchivesTyped, Calm, Listed, Building, Batch!boots,
     Batch!Goto, Batch!At, Batch!Home, Batch!Overlap, Batch!Free, Batch!Ended, Working,
     Batch!Name, Manifest
<1>12. ASSUME NEW r \in Request, Batch!Publish(r) PROVE Listed'
  BY <1>12 DEF Batch!Publish, ArchivesInv, ArchivesTyped, Calm, Listed, Building, Batch!boots,
     Batch!Goto, Batch!At, Batch!Home, Batch!Free, Batch!Ended, Working, Batch!Name, Manifest
<1>13. ASSUME NEW r \in Request, Batch!Collision(r) PROVE Listed'
  BY <1>13 DEF Batch!Collision, ArchivesInv, ArchivesTyped, Calm, Listed, Building, Batch!boots,
     Batch!Goto, Batch!At, Batch!Home, Batch!ClearManifest, Batch!Free, Batch!Ended, Working,
     Batch!Name, Manifest
<1>14. ASSUME NEW r \in Request, Batch!PublishFails(r) PROVE Listed'
  BY <1>14 DEF Batch!PublishFails, ArchivesInv, ArchivesTyped, Calm, Listed, Building,
     Batch!boots, Batch!At, Batch!Home, Batch!Fail, Batch!ClearManifest, Batch!Free, Batch!Ended,
     Working, Batch!Name, Manifest, Batch!Goto, Batch!Unlock, Batch!Locals
<1>15. ASSUME NEW r \in Request, Batch!Deliver(r) PROVE Listed'
  <2>0. Batch!At(r, "open") /\ UNCHANGED <<present, temp, content, elapsed, values, Batch!boots, cancelled, overlapped>>
    BY <1>15 DEF Batch!Deliver
  <2>1. CASE /\ Batch!Openable(values[Batch!Home(r)]) /\ Batch!Hand(r) /\ UNCHANGED <<zip, announced, owned>>
    BY <2>0, <2>1 DEF ArchivesInv, ArchivesTyped, Calm, Listed, Batch!Home, Batch!Hand,
       Batch!Openable, Batch!At, Batch!files, Batch!stores, Batch!boots, Batch!Free, Batch!Ended,
       Working, Batch!Name, Manifest, Batch!Goto, Batch!Unlock, Batch!Locals
  <2>2. CASE /\ ~Batch!Openable(values[Batch!Home(r)]) /\ zip' = [zip EXCEPT ![attempt[r]] = None]
            /\ Batch!ClearManifest(Batch!Home(r)) /\ Batch!Fail(r)
    BY <2>0, <2>2 DEF ArchivesInv, ArchivesTyped, Calm, Listed, Building, Batch!Home, Batch!Fail,
       Batch!ClearManifest, Batch!Openable, Batch!At, Batch!files, Batch!stores, Batch!boots,
       Batch!Free, Batch!Ended, Working, Batch!Name, Manifest, Batch!Goto, Batch!Unlock,
       Batch!Locals
  <2> QED
    BY <1>15, <2>1, <2>2 DEF Batch!Deliver
<1>16. ASSUME NEW r \in Request, Batch!Close(r) PROVE Listed'
  BY <1>16 DEF Batch!Close, ArchivesInv, ArchivesTyped, Calm, Listed, Batch!files, Batch!stores,
     Batch!boots, Batch!Goto, Batch!At, Batch!Free, Batch!Ended, Working, Batch!Name, Manifest,
     Batch!Home
<1>17. ASSUME NEW r \in Request, Batch!Cancel(r) PROVE Listed'
  BY <1>17 DEF Batch!Cancel, ArchivesInv, ArchivesTyped, Calm, Listed, Batch!files, Batch!stores,
     Batch!boots, Batch!Ended, Batch!Free, Working, Batch!Name, Manifest
<1>18. ASSUME NEW p \in Process, Batch!Crash(p) PROVE Listed'
  BY <1>18 DEF Batch!Crash, ArchivesInv, ArchivesTyped, Calm, Listed, Batch!files, Batch!Home,
     Batch!Free, Batch!Ended, Working, Batch!Name, Manifest
<1>19. ASSUME NEW p \in Process, Batch!Boot(p) PROVE Listed'
  BY <1>19 DEF Batch!Boot, ArchivesInv, ArchivesTyped, Calm, Listed, Batch!files, Batch!stores,
     Batch!calls, Batch!Free, Batch!Ended, Working, Batch!Name, Manifest
<1>20. ASSUME NEW p \in Process, Batch!Reconcile(p) PROVE Listed'
  BY <1>20 DEF Batch!Reconcile, ArchivesInv, ArchivesTyped, Calm, Listed, Batch!files,
     Batch!stores, Batch!calls, Batch!Overlap, Batch!Free, Batch!Ended, Working, Batch!Name,
     Manifest
<1>21. ASSUME NEW p \in Process, Batch!Adopt(p) PROVE Listed'
  BY <1>21 DEF Batch!Adopt, ArchivesInv, ArchivesTyped, Calm, Listed, Batch!files, Batch!stores,
     Batch!calls, Batch!Intact, Batch!Readable, Batch!Overlap, Batch!Free, Batch!Ended, Working,
     Batch!Name, Manifest
<1>22. ASSUME NEW p \in Process, Batch!Discard(p) PROVE Listed'
  BY <1>22 DEF Batch!Discard, ArchivesInv, ArchivesTyped, Calm, Listed, Judged, Batch!stores,
     Batch!calls, Batch!Intact, Batch!Free, Batch!Ended, Working, Batch!Name, Manifest, Sure
<1>23. ASSUME NEW p \in Process, Batch!Cleanup(p) PROVE Listed'
  <2> SUFFICES ASSUME NEW n \in Batch!Name, zip'[n] \in Request
               PROVE  announced' = [name |-> n, file |-> zip'[n]]
    BY DEF Listed
  <2>1. zip'[n] = zip[n] /\ announced = [name |-> n, file |-> zip[n]]
    BY <1>23, CleanupTakes DEF Calm, Listed
  <2>2. CASE announced' # announced
    <3>1. values[p] = n /\ zip[values[p]] = announced.file
      BY <1>23, CleanupTakes, <2>1, <2>2
    <3>2. zip' = [zip EXCEPT ![n] = None]
      BY <1>23, CleanupTakes, <2>2, <3>1
    <3> QED
      BY <3>2 DEF ArchivesInv, ArchivesTyped, Batch!ArchivesAssumption
  <2> QED
    BY <2>1, <2>2
<1>24. ASSUME NEW n \in Batch!Name, Batch!Collide(n) PROVE Listed'
  BY <1>24 DEF Batch!Collide, ArchivesInv, ArchivesTyped, Calm, Listed, Batch!Name, Batch!stores,
     Batch!boots, Batch!calls, Batch!Free, Batch!Ended, Working, Manifest
<1>25. ASSUME NEW o \in Output, Batch!Vanish(o) PROVE Listed'
  BY <1>25 DEF Batch!Vanish, ArchivesInv, ArchivesTyped, Calm, Listed, Batch!stores, Batch!boots,
     Batch!calls, Batch!Free, Batch!Ended, Working, Batch!Name, Manifest
<1>26. CASE Batch!Expire
  BY <1>26 DEF Batch!Expire, ArchivesInv, ArchivesTyped, Calm, Listed, Batch!files, Batch!stores,
     Batch!boots, Batch!calls, Batch!Free, Batch!Ended, Working, Batch!Name, Manifest
<1>27. CASE UNCHANGED Batch!vars
  BY <1>27 DEF Batch!vars, ArchivesInv, ArchivesTyped, Calm, Listed, Batch!files, Batch!stores,
     Batch!boots, Batch!calls, Batch!Free, Batch!Ended, Working, Batch!Name, Manifest
<1> QED
  BY <1>1, <1>2, <1>3, <1>4, <1>5, <1>6, <1>7, <1>8, <1>9, <1>10, <1>11, <1>12, <1>13, <1>14,
     <1>15, <1>16, <1>17, <1>18, <1>19, <1>20, <1>21, <1>22, <1>23, <1>24, <1>25, <1>26, <1>27
     DEF Batch!Next, Batch!Step, Batch!Restart

\* What a process remembers, while it has time left, is the archive that is announced.
LEMMA RememberedStep ==
    ASSUME Batch!ArchivesAssumption, ArchivesInv, ~overlapped, ~overlapped', Calm, [Batch!Next]_(Batch!vars)
    PROVE  Remembered'
<1> USE DEF Batch!ArchivesAssumption
<1>1. ASSUME NEW r \in Request, Batch!Ask(r) PROVE Remembered'
  BY <1>1 DEF Batch!Ask, ArchivesInv, ArchivesTyped, Calm, Remembered, Batch!files, Batch!stores,
     Batch!boots, Batch!Goto, Batch!At, Batch!Home, Batch!Fail, Batch!Hand, Batch!Free,
     Batch!Openable, Batch!Ended, Working, Batch!Name, Manifest, Batch!Unlock, Batch!Locals
<1>2. ASSUME NEW r \in Request, Batch!Lock(r) PROVE Remembered'
  BY <1>2 DEF Batch!Lock, ArchivesInv, ArchivesTyped, Calm, Remembered, Batch!files, Batch!stores,
     Batch!boots, Batch!Goto, Batch!At, Batch!Free, Batch!Ended, Working, Batch!Name, Manifest,
     Batch!Home
<1>3. ASSUME NEW r \in Request, Batch!StopWaiting(r) PROVE Remembered'
  BY <1>3 DEF Batch!StopWaiting, ArchivesInv, ArchivesTyped, Calm, Remembered, Batch!files,
     Batch!stores, Batch!boots, Batch!At, Batch!Fail, Batch!Free, Batch!Ended, Working,
     Batch!Name, Manifest, Batch!Home, Batch!Goto, Batch!Unlock, Batch!Locals
<1>4. ASSUME NEW r \in Request, Batch!Look(r) PROVE Remembered'
  BY <1>4 DEF Batch!Look, ArchivesInv, ArchivesTyped, Calm, Remembered, Batch!files, Batch!stores,
     Batch!boots, Batch!Goto, Batch!At, Batch!Home, Batch!Fail, Batch!Hand, Batch!Openable,
     Batch!Free, Batch!Ended, Working, Batch!Name, Manifest, Batch!Unlock, Batch!Locals
<1>5. ASSUME NEW r \in Request, Batch!ReadManifest(r) PROVE Remembered'
  BY <1>5 DEF Batch!ReadManifest, ArchivesInv, ArchivesTyped, Calm, Remembered, Batch!files,
     Batch!stores, Batch!boots, Batch!Goto, Batch!At, Batch!Fail, Batch!Free, Batch!Ended,
     Working, Batch!Name, Manifest, Batch!Home, Batch!Unlock, Batch!Locals
<1>6. ASSUME NEW r \in Request, Batch!CheckPublished(r) PROVE Remembered'
  BY <1>6 DEF Batch!CheckPublished, ArchivesInv, ArchivesTyped, Calm, Remembered, Noted, Listed,
     Judged, Batch!files, Batch!boots, Batch!Goto, Batch!At, Batch!Home, Batch!Fail, Batch!Intact,
     Batch!Whole, Batch!Free, Batch!Ended, Working, Batch!Name, Manifest, Sure, Batch!Unlock,
     Batch!Locals
<1>7. ASSUME NEW r \in Request, Batch!Compare(r) PROVE Remembered'
  BY <1>7 DEF Batch!Compare, ArchivesInv, ArchivesTyped, Calm, Remembered, Batch!files,
     Batch!boots, Batch!At, Batch!Home, Batch!Fail, Batch!Hand, Batch!Openable, Batch!Free,
     Batch!Ended, Working, Batch!Name, Manifest, Batch!Goto, Batch!Unlock, Batch!Locals
<1>8. ASSUME NEW r \in Request, Batch!Copy(r) PROVE Remembered'
  BY <1>8 DEF Batch!Copy, ArchivesInv, ArchivesTyped, Calm, Remembered, Batch!stores, Batch!boots,
     Batch!Goto, Batch!At, Batch!Free, Batch!Ended, Working, Batch!Name, Manifest, Batch!Home
<1>9. ASSUME NEW r \in Request, Batch!Abandon(r) PROVE Remembered'
  BY <1>9 DEF Batch!Abandon, ArchivesInv, ArchivesTyped, Calm, Remembered, Batch!stores,
     Batch!boots, Batch!At, Batch!Fail, Batch!Free, Batch!Ended, Working, Batch!Name, Manifest,
     Batch!Home, Batch!Goto, Batch!Unlock, Batch!Locals
<1>10. ASSUME NEW r \in Request, Batch!NextName(r) PROVE Remembered'
  BY <1>10 DEF Batch!NextName, ArchivesInv, ArchivesTyped, Calm, Remembered, Batch!files,
     Batch!stores, Batch!boots, Batch!At, Batch!Free, Batch!Ended, Working, Batch!Name, Manifest,
     Batch!Home
<1>11. ASSUME NEW r \in Request, Batch!Announce(r) PROVE Remembered'
  BY <1>11 DEF Batch!Announce, ArchivesInv, ArchivesTyped, Calm, Remembered, Building,
     Batch!boots, Batch!Goto, Batch!At, Batch!Home, Batch!Overlap, Batch!Free, Batch!Ended,
     Working, Batch!Name, Manifest
<1>12. ASSUME NEW r \in Request, Batch!Publish(r) PROVE Remembered'
  BY <1>12 DEF Batch!Publish, ArchivesInv, ArchivesTyped, Calm, Remembered, Building, Batch!boots,
     Batch!Goto, Batch!At, Batch!Home, Batch!Free, Batch!Ended, Working, Batch!Name, Manifest
<1>13. ASSUME NEW r \in Request, Batch!Collision(r) PROVE Remembered'
  BY <1>13 DEF Batch!Collision, ArchivesInv, ArchivesTyped, Calm, Remembered, Building,
     Batch!boots, Batch!Goto, Batch!At, Batch!Home, Batch!ClearManifest, Batch!Free, Batch!Ended,
     Working, Batch!Name, Manifest
<1>14. ASSUME NEW r \in Request, Batch!PublishFails(r) PROVE Remembered'
  BY <1>14 DEF Batch!PublishFails, ArchivesInv, ArchivesTyped, Calm, Remembered, Building,
     Batch!boots, Batch!At, Batch!Home, Batch!Fail, Batch!ClearManifest, Batch!Free, Batch!Ended,
     Working, Batch!Name, Manifest, Batch!Goto, Batch!Unlock, Batch!Locals
<1>15. ASSUME NEW r \in Request, Batch!Deliver(r) PROVE Remembered'
  BY <1>15 DEF Batch!Deliver, ArchivesInv, ArchivesTyped, Calm, Remembered, Building, Batch!boots,
     Batch!At, Batch!Home, Batch!Fail, Batch!Hand, Batch!ClearManifest, Batch!Openable,
     Batch!Free, Batch!Ended, Working, Batch!Name, Manifest, Batch!Goto, Batch!Unlock,
     Batch!Locals
<1>16. ASSUME NEW r \in Request, Batch!Close(r) PROVE Remembered'
  BY <1>16 DEF Batch!Close, ArchivesInv, ArchivesTyped, Calm, Remembered, Batch!files,
     Batch!stores, Batch!boots, Batch!Goto, Batch!At, Batch!Free, Batch!Ended, Working,
     Batch!Name, Manifest, Batch!Home
<1>17. ASSUME NEW r \in Request, Batch!Cancel(r) PROVE Remembered'
  BY <1>17 DEF Batch!Cancel, ArchivesInv, ArchivesTyped, Calm, Remembered, Batch!files,
     Batch!stores, Batch!boots, Batch!Ended, Batch!Free, Working, Batch!Name, Manifest
<1>18. ASSUME NEW p \in Process, Batch!Crash(p) PROVE Remembered'
  BY <1>18 DEF Batch!Crash, ArchivesInv, ArchivesTyped, Calm, Remembered, Batch!files, Batch!Home,
     Batch!Free, Batch!Ended, Working, Batch!Name, Manifest
<1>19. ASSUME NEW p \in Process, Batch!Boot(p) PROVE Remembered'
  BY <1>19 DEF Batch!Boot, ArchivesInv, ArchivesTyped, Calm, Remembered, Batch!files,
     Batch!stores, Batch!calls, Batch!Free, Batch!Ended, Working, Batch!Name, Manifest
<1>20. ASSUME NEW p \in Process, Batch!Reconcile(p) PROVE Remembered'
  BY <1>20 DEF Batch!Reconcile, ArchivesInv, ArchivesTyped, Calm, Remembered, Batch!files,
     Batch!stores, Batch!calls, Batch!Overlap, Batch!Free, Batch!Ended, Working, Batch!Name,
     Manifest
<1>21. ASSUME NEW p \in Process, Batch!Adopt(p) PROVE Remembered'
  BY <1>21 DEF Batch!Adopt, ArchivesInv, ArchivesTyped, Calm, Remembered, Noted, Listed, Judged,
     Batch!files, Batch!stores, Batch!calls, Batch!Intact, Batch!Readable, Batch!Overlap,
     Batch!Free, Batch!Ended, Working, Batch!Name, Manifest, Sure
<1>22. ASSUME NEW p \in Process, Batch!Discard(p) PROVE Remembered'
  BY <1>22 DEF Batch!Discard, ArchivesInv, ArchivesTyped, Calm, Remembered, Judged, Batch!stores,
     Batch!calls, Batch!Intact, Batch!Free, Batch!Ended, Working, Batch!Name, Manifest, Sure
<1>23. ASSUME NEW p \in Process, Batch!Cleanup(p) PROVE Remembered'
  BY <1>23, CleanupTakes DEF ArchivesInv, ArchivesTyped, Noted, Complete, Exclusive, Calm,
     NoOverlap, Listed, Remembered, Building, Judged, Batch!Intact, Batch!Openable, Batch!Whole,
     Batch!Readable, Batch!files, Batch!stores, Batch!boots, Batch!calls, Batch!Goto, Batch!At,
     Batch!Home, Batch!Fail, Batch!Hand, Batch!Unlock, Batch!Locals, Batch!ClearManifest,
     Batch!Free, Batch!Ended, Working, Sure, Batch!Name, Manifest
<1>24. ASSUME NEW n \in Batch!Name, Batch!Collide(n) PROVE Remembered'
  BY <1>24 DEF Batch!Collide, ArchivesInv, ArchivesTyped, Calm, Remembered, Batch!Name,
     Batch!stores, Batch!boots, Batch!calls, Batch!Free, Batch!Ended, Working, Manifest
<1>25. ASSUME NEW o \in Output, Batch!Vanish(o) PROVE Remembered'
  BY <1>25 DEF Batch!Vanish, ArchivesInv, ArchivesTyped, Calm, Remembered, Batch!stores,
     Batch!boots, Batch!calls, Batch!Free, Batch!Ended, Working, Batch!Name, Manifest
<1>26. CASE Batch!Expire
  BY <1>26 DEF Batch!Expire, ArchivesInv, ArchivesTyped, Calm, Remembered, Batch!files,
     Batch!stores, Batch!boots, Batch!calls, Batch!Free, Batch!Ended, Working, Batch!Name,
     Manifest
<1>27. CASE UNCHANGED Batch!vars
  BY <1>27 DEF Batch!vars, ArchivesInv, ArchivesTyped, Calm, Remembered, Batch!files,
     Batch!stores, Batch!boots, Batch!calls, Batch!Free, Batch!Ended, Working, Batch!Name,
     Manifest
<1> QED
  BY <1>1, <1>2, <1>3, <1>4, <1>5, <1>6, <1>7, <1>8, <1>9, <1>10, <1>11, <1>12, <1>13, <1>14,
     <1>15, <1>16, <1>17, <1>18, <1>19, <1>20, <1>21, <1>22, <1>23, <1>24, <1>25, <1>26, <1>27
     DEF Batch!Next, Batch!Step, Batch!Restart

\* Nobody builds an archive while one lies in the directory.
LEMMA BuildingStep ==
    ASSUME Batch!ArchivesAssumption, ArchivesInv, ~overlapped, ~overlapped', Calm, [Batch!Next]_(Batch!vars)
    PROVE  Building'
<1> USE DEF Batch!ArchivesAssumption
<1>1. ASSUME NEW r \in Request, Batch!Ask(r) PROVE Building'
  BY <1>1 DEF Batch!Ask, ArchivesInv, ArchivesTyped, Calm, Building, Batch!files, Batch!stores,
     Batch!boots, Batch!Goto, Batch!At, Batch!Home, Batch!Fail, Batch!Hand, Batch!Free,
     Batch!Openable, Batch!Ended, Working, Batch!Name, Manifest, Batch!Unlock, Batch!Locals
<1>2. ASSUME NEW r \in Request, Batch!Lock(r) PROVE Building'
  BY <1>2 DEF Batch!Lock, ArchivesInv, ArchivesTyped, Calm, Building, Batch!files, Batch!stores,
     Batch!boots, Batch!Goto, Batch!At, Batch!Free, Batch!Ended, Working, Batch!Name, Manifest,
     Batch!Home
<1>3. ASSUME NEW r \in Request, Batch!StopWaiting(r) PROVE Building'
  BY <1>3 DEF Batch!StopWaiting, ArchivesInv, ArchivesTyped, Calm, Building, Batch!files,
     Batch!stores, Batch!boots, Batch!At, Batch!Fail, Batch!Free, Batch!Ended, Working,
     Batch!Name, Manifest, Batch!Home, Batch!Goto, Batch!Unlock, Batch!Locals
<1>4. ASSUME NEW r \in Request, Batch!Look(r) PROVE Building'
  BY <1>4 DEF Batch!Look, ArchivesInv, ArchivesTyped, Calm, Building, Batch!files, Batch!stores,
     Batch!boots, Batch!Goto, Batch!At, Batch!Home, Batch!Fail, Batch!Hand, Batch!Openable,
     Batch!Free, Batch!Ended, Working, Batch!Name, Manifest, Batch!Unlock, Batch!Locals
<1>5. ASSUME NEW r \in Request, Batch!ReadManifest(r) PROVE Building'
  BY <1>5 DEF Batch!ReadManifest, ArchivesInv, ArchivesTyped, Calm, Building, Noted, Complete,
     Listed, Remembered, Batch!files, Batch!stores, Batch!boots, Batch!Goto, Batch!At, Batch!Fail,
     Batch!Free, Batch!Ended, Working, Batch!Name, Manifest, Batch!Home, Sure, Batch!Whole,
     Batch!Readable, InZip, Batch!Unlock, Batch!Locals
<1>6. ASSUME NEW r \in Request, Batch!CheckPublished(r) PROVE Building'
  BY <1>6 DEF Batch!CheckPublished, ArchivesInv, ArchivesTyped, Calm, Building, Exclusive,
     Batch!files, Batch!boots, Batch!Goto, Batch!At, Batch!Home, Batch!Fail, Batch!Intact,
     Batch!Whole, Batch!Free, Batch!Ended, Working, Batch!Name, Manifest, Batch!Unlock,
     Batch!Locals
<1>7. ASSUME NEW r \in Request, Batch!Compare(r) PROVE Building'
  BY <1>7 DEF Batch!Compare, ArchivesInv, ArchivesTyped, Calm, Building, Batch!files, Batch!boots,
     Batch!At, Batch!Home, Batch!Fail, Batch!Hand, Batch!Openable, Batch!Free, Batch!Ended,
     Working, Batch!Name, Manifest, Batch!Goto, Batch!Unlock, Batch!Locals
<1>8. ASSUME NEW r \in Request, Batch!Copy(r) PROVE Building'
  BY <1>8 DEF Batch!Copy, ArchivesInv, ArchivesTyped, Calm, Building, Batch!stores, Batch!boots,
     Batch!Goto, Batch!At, Batch!Free, Batch!Ended, Working, Batch!Name, Manifest, Batch!Home
<1>9. ASSUME NEW r \in Request, Batch!Abandon(r) PROVE Building'
  BY <1>9 DEF Batch!Abandon, ArchivesInv, ArchivesTyped, Calm, Building, Batch!stores,
     Batch!boots, Batch!At, Batch!Fail, Batch!Free, Batch!Ended, Working, Batch!Name, Manifest,
     Batch!Home, Batch!Goto, Batch!Unlock, Batch!Locals
<1>10. ASSUME NEW r \in Request, Batch!NextName(r) PROVE Building'
  BY <1>10 DEF Batch!NextName, ArchivesInv, ArchivesTyped, Calm, Building, Batch!files,
     Batch!stores, Batch!boots, Batch!At, Batch!Free, Batch!Ended, Working, Batch!Name, Manifest,
     Batch!Home
<1>11. ASSUME NEW r \in Request, Batch!Announce(r) PROVE Building'
  BY <1>11 DEF Batch!Announce, ArchivesInv, ArchivesTyped, Calm, Building, Exclusive, Batch!boots,
     Batch!Goto, Batch!At, Batch!Home, Batch!Overlap, Batch!Free, Batch!Ended, Working,
     Batch!Name, Manifest
<1>12. ASSUME NEW r \in Request, Batch!Publish(r) PROVE Building'
  BY <1>12 DEF Batch!Publish, ArchivesInv, ArchivesTyped, Calm, Building, Exclusive, Batch!boots,
     Batch!Goto, Batch!At, Batch!Home, Batch!Free, Batch!Ended, Working, Batch!Name, Manifest
<1>13. ASSUME NEW r \in Request, Batch!Collision(r) PROVE Building'
  BY <1>13 DEF Batch!Collision, ArchivesInv, ArchivesTyped, Calm, Building, Batch!boots,
     Batch!Goto, Batch!At, Batch!Home, Batch!ClearManifest, Batch!Free, Batch!Ended, Working,
     Batch!Name, Manifest
<1>14. ASSUME NEW r \in Request, Batch!PublishFails(r) PROVE Building'
  BY <1>14 DEF Batch!PublishFails, ArchivesInv, ArchivesTyped, Calm, Building, Batch!boots,
     Batch!At, Batch!Home, Batch!Fail, Batch!ClearManifest, Batch!Free, Batch!Ended, Working,
     Batch!Name, Manifest, Batch!Goto, Batch!Unlock, Batch!Locals
<1>15. ASSUME NEW r \in Request, Batch!Deliver(r) PROVE Building'
  BY <1>15 DEF Batch!Deliver, ArchivesInv, ArchivesTyped, Calm, Building, Exclusive, Batch!boots,
     Batch!At, Batch!Home, Batch!Fail, Batch!Hand, Batch!ClearManifest, Batch!Openable,
     Batch!Free, Batch!Ended, Working, Batch!Name, Manifest, Batch!Goto, Batch!Unlock,
     Batch!Locals
<1>16. ASSUME NEW r \in Request, Batch!Close(r) PROVE Building'
  BY <1>16 DEF Batch!Close, ArchivesInv, ArchivesTyped, Calm, Building, Batch!files, Batch!stores,
     Batch!boots, Batch!Goto, Batch!At, Batch!Free, Batch!Ended, Working, Batch!Name, Manifest,
     Batch!Home
<1>17. ASSUME NEW r \in Request, Batch!Cancel(r) PROVE Building'
  BY <1>17 DEF Batch!Cancel, ArchivesInv, ArchivesTyped, Calm, Building, Batch!files,
     Batch!stores, Batch!boots, Batch!Ended, Batch!Free, Working, Batch!Name, Manifest, Batch!Home
<1>18. ASSUME NEW p \in Process, Batch!Crash(p) PROVE Building'
  BY <1>18 DEF Batch!Crash, ArchivesInv, ArchivesTyped, Calm, Building, Batch!files, Batch!Home,
     Batch!Free, Batch!Ended, Working, Batch!Name, Manifest
<1>19. ASSUME NEW p \in Process, Batch!Boot(p) PROVE Building'
  BY <1>19 DEF Batch!Boot, ArchivesInv, ArchivesTyped, Calm, Building, Batch!files, Batch!stores,
     Batch!calls, Batch!Free, Batch!Ended, Working, Batch!Name, Manifest, Batch!Home
<1>20. ASSUME NEW p \in Process, Batch!Reconcile(p) PROVE Building'
  BY <1>20 DEF Batch!Reconcile, ArchivesInv, ArchivesTyped, Calm, Building, Batch!files,
     Batch!stores, Batch!calls, Batch!Overlap, Batch!Free, Batch!Ended, Working, Batch!Name,
     Manifest, Batch!Home
<1>21. ASSUME NEW p \in Process, Batch!Adopt(p) PROVE Building'
  BY <1>21 DEF Batch!Adopt, ArchivesInv, ArchivesTyped, Calm, Building, Noted, Listed, Judged,
     Batch!files, Batch!stores, Batch!calls, Batch!Intact, Batch!Readable, Batch!Overlap,
     Batch!Free, Batch!Ended, Working, Batch!Name, Manifest, Batch!Home, Sure
<1>22. ASSUME NEW p \in Process, Batch!Discard(p) PROVE Building'
  BY <1>22 DEF Batch!Discard, ArchivesInv, ArchivesTyped, Noted, Complete, Exclusive, Calm,
     NoOverlap, Listed, Remembered, Building, Judged, Batch!stores, Batch!calls, Batch!Intact,
     Batch!Free, Batch!Ended, Working, Batch!Name, Manifest, Sure, Batch!Whole, Batch!Readable,
     InZip, Batch!Home
<1>23. ASSUME NEW p \in Process, Batch!Cleanup(p) PROVE Building'
  <2>1. \A r \in Request : stage[r] \notin {"name", "publish"}
    BY <1>23, CleanupTakes DEF Calm, Building, Batch!Name
  <2> QED
    BY <1>23, CleanupTakes, <2>1 DEF ArchivesInv, Calm, Building
<1>24. ASSUME NEW n \in Batch!Name, Batch!Collide(n) PROVE Building'
  BY <1>24 DEF Batch!Collide, ArchivesInv, ArchivesTyped, Calm, Building, Batch!Name,
     Batch!stores, Batch!boots, Batch!calls, Batch!Free, Batch!Ended, Working, Manifest,
     Batch!Home
<1>25. ASSUME NEW o \in Output, Batch!Vanish(o) PROVE Building'
  BY <1>25 DEF Batch!Vanish, ArchivesInv, ArchivesTyped, Calm, Building, Batch!stores,
     Batch!boots, Batch!calls, Batch!Free, Batch!Ended, Working, Batch!Name, Manifest, Batch!Home
<1>26. CASE Batch!Expire
  BY <1>26 DEF Batch!Expire, ArchivesInv, ArchivesTyped, Calm, Building, Batch!files,
     Batch!stores, Batch!boots, Batch!calls, Batch!Free, Batch!Ended, Working, Batch!Name,
     Manifest, Batch!Home
<1>27. CASE UNCHANGED Batch!vars
  BY <1>27 DEF Batch!vars, ArchivesInv, ArchivesTyped, Calm, Building, Batch!files, Batch!stores,
     Batch!boots, Batch!calls, Batch!Free, Batch!Ended, Working, Batch!Name, Manifest, Batch!Home
<1> QED
  BY <1>1, <1>2, <1>3, <1>4, <1>5, <1>6, <1>7, <1>8, <1>9, <1>10, <1>11, <1>12, <1>13, <1>14,
     <1>15, <1>16, <1>17, <1>18, <1>19, <1>20, <1>21, <1>22, <1>23, <1>24, <1>25, <1>26, <1>27
     DEF Batch!Next, Batch!Step, Batch!Restart

\* What a process has read of the manifest stays what it says, or the manifest is gone.
LEMMA JudgedStep ==
    ASSUME Batch!ArchivesAssumption, ArchivesInv, ~overlapped, ~overlapped', Calm, [Batch!Next]_(Batch!vars)
    PROVE  Judged'
<1> USE DEF Batch!ArchivesAssumption
<1>1. ASSUME NEW r \in Request, Batch!Ask(r) PROVE Judged'
  BY <1>1 DEF Batch!Ask, ArchivesInv, ArchivesTyped, Calm, Judged, Batch!files, Batch!stores,
     Batch!boots, Batch!Goto, Batch!At, Batch!Home, Batch!Fail, Batch!Hand, Batch!Free,
     Batch!Openable, Batch!Ended, Working, Batch!Name, Manifest, Sure, Batch!Intact, Batch!Unlock,
     Batch!Locals
<1>2. ASSUME NEW r \in Request, Batch!Lock(r) PROVE Judged'
  BY <1>2 DEF Batch!Lock, ArchivesInv, ArchivesTyped, Calm, Judged, Batch!files, Batch!stores,
     Batch!boots, Batch!Goto, Batch!At, Batch!Free, Batch!Ended, Working, Batch!Name, Manifest,
     Sure, Batch!Intact, Batch!Home
<1>3. ASSUME NEW r \in Request, Batch!StopWaiting(r) PROVE Judged'
  BY <1>3 DEF Batch!StopWaiting, ArchivesInv, ArchivesTyped, Calm, Judged, Batch!files,
     Batch!stores, Batch!boots, Batch!At, Batch!Fail, Batch!Free, Batch!Ended, Working,
     Batch!Name, Manifest, Sure, Batch!Intact, Batch!Home, Batch!Goto, Batch!Unlock, Batch!Locals
<1>4. ASSUME NEW r \in Request, Batch!Look(r) PROVE Judged'
  BY <1>4 DEF Batch!Look, ArchivesInv, ArchivesTyped, Calm, Judged, Batch!files, Batch!stores,
     Batch!boots, Batch!Goto, Batch!At, Batch!Home, Batch!Fail, Batch!Hand, Batch!Openable,
     Batch!Free, Batch!Ended, Working, Batch!Name, Manifest, Sure, Batch!Intact, Batch!Unlock,
     Batch!Locals
<1>5. ASSUME NEW r \in Request, Batch!ReadManifest(r) PROVE Judged'
  BY <1>5 DEF Batch!ReadManifest, ArchivesInv, ArchivesTyped, Calm, Judged, Batch!files,
     Batch!stores, Batch!boots, Batch!Goto, Batch!At, Batch!Fail, Batch!Free, Batch!Ended,
     Working, Batch!Name, Manifest, Sure, Batch!Intact, Batch!Home, Batch!Unlock, Batch!Locals
<1>6. ASSUME NEW r \in Request, Batch!CheckPublished(r) PROVE Judged'
  BY <1>6 DEF Batch!CheckPublished, ArchivesInv, ArchivesTyped, Calm, Judged, Batch!files,
     Batch!boots, Batch!Goto, Batch!At, Batch!Home, Batch!Fail, Batch!Intact, Batch!Whole,
     Batch!Free, Batch!Ended, Working, Batch!Name, Manifest, Sure, Batch!Unlock, Batch!Locals
<1>7. ASSUME NEW r \in Request, Batch!Compare(r) PROVE Judged'
  BY <1>7 DEF Batch!Compare, ArchivesInv, ArchivesTyped, Calm, Judged, Batch!files, Batch!boots,
     Batch!At, Batch!Home, Batch!Fail, Batch!Hand, Batch!Openable, Batch!Free, Batch!Ended,
     Working, Batch!Name, Manifest, Sure, Batch!Intact, Batch!Goto, Batch!Unlock, Batch!Locals
<1>8. ASSUME NEW r \in Request, Batch!Copy(r) PROVE Judged'
  BY <1>8 DEF Batch!Copy, ArchivesInv, ArchivesTyped, Calm, Judged, Batch!stores, Batch!boots,
     Batch!Goto, Batch!At, Batch!Free, Batch!Ended, Working, Batch!Name, Manifest, Sure,
     Batch!Intact, Batch!Home
<1>9. ASSUME NEW r \in Request, Batch!Abandon(r) PROVE Judged'
  BY <1>9 DEF Batch!Abandon, ArchivesInv, ArchivesTyped, Calm, Judged, Batch!stores, Batch!boots,
     Batch!At, Batch!Fail, Batch!Free, Batch!Ended, Working, Batch!Name, Manifest, Sure,
     Batch!Intact, Batch!Home, Batch!Goto, Batch!Unlock, Batch!Locals
<1>10. ASSUME NEW r \in Request, Batch!NextName(r) PROVE Judged'
  BY <1>10 DEF Batch!NextName, ArchivesInv, ArchivesTyped, Calm, Judged, Batch!files,
     Batch!stores, Batch!boots, Batch!At, Batch!Free, Batch!Ended, Working, Batch!Name, Manifest,
     Sure, Batch!Intact, Batch!Home
<1>11. ASSUME NEW r \in Request, Batch!Announce(r) PROVE Judged'
  <2>1. \A p \in Process : server[p] \notin Sure
    BY <1>11 DEF Batch!Announce, Batch!Overlap, ArchivesInv, ArchivesTyped, Batch!Goto, Sure
  <2> QED
    BY <1>11, <2>1 DEF Batch!Announce, Judged, Batch!boots, Sure
<1>12. ASSUME NEW r \in Request, Batch!Publish(r) PROVE Judged'
  BY <1>12 DEF Batch!Publish, ArchivesInv, ArchivesTyped, Noted, Complete, Exclusive, Calm,
     NoOverlap, Listed, Remembered, Building, Judged, Batch!boots, Batch!Goto, Batch!At,
     Batch!Home, Batch!Free, Batch!Ended, Working, Batch!Name, Manifest, Sure, Batch!Whole,
     Batch!Readable, InZip, Batch!Intact
<1>13. ASSUME NEW r \in Request, Batch!Collision(r) PROVE Judged'
  BY <1>13 DEF Batch!Collision, ArchivesInv, ArchivesTyped, Calm, Judged, Batch!boots, Batch!Goto,
     Batch!At, Batch!Home, Batch!ClearManifest, Batch!Free, Batch!Ended, Working, Batch!Name,
     Manifest, Sure, Batch!Intact
<1>14. ASSUME NEW r \in Request, Batch!PublishFails(r) PROVE Judged'
  BY <1>14 DEF Batch!PublishFails, ArchivesInv, ArchivesTyped, Calm, Judged, Batch!boots,
     Batch!At, Batch!Home, Batch!Fail, Batch!ClearManifest, Batch!Free, Batch!Ended, Working,
     Batch!Name, Manifest, Sure, Batch!Intact, Batch!Goto, Batch!Unlock, Batch!Locals
<1>15. ASSUME NEW r \in Request, Batch!Deliver(r) PROVE Judged'
  BY <1>15 DEF Batch!Deliver, ArchivesInv, ArchivesTyped, Calm, Judged, Building, Batch!boots,
     Batch!At, Batch!Home, Batch!Fail, Batch!Hand, Batch!ClearManifest, Batch!Openable,
     Batch!Free, Batch!Ended, Working, Batch!Name, Manifest, Sure, Batch!Intact, Batch!Goto,
     Batch!Unlock, Batch!Locals
<1>16. ASSUME NEW r \in Request, Batch!Close(r) PROVE Judged'
  BY <1>16 DEF Batch!Close, ArchivesInv, ArchivesTyped, Calm, Judged, Batch!files, Batch!stores,
     Batch!boots, Batch!Goto, Batch!At, Batch!Free, Batch!Ended, Working, Batch!Name, Manifest,
     Sure, Batch!Intact, Batch!Home
<1>17. ASSUME NEW r \in Request, Batch!Cancel(r) PROVE Judged'
  BY <1>17 DEF Batch!Cancel, ArchivesInv, ArchivesTyped, Calm, Judged, Batch!files, Batch!stores,
     Batch!boots, Batch!Ended, Batch!Free, Working, Batch!Name, Manifest, Sure, Batch!Intact
<1>18. ASSUME NEW p \in Process, Batch!Crash(p) PROVE Judged'
  BY <1>18 DEF Batch!Crash, ArchivesInv, ArchivesTyped, Calm, Judged, Batch!files, Batch!Home,
     Batch!Free, Batch!Ended, Working, Batch!Name, Manifest, Sure, Batch!Intact
<1>19. ASSUME NEW p \in Process, Batch!Boot(p) PROVE Judged'
  BY <1>19 DEF Batch!Boot, ArchivesInv, ArchivesTyped, Calm, Judged, Batch!files, Batch!stores,
     Batch!calls, Batch!Free, Batch!Ended, Working, Batch!Name, Manifest, Sure, Batch!Intact
<1>20. ASSUME NEW p \in Process, Batch!Reconcile(p) PROVE Judged'
  BY <1>20 DEF Batch!Reconcile, ArchivesInv, ArchivesTyped, Calm, Judged, Batch!files,
     Batch!stores, Batch!calls, Batch!Overlap, Batch!Free, Batch!Ended, Working, Batch!Name,
     Manifest, Sure, Batch!Intact
<1>21. ASSUME NEW p \in Process, Batch!Adopt(p) PROVE Judged'
  <2>1. UNCHANGED <<zip, announced, elapsed>> /\ server[p] = "judge"
    BY <1>21 DEF Batch!Adopt, Batch!files
  <2>2. CASE /\ server' = [server EXCEPT ![p] = "up"]
            /\ seen' = [seen EXCEPT ![p] = None]
    BY <2>1, <2>2 DEF ArchivesInv, ArchivesTyped, Calm, Judged, Sure, Batch!Intact
  <2>3. CASE /\ elapsed \/ ~Batch!Intact(seen[p]) \/ ~Batch!Readable(seen[p].file)
            /\ server' = [server EXCEPT ![p] = "clean"]
            /\ UNCHANGED seen
    <3>1. Batch!Intact(seen[p]) => seen[p].file \in Request /\ InZip(seen[p].file)
      BY <2>1 DEF ArchivesInv, ArchivesTyped, Noted, Sure, Manifest, Batch!Intact, InZip
    <3>2. Batch!Intact(seen[p]) => Batch!Readable(seen[p].file)
      BY <3>1 DEF ArchivesInv, Complete
    <3> QED
      BY <2>1, <2>3, <3>2 DEF ArchivesInv, ArchivesTyped, Calm, Judged, Sure, Batch!Intact
  <2> QED
    BY <1>21, <2>2, <2>3 DEF Batch!Adopt
<1>22. ASSUME NEW p \in Process, Batch!Discard(p) PROVE Judged'
  BY <1>22 DEF Batch!Discard, ArchivesInv, ArchivesTyped, Calm, Judged, Batch!stores, Batch!calls,
     Batch!Intact, Batch!Free, Batch!Ended, Working, Batch!Name, Manifest, Sure
<1>23. ASSUME NEW p \in Process, Batch!Cleanup(p) PROVE Judged'
  BY <1>23, CleanupTakes DEF ArchivesInv, ArchivesTyped, Noted, Complete, Exclusive, Calm,
     NoOverlap, Listed, Remembered, Building, Judged, Batch!Intact, Batch!Openable, Batch!Whole,
     Batch!Readable, Batch!files, Batch!stores, Batch!boots, Batch!calls, Batch!Goto, Batch!At,
     Batch!Home, Batch!Fail, Batch!Hand, Batch!Unlock, Batch!Locals, Batch!ClearManifest,
     Batch!Free, Batch!Ended, Working, Sure, Batch!Name, Manifest
<1>24. ASSUME NEW n \in Batch!Name, Batch!Collide(n) PROVE Judged'
  BY <1>24 DEF Batch!Collide, ArchivesInv, ArchivesTyped, Calm, Judged, Noted, Listed, Batch!Name,
     Batch!stores, Batch!boots, Batch!calls, Batch!Free, Batch!Ended, Working, Manifest, Sure,
     Batch!Intact
<1>25. ASSUME NEW o \in Output, Batch!Vanish(o) PROVE Judged'
  BY <1>25 DEF Batch!Vanish, ArchivesInv, ArchivesTyped, Calm, Judged, Batch!stores, Batch!boots,
     Batch!calls, Batch!Free, Batch!Ended, Working, Batch!Name, Manifest, Sure, Batch!Intact
<1>26. CASE Batch!Expire
  BY <1>26 DEF Batch!Expire, ArchivesInv, ArchivesTyped, Calm, Judged, Batch!files, Batch!stores,
     Batch!boots, Batch!calls, Batch!Free, Batch!Ended, Working, Batch!Name, Manifest, Sure,
     Batch!Intact
<1>27. CASE UNCHANGED Batch!vars
  BY <1>27 DEF Batch!vars, ArchivesInv, ArchivesTyped, Calm, Judged, Batch!files, Batch!stores,
     Batch!boots, Batch!calls, Batch!Free, Batch!Ended, Working, Batch!Name, Manifest, Sure,
     Batch!Intact
<1> QED
  BY <1>1, <1>2, <1>3, <1>4, <1>5, <1>6, <1>7, <1>8, <1>9, <1>10, <1>11, <1>12, <1>13, <1>14,
     <1>15, <1>16, <1>17, <1>18, <1>19, <1>20, <1>21, <1>22, <1>23, <1>24, <1>25, <1>26, <1>27
     DEF Batch!Next, Batch!Step, Batch!Restart

LEMMA ArchivesInvInit == ASSUME Batch!ArchivesAssumption PROVE Batch!Init => ArchivesInv
<1> SUFFICES ASSUME Batch!Init PROVE ArchivesInv
  OBVIOUS
<1>1. ArchivesTyped
  <2>1. 1 \in Batch!Name
    BY DEF Batch!ArchivesAssumption, Batch!Name
  <2>2. elapsed \in BOOLEAN /\ overlapped \in BOOLEAN
    BY Zenon DEF Batch!Init
  <2> QED
    BY <2>1, <2>2 DEF Batch!Init, ArchivesTyped, Batch!Free
<1>2. Noted /\ Complete /\ Exclusive
  BY DEF Batch!ArchivesAssumption, Batch!Init, Noted, Complete, Exclusive, InZip, Working, Sure,
     Batch!Free
<1>3. Calm
  BY DEF Batch!ArchivesAssumption, Batch!Init, Calm, NoOverlap, Listed, Remembered, Building,
     Judged, Sure, Batch!Free
<1> QED
  BY <1>1, <1>2, <1>3 DEF ArchivesInv

LEMMA ArchivesInvStep ==
    ASSUME Batch!ArchivesAssumption, ArchivesInv, [Batch!Next]_(Batch!vars)
    PROVE  ArchivesInv'
<1>1. (ArchivesTyped /\ Noted)' /\ Complete' /\ Exclusive'
  BY ArchivesTypedStep, CompleteStep, ExclusiveStep
<1>2. CASE overlapped'
  BY <1>1, <1>2 DEF ArchivesInv
<1>3. CASE ~overlapped'
  <2>1. ~overlapped
    BY <1>3, HistoryStays
  <2>2. Calm
    BY <2>1 DEF ArchivesInv
  <2> QED
    BY <1>1, <1>3, <2>1, <2>2, NoOverlapStep, ListedStep, RememberedStep, BuildingStep, JudgedStep
       DEF ArchivesInv, Calm
<1> QED
  BY <1>2, <1>3

\* An archive that lies in the directory holds every output and is the one that the manifest
\* announces (ArchiveIsWholeAndListed), whatever processes, requests, crashes and names.
THEOREM ArchivesAreWholeAndListed == Batch!Spec => []ArchiveIsWholeAndListed
<1>1. ArchivesInv => Batch!ArchiveIsWholeAndListed
  <2> SUFFICES ASSUME ArchivesInv, NEW n \in Batch!Name, zip[n] \in Request
               PROVE  Batch!Whole(zip[n]) /\ (overlapped \/ announced = [name |-> n, file |-> zip[n]])
    BY DEF Batch!ArchiveIsWholeAndListed
  <2>1. Batch!Whole(zip[n])
    BY DEF ArchivesInv, Complete, InZip
  <2>2. overlapped \/ announced = [name |-> n, file |-> zip[n]]
    BY DEF ArchivesInv, Calm, Listed
  <2> QED
    BY <2>1, <2>2
<1> QED
  BY <1>1, ArchivesInvInit, ArchivesInvStep, ArchivesAssumed, PTL DEF Batch!Spec,
     ArchiveIsWholeAndListed
=============================================================================
