----------------------------- MODULE Vds_proofs ------------------------------
(***************************************************************************)
(* Proofs about the VDS: VdsInv is inductive, the safety properties follow *)
(* from it, and the VDS implements the block store of VdsAbs.              *)
(*                                                                         *)
(* A lemma XInv shows that the action X keeps VdsInv.  Its flash part      *)
(* (HeadersSound, SlotsSound, CopiesSound) is shown once for each kind of  *)
(* change of the flash (KillSound, FillSound, SectorSound, CurrentSound,   *)
(* DirtySound, GcingSound, TempSound, CopyInUse, MarkSound), and the rest  *)
(* in the lemma of the action.  A lemma XStore shows what X does to what   *)
(* is stored; StoreStep puts them together.                                *)
(***************************************************************************)
EXTENDS Vds, SeqLemmas, TLAPS

-----------------------------------------------------------------------------
(* Numbers in their order, and counting the sectors. *)

\* Two finite sets with nothing in common.
LEMMA DisjointUnion ==
  ASSUME NEW S, NEW T, IsFiniteSet(S), IsFiniteSet(T), S \cap T = {}
  PROVE  IsFiniteSet(S \cup T) /\ Cardinality(S \cup T) = Cardinality(S) + Cardinality(T)
<1>1. /\ IsFiniteSet(S \cup T)
      /\ Cardinality(S \cup T) = Cardinality(S) + Cardinality(T) - Cardinality(S \cap T)
  BY FS_Union
<1>2. Cardinality(S) \in Nat /\ Cardinality(T) \in Nat /\ Cardinality(S \cap T) = 0
  BY FS_CardinalityType, FS_EmptySet
<1>3. \A a, b \in Nat : a + b - 0 = a + b
  OBVIOUS
<1> QED
  BY <1>1, <1>2, <1>3

\* Ascending lists a finite set of numbers, each member once.
LEMMA AscendingFacts ==
  ASSUME NEW S \in SUBSET Nat, IsFiniteSet(S)
  PROVE  /\ Ascending(S) \in Seq(S)
         /\ Len(Ascending(S)) = Cardinality(S)
         /\ IsInjective(Ascending(S))
         /\ Range(Ascending(S)) = S
BY RankedSeq DEF Ascending

\* So does Down, the list vds_AddSecRef leaves.
LEMMA DownFacts ==
  ASSUME NEW S \in SUBSET Nat, IsFiniteSet(S)
  PROVE  Down(S) \in Seq(S) /\ IsInjective(Down(S)) /\ Range(Down(S)) = S
BY AscendingFacts, ReverseSeq DEF Down

\* The length of a list without repetitions.
LEMMA LenIsCardinality ==
  ASSUME NEW S, NEW s \in Seq(S), IsInjective(s)
  PROVE  IsFiniteSet(Range(s)) /\ Cardinality(Range(s)) = Len(s)
<1>1. Len(s) \in Nat /\ DOMAIN s = 1..Len(s) /\ s \in [1..Len(s) -> S]
      /\ Range(s) = {s[i] : i \in 1..Len(s)}
  BY SeqFacts, LenProperties
<1>2. s \in Bijection(1..Len(s), Range(s))
  BY <1>1 DEF Bijection, Injection, Surjection, IsInjective
<1>3. ExistsBijection(1..Len(s), Range(s))
  BY <1>2 DEF ExistsBijection
<1> QED
  BY <1>1, <1>3, FS_NatBijection, FS_CountingElements

\* What the constants say of sectors, slots and blocks.
LEMMA SectorFacts ==
  /\ Sector \subseteq Nat /\ IsFiniteSet(Sector) /\ Cardinality(Sector) = NrSect + 1
  /\ Slot \subseteq Nat /\ IsFiniteSet(Slot) /\ Cardinality(Slot) = NrPb
  /\ None \notin Sector /\ None \notin Place /\ None \notin Block /\ None \notin Data
  /\ None \notin [blk : Block, data : Data]
  /\ NrSect \in Nat /\ NrPb \in Nat /\ NrSect > 0 /\ NrPb > 0
<1>1. NrSect \in Nat /\ NrPb \in Nat /\ NrSect > 0 /\ NrPb > 0
  BY VdsConstants
<1>2. Sector \subseteq Nat /\ Slot \subseteq Nat
  BY <1>1 DEF Sector, Slot
<1>3. IsFiniteSet(Sector) /\ Cardinality(Sector) = NrSect + 1
  <2>1. IsFiniteSet(0..NrSect) /\ Cardinality(0..NrSect) = IF 0 > NrSect THEN 0 ELSE NrSect - 0 + 1
    BY <1>1, FS_Interval
  <2> QED
    BY <2>1, <1>1 DEF Sector
<1>4. IsFiniteSet(Slot) /\ Cardinality(Slot) = NrPb
  <2>1. /\ IsFiniteSet(0..(NrPb - 1))
        /\ Cardinality(0..(NrPb - 1)) = IF 0 > NrPb - 1 THEN 0 ELSE NrPb - 1 - 0 + 1
    BY <1>1, FS_Interval
  <2> QED
    BY <2>1, <1>1 DEF Slot
<1>5. None \notin Place
  BY <1>2, NoneIsNoValue DEF Place
<1> QED
  BY <1>1, <1>2, <1>3, <1>4, <1>5, NoneIsNoValue

\* The sectors whose place in the partition is one of R.
InRoles(role, R) == {s \in Sector : role[s] \in R}

\* Sectors of one more role.
LEMMA OneRoleMore ==
  ASSUME NEW role, NEW R, NEW r, r \notin R
  PROVE  /\ IsFiniteSet(InRoles(role, R \cup {r}))
         /\ Cardinality(InRoles(role, R \cup {r}))
              = Cardinality(InRoles(role, R)) + Cardinality(InRoles(role, {r}))
<1>1. /\ InRoles(role, R) \in SUBSET Sector /\ InRoles(role, {r}) \in SUBSET Sector
      /\ InRoles(role, R \cup {r}) = InRoles(role, R) \cup InRoles(role, {r})
      /\ InRoles(role, R) \cap InRoles(role, {r}) = {}
  BY DEF InRoles
<1>2. IsFiniteSet(InRoles(role, R)) /\ IsFiniteSet(InRoles(role, {r}))
  BY <1>1, SectorFacts, FS_Subset
<1> QED
  BY <1>1, <1>2, DisjointUnion

\* The sequences of a partition hold every sector once.
LEMMA SectorsCounted ==
  ASSUME NEW p \in Partition, NEW role \in [Sector -> Role], Roles(p, role),
         IsInjective(p.dirty), IsInjective(p.free), IsInjective(p.unformat)
  PROVE  /\ Len(p.dirty) \in Nat /\ Len(p.free) \in Nat /\ Len(p.unformat) \in Nat
         /\ \A s : Len(One(s)) = IF s = None THEN 0 ELSE 1
         /\ RefCount(p) \in Nat
         /\ RefCount(p) + Len(One(p.temp)) + Len(One(p.remain)) + Len(p.unformat) = NrSect + 1
<1> DEFINE H(R) == InRoles(role, R)
           C(R) == Cardinality(H(R))
<1>1. \A s : Len(One(s)) = IF s = None THEN 0 ELSE 1
  BY DEF One
<1>2. /\ p.dirty \in Seq(Sector) /\ p.free \in Seq(Sector) /\ p.unformat \in Seq(Sector)
      /\ p.current \in Sector \cup {None} /\ p.gcing \in Sector \cup {None}
      /\ p.temp \in Sector \cup {None} /\ p.remain \in Sector \cup {None}
  BY DEF Partition
<1>3. H({"dirty"}) = Range(p.dirty) /\ H({"free"}) = Range(p.free)
      /\ H({"unformat"}) = Range(p.unformat)
  <2>1. Range(p.dirty) \subseteq Sector /\ Range(p.free) \subseteq Sector
        /\ Range(p.unformat) \subseteq Sector
    BY <1>2, SeqFacts
  <2> QED
    BY <2>1 DEF InRoles, Roles
<1>4. C({"dirty"}) = Len(p.dirty) /\ C({"free"}) = Len(p.free)
      /\ C({"unformat"}) = Len(p.unformat)
  BY <1>2, <1>3, LenIsCardinality
<1>5. ASSUME NEW s \in Sector \cup {None}, NEW r, \A u \in Sector : u = s <=> role[u] = r
      PROVE  C({r}) = Len(One(s))
  <2>1. H({r}) = IF s = None THEN {} ELSE {s}
    BY <1>5, SectorFacts DEF InRoles
  <2> QED
    BY <2>1, <1>1, FS_EmptySet, FS_Singleton
<1>6. /\ C({"current"}) = Len(One(p.current)) /\ C({"gcing"}) = Len(One(p.gcing))
      /\ C({"temp"}) = Len(One(p.temp)) /\ C({"remain"}) = Len(One(p.remain))
  BY <1>2, <1>5 DEF Roles
<1>7. \A R, r : r \notin R => C(R \cup {r}) = C(R) + C({r})
  BY OneRoleMore
<1>8. /\ C({"dirty", "free"}) = C({"dirty"}) + C({"free"})
      /\ C({"dirty", "free", "current"}) = C({"dirty", "free"}) + C({"current"})
      /\ C({"dirty", "free", "current", "gcing"}) = C({"dirty", "free", "current"}) + C({"gcing"})
  <2> HIDE DEF C
  <2>1. C({"dirty"} \cup {"free"}) = C({"dirty"}) + C({"free"})
    BY <1>7
  <2>2. C({"dirty", "free"} \cup {"current"}) = C({"dirty", "free"}) + C({"current"})
    BY <1>7
  <2>3. C({"dirty", "free", "current"} \cup {"gcing"}) = C({"dirty", "free", "current"}) + C({"gcing"})
    BY <1>7
  <2>4. /\ {"dirty"} \cup {"free"} = {"dirty", "free"}
        /\ {"dirty", "free"} \cup {"current"} = {"dirty", "free", "current"}
        /\ {"dirty", "free", "current"} \cup {"gcing"} = {"dirty", "free", "current", "gcing"}
    OBVIOUS
  <2> QED
    BY <2>1, <2>2, <2>3, <2>4
<1>9. /\ C({"dirty", "free", "current", "gcing", "temp"})
           = C({"dirty", "free", "current", "gcing"}) + C({"temp"})
      /\ C({"dirty", "free", "current", "gcing", "temp", "remain"})
           = C({"dirty", "free", "current", "gcing", "temp"}) + C({"remain"})
      /\ C(Role) = C({"dirty", "free", "current", "gcing", "temp", "remain"}) + C({"unformat"})
  <2> HIDE DEF C
  <2>1. C({"dirty", "free", "current", "gcing"} \cup {"temp"})
          = C({"dirty", "free", "current", "gcing"}) + C({"temp"})
    BY <1>7
  <2>2. C({"dirty", "free", "current", "gcing", "temp"} \cup {"remain"})
          = C({"dirty", "free", "current", "gcing", "temp"}) + C({"remain"})
    BY <1>7
  <2>3. C({"dirty", "free", "current", "gcing", "temp", "remain"} \cup {"unformat"})
          = C({"dirty", "free", "current", "gcing", "temp", "remain"}) + C({"unformat"})
    BY <1>7
  <2>4. /\ {"dirty", "free", "current", "gcing"} \cup {"temp"}
             = {"dirty", "free", "current", "gcing", "temp"}
        /\ {"dirty", "free", "current", "gcing", "temp"} \cup {"remain"}
             = {"dirty", "free", "current", "gcing", "temp", "remain"}
        /\ {"dirty", "free", "current", "gcing", "temp", "remain"} \cup {"unformat"} = Role
    BY DEF Role
  <2> QED
    BY <2>1, <2>2, <2>3, <2>4
<1>10. H(Role) = Sector
  BY DEF InRoles
<1>11. C(Role) = NrSect + 1
  BY <1>10, SectorFacts
<1>12. /\ Len(p.dirty) \in Nat /\ Len(p.free) \in Nat /\ Len(p.unformat) \in Nat
       /\ Len(One(p.current)) \in Nat /\ Len(One(p.gcing)) \in Nat
       /\ Len(One(p.temp)) \in Nat /\ Len(One(p.remain)) \in Nat
  BY <1>1, <1>2, SeqFacts
<1> HIDE DEF C
<1>13. RefCount(p) = Len(p.dirty) + Len(p.free) + Len(One(p.current)) + Len(One(p.gcing))
  BY DEF RefCount
<1>14. \A a, b, c, d, e, f, g \in Nat :
         /\ a + b + c + d \in Nat
         /\ (a + b + c + d) + e + f + g = ((((((a + b) + c) + d) + e) + f) + g)
  OBVIOUS
<1>15. RefCount(p) \in Nat
  <2>1. \A a, b, c, d \in Nat : a + b + c + d \in Nat
    OBVIOUS
  <2> QED
    <3> DEFINE a == Len(p.dirty)  b == Len(p.free)
                  c == Len(One(p.current))  d == Len(One(p.gcing))
    <3>1. a \in Nat /\ b \in Nat /\ c \in Nat /\ d \in Nat /\ RefCount(p) = a + b + c + d
      BY <1>12, <1>13
    <3> HIDE DEF a, b, c, d
    <3> QED
      BY <3>1
<1>16. C(Role) = ((((((C({"dirty"}) + C({"free"})) + C({"current"})) + C({"gcing"})) + C({"temp"}))
                    + C({"remain"})) + C({"unformat"}))
  BY <1>8, <1>9
<1>17. C(Role) = ((((((Len(p.dirty) + Len(p.free)) + Len(One(p.current))) + Len(One(p.gcing)))
                    + Len(One(p.temp))) + Len(One(p.remain))) + Len(p.unformat))
  BY <1>16, <1>4, <1>6
<1>18. RefCount(p) + Len(One(p.temp)) + Len(One(p.remain)) + Len(p.unformat) = C(Role)
  BY <1>12, <1>13, <1>14, <1>17
<1> QED
  BY <1>1, <1>11, <1>12, <1>15, <1>18

\* The smallest member of a set of numbers.
LEMMA MinFacts ==
  ASSUME NEW S \in SUBSET Nat, S # {}
  PROVE  Min(S) \in S /\ \A x \in S : Min(S) <= x
<1>1. \E m \in S : \A n \in S : m <= n
  BY LeastNat
<1> QED
  BY <1>1 DEF Min

\* The number of the valid slots of a sector.
LEMMA CountFacts ==
  ASSUME NEW s
  PROVE  /\ Count(s) \in 0..NrPb
         /\ ValidSlots(s) \in SUBSET Nat /\ IsFiniteSet(ValidSlots(s))
         /\ Count(s) < NrPb <=> \E i \in Slot : pb[s][i].st # "valid"
<1>1. ValidSlots(s) \in SUBSET Slot
  BY DEF ValidSlots
<1>2. /\ IsFiniteSet(ValidSlots(s)) /\ Count(s) \in Nat /\ Count(s) <= NrPb
      /\ Count(s) = NrPb => ValidSlots(s) = Slot
  BY <1>1, SectorFacts, FS_Subset, FS_CardinalityType DEF Count
<1>3. ValidSlots(s) = Slot => Count(s) = NrPb
  BY SectorFacts DEF Count
<1>4. ValidSlots(s) = Slot <=> ~\E i \in Slot : pb[s][i].st # "valid"
  BY DEF ValidSlots
<1>5. NrPb \in Nat /\ Slot \subseteq Nat
  BY SectorFacts
<1>6. Count(s) \in 0..NrPb /\ (Count(s) < NrPb <=> Count(s) # NrPb)
  BY <1>2, <1>5
<1> HIDE DEF ValidSlots
<1>7. ValidSlots(s) \in SUBSET Nat
  BY <1>1, <1>5
<1>8. Count(s) # NrPb <=> ValidSlots(s) # Slot
  BY <1>2, <1>3
<1> QED
  BY <1>2, <1>4, <1>6, <1>7, <1>8

\* A collection finds the emptiest sector, if any has room.
LEMMA EmptiestFacts ==
  ASSUME NEW d \in Seq(Sector), NEW k \in 1..Len(d), NEW i \in Slot, pb[d[k]][i].st # "valid"
  PROVE  /\ Emptiest(d) # {}
         /\ Min(Emptiest(d)) \in 1..Len(d)
         /\ \E j \in Slot : pb[d[Min(Emptiest(d))]][j].st # "valid"
<1>1. DOMAIN d = 1..Len(d) /\ Len(d) \in Nat
  BY SeqFacts
<1> DEFINE S == {Count(d[j]) : j \in 1..Len(d)}
<1>2. \A s : Count(s) \in Nat
  BY CountFacts, SectorFacts
<1>3. S \subseteq Nat /\ S # {}
  BY <1>2
<1>4. PICK m \in 1..Len(d) : \A j \in 1..Len(d) : Count(d[m]) <= Count(d[j])
  <2>1. PICK c \in S : \A x \in S : c <= x
    BY <1>3, LeastNat
  <2>2. PICK m \in 1..Len(d) : c = Count(d[m])
    BY <2>1
  <2> QED
    BY <2>1, <2>2
<1>5. Count(d[k]) < NrPb
  BY CountFacts
<1>6. Count(d[m]) < NrPb
  BY <1>2, <1>4, <1>5, SectorFacts
<1>7. m \in Emptiest(d) /\ Emptiest(d) \in SUBSET Nat
  BY <1>1, <1>4, <1>6 DEF Emptiest
<1>8. Min(Emptiest(d)) \in Emptiest(d)
  BY <1>7, MinFacts
<1>9. Min(Emptiest(d)) \in 1..Len(d) /\ Count(d[Min(Emptiest(d))]) < NrPb
  BY <1>1, <1>8 DEF Emptiest
<1> QED
  BY <1>7, <1>9, CountFacts

-----------------------------------------------------------------------------
(* Places, slots and copies. *)

SlotType == [st : {"free", "valid", "invalid"}, vbn : Block \cup {None},
             ver : Nat, data : Data \cup {None}]
Status == {"blank", "remain", "free", "current", "dirty", "gcing", "temp", "erasing"}

\* A place is a sector and a slot of it.
LEMMA PlaceFacts ==
  /\ \A p \in Place : p[1] \in Sector /\ p[2] \in Slot /\ p = <<p[1], p[2]>>
  /\ \A s \in Sector, i \in Slot : <<s, i>> \in Place
  /\ \A s, i : <<s, i>>[1] = s /\ <<s, i>>[2] = i
  /\ \A p, q \in Place : p[1] = q[1] /\ p[2] = q[2] => p = q
BY DEF Place

\* What the types say of the headers, the slots, the map table and the positions.
LEMMA SlotFacts ==
  ASSUME TypeOK
  PROVE  /\ \A s \in Sector : hdr[s] \in Status
         /\ \A p \in Place : /\ At(p) \in SlotType
                             /\ At(p).st \in {"free", "valid", "invalid"}
                             /\ At(p).vbn \in Block \cup {None}
                             /\ At(p).ver \in Nat
                             /\ At(p).data \in Data \cup {None}
         /\ Fresh.st = "free" /\ Dead.st = "invalid" /\ Fresh \in SlotType /\ Dead \in SlotType
         /\ \A b \in Block : mt[b] \in Place \cup {None}
         /\ \A s \in Sector : pos[s] \in -1 .. NrPb - 1
<1>1. \A p \in Place : At(p) \in SlotType
  BY PlaceFacts DEF TypeOK, At, SlotType
<1> QED
  BY <1>1 DEF TypeOK, SlotType, Status, Fresh, Dead

\* The copies of a block.
LEMMA CopyFacts ==
  ASSUME NEW b
  PROVE  \A q : q \in Copies(b) <=> /\ q \in Place /\ Live(q)
                                    /\ At(q).st = "valid" /\ At(q).vbn = b
BY DEF Copies, Live

\* The copies of a block, after the step.
LEMMA CopyFactsPrime ==
  ASSUME NEW b
  PROVE  \A q : q \in Copies(b)' <=> /\ q \in Place /\ Live(q)'
                                     /\ At(q)'.st = "valid" /\ At(q)'.vbn = b
BY DEF Copies, Live, Place, Sector, Slot, At

\* What a change of one slot does.
SlotSet(p, r) == /\ pb' = [pb EXCEPT ![p[1]][p[2]] = r]
                 /\ \A q \in Place : At(q)' = IF q = p THEN r ELSE At(q)

\* An update of one slot is a change of that slot.
LEMMA SetSlot ==
  ASSUME TypeOK, NEW p \in Place, NEW r, pb' = [pb EXCEPT ![p[1]][p[2]] = r]
  PROVE  /\ SlotSet(p, r)
         /\ r \in SlotType => pb' \in [Sector -> [Slot -> SlotType]]
<1>1. pb \in [Sector -> [Slot -> SlotType]]
  BY DEF TypeOK, SlotType
<1>2. p[1] \in Sector /\ p[2] \in Slot
  BY PlaceFacts
<1>3. ASSUME NEW q \in Place
      PROVE  At(q)' = IF q = p THEN r ELSE At(q)
  <2>1. q[1] \in Sector /\ q[2] \in Slot /\ (q = p <=> q[1] = p[1] /\ q[2] = p[2])
    BY PlaceFacts
  <2>2. pb'[q[1]][q[2]] = IF q[1] = p[1] /\ q[2] = p[2] THEN r ELSE pb[q[1]][q[2]]
    BY <1>1, <1>2, <2>1
  <2> QED
    BY <2>1, <2>2 DEF At
<1>4. r \in SlotType => pb' \in [Sector -> [Slot -> SlotType]]
  BY <1>1, <1>2
<1> QED
  BY <1>3, <1>4 DEF SlotSet

\* What a change of one header does.
HeaderSet(s, st) == \A u \in Sector : hdr'[u] = IF u = s THEN st ELSE hdr[u]

\* An update of one header is a change of that header.
LEMMA SetHeader ==
  ASSUME TypeOK, NEW s \in Sector, NEW st \in Status, hdr' = [hdr EXCEPT ![s] = st]
  PROVE  HeaderSet(s, st) /\ hdr' \in [Sector -> Status]
BY DEF TypeOK, HeaderSet, Status

\* What the change of a whole sector does.
SectorSet(s, r) == \A q \in Place : At(q)' = IF q[1] = s THEN r ELSE At(q)

\* An update of the slots of a sector.
LEMMA SetSector ==
  ASSUME TypeOK, NEW s \in Sector, NEW r \in SlotType,
         pb' = [pb EXCEPT ![s] = [i \in Slot |-> r]]
  PROVE  SectorSet(s, r) /\ pb' \in [Sector -> [Slot -> SlotType]]
<1>1. pb \in [Sector -> [Slot -> SlotType]]
  BY DEF TypeOK, SlotType
<1>2. pb' \in [Sector -> [Slot -> SlotType]]
  BY <1>1
<1>3. ASSUME NEW q \in Place
      PROVE  At(q)' = IF q[1] = s THEN r ELSE At(q)
  <2>1. q[1] \in Sector /\ q[2] \in Slot
    BY PlaceFacts
  <2> QED
    BY <1>1, <2>1 DEF At
<1> QED
  BY <1>2, <1>3 DEF SectorSet

\* What a step may leave alone: the headers, and the copies of every block.
HeadersStay == \A s \in Sector : hdr'[s] = hdr[s]
CopiesStay == \A b : \A q : q \in Copies(b)' <=> q \in Copies(b)

\* Headers that stay as they were stay sound.
LEMMA HeadersStaySound ==
  ASSUME HeadersStay
  PROVE  /\ HeadersSound => HeadersSound'
         /\ \A st : Has(st)' <=> Has(st)
         /\ \A p \in Place : Live(p)' <=> Live(p)
         /\ HasData' <=> HasData
<1>1. \A p \in Place : Live(p)' <=> Live(p)
  BY PlaceFacts DEF HeadersStay, Live
<1>2. \A st : Has(st)' <=> Has(st)
  BY DEF HeadersStay, Has, Sector
<1>3. HasData' <=> HasData
  BY DEF HeadersStay, HasData, Sector
<1>4. \A s \in Sector : Counted(s)' <=> Counted(s)
  BY DEF HeadersStay, Counted
<1>5. \A s \in Sector : hdr'[s] = hdr[s]
  BY DEF HeadersStay
<1>6. Sector' = Sector
  BY DEF Sector
<1>7. HeadersSound => HeadersSound'
  BY <1>2, <1>3, <1>4, <1>5, <1>6 DEF HeadersSound
<1> QED
  BY <1>1, <1>2, <1>3, <1>7

\* With the flash as it was.
LEMMA FlashStays ==
  ASSUME UNCHANGED flash
  PROVE  /\ HeadersSound => HeadersSound'
         /\ SlotsSound => SlotsSound'
         /\ CopiesSound => CopiesSound'
         /\ CopiesStay
         /\ \A p : At(p)' = At(p) /\ (Live(p)' <=> Live(p)) /\ (Torn(p)' <=> Torn(p))
         /\ \A s : hdr'[s] = hdr[s]
BY DEF flash, HeadersSound, SlotsSound, CopiesSound, CopiesStay, Copies, At, Live, Torn, Has,
       HasData, Counted, Clear, Place, Sector, Slot, Fresh, Dead

\* A slot of a sector in use becomes INVALID.
LEMMA KillSound ==
  ASSUME TypeOK, HeadersSound, SlotsSound, CopiesSound, NEW p \in Place, Live(p),
         SlotSet(p, Dead), HeadersStay, ~(Has("gcing") /\ Has("current"))
  PROVE  /\ HeadersSound' /\ SlotsSound' /\ CopiesSound'
         /\ \A b \in Block : \A q : q \in Copies(b)' <=> q \in Copies(b) /\ q # p
<1> USE HeadersStaySound, SlotFacts, PlaceFacts
<1>1. HeadersSound'
  OBVIOUS
<1>2. \A q \in Place : At(q)' = IF q = p THEN Dead ELSE At(q)
  BY DEF SlotSet
<1>3. \A q \in Place : (Live(q)' <=> Live(q)) /\ hdr'[q[1]] = hdr[q[1]]
  BY DEF HeadersStay
<1>4. \A b \in Block : \A q : q \in Copies(b)' <=> q \in Copies(b) /\ q # p
  <2> SUFFICES ASSUME NEW b \in Block, NEW q PROVE q \in Copies(b)' <=> q \in Copies(b) /\ q # p
    OBVIOUS
  <2> QED
    BY <1>2, <1>3, CopyFacts, CopyFactsPrime
<1>5. SlotsSound'
  <2>1. \A q \in Place : /\ hdr'[q[1]] = "remain" => At(q)' = Fresh
                         /\ hdr'[q[1]] = "free" => Clear(q)'
                         /\ Live(q)' => Clear(q)' \/ At(q)'.st = "valid"
                         /\ Torn(q)' => hdr'[q[1]] = "current" /\ ~Has("gcing")'
    BY <1>2, <1>3 DEF SlotsSound, Clear, Torn, Live
  <2>2. \A s \in Sector : hdr'[s] \in {"dirty", "current"} => \A i, j \in Slot :
          i < j /\ At(<<s, i>>)'.st = "free" => At(<<s, j>>)'.st # "valid"
    BY <1>2 DEF SlotsSound, HeadersStay
  <2>3. \A s \in Sector : hdr'[s] = "gcing" => \E i \in Slot : At(<<s, i>>)'.st # "valid"
    <3> SUFFICES ASSUME NEW s \in Sector, hdr'[s] = "gcing"
                 PROVE  \E i \in Slot : At(<<s, i>>)'.st # "valid"
      OBVIOUS
    <3>1. PICK i \in Slot : At(<<s, i>>).st # "valid"
      BY DEF SlotsSound, HeadersStay
    <3> QED
      BY <1>2, <3>1
  <2> QED
    BY <2>1, <2>2, <2>3 DEF SlotsSound, Place, Sector, Slot
<1>6. CopiesSound'
  <2> SUFFICES ASSUME NEW b \in Block
               PROVE  /\ \A q, r \in Copies(b)' : q # r =>
                           /\ At(q)'.ver # At(r)'.ver
                           /\ "current" \in {hdr'[q[1]], hdr'[r[1]]}
                           /\ Has("gcing")' => "gcing" \in {hdr'[q[1]], hdr'[r[1]]}
                           /\ hdr'[q[1]] = "gcing" =>
                                At(q)'.ver < At(r)'.ver /\ At(q)'.data = At(r)'.data
                      /\ \A q \in Copies(b)' : ~(hdr'[q[1]] = "gcing" /\ Has("current")')
    BY DEF CopiesSound
  <2>1. \A q \in Copies(b)' : /\ q \in Copies(b) /\ q \in Place
                              /\ At(q)' = At(q) /\ hdr'[q[1]] = hdr[q[1]]
    BY <1>2, <1>3, <1>4, CopyFacts
  <2>2. \A q \in Copies(b)' : ~(hdr'[q[1]] = "gcing" /\ Has("current")')
    BY <2>1 DEF Has
  <2> QED
    BY <2>1, <2>2 DEF CopiesSound
<1> QED
  BY <1>1, <1>4, <1>5, <1>6

\* The slot of a write gets its contents: the status, the data, and at last the block.
LEMMA FillSound ==
  ASSUME TypeOK, HeadersSound, SlotsSound, CopiesSound, NEW p \in Place, NEW r \in SlotType,
         hdr[p[1]] = "current", ~Has("gcing"), r.st = "valid",
         \A i \in Slot : i < p[2] => At(<<p[1], i>>).st # "free",
         \A b \in Block : p \notin Copies(b),
         \A b \in Block : r.vbn = b => \A q \in Copies(b) : At(q).ver < r.ver,
         SlotSet(p, r), HeadersStay
  PROVE  /\ HeadersSound' /\ SlotsSound' /\ CopiesSound'
         /\ \A b \in Block : \A q : q \in Copies(b)' <=> q \in Copies(b) \/ (q = p /\ b = r.vbn)
<1> USE HeadersStaySound, SlotFacts, PlaceFacts
<1>1. HeadersSound'
  OBVIOUS
<1>2. \A q \in Place : At(q)' = IF q = p THEN r ELSE At(q)
  BY DEF SlotSet
<1>3. \A q \in Place : (Live(q)' <=> Live(q)) /\ hdr'[q[1]] = hdr[q[1]]
  BY DEF HeadersStay
<1>4. \A b \in Block : \A q : q \in Copies(b)' <=> q \in Copies(b) \/ (q = p /\ b = r.vbn)
  <2> SUFFICES ASSUME NEW b \in Block, NEW q
               PROVE  q \in Copies(b)' <=> q \in Copies(b) \/ (q = p /\ b = r.vbn)
    OBVIOUS
  <2>1. Live(p)
    BY DEF Live
  <2> QED
    BY <1>2, <1>3, <2>1, CopyFacts, CopyFactsPrime
<1>5. SlotsSound'
  <2>1. \A q \in Place : /\ hdr'[q[1]] = "remain" => At(q)' = Fresh
                         /\ hdr'[q[1]] = "free" => Clear(q)'
                         /\ Live(q)' => Clear(q)' \/ At(q)'.st = "valid"
                         /\ Torn(q)' => hdr'[q[1]] = "current" /\ ~Has("gcing")'
    BY <1>2, <1>3 DEF SlotsSound, Clear, Torn, Live
  <2>2. ASSUME NEW s \in Sector, hdr'[s] \in {"dirty", "current"}, NEW i \in Slot, NEW j \in Slot,
               i < j, At(<<s, i>>)'.st = "free"
        PROVE  At(<<s, j>>)'.st # "valid"
    <3>1. <<s, i>> # p /\ At(<<s, i>>).st = "free" /\ hdr[s] \in {"dirty", "current"}
      BY <1>2, <2>2 DEF HeadersStay
    <3>2. CASE <<s, j>> = p
      BY <3>1, <3>2, <2>2
    <3>3. CASE <<s, j>> # p
      BY <1>2, <3>1, <3>3, <2>2 DEF SlotsSound
    <3> QED
      BY <3>2, <3>3
  <2>3. \A s \in Sector : hdr'[s] = "gcing" => \E i \in Slot : At(<<s, i>>)'.st # "valid"
    BY DEF Has, HeadersStay
  <2> QED
    BY <2>1, <2>2, <2>3 DEF SlotsSound, Place, Sector, Slot
<1>6. CopiesSound'
  <2>1. ~Has("gcing")' /\ \A s \in Sector : hdr'[s] # "gcing"
    BY DEF Has, HeadersStay
  <2> SUFFICES ASSUME NEW b \in Block, NEW q \in Copies(b)', NEW t \in Copies(b)', q # t
               PROVE  /\ At(q)'.ver # At(t)'.ver
                      /\ "current" \in {hdr'[q[1]], hdr'[t[1]]}
    <3>1. \A b \in Block : \A q \in Copies(b)' : q \in Place
      BY CopyFactsPrime
    <3> QED
      BY <2>1, <3>1 DEF CopiesSound
  <2>2. /\ q \in Place /\ t \in Place
        /\ q \in Copies(b) \/ (q = p /\ b = r.vbn)
        /\ t \in Copies(b) \/ (t = p /\ b = r.vbn)
    BY <1>4, CopyFactsPrime
  <2>3. CASE q = p
    <3>1. t # p /\ t \in Copies(b) /\ b = r.vbn
      BY <2>2, <2>3
    <3>2. At(t).ver < r.ver /\ At(q)' = r /\ At(t)' = At(t)
      BY <1>2, <2>2, <2>3, <3>1
    <3> QED
      BY <1>3, <2>2, <2>3, <3>2
  <2>4. CASE t = p
    <3>1. q # p /\ q \in Copies(b) /\ b = r.vbn
      BY <2>2, <2>4
    <3>2. At(q).ver < r.ver /\ At(t)' = r /\ At(q)' = At(q)
      BY <1>2, <2>2, <2>4, <3>1
    <3> QED
      BY <1>3, <2>2, <2>4, <3>2
  <2>5. CASE q # p /\ t # p
    BY <1>2, <1>3, <2>2, <2>5 DEF CopiesSound
  <2> QED
    BY <2>3, <2>4, <2>5
<1> QED
  BY <1>1, <1>4, <1>5, <1>6

\* A sector that holds no copy is erased, or the erase begins.
LEMMA SectorSound ==
  ASSUME TypeOK, SlotsSound, CopiesSound, NEW s \in Sector, NEW r \in {Fresh, Dead},
         hdr[s] \notin {"dirty", "current", "gcing"}, hdr[s] = "remain" => r = Fresh,
         SectorSet(s, r), HeadersStay \/ HeaderSet(s, "blank")
  PROVE  SlotsSound' /\ CopiesSound' /\ CopiesStay
<1> USE SlotFacts, PlaceFacts
<1>1. \A q \in Place : At(q)' = IF q[1] = s THEN r ELSE At(q)
  BY DEF SectorSet
<1>2. /\ \A u \in Sector : hdr'[u] = IF u = s THEN hdr'[s] ELSE hdr[u]
      /\ hdr'[s] \notin {"dirty", "current", "gcing"}
      /\ hdr'[s] = "remain" => r = Fresh
  BY DEF HeadersStay, HeaderSet
<1>3. \A q \in Place : Live(q)' <=> Live(q)
  BY <1>2 DEF Live
<1>4. \A q \in Place : Live(q) => q[1] # s /\ At(q)' = At(q) /\ hdr'[q[1]] = hdr[q[1]]
  BY <1>1, <1>2 DEF Live
<1>5. Has("gcing")' <=> Has("gcing")
  BY <1>2 DEF Has, Sector
<1>6. Has("current")' <=> Has("current")
  BY <1>2 DEF Has, Sector
<1>7. CopiesStay
  <2> SUFFICES ASSUME NEW b, NEW q PROVE q \in Copies(b)' <=> q \in Copies(b)
    BY DEF CopiesStay
  <2> QED
    BY <1>3, <1>4, CopyFacts, CopyFactsPrime
<1>8. SlotsSound'
  <2>1. \A q \in Place : /\ hdr'[q[1]] = "remain" => At(q)' = Fresh
                         /\ hdr'[q[1]] = "free" => Clear(q)'
                         /\ Live(q)' => Clear(q)' \/ At(q)'.st = "valid"
                         /\ Torn(q)' => hdr'[q[1]] = "current" /\ ~Has("gcing")'
    BY <1>1, <1>2, <1>3, <1>4, <1>5 DEF SlotsSound, Clear, Torn
  <2>2. \A u \in Sector : hdr'[u] \in {"dirty", "current"} => \A i, j \in Slot :
          i < j /\ At(<<u, i>>)'.st = "free" => At(<<u, j>>)'.st # "valid"
    BY <1>1, <1>2 DEF SlotsSound
  <2>3. \A u \in Sector : hdr'[u] = "gcing" => \E i \in Slot : At(<<u, i>>)'.st # "valid"
    <3> SUFFICES ASSUME NEW u \in Sector, hdr'[u] = "gcing"
                 PROVE  \E i \in Slot : At(<<u, i>>)'.st # "valid"
      OBVIOUS
    <3>1. u # s /\ hdr[u] = "gcing"
      BY <1>2
    <3>2. PICK i \in Slot : At(<<u, i>>).st # "valid"
      BY <3>1 DEF SlotsSound
    <3> QED
      BY <1>1, <3>1, <3>2
  <2> QED
    BY <2>1, <2>2, <2>3 DEF SlotsSound, Place, Sector, Slot
<1>9. CopiesSound'
  <2>1. \A b \in Block : \A q : q \in Copies(b)' <=> q \in Copies(b)
    BY <1>7 DEF CopiesStay
  <2>2. \A b \in Block : \A q \in Copies(b) : At(q)' = At(q) /\ hdr'[q[1]] = hdr[q[1]]
    BY <1>4, CopyFacts
  <2> QED
    BY <1>5, <1>6, <2>1, <2>2 DEF CopiesSound
<1> QED
  BY <1>7, <1>8, <1>9

-----------------------------------------------------------------------------
(* The write, step by step. *)

\* There is a current sector, and no victim, between two calls and in a write.
LEMMA CurrentFacts ==
  ASSUME VdsInv, pc \in {"idle", "Move"} \cup Writing
  PROVE  /\ part.current \in Sector /\ hdr[part.current] = "current"
         /\ pos[part.current] \in -1 .. NrPb - 1
         /\ \A s \in Sector : hdr[s] # "gcing" /\ (hdr[s] = "current" <=> s = part.current)
         /\ ~Has("gcing") /\ Has("current")
         /\ part.gcing = None /\ part.temp = None /\ part.remain # None
<1>1. part.current # None /\ part.gcing = None /\ part.temp = None /\ part.remain # None
  BY DEF VdsInv, StageSound, Writing, Making
<1>2. part.current \in Sector
  BY <1>1 DEF VdsInv, PartSound, Partition
<1>3. pc \notin {"off", "GcErase", "GcErasing"}
  BY DEF Writing
<1>4. \A s \in Sector : (hdr[s] = "current" <=> s = part.current) /\ hdr[s] # "gcing"
  BY <1>1, <1>3, SectorFacts DEF VdsInv, ListsSound
<1> QED
  BY <1>1, <1>2, <1>4 DEF Has, VdsInv, TypeOK

\* The slot a write fills is the one the position points to, in the current sector.
LEMMA WritingFacts ==
  ASSUME VdsInv, pc \in Writing
  PROVE  /\ New \in Place /\ New[1] = part.current /\ New[2] = pos[part.current]
         /\ hdr[New[1]] = "current" /\ Live(New)
         /\ call \in [blk : Block, data : Data]
         /\ Old \in Place \cup {None} /\ mt[call.blk] = Old
         /\ \A i \in Slot : i < New[2] => At(<<New[1], i>>).st # "free"
         /\ \A i \in Slot : i > New[2] => Clear(<<New[1], i>>)
<1> USE CurrentFacts
<1>1. pos[part.current] \in Slot
  BY SectorFacts DEF VdsInv, PositionsSound, Slot
<1>2. New \in Place /\ New[1] = part.current /\ New[2] = pos[part.current]
  BY <1>1 DEF New, Place
<1>3. call \in [blk : Block, data : Data]
  BY DEF VdsInv, TypeOK, CallSound
<1>4. Old \in Place \cup {None} /\ mt[call.blk] = Old
  BY <1>3 DEF VdsInv, TypeOK, Old
<1>5. Positioned
  BY DEF Positioned
<1>6. \A i \in Slot : /\ i < New[2] => At(<<New[1], i>>).st # "free"
                      /\ i > New[2] => Clear(<<New[1], i>>)
  BY <1>2, <1>5 DEF VdsInv, PositionsSound
<1> QED
  BY <1>2, <1>3, <1>4, <1>6 DEF Live

\* VDS_WriteBlock is called.
LEMMA WriteBlockInv ==
  ASSUME VdsInv, NEW b \in Block, NEW d \in Data, WriteBlock(b, d)
  PROVE  VdsInv'
<1>1. UNCHANGED flash /\ UNCHANGED ram /\ pc = "idle" /\ pc' = "Move"
      /\ call' = [blk |-> b, data |-> d] /\ UNCHANGED ret /\ UNCHANGED scan
  BY DEF WriteBlock
<1>2. HeadersSound' /\ SlotsSound' /\ CopiesSound' /\ CopiesStay
  BY <1>1, FlashStays DEF VdsInv
<1>3. TypeOK'
  BY <1>1 DEF VdsInv, TypeOK, flash, ram, Place, Sector, Slot
<1>4. PartSound'
  BY <1>1 DEF VdsInv, PartSound, Partition, Roles, ram, Sector
<1>5. ListsSound'
  BY <1>1 DEF VdsInv, ListsSound, flash, ram, AllFresh, At, Counted, HasData, Sector, Slot
<1>6. StageSound'
  BY <1>1 DEF VdsInv, StageSound, Booting, Writing, Making, Dropping, Collecting, ram
<1>7. CallSound'
  BY <1>1, SectorFacts DEF VdsInv, CallSound, Booting, Writing, Making, Dropping, Collecting
<1>8. ScanSound'
  BY <1>1 DEF ScanSound
<1>9. MapSound'
  BY <1>1, FlashStays, <1>2 DEF VdsInv, MapSound, ram, Settled, Writing, Booting, Collecting, Making, Dropping, CopiesStay, Place
<1>10. PositionsSound'
  BY <1>1, FlashStays DEF VdsInv, PositionsSound, ram, Positioned, Writing, Dropping, Clear
<1>11. NewSound' /\ CopySound'
  BY <1>1 DEF NewSound, CopySound
<1> QED
  BY <1>1, <1>2, <1>3, <1>4, <1>5, <1>6, <1>7, <1>8, <1>9, <1>10, <1>11 DEF VdsInv

\* What a change of one slot in a sector in use leaves alone, in a call.
LEMMA SlotStep ==
  ASSUME VdsInv, pc \in {"idle"} \cup Writing, NEW p \in Place, NEW r, Live(p), SlotSet(p, r),
         UNCHANGED hdr, UNCHANGED part, UNCHANGED pos,
         \/ pc \in Writing /\ pc' \in Writing /\ UNCHANGED call
         \/ pc' = "idle" /\ call' = None
  PROVE  /\ PartSound' /\ ListsSound' /\ StageSound' /\ CallSound' /\ ScanSound' /\ CopySound'
         /\ HeadersStay /\ ~Has("gcing") /\ TypeOK
<1>1. pc' \in {"idle"} \cup Writing
  OBVIOUS
<1>2. PartSound'
  BY <1>1 DEF VdsInv, PartSound, Partition, Roles, Sector, Writing
<1>3. \A s \in Sector : AllFresh(s) => AllFresh(s)' \/ hdr[s] \notin {"remain", "blank"}
  BY PlaceFacts DEF AllFresh, SlotSet, Live, Slot, Fresh
<1>4. ListsSound'
  BY <1>1, <1>3 DEF VdsInv, ListsSound, Counted, HasData, Writing, Sector
<1>5. StageSound'
  BY <1>1 DEF VdsInv, StageSound, Booting, Writing, Making, Dropping, Collecting
<1>6. CallSound'
  BY <1>1 DEF VdsInv, CallSound, Writing, Making, Dropping, Collecting
<1>7. ScanSound' /\ CopySound'
  BY <1>1 DEF ScanSound, CopySound, Writing
<1> QED
  BY CurrentFacts, <1>2, <1>4, <1>5, <1>6, <1>7 DEF HeadersStay, VdsInv

\* Until its descriptor is written, the slot of a write is no copy of a block.
LEMMA NotACopy ==
  ASSUME VdsInv, pc \in {"Status", "Data", "Pbd"}
  PROVE  /\ \A b \in Block : New \notin Copies(b)
         /\ pc = "Status" => At(New) \in {Fresh, Dead}
         /\ pc # "Status" => At(New).st = "valid" /\ At(New).vbn = None
         /\ \A b \in Block : \A q : q \in Copies(b) <=> mt[b] = q /\ mt[b] # None
<1>1. pc \in Writing
  BY DEF Writing
<1>2. /\ pc = "Status" => At(New) \in {Fresh, Dead}
      /\ pc # "Status" => At(New).st = "valid" /\ At(New).vbn = None
  BY DEF VdsInv, NewSound, Clear, Fresh
<1>3. ASSUME NEW b \in Block PROVE New \notin Copies(b)
  BY <1>2, CopyFacts, SectorFacts DEF Fresh, Dead
<1>4. ASSUME NEW b \in Block, NEW q, q \in Copies(b) PROVE mt[b] = q /\ mt[b] # None
  <2>1. q \in Place /\ Live(q)
    BY <1>4, CopyFacts
  <2>2. Settled(q)
    BY <1>1, <2>1 DEF Settled
  <2> QED
    BY <1>4, <2>1, <2>2, SectorFacts DEF VdsInv, MapSound
<1>5. \A b \in Block : mt[b] # None => mt[b] \in Copies(b)
  BY DEF VdsInv, MapSound
<1> QED
  BY <1>2, <1>3, <1>4, <1>5

\* The flash driver fails.
LEMMA WriteFailsInv ==
  ASSUME VdsInv, WriteFails
  PROVE  VdsInv'
<1>1. /\ pc \in {"Status", "Data", "Pbd"} /\ pc \in Writing
      /\ pb' = [pb EXCEPT ![New[1]][New[2]] = Dead]
      /\ pc' = "idle" /\ call' = None
      /\ UNCHANGED hdr /\ UNCHANGED part /\ UNCHANGED pos /\ UNCHANGED mt
  BY DEF WriteFails, Kill, Finish, ram, Writing
<1> USE <1>1, WritingFacts, CurrentFacts, NotACopy
<1>2. SlotSet(New, Dead) /\ pb' \in [Sector -> [Slot -> SlotType]] /\ HeadersStay
  BY SetSlot, SlotFacts DEF VdsInv, HeadersStay
<1>3. PartSound' /\ ListsSound' /\ StageSound' /\ CallSound' /\ ScanSound' /\ CopySound'
  BY <1>2, SlotStep
<1>4. /\ HeadersSound' /\ SlotsSound' /\ CopiesSound'
      /\ \A b \in Block : \A q : q \in Copies(b)' <=> q \in Copies(b) /\ q # New
  BY <1>2, KillSound DEF VdsInv
<1>5. TypeOK'
  BY <1>2 DEF VdsInv, TypeOK, SlotType, Place, Sector, Slot
<1>6. \A q \in Place : At(q)' = IF q = New THEN Dead ELSE At(q)
  BY <1>2 DEF SlotSet
<1>7. \A q \in Place : (Live(q)' <=> Live(q)) /\ (Torn(q)' => Torn(q) /\ q # New)
  BY <1>6, SlotFacts DEF Live, Torn, VdsInv
<1>8. MapSound'
  <2>1. \A b \in Block : \A q : q \in Copies(b)' <=> q \in Copies(b)
    BY <1>4
  <2>2. \A q \in Place : ~Torn(q)'
    BY <1>7 DEF VdsInv, MapSound, Settled, Torn
  <2> QED
    BY <2>1, <2>2, <1>1 DEF MapSound, Booting, Collecting, Making, Dropping, Place, Sector, Slot
<1>9. PositionsSound'
  BY <1>6, PlaceFacts DEF VdsInv, PositionsSound, Positioned, Writing, Dropping, Clear, Slot, Fresh, Dead, NewSound
<1>10. NewSound'
  BY DEF NewSound
<1> QED
  BY <1>3, <1>4, <1>5, <1>8, <1>9, <1>10 DEF VdsInv

\* A step of a write that fills its slot.
LEMMA FillStep ==
  ASSUME VdsInv, pc \in {"Status", "Data", "Pbd"}, NEW r \in SlotType,
         pb' = [pb EXCEPT ![New[1]][New[2]] = r], r.st = "valid",
         \A b \in Block : r.vbn = b => \A q \in Copies(b) : At(q).ver < r.ver,
         UNCHANGED hdr, UNCHANGED part, UNCHANGED pos, UNCHANGED mt, UNCHANGED call,
         (r.vbn = None /\ pc' \in {"Data", "Pbd"}) \/ (r.vbn = call.blk /\ pc' = "Old"),
         NewSound'
  PROVE  VdsInv'
<1>1. pc \in Writing /\ pc' \in {"Data", "Pbd", "Old"} /\ pc' \in Writing
  BY DEF Writing
<1> USE <1>1, WritingFacts, CurrentFacts, NotACopy
<1>2. SlotSet(New, r) /\ pb' \in [Sector -> [Slot -> SlotType]] /\ HeadersStay
  BY SetSlot DEF VdsInv, HeadersStay
<1>3. PartSound' /\ ListsSound' /\ StageSound' /\ CallSound' /\ ScanSound' /\ CopySound'
  BY <1>2, SlotStep
<1>4. /\ HeadersSound' /\ SlotsSound' /\ CopiesSound'
      /\ \A b \in Block : \A q : q \in Copies(b)' <=> q \in Copies(b) \/ (q = New /\ b = r.vbn)
  <2>1. TypeOK /\ HeadersSound /\ SlotsSound /\ CopiesSound
    BY DEF VdsInv
  <2> QED
    BY <1>2, <2>1, FillSound
<1>5. TypeOK'
  BY <1>2 DEF VdsInv, TypeOK, SlotType, Place, Sector, Slot
<1>6. /\ \A q \in Place : At(q)' = IF q = New THEN r ELSE At(q)
      /\ New' = New
  BY <1>2 DEF SlotSet, New
<1>7. \A q \in Place : (Live(q)' <=> Live(q)) /\ (Torn(q)' => Torn(q) \/ q = New)
  BY <1>6 DEF Live, Torn
<1>8. MapSound'
  <2>1. \A q \in Place : Torn(q)' => q = New /\ pc' # "Old"
    BY <1>6, <1>7, SectorFacts DEF VdsInv, MapSound, Settled, Torn
  <2>2. \A b \in Block : \A q : q \in Copies(b)' => mt[b] = q \/ (pc' = "Old" /\ q = New)
    BY <1>4, SectorFacts
  <2> QED
    BY <1>4, <1>6, <2>1, <2>2, SectorFacts DEF MapSound, Booting, Collecting, Making, Dropping, Place, Sector, Slot
<1>9. PositionsSound'
  BY <1>6, PlaceFacts DEF VdsInv, PositionsSound, Positioned, Writing, Dropping, Clear, Slot, Fresh, Dead
<1> QED
  BY <1>3, <1>4, <1>5, <1>8, <1>9 DEF VdsInv

\* The status of the slot is written.
LEMMA SetStatusInv ==
  ASSUME VdsInv, SetStatus
  PROVE  VdsInv'
<1>1. /\ pc = "Status" /\ pc' = "Data" /\ At(New).st # "invalid"
      /\ pb' = [pb EXCEPT ![New[1]][New[2]].st = "valid"]
      /\ UNCHANGED hdr /\ UNCHANGED part /\ UNCHANGED pos /\ UNCHANGED mt /\ UNCHANGED call
  BY DEF SetStatus, Goto, ram
<1> DEFINE r == [st |-> "valid", vbn |-> None, ver |-> 0, data |-> None]
<1>2. At(New) = Fresh /\ New \in Place /\ New' = New /\ TypeOK
  <2>1. pc \in Writing /\ TypeOK
    BY <1>1 DEF Writing, VdsInv
  <2> QED
    BY <1>1, <2>1, NotACopy, WritingFacts, SlotFacts DEF New
<1>3. pb' = [pb EXCEPT ![New[1]][New[2]] = r] /\ r \in SlotType
  <2>1. [At(New) EXCEPT !.st = "valid"] = r
    BY <1>2 DEF Fresh
  <2>2. pb' = [pb EXCEPT ![New[1]][New[2]] = [At(New) EXCEPT !.st = "valid"]]
    BY <1>1 DEF At
  <2>3. r \in SlotType
    BY DEF SlotType
  <2> QED
    BY <2>1, <2>2, <2>3
<1>4. At(New)' = r
  BY <1>2, <1>3, SetSlot DEF SlotSet
<1>5. NewSound'
  <2>1. [Fresh EXCEPT !.st = "valid"] = r
    BY DEF Fresh
  <2> QED
    BY <1>1, <1>2, <1>4, <2>1 DEF NewSound
<1>6. r.st = "valid" /\ r.vbn = None
  OBVIOUS
<1>7. \A b \in Block : r.vbn = b => \A q \in Copies(b) : At(q).ver < r.ver
  BY <1>6, SectorFacts
<1> QED
  <2>1. /\ pc \in {"Status", "Data", "Pbd"} /\ pc' \in {"Data", "Pbd"}
        /\ UNCHANGED hdr /\ UNCHANGED part /\ UNCHANGED pos /\ UNCHANGED mt /\ UNCHANGED call
    BY <1>1
  <2> HIDE DEF r
  <2> QED
    BY <1>3, <1>5, <1>6, <1>7, <2>1, FillStep

\* The data are written.
LEMMA WritePBInv ==
  ASSUME VdsInv, WritePB
  PROVE  VdsInv'
<1>1. /\ pc = "Data" /\ pc' = "Pbd"
      /\ pb' = [pb EXCEPT ![New[1]][New[2]].data = Burn(@, call.data)]
      /\ UNCHANGED hdr /\ UNCHANGED part /\ UNCHANGED pos /\ UNCHANGED mt /\ UNCHANGED call
  BY DEF WritePB, Goto, ram
<1> DEFINE r == [st |-> "valid", vbn |-> None, ver |-> 0, data |-> call.data]
<1>2. /\ At(New) = [st |-> "valid", vbn |-> None, ver |-> 0, data |-> None]
      /\ New \in Place /\ New' = New /\ TypeOK /\ call.data \in Data
  BY <1>1, WritingFacts DEF Writing, New, VdsInv, NewSound, Fresh
<1>3. pb' = [pb EXCEPT ![New[1]][New[2]] = r] /\ r \in SlotType
  <2>1. [At(New) EXCEPT !.data = Burn(@, call.data)] = r
    BY <1>2 DEF Burn
  <2>2. pb' = [pb EXCEPT ![New[1]][New[2]] = [At(New) EXCEPT !.data = Burn(@, call.data)]]
    BY <1>1 DEF At
  <2>3. r \in SlotType
    BY <1>2 DEF SlotType
  <2> QED
    BY <2>1, <2>2, <2>3
<1>4. At(New)' = r
  BY <1>2, <1>3, SetSlot DEF SlotSet
<1>5. NewSound'
  BY <1>1, <1>2, <1>4 DEF NewSound
<1>6. r.st = "valid" /\ r.vbn = None
  OBVIOUS
<1>7. \A b \in Block : r.vbn = b => \A q \in Copies(b) : At(q).ver < r.ver
  BY <1>6, SectorFacts
<1> QED
  <2>1. /\ pc \in {"Status", "Data", "Pbd"} /\ pc' \in {"Data", "Pbd"}
        /\ UNCHANGED hdr /\ UNCHANGED part /\ UNCHANGED pos /\ UNCHANGED mt /\ UNCHANGED call
    BY <1>1
  <2> HIDE DEF r
  <2> QED
    BY <1>3, <1>5, <1>6, <1>7, <2>1, FillStep

\* What the descriptor of a write makes of its slot.
LEMMA PbdFacts ==
  ASSUME VdsInv, WritePBD
  PROVE  LET r == [st |-> "valid", vbn |-> call.blk, ver |-> Version, data |-> call.data] IN
         /\ pc = "Pbd" /\ pc' = "Old"
         /\ UNCHANGED hdr /\ UNCHANGED part /\ UNCHANGED pos /\ UNCHANGED mt /\ UNCHANGED call
         /\ New \in Place /\ New' = New /\ TypeOK /\ call.data \in Data /\ call.blk \in Block
         /\ \A q \in Copies(call.blk) : At(q).ver < Version
         /\ pb' = [pb EXCEPT ![New[1]][New[2]] = r] /\ r \in SlotType
<1>1. /\ pc = "Pbd" /\ pc' = "Old"
      /\ pb' = [pb EXCEPT ![New[1]][New[2]].vbn = Burn(@, call.blk), ![New[1]][New[2]].ver = Version]
      /\ UNCHANGED hdr /\ UNCHANGED part /\ UNCHANGED pos /\ UNCHANGED mt /\ UNCHANGED call
  BY DEF WritePBD, Goto, ram
<1> DEFINE r == [st |-> "valid", vbn |-> call.blk, ver |-> Version, data |-> call.data]
<1>2. /\ At(New) = [st |-> "valid", vbn |-> None, ver |-> 0, data |-> call.data]
      /\ New \in Place /\ New' = New /\ TypeOK /\ call.data \in Data /\ call.blk \in Block
  BY <1>1, WritingFacts DEF Writing, New, VdsInv, NewSound, Fresh
<1>3. Version \in Nat /\ \A q \in Copies(call.blk) : At(q).ver < Version
  <2>1. Old \in Place \cup {None} /\ Old = mt[call.blk]
    BY <1>1, WritingFacts DEF Writing
  <2>2. Old # None => At(Old).ver \in Nat
    BY <2>1, <1>2, SlotFacts
  <2>3. \A q \in Copies(call.blk) : q = Old /\ Old # None
    BY <1>1, <1>2, <2>1, NotACopy
  <2> QED
    BY <2>2, <2>3 DEF Version
<1>4. pb' = [pb EXCEPT ![New[1]][New[2]] = r] /\ r \in SlotType
  <2>1. [At(New) EXCEPT !.vbn = Burn(@, call.blk), !.ver = Version] = r
    <3> DEFINE v == Burn(At(New).vbn, call.blk)
               q == [At(New) EXCEPT !.vbn = v]
    <3>1. v = call.blk
      BY <1>2 DEF Burn
    <3>2. q = [st |-> "valid", vbn |-> call.blk, ver |-> 0, data |-> call.data]
      <4> HIDE DEF v
      <4> QED
        BY <1>2, <3>1
    <3>3. [q EXCEPT !.ver = Version] = r
      <4> HIDE DEF q
      <4> QED
        BY <3>2
    <3>4. [At(New) EXCEPT !.vbn = v, !.ver = Version] = [q EXCEPT !.ver = Version]
      <4> HIDE DEF v
      <4> QED
        BY <1>2, SlotFacts DEF SlotType
    <3> QED
      BY <3>3, <3>4
  <2>2. pb' = [pb EXCEPT ![New[1]][New[2]] =
                 [At(New) EXCEPT !.vbn = Burn(@, call.blk), !.ver = Version]]
    <3>1. New[1] \in Sector /\ New[2] \in Slot /\ pb \in [Sector -> [Slot -> SlotType]]
      BY <1>2, PlaceFacts DEF TypeOK, SlotType
    <3> QED
      BY <1>1, <3>1 DEF At, SlotType
  <2>3. r \in SlotType
    BY <1>2, <1>3 DEF SlotType
  <2> QED
    BY <2>1, <2>2, <2>3
<1> QED
  BY <1>1, <1>2, <1>3, <1>4

\* The descriptor is written.
LEMMA WritePBDInv ==
  ASSUME VdsInv, WritePBD
  PROVE  VdsInv'
<1> DEFINE r == [st |-> "valid", vbn |-> call.blk, ver |-> Version, data |-> call.data]
<1>1. /\ pc = "Pbd" /\ pc' = "Old"
      /\ UNCHANGED hdr /\ UNCHANGED part /\ UNCHANGED pos /\ UNCHANGED mt /\ UNCHANGED call
  BY PbdFacts
<1>2. New \in Place /\ New' = New /\ TypeOK /\ call.data \in Data /\ call.blk \in Block
  BY PbdFacts
<1>3. \A q \in Copies(call.blk) : At(q).ver < Version
  BY PbdFacts
<1>4. pb' = [pb EXCEPT ![New[1]][New[2]] = r] /\ r \in SlotType
  BY PbdFacts
<1>5. At(New)' = r
  BY <1>2, <1>4, SetSlot DEF SlotSet
<1>6. Old' = Old /\ Old # New
  <2>1. mt[call.blk] = Old /\ (Old # None => Old \in Copies(call.blk)) /\ New \notin Copies(call.blk)
    BY <1>1, <1>2, NotACopy, WritingFacts DEF Writing
  <2> QED
    BY <2>1, <1>1, <1>2, SectorFacts DEF Old
<1>7. Version' = Version
  <2>1. Old # None => At(Old)' = At(Old)
    <3>1. SlotSet(New, r)
      BY <1>2, <1>4, SetSlot
    <3>2. Old \in Place \cup {None}
      BY <1>1, WritingFacts DEF Writing
    <3> QED
      BY <3>1, <3>2, <1>6 DEF SlotSet
  <2> QED
    BY <1>6, <2>1 DEF Version
<1>8. NewSound'
  BY <1>1, <1>2, <1>5, <1>6, <1>7 DEF NewSound
<1> QED
  BY <1>1, <1>2, <1>3, <1>4, <1>8, FillStep

\* Outside a start-up and a collection the map table points to the only copy of a block.
LEMMA IdleFacts ==
  ASSUME VdsInv, pc \in {"idle", "Move", "Pop"} \cup Writing
  PROVE  /\ \A p \in Place : Live(p) => Settled(p)
         /\ \A b \in Block : mt[b] # None => mt[b] \in Copies(b) /\ mt[b] \in Place /\ Live(mt[b])
         /\ pc # "Old" => \A b \in Block : Copies(b) = IF mt[b] = None THEN {} ELSE {mt[b]}
<1>1. \A p \in Place : Live(p) => Settled(p)
  BY DEF Settled
<1>2. \A b \in Block : mt[b] # None => mt[b] \in Copies(b) /\ mt[b] \in Place /\ Live(mt[b])
  BY CopyFacts DEF VdsInv, MapSound
<1>3. ASSUME pc # "Old", NEW b \in Block, NEW q
      PROVE  q \in Copies(b) <=> q = mt[b] /\ mt[b] # None
  <2>1. ASSUME q \in Copies(b) PROVE q = mt[b] /\ mt[b] # None
    <3>1. q \in Place /\ Live(q) /\ q # None
      BY <2>1, CopyFacts, SectorFacts
    <3> QED
      BY <1>1, <1>3, <2>1, <3>1 DEF VdsInv, MapSound
  <2> QED
    BY <1>2, <2>1
<1> QED
  BY <1>1, <1>2, <1>3

\* The slot the block had before is invalidated.
LEMMA InvalidateInv ==
  ASSUME VdsInv, Invalidate
  PROVE  VdsInv'
<1>1. /\ pc = "Old" /\ pc \in Writing
      /\ pc' = "idle" /\ call' = None
      /\ UNCHANGED hdr /\ UNCHANGED part /\ UNCHANGED pos
  BY DEF Invalidate, Finish, Writing
<1>2. /\ mt' = [mt EXCEPT ![call.blk] = New]
      /\ pb' = IF Old = None THEN pb ELSE Kill(Old)
  BY DEF Invalidate
<1> USE <1>1, WritingFacts, CurrentFacts, IdleFacts
<1>3. /\ call.blk \in Block /\ call.data \in Data /\ TypeOK
      /\ Old # None => Old \in Copies(call.blk) /\ Old \in Place /\ Live(Old)
      /\ At(New) = [st |-> "valid", vbn |-> call.blk, ver |-> Version, data |-> call.data]
      /\ Old # New /\ New \in Copies(call.blk)
  BY CopyFacts DEF VdsInv, NewSound
<1>4. mt' \in [Block -> Place \cup {None}]
      /\ \A b \in Block : mt'[b] = IF b = call.blk THEN New ELSE mt[b]
  BY <1>2, <1>3 DEF TypeOK
<1>5. /\ pb' \in [Sector -> [Slot -> SlotType]]
      /\ \A q \in Place : At(q)' = IF q = Old THEN Dead ELSE At(q)
      /\ HeadersSound' /\ SlotsSound' /\ CopiesSound'
      /\ \A b \in Block : \A q : q \in Copies(b)' <=> q \in Copies(b) /\ q # Old
      /\ PartSound' /\ ListsSound' /\ StageSound' /\ CallSound' /\ ScanSound' /\ CopySound'
  <2>1. CASE Old = None
    <3>1. pb' = pb /\ UNCHANGED flash
      BY <1>2, <2>1 DEF flash
    <3>2. SlotSet(New, At(New))
      BY <3>1, <1>3 DEF SlotSet, At, TypeOK, Place
    <3>3. \A q \in Place : At(q)' = At(q)
      BY <3>1 DEF At
    <3>4. PartSound' /\ ListsSound' /\ StageSound' /\ CallSound' /\ ScanSound' /\ CopySound'
      BY <3>2, SlotStep
    <3>5. \A b \in Block : \A q \in Copies(b) : q # None
      BY CopyFacts, SectorFacts
    <3> QED
      BY <2>1, <3>1, <3>3, <3>4, <3>5, FlashStays, SectorFacts DEF VdsInv, TypeOK, SlotType, CopiesStay
  <2>2. CASE Old # None
    <3>1. SlotSet(Old, Dead) /\ pb' \in [Sector -> [Slot -> SlotType]] /\ HeadersStay
      BY <1>2, <1>3, <2>2, SetSlot, SlotFacts DEF VdsInv, HeadersStay, Kill
    <3>2. PartSound' /\ ListsSound' /\ StageSound' /\ CallSound' /\ ScanSound' /\ CopySound'
      BY <1>3, <2>2, <3>1, SlotStep
    <3>3. HeadersSound' /\ SlotsSound' /\ CopiesSound'
          /\ \A b \in Block : \A q : q \in Copies(b)' <=> q \in Copies(b) /\ q # Old
      BY <1>3, <2>2, <3>1, KillSound DEF VdsInv
    <3>4. \A q \in Place : At(q)' = IF q = Old THEN Dead ELSE At(q)
      BY <3>1 DEF SlotSet
    <3> QED
      BY <3>1, <3>2, <3>3, <3>4
  <2> QED
    BY <2>1, <2>2
<1>6. TypeOK'
  BY <1>3, <1>4, <1>5 DEF VdsInv, TypeOK, SlotType, Place, Sector, Slot
<1>7. \A q \in Place : (Live(q)' <=> Live(q)) /\ (Torn(q)' => Torn(q))
  BY <1>5, SlotFacts DEF Live, Torn, VdsInv
<1>8. MapSound'
  <2>1. \A q \in Place : ~Torn(q)'
    BY <1>7 DEF VdsInv, MapSound, Torn
  <2>2. ASSUME NEW b \in Block, NEW q, q \in Copies(b)'
        PROVE  mt'[b] = q
    <3>1. q \in Copies(b) /\ q # Old /\ q \in Place /\ Live(q) /\ At(q).vbn = b
      BY <1>5, <2>2, CopyFacts
    <3>2. mt[b] = q \/ q = New
      BY <3>1 DEF VdsInv, MapSound
    <3> QED
      BY <1>3, <1>4, <3>1, <3>2
  <2>3. ASSUME NEW b \in Block, mt'[b] # None
        PROVE  mt'[b] \in Copies(b)'
    <3>1. CASE b = call.blk
      BY <1>3, <1>4, <1>5, <3>1
    <3>2. CASE b # call.blk
      <4>1. mt'[b] = mt[b] /\ mt[b] \in Copies(b) /\ At(mt[b]).vbn = b
        BY <1>4, <2>3, <3>2, CopyFacts
      <4>2. mt[b] # Old
        BY <1>3, <3>2, <4>1, CopyFacts, SectorFacts
      <4> QED
        BY <1>5, <4>1, <4>2
    <3> QED
      BY <3>1, <3>2
  <2> QED
    BY <2>1, <2>2, <2>3 DEF MapSound, Booting, Collecting, Making, Dropping, Place, Sector, Slot
<1>9. PositionsSound'
  BY <1>5, PlaceFacts, SlotFacts DEF VdsInv, PositionsSound, Positioned, Writing, Dropping, Clear, Slot, Fresh, Dead
<1>10. NewSound'
  BY DEF NewSound
<1> QED
  BY <1>5, <1>6, <1>8, <1>9, <1>10 DEF VdsInv

\* VDS_RevertBlock gives up a block.
LEMMA RevertBlockInv ==
  ASSUME VdsInv, NEW c \in Block, RevertBlock(c)
  PROVE  VdsInv'
<1>1. /\ pc = "idle" /\ pc' = "idle" /\ call' = call /\ mt[c] # None
      /\ UNCHANGED hdr /\ UNCHANGED part /\ UNCHANGED pos
  BY DEF RevertBlock, ctl
<1>2. pb' = Kill(mt[c]) /\ mt' = [mt EXCEPT ![c] = None]
  BY DEF RevertBlock
<1> USE <1>1, CurrentFacts, IdleFacts
<1>3. TypeOK /\ mt[c] \in Copies(c) /\ mt[c] \in Place /\ Live(mt[c]) /\ call' = None
  BY DEF VdsInv, CallSound, Writing, Collecting, Making, Dropping
<1>4. mt' \in [Block -> Place \cup {None}]
      /\ \A b \in Block : mt'[b] = IF b = c THEN None ELSE mt[b]
  BY <1>2, <1>3 DEF TypeOK
<1>5. SlotSet(mt[c], Dead) /\ pb' \in [Sector -> [Slot -> SlotType]] /\ HeadersStay
  BY <1>2, <1>3, SetSlot, SlotFacts DEF VdsInv, HeadersStay, Kill
<1>6. PartSound' /\ ListsSound' /\ StageSound' /\ CallSound' /\ ScanSound' /\ CopySound'
  BY <1>3, <1>5, SlotStep
<1>7. HeadersSound' /\ SlotsSound' /\ CopiesSound'
      /\ \A b \in Block : \A q : q \in Copies(b)' <=> q \in Copies(b) /\ q # mt[c]
  BY <1>3, <1>5, KillSound DEF VdsInv
<1>8. \A q \in Place : At(q)' = IF q = mt[c] THEN Dead ELSE At(q)
  BY <1>5 DEF SlotSet
<1>9. TypeOK'
  BY <1>3, <1>4, <1>5 DEF VdsInv, TypeOK, SlotType, Place, Sector, Slot
<1>10. \A q \in Place : (Live(q)' <=> Live(q)) /\ (Torn(q)' => Torn(q))
  BY <1>8, SlotFacts DEF Live, Torn, VdsInv
<1>11. MapSound'
  <2>1. \A q \in Place : ~Torn(q)'
    BY <1>10 DEF VdsInv, MapSound, Torn
  <2>2. \A b \in Block : \A q \in Copies(b)' : mt'[b] = q
    BY <1>4, <1>7, CopyFacts
  <2>3. ASSUME NEW b \in Block, mt'[b] # None
        PROVE  mt'[b] \in Copies(b)'
    <3>1. b # c /\ mt'[b] = mt[b] /\ mt[b] \in Copies(b) /\ At(mt[b]).vbn = b
      BY <1>4, <2>3, CopyFacts
    <3>2. mt[b] # mt[c]
      BY <1>3, <3>1, CopyFacts
    <3> QED
      BY <1>7, <3>1, <3>2
  <2> QED
    BY <2>1, <2>2, <2>3 DEF MapSound, Booting, Collecting, Making, Dropping, Place, Sector, Slot
<1>12. PositionsSound'
  BY <1>8, PlaceFacts, SlotFacts DEF VdsInv, PositionsSound, Positioned, Writing, Dropping, Clear, Slot, Fresh, Dead
<1>13. NewSound'
  BY DEF NewSound
<1> QED
  BY <1>6, <1>7, <1>9, <1>11, <1>12, <1>13 DEF VdsInv

-----------------------------------------------------------------------------
(* The power cut. *)

\* With the power off, only the flash matters.
LEMMA OffSound ==
  ASSUME pc' = "off", part' = Empty, call' = None, \A b \in Block : mt'[b] = None, \A s \in Sector : pos'[s] = -1
  PROVE  /\ PartSound' /\ ListsSound' /\ StageSound' /\ CallSound' /\ ScanSound'
         /\ MapSound' /\ PositionsSound' /\ NewSound' /\ CopySound'
<1>1. PartSound'
  <2>1. Empty \in Partition
    BY EmptySeqFacts DEF Empty, Partition
  <2> QED
    BY <2>1, EmptySeqFacts DEF PartSound, Empty, Partition, Sector
<1>2. ListsSound'
  BY DEF ListsSound
<1>3. StageSound'
  BY DEF StageSound, Empty, Booting, Writing, Making, Dropping, Collecting
<1>4. CallSound' /\ ScanSound'
  BY DEF CallSound, ScanSound, Writing, Making, Dropping, Collecting
<1>5. MapSound'
  BY DEF MapSound, Settled, Writing, Making, Dropping, Collecting
<1>6. PositionsSound'
  <2>1. Range(part'.free) = {}
    BY EmptySeqFacts DEF Empty
  <2> QED
    BY <2>1 DEF PositionsSound, Positioned, Writing, Dropping
<1>7. NewSound' /\ CopySound'
  BY DEF NewSound, CopySound
<1> QED
  BY <1>1, <1>2, <1>3, <1>4, <1>5, <1>6, <1>7

\* The power is cut.
LEMMA PowerCutInv ==
  ASSUME VdsInv, PowerCut
  PROVE  VdsInv'
<1>1. /\ pc' = "off" /\ part' = Empty /\ call' = None /\ UNCHANGED flash
      /\ mt' = [b \in Block |-> None] /\ pos' = [s \in Sector |-> -1]
  BY DEF PowerCut
<1>2. HeadersSound' /\ SlotsSound' /\ CopiesSound'
  BY <1>1, FlashStays DEF VdsInv
<1>3. TypeOK'
  <2>1. -1 \in -1 .. NrPb - 1
    BY SectorFacts
  <2> QED
    BY <1>1, <2>1 DEF VdsInv, TypeOK, flash, Place, Sector, Slot
<1>4. /\ PartSound' /\ ListsSound' /\ StageSound' /\ CallSound' /\ ScanSound'
      /\ MapSound' /\ PositionsSound' /\ NewSound' /\ CopySound'
  BY <1>1, OffSound
<1> QED
  BY <1>2, <1>3, <1>4 DEF VdsInv

\* The first state: a flash that was never written.
LEMMA InitInv ==
  ASSUME Init
  PROVE  VdsInv
<1>1. /\ pc = "off" /\ part = Empty /\ call = None
      /\ hdr = [s \in Sector |-> "blank"] /\ pb = [s \in Sector |-> [i \in Slot |-> Fresh]]
      /\ mt = [b \in Block |-> None] /\ pos = [s \in Sector |-> -1]
  BY DEF Init
<1>2. TypeOK
  <2>1. -1 \in -1 .. NrPb - 1
    BY SectorFacts
  <2> QED
    BY <1>1, <2>1 DEF TypeOK, Fresh
<1>3. /\ \A s \in Sector : hdr[s] = "blank"
      /\ \A p \in Place : hdr[p[1]] = "blank" /\ ~Live(p)
      /\ ~HasData /\ ~Has("gcing") /\ ~Has("remain")
      /\ \A b : Copies(b) = {}
  BY <1>1, PlaceFacts DEF Live, HasData, Has, Copies
<1>4. HeadersSound
  <2>1. 0 \in Sector
    BY SectorFacts DEF Sector
  <2> QED
    BY <1>3, <2>1 DEF HeadersSound, Counted
<1>5. SlotsSound /\ CopiesSound
  BY <1>3 DEF SlotsSound, CopiesSound, Torn
<1>6. PartSound
  <2>1. Empty \in Partition
    BY EmptySeqFacts DEF Empty, Partition
  <2> QED
    BY <1>1, <2>1, EmptySeqFacts DEF PartSound, Empty
<1>7. ListsSound /\ CallSound /\ ScanSound /\ NewSound /\ CopySound /\ StageSound
  BY <1>1 DEF ListsSound, CallSound, ScanSound, StageSound, NewSound, CopySound, Empty, Booting, Writing, Making, Dropping, Collecting
<1>8. MapSound
  BY <1>1 DEF MapSound, Settled, Writing, Making, Dropping, Collecting
<1>9. PositionsSound
  <2>1. Range(part.free) = {}
    BY <1>1, EmptySeqFacts DEF Empty
  <2> QED
    BY <1>1, <2>1 DEF PositionsSound, Positioned, Writing, Dropping
<1> QED
  BY <1>2, <1>4, <1>5, <1>6, <1>7, <1>8, <1>9 DEF VdsInv

SlotsStay == \A q : At(q)' = At(q)

-----------------------------------------------------------------------------
(* The current sector changes. *)

\* An empty sector becomes the current one.
LEMMA CurrentSound ==
  ASSUME TypeOK, HeadersSound, SlotsSound, CopiesSound, NEW s \in Sector, hdr[s] = "free",
         ~Has("current"), ~Has("gcing"), \A t, u \in Sector : ~Counted(t) /\ ~Counted(u) => t = u,
         HeaderSet(s, "current"), SlotsStay
  PROVE  /\ HeadersSound' /\ SlotsSound' /\ CopiesSound' /\ CopiesStay
         /\ \A p \in Place : Torn(p)' <=> Torn(p)
<1> USE SlotFacts, PlaceFacts
<1>1. \A u \in Sector : hdr'[u] = IF u = s THEN "current" ELSE hdr[u]
  BY DEF HeaderSet
<1>2. \A q : At(q)' = At(q)
  BY DEF SlotsStay
<1>3. \A q \in Place : q[1] = s => Clear(q) /\ At(q).st # "valid"
  BY DEF SlotsSound, Clear, Dead, Fresh
<1>4. \A q \in Place : Live(q)' <=> Live(q) \/ q[1] = s
  BY <1>1 DEF Live
<1>5. \A p \in Place : Torn(p)' <=> Torn(p)
  BY <1>1, <1>2, <1>3, <1>4 DEF Torn
<1>6. ~Has("gcing")' /\ Has("current")' /\ \A u \in Sector : hdr[u] # "current" /\ hdr[u] # "gcing"
  BY <1>1 DEF Has, Sector
<1>7. CopiesStay
  <2> SUFFICES ASSUME NEW b, NEW q PROVE q \in Copies(b)' <=> q \in Copies(b)
    BY DEF CopiesStay
  <2> QED
    BY <1>2, <1>3, <1>4, CopyFacts, CopyFactsPrime
<1>8. HeadersSound'
  <2>1. HasData'
    BY <1>1 DEF HasData, Sector
  <2>2. \A u \in Sector : Counted(u)' <=> Counted(u)
    BY <1>1 DEF Counted
  <2>3. ~\A u \in Sector : Counted(u)'
    BY <2>2 DEF HeadersSound
  <2>4. \A t, u \in Sector : hdr'[t] = hdr'[u] /\ hdr'[t] \in {"remain", "current", "gcing"} => t = u
    BY <1>1, <1>6 DEF HeadersSound
  <2> QED
    BY <1>6, <2>1, <2>2, <2>3, <2>4 DEF HeadersSound, Sector
<1>9. SlotsSound'
  <2>1. \A q \in Place : /\ hdr'[q[1]] = "remain" => At(q)' = Fresh
                         /\ hdr'[q[1]] = "free" => Clear(q)'
                         /\ Live(q)' => Clear(q)' \/ At(q)'.st = "valid"
                         /\ Torn(q)' => hdr'[q[1]] = "current" /\ ~Has("gcing")'
    BY <1>1, <1>2, <1>3, <1>4, <1>5, <1>6 DEF SlotsSound, Clear
  <2>2. \A u \in Sector : hdr'[u] \in {"dirty", "current"} => \A i, j \in Slot :
          i < j /\ At(<<u, i>>)'.st = "free" => At(<<u, j>>)'.st # "valid"
    BY <1>1, <1>2, <1>3 DEF SlotsSound
  <2>3. \A u \in Sector : hdr'[u] # "gcing"
    BY <1>1, <1>6
  <2> QED
    BY <2>1, <2>2, <2>3 DEF SlotsSound, Place, Sector, Slot
<1>10. CopiesSound'
  <2>1. \A b \in Block : \A q : q \in Copies(b)' <=> q \in Copies(b)
    BY <1>7 DEF CopiesStay
  <2>2. \A b \in Block : \A q \in Copies(b) : At(q)' = At(q) /\ hdr'[q[1]] = hdr[q[1]] /\ q \in Place
    BY <1>1, <1>2, CopyFacts DEF Live
  <2> QED
    BY <1>6, <2>1, <2>2 DEF CopiesSound
<1> QED
  BY <1>5, <1>7, <1>8, <1>9, <1>10

\* The full current sector becomes a dirty one.
LEMMA DirtySound ==
  ASSUME TypeOK, HeadersSound, SlotsSound, CopiesSound, NEW s \in Sector, hdr[s] = "current",
         ~Has("gcing"), \A p \in Place : ~Torn(p),
         \A b \in Block : \A p, q \in Copies(b) : p = q,
         HeaderSet(s, "dirty"), SlotsStay
  PROVE  /\ HeadersSound' /\ SlotsSound' /\ CopiesSound' /\ CopiesStay
         /\ \A p \in Place : ~Torn(p)'
<1> USE SlotFacts, PlaceFacts
<1>1. \A u \in Sector : hdr'[u] = IF u = s THEN "dirty" ELSE hdr[u]
  BY DEF HeaderSet
<1>2. \A q : At(q)' = At(q)
  BY DEF SlotsStay
<1>4. \A q \in Place : Live(q)' <=> Live(q)
  BY <1>1 DEF Live
<1>5. \A p \in Place : ~Torn(p)'
  BY <1>2, <1>4 DEF Torn
<1>6. ~Has("gcing")' /\ ~Has("current")' /\ \A u \in Sector : hdr'[u] # "current" /\ hdr'[u] # "gcing"
  BY <1>1 DEF Has, Sector, HeadersSound
<1>7. CopiesStay
  <2> SUFFICES ASSUME NEW b, NEW q PROVE q \in Copies(b)' <=> q \in Copies(b)
    BY DEF CopiesStay
  <2> QED
    BY <1>2, <1>4, CopyFacts, CopyFactsPrime
<1>8. HeadersSound'
  <2>1. HasData' /\ HasData
    BY <1>1 DEF HasData, Sector
  <2>2. \A u \in Sector : Counted(u)' <=> Counted(u)
    BY <1>1 DEF Counted
  <2>3. ~\A u \in Sector : Counted(u)'
    BY <2>2 DEF HeadersSound
  <2>4. \A t, u \in Sector : hdr'[t] = hdr'[u] /\ hdr'[t] \in {"remain", "current", "gcing"} => t = u
    BY <1>1, <1>6 DEF HeadersSound
  <2> QED
    BY <1>6, <2>1, <2>2, <2>3, <2>4 DEF HeadersSound, Sector
<1>9. SlotsSound'
  <2>1. \A q \in Place : /\ hdr'[q[1]] = "remain" => At(q)' = Fresh
                         /\ hdr'[q[1]] = "free" => Clear(q)'
                         /\ Live(q)' => Clear(q)' \/ At(q)'.st = "valid"
    BY <1>1, <1>2, <1>4 DEF SlotsSound, Clear
  <2>2. \A u \in Sector : hdr'[u] \in {"dirty", "current"} => \A i, j \in Slot :
          i < j /\ At(<<u, i>>)'.st = "free" => At(<<u, j>>)'.st # "valid"
    BY <1>1, <1>2 DEF SlotsSound
  <2> QED
    BY <1>5, <1>6, <2>1, <2>2 DEF SlotsSound, Place, Sector, Slot
<1>10. CopiesSound'
  <2>1. \A b \in Block : \A q : q \in Copies(b)' <=> q \in Copies(b)
    BY <1>7 DEF CopiesStay
  <2>2. \A b \in Block : \A q \in Copies(b)' : q \in Place
    BY CopyFactsPrime
  <2> QED
    BY <1>6, <2>1, <2>2 DEF CopiesSound
<1> QED
  BY <1>5, <1>7, <1>8, <1>9, <1>10

\* At most one sector is not counted.
LEMMA OneUncounted ==
  ASSUME VdsInv, pc \notin {"off", "GcErase", "GcErasing"}, part.unformat = <<>>, part.temp = None
  PROVE  \A s \in Sector : ~Counted(s) => s = part.remain
<1> SUFFICES ASSUME NEW s \in Sector, s # part.remain
             PROVE  Counted(s)
  OBVIOUS
<1>1. PICK role \in [Sector -> Role] : Roles(part, role)
  BY DEF VdsInv, PartSound
<1>2. s \notin Range(part.unformat) /\ s # part.temp
  BY EmptySeqFacts, SectorFacts
<1>3. \/ s \in Range(part.dirty) \/ s \in Range(part.free) \/ s = part.current \/ s = part.gcing
  BY <1>1, <1>2 DEF Roles, Role
<1> QED
  BY <1>3 DEF VdsInv, ListsSound, Counted

\* Every sector is in one list.
LEMMA ListFacts ==
  ASSUME VdsInv, pc # "off"
  PROVE  /\ part \in Partition
         /\ part.dirty \in Seq(Sector) /\ part.free \in Seq(Sector) /\ part.unformat \in Seq(Sector)
         /\ IsInjective(part.dirty) /\ IsInjective(part.free) /\ IsInjective(part.unformat)
         /\ \A s \in Sector :
              /\ s \in Range(part.free) => hdr[s] = "free" /\ pos[s] = -1
              /\ s \in Range(part.dirty) <=> hdr[s] = "dirty"
              /\ s = part.current <=> hdr[s] = "current"
         /\ part.remain \in Sector \cup {None} /\ part.current \in Sector \cup {None}
         /\ part.gcing \in Sector \cup {None} /\ part.temp \in Sector \cup {None}
         /\ \E role \in [Sector -> Role] : Roles(part, role)
BY DEF VdsInv, PartSound, Partition, ListsSound, PositionsSound

\* A free sector becomes the current one (vds_Pop).
LEMMA PopInv ==
  ASSUME VdsInv, Pop
  PROVE  VdsInv'
<1>2. /\ pc = "Pop"
      /\ part.current = None /\ part.gcing = None /\ part.temp = None /\ part.remain # None
      /\ part.unformat = <<>> /\ part.free # <<>>
  BY DEF Pop, VdsInv, StageSound, Booting, Writing, Making
<1>3. pc # "off" /\ part \in Partition /\ part.free \in Seq(Sector)
      /\ IsInjective(part.free)
  BY <1>2, ListFacts
<1>4. PICK s \in Sector : /\ s = Head(part.free)
                          /\ s \in Range(part.free) /\ Tail(part.free) \in Seq(Sector)
                          /\ IsInjective(Tail(part.free)) /\ s \notin Range(Tail(part.free))
                          /\ Range(part.free) = Range(Tail(part.free)) \cup {s}
  BY <1>2, <1>3, TailSeq
<1>1. /\ pc = "Pop" /\ pc' = "Status" /\ UNCHANGED call /\ UNCHANGED pb /\ UNCHANGED mt
      /\ hdr' = [hdr EXCEPT ![s] = "current"]
      /\ part' = [part EXCEPT !.current = s, !.free = Tail(part.free)]
      /\ pos' = [pos EXCEPT ![s] = pos[s] + 1]
  BY <1>4 DEF Pop, Goto
<1> USE IdleFacts
<1>5. hdr[s] = "free" /\ pos[s] = -1
  BY <1>3, <1>4, ListFacts
<1>6. TypeOK /\ HeaderSet(s, "current") /\ hdr' \in [Sector -> Status] /\ SlotsStay
  BY <1>1, <1>4, SetHeader DEF VdsInv, Status, SlotsStay, At
<1>7. ~Has("current") /\ ~Has("gcing")
  BY <1>1, <1>2, SectorFacts DEF VdsInv, ListsSound, Has
<1>8. \A t, u \in Sector : ~Counted(t) /\ ~Counted(u) => t = u
  BY <1>1, <1>2, OneUncounted
<1>9. /\ HeadersSound' /\ SlotsSound' /\ CopiesSound' /\ CopiesStay
      /\ \A p \in Place : Torn(p)' <=> Torn(p)
  BY <1>4, <1>5, <1>6, <1>7, <1>8, CurrentSound DEF VdsInv
<1>10. /\ \A u \in Sector : pos'[u] = IF u = s THEN 0 ELSE pos[u]
       /\ pos' \in [Sector -> -1 .. NrPb - 1]
  <2>1. pos \in [Sector -> -1 .. NrPb - 1] /\ 0 \in -1 .. NrPb - 1 /\ pos[s] + 1 = 0
    BY <1>5, SectorFacts DEF VdsInv, TypeOK
  <2> QED
    BY <1>1, <1>4, <2>1
<1>11. TypeOK'
  BY <1>1, <1>6, <1>10 DEF VdsInv, TypeOK, Status, Place, Sector, Slot
<1>12. /\ part'.dirty = part.dirty /\ part'.free = Tail(part.free) /\ part'.current = s
       /\ part'.gcing = None /\ part'.temp = None /\ part'.remain = part.remain
       /\ part'.unformat = <<>> /\ part' \in Partition
  BY <1>1, <1>2, <1>3, <1>4 DEF Partition
<1>13. PartSound'
  <2>1. PICK role \in [Sector -> Role] : Roles(part, role)
    BY <1>3, ListFacts
  <2> DEFINE role1 == [role EXCEPT ![s] = "current"]
  <2>2. role1 \in [Sector -> Role] /\ \A u \in Sector : role1[u] = IF u = s THEN "current" ELSE role[u]
    BY <1>4 DEF Role
  <2> HIDE DEF role1
  <2>3. Roles(part', role1)
    BY <1>2, <1>4, <1>12, <2>1, <2>2, SectorFacts DEF Roles
  <2> QED
    BY <1>2, <1>3, <1>4, <1>12, <2>2, <2>3, ListFacts DEF PartSound, Partition, Sector
<1>14. ListsSound'
  <2>1. \A u : AllFresh(u)' <=> AllFresh(u)
    BY <1>6 DEF SlotsStay, AllFresh, Slot, Fresh
  <2> QED
  BY <1>1, <1>2, <1>4, <1>5, <1>6, <1>12, <2>1, EmptySeqFacts, SectorFacts DEF ListsSound, VdsInv, HeaderSet, Sector
<1>15. StageSound'
  BY <1>1, <1>2, <1>4, <1>12, SectorFacts DEF StageSound, Booting, Writing, Making, Dropping, Collecting
<1>16. CallSound' /\ ScanSound' /\ CopySound'
  BY <1>1 DEF VdsInv, CallSound, ScanSound, CopySound, Writing, Making, Dropping, Collecting
<1>17. MapSound'
  <2>1. \A q \in Place : ~Torn(q)'
    BY <1>1, <1>9 DEF VdsInv, MapSound, Torn
  <2>2. \A b \in Block : \A q \in Copies(b)' : mt[b] = q
    BY <1>1, <1>9 DEF CopiesStay
  <2> QED
    BY <1>1, <1>9, <2>1, <2>2 DEF MapSound, CopiesStay, Booting, Collecting, Making, Dropping, Place, Sector, Slot
<1>18. \A i \in Slot : Clear(<<s, i>>)'
  BY <1>4, <1>5, <1>6, PlaceFacts DEF VdsInv, SlotsSound, SlotsStay, Clear, Fresh, Dead
<1>19. PositionsSound'
  <2>1. \A u \in Range(part'.free) : pos'[u] = -1
    <3>1. Range(Tail(part.free)) \subseteq Sector
      BY <1>4, SeqFacts
    <3> QED
      BY <1>3, <1>4, <1>10, <1>12, <3>1, ListFacts
  <2>2. pos'[part'.current] = 0 /\ \A i \in Slot : i \in Nat
    BY <1>4, <1>10, <1>12, SectorFacts
  <2>3. \A i \in Slot : Clear(<<part.current, i>>)' /\ ~(i < 0)
    BY <1>12, <1>18, <2>2
  <2> QED
    BY <1>1, <2>1, <2>2, <2>3 DEF PositionsSound, Dropping, Slot
<1>20. NewSound'
  <2>1. 0 \in Slot
    BY SectorFacts DEF Slot
  <2> QED
    BY <1>1, <1>4, <1>10, <1>12, <1>18, <2>1 DEF NewSound, New
<1> QED
  BY <1>9, <1>11, <1>13, <1>14, <1>15, <1>16, <1>17, <1>19, <1>20 DEF VdsInv

\* The position moves on, or the full current sector becomes dirty (vds_MoveCurrentPos).
LEMMA MoveInv ==
  ASSUME VdsInv, Move
  PROVE  VdsInv'
<1>1. pc = "Move" /\ pc # "off"
  BY DEF Move
<1>2. PICK c \in Sector : /\ c = part.current /\ hdr[c] = "current" /\ pos[c] \in -1 .. NrPb - 1
  BY <1>1, CurrentFacts
<1>3. /\ part.gcing = None /\ part.temp = None /\ part.remain # None /\ part.unformat = <<>>
      /\ ~Has("gcing") /\ c # None
  BY <1>1, <1>2, CurrentFacts, SectorFacts DEF VdsInv, StageSound, Booting, Writing, Making
<1>4. /\ \A q \in Place : ~Torn(q)
      /\ \A b \in Block : mt[b] # None => mt[b] \in Copies(b)
      /\ \A b \in Block : \A q \in Copies(b) : mt[b] = q
  BY <1>1, IdleFacts, SectorFacts DEF VdsInv, MapSound, Torn
<1>5. UNCHANGED pb /\ UNCHANGED mt /\ UNCHANGED call
  BY DEF Move, Goto, GoGc
<1>6. CASE pos[c] # NrPb - 1
  <2>1. /\ pc' = "Status" /\ UNCHANGED hdr /\ UNCHANGED part
        /\ pos' = [pos EXCEPT ![c] = pos[c] + 1]
    BY <1>2, <1>3, <1>6 DEF Move, Goto
  <2>2. UNCHANGED flash
    BY <1>5, <2>1 DEF flash
  <2>3. /\ HeadersSound' /\ SlotsSound' /\ CopiesSound' /\ CopiesStay
        /\ \A p : At(p)' = At(p) /\ (Live(p)' <=> Live(p)) /\ (Torn(p)' <=> Torn(p))
    BY <2>2, FlashStays DEF VdsInv
  <2>4. /\ \A u \in Sector : pos'[u] = IF u = c THEN pos[c] + 1 ELSE pos[u]
        /\ pos' \in [Sector -> -1 .. NrPb - 1] /\ pos[c] + 1 \in Slot
    <3>1. pos \in [Sector -> -1 .. NrPb - 1] /\ pos[c] + 1 \in -1 .. NrPb - 1 /\ pos[c] + 1 \in Slot
      BY <1>2, <1>6, SectorFacts DEF VdsInv, TypeOK, Slot
    <3> QED
      BY <1>2, <2>1, <3>1
  <2>5. TypeOK'
    BY <1>5, <2>1, <2>4 DEF VdsInv, TypeOK, Place, Sector, Slot
  <2>6. PartSound' /\ ListsSound'
    <3>1. \A u : AllFresh(u)' <=> AllFresh(u)
      BY <2>3 DEF AllFresh, Slot, Fresh
    <3> QED
      BY <1>1, <2>1, <3>1 DEF VdsInv, PartSound, ListsSound, Roles, Partition, Sector, Counted, HasData
  <2>7. StageSound'
    BY <1>1, <2>1 DEF VdsInv, StageSound, Booting, Writing, Making, Dropping, Collecting
  <2>8. CallSound' /\ ScanSound' /\ CopySound'
    BY <1>1, <1>5, <2>1 DEF VdsInv, CallSound, ScanSound, CopySound, Writing, Making, Dropping, Collecting
  <2>9. MapSound'
    BY <1>4, <1>5, <2>1, <2>3 DEF MapSound, CopiesStay, Booting, Collecting, Making, Dropping, Place, Sector, Slot
  <2>10. /\ \A i \in Slot : i > pos[c] => Clear(<<c, i>>)
         /\ \A i \in Slot : i <= pos[c] => At(<<c, i>>).st # "free"
    <3>1. \A i \in Slot : i \in Nat
      BY SectorFacts
    <3> QED
    BY <1>1, <1>2, <3>1 DEF VdsInv, PositionsSound, Positioned
  <2>11. /\ \A i \in Slot : i > pos[c] => Clear(<<c, i>>)'
         /\ \A i \in Slot : i <= pos[c] => At(<<c, i>>)'.st # "free"
    BY <1>2, <2>3, <2>10 DEF Clear, Fresh, Dead
  <2>12. PositionsSound'
    <3>1. \A u \in Range(part.free) : u \in Sector /\ u # c
      BY <1>1, <1>2, ListFacts, SeqFacts
    <3>2. \A u \in Range(part'.free) : pos'[u] = -1
      BY <1>1, <2>1, <2>4, <3>1, ListFacts
    <3>3. pos'[part'.current] = pos[c] + 1 /\ \A i \in Slot : i \in Nat
      BY <1>2, <2>1, <2>4, SectorFacts
    <3>4. \A i \in Slot : /\ i > pos[c] + 1 => Clear(<<part.current, i>>)'
                          /\ i < pos[c] + 1 => At(<<part.current, i>>)'.st # "free"
      BY <1>2, <2>1, <2>11, <3>3
    <3>5. pos[c] + 1 # -1
      BY <1>2
    <3> QED
      BY <2>1, <3>2, <3>3, <3>4, <3>5 DEF PositionsSound, Dropping, Slot
  <2>13. NewSound'
    <3>1. PICK n \in Slot : n = pos[c] + 1
      BY <2>4
    <3>2. n > pos[c]
      BY <1>2, <3>1
    <3>3. Clear(<<c, n>>)'
      BY <2>11, <3>2
    <3>4. New' = <<c, n>>
      BY <1>2, <2>1, <2>4, <3>1 DEF New
    <3> QED
      BY <2>1, <3>3, <3>4 DEF NewSound
  <2> QED
    BY <2>3, <2>5, <2>6, <2>7, <2>8, <2>9, <2>12, <2>13 DEF VdsInv
<1>7. CASE pos[c] = NrPb - 1
  <2>1. /\ hdr' = [hdr EXCEPT ![c] = "dirty"]
        /\ part' = [part EXCEPT !.dirty = Append(part.dirty, c), !.current = None]
        /\ UNCHANGED pos
        /\ \/ part.free = <<>> /\ pc' = "GcPick" /\ ret' = "Status"
           \/ part.free # <<>> /\ pc' = "Pop"
    BY <1>2, <1>3, <1>7 DEF Move, Goto, GoGc
  <2>2. TypeOK /\ HeaderSet(c, "dirty") /\ hdr' \in [Sector -> Status] /\ SlotsStay
    BY <1>5, <2>1, SetHeader DEF VdsInv, Status, SlotsStay, At
  <2>3. /\ HeadersSound' /\ SlotsSound' /\ CopiesSound' /\ CopiesStay
        /\ \A p \in Place : ~Torn(p)'
    <3>1. \A b \in Block : \A p, q \in Copies(b) : p = q
      BY <1>4
    <3> QED
      BY <1>2, <1>3, <1>4, <2>2, <3>1, DirtySound DEF VdsInv
  <2>4. TypeOK'
    BY <1>5, <2>1, <2>2 DEF VdsInv, TypeOK, Status, Place, Sector, Slot
  <2>5. /\ part \in Partition /\ c \notin Range(part.dirty) /\ c \notin Range(part.free)
        /\ Append(part.dirty, c) \in Seq(Sector) /\ IsInjective(Append(part.dirty, c))
        /\ Range(Append(part.dirty, c)) = Range(part.dirty) \cup {c}
    BY <1>1, <1>2, ListFacts, AppendSeq
  <2>6. /\ part'.dirty = Append(part.dirty, c) /\ part'.free = part.free /\ part'.current = None
        /\ part'.gcing = None /\ part'.temp = None /\ part'.remain = part.remain
        /\ part'.unformat = <<>> /\ part' \in Partition
    BY <1>3, <2>1, <2>5 DEF Partition
  <2>7. PartSound'
    <3>1. PICK role \in [Sector -> Role] : Roles(part, role)
      BY <1>1, ListFacts
    <3> DEFINE role1 == [role EXCEPT ![c] = "dirty"]
    <3>2. role1 \in [Sector -> Role] /\ \A u \in Sector : role1[u] = IF u = c THEN "dirty" ELSE role[u]
      BY DEF Role
    <3> HIDE DEF role1
    <3>3. Roles(part', role1)
      BY <1>2, <1>3, <2>5, <2>6, <3>1, <3>2, SectorFacts DEF Roles
    <3> QED
      BY <1>1, <1>3, <2>5, <2>6, <3>2, <3>3, ListFacts DEF PartSound, Partition, Sector
  <2>8. ListsSound'
    <3>1. \A u : AllFresh(u)' <=> AllFresh(u)
      BY <2>2 DEF SlotsStay, AllFresh, Slot, Fresh
    <3> QED
      BY <1>1, <1>2, <1>3, <2>1, <2>2, <2>5, <2>6, <3>1, EmptySeqFacts, SectorFacts DEF ListsSound, VdsInv, HeaderSet, Sector
  <2>9. StageSound'
    BY <1>3, <2>1, <2>6 DEF StageSound, Booting, Writing, Making, Dropping, Collecting
  <2>10. CallSound' /\ ScanSound' /\ CopySound' /\ NewSound'
    BY <1>1, <1>5, <2>1 DEF VdsInv, CallSound, ScanSound, CopySound, NewSound, Writing, Making, Dropping, Collecting
  <2>11. MapSound'
    BY <1>4, <1>5, <2>1, <2>3 DEF MapSound, CopiesStay, Booting, Collecting, Making, Dropping, Place, Sector, Slot
  <2>12. PositionsSound'
    BY <1>1, <2>1, <2>6 DEF VdsInv, PositionsSound, Positioned, Writing, Dropping
  <2> QED
    BY <2>3, <2>4, <2>7, <2>8, <2>9, <2>10, <2>11, <2>12 DEF VdsInv
<1> QED
  BY <1>6, <1>7

-----------------------------------------------------------------------------
(* The scan of the slots. *)

\* Where a scan is.
LEMMA ScanFacts ==
  ASSUME VdsInv, pc \in {"BootScan", "GcScan"}
  PROVE  /\ scan \in [secs : Seq(Sector), i : 0 .. NrPb] /\ scan.secs \in Seq(Sector)
         /\ scan.i \in 0 .. NrPb
         /\ scan.secs # <<>> /\ IsInjective(scan.secs)
         /\ Head(scan.secs) \in Sector /\ Head(scan.secs) \in Range(scan.secs)
         /\ Range(scan.secs) \subseteq Sector
         /\ \A s \in Range(scan.secs) : hdr[s] \in {"dirty", "current"}
         /\ pc = "GcScan" => /\ Head(scan.secs) = part.current /\ hdr[part.current] = "current"
                             /\ Has("gcing") /\ ret \in {"Status", "idle", "BootScan"}
                             /\ scan.secs = <<part.current>> /\ part.current \in Sector
         /\ pc = "BootScan" => ~(Has("gcing") /\ Has("current"))
         /\ \A s \in Sector : hdr[s] = "dirty" => Listed(s)
         /\ \A s \in Sector : hdr[s] = "current" => Listed(s)
<1>1. /\ scan \in [secs : Seq(Sector), i : 0 .. NrPb]
      /\ scan.secs # <<>> /\ IsInjective(scan.secs)
  BY DEF VdsInv, ScanSound
<1>2. /\ scan.secs \in Seq(Sector) /\ scan.i \in 0 .. NrPb
  BY <1>1
<1>3. Head(scan.secs) \in Sector /\ Head(scan.secs) \in Range(scan.secs)
      /\ Range(scan.secs) \subseteq Sector
  BY <1>1, <1>2, TailSeq, SeqFacts
<1>4. pc # "off" /\ part \in Partition
  BY ListFacts
<1>5. pc = "GcScan" => /\ part.gcing \in Sector /\ part.current \in Sector
                       /\ ret \in {"Status", "idle", "BootScan"} /\ scan.secs = <<part.current>>
  BY <1>4 DEF VdsInv, StageSound, CallSound, ScanSound, Dropping, Collecting, Partition
<1>6. pc = "GcScan" => /\ Head(scan.secs) = part.current /\ hdr[part.current] = "current"
                       /\ Has("gcing")
  <2>1. pc = "GcScan" => hdr[part.gcing] = "gcing" /\ hdr[part.current] = "current"
    BY <1>5 DEF VdsInv, ListsSound
  <2> QED
    BY <1>5, <2>1 DEF Has
<1>7. \A s \in Range(scan.secs) : hdr[s] \in {"dirty", "current"}
  <2>1. CASE pc = "BootScan"
    BY <2>1 DEF VdsInv, ScanSound
  <2>2. CASE pc = "GcScan"
    <3>1. Range(scan.secs) = {part.current}
      <4>1. Len(scan.secs) = 1 /\ scan.secs[1] = part.current
        BY <1>5, <2>2
      <4>2. Range(scan.secs) = {scan.secs[i] : i \in 1 .. 1}
        BY <1>2, <4>1, SeqFacts
      <4> QED
        BY <4>1, <4>2
    <3> QED
      BY <1>6, <2>2, <3>1
  <2> QED
    BY <2>1, <2>2
<1>8. pc = "BootScan" => ~(Has("gcing") /\ Has("current"))
  <2>1. ASSUME pc = "BootScan", NEW s \in Sector, NEW u \in Sector, hdr[s] = "gcing", hdr[u] = "current"
        PROVE  FALSE
    <3>1. s = part.gcing /\ u = part.current
      BY <2>1 DEF VdsInv, ListsSound
    <3> QED
      BY <2>1, <3>1, SectorFacts DEF VdsInv, StageSound
  <2> QED
    BY <2>1 DEF Has
<1>9. \A s \in Sector : (hdr[s] = "dirty" => Listed(s)) /\ (hdr[s] = "current" => Listed(s))
  BY <1>4 DEF VdsInv, ListsSound, Listed
<1> QED
  BY <1>1, <1>2, <1>3, <1>5, <1>6, <1>7, <1>8, <1>9

\* What a step of the scan does to the map table and to the copies.
LEMMA ScanSlotMap ==
  ASSUME VdsInv, ScanSlot
  PROVE  \E gone \in Place \cup {None} :
           /\ pb' = IF gone = None THEN pb ELSE Kill(gone)
           /\ gone # None => pc = "BootScan" /\ gone \in Place /\ Live(gone)
           /\ mt' \in [Block -> Place \cup {None}]
           /\ \A b \in Block : mt'[b] # None =>
                /\ mt'[b] \in Copies(b) /\ mt'[b] # gone
                /\ pc = "BootScan" => hdr[mt'[b][1]] # "gcing"
           /\ \A b \in Block : \A q \in Copies(b) :
                q # gone /\ (Settled(q) \/ q = Here) => mt'[b] = q
           /\ Torn(Here) => gone = Here
           /\ \A b \in Block : gone \in Copies(b) =>
                \E q \in Copies(b) : q # gone /\ At(gone).ver <= At(q).ver
<1> DEFINE p == Here
<1>1. /\ pc \in {"BootScan", "GcScan"} /\ scan.i \in Slot /\ At(p).st # "free"
      /\ IF At(p).st = "invalid" THEN UNCHANGED <<mt, pb>>
         ELSE IF At(p).vbn \notin Block THEN pb' = Kill(p) /\ UNCHANGED mt
         ELSE SetMT(p)
  BY DEF ScanSlot, Scanning, SectorDone
<1>2. p \in Place /\ hdr[p[1]] \in {"dirty", "current"} /\ Live(p)
  BY <1>1, ScanFacts DEF Here, Place, Live
<1>3. /\ TypeOK /\ mt \in [Block -> Place \cup {None}]
      /\ At(p).vbn \in Block \cup {None} /\ At(p).st \in {"valid", "invalid"}
  BY <1>1, <1>2, SlotFacts DEF VdsInv, TypeOK
<1>4. \A b \in Block : mt[b] # None =>
        /\ mt[b] \in Copies(b) /\ mt[b] \in Place /\ Live(mt[b]) /\ At(mt[b]).vbn = b
        /\ pc = "BootScan" => hdr[mt[b][1]] # "gcing"
  BY CopyFacts DEF VdsInv, MapSound
<1>5. \A b \in Block : \A q \in Copies(b) : Settled(q) => mt[b] = q
  BY <1>1, CopyFacts DEF VdsInv, MapSound
<1>6. \A q : Settled(q) => hdr[q[1]] \in {"dirty", "current"}
  BY <1>1, ScanFacts DEF Settled, Writing, Live, Dropping
<1> HIDE DEF p
<1>7. CASE At(p).st = "invalid"
  <2>1. UNCHANGED pb /\ UNCHANGED mt
    BY <1>1, <1>7
  <2>2. ~Torn(p) /\ \A b : p \notin Copies(b)
    BY <1>7, CopyFacts DEF Torn
  <2>3. \A b \in Block : \A q \in Copies(b) : q # None
    BY CopyFacts, SectorFacts
  <2> QED
    BY <1>3, <1>4, <1>5, <2>1, <2>2, <2>3 DEF p
<1>8. CASE At(p).st = "valid" /\ At(p).vbn \notin Block
  <2>1. pb' = Kill(p) /\ UNCHANGED mt /\ Torn(p)
    BY <1>1, <1>2, <1>3, <1>8 DEF Torn
  <2>2. pc = "BootScan"
    <3>1. hdr[p[1]] = "current" /\ ~Has("gcing")
      BY <1>2, <2>1 DEF VdsInv, SlotsSound
    <3> QED
      BY <1>1, <3>1, ScanFacts
  <2>3. \A b \in Block : p \notin Copies(b)
    BY <1>8, CopyFacts
  <2>4. p # None
    BY <1>2, SectorFacts
  <2> QED
    BY <1>2, <1>3, <1>4, <1>5, <2>1, <2>2, <2>3, <2>4 DEF p
<1>9. CASE At(p).st = "valid" /\ At(p).vbn \in Block
  <2>1. PICK b \in Block : b = At(p).vbn
    BY <1>9
  <2>2. p \in Copies(b) /\ ~Torn(p)
    BY <1>2, <1>9, <2>1, CopyFacts, SectorFacts DEF Torn
  <2>3. \A c \in Block : p \in Copies(c) => c = b
    BY <2>1, CopyFacts
  <2>4. \A c \in Block : \A q \in Copies(c) : q \in Place /\ q # None
    BY CopyFacts, SectorFacts
  <2>5. PICK old \in Place \cup {None} : old = mt[b]
    BY <1>3
  <2> DEFINE inUse == Listed(old[1]) /\ hdr[old[1]] \in {"dirty", "current"}
             newer == At(p).ver >= At(old).ver
  <2>6. IF old = p THEN UNCHANGED <<mt, pb>>
        ELSE IF old = None \/ ~inUse THEN mt' = [mt EXCEPT ![b] = p] /\ UNCHANGED pb
        ELSE /\ mt' = IF newer \/ At(old).vbn # b THEN [mt EXCEPT ![b] = p] ELSE mt
             /\ pb' = Kill(IF newer THEN old ELSE p)
    BY <1>1, <1>9, <2>1, <2>5 DEF SetMT
  <2>7. old # None => /\ old \in Copies(b) /\ old \in Place /\ Live(old) /\ At(old).vbn = b
                      /\ pc = "BootScan" => hdr[old[1]] # "gcing"
    BY <1>4, <2>5
  <2>8. \A q \in Copies(b) : Settled(q) => q = old /\ inUse
    <3>1. \A q \in Copies(b) : Settled(q) => q = old
      BY <1>5, <2>5
    <3>2. old # None /\ hdr[old[1]] \in {"dirty", "current"} => inUse
      BY <1>1, <2>7, ScanFacts, PlaceFacts
    <3> HIDE DEF inUse
    <3> QED
      BY <1>6, <2>4, <3>1, <3>2
  <2>9. old # None /\ old # p /\ inUse => pc = "BootScan"
    <3>1. ASSUME old # None, old # p, inUse, pc = "GcScan" PROVE FALSE
      <4>1. Has("gcing")
        BY <3>1, ScanFacts
      <4>2. "gcing" \in {hdr[p[1]], hdr[old[1]]}
        BY <2>2, <2>7, <3>1, <4>1 DEF VdsInv, CopiesSound
      <4> QED
        BY <1>2, <3>1, <4>2
    <3> QED
      BY <1>1, <3>1
  <2> HIDE DEF inUse, newer
  <2>10. CASE old = p
    <3>1. UNCHANGED mt /\ UNCHANGED pb
      BY <2>6, <2>10
    <3>2. \A c \in Block : \A q \in Copies(c) : (Settled(q) \/ q = p) => mt'[c] = q
      BY <1>5, <2>3, <2>5, <2>10, <3>1
    <3>3. \A c \in Block : mt'[c] # None =>
                /\ mt'[c] \in Copies(c) /\ mt'[c] # None
                /\ pc = "BootScan" => hdr[mt'[c][1]] # "gcing"
      BY <1>4, <3>1
    <3> QED
      BY <1>3, <2>2, <2>4, <3>1, <3>2, <3>3 DEF p
  <2>11. CASE old # p /\ (old = None \/ ~inUse)
    <3>1. mt' = [mt EXCEPT ![b] = p] /\ UNCHANGED pb
      BY <2>6, <2>11
    <3>2. mt' \in [Block -> Place \cup {None}] /\ \A c \in Block : mt'[c] = IF c = b THEN p ELSE mt[c]
      BY <1>2, <1>3, <3>1
    <3>3. \A q \in Copies(b) : ~Settled(q)
      BY <2>4, <2>8, <2>11
    <3>4. hdr[p[1]] # "gcing"
      BY <1>2
    <3>5. \A c \in Block : mt'[c] # None =>
                /\ mt'[c] \in Copies(c) /\ mt'[c] # None
                /\ pc = "BootScan" => hdr[mt'[c][1]] # "gcing"
      BY <1>4, <2>2, <3>2, <3>4
    <3>6. \A c \in Block : \A q \in Copies(c) :
                (Settled(q) \/ q = p) => mt'[c] = q
      BY <1>5, <2>3, <3>2, <3>3
    <3>7. (\A c \in Block : None \notin Copies(c)) /\ ~Torn(p) /\ None \in Place \cup {None}
      BY <2>2, <2>4
    <3> WITNESS None \in Place \cup {None}
    <3> QED
      BY <3>1, <3>2, <3>5, <3>6, <3>7 DEF p
  <2>12. CASE old # p /\ old # None /\ inUse /\ newer
    <3>1. mt' = [mt EXCEPT ![b] = p] /\ pb' = Kill(old)
      BY <2>6, <2>12
    <3>2. mt' \in [Block -> Place \cup {None}] /\ \A c \in Block : mt'[c] = IF c = b THEN p ELSE mt[c]
      BY <1>2, <1>3, <3>1
    <3>4. hdr[p[1]] # "gcing" /\ pc = "BootScan"
      BY <1>2, <2>9, <2>12
    <3>5. \A c \in Block : mt'[c] # None =>
                /\ mt'[c] \in Copies(c) /\ mt'[c] # old
                /\ pc = "BootScan" => hdr[mt'[c][1]] # "gcing"
      BY <1>4, <2>2, <2>7, <2>12, <3>2, <3>4
    <3>6. \A c \in Block : \A q \in Copies(c) :
                q # old /\ (Settled(q) \/ q = p) => mt'[c] = q
      BY <1>5, <2>3, <2>8, <3>2
    <3>7. \A c \in Block : old \in Copies(c) => \E q \in Copies(c) : q # old /\ At(old).ver <= At(q).ver
      <4>1. At(p).ver \in Nat /\ At(old).ver \in Nat
        BY <1>2, <1>3, <2>7, <2>12, SlotFacts
      <4>2. At(p).ver >= At(old).ver => At(old).ver <= At(p).ver
        BY <4>1
      <4>3. \A c \in Block : old \in Copies(c) => c = b
        BY <2>7, <2>12, CopyFacts
      <4> QED
        BY <2>2, <2>12, <4>2, <4>3 DEF newer
    <3> QED
      <4>1. old \in Place \cup {None} /\ old # None /\ Live(old) /\ old \in Place
        BY <2>7, <2>12
      <4>2. ~Torn(p)
        BY <2>2
      <4> QED
        BY <3>1, <3>2, <3>4, <3>5, <3>6, <3>7, <4>1, <4>2 DEF p
  <2>13. CASE old # p /\ old # None /\ inUse /\ ~newer
    <3>1. mt' = mt /\ pb' = Kill(p)
      BY <2>6, <2>7, <2>13
    <3>4. hdr[p[1]] # "gcing" /\ pc = "BootScan" /\ p # None
      BY <1>2, <2>9, <2>13, SectorFacts
    <3>5. \A c \in Block : mt'[c] # None =>
                /\ mt'[c] \in Copies(c) /\ mt'[c] # p
                /\ pc = "BootScan" => hdr[mt'[c][1]] # "gcing"
      BY <1>4, <2>1, <2>5, <2>13, <3>1
    <3>6. \A c \in Block : \A q \in Copies(c) :
                q # p /\ (Settled(q) \/ q = p) => mt'[c] = q
      BY <1>5, <3>1
    <3>7. \A c \in Block : p \in Copies(c) => \E q \in Copies(c) : q # p /\ At(p).ver <= At(q).ver
      <4>1. At(p).ver \in Nat /\ At(old).ver \in Nat
        BY <1>2, <1>3, <2>7, <2>13, SlotFacts
      <4>2. ~(At(p).ver >= At(old).ver) => At(p).ver <= At(old).ver
        BY <4>1
      <4> QED
        BY <2>3, <2>7, <2>13, <4>2 DEF newer
    <3> QED
      BY <1>2, <1>3, <2>2, <3>1, <3>4, <3>5, <3>6, <3>7 DEF p
  <2> QED
    BY <2>10, <2>11, <2>12, <2>13
<1> QED
  BY <1>3, <1>7, <1>8, <1>9

\* A slot is scanned.
LEMMA ScanSlotInv ==
  ASSUME VdsInv, ScanSlot
  PROVE  VdsInv'
<1>1. /\ pc \in {"BootScan", "GcScan"} /\ scan.i \in Slot
      /\ UNCHANGED hdr /\ UNCHANGED part /\ UNCHANGED pos /\ UNCHANGED pc
      /\ UNCHANGED ret /\ UNCHANGED call
  BY DEF ScanSlot, Scanning, SectorDone
<1>a. scan' = [scan EXCEPT !.i = scan.i + 1]
  BY DEF ScanSlot
<1>2. PICK gone \in Place \cup {None} :
           /\ pb' = IF gone = None THEN pb ELSE Kill(gone)
           /\ gone # None => pc = "BootScan" /\ gone \in Place /\ Live(gone)
           /\ mt' \in [Block -> Place \cup {None}]
           /\ \A b \in Block : mt'[b] # None =>
                /\ mt'[b] \in Copies(b) /\ mt'[b] # gone
                /\ pc = "BootScan" => hdr[mt'[b][1]] # "gcing"
           /\ \A b \in Block : \A q \in Copies(b) :
                q # gone /\ (Settled(q) \/ q = Here) => mt'[b] = q
           /\ Torn(Here) => gone = Here
  BY ScanSlotMap
<1>3. TypeOK /\ HeadersStay
  BY <1>1 DEF VdsInv, HeadersStay
<1>4. /\ pb' \in [Sector -> [Slot -> SlotType]]
      /\ \A q \in Place : At(q)' = IF q = gone THEN Dead ELSE At(q)
      /\ HeadersSound' /\ SlotsSound' /\ CopiesSound'
      /\ \A b \in Block : \A q : q \in Copies(b)' <=> q \in Copies(b) /\ q # gone
  <2>1. CASE gone = None
    <3>1. UNCHANGED flash /\ UNCHANGED pb
      BY <1>1, <1>2, <2>1 DEF flash
    <3>2. \A b \in Block : \A q \in Copies(b) : q # None
      BY CopyFacts, SectorFacts
    <3> QED
      BY <1>3, <2>1, <3>1, <3>2, FlashStays, SectorFacts DEF VdsInv, TypeOK, SlotType, CopiesStay
  <2>2. CASE gone # None
    <3>1. SlotSet(gone, Dead) /\ pb' \in [Sector -> [Slot -> SlotType]]
      BY <1>2, <1>3, <2>2, SetSlot, SlotFacts DEF Kill
    <3>2. ~(Has("gcing") /\ Has("current"))
      BY <1>2, <2>2, ScanFacts
    <3>3. HeadersSound' /\ SlotsSound' /\ CopiesSound'
          /\ \A b \in Block : \A q : q \in Copies(b)' <=> q \in Copies(b) /\ q # gone
      BY <1>2, <1>3, <2>2, <3>1, <3>2, KillSound DEF VdsInv
    <3> QED
      BY <3>1, <3>3 DEF SlotSet
  <2> QED
    BY <2>1, <2>2
<1>5. TypeOK'
  BY <1>1, <1>2, <1>4 DEF VdsInv, TypeOK, SlotType, Place, Sector, Slot
<1>6. PartSound'
  BY <1>1 DEF VdsInv, PartSound, Partition, Roles, Sector
<1>7. ListsSound'
  <2>1. \A s \in Sector : AllFresh(s) => AllFresh(s)' \/ hdr[s] \notin {"remain", "blank"}
    <3>1. \A q \in Place : hdr[q[1]] \in {"remain", "blank"} => At(q)' = At(q)
      BY <1>2, <1>4, SectorFacts DEF Live
    <3> QED
      BY <3>1, PlaceFacts DEF AllFresh, Slot, Fresh
  <2> QED
    BY <1>1, <2>1 DEF VdsInv, ListsSound, Counted, HasData, Sector
<1>8. StageSound' /\ CallSound'
  BY <1>1 DEF VdsInv, StageSound, CallSound, Booting, Writing, Making, Dropping, Collecting
<1>9. /\ scan' \in [secs : Seq(Sector), i : 0 .. NrPb] /\ scan'.secs = scan.secs
      /\ scan'.i = scan.i + 1
  <2>1. scan.i + 1 \in 0 .. NrPb
    BY <1>1, SectorFacts DEF Slot
  <2> QED
    BY <1>1, <1>a, <2>1, ScanFacts
<1>10. ScanSound'
  <2>1. \A i \in Slot : i < scan.i + 1 => At(<<Head(scan.secs), i>>).st # "free"
    <3>1. \A i \in Slot : i < scan.i => At(<<Head(scan.secs), i>>).st # "free"
      BY <1>1 DEF VdsInv, ScanSound
    <3>2. At(<<Head(scan.secs), scan.i>>).st # "free"
      BY DEF ScanSlot, SectorDone, Here
    <3>3. scan.i \in Nat /\ \A i \in Slot : i \in Nat
      BY <1>1, ScanFacts, SectorFacts
    <3>4. \A i \in Slot : i < scan.i + 1 => i < scan.i \/ i = scan.i
      BY <3>3
    <3> QED
      BY <3>1, <3>2, <3>4
  <2>2. PICK h \in Sector : h = Head(scan.secs)
    BY <1>1, ScanFacts
  <2>3. \A i \in Slot : i < scan.i + 1 => At(<<h, i>>)'.st # "free"
    BY <1>3, <1>4, <2>1, <2>2, SlotFacts, PlaceFacts
  <2> QED
    BY <1>1, <1>9, <2>2, <2>3 DEF VdsInv, ScanSound, Sector, Slot
<1>11. ASSUME NEW q \in Place, Settled(q)' PROVE Live(q) /\ (Settled(q) \/ q = Here)
  <2>1. Live(q) /\ Live(q)'
    BY <1>1, <1>11 DEF Settled, Live
  <2>2. q[1] \in Sector /\ q[2] \in Nat /\ scan.i \in Nat /\ q[2] \in Slot
    <3>1. scan.i \in Nat
      BY <1>1, ScanFacts, SectorFacts
    <3> QED
      BY <3>1, PlaceFacts, SectorFacts
  <2>3. q[2] < scan.i + 1 => q[2] < scan.i \/ q[2] = scan.i
    BY <2>2
  <2>4. q[1] = Head(scan.secs) /\ q[2] = scan.i => q = Here
    BY PlaceFacts DEF Here
  <2>5. CASE pc = "BootScan"
    <3>1. hdr[q[1]] # "gcing" /\ Passed(q)'
      BY <1>1, <1>11, <2>5 DEF Settled, Writing, Collecting, Making, Dropping
    <3>2. Passed(q) \/ q = Here
      BY <1>9, <2>3, <2>4, <3>1 DEF Passed
    <3> QED
      BY <2>1, <2>5, <3>1, <3>2 DEF Settled
  <2>6. CASE pc = "GcScan"
    <3>1. \/ ret \in {"Status", "idle"} /\ hdr[q[1]] = "dirty"
          \/ hdr[q[1]] = "current" /\ q[2] < scan.i + 1
      BY <1>1, <1>9, <1>11, <2>6 DEF Settled, Writing
    <3>2. hdr[q[1]] = "current" => q[1] = Head(scan.secs)
      BY <2>2, <2>6, ScanFacts DEF VdsInv, ListsSound
    <3> QED
      BY <2>1, <2>3, <2>4, <2>6, <3>1, <3>2 DEF Settled, Collecting, Dropping
  <2> QED
    BY <1>1, <2>1, <2>5, <2>6
<1>12. MapSound'
  <2>1. \A b \in Block : mt'[b] # None => mt'[b] \in Copies(b)'
    BY <1>2, <1>4
  <2>2. pc = "BootScan" => \A b \in Block : mt'[b] # None => hdr'[mt'[b][1]] # "gcing"
    BY <1>1, <1>2
  <2>3. \A q \in Place : Settled(q)' => \A b \in Block : q \in Copies(b)' => mt'[b] = q
    BY <1>2, <1>4, <1>11
  <2>4. ASSUME NEW q \in Place, Settled(q)' PROVE ~Torn(q)'
    <3>1. Torn(q)' => Torn(q) /\ q # gone
      BY <1>1, <1>3, <1>4, SlotFacts DEF Torn, Live
    <3>2. Settled(q) => ~Torn(q)
      BY <1>1 DEF VdsInv, MapSound
    <3> QED
      BY <1>2, <1>11, <2>4, <3>1, <3>2
  <2>5. ~(pc \in {"off"} \cup Booting \/ (pc \in Collecting /\ ret = "BootClean"))
    BY <1>1, ScanFacts DEF Booting, Collecting, Making, Dropping
  <2> QED
    BY <1>1, <2>1, <2>2, <2>3, <2>4, <2>5 DEF MapSound, Place, Sector, Slot, Booting, Collecting, Making, Dropping
<1>13. PositionsSound'
  <2>1. Positioned' => Positioned
    BY <1>1, <1>9 DEF Positioned
  <2>2. Positioned => part.current \in Sector
    <3>1. part \in Partition
      BY <1>1, ListFacts
    <3> QED
      <4>1. part.current \in Sector \cup {None}
        BY <3>1 DEF Partition
      <4>2. pc = "GcScan" => part.current \in Sector
        BY <1>1, ScanFacts
      <4>3. pc = "BootScan" /\ Positioned => part.current # None
        BY DEF Positioned, Writing, Dropping
      <4> QED
        BY <1>1, <4>1, <4>2, <4>3
  <2>3. \A q \in Place : (Clear(q) => Clear(q)') /\ (At(q).st # "free" => At(q)'.st # "free")
    BY <1>3, <1>4, SlotFacts DEF Clear, Fresh, Dead
  <2> QED
    BY <1>1, <2>1, <2>2, <2>3, PlaceFacts DEF VdsInv, PositionsSound, Writing, Dropping, Slot
<1>14. NewSound' /\ CopySound'
  BY <1>1 DEF NewSound, CopySound
<1> QED
  BY <1>4, <1>5, <1>6, <1>7, <1>8, <1>10, <1>12, <1>13, <1>14 DEF VdsInv

\* A sector the scan is through with.
LEMMA ScannedSector ==
  ASSUME VdsInv, pc \in {"BootScan", "GcScan"}, SectorDone
  PROVE  LET s == Head(scan.secs) IN
         /\ \A i \in Slot : i < scan.i => At(<<s, i>>).st # "free"
         /\ \A i \in Slot : i >= scan.i => Clear(<<s, i>>) /\ At(<<s, i>>).st # "valid"
<1> DEFINE s == Head(scan.secs)
<1>1. s \in Sector /\ hdr[s] \in {"dirty", "current"} /\ scan.i \in 0 .. NrPb
  BY ScanFacts
<1>2. \A i \in Slot : i < scan.i => At(<<s, i>>).st # "free"
  BY DEF VdsInv, ScanSound
<1>3. ASSUME NEW i \in Slot, i >= scan.i
      PROVE  Clear(<<s, i>>) /\ At(<<s, i>>).st # "valid"
  <2>1. i \in Nat /\ scan.i \in Nat
    BY <1>1, SectorFacts
  <2>2. scan.i \in Slot
    BY <1>1, <1>3, <2>1, SectorFacts DEF Slot
  <2>3. At(<<s, scan.i>>).st = "free"
    BY <2>2 DEF SectorDone, Here
  <2>4. TypeOK /\ <<s, i>> \in Place /\ Live(<<s, i>>)
    BY <1>1, PlaceFacts DEF VdsInv, Live
  <2>5. At(<<s, i>>).st # "valid"
    BY <1>1, <1>3, <2>1, <2>2, <2>3 DEF VdsInv, SlotsSound
  <2> QED
    BY <2>4, <2>5 DEF VdsInv, SlotsSound
<1> QED
  BY <1>2, <1>3

\* A sector is scanned to its end.
LEMMA ScanEndInv ==
  ASSUME VdsInv, ScanEnd
  PROVE  VdsInv'
<1>1. /\ pc \in {"BootScan", "GcScan"} /\ SectorDone
      /\ UNCHANGED flash /\ UNCHANGED part /\ UNCHANGED mt /\ UNCHANGED call /\ pc # "off"
  BY DEF ScanEnd, Scanning, GoScan
<1>2. PICK s \in Sector : s = Head(scan.secs)
  BY <1>1, ScanFacts
<1>3. PICK rest \in Seq(Sector) : /\ rest = Tail(scan.secs) /\ IsInjective(rest)
                                  /\ s \notin Range(rest)
                                  /\ Range(scan.secs) = Range(rest) \cup {s}
  <2>1. scan.secs \in Seq(Sector) /\ scan.secs # <<>> /\ IsInjective(scan.secs)
    BY <1>1, ScanFacts
  <2>2. /\ Tail(scan.secs) \in Seq(Sector) /\ IsInjective(Tail(scan.secs))
        /\ s \notin Range(Tail(scan.secs)) /\ Range(scan.secs) = Range(Tail(scan.secs)) \cup {s}
    BY <1>2, <2>1, TailSeq
  <2> QED
    BY <2>2
<1>4. hdr[s] \in {"dirty", "current"} /\ scan.i \in 0 .. NrPb /\ Range(rest) \subseteq Sector
  BY <1>1, <1>2, <1>3, ScanFacts, SeqFacts
<1>5. /\ \A i \in Slot : i < scan.i => At(<<s, i>>).st # "free"
      /\ \A i \in Slot : i >= scan.i => Clear(<<s, i>>) /\ At(<<s, i>>).st # "valid"
  BY <1>1, <1>2, ScannedSector
<1>6. /\ HeadersSound' /\ SlotsSound' /\ CopiesSound' /\ CopiesStay
      /\ \A p : At(p)' = At(p) /\ (Live(p)' <=> Live(p)) /\ (Torn(p)' <=> Torn(p))
      /\ hdr' = hdr
  BY <1>1, FlashStays DEF VdsInv, flash
<1>7. PartSound' /\ ListsSound'
  <2>1. \A u : AllFresh(u)' <=> AllFresh(u)
    BY <1>6 DEF AllFresh, Slot, Fresh
  <2>2. pc' \in {"GcScan", "BootScan", "GcMark", "GcPick", "idle"}
    BY <1>1 DEF ScanEnd, GoScan
  <2> QED
    BY <1>1, <1>6, <2>1, <2>2 DEF VdsInv, PartSound, ListsSound, Roles, Partition, Sector, Counted, HasData
<1>8. part \in Partition /\ (part.current # None => part.current \in Sector)
  BY <1>1, ListFacts
<1>9. ASSUME NEW q \in Place, Live(q), q[1] = s \/ q[1] \notin Range(scan.secs), hdr[q[1]] # "gcing",
             pc = "BootScan"
      PROVE  (\A b \in Block : q \in Copies(b) => mt[b] = q) /\ ~Torn(q)
  <2>1. CASE Passed(q)
    BY <1>1, <1>9, <2>1 DEF VdsInv, MapSound, Settled
  <2>2. CASE ~Passed(q)
    <3>1. q[1] = s /\ ~(q[2] < scan.i)
      BY <1>2, <1>9, <2>2 DEF Passed
    <3>2. q[2] >= scan.i /\ q = <<s, q[2]>> /\ q[2] \in Slot
      BY <1>4, <3>1, PlaceFacts, SectorFacts
    <3>3. At(q).st # "valid"
      BY <1>5, <3>2
    <3> QED
      BY <3>3, CopyFacts DEF Torn
  <2> QED
    BY <2>1, <2>2
<1>10. CASE pc = "GcScan"
  <2>1. /\ scan.secs = <<part.current>> /\ s = part.current /\ ret \in {"Status", "idle", "BootScan"}
    BY <1>2, <1>10, ScanFacts
  <2>2. rest = <<>>
    BY <1>3, <2>1
  <2>3. pc' = "GcMark" /\ UNCHANGED pos /\ UNCHANGED ret
    BY <1>3, <1>10, <2>2 DEF ScanEnd
  <2>4. TypeOK'
    BY <1>1, <2>3 DEF VdsInv, TypeOK, flash, Place, Sector, Slot
  <2>5. StageSound' /\ CallSound' /\ ScanSound' /\ NewSound' /\ CopySound'
    BY <1>1, <1>10, <2>3 DEF VdsInv, StageSound, CallSound, ScanSound, NewSound, CopySound, Booting, Writing, Making, Dropping, Collecting
  <2>6. ASSUME NEW q \in Place, Settled(q)'
        PROVE  (\A b \in Block : q \in Copies(b) => mt[b] = q) /\ ~Torn(q)
    <3>1. Live(q) /\ (\/ ret \in {"Status", "idle"} /\ hdr[q[1]] = "dirty"
                      \/ hdr[q[1]] = "current")
      BY <1>6, <2>3, <2>6 DEF Settled, Writing
    <3>2. CASE Settled(q)
      BY <1>10, <3>2 DEF VdsInv, MapSound
    <3>3. CASE ~Settled(q)
      <4>1. hdr[q[1]] = "current" /\ ~(q[2] < scan.i)
        BY <1>10, <3>1, <3>3 DEF Settled, Collecting, Dropping
      <4>2. q[1] = s /\ q[2] \in Slot /\ q = <<s, q[2]>>
        BY <1>1, <2>1, <4>1, PlaceFacts, ListFacts
      <4>3. q[2] >= scan.i
        <5>1. q[2] \in Nat
          BY <4>2, SectorFacts
        <5>2. scan.i \in Nat
          BY <1>4, SectorFacts
        <5> QED
          BY <4>1, <5>1, <5>2
      <4>4. At(q).st # "valid"
        BY <1>5, <4>2, <4>3
      <4> QED
        BY <4>4, CopyFacts DEF Torn
    <3> QED
      BY <3>2, <3>3
  <2>7. MapSound'
    <3>1. \A b \in Block : mt[b] # None => mt[b] \in Copies(b)
      BY DEF VdsInv, MapSound
    <3>2. ret # "BootClean"
      BY <2>1
    <3> QED
      BY <1>1, <1>6, <2>3, <2>6, <3>1, <3>2 DEF MapSound, CopiesStay, Booting, Place, Sector, Slot
  <2>8. PositionsSound'
    <3>1. Positioned' <=> Positioned
      BY <1>10, <2>3 DEF Positioned, Writing, Dropping
    <3>2. \A u, i : (Clear(<<u, i>>)' <=> Clear(<<u, i>>))
      BY <1>6 DEF Clear, Fresh, Dead
    <3> QED
      BY <1>1, <1>6, <1>10, <2>3, <3>1, <3>2 DEF VdsInv, PositionsSound, Writing, Dropping, Slot
  <2> QED
    BY <1>6, <1>7, <2>4, <2>5, <2>7, <2>8 DEF VdsInv
<1>11. CASE pc = "BootScan"
  <2>1. pos' = [pos EXCEPT ![s] = IF s = part.current THEN scan.i - 1 ELSE -1]
    BY <1>2, <1>11 DEF ScanEnd, Position
  <2>2. /\ \A u \in Sector : pos'[u] = IF u # s THEN pos[u]
                                       ELSE IF s = part.current THEN scan.i - 1 ELSE -1
        /\ pos' \in [Sector -> -1 .. NrPb - 1]
    <3>1. pos \in [Sector -> -1 .. NrPb - 1] /\ scan.i - 1 \in -1 .. NrPb - 1 /\ -1 \in -1 .. NrPb - 1
      BY <1>4, SectorFacts DEF VdsInv, TypeOK
    <3> QED
      BY <2>1, <3>1
  <2>3. TypeOK'
    BY <1>1, <2>2 DEF VdsInv, TypeOK, flash, Place, Sector, Slot
  <2>4. \/ rest # <<>> /\ pc' = "BootScan" /\ scan' = [secs |-> rest, i |-> 0]
        \/ rest = <<>> /\ part.gcing # None /\ pc' = "GcPick" /\ ret' = "idle"
        \/ rest = <<>> /\ part.gcing = None /\ pc' = "idle"
    BY <1>1, <1>3, <1>11 DEF ScanEnd, GoScan
  <2>5. StageSound' /\ CallSound' /\ NewSound' /\ CopySound'
    BY <1>1, <1>11, <2>4 DEF VdsInv, StageSound, CallSound, NewSound, CopySound, Booting, Writing, Making, Dropping, Collecting
  <2>6. ScanSound'
    <3>1. CASE pc' = "BootScan"
      <4>1. scan' = [secs |-> rest, i |-> 0] /\ rest # <<>>
        BY <2>4, <3>1
      <4>2. 0 \in 0 .. NrPb /\ \A i \in Slot : ~(i < 0)
        BY SectorFacts
      <4>3. \A u \in Range(rest) : hdr'[u] \in {"dirty", "current"}
        BY <1>1, <1>3, <1>6, ScanFacts
      <4> QED
        BY <1>3, <3>1, <4>1, <4>2, <4>3 DEF ScanSound, Sector, Slot
    <3> QED
      BY <2>4, <3>1 DEF ScanSound
  <2>7. ASSUME NEW q \in Place, Settled(q)'
        PROVE  (\A b \in Block : q \in Copies(b) => mt[b] = q) /\ ~Torn(q)
    <3>1. Live(q)
      BY <1>6, <2>7 DEF Settled
    <3>2. hdr[q[1]] # "gcing" /\ q[1] \notin Range(rest)
      <4>1. CASE pc' = "BootScan"
        <5>1. scan' = [secs |-> rest, i |-> 0]
          BY <2>4, <4>1
        <5>2. hdr[q[1]] # "gcing" /\ Passed(q)'
          BY <1>6, <2>7, <4>1 DEF Settled, Writing, Collecting, Making, Dropping
        <5>3. ~(q[2] < 0)
          BY PlaceFacts, SectorFacts
        <5> QED
          BY <5>1, <5>2, <5>3 DEF Passed
      <4>2. CASE pc' # "BootScan"
        <5>1. rest = <<>>
          BY <2>4, <4>2
        <5>2. hdr[q[1]] # "gcing"
          <6>1. CASE pc' = "GcPick"
            BY <1>6, <2>7, <6>1 DEF Settled, Writing, Dropping
          <6>2. CASE part.gcing = None
            BY <1>11, <6>2, PlaceFacts, SectorFacts DEF VdsInv, ListsSound
          <6> QED
            BY <2>4, <4>2, <6>1, <6>2
        <5> QED
          BY <5>1, <5>2, EmptySeqFacts
      <4> QED
        BY <4>1, <4>2
    <3> QED
      BY <1>3, <1>9, <1>11, <3>1, <3>2
  <2>8. MapSound'
    <3>1. \A b \in Block : mt[b] # None => mt[b] \in Copies(b) /\ hdr[mt[b][1]] # "gcing"
      BY <1>11 DEF VdsInv, MapSound
    <3> QED
      BY <1>1, <1>6, <2>4, <2>7, <3>1 DEF MapSound, CopiesStay, Booting, Collecting, Making, Dropping, Place, Sector, Slot
  <2>9. \A u, i : Clear(<<u, i>>)' <=> Clear(<<u, i>>)
    BY <1>6 DEF Clear, Fresh, Dead
  <2>10. ASSUME part.current \in Sector, part.current \notin Range(rest), NEW i \in Slot
         PROVE  LET at == pos'[part.current]
                    p == <<part.current, i>>
                IN  /\ i > at => Clear(p)
                    /\ i <= at => At(p).st # "free"
    <3>1. i \in Nat
      BY SectorFacts
    <3>2. CASE part.current = s
      <4>1. pos'[part.current] = scan.i - 1
        BY <2>2, <3>2
      <4>2. /\ i > scan.i - 1 => i >= scan.i
            /\ i <= scan.i - 1 => i < scan.i
        BY <1>4, <3>1
      <4> QED
        BY <1>5, <3>2, <4>1, <4>2
    <3>3. CASE part.current # s
      <4>1. pos'[part.current] = pos[part.current] /\ pos[part.current] \in -1 .. NrPb - 1
        BY <2>2, <2>10, <3>3 DEF VdsInv, TypeOK
      <4>2. Positioned
        BY <1>3, <1>11, <2>10, <3>3, SectorFacts DEF Positioned
      <4>3. LET at == pos[part.current]
                p == <<part.current, i>>
            IN  /\ i > at => Clear(p)
                /\ i < at \/ (i = at /\ pc # "Status") => At(p).st # "free"
        BY <4>2 DEF VdsInv, PositionsSound
      <4> QED
        BY <1>11, <3>1, <4>1, <4>3
    <3> QED
      BY <3>2, <3>3
  <2>11. PositionsSound'
    <3>1. \A u \in Range(part.free) : u \in Sector /\ hdr[u] = "free" /\ pos[u] = -1
      BY <1>1, ListFacts, SeqFacts
    <3>2. \A u \in Range(part'.free) : pos'[u] = -1
      BY <1>1, <1>4, <2>2, <3>1
    <3>3. ASSUME Positioned' PROVE part.current \in Sector /\ part.current \notin Range(rest)
      <4>1. CASE pc' = "BootScan"
        <5>1. scan' = [secs |-> rest, i |-> 0]
          BY <2>4, <4>1
        <5> QED
          BY <1>1, <1>8, <3>3, <4>1, <5>1 DEF Positioned, Writing, Dropping
      <4>2. CASE pc' = "idle"
        <5>1. rest = <<>> /\ part.gcing = None
          BY <2>4, <4>2
        <5>2. part.current # None
          BY <1>11, <5>1 DEF VdsInv, StageSound
        <5> QED
          BY <1>8, <5>1, <5>2, EmptySeqFacts
      <4>3. CASE pc' = "GcPick"
        BY <3>3, <4>3 DEF Positioned, Writing, Dropping
      <4> QED
        BY <2>4, <4>1, <4>2, <4>3
    <3>4. ASSUME Positioned', NEW i \in Slot
          PROVE  /\ i > pos'[part'.current] => Clear(<<part.current, i>>)'
                 /\ i < pos'[part'.current] \/ (i = pos'[part'.current] /\ pc' # "Status")
                      => At(<<part.current, i>>)'.st # "free"
      <4>1. PICK c \in Sector : c = part.current
        BY <3>3, <3>4
      <4>2. /\ i > pos'[c] => Clear(<<c, i>>)
            /\ i <= pos'[c] => At(<<c, i>>).st # "free"
        BY <2>10, <3>3, <3>4, <4>1
      <4>3. pos'[c] \in Int /\ i \in Int
        BY <2>2, <4>1, SectorFacts
      <4>4. /\ i > pos'[c] => Clear(<<c, i>>)'
            /\ i <= pos'[c] => At(<<c, i>>)'.st # "free"
        BY <1>6, <2>9, <4>2
      <4> QED
        BY <1>1, <4>1, <4>3, <4>4
    <3> QED
      BY <2>4, <3>2, <3>4 DEF PositionsSound, Writing, Dropping, Slot
  <2> QED
    BY <1>6, <1>7, <2>3, <2>5, <2>6, <2>8, <2>11 DEF VdsInv
<1> QED
  BY <1>1, <1>10, <1>11

-----------------------------------------------------------------------------
(* The start-up: the headers, the remain sector, the sectors to format. *)

\* The first sector of a status, where one sector at most has it.
LEMMA FirstFacts ==
  ASSUME NEW S \in SUBSET Sector, \A s, u \in S : s = u
  PROVE  /\ First(S) \in Sector \cup {None}
         /\ \A s \in Sector : s = First(S) <=> s \in S
<1>1. S \in SUBSET Nat /\ None \notin Sector
  BY SectorFacts
<1>2. CASE S = {}
  BY <1>1, <1>2 DEF First
<1>3. CASE S # {}
  <2>1. First(S) \in S
    BY <1>1, <1>3, MinFacts DEF First
  <2> QED
    BY <2>1
<1> QED
  BY <1>2, <1>3

\* The lists the scan of the headers makes.
LEMMA DownSectors ==
  ASSUME NEW S \in SUBSET Sector
  PROVE  Down(S) \in Seq(Sector) /\ IsInjective(Down(S)) /\ Range(Down(S)) = S
<1>1. S \in SUBSET Nat /\ IsFiniteSet(S)
  BY SectorFacts, FS_Subset
<1>2. Down(S) \in Seq(S) /\ IsInjective(Down(S)) /\ Range(Down(S)) = S
  BY <1>1, DownFacts
<1>3. Len(Down(S)) \in Nat /\ Down(S) \in [1..Len(Down(S)) -> S]
  BY <1>2, LenProperties
<1>4. Down(S) \in [1..Len(Down(S)) -> Sector]
  BY <1>3
<1> QED
  BY <1>2, <1>3, <1>4, SeqDef

\* What the scan of the headers finds.
LEMMA ScannedFacts ==
  ASSUME TypeOK, HeadersSound, SlotsSound
  PROVE  /\ Scanned \in Partition /\ Scanned.temp = None
         /\ IsInjective(Scanned.dirty) /\ IsInjective(Scanned.free) /\ IsInjective(Scanned.unformat)
         /\ \A s \in Sector :
              /\ s \in Range(Scanned.dirty) <=> hdr[s] = "dirty"
              /\ s \in Range(Scanned.free) <=> hdr[s] = "free"
              /\ s = Scanned.current <=> hdr[s] = "current"
              /\ s = Scanned.gcing <=> hdr[s] = "gcing"
              /\ s = Scanned.remain <=> hdr[s] = "remain"
              /\ s \in Range(Scanned.unformat) <=> ~Counted(s) /\ hdr[s] # "remain"
         /\ \A s \in Sector : hdr[s] = "remain" => AllFresh(s)
<1> DEFINE current == First(Having("current"))
           gcing == First(Having("gcing"))
           remain == First({s \in Sector : IsRemain(s)})
           used == Having("dirty") \cup Having("free") \cup {current, gcing, remain}
<1>1. \A st : Having(st) \in SUBSET Sector /\ \A s : s \in Having(st) <=> s \in Sector /\ hdr[s] = st
  BY DEF Having
<1>2. \A s \in Sector : hdr[s] = "remain" => AllFresh(s)
  BY PlaceFacts DEF SlotsSound, AllFresh
<1>3. \A s \in Sector : IsRemain(s) <=> hdr[s] = "remain"
  BY <1>2 DEF IsRemain, AllFresh, At
<1>4. /\ current \in Sector \cup {None} /\ \A s \in Sector : s = current <=> hdr[s] = "current"
      /\ gcing \in Sector \cup {None} /\ \A s \in Sector : s = gcing <=> hdr[s] = "gcing"
  <2>1. \A s, u \in Having("current") : s = u
    BY <1>1 DEF HeadersSound
  <2>2. \A s, u \in Having("gcing") : s = u
    BY <1>1 DEF HeadersSound
  <2> QED
    BY <1>1, <2>1, <2>2, FirstFacts
<1>5. remain \in Sector \cup {None} /\ \A s \in Sector : s = remain <=> hdr[s] = "remain"
  <2>1. {s \in Sector : IsRemain(s)} \in SUBSET Sector
    OBVIOUS
  <2>2. \A s, u \in {v \in Sector : IsRemain(v)} : s = u
    BY <1>3 DEF HeadersSound
  <2>3. /\ remain \in Sector \cup {None}
        /\ \A s \in Sector : s = remain <=> s \in {u \in Sector : IsRemain(u)}
    BY <2>1, <2>2, FirstFacts
  <2> QED
    BY <1>3, <2>3
<1> HIDE DEF current, gcing, remain
<1>7. Sector \ used \in SUBSET Sector
      /\ \A s \in Sector : s \in Sector \ used <=> ~Counted(s) /\ hdr[s] # "remain"
  BY <1>1, <1>4, <1>5 DEF Counted
<1> HIDE DEF used
<1>8. /\ Down(Having("dirty")) \in Seq(Sector) /\ IsInjective(Down(Having("dirty")))
      /\ Range(Down(Having("dirty"))) = Having("dirty")
  BY <1>1, DownSectors
<1>9. /\ Down(Having("free")) \in Seq(Sector) /\ IsInjective(Down(Having("free")))
      /\ Range(Down(Having("free"))) = Having("free")
  BY <1>1, DownSectors
<1>10. /\ Down(Sector \ used) \in Seq(Sector) /\ IsInjective(Down(Sector \ used))
       /\ Range(Down(Sector \ used)) = Sector \ used
  BY <1>7, DownSectors
<1>11. /\ Scanned.dirty = Down(Having("dirty")) /\ Scanned.free = Down(Having("free"))
       /\ Scanned.current = current /\ Scanned.gcing = gcing /\ Scanned.temp = None
       /\ Scanned.remain = remain /\ Scanned.unformat = Down(Sector \ used)
  BY DEF Scanned, current, gcing, remain, used
<1>12. Scanned \in Partition
  <2>1. Scanned = [dirty |-> Down(Having("dirty")), free |-> Down(Having("free")),
                   current |-> current, gcing |-> gcing, temp |-> None, remain |-> remain,
                   unformat |-> Down(Sector \ used)]
    BY DEF Scanned, current, gcing, remain, used
  <2> QED
    BY <1>4, <1>5, <1>8, <1>9, <1>10, <2>1 DEF Partition
<1>13. \A s \in Sector :
         /\ s \in Range(Scanned.dirty) <=> hdr[s] = "dirty"
         /\ s \in Range(Scanned.free) <=> hdr[s] = "free"
  BY <1>1, <1>8, <1>9, <1>11
<1>14. \A s \in Sector :
         /\ s = Scanned.current <=> hdr[s] = "current"
         /\ s = Scanned.gcing <=> hdr[s] = "gcing"
         /\ s = Scanned.remain <=> hdr[s] = "remain"
  BY <1>4, <1>5, <1>11
<1>15. \A s \in Sector : s \in Range(Scanned.unformat) <=> ~Counted(s) /\ hdr[s] # "remain"
  BY <1>7, <1>10, <1>11
<1>16. IsInjective(Scanned.dirty) /\ IsInjective(Scanned.free) /\ IsInjective(Scanned.unformat)
  BY <1>8, <1>9, <1>10, <1>11
<1> QED
  BY <1>2, <1>11, <1>12, <1>13, <1>14, <1>15, <1>16

\* The headers are scanned.
LEMMA InitEntryInv ==
  ASSUME VdsInv, InitEntry
  PROVE  VdsInv'
<1>1. /\ pc = "off" /\ part' = Scanned /\ UNCHANGED flash /\ UNCHANGED pos /\ UNCHANGED mt
      /\ UNCHANGED scan /\ UNCHANGED call
      /\ IF RefCount(part') > NrSect /\ None \notin {part'.gcing, part'.current}
           THEN pc' = "GcMark" /\ ret' = "BootClean"
           ELSE pc' = "BootClean" /\ UNCHANGED ret
  BY DEF InitEntry
<1>2. TypeOK /\ HeadersSound /\ SlotsSound /\ call = None
      /\ (\A b \in Block : mt[b] = None) /\ (\A s \in Sector : pos[s] = -1)
  BY <1>1 DEF VdsInv, CallSound, MapSound, PositionsSound, Writing, Collecting, Making, Dropping
<1>3. /\ HeadersSound' /\ SlotsSound' /\ CopiesSound' /\ CopiesStay
      /\ \A p : At(p)' = At(p) /\ (Live(p)' <=> Live(p)) /\ (Torn(p)' <=> Torn(p))
      /\ hdr' = hdr
  BY <1>1, FlashStays DEF VdsInv, flash
<1>4. /\ part' \in Partition /\ part'.temp = None
      /\ IsInjective(part'.dirty) /\ IsInjective(part'.free) /\ IsInjective(part'.unformat)
      /\ \A s \in Sector :
           /\ s \in Range(part'.dirty) <=> hdr[s] = "dirty"
           /\ s \in Range(part'.free) <=> hdr[s] = "free"
           /\ s = part'.current <=> hdr[s] = "current"
           /\ s = part'.gcing <=> hdr[s] = "gcing"
           /\ s = part'.remain <=> hdr[s] = "remain"
           /\ s \in Range(part'.unformat) <=> ~Counted(s) /\ hdr[s] # "remain"
      /\ \A s \in Sector : hdr[s] = "remain" => AllFresh(s)
  BY <1>1, <1>2, ScannedFacts
<1>5. PICK role \in [Sector -> Role] : Roles(part', role)
  <2> DEFINE r == [s \in Sector |-> IF hdr[s] \in {"dirty", "free", "current", "gcing", "remain"}
                                    THEN hdr[s] ELSE "unformat"]
  <2>1. r \in [Sector -> Role]
    BY DEF Role
  <2>2. \A s \in Sector : r[s] = IF hdr[s] \in {"dirty", "free", "current", "gcing", "remain"}
                                 THEN hdr[s] ELSE "unformat"
    OBVIOUS
  <2> HIDE DEF r
  <2>3. Roles(part', r)
    BY <1>4, <2>2, SectorFacts DEF Roles, Counted
  <2> QED
    BY <2>1, <2>3
<1>6. /\ part'.remain \in Sector \cup {None} /\ part'.unformat \in Seq(Sector)
      /\ part'.gcing \in Sector \cup {None} /\ part'.current \in Sector \cup {None}
  BY <1>4 DEF Partition
<1>7. /\ RefCount(part') \in Nat /\ Len(part'.unformat) \in Nat
      /\ RefCount(part') + Len(One(part'.temp)) + Len(One(part'.remain)) + Len(part'.unformat) = NrSect + 1
      /\ \A s : Len(One(s)) = IF s = None THEN 0 ELSE 1
  BY <1>4, <1>5, SectorsCounted
<1>8. PartSound'
  BY <1>4, <1>5 DEF PartSound, Partition, Sector
<1>9. pc' \in {"GcMark", "BootClean"}
  BY <1>1
<1>10. ListsSound'
  <2>1. \A u : AllFresh(u)' <=> AllFresh(u)
    BY <1>3 DEF AllFresh, Slot, Fresh
  <2>2. \A s \in Sector : Counted(s)' <=> Counted(s)
    BY <1>3 DEF Counted
  <2> QED
    BY <1>3, <1>4, <1>9, <2>1, <2>2, SectorFacts DEF ListsSound, Sector
<1>11. \A b \in Block : mt'[b] = None
  BY <1>1, <1>2
<1>12. MapSound'
  <2>1. \A q : ~Settled(q)'
    BY <1>1 DEF Settled, Writing, Collecting, Making, Dropping
  <2> QED
    BY <1>11, <2>1 DEF MapSound
<1>13. TypeOK'
  BY <1>1, <1>2 DEF VdsInv, TypeOK, flash, Place, Sector, Slot
<1>14. PositionsSound'
  <2>1. \A s \in Range(part'.free) : s \in Sector
    <3>1. part'.free \in Seq(Sector)
      BY <1>4 DEF Partition
    <3> QED
      BY <3>1, SeqFacts
  <2>2. \A s \in Range(part'.free) : pos'[s] = -1
    BY <1>1, <1>2, <2>1
  <2> QED
    BY <1>1, <2>2 DEF PositionsSound, Positioned, Writing, Dropping
<1>15. CallSound' /\ ScanSound' /\ NewSound' /\ CopySound'
  BY <1>1, <1>2 DEF CallSound, ScanSound, NewSound, CopySound, Writing, Collecting, Making, Dropping
<1>16. StageSound'
  <2>1. part'.remain # None => Has("remain")'
    BY <1>3, <1>4, <1>6 DEF Has, Sector
  <2>2. CASE pc' = "GcMark"
    <3>1. RefCount(part') > NrSect /\ part'.gcing # None /\ part'.current # None
      BY <1>1, <2>2
    <3>2. part'.remain = None /\ part'.unformat = <<>>
      <4> DEFINE a == RefCount(part')  c == Len(part'.unformat)
      <4>1. a \in Nat /\ c \in Nat /\ a > NrSect /\ a + 0 + Len(One(part'.remain)) + c = NrSect + 1
        BY <1>4, <1>7, <3>1
      <4>2. Len(One(part'.remain)) = 1 \/ (Len(One(part'.remain)) = 0 /\ part'.remain = None)
        BY <1>7
      <4> HIDE DEF a, c
      <4>3. Len(One(part'.remain)) = 0 /\ c = 0
        BY <4>1, <4>2, SectorFacts
      <4> QED
        BY <1>6, <4>2, <4>3, SeqFacts DEF c
    <3> QED
      BY <1>4, <2>2, <3>1, <3>2 DEF StageSound, Booting, Writing, Collecting, Making, Dropping
  <2>3. CASE pc' = "BootClean"
    <3>1. ~(part'.gcing # None /\ part'.current # None)
      <4> SUFFICES ASSUME part'.gcing # None, part'.current # None PROVE FALSE
        OBVIOUS
      <4>1. Has("gcing") /\ Has("current")
        BY <1>4, <1>6 DEF Has
      <4>2. \A s \in Sector : Counted(s)
        BY <1>2, <4>1 DEF HeadersSound
      <4>3. part'.remain = None
        BY <1>4, <1>6, <4>2 DEF Counted
      <4>4. part'.unformat = <<>>
        <5>1. Range(part'.unformat) = {}
          BY <1>4, <1>6, <4>2, SeqFacts
        <5> QED
          BY <1>6, <5>1, RangeFacts
      <4>5. RefCount(part') = NrSect + 1
        <5>1. Len(One(part'.temp)) = 0 /\ Len(One(part'.remain)) = 0 /\ Len(part'.unformat) = 0
          BY <1>4, <1>7, <4>3, <4>4
        <5> QED
          BY <1>7, <5>1
      <4>6. RefCount(part') > NrSect
        BY <4>5, SectorFacts
      <4> QED
        BY <1>1, <2>3, <4>6
    <3> QED
      BY <1>4, <2>1, <2>3, <3>1 DEF StageSound, Booting, Writing, Collecting, Making, Dropping
  <2> QED
    BY <1>9, <2>2, <2>3
<1> QED
  BY <1>3, <1>8, <1>10, <1>12, <1>13, <1>14, <1>15, <1>16 DEF VdsInv

\* The rest of the invariant while vds_InitEntry formats the sectors.
LEMMA BootRest ==
  ASSUME VdsInv, pc \in Booting, pc' \in Booting, UNCHANGED mt, UNCHANGED call,
         \A s \in Range(part'.free) : pos'[s] = -1
  PROVE  CallSound' /\ ScanSound' /\ MapSound' /\ PositionsSound' /\ NewSound' /\ CopySound'
<1>1. /\ pc' # "off" /\ pc' \notin Collecting /\ pc' \notin Writing
      /\ pc' \notin {"idle", "Move", "Pop", "BootScan", "GcScan"}
      /\ pc \notin Collecting /\ pc \notin Writing /\ pc \notin {"Move", "Pop"}
  BY DEF Booting, Collecting, Writing, Making, Dropping
<1>2. \A b \in Block : mt[b] = None
  BY DEF VdsInv, MapSound
<1>3. \A q : ~Settled(q)'
  BY <1>1 DEF Settled, Collecting
<1>4. MapSound'
  BY <1>2, <1>3 DEF MapSound
<1>5. CallSound' /\ ScanSound'
  BY <1>1 DEF VdsInv, CallSound, ScanSound, Collecting
<1>6. PositionsSound'
  BY <1>1 DEF PositionsSound, Positioned, Collecting
<1>7. NewSound' /\ CopySound'
  BY <1>1 DEF NewSound, CopySound, Writing, Collecting, Making
<1> QED
  BY <1>4, <1>5, <1>6, <1>7

\* The sectors counted, while vds_InitEntry formats them.
LEMMA BootFacts ==
  ASSUME VdsInv, pc \in Booting
  PROVE  /\ pc \notin {"off", "GcErase", "GcErasing"} /\ part.temp = None
         /\ ~(part.gcing # None /\ part.current # None)
         /\ RefCount(part) \in Nat /\ Len(part.unformat) \in Nat
         /\ part.unformat = <<>> <=> Len(part.unformat) = 0
         /\ RefCount(part) + (IF part.remain = None THEN 0 ELSE 1) + Len(part.unformat) = NrSect + 1
         /\ \A s \in Sector : s = part.gcing <=> hdr[s] = "gcing"
         /\ part.unformat = <<>> => part.remain # None \/ \A s \in Sector : Counted(s)
         /\ HasData \/ (part.dirty = <<>> /\ part.current = None /\ part.gcing = None)
<1>1. pc \notin {"off", "GcErase", "GcErasing"} /\ pc \notin Making
  BY DEF Booting, Making
<1>2. part.temp = None /\ ~(part.gcing # None /\ part.current # None)
  BY <1>1 DEF VdsInv, StageSound
<1>3. PICK role \in [Sector -> Role] : Roles(part, role)
  BY <1>1, ListFacts
<1>4. part \in Partition /\ IsInjective(part.dirty) /\ IsInjective(part.free) /\ IsInjective(part.unformat)
      /\ part.unformat \in Seq(Sector) /\ part.dirty \in Seq(Sector)
      /\ part.current \in Sector \cup {None} /\ part.gcing \in Sector \cup {None}
  BY <1>1, ListFacts
<1>5. /\ RefCount(part) \in Nat /\ Len(part.unformat) \in Nat
      /\ RefCount(part) + Len(One(part.temp)) + Len(One(part.remain)) + Len(part.unformat) = NrSect + 1
      /\ \A s : Len(One(s)) = IF s = None THEN 0 ELSE 1
  BY <1>3, <1>4, SectorsCounted
<1>6. RefCount(part) + (IF part.remain = None THEN 0 ELSE 1) + Len(part.unformat) = NrSect + 1
  <2> DEFINE a == RefCount(part)  c == Len(part.unformat)
  <2>1. /\ Len(One(part.temp)) = 0
        /\ Len(One(part.remain)) = IF part.remain = None THEN 0 ELSE 1
        /\ a \in Nat /\ c \in Nat /\ a + Len(One(part.temp)) + Len(One(part.remain)) + c = NrSect + 1
    BY <1>2, <1>5
  <2> HIDE DEF a, c
  <2>2. a + 0 + (IF part.remain = None THEN 0 ELSE 1) + c = NrSect + 1
    BY <2>1
  <2>3. a + (IF part.remain = None THEN 0 ELSE 1) + c = NrSect + 1
    BY <2>1, <2>2
  <2> QED
    BY <2>3 DEF a, c
<1>7. \A s \in Sector : s = part.gcing <=> hdr[s] = "gcing"
  BY <1>1 DEF VdsInv, ListsSound
<1>8. part.unformat = <<>> => part.remain # None \/ \A s \in Sector : Counted(s)
  BY <1>1, <1>2, OneUncounted, SectorFacts
<1>9. part.unformat = <<>> <=> Len(part.unformat) = 0
  BY <1>4, SeqFacts
<1>10. HasData \/ (part.dirty = <<>> /\ part.current = None /\ part.gcing = None)
  <2> SUFFICES ASSUME ~HasData PROVE part.dirty = <<>> /\ part.current = None /\ part.gcing = None
    OBVIOUS
  <2>1. \A s \in Sector : s \notin Range(part.dirty) /\ s # part.current /\ s # part.gcing
    BY <1>1, <1>7, ListFacts DEF HasData
  <2>2. Range(part.dirty) = {}
    BY <1>4, <2>1, SeqFacts
  <2> QED
    BY <1>4, <2>1, <2>2, RangeFacts
<1> QED
  BY <1>1, <1>2, <1>5, <1>6, <1>7, <1>8, <1>9, <1>10

\* Once something was written, a partition misses no sector: one is unused, and it is
\* the remain sector, or the one that becomes it.
LEMMA NothingMissing ==
  ASSUME VdsInv, pc = "BootClean", HasData
  PROVE  RefCount(part) = NrSect
<1>1. /\ pc \in Booting /\ pc # "off"
      /\ part.unformat \in Seq(Sector) /\ IsInjective(part.unformat)
      /\ part.remain \in Sector \cup {None}
  BY ListFacts DEF Booting
<1>2. \A s \in Sector : s \in Range(part.unformat) \/ s = part.remain => ~Counted(s)
  BY <1>1 DEF VdsInv, ListsSound, Counted
<1>3. \A s, u \in Sector : ~Counted(s) /\ ~Counted(u) => s = u
  BY DEF VdsInv, HeadersSound
<1>4. ~\A s \in Sector : Counted(s)
  <2> SUFFICES ASSUME \A s \in Sector : Counted(s) PROVE FALSE
    OBVIOUS
  <2>1. Has("gcing") /\ Has("current")
    BY DEF VdsInv, HeadersSound
  <2>2. part.gcing # None /\ part.current # None
    BY <1>1, <2>1, BootFacts, ListFacts, SectorFacts DEF Has
  <2> QED
    BY <1>1, <2>2, BootFacts
<1>5. ~(part.unformat # <<>> /\ part.remain # None)
  <2> SUFFICES ASSUME part.unformat # <<>>, part.remain # None PROVE FALSE
    OBVIOUS
  <2>1. PICK u \in Sector : u \in Range(part.unformat)
    BY <1>1, RangeFacts
  <2>2. u # part.remain
    <3>1. PICK role \in [Sector -> Role] : Roles(part, role)
      BY <1>1, ListFacts
    <3> QED
      BY <2>1, <3>1 DEF Roles
  <2> QED
    BY <1>1, <1>2, <1>3, <2>1, <2>2
<1>6. Len(part.unformat) \in {0, 1}
  <2>1. Len(part.unformat) \in Nat /\ \A i \in 1..Len(part.unformat) : part.unformat[i] \in Sector
        /\ part.unformat[i] \in Range(part.unformat)
    BY <1>1, SeqFacts
  <2>2. \A i, j \in 1..Len(part.unformat) : i = j
    <3>1. \A i, j \in 1..Len(part.unformat) : part.unformat[i] = part.unformat[j]
      BY <1>2, <1>3, <2>1
    <3> QED
      BY <1>1, <3>1, SeqFacts DEF IsInjective
  <2> DEFINE n == Len(part.unformat)
  <2>3. n \in Nat /\ \A i, j \in 1..n : i = j
    BY <2>1, <2>2
  <2> HIDE DEF n
  <2>4. ~(n >= 2)
    BY <2>3
  <2>5. n \in {0, 1}
    BY <2>3, <2>4
  <2> QED
    BY <2>5 DEF n
<1>7. /\ RefCount(part) \in Nat /\ Len(part.unformat) \in Nat
      /\ part.unformat = <<>> <=> Len(part.unformat) = 0
      /\ RefCount(part) + (IF part.remain = None THEN 0 ELSE 1) + Len(part.unformat) = NrSect + 1
      /\ part.unformat = <<>> => part.remain # None
  BY <1>1, <1>4, BootFacts
<1>8. \/ part.remain = None /\ Len(part.unformat) = 1
      \/ part.remain # None /\ Len(part.unformat) = 0
  BY <1>5, <1>6, <1>7
<1> DEFINE a == RefCount(part)  c == Len(part.unformat)
<1>9. /\ a \in Nat /\ a + (IF part.remain = None THEN 0 ELSE 1) + c = NrSect + 1
      /\ (part.remain = None /\ c = 1) \/ (part.remain # None /\ c = 0)
  BY <1>7, <1>8
<1> HIDE DEF a, c
<1>10. a = NrSect
  BY <1>9, SectorFacts
<1> QED
  BY <1>10 DEF a

\* A partition kept, or given up as a whole.
LEMMA CleanedFacts ==
  ASSUME VdsInv, pc = "BootClean"
  PROVE  /\ Cleaned \in Partition /\ Cleaned.temp = None /\ Cleaned.remain = part.remain
         /\ IsInjective(Cleaned.dirty) /\ IsInjective(Cleaned.free) /\ IsInjective(Cleaned.unformat)
         /\ \E role \in [Sector -> Role] : Roles(Cleaned, role)
         /\ ~(Cleaned.gcing # None /\ Cleaned.current # None)
         /\ \A s \in Sector :
              /\ s \in Range(Cleaned.dirty) <=> hdr[s] = "dirty"
              /\ s = Cleaned.current <=> hdr[s] = "current"
              /\ s = Cleaned.gcing <=> hdr[s] = "gcing"
              /\ s \in Range(Cleaned.free) => hdr[s] = "free"
              /\ s \in Range(Cleaned.unformat) => hdr[s] # "remain" /\ (Counted(s) => ~HasData)
         /\ \A s \in Range(Cleaned.free) : pos[s] = -1
         /\ Cleaned.remain = None =>
              Cleaned.unformat # <<>> /\ \A s \in Range(Cleaned.unformat) : ~Counted(s)
<1>1. /\ pc \in Booting /\ pc # "off" /\ part \in Partition
      /\ part.unformat \in Seq(Sector) /\ part.free \in Seq(Sector) /\ part.dirty \in Seq(Sector)
      /\ IsInjective(part.dirty) /\ IsInjective(part.free) /\ IsInjective(part.unformat)
      /\ part.remain \in Sector \cup {None}
  BY ListFacts DEF Booting
<1>2. PICK role \in [Sector -> Role] : Roles(part, role)
  BY <1>1, ListFacts
<1>3. \A s \in Sector : s \in Range(part.unformat) => hdr[s] # "remain" /\ (Counted(s) => ~HasData)
  BY <1>1 DEF VdsInv, ListsSound
<1>4. \A s \in Range(part.free) : s \in Sector /\ hdr[s] = "free" /\ pos[s] = -1
  BY <1>1, ListFacts, SeqFacts
<1>5. part.temp = None /\ ~(part.gcing # None /\ part.current # None)
  BY <1>1, BootFacts
<1>6. \A s \in Sector : /\ s \in Range(part.dirty) <=> hdr[s] = "dirty"
                        /\ s = part.current <=> hdr[s] = "current"
                        /\ s = part.gcing <=> hdr[s] = "gcing"
  BY <1>1, BootFacts, ListFacts
<1>7. CASE RefCount(part) = NrSect
  <2>1. Cleaned = part
    BY <1>7 DEF Cleaned
  <2>2. ASSUME part.remain = None
        PROVE  part.unformat # <<>> /\ \A s \in Range(part.unformat) : ~Counted(s)
    <3> DEFINE a == RefCount(part)  c == Len(part.unformat)
    <3>1. /\ a \in Nat /\ c \in Nat /\ a + 0 + c = NrSect + 1 /\ a = NrSect
          /\ part.unformat = <<>> <=> c = 0
      BY <1>1, <1>7, <2>2, BootFacts
    <3> HIDE DEF a, c
    <3>2. c = 1
      BY <3>1, SectorFacts
    <3>3. part.unformat # <<>>
      BY <3>1, <3>2
    <3>4. ASSUME NEW s \in Range(part.unformat), Counted(s) PROVE FALSE
      <4>1. s \in Sector
        BY <1>1, <3>4, SeqFacts
      <4>2. ASSUME NEW u \in Sector PROVE Counted(u)
        <5>1. u \in Range(part.unformat) => u = s
          <6> SUFFICES ASSUME u \in Range(part.unformat) PROVE u = s
            OBVIOUS
          <6>1. Len(part.unformat) = 1
            BY <3>2 DEF c
          <6>2. \A e \in Range(part.unformat) : e = part.unformat[1]
            <7>1. \A e \in Range(part.unformat) : \E i \in 1..1 : part.unformat[i] = e
              BY <1>1, <6>1, RangeFacts
            <7> QED
              BY <7>1
          <6> QED
            BY <3>4, <6>2
        <5>2. u \in Range(part.unformat) \/ u \in Range(part.dirty) \/ u \in Range(part.free)
              \/ u = part.current \/ u = part.gcing
          BY <1>2, <1>5, <2>2, SectorFacts DEF Roles, Role
        <5> QED
          BY <1>4, <1>6, <3>4, <5>1, <5>2 DEF Counted
      <4>3. HasData
        <5>1. Has("gcing")
          BY <4>2 DEF VdsInv, HeadersSound
        <5> QED
          BY <5>1 DEF Has, HasData
      <4> QED
        BY <1>3, <3>4, <4>1, <4>3
    <3> QED
      BY <3>3, <3>4
  <2> QED
    BY <1>1, <1>2, <1>3, <1>4, <1>5, <1>6, <2>1, <2>2
<1>8. CASE RefCount(part) # NrSect
  <2>1. ~HasData /\ part.dirty = <<>> /\ part.current = None /\ part.gcing = None
    BY <1>1, <1>8, NothingMissing, BootFacts
  <2>2. Cleaned = [dirty |-> <<>>, free |-> <<>>, current |-> None, gcing |-> None,
                   temp |-> None, remain |-> part.remain,
                   unformat |-> part.free \o <<>> \o <<>> \o <<>> \o part.unformat]
    BY <1>8, <2>1 DEF Cleaned, Empty, One
  <2>3. /\ part.free \o part.unformat \in Seq(Sector)
        /\ Range(part.free \o part.unformat) = Range(part.free) \cup Range(part.unformat)
        /\ IsInjective(part.free \o part.unformat)
    <3>1. Range(part.free) \cap Range(part.unformat) = {}
      BY <1>1, <1>2, <1>4 DEF Roles
    <3> QED
      BY <1>1, <3>1, ConcatSeq
  <2>4. part.free \o <<>> \o <<>> \o <<>> \o part.unformat = part.free \o part.unformat
    BY <1>1
  <2> DEFINE all == part.free \o part.unformat
  <2>5. /\ Cleaned.dirty = <<>> /\ Cleaned.free = <<>> /\ Cleaned.current = None
        /\ Cleaned.gcing = None /\ Cleaned.temp = None /\ Cleaned.remain = part.remain
        /\ Cleaned.unformat = all
    BY <2>2, <2>4
  <2>6. Cleaned \in Partition
    BY <1>1, <2>2, <2>3, <2>4, EmptySeqFacts DEF Partition
  <2>7. \E r \in [Sector -> Role] : Roles(Cleaned, r)
    <3> DEFINE r == [s \in Sector |-> IF role[s] = "free" THEN "unformat" ELSE role[s]]
    <3>1. r \in [Sector -> Role] /\ \A s \in Sector : r[s] = IF role[s] = "free" THEN "unformat" ELSE role[s]
      BY <1>2 DEF Role
    <3> HIDE DEF r
    <3>2. Roles(Cleaned, r)
      BY <1>2, <1>5, <2>1, <2>3, <2>5, <3>1, EmptySeqFacts, SectorFacts DEF Roles
    <3> QED
      BY <3>1, <3>2
  <2>8. \A s \in Sector : hdr[s] \notin {"dirty", "current", "gcing"}
    BY <2>1 DEF HasData
  <2>9. \A s \in Sector : s \in Range(all) => hdr[s] # "remain"
    BY <1>3, <1>4, <2>3
  <2>10. ASSUME part.remain = None
         PROVE  all # <<>> /\ \A s \in Range(all) : ~Counted(s)
    <3>1. ASSUME NEW s \in Sector PROVE s \in Range(all)
      BY <1>2, <1>5, <2>1, <2>3, <2>10, EmptySeqFacts, SectorFacts DEF Roles, Role
    <3>2. all # <<>>
      <4>1. 0 \in Sector
        BY SectorFacts DEF Sector
      <4> QED
        BY <3>1, <4>1, EmptySeqFacts
    <3>3. ~Has("remain")
      BY <2>9, <3>1 DEF Has
    <3>4. \A s \in Sector : hdr[s] = "blank"
      BY <2>1, <3>3 DEF VdsInv, HeadersSound
    <3>5. \A s \in Range(all) : s \in Sector
      BY <2>3, SeqFacts
    <3> QED
      BY <3>2, <3>4, <3>5 DEF Counted
  <2> HIDE DEF all
  <2> QED
    BY <2>1, <2>3, <2>5, <2>6, <2>7, <2>8, <2>9, <2>10, EmptySeqFacts, SectorFacts DEF all
<1> QED
  BY <1>7, <1>8

\* The partition is kept or given up, and a remain sector chosen.
LEMMA BootCleanInv ==
  ASSUME VdsInv, BootClean
  PROVE  VdsInv'
<1>1. /\ pc = "BootClean" /\ pc \in Booting
      /\ UNCHANGED flash /\ UNCHANGED pos /\ UNCHANGED mt
      /\ UNCHANGED call
  BY DEF BootClean, Booting, Goto
<1>2. /\ HeadersSound' /\ SlotsSound' /\ CopiesSound' /\ CopiesStay
      /\ \A p : At(p)' = At(p) /\ (Live(p)' <=> Live(p)) /\ (Torn(p)' <=> Torn(p))
      /\ hdr' = hdr /\ (HasData' <=> HasData) /\ \A st : Has(st)' <=> Has(st)
  <2>1. HeadersStay /\ hdr' = hdr
    BY <1>1 DEF HeadersStay, flash
  <2> QED
    BY <1>1, <2>1, FlashStays, HeadersStaySound DEF VdsInv
<1>3. TypeOK'
  BY <1>1 DEF VdsInv, TypeOK, flash, Place, Sector, Slot
<1>4. /\ \A u : AllFresh(u)' <=> AllFresh(u)
      /\ \A u \in Sector : Counted(u)' <=> Counted(u)
  BY <1>2 DEF AllFresh, Slot, Fresh, Counted
<1> DEFINE c == Cleaned
<1>5. /\ c \in Partition /\ c.temp = None /\ c.remain = part.remain
      /\ IsInjective(c.dirty) /\ IsInjective(c.free) /\ IsInjective(c.unformat)
      /\ \E role \in [Sector -> Role] : Roles(c, role)
      /\ ~(c.gcing # None /\ c.current # None)
      /\ \A s \in Sector :
           /\ s \in Range(c.dirty) <=> hdr[s] = "dirty"
           /\ s = c.current <=> hdr[s] = "current"
           /\ s = c.gcing <=> hdr[s] = "gcing"
           /\ s \in Range(c.free) => hdr[s] = "free"
           /\ s \in Range(c.unformat) => hdr[s] # "remain" /\ (Counted(s) => ~HasData)
      /\ \A s \in Range(c.free) : pos[s] = -1
      /\ c.remain = None => c.unformat # <<>> /\ \A s \in Range(c.unformat) : ~Counted(s)
  BY <1>1, CleanedFacts
<1>6. CASE c.remain # None
  <2>1. part' = c /\ pc' = "BootFill" /\ pc' \in Booting /\ UNCHANGED call
    BY <1>6 DEF BootClean, Goto, Booting
  <2> HIDE DEF c
  <2>2. CallSound' /\ ScanSound' /\ MapSound' /\ PositionsSound' /\ NewSound' /\ CopySound'
    BY <1>1, <1>5, <2>1, BootRest
  <2>3. PartSound'
    BY <1>5, <2>1 DEF PartSound, Partition, Sector
  <2>4. \A s \in Sector : s = c.remain => hdr[s] \in {"remain", "blank"} /\ AllFresh(s)
    BY <1>1, <1>5 DEF VdsInv, ListsSound
  <2>5. ListsSound'
    BY <1>2, <1>4, <1>5, <2>1, <2>4, SectorFacts DEF ListsSound, Sector
  <2>6. HasData \/ Has("remain")
    BY <1>1, <1>5, <1>6 DEF VdsInv, StageSound
  <2>7. StageSound'
    BY <1>2, <1>5, <1>6, <2>1, <2>6 DEF StageSound, Booting, Writing, Making, Dropping, Collecting
  <2> QED
    BY <1>2, <1>3, <2>2, <2>3, <2>5, <2>7 DEF VdsInv
<1>7. CASE c.remain = None
  <2>1. c.unformat # <<>>
    BY <1>5, <1>7
  <2>2. PICK u \in Sector : /\ u = Last(c.unformat) /\ u \in Range(c.unformat)
                            /\ Front(c.unformat) \in Seq(Sector) /\ IsInjective(Front(c.unformat))
                            /\ u \notin Range(Front(c.unformat))
                            /\ Range(c.unformat) = Range(Front(c.unformat)) \cup {u}
    <3>1. c.unformat \in Seq(Sector)
      BY <1>5 DEF Partition
    <3> QED
      BY <1>5, <2>1, <3>1, FrontSeq
  <2>3. /\ part' = [c EXCEPT !.remain = u, !.unformat = Front(c.unformat)]
        /\ pc' = "BootRemain" /\ pc' \in Booting /\ UNCHANGED call
    BY <1>7, <2>1, <2>2 DEF BootClean, Goto, Booting
  <2> HIDE DEF c
  <2>4. /\ part'.dirty = c.dirty /\ part'.free = c.free /\ part'.current = c.current
        /\ part'.gcing = c.gcing /\ part'.temp = None /\ part'.remain = u
        /\ part'.unformat = Front(c.unformat) /\ part' \in Partition
    BY <1>5, <2>2, <2>3 DEF Partition
  <2>5. CallSound' /\ ScanSound' /\ MapSound' /\ PositionsSound' /\ NewSound' /\ CopySound'
    <3>1. \A s \in Range(part'.free) : pos'[s] = -1
      BY <1>1, <1>5, <2>4
    <3> QED
      BY <1>1, <2>3, <3>1, BootRest
  <2>6. PartSound'
    <3>1. PICK role \in [Sector -> Role] : Roles(c, role)
      BY <1>5
    <3> DEFINE role1 == [role EXCEPT ![u] = "remain"]
    <3>2. role1 \in [Sector -> Role] /\ \A s \in Sector : role1[s] = IF s = u THEN "remain" ELSE role[s]
      BY <2>2 DEF Role
    <3> HIDE DEF role1
    <3>3. Roles(part', role1)
      BY <1>5, <1>7, <2>2, <2>4, <3>1, <3>2, SectorFacts DEF Roles
    <3> QED
      BY <1>5, <2>2, <2>4, <3>2, <3>3 DEF PartSound, Partition, Sector
  <2>7. ~Counted(u) /\ hdr[u] # "remain"
    BY <1>5, <1>7, <2>2
  <2>8. ListsSound'
    BY <1>2, <1>4, <1>5, <2>2, <2>3, <2>4, <2>7, SectorFacts DEF ListsSound, Sector
  <2>9. StageSound'
    BY <1>5, <2>2, <2>3, <2>4, SectorFacts DEF StageSound, Booting, Writing, Making, Dropping, Collecting
  <2> QED
    BY <1>2, <1>3, <2>5, <2>6, <2>8, <2>9 DEF VdsInv
<1> QED
  BY <1>6, <1>7

\* The erased remain sector is marked.
LEMMA BootSetRemainInv ==
  ASSUME VdsInv, BootSetRemain
  PROVE  VdsInv'
<1>1. /\ pc = "BootSetRemain" /\ pc \in Booting /\ pc # "off" /\ pc' = "BootFill" /\ pc' \in Booting
      /\ UNCHANGED call /\ UNCHANGED pb /\ UNCHANGED part /\ UNCHANGED pos /\ UNCHANGED mt
  BY DEF BootSetRemain, Goto, Booting, ram
<1>2. PICK r \in Sector : r = part.remain
  BY <1>1, ListFacts DEF VdsInv, StageSound
<1>3. hdr' = [hdr EXCEPT ![r] = "remain"]
  BY <1>2 DEF BootSetRemain
<1>4. hdr[r] = "blank" /\ AllFresh(r)
  BY <1>1, <1>2 DEF VdsInv, ListsSound
<1>5. TypeOK /\ HeaderSet(r, "remain") /\ hdr' \in [Sector -> Status] /\ SlotsStay
  BY <1>1, <1>3, SetHeader DEF VdsInv, Status, SlotsStay, At
<1>6. \A u \in Sector : hdr'[u] = IF u = r THEN "remain" ELSE hdr[u]
  BY <1>5 DEF HeaderSet
<1>7. \A u \in Sector : hdr[u] # "remain"
  <2> SUFFICES ASSUME NEW u \in Sector, hdr[u] = "remain" PROVE FALSE
    OBVIOUS
  <2>1. PICK role \in [Sector -> Role] : Roles(part, role)
    BY <1>1, ListFacts
  <2>2. u = part.remain
    <3>1. u \notin Range(part.unformat) /\ u \notin Range(part.free) /\ u \notin Range(part.dirty)
          /\ u # part.current /\ u # part.gcing /\ u # part.temp
      BY <1>1 DEF VdsInv, ListsSound
    <3> QED
      BY <2>1, <3>1 DEF Roles, Role
  <2> QED
    BY <1>2, <1>4, <2>2
<1>8. /\ HasData' <=> HasData
      /\ Has("remain")' /\ (Has("gcing")' <=> Has("gcing")) /\ (Has("current")' <=> Has("current"))
      /\ \A u \in Sector : (Counted(u)' <=> Counted(u))
      /\ \A q \in Place : (Live(q)' <=> Live(q))
  BY <1>4, <1>6, PlaceFacts DEF HasData, Has, Sector, Counted, Live
<1>9. HeadersSound'
  <2>1. \A t, u \in Sector : hdr'[t] = hdr'[u] /\ hdr'[t] \in {"remain", "current", "gcing"} => t = u
    BY <1>6, <1>7 DEF VdsInv, HeadersSound
  <2>2. \A s \in Sector : hdr'[s] \in {"temp", "erasing"} => HasData
    BY <1>6 DEF VdsInv, HeadersSound
  <2> QED
    BY <1>8, <2>1, <2>2 DEF VdsInv, HeadersSound, Sector
<1>10. \A q : At(q)' = At(q)
  BY <1>5 DEF SlotsStay
<1>11. CopiesStay
  <2> SUFFICES ASSUME NEW b, NEW q PROVE q \in Copies(b)' <=> q \in Copies(b)
    BY DEF CopiesStay
  <2> QED
    BY <1>8, <1>10, CopyFacts, CopyFactsPrime
<1>12. SlotsSound'
  <2>1. \A q \in Place : q[1] = r => At(q) = Fresh
    BY <1>4, PlaceFacts DEF AllFresh
  <2>2. \A q \in Place : /\ hdr'[q[1]] = "remain" => At(q)' = Fresh
                         /\ hdr'[q[1]] = "free" => Clear(q)'
                         /\ Live(q)' => Clear(q)' \/ At(q)'.st = "valid"
                         /\ Torn(q)' => hdr'[q[1]] = "current" /\ ~Has("gcing")'
    BY <1>6, <1>7, <1>8, <1>10, <2>1, PlaceFacts DEF VdsInv, SlotsSound, Clear, Torn, Fresh, Dead
  <2>3. \A u \in Sector : hdr'[u] \in {"dirty", "current"} => \A i, j \in Slot :
          i < j /\ At(<<u, i>>)'.st = "free" => At(<<u, j>>)'.st # "valid"
    BY <1>6, <1>10 DEF VdsInv, SlotsSound
  <2>4. \A u \in Sector : hdr'[u] = "gcing" => \E i \in Slot : At(<<u, i>>)'.st # "valid"
    BY <1>6, <1>10 DEF VdsInv, SlotsSound
  <2> QED
    BY <2>2, <2>3, <2>4 DEF SlotsSound, Place, Sector, Slot
<1>13. CopiesSound'
  <2>1. \A b \in Block : \A q : q \in Copies(b)' <=> q \in Copies(b)
    BY <1>11 DEF CopiesStay
  <2>2. \A b \in Block : \A q \in Copies(b) : At(q)' = At(q) /\ hdr'[q[1]] = hdr[q[1]]
    BY <1>4, <1>6, <1>10, CopyFacts, PlaceFacts DEF Live
  <2> QED
    BY <1>8, <2>1, <2>2 DEF VdsInv, CopiesSound
<1>14. TypeOK'
  BY <1>1, <1>5 DEF VdsInv, TypeOK, Status, Place, Sector, Slot
<1>15. PartSound'
  BY <1>1 DEF VdsInv, PartSound, Partition, Roles, Sector
<1>16. ListsSound'
  <2>1. \A u : AllFresh(u)' <=> AllFresh(u)
    BY <1>10 DEF AllFresh, Slot, Fresh
  <2>2. r \notin Range(part.unformat)
    BY <1>1, <1>2, ListFacts DEF Roles
  <2> QED
    BY <1>1, <1>2, <1>4, <1>6, <1>8, <2>1, <2>2, SectorFacts DEF VdsInv, ListsSound, Sector
<1>17. StageSound'
  BY <1>1, <1>2, <1>8 DEF VdsInv, StageSound, Booting, Writing, Making, Dropping, Collecting
<1>18. CallSound' /\ ScanSound' /\ MapSound' /\ PositionsSound' /\ NewSound' /\ CopySound'
  <2>1. \A s \in Range(part'.free) : pos'[s] = -1
    BY <1>1 DEF VdsInv, PositionsSound
  <2> QED
    BY <1>1, <2>1, BootRest
<1> QED
  BY <1>9, <1>12, <1>13, <1>14, <1>15, <1>16, <1>17, <1>18 DEF VdsInv

\* A second sector to format means that nothing was written yet.
LEMMA Unformatted ==
  ASSUME VdsInv, pc \in Booting, part.remain # None, part.unformat # <<>>
  PROVE  /\ ~HasData
         /\ Last(part.unformat) \in Sector /\ Last(part.unformat) \in Range(part.unformat)
         /\ Last(part.unformat) # part.remain
<1>1. /\ pc # "off" /\ part.unformat \in Seq(Sector) /\ part.remain \in Sector
      /\ pc \notin {"GcErase", "GcErasing"}
  BY ListFacts DEF Booting
<1>2. PICK u \in Sector : u = Last(part.unformat) /\ u \in Range(part.unformat)
  BY <1>1, FrontSeq
<1>3. u # part.remain
  BY <1>1, <1>2, ListFacts DEF Roles
<1>4. ~Counted(part.remain)
  BY <1>1 DEF VdsInv, ListsSound, Counted
<1>5. HasData => ~Counted(u)
  BY <1>1, <1>2 DEF VdsInv, ListsSound
<1> QED
  BY <1>1, <1>2, <1>3, <1>4, <1>5 DEF VdsInv, HeadersSound

\* A sector is formatted (vds_FormatSec).
LEMMA BootFormatInv ==
  ASSUME VdsInv, BootFormat
  PROVE  VdsInv'
<1>1. /\ pc = "BootFormat" /\ pc \in Booting /\ pc # "off" /\ pc' = "BootFill" /\ pc' \in Booting
      /\ UNCHANGED call /\ UNCHANGED pb /\ UNCHANGED mt
      /\ part.remain # None /\ part.unformat # <<>>
      /\ part.unformat \in Seq(Sector) /\ IsInjective(part.unformat)
  BY ListFacts DEF BootFormat, Goto, Booting, VdsInv, StageSound
<1>2. PICK u \in Sector : /\ u = Last(part.unformat) /\ u \in Range(part.unformat)
                          /\ Front(part.unformat) \in Seq(Sector) /\ IsInjective(Front(part.unformat))
                          /\ u \notin Range(Front(part.unformat))
                          /\ Range(part.unformat) = Range(Front(part.unformat)) \cup {u}
  BY <1>1, FrontSeq
<1>3. /\ hdr' = [hdr EXCEPT ![u] = "free"] /\ pos' = [pos EXCEPT ![u] = -1]
      /\ part' = [part EXCEPT !.free = <<u>> \o part.free, !.unformat = Front(part.unformat)]
  BY <1>2 DEF BootFormat
<1>4. ~HasData /\ hdr[u] = "blank" /\ AllFresh(u) /\ Has("remain") /\ u # part.remain
  BY <1>1, <1>2, Unformatted DEF VdsInv, StageSound
<1>5. TypeOK /\ HeaderSet(u, "free") /\ hdr' \in [Sector -> Status] /\ SlotsStay
  BY <1>1, <1>3, SetHeader DEF VdsInv, Status, SlotsStay, At
<1>6. \A s \in Sector : hdr'[s] = IF s = u THEN "free" ELSE hdr[s]
  BY <1>5 DEF HeaderSet
<1>7. \A q : At(q)' = At(q)
  BY <1>5 DEF SlotsStay
<1>8. /\ ~HasData' /\ Has("remain")' /\ ~Has("gcing") /\ ~Has("gcing")'
      /\ \A s \in Sector : hdr[s] \notin {"dirty", "current", "gcing"} /\ hdr'[s] \notin {"dirty", "current", "gcing"}
      /\ \A q \in Place : ~Live(q) /\ ~Live(q)'
  BY <1>4, <1>6, PlaceFacts DEF HasData, Has, Sector, Live, Place
<1>9. HeadersSound'
  <2>1. \A t, s \in Sector : hdr'[t] = hdr'[s] /\ hdr'[t] \in {"remain", "current", "gcing"} => t = s
    BY <1>6 DEF VdsInv, HeadersSound
  <2>2. \A s \in Sector : hdr'[s] \notin {"temp", "erasing"}
    BY <1>4, <1>6 DEF VdsInv, HeadersSound
  <2>3. ~\A s \in Sector : Counted(s)'
    BY <1>8 DEF Has, Counted, Sector
  <2> QED
    BY <1>8, <2>1, <2>2, <2>3 DEF HeadersSound, Sector
<1>10. \A b : Copies(b) = {} /\ Copies(b)' = {}
  BY <1>8, CopyFacts, CopyFactsPrime
<1>11. SlotsSound' /\ CopiesSound'
  <2>1. \A q \in Place : q[1] = u => At(q) = Fresh
    BY <1>4, PlaceFacts DEF AllFresh
  <2>2. \A q \in Place : /\ hdr'[q[1]] = "remain" => At(q)' = Fresh
                         /\ hdr'[q[1]] = "free" => Clear(q)'
    BY <1>6, <1>7, <2>1, PlaceFacts DEF VdsInv, SlotsSound, Clear, Fresh, Dead
  <2> QED
    BY <1>8, <1>10, <2>2 DEF SlotsSound, CopiesSound, Torn, Place, Sector, Slot
<1>12. /\ \A s \in Sector : pos'[s] = IF s = u THEN -1 ELSE pos[s]
       /\ pos' \in [Sector -> -1 .. NrPb - 1]
  <2>1. pos \in [Sector -> -1 .. NrPb - 1] /\ -1 \in -1 .. NrPb - 1
    BY SectorFacts DEF VdsInv, TypeOK
  <2> QED
    BY <1>3, <2>1
<1>13. TypeOK'
  BY <1>1, <1>5, <1>12 DEF VdsInv, TypeOK, Status, Place, Sector, Slot
<1>14. /\ part \in Partition /\ u \notin Range(part.free) /\ part.free \in Seq(Sector)
       /\ <<u>> \o part.free \in Seq(Sector) /\ IsInjective(<<u>> \o part.free)
       /\ Range(<<u>> \o part.free) = Range(part.free) \cup {u}
  BY <1>1, <1>4, ListFacts, ConsSeq
<1>15. /\ part'.dirty = part.dirty /\ part'.free = <<u>> \o part.free /\ part'.current = part.current
       /\ part'.gcing = part.gcing /\ part'.temp = part.temp /\ part'.remain = part.remain
       /\ part'.unformat = Front(part.unformat) /\ part' \in Partition
  BY <1>2, <1>3, <1>14 DEF Partition
<1>16. PartSound'
  <2>1. PICK role \in [Sector -> Role] : Roles(part, role)
    BY <1>1, ListFacts
  <2> DEFINE role1 == [role EXCEPT ![u] = "free"]
  <2>2. role1 \in [Sector -> Role] /\ \A s \in Sector : role1[s] = IF s = u THEN "free" ELSE role[s]
    BY DEF Role
  <2> HIDE DEF role1
  <2>3. Roles(part', role1)
    BY <1>2, <1>14, <1>15, <2>1, <2>2 DEF Roles
  <2> QED
    BY <1>1, <1>2, <1>14, <1>15, <2>2, <2>3, ListFacts DEF PartSound, Partition, Sector
<1>17. ListsSound'
  <2>1. \A s : AllFresh(s)' <=> AllFresh(s)
    BY <1>7 DEF AllFresh, Slot, Fresh
  <2> QED
    BY <1>1, <1>2, <1>4, <1>6, <1>8, <1>14, <1>15, <2>1 DEF VdsInv, ListsSound, Sector
<1>18. StageSound'
  BY <1>1, <1>8, <1>15 DEF VdsInv, StageSound, Booting, Writing, Making, Dropping, Collecting
<1>19. CallSound' /\ ScanSound' /\ MapSound' /\ PositionsSound' /\ NewSound' /\ CopySound'
  <2>1. \A s \in Range(part'.free) : s \in Sector /\ pos'[s] = -1
    <3>1. \A s \in Range(part.free) : s \in Sector /\ pos[s] = -1
      BY <1>1, <1>14, ListFacts, SeqFacts
    <3> QED
      BY <1>12, <1>14, <1>15, <3>1
  <2> QED
    BY <1>1, <2>1, BootRest
<1> QED
  BY <1>9, <1>11, <1>13, <1>16, <1>17, <1>18, <1>19 DEF VdsInv

\* The erase of a start-up ends.
LEMMA BootErasedInv ==
  ASSUME VdsInv, BootErased
  PROVE  VdsInv'
<1>1. /\ pc \in {"BootErasing", "FillErasing"} /\ pc \in Booting /\ pc # "off"
      /\ pc' = (IF pc = "BootErasing" THEN "BootSetRemain" ELSE "BootFormat") /\ pc' \in Booting
      /\ UNCHANGED call /\ UNCHANGED part /\ UNCHANGED pos /\ UNCHANGED mt
      /\ part.remain \in Sector
  BY ListFacts DEF BootErased, Goto, Booting, ram, VdsInv, StageSound
<1>2. PICK s \in Sector :
        /\ s = Target
        /\ pc = "BootErasing" => s = part.remain /\ ~Counted(s) /\ s \notin Range(part.unformat)
        /\ pc = "FillErasing" =>
             /\ s = Last(part.unformat) /\ s # part.remain /\ s \in Range(part.unformat)
             /\ part.unformat # <<>> /\ ~HasData /\ Has("remain")
        /\ hdr[s] \notin {"dirty", "current", "gcing", "remain"}
  <2>1. CASE pc = "BootErasing"
    <3>1. ~Counted(part.remain) /\ hdr[part.remain] # "remain"
      BY <1>1, <2>1 DEF VdsInv, ListsSound
    <3>2. part.remain \notin Range(part.unformat)
      BY <1>1, ListFacts DEF Roles
    <3> QED
      BY <1>1, <2>1, <3>1, <3>2 DEF Target, Counted
  <2>2. CASE pc = "FillErasing"
    <3>1. part.unformat # <<>> /\ (HasData \/ Has("remain"))
      BY <1>1, <2>2, SectorFacts DEF VdsInv, StageSound
    <3>2. ~HasData /\ Last(part.unformat) \in Sector /\ Last(part.unformat) \in Range(part.unformat)
          /\ Last(part.unformat) # part.remain
      BY <1>1, <3>1, Unformatted, SectorFacts
    <3>3. hdr[Last(part.unformat)] # "remain"
      BY <1>1, <3>2 DEF VdsInv, ListsSound
    <3> QED
      BY <2>2, <3>1, <3>2, <3>3 DEF Target, HasData
  <2> QED
    BY <1>1, <2>1, <2>2
<1>3. /\ pb' = [pb EXCEPT ![s] = [i \in Slot |-> Fresh]] /\ hdr' = [hdr EXCEPT ![s] = "blank"]
  BY <1>2 DEF BootErased, Erased
<1>4. /\ TypeOK /\ HeaderSet(s, "blank") /\ hdr' \in [Sector -> Status]
      /\ SectorSet(s, Fresh) /\ pb' \in [Sector -> [Slot -> SlotType]]
  <2>1. Fresh \in SlotType
    BY SlotFacts DEF VdsInv
  <2> QED
    BY <1>3, <2>1, SetHeader, SetSector DEF VdsInv, Status
<1>5. SlotsSound' /\ CopiesSound'
  BY <1>2, <1>4, SectorSound DEF VdsInv
<1>6. \A u \in Sector : hdr'[u] = IF u = s THEN "blank" ELSE hdr[u]
  BY <1>4 DEF HeaderSet
<1>7. \A q \in Place : At(q)' = IF q[1] = s THEN Fresh ELSE At(q)
  BY <1>4 DEF SectorSet
<1>8. /\ HasData' <=> HasData
      /\ (Has("remain")' <=> Has("remain")) /\ (Has("gcing")' <=> Has("gcing"))
      /\ (Has("current")' <=> Has("current"))
      /\ \A u \in Sector : Counted(u)' <=> Counted(u) /\ u # s
  BY <1>2, <1>6 DEF HasData, Has, Sector, Counted
<1>9. HeadersSound'
  <2>1. \A t, u \in Sector : hdr'[t] = hdr'[u] /\ hdr'[t] \in {"remain", "current", "gcing"} => t = u
    BY <1>6 DEF VdsInv, HeadersSound
  <2>2. \A u \in Sector : hdr'[u] \in {"temp", "erasing"} => HasData
    BY <1>6 DEF VdsInv, HeadersSound
  <2>3. HasData => ~Counted(s)
    BY <1>1, <1>2
  <2>4. HasData => \A t, u \in Sector : ~Counted(t)' /\ ~Counted(u)' => t = u
    BY <1>8, <2>3 DEF VdsInv, HeadersSound
  <2>5. HasData \/ Has("remain") \/ \A u \in Sector : hdr'[u] = "blank"
    BY <1>6 DEF VdsInv, HeadersSound
  <2>6. ~(Has("gcing") /\ Has("current"))
    <3>1. Has("gcing") => HasData
      BY DEF Has, HasData
    <3> QED
      BY <2>3, <3>1, <1>2 DEF VdsInv, HeadersSound
  <2> QED
    BY <1>8, <2>1, <2>2, <2>4, <2>5, <2>6 DEF HeadersSound, Sector
<1>10. TypeOK'
  BY <1>1, <1>4 DEF VdsInv, TypeOK, Status, SlotType, Place, Sector, Slot
<1>11. PartSound'
  BY <1>1 DEF VdsInv, PartSound, Partition, Roles, Sector
<1>12. /\ \A u \in Sector : u # s => (AllFresh(u)' <=> AllFresh(u))
       /\ AllFresh(s)'
  BY <1>7, PlaceFacts DEF AllFresh, Slot, Fresh
<1>13. s \notin Range(part.free)
  <2>1. PICK role \in [Sector -> Role] : Roles(part, role)
    BY <1>1, ListFacts
  <2> QED
    BY <1>1, <1>2, <2>1 DEF Roles
<1>14. ListsSound'
  <2>1. ASSUME NEW u \in Sector
        PROVE  /\ u \in Range(part.dirty) <=> hdr'[u] = "dirty"
               /\ u = part.current <=> hdr'[u] = "current"
               /\ u \in Range(part.free) => hdr'[u] = "free"
               /\ u = part.temp => hdr'[u] = "temp"
               /\ u = part.gcing <=> hdr'[u] = "gcing"
    <3>1. part.temp = None /\ (u = part.gcing <=> hdr[u] = "gcing") /\ u # None
      BY <1>1, BootFacts, SectorFacts
    <3> QED
      BY <1>1, <1>2, <1>6, <1>13, <3>1, ListFacts
  <2>2. \A u \in Sector : u \in Range(part.unformat) =>
          hdr'[u] # "remain" /\ (Counted(u)' => ~HasData')
    BY <1>1, <1>6, <1>8 DEF VdsInv, ListsSound
  <2>5. PICK r \in Sector : r = part.remain /\ r = part'.remain
    BY <1>1
  <2>3. CASE pc = "BootErasing"
    <3>1. hdr'[r] = "blank" /\ AllFresh(r)'
      BY <1>2, <1>6, <1>12, <2>3, <2>5
    <3> QED
      BY <1>1, <2>1, <2>2, <2>3, <2>5, <3>1 DEF ListsSound, Sector
  <2>4. CASE pc = "FillErasing"
    <3>1. hdr[r] \in {"remain", "blank"} /\ AllFresh(r)
      BY <1>1, <2>4, <2>5 DEF VdsInv, ListsSound
    <3>2. hdr'[r] \in {"remain", "blank"} /\ AllFresh(r)'
      BY <1>2, <1>6, <1>12, <2>4, <2>5, <3>1
    <3> QED
      BY <1>1, <2>1, <2>2, <2>4, <2>5, <3>2 DEF ListsSound, Sector
  <2> QED
    BY <1>1, <2>3, <2>4
<1>15. StageSound'
  BY <1>1, <1>2, <1>6, <1>8, <1>12 DEF VdsInv, StageSound, Booting, Writing, Making, Dropping, Collecting
<1>16. CallSound' /\ ScanSound' /\ MapSound' /\ PositionsSound' /\ NewSound' /\ CopySound'
  <2>1. \A u \in Range(part'.free) : pos'[u] = -1
    BY <1>1 DEF VdsInv, PositionsSound
  <2> QED
    BY <1>1, <2>1, BootRest
<1> QED
  BY <1>5, <1>9, <1>10, <1>11, <1>14, <1>15, <1>16 DEF VdsInv

\* The erase of a sector that holds no copy begins.
LEMMA EraseBeginInv ==
  ASSUME VdsInv, EraseBegin
  PROVE  VdsInv'
<1>1. /\ \/ pc = "GcErase" /\ pc' = "GcErasing"
         \/ pc = "BootRemain" /\ pc' = "BootErasing"
         \/ pc = "BootFill" /\ pc' = "FillErasing" /\ RefCount(part) < NrSect
      /\ pc # "off"
      /\ UNCHANGED call /\ UNCHANGED ret /\ UNCHANGED part /\ UNCHANGED pos /\ UNCHANGED mt
      /\ UNCHANGED hdr
  BY DEF EraseBegin, Goto, Erasing, ram
<1>2. /\ part.gcing \in Sector \cup {None} /\ part.remain \in Sector \cup {None} /\ part \in Partition
      /\ pc # "GcErase" => part.remain # None /\ pc \in Booting /\ pc' \in Booting
      /\ pc = "GcErase" => part.gcing # None
  BY <1>1, ListFacts DEF VdsInv, StageSound, Booting, Dropping
<1>3. PICK s \in Sector :
        /\ s = Target
        /\ hdr[s] \notin {"dirty", "current", "gcing", "remain"}
        /\ pc = "GcErase" => s = part.gcing /\ hdr[s] = "erasing"
        /\ pc = "BootRemain" => s = part.remain
        /\ pc = "BootFill" => s # part.remain /\ part.unformat # <<>>
  <2>1. CASE pc = "GcErase"
    <3>1. hdr[part.gcing] = "erasing"
      BY <1>1, <1>2, <2>1 DEF VdsInv, ListsSound
    <3> QED
      BY <1>2, <2>1, <3>1 DEF Target
  <2>2. CASE pc = "BootRemain"
    <3>1. ~Counted(part.remain) /\ hdr[part.remain] # "remain"
      BY <1>1, <1>2, <2>2 DEF VdsInv, ListsSound
    <3> QED
      BY <1>2, <2>2, <3>1 DEF Target, Counted
  <2>3. CASE pc = "BootFill"
    <3>1. part.unformat # <<>>
      <4> DEFINE a == RefCount(part)  c == Len(part.unformat)
      <4>1. /\ a \in Nat /\ c \in Nat /\ a + 1 + c = NrSect + 1 /\ a < NrSect
            /\ part.unformat = <<>> <=> c = 0
        BY <1>1, <1>2, <2>3, BootFacts
      <4> HIDE DEF a, c
      <4>2. c # 0
        BY <4>1, SectorFacts
      <4> QED
        BY <4>1, <4>2
    <3>2. ~HasData /\ Last(part.unformat) \in Sector /\ Last(part.unformat) \in Range(part.unformat)
          /\ Last(part.unformat) # part.remain
      BY <1>2, <2>3, <3>1, Unformatted
    <3>3. hdr[Last(part.unformat)] # "remain"
      BY <1>1, <3>2 DEF VdsInv, ListsSound
    <3> QED
      BY <2>3, <3>1, <3>2, <3>3 DEF Target, HasData
  <2> QED
    BY <1>1, <2>1, <2>2, <2>3
<1>4. pb' = [pb EXCEPT ![s] = [i \in Slot |-> Dead]]
  BY <1>3 DEF EraseBegin
<1>5. TypeOK /\ SectorSet(s, Dead) /\ pb' \in [Sector -> [Slot -> SlotType]]
  <2>1. Dead \in SlotType
    BY SlotFacts DEF VdsInv
  <2> QED
    BY <1>4, <2>1, SetSector DEF VdsInv
<1>6. HeadersStay
  BY <1>1 DEF HeadersStay
<1>7. SlotsSound' /\ CopiesSound' /\ CopiesStay
  BY <1>3, <1>5, <1>6, SectorSound DEF VdsInv
<1>8. /\ HeadersSound' /\ (HasData' <=> HasData) /\ (\A st : Has(st)' <=> Has(st))
      /\ \A q \in Place : Live(q)' <=> Live(q)
  BY <1>6, HeadersStaySound DEF VdsInv
<1>9. \A q \in Place : At(q)' = IF q[1] = s THEN Dead ELSE At(q)
  BY <1>5 DEF SectorSet
<1>10. TypeOK'
  BY <1>1, <1>5 DEF VdsInv, TypeOK, Status, SlotType, Place, Sector, Slot
<1>11. PartSound'
  BY <1>1 DEF VdsInv, PartSound, Partition, Roles, Sector
<1>12. \A u \in Sector : u # s => (AllFresh(u)' <=> AllFresh(u))
  BY <1>9, PlaceFacts DEF AllFresh, Slot, Fresh
<1>13. \A u \in Sector : Counted(u)' <=> Counted(u)
  BY <1>1 DEF Counted
<1>14. ListsSound'
  <2>1. ASSUME NEW u \in Sector
        PROVE  /\ u \in Range(part.dirty) <=> hdr[u] = "dirty"
               /\ u = part.current <=> hdr[u] = "current"
               /\ u \in Range(part.free) => hdr[u] = "free"
               /\ u = part.temp => hdr[u] = "temp"
               /\ u = part.gcing <=> hdr[u] = IF pc' = "GcErasing" THEN "erasing" ELSE "gcing"
               /\ u \in Range(part.unformat) => hdr[u] # "remain" /\ (Counted(u) => ~HasData)
    BY <1>1 DEF VdsInv, ListsSound
  <2>2. CASE pc = "GcErase"
    <3>1. part.remain = None
      BY <2>2 DEF VdsInv, StageSound, Dropping
    <3> QED
      BY <1>1, <1>8, <1>13, <2>1, <2>2, <3>1, SectorFacts DEF ListsSound, Sector
  <2>3. PICK r : r = part.remain /\ r = part'.remain
    BY <1>1
  <2>4. CASE pc = "BootRemain"
    <3>1. r \in Sector => ~Counted(r) /\ hdr[r] # "remain"
      BY <1>1, <2>3, <2>4 DEF VdsInv, ListsSound
    <3> QED
      BY <1>1, <1>8, <1>13, <2>1, <2>3, <2>4, <3>1 DEF ListsSound, Sector
  <2>5. CASE pc = "BootFill"
    <3>1. r \in Sector => hdr[r] \in {"remain", "blank"} /\ AllFresh(r)
      BY <1>1, <2>3, <2>5 DEF VdsInv, ListsSound
    <3>2. r \in Sector => hdr[r] \in {"remain", "blank"} /\ AllFresh(r)'
      BY <1>3, <1>12, <2>3, <2>5, <3>1
    <3> QED
      BY <1>1, <1>8, <1>13, <2>1, <2>3, <2>5, <3>2 DEF ListsSound, Sector
  <2> QED
    BY <1>1, <2>2, <2>4, <2>5
<1>15. StageSound'
  BY <1>1, <1>3, <1>8 DEF VdsInv, StageSound, Booting, Writing, Making, Dropping, Collecting
<1>16. CASE pc # "GcErase"
  <2>1. \A u \in Range(part'.free) : pos'[u] = -1
    BY <1>1 DEF VdsInv, PositionsSound
  <2>2. CallSound' /\ ScanSound' /\ MapSound' /\ PositionsSound' /\ NewSound' /\ CopySound'
    BY <1>1, <1>2, <1>16, <2>1, BootRest
  <2> QED
    BY <1>7, <1>8, <1>10, <1>11, <1>14, <1>15, <2>2 DEF VdsInv
<1>17. CASE pc = "GcErase"
  <2>1. pc = "GcErase" /\ pc' = "GcErasing"
    BY <1>1, <1>17
  <2>2. \A q \in Place : Live(q) => At(q)' = At(q) /\ q[1] # s
    BY <1>3, <1>9 DEF Live
  <2>3. \A q \in Place : Torn(q)' <=> Torn(q)
    BY <1>8, <2>2 DEF Torn
  <2>4. \A q \in Place : Settled(q)' => Settled(q)
    BY <1>1, <1>8, <2>1 DEF Settled, Writing, Collecting, Making, Dropping
  <2>5. MapSound'
    <3>1. \A b \in Block : mt[b] # None => mt[b] \in Copies(b)
      BY DEF VdsInv, MapSound
    <3>2. \A q \in Place : Settled(q)' =>
            (\A b \in Block : q \in Copies(b) => mt[b] = q) /\ ~Torn(q)
      BY <2>1, <2>4 DEF VdsInv, MapSound
    <3>3. ret = "BootClean" => \A b \in Block : mt[b] = None
      BY <2>1 DEF VdsInv, MapSound, Collecting, Dropping
    <3> QED
      BY <1>1, <1>7, <2>1, <2>3, <3>1, <3>2, <3>3 DEF MapSound, CopiesStay, Booting, Place, Sector, Slot
  <2>6. CallSound' /\ ScanSound' /\ NewSound' /\ CopySound'
    BY <1>1, <2>1 DEF VdsInv, CallSound, ScanSound, NewSound, CopySound, Writing, Collecting, Making, Dropping
  <2>7. PICK c \in Sector : c = part.current /\ c = part'.current /\ hdr[c] = "current" /\ c # s
    <3>1. part.current # None
      BY <2>1 DEF VdsInv, StageSound, Dropping
    <3> QED
      BY <1>1, <1>3, <3>1, ListFacts
  <2>8. \A i \in Slot : At(<<c, i>>)' = At(<<c, i>>) /\ (Clear(<<c, i>>)' <=> Clear(<<c, i>>))
    <3>1. \A i \in Slot : At(<<c, i>>)' = At(<<c, i>>)
      BY <1>9, <2>7, PlaceFacts
    <3> QED
      BY <3>1 DEF Clear, Fresh, Dead
  <2>9. PositionsSound'
    <3>1. Positioned' <=> Positioned
      BY <1>1, <2>1 DEF Positioned, Writing, Dropping
    <3>2. \A u \in Range(part'.free) : pos'[u] = -1
      BY <1>1 DEF VdsInv, PositionsSound
    <3>3. Positioned => \A i \in Slot : LET at == pos[c]
                                            p == <<c, i>>
             IN  /\ i > at => Clear(p)
                 /\ i < at \/ i = at => At(p).st # "free"
      BY <2>1, <2>7 DEF VdsInv, PositionsSound
    <3>4. ret = "Status" => pos[c] + 1 < NrPb
      BY <2>1, <2>7 DEF VdsInv, PositionsSound, Dropping
    <3> QED
      BY <1>1, <2>1, <2>7, <2>8, <3>1, <3>2, <3>3, <3>4 DEF PositionsSound, Writing, Dropping, Slot
  <2> QED
    BY <1>7, <1>8, <1>10, <1>11, <1>14, <1>15, <2>5, <2>6, <2>9 DEF VdsInv
<1> QED
  BY <1>16, <1>17

-----------------------------------------------------------------------------
(* The collection: the victim, the copy, the erase. *)

\* With no sector free, the dirty ones have room for more than the blocks: one of them has
\* a slot without a valid copy.
LEMMA SomethingToCollect ==
  ASSUME VdsInv, pc = "GcPick", part.gcing = None
  PROVE  /\ Emptiest(part.dirty) # {}
         /\ Victim \in 1..Len(part.dirty)
         /\ \E i \in Slot : pb[Pick][i].st # "valid"
<1>1. /\ pc # "off" /\ part.dirty \in Seq(Sector) /\ IsInjective(part.dirty) /\ part \in Partition
      /\ part.current = None /\ part.temp = None /\ part.remain # None
      /\ part.free = <<>> /\ part.unformat = <<>>
      /\ IsInjective(part.free) /\ IsInjective(part.unformat)
  BY ListFacts DEF VdsInv, StageSound, Booting, Making
<1>2. Len(part.dirty) = NrSect
  <2>1. PICK role \in [Sector -> Role] : Roles(part, role)
    BY <1>1, ListFacts
  <2>2. /\ RefCount(part) + Len(One(part.temp)) + Len(One(part.remain)) + Len(part.unformat) = NrSect + 1
        /\ \A s : Len(One(s)) = IF s = None THEN 0 ELSE 1
        /\ Len(part.dirty) \in Nat
    BY <1>1, <2>1, SectorsCounted
  <2>3. RefCount(part) = Len(part.dirty) + 0 + 0 + 0
    BY <1>1, <2>2, EmptySeqFacts DEF RefCount
  <2>4. Len(One(part.temp)) = 0 /\ Len(One(part.remain)) = 1 /\ Len(part.unformat) = 0
    BY <1>1, <2>2, EmptySeqFacts
  <2>5. Len(part.dirty) + 1 = NrSect + 1
    <3> DEFINE n == Len(part.dirty)
    <3>1. n \in Nat /\ (n + 0 + 0 + 0) + 0 + 1 + 0 = NrSect + 1
      BY <2>2, <2>3, <2>4
    <3> HIDE DEF n
    <3>2. n + 1 = NrSect + 1
      BY <3>1, SectorFacts
    <3> QED
      BY <3>2 DEF n
  <2> DEFINE n == Len(part.dirty)
  <2>6. n \in Nat /\ n + 1 = NrSect + 1
    BY <2>2, <2>5
  <2> HIDE DEF n
  <2>7. n = NrSect
    BY <2>6, SectorFacts
  <2> QED
    BY <2>7 DEF n
<1> DEFINE d == part.dirty
           at(q) == At(<<d[q[1]], q[2]>>)
<1>3. \A k \in 1..NrSect : d[k] \in Sector /\ d[k] \in Range(d) /\ hdr[d[k]] = "dirty"
  <2>1. \A k \in 1..NrSect : d[k] \in Sector /\ d[k] \in Range(d)
    BY <1>1, <1>2, SeqFacts
  <2> QED
    BY <1>1, <2>1, ListFacts
<1>4. \E k \in 1..NrSect : \E i \in Slot : pb[d[k]][i].st # "valid"
  <2> SUFFICES ASSUME \A k \in 1..NrSect : \A i \in Slot : pb[d[k]][i].st = "valid" PROVE FALSE
    OBVIOUS
  <2> DEFINE S == (1..NrSect) \X Slot
             f == [q \in S |-> at(q).vbn]
  <2>1. ASSUME NEW q \in S
        PROVE  /\ <<d[q[1]], q[2]>> \in Copies(at(q).vbn) /\ at(q).vbn \in Block
               /\ hdr[d[q[1]]] = "dirty"
    <3>1. q[1] \in 1..NrSect /\ q[2] \in Slot
      OBVIOUS
    <3>2. PICK p \in Place : p = <<d[q[1]], q[2]>>
      BY <1>3, <3>1, PlaceFacts
    <3>3. hdr[p[1]] = "dirty" /\ At(p).st = "valid"
      BY <1>3, <3>1, <3>2 DEF At
    <3>4. Live(p) /\ ~Torn(p)
      BY <3>3 DEF Live, VdsInv, SlotsSound
    <3>5. At(p).vbn \in Block
      BY <3>3, <3>4, SlotFacts DEF Torn, VdsInv
    <3> QED
      BY <1>3, <3>1, <3>2, <3>3, <3>4, <3>5, CopyFacts
  <2>2. f \in [S -> Block]
    BY <2>1
  <2>3. IsFiniteSet(S) /\ Cardinality(S) = NrSect * NrPb
    <3>1. IsFiniteSet(1..NrSect) /\ Cardinality(1..NrSect) = NrSect
      <4>1. IsFiniteSet(1..NrSect) /\ Cardinality(1..NrSect) = IF 1 > NrSect THEN 0 ELSE NrSect - 1 + 1
        BY SectorFacts, FS_Interval
      <4> QED
        BY <4>1, SectorFacts
    <3> QED
      BY <3>1, SectorFacts, FS_Product
  <2>4. Cardinality(Block) < NrSect * NrPb
    <3> DEFINE m == NrSect * NrPb
    <3>1. m \in Nat /\ Rsv \in 1 .. m - 1 /\ Cardinality(Block) = m - Rsv
      BY VdsConstants
    <3> HIDE DEF m
    <3>2. Cardinality(Block) < m
      BY <3>1
    <3> QED
      BY <3>2 DEF m
  <2>5. PICK x \in S, y \in S : x # y /\ f[x] = f[y]
    <3> HIDE DEF f, S
    <3> QED
      BY <2>2, <2>3, <2>4, VdsConstants, FS_PigeonHole
  <2>6. <<d[x[1]], x[2]>> # <<d[y[1]], y[2]>>
    <3>1. x[1] # y[1] \/ x[2] # y[2]
      BY <2>5
    <3>2. x[1] # y[1] => d[x[1]] # d[y[1]]
      BY <1>1, <1>2, SeqFacts DEF IsInjective
    <3> QED
      BY <3>1, <3>2
  <2>7. at(x).vbn = at(y).vbn
    BY <2>5
  <2> QED
    BY <2>1, <2>6, <2>7 DEF VdsInv, CopiesSound
<1>5. PICK k \in 1..Len(d), i \in Slot : pb[d[k]][i].st # "valid"
  BY <1>2, <1>4
<1> QED
  BY <1>1, <1>5, EmptiestFacts DEF Victim, Pick

\* A dirty sector becomes the one to collect.
LEMMA GcingSound ==
  ASSUME TypeOK, HeadersSound, SlotsSound, CopiesSound, NEW s \in Sector, hdr[s] = "dirty",
         ~Has("current"), ~Has("gcing"), \E i \in Slot : At(<<s, i>>).st # "valid",
         HeaderSet(s, "gcing"), SlotsStay
  PROVE  /\ HeadersSound' /\ SlotsSound' /\ CopiesSound' /\ CopiesStay
         /\ \A p \in Place : ~Torn(p) /\ ~Torn(p)'
<1> USE SlotFacts, PlaceFacts
<1>1. \A u \in Sector : hdr'[u] = IF u = s THEN "gcing" ELSE hdr[u]
  BY DEF HeaderSet
<1>2. \A q : At(q)' = At(q)
  BY DEF SlotsStay
<1>3. \A u \in Sector : hdr[u] # "current" /\ hdr[u] # "gcing" /\ hdr'[u] # "current"
  BY <1>1 DEF Has
<1>4. \A q \in Place : Live(q)' <=> Live(q)
  BY <1>1 DEF Live
<1>5. \A p \in Place : ~Torn(p) /\ ~Torn(p)'
  BY <1>2, <1>3, <1>4 DEF SlotsSound, Torn
<1>6. ~Has("current")' /\ Has("gcing")'
  BY <1>1, <1>3 DEF Has, Sector
<1>7. CopiesStay
  <2> SUFFICES ASSUME NEW b, NEW q PROVE q \in Copies(b)' <=> q \in Copies(b)
    BY DEF CopiesStay
  <2> QED
    BY <1>2, <1>4, CopyFacts, CopyFactsPrime
<1>8. HeadersSound'
  <2>1. HasData' /\ HasData
    BY <1>1 DEF HasData, Sector
  <2>2. \A u \in Sector : Counted(u)' <=> Counted(u)
    BY <1>1 DEF Counted
  <2>3. ~\A u \in Sector : Counted(u)'
    BY <2>2 DEF HeadersSound
  <2>4. \A t, u \in Sector : hdr'[t] = hdr'[u] /\ hdr'[t] \in {"remain", "current", "gcing"} => t = u
    BY <1>1, <1>3 DEF HeadersSound
  <2> QED
    BY <1>6, <2>1, <2>2, <2>3, <2>4 DEF HeadersSound, Sector
<1>9. SlotsSound'
  <2>1. \A q \in Place : /\ hdr'[q[1]] = "remain" => At(q)' = Fresh
                         /\ hdr'[q[1]] = "free" => Clear(q)'
                         /\ Live(q)' => Clear(q)' \/ At(q)'.st = "valid"
    BY <1>1, <1>2, <1>4 DEF SlotsSound, Clear
  <2>2. \A u \in Sector : hdr'[u] \in {"dirty", "current"} => \A i, j \in Slot :
          i < j /\ At(<<u, i>>)'.st = "free" => At(<<u, j>>)'.st # "valid"
    BY <1>1, <1>2 DEF SlotsSound
  <2>3. \A u \in Sector : hdr'[u] = "gcing" => \E i \in Slot : At(<<u, i>>)'.st # "valid"
    <3> SUFFICES ASSUME NEW u \in Sector, hdr'[u] = "gcing"
                 PROVE  \E i \in Slot : At(<<u, i>>)'.st # "valid"
      OBVIOUS
    <3>1. u = s
      BY <1>1, <1>3
    <3>2. PICK i \in Slot : At(<<s, i>>).st # "valid"
      OBVIOUS
    <3> QED
      BY <1>2, <3>1, <3>2
  <2> QED
    BY <1>5, <2>1, <2>2, <2>3 DEF SlotsSound, Place, Sector, Slot
<1>10. CopiesSound'
  <2>1. \A b \in Block : \A p, q \in Copies(b) : p = q
    <3>1. \A b \in Block : \A p, q \in Copies(b) : p # q => "current" \in {hdr[p[1]], hdr[q[1]]}
      BY DEF CopiesSound
    <3> QED
      BY <1>3, <3>1, CopyFacts
  <2>2. \A b \in Block : \A q : q \in Copies(b)' <=> q \in Copies(b)
    BY <1>7 DEF CopiesStay
  <2> QED
    BY <1>6, <2>1, <2>2 DEF CopiesSound
<1> QED
  BY <1>5, <1>7, <1>8, <1>9, <1>10

\* A collection chooses its victim (vds_GetGcingSector).
LEMMA GcPickInv ==
  ASSUME VdsInv, GcPick
  PROVE  VdsInv'
<1>1. /\ pc = "GcPick" /\ pc # "off" /\ part.current = None /\ part.temp = None /\ part.remain # None
      /\ part.unformat = <<>> /\ part \in Partition
      /\ UNCHANGED pb /\ UNCHANGED mt /\ UNCHANGED pos
  BY ListFacts DEF GcPick, GcFails, flash, ram, VdsInv, StageSound, Booting, Making
<1>2. \A q \in Place : ~Torn(q)
  <2>1. \A u \in Sector : hdr[u] # "current"
    BY <1>1, ListFacts, SectorFacts
  <2> QED
    BY <2>1, PlaceFacts DEF VdsInv, SlotsSound
<1>3. CASE part.gcing # None
  <2>1. pc' = "GcTemp" /\ UNCHANGED <<flash, part, ret, call>>
    BY <1>3 DEF GcPick, Goto, ram
  <2>2. /\ HeadersSound' /\ SlotsSound' /\ CopiesSound' /\ CopiesStay
        /\ \A p : At(p)' = At(p) /\ (Live(p)' <=> Live(p)) /\ (Torn(p)' <=> Torn(p))
        /\ hdr' = hdr
    BY <2>1, FlashStays DEF VdsInv, flash
  <2>3. TypeOK'
    BY <1>1, <2>1 DEF VdsInv, TypeOK, flash, Place, Sector, Slot
  <2>4. PartSound' /\ ListsSound'
    <3>1. \A u : AllFresh(u)' <=> AllFresh(u)
      BY <2>2 DEF AllFresh, Slot, Fresh
    <3> QED
      BY <1>1, <2>1, <2>2, <3>1 DEF VdsInv, PartSound, ListsSound, Roles, Partition, Sector, Counted, HasData
  <2>5. StageSound'
    BY <1>1, <1>3, <2>1 DEF StageSound, Booting, Writing, Making, Dropping, Collecting
  <2>6. CallSound' /\ ScanSound' /\ NewSound' /\ CopySound' /\ PositionsSound'
    BY <1>1, <2>1 DEF VdsInv, CallSound, ScanSound, NewSound, CopySound, PositionsSound, Positioned, Writing, Collecting, Making, Dropping
  <2>7. MapSound'
    <3>1. \A q \in Place : Settled(q)' => Settled(q)
      BY <1>1, <2>1, <2>2 DEF Settled, Writing, Collecting, Making, Dropping
    <3>2. \A b \in Block : mt[b] # None => mt[b] \in Copies(b)
      BY DEF VdsInv, MapSound
    <3>3. \A q \in Place : Settled(q) => \A b \in Block : q \in Copies(b) => mt[b] = q
      BY <1>1 DEF VdsInv, MapSound
    <3>4. ret # "BootClean"
      BY <1>1 DEF VdsInv, CallSound, Collecting
    <3> QED
      BY <1>1, <1>2, <2>1, <2>2, <3>1, <3>2, <3>3, <3>4 DEF MapSound, CopiesStay, Booting, Place, Sector, Slot
  <2> QED
    BY <2>2, <2>3, <2>4, <2>5, <2>6, <2>7 DEF VdsInv
<1>4. CASE part.gcing = None
  <2>1. /\ Emptiest(part.dirty) # {} /\ Victim \in 1..Len(part.dirty)
        /\ \E i \in Slot : pb[Pick][i].st # "valid"
    BY <1>1, <1>4, SomethingToCollect
  <2>2. PICK s \in Sector : /\ s = Pick
                            /\ RemoveAt(part.dirty, Victim) \in Seq(Sector)
                            /\ IsInjective(RemoveAt(part.dirty, Victim))
                            /\ s \notin Range(RemoveAt(part.dirty, Victim))
                            /\ Range(part.dirty) = Range(RemoveAt(part.dirty, Victim)) \cup {s}
    <3>1. part.dirty \in Seq(Sector) /\ IsInjective(part.dirty)
      BY <1>1, ListFacts
    <3>2. Pick \in Sector
      BY <2>1, <3>1, SeqFacts DEF Pick
    <3> QED
      BY <2>1, <3>1, <3>2, RemoveAtFacts, RemoveAtRange DEF Pick
  <2> DEFINE d == RemoveAt(part.dirty, Victim)
  <2>3. /\ hdr' = [hdr EXCEPT ![s] = "gcing"]
        /\ part' = [part EXCEPT !.dirty = d, !.gcing = s]
        /\ pc' = "GcTemp" /\ UNCHANGED ret /\ UNCHANGED call
    BY <1>4, <2>1, <2>2 DEF GcPick, Goto
  <2> HIDE DEF d
  <2>4. /\ d \in Seq(Sector) /\ IsInjective(d) /\ s \notin Range(d)
        /\ Range(part.dirty) = Range(d) \cup {s}
    BY <2>2 DEF d
  <2>5. TypeOK /\ HeaderSet(s, "gcing") /\ hdr' \in [Sector -> Status] /\ SlotsStay
    BY <1>1, <2>3, SetHeader DEF VdsInv, Status, SlotsStay, At
  <2>6. hdr[s] = "dirty" /\ ~Has("current") /\ ~Has("gcing")
    <3>1. \A u \in Sector : u = part.gcing <=> hdr[u] = "gcing"
      BY <1>1 DEF VdsInv, ListsSound
    <3> QED
      BY <1>1, <1>4, <2>4, <3>1, ListFacts, SectorFacts DEF Has
  <2>7. /\ HeadersSound' /\ SlotsSound' /\ CopiesSound' /\ CopiesStay
        /\ \A p \in Place : ~Torn(p) /\ ~Torn(p)'
    <3>1. \E i \in Slot : At(<<s, i>>).st # "valid"
      BY <2>1, <2>2, PlaceFacts DEF At
    <3> QED
      BY <2>5, <2>6, <3>1, GcingSound DEF VdsInv
  <2>8. TypeOK'
    BY <1>1, <2>3, <2>5 DEF VdsInv, TypeOK, Status, Place, Sector, Slot
  <2>9. /\ part'.dirty = d /\ part'.free = part.free /\ part'.current = None
        /\ part'.gcing = s /\ part'.temp = None /\ part'.remain = part.remain
        /\ part'.unformat = <<>> /\ part' \in Partition
    BY <1>1, <2>3, <2>4 DEF Partition
  <2>10. PartSound'
    <3>1. PICK role \in [Sector -> Role] : Roles(part, role)
      BY <1>1, ListFacts
    <3> DEFINE role1 == [role EXCEPT ![s] = "gcing"]
    <3>2. role1 \in [Sector -> Role] /\ \A u \in Sector : role1[u] = IF u = s THEN "gcing" ELSE role[u]
      BY DEF Role
    <3> HIDE DEF role1
    <3>3. Roles(part', role1)
      BY <1>1, <1>4, <2>4, <2>9, <3>1, <3>2, SectorFacts DEF Roles
    <3> QED
      BY <1>1, <2>4, <2>9, <3>2, <3>3, ListFacts DEF PartSound, Partition, Sector
  <2>11. ListsSound'
    <3>1. \A u : AllFresh(u)' <=> AllFresh(u)
      BY <2>5 DEF SlotsStay, AllFresh, Slot, Fresh
    <3> QED
      BY <1>1, <1>4, <2>3, <2>4, <2>5, <2>6, <2>9, <3>1, EmptySeqFacts, SectorFacts DEF ListsSound, VdsInv, HeaderSet, Sector
  <2>12. StageSound'
    BY <1>1, <2>3, <2>9, SectorFacts DEF StageSound, Booting, Writing, Making, Dropping, Collecting
  <2>13. CallSound' /\ ScanSound' /\ NewSound' /\ CopySound' /\ PositionsSound'
    BY <1>1, <2>3, <2>9 DEF VdsInv, CallSound, ScanSound, NewSound, CopySound, PositionsSound, Positioned, Writing, Collecting, Making, Dropping
  <2>14. MapSound'
    <3>1. \A q \in Place : Settled(q)' => Settled(q)
      BY <1>1, <2>3, <2>5, PlaceFacts DEF Settled, Writing, Collecting, Making, Dropping, HeaderSet, Live
    <3>2. \A b \in Block : mt[b] # None => mt[b] \in Copies(b)
      BY DEF VdsInv, MapSound
    <3>3. \A q \in Place : Settled(q) => \A b \in Block : q \in Copies(b) => mt[b] = q
      BY <1>1 DEF VdsInv, MapSound
    <3>4. ret # "BootClean"
      BY <1>1 DEF VdsInv, CallSound, Collecting
    <3> QED
      BY <1>1, <2>3, <2>7, <3>1, <3>2, <3>3, <3>4 DEF MapSound, CopiesStay, Booting, Place, Sector, Slot
  <2> QED
    BY <2>7, <2>8, <2>10, <2>11, <2>12, <2>13, <2>14 DEF VdsInv
<1> QED
  BY <1>3, <1>4

\* A collection takes the remain sector (vds_GetRemainSector).
LEMMA GcTempInv ==
  ASSUME VdsInv, GcTemp
  PROVE  VdsInv'
<1>1. /\ pc = "GcTemp" /\ pc # "off" /\ part.current = None /\ part.temp = None /\ part.remain # None
      /\ part.gcing # None /\ part.unformat = <<>> /\ part \in Partition
  BY ListFacts DEF GcTemp, VdsInv, StageSound, Booting, Making
<1>2. PICK r \in Sector : r = part.remain
  BY <1>1, ListFacts
<1>3. /\ hdr' = [hdr EXCEPT ![r] = "temp"]
      /\ part' = [part EXCEPT !.temp = r, !.remain = None]
      /\ pc' = "GcPbd" /\ UNCHANGED ret /\ UNCHANGED call
      /\ UNCHANGED pb /\ UNCHANGED mt /\ UNCHANGED pos
  BY <1>1, <1>2 DEF GcTemp, Goto
<1>4. hdr[r] \in {"remain", "blank"} /\ AllFresh(r)
  BY <1>1, <1>2 DEF VdsInv, ListsSound
<1>5. PICK g \in Sector : g = part.gcing /\ hdr[g] = "gcing"
  BY <1>1, ListFacts DEF VdsInv, ListsSound
<1>6. TypeOK /\ HeaderSet(r, "temp") /\ hdr' \in [Sector -> Status] /\ SlotsStay
  BY <1>3, SetHeader DEF VdsInv, Status, SlotsStay, At
<1>7. \A u \in Sector : hdr'[u] = IF u = r THEN "temp" ELSE hdr[u]
  BY <1>6 DEF HeaderSet
<1>8. \A q : At(q)' = At(q)
  BY <1>6 DEF SlotsStay
<1>9. /\ HasData /\ HasData'
      /\ (Has("gcing")' <=> Has("gcing")) /\ (Has("current")' <=> Has("current"))
      /\ \A u \in Sector : (Counted(u)' <=> Counted(u))
      /\ \A q \in Place : (Live(q)' <=> Live(q))
  BY <1>4, <1>5, <1>7, PlaceFacts DEF HasData, Has, Sector, Counted, Live
<1>10. HeadersSound'
  <2>1. \A t, u \in Sector : hdr'[t] = hdr'[u] /\ hdr'[t] \in {"remain", "current", "gcing"} => t = u
    BY <1>7 DEF VdsInv, HeadersSound
  <2> QED
    BY <1>9, <2>1 DEF VdsInv, HeadersSound, Sector
<1>11. \A q \in Place : Torn(q)' <=> Torn(q)
  BY <1>8, <1>9 DEF Torn
<1>12. CopiesStay
  <2> SUFFICES ASSUME NEW b, NEW q PROVE q \in Copies(b)' <=> q \in Copies(b)
    BY DEF CopiesStay
  <2> QED
    BY <1>8, <1>9, CopyFacts, CopyFactsPrime
<1>13. SlotsSound'
  <2>1. \A q \in Place : Torn(q) => hdr[q[1]] = "current"
    BY DEF VdsInv, SlotsSound
  <2>2. \A q \in Place : /\ hdr'[q[1]] = "remain" => At(q)' = Fresh
                         /\ hdr'[q[1]] = "free" => Clear(q)'
                         /\ Live(q)' => Clear(q)' \/ At(q)'.st = "valid"
                         /\ Torn(q)' => hdr'[q[1]] = "current" /\ ~Has("gcing")'
    BY <1>4, <1>7, <1>8, <1>9, <1>11, PlaceFacts DEF VdsInv, SlotsSound, Clear, Fresh, Dead
  <2>3. \A u \in Sector : hdr'[u] \in {"dirty", "current"} => \A i, j \in Slot :
          i < j /\ At(<<u, i>>)'.st = "free" => At(<<u, j>>)'.st # "valid"
    BY <1>7, <1>8 DEF VdsInv, SlotsSound
  <2>4. \A u \in Sector : hdr'[u] = "gcing" => \E i \in Slot : At(<<u, i>>)'.st # "valid"
    BY <1>7, <1>8 DEF VdsInv, SlotsSound
  <2> QED
    BY <2>2, <2>3, <2>4 DEF SlotsSound, Place, Sector, Slot
<1>14. CopiesSound'
  <2>1. \A b \in Block : \A q : q \in Copies(b)' <=> q \in Copies(b)
    BY <1>12 DEF CopiesStay
  <2>2. \A b \in Block : \A q \in Copies(b) : At(q)' = At(q) /\ hdr'[q[1]] = hdr[q[1]]
    BY <1>4, <1>7, <1>8, CopyFacts, PlaceFacts DEF Live
  <2> QED
    BY <1>9, <2>1, <2>2 DEF VdsInv, CopiesSound
<1>15. TypeOK'
  BY <1>3, <1>6 DEF VdsInv, TypeOK, Status, Place, Sector, Slot
<1>16. /\ part'.dirty = part.dirty /\ part'.free = part.free /\ part'.current = None
       /\ part'.gcing = g /\ part'.temp = r /\ part'.remain = None
       /\ part'.unformat = <<>> /\ part' \in Partition
  BY <1>1, <1>3, <1>5 DEF Partition
<1>17. PartSound'
  <2>1. PICK role \in [Sector -> Role] : Roles(part, role)
    BY <1>1, ListFacts
  <2> DEFINE role1 == [role EXCEPT ![r] = "temp"]
  <2>2. role1 \in [Sector -> Role] /\ \A u \in Sector : role1[u] = IF u = r THEN "temp" ELSE role[u]
    BY DEF Role
  <2> HIDE DEF role1
  <2>3. Roles(part', role1)
    BY <1>1, <1>2, <1>5, <1>16, <2>1, <2>2, SectorFacts DEF Roles
  <2> QED
    BY <1>1, <1>16, <2>2, <2>3, ListFacts DEF PartSound, Partition, Sector
<1>18. ListsSound'
  BY <1>1, <1>3, <1>4, <1>5, <1>7, <1>16, EmptySeqFacts, SectorFacts DEF ListsSound, VdsInv, Sector
<1>19. StageSound'
  BY <1>3, <1>5, <1>16, SectorFacts DEF StageSound, Booting, Writing, Making, Dropping, Collecting
<1>20. CallSound' /\ ScanSound' /\ NewSound' /\ PositionsSound'
  BY <1>1, <1>3, <1>16 DEF VdsInv, CallSound, ScanSound, NewSound, PositionsSound, Positioned, Writing, Collecting, Making, Dropping
<1>21. CopySound'
  <2>1. AllFresh(r)'
    BY <1>4, <1>8 DEF AllFresh, Slot, Fresh
  <2> QED
    BY <1>3, <1>16, <2>1 DEF CopySound
<1>22. MapSound'
  <2>1. \A q \in Place : Settled(q)' => Settled(q)
    BY <1>1, <1>3, <1>7, <1>9, PlaceFacts DEF Settled, Writing, Collecting, Making, Dropping, Live
  <2>2. \A b \in Block : mt[b] # None => mt[b] \in Copies(b)
    BY DEF VdsInv, MapSound
  <2>3. \A q \in Place : Settled(q) => (\A b \in Block : q \in Copies(b) => mt[b] = q) /\ ~Torn(q)
    BY <1>1 DEF VdsInv, MapSound
  <2>4. ret # "BootClean"
    BY <1>1 DEF VdsInv, CallSound, Collecting
  <2> QED
    BY <1>3, <1>11, <1>12, <2>1, <2>2, <2>3, <2>4 DEF MapSound, CopiesStay, Booting, Place, Sector, Slot
<1> QED
  BY <1>10, <1>13, <1>14, <1>15, <1>17, <1>18, <1>19, <1>20, <1>21, <1>22 DEF VdsInv

\* The sector a collection fills is not looked at yet.
LEMMA TempSound ==
  ASSUME TypeOK, HeadersSound, SlotsSound, CopiesSound, NEW s \in Sector, hdr[s] = "temp",
         HeadersStay, \A q \in Place : q[1] # s => At(q)' = At(q)
  PROVE  /\ HeadersSound' /\ SlotsSound' /\ CopiesSound' /\ CopiesStay
         /\ \A q \in Place : Torn(q)' <=> Torn(q)
<1> USE HeadersStaySound, SlotFacts, PlaceFacts
<1>1. HeadersSound' /\ (\A st : Has(st)' <=> Has(st)) /\ \A q \in Place : Live(q)' <=> Live(q)
  OBVIOUS
<1>2. \A u \in Sector : hdr'[u] = hdr[u]
  BY DEF HeadersStay
<1>3. \A q \in Place : Live(q) \/ hdr[q[1]] \in {"free", "remain"} => At(q)' = At(q) /\ q[1] # s
  BY DEF Live
<1>4. \A q \in Place : Torn(q)' <=> Torn(q)
  BY <1>1, <1>3 DEF Torn
<1>5. CopiesStay
  <2> SUFFICES ASSUME NEW b, NEW q PROVE q \in Copies(b)' <=> q \in Copies(b)
    BY DEF CopiesStay
  <2> QED
    BY <1>1, <1>3, CopyFacts, CopyFactsPrime
<1>6. SlotsSound'
  <2>1. \A q \in Place : /\ hdr'[q[1]] = "remain" => At(q)' = Fresh
                         /\ hdr'[q[1]] = "free" => Clear(q)'
                         /\ Live(q)' => Clear(q)' \/ At(q)'.st = "valid"
                         /\ Torn(q)' => hdr'[q[1]] = "current" /\ ~Has("gcing")'
    BY <1>1, <1>2, <1>3, <1>4 DEF SlotsSound, Clear, Fresh, Dead
  <2>2. \A u \in Sector : hdr'[u] \in {"dirty", "current"} => \A i, j \in Slot :
          i < j /\ At(<<u, i>>)'.st = "free" => At(<<u, j>>)'.st # "valid"
    BY <1>2 DEF SlotsSound
  <2>3. \A u \in Sector : hdr'[u] = "gcing" => \E i \in Slot : At(<<u, i>>)'.st # "valid"
    BY <1>2 DEF SlotsSound
  <2> QED
    BY <2>1, <2>2, <2>3 DEF SlotsSound, Place, Sector, Slot
<1>7. CopiesSound'
  <2>1. \A b \in Block : \A q : q \in Copies(b)' <=> q \in Copies(b)
    BY <1>5 DEF CopiesStay
  <2>2. \A b \in Block : \A q \in Copies(b) : At(q)' = At(q) /\ hdr'[q[1]] = hdr[q[1]]
    BY <1>2, <1>3, CopyFacts
  <2> QED
    BY <1>1, <2>1, <2>2 DEF CopiesSound
<1> QED
  BY <1>1, <1>4, <1>5, <1>6, <1>7

\* What a collection copies: the valid slots of the victim, in their order.
From(i) == <<part.gcing, Ascending(ValidSlots(part.gcing))[i + 1]>>

\* They are copies of blocks, fewer than a sector holds.
LEMMA CopiedFacts ==
  ASSUME VdsInv, pc \in Making
  PROVE  /\ part.gcing \in Sector /\ hdr[part.gcing] = "gcing" /\ ~Has("current")
         /\ Count(part.gcing) \in Nat /\ Count(part.gcing) < NrPb
         /\ DOMAIN Copied = 0 .. Count(part.gcing) - 1
         /\ \A i \in Slot : i \in DOMAIN Copied <=> i < Count(part.gcing)
         /\ DOMAIN Copied \subseteq Slot
         /\ \A i \in DOMAIN Copied :
              /\ From(i) \in Place /\ Copied[i] = At(From(i)) /\ Copied[i].vbn \in Block
              /\ Copied[i] \in SlotType
              /\ From(i) \in Copies(Copied[i].vbn)
         /\ \A i, j \in DOMAIN Copied : From(i) = From(j) => i = j
         /\ \A k \in Slot : At(<<part.gcing, k>>).st = "valid" =>
              \E i \in DOMAIN Copied : From(i) = <<part.gcing, k>>
<1>1. /\ pc # "off" /\ pc \notin {"GcErase", "GcErasing"} /\ part.current = None
      /\ part.gcing \in Sector
  BY ListFacts DEF Making, VdsInv, StageSound
<1>2. hdr[part.gcing] = "gcing"
  BY <1>1 DEF VdsInv, ListsSound
<1>3. ~Has("current")
  BY <1>1, ListFacts, SectorFacts DEF Has
<1> DEFINE g == part.gcing
           S == ValidSlots(g)
           from == Ascending(S)
           n == Count(g)
<1>4. S \in SUBSET Nat /\ IsFiniteSet(S) /\ n \in 0..NrPb /\ n < NrPb /\ S \subseteq Slot
      /\ n = Cardinality(S)
  <2>1. \E i \in Slot : pb[g][i].st # "valid"
    BY <1>1, <1>2, PlaceFacts DEF VdsInv, SlotsSound, At
  <2> QED
    BY <2>1, CountFacts DEF ValidSlots, Count
<1>5. /\ from \in Seq(S) /\ Len(from) = n /\ IsInjective(from) /\ Range(from) = S
  BY <1>4, AscendingFacts
<1>6. n \in Nat /\ DOMAIN Copied = 0 .. n - 1
  BY <1>4, <1>5, SectorFacts DEF Copied
<1>7. \A i \in DOMAIN Copied : Copied[i] = pb[g][from[i + 1]] /\ i + 1 \in 1..n /\ i \in Nat
  BY <1>5, <1>6 DEF Copied
<1>8. \A k \in 1..n : from[k] \in S
  BY <1>5, SeqFacts
<1>9. /\ \A i \in Slot : i \in DOMAIN Copied <=> i < n
      /\ DOMAIN Copied \subseteq Slot
  BY <1>4, <1>6, SectorFacts DEF Slot
<1>10. \A i \in DOMAIN Copied : From(i) = <<g, from[i + 1]>>
  BY DEF From
<1>11. ASSUME NEW i \in DOMAIN Copied
       PROVE  /\ From(i) \in Place /\ Copied[i] = At(From(i)) /\ Copied[i].vbn \in Block
              /\ Copied[i] \in SlotType
              /\ From(i) \in Copies(Copied[i].vbn)
  <2>1. PICK p \in Place : p = From(i) /\ p = <<g, from[i + 1]>>
    <3>1. from[i + 1] \in Slot
      BY <1>4, <1>7, <1>8
    <3> QED
      BY <1>1, <1>10, <3>1, PlaceFacts
  <2>2. Copied[i] = At(p) /\ At(p).st = "valid" /\ hdr[p[1]] = "gcing"
    <3>1. Copied[i] = pb[g][from[i + 1]] /\ from[i + 1] \in S
      BY <1>7, <1>8
    <3>2. p[1] = g /\ p[2] = from[i + 1]
      BY <2>1
    <3>3. \A k \in S : pb[g][k].st = "valid"
      BY DEF ValidSlots
    <3> HIDE DEF S, from
    <3> QED
      BY <1>2, <3>1, <3>2, <3>3 DEF At
  <2>3. Live(p) /\ ~Torn(p)
    BY <2>2 DEF Live, VdsInv, SlotsSound
  <2>4. At(p).vbn \in Block /\ At(p) \in SlotType
    BY <2>2, <2>3, SlotFacts DEF Torn, VdsInv
  <2> QED
    BY <2>1, <2>2, <2>3, <2>4, CopyFacts
<1>12. \A i, j \in DOMAIN Copied : From(i) = From(j) => i = j
  <2> SUFFICES ASSUME NEW i \in DOMAIN Copied, NEW j \in DOMAIN Copied, From(i) = From(j)
               PROVE  i = j
    OBVIOUS
  <2>1. from[i + 1] = from[j + 1]
    BY <1>10
  <2>2. i + 1 = j + 1
    BY <1>5, <1>7, <2>1, SeqFacts DEF IsInjective
  <2> QED
    BY <1>7, <2>2
<1>13. ASSUME NEW k \in Slot, At(<<g, k>>).st = "valid"
       PROVE  \E i \in DOMAIN Copied : From(i) = <<g, k>>
  <2>1. k \in S
    BY <1>13, PlaceFacts DEF ValidSlots, At
  <2>2. PICK m \in 1..n : from[m] = k
    BY <1>5, <2>1, RangeFacts
  <2>3. m - 1 \in 0 .. n - 1 /\ (m - 1) + 1 = m
    BY <1>6, <2>2
  <2>4. m - 1 \in DOMAIN Copied /\ From(m - 1) = <<g, from[(m - 1) + 1]>>
    BY <1>6, <1>10, <2>3
  <2>5. From(m - 1) = <<g, k>>
    BY <2>2, <2>3, <2>4
  <2> QED
    BY <2>4, <2>5
<1> QED
  BY <1>1, <1>2, <1>3, <1>4, <1>6, <1>9, <1>11, <1>12, <1>13

\* The rest of the invariant while the descriptors and the data are copied.
LEMMA TempRest ==
  ASSUME VdsInv, pc \in {"GcPbd", "GcPb"}, pc' \in {"GcPb", "GcCurrent"},
         UNCHANGED hdr, UNCHANGED part, UNCHANGED mt, UNCHANGED ret, UNCHANGED call,
         \A q \in Place : q[1] # part.temp => At(q)' = At(q),
         \A s \in Sector : s # part.temp => pos'[s] = pos[s]
  PROVE  /\ HeadersSound' /\ SlotsSound' /\ CopiesSound'
         /\ PartSound' /\ ListsSound' /\ StageSound' /\ CallSound' /\ ScanSound'
         /\ MapSound' /\ PositionsSound' /\ NewSound'
         /\ Copied' = Copied /\ Count(part.gcing)' = Count(part.gcing)
<1>1. /\ pc \in Making /\ pc # "off" /\ pc' # "off" /\ part.temp # None /\ part.remain = None
      /\ part.current = None /\ part.unformat = <<>>
  BY DEF Making, VdsInv, StageSound, Booting
<1>2. PICK s \in Sector : s = part.temp /\ hdr[s] = "temp"
  BY <1>1, ListFacts DEF VdsInv, ListsSound
<1>3. HeadersStay /\ \A q \in Place : q[1] # s => At(q)' = At(q)
  BY <1>2 DEF HeadersStay
<1>4. /\ HeadersSound' /\ SlotsSound' /\ CopiesSound' /\ CopiesStay
      /\ \A q \in Place : Torn(q)' <=> Torn(q)
  BY <1>2, <1>3, TempSound DEF VdsInv
<1>5. PartSound'
  BY <1>1 DEF VdsInv, PartSound, Partition, Roles, Sector
<1>6. ListsSound'
  <2>1. ASSUME NEW u \in Sector
        PROVE  /\ u \in Range(part.dirty) <=> hdr[u] = "dirty"
               /\ u = part.current <=> hdr[u] = "current"
               /\ u \in Range(part.free) => hdr[u] = "free"
               /\ u = part.temp => hdr[u] = "temp"
               /\ u = part.gcing <=> hdr[u] = "gcing"
               /\ u # part.remain /\ u \notin Range(part.unformat)
    BY <1>1, EmptySeqFacts, SectorFacts DEF VdsInv, ListsSound
  <2> QED
    BY <2>1 DEF ListsSound, Sector
<1>7. StageSound'
  BY <1>1 DEF VdsInv, StageSound, Booting, Writing, Making, Dropping, Collecting
<1>8. CallSound' /\ ScanSound' /\ NewSound'
  BY <1>1 DEF VdsInv, CallSound, ScanSound, NewSound, Writing, Collecting, Making, Dropping
<1>9. PositionsSound'
  <2>1. \A u \in Range(part.free) : u \in Sector /\ u # s /\ pos[u] = -1
    BY <1>1, <1>2, ListFacts, SeqFacts
  <2>2. \A u \in Range(part'.free) : pos'[u] = -1
    BY <1>2, <2>1
  <2> QED
    BY <1>1, <2>2 DEF PositionsSound, Positioned, Writing, Dropping
<1>10. MapSound'
  <2>1. \A q \in Place : Live(q)' <=> Live(q)
    BY <1>3, HeadersStaySound
  <2>2. \A q \in Place : Settled(q)' => Settled(q)
    BY <1>1, <2>1 DEF Settled, Writing, Collecting, Making, Dropping
  <2>3. \A b \in Block : mt[b] # None => mt[b] \in Copies(b)
    BY DEF VdsInv, MapSound
  <2>4. \A q \in Place : Settled(q) => (\A b \in Block : q \in Copies(b) => mt[b] = q) /\ ~Torn(q)
    BY <1>1 DEF VdsInv, MapSound
  <2>5. ret # "BootClean"
    BY <1>1 DEF VdsInv, CallSound, Collecting, Making
  <2> QED
    BY <1>1, <1>4, <2>2, <2>3, <2>4, <2>5 DEF MapSound, CopiesStay, Booting, Place, Sector, Slot
<1>11. Copied' = Copied /\ Count(part.gcing)' = Count(part.gcing)
  <2>1. PICK g \in Sector : g = part.gcing /\ g = part'.gcing /\ g # s
    BY <1>1, <1>2, CopiedFacts
  <2>2. \A i \in Slot : pb'[g][i] = pb[g][i]
    <3>1. \A i \in Slot : At(<<g, i>>)' = At(<<g, i>>)
      BY <1>3, <2>1, PlaceFacts
    <3> QED
      BY <3>1, PlaceFacts DEF At
  <2>3. ValidSlots(g)' = ValidSlots(g)
    BY <2>2 DEF ValidSlots, Slot
  <2>4. Count(g)' = Count(g) /\ Ascending(ValidSlots(g))' = Ascending(ValidSlots(g))
    BY <2>3 DEF Count, Ascending
  <2> DEFINE from == Ascending(ValidSlots(g))
  <2>5. Len(from) \in Nat /\ \A i \in 0 .. Len(from) - 1 : from[i + 1] \in Slot
    <3>1. from \in Seq(ValidSlots(g)) /\ Len(from) = Count(g) /\ Count(g) \in 0..NrPb
      BY CountFacts, AscendingFacts DEF Count
    <3>2. \A k \in 1..Len(from) : from[k] \in Slot
      BY <3>1, SeqFacts DEF ValidSlots
    <3>3. Len(from) \in Nat
      BY <3>1, SectorFacts
    <3>4. \A i \in 0 .. Len(from) - 1 : i + 1 \in 1 .. Len(from)
      BY <3>3
    <3> QED
      BY <3>2, <3>3, <3>4
  <2>6. Copied = [i \in 0 .. Len(from) - 1 |-> pb[g][from[i + 1]]]
    BY <2>1 DEF Copied
  <2>7. Copied' = [i \in 0 .. Len(from) - 1 |-> pb'[g][from[i + 1]]]
    BY <2>1, <2>4 DEF Copied
  <2> HIDE DEF from
  <2>8. Copied' = Copied
    BY <2>2, <2>5, <2>6, <2>7
  <2> QED
    BY <2>1, <2>4, <2>8
<1> QED
  BY <1>4, <1>5, <1>6, <1>7, <1>8, <1>9, <1>10, <1>11

\* A sector gets new slots.
LEMMA SetSlots ==
  ASSUME TypeOK, NEW s \in Sector, NEW f, \A i \in Slot : f[i] \in SlotType,
         pb' = [pb EXCEPT ![s] = [i \in Slot |-> f[i]]]
  PROVE  /\ pb' \in [Sector -> [Slot -> SlotType]]
         /\ \A i \in Slot : At(<<s, i>>)' = f[i]
         /\ \A q \in Place : q[1] # s => At(q)' = At(q)
<1>1. pb \in [Sector -> [Slot -> SlotType]]
  BY DEF TypeOK, SlotType
<1>2. [i \in Slot |-> f[i]] \in [Slot -> SlotType]
  OBVIOUS
<1>3. pb' \in [Sector -> [Slot -> SlotType]]
  BY <1>1, <1>2
<1>4. /\ \A i \in Slot : pb'[s][i] = f[i]
      /\ \A u \in Sector : u # s => pb'[u] = pb[u]
  BY <1>1
<1> QED
  BY <1>3, <1>4, PlaceFacts DEF At

\* The descriptors are copied.
LEMMA GcPbdInv ==
  ASSUME VdsInv, GcPbd
  PROVE  VdsInv'
<1>1. /\ pc = "GcPbd" /\ pc \in Making /\ pc # "off" /\ pc' = "GcPb"
      /\ UNCHANGED hdr /\ UNCHANGED part /\ UNCHANGED mt /\ UNCHANGED ret /\ UNCHANGED call
      /\ UNCHANGED pos /\ TypeOK
  BY DEF GcPbd, Goto, ram, Making, VdsInv
<1>2. PICK s \in Sector : s = part.temp /\ s = part'.temp
  BY <1>1, ListFacts DEF VdsInv, StageSound
<1>3. \A i \in Slot : At(<<s, i>>) = Fresh /\ pb[s][i] = Fresh
  BY <1>1, <1>2, PlaceFacts DEF VdsInv, CopySound, AllFresh, At
<1> DEFINE new(i) == [st |-> "valid", vbn |-> Copied[i].vbn, ver |-> Copied[i].ver + 1, data |-> None]
           f == [i \in Slot |-> IF i \notin DOMAIN Copied THEN Fresh ELSE new(i)]
<1>4. \A i \in DOMAIN Copied : Copied[i].vbn \in Block /\ Copied[i].ver \in Nat
  BY <1>1, CopiedFacts DEF SlotType
<1>5. \A i \in Slot : f[i] \in SlotType
  <2>1. Fresh \in SlotType
    BY <1>1, SlotFacts
  <2>2. \A i \in DOMAIN Copied : new(i) \in SlotType
    BY <1>4 DEF SlotType
  <2> QED
    BY <2>1, <2>2
<1>6. pb' = [pb EXCEPT ![s] = [i \in Slot |-> f[i]]]
  <2>1. pb' = [pb EXCEPT ![s] = [i \in Slot |->
                IF i \notin DOMAIN Copied THEN pb[s][i]
                ELSE [st |-> "valid", ver |-> Copied[i].ver + 1, data |-> pb[s][i].data,
                      vbn |-> Burn(pb[s][i].vbn, Copied[i].vbn)]]]
    BY <1>1, <1>2 DEF GcPbd, TypeOK
  <2>2. ASSUME NEW i \in Slot
        PROVE  f[i] = IF i \notin DOMAIN Copied THEN pb[s][i]
                      ELSE [st |-> "valid", ver |-> Copied[i].ver + 1, data |-> pb[s][i].data,
                            vbn |-> Burn(pb[s][i].vbn, Copied[i].vbn)]
    <3>1. pb[s][i] = Fresh /\ Fresh.vbn = None /\ Fresh.data = None
      BY <1>3 DEF Fresh
    <3>2. Burn(pb[s][i].vbn, Copied[i].vbn) = Copied[i].vbn
      BY <3>1 DEF Burn
    <3> QED
      BY <3>1, <3>2
  <2>3. [i \in Slot |-> f[i]] = [i \in Slot |->
                IF i \notin DOMAIN Copied THEN pb[s][i]
                ELSE [st |-> "valid", ver |-> Copied[i].ver + 1, data |-> pb[s][i].data,
                      vbn |-> Burn(pb[s][i].vbn, Copied[i].vbn)]]
    <3> HIDE DEF f
    <3> QED
      BY <2>2
  <2> QED
    BY <2>1, <2>3
<1>7. /\ pb' \in [Sector -> [Slot -> SlotType]]
      /\ \A i \in Slot : At(<<s, i>>)' = f[i]
      /\ \A q \in Place : q[1] # s => At(q)' = At(q)
  <2> HIDE DEF f
  <2> QED
    BY <1>1, <1>5, <1>6, SetSlots
<1>8. TypeOK'
  BY <1>1, <1>7 DEF TypeOK, SlotType, Place, Sector, Slot
<1>9. /\ HeadersSound' /\ SlotsSound' /\ CopiesSound'
      /\ PartSound' /\ ListsSound' /\ StageSound' /\ CallSound' /\ ScanSound'
      /\ MapSound' /\ PositionsSound' /\ NewSound' /\ Copied' = Copied
  BY <1>1, <1>2, <1>7, TempRest
<1>10. CopySound'
  BY <1>1, <1>2, <1>7, <1>9 DEF CopySound, Slot, Fresh
<1> QED
  BY <1>8, <1>9, <1>10 DEF VdsInv

\* The data are copied.
LEMMA GcPbInv ==
  ASSUME VdsInv, GcPb
  PROVE  VdsInv'
<1>1. /\ pc = "GcPb" /\ pc \in Making /\ pc # "off" /\ pc' = "GcCurrent"
      /\ UNCHANGED hdr /\ UNCHANGED part /\ UNCHANGED mt /\ UNCHANGED ret /\ UNCHANGED call /\ TypeOK
  BY DEF GcPb, Goto, Making, VdsInv
<1>2. PICK s \in Sector : s = part.temp /\ s = part'.temp
  BY <1>1, ListFacts DEF VdsInv, StageSound
<1> DEFINE old(i) == [st |-> "valid", vbn |-> Copied[i].vbn, ver |-> Copied[i].ver + 1, data |-> None]
           new(i) == [st |-> "valid", vbn |-> Copied[i].vbn, ver |-> Copied[i].ver + 1,
                      data |-> Copied[i].data]
           f == [i \in Slot |-> IF i \notin DOMAIN Copied THEN Fresh ELSE new(i)]
<1>3. \A i \in Slot : pb[s][i] = IF i \notin DOMAIN Copied THEN Fresh ELSE old(i)
  BY <1>1, <1>2, PlaceFacts DEF VdsInv, CopySound, At
<1>4. \A i \in DOMAIN Copied : Copied[i].vbn \in Block /\ Copied[i].ver \in Nat
                               /\ Copied[i].data \in Data \cup {None}
  BY <1>1, CopiedFacts DEF SlotType
<1>5. \A i \in Slot : f[i] \in SlotType
  <2>1. Fresh \in SlotType
    BY <1>1, SlotFacts
  <2>2. \A i \in DOMAIN Copied : new(i) \in SlotType
    BY <1>4 DEF SlotType
  <2> QED
    BY <2>1, <2>2
<1>6. pb' = [pb EXCEPT ![s] = [i \in Slot |-> f[i]]]
  <2>1. pb' = [pb EXCEPT ![s] = [i \in Slot |->
                IF i \notin DOMAIN Copied THEN pb[s][i] ELSE WithData(pb[s][i], Copied[i].data)]]
    BY <1>1, <1>2 DEF GcPb, TypeOK
  <2>2. ASSUME NEW i \in Slot
        PROVE  f[i] = IF i \notin DOMAIN Copied THEN pb[s][i]
                      ELSE WithData(pb[s][i], Copied[i].data)
    <3>1. CASE i \notin DOMAIN Copied
      BY <1>3, <3>1
    <3>2. CASE i \in DOMAIN Copied
      <4>1. pb[s][i] = old(i)
        BY <1>3, <3>2
      <4>2. WithData(old(i), Copied[i].data) = new(i)
        BY DEF WithData, Burn
      <4>3. f[i] = new(i)
        BY <3>2
      <4> HIDE DEF old, new, f
      <4> QED
        BY <3>2, <4>1, <4>2, <4>3
    <3> QED
      BY <3>1, <3>2
  <2>3. [i \in Slot |-> f[i]] = [i \in Slot |->
                IF i \notin DOMAIN Copied THEN pb[s][i] ELSE WithData(pb[s][i], Copied[i].data)]
    <3> HIDE DEF f
    <3> QED
      BY <2>2
  <2> HIDE DEF f
  <2> QED
    BY <2>1, <2>3
<1>7. /\ pb' \in [Sector -> [Slot -> SlotType]]
      /\ \A i \in Slot : At(<<s, i>>)' = f[i]
      /\ \A q \in Place : q[1] # s => At(q)' = At(q)
  <2> HIDE DEF f
  <2> QED
    BY <1>1, <1>5, <1>6, SetSlots
<1>8. pos' = [pos EXCEPT ![s] = Count(part.gcing)] /\ Count(part.gcing) \in -1 .. NrPb - 1
      /\ pos \in [Sector -> -1 .. NrPb - 1]
  <2>1. Count(part.gcing) \in Nat /\ Count(part.gcing) < NrPb
    BY <1>1, CopiedFacts
  <2>2. Count(part.gcing) \in -1 .. NrPb - 1
    BY <2>1, SectorFacts
  <2> QED
    BY <1>1, <1>2, <2>2 DEF GcPb, TypeOK
<1>9. /\ pos' \in [Sector -> -1 .. NrPb - 1] /\ pos'[s] = Count(part.gcing)
      /\ \A u \in Sector : u # s => pos'[u] = pos[u]
  BY <1>8
<1>10. TypeOK'
  BY <1>1, <1>7, <1>9 DEF TypeOK, SlotType, Place, Sector, Slot
<1>11. /\ HeadersSound' /\ SlotsSound' /\ CopiesSound'
       /\ PartSound' /\ ListsSound' /\ StageSound' /\ CallSound' /\ ScanSound'
       /\ MapSound' /\ PositionsSound' /\ NewSound' /\ Copied' = Copied
       /\ Count(part.gcing)' = Count(part.gcing)
  BY <1>1, <1>2, <1>7, <1>9, TempRest
<1>12. CopySound'
  <2>1. \A i \in Slot : At(<<s, i>>)' =
          IF i \notin DOMAIN Copied THEN Fresh
          ELSE [st |-> "valid", vbn |-> Copied[i].vbn, ver |-> Copied[i].ver + 1,
                data |-> Copied[i].data]
    BY <1>7
  <2> QED
    BY <1>1, <1>2, <1>9, <1>11, <2>1 DEF CopySound, Slot, Fresh
<1> QED
  BY <1>10, <1>11, <1>12 DEF VdsInv

\* The copy of the victim becomes the current sector.
LEMMA CopyInUse ==
  ASSUME VdsInv, pc = "GcCurrent", NEW s \in Sector, s = part.temp,
         HeaderSet(s, "current"), SlotsStay
  PROVE  /\ HeadersSound' /\ SlotsSound' /\ CopiesSound'
         /\ \A b \in Block : \A q \in Copies(b) : q \in Copies(b)' /\ q[1] # s
         /\ \A b \in Block : \A q \in Copies(b)' : q \in Copies(b) \/ q[1] = s
         /\ \A b \in Block : \A q \in Copies(b)' :
              q[1] = s => \E p \in Copies(b) : p \in Place /\ hdr[p[1]] = "gcing"
         /\ \A q \in Place : ~Torn(q)'
         /\ \A i \in Slot : IF i < Count(part.gcing) THEN At(<<s, i>>).st = "valid"
                            ELSE At(<<s, i>>) = Fresh
<1> USE PlaceFacts
<1>1. pc \in Making /\ TypeOK
  BY DEF Making, VdsInv
<1>2. \A u \in Sector : hdr'[u] = IF u = s THEN "current" ELSE hdr[u]
  BY DEF HeaderSet
<1>3. \A q : At(q)' = At(q)
  BY DEF SlotsStay
<1>4. hdr[s] = "temp"
  BY <1>1 DEF VdsInv, ListsSound, Making
<1>5. PICK g \in Sector : g = part.gcing /\ hdr[g] = "gcing" /\ g # s
  BY <1>1, <1>4, CopiedFacts
<1>6. ~Has("current") /\ \A u \in Sector : hdr[u] # "current"
  BY <1>1, CopiedFacts DEF Has
<1> DEFINE new(i) == [st |-> "valid", vbn |-> Copied[i].vbn, ver |-> Copied[i].ver + 1,
                      data |-> Copied[i].data]
<1>7. \A i \in Slot :
        /\ i \notin DOMAIN Copied => At(<<s, i>>) = Fresh /\ At(<<s, i>>).st = "free"
        /\ i \in DOMAIN Copied => /\ At(<<s, i>>) = new(i) /\ At(<<s, i>>).st = "valid"
                                  /\ At(<<s, i>>).vbn = Copied[i].vbn
  <2>1. \A i \in Slot : At(<<s, i>>) = IF i \notin DOMAIN Copied THEN Fresh ELSE new(i)
    BY DEF VdsInv, CopySound
  <2>2. Fresh.st = "free"
    BY DEF Fresh
  <2>3. \A i : new(i).st = "valid" /\ new(i).vbn = Copied[i].vbn
    OBVIOUS
  <2> HIDE DEF new
  <2> QED
    BY <2>1, <2>2, <2>3
<1>8. /\ DOMAIN Copied \subseteq Slot
      /\ \A i \in Slot : i \in DOMAIN Copied <=> i < Count(g)
      /\ \A i \in DOMAIN Copied : /\ From(i) \in Place /\ Copied[i] = At(From(i))
                                  /\ Copied[i].vbn \in Block /\ Copied[i] \in SlotType
                                  /\ From(i) \in Copies(Copied[i].vbn)
      /\ \A i, j \in DOMAIN Copied : From(i) = From(j) => i = j
      /\ \A k \in Slot : At(<<g, k>>).st = "valid" => \E i \in DOMAIN Copied : From(i) = <<g, k>>
      /\ \A i \in DOMAIN Copied : From(i)[1] = g
  BY <1>1, <1>5, CopiedFacts DEF From
<1>9. \A b \in Block : \A p, q \in Copies(b) : p = q
  <2>1. \A b \in Block : \A p, q \in Copies(b) : p # q => "current" \in {hdr[p[1]], hdr[q[1]]}
    BY DEF VdsInv, CopiesSound
  <2> QED
    BY <1>6, <2>1, CopyFacts
<1>10. \A q \in Place : Live(q)' <=> Live(q) \/ q[1] = s
  BY <1>2 DEF Live
<1>11. /\ \A b \in Block : \A q \in Copies(b) : q \in Copies(b)' /\ q[1] # s
       /\ \A b \in Block : \A q \in Copies(b)' : q \in Copies(b) \/ q[1] = s
  <2>1. \A q \in Place : Live(q) => q[1] # s
    BY <1>4 DEF Live
  <2> QED
    BY <1>3, <1>10, <2>1, CopyFacts, CopyFactsPrime
<1>12. ASSUME NEW b \in Block, NEW q \in Copies(b)', q[1] = s
       PROVE  /\ q[2] \in DOMAIN Copied /\ q = <<s, q[2]>> /\ At(q)' = new(q[2]) /\ Copied[q[2]].vbn = b
              /\ From(q[2]) \in Copies(b)
  <2>1. q \in Place /\ At(q)'.st = "valid" /\ At(q)'.vbn = b
    BY CopyFactsPrime
  <2>2. q = <<s, q[2]>> /\ q[2] \in Slot /\ At(q)' = At(<<s, q[2]>>)
    BY <1>3, <1>12, <2>1
  <2>3. q[2] \in DOMAIN Copied
    BY <1>7, <2>1, <2>2
  <2>4. At(q)' = new(q[2])
    BY <1>7, <2>2, <2>3
  <2> QED
    BY <1>8, <2>1, <2>2, <2>3, <2>4
<1>13. \A q \in Place : ~Torn(q)'
  <2> HIDE DEF new
  <2> SUFFICES ASSUME NEW q \in Place, Torn(q)' PROVE FALSE
    OBVIOUS
  <2>1. Live(q)' /\ At(q).st = "valid" /\ At(q).vbn = None
    BY <1>3 DEF Torn
  <2>2. CASE q[1] = s
    <3>1. PICK i \in Slot : q = <<s, i>>
      BY <2>2
    <3>2. CASE i \in DOMAIN Copied
      <4>1. At(<<s, i>>).vbn = Copied[i].vbn
        BY <1>7, <3>2
      <4>2. Copied[i].vbn \in Block /\ None \notin Block
        BY <1>8, <3>2, SectorFacts
      <4> QED
        BY <2>1, <3>1, <4>1, <4>2
    <3>3. CASE i \notin DOMAIN Copied
      <4>1. At(<<s, i>>).st = "free"
        BY <1>7, <3>3
      <4> QED
        BY <2>1, <3>1, <4>1
    <3> QED
      BY <3>2, <3>3
  <2>3. CASE q[1] # s
    <3>1. Torn(q)
      BY <1>10, <2>1, <2>3 DEF Torn
    <3> QED
      BY <1>6, <3>1 DEF VdsInv, SlotsSound
  <2> QED
    BY <2>2, <2>3
<1>14. HeadersSound'
  <2>1. HasData /\ HasData' /\ Has("gcing")' /\ Has("current")'
    BY <1>2, <1>5 DEF HasData, Has, Sector
  <2>2. \A u \in Sector : Counted(u)'
    <3>1. \A u \in Sector : u # s => Counted(u)
      BY <1>4, <2>1 DEF VdsInv, HeadersSound, Counted
    <3> QED
      BY <1>2, <3>1 DEF Counted
  <2>3. \A t, u \in Sector : hdr'[t] = hdr'[u] /\ hdr'[t] \in {"remain", "current", "gcing"} => t = u
    BY <1>2, <1>6 DEF VdsInv, HeadersSound
  <2> QED
    BY <2>1, <2>2, <2>3 DEF HeadersSound, Sector
<1>15. SlotsSound'
  <2>1. \A q \in Place : q[1] = s => Clear(q) \/ At(q).st = "valid"
    <3> SUFFICES ASSUME NEW q \in Place, q[1] = s PROVE At(q) = Fresh \/ At(q).st = "valid"
      BY DEF Clear
    <3>1. q = <<s, q[2]>> /\ q[2] \in Slot
      OBVIOUS
    <3> QED
      BY <1>7, <3>1
  <2>2. \A q \in Place : /\ hdr'[q[1]] = "remain" => At(q)' = Fresh
                         /\ hdr'[q[1]] = "free" => Clear(q)'
                         /\ Live(q)' => Clear(q)' \/ At(q)'.st = "valid"
    BY <1>2, <1>3, <1>10, <2>1 DEF VdsInv, SlotsSound, Clear, Fresh, Dead
  <2>3. ASSUME NEW i \in Slot, NEW j \in Slot, i < j, At(<<s, i>>).st = "free"
        PROVE  At(<<s, j>>).st # "valid"
    <3>1. i \notin DOMAIN Copied
      BY <1>7, <2>3
    <3>2. Count(g) \in Nat /\ i \in Nat /\ j \in Nat
      BY <1>1, <1>5, CopiedFacts, SectorFacts
    <3>3. j \notin DOMAIN Copied
      BY <1>8, <2>3, <3>1, <3>2
    <3> QED
      BY <1>7, <3>3
  <2>4. \A u \in Sector : hdr'[u] \in {"dirty", "current"} => \A i, j \in Slot :
          i < j /\ At(<<u, i>>)'.st = "free" => At(<<u, j>>)'.st # "valid"
    BY <1>2, <1>3, <2>3 DEF VdsInv, SlotsSound
  <2>5. \A u \in Sector : hdr'[u] = "gcing" => \E i \in Slot : At(<<u, i>>)'.st # "valid"
    BY <1>2, <1>3 DEF VdsInv, SlotsSound
  <2> QED
    BY <1>13, <2>2, <2>4, <2>5 DEF SlotsSound, Place, Sector, Slot
<1>16. CopiesSound'
  <2> SUFFICES ASSUME NEW b \in Block
               PROVE  /\ \A p, q \in Copies(b)' : p # q =>
                           /\ At(p)'.ver # At(q)'.ver
                           /\ "current" \in {hdr'[p[1]], hdr'[q[1]]}
                           /\ "gcing" \in {hdr'[p[1]], hdr'[q[1]]}
                           /\ hdr'[p[1]] = "gcing" =>
                                At(p)'.ver < At(q)'.ver /\ At(p)'.data = At(q)'.data
                      /\ \A p \in Copies(b)' : hdr'[p[1]] = "gcing" =>
                           \E q \in Copies(b)' : hdr'[q[1]] = "current"
    BY DEF CopiesSound
  <2>1. ASSUME NEW p \in Copies(b)', NEW q \in Copies(b)', p[1] = s, q[1] # s
        PROVE  /\ hdr'[p[1]] = "current" /\ hdr'[q[1]] = "gcing"
               /\ At(q)'.ver < At(p)'.ver /\ At(p)'.data = At(q)'.data
               /\ At(q)'.ver # At(p)'.ver
    <3>1. /\ p[2] \in DOMAIN Copied /\ At(p)' = new(p[2]) /\ From(p[2]) \in Copies(b)
      BY <1>12, <2>1
    <3>2. q \in Copies(b)
      BY <1>11, <2>1
    <3>3. q = From(p[2])
      BY <1>9, <3>1, <3>2
    <3>4. At(q)' = Copied[p[2]] /\ q[1] = g /\ Copied[p[2]].ver \in Nat
      BY <1>3, <1>8, <3>1, <3>3 DEF SlotType
    <3> QED
      BY <1>2, <1>5, <2>1, <3>1, <3>4
  <2>2. ASSUME NEW p \in Copies(b)', NEW q \in Copies(b)', p[1] = s, q[1] = s
        PROVE  p = q
    <3>1. /\ p[2] \in DOMAIN Copied /\ p = <<s, p[2]>> /\ From(p[2]) \in Copies(b)
          /\ q[2] \in DOMAIN Copied /\ q = <<s, q[2]>> /\ From(q[2]) \in Copies(b)
      BY <1>12, <2>2
    <3>2. From(p[2]) = From(q[2])
      BY <1>9, <3>1
    <3> QED
      BY <1>8, <3>1, <3>2
  <2>3. ASSUME NEW p \in Copies(b)', NEW q \in Copies(b)', p[1] # s, q[1] # s
        PROVE  p = q
    BY <1>9, <1>11, <2>3
  <2>4. ASSUME NEW p \in Copies(b)', hdr'[p[1]] = "gcing"
        PROVE  \E q \in Copies(b)' : hdr'[q[1]] = "current"
    <3>1. p \in Copies(b) /\ p \in Place /\ hdr[p[1]] = "gcing"
      BY <1>2, <1>11, <2>4, CopyFactsPrime
    <3>2. p = <<g, p[2]>> /\ p[2] \in Slot /\ At(p).st = "valid" /\ At(p).vbn = b
      BY <1>5, <3>1, CopyFacts DEF VdsInv, HeadersSound
    <3>3. PICK i \in DOMAIN Copied : From(i) = p
      BY <1>8, <3>2
    <3>4. Copied[i].vbn = b /\ i \in Slot
      BY <1>8, <3>2, <3>3
    <3>5. PICK q \in Place : q = <<s, i>>
      BY <3>4
    <3>6. At(q)' = new(i) /\ q[1] = s
      BY <1>3, <1>7, <3>4, <3>5
    <3>7. q \in Copies(b)'
      BY <1>10, <3>4, <3>5, <3>6, CopyFactsPrime
    <3> QED
      BY <1>2, <3>6, <3>7
  <2>5. \A p \in Copies(b)' : p[1] = s => hdr'[p[1]] = "current"
    BY <1>2
  <2> QED
    BY <2>1, <2>2, <2>3, <2>4, <2>5
<1>17. \A i \in Slot : IF i < Count(g) THEN At(<<s, i>>).st = "valid" ELSE At(<<s, i>>) = Fresh
  BY <1>7, <1>8
<1>18. \A b \in Block : \A q \in Copies(b)' :
         q[1] = s => \E p \in Copies(b) : p \in Place /\ hdr[p[1]] = "gcing"
  <2> SUFFICES ASSUME NEW b \in Block, NEW q \in Copies(b)', q[1] = s
               PROVE  \E p \in Copies(b) : p \in Place /\ hdr[p[1]] = "gcing"
    OBVIOUS
  <2>1. From(q[2]) \in Copies(b) /\ q[2] \in DOMAIN Copied
    BY <1>12
  <2> QED
    BY <1>5, <1>8, <2>1
<1> QED
  BY <1>5, <1>11, <1>13, <1>14, <1>15, <1>16, <1>17, <1>18

\* The copy becomes the current sector.
LEMMA GcCurrentInv ==
  ASSUME VdsInv, GcCurrent
  PROVE  VdsInv'
<1>1. /\ pc = "GcCurrent" /\ pc \in Making /\ pc # "off" /\ part.current = None /\ part.temp # None
      /\ part.remain = None /\ part.gcing # None /\ part.unformat = <<>> /\ part \in Partition
      /\ TypeOK
  BY ListFacts DEF GcCurrent, Making, VdsInv, StageSound, Booting
<1>2. PICK s \in Sector : s = part.temp
  BY <1>1, ListFacts
<1>3. PICK g \in Sector : g = part.gcing /\ hdr[g] = "gcing"
  BY <1>1, CopiedFacts
<1>4. PICK n \in Nat : n = Count(g) /\ n < NrPb /\ pos[s] = n
  BY <1>1, <1>2, <1>3, CopiedFacts DEF VdsInv, CopySound
<1>5. /\ hdr' = [hdr EXCEPT ![s] = "current"] /\ pos' = [pos EXCEPT ![s] = pos[s] - 1]
      /\ part' = [part EXCEPT !.current = s, !.temp = None]
      /\ pc' = "GcScan" /\ scan' = [secs |-> <<s>>, i |-> 0]
      /\ UNCHANGED ret /\ UNCHANGED call /\ UNCHANGED pb /\ UNCHANGED mt
  <2>1. ~(pos[s] >= NrPb)
    BY <1>4, SectorFacts
  <2> QED
    BY <1>2, <2>1 DEF GcCurrent, GoScan
<1>6. HeaderSet(s, "current") /\ hdr' \in [Sector -> Status] /\ SlotsStay
  BY <1>1, <1>5, SetHeader DEF Status, SlotsStay, At
<1>7. \A u \in Sector : hdr'[u] = IF u = s THEN "current" ELSE hdr[u]
  BY <1>6 DEF HeaderSet
<1>8. \A q : At(q)' = At(q)
  BY <1>6 DEF SlotsStay
<1>9. /\ HeadersSound' /\ SlotsSound' /\ CopiesSound'
      /\ \A b \in Block : \A q \in Copies(b) : q \in Copies(b)' /\ q[1] # s
      /\ \A b \in Block : \A q \in Copies(b)' : q \in Copies(b) \/ q[1] = s
      /\ \A q \in Place : ~Torn(q)'
      /\ \A i \in Slot : IF i < n THEN At(<<s, i>>).st = "valid"
                         ELSE At(<<s, i>>) = Fresh
  BY <1>1, <1>2, <1>3, <1>4, <1>6, CopyInUse
<1>10. pos' \in [Sector -> -1 .. NrPb - 1] /\ \A u \in Sector : pos'[u] = IF u = s THEN n - 1 ELSE pos[u]
  <2>1. n - 1 \in -1 .. NrPb - 1 /\ pos \in [Sector -> -1 .. NrPb - 1] /\ pos[s] - 1 = n - 1
    BY <1>1, <1>4, SectorFacts DEF TypeOK
  <2> QED
    BY <1>5, <2>1
<1>11. TypeOK'
  BY <1>1, <1>5, <1>6, <1>10 DEF TypeOK, Status, Place, Sector, Slot
<1>12. /\ part'.dirty = part.dirty /\ part'.free = part.free /\ part'.current = s
       /\ part'.gcing = g /\ part'.temp = None /\ part'.remain = None
       /\ part'.unformat = <<>> /\ part' \in Partition
  BY <1>1, <1>3, <1>5 DEF Partition
<1>13. PartSound'
  <2>1. PICK role \in [Sector -> Role] : Roles(part, role)
    BY <1>1, ListFacts
  <2> DEFINE role1 == [role EXCEPT ![s] = "current"]
  <2>2. role1 \in [Sector -> Role] /\ \A u \in Sector : role1[u] = IF u = s THEN "current" ELSE role[u]
    BY DEF Role
  <2> HIDE DEF role1
  <2>3. Roles(part', role1)
    BY <1>1, <1>2, <1>3, <1>12, <2>1, <2>2, SectorFacts DEF Roles
  <2> QED
    BY <1>1, <1>12, <2>2, <2>3, ListFacts DEF PartSound, Partition, Sector
<1>14. hdr[s] = "temp"
  BY <1>1, <1>2 DEF VdsInv, ListsSound
<1>15. ListsSound'
  BY <1>1, <1>3, <1>5, <1>7, <1>12, <1>14, EmptySeqFacts, SectorFacts DEF ListsSound, VdsInv, Sector
<1>16. StageSound'
  BY <1>3, <1>5, <1>12, SectorFacts DEF StageSound, Booting, Writing, Making, Dropping, Collecting
<1>17. ret # "BootClean" /\ CallSound'
  BY <1>1, <1>5 DEF VdsInv, CallSound, Writing, Collecting, Making, Dropping
<1>18. ScanSound'
  <2>1. <<s>> \in Seq(Sector) /\ <<s>> # <<>> /\ IsInjective(<<s>>)
    BY DEF IsInjective
  <2>2. 0 \in 0 .. NrPb /\ \A i \in Slot : ~(i < 0)
    BY SectorFacts
  <2> QED
    BY <1>5, <1>12, <2>1, <2>2 DEF ScanSound, Sector, Slot
<1>19. NewSound' /\ CopySound'
  BY <1>5 DEF NewSound, CopySound
<1>20. MapSound'
  <2>1. ASSUME NEW q \in Place, Settled(q)'
        PROVE  Settled(q) /\ q[1] # s
    <3>1. \/ ret \in {"Status", "idle"} /\ hdr'[q[1]] = "dirty"
          \/ hdr'[q[1]] = "current" /\ q[2] < 0
      BY <1>5, <2>1 DEF Settled, Writing
    <3>2. ~(q[2] < 0)
      BY PlaceFacts, SectorFacts
    <3>3. ret \in {"Status", "idle"} /\ hdr[q[1]] = "dirty" /\ q[1] # s
      BY <1>7, <3>1, <3>2, PlaceFacts
    <3> QED
      BY <1>1, <3>3 DEF Settled, Live, Collecting
  <2>2. \A b \in Block : mt[b] # None => mt[b] \in Copies(b)
    BY DEF VdsInv, MapSound
  <2>3. \A q \in Place : Settled(q) => \A b \in Block : q \in Copies(b) => mt[b] = q
    BY <1>1 DEF VdsInv, MapSound
  <2>4. \A b \in Block : \A q \in Copies(b)' : q \in Place
    BY CopyFactsPrime
  <2>5. \A b \in Block : mt'[b] # None => mt'[b] \in Copies(b)'
    BY <1>5, <1>9, <2>2
  <2>6. \A q \in Place : Settled(q)' => \A b \in Block : q \in Copies(b)' => mt'[b] = q
    BY <1>5, <1>9, <2>1, <2>3
  <2> QED
    BY <1>5, <1>9, <1>17, <2>5, <2>6 DEF MapSound, Booting, Place, Sector, Slot
<1>21. PositionsSound'
  <2>1. \A u \in Range(part.free) : u \in Sector /\ u # s /\ pos[u] = -1
    BY <1>1, <1>14, ListFacts, SeqFacts
  <2>2. \A u \in Range(part'.free) : pos'[u] = -1
    BY <1>10, <1>12, <2>1
  <2>3. /\ \A i \in Slot : i > n - 1 => Clear(<<s, i>>)'
        /\ \A i \in Slot : i <= n - 1 => At(<<s, i>>)'.st # "free"
    <3>1. \A i \in Slot : i \in Nat
      BY SectorFacts
    <3> QED
      BY <1>4, <1>8, <1>9, <3>1 DEF Clear, Fresh, Dead
  <2>4. pos'[s] = n - 1 /\ \A i \in Slot : i \in Nat
    BY <1>10, SectorFacts
  <2>5. pos'[s] + 1 < NrPb
    BY <1>4, <2>4
  <2> QED
    BY <1>5, <1>12, <2>2, <2>3, <2>4, <2>5 DEF PositionsSound, Writing, Dropping, Slot
<1> QED
  BY <1>9, <1>11, <1>13, <1>15, <1>16, <1>17, <1>18, <1>19, <1>20, <1>21 DEF VdsInv

\* A victim whose copy is in use is given up.
LEMMA MarkSound ==
  ASSUME TypeOK, HeadersSound, SlotsSound, CopiesSound, NEW g \in Sector, hdr[g] = "gcing",
         Has("current"), HeaderSet(g, "erasing"), SlotsStay
  PROVE  /\ HeadersSound' /\ SlotsSound' /\ CopiesSound'
         /\ \A u \in Sector : Counted(u)
         /\ \A b \in Block : \A q : q \in Copies(b)' <=> q \in Copies(b) /\ q[1] # g
         /\ \A q \in Place : ~Torn(q) /\ ~Torn(q)'
<1> USE PlaceFacts
<1>1. \A u \in Sector : hdr'[u] = IF u = g THEN "erasing" ELSE hdr[u]
  BY DEF HeaderSet
<1>2. \A q : At(q)' = At(q)
  BY DEF SlotsStay
<1>3. Has("gcing") /\ \A u \in Sector : hdr[u] = "gcing" <=> u = g
  BY DEF Has, HeadersSound
<1>4. \A u \in Sector : Counted(u)
  BY <1>3 DEF HeadersSound
<1>5. PICK c \in Sector : hdr[c] = "current"
  BY DEF Has
<1>6. \A q \in Place : Live(q)' <=> Live(q) /\ q[1] # g
  BY <1>1 DEF Live
<1>7. \A b \in Block : \A q : q \in Copies(b)' <=> q \in Copies(b) /\ q[1] # g
  BY <1>2, <1>6, CopyFacts, CopyFactsPrime
<1>8. \A q \in Place : ~Torn(q) /\ ~Torn(q)'
  <2>1. \A q \in Place : ~Torn(q)
    BY <1>3 DEF SlotsSound
  <2>2. \A q \in Place : Torn(q)' => Torn(q)
    BY <1>2, <1>6 DEF Torn
  <2> QED
    BY <2>1, <2>2
<1>9. HeadersSound'
  <2>1. HasData' /\ c # g /\ hdr'[c] = "current"
    BY <1>1, <1>5 DEF HasData, Sector
  <2>2. /\ \A u \in Sector : u # g => Counted(u)'
        /\ ~Counted(g)' /\ ~Has("gcing")'
    BY <1>1, <1>3, <1>4 DEF Counted, Has, Sector
  <2>3. \A t, u \in Sector : hdr'[t] = hdr'[u] /\ hdr'[t] \in {"remain", "current", "gcing"} => t = u
    BY <1>1 DEF HeadersSound
  <2> QED
    BY <2>1, <2>2, <2>3 DEF HeadersSound, Sector
<1>10. SlotsSound'
  <2>1. \A q \in Place : /\ hdr'[q[1]] = "remain" => At(q)' = Fresh
                         /\ hdr'[q[1]] = "free" => Clear(q)'
                         /\ Live(q)' => Clear(q)' \/ At(q)'.st = "valid"
    BY <1>1, <1>2, <1>6 DEF SlotsSound, Clear, Fresh, Dead
  <2>2. \A u \in Sector : hdr'[u] \in {"dirty", "current"} => \A i, j \in Slot :
          i < j /\ At(<<u, i>>)'.st = "free" => At(<<u, j>>)'.st # "valid"
    BY <1>1, <1>2 DEF SlotsSound
  <2>3. \A u \in Sector : hdr'[u] # "gcing"
    BY <1>1, <1>3
  <2> QED
    BY <1>8, <2>1, <2>2, <2>3 DEF SlotsSound, Place, Sector, Slot
<1>11. CopiesSound'
  <2>1. \A b \in Block : \A p, q \in Copies(b)' : p = q
    <3> SUFFICES ASSUME NEW b \in Block, NEW p \in Copies(b)', NEW q \in Copies(b)', p # q
                 PROVE  FALSE
      OBVIOUS
    <3>1. "gcing" \in {hdr[p[1]], hdr[q[1]]}
      BY <1>3, <1>7 DEF CopiesSound
    <3> QED
      BY <1>3, <1>7, <3>1, CopyFacts
  <2>2. \A b \in Block : \A q \in Copies(b)' : hdr'[q[1]] # "gcing"
    BY <1>1, <1>3, CopyFactsPrime
  <2> QED
    BY <2>1, <2>2 DEF CopiesSound
<1> QED
  BY <1>4, <1>7, <1>8, <1>9, <1>10, <1>11

\* The header of the victim is voided.
LEMMA GcMarkInv ==
  ASSUME VdsInv, GcMark
  PROVE  VdsInv'
<1>1. /\ pc = "GcMark" /\ pc # "off" /\ part.current # None /\ part.temp = None
      /\ part.remain = None /\ part.gcing # None /\ part.unformat = <<>> /\ part \in Partition
      /\ TypeOK
  BY ListFacts DEF GcMark, Making, Dropping, VdsInv, StageSound, Booting
<1>2. PICK g \in Sector : g = part.gcing /\ hdr[g] = "gcing"
  BY <1>1, ListFacts DEF VdsInv, ListsSound
<1>3. PICK c \in Sector : c = part.current /\ hdr[c] = "current" /\ c # g
  BY <1>1, <1>2, ListFacts
<1>4. /\ hdr' = [hdr EXCEPT ![g] = "erasing"] /\ pos' = [pos EXCEPT ![g] = -1]
      /\ pc' = "GcErase" /\ UNCHANGED scan
      /\ UNCHANGED ret /\ UNCHANGED call /\ UNCHANGED pb /\ UNCHANGED mt /\ UNCHANGED part
  BY <1>2 DEF GcMark, Goto
<1>5. HeaderSet(g, "erasing") /\ hdr' \in [Sector -> Status] /\ SlotsStay
  BY <1>1, <1>4, SetHeader DEF Status, SlotsStay, At
<1>6. \A u \in Sector : hdr'[u] = IF u = g THEN "erasing" ELSE hdr[u]
  BY <1>5 DEF HeaderSet
<1>7. \A q : At(q)' = At(q)
  BY <1>5 DEF SlotsStay
<1>8. /\ HeadersSound' /\ SlotsSound' /\ CopiesSound'
      /\ \A u \in Sector : Counted(u)
      /\ \A b \in Block : \A q : q \in Copies(b)' <=> q \in Copies(b) /\ q[1] # g
      /\ \A q \in Place : ~Torn(q) /\ ~Torn(q)'
  BY <1>1, <1>2, <1>3, <1>5, MarkSound DEF VdsInv, Has
<1>9. pos' \in [Sector -> -1 .. NrPb - 1] /\ \A u \in Sector : pos'[u] = IF u = g THEN -1 ELSE pos[u]
  <2>1. -1 \in -1 .. NrPb - 1 /\ pos \in [Sector -> -1 .. NrPb - 1]
    BY <1>1, SectorFacts DEF TypeOK
  <2> QED
    BY <1>4, <2>1
<1>10. TypeOK'
  BY <1>1, <1>4, <1>5, <1>9 DEF TypeOK, Status, Place, Sector, Slot
<1>11. PartSound'
  BY <1>1, <1>4, ListFacts DEF PartSound, VdsInv, Partition, Sector, Role, Roles
<1>12. ListsSound'
  <2>1. \A u \in Sector : hdr[u] # "erasing"
    BY <1>8 DEF Counted
  <2> QED
    BY <1>1, <1>2, <1>3, <1>4, <1>6, <2>1, EmptySeqFacts, SectorFacts DEF ListsSound, VdsInv, Sector
<1>13. StageSound' /\ CallSound' /\ ScanSound' /\ NewSound' /\ CopySound'
  BY <1>1, <1>4, SectorFacts DEF VdsInv, StageSound, CallSound, ScanSound, NewSound, CopySound, Booting, Writing, Making, Dropping, Collecting
<1>14. MapSound'
  <2>1. \A b \in Block : mt[b] # None => mt[b] \in Copies(b)
    BY DEF VdsInv, MapSound
  <2>2. ASSUME NEW b \in Block, mt[b] # None
        PROVE  mt[b][1] # g
    <3>1. ret # "BootClean"
      BY <1>1, <2>2 DEF VdsInv, MapSound, Collecting, Dropping
    <3>2. ASSUME mt[b][1] = g PROVE FALSE
      <4>1. Has("current")
        BY <1>3 DEF Has
      <4>2. PICK q \in Copies(b) : hdr[q[1]] = "current"
        BY <1>2, <2>1, <2>2, <3>2, <4>1 DEF VdsInv, CopiesSound
      <4>3. q \in Place /\ Live(q)
        BY CopyFacts
      <4>4. Settled(q)
        BY <1>1, <3>1, <4>2, <4>3 DEF Settled, Dropping
      <4>5. mt[b] = q
        BY <1>1, <4>2, <4>3, <4>4 DEF VdsInv, MapSound
      <4> QED
        BY <1>2, <3>2, <4>2, <4>5
    <3> QED
      BY <3>2
  <2>3. \A b \in Block : mt'[b] # None => mt'[b] \in Copies(b)'
    BY <1>4, <1>8, <2>1, <2>2
  <2>4. ASSUME NEW q \in Place, Settled(q)' PROVE Settled(q)
    <3>1. Live(q)' /\ q[1] \in Sector
      BY <2>4, PlaceFacts DEF Settled
    <3>2. q[1] # g /\ hdr'[q[1]] = hdr[q[1]] /\ Live(q)
      BY <1>6, <3>1 DEF Live
    <3> QED
      BY <1>1, <1>4, <2>4, <3>2 DEF Settled, Writing, Collecting, Dropping, Making
  <2>5. \A q \in Place : Settled(q)' => \A b \in Block : q \in Copies(b)' => mt'[b] = q
    <3>1. \A q \in Place : Settled(q) => \A b \in Block : q \in Copies(b) => mt[b] = q
      BY <1>1 DEF VdsInv, MapSound
    <3> QED
      BY <1>4, <1>8, <2>4, <3>1
  <2>6. ret = "BootClean" => \A b \in Block : mt[b] = None
    BY <1>1 DEF VdsInv, MapSound, Collecting, Dropping
  <2> QED
    BY <1>4, <1>8, <2>3, <2>5, <2>6 DEF MapSound, Booting, Place, Sector, Slot
<1>15. PositionsSound'
  <2>1. Positioned' <=> Positioned
    BY <1>1, <1>4 DEF Positioned, Writing, Dropping
  <2>2. \A u, i : (Clear(<<u, i>>)' <=> Clear(<<u, i>>))
    BY <1>7 DEF Clear, Fresh, Dead
  <2>3. \A u \in Range(part.free) : u \in Sector /\ pos'[u] = -1
    BY <1>1, <1>9, ListFacts, SeqFacts
  <2>4. pos'[c] = pos[c]
    BY <1>3, <1>9
  <2> QED
    BY <1>1, <1>3, <1>4, <1>7, <2>1, <2>2, <2>3, <2>4 DEF VdsInv, PositionsSound, Writing, Dropping, Slot
<1> QED
  BY <1>8, <1>10, <1>11, <1>12, <1>13, <1>14, <1>15 DEF VdsInv

-----------------------------------------------------------------------------
(* The end of a start-up and of a collection. *)

\* The sectors a start-up scans.
LEMMA ScanSecs ==
  ASSUME NEW d \in Seq(Sector), NEW c \in Sector \cup {None}, IsInjective(d), c \notin Range(d)
  PROVE  /\ d \o One(c) \in Seq(Sector) /\ IsInjective(d \o One(c))
         /\ Range(d \o One(c)) = Range(d) \cup (IF c = None THEN {} ELSE {c})
         /\ c # None => d \o One(c) # <<>>
         /\ d \o One(c) = <<>> => c = None /\ Range(d) = {}
<1>1. /\ One(c) \in Seq(Sector) /\ IsInjective(One(c))
      /\ Range(One(c)) = IF c = None THEN {} ELSE {c}
  <2>1. CASE c = None
    BY <2>1, EmptySeqFacts DEF One
  <2>2. CASE c # None
    <3>1. One(c) = <<c>> /\ <<c>> \in Seq(Sector)
      BY <2>2 DEF One
    <3>2. Len(<<c>>) = 1 /\ <<c>>[1] = c
      OBVIOUS
    <3>3. IsInjective(<<c>>) /\ Range(<<c>>) = {c}
      <4> DEFINE s == <<c>>
      <4>1. s \in Seq(Sector) /\ Len(s) = 1 /\ s[1] = c
        BY <3>1, <3>2
      <4> HIDE DEF s
      <4>2. \A i \in 1..1 : i = 1
        OBVIOUS
      <4>3. Range(s) = {s[i] : i \in 1..1} /\ 1 \in 1..1
        BY <4>1, SeqFacts
      <4>4. Range(s) = {c}
        BY <4>1, <4>2, <4>3
      <4>5. IsInjective(s)
        BY <4>1, <4>2, SeqFacts
      <4> QED
        BY <4>4, <4>5 DEF s
    <3> QED
      BY <2>2, <3>1, <3>3
  <2> QED
    BY <2>1, <2>2
<1>2. /\ d \o One(c) \in Seq(Sector) /\ IsInjective(d \o One(c))
      /\ Range(d \o One(c)) = Range(d) \cup Range(One(c))
  BY <1>1, ConcatSeq
<1>3. d \o One(c) = <<>> => Range(d \o One(c)) = {}
  BY EmptySeqFacts
<1> QED
  BY <1>1, <1>2, <1>3

\* When the scan of the blocks begins, nothing is known of the flash.
LEMMA ScanBegins ==
  ASSUME pc' = "BootScan", NEW secs \in Seq(Sector), IsInjective(secs), secs # <<>>,
         scan' = [secs |-> secs, i |-> 0],
         \A s \in Sector : s \in Range(secs) <=> hdr'[s] \in {"dirty", "current"},
         part'.current \in Range(secs) \cup {None},
         \A b \in Block : mt'[b] # None => mt'[b] \in Copies(b)' /\ hdr'[mt'[b][1]] # "gcing",
         \A s \in Range(part'.free) : pos'[s] = -1
  PROVE  ScanSound' /\ MapSound' /\ PositionsSound' /\ NewSound' /\ CopySound'
<1>1. \A i \in Slot : ~(i < 0) /\ i \in Nat
  BY SectorFacts
<1>2. 0 \in 0 .. NrPb /\ Range(secs) \subseteq Sector
  BY SectorFacts, SeqFacts
<1>3. scan'.secs = secs /\ scan'.i = 0
  OBVIOUS
<1>4. ScanSound'
  BY <1>1, <1>2, <1>3 DEF ScanSound, Sector, Slot
<1>5. \A q \in Place : ~Settled(q)'
  <2> SUFFICES ASSUME NEW q \in Place, Settled(q)' PROVE FALSE
    OBVIOUS
  <2>1. Live(q)' /\ hdr'[q[1]] # "gcing" /\ Passed(q)'
    BY DEF Settled, Writing, Collecting, Making, Dropping
  <2>2. q[1] \in Range(secs) /\ q[2] \in Slot
    BY <2>1, PlaceFacts DEF Live
  <2>3. q[2] < 0
    BY <1>3, <2>1, <2>2 DEF Passed
  <2> QED
    BY <1>1, <2>2, <2>3
<1>6. MapSound'
  BY <1>5 DEF MapSound, Booting, Collecting, Making, Dropping, Place, Sector, Slot
<1>7. ~Positioned'
  BY <1>3 DEF Positioned, Writing, Dropping
<1>8. PositionsSound'
  BY <1>7 DEF PositionsSound, Writing, Dropping
<1>9. NewSound' /\ CopySound'
  BY DEF NewSound, CopySound
<1> QED
  BY <1>4, <1>6, <1>8, <1>9

\* Every sector is formatted: one becomes current, and the scan of the blocks begins.
LEMMA BootCurrentInv ==
  ASSUME VdsInv, BootCurrent
  PROVE  VdsInv'
<1>1. /\ pc = "BootFill" /\ pc \in Booting /\ pc # "off" /\ RefCount(part) = NrSect
      /\ part.remain # None /\ part.temp = None /\ part \in Partition
      /\ ~(part.gcing # None /\ part.current # None)
      /\ TypeOK /\ UNCHANGED pb
  BY ListFacts DEF BootCurrent, Booting, VdsInv, StageSound, Making
<1>2. part.unformat = <<>>
  <2> DEFINE c == Len(part.unformat)
  <2>1. c \in Nat /\ (part.unformat = <<>> <=> c = 0) /\ NrSect \in Nat /\ NrSect + 1 + c = NrSect + 1
    BY <1>1, BootFacts, SectorFacts
  <2> HIDE DEF c
  <2>2. c = 0
    BY <2>1
  <2> QED
    BY <2>1, <2>2
<1>3. /\ \A b \in Block : mt[b] = None
      /\ call = None
      /\ \A s \in Sector : s = part.gcing <=> hdr[s] = "gcing"
      /\ \A s \in Range(part.free) : s \in Sector /\ hdr[s] = "free" /\ pos[s] = -1
  <2>1. call = None
    BY <1>1 DEF VdsInv, CallSound, Writing, Collecting, Making, Dropping
  <2>2. \A s \in Range(part.free) : s \in Sector /\ hdr[s] = "free" /\ pos[s] = -1
    BY <1>1, ListFacts, SeqFacts
  <2> QED
    BY <1>1, <2>1, <2>2, BootFacts DEF VdsInv, MapSound
<1>4. PICK r \in Sector : r = part.remain /\ hdr[r] \in {"remain", "blank"} /\ AllFresh(r)
  <2>1. part.remain \in Sector
    BY <1>1, ListFacts
  <2> QED
    BY <1>1, <2>1 DEF VdsInv, ListsSound
<1> DEFINE secs == part.dirty \o One(part.current)
<1>5. /\ secs \in Seq(Sector) /\ IsInjective(secs)
      /\ Range(secs) = Range(part.dirty) \cup (IF part.current = None THEN {} ELSE {part.current})
      /\ part.current # None => secs # <<>>
      /\ secs = <<>> => part.current = None /\ Range(part.dirty) = {}
  <2>1. part.current \notin Range(part.dirty)
    <3>1. Range(part.dirty) \subseteq Sector
      BY <1>1, ListFacts, SeqFacts
    <3>2. \A s \in Sector : ~(s \in Range(part.dirty) /\ s = part.current)
      BY <1>1, ListFacts
    <3> QED
      BY <3>1, <3>2
  <2> QED
    BY <1>1, <2>1, ListFacts, ScanSecs
<1>6. CASE part.current # None \/ part.gcing # None \/ part.free = <<>>
  <2>1. /\ UNCHANGED hdr /\ UNCHANGED part /\ UNCHANGED pos /\ UNCHANGED mt /\ UNCHANGED call
        /\ UNCHANGED flash
        /\ \/ /\ pc' = "BootScan" /\ scan' = [secs |-> secs, i |-> 0] /\ secs # <<>>
              /\ part.gcing = None <=> part.current # None
           \/ /\ pc' = "GcPick" /\ ret' = "idle" /\ secs = <<>>
              /\ part.gcing # None /\ part.current = None
           \/ /\ pc' = "GcPick" /\ ret' = "BootScan" /\ part.free = <<>>
              /\ part.gcing = None /\ part.current = None
    BY <1>1, <1>5, <1>6 DEF BootCurrent, StartScan, GoScan, GoGc, ram, flash
  <2>2. /\ HeadersSound' /\ SlotsSound' /\ CopiesSound' /\ TypeOK'
        /\ \A q : At(q)' = At(q) /\ (Live(q)' <=> Live(q)) /\ (Torn(q)' <=> Torn(q))
        /\ \A s : hdr'[s] = hdr[s]
    BY <1>1, <2>1, FlashStays DEF VdsInv, TypeOK, Place, Sector, Slot
  <2>3. PartSound'
    BY <1>1, <2>1, ListFacts DEF VdsInv, PartSound, Partition, Roles, Role, Sector
  <2>4. ListsSound'
    <3>1. AllFresh(r)'
      BY <1>4, <2>2 DEF AllFresh, Slot, Fresh
    <3> QED
      BY <1>1, <1>2, <1>3, <1>4, <2>1, <2>2, <3>1, EmptySeqFacts, SectorFacts DEF VdsInv, ListsSound, Sector
  <2>5. StageSound'
    BY <1>1, <1>2, <2>1 DEF StageSound, Booting, Writing, Making, Dropping, Collecting
  <2>6. CallSound'
    BY <1>3, <2>1 DEF CallSound, Writing, Making, Dropping, Collecting
  <2>7. CASE pc' = "BootScan"
    <3>1. scan' = [secs |-> secs, i |-> 0] /\ secs # <<>>
      BY <2>1, <2>7
    <3>2. \A s \in Sector : s \in Range(secs) <=> hdr'[s] \in {"dirty", "current"}
      BY <1>1, <1>5, <2>1, ListFacts, SectorFacts
    <3>3. part'.current \in Range(secs) \cup {None}
      BY <1>5, <2>1
    <3> HIDE DEF secs
    <3>4. ScanSound' /\ MapSound' /\ PositionsSound' /\ NewSound' /\ CopySound'
      BY <1>3, <1>5, <2>1, <2>7, <3>1, <3>2, <3>3, ScanBegins
    <3> QED
      BY <2>2, <2>3, <2>4, <2>5, <2>6, <3>4 DEF VdsInv
  <2>8. CASE pc' = "GcPick"
    <3>1. \A q \in Place : ~Settled(q)'
      <4> SUFFICES ASSUME NEW q \in Place, Settled(q)' PROVE FALSE
        OBVIOUS
      <4>1. ret' = "idle" /\ hdr[q[1]] = "dirty"
        BY <2>1, <2>8 DEF Settled, Writing, Dropping
      <4>2. Range(part.dirty) = {}
        <5> HIDE DEF secs
        <5>1. secs = <<>>
          BY <2>1, <2>8, <4>1
        <5> QED
          BY <1>5, <5>1
      <4> QED
        BY <1>1, <4>1, <4>2, PlaceFacts, ListFacts
    <3>2. MapSound'
      BY <1>3, <2>1, <3>1 DEF MapSound, Place, Sector, Slot
    <3>3. PositionsSound'
      BY <1>3, <2>1, <2>8 DEF PositionsSound, Positioned, Writing, Dropping
    <3>4. ScanSound' /\ NewSound' /\ CopySound'
      BY <2>8 DEF ScanSound, NewSound, CopySound
    <3> QED
      BY <2>2, <2>3, <2>4, <2>5, <2>6, <3>2, <3>3, <3>4 DEF VdsInv
  <2> QED
    BY <2>1, <2>7, <2>8
<1>7. CASE part.current = None /\ part.gcing = None /\ part.free # <<>>
  <2>1. PICK s \in Sector : /\ s = Last(part.free)
                            /\ s \in Range(part.free) /\ Front(part.free) \in Seq(Sector)
                            /\ IsInjective(Front(part.free)) /\ s \notin Range(Front(part.free))
                            /\ Range(part.free) = Range(Front(part.free)) \cup {s}
    BY <1>1, <1>7, FrontSeq, ListFacts
  <2>2. /\ part' = [part EXCEPT !.free = Front(part.free), !.current = s]
        /\ pos' = [pos EXCEPT ![s] = -1] /\ hdr' = [hdr EXCEPT ![s] = "current"]
        /\ StartScan(part') /\ UNCHANGED mt
    BY <1>7, <2>1 DEF BootCurrent
  <2>3. /\ part'.dirty = part.dirty /\ part'.free = Front(part.free) /\ part'.current = s
        /\ part'.gcing = None /\ part'.temp = None /\ part'.remain = part.remain
        /\ part'.unformat = <<>> /\ part' \in Partition
    BY <1>1, <1>2, <1>7, <2>1, <2>2 DEF Partition
  <2>4. hdr[s] = "free" /\ pos[s] = -1
    BY <1>3, <2>1
  <2>5. HeaderSet(s, "current") /\ hdr' \in [Sector -> Status] /\ SlotsStay
    BY <1>1, <2>2, SetHeader DEF Status, SlotsStay, At
  <2>6. ~Has("current") /\ ~Has("gcing")
    BY <1>1, <1>3, <1>7, ListFacts, SectorFacts DEF Has
  <2>7. \A t, u \in Sector : ~Counted(t) /\ ~Counted(u) => t = u
    BY <1>1, <1>2, OneUncounted
  <2>8. HeadersSound' /\ SlotsSound' /\ CopiesSound'
    BY <1>1, <2>4, <2>5, <2>6, <2>7, CurrentSound DEF VdsInv
  <2>9. /\ \A u \in Sector : pos'[u] = IF u = s THEN -1 ELSE pos[u]
        /\ pos' \in [Sector -> -1 .. NrPb - 1]
    <3>1. pos \in [Sector -> -1 .. NrPb - 1] /\ -1 \in -1 .. NrPb - 1
      BY <1>1, SectorFacts DEF TypeOK
    <3> QED
      BY <2>2, <3>1
  <2>10. TypeOK'
    BY <1>1, <2>2, <2>5, <2>9, <1>3 DEF StartScan, GoScan, GoGc, Finish, TypeOK, Status, Place, Sector, Slot
  <2>11. PartSound'
    <3>1. PICK role \in [Sector -> Role] : Roles(part, role)
      BY <1>1, ListFacts
    <3> DEFINE role1 == [role EXCEPT ![s] = "current"]
    <3>2. role1 \in [Sector -> Role] /\ \A u \in Sector : role1[u] = IF u = s THEN "current" ELSE role[u]
      BY DEF Role
    <3> HIDE DEF role1
    <3>3. Roles(part', role1)
      BY <1>1, <1>2, <1>7, <2>1, <2>3, <3>1, <3>2, SectorFacts DEF Roles
    <3> QED
      BY <1>1, <2>1, <2>3, <3>2, <3>3, ListFacts, EmptySeqFacts DEF PartSound, Partition, Sector
  <2>12. \A u \in Sector : hdr'[u] = IF u = s THEN "current" ELSE hdr[u]
    BY <2>5 DEF HeaderSet
  <2> DEFINE secs1 == part.dirty \o One(s)
  <2>13. /\ secs1 \in Seq(Sector) /\ IsInjective(secs1) /\ secs1 # <<>>
         /\ Range(secs1) = Range(part.dirty) \cup {s}
    <3>1. s \notin Range(part.dirty)
      BY <1>1, <2>4, ListFacts
    <3> QED
      BY <1>1, <3>1, ListFacts, ScanSecs, SectorFacts
  <2>14. pc' = "BootScan" /\ scan' = [secs |-> secs1, i |-> 0] /\ UNCHANGED call
    <3>1. part'.dirty \o One(part'.current) = secs1
      BY <2>3
    <3> QED
      BY <2>2, <2>13, <3>1 DEF StartScan, GoScan
  <2>15. ListsSound'
    <3>1. AllFresh(r)'
      BY <1>4, <2>5 DEF SlotsStay, AllFresh, Slot, Fresh
    <3>2. s # r /\ hdr'[r] \in {"remain", "blank"} /\ r = part'.remain
      BY <1>4, <2>3, <2>4, <2>12
    <3>3. ASSUME NEW u \in Sector
          PROVE  /\ u \in Range(part'.dirty) <=> hdr'[u] = "dirty"
                 /\ u = part'.current <=> hdr'[u] = "current"
                 /\ u \in Range(part'.free) => hdr'[u] = "free"
                 /\ u # part'.temp /\ u # part'.gcing /\ hdr'[u] # "gcing"
                 /\ u \notin Range(part'.unformat)
      <4>1. hdr[u] # "gcing" /\ hdr[u] # "current"
        BY <1>1, <1>3, <1>7, ListFacts, SectorFacts
      <4>2. u \in Range(part'.free) => hdr[u] = "free" /\ u # s
        BY <1>3, <2>1, <2>3
      <4> QED
        BY <1>1, <2>3, <2>4, <2>12, <4>1, <4>2, ListFacts, EmptySeqFacts, SectorFacts
    <3> QED
      BY <2>14, <3>1, <3>2, <3>3 DEF ListsSound, Sector
  <2>16. StageSound' /\ CallSound'
    BY <1>1, <1>3, <2>1, <2>3, <2>14, SectorFacts DEF StageSound, CallSound, Booting, Writing, Making, Dropping, Collecting
  <2>17. ScanSound' /\ MapSound' /\ PositionsSound' /\ NewSound' /\ CopySound'
    <3>1. \A u \in Sector : u \in Range(secs1) <=> hdr'[u] \in {"dirty", "current"}
      BY <1>1, <1>7, <2>12, <2>13, ListFacts, SectorFacts
    <3>2. part'.current \in Range(secs1) \cup {None}
      BY <2>3, <2>13
    <3>3. \A u \in Range(part'.free) : pos'[u] = -1
      BY <1>3, <2>1, <2>3, <2>9
    <3> HIDE DEF secs1
    <3> QED
      BY <1>3, <2>2, <2>13, <2>14, <3>1, <3>2, <3>3, ScanBegins
  <2> QED
    BY <2>8, <2>10, <2>11, <2>15, <2>16, <2>17 DEF VdsInv
<1> QED
  BY <1>6, <1>7

\* The victim is erased and becomes the remain sector; the caller of vds_Gc goes on.
LEMMA GcErasedInv ==
  ASSUME VdsInv, GcErased
  PROVE  VdsInv'
<1>1. /\ pc = "GcErasing" /\ pc # "off" /\ part.current # None /\ part.temp = None
      /\ part.remain = None /\ part.gcing # None /\ part.unformat = <<>> /\ part \in Partition
      /\ TypeOK /\ ret \in {"Status", "idle", "BootScan", "BootClean"}
      /\ call # None <=> ret = "Status"
  BY ListFacts DEF GcErased, Making, Dropping, Collecting, Writing, VdsInv, StageSound, CallSound, Booting
<1>2. PICK g \in Sector : g = part.gcing /\ hdr[g] = "erasing"
  BY <1>1, ListFacts DEF VdsInv, ListsSound
<1>3. PICK c \in Sector : c = part.current /\ hdr[c] = "current" /\ c # g
  BY <1>1, <1>2, ListFacts
<1>4. /\ hdr' = [hdr EXCEPT ![g] = "blank"] /\ pb' = [pb EXCEPT ![g] = [i \in Slot |-> Fresh]]
      /\ part' = [part EXCEPT !.gcing = None, !.remain = g]
      /\ pos' = IF ret = "Status" THEN [pos EXCEPT ![c] = pos[c] + 1] ELSE pos
      /\ UNCHANGED mt
  BY <1>1, <1>2, <1>3 DEF GcErased, Erased, Target
<1>5. /\ part'.dirty = part.dirty /\ part'.free = part.free /\ part'.current = c
      /\ part'.gcing = None /\ part'.temp = None /\ part'.remain = g
      /\ part'.unformat = <<>> /\ part' \in Partition
  BY <1>1, <1>2, <1>3, <1>4 DEF Partition
<1> DEFINE secs == part.dirty \o One(c)
<1>6. /\ secs \in Seq(Sector) /\ IsInjective(secs) /\ secs # <<>>
      /\ Range(secs) = Range(part.dirty) \cup {c}
  <2>1. c \notin Range(part.dirty)
    BY <1>1, <1>3, ListFacts
  <2> QED
    BY <1>1, <2>1, ListFacts, ScanSecs, SectorFacts
<1>7. \/ ret = "Status" /\ pc' = "Status" /\ UNCHANGED call
      \/ ret = "idle" /\ pc' = "idle" /\ call' = None
      \/ ret = "BootScan" /\ pc' = "BootScan" /\ scan' = [secs |-> secs, i |-> 0] /\ UNCHANGED call
      \/ ret = "BootClean" /\ pc' = "BootClean" /\ UNCHANGED call
  <2>1. part'.dirty \o One(part'.current) = secs
    BY <1>5
  <2> QED
    BY <1>1, <1>6, <2>1 DEF GcErased, StartScan, GoScan, Finish, Goto
<1>8. /\ HeaderSet(g, "blank") /\ hdr' \in [Sector -> Status]
      /\ SectorSet(g, Fresh) /\ pb' \in [Sector -> [Slot -> SlotType]]
  <2>1. Fresh \in SlotType
    BY <1>1, SlotFacts
  <2> QED
    BY <1>1, <1>4, <2>1, SetHeader, SetSector DEF Status
<1>9. SlotsSound' /\ CopiesSound' /\ CopiesStay
  BY <1>1, <1>2, <1>8, SectorSound DEF VdsInv
<1>10. \A u \in Sector : hdr'[u] = IF u = g THEN "blank" ELSE hdr[u]
  BY <1>8 DEF HeaderSet
<1>11. \A q \in Place : At(q)' = IF q[1] = g THEN Fresh ELSE At(q)
  BY <1>8 DEF SectorSet
<1>12. /\ HasData /\ HasData'
       /\ (Has("remain")' <=> Has("remain")) /\ (Has("gcing")' <=> Has("gcing"))
       /\ (Has("current")' <=> Has("current")) /\ Has("current")
       /\ \A u \in Sector : Counted(u)' <=> Counted(u)
       /\ ~Counted(g)
  BY <1>2, <1>3, <1>10 DEF HasData, Has, Sector, Counted
<1>13. ~Has("gcing") /\ \A u \in Sector : hdr[u] # "gcing"
  BY <1>12 DEF VdsInv, HeadersSound, Has
<1>14. HeadersSound'
  <2>1. \A t, u \in Sector : hdr'[t] = hdr'[u] /\ hdr'[t] \in {"remain", "current", "gcing"} => t = u
    BY <1>10 DEF VdsInv, HeadersSound
  <2> QED
    BY <1>12, <1>13, <2>1 DEF VdsInv, HeadersSound, Sector
<1>15. pos[c] \in -1 .. NrPb - 1 /\ (ret = "Status" => pos[c] + 1 \in 0 .. NrPb - 1)
  <2>1. pos[c] \in -1 .. NrPb - 1
    BY <1>1 DEF TypeOK
  <2>2. ret = "Status" => pos[c] + 1 < NrPb
    BY <1>1, <1>3 DEF VdsInv, PositionsSound, Dropping
  <2>3. NrPb \in Nat
    BY SectorFacts
  <2> QED
    BY <2>1, <2>2, <2>3
<1>16. /\ pos' \in [Sector -> -1 .. NrPb - 1]
       /\ \A u \in Sector : u # c => pos'[u] = pos[u]
       /\ pos'[c] = IF ret = "Status" THEN pos[c] + 1 ELSE pos[c]
  <2>1. pos \in [Sector -> -1 .. NrPb - 1]
    BY <1>1 DEF TypeOK
  <2>2. ret = "Status" => pos[c] + 1 \in -1 .. NrPb - 1
    BY <1>15, SectorFacts
  <2> QED
    BY <1>4, <2>1, <2>2
<1>17. TypeOK'
  BY <1>1, <1>4, <1>7, <1>8, <1>16 DEF TypeOK, Status, SlotType, Place, Sector, Slot
<1>18. PartSound'
  <2>1. PICK role \in [Sector -> Role] : Roles(part, role)
    BY <1>1, ListFacts
  <2> DEFINE role1 == [role EXCEPT ![g] = "remain"]
  <2>2. role1 \in [Sector -> Role] /\ \A u \in Sector : role1[u] = IF u = g THEN "remain" ELSE role[u]
    BY DEF Role
  <2> HIDE DEF role1
  <2>3. Roles(part', role1)
    BY <1>1, <1>2, <1>3, <1>5, <2>1, <2>2, SectorFacts DEF Roles
  <2> QED
    BY <1>1, <1>5, <2>2, <2>3, ListFacts, EmptySeqFacts DEF PartSound, Partition, Sector
<1>19. AllFresh(g)'
  BY <1>11, PlaceFacts DEF AllFresh, Slot, Fresh
<1>20. ListsSound'
  <2>1. ASSUME NEW u \in Sector
        PROVE  /\ u \in Range(part'.dirty) <=> hdr'[u] = "dirty"
               /\ u = part'.current <=> hdr'[u] = "current"
               /\ u \in Range(part'.free) => hdr'[u] = "free"
               /\ u # part'.temp /\ u # part'.gcing /\ hdr'[u] # "gcing"
               /\ u \notin Range(part'.unformat)
    BY <1>1, <1>2, <1>3, <1>5, <1>10, <1>13, ListFacts, EmptySeqFacts, SectorFacts
  <2>2. hdr'[g] = "blank" /\ g = part'.remain
    BY <1>5, <1>10
  <2> QED
    BY <1>7, <1>19, <2>1, <2>2 DEF ListsSound, Sector
<1>21. StageSound'
  BY <1>5, <1>7, <1>12, SectorFacts DEF StageSound, Booting, Writing, Making, Dropping, Collecting
<1>22. CallSound'
  BY <1>1, <1>7 DEF CallSound, Writing, Making, Dropping, Collecting
<1>23. CopySound'
  BY <1>7 DEF CopySound
<1>24. \A u \in Range(part'.free) : u \in Sector /\ pos'[u] = -1
  <2>1. \A u \in Range(part.free) : u \in Sector /\ hdr[u] = "free" /\ pos[u] = -1
    BY <1>1, ListFacts, SeqFacts
  <2> QED
    BY <1>3, <1>5, <1>16, <2>1
<1>25. \A b \in Block : mt[b] # None => mt[b] \in Copies(b)' /\ hdr'[mt[b][1]] # "gcing"
  <2>1. \A b \in Block : mt[b] # None => mt[b] \in Copies(b) /\ mt[b] \in Place
    BY CopyFacts DEF VdsInv, MapSound
  <2>2. \A q \in Place : hdr'[q[1]] # "gcing"
    BY <1>10, <1>13, PlaceFacts
  <2> QED
    BY <1>9, <2>1, <2>2 DEF CopiesStay
<1>26. ASSUME ret \in {"Status", "idle"}
       PROVE  /\ MapSound'
              /\ \A i \in Slot : /\ i > pos[c] => Clear(<<c, i>>)'
                                 /\ i <= pos[c] => At(<<c, i>>)'.st # "free"
  <2>1. ASSUME NEW q \in Place, Live(q)'
        PROVE  Settled(q) /\ Live(q) /\ At(q)' = At(q)
    <3>1. q[1] # g /\ hdr[q[1]] \in {"dirty", "current"} /\ Live(q)
      BY <1>10, <1>13, <2>1, PlaceFacts DEF Live
    <3> QED
      BY <1>1, <1>11, <1>26, <3>1 DEF Settled, Collecting, Dropping
  <2>2. \A q \in Place : Settled(q) => /\ \A b \in Block : q \in Copies(b) => mt[b] = q
                                       /\ ~Torn(q)
    BY <1>1 DEF VdsInv, MapSound
  <2>3. \A q \in Place : ~Torn(q)'
    BY <2>1, <2>2 DEF Torn
  <2>4. \A b \in Block : \A q \in Copies(b)' : mt[b] = q
    BY <1>9, <2>1, <2>2, CopyFactsPrime DEF CopiesStay
  <2>5. MapSound'
    BY <1>4, <1>7, <1>25, <1>26, <2>3, <2>4 DEF MapSound, Booting, Collecting, Making, Dropping, Place, Sector, Slot
  <2>6. Positioned
    BY <1>1, <1>26 DEF Positioned, Dropping
  <2>7. \A i \in Slot : /\ i > pos[c] => Clear(<<c, i>>)
                        /\ i <= pos[c] => At(<<c, i>>).st # "free"
    <3>1. \A i \in Slot : i \in Nat
      BY SectorFacts
    <3>2. \A i \in Slot : /\ i > pos[c] => Clear(<<c, i>>)
                          /\ i < pos[c] \/ i = pos[c] => At(<<c, i>>).st # "free"
      BY <1>1, <1>3, <2>6 DEF VdsInv, PositionsSound
    <3> QED
      BY <1>15, <3>1, <3>2
  <2>8. \A i \in Slot : At(<<c, i>>)' = At(<<c, i>>)
    BY <1>3, <1>11, PlaceFacts
  <2> QED
    BY <2>5, <2>7, <2>8 DEF Clear, Fresh, Dead
<1>27. ScanSound' /\ MapSound' /\ PositionsSound' /\ NewSound'
  <2>0. \A i \in Slot : i \in Nat
    BY SectorFacts
  <2>1. CASE ret = "Status"
    <3>1. pc' = "Status" /\ pos'[part'.current] = pos[c] + 1 /\ part'.current = c
      BY <1>5, <1>7, <1>16, <2>1
    <3>2. \A i \in Slot : /\ i > pos[c] + 1 => i > pos[c]
                          /\ i < pos[c] + 1 => i <= pos[c]
      BY <1>15, <2>0
    <3>3. pos[c] + 1 # -1 /\ pos[c] + 1 > pos[c] /\ pos[c] + 1 \in Slot
      BY <1>15, <2>1 DEF Slot
    <3>4. PositionsSound'
      BY <1>24, <1>26, <2>1, <3>1, <3>2, <3>3 DEF PositionsSound, Writing, Dropping, Slot
    <3>5. NewSound'
      BY <1>26, <2>1, <3>1, <3>3 DEF NewSound, New
    <3> QED
      BY <1>26, <2>1, <3>1, <3>4, <3>5 DEF ScanSound
  <2>2. CASE ret = "idle"
    <3>1. pc' = "idle" /\ pos'[part'.current] = pos[c] /\ part'.current = c
      BY <1>5, <1>7, <1>16, <2>2
    <3>2. \A i \in Slot : i < pos[c] \/ i = pos[c] => i <= pos[c]
      BY <1>15, <2>0
    <3>4. PositionsSound'
      BY <1>24, <1>26, <2>2, <3>1, <3>2 DEF PositionsSound, Writing, Dropping, Slot
    <3> QED
      BY <1>26, <2>2, <3>1, <3>4 DEF ScanSound, NewSound
  <2>3. CASE ret = "BootScan"
    <3>1. pc' = "BootScan" /\ scan' = [secs |-> secs, i |-> 0]
      BY <1>7, <2>3
    <3>2. \A u \in Sector : u \in Range(secs) <=> hdr'[u] \in {"dirty", "current"}
      BY <1>1, <1>2, <1>3, <1>6, <1>10, ListFacts
    <3>3. part'.current \in Range(secs) \cup {None}
      BY <1>5, <1>6
    <3> HIDE DEF secs
    <3> QED
      BY <1>4, <1>6, <1>24, <1>25, <3>1, <3>2, <3>3, ScanBegins
  <2>4. CASE ret = "BootClean"
    <3>1. pc' = "BootClean" /\ \A b \in Block : mt'[b] = None
      BY <1>1, <1>4, <1>7, <2>4 DEF VdsInv, MapSound, Collecting, Dropping
    <3>2. \A q : ~Settled(q)'
      BY <3>1 DEF Settled, Writing, Collecting, Making, Dropping
    <3>3. MapSound'
      BY <3>1, <3>2 DEF MapSound
    <3>4. PositionsSound'
      BY <1>24, <3>1 DEF PositionsSound, Positioned, Writing, Dropping
    <3> QED
      BY <3>1, <3>3, <3>4 DEF ScanSound, NewSound
  <2> QED
    BY <1>1, <2>1, <2>2, <2>3, <2>4
<1> QED
  BY <1>9, <1>14, <1>17, <1>18, <1>20, <1>21, <1>22, <1>23, <1>27 DEF VdsInv

-----------------------------------------------------------------------------
(* The invariant and what follows from it. *)

\* The theorems are about a driver that never fails to leave an INVALID mark nor in a copy.
LEMMA NoFault ==
  ASSUME Faults = {}
  PROVE  ~Fault
BY DEF Fault, InvalidateFails, WriteLeaves, ScanFails, CopyFails

\* Every step keeps it, whatever the power does.
LEMMA StepInv ==
  ASSUME Faults = {}, VdsInv, [Next]_vars
  PROVE  VdsInv'
<1>1. CASE Boot
  BY <1>1, InitEntryInv, BootCleanInv, BootSetRemainInv, BootFormatInv, BootCurrentInv, BootErasedInv DEF Boot
<1>2. CASE Scan
  BY <1>2, ScanSlotInv, ScanEndInv DEF Scan
<1>3. CASE Gc
  BY <1>3, GcPickInv, GcTempInv, GcPbdInv, GcPbInv, GcCurrentInv, GcMarkInv, GcErasedInv DEF Gc
<1>4. CASE Write
  BY <1>4, MoveInv, PopInv, WriteFailsInv, SetStatusInv, WritePBInv, WritePBDInv, InvalidateInv DEF Write
<1>5. CASE EraseBegin
  BY <1>5, EraseBeginInv
<1>6. CASE Call
  <2>1. CASE \E b \in Block, d \in Data : WriteBlock(b, d)
    BY <2>1, WriteBlockInv
  <2>2. CASE \E b \in Block : RevertBlock(b)
    BY <2>2, RevertBlockInv
  <2> QED
    BY <1>6, <2>1, <2>2 DEF Call
<1>7. CASE PowerCut
  BY <1>7, PowerCutInv
<1>8. CASE UNCHANGED vars
  <2>1. /\ UNCHANGED flash /\ UNCHANGED part /\ UNCHANGED pos /\ UNCHANGED mt
        /\ UNCHANGED pc /\ UNCHANGED ret /\ UNCHANGED scan /\ UNCHANGED call
        /\ UNCHANGED hdr /\ UNCHANGED pb
    BY <1>8 DEF vars, flash, ram, ctl
  <2>2. HeadersSound' /\ SlotsSound' /\ CopiesSound'
    BY <2>1, FlashStays DEF VdsInv
  <2>3. /\ \A q : (Settled(q)' <=> Settled(q)) /\ (Torn(q)' <=> Torn(q))
        /\ \A b : \A q : q \in Copies(b)' <=> q \in Copies(b)
        /\ \A u, i : Clear(<<u, i>>)' <=> Clear(<<u, i>>)
        /\ \A u : (AllFresh(u)' <=> AllFresh(u)) /\ (Counted(u)' <=> Counted(u)) /\ hdr'[u] = hdr[u]
        /\ (HasData' <=> HasData) /\ (Has("remain")' <=> Has("remain"))
        /\ Positioned' <=> Positioned
        /\ \A q : At(q)' = At(q)
        /\ New' = New /\ Old' = Old /\ Copied' = Copied /\ Version' = Version
        /\ Count(part.gcing)' = Count(part.gcing)
        /\ At(New)' = At(New) /\ (Clear(New)' <=> Clear(New)) /\ (Old # New)' = (Old # New)
    BY <2>1 DEF Settled, Passed, Live, Torn, Copies, Place, Sector, Slot, At, Clear, AllFresh, Counted,
                HasData, Has, Positioned, New, Old, Copied, Version, ValidSlots, Count, Fresh, Dead
  <2>4. TypeOK'
    BY <2>1 DEF VdsInv, TypeOK, Sector, Slot, Place
  <2>5. PartSound'
    BY <2>1 DEF VdsInv, PartSound, Roles, Partition, Sector
  <2>6. ListsSound'
    BY <2>1, <2>3 DEF VdsInv, ListsSound, Sector
  <2>7. StageSound'
    BY <2>1, <2>3 DEF VdsInv, StageSound
  <2>8. CallSound' /\ ScanSound'
    BY <2>1, <2>3 DEF VdsInv, CallSound, ScanSound, Sector, Slot
  <2>9. MapSound'
    BY <2>1, <2>3 DEF VdsInv, MapSound, Place, Sector, Slot
  <2>10. PositionsSound'
    BY <2>1, <2>3 DEF VdsInv, PositionsSound, Slot
  <2>11. NewSound'
    BY <2>1, <2>3 DEF VdsInv, NewSound, Fresh
  <2>12. CopySound'
    BY <2>1, <2>3 DEF VdsInv, CopySound, Slot, Fresh
  <2> QED
    BY <2>2, <2>4, <2>5, <2>6, <2>7, <2>8, <2>9, <2>10, <2>11, <2>12 DEF VdsInv
<1> QED
  BY <1>1, <1>2, <1>3, <1>4, <1>5, <1>6, <1>7, <1>8, NoFault DEF Next, Step

\* The inductive invariant holds in every state, whatever the number of sectors and blocks
\* and for every number of slots vds_Gc can copy (VdsConstants), wherever the power is cut,
\* as long as every INVALID mark is written: after an error at vds_api.c:373 it does not.
THEOREM VdsInvariant ==
  ASSUME Faults = {}
  PROVE  Spec => []VdsInv
<1>1. Init => VdsInv
  BY InitInv
<1>2. VdsInv /\ [Next]_vars => VdsInv'
  BY StepInv
<1> QED
  BY <1>1, <1>2, PTL DEF Spec

\* The types hold: no position leaves its sector, and no word of a slot is programmed twice
\* between two erases (vds_WritePB, vds_WritePBD and the copies of vds_Gc).
THEOREM TypesHold ==
  ASSUME Faults = {}
  PROVE  Spec => []TypeOK
<1>1. VdsInv => TypeOK
  BY DEF VdsInv
<1>2. Spec => []VdsInv
  BY VdsInvariant
<1> QED
  BY <1>1, <1>2, PTL

\* Two copies of a block that vds_SetMTByScanSec may find never have the same version, so the
\* comparison of vds_SetMT always has one answer.
THEOREM VersionsDecideAlways ==
  ASSUME Faults = {}
  PROVE  Spec => []VersionsDecide
<1>1. VdsInv => VersionsDecide
  BY DEF VdsInv, CopiesSound, VersionsDecide
<1>2. Spec => []VdsInv
  BY VdsInvariant
<1> QED
  BY <1>1, <1>2, PTL

\* Between two calls the map table and the flash say the same.
LEMMA IdleMap ==
  ASSUME VdsInv, pc = "idle", NEW b \in Block
  PROVE  /\ Copies(b) = IF mt[b] = None THEN {} ELSE {mt[b]}
         /\ ReadBlock(b) = Stored[b]
<1>1. /\ Copies(b) = IF mt[b] = None THEN {} ELSE {mt[b]}
      /\ mt[b] # None => At(mt[b]).st = "valid" /\ mt[b] \in Copies(b)
  BY IdleFacts, CopyFacts
<1>2. CASE mt[b] = None
  BY <1>1, <1>2 DEF ReadBlock, Stored
<1>3. CASE mt[b] # None
  <2>1. Newest(b) = mt[b]
    <3>1. \A q \in Copies(b) : q = mt[b]
      BY <1>1, <1>3
    <3>2. mt[b] \in Copies(b) /\ At(mt[b]).ver \in Nat
      BY <1>1, <1>3, CopyFacts, SlotFacts DEF VdsInv
    <3>3. \E p \in Copies(b) : \A q \in Copies(b) : At(q).ver <= At(p).ver
      BY <3>1, <3>2
    <3>4. Newest(b) \in Copies(b)
      BY <3>3 DEF Newest
    <3> QED
      BY <3>1, <3>4
  <2>2. Stored[b] = At(mt[b]).data
    BY <1>1, <1>3, <2>1 DEF Stored
  <2> QED
    BY <1>1, <1>3, <2>2 DEF ReadBlock
<1> QED
  BY <1>1, <1>2, <1>3

\* Between two calls the map table (psMT) names the one valid copy of each block and
\* VDS_ReadBlock returns what a start-up would find.
THEOREM MapIsExactAlways ==
  ASSUME Faults = {}
  PROVE  Spec => []MapIsExact
<1>1. ASSUME VdsInv, pc = "idle", NEW p \in Place, At(p).st = "valid"
      PROVE  At(p).vbn \in Block
  <2>1. /\ part.unformat = <<>> /\ part.temp = None
        /\ part.remain # None /\ part.gcing = None
    BY <1>1 DEF VdsInv, StageSound, Booting, Making
  <2>2. p[1] \in Sector /\ p[2] \in Slot /\ p = <<p[1], p[2]>>
    BY PlaceFacts
  <2>3. p[1] # part.remain
    <3> SUFFICES ASSUME p[1] = part.remain PROVE FALSE
      OBVIOUS
    <3>1. AllFresh(p[1])
      BY <1>1, <2>2 DEF VdsInv, ListsSound
    <3> QED
      BY <1>1, <2>2, <3>1 DEF AllFresh, Fresh
  <2>4. Counted(p[1])
    BY <1>1, <2>1, <2>2, <2>3, OneUncounted
  <2>5. hdr[p[1]] # "free"
    BY <1>1, <2>2 DEF VdsInv, SlotsSound, Clear, Fresh, Dead
  <2>6. Live(p)
    BY <2>4, <2>5 DEF Counted, Live
  <2>7. Settled(p)
    BY <1>1, <2>6 DEF Settled
  <2>8. ~Torn(p)
    BY <1>1, <2>7 DEF VdsInv, MapSound
  <2> QED
    BY <1>1, <2>6, <2>8, SlotFacts DEF Torn, VdsInv
<1>2. VdsInv => MapIsExact
  BY <1>1, IdleMap DEF MapIsExact
<1>3. Spec => []VdsInv
  BY VdsInvariant
<1> QED
  BY <1>2, <1>3, PTL

\* vds_Gc always finds a sector to collect and a remain sector to copy to, and vds_InitEntry
\* never gives up: the blocks of the partition always fit.
THEOREM NeverFullAlways ==
  ASSUME Faults = {}
  PROVE  Spec => []NeverFull
<1>1. VdsInv => NeverFull
  <2> SUFFICES ASSUME VdsInv PROVE NeverFull
    OBVIOUS
  <2>1. pc = "GcPick" => part.gcing # None \/ Emptiest(part.dirty) # {}
    BY SomethingToCollect
  <2>2. pc = "GcTemp" => part.remain # None
    BY DEF VdsInv, StageSound
  <2>3. pc # "failed"
    BY DEF VdsInv, StageSound, Booting, Writing, Collecting, Making, Dropping
  <2> QED
    BY <2>1, <2>2, <2>3 DEF NeverFull
<1>2. Spec => []VdsInv
  BY VdsInvariant
<1> QED
  BY <1>1, <1>2, PTL

\* Between two calls the lists of the partition in RAM are those of the headers, the slots
\* the position still promises are erased, and so is the remain sector.
THEOREM ListsMatchFlashAlways ==
  ASSUME Faults = {}
  PROVE  Spec => []ListsMatchFlash
<1>1. ASSUME VdsInv, pc = "idle"
      PROVE  RefCount(part) = NrSect
  <2>1. PICK role \in [Sector -> Role] : Roles(part, role)
    BY <1>1, ListFacts
  <2> DEFINE n == RefCount(part)
  <2>2. /\ n \in Nat
        /\ n + Len(One(part.temp)) + Len(One(part.remain)) + Len(part.unformat) = NrSect + 1
        /\ \A s : Len(One(s)) = IF s = None THEN 0 ELSE 1
    BY <1>1, <2>1, ListFacts, SectorsCounted
  <2>3. part.temp = None /\ part.remain # None /\ part.unformat = <<>>
    BY <1>1 DEF VdsInv, StageSound, Booting, Making
  <2>4. Len(One(part.temp)) = 0 /\ Len(One(part.remain)) = 1 /\ Len(part.unformat) = 0
    BY <2>2, <2>3, EmptySeqFacts
  <2>5. NrSect \in Nat
    BY SectorFacts
  <2> HIDE DEF n
  <2>6. n + 0 + 1 + 0 = NrSect + 1
    BY <2>2, <2>4
  <2>7. n = NrSect
    BY <2>2, <2>5, <2>6
  <2> QED
    BY <2>7 DEF n
<1>2. ASSUME VdsInv, pc = "idle"
      PROVE  ListsMatchFlash
  <2>1. part.remain # None /\ part.current # None /\ part.remain \in Sector /\ part.current \in Sector
    BY <1>2, ListFacts DEF VdsInv, StageSound
  <2>2. \A s \in Sector : /\ s \in Range(part.dirty) <=> hdr[s] = "dirty"
                          /\ s = part.current <=> hdr[s] = "current"
    BY <1>2, ListFacts
  <2>3. \A i \in Slot : i > pos[part.current] => pb[part.current][i] \in {Fresh, Dead}
    <3>1. Positioned
      BY <1>2 DEF Positioned
    <3>2. \A i \in Slot : i > pos[part.current] => Clear(<<part.current, i>>)
      BY <1>2, <3>1 DEF VdsInv, PositionsSound
    <3> QED
      BY <3>2 DEF Clear, At
  <2>4. \A i \in Slot : pb[part.remain][i] = Fresh
    <3>1. AllFresh(part.remain)
      BY <1>2, <2>1 DEF VdsInv, ListsSound
    <3> QED
      BY <3>1 DEF AllFresh, At
  <2> QED
    BY <1>1, <1>2, <2>1, <2>2, <2>3, <2>4 DEF ListsMatchFlash
<1>3. VdsInv => ListsMatchFlash
  BY <1>2 DEF ListsMatchFlash
<1>4. Spec => []VdsInv
  BY VdsInvariant
<1> QED
  BY <1>3, <1>4, PTL

-----------------------------------------------------------------------------
(* The newest copy of a block. *)

\* A finite set of numbers has a largest.
LEMMA GreatestNat ==
  ASSUME NEW S \in SUBSET Nat, IsFiniteSet(S), S # {}
  PROVE  \E m \in S : \A n \in S : n <= m
<1> DEFINE k == Cardinality(S)
<1>1. k \in Nat /\ k # 0
  BY FS_CardinalityType, FS_EmptySet
<1>2. k \in 1..k
  BY <1>1
<1>3. PICK s \in S : Cardinality({u \in S : u < s}) = k - 1
  BY <1>2, RankOnto
<1> DEFINE B == {u \in S : u < s}
<1>4. /\ IsFiniteSet(S \ {s}) /\ Cardinality(S \ {s}) = k - 1
  BY FS_RemoveElement
<1>5. B \in SUBSET (S \ {s})
  OBVIOUS
<1>6. B = S \ {s}
  <2>1. IsFiniteSet(B) /\ Cardinality(B) <= Cardinality(S \ {s})
        /\ (Cardinality(S \ {s}) = Cardinality(B) => S \ {s} = B)
    BY <1>4, <1>5, FS_Subset
  <2> QED
    BY <1>3, <1>4, <2>1
<1>7. \A u \in S : u # s => u < s
  BY <1>6
<1> QED
  BY <1>3, <1>7

\* The places of a partition are finitely many.
LEMMA PlacesFinite == IsFiniteSet(Place)
BY SectorFacts, FS_Product DEF Place

\* Places with different numbers: one of them has the largest.
LEMMA LargestPlace ==
  ASSUME NEW C \in SUBSET Place, NEW f \in [C -> Nat], \A p, q \in C : p # q => f[p] # f[q]
  PROVE  /\ C # {} => \E p \in C : \A q \in C : f[q] <= f[p]
         /\ \A p, q \in C : (\A r \in C : f[r] <= f[p]) /\ (\A r \in C : f[r] <= f[q]) => p = q
<1>1. IsFiniteSet(C)
  BY PlacesFinite, FS_Subset
<1> DEFINE V == {f[p] : p \in C}
<1>2. IsFiniteSet(V)
  <2>1. f \in Surjection(C, V)
    BY DEF Surjection
  <2> QED
    BY <1>1, <2>1, FS_Surjection DEF ExistsSurjection
<1>3. ASSUME C # {}
      PROVE  \E p \in C : \A q \in C : f[q] <= f[p]
  <2>1. V \in SUBSET Nat /\ V # {}
    BY <1>3
  <2>2. PICK m \in V : \A n \in V : n <= m
    BY <1>2, <2>1, GreatestNat
  <2>3. PICK p \in C : f[p] = m
    BY <2>2
  <2> QED
    BY <2>2, <2>3
<1>4. ASSUME NEW p \in C, NEW q \in C, \A r \in C : f[r] <= f[p], \A r \in C : f[r] <= f[q]
      PROVE  p = q
  <2>1. f[p] <= f[q] /\ f[q] <= f[p] /\ f[p] \in Nat /\ f[q] \in Nat
    BY <1>4
  <2>2. f[p] = f[q]
    BY <2>1
  <2> QED
    BY <2>2
<1> QED
  BY <1>3, <1>4

\* A copy of a block with no version above its own.
IsNewest(b, p) == p \in Copies(b) /\ \A q \in Copies(b) : At(q).ver <= At(p).ver

\* The newest copy of a block is the one stored.
LEMMA NewestFacts ==
  ASSUME TypeOK, CopiesSound, NEW b \in Block
  PROVE  /\ Copies(b) = {} => Stored[b] = None
         /\ Copies(b) # {} => \E p \in Copies(b) : IsNewest(b, p)
         /\ \A p : IsNewest(b, p) => Stored[b] = At(p).data
<1> DEFINE f == [p \in Copies(b) |-> At(p).ver]
<1>1. Copies(b) \in SUBSET Place /\ f \in [Copies(b) -> Nat]
  BY CopyFacts, SlotFacts
<1>2. \A p, q \in Copies(b) : p # q => f[p] # f[q]
  BY DEF CopiesSound
<1>3. /\ Copies(b) # {} => \E p \in Copies(b) : \A q \in Copies(b) : f[q] <= f[p]
      /\ \A p, q \in Copies(b) :
           (\A r \in Copies(b) : f[r] <= f[p]) /\ (\A r \in Copies(b) : f[r] <= f[q]) => p = q
  <2> HIDE DEF f
  <2> QED
    BY <1>1, <1>2, LargestPlace
<1>4. \A p : IsNewest(b, p) <=> p \in Copies(b) /\ \A q \in Copies(b) : f[q] <= f[p]
  BY DEF IsNewest
<1>5. ASSUME NEW p, IsNewest(b, p)
      PROVE  Stored[b] = At(p).data
  <2>1. Newest(b) = CHOOSE q \in Copies(b) : \A u \in Copies(b) : At(u).ver <= At(q).ver
    BY DEF Newest
  <2>2. IsNewest(b, Newest(b)) /\ Copies(b) # {}
    BY <1>5, <2>1 DEF IsNewest
  <2>3. Newest(b) = p
    <3> HIDE DEF f
    <3> QED
      BY <1>3, <1>4, <1>5, <2>2
  <2> QED
    BY <2>2, <2>3 DEF Stored
<1>6. Copies(b) = {} => Stored[b] = None
  BY DEF Stored
<1> QED
  BY <1>3, <1>4, <1>5, <1>6

\* The newest copy of a block is the one stored, after the step.
LEMMA NewestFactsPrime ==
  ASSUME TypeOK', CopiesSound', NEW b \in Block
  PROVE  /\ Copies(b)' = {} => Stored'[b] = None
         /\ Copies(b)' # {} => \E p \in Copies(b)' : IsNewest(b, p)'
         /\ \A p : IsNewest(b, p)' => Stored'[b] = At(p)'.data
<1> DEFINE f == [p \in Copies(b)' |-> At(p)'.ver]
<1>1. Copies(b)' \in SUBSET Place /\ f \in [Copies(b)' -> Nat]
  <2>1. \A p \in Place : At(p)'.ver \in Nat
    <3>1. pb' \in [Sector -> [Slot -> SlotType]]
      BY DEF TypeOK, Sector, Slot, SlotType
    <3>2. \A p \in Place : At(p)' \in SlotType
      BY <3>1, PlaceFacts DEF At
    <3> QED
      BY <3>2 DEF SlotType
  <2> QED
    BY <2>1, CopyFactsPrime
<1>2. \A p, q \in Copies(b)' : p # q => f[p] # f[q]
  BY DEF CopiesSound
<1>3. /\ Copies(b)' # {} => \E p \in Copies(b)' : \A q \in Copies(b)' : f[q] <= f[p]
      /\ \A p, q \in Copies(b)' :
           (\A r \in Copies(b)' : f[r] <= f[p]) /\ (\A r \in Copies(b)' : f[r] <= f[q]) => p = q
  <2> HIDE DEF f
  <2> QED
    BY <1>1, <1>2, LargestPlace
<1>4. \A p : IsNewest(b, p)' <=> p \in Copies(b)' /\ \A q \in Copies(b)' : f[q] <= f[p]
  BY DEF IsNewest
<1>5. ASSUME NEW p, IsNewest(b, p)'
      PROVE  Stored'[b] = At(p)'.data
  <2>1. PICK n : n = CHOOSE q \in Copies(b)' : \A u \in Copies(b)' : At(u)'.ver <= At(q)'.ver
    OBVIOUS
  <2>2. n \in Copies(b)' /\ \A u \in Copies(b)' : At(u)'.ver <= At(n)'.ver
    <3>1. \E q \in Copies(b)' : \A u \in Copies(b)' : At(u)'.ver <= At(q)'.ver
      BY <1>5 DEF IsNewest
    <3> QED
      BY <2>1, <3>1
  <2>3. n = p
    <3>1. \A u \in Copies(b)' : f[u] <= f[n]
      BY <2>2
    <3> HIDE DEF f
    <3> QED
      BY <1>3, <1>4, <1>5, <2>2, <3>1
  <2>4. Newest(b)' = n
    BY <2>1 DEF Newest
  <2>5. Stored'[b] = At(n)'.data
    <3>1. Stored'[b] = At(Newest(b))'.data
      BY <2>2 DEF Stored
    <3>2. At(Newest(b))' = At(n)'
      BY <2>4 DEF At
    <3> QED
      BY <3>1, <3>2
  <2> QED
    BY <2>3, <2>5
<1>6. Copies(b)' = {} => Stored'[b] = None
  BY DEF Stored
<1> QED
  BY <1>3, <1>4, <1>5, <1>6

\* What is stored is a function of the block.
LEMMA StoredFunction ==
  /\ Stored = [b \in Block |-> Stored[b]]
  /\ Stored' = [b \in Block |-> Stored'[b]]
<1>1. Stored = [b \in Block |-> Stored[b]]
  BY DEF Stored
<1>2. Stored' = [b \in Block |-> Stored'[b]]
  BY DEF Stored
<1> QED
  BY <1>1, <1>2

-----------------------------------------------------------------------------
(* What each step does to what is stored. *)

\* A block keeps its contents when it loses copies that were not its newest.
LEMMA StoreKept ==
  ASSUME TypeOK, CopiesSound, TypeOK', CopiesSound', NEW b \in Block,
         \A p \in Copies(b)' : p \in Copies(b) /\ At(p)' = At(p),
         \A p \in Copies(b) : p \notin Copies(b)' =>
           \E q \in Copies(b) : q # p /\ At(p).ver <= At(q).ver
  PROVE  Stored'[b] = Stored[b]
<1>1. CASE Copies(b) = {}
  <2>1. Copies(b)' = {}
    BY <1>1
  <2> QED
    BY <1>1, <2>1, NewestFacts, NewestFactsPrime
<1>2. CASE Copies(b) # {}
  <2>1. PICK p \in Copies(b) : IsNewest(b, p)
    BY <1>2, NewestFacts
  <2>2. p \in Copies(b)'
    <3> SUFFICES ASSUME p \notin Copies(b)' PROVE FALSE
      OBVIOUS
    <3>1. PICK q \in Copies(b) : q # p /\ At(p).ver <= At(q).ver
      OBVIOUS
    <3>2. At(q).ver <= At(p).ver /\ At(q).ver \in Nat /\ At(p).ver \in Nat
      BY <2>1, CopyFacts, SlotFacts DEF IsNewest
    <3>3. At(p).ver = At(q).ver
      BY <3>1, <3>2
    <3> QED
      BY <3>1, <3>3 DEF CopiesSound
  <2>3. IsNewest(b, p)'
    <3>1. \A q \in Copies(b)' : At(q)'.ver <= At(p)'.ver
      BY <2>1, <2>2 DEF IsNewest
    <3> QED
      BY <2>2, <3>1 DEF IsNewest
  <2>4. Stored[b] = At(p).data /\ Stored'[b] = At(p)'.data
    BY <2>1, <2>3, NewestFacts, NewestFactsPrime
  <2> QED
    BY <2>2, <2>4
<1> QED
  BY <1>1, <1>2

\* A copy of a block.
IsCopy(q) == Live(q) /\ At(q).st = "valid" /\ At(q).vbn # None

\* What touches no copy leaves every block as it was.
LEMMA StoreQuiet ==
  ASSUME TypeOK, CopiesSound, TypeOK', CopiesSound',
         \A q \in Place : /\ IsCopy(q)' <=> IsCopy(q)
                          /\ IsCopy(q) => At(q)' = At(q)
  PROVE  Stored' = Stored
<1>1. ASSUME NEW b \in Block
      PROVE  Stored'[b] = Stored[b]
  <2>1. b # None
    BY SectorFacts
  <2>2. \A q : q \in Copies(b) <=> q \in Place /\ IsCopy(q) /\ At(q).vbn = b
    BY <2>1, CopyFacts DEF IsCopy
  <2>3. \A q : q \in Copies(b)' <=> q \in Place /\ IsCopy(q)' /\ At(q)'.vbn = b
    BY <2>1, CopyFactsPrime DEF IsCopy
  <2>4. \A p \in Copies(b)' : p \in Copies(b) /\ At(p)' = At(p)
    BY <2>2, <2>3
  <2>5. \A p \in Copies(b) : p \in Copies(b)'
    BY <2>2, <2>3
  <2> QED
    BY <2>4, <2>5, StoreKept
<1> QED
  BY <1>1, StoredFunction

\* What leaves the flash alone leaves every block as it was.
LEMMA FlashQuiet ==
  ASSUME UNCHANGED hdr, UNCHANGED pb
  PROVE  Stored' = Stored
BY DEF Stored, Newest, Copies, At, Place, Sector, Slot

\* The header of a sector changes, and what it holds stays in use or out of use.
LEMMA HeaderQuiet ==
  ASSUME VdsInv, VdsInv', NEW s \in Sector, NEW st \in Status, hdr' = [hdr EXCEPT ![s] = st], UNCHANGED pb,
         hdr[s] = "free" \/ (hdr[s] \in {"dirty", "current", "gcing"} <=> st \in {"dirty", "current", "gcing"})
  PROVE  Stored' = Stored
<1>1. TypeOK /\ SlotsSound /\ CopiesSound /\ TypeOK' /\ CopiesSound'
  BY DEF VdsInv
<1>2. \A u \in Sector : hdr'[u] = IF u = s THEN st ELSE hdr[u]
  BY <1>1, SetHeader DEF HeaderSet
<1>3. \A q : At(q)' = At(q)
  BY DEF At
<1>4. ASSUME NEW q \in Place
      PROVE  IsCopy(q)' <=> IsCopy(q)
  <2>1. CASE q[1] = s /\ hdr[s] = "free"
    <3>1. At(q).st # "valid"
      BY <1>1, <2>1 DEF SlotsSound, Clear, Fresh, Dead
    <3> QED
      BY <1>3, <3>1 DEF IsCopy
  <2>2. CASE ~(q[1] = s /\ hdr[s] = "free")
    <3>1. Live(q)' <=> Live(q)
      BY <1>2, <2>2, PlaceFacts DEF Live
    <3> QED
      BY <1>3, <3>1 DEF IsCopy
  <2> QED
    BY <2>1, <2>2
<1> QED
  BY <1>1, <1>3, <1>4, StoreQuiet

\* The slots of a sector that is not in use change.
LEMMA SectorQuiet ==
  ASSUME VdsInv, VdsInv', NEW s \in Sector, hdr[s] \notin {"dirty", "current", "gcing"},
         \A u \in Sector : u # s => hdr'[u] = hdr[u], hdr'[s] \notin {"dirty", "current", "gcing"},
         \A q \in Place : q[1] # s => At(q)' = At(q)
  PROVE  Stored' = Stored
<1>1. TypeOK /\ CopiesSound /\ TypeOK' /\ CopiesSound'
  BY DEF VdsInv
<1>2. ASSUME NEW q \in Place
      PROVE  (Live(q)' <=> Live(q)) /\ (Live(q) => At(q)' = At(q))
  BY PlaceFacts DEF Live
<1> QED
  BY <1>1, <1>2, StoreQuiet DEF IsCopy

\* A slot that is no copy, before and after.
LEMMA SlotQuiet ==
  ASSUME VdsInv, VdsInv', NEW p \in Place, NEW r, SlotSet(p, r), UNCHANGED hdr, ~IsCopy(p),
         r.st # "valid" \/ r.vbn = None
  PROVE  Stored' = Stored
<1>1. TypeOK /\ CopiesSound /\ TypeOK' /\ CopiesSound'
  BY DEF VdsInv
<1>2. \A q \in Place : At(q)' = IF q = p THEN r ELSE At(q)
  BY DEF SlotSet
<1>3. \A q \in Place : Live(q)' <=> Live(q)
  BY DEF Live
<1>4. \A q \in Place : (IsCopy(q)' <=> IsCopy(q)) /\ (IsCopy(q) => At(q)' = At(q))
  BY <1>2, <1>3 DEF IsCopy
<1> QED
  BY <1>1, <1>4, StoreQuiet

\* No sector in use is erased.
LEMMA TargetFacts ==
  ASSUME VdsInv,
         \/ pc \in {"GcErase", "GcErasing", "BootRemain", "BootErasing", "FillErasing"}
         \/ pc = "BootFill" /\ RefCount(part) < NrSect
  PROVE  Target \in Sector /\ hdr[Target] \notin {"dirty", "current", "gcing"}
<1>1. pc # "off" /\ part.gcing \in Sector \cup {None} /\ part.remain \in Sector \cup {None}
  BY ListFacts
<1>2. CASE pc \in {"GcErase", "GcErasing"}
  <2>1. part.gcing \in Sector
    BY <1>1, <1>2 DEF VdsInv, StageSound, Dropping
  <2>2. hdr[part.gcing] = "erasing"
    BY <1>2, <2>1 DEF VdsInv, ListsSound
  <2> QED
    BY <1>2, <2>1, <2>2 DEF Target
<1>3. CASE pc \in {"BootRemain", "BootErasing"}
  <2>1. part.remain \in Sector
    BY <1>1, <1>3 DEF VdsInv, StageSound, Booting
  <2>2. ~Counted(part.remain)
    BY <1>3, <2>1 DEF VdsInv, ListsSound
  <2> QED
    BY <1>3, <2>1, <2>2 DEF Target, Counted
<1>4. CASE pc \in {"BootFill", "FillErasing"}
  <2>1. pc \in Booting /\ part.remain # None
    BY <1>4 DEF VdsInv, StageSound, Booting
  <2>2. part.unformat # <<>>
    <3>1. CASE pc = "FillErasing"
      BY <3>1 DEF VdsInv, StageSound
    <3>2. CASE pc = "BootFill"
      <4> DEFINE a == RefCount(part)  c == Len(part.unformat)
      <4>1. /\ a \in Nat /\ c \in Nat /\ a + 1 + c = NrSect + 1 /\ a < NrSect
            /\ part.unformat = <<>> <=> c = 0
        BY <2>1, <3>2, BootFacts
      <4> HIDE DEF a, c
      <4>2. c # 0
        BY <4>1, SectorFacts
      <4> QED
        BY <4>1, <4>2
    <3> QED
      BY <1>4, <3>1, <3>2
  <2>3. ~HasData /\ Last(part.unformat) \in Sector
    BY <2>1, <2>2, Unformatted
  <2> QED
    BY <1>4, <2>3 DEF Target, HasData
<1> QED
  BY <1>2, <1>3, <1>4

\* An erase stores nothing and loses nothing.
LEMMA EraseStore ==
  ASSUME VdsInv, VdsInv', EraseBegin \/ BootErased \/ GcErased
  PROVE  Stored' = Stored
<1>1. Target \in Sector /\ hdr[Target] \notin {"dirty", "current", "gcing"}
  BY TargetFacts DEF EraseBegin, Erasing, BootErased, GcErased
<1>2. PICK s \in Sector : s = Target
  BY <1>1
<1>3. /\ \/ pb' = [pb EXCEPT ![s] = [i \in Slot |-> Dead]]
         \/ pb' = [pb EXCEPT ![s] = [i \in Slot |-> Fresh]]
      /\ UNCHANGED hdr \/ hdr' = [hdr EXCEPT ![s] = "blank"]
  BY <1>2 DEF EraseBegin, BootErased, GcErased, Erased
<1>4. \A q \in Place : q[1] # s => At(q)' = At(q)
  BY <1>3, PlaceFacts DEF VdsInv, TypeOK, At
<1>5. hdr'[s] \notin {"dirty", "current", "gcing"} /\ \A u \in Sector : u # s => hdr'[u] = hdr[u]
  BY <1>1, <1>2, <1>3 DEF VdsInv, TypeOK
<1> QED
  BY <1>1, <1>2, <1>4, <1>5, SectorQuiet

\* A start-up stores nothing and loses nothing until its scan of the blocks.
LEMMA BootStore ==
  ASSUME VdsInv, VdsInv', InitEntry \/ BootClean \/ BootSetRemain \/ BootFormat \/ BootCurrent
  PROVE  Stored' = Stored
<1>1. CASE InitEntry \/ BootClean
  BY <1>1, FlashQuiet DEF InitEntry, BootClean, flash
<1>2. CASE BootSetRemain
  <2>1. pc = "BootSetRemain" /\ part.remain \in Sector
    BY <1>2, ListFacts DEF BootSetRemain, VdsInv, StageSound, Booting
  <2>2. hdr[part.remain] = "blank" /\ "remain" \in Status
    BY <2>1 DEF VdsInv, ListsSound, Status
  <2> QED
    BY <1>2, <2>1, <2>2, HeaderQuiet DEF BootSetRemain
<1>3. CASE BootFormat
  <2>1. pc = "BootFormat" /\ pc \in Booting /\ part.remain # None /\ part.unformat # <<>>
        /\ hdr[Last(part.unformat)] = "blank" /\ "free" \in Status
    BY <1>3 DEF BootFormat, VdsInv, StageSound, Booting, Status
  <2>2. Last(part.unformat) \in Sector
    BY <2>1, Unformatted
  <2> QED
    BY <1>3, <2>1, <2>2, HeaderQuiet DEF BootFormat
<1>4. CASE BootCurrent
  <2>1. CASE UNCHANGED hdr
    BY <1>4, <2>1, FlashQuiet DEF BootCurrent
  <2>2. CASE ~UNCHANGED hdr
    <3>1. hdr' = [hdr EXCEPT ![Last(part.free)] = "current"] /\ UNCHANGED pb /\ part.free # <<>>
          /\ pc # "off"
      BY <1>4, <2>2 DEF BootCurrent
    <3>2. Last(part.free) \in Sector /\ hdr[Last(part.free)] = "free" /\ "current" \in Status
      BY <3>1, FrontSeq, ListFacts DEF Status
    <3> QED
      BY <3>1, <3>2, HeaderQuiet
  <2> QED
    BY <2>1, <2>2
<1> QED
  BY <1>1, <1>2, <1>3, <1>4

\* The current sector changes, and what is stored does not.
LEMMA MoveStore ==
  ASSUME VdsInv, VdsInv', Move \/ Pop
  PROVE  Stored' = Stored
<1>1. CASE Move
  <2>1. CASE UNCHANGED hdr
    BY <1>1, <2>1, FlashQuiet DEF Move
  <2>2. CASE ~UNCHANGED hdr
    <3>1. hdr' = [hdr EXCEPT ![part.current] = "dirty"] /\ UNCHANGED pb /\ pc = "Move" /\ part.current # None
      BY <1>1, <2>2 DEF Move
    <3>2. part.current \in Sector /\ hdr[part.current] = "current" /\ "dirty" \in Status
      BY <3>1, ListFacts DEF Status
    <3> QED
      BY <3>1, <3>2, HeaderQuiet
  <2> QED
    BY <2>1, <2>2
<1>2. CASE Pop
  <2>1. hdr' = [hdr EXCEPT ![Head(part.free)] = "current"] /\ UNCHANGED pb /\ pc = "Pop" /\ part.free # <<>>
    BY <1>2 DEF Pop, VdsInv, StageSound
  <2>2. Head(part.free) \in Sector /\ hdr[Head(part.free)] = "free" /\ "current" \in Status
    BY <2>1, TailSeq, ListFacts DEF Status
  <2> QED
    BY <2>1, <2>2, HeaderQuiet
<1> QED
  BY <1>1, <1>2

\* The status, the data and a failure of a write show only in a slot without a block.
LEMMA SlotStore ==
  ASSUME VdsInv, VdsInv', SetStatus \/ WritePB \/ WriteFails
  PROVE  Stored' = Stored
<1>1. /\ pc \in {"Status", "Data", "Pbd"} /\ pc \in Writing /\ UNCHANGED hdr /\ TypeOK
  BY DEF SetStatus, WritePB, WriteFails, Writing, VdsInv
<1>2. New \in Place
  BY <1>1, WritingFacts
<1>3. /\ pc = "Status" => At(New) \in {Fresh, Dead}
      /\ pc # "Status" => At(New).st = "valid" /\ At(New).vbn = None
  BY <1>1, NotACopy
<1>4. At(New).vbn = None /\ ~IsCopy(New) /\ At(New) \in SlotType
  BY <1>1, <1>2, <1>3, SlotFacts DEF IsCopy, Fresh, Dead
<1>5. ASSUME NEW r, pb' = [pb EXCEPT ![New[1]][New[2]] = r], r.st # "valid" \/ r.vbn = None
      PROVE  Stored' = Stored
  <2>1. SlotSet(New, r)
    BY <1>1, <1>2, <1>5, SetSlot
  <2> QED
    BY <1>1, <1>2, <1>4, <1>5, <2>1, SlotQuiet
<1>6. CASE SetStatus
  <2> DEFINE r == [At(New) EXCEPT !.st = "valid"]
  <2>1. pb' = [pb EXCEPT ![New[1]][New[2]] = r]
    BY <1>6 DEF SetStatus, At
  <2>2. r.vbn = None
    BY <1>4 DEF SlotType
  <2> HIDE DEF r
  <2> QED
    BY <1>5, <2>1, <2>2
<1>7. CASE WritePB
  <2> DEFINE r == [At(New) EXCEPT !.data = Burn(@, call.data)]
  <2>1. pb' = [pb EXCEPT ![New[1]][New[2]] = r]
    BY <1>7 DEF WritePB, At
  <2>2. r.vbn = None
    BY <1>4 DEF SlotType
  <2> HIDE DEF r
  <2> QED
    BY <1>5, <2>1, <2>2
<1>8. CASE WriteFails
  <2>1. pb' = [pb EXCEPT ![New[1]][New[2]] = Dead] /\ Dead.st = "invalid"
    BY <1>1, <1>8, SlotFacts DEF WriteFails, Kill
  <2> QED
    BY <1>5, <2>1
<1> QED
  BY <1>6, <1>7, <1>8

\* Copies leave, and none of them was the newest of its block.
LEMMA StoreThinned ==
  ASSUME VdsInv, VdsInv',
         \A b \in Block : \A q : q \in Copies(b)' => q \in Copies(b) /\ At(q)' = At(q),
         \A b \in Block : \A p \in Copies(b) : p \notin Copies(b)' =>
           \E q \in Copies(b) : q # p /\ At(p).ver <= At(q).ver
  PROVE  Stored' = Stored
<1>1. TypeOK /\ CopiesSound /\ TypeOK' /\ CopiesSound'
  BY DEF VdsInv
<1>2. \A b \in Block : Stored'[b] = Stored[b]
  BY <1>1, StoreKept
<1> QED
  BY <1>2, StoredFunction

\* A collection copies where nobody looks yet.
LEMMA CollectStore ==
  ASSUME VdsInv, VdsInv', GcPick \/ GcTemp \/ GcPbd \/ GcPb
  PROVE  Stored' = Stored
<1>1. CASE GcPick
  <2>1. CASE UNCHANGED hdr
    BY <1>1, <2>1, FlashQuiet DEF GcPick, GcFails, flash
  <2>2. CASE ~UNCHANGED hdr
    <3>1. /\ hdr' = [hdr EXCEPT ![Pick] = "gcing"] /\ UNCHANGED pb
          /\ pc = "GcPick" /\ part.gcing = None /\ pc # "off"
      BY <1>1, <2>2 DEF GcPick, GcFails, flash
    <3>2. Victim \in 1..Len(part.dirty)
      BY <3>1, SomethingToCollect
    <3>3. Pick \in Range(part.dirty) /\ Pick \in Sector
      BY <3>1, <3>2, ListFacts DEF Pick, Range
    <3>4. hdr[Pick] = "dirty" /\ "gcing" \in Status
      BY <3>1, <3>3, ListFacts DEF Status
    <3> QED
      BY <3>1, <3>3, <3>4, HeaderQuiet
  <2> QED
    BY <2>1, <2>2
<1>2. CASE GcTemp
  <2>1. CASE UNCHANGED hdr
    BY <1>2, <2>1, FlashQuiet DEF GcTemp, GcFails, flash
  <2>2. CASE ~UNCHANGED hdr
    <3>1. /\ hdr' = [hdr EXCEPT ![part.remain] = "temp"] /\ UNCHANGED pb
          /\ pc = "GcTemp" /\ part.remain # None /\ pc # "off"
      BY <1>2, <2>2 DEF GcTemp, GcFails, flash
    <3>2. part.remain \in Sector /\ "temp" \in Status
      BY <3>1, ListFacts DEF Status
    <3>3. hdr[part.remain] \in {"remain", "blank"}
      BY <3>1, <3>2 DEF VdsInv, ListsSound
    <3> QED
      BY <3>1, <3>2, <3>3, HeaderQuiet
  <2> QED
    BY <2>1, <2>2
<1>3. CASE GcPbd \/ GcPb
  <2>1. pc \in Making /\ pc # "off" /\ UNCHANGED hdr
    BY <1>3 DEF GcPbd, GcPb, Making
  <2>2. PICK s \in Sector : s = part.temp
    BY <2>1, ListFacts DEF VdsInv, StageSound
  <2>3. hdr[s] = "temp"
    BY <2>1, <2>2 DEF VdsInv, ListsSound
  <2>4. \A u \in Sector : u # s => pb'[u] = pb[u]
    BY <1>3, <2>2 DEF GcPbd, GcPb, VdsInv, TypeOK
  <2>5. \A q \in Place : q[1] # s => At(q)' = At(q)
    BY <2>4, PlaceFacts DEF At
  <2> QED
    BY <2>1, <2>3, <2>5, SectorQuiet
<1> QED
  BY <1>1, <1>2, <1>3

\* The scan invalidates a copy only beside one at least as new.
LEMMA ScanStore ==
  ASSUME VdsInv, VdsInv', ScanSlot \/ ScanEnd
  PROVE  Stored' = Stored
<1>1. CASE ScanEnd
  BY <1>1, FlashQuiet DEF ScanEnd, flash
<1>2. CASE ScanSlot
  <2>1. PICK gone \in Place \cup {None} :
           /\ pb' = IF gone = None THEN pb ELSE Kill(gone)
           /\ gone # None => pc = "BootScan" /\ gone \in Place /\ Live(gone)
           /\ \A b \in Block : gone \in Copies(b) =>
                \E q \in Copies(b) : q # gone /\ At(gone).ver <= At(q).ver
    BY <1>2, ScanSlotMap
  <2>2. UNCHANGED hdr /\ TypeOK /\ HeadersStay
    BY <1>2 DEF ScanSlot, VdsInv, HeadersStay
  <2>3. CASE gone = None
    BY <2>1, <2>2, <2>3, FlashQuiet
  <2>4. CASE gone # None
    <3>1. SlotSet(gone, Dead)
      BY <2>1, <2>2, <2>4, SetSlot DEF Kill
    <3>2. pc \in {"BootScan", "GcScan"} /\ ~(Has("gcing") /\ Has("current"))
      BY <2>1, <2>4, ScanFacts
    <3>3. \A b \in Block : \A q : q \in Copies(b)' <=> q \in Copies(b) /\ q # gone
      BY <2>1, <2>2, <2>4, <3>1, <3>2, KillSound DEF VdsInv
    <3>4. \A q \in Place : q # gone => At(q)' = At(q)
      BY <3>1 DEF SlotSet
    <3>5. \A b \in Block : \A q : q \in Copies(b)' => q \in Copies(b) /\ At(q)' = At(q)
      BY <3>3, <3>4, CopyFacts
    <3>6. \A b \in Block : \A p \in Copies(b) : p \notin Copies(b)' => p = gone
      BY <3>3
    <3> QED
      BY <2>1, <3>5, <3>6, StoreThinned
  <2> QED
    BY <2>3, <2>4
<1> QED
  BY <1>1, <1>2

\* The slot invalidated had a newer copy of the block beside it: the one just written.
LEMMA InvalidateStore ==
  ASSUME VdsInv, VdsInv', Invalidate
  PROVE  Stored' = Stored
<1>1. /\ pc = "Old" /\ pc \in Writing /\ UNCHANGED hdr /\ TypeOK /\ HeadersStay
      /\ pb' = IF Old = None THEN pb ELSE Kill(Old)
  BY DEF Invalidate, Writing, VdsInv, HeadersStay
<1>2. CASE Old = None
  BY <1>1, <1>2, FlashQuiet
<1>3. CASE Old # None
  <2>1. /\ New \in Place /\ Live(New) /\ call.blk \in Block
        /\ Old \in Copies(call.blk) /\ Old \in Place /\ Live(Old) /\ ~Has("gcing")
    BY <1>1, <1>3, WritingFacts, CurrentFacts, IdleFacts
  <2>2. /\ At(New) = [st |-> "valid", vbn |-> call.blk, ver |-> Version, data |-> call.data]
        /\ Old # New
    BY <1>1 DEF VdsInv, NewSound
  <2>3. New \in Copies(call.blk) /\ At(New).ver = Version
    BY <2>1, <2>2, CopyFacts
  <2>4. At(Old).ver \in Nat /\ Version = At(Old).ver + 1
    BY <1>1, <1>3, <2>1, SlotFacts DEF Version
  <2>5. At(Old).ver <= At(New).ver
    BY <2>3, <2>4
  <2>6. SlotSet(Old, Dead)
    BY <1>1, <1>3, <2>1, SetSlot DEF Kill
  <2>7. \A b \in Block : \A q : q \in Copies(b)' <=> q \in Copies(b) /\ q # Old
    BY <1>1, <2>1, <2>6, KillSound DEF VdsInv
  <2>8. \A q \in Place : q # Old => At(q)' = At(q)
    BY <2>6 DEF SlotSet
  <2>9. \A b \in Block : \A q : q \in Copies(b)' => q \in Copies(b) /\ At(q)' = At(q)
    BY <2>7, <2>8, CopyFacts
  <2>10. \A b \in Block : \A p \in Copies(b) : p \notin Copies(b)' => p = Old /\ b = call.blk
    BY <2>1, <2>7, CopyFacts
  <2> QED
    BY <2>2, <2>3, <2>5, <2>9, <2>10, StoreThinned
<1> QED
  BY <1>2, <1>3

\* A victim's copies have newer ones in the sector they were copied to.
LEMMA MarkStore ==
  ASSUME VdsInv, VdsInv', GcMark
  PROVE  Stored' = Stored
<1>1. /\ pc = "GcMark" /\ pc # "off" /\ part.current # None /\ part.gcing # None /\ TypeOK
  BY DEF GcMark, Dropping, VdsInv, StageSound
<1>2. PICK g \in Sector : g = part.gcing /\ hdr[g] = "gcing"
  BY <1>1, ListFacts DEF VdsInv, ListsSound
<1>3. PICK c \in Sector : c = part.current /\ hdr[c] = "current" /\ c # g
  BY <1>1, <1>2, ListFacts
<1>4. hdr' = [hdr EXCEPT ![g] = "erasing"] /\ UNCHANGED pb
  BY <1>2 DEF GcMark
<1>5. HeaderSet(g, "erasing") /\ SlotsStay /\ Has("current")
  BY <1>1, <1>3, <1>4, SetHeader DEF Status, SlotsStay, At, Has
<1>6. \A b \in Block : \A q : q \in Copies(b)' <=> q \in Copies(b) /\ q[1] # g
  BY <1>1, <1>2, <1>5, MarkSound DEF VdsInv
<1>7. \A b \in Block : \A q : q \in Copies(b)' => q \in Copies(b) /\ At(q)' = At(q)
  BY <1>5, <1>6 DEF SlotsStay
<1>8. ASSUME NEW b \in Block, NEW p \in Copies(b), p \notin Copies(b)'
      PROVE  \E q \in Copies(b) : q # p /\ At(p).ver <= At(q).ver
  <2>1. p[1] = g
    BY <1>6, <1>8
  <2>2. PICK q \in Copies(b) : hdr[q[1]] = "current"
    BY <1>2, <1>5, <1>8, <2>1 DEF VdsInv, CopiesSound
  <2>3. q # p /\ p \in Place /\ q \in Place
    BY <1>2, <2>1, <2>2, CopyFacts
  <2>4. At(p).ver < At(q).ver
    BY <1>2, <2>1, <2>2, <2>3 DEF VdsInv, CopiesSound
  <2>5. At(p).ver <= At(q).ver
    BY <1>1, <2>3, <2>4, SlotFacts
  <2> QED
    BY <2>2, <2>3, <2>5
<1> QED
  BY <1>7, <1>8, StoreThinned

\* The copies of a victim come into use with newer versions of the same data.
LEMMA CopyStore ==
  ASSUME VdsInv, VdsInv', GcCurrent
  PROVE  Stored' = Stored
<1>1. CASE UNCHANGED hdr
  BY <1>1, FlashQuiet DEF GcCurrent, GcFails, flash
<1>2. CASE ~UNCHANGED hdr
  <2>1. /\ pc = "GcCurrent" /\ pc # "off" /\ pc \in Making /\ part.temp # None /\ TypeOK
        /\ hdr' = [hdr EXCEPT ![part.temp] = "current"] /\ UNCHANGED pb
    BY <1>2 DEF GcCurrent, GcFails, flash, Making, VdsInv, StageSound
  <2>2. PICK s \in Sector : s = part.temp
    BY <2>1, ListFacts
  <2>3. HeaderSet(s, "current") /\ SlotsStay /\ hdr[s] = "temp"
    BY <2>1, <2>2, SetHeader DEF Status, SlotsStay, At, VdsInv, ListsSound
  <2>4. /\ \A b \in Block : \A q \in Copies(b) : q \in Copies(b)' /\ q[1] # s
        /\ \A b \in Block : \A q \in Copies(b)' : q \in Copies(b) \/ q[1] = s
        /\ \A b \in Block : \A q \in Copies(b)' :
              q[1] = s => \E p \in Copies(b) : p \in Place /\ hdr[p[1]] = "gcing"
    BY <2>1, <2>2, <2>3, CopyInUse
  <2>5. /\ TypeOK /\ CopiesSound /\ TypeOK' /\ CopiesSound'
        /\ \A q : At(q)' = At(q)
        /\ \A u \in Sector : u # s => hdr'[u] = hdr[u]
    BY <2>3 DEF VdsInv, SlotsStay, HeaderSet
  <2>6. ASSUME NEW b \in Block
        PROVE  Stored'[b] = Stored[b]
    <3>1. CASE \A q \in Copies(b)' : q \in Copies(b)
      BY <2>4, <2>5, <3>1, StoreKept
    <3>2. CASE \E q \in Copies(b)' : q \notin Copies(b)
      <4>1. PICK n \in Copies(b)' : IsNewest(b, n)'
        BY <2>5, <3>2, NewestFactsPrime
      <4>2. Stored'[b] = At(n).data
        BY <2>5, <4>1, NewestFactsPrime
      <4>3. PICK p \in Copies(b) : p \in Place /\ hdr[p[1]] = "gcing"
        BY <2>4, <3>2
      <4>4. p \in Copies(b)' /\ p[1] # s /\ p[1] \in Sector /\ hdr'[p[1]] = "gcing"
        BY <2>4, <2>5, <4>3, PlaceFacts
      <4>5. Has("gcing") /\ ~Has("current")
        BY <2>1, <4>3, <4>4, CopiedFacts DEF Has
      <4>6. \A q \in Copies(b) : q = p
        <5>1. ASSUME NEW q \in Copies(b), q # p PROVE FALSE
          <6>1. q \in Place /\ q[1] \in Sector
            BY CopyFacts, PlaceFacts
          <6>2. "current" \in {hdr[p[1]], hdr[q[1]]}
            BY <2>5, <5>1 DEF CopiesSound
          <6> QED
            BY <4>3, <4>5, <6>1, <6>2 DEF Has
        <5> QED
          BY <5>1
      <4>7. At(n).data = At(p).data
        <5>1. CASE n = p
          BY <5>1
        <5>2. CASE n # p
          <6>1. At(p)'.data = At(n)'.data
            BY <2>5, <4>1, <4>4, <5>2 DEF CopiesSound
          <6> QED
            BY <2>5, <6>1
        <5> QED
          BY <5>1, <5>2
      <4>8. IsNewest(b, p)
        <5>1. At(p).ver <= At(p).ver
          BY <2>5, <4>3, SlotFacts
        <5> QED
          BY <4>3, <4>6, <5>1 DEF IsNewest
      <4>9. Stored[b] = At(p).data
        BY <2>5, <4>8, NewestFacts
      <4> QED
        BY <4>2, <4>7, <4>9
    <3> QED
      BY <3>1, <3>2
  <2> QED
    BY <2>6, StoredFunction
<1> QED
  BY <1>1, <1>2

\* The descriptor written, the block reads as the data of the call.
LEMMA CommitStore ==
  ASSUME VdsInv, VdsInv', WritePBD
  PROVE  Stored' = [Stored EXCEPT ![call.blk] = call.data]
<1> DEFINE r == [st |-> "valid", vbn |-> call.blk, ver |-> Version, data |-> call.data]
<1>1. /\ pc = "Pbd" /\ pc \in Writing /\ UNCHANGED hdr
      /\ New \in Place /\ call.data \in Data /\ call.blk \in Block
      /\ \A q \in Copies(call.blk) : At(q).ver < Version
      /\ pb' = [pb EXCEPT ![New[1]][New[2]] = r] /\ r \in SlotType
  BY PbdFacts DEF Writing
<1>2. /\ TypeOK /\ CopiesSound /\ HeadersSound /\ SlotsSound /\ TypeOK' /\ CopiesSound' /\ HeadersStay
  BY <1>1 DEF VdsInv, HeadersStay
<1>3. PICK k \in Block, d \in Data, v \in Nat : k = call.blk /\ d = call.data /\ v = Version
  <2>1. r.ver = Version /\ r.ver \in Nat
    BY <1>1 DEF SlotType
  <2> QED
    BY <1>1, <2>1
<1>4. PICK n \in Place : n = New
  BY <1>1
<1> DEFINE w == [st |-> "valid", vbn |-> k, ver |-> v, data |-> d]
<1>5. r = w
  BY <1>3
<1>6. SlotSet(n, w)
  BY <1>1, <1>2, <1>4, <1>5, SetSlot
<1>7. /\ hdr[n[1]] = "current" /\ ~Has("gcing")
      /\ \A i \in Slot : i < n[2] => At(<<n[1], i>>).st # "free"
  BY <1>1, <1>4, WritingFacts, CurrentFacts
<1>8. \A b \in Block : n \notin Copies(b)
  BY <1>1, <1>4, NotACopy
<1>9. /\ w \in SlotType /\ w.st = "valid" /\ w.vbn = k /\ w.ver = v /\ w.data = d
  BY <1>1, <1>5
<1>10. \A b \in Block : w.vbn = b => \A q \in Copies(b) : At(q).ver < w.ver
  BY <1>1, <1>3, <1>9
<1> HIDE DEF w, r
<1>11. \A b \in Block : \A q : q \in Copies(b)' <=> q \in Copies(b) \/ (q = n /\ b = k)
  BY <1>2, <1>6, <1>7, <1>8, <1>9, <1>10, FillSound
<1>12. \A q \in Place : At(q)' = IF q = n THEN w ELSE At(q)
  BY <1>6 DEF SlotSet
<1>13. ASSUME NEW b \in Block, b # k PROVE Stored'[b] = Stored[b]
  <2>1. \A q : q \in Copies(b)' <=> q \in Copies(b)
    BY <1>11, <1>13
  <2>2. \A q \in Copies(b)' : q \in Copies(b) /\ At(q)' = At(q)
    BY <1>8, <1>12, <2>1, CopyFacts
  <2> QED
    BY <1>2, <2>1, <2>2, StoreKept
<1>14. Stored'[k] = d
  <2>1. n \in Copies(k)' /\ At(n)' = w
    BY <1>11, <1>12
  <2>2. \A q \in Copies(k)' : At(q)'.ver <= v
    <3>1. ASSUME NEW q \in Copies(k)', q # n PROVE At(q)'.ver <= v
      <4>1. q \in Copies(k) /\ q \in Place /\ At(q)' = At(q)
        BY <1>11, <1>12, <3>1, CopyFacts
      <4>2. At(q).ver < v /\ At(q).ver \in Nat
        BY <1>1, <1>2, <1>3, <4>1, SlotFacts
      <4> QED
        BY <4>1, <4>2
    <3>2. v <= v
      OBVIOUS
    <3> QED
      BY <1>9, <2>1, <3>1, <3>2
  <2>3. IsNewest(k, n)'
    BY <1>9, <2>1, <2>2 DEF IsNewest
  <2> QED
    BY <1>2, <1>9, <2>1, <2>3, NewestFactsPrime
<1>15. \A b \in Block : Stored'[b] = IF b = k THEN d ELSE Stored[b]
  BY <1>13, <1>14
<1>16. Stored' = [Stored EXCEPT ![k] = d]
  BY <1>15, StoredFunction
<1> QED
  BY <1>3, <1>16

\* A block reverted reads as never written.
LEMMA RevertStore ==
  ASSUME VdsInv, VdsInv', NEW c \in Block, RevertBlock(c)
  PROVE  Stored' = [Stored EXCEPT ![c] = None]
<1>1. /\ pc = "idle" /\ mt[c] # None /\ pb' = Kill(mt[c]) /\ UNCHANGED hdr /\ TypeOK /\ HeadersStay
  BY DEF RevertBlock, VdsInv, HeadersStay
<1>2. mt[c] \in Place \cup {None} /\ mt[c] \in Copies(c) /\ mt[c] \in Place /\ Live(mt[c])
      /\ \A b \in Block : Copies(b) = IF mt[b] = None THEN {} ELSE {mt[b]}
  BY <1>1, IdleFacts
<1>3. PICK p \in Place : p = mt[c]
  BY <1>2
<1>4. SlotSet(p, Dead)
  BY <1>1, <1>3, SetSlot DEF Kill
<1>5. \A b \in Block : \A q : q \in Copies(b)' <=> q \in Copies(b) /\ q # p
  <2>1. ~Has("gcing")
    BY <1>1, CurrentFacts
  <2> QED
    BY <1>1, <1>2, <1>3, <1>4, <2>1, KillSound DEF VdsInv
<1>6. TypeOK /\ CopiesSound /\ TypeOK' /\ CopiesSound'
  BY DEF VdsInv
<1>7. ASSUME NEW b \in Block, b # c PROVE Stored'[b] = Stored[b]
  <2>1. p \notin Copies(b)
    BY <1>2, <1>3, <1>7, CopyFacts
  <2>2. \A q : q \in Copies(b)' <=> q \in Copies(b)
    BY <1>5, <2>1
  <2>3. \A q \in Copies(b)' : q \in Copies(b) /\ At(q)' = At(q)
    BY <1>4, <2>1, <2>2, CopyFacts DEF SlotSet
  <2> QED
    BY <1>6, <2>2, <2>3, StoreKept
<1>8. Stored'[c] = None
  <2>1. Copies(c)' = {}
    BY <1>1, <1>2, <1>3, <1>5
  <2> QED
    BY <1>6, <2>1, NewestFactsPrime
<1>9. \A b \in Block : Stored'[b] = IF b = c THEN None ELSE Stored[b]
  BY <1>7, <1>8
<1> QED
  BY <1>9, StoredFunction

-----------------------------------------------------------------------------
(* The block store. *)

\* The call as the block store sees it.
StoreCall == IF call = None THEN None
             ELSE [blk |-> call.blk, data |-> call.data, done |-> pc = "Old"]

\* A call under way is one for the block store too.
LEMMA StoreCallFacts ==
  ASSUME TypeOK, call # None
  PROVE  /\ call \in [blk : Block, data : Data] /\ StoreCall # None
         /\ StoreCall = [blk |-> call.blk, data |-> call.data, done |-> pc = "Old"]
<1>1. call \in [blk : Block, data : Data]
  BY DEF TypeOK
<1>2. StoreCall = [blk |-> call.blk, data |-> call.data, done |-> pc = "Old"]
  BY DEF StoreCall
<1>3. StoreCall \in [blk : Block, data : Data, done : BOOLEAN]
  <2>1. call.blk \in Block /\ call.data \in Data /\ (pc = "Old") \in BOOLEAN
    BY <1>1
  <2> QED
    BY <1>2, <2>1
<1> QED
  BY <1>1, <1>2, <1>3, NoneIsNoValue

\* A step the block store does not see.
LEMMA StoreStutters ==
  ASSUME Stored' = Stored, UNCHANGED call, call # None => (pc = "Old" <=> pc' = "Old")
  PROVE  UNCHANGED Abs!avars
<1>1. UNCHANGED StoreCall
  BY DEF StoreCall
<1> QED
  BY <1>1 DEF Abs!avars, StoreCall

\* A call that ends without effect.
LEMMA StoreDrops ==
  ASSUME VdsInv, Stored' = Stored, call' = None
  PROVE  [Abs!ANext]_(Abs!avars)
<1>1. CASE call = None
  <2>1. UNCHANGED Abs!avars
    BY <1>1, StoreStutters
  <2> QED
    BY <2>1
<1>2. CASE call # None
  <2>1. StoreCall # None /\ StoreCall' = None
    BY <1>2, StoreCallFacts DEF VdsInv, StoreCall
  <2>2. Abs!Drop
    BY <2>1 DEF Abs!Drop, StoreCall
  <2> QED
    BY <2>2 DEF Abs!ANext
<1> QED
  BY <1>1, <1>2

\* The record of a call whose change was made.
LEMMA CommittedCall ==
  ASSUME NEW k, NEW d, NEW before, NEW after
  PROVE  [[blk |-> k, data |-> d, done |-> before] EXCEPT !.done = after]
           = [blk |-> k, data |-> d, done |-> after]
OBVIOUS

\* What a step is to the block store.
LEMMA StoreStep ==
  ASSUME Faults = {}, VdsInv, VdsInv', [Next]_vars
  PROVE  [Abs!ANext]_(Abs!avars)
<1>0. TypeOK
  BY DEF VdsInv
<1>1. CASE Boot
  <2>1. Stored' = Stored
    BY <1>1, BootStore, EraseStore DEF Boot
  <2>2. pc \in {"off"} \cup Booting /\ call = None
    BY <1>1 DEF Boot, InitEntry, BootClean, BootSetRemain, BootFormat, BootCurrent, BootErased,
                Booting, VdsInv, CallSound, Writing, Collecting, Making, Dropping
  <2>3. call' = None
    BY <1>1, <2>2 DEF Boot, InitEntry, BootClean, BootSetRemain, BootFormat, BootCurrent, BootErased,
                      StartScan, Goto, GoGc, GoScan, Finish
  <2> QED
    BY <2>1, <2>3, StoreDrops
<1>2. CASE Scan
  <2>1. Stored' = Stored
    BY <1>2, ScanStore DEF Scan
  <2>2. UNCHANGED call /\ pc # "Old" /\ pc' # "Old"
    BY <1>2 DEF Scan, ScanSlot, ScanEnd, Scanning, GoScan
  <2> QED
    BY <2>1, <2>2, StoreStutters
<1>3. CASE Gc
  <2>1. Stored' = Stored
    BY <1>3, CollectStore, CopyStore, MarkStore, EraseStore DEF Gc
  <2>2. CASE call' = None
    BY <2>1, <2>2, StoreDrops
  <2>3. CASE call' # None
    <3>1. pc \in Collecting /\ pc # "Old"
      BY <1>3 DEF Gc, GcPick, GcTemp, GcPbd, GcPb, GcCurrent, GcMark, GcErased, Collecting, Making, Dropping
    <3>2. ret # "Old"
      BY <3>1 DEF VdsInv, CallSound
    <3>3. UNCHANGED call /\ pc' # "Old"
      BY <1>3, <2>3, <3>2 DEF Gc, GcPick, GcTemp, GcPbd, GcPb, GcCurrent, GcMark, GcErased, GcFails,
                              StartScan, Goto, GoGc, GoScan, Finish
    <3> QED
      BY <2>1, <3>1, <3>3, StoreStutters
  <2> QED
    BY <2>2, <2>3
<1>4. CASE Move \/ Pop \/ SetStatus \/ WritePB
  <2>1. Stored' = Stored
    BY <1>4, MoveStore, SlotStore
  <2>2. UNCHANGED call /\ pc # "Old" /\ pc' # "Old"
    BY <1>4 DEF Move, Pop, SetStatus, WritePB, Goto, GoGc
  <2> QED
    BY <2>1, <2>2, StoreStutters
<1>5. CASE WriteFails
  <2>1. Stored' = Stored /\ call' = None
    BY <1>5, SlotStore DEF WriteFails, Finish
  <2> QED
    BY <2>1, StoreDrops
<1>6. CASE WritePBD
  <2>1. Stored' = [Stored EXCEPT ![call.blk] = call.data]
    BY <1>6, CommitStore
  <2>2. pc = "Pbd" /\ pc' = "Old" /\ UNCHANGED call
    BY <1>6, PbdFacts
  <2>3. call # None
    BY <2>2 DEF VdsInv, CallSound, Writing
  <2>4. /\ StoreCall = [blk |-> call.blk, data |-> call.data, done |-> FALSE]
        /\ StoreCall' = [blk |-> call.blk, data |-> call.data, done |-> TRUE]
        /\ StoreCall # None
    BY <1>0, <2>2, <2>3, StoreCallFacts DEF StoreCall
  <2>5. StoreCall.blk = call.blk /\ StoreCall.data = call.data /\ ~StoreCall.done
        /\ StoreCall' = [StoreCall EXCEPT !.done = TRUE]
    <3>1. PICK k, d : k = call.blk /\ d = call.data
      OBVIOUS
    <3>2. StoreCall = [blk |-> k, data |-> d, done |-> FALSE]
      BY <2>4, <3>1
    <3>3. StoreCall' = [blk |-> k, data |-> d, done |-> TRUE]
      BY <2>4, <3>1
    <3>4. [[blk |-> k, data |-> d, done |-> FALSE] EXCEPT !.done = TRUE]
            = [blk |-> k, data |-> d, done |-> TRUE]
      BY CommittedCall, Zenon
    <3>5. StoreCall' = [StoreCall EXCEPT !.done = TRUE]
      BY <3>2, <3>3, <3>4, Zenon
    <3>6. StoreCall.blk = k /\ StoreCall.data = d /\ StoreCall.done = FALSE
      BY <3>2
    <3> QED
      BY <3>1, <3>5, <3>6
  <2>6. Abs!Commit
    BY <2>1, <2>4, <2>5 DEF Abs!Commit, StoreCall
  <2> QED
    BY <2>6 DEF Abs!ANext
<1>7. CASE Invalidate
  <2>1. Stored' = Stored /\ call' = None
    BY <1>7, InvalidateStore DEF Invalidate, Finish
  <2> QED
    BY <2>1, StoreDrops
<1>8. CASE EraseBegin
  <2>1. Stored' = Stored
    BY <1>8, EraseStore
  <2>2. UNCHANGED call /\ pc # "Old" /\ pc' # "Old"
    BY <1>8 DEF EraseBegin, Erasing, Goto
  <2> QED
    BY <2>1, <2>2, StoreStutters
<1>9. ASSUME NEW b \in Block, NEW d \in Data, WriteBlock(b, d)
      PROVE  [Abs!ANext]_(Abs!avars)
  <2>1. Stored' = Stored
    BY <1>9, FlashQuiet DEF WriteBlock, flash
  <2>2. pc = "idle" /\ pc' = "Move" /\ call' = [blk |-> b, data |-> d]
    BY <1>9 DEF WriteBlock
  <2>3. call = None
    BY <2>2 DEF VdsInv, CallSound, Writing, Collecting, Making, Dropping
  <2>4. call' # None
    <3>1. [blk |-> b, data |-> d] \in [blk : Block, data : Data]
      OBVIOUS
    <3> QED
      BY <2>2, <3>1, NoneIsNoValue
  <2>5. StoreCall = None /\ StoreCall' = [blk |-> b, data |-> d, done |-> FALSE]
    <3>1. call'.blk = b /\ call'.data = d
      BY <2>2
    <3> QED
      BY <2>2, <2>3, <2>4, <3>1 DEF StoreCall
  <2>6. Abs!Begin(b, d)
    BY <2>1, <2>5 DEF Abs!Begin, StoreCall
  <2> QED
    BY <2>6 DEF Abs!ANext
<1>10. ASSUME NEW b \in Block, RevertBlock(b)
       PROVE  [Abs!ANext]_(Abs!avars)
  <2>1. Stored' = [Stored EXCEPT ![b] = None]
    BY <1>10, RevertStore
  <2>2. pc = "idle" /\ UNCHANGED call
    BY <1>10 DEF RevertBlock, ctl
  <2>3. call = None
    BY <2>2 DEF VdsInv, CallSound, Writing, Collecting, Making, Dropping
  <2>4. StoreCall = None /\ StoreCall' = None
    BY <2>2, <2>3 DEF StoreCall
  <2>5. Abs!Revert(b)
    BY <2>1, <2>4 DEF Abs!Revert, StoreCall
  <2> QED
    BY <2>5 DEF Abs!ANext
<1>11. CASE PowerCut
  <2>1. Stored' = Stored /\ call' = None
    BY <1>11, FlashQuiet DEF PowerCut, flash
  <2> QED
    BY <2>1, StoreDrops
<1>12. CASE UNCHANGED vars
  <2>1. Stored' = Stored /\ UNCHANGED call /\ UNCHANGED pc
    BY <1>12, FlashQuiet DEF vars, flash, ctl
  <2> QED
    BY <2>1, StoreStutters
<1>13. CASE Call
  BY <1>9, <1>10, <1>13 DEF Call
<1>14. CASE Write
  BY <1>4, <1>5, <1>6, <1>7, <1>14 DEF Write
<1> QED
  BY <1>1, <1>2, <1>3, <1>8, <1>11, <1>12, <1>13, <1>14, NoFault DEF Next, Step

\* Before the first start-up nothing is stored.
LEMMA StoreInit ==
  ASSUME Init
  PROVE  Abs!AInit
<1>1. \A b \in Block : Copies(b) = {}
  BY DEF Init, Copies, At, Place
<1>2. Stored = [b \in Block |-> None]
  BY <1>1 DEF Stored
<1> QED
  BY <1>2 DEF Abs!AInit, Init

\* The VDS implements the block store of VdsAbs: a VDS_WriteBlock changes one block at one
\* point between its call and its return or not at all, and neither the collection nor a
\* start-up nor a power cut at any step changes what is stored.
THEOREM BlockStoreHolds ==
  ASSUME Faults = {}
  PROVE  Spec => BlockStore
<1>1. Init => Abs!AInit
  BY StoreInit
<1>2. VdsInv /\ VdsInv' /\ [Next]_vars => [Abs!ANext]_(Abs!avars)
  BY StoreStep
<1>3. Spec => []VdsInv
  BY VdsInvariant
<1> QED
  BY <1>1, <1>2, <1>3, PTL DEF Spec, BlockStore, Abs!ASpec
=============================================================================
