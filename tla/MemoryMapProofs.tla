--------------------------- MODULE MemoryMapProofs ---------------------------
(***************************************************************************)
(* Safety of the memory map for every array size, page size and list of    *)
(* entries.  The invariants are proved one after the other, each from the  *)
(* ones before it: types, the bounds of the array, the areas being apart,  *)
(* their order, and the bytes they cover.                                  *)
(***************************************************************************)
EXTENDS MemoryMap, SequenceTheorems, TLAPS

\* mem_map_add_area() works on a nonempty interval.
MergeOK == phase = "merge" => begin < end

\* The areas before position n have found their places.
InPlace(n) == \A k, l \in 1 .. Len(area) :
                 k < n /\ k < l => area[k].begin < area[l].begin

\* What the sorting loop has established.
SortOK ==
    /\ phase = "sort" => i \in 1 .. (Len(area) + 1) /\ InPlace(i)
    /\ phase = "align" => InPlace(Len(area) + 1)
-----------------------------------------------------------------------------
\* Entries of the map, as the steps of the proofs use them.
LEMMA AreaFacts ==
    ASSUME TypeOK
    PROVE  /\ Len(area) \in Nat
           /\ area \in [1 .. Len(area) -> Area]
           /\ \A j \in 1 .. Len(area) :
                 /\ area[j] \in Area
                 /\ area[j].begin \in Addresses /\ area[j].begin \in Nat
                 /\ area[j].end \in Addresses /\ area[j].end \in Nat
<1>1. area \in Seq(Area)
  BY DEF TypeOK
<1>2. \A x \in Area : x.begin \in Addresses /\ x.end \in Addresses
  BY DEF Area
<1>3. Addresses \subseteq Nat
  BY SizeAssumption DEF Addresses
<1>4. Len(area) \in Nat /\ area \in [1 .. Len(area) -> Area]
  BY <1>1, LenProperties
<1>5. \A j \in 1 .. Len(area) : area[j] \in Area
  BY <1>4
<1> QED
  BY <1>2, <1>3, <1>4, <1>5

\* A function on 1 .. n is a sequence of length n.
LEMMA FunctionIsSeq ==
    ASSUME NEW S, NEW n \in Nat, NEW f \in [1 .. n -> S]
    PROVE  f \in Seq(S) /\ Len(f) = n
<1>1. f \in Seq(S)
  BY SeqDef
<1>2. DOMAIN f = 1 .. n /\ DOMAIN f = 1 .. Len(f) /\ Len(f) \in Nat
  BY <1>1, LenProperties
<1> QED
  BY <1>1, <1>2

\* Removing an area by moving the last one into its place leaves a sequence
\* whose entries are entries of the old one, at different positions.
LEMMA RemoveFacts ==
    ASSUME TypeOK, NEW k \in 1 .. Len(area)
    PROVE  /\ Remove(k) \in Seq(Area)
           /\ Len(Remove(k)) = Len(area) - 1
           /\ \A j \in 1 .. Len(Remove(k)) :
                 Remove(k)[j] = area[IF j = k THEN Len(area) ELSE j]
<1> DEFINE f == Remove(k)
<1>1. Len(area) \in Nat /\ Len(area) >= 1 /\ area \in [1 .. Len(area) -> Area]
  BY AreaFacts
<1>2. f \in [1 .. (Len(area) - 1) -> Area]
  BY <1>1 DEF Remove
<1>3. \A j \in 1 .. (Len(area) - 1) : f[j] = area[IF j = k THEN Len(area) ELSE j]
  BY <1>1 DEF Remove
<1> HIDE DEF f
<1>4. Len(area) - 1 \in Nat
  BY <1>1
<1>5. f \in Seq(Area) /\ Len(f) = Len(area) - 1
  BY <1>2, <1>4, FunctionIsSeq
<1> QED
  BY <1>3, <1>5 DEF f

\* Appending an area.
LEMMA AppendFacts ==
    ASSUME TypeOK, NEW a \in Area
    PROVE  /\ Append(area, a) \in Seq(Area)
           /\ Len(Append(area, a)) = Len(area) + 1
           /\ Append(area, a)[Len(area) + 1] = a
           /\ \A j \in 1 .. Len(area) : Append(area, a)[j] = area[j]
<1>1. area \in Seq(Area)
  BY DEF TypeOK
<1> QED
  BY <1>1, AppendProperties

\* Exchanging two areas.
LEMMA SwapFacts ==
    ASSUME TypeOK, NEW m \in 1 .. Len(area), NEW n \in 1 .. Len(area)
    PROVE  LET t == [area EXCEPT ![m] = area[n], ![n] = area[m]]
           IN  /\ t \in Seq(Area)
               /\ Len(t) = Len(area)
               /\ \A j \in 1 .. Len(area) :
                     t[j] = area[IF j = n THEN m ELSE IF j = m THEN n ELSE j]
<1> DEFINE t == [area EXCEPT ![m] = area[n], ![n] = area[m]]
<1>1. Len(area) \in Nat /\ area \in [1 .. Len(area) -> Area]
  BY AreaFacts
<1>2. t \in [1 .. Len(area) -> Area]
  BY <1>1
<1>3. \A j \in 1 .. Len(area) :
         t[j] = area[IF j = n THEN m ELSE IF j = m THEN n ELSE j]
  BY <1>1
<1> HIDE DEF t
<1>4. t \in Seq(Area) /\ Len(t) = Len(area)
  BY <1>1, <1>2, FunctionIsSeq
<1> QED
  BY <1>3, <1>4 DEF t

\* Aligning keeps an area inside its old borders.
LEMMA AlignFacts ==
    ASSUME NEW a \in Area
    PROVE  /\ Align(a).begin \in Nat /\ Align(a).end \in Nat
           /\ a.begin <= Align(a).begin
           /\ Align(a).end <= a.end
           /\ Align(a).begin < Align(a).end => Align(a) \in Area
<1>1. /\ PageSize \in Nat /\ PageSize > 0 /\ Top \in Nat
      /\ a.begin \in Nat /\ a.end \in Nat /\ a.end <= Top
  BY SizeAssumption DEF Area, Addresses
<1>2. a.begin % PageSize \in 0 .. (PageSize - 1) /\ a.end % PageSize \in 0 .. (PageSize - 1)
  BY <1>1
<1>3. a.end % PageSize <= a.end
  BY <1>1, SMTT(30)
<1> DEFINE r == a.begin % PageSize
           s == a.end % PageSize
<1>4. r \in Nat /\ r < PageSize /\ s \in Nat /\ s <= a.end
  BY <1>1, <1>2, <1>3
<1> HIDE DEF r, s
<1>5. /\ a.begin + (PageSize - r) \in Nat /\ a.begin <= a.begin + (PageSize - r)
      /\ a.end - s \in Nat /\ a.end - s <= a.end
  BY <1>1, <1>4
<1>6. Align(a) = [begin |-> IF r = 0 THEN a.begin ELSE a.begin + (PageSize - r),
                  end |-> a.end - s]
  BY DEF Align, r, s
<1>7. /\ Align(a).begin \in Nat /\ Align(a).end \in Nat
      /\ a.begin <= Align(a).begin /\ Align(a).end <= a.end
  BY <1>1, <1>5, <1>6
<1>8. Align(a).begin < Align(a).end => Align(a).begin \in Addresses /\ Align(a).end \in Addresses
  BY <1>1, <1>7 DEF Addresses
<1> QED
  BY <1>6, <1>7, <1>8 DEF Area

\* The array after alignment, when every area is left with a page.
LEMMA AlignAllFacts ==
    ASSUME TypeOK, \A k \in 1 .. Len(area) : Align(area[k]).begin < Align(area[k]).end
    PROVE  LET t == [k \in 1 .. Len(area) |-> Align(area[k])]
           IN  /\ t \in Seq(Area)
               /\ Len(t) = Len(area)
               /\ \A j \in 1 .. Len(area) : t[j] = Align(area[j])
<1> DEFINE t == [k \in 1 .. Len(area) |-> Align(area[k])]
<1>1. Len(area) \in Nat /\ \A j \in 1 .. Len(area) : area[j] \in Area
  BY AreaFacts
<1>2. \A j \in 1 .. Len(area) : Align(area[j]) \in Area
  BY <1>1, AlignFacts
<1>3. t \in [1 .. Len(area) -> Area]
  BY <1>2
<1>4. \A j \in 1 .. Len(area) : t[j] = Align(area[j])
  OBVIOUS
<1> HIDE DEF t
<1>5. t \in Seq(Area) /\ Len(t) = Len(area)
  BY <1>1, <1>3, FunctionIsSeq
<1> QED
  BY <1>4, <1>5 DEF t
-----------------------------------------------------------------------------
\* Every action keeps the types; the last area, which gives the physical end,
\* exists because the map is not empty.
LEMMA TypeStep ==
    ASSUME TypeOK, [Next]_vars
    PROVE  TypeOK'
<1> USE DEF TypeOK, Phases
<1>1. ASSUME NEW b \in Addresses, NEW e \in Addresses, AddArea(b, e)
      PROVE  TypeOK'
  <2>1. Bytes([begin |-> b, end |-> e]) \subseteq Addresses
    BY DEF Bytes
  <2> QED
    BY <1>1, <2>1 DEF AddArea
<1>2. CASE MergeArea
  <2>1. PICK k \in Touching :
           /\ begin' = IF begin < area[k].begin THEN begin ELSE area[k].begin
           /\ end' = IF end > area[k].end THEN end ELSE area[k].end
           /\ area' = Remove(k)
    BY <1>2 DEF MergeArea
  <2>2. k \in 1 .. Len(area)
    BY DEF Touching
  <2>3. area' \in Seq(Area)
    BY <2>1, <2>2, RemoveFacts
  <2>4. area[k].begin \in Addresses /\ area[k].end \in Addresses
    BY <2>2, AreaFacts
  <2> QED
    BY <1>2, <2>1, <2>3, <2>4 DEF MergeArea
<1>3. CASE InsertArea
  <2>1. [begin |-> begin, end |-> end] \in Area
    BY DEF Area
  <2>2. area' \in Seq(Area)
    BY <1>3, <2>1, AppendFacts DEF InsertArea
  <2>3. 0 \in Addresses
    BY SizeAssumption DEF Addresses
  <2> QED
    BY <1>3, <2>2, <2>3 DEF InsertArea
<1>4. CASE StartSanitize
  BY <1>4 DEF StartSanitize
<1>5. CASE SortRound
  <2>1. PICK m \in i .. Len(area) : area' = [area EXCEPT ![m] = area[i], ![i] = area[m]]
    BY <1>5 DEF SortRound
  <2>2. m \in 1 .. Len(area) /\ i \in 1 .. Len(area)
    BY <1>5, <2>1, AreaFacts DEF SortRound
  <2>3. area' \in Seq(Area) /\ Len(area') = Len(area)
    BY <2>1, <2>2, SwapFacts
  <2> QED
    BY <1>5, <2>3 DEF SortRound
<1>6. CASE SortDone
  BY <1>6 DEF SortDone
<1>7. CASE AlignAll
  <2> DEFINE t == [k \in 1 .. Len(area) |-> Align(area[k])]
             ok == \A k \in 1 .. Len(area) : t[k].begin < t[k].end
  <2>1. CASE ok /\ area' = t /\ physical_end' = PhysicalEnd(t) /\ phase' = "done"
    <3>1. \A k \in 1 .. Len(area) : Align(area[k]).begin < Align(area[k]).end
      BY <2>1
    <3>2. t \in Seq(Area) /\ Len(t) = Len(area)
      BY <3>1, AlignAllFacts
    <3>3. PhysicalEnd(t) \in Addresses
      <4> HIDE DEF t
      <4>1. CASE t = <<>>
        BY <4>1, SizeAssumption DEF PhysicalEnd, Addresses
      <4>2. CASE t # <<>>
        <5>1. Len(t) \in 1 .. Len(t)
          BY <3>2, <4>2, EmptySeq, LenProperties
        <5>2. t[Len(t)] \in Area
          BY <3>2, <5>1, ElementOfSeq
        <5> QED
          BY <4>2, <5>2 DEF PhysicalEnd, Area
      <4> QED
        BY <4>1, <4>2
    <3> QED
      BY <1>7, <2>1, <3>2, <3>3 DEF AlignAll
  <2>2. CASE ~ok /\ phase' = "halt" /\ UNCHANGED <<area, physical_end>>
    BY <1>7, <2>2 DEF AlignAll
  <2> QED
    BY <1>7, <2>1, <2>2 DEF AlignAll
<1>8. CASE UNCHANGED vars
  BY <1>8 DEF vars
<1> QED
  BY <1>1, <1>2, <1>3, <1>4, <1>5, <1>6, <1>7, <1>8
     DEF Next, mem_map_add_area, mem_map_sanitize

\* The state variables of the memory map keep their types, whatever list of
\* entries the firmware hands to fill_memory_map().
THEOREM TypeCorrect == Spec => []TypeOK
<1>1. Init => TypeOK
  <2>1. <<>> \in Seq(Area) /\ 0 \in Addresses /\ {} \in SUBSET Addresses
    BY SizeAssumption, EmptySeq DEF Addresses
  <2>2. "fill" \in Phases /\ 1 \in Nat \ {0} /\ "fill" \notin {"sort", "align"}
    BY DEF Phases
  <2> QED
    BY <2>1, <2>2, Zenon DEF Init, TypeOK
<1>2. TypeOK /\ [Next]_vars => TypeOK'
  BY TypeStep
<1> QED
  BY <1>1, <1>2, PTL DEF Spec
-----------------------------------------------------------------------------
\* mem_map_add_area() never writes behind the last entry of the array, and the
\* interval it adds is never empty.
LEMMA ArrayStep ==
    ASSUME TypeOK, WithinArray, MergeOK, [Next]_vars
    PROVE  WithinArray' /\ MergeOK'
<1> USE DEF WithinArray, MergeOK
<1>0. Len(area) \in Nat /\ MAP_MAX \in Nat
  BY AreaFacts, SizeAssumption
<1>1. ASSUME NEW b \in Addresses, NEW e \in Addresses, AddArea(b, e)
      PROVE  WithinArray' /\ MergeOK'
  BY <1>0, <1>1 DEF AddArea
<1>2. CASE MergeArea
  <2>1. PICK k \in Touching :
           /\ begin' = IF begin < area[k].begin THEN begin ELSE area[k].begin
           /\ end' = IF end > area[k].end THEN end ELSE area[k].end
           /\ area' = Remove(k)
    BY <1>2 DEF MergeArea
  <2>2. k \in 1 .. Len(area)
    BY DEF Touching
  <2>3. Len(area') = Len(area) - 1
    BY <2>1, <2>2, RemoveFacts
  <2>4. area[k].begin \in Nat /\ area[k].end \in Nat /\ begin \in Nat /\ end \in Nat
    BY <2>2, AreaFacts, SizeAssumption DEF TypeOK, Addresses
  <2> QED
    BY <1>0, <1>2, <2>1, <2>3, <2>4 DEF MergeArea
<1>3. CASE InsertArea
  <2>1. [begin |-> begin, end |-> end] \in Area
    BY DEF Area, TypeOK
  <2>2. Len(area') = Len(area) + 1
    BY <1>3, <2>1, AppendFacts DEF InsertArea
  <2> QED
    BY <1>0, <1>3, <2>2 DEF InsertArea
<1>4. CASE StartSanitize
  BY <1>4 DEF StartSanitize
<1>5. CASE SortRound
  <2>1. PICK m \in i .. Len(area) : area' = [area EXCEPT ![m] = area[i], ![i] = area[m]]
    BY <1>5 DEF SortRound
  <2>2. m \in 1 .. Len(area) /\ i \in 1 .. Len(area)
    BY <1>5, <2>1, AreaFacts DEF SortRound, TypeOK
  <2>3. Len(area') = Len(area)
    BY <2>1, <2>2, SwapFacts
  <2> QED
    BY <1>5, <2>3 DEF SortRound
<1>6. CASE SortDone
  BY <1>6 DEF SortDone
<1>7. CASE AlignAll
  <2>1. Len(area') = Len(area)
    <3> DEFINE t == [k \in 1 .. Len(area) |-> Align(area[k])]
    <3>1. CASE area' = t /\ \A k \in 1 .. Len(area) : t[k].begin < t[k].end
      <4>1. \A k \in 1 .. Len(area) : Align(area[k]).begin < Align(area[k]).end
        BY <3>1
      <4> QED
        BY <3>1, <4>1, AlignAllFacts
    <3>2. CASE UNCHANGED area
      BY <3>2
    <3> QED
      BY <1>7, <3>1, <3>2 DEF AlignAll
  <2> QED
    BY <1>7, <2>1 DEF AlignAll
<1>8. CASE UNCHANGED vars
  BY <1>8 DEF vars
<1> QED
  BY <1>1, <1>2, <1>3, <1>4, <1>5, <1>6, <1>7, <1>8
     DEF Next, mem_map_add_area, mem_map_sanitize

\* The array of areas is never written beyond its MAP_MAX entries.
THEOREM ArrayBound == Spec => []WithinArray
<1>1. Init => WithinArray /\ MergeOK
  BY SizeAssumption, EmptySeq DEF Init, WithinArray, MergeOK
<1>2. TypeOK /\ WithinArray /\ MergeOK /\ [Next]_vars
         => WithinArray' /\ MergeOK'
  BY ArrayStep
<1> QED
  BY <1>1, <1>2, TypeCorrect, PTL DEF Spec
-----------------------------------------------------------------------------
\* Merging removes whatever touches the new interval before it is inserted, so
\* what is inserted is apart from the rest; moving areas around changes nothing
\* and alignment only shrinks them.
LEMMA ApartStep ==
    ASSUME TypeOK, MergeOK, AreasApart, [Next]_vars
    PROVE  AreasApart'
<1> DEFINE n == Len(area)
<1>0. /\ n \in Nat /\ begin \in Nat /\ end \in Nat
      /\ \A j \in 1 .. n : area[j] \in Area /\ area[j].begin \in Nat /\ area[j].end \in Nat
  BY AreaFacts, SizeAssumption DEF TypeOK, Addresses
<1>a. /\ \A k \in 1 .. n : area[k].begin < area[k].end
      /\ \A k, l \in 1 .. n : k # l => Apart(area[k], area[l])
  BY DEF AreasApart
<1>1. ASSUME NEW b \in Addresses, NEW e \in Addresses, AddArea(b, e)
      PROVE  AreasApart'
  BY <1>1 DEF AddArea, AreasApart
<1>2. CASE MergeArea
  <2>1. PICK k \in 1 .. n : area' = Remove(k)
    BY <1>2 DEF MergeArea, Touching
  <2> DEFINE at(j) == IF j = k THEN n ELSE j
  <2>2. Len(area') = n - 1 /\ \A j \in 1 .. Len(area') : area'[j] = area[at(j)]
    BY <2>1, RemoveFacts
  <2>3. \A j \in 1 .. Len(area') : at(j) \in 1 .. n
    BY <1>0, <2>2
  <2>4. \A j, l \in 1 .. Len(area') : j # l => at(j) # at(l)
    BY <1>0, <2>2
  <2> HIDE DEF at, n
  <2>5. \A j \in 1 .. Len(area') : area'[j].begin < area'[j].end
    BY <1>a, <2>2, <2>3
  <2>6. \A j, l \in 1 .. Len(area') : j # l => Apart(area'[j], area'[l])
    BY <1>a, <2>2, <2>3, <2>4
  <2> QED
    BY <2>5, <2>6 DEF AreasApart, Apart
<1>3. CASE InsertArea
  <2> DEFINE a == [begin |-> begin, end |-> end]
  <2>1. a \in Area
    BY DEF Area, TypeOK
  <2>2. /\ Len(area') = n + 1 /\ area'[n + 1] = a
        /\ \A j \in 1 .. n : area'[j] = area[j]
    BY <1>3, <2>1, AppendFacts DEF InsertArea
  <2>3. a.begin < a.end
    BY <1>3 DEF InsertArea, MergeOK
  <2>4. \A j \in 1 .. n : Apart(a, area[j]) /\ Apart(area[j], a)
    <3> SUFFICES ASSUME NEW j \in 1 .. n
                 PROVE  Apart(a, area[j]) /\ Apart(area[j], a)
      OBVIOUS
    <3>1. ~(begin <= area[j].end /\ area[j].begin <= end)
      BY <1>3 DEF InsertArea, Touching
    <3>2. a.begin = begin /\ a.end = end
      OBVIOUS
    <3>3. area[j].begin \in Nat /\ area[j].end \in Nat
      BY <1>0
    <3> HIDE DEF a
    <3> QED
      BY <1>0, <3>1, <3>2, <3>3 DEF Apart
  <2>5. \A j \in 1 .. (n + 1) : j \in 1 .. n \/ j = n + 1
    BY <1>0
  <2> HIDE DEF a, n
  <2>6. \A j \in 1 .. Len(area') : area'[j].begin < area'[j].end
    BY <1>a, <2>2, <2>3, <2>5
  <2>7. \A j, l \in 1 .. Len(area') : j # l => Apart(area'[j], area'[l])
    BY <1>a, <2>2, <2>4, <2>5
  <2> QED
    BY <2>6, <2>7 DEF AreasApart, Apart
<1>4. CASE StartSanitize
  BY <1>4 DEF StartSanitize, AreasApart
<1>5. CASE SortRound
  <2>1. PICK m \in i .. n : area' = [area EXCEPT ![m] = area[i], ![i] = area[m]]
    BY <1>5 DEF SortRound
  <2>2. m \in 1 .. n /\ i \in 1 .. n
    BY <1>0, <1>5, <2>1 DEF SortRound, TypeOK
  <2> DEFINE at(j) == IF j = i THEN m ELSE IF j = m THEN i ELSE j
  <2>3. Len(area') = n /\ \A j \in 1 .. Len(area') : area'[j] = area[at(j)]
    BY <2>1, <2>2, SwapFacts
  <2>4. /\ \A j \in 1 .. Len(area') : at(j) \in 1 .. n
        /\ \A j, l \in 1 .. Len(area') : j # l => at(j) # at(l)
    BY <2>2, <2>3
  <2> HIDE DEF at, n
  <2>5. \A j \in 1 .. Len(area') : area'[j].begin < area'[j].end
    BY <1>a, <2>3, <2>4
  <2>6. \A j, l \in 1 .. Len(area') : j # l => Apart(area'[j], area'[l])
    BY <1>a, <2>3, <2>4
  <2> QED
    BY <2>5, <2>6 DEF AreasApart, Apart
<1>6. CASE SortDone
  BY <1>6 DEF SortDone, AreasApart
<1>7. CASE AlignAll
  <2> DEFINE t == [k \in 1 .. n |-> Align(area[k])]
  <2>1. CASE area' = t /\ \A k \in 1 .. n : t[k].begin < t[k].end
    <3>1. \A k \in 1 .. n : Align(area[k]).begin < Align(area[k]).end
      BY <2>1
    <3>2. Len(area') = n /\ \A j \in 1 .. Len(area') : area'[j] = Align(area[j])
      BY <2>1, <3>1, AlignAllFacts
    <3>3. \A j \in 1 .. n : /\ Align(area[j]).begin \in Nat /\ Align(area[j]).end \in Nat
                            /\ area[j].begin <= Align(area[j]).begin
                            /\ Align(area[j]).end <= area[j].end
      BY <1>0, AlignFacts
    <3> HIDE DEF n
    <3>4. \A j, l \in 1 .. n : j # l => Apart(Align(area[j]), Align(area[l]))
      BY <1>0, <1>a, <3>3 DEF Apart
    <3> QED
      BY <3>1, <3>2, <3>4 DEF AreasApart, Apart
  <2>2. CASE UNCHANGED area
    BY <2>2 DEF AreasApart
  <2> QED
    BY <1>7, <2>1, <2>2 DEF AlignAll
<1>8. CASE UNCHANGED vars
  BY <1>8 DEF vars, AreasApart
<1> QED
  BY <1>1, <1>2, <1>3, <1>4, <1>5, <1>6, <1>7, <1>8
     DEF Next, mem_map_add_area, mem_map_sanitize

\* The areas of the map are nonempty and never overlap or touch, in whatever
\* order the firmware lists overlapping entries.
THEOREM Separation == Spec => []AreasApart
<1>1. Init => WithinArray /\ MergeOK /\ AreasApart
  BY SizeAssumption, EmptySeq DEF Init, WithinArray, MergeOK, AreasApart
<1>2. TypeOK /\ WithinArray /\ MergeOK /\ AreasApart /\ [Next]_vars
         => WithinArray' /\ MergeOK' /\ AreasApart'
  BY ArrayStep, ApartStep
<1> QED
  BY <1>1, <1>2, TypeCorrect, PTL DEF Spec
-----------------------------------------------------------------------------
\* Each round of the selection sort puts one more area into its place; two
\* areas never begin at the same address.  Alignment keeps the order.
LEMMA SortStep ==
    ASSUME TypeOK, AreasApart, SortOK, Ascending, [Next]_vars
    PROVE  SortOK' /\ Ascending'
<1> DEFINE n == Len(area)
<1>0. /\ n \in Nat
      /\ \A j \in 1 .. n : area[j] \in Area /\ area[j].begin \in Nat /\ area[j].end \in Nat
  BY AreaFacts
<1>a. /\ \A k \in 1 .. n : area[k].begin < area[k].end
      /\ \A k, l \in 1 .. n : k # l => Apart(area[k], area[l])
  BY DEF AreasApart
<1>1. ASSUME NEW b \in Addresses, NEW e \in Addresses, AddArea(b, e)
      PROVE  SortOK' /\ Ascending'
  BY <1>1 DEF AddArea, SortOK, Ascending
<1>2. CASE MergeArea
  BY <1>2 DEF MergeArea, SortOK, Ascending
<1>3. CASE InsertArea
  BY <1>3 DEF InsertArea, SortOK, Ascending
<1>4. CASE StartSanitize
  BY <1>0, <1>4 DEF StartSanitize, SortOK, Ascending, InPlace
<1>5. CASE SortRound
  <2>1. PICK m \in i .. n :
           /\ \A j \in i .. n : area[m].begin <= area[j].begin
           /\ area' = [area EXCEPT ![m] = area[i], ![i] = area[m]]
    BY <1>5 DEF SortRound
  <2>2. m \in 1 .. n /\ i \in 1 .. n
    BY <1>0, <1>5, <2>1 DEF SortRound, TypeOK
  <2> DEFINE at(j) == IF j = i THEN m ELSE IF j = m THEN i ELSE j
  <2>3. Len(area') = n /\ \A j \in 1 .. n : area'[j] = area[at(j)]
    BY <2>1, <2>2, SwapFacts
  <2>4. \A k, l \in 1 .. n : k < i /\ k < l => area[k].begin < area[l].begin
    BY <1>5 DEF SortRound, SortOK, InPlace
  <2>5. ASSUME NEW k \in 1 .. n, NEW l \in 1 .. n, k < i + 1, k < l
        PROVE  area'[k].begin < area'[l].begin
    <3>1. CASE k < i
      <4>1. at(k) = k /\ at(l) \in 1 .. n /\ k < at(l)
        BY <1>0, <2>1, <2>2, <2>5, <3>1
      <4> HIDE DEF at, n
      <4> QED
        BY <2>3, <2>4, <3>1, <4>1
    <3>2. CASE k = i
      <4>1. at(k) = m /\ at(l) \in i .. n /\ at(l) \in 1 .. n /\ at(l) # m
        BY <1>0, <2>1, <2>2, <2>5, <3>2
      <4> HIDE DEF at, n
      <4>2. area[m].begin <= area[at(l)].begin /\ Apart(area[m], area[at(l)])
        BY <1>a, <2>1, <2>2, <4>1
      <4>3. area[m].begin # area[at(l)].begin
        BY <1>0, <1>a, <2>2, <4>1, <4>2 DEF Apart
      <4> QED
        BY <1>0, <2>2, <2>3, <4>1, <4>2, <4>3
    <3> QED
      BY <1>0, <2>2, <2>5, <3>1, <3>2
  <2>6. i' = i + 1 /\ phase' = "sort"
    BY <1>5 DEF SortRound
  <2>7. InPlace(i)'
    BY <2>3, <2>5, <2>6 DEF InPlace
  <2>8. i' \in 1 .. (Len(area') + 1)
    BY <1>0, <2>2, <2>3, <2>6
  <2> QED
    BY <2>6, <2>7, <2>8 DEF SortOK, Ascending
<1>6. CASE SortDone
  <2>1. phase' = "align" /\ area' = area /\ InPlace(i) /\ i > n
    BY <1>6 DEF SortDone, SortOK
  <2>2. \A k, l \in 1 .. n : k < l => area[k].begin < area[l].begin
    BY <1>0, <2>1 DEF InPlace, TypeOK
  <2> QED
    BY <2>1, <2>2 DEF SortOK, Ascending, InPlace
<1>7. CASE AlignAll
  <2> DEFINE t == [k \in 1 .. n |-> Align(area[k])]
  <2>1. CASE /\ area' = t /\ \A k \in 1 .. n : t[k].begin < t[k].end
             /\ physical_end' = PhysicalEnd(t) /\ phase' = "done"
    <3>1. \A k \in 1 .. n : Align(area[k]).begin < Align(area[k]).end
      BY <2>1
    <3>2. /\ Len(area') = n /\ area' \in Seq(Area)
          /\ \A j \in 1 .. Len(area') : area'[j] = Align(area[j])
      BY <2>1, <3>1, AlignAllFacts
    <3>3. \A j \in 1 .. n : /\ Align(area[j]).begin \in Nat /\ Align(area[j]).end \in Nat
                            /\ area[j].begin <= Align(area[j]).begin
                            /\ Align(area[j]).end <= area[j].end
      BY <1>0, AlignFacts
    <3>4. phase = "align" /\ (area' = <<>> <=> n = 0)
      BY <1>0, <1>7, <3>2, EmptySeq DEF AlignAll
    <3>5. /\ n = 0 => physical_end' = 0
          /\ n # 0 => n \in 1 .. n /\ physical_end' = Align(area[n]).end
      <4>1. n # 0 => n \in 1 .. n
        BY <1>0
      <4> QED
        BY <2>1, <3>2, <3>4, <4>1 DEF PhysicalEnd
    <3>6. \A k, l \in 1 .. n : k < l => area[k].begin < area[l].begin
      BY <1>0, <3>4 DEF SortOK, InPlace
    <3> HIDE DEF n, t
    <3>7. \A k, l \in 1 .. n : k < l => area[k].end < area[l].begin
      BY <1>0, <1>a, <3>6 DEF Apart
    <3>8. \A k, l \in 1 .. n : k < l => Align(area[k]).end < Align(area[l]).begin
      BY <1>0, <3>3, <3>7
    <3>9. n # 0 => \A k \in 1 .. n : Align(area[k]).end <= Align(area[n]).end
      BY <1>0, <3>1, <3>3, <3>5, <3>8
    <3>10. \A k \in 1 .. n : Align(area[k]).end <= physical_end'
      BY <1>0, <3>5, <3>9
    <3> QED
      BY <2>1, <3>2, <3>4, <3>5, <3>8, <3>10 DEF SortOK, Ascending
  <2>2. CASE phase' = "halt"
    BY <2>2 DEF SortOK, Ascending
  <2> QED
    BY <1>7, <2>1, <2>2 DEF AlignAll
<1>8. CASE UNCHANGED vars
  BY <1>8 DEF vars, SortOK, Ascending, InPlace
<1> QED
  BY <1>1, <1>2, <1>3, <1>4, <1>5, <1>6, <1>7, <1>8
     DEF Next, mem_map_add_area, mem_map_sanitize

\* The map that mem_map_sanitize() leaves to the frame allocator is sorted,
\* with a gap between any two areas, and physical_end bounds it.
THEOREM SanitizeOrders == Spec => []Ascending
<1>1. Init => SortOK /\ Ascending
  BY DEF Init, SortOK, Ascending
<1>2. TypeOK /\ AreasApart /\ SortOK /\ Ascending /\ [Next]_vars
         => SortOK' /\ Ascending'
  BY SortStep
<1> QED
  BY <1>1, <1>2, TypeCorrect, Separation, PTL DEF Spec
-----------------------------------------------------------------------------
\* The bytes of an area, one by one.
LEMMA CoveredFacts ==
    \A x : x \in Covered <=>
             /\ x \in Addresses
             /\ \E k \in 1 .. Len(area) : area[k].begin <= x /\ x < area[k].end
BY DEF Covered, Bytes

\* The bytes of the interval that is being merged.
LEMMA PendingFacts ==
    \A x : x \in Pending <=> /\ phase = "merge" /\ x \in Addresses
                             /\ begin <= x /\ x < end
BY DEF Pending, Bytes

\* Merging replaces two touching intervals by their union, inserting turns the
\* interval into an area, sorting moves areas: the bytes stay the same.
LEMMA CoverStep ==
    ASSUME TypeOK, MergeOK, AreasApart, NothingLost, [Next]_vars
    PROVE  NothingLost'
<1> DEFINE n == Len(area)
<1>0. /\ n \in Nat /\ begin \in Nat /\ end \in Nat /\ Addresses \subseteq Nat
      /\ \A j \in 1 .. n : area[j] \in Area /\ area[j].begin \in Nat /\ area[j].end \in Nat
      /\ \A j \in 1 .. n : area[j].begin < area[j].end
  BY AreaFacts, SizeAssumption DEF TypeOK, Addresses, AreasApart
<1>b. \A x : x \in Covered' <=>
               /\ x \in Addresses
               /\ \E k \in 1 .. Len(area') : area'[k].begin <= x /\ x < area'[k].end
  BY DEF Covered, Bytes
<1>c. \A x : x \in Pending' <=> /\ phase' = "merge" /\ x \in Addresses
                                 /\ begin' <= x /\ x < end'
  BY DEF Pending, Bytes
<1> DEFINE all == Covered \cup Pending
<1>d. ASSUME phase \notin {"done", "halt"}, Covered' \cup Pending' = all,
             UNCHANGED <<given, dropped>>
      PROVE  NothingLost'
  BY <1>d DEF NothingLost
<1>1. ASSUME NEW b \in Addresses, NEW e \in Addresses, AddArea(b, e)
      PROVE  NothingLost'
  <2>1. /\ phase = "fill" /\ area' = area /\ Covered' = Covered /\ Pending = {}
        /\ given' = given \cup Bytes([begin |-> b, end |-> e])
    BY <1>1 DEF AddArea, Covered, Pending
  <2>2. CASE phase' = "halt" \/ (phase' = phase /\ dropped')
    <3>1. Pending' = {}
      BY <2>1, <2>2, <1>c
    <3> QED
      BY <2>1, <2>2, <3>1 DEF NothingLost
  <2>3. CASE phase' = "merge" /\ begin' = b /\ end' = e /\ UNCHANGED dropped
    <3>1. Pending' = Bytes([begin |-> b, end |-> e])
      BY <2>3 DEF Pending
    <3> QED
      BY <2>1, <2>3, <3>1 DEF NothingLost
  <2> QED
    BY <1>1, <2>2, <2>3 DEF AddArea
<1>2. CASE MergeArea
  <2>1. PICK k \in Touching :
           /\ begin' = IF begin < area[k].begin THEN begin ELSE area[k].begin
           /\ end' = IF end > area[k].end THEN end ELSE area[k].end
           /\ area' = Remove(k)
    BY <1>2 DEF MergeArea
  <2>2. k \in 1 .. n /\ begin <= area[k].end /\ area[k].begin <= end
    BY DEF Touching
  <2>3. phase = "merge" /\ phase' = "merge" /\ UNCHANGED <<given, dropped>> /\ begin < end
    BY <1>2 DEF MergeArea, MergeOK
  <2>4. /\ Len(area') = n - 1
        /\ \A j \in 1 .. (n - 1) : area'[j] = area[IF j = k THEN n ELSE j]
    BY <2>1, <2>2, RemoveFacts
  <2>5. \A x \in Addresses : (begin' <= x /\ x < end')
           <=> (begin <= x /\ x < end) \/ (area[k].begin <= x /\ x < area[k].end)
    BY <1>0, <2>1, <2>2, <2>3
  <2>6. ASSUME NEW x \in Covered' \cup Pending'
        PROVE  x \in all
    <3>1. CASE x \in Pending'
      <4>1. /\ x \in Addresses
            /\ (begin <= x /\ x < end) \/ (area[k].begin <= x /\ x < area[k].end)
        BY <1>c, <2>5, <3>1
      <4> HIDE DEF n
      <4> QED
        BY <2>2, <2>3, <4>1, CoveredFacts, PendingFacts DEF n
    <3>2. CASE x \in Covered'
      <4>1. PICK j \in 1 .. (n - 1) : area'[j].begin <= x /\ x < area'[j].end
        BY <1>b, <2>4, <3>2
      <4>2. (IF j = k THEN n ELSE j) \in 1 .. n
        BY <1>0, <2>2
      <4> QED
        BY <1>b, <2>4, <3>2, <4>1, <4>2, CoveredFacts
    <3> QED
      BY <2>6, <3>1, <3>2
  <2>7. ASSUME NEW x \in all
        PROVE  x \in Covered' \cup Pending'
    <3>1. CASE x \in Pending
      BY <1>c, <2>3, <2>5, <3>1, PendingFacts
    <3>2. CASE x \in Covered
      <4>1. PICK j \in 1 .. n : area[j].begin <= x /\ x < area[j].end
        BY <3>2, CoveredFacts
      <4>2. x \in Addresses
        BY <3>2, CoveredFacts
      <4>3. CASE j = k
        BY <1>c, <2>3, <2>5, <4>1, <4>2, <4>3
      <4>4. CASE j # k /\ j = n
        <5>1. k \in 1 .. (n - 1) /\ area'[k] = area[j]
          BY <1>0, <2>2, <2>4, <4>4
        <5> QED
          BY <1>b, <2>4, <4>1, <4>2, <5>1
      <4>5. CASE j # k /\ j # n
        <5>1. j \in 1 .. (n - 1) /\ area'[j] = area[j]
          BY <1>0, <2>4, <4>5
        <5> QED
          BY <1>b, <2>4, <4>1, <4>2, <5>1
      <4> QED
        BY <4>3, <4>4, <4>5
    <3> QED
      BY <2>7, <3>1, <3>2
  <2>8. Covered' \cup Pending' = all
    <3> HIDE DEF all
    <3> QED
      BY <2>6, <2>7
  <2> QED
    BY <1>d, <2>3, <2>8
<1>3. CASE InsertArea
  <2> DEFINE a == [begin |-> begin, end |-> end]
  <2>1. a \in Area
    BY DEF Area, TypeOK
  <2>2. /\ Len(area') = n + 1 /\ area'[n + 1] = a
        /\ \A j \in 1 .. n : area'[j] = area[j]
    BY <1>3, <2>1, AppendFacts DEF InsertArea
  <2>3. phase = "merge" /\ phase' = "fill" /\ UNCHANGED <<given, dropped>>
    BY <1>3 DEF InsertArea
  <2>4. a.begin = begin /\ a.end = end
    OBVIOUS
  <2>5. \A j \in 1 .. (n + 1) : j \in 1 .. n \/ j = n + 1
    BY <1>0
  <2>6. \A j \in 1 .. n : j \in 1 .. (n + 1)
    BY <1>0
  <2>7. n + 1 \in 1 .. (n + 1)
    BY <1>0
  <2> HIDE DEF n, a
  <2>8. \A x : x \in Covered' <=> x \in Covered \/ x \in Pending
    BY <1>b, <2>2, <2>3, <2>4, <2>5, <2>6, <2>7, CoveredFacts, PendingFacts DEF n
  <2>9. Pending' = {}
    BY <1>c, <2>3
  <2> QED
    BY <1>d, <2>3, <2>8, <2>9
<1>4. CASE StartSanitize
  BY <1>4 DEF StartSanitize, NothingLost, Covered, Pending
<1>5. CASE SortRound
  <2>1. PICK m \in i .. n : area' = [area EXCEPT ![m] = area[i], ![i] = area[m]]
    BY <1>5 DEF SortRound
  <2>2. m \in 1 .. n /\ i \in 1 .. n
    BY <1>0, <1>5, <2>1 DEF SortRound, TypeOK
  <2> DEFINE at(j) == IF j = i THEN m ELSE IF j = m THEN i ELSE j
  <2>3. Len(area') = n /\ \A j \in 1 .. n : area'[j] = area[at(j)]
    BY <2>1, <2>2, SwapFacts
  <2>4. \A j \in 1 .. n : at(j) \in 1 .. n /\ at(at(j)) = j
    BY <2>2
  <2> HIDE DEF at, n
  <2>5. \A j \in 1 .. n : area[j] = area'[at(j)]
    BY <2>3, <2>4
  <2>6. \A x : x \in Covered' <=> x \in Covered
    BY <1>b, <2>3, <2>4, <2>5, CoveredFacts DEF n
  <2>7. phase = "sort" /\ phase' = "sort" /\ UNCHANGED <<given, dropped>>
    BY <1>5 DEF SortRound
  <2>8. Pending' = {} /\ Pending = {}
    BY <2>7 DEF Pending
  <2> QED
    BY <1>d, <2>6, <2>7, <2>8
<1>6. CASE SortDone
  BY <1>6 DEF SortDone, NothingLost, Covered, Pending
<1>7. CASE AlignAll
  <2>1. CASE phase' = "done"
    BY <2>1 DEF NothingLost
  <2>2. CASE phase' = "halt" /\ UNCHANGED area
    <3>1. phase = "align" /\ Covered' = Covered /\ Pending' = {} /\ given' = given
      BY <1>7, <2>2 DEF AlignAll, Covered, Pending
    <3> QED
      BY <2>2, <3>1 DEF NothingLost
  <2> QED
    BY <1>7, <2>1, <2>2 DEF AlignAll
<1>8. CASE UNCHANGED vars
  BY <1>8 DEF vars, NothingLost, Covered, Pending
<1> QED
  BY <1>1, <1>2, <1>3, <1>4, <1>5, <1>6, <1>7, <1>8
     DEF Next, mem_map_add_area, mem_map_sanitize

\* No usable byte is lost and none is invented while the map is built and
\* sorted, unless an entry meets a full array.
THEOREM Coverage == Spec => []NothingLost
<1>1. Init => MergeOK /\ NothingLost
  <2>1. ASSUME Init
        PROVE  Covered = {} /\ Pending = {} /\ given = {} /\ phase = "fill"
    <3>1. Len(area) = 0 /\ phase = "fill" /\ given = {}
      BY <2>1, EmptySeq DEF Init
    <3>2. 1 .. Len(area) = {}
      BY <3>1
    <3> QED
      BY <3>1, <3>2 DEF Covered, Pending
  <2> QED
    BY <2>1 DEF MergeOK, NothingLost
<1>2. Init => WithinArray
  BY SizeAssumption, EmptySeq DEF Init, WithinArray
<1>3. TypeOK /\ WithinArray /\ MergeOK /\ AreasApart /\ NothingLost /\ [Next]_vars
         => WithinArray' /\ MergeOK' /\ NothingLost'
  BY ArrayStep, CoverStep
<1> QED
  BY <1>1, <1>2, <1>3, TypeCorrect, Separation, PTL DEF Spec
-----------------------------------------------------------------------------
\* Division by the page size, as the steps below use it.
LEMMA DivisionFacts ==
    ASSUME NEW x \in Nat, NEW P \in Nat \ {0}
    PROVE  /\ x \div P \in Nat /\ x % P \in Nat /\ x % P < P
           /\ (x \div P) * P \in Nat
           /\ x % P = x - (x \div P) * P
           /\ (x \div P) * P <= x /\ x < (x \div P) * P + P
<1>1. x \div P \in Nat /\ x % P \in Nat /\ x % P < P
  OBVIOUS
<1>2. (x \div P) * P <= x /\ x < (x \div P) * P + P
  OBVIOUS
<1>3. x % P = x - P * (x \div P)
  OBVIOUS
<1> DEFINE q == x \div P
<1>4. q \in Nat
  BY <1>1
<1> HIDE DEF q
<1>5. P * q = q * P /\ q * P \in Nat
  BY <1>4
<1> QED
  BY <1>1, <1>2, <1>3, <1>5 DEF q

LEMMA QuotientUnique ==
    ASSUME NEW x \in Nat, NEW P \in Nat \ {0}, NEW q \in Nat, q * P <= x, x < q * P + P
    PROVE  x \div P = q
  OBVIOUS

LEMMA MultipleStep ==
    ASSUME NEW a \in Nat, NEW b \in Nat, NEW P \in Nat \ {0}
    PROVE  /\ (a * P) % P = 0 /\ a * P \in Nat
           /\ a < b => a * P + P <= b * P
           /\ (a + 1) * P = a * P + P
  OBVIOUS

\* The page of an address is the addresses between two multiples.
LEMMA PageFacts ==
    ASSUME NEW x \in Addresses
    PROVE  \E q \in Nat : /\ q * PageSize <= x /\ x < q * PageSize + PageSize
                          /\ \A y \in Addresses :
                                y \in Page(x) <=> q * PageSize <= y /\ y < q * PageSize + PageSize
<1>1. PageSize \in Nat \ {0} /\ Addresses \subseteq Nat
  BY SizeAssumption DEF Addresses
<1> DEFINE q == x \div PageSize
<1>2. q \in Nat /\ q * PageSize <= x /\ x < q * PageSize + PageSize
  BY <1>1, DivisionFacts
<1>3. \A y \in Addresses : y \div PageSize = q
         <=> q * PageSize <= y /\ y < q * PageSize + PageSize
  <2> HIDE DEF q
  <2> SUFFICES ASSUME NEW y \in Addresses
               PROVE  y \div PageSize = q
                         <=> q * PageSize <= y /\ y < q * PageSize + PageSize
    OBVIOUS
  <2>1. y \in Nat
    BY <1>1
  <2> QED
    BY <1>1, <1>2, <2>1, DivisionFacts, QuotientUnique
<1>4. \A y \in Addresses : y \in Page(x) <=> y \div PageSize = q
  BY DEF Page
<1> QED
  BY <1>2, <1>3, <1>4

\* Borders move inwards to the nearest multiples.
LEMMA AlignPages ==
    ASSUME NEW a \in Area
    PROVE  \E p, q \in Nat :
              /\ Align(a).begin = p * PageSize /\ Align(a).end = q * PageSize
              /\ a.begin <= p * PageSize /\ p * PageSize < a.begin + PageSize
              /\ q * PageSize <= a.end /\ a.end < q * PageSize + PageSize
<1>1. PageSize \in Nat \ {0} /\ a.begin \in Nat /\ a.end \in Nat
  BY SizeAssumption DEF Area, Addresses
<1> DEFINE b == a.begin \div PageSize
           q == a.end \div PageSize
           p == IF a.begin % PageSize = 0 THEN b ELSE b + 1
<1>2. /\ q \in Nat /\ q * PageSize <= a.end /\ a.end < q * PageSize + PageSize
      /\ a.end % PageSize = a.end - q * PageSize
  BY <1>1, DivisionFacts
<1>3. /\ b \in Nat /\ b * PageSize <= a.begin /\ a.begin < b * PageSize + PageSize
      /\ a.begin % PageSize = a.begin - b * PageSize /\ b * PageSize \in Nat
  BY <1>1, DivisionFacts
<1>4. (b + 1) * PageSize = b * PageSize + PageSize /\ q * PageSize \in Nat
  BY <1>1, <1>2, <1>3, MultipleStep
<1>5. /\ Align(a).begin = IF a.begin % PageSize = 0 THEN a.begin
                          ELSE a.begin + (PageSize - (a.begin % PageSize))
      /\ Align(a).end = a.end - (a.end % PageSize)
  BY DEF Align
<1> DEFINE r == a.begin % PageSize
           m == b * PageSize
           n == q * PageSize
<1> HIDE DEF b, q
<1>6. CASE r = 0
  <2>1. p = b /\ Align(a).begin = m /\ a.begin = m /\ Align(a).end = n
    <3> HIDE DEF m, n
    <3> QED
      BY <1>1, <1>2, <1>3, <1>4, <1>5, <1>6 DEF m, n
  <2> QED
    BY <1>1, <1>2, <1>3, <2>1
<1>7. CASE r # 0
  <2>1. p = b + 1 /\ p * PageSize = m + PageSize /\ p \in Nat
    BY <1>3, <1>4, <1>7
  <2>2. /\ Align(a).begin = m + PageSize /\ Align(a).end = n
        /\ a.begin <= m + PageSize /\ m + PageSize < a.begin + PageSize
    <3>1. m \in Nat /\ n \in Nat /\ r = a.begin - m /\ m <= a.begin /\ a.begin < m + PageSize
      BY <1>3, <1>4
    <3>2. a.end % PageSize = a.end - n
      BY <1>2
    <3> HIDE DEF m, n
    <3>3. m # a.begin
      BY <1>1, <1>7, <3>1
    <3> QED
      BY <1>1, <1>5, <1>7, <3>1, <3>2, <3>3
  <2> QED
    BY <1>2, <2>1, <2>2
<1> QED
  BY <1>6, <1>7

\* A page all of whose bytes are covered lies in one area: the byte before an
\* area and the byte after it belong to no other.
LEMMA PageInOneArea ==
    ASSUME TypeOK, AreasApart, NEW k \in 1 .. Len(area), NEW m \in Nat, NEW x \in Addresses,
           m <= x, x < m + PageSize, area[k].begin <= x, x < area[k].end,
           \A y \in Addresses : m <= y /\ y < m + PageSize => y \in Covered
    PROVE  area[k].begin <= m /\ m + PageSize <= area[k].end
<1>1. PageSize \in Nat \ {0} /\ Top \in Nat /\ x \in Nat
  BY SizeAssumption DEF Addresses
<1>2. \A j \in 1 .. Len(area) : /\ area[j].begin \in Nat /\ area[j].end \in Nat
                                /\ area[j].end <= Top
                                /\ area[j].begin < area[j].end
  BY <1>1, AreaFacts DEF Addresses, AreasApart
<1>3. ASSUME m < area[k].begin
      PROVE  FALSE
  <2> DEFINE y == area[k].begin - 1
  <2>1. y \in Addresses /\ m <= y /\ y < m + PageSize
    BY <1>1, <1>2, <1>3 DEF Addresses
  <2>2. PICK j \in 1 .. Len(area) : area[j].begin <= y /\ y < area[j].end
    BY <2>1, CoveredFacts
  <2>3. j # k
    BY <1>2, <2>2
  <2>4. area[k].end < area[j].begin \/ area[j].end < area[k].begin
    BY <2>3 DEF AreasApart, Apart
  <2> QED
    BY <1>2, <2>2, <2>4
<1>4. ASSUME area[k].end < m + PageSize
      PROVE  FALSE
  <2> DEFINE y == area[k].end
  <2>1. y \in Addresses /\ m <= y /\ y < m + PageSize
    BY <1>1, <1>2, <1>4 DEF Addresses
  <2>2. PICK j \in 1 .. Len(area) : area[j].begin <= y /\ y < area[j].end
    BY <2>1, CoveredFacts
  <2>3. j # k
    BY <1>2, <2>2
  <2>4. area[k].end < area[j].begin \/ area[j].end < area[k].begin
    BY <2>3 DEF AreasApart, Apart
  <2> QED
    BY <1>2, <2>2, <2>4
<1> QED
  BY <1>1, <1>2, <1>3, <1>4

\* Nothing but AlignAll reaches the phase "done" or changes the map there.
LEMMA PagesStep ==
    ASSUME TypeOK, AreasApart, NothingLost, PagesExact, [Next]_vars
    PROVE  PagesExact'
<1> DEFINE n == Len(area)
<1>0. /\ PageSize \in Nat \ {0} /\ Addresses \subseteq Nat /\ n \in Nat
      /\ \A j \in 1 .. n : area[j] \in Area /\ area[j].begin \in Nat /\ area[j].end \in Nat
  BY SizeAssumption, AreaFacts DEF Addresses
<1>1. CASE AlignAll /\ phase' = "done"
  <2>1. /\ phase = "align" /\ UNCHANGED <<given, dropped>>
        /\ \A k \in 1 .. n : Align(area[k]).begin < Align(area[k]).end
        /\ area' = [k \in 1 .. n |-> Align(area[k])]
    BY <1>1 DEF AlignAll
  <2>2. Len(area') = n /\ \A k \in 1 .. n : area'[k] = Align(area[k])
    BY <2>1, AlignAllFacts
  <2>3. \A x : x \in Covered' <=> /\ x \in Addresses
                                  /\ \E k \in 1 .. n : area'[k].begin <= x /\ x < area'[k].end
    BY <2>2 DEF Covered, Bytes
  <2>4. ASSUME NEW k \in 1 .. n
        PROVE  area'[k].begin % PageSize = 0 /\ area'[k].end % PageSize = 0
    <3>1. PICK a, b \in Nat :
            Align(area[k]).begin = a * PageSize /\ Align(area[k]).end = b * PageSize
      BY <1>0, AlignPages
    <3>2. (a * PageSize) % PageSize = 0 /\ (b * PageSize) % PageSize = 0
      BY <1>0, MultipleStep
    <3> QED
      BY <2>2, <3>1, <3>2
  <2>5. ASSUME ~dropped, NEW x \in Addresses
        PROVE  x \in Covered' <=> x \in given /\ Page(x) \subseteq given
    <3>1. Covered = given
      <4>1. Pending = {}
        BY <2>1 DEF Pending
      <4> QED
        BY <2>1, <2>5, <4>1 DEF NothingLost
    <3>2. PICK q \in Nat :
            /\ q * PageSize <= x /\ x < q * PageSize + PageSize
            /\ \A y \in Addresses :
                  y \in Page(x) <=> q * PageSize <= y /\ y < q * PageSize + PageSize
      BY PageFacts
    <3> DEFINE m == q * PageSize
    <3>3. m \in Nat /\ x \in Nat
      BY <1>0, MultipleStep
    <3>4. ASSUME NEW k \in 1 .. n, area'[k].begin <= x, x < area'[k].end, NEW y \in Page(x)
          PROVE  y \in given
      <4>1. PICK a, b \in Nat :
              /\ area'[k].begin = a * PageSize /\ area'[k].end = b * PageSize
              /\ area[k].begin <= a * PageSize /\ b * PageSize <= area[k].end
        BY <1>0, <2>2, AlignPages
      <4>2. y \in Addresses /\ y \in Nat /\ m <= y /\ y < m + PageSize
        BY <1>0, <3>2 DEF Page
      <4>3. /\ q < a => m + PageSize <= a * PageSize
            /\ b < q => b * PageSize + PageSize <= m
            /\ a * PageSize \in Nat /\ b * PageSize \in Nat
        BY <1>0, MultipleStep
      <4>4. a <= q => a * PageSize <= m
        <5>1. a < q => a * PageSize + PageSize <= m
          BY <1>0, MultipleStep
        <5> QED
          BY <1>0, <3>3, <4>3, <5>1
      <4>5. q < b => m + PageSize <= b * PageSize
        BY <1>0, MultipleStep
      <4>6. a <= q /\ q < b
        <5> DEFINE aP == a * PageSize
                   bP == b * PageSize
        <5>1. aP <= x /\ x < bP /\ m <= x /\ x < m + PageSize
          BY <3>2, <3>4, <4>1
        <5>2. aP \in Nat /\ bP \in Nat /\ (q < a => m + PageSize <= aP)
              /\ (b < q => bP + PageSize <= m) /\ (q = b => m = bP)
          BY <4>3
        <5> HIDE DEF m, aP, bP
        <5> QED
          BY <1>0, <3>3, <5>1, <5>2
      <4>7. area[k].begin <= y /\ y < area[k].end
        <5> HIDE DEF m
        <5> QED
          BY <1>0, <3>3, <4>1, <4>2, <4>3, <4>4, <4>5, <4>6
      <4> QED
        BY <3>1, <4>2, <4>7, CoveredFacts
    <3>5. x \in Page(x)
      BY <3>2
    <3>6. ASSUME x \in given, Page(x) \subseteq given
          PROVE  x \in Covered'
      <4>1. PICK k \in 1 .. n : area[k].begin <= x /\ x < area[k].end
        BY <3>1, <3>6, CoveredFacts
      <4>2. \A y \in Addresses : m <= y /\ y < m + PageSize => y \in Covered
        BY <3>1, <3>2, <3>6
      <4>3. area[k].begin <= m /\ m + PageSize <= area[k].end
        <5>1. m <= x /\ x < m + PageSize
          BY <3>2
        <5> HIDE DEF m
        <5> QED
          BY <3>3, <4>1, <4>2, <5>1, PageInOneArea
      <4>4. PICK a, b \in Nat :
              /\ area'[k].begin = a * PageSize /\ area'[k].end = b * PageSize
              /\ a * PageSize < area[k].begin + PageSize
              /\ area[k].end < b * PageSize + PageSize
        BY <1>0, <2>2, AlignPages
      <4>5. /\ q < a => m + PageSize <= a * PageSize
            /\ a < q => a * PageSize + PageSize <= m
            /\ b < q + 1 => b * PageSize + PageSize <= (q + 1) * PageSize
            /\ (q + 1) * PageSize = m + PageSize
            /\ a * PageSize \in Nat /\ b * PageSize \in Nat
        BY <1>0, MultipleStep
      <4>6. a * PageSize <= m
        <5>1. a = q => a * PageSize = m
          OBVIOUS
        <5> HIDE DEF m
        <5> QED
          BY <1>0, <3>3, <4>3, <4>4, <4>5, <5>1
      <4>7. m + PageSize <= b * PageSize
        <5>1. ~(b < q + 1)
          <6> DEFINE bP == b * PageSize
          <6>1. b < q + 1 => bP + PageSize <= m + PageSize
            BY <4>5
          <6>2. bP \in Nat /\ m + PageSize <= area[k].end /\ area[k].end < bP + PageSize
            BY <4>3, <4>4, <4>5
          <6> HIDE DEF m, bP
          <6> QED
            BY <1>0, <3>3, <6>1, <6>2
        <5>2. q < b
          BY <5>1
        <5> QED
          BY <1>0, <5>2, MultipleStep
      <4>8. area'[k].begin <= x /\ x < area'[k].end
        <5>1. m <= x /\ x < m + PageSize
          BY <3>2
        <5> HIDE DEF m
        <5> QED
          BY <1>0, <3>3, <4>4, <4>5, <4>6, <4>7, <5>1
      <4> QED
        BY <2>3, <4>8
    <3> QED
      BY <2>3, <3>4, <3>5, <3>6
  <2>6. ~dropped => Covered' = {x \in given : Page(x) \subseteq given}
    <3>1. \A x \in Covered' : x \in Addresses
      BY <2>3
    <3>2. given \subseteq Addresses
      BY DEF TypeOK
    <3> QED
      BY <2>5, <3>1, <3>2
  <2> QED
    BY <2>1, <2>2, <2>4, <2>6 DEF PagesExact
<1>2. CASE UNCHANGED vars
  BY <1>2 DEF vars, PagesExact, Covered
<1>3. CASE phase' # "done"
  BY <1>3 DEF PagesExact
<1> QED
  BY <1>1, <1>2, <1>3 DEF Next, mem_map_add_area, mem_map_sanitize, AddArea, MergeArea,
     InsertArea, StartSanitize, SortRound, SortDone, AlignAll

\* alloc_init() is given exactly the whole pages of usable memory.
THEOREM WholePages == Spec => []PagesExact
<1>1. Init => PagesExact
  BY DEF Init, PagesExact
<1>2. TypeOK /\ AreasApart /\ NothingLost /\ PagesExact /\ [Next]_vars => PagesExact'
  BY PagesStep
<1> QED
  BY <1>1, <1>2, TypeCorrect, Separation, Coverage, PTL DEF Spec
=============================================================================
