------------------------------ MODULE MemoryMap ------------------------------
(***************************************************************************)
(* The map of usable memory, kernel/mm/memory_map.c, as multiboot.c fills  *)
(* it at boot: every available entry of the firmware's list is merged into *)
(* a bounded array of areas, then the array is sorted and aligned.         *)
(*                                                                         *)
(* Each round of the `goto' loop of mem_map_add_area() and each round of   *)
(* the sorting loop of mem_map_sanitize() is one action; phase is the      *)
(* program counter.  An area is a half open interval of addresses.         *)
(***************************************************************************)
EXTENDS Naturals, Sequences, FiniteSets, FiniteSetsExt

CONSTANTS MAP_MAX,   \* entries of the array (32)
          PageSize,  \* alignment of areas (4096)
          Top        \* bound: addresses that entries of the firmware may reach

ASSUME SizeAssumption ==
    MAP_MAX \in Nat /\ PageSize \in Nat \ {0} /\ Top \in Nat

VARIABLES phase,        \* "fill", "merge", "sort", "align", "done" or "halt"
          area,         \* mem_map.area[0 .. count-1], counted from 1
          begin, end,   \* the interval mem_map_add_area() is adding, else 0
          i,            \* the sorting loop: area[1 .. i-1] are in place
          physical_end,
          given,        \* ghost: addresses the firmware reported as usable
          dropped       \* ghost: an entry met a full map and was ignored

vars == <<phase, area, begin, end, i, physical_end, given, dropped>>

Addresses == 0 .. Top
Area      == [begin : Addresses, end : Addresses]
Phases    == {"fill", "merge", "sort", "align", "done", "halt"}

Bytes(a) == {x \in Addresses : a.begin <= x /\ x < a.end}
Covered  == UNION {Bytes(area[k]) : k \in 1 .. Len(area)}
Pending  == IF phase = "merge" THEN Bytes([begin |-> begin, end |-> end]) ELSE {}

Init ==
    /\ phase = "fill"
    /\ area = <<>>
    /\ begin = 0 /\ end = 0
    /\ i = 1
    /\ physical_end = 0
    /\ given = {}
    /\ dropped = FALSE
-----------------------------------------------------------------------------
\* Mutant of AddArea: the array is never full.
AddAreaUnbounded(b, e) ==
    /\ phase = "fill"
    /\ b < e
    /\ phase' = "merge"
    /\ begin' = b /\ end' = e
    /\ given' = given \cup Bytes([begin |-> b, end |-> e])
    /\ UNCHANGED <<area, i, physical_end, dropped>>

\* fill_memory_map(): the next available entry, [base, base + length), reaches
\* mem_map_add_area(), which asserts that it is not empty and gives up at once
\* when the array is full.
AddArea(b, e) ==
    /\ phase = "fill"
    /\ b <= e
    /\ given' = given \cup Bytes([begin |-> b, end |-> e])
    /\ \/ /\ b >= e
          /\ phase' = "halt"
          /\ UNCHANGED <<begin, end, dropped>>
       \/ /\ b < e
          /\ Len(area) = MAP_MAX
          /\ dropped' = TRUE
          /\ UNCHANGED <<phase, begin, end>>
       \/ /\ b < e
          /\ Len(area) # MAP_MAX
          /\ phase' = "merge"
          /\ begin' = b /\ end' = e
          /\ UNCHANGED dropped
    /\ UNCHANGED <<area, i, physical_end>>

\* Mutant of Touching: areas that only border the interval are left apart.
TouchingInside == {k \in 1 .. Len(area) : begin < area[k].end /\ area[k].begin < end}

\* The areas that overlap or border the interval being added.
Touching == {k \in 1 .. Len(area) : begin <= area[k].end /\ area[k].begin <= end}

\* Mutant of Remove: the count shrinks, the last area is not moved.
RemoveLast(k) == [j \in 1 .. (Len(area) - 1) |-> area[j]]

\* area[k] is removed by moving the last area into its place.
Remove(k) == [j \in 1 .. (Len(area) - 1) |-> IF j = k THEN area[Len(area)] ELSE area[j]]

\* Mutant of MergeArea: the area stays in the array.
MergeAreaKept ==
    /\ phase = "merge"
    /\ \E k \in Touching :
          /\ \A j \in Touching : k <= j
          /\ begin' = IF begin < area[k].begin THEN begin ELSE area[k].begin
          /\ end' = IF end > area[k].end THEN end ELSE area[k].end
    /\ UNCHANGED <<phase, area, i, physical_end, given, dropped>>

\* One round of the loop that finds an area to merge with.
MergeArea ==
    /\ phase = "merge"
    /\ \E k \in Touching :
          /\ \A j \in Touching : k <= j
          /\ begin' = IF begin < area[k].begin THEN begin ELSE area[k].begin
          /\ end' = IF end > area[k].end THEN end ELSE area[k].end
          /\ area' = Remove(k)
    /\ UNCHANGED <<phase, i, physical_end, given, dropped>>

\* The last round: nothing overlaps, the interval becomes an area.
InsertArea ==
    /\ phase = "merge"
    /\ Touching = {}
    /\ area' = Append(area, [begin |-> begin, end |-> end])
    /\ phase' = "fill"
    /\ begin' = 0 /\ end' = 0
    /\ UNCHANGED <<i, physical_end, given, dropped>>

\* The end of the list of entries: mem_map_sanitize() starts, whether or not
\* the firmware reported any usable memory.
StartSanitize ==
    /\ phase = "fill"
    /\ phase' = "sort"
    /\ i' = 1
    /\ UNCHANGED <<area, begin, end, physical_end, given, dropped>>

\* Mutant of SortRound: the last area is not looked at.
SortRoundShort ==
    /\ phase = "sort"
    /\ i <= Len(area)
    /\ \E m \in i .. Len(area) :
          /\ \A j \in i .. (Len(area) - 1) : area[m].begin <= area[j].begin
          /\ \A j \in i .. (m - 1) : area[m].begin < area[j].begin
          /\ m < Len(area) \/ i = Len(area)
          /\ area' = [area EXCEPT ![m] = area[i], ![i] = area[m]]
    /\ i' = i + 1
    /\ UNCHANGED <<phase, begin, end, physical_end, given, dropped>>

\* One round of the selection sort: the first of the smallest remaining areas
\* changes places with area[i].
SortRound ==
    /\ phase = "sort"
    /\ i <= Len(area)
    /\ \E m \in i .. Len(area) :
          /\ \A j \in i .. Len(area) : area[m].begin <= area[j].begin
          /\ \A j \in i .. (m - 1) : area[m].begin < area[j].begin
          /\ area' = [area EXCEPT ![m] = area[i], ![i] = area[m]]
    /\ i' = i + 1
    /\ UNCHANGED <<phase, begin, end, physical_end, given, dropped>>

SortDone ==
    /\ phase = "sort"
    /\ i > Len(area)
    /\ phase' = "align"
    /\ UNCHANGED <<area, begin, end, i, physical_end, given, dropped>>

\* Mutants of Align: the begin or the end moves outwards.
AlignBeginDown(a) ==
    [begin |-> a.begin - (a.begin % PageSize), end |-> a.end - (a.end % PageSize)]

AlignEndUp(a) ==
    [begin |-> IF a.begin % PageSize = 0 THEN a.begin
               ELSE a.begin + (PageSize - (a.begin % PageSize)),
     end   |-> a.end + ((PageSize - (a.end % PageSize)) % PageSize)]

\* Borders move inwards to multiples of the page size.
Align(a) ==
    [begin |-> IF a.begin % PageSize = 0 THEN a.begin
               ELSE a.begin + (PageSize - (a.begin % PageSize)),
     end   |-> a.end - (a.end % PageSize)]

\* mem_map.area[count - 1].end; with count = 0 the index is -1, and the word
\* read lies at the place of the count itself, which is 0.
PhysicalEnd(areas) == IF areas = <<>> THEN 0 ELSE areas[Len(areas)].end

\* The alignment loop with its assert, then the physical end.
AlignAll ==
    /\ phase = "align"
    /\ LET aligned == [k \in 1 .. Len(area) |-> Align(area[k])]
           ok == \A k \in 1 .. Len(area) : aligned[k].begin < aligned[k].end
       IN  \/ /\ ok
              /\ area' = aligned
              /\ physical_end' = PhysicalEnd(aligned)
              /\ phase' = "done"
           \/ /\ ~ok
              /\ phase' = "halt"
              /\ UNCHANGED <<area, physical_end>>
    /\ UNCHANGED <<begin, end, i, given, dropped>>

mem_map_add_area == MergeArea \/ InsertArea
mem_map_sanitize == SortRound \/ SortDone \/ AlignAll

Next == \/ \E b, e \in Addresses : AddArea(b, e)
        \/ mem_map_add_area
        \/ StartSanitize
        \/ mem_map_sanitize

Spec == Init /\ [][Next]_vars

\* Boot code runs to its end once the firmware's list has been read.
FairSpec == Spec /\ WF_vars(mem_map_add_area) /\ WF_vars(mem_map_sanitize)
-----------------------------------------------------------------------------
TypeOK ==
    /\ phase \in Phases
    /\ area \in Seq(Area)
    /\ begin \in Addresses /\ end \in Addresses
    /\ i \in Nat \ {0}
    /\ physical_end \in Addresses
    /\ given \in SUBSET Addresses
    /\ dropped \in BOOLEAN

\* Two areas neither overlap nor border each other.
Apart(a, b) == a.end < b.begin \/ b.end < a.begin

\* Merging "mercilessly" with everything that touches, in whatever order the
\* firmware lists its entries, keeps the areas nonempty and strictly apart.
AreasApart ==
    /\ \A k \in 1 .. Len(area) : area[k].begin < area[k].end
    /\ \A k, l \in 1 .. Len(area) : k # l => Apart(area[k], area[l])

\* No usable memory is lost and none is invented while areas are merged, moved
\* and sorted; only a full array may drop an entry.
NothingLost ==
    phase # "done" =>
        /\ Covered \cup Pending \subseteq given
        /\ phase # "halt" /\ ~dropped => Covered \cup Pending = given

\* The array is never indexed beyond its MAP_MAX entries: the check at the
\* entry of mem_map_add_area() leaves room for the insertion at its end.
WithinArray == Len(area) <= MAP_MAX /\ (phase = "merge" => Len(area) < MAP_MAX)

\* What the frame allocator relies on: the areas it is given are in ascending
\* order with a gap between any two, and none reaches beyond physical_end.  A
\* map without areas ends at 0, so that alloc_init() asserts end > begin and
\* halts instead of taking memory from nowhere.
Ascending ==
    phase = "done" =>
        /\ area = <<>> => physical_end = 0
        /\ \A k \in 1 .. Len(area) : area[k].end <= physical_end
        /\ \A k, l \in 1 .. Len(area) : k < l => area[k].end < area[l].begin

Page(x) == {y \in Addresses : y \div PageSize = x \div PageSize}

\* The aligned areas consist of exactly the pages that lie completely inside
\* usable memory, even when an entry ends and the next begins within a page.
PagesExact ==
    phase = "done" =>
        /\ \A k \in 1 .. Len(area) :
              area[k].begin % PageSize = 0 /\ area[k].end % PageSize = 0
        /\ ~dropped => Covered = {x \in given : Page(x) \subseteq given}

\* The `goto' loop ends: every entry is eventually inserted.
MergeEnds == phase = "merge" ~> phase = "fill"
=============================================================================
