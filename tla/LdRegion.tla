------------------------------- MODULE LdRegion -------------------------------
(***************************************************************************)
(* The chain of memory regions of the linker (ld/src/region.c), pointer by *)
(* pointer.  A heap is the sequence of the nodes allocated so far; a       *)
(* pointer is an index into it, and 0 is NULL.  A freed node stays in the  *)
(* sequence with the type "freed": whoever still points at it dangles.     *)
(***************************************************************************)
EXTENDS Integers, Sequences

NULL == 0

(* ld_region_new, then the caller's assignments.                           *)
NewRegion(type, start, size, section) ==
  [type |-> type, start |-> start, size |-> size, section |-> section,
   next |-> NULL, prev |-> NULL]

Region(Section, Addr) ==
  [type : {"free", "alloc", "freed"}, start : Addr, size : Addr,
   section : Section, next : Nat, prev : Nat]

(* p->field = value, which is skipped when p is NULL.                      *)
SetNext(h, p, n) == IF p = NULL THEN h ELSE [h EXCEPT ![p].next = n]
SetPrev(h, p, n) == IF p = NULL THEN h ELSE [h EXCEPT ![p].prev = n]

(* Mutant of RegionContains: only the start is looked at.                  *)
RegionContainsStart(self, other) ==
  /\ self.size >= other.size
  /\ other.start >= self.start

(* ld_region_contains.                                                     *)
RegionContains(self, other) ==
  /\ self.size >= other.size
  /\ other.start >= self.start
  /\ self.size - (other.start - self.start) >= other.size

-----------------------------------------------------------------------------
(* insert_before: the node put before self does not get self's prev.       *)
InsertBefore(h, self, node) ==
  LET h1 == SetNext(h, node, self)
      h2 == SetNext(h1, h[self].prev, node)
  IN  SetPrev(h2, self, node)

(* insert_after: the node put after self does not get self's next.         *)
InsertAfter(h, self, node) ==
  LET h1 == SetPrev(h, node, self)
      h2 == SetPrev(h1, h[self].next, node)
  IN  SetNext(h2, self, node)

(* Mutant of InsertMiddle: the region behind is allocated, not linked.     *)
InsertMiddleUnlinked(h, into, region, spaceAfter) ==
  LET h1    == InsertAfter(h, into, region)
      h2    == [h1 EXCEPT ![into].size = @ - (h[region].size + spaceAfter)]
      after == NewRegion("free", h[region].start + h[region].size,
                         spaceAfter, 0)
  IN  Append(h2, after)

(* The three ways a region leaves room in the free one, and the exact fit. *)
InsertMiddle(h, into, region, spaceAfter) ==
  LET h1    == InsertAfter(h, into, region)
      h2    == [h1 EXCEPT ![into].size = @ - (h[region].size + spaceAfter)]
      after == NewRegion("free", h[region].start + h[region].size,
                         spaceAfter, 0)
  IN  InsertAfter(Append(h2, after), region, Len(h2) + 1)

InsertAtEnd(h, into, region) ==
  [InsertAfter(h, into, region) EXCEPT ![into].size = @ - h[region].size]

(* Mutant of InsertAtStart: the region is linked behind the free one.      *)
InsertAtStartBehind(h, into, region) ==
  [InsertAfter(h, into, region) EXCEPT ![into].size  = @ - h[region].size,
                                       ![into].start = @ + h[region].size]

InsertAtStart(h, into, region) ==
  [InsertBefore(h, into, region) EXCEPT ![into].size  = @ - h[region].size,
                                        ![into].start = @ + h[region].size]

(* The free region is unlinked, cleared and freed; the new one gets        *)
(* neither its next nor its prev.                                          *)
Replace(h, into, region) ==
  LET h1 == SetNext(h, h[into].prev, region)
      h2 == SetPrev(h1, h[into].next, region)
  IN  [h2 EXCEPT ![into].next = NULL, ![into].prev = NULL,
                 ![into].type = "freed"]

-----------------------------------------------------------------------------
(* Whether ld_region_insert returns 0.                                     *)
CanInsert(h, into, region) ==
  RegionContains(h[into], h[region]) /\ h[into].type = "free"

(* Mutant of RegionInsert: the space left behind the region is forgotten.  *)
RegionInsertNoAfter(h, into, region) ==
  LET spaceBefore == h[region].start - h[into].start
  IN  IF spaceBefore # 0 THEN InsertAtEnd(h, into, region)
                         ELSE InsertAtStart(h, into, region)

(* Mutant of RegionInsert: a region at the start takes the free one's place.*)
RegionInsertReplaces(h, into, region) ==
  LET spaceBefore == h[region].start - h[into].start
      spaceAfter  == h[into].size - (spaceBefore + h[region].size)
  IN  CASE spaceBefore # 0 /\ spaceAfter # 0 ->
             InsertMiddle(h, into, region, spaceAfter)
        [] spaceBefore # 0 /\ spaceAfter = 0 -> InsertAtEnd(h, into, region)
        [] OTHER                             -> Replace(h, into, region)

(* ld_region_insert, for a region the free one contains.                   *)
RegionInsert(h, into, region) ==
  LET spaceBefore == h[region].start - h[into].start
      spaceAfter  == h[into].size - (spaceBefore + h[region].size)
  IN  CASE spaceBefore # 0 /\ spaceAfter # 0 ->
             InsertMiddle(h, into, region, spaceAfter)
        [] spaceBefore # 0 /\ spaceAfter = 0 -> InsertAtEnd(h, into, region)
        [] spaceBefore = 0 /\ spaceAfter # 0 -> InsertAtStart(h, into, region)
        [] OTHER                             -> Replace(h, into, region)

-----------------------------------------------------------------------------
(* get_first_region walks the prev pointers from the chain's pointer.      *)
FirstRegion(h, chain) ==
  LET back[k \in 0 .. Len(h)] ==
        IF k = 0 THEN chain
        ELSE LET p == back[k - 1] IN IF h[p].prev = NULL THEN p ELSE h[p].prev
  IN  back[Len(h)]

(* The regions a walk along the next pointers meets, in its order.         *)
Walk(h, first) ==
  LET ahead[k \in 1 .. Len(h)] ==
        IF k = 1 THEN <<first>>
        ELSE LET met == ahead[k - 1]
                 n   == h[met[Len(met)]].next
             IN  IF n = NULL THEN met ELSE Append(met, n)
  IN  ahead[Len(h)]

=============================================================================
