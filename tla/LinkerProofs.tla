----------------------------- MODULE LinkerProofs -----------------------------
(***************************************************************************)
(* Theorems about the placement of the linker, about the chain of regions, *)
(* pointer by pointer, and about what the linker writes along it, for      *)
(* every list of sections and every size of the memory.                    *)
(***************************************************************************)
EXTENDS Linker, SequenceTheorems, LeastNumber, TLAPS

(* Two heaps whose nodes cover the same bytes, linked in any way.          *)
SameRegions(h, g) ==
  /\ g \in Seq(Node) /\ Len(g) = Len(h)
  /\ \A r \in 1 .. Len(h) :
       /\ g[r].type = h[r].type     /\ g[r].start = h[r].start
       /\ g[r].size = h[r].size     /\ g[r].section = h[r].section

(* A write to a next pointer, of a node or through NULL, moves no region.  *)
LEMMA SetNextKeeps ==
  ASSUME NEW h \in Seq(Node), NEW p \in Nat, NEW n \in Nat
  PROVE  SameRegions(h, SetNext(h, p, n))
<1> DEFINE g == [h EXCEPT ![p].next = n]
<1>1. CASE p \in 1 .. Len(h)
  <2> DEFINE node == [h[p] EXCEPT !.next = n]
  <2>1. h[p] \in Node
    BY <1>1, ElementOfSeq
  <2>2. node \in Node /\ node.type = h[p].type /\ node.start = h[p].start
        /\ node.size = h[p].size /\ node.section = h[p].section
    BY <2>1 DEF Node
  <2>3. g = [h EXCEPT ![p] = node]
    OBVIOUS
  <2> HIDE DEF node
  <2>4. g \in Seq(Node) /\ Len(g) = Len(h)
        /\ \A j \in 1 .. Len(h) : g[j] = IF j = p THEN node ELSE h[j]
    BY <1>1, <2>2, <2>3, ExceptSeq
  <2>5. SameRegions(h, g)
    BY <2>2, <2>4 DEF SameRegions
  <2>6. p # NULL
    BY <1>1, LenProperties DEF NULL
  <2> QED
    BY <2>5, <2>6 DEF SetNext
<1>2. CASE p \notin 1 .. Len(h)
  <2>1. h \in [1 .. Len(h) -> Node]
    BY LenProperties
  <2>2. g = h
    BY <1>2, <2>1
  <2> QED
    BY <2>2 DEF SetNext, SameRegions
<1> QED
  BY <1>1, <1>2

(* The same for a write to a prev pointer.                                 *)
LEMMA SetPrevKeeps ==
  ASSUME NEW h \in Seq(Node), NEW p \in Nat, NEW n \in Nat
  PROVE  SameRegions(h, SetPrev(h, p, n))
<1> DEFINE g == [h EXCEPT ![p].prev = n]
<1>1. CASE p \in 1 .. Len(h)
  <2> DEFINE node == [h[p] EXCEPT !.prev = n]
  <2>1. h[p] \in Node
    BY <1>1, ElementOfSeq
  <2>2. node \in Node /\ node.type = h[p].type /\ node.start = h[p].start
        /\ node.size = h[p].size /\ node.section = h[p].section
    BY <2>1 DEF Node
  <2>3. g = [h EXCEPT ![p] = node]
    OBVIOUS
  <2> HIDE DEF node
  <2>4. g \in Seq(Node) /\ Len(g) = Len(h)
        /\ \A j \in 1 .. Len(h) : g[j] = IF j = p THEN node ELSE h[j]
    BY <1>1, <2>2, <2>3, ExceptSeq
  <2>5. SameRegions(h, g)
    BY <2>2, <2>4 DEF SameRegions
  <2>6. p # NULL
    BY <1>1, LenProperties DEF NULL
  <2> QED
    BY <2>5, <2>6 DEF SetPrev
<1>2. CASE p \notin 1 .. Len(h)
  <2>1. h \in [1 .. Len(h) -> Node]
    BY LenProperties
  <2>2. g = h
    BY <1>2, <2>1
  <2> QED
    BY <2>2 DEF SetPrev, SameRegions
<1> QED
  BY <1>1, <1>2

(* Linking a node after another moves no region.                           *)
LEMMA InsertAfterKeeps ==
  ASSUME NEW h \in Seq(Node), NEW self \in 1 .. Len(h), NEW node \in Nat
  PROVE  SameRegions(h, InsertAfter(h, self, node))
<1> DEFINE h1 == SetPrev(h, node, self)
           h2 == SetPrev(h1, h[self].next, node)
<1>0. self \in Nat
  BY LenProperties
<1>1. h[self].next \in Nat
  <2>1. h[self] \in Node
    BY ElementOfSeq
  <2> QED
    BY <2>1 DEF Node
<1>2. SameRegions(h, h1)
  BY <1>0, SetPrevKeeps
<1>3. SameRegions(h1, h2)
  BY <1>1, <1>2, SetPrevKeeps DEF SameRegions
<1>4. SameRegions(h2, SetNext(h2, self, node))
  BY <1>0, <1>3, SetNextKeeps DEF SameRegions
<1> QED
  BY <1>2, <1>3, <1>4 DEF InsertAfter, SameRegions

(* Linking a node before another moves no region.                          *)
LEMMA InsertBeforeKeeps ==
  ASSUME NEW h \in Seq(Node), NEW self \in 1 .. Len(h), NEW node \in Nat
  PROVE  SameRegions(h, InsertBefore(h, self, node))
<1> DEFINE h1 == SetNext(h, node, self)
           h2 == SetNext(h1, h[self].prev, node)
<1>0. self \in Nat
  BY LenProperties
<1>1. h[self].prev \in Nat
  <2>1. h[self] \in Node
    BY ElementOfSeq
  <2> QED
    BY <2>1 DEF Node
<1>2. SameRegions(h, h1)
  BY <1>0, SetNextKeeps
<1>3. SameRegions(h1, h2)
  BY <1>1, <1>2, SetNextKeeps DEF SameRegions
<1>4. SameRegions(h2, SetPrev(h2, self, node))
  BY <1>0, <1>3, SetPrevKeeps DEF SameRegions
<1> QED
  BY <1>2, <1>3, <1>4 DEF InsertBefore, SameRegions

(* Region node of heap g lies within region into of heap h and shares no   *)
(* byte with the region that was put there.                                *)
Within(h, g, into, rg, node) ==
  /\ h[into].start <= g[node].start
  /\ g[node].start + g[node].size <= h[into].start + h[into].size
  /\ \/ g[node].start + g[node].size <= h[rg].start
     \/ h[rg].start + h[rg].size <= g[node].start

(* What an insertion makes of a heap: every other region stays, the free   *)
(* one shrinks around the new one or is freed, and at most one free region *)
(* is added behind.                                                        *)
Splits(h, g, into, rg) ==
  /\ g \in Seq(Node)
  /\ Len(g) = Len(h) \/ Len(g) = Len(h) + 1
  /\ \A r \in 1 .. Len(h) : r # into =>
       /\ g[r].type = h[r].type     /\ g[r].start = h[r].start
       /\ g[r].size = h[r].size     /\ g[r].section = h[r].section
  /\ \/ g[into].type = "freed"
     \/ g[into].type = "free" /\ Within(h, g, into, rg, into)
  /\ Len(g) = Len(h) + 1 =>
       /\ g[Len(g)].type = "free" /\ Within(h, g, into, rg, Len(g))
       /\ g[into].type = "free"
       /\ g[into].start + g[into].size <= g[Len(g)].start

(* A range of y bytes at t within one of z bytes at s.                     *)
LEMMA Bounds ==
  ASSUME NEW s \in Nat, NEW z \in Nat, NEW t \in Nat, NEW y \in Nat,
         t - s \in Nat, z - ((t - s) + y) \in Nat
  PROVE  /\ s <= s /\ t <= t /\ t + y <= t + y /\ s + z <= s + z
         /\ s <= t /\ t <= s + z /\ t <= t + y
         /\ s <= t + y /\ t + y <= s + z
OBVIOUS

(* The numbers behind an insertion that is possible.                       *)
LEMMA Room ==
  ASSUME NEW h \in Seq(Node), NEW into \in 1 .. Len(h), NEW rg \in 1 .. Len(h),
         CanInsert(h, into, rg)
  PROVE  LET before == h[rg].start - h[into].start
         IN  /\ h[into] \in Node /\ h[into].start \in Nat /\ h[into].size \in Nat
             /\ h[rg] \in Node /\ h[rg].start \in Nat /\ h[rg].size \in Nat
             /\ h[rg].start + h[rg].size \in Nat /\ before \in Nat
             /\ h[into].size - (before + h[rg].size) \in Nat
             /\ h[into].type = "free"
<1>1. h[into] \in Node /\ h[rg] \in Node
  BY ElementOfSeq
<1>2. /\ h[into].start \in Nat /\ h[into].size \in Nat
      /\ h[rg].start \in Nat /\ h[rg].size \in Nat
  BY <1>1 DEF Node
<1>3. /\ h[into].type = "free" /\ h[rg].start >= h[into].start
      /\ h[into].size - (h[rg].start - h[into].start) >= h[rg].size
  BY DEF CanInsert, RegionContains
<1> QED
  BY <1>1, <1>2, <1>3, SMTT(60)

(* A node changed in place.                                                *)
Reshaped(h, g, p, start, size) ==
  /\ g \in Seq(Node) /\ Len(g) = Len(h)
  /\ \A r \in 1 .. Len(h) : r # p => g[r] = h[r]
  /\ g[p].start = start /\ g[p].size = size
  /\ g[p].type = h[p].type /\ g[p].section = h[p].section
  /\ g[p].next = h[p].next /\ g[p].prev = h[p].prev

LEMMA Resize ==
  ASSUME NEW h \in Seq(Node), NEW p \in 1 .. Len(h), NEW size \in Nat
  PROVE  Reshaped(h, [h EXCEPT ![p].size = size], p, h[p].start, size)
<1> DEFINE node == [h[p] EXCEPT !.size = size]
           g    == [h EXCEPT ![p] = node]
<1>1. h[p] \in Node
  BY ElementOfSeq
<1>2. node \in Node /\ node.start = h[p].start /\ node.size = size
      /\ node.type = h[p].type /\ node.section = h[p].section
      /\ node.next = h[p].next /\ node.prev = h[p].prev
  BY <1>1 DEF Node
<1>3. g = [h EXCEPT ![p].size = size]
  OBVIOUS
<1> HIDE DEF node
<1>4. g \in Seq(Node) /\ Len(g) = Len(h)
      /\ \A j \in 1 .. Len(h) : g[j] = IF j = p THEN node ELSE h[j]
  BY <1>2, ExceptSeq
<1> HIDE DEF g
<1> QED
  BY <1>2, <1>3, <1>4 DEF Reshaped

LEMMA Move ==
  ASSUME NEW h \in Seq(Node), NEW p \in 1 .. Len(h), NEW size \in Nat,
         NEW start \in Nat
  PROVE  Reshaped(h, [h EXCEPT ![p].size = size, ![p].start = start],
                  p, start, size)
<1> DEFINE node == [h[p] EXCEPT !.size = size, !.start = start]
           g    == [h EXCEPT ![p] = node]
<1>1. h[p] \in Node
  BY ElementOfSeq
<1>2. node \in Node /\ node.start = start /\ node.size = size
      /\ node.type = h[p].type /\ node.section = h[p].section
      /\ node.next = h[p].next /\ node.prev = h[p].prev
  BY <1>1 DEF Node
<1>3. g = [h EXCEPT ![p].size = size, ![p].start = start]
  <2>1. h \in [1 .. Len(h) -> Node]
    BY LenProperties
  <2> QED
    BY <2>1
<1> HIDE DEF node
<1>4. g \in Seq(Node) /\ Len(g) = Len(h)
      /\ \A j \in 1 .. Len(h) : g[j] = IF j = p THEN node ELSE h[j]
  BY <1>2, ExceptSeq
<1> HIDE DEF g
<1> QED
  BY <1>2, <1>3, <1>4 DEF Reshaped

(* Space before and behind the new region.                                 *)
LEMMA InsertMiddleSplits ==
  ASSUME NEW h \in Seq(Node), NEW into \in 1 .. Len(h), NEW rg \in 1 .. Len(h),
         into # rg, CanInsert(h, into, rg), NEW after \in Nat,
         after = h[into].size - ((h[rg].start - h[into].start) + h[rg].size)
  PROVE  Splits(h, InsertMiddle(h, into, rg, after), into, rg)
<1> DEFINE before == h[rg].start - h[into].start
           h1   == InsertAfter(h, into, rg)
           h2   == [h1 EXCEPT ![into].size = before]
           new  == NewRegion("free", h[rg].start + h[rg].size, after, 0)
           h3   == Append(h2, new)
           g    == InsertAfter(h3, rg, Len(h2) + 1)
<1>0. Len(h) \in Nat /\ into \in Nat /\ rg \in Nat
  BY LenProperties
<1>1. /\ h[into].start \in Nat /\ h[into].size \in Nat
      /\ h[rg].start \in Nat /\ h[rg].size \in Nat
      /\ before \in Nat /\ h[into].type = "free"
  BY Room
<1>2. SameRegions(h, h1)
  BY <1>0, InsertAfterKeeps
<1>3. Reshaped(h1, h2, into, h1[into].start, before)
  <2> HIDE DEF h1, before
  <2> QED
    BY <1>1, <1>2, Resize DEF SameRegions
<1>4. h2 = [h1 EXCEPT ![into].size = @ - (h[rg].size + after)]
  <2>1. h1[into].size - (h[rg].size + after) = before
    BY <1>1, <1>2, SMTT(60) DEF SameRegions
  <2> QED
    BY <2>1
<1>5. new \in Node /\ new.type = "free"
      /\ new.start = h[rg].start + h[rg].size /\ new.size = after
  <2>1. h[rg].start + h[rg].size \in Nat
    BY Room
  <2> QED
    BY <2>1 DEF NewRegion, Node, NULL
<1>6. InsertMiddle(h, into, rg, after) = g
  <2> HIDE DEF before
  <2> QED
    BY <1>4 DEF InsertMiddle
<1> HIDE DEF h1, h2, new
<1>7. /\ h2 \in Seq(Node) /\ Len(h2) = Len(h)
      /\ h2[into].type = "free" /\ h2[into].start = h[into].start
      /\ h2[into].size = before
      /\ \A r \in 1 .. Len(h) : r # into =>
           /\ h2[r].type = h[r].type     /\ h2[r].start = h[r].start
           /\ h2[r].size = h[r].size     /\ h2[r].section = h[r].section
  BY <1>1, <1>2, <1>3 DEF SameRegions, Reshaped
<1>8. /\ h3 \in Seq(Node) /\ Len(h3) = Len(h) + 1
      /\ h3[Len(h) + 1] = new
      /\ \A j \in 1 .. Len(h) : h3[j] = h2[j]
  <2>1. h2 \in Seq(Node) /\ Len(h2) = Len(h)
    BY <1>7
  <2>2. new \in Node
    BY <1>5
  <2> QED
    BY <2>1, <2>2, AppendProperties
<1> HIDE DEF h3
<1>9. SameRegions(h3, g)
  <2>1. rg \in 1 .. Len(h3) /\ Len(h2) + 1 \in Nat
    BY <1>0, <1>7, <1>8
  <2> QED
    BY <1>8, <2>1, InsertAfterKeeps
<1> HIDE DEF g
<1>10. \A r \in 1 .. Len(h) :
         /\ g[r].type = h2[r].type     /\ g[r].start = h2[r].start
         /\ g[r].size = h2[r].size     /\ g[r].section = h2[r].section
  BY <1>0, <1>8, <1>9 DEF SameRegions
<1>11. /\ g \in Seq(Node) /\ Len(g) = Len(h) + 1
       /\ g[Len(g)].type = "free" /\ g[Len(g)].size = after
       /\ g[Len(g)].start = h[rg].start + h[rg].size
  BY <1>0, <1>5, <1>8, <1>9 DEF SameRegions
<1>12. /\ g[into].type = "free" /\ g[into].start = h[into].start
       /\ g[into].size = before
  BY <1>7, <1>10
<1>13. Within(h, g, into, rg, into) /\ Within(h, g, into, rg, Len(g))
       /\ g[into].start + g[into].size <= g[Len(g)].start
  <2>1. /\ h[rg].start = h[into].start + before
        /\ h[into].size = before + h[rg].size + after
    BY <1>1, SMTT(60)
  <2>2. g[into].start + g[into].size = h[rg].start
    BY <1>12, <2>1
  <2>3. g[Len(g)].start + g[Len(g)].size = h[into].start + h[into].size
    BY <1>1, <1>11, <2>1, SMTT(60)
  <2>4. LET s == h[into].start   z == h[into].size
            t == h[rg].start     y == h[rg].size
        IN  /\ s <= s /\ t <= t /\ t + y <= t + y /\ s + z <= s + z
            /\ s <= t /\ t <= s + z /\ t <= t + y
            /\ s <= t + y /\ t + y <= s + z
    BY <1>1, Bounds
  <2>5. Within(h, g, into, rg, into)
    BY <1>12, <2>2, <2>4, Zenon DEF Within
  <2>6. Within(h, g, into, rg, Len(g))
    BY <1>11, <2>3, <2>4, Zenon DEF Within
  <2> QED
    BY <1>11, <2>2, <2>4, <2>5, <2>6, Zenon
<1>14. \A r \in 1 .. Len(h) : r # into =>
         /\ g[r].type = h[r].type     /\ g[r].start = h[r].start
         /\ g[r].size = h[r].size     /\ g[r].section = h[r].section
  BY <1>7, <1>10
<1> QED
  BY <1>6, <1>11, <1>12, <1>13, <1>14 DEF Splits

(* Space before the new region only.                                       *)
LEMMA InsertAtEndSplits ==
  ASSUME NEW h \in Seq(Node), NEW into \in 1 .. Len(h), NEW rg \in 1 .. Len(h),
         into # rg, CanInsert(h, into, rg),
         0 = h[into].size - ((h[rg].start - h[into].start) + h[rg].size)
  PROVE  Splits(h, InsertAtEnd(h, into, rg), into, rg)
<1> DEFINE before == h[rg].start - h[into].start
           h1 == InsertAfter(h, into, rg)
           g  == [h1 EXCEPT ![into].size = before]
<1>0. Len(h) \in Nat /\ into \in Nat /\ rg \in Nat
  BY LenProperties
<1>1. /\ h[into].start \in Nat /\ h[into].size \in Nat
      /\ h[rg].start \in Nat /\ h[rg].size \in Nat
      /\ before \in Nat /\ h[into].type = "free"
  BY Room
<1>2. SameRegions(h, h1)
  BY <1>0, InsertAfterKeeps
<1>3. Reshaped(h1, g, into, h1[into].start, before)
  <2> HIDE DEF h1, before
  <2> QED
    BY <1>1, <1>2, Resize DEF SameRegions
<1>4. InsertAtEnd(h, into, rg) = g
  <2>1. h1[into].size - h[rg].size = before
    BY <1>1, <1>2, SMTT(60) DEF SameRegions
  <2> QED
    BY <2>1 DEF InsertAtEnd
<1>5. h[rg].start = h[into].start + before
  BY <1>1
<1>6. LET s == h[into].start   z == h[into].size
          t == h[rg].start     y == h[rg].size
      IN  s <= s /\ t <= s + z /\ t <= t
  BY <1>1, Bounds, SMTT(60)
<1> HIDE DEF h1, g, before
<1>7. /\ g \in Seq(Node) /\ Len(g) = Len(h)
      /\ g[into].type = "free" /\ g[into].start = h[into].start
      /\ g[into].size = before
      /\ \A r \in 1 .. Len(h) : r # into =>
           /\ g[r].type = h[r].type     /\ g[r].start = h[r].start
           /\ g[r].size = h[r].size     /\ g[r].section = h[r].section
  BY <1>1, <1>2, <1>3 DEF SameRegions, Reshaped
<1>8. Within(h, g, into, rg, into)
  BY <1>5, <1>6, <1>7, Zenon DEF Within
<1>9. Len(g) # Len(h) + 1
  BY <1>0, <1>7
<1> QED
  BY <1>4, <1>7, <1>8, <1>9 DEF Splits

(* Space behind the new region only.                                       *)
LEMMA InsertAtStartSplits ==
  ASSUME NEW h \in Seq(Node), NEW into \in 1 .. Len(h), NEW rg \in 1 .. Len(h),
         into # rg, CanInsert(h, into, rg), h[rg].start - h[into].start = 0
  PROVE  Splits(h, InsertAtStart(h, into, rg), into, rg)
<1> DEFINE size  == h[into].size - h[rg].size
           start == h[into].start + h[rg].size
           h1 == InsertBefore(h, into, rg)
           g  == [h1 EXCEPT ![into].size = size, ![into].start = start]
<1>0. Len(h) \in Nat /\ into \in Nat /\ rg \in Nat
  BY LenProperties
<1>1. /\ h[into].start \in Nat /\ h[into].size \in Nat
      /\ h[rg].start \in Nat /\ h[rg].size \in Nat
      /\ size \in Nat /\ start \in Nat /\ h[into].type = "free"
      /\ h[into].start = h[rg].start
  <2>1. /\ h[into].start \in Nat /\ h[into].size \in Nat
        /\ h[rg].start \in Nat /\ h[rg].size \in Nat
        /\ h[into].size - ((h[rg].start - h[into].start) + h[rg].size) \in Nat
        /\ h[into].type = "free"
    BY Room
  <2>2. size \in Nat /\ start \in Nat /\ h[into].start = h[rg].start
    BY <2>1, SMTT(60)
  <2> QED
    BY <2>1, <2>2
<1>2. SameRegions(h, h1)
  BY <1>0, InsertBeforeKeeps
<1>3. Reshaped(h1, g, into, start, size)
  <2> HIDE DEF h1, size, start
  <2> QED
    BY <1>1, <1>2, Move DEF SameRegions
<1>4. InsertAtStart(h, into, rg) = g
  <2>1. h1[into].size - h[rg].size = size /\ h1[into].start + h[rg].size = start
    BY <1>2 DEF SameRegions
  <2>2. h1 \in [1 .. Len(h1) -> Node]
    BY <1>2, LenProperties DEF SameRegions
  <2> QED
    BY <2>1, <2>2 DEF InsertAtStart
<1>5. /\ h[into].start <= start
      /\ start + size = h[into].start + h[into].size
      /\ h[into].start + h[into].size <= h[into].start + h[into].size
      /\ h[rg].start + h[rg].size <= start
  BY <1>1, SMTT(60)
<1> HIDE DEF h1, g, size, start
<1>6. /\ g \in Seq(Node) /\ Len(g) = Len(h)
      /\ g[into].type = "free" /\ g[into].start = start
      /\ g[into].size = size
      /\ \A r \in 1 .. Len(h) : r # into =>
           /\ g[r].type = h[r].type     /\ g[r].start = h[r].start
           /\ g[r].size = h[r].size     /\ g[r].section = h[r].section
  BY <1>1, <1>2, <1>3 DEF SameRegions, Reshaped
<1>7. Within(h, g, into, rg, into)
  BY <1>5, <1>6, Zenon DEF Within
<1>8. Len(g) # Len(h) + 1
  BY <1>0, <1>6
<1> QED
  BY <1>4, <1>6, <1>7, <1>8 DEF Splits

(* An exact fit frees the region.                                          *)
LEMMA ReplaceSplits ==
  ASSUME NEW h \in Seq(Node), NEW into \in 1 .. Len(h), NEW rg \in 1 .. Len(h),
         into # rg
  PROVE  Splits(h, Replace(h, into, rg), into, rg)
<1> DEFINE h1   == SetNext(h, h[into].prev, rg)
           h2   == SetPrev(h1, h[into].next, rg)
           node == [h2[into] EXCEPT !.next = NULL, !.prev = NULL,
                                    !.type = "freed"]
           g    == [h2 EXCEPT ![into] = node]
<1>0. Len(h) \in Nat /\ into \in Nat /\ rg \in Nat
  BY LenProperties
<1>1. h[into].prev \in Nat /\ h[into].next \in Nat
  <2>1. h[into] \in Node
    BY ElementOfSeq
  <2> QED
    BY <2>1 DEF Node
<1>2. SameRegions(h, h1)
  BY <1>0, <1>1, SetNextKeeps
<1>3. SameRegions(h1, h2)
  <2> HIDE DEF h1
  <2> QED
    BY <1>0, <1>1, <1>2, SetPrevKeeps DEF SameRegions
<1>4. Replace(h, into, rg) = g
  <2>1. h2 \in [1 .. Len(h2) -> Node]
    BY <1>3, LenProperties DEF SameRegions
  <2>2. Replace(h, into, rg)
          = [h2 EXCEPT ![into].next = NULL, ![into].prev = NULL,
                       ![into].type = "freed"]
    BY DEF Replace
  <2> HIDE DEF h2
  <2> QED
    BY <2>1, <2>2
<1> HIDE DEF h1, h2
<1>5. h2[into] \in Node
  BY <1>2, <1>3, ElementOfSeq DEF SameRegions
<1>6. node \in Node /\ node.type = "freed"
  BY <1>5 DEF Node, NULL
<1> HIDE DEF node
<1>7. g \in Seq(Node) /\ Len(g) = Len(h)
      /\ \A j \in 1 .. Len(h) : g[j] = IF j = into THEN node ELSE h2[j]
  BY <1>2, <1>3, <1>6, ExceptSeq DEF SameRegions
<1> HIDE DEF g
<1>8. \A r \in 1 .. Len(h) : r # into =>
           /\ g[r].type = h[r].type     /\ g[r].start = h[r].start
           /\ g[r].size = h[r].size     /\ g[r].section = h[r].section
  BY <1>2, <1>3, <1>7 DEF SameRegions
<1>9. g[into].type = "freed" /\ Len(g) # Len(h) + 1
  BY <1>0, <1>6, <1>7
<1>10. Splits(h, g, into, rg)
  BY <1>7, <1>8, <1>9 DEF Splits
<1> QED
  BY <1>4, <1>10, Zenon

(* ld_region_insert, whatever room there is.                               *)
LEMMA RegionInsertSplits ==
  ASSUME NEW h \in Seq(Node), NEW into \in 1 .. Len(h), NEW rg \in 1 .. Len(h),
         into # rg, CanInsert(h, into, rg)
  PROVE  Splits(h, RegionInsert(h, into, rg), into, rg)
<1> DEFINE before == h[rg].start - h[into].start
           after  == h[into].size - (before + h[rg].size)
<1>1. before \in Nat /\ after \in Nat
  BY Room
<1>2. CASE before # 0 /\ after # 0
  <2>1. RegionInsert(h, into, rg) = InsertMiddle(h, into, rg, after)
    BY <1>2 DEF RegionInsert
  <2> QED
    BY <1>1, <2>1, InsertMiddleSplits
<1>3. CASE before # 0 /\ after = 0
  <2>1. RegionInsert(h, into, rg) = InsertAtEnd(h, into, rg)
    BY <1>3 DEF RegionInsert
  <2> QED
    BY <1>3, <2>1, InsertAtEndSplits
<1>4. CASE before = 0 /\ after # 0
  <2>1. RegionInsert(h, into, rg) = InsertAtStart(h, into, rg)
    BY <1>4 DEF RegionInsert
  <2> QED
    BY <1>4, <2>1, InsertAtStartSplits
<1>5. CASE before = 0 /\ after = 0
  <2>1. RegionInsert(h, into, rg) = Replace(h, into, rg)
    BY <1>5 DEF RegionInsert
  <2> QED
    BY <2>1, ReplaceSplits
<1> QED
  BY <1>2, <1>3, <1>4, <1>5

(* Ranges of bytes: of y at t, and of z at s.                              *)
Beside(t, y, s, z) == t + y <= s \/ s + z <= t
Inside(t, y, s, z) == s <= t /\ t + y <= s + z

(* What is beside a range is beside its parts.                             *)
LEMMA BesidePart ==
  ASSUME NEW a \in Nat, NEW b \in Nat, NEW s \in Nat, NEW z \in Nat,
         NEW t \in Nat, NEW y \in Nat,
         Beside(a, b, s, z), Inside(t, y, s, z)
  PROVE  Beside(a, b, t, y) /\ Beside(t, y, a, b)
BY DEF Beside, Inside

LEMMA AtMost ==
  ASSUME NEW a \in Nat, NEW b \in Nat, NEW c \in Nat, a <= b, b <= c
  PROVE  a <= c
OBVIOUS

LEMMA BesideCommutes ==
  ASSUME NEW a \in Nat, NEW b \in Nat, NEW s \in Nat, NEW z \in Nat,
         Beside(a, b, s, z)
  PROVE  Beside(s, z, a, b)
BY DEF Beside

(* The first n nodes of heap h share no byte and stay within the memory.   *)
HeapApart(h, n) ==
  /\ \A r \in 1 .. n : h[r].type # "freed" => h[r].start + h[r].size <= MaxAddr
  /\ \A r, s \in 1 .. n :
       h[r].type # "freed" /\ h[s].type # "freed" /\ r # s =>
         Beside(h[r].start, h[r].size, h[s].start, h[s].size)

(* An insertion keeps the regions apart: h is the heap with the new node   *)
(* behind it, g what ld_region_insert makes of it.                         *)
LEMMA SplitsApart ==
  ASSUME NEW h \in Seq(Node), NEW g, NEW n \in Nat, Len(h) = n + 1,
         NEW into \in 1 .. n, CanInsert(h, into, n + 1), HeapApart(h, n),
         Splits(h, g, into, n + 1)
  PROVE  HeapApart(g, Len(g))
<1> DEFINE Lies(r)  == Inside(g[r].start, g[r].size, h[into].start, h[into].size)
           Old(r)   == /\ r \in 1 .. n /\ r # into /\ h[r].type # "freed"
                       /\ g[r].start = h[r].start /\ g[r].size = h[r].size
           Part(r)  == /\ r \in {into, n + 2} /\ Lies(r)
                       /\ Beside(g[r].start, g[r].size, g[n + 1].start, g[n + 1].size)
           IsLive(r)  == r \in 1 .. Len(g) /\ g[r].type # "freed"
           Clear(r, s) == Beside(g[r].start, g[r].size, g[s].start, g[s].size)
<1>1. \A r \in 1 .. Len(g) : g[r].start \in Nat /\ g[r].size \in Nat
  <2>1. \A r \in 1 .. Len(g) : g[r] \in Node
    BY ElementOfSeq DEF Splits
  <2> QED
    BY <2>1 DEF Node
<1>2. /\ h[into].start \in Nat /\ h[into].size \in Nat
      /\ h[n + 1].start \in Nat /\ h[n + 1].size \in Nat
      /\ h[into].type = "free"
      /\ h[n + 1].start - h[into].start \in Nat
      /\ h[into].size - ((h[n + 1].start - h[into].start) + h[n + 1].size) \in Nat
  <2>1. into \in 1 .. Len(h) /\ n + 1 \in 1 .. Len(h)
    OBVIOUS
  <2> QED
    BY <2>1, Room
<1>3. g[n + 1].start = h[n + 1].start /\ g[n + 1].size = h[n + 1].size
  <2>1. n + 1 \in 1 .. Len(h) /\ n + 1 # into
    OBVIOUS
  <2> QED
    BY <2>1 DEF Splits
<1>4. Lies(n + 1)
  <2>1. /\ h[into].start <= h[n + 1].start
        /\ h[n + 1].start + h[n + 1].size <= h[into].start + h[into].size
    BY <1>2, Bounds
  <2> QED
    BY <1>3, <2>1, Zenon DEF Inside
<1>5. \A r : IsLive(r) => Old(r) \/ Part(r) \/ r = n + 1
  <2> SUFFICES ASSUME NEW r, IsLive(r)
               PROVE  Old(r) \/ Part(r) \/ r = n + 1
    OBVIOUS
  <2>1. CASE r = into
    <3>1. Within(h, g, into, n + 1, into)
      BY <2>1 DEF Splits
    <3> QED
      BY <1>3, <2>1, <3>1, Zenon DEF Within, Inside, Beside
  <2>2. CASE r = n + 2
    <3>1. Len(g) = n + 2 /\ Len(g) = Len(h) + 1
      BY <2>2 DEF Splits
    <3>2. Within(h, g, into, n + 1, n + 2)
      BY <3>1, Zenon DEF Splits
    <3> QED
      BY <1>3, <2>2, <3>2, Zenon DEF Within, Inside, Beside
  <2>3. CASE r # into /\ r # n + 1 /\ r # n + 2
    <3>1. r \in 1 .. n /\ r \in 1 .. Len(h)
      BY <2>3, SMTT(60) DEF Splits
    <3> QED
      BY <2>3, <3>1 DEF Splits
  <2> QED
    BY <2>1, <2>2, <2>3
<1>6. \A r : Old(r) => Beside(g[r].start, g[r].size, h[into].start, h[into].size)
  BY <1>2 DEF HeapApart
<1>7. \A r, s : Old(r) /\ Old(s) /\ r # s => Clear(r, s)
  BY DEF HeapApart
<1>8. \A r, s : Old(r) /\ IsLive(r) /\ IsLive(s) /\ Lies(s) => Clear(r, s) /\ Clear(s, r)
  <2> SUFFICES ASSUME NEW r, NEW s, Old(r), IsLive(r), IsLive(s), Lies(s)
               PROVE  Clear(r, s) /\ Clear(s, r)
    OBVIOUS
  <2>1. Beside(g[r].start, g[r].size, h[into].start, h[into].size)
    BY <1>6
  <2>2. /\ g[r].start \in Nat /\ g[r].size \in Nat
        /\ g[s].start \in Nat /\ g[s].size \in Nat
    BY <1>1
  <2> QED
    BY <1>2, <2>1, <2>2, BesidePart
<1>9. \A r, s : IsLive(r) /\ IsLive(s) /\ Part(r) /\ Part(s) /\ r # s => Clear(r, s)
  <2> SUFFICES ASSUME NEW r, NEW s, IsLive(r), IsLive(s), Part(r), Part(s), r # s
               PROVE  Clear(r, s)
    OBVIOUS
  <2>1. n + 2 \in 1 .. Len(g)
    OBVIOUS
  <2>2. Len(g) = n + 2 /\ Len(g) = Len(h) + 1
    BY <2>1 DEF Splits
  <2>3. g[into].start + g[into].size <= g[n + 2].start
    BY <2>2, Zenon DEF Splits
  <2>4. Clear(into, n + 2) /\ Clear(n + 2, into)
    BY <2>3, Zenon DEF Beside
  <2> QED
    BY <2>4, Zenon
<1>10. \A r : IsLive(r) /\ Part(r) => Clear(r, n + 1) /\ Clear(n + 1, r)
  <2> SUFFICES ASSUME NEW r, IsLive(r), Part(r)
               PROVE  Clear(r, n + 1) /\ Clear(n + 1, r)
    OBVIOUS
  <2>1. g[r].start \in Nat /\ g[r].size \in Nat
    BY <1>1
  <2>2. g[n + 1].start \in Nat /\ g[n + 1].size \in Nat
    BY <1>2, <1>3
  <2> QED
    BY <2>1, <2>2, BesideCommutes
<1>11. \A r, s : IsLive(r) /\ IsLive(s) /\ r # s => Clear(r, s)
  <2> SUFFICES ASSUME NEW r, NEW s, IsLive(r), IsLive(s), r # s
               PROVE  Clear(r, s)
    OBVIOUS
  <2>1. CASE Old(r) /\ Old(s)
    BY <1>7, <2>1
  <2>2. CASE Old(r) /\ ~Old(s)
    <3>1. Lies(s)
      BY <1>4, <1>5, <2>2, Zenon
    <3> QED
      BY <1>8, <2>2, <3>1, Zenon
  <2>3. CASE ~Old(r) /\ Old(s)
    <3>1. Lies(r)
      BY <1>4, <1>5, <2>3, Zenon
    <3> QED
      BY <1>8, <2>3, <3>1, Zenon
  <2>4. CASE ~Old(r) /\ ~Old(s)
    <3>1. (Part(r) \/ r = n + 1) /\ (Part(s) \/ s = n + 1)
      BY <1>5, <2>4, Zenon
    <3> QED
      BY <1>9, <1>10, <3>1, Zenon
  <2> QED
    BY <2>1, <2>2, <2>3, <2>4
<1>12. \A r : IsLive(r) => g[r].start + g[r].size <= MaxAddr
  <2> SUFFICES ASSUME NEW r, IsLive(r)
               PROVE  g[r].start + g[r].size <= MaxAddr
    OBVIOUS
  <2>1. CASE Old(r)
    BY <2>1 DEF HeapApart
  <2>2. CASE ~Old(r)
    <3>1. Lies(r)
      BY <1>4, <1>5, <2>2, Zenon
    <3>2. h[into].start + h[into].size <= MaxAddr
      BY <1>2 DEF HeapApart
    <3>3. g[r].start \in Nat /\ g[r].size \in Nat /\ MaxAddr \in Nat
      BY <1>1, LinkerAssumption
    <3>4. h[into].start \in Nat /\ h[into].size \in Nat
      BY <1>2
    <3>5. g[r].start + g[r].size \in Nat /\ h[into].start + h[into].size \in Nat
          /\ MaxAddr \in Nat
      BY <3>3, <3>4, SMTT(60)
    <3>6. g[r].start + g[r].size <= h[into].start + h[into].size
      BY <3>1, Zenon DEF Inside
    <3> QED
      BY <3>2, <3>5, <3>6, AtMost
  <2> QED
    BY <2>1, <2>2
<1> QED
  BY <1>11, <1>12 DEF HeapApart

-----------------------------------------------------------------------------
(* RegionsApart, of the heap before an insertion and of the heap after it. *)
LEMMA RegionsApartIsHeapApart ==
  ASSUME heap \in Seq(Node)
  PROVE  RegionsApart <=> HeapApart(heap, Len(heap))
<1>1. DOMAIN heap = 1 .. Len(heap)
  BY LenProperties
<1> QED
  BY <1>1 DEF RegionsApart, HeapApart, Live, Ends, Apart, Beside

LEMMA RegionsApartIsHeapApartNext ==
  ASSUME heap' \in Seq(Node)
  PROVE  RegionsApart' <=> HeapApart(heap', Len(heap'))
<1>1. DOMAIN heap' = 1 .. Len(heap')
  BY LenProperties
<1> QED
  BY <1>1 DEF RegionsApart, HeapApart, Live, Ends, Apart, Beside

(* What every step but an insertion keeps.                                 *)
LEMMA NothingPlaced ==
  ASSUME PlacementInv, UNCHANGED <<entries, heap, region>>, i' \in Nat \ {0}, FixedPlaced'
  PROVE  PlacementInv'
BY DEF PlacementInv, RegionsApart, SectionsPlaced, Live, Ends, Apart, Placed,
       Entry

(* An insertion gives section e the whole of a region, splits only a free  *)
(* one and leaves every other section where it was.                        *)
LEMMA InsertPlaces ==
  ASSUME PlacementInv, NEW e \in Entry, NEW r \in DOMAIN heap, NEW start \in Nat,
         entries[e].fixed => start = entries[e].origin,
         Insert(e, r, start)
  PROVE  /\ heap' \in Seq(Node) /\ region' \in [Entry' -> 0 .. Len(heap')]
         /\ RegionsApart' /\ SectionsPlaced'
         /\ entries' = entries /\ phase' = phase
         /\ \A f \in Entry : Placed(f)' <=> Placed(f) \/ f = e
         /\ \A f \in Entry : region'[f] = IF f = e THEN Len(heap) + 1 ELSE region[f]
         /\ \A f \in Entry : Placed(f)' =>
              heap'[region'[f]].start = IF f = e THEN start ELSE heap[region[f]].start
<1> DEFINE n   == Len(heap)
           new == NewRegion("alloc", start, entries[e].size, e)
           h   == Append(heap, new)
           g   == RegionInsert(h, r, Len(h))
<1>1. heap \in Seq(Node) /\ n \in Nat /\ r \in 1 .. n
  BY LenProperties DEF PlacementInv
<1>2. entries[e].size \in Nat /\ e \in Nat
  <2>1. entries \in Inputs
    BY DEF PlacementInv
  <2> QED
    BY <2>1, LinkerAssumption DEF Entry
<1>3. new \in Node
  BY <1>2 DEF NewRegion, Node, NULL
<1>4. new.type = "alloc" /\ new.section = e /\ new.start = start
      /\ new.size = entries[e].size
  BY DEF NewRegion
<1> HIDE DEF new
<1>5. /\ h \in Seq(Node) /\ Len(h) = n + 1 /\ h[n + 1] = new
      /\ \A q \in 1 .. n : h[q] = heap[q]
  BY <1>1, <1>3, LenProperties
<1>6. /\ CanInsert(h, r, Len(h)) /\ heap' = g
      /\ region' = [region EXCEPT ![e] = Len(h)]
      /\ entries' = entries /\ phase' = phase
  BY DEF Insert, new
<1> HIDE DEF h, g
<1>7. HeapApart(h, n)
  <2>1. HeapApart(heap, n)
    BY <1>1, RegionsApartIsHeapApart DEF PlacementInv
  <2> QED
    BY <1>1, <1>5, <2>1 DEF HeapApart
<1>8. Splits(h, g, r, n + 1)
  <2>1. r \in 1 .. Len(h) /\ n + 1 \in 1 .. Len(h) /\ r # n + 1
    BY <1>1, <1>5
  <2> QED
    BY <1>5, <1>6, <2>1, RegionInsertSplits DEF g
<1>9. g \in Seq(Node) /\ Len(g) \in Nat /\ Len(g) >= n + 1
  <2>1. g \in Seq(Node)
    BY <1>8 DEF Splits
  <2>2. Len(g) = n + 1 \/ Len(g) = (n + 1) + 1
    BY <1>5, <1>8 DEF Splits
  <2> QED
    BY <1>1, <2>1, <2>2
<1>10. RegionsApart'
  <2>1. HeapApart(g, Len(g))
    BY <1>1, <1>5, <1>6, <1>7, <1>8, SplitsApart
  <2> QED
    BY <1>6, <1>9, <2>1, RegionsApartIsHeapApartNext
<1>11. region \in [Entry -> 0 .. n] /\ Entry' = Entry
  BY <1>6 DEF PlacementInv, Entry
<1>12. region' \in [Entry' -> 0 .. Len(heap')]
  BY <1>1, <1>5, <1>6, <1>9, <1>11
<1>13. \A f \in Entry : region'[f] = IF f = e THEN n + 1 ELSE region[f]
  BY <1>5, <1>6, <1>11
<1>14. \A f \in Entry : Placed(f)' <=> Placed(f) \/ f = e
  BY <1>1, <1>13 DEF Placed, NULL
<1>15. ASSUME NEW f \in Entry, Placed(f)'
       PROVE  /\ g[region'[f]].type = "alloc"
              /\ g[region'[f]].section = f
              /\ g[region'[f]].size = entries[f].size
              /\ entries[f].fixed => g[region'[f]].start = entries[f].origin
              /\ g[region'[f]].start = IF f = e THEN start ELSE heap[region[f]].start
  <2>1. \A q \in 1 .. n + 1 : q # r =>
          /\ g[q].type = h[q].type     /\ g[q].start = h[q].start
          /\ g[q].size = h[q].size     /\ g[q].section = h[q].section
    BY <1>5, <1>8 DEF Splits
  <2>2. CASE f = e
    <3>1. n + 1 \in 1 .. n + 1 /\ n + 1 # r /\ region'[f] = n + 1
      BY <1>1, <1>13, <2>2
    <3> QED
      BY <1>4, <1>5, <2>1, <2>2, <3>1
  <2>3. CASE f # e
    <3>1. Placed(f) /\ region'[f] = region[f]
      BY <1>13, <1>14, <1>15, <2>3
    <3>2. region[f] \in 1 .. n
      BY <1>1, <1>11, <3>1 DEF Placed, NULL
    <3>3. /\ heap[region[f]].type = "alloc"
          /\ heap[region[f]].section = f
          /\ heap[region[f]].size = entries[f].size
          /\ entries[f].fixed => heap[region[f]].start = entries[f].origin
      BY <3>1 DEF PlacementInv, SectionsPlaced
    <3>4. heap[r].type = "free"
      BY <1>1, <1>5, <1>6 DEF CanInsert
    <3>5. region[f] # r /\ region[f] \in 1 .. n + 1 /\ h[region[f]] = heap[region[f]]
      BY <1>1, <1>5, <3>2, <3>3, <3>4
    <3> QED
      BY <2>1, <2>3, <3>1, <3>3, <3>5
  <2> QED
    BY <2>2, <2>3
<1>16. SectionsPlaced'
  BY <1>6, <1>11, <1>15 DEF SectionsPlaced, Placed
<1> QED
  BY <1>6, <1>9, <1>10, <1>12, <1>13, <1>14, <1>15, <1>16 DEF n
-----------------------------------------------------------------------------
LEMMA Sections ==
  ASSUME PlacementInv
  PROVE  /\ Entry = 1 .. Len(entries) /\ Len(entries) \in Nat
         /\ \A e \in Entry : /\ entries[e].origin \in Nat
                             /\ entries[e].fixed \in BOOLEAN
BY LinkerAssumption DEF PlacementInv, Entry

LEMMA InitInv == Init => PlacementInv
<1> SUFFICES ASSUME Init PROVE PlacementInv
  OBVIOUS
<1> DEFINE new == NewRegion("free", 0, MaxAddr, 0)
<1>1. MaxAddr \in Nat
  BY LinkerAssumption
<1>2. new \in Node /\ new.start = 0 /\ new.size = MaxAddr
  BY <1>1 DEF NewRegion, Node, NULL
<1>3. heap = <<new>> /\ heap \in Seq(Node) /\ DOMAIN heap = {1} /\ Len(heap) = 1
      /\ heap[1] = new
  <2>1. heap = <<new>>
    BY DEF Init
  <2> HIDE DEF new
  <2> QED
    BY <1>2, <2>1
<1>4. region = [e \in Entry |-> NULL] /\ region \in [Entry -> 0 .. Len(heap)]
  BY <1>3 DEF Init, Entry, NULL
<1>5. RegionsApart
  BY <1>1, <1>2, <1>3 DEF RegionsApart, Live, Ends, Apart
<1>6. SectionsPlaced
  BY <1>4 DEF SectionsPlaced, Placed
<1>7. entries \in Inputs /\ i = 1 /\ phase = "static"
  BY DEF Init
<1>8. FixedPlaced
  <2>1. Entry = 1 .. Len(entries) /\ Len(entries) \in Nat
    BY <1>7, LinkerAssumption DEF Entry
  <2> QED
    BY <1>7, <2>1 DEF FixedPlaced
<1> QED
  BY <1>3, <1>4, <1>5, <1>6, <1>7, <1>8 DEF PlacementInv

LEMMA NextInv == PlacementInv /\ [Next]_vars => PlacementInv'
<1> SUFFICES ASSUME PlacementInv, [Next]_vars PROVE PlacementInv'
  OBVIOUS
<1>0. /\ Entry = 1 .. Len(entries) /\ Len(entries) \in Nat
      /\ i \in Nat \ {0}
      /\ heap \in Seq(Node) /\ DOMAIN heap = 1 .. Len(heap)
  BY Sections, LenProperties DEF PlacementInv
<1>1. CASE SkipMovable
  <2>1. FixedPlaced'
    BY <1>0, <1>1 DEF SkipMovable, FixedPlaced, PlacementInv, Entry, Placed
  <2> QED
    BY <1>0, <1>1, <2>1, NothingPlaced DEF SkipMovable
<1>2. CASE PlaceStatic
  <2>1. PICK r \in RegionsAt(entries[i].origin) : Insert(i, r, entries[i].origin)
    BY <1>2 DEF PlaceStatic
  <2>2. /\ phase = "static" /\ i \in Entry /\ entries[i].fixed /\ i' = i + 1
    BY <1>0, <1>2 DEF PlaceStatic, AtStatic
  <2>3. r \in DOMAIN heap /\ entries[i].origin \in Nat
    BY <2>2, Sections DEF RegionsAt
  <2>4. /\ heap' \in Seq(Node) /\ region' \in [Entry' -> 0 .. Len(heap')]
        /\ RegionsApart' /\ SectionsPlaced'
        /\ entries' = entries /\ phase' = phase
        /\ \A f \in Entry : Placed(f)' <=> Placed(f) \/ f = i
    BY <2>1, <2>2, <2>3, InsertPlaces
  <2>5. FixedPlaced'
    <3> SUFFICES ASSUME NEW e \in Entry, entries[e].fixed, e < i + 1
                 PROVE  Placed(e)'
      BY <2>2, <2>4 DEF FixedPlaced, Entry
    <3>1. e < i \/ e = i
      BY <1>0
    <3> QED
      BY <2>2, <2>4, <3>1 DEF PlacementInv, FixedPlaced
  <2> QED
    BY <1>0, <2>2, <2>4, <2>5 DEF PlacementInv
<1>3. CASE Advance("static", "movable")
  <2>1. FixedPlaced'
    BY <1>0, <1>3 DEF Advance, FixedPlaced, PlacementInv, Entry, Placed
  <2> QED
    BY <1>3, <2>1, NothingPlaced DEF Advance
<1>4. CASE PlaceMovable
  <2>1. PICK e \in Largest : \E r \in FirstFit(e) : Insert(e, r, heap[r].start)
    BY <1>4 DEF PlaceMovable
  <2>2. PICK r \in FirstFit(e) : Insert(e, r, heap[r].start)
    BY <2>1
  <2>3. phase = "movable" /\ i' = i /\ e \in Entry /\ ~Placed(e)
    BY <1>4 DEF PlaceMovable, AtMovable, Largest, Movable, Placed
  <2>4. r \in DOMAIN heap /\ heap[r].start \in Nat
    <3>1. r \in 1 .. Len(heap)
      BY <1>0 DEF FirstFit
    <3>2. heap[r] \in Node
      BY <1>0, <3>1, ElementOfSeq
    <3> QED
      BY <1>0, <3>1, <3>2 DEF Node
  <2>5. ~entries[e].fixed
    BY <2>3 DEF PlacementInv, FixedPlaced
  <2>6. /\ heap' \in Seq(Node) /\ region' \in [Entry' -> 0 .. Len(heap')]
        /\ RegionsApart' /\ SectionsPlaced'
        /\ entries' = entries /\ phase' = phase
        /\ \A f \in Entry : Placed(f)' <=> Placed(f) \/ f = e
    BY <2>2, <2>3, <2>4, <2>5, InsertPlaces
  <2>7. FixedPlaced'
    BY <2>3, <2>6 DEF PlacementInv, FixedPlaced, Entry
  <2> QED
    BY <1>0, <2>3, <2>6, <2>7 DEF PlacementInv
<1>5. CASE StaticFails \/ MovableFails \/ UseAfterFree
  <2>1. /\ UNCHANGED <<entries, heap, region, i>>
        /\ phase' = "failed" \/ phase' = "undefined"
    BY <1>5 DEF StaticFails, MovableFails, UseAfterFree, End
  <2> QED
    BY <1>0, <2>1, NothingPlaced DEF FixedPlaced
<1>6. CASE MovablesPlaced \/ Advance("symbols", "output") \/ WriteImage
           \/ Advance("link", "done")
  <2>1. /\ UNCHANGED <<entries, heap, region>> /\ i' = 1
        /\ phase' \in {"symbols", "output", "link", "done"}
    BY <1>6 DEF MovablesPlaced, Advance, WriteImage
  <2> QED
    BY <2>1, NothingPlaced DEF FixedPlaced
<1>7. CASE CollectSymbols \/ LinkSection
  <2>1. /\ UNCHANGED <<entries, heap, region>> /\ i' \in {i, i + 1}
        /\ phase' \in {"symbols", "link", "undefined", "failed"}
    BY <1>7 DEF CollectSymbols, LinkSection, End
  <2> QED
    BY <1>0, <2>1, NothingPlaced, SMTT(60) DEF FixedPlaced
<1>8. CASE UNCHANGED vars
  <2>1. UNCHANGED <<entries, heap, region, i, phase>>
    BY <1>8 DEF vars
  <2>2. FixedPlaced'
    BY <2>1 DEF PlacementInv, FixedPlaced, Entry, Placed
  <2> QED
    BY <1>0, <2>1, <2>2, NothingPlaced
<1> QED
  BY <1>1, <1>2, <1>3, <1>4, <1>5, <1>6, <1>7, <1>8 DEF Next, Ended

(* The invariant holds in every state of the linker.                       *)
THEOREM PlacementInvariant == Spec => []PlacementInv
BY InitInv, NextInv, PTL DEF Spec

(* No two regions of the linker ever share a byte or leave the memory,     *)
(* whatever sections it is given and however the insertions have torn the  *)
(* chain (ld_region_insert).                                               *)
THEOREM RegionsNeverOverlap == Spec => []RegionsApart
<1>1. PlacementInv => RegionsApart
  BY DEF PlacementInv
<1> QED
  BY <1>1, PlacementInvariant, PTL

(* Every section that was placed has a region of its own and of its size,  *)
(* at its origin if it has one (place_static_regions and                   *)
(* place_movable_regions).                                                 *)
THEOREM SectionsKeepTheirPlace == Spec => []SectionsPlaced
<1>1. PlacementInv => SectionsPlaced
  BY DEF PlacementInv
<1> QED
  BY <1>1, PlacementInvariant, PTL
(* The linker always ends, with a file or with a message: no step of it    *)
(* leaves both the loop and what the loop still has to do as they were.    *)
THEOREM LinkerProgresses == Spec => EveryStepProgresses
<1> DEFINE Progress == \/ Rank(phase') > Rank(phase)
                       \/ phase' = phase /\ i' > i
                       \/ phase' = phase /\ Movable' # Movable /\ Movable' \subseteq Movable
<1>1. PlacementInv /\ [Next]_vars => [Progress]_vars
  <2> SUFFICES ASSUME PlacementInv, Next PROVE Progress \/ UNCHANGED vars
    OBVIOUS
  <2>0. i \in Nat
    BY DEF PlacementInv
  <2>1. CASE SkipMovable \/ PlaceStatic
    <3>1. phase' = phase /\ i' = i + 1
      BY <2>1 DEF SkipMovable, PlaceStatic, Insert
    <3> QED
      BY <2>0, <3>1
  <2>2. CASE StaticFails \/ MovableFails \/ UseAfterFree
    <3>1. /\ phase \in {"static", "movable", "output"}
          /\ phase' \in {"failed", "undefined"}
      BY <2>2 DEF StaticFails, MovableFails, UseAfterFree, End, AtStatic, AtMovable
    <3> QED
      BY <3>1 DEF Rank
  <2>3. CASE \/ Advance("static", "movable") \/ Advance("symbols", "output")
             \/ Advance("link", "done") \/ MovablesPlaced \/ WriteImage
    <3>1. <<phase, phase'>> \in {<<"static", "movable">>, <<"symbols", "output">>,
             <<"link", "done">>, <<"movable", "symbols">>, <<"output", "link">>}
      BY <2>3 DEF Advance, MovablesPlaced, WriteImage
    <3> QED
      BY <3>1 DEF Rank
  <2>4. CASE PlaceMovable
    <3>1. PICK e \in Largest : \E r \in FirstFit(e) : Insert(e, r, heap[r].start)
      BY <2>4 DEF PlaceMovable
    <3>2. PICK r \in FirstFit(e) : Insert(e, r, heap[r].start)
      BY <3>1
    <3>3. e \in Movable /\ e \in Entry /\ phase' = phase /\ entries' = entries
      BY <3>1, <3>2 DEF Largest, Movable, Insert
    <3>4. heap \in Seq(Node) /\ r \in DOMAIN heap
      BY <3>2 DEF PlacementInv, FirstFit
    <3>5. ~entries[e].fixed
      BY <2>4, <3>3 DEF PlacementInv, FixedPlaced, PlaceMovable, AtMovable,
                        Movable, Placed
    <3>6. r \in 1 .. Len(heap) /\ heap[r] \in Node
      BY <3>4, LenProperties, ElementOfSeq
    <3>7. heap[r].start \in Nat
      BY <3>6 DEF Node
    <3>8. \A f \in Entry : Placed(f)' <=> Placed(f) \/ f = e
      BY <3>2, <3>3, <3>4, <3>5, <3>7, InsertPlaces
    <3>9. Movable' = Movable \ {e}
      BY <3>3, <3>8 DEF Movable, Placed, Entry
    <3> QED
      BY <3>3, <3>9
  <2>5. CASE CollectSymbols \/ LinkSection
    <3>1. /\ phase \in {"symbols", "link"}
          /\ \/ phase' = phase /\ i' = i + 1
             \/ phase' \in {"undefined", "failed"}
      BY <2>5 DEF CollectSymbols, LinkSection, End
    <3> QED
      BY <2>0, <3>1, SMTT(60) DEF Rank
  <2> QED
    BY <2>1, <2>2, <2>3, <2>4, <2>5 DEF Next, Ended
<1> QED
  BY <1>1, PlacementInvariant, PTL DEF Spec, EveryStepProgresses

-----------------------------------------------------------------------------
(* The chain, pointer by pointer, and the output.                          *)

(* A write to a next pointer changes that pointer only.                    *)
LEMMA SetNextIs ==
  ASSUME NEW h \in Seq(Node), NEW p \in Nat, NEW n \in Nat
  PROVE  /\ SameRegions(h, SetNext(h, p, n))
         /\ \A r \in 1 .. Len(h) :
              /\ SetNext(h, p, n)[r].next = IF r = p THEN n ELSE h[r].next
              /\ SetNext(h, p, n)[r].prev = h[r].prev
<1> DEFINE g == [h EXCEPT ![p].next = n]
<1>1. h \in [1 .. Len(h) -> Node]
  BY LenProperties
<1>2. CASE p = NULL
  <2>1. SetNext(h, p, n) = h /\ \A r \in 1 .. Len(h) : r # p
    BY <1>2 DEF SetNext, NULL
  <2> QED
    BY <2>1, SetNextKeeps
<1>3. CASE p # NULL
  <2>1. SetNext(h, p, n) = g
    BY <1>3 DEF SetNext
  <2>2. ASSUME NEW r \in 1 .. Len(h)
        PROVE  g[r].next = (IF r = p THEN n ELSE h[r].next) /\ g[r].prev = h[r].prev
    <3>1. g[r] = IF r = p THEN [h[r] EXCEPT !.next = n] ELSE h[r]
      BY <1>1
    <3>2. h[r] \in Node
      BY <1>1
    <3>3. [h[r] EXCEPT !.next = n].next = n /\ [h[r] EXCEPT !.next = n].prev = h[r].prev
      BY <3>2 DEF Node
    <3> QED
      BY <3>1, <3>3
  <2> QED
    BY <2>1, <2>2, SetNextKeeps
<1> QED
  BY <1>2, <1>3

LEMMA SetPrevIs ==
  ASSUME NEW h \in Seq(Node), NEW p \in Nat, NEW n \in Nat
  PROVE  /\ SameRegions(h, SetPrev(h, p, n))
         /\ \A r \in 1 .. Len(h) :
              /\ SetPrev(h, p, n)[r].prev = IF r = p THEN n ELSE h[r].prev
              /\ SetPrev(h, p, n)[r].next = h[r].next
<1> DEFINE g == [h EXCEPT ![p].prev = n]
<1>1. h \in [1 .. Len(h) -> Node]
  BY LenProperties
<1>2. CASE p = NULL
  <2>1. SetPrev(h, p, n) = h /\ \A r \in 1 .. Len(h) : r # p
    BY <1>2 DEF SetPrev, NULL
  <2> QED
    BY <2>1, SetPrevKeeps
<1>3. CASE p # NULL
  <2>1. SetPrev(h, p, n) = g
    BY <1>3 DEF SetPrev
  <2>2. ASSUME NEW r \in 1 .. Len(h)
        PROVE  g[r].prev = (IF r = p THEN n ELSE h[r].prev) /\ g[r].next = h[r].next
    <3>1. g[r] = IF r = p THEN [h[r] EXCEPT !.prev = n] ELSE h[r]
      BY <1>1
    <3>2. h[r] \in Node
      BY <1>1
    <3>3. [h[r] EXCEPT !.prev = n].prev = n /\ [h[r] EXCEPT !.prev = n].next = h[r].next
      BY <3>2 DEF Node
    <3> QED
      BY <3>1, <3>3
  <2> QED
    BY <2>1, <2>2, SetPrevKeeps
<1> QED
  BY <1>2, <1>3

(* insert_after: what is linked, and what is not.                          *)
LEMMA InsertAfterIs ==
  ASSUME NEW h \in Seq(Node), NEW self \in 1 .. Len(h), NEW node \in Nat
  PROVE  /\ SameRegions(h, InsertAfter(h, self, node))
         /\ \A r \in 1 .. Len(h) :
              /\ InsertAfter(h, self, node)[r].next = IF r = self THEN node ELSE h[r].next
              /\ InsertAfter(h, self, node)[r].prev =
                   IF r = h[self].next THEN node ELSE IF r = node THEN self ELSE h[r].prev
<1> DEFINE h1 == SetPrev(h, node, self)
           h2 == SetPrev(h1, h[self].next, node)
           h3 == SetNext(h2, self, node)
<1>1. self \in Nat /\ h[self].next \in Nat
  <2>1. h[self] \in Node /\ Len(h) \in Nat
    BY ElementOfSeq
  <2> QED
    BY <2>1 DEF Node
<1>2. /\ SameRegions(h, h1)
      /\ \A r \in 1 .. Len(h) : /\ h1[r].prev = IF r = node THEN self ELSE h[r].prev
                                /\ h1[r].next = h[r].next
  BY <1>1, SetPrevIs
<1> HIDE DEF h1
<1>3. h1 \in Seq(Node) /\ Len(h1) = Len(h)
  BY <1>2 DEF SameRegions
<1>4. /\ SameRegions(h1, h2)
      /\ \A r \in 1 .. Len(h) : /\ h2[r].prev = IF r = h[self].next THEN node ELSE h1[r].prev
                                /\ h2[r].next = h1[r].next
  BY <1>1, <1>3, SetPrevIs
<1> HIDE DEF h2
<1>5. h2 \in Seq(Node) /\ Len(h2) = Len(h)
  BY <1>3, <1>4 DEF SameRegions
<1>6. /\ SameRegions(h2, h3)
      /\ \A r \in 1 .. Len(h) : /\ h3[r].next = IF r = self THEN node ELSE h2[r].next
                                /\ h3[r].prev = h2[r].prev
  BY <1>1, <1>5, SetNextIs
<1>7. InsertAfter(h, self, node) = h3
  BY DEF InsertAfter, h1, h2
<1> HIDE DEF h3
<1>8. SameRegions(h, h3)
  BY <1>2, <1>3, <1>4, <1>5, <1>6 DEF SameRegions
<1>9. \A r \in 1 .. Len(h) :
        /\ h3[r].next = IF r = self THEN node ELSE h[r].next
        /\ h3[r].prev = IF r = h[self].next THEN node ELSE IF r = node THEN self ELSE h[r].prev
  BY <1>2, <1>4, <1>6
<1> QED
  BY <1>7, <1>8, <1>9

(* insert_before, likewise.                                                *)
LEMMA InsertBeforeIs ==
  ASSUME NEW h \in Seq(Node), NEW self \in 1 .. Len(h), NEW node \in Nat
  PROVE  /\ SameRegions(h, InsertBefore(h, self, node))
         /\ \A r \in 1 .. Len(h) :
              /\ InsertBefore(h, self, node)[r].next =
                   IF r = h[self].prev THEN node ELSE IF r = node THEN self ELSE h[r].next
              /\ InsertBefore(h, self, node)[r].prev = IF r = self THEN node ELSE h[r].prev
<1> DEFINE h1 == SetNext(h, node, self)
           h2 == SetNext(h1, h[self].prev, node)
           h3 == SetPrev(h2, self, node)
<1>1. self \in Nat /\ h[self].prev \in Nat
  <2>1. h[self] \in Node /\ Len(h) \in Nat
    BY ElementOfSeq
  <2> QED
    BY SMTT(30), <2>1 DEF Node
<1>2. /\ SameRegions(h, h1)
      /\ \A r \in 1 .. Len(h) : /\ h1[r].next = IF r = node THEN self ELSE h[r].next
                                /\ h1[r].prev = h[r].prev
  BY <1>1, SetNextIs
<1> HIDE DEF h1
<1>3. h1 \in Seq(Node) /\ Len(h1) = Len(h)
  BY <1>2 DEF SameRegions
<1>4. /\ SameRegions(h1, h2)
      /\ \A r \in 1 .. Len(h) : /\ h2[r].next = IF r = h[self].prev THEN node ELSE h1[r].next
                                /\ h2[r].prev = h1[r].prev
  BY <1>1, <1>3, SetNextIs
<1> HIDE DEF h2
<1>5. h2 \in Seq(Node) /\ Len(h2) = Len(h)
  BY <1>3, <1>4 DEF SameRegions
<1>6. /\ SameRegions(h2, h3)
      /\ \A r \in 1 .. Len(h) : /\ h3[r].prev = IF r = self THEN node ELSE h2[r].prev
                                /\ h3[r].next = h2[r].next
  BY <1>1, <1>5, SetPrevIs
<1>7. InsertBefore(h, self, node) = h3
  BY DEF InsertBefore, h1, h2
<1> HIDE DEF h3
<1>8. SameRegions(h, h3)
  BY <1>2, <1>3, <1>4, <1>5, <1>6 DEF SameRegions
<1>9. \A r \in 1 .. Len(h) :
        /\ h3[r].next = IF r = h[self].prev THEN node ELSE IF r = node THEN self ELSE h[r].next
        /\ h3[r].prev = IF r = self THEN node ELSE h[r].prev
  BY <1>2, <1>4, <1>6
<1> QED
  BY <1>7, <1>8, <1>9

(* Space before the new region only: the free one is cut, and followed by  *)
(* the new one.                                                            *)
CutFromEnd(h, g, into, rg, before) ==
  /\ g \in Seq(Node) /\ Len(g) = Len(h)
  /\ \A r \in 1 .. Len(h) :
       /\ g[r].section = h[r].section
       /\ g[r].type = h[r].type /\ g[r].start = h[r].start
       /\ g[r].size = IF r = into THEN before ELSE h[r].size
       /\ g[r].next = IF r = into THEN rg ELSE h[r].next
       /\ g[r].prev = IF r = h[into].next THEN rg
                      ELSE IF r = rg THEN into ELSE h[r].prev

LEMMA InsertAtEndIs ==
  ASSUME NEW h \in Seq(Node), NEW into \in 1 .. Len(h), NEW rg \in 1 .. Len(h),
         into # rg, NEW before \in Nat, h[into].size - h[rg].size = before
  PROVE  CutFromEnd(h, InsertAtEnd(h, into, rg), into, rg, before)
<1> DEFINE h1 == InsertAfter(h, into, rg)
           g  == [h1 EXCEPT ![into].size = before]
<1>0. Len(h) \in Nat /\ into \in Nat /\ rg \in Nat
  BY LenProperties
<1>1. /\ SameRegions(h, h1)
      /\ \A r \in 1 .. Len(h) :
           /\ h1[r].next = IF r = into THEN rg ELSE h[r].next
           /\ h1[r].prev = IF r = h[into].next THEN rg ELSE IF r = rg THEN into ELSE h[r].prev
  BY <1>0, InsertAfterIs
<1> HIDE DEF h1
<1>2. /\ h1 \in Seq(Node) /\ Len(h1) = Len(h)
      /\ \A r \in 1 .. Len(h) : /\ h1[r].section = h[r].section /\ h1[r].type = h[r].type /\ h1[r].start = h[r].start
                                /\ h1[r].size = h[r].size
  BY <1>1 DEF SameRegions
<1>3. Reshaped(h1, g, into, h1[into].start, before)
  BY <1>2, Resize
<1>4. InsertAtEnd(h, into, rg) = g
  BY <1>2 DEF InsertAtEnd, h1
<1> HIDE DEF g
<1>5. /\ g \in Seq(Node) /\ Len(g) = Len(h)
      /\ \A r \in 1 .. Len(h) : r # into => g[r] = h1[r]
      /\ g[into].start = h1[into].start /\ g[into].size = before
      /\ g[into].section = h1[into].section /\ g[into].type = h1[into].type
      /\ g[into].next = h1[into].next /\ g[into].prev = h1[into].prev
  BY <1>2, <1>3 DEF Reshaped
<1>6. ASSUME NEW r \in 1 .. Len(h)
      PROVE  /\ g[r].section = h1[r].section /\ g[r].type = h1[r].type /\ g[r].start = h1[r].start
             /\ g[r].size = IF r = into THEN before ELSE h1[r].size
             /\ g[r].next = h1[r].next /\ g[r].prev = h1[r].prev
  BY <1>5
<1> QED
  BY <1>1, <1>2, <1>4, <1>5, <1>6 DEF CutFromEnd

(* Space on both sides: a free region, the last node of g, is added behind *)
(* the new one.                                                            *)
SplitInTwo(h, g, into, rg, before, after) ==
  LET m == Len(h) + 1
  IN  /\ g \in Seq(Node) /\ Len(g) = m
      /\ \A r \in 1 .. Len(h) :
           /\ g[r].section = h[r].section
           /\ g[r].type = h[r].type /\ g[r].start = h[r].start
           /\ g[r].size = IF r = into THEN before ELSE h[r].size
           /\ g[r].next = IF r = rg THEN m ELSE IF r = into THEN rg ELSE h[r].next
           /\ g[r].prev = IF r = h[into].next THEN rg
                          ELSE IF r = rg THEN into ELSE h[r].prev
      /\ g[m].type = "free" /\ g[m].start = h[rg].start + h[rg].size
      /\ g[m].size = after /\ g[m].section = 0 /\ g[m].next = NULL /\ g[m].prev = rg

LEMMA InsertMiddleIs ==
  ASSUME NEW h \in Seq(Node), NEW into \in 1 .. Len(h), NEW rg \in 1 .. Len(h),
         into # rg, h[rg].next = NULL, NEW before \in Nat, NEW after \in Nat,
         h[into].size - (h[rg].size + after) = before
  PROVE  SplitInTwo(h, InsertMiddle(h, into, rg, after), into, rg, before, after)
<1> DEFINE h1   == InsertAfter(h, into, rg)
           h2   == [h1 EXCEPT ![into].size = before]
           new  == NewRegion("free", h[rg].start + h[rg].size, after, 0)
           h3   == Append(h2, new)
           g    == InsertAfter(h3, rg, Len(h2) + 1)
           m    == Len(h) + 1
<1>0. Len(h) \in Nat /\ into \in Nat /\ rg \in Nat /\ m \in Nat /\ rg # m
  BY LenProperties
<1>1. /\ SameRegions(h, h1)
      /\ \A r \in 1 .. Len(h) :
           /\ h1[r].next = IF r = into THEN rg ELSE h[r].next
           /\ h1[r].prev = IF r = h[into].next THEN rg ELSE IF r = rg THEN into ELSE h[r].prev
  BY <1>0, InsertAfterIs
<1> HIDE DEF h1
<1>2. /\ h1 \in Seq(Node) /\ Len(h1) = Len(h)
      /\ \A r \in 1 .. Len(h) : /\ h1[r].section = h[r].section /\ h1[r].type = h[r].type /\ h1[r].start = h[r].start
                                /\ h1[r].size = h[r].size
  BY <1>1 DEF SameRegions
<1>3. Reshaped(h1, h2, into, h1[into].start, before)
  BY <1>2, Resize
<1>4. InsertMiddle(h, into, rg, after) = g
  <2>1. h2 = [h1 EXCEPT ![into].size = @ - (h[rg].size + after)]
    BY <1>2
  <2> QED
    BY <2>1 DEF InsertMiddle, h1
<1>5. new \in Node /\ new.type = "free" /\ new.start = h[rg].start + h[rg].size
      /\ new.size = after /\ new.section = 0 /\ new.next = NULL
  <2>1. h[rg] \in Node
    BY ElementOfSeq
  <2>2. h[rg].start \in Nat /\ h[rg].size \in Nat
    BY <2>1 DEF Node
  <2>3. h[rg].start + h[rg].size \in Nat
    BY <2>2
  <2> QED
    BY <2>3 DEF NewRegion, Node, NULL
<1> HIDE DEF h2, new
<1>6. /\ h2 \in Seq(Node) /\ Len(h2) = Len(h)
      /\ \A r \in 1 .. Len(h) : r # into => h2[r] = h1[r]
      /\ h2[into].start = h1[into].start /\ h2[into].size = before
      /\ h2[into].section = h1[into].section /\ h2[into].type = h1[into].type
      /\ h2[into].next = h1[into].next /\ h2[into].prev = h1[into].prev
  BY <1>2, <1>3 DEF Reshaped
<1>7. /\ h3 \in Seq(Node) /\ Len(h3) = m /\ h3[m] = new
      /\ \A j \in 1 .. Len(h) : h3[j] = h2[j]
  <2>1. h2 \in Seq(Node) /\ Len(h2) = Len(h)
    BY <1>6
  <2>2. new \in Node
    BY <1>5
  <2> QED
    BY <2>1, <2>2, AppendProperties
<1> HIDE DEF h3
<1>8. /\ SameRegions(h3, g)
      /\ \A r \in 1 .. Len(h3) :
           /\ g[r].next = IF r = rg THEN m ELSE h3[r].next
           /\ g[r].prev = IF r = h3[rg].next THEN m ELSE IF r = m THEN rg ELSE h3[r].prev
  <2>1. rg \in 1 .. Len(h3) /\ Len(h2) + 1 = m
    BY <1>0, <1>6, <1>7
  <2>2. g = InsertAfter(h3, rg, m)
    BY <2>1
  <2> HIDE DEF g, m
  <2> QED
    BY SMTT(30), <1>0, <1>7, <2>1, <2>2, InsertAfterIs
<1> HIDE DEF g
<1>9. h3[rg].next = NULL
  BY SMTT(30), <1>0, <1>1, <1>6, <1>7
<1>10. /\ 1 .. Len(h) \subseteq 1 .. Len(h3)
       /\ m \in 1 .. Len(h3)
       /\ \A r \in 1 .. Len(h3) : r # NULL
       /\ \A r \in 1 .. Len(h) : r # m
  BY <1>0, <1>7 DEF NULL
<1>11. /\ g \in Seq(Node) /\ Len(g) = m
       /\ \A r \in 1 .. Len(h3) : /\ g[r].section = h3[r].section /\ g[r].type = h3[r].type /\ g[r].start = h3[r].start
                                  /\ g[r].size = h3[r].size
  BY <1>7, <1>8 DEF SameRegions
<1>12. ASSUME NEW r \in 1 .. Len(h)
       PROVE  /\ g[r].section = h[r].section /\ g[r].type = h[r].type /\ g[r].start = h[r].start
              /\ g[r].size = IF r = into THEN before ELSE h[r].size
              /\ g[r].next = IF r = rg THEN m ELSE IF r = into THEN rg ELSE h[r].next
              /\ g[r].prev = IF r = h[into].next THEN rg
                             ELSE IF r = rg THEN into ELSE h[r].prev
  <2>1. r \in 1 .. Len(h3) /\ r # NULL /\ r # m /\ h3[r] = h2[r]
    BY <1>7, <1>10
  <2>2. /\ h2[r].section = h1[r].section /\ h2[r].type = h1[r].type /\ h2[r].start = h1[r].start
        /\ h2[r].size = IF r = into THEN before ELSE h1[r].size
        /\ h2[r].next = h1[r].next /\ h2[r].prev = h1[r].prev
    BY <1>6
  <2>3. /\ g[r].section = h2[r].section /\ g[r].type = h2[r].type /\ g[r].start = h2[r].start
        /\ g[r].size = h2[r].size /\ g[r].prev = h2[r].prev
        /\ g[r].next = IF r = rg THEN m ELSE h2[r].next
    BY <1>8, <1>9, <1>11, <2>1
  <2> QED
    BY <1>1, <1>2, <2>2, <2>3
<1>13. /\ g[m].type = "free" /\ g[m].start = h[rg].start + h[rg].size
       /\ g[m].size = after /\ g[m].section = 0 /\ g[m].next = NULL /\ g[m].prev = rg
  <2>1. m # NULL /\ m # rg /\ m \in 1 .. Len(h3)
    BY <1>0, <1>10
  <2> QED
    BY <1>5, <1>7, <1>8, <1>9, <1>11, <2>1
<1> QED
  BY <1>4, <1>11, <1>12, <1>13 DEF SplitInTwo

(* Space behind the new region only: it is linked before the free one,     *)
(* which begins behind it.                                                 *)
CutFromStart(h, g, into, rg, size) ==
  /\ g \in Seq(Node) /\ Len(g) = Len(h)
  /\ \A r \in 1 .. Len(h) :
       /\ g[r].section = h[r].section /\ g[r].type = h[r].type
       /\ g[r].start = IF r = into THEN h[into].start + h[rg].size ELSE h[r].start
       /\ g[r].size = IF r = into THEN size ELSE h[r].size
       /\ g[r].next = IF r = h[into].prev THEN rg
                      ELSE IF r = rg THEN into ELSE h[r].next
       /\ g[r].prev = IF r = into THEN rg ELSE h[r].prev

LEMMA InsertAtStartIs ==
  ASSUME NEW h \in Seq(Node), NEW into \in 1 .. Len(h), NEW rg \in 1 .. Len(h),
         into # rg, NEW size \in Nat, h[into].size - h[rg].size = size
  PROVE  CutFromStart(h, InsertAtStart(h, into, rg), into, rg, size)
<1> DEFINE start == h[into].start + h[rg].size
           h1 == InsertBefore(h, into, rg)
           g  == [h1 EXCEPT ![into].size = size, ![into].start = start]
<1>0. Len(h) \in Nat /\ into \in Nat /\ rg \in Nat
  BY LenProperties
<1>1. /\ SameRegions(h, h1)
      /\ \A r \in 1 .. Len(h) :
           /\ h1[r].next = IF r = h[into].prev THEN rg ELSE IF r = rg THEN into ELSE h[r].next
           /\ h1[r].prev = IF r = into THEN rg ELSE h[r].prev
  BY <1>0, InsertBeforeIs
<1>2. start \in Nat
  <2>1. h[rg] \in Node /\ h[into] \in Node
    BY ElementOfSeq
  <2>2. h[into].start \in Nat /\ h[rg].size \in Nat
    BY <2>1 DEF Node
  <2> QED
    BY <2>2
<1> HIDE DEF h1
<1>3. /\ h1 \in Seq(Node) /\ Len(h1) = Len(h)
      /\ \A r \in 1 .. Len(h) : /\ h1[r].section = h[r].section /\ h1[r].type = h[r].type /\ h1[r].start = h[r].start
                                /\ h1[r].size = h[r].size
  BY <1>1 DEF SameRegions
<1>4. InsertAtStart(h, into, rg) = g
  <2>1. h1[into].size - h[rg].size = size /\ h1[into].start + h[rg].size = start
    BY <1>3
  <2>2. h1 \in [1 .. Len(h1) -> Node]
    BY <1>3, LenProperties
  <2> QED
    BY <2>1, <2>2 DEF InsertAtStart, h1
<1>5. Reshaped(h1, g, into, start, size)
  <2> HIDE DEF start
  <2> QED
    BY <1>2, <1>3, Move
<1> HIDE DEF g
<1>6. /\ g \in Seq(Node) /\ Len(g) = Len(h)
      /\ \A r \in 1 .. Len(h) : r # into => g[r] = h1[r]
      /\ g[into].start = start /\ g[into].size = size
      /\ g[into].section = h1[into].section /\ g[into].type = h1[into].type
      /\ g[into].next = h1[into].next /\ g[into].prev = h1[into].prev
  BY <1>3, <1>5 DEF Reshaped
<1>7. ASSUME NEW r \in 1 .. Len(h)
      PROVE  /\ g[r].section = h1[r].section /\ g[r].type = h1[r].type
             /\ g[r].start = IF r = into THEN start ELSE h1[r].start
             /\ g[r].size = IF r = into THEN size ELSE h1[r].size
             /\ g[r].next = h1[r].next /\ g[r].prev = h1[r].prev
  BY <1>6
<1> QED
  BY <1>1, <1>3, <1>4, <1>6, <1>7 DEF CutFromStart

(* An exact fit: the free region is freed, and the new one takes its place *)
(* in the pointers of its neighbours only.                                 *)
Replaced(h, g, into, rg) ==
  /\ g \in Seq(Node) /\ Len(g) = Len(h)
  /\ \A r \in 1 .. Len(h) :
       /\ g[r].section = h[r].section
       /\ g[r].type = IF r = into THEN "freed" ELSE h[r].type
       /\ g[r].start = h[r].start /\ g[r].size = h[r].size
       /\ g[r].next = IF r = into THEN NULL
                      ELSE IF r = h[into].prev THEN rg ELSE h[r].next
       /\ g[r].prev = IF r = into THEN NULL
                      ELSE IF r = h[into].next THEN rg ELSE h[r].prev

LEMMA ReplaceIs ==
  ASSUME NEW h \in Seq(Node), NEW into \in 1 .. Len(h), NEW rg \in 1 .. Len(h),
         into # rg
  PROVE  Replaced(h, Replace(h, into, rg), into, rg)
<1> DEFINE h1   == SetNext(h, h[into].prev, rg)
           h2   == SetPrev(h1, h[into].next, rg)
           node == [h2[into] EXCEPT !.next = NULL, !.prev = NULL,
                                    !.type = "freed"]
           g    == [h2 EXCEPT ![into] = node]
<1>0. Len(h) \in Nat /\ into \in Nat /\ rg \in Nat
  BY LenProperties
<1>1. h[into].prev \in Nat /\ h[into].next \in Nat
  <2>1. h[into] \in Node
    BY ElementOfSeq
  <2> QED
    BY <2>1 DEF Node
<1>2. /\ SameRegions(h, h1)
      /\ \A r \in 1 .. Len(h) : /\ h1[r].next = IF r = h[into].prev THEN rg ELSE h[r].next
                                /\ h1[r].prev = h[r].prev
  BY <1>0, <1>1, SetNextIs
<1>3. Replace(h, into, rg) = [h2 EXCEPT ![into].next = NULL, ![into].prev = NULL,
                                        ![into].type = "freed"]
  BY DEF Replace
<1> HIDE DEF h1
<1>4. h1 \in Seq(Node) /\ Len(h1) = Len(h)
      /\ \A r \in 1 .. Len(h) : /\ h1[r].section = h[r].section /\ h1[r].type = h[r].type /\ h1[r].start = h[r].start
                                /\ h1[r].size = h[r].size
  BY <1>2 DEF SameRegions
<1>5. /\ SameRegions(h1, h2)
      /\ \A r \in 1 .. Len(h) : /\ h2[r].prev = IF r = h[into].next THEN rg ELSE h1[r].prev
                                /\ h2[r].next = h1[r].next
  BY <1>0, <1>1, <1>4, SetPrevIs
<1> HIDE DEF h2
<1>6. h2 \in Seq(Node) /\ Len(h2) = Len(h)
      /\ \A r \in 1 .. Len(h) : /\ h2[r].section = h1[r].section /\ h2[r].type = h1[r].type /\ h2[r].start = h1[r].start
                                /\ h2[r].size = h1[r].size
  BY <1>4, <1>5 DEF SameRegions
<1>7. Replace(h, into, rg) = g
  <2>1. h2 \in [1 .. Len(h2) -> Node]
    BY <1>6, LenProperties
  <2> QED
    BY <1>3, <2>1
<1>8. h2[into] \in Node
  BY <1>6, ElementOfSeq
<1>9. node \in Node /\ node.type = "freed" /\ node.start = h2[into].start
      /\ node.section = h2[into].section
      /\ node.size = h2[into].size /\ node.next = NULL /\ node.prev = NULL
  BY <1>8 DEF Node, NULL
<1> HIDE DEF node
<1>10. g \in Seq(Node) /\ Len(g) = Len(h)
       /\ \A j \in 1 .. Len(h) : g[j] = IF j = into THEN node ELSE h2[j]
  BY <1>6, <1>9, ExceptSeq
<1> HIDE DEF g
<1>11. ASSUME NEW r \in 1 .. Len(h)
       PROVE  /\ g[r].section = h2[r].section
              /\ g[r].type = IF r = into THEN "freed" ELSE h2[r].type
              /\ g[r].start = h2[r].start /\ g[r].size = h2[r].size
              /\ g[r].next = IF r = into THEN NULL ELSE h2[r].next
              /\ g[r].prev = IF r = into THEN NULL ELSE h2[r].prev
  BY <1>9, <1>10
<1> QED
  BY <1>2, <1>4, <1>5, <1>6, <1>7, <1>10, <1>11 DEF Replaced

-----------------------------------------------------------------------------
(* Region t is a live one that begins where s ends; if it is free, t knows *)
(* s as the one before it.                                                 *)
Follows(h, s, t) ==
  /\ h[t].type # "freed"
  /\ h[t].start = h[s].start + h[s].size
  /\ h[t].type = "free" => h[t].prev = s

(* What the pointers between the first n nodes of heap h keep, whatever    *)
(* was cut off the chain: a live region that has a next is followed by it. *)
Chained(h, n) ==
  \A r \in 1 .. n :
    /\ h[r].next \in 0 .. n /\ h[r].prev \in 0 .. n
    /\ h[r].type = "free" => h[r].size # 0
    /\ h[r].type # "freed" /\ h[r].next # NULL => Follows(h, r, h[r].next)

(* Region f is a live one at the start of the memory, with none before it. *)
Headed(h, f) == h[f].type # "freed" /\ h[f].prev = NULL /\ h[f].start = 0

(* Who points back is pointed at.                                          *)
Backed(h, into) ==
  h[into].prev # NULL =>
    h[h[into].prev].type # "freed" /\ h[h[into].prev].next = into

(* The node behind the first n is a new region that nothing is linked to.  *)
Fresh(h, n) ==
  /\ h \in Seq(Node) /\ Len(h) = n + 1
  /\ h[n + 1].type = "alloc" /\ h[n + 1].next = NULL /\ h[n + 1].prev = NULL

(* A free region is not its own neighbour, only one region is before it,   *)
(* and what follows it is not at the start of the memory.                  *)
Unique(h, n, into) ==
  /\ h[into].next # into /\ h[into].next \in 0 .. n /\ h[into].prev \in 0 .. n
  /\ \A s \in 1 .. n :
       h[s].type # "freed" /\ h[s].next = into => h[into].prev = s /\ s # into
  /\ h[into].next # NULL =>
       /\ h[h[into].next].type # "freed" /\ h[h[into].next].start # 0
       /\ h[h[into].next].start = h[into].start + h[into].size
       /\ \A s \in 1 .. n : s # into /\ h[s].type # "freed" /\ h[s].next = h[into].next
            => h[h[into].next].type # "free"

LEMMA Neighbours ==
  ASSUME NEW n \in Nat, NEW h, Fresh(h, n), Chained(h, n),
         NEW into \in 1 .. n, h[into].type = "free"
  PROVE  Unique(h, n, into)
<1>1. h[into] \in Node
  <2>1. into \in 1 .. Len(h)
    BY DEF Fresh
  <2> QED
    BY <2>1, ElementOfSeq DEF Fresh
<1>2. h[into].start \in Nat /\ h[into].size \in Nat
  BY <1>1 DEF Node
<1>3. h[into].size # 0 /\ h[into].next \in 0 .. n /\ h[into].prev \in 0 .. n
  BY DEF Chained
<1>4. h[into].next # NULL => Follows(h, into, h[into].next)
  BY DEF Chained
<1>5. h[into].next # into
  <2>1. into # NULL
    BY DEF NULL
  <2>2. h[into].start # h[into].start + h[into].size
    BY <1>2, <1>3
  <2> QED
    BY <1>4, <2>1, <2>2 DEF Follows
<1>6. ASSUME NEW s \in 1 .. n, h[s].type # "freed", h[s].next = into
      PROVE  h[into].prev = s /\ s # into
  <2>1. into # NULL
    BY DEF NULL
  <2>2. Follows(h, s, into)
    BY <1>6, <2>1 DEF Chained
  <2> QED
    BY <1>5, <1>6, <2>2 DEF Follows
<1>7. ASSUME h[into].next # NULL
      PROVE  /\ h[h[into].next].type # "freed" /\ h[h[into].next].start # 0
             /\ h[h[into].next].start = h[into].start + h[into].size
             /\ \A s \in 1 .. n : s # into /\ h[s].type # "freed" /\ h[s].next = h[into].next
                  => h[h[into].next].type # "free"
  <2>1. Follows(h, into, h[into].next)
    BY <1>4, <1>7
  <2>2. h[into].start + h[into].size # 0
    BY <1>2, <1>3
  <2>3. ASSUME NEW s \in 1 .. n, s # into, h[s].type # "freed", h[s].next = h[into].next
        PROVE  h[h[into].next].type # "free"
    <3>1. Follows(h, s, h[into].next)
      BY <1>7, <2>3 DEF Chained
    <3> QED
      BY <2>1, <2>3, <3>1 DEF Follows
  <2> QED
    BY <2>1, <2>2, <2>3 DEF Follows
<1> QED
  BY <1>3, <1>5, <1>6, <1>7 DEF Unique

(* The new region behind what is left of the free one.                     *)
LEMMA ChainAtEnd ==
  ASSUME NEW n \in Nat, NEW h, Fresh(h, n), Chained(h, n),
         NEW into \in 1 .. n, h[into].type = "free", NEW f \in 1 .. n, Headed(h, f),
         NEW before \in Nat, before # 0,
         h[into].size - h[n + 1].size = before, h[n + 1].start = h[into].start + before
  PROVE  LET g == InsertAtEnd(h, into, n + 1)
         IN  Chained(g, n + 1) /\ Headed(g, f)
<1> DEFINE g == InsertAtEnd(h, into, n + 1)
<1>1. PICK rg \in Nat : rg = n + 1
  OBVIOUS
<1>2. /\ into \in 1 .. rg /\ rg \in 1 .. rg /\ into # rg /\ Len(h) = rg /\ h \in Seq(Node)
      /\ h[rg].type = "alloc" /\ h[rg].next = NULL /\ h[rg].prev = NULL
      /\ h[rg].start = h[into].start + before
  BY <1>1 DEF Fresh
<1>3. \A r \in 1 .. rg :
        /\ g[r].type = h[r].type /\ g[r].start = h[r].start
        /\ g[r].size = IF r = into THEN before ELSE h[r].size
        /\ g[r].next = IF r = into THEN rg ELSE h[r].next
        /\ g[r].prev = IF r = h[into].next THEN rg
                       ELSE IF r = rg THEN into ELSE h[r].prev
  <2>1. h[into].size - h[rg].size = before
    BY <1>1
  <2>2. /\ g = InsertAtEnd(h, into, rg)
        /\ into \in 1 .. Len(h) /\ rg \in 1 .. Len(h)
    BY <1>1, <1>2
  <2>3. CutFromEnd(h, g, into, rg, before)
    BY <1>2, <2>1, <2>2, InsertAtEndIs
  <2> HIDE DEF g
  <2> QED
    BY <1>2, <2>3 DEF CutFromEnd
<1> HIDE DEF g
<1>4. Unique(h, n, into)
  BY Neighbours
<1>5. ASSUME NEW r \in 1 .. rg
      PROVE  /\ g[r].next \in 0 .. rg /\ g[r].prev \in 0 .. rg
             /\ g[r].type = "free" => g[r].size # 0
             /\ g[r].type # "freed" /\ g[r].next # NULL => Follows(g, r, g[r].next)
  <2>1. CASE r = rg
    <3>1. g[r].next = NULL /\ g[r].prev = into /\ g[r].type = "alloc"
      BY <1>1, <1>2, <1>3, <1>4, <2>1 DEF NULL, Unique
    <3> QED
      BY <1>2, <3>1 DEF NULL
  <2>2. CASE r = into
    <3>1. g[r].next = rg /\ g[r].size = before /\ g[r].start = h[into].start
          /\ g[rg].type = "alloc" /\ g[rg].start = h[into].start + before
      BY <1>2, <1>3, <2>2
    <3>2. g[r].prev = h[into].prev /\ h[into].prev \in 0 .. n
      BY <1>2, <1>3, <1>4, <2>2 DEF Unique
    <3> QED
      BY <1>1, <1>2, <3>1, <3>2 DEF Follows
  <2>3. CASE r # rg /\ r # into
    <3>1. r \in 1 .. n
      BY <1>1, <2>3
    <3>2. /\ h[r].next \in 0 .. n /\ h[r].prev \in 0 .. n
          /\ h[r].type = "free" => h[r].size # 0
          /\ h[r].type # "freed" /\ h[r].next # NULL => Follows(h, r, h[r].next)
      BY <3>1 DEF Chained
    <3>3. /\ g[r].type = h[r].type /\ g[r].start = h[r].start /\ g[r].size = h[r].size
          /\ g[r].next = h[r].next
          /\ g[r].prev = rg \/ g[r].prev = h[r].prev
      BY <1>3, <2>3
    <3>4. ASSUME h[r].type # "freed", h[r].next # NULL PROVE Follows(g, r, h[r].next)
      <4>1. PICK t : t = h[r].next
        OBVIOUS
      <4>2. t \in 1 .. n /\ t \in 1 .. rg /\ t # rg
        BY <1>1, <3>2, <3>4, <4>1 DEF NULL
      <4>3. Follows(h, r, t)
        BY <3>2, <3>4, <4>1
      <4>4. h[t].type = "free" => t # h[into].next
        BY <1>4, <2>3, <3>1, <3>4, <4>1, <4>2 DEF NULL, Unique
      <4>5. g[t].type = h[t].type /\ g[t].start = h[t].start
            /\ (h[t].type = "free" => g[t].prev = h[t].prev)
        BY <1>3, <4>2, <4>4
      <4> QED
        BY <3>3, <4>1, <4>3, <4>5 DEF Follows
    <3> QED
      BY <1>1, <3>2, <3>3, <3>4
  <2> QED
    BY <2>1, <2>2, <2>3
<1>6. Chained(g, n + 1)
  BY <1>1, <1>5 DEF Chained
<1>7. Headed(g, f)
  <2>1. f \in 1 .. rg /\ f # rg /\ f # NULL
    BY <1>1 DEF NULL
  <2>2. f # h[into].next
    BY <1>4, <2>1 DEF Headed, Unique
  <2> QED
    BY <1>3, <2>1, <2>2 DEF Headed
<1> QED
  BY <1>6, <1>7 DEF g

(* The new region behind what is left of the free one, and before a free   *)
(* region of its own.                                                      *)
LEMMA ChainMiddle ==
  ASSUME NEW n \in Nat, NEW h, Fresh(h, n), Chained(h, n),
         NEW into \in 1 .. n, h[into].type = "free", NEW f \in 1 .. n, Headed(h, f),
         NEW before \in Nat, before # 0, NEW after \in Nat, after # 0,
         h[into].size - (h[n + 1].size + after) = before,
         h[n + 1].start = h[into].start + before
  PROVE  LET g == InsertMiddle(h, into, n + 1, after)
         IN  Chained(g, n + 2) /\ Headed(g, f)
<1> DEFINE g == InsertMiddle(h, into, n + 1, after)
<1>1. PICK rg \in Nat, m \in Nat : rg = n + 1 /\ m = rg + 1
  OBVIOUS
<1>2. /\ into \in 1 .. rg /\ rg \in 1 .. rg /\ into # rg /\ Len(h) = rg /\ h \in Seq(Node)
      /\ h[rg].type = "alloc" /\ h[rg].next = NULL /\ h[rg].prev = NULL
      /\ h[rg].start = h[into].start + before
  BY <1>1 DEF Fresh
<1>3. /\ \A r \in 1 .. rg :
           /\ g[r].type = h[r].type /\ g[r].start = h[r].start
           /\ g[r].size = IF r = into THEN before ELSE h[r].size
           /\ g[r].next = IF r = rg THEN m ELSE IF r = into THEN rg ELSE h[r].next
           /\ g[r].prev = IF r = h[into].next THEN rg
                          ELSE IF r = rg THEN into ELSE h[r].prev
      /\ g[m].type = "free" /\ g[m].start = h[rg].start + h[rg].size
      /\ g[m].size = after /\ g[m].next = NULL /\ g[m].prev = rg
  <2>1. h[into].size - (h[rg].size + after) = before
    BY <1>1
  <2>2. /\ g = InsertMiddle(h, into, rg, after) /\ m = Len(h) + 1
        /\ into \in 1 .. Len(h) /\ rg \in 1 .. Len(h)
    BY <1>1, <1>2
  <2>3. SplitInTwo(h, g, into, rg, before, after)
    BY <1>2, <2>1, <2>2, InsertMiddleIs
  <2> HIDE DEF g
  <2> QED
    BY <1>2, <2>2, <2>3 DEF SplitInTwo
<1> HIDE DEF g
<1>4. Unique(h, n, into)
  BY Neighbours
<1>5. ASSUME NEW r \in 1 .. m
      PROVE  /\ g[r].next \in 0 .. m /\ g[r].prev \in 0 .. m
             /\ g[r].type = "free" => g[r].size # 0
             /\ g[r].type # "freed" /\ g[r].next # NULL => Follows(g, r, g[r].next)
  <2>0. CASE r = m
    <3>1. g[r].next = NULL /\ g[r].prev = rg /\ g[r].size = after
      BY <1>3, <2>0
    <3> QED
      BY <1>1, <3>1 DEF NULL
  <2>1. CASE r = rg
    <3>1. /\ g[r].next = m /\ g[r].prev = into /\ g[r].type = "alloc"
          /\ g[r].start = h[rg].start /\ g[r].size = h[rg].size
      BY <1>1, <1>2, <1>3, <1>4, <2>1 DEF Unique
    <3>2. Follows(g, r, m)
      BY <1>3, <2>1, <3>1 DEF Follows
    <3> QED
      BY <1>1, <1>2, <3>1, <3>2
  <2>2. CASE r = into
    <3>1. g[r].next = rg /\ g[r].size = before /\ g[r].start = h[into].start
          /\ g[rg].type = "alloc" /\ g[rg].start = h[into].start + before
      BY <1>2, <1>3, <2>2
    <3>2. g[r].prev = h[into].prev /\ h[into].prev \in 0 .. n
      BY <1>2, <1>3, <1>4, <2>2 DEF Unique
    <3> QED
      BY <1>1, <1>2, <3>1, <3>2 DEF Follows
  <2>3. CASE r # rg /\ r # into /\ r # m
    <3>1. r \in 1 .. n /\ r \in 1 .. rg
      BY <1>1, <2>3
    <3>2. /\ h[r].next \in 0 .. n /\ h[r].prev \in 0 .. n
          /\ h[r].type = "free" => h[r].size # 0
          /\ h[r].type # "freed" /\ h[r].next # NULL => Follows(h, r, h[r].next)
      BY <3>1 DEF Chained
    <3>3. /\ g[r].type = h[r].type /\ g[r].start = h[r].start /\ g[r].size = h[r].size
          /\ g[r].next = h[r].next
          /\ g[r].prev = rg \/ g[r].prev = h[r].prev
      BY <1>3, <2>3, <3>1
    <3>4. ASSUME h[r].type # "freed", h[r].next # NULL PROVE Follows(g, r, h[r].next)
      <4>1. PICK t : t = h[r].next
        OBVIOUS
      <4>2. t \in 1 .. n /\ t \in 1 .. rg /\ t # rg
        BY <1>1, <3>2, <3>4, <4>1 DEF NULL
      <4>3. Follows(h, r, t)
        BY <3>2, <3>4, <4>1
      <4>4. h[t].type = "free" => t # h[into].next
        BY <1>4, <2>3, <3>1, <3>4, <4>1, <4>2 DEF NULL, Unique
      <4>5. g[t].type = h[t].type /\ g[t].start = h[t].start
            /\ (h[t].type = "free" => g[t].prev = h[t].prev)
        BY <1>3, <4>2, <4>4
      <4> QED
        BY <3>3, <4>1, <4>3, <4>5 DEF Follows
    <3> QED
      BY <1>1, <3>2, <3>3, <3>4
  <2> QED
    BY <2>0, <2>1, <2>2, <2>3
<1>6. Chained(g, n + 2)
  <2>1. m = n + 2
    BY <1>1
  <2> QED
    BY <1>5, <2>1 DEF Chained
<1>7. Headed(g, f)
  <2>1. f \in 1 .. rg /\ f # rg /\ f # NULL
    BY <1>1 DEF NULL
  <2>2. f # h[into].next
    BY <1>4, <2>1 DEF Headed, Unique
  <2> QED
    BY <1>3, <2>1, <2>2 DEF Headed
<1> QED
  BY <1>6, <1>7 DEF g

(* The first region, from the pointer the linker holds.                    *)
HeadOf(h, c) == IF h[c].prev = NULL THEN c ELSE h[c].prev

(* The new region before what is left of the free one: it is the first one *)
(* if the free one was.                                                    *)
LEMMA ChainAtStart ==
  ASSUME NEW n \in Nat, NEW h, Fresh(h, n), Chained(h, n),
         NEW into \in 1 .. n, h[into].type = "free", Backed(h, into),
         NEW f \in 1 .. n, Headed(h, f),
         NEW size \in Nat, size # 0,
         h[into].size - h[n + 1].size = size, h[n + 1].start = h[into].start
  PROVE  LET g == InsertAtStart(h, into, n + 1)
         IN  Chained(g, n + 1) /\ HeadOf(g, f) \in 1 .. n + 1 /\ Headed(g, HeadOf(g, f))
<1> DEFINE g == InsertAtStart(h, into, n + 1)
<1>1. PICK rg \in Nat : rg = n + 1
  OBVIOUS
<1>2. /\ into \in 1 .. rg /\ rg \in 1 .. rg /\ into # rg /\ Len(h) = rg /\ h \in Seq(Node)
      /\ h[rg].type = "alloc" /\ h[rg].next = NULL /\ h[rg].prev = NULL
      /\ h[rg].start = h[into].start
  BY <1>1 DEF Fresh
<1>3. \A r \in 1 .. rg :
        /\ g[r].type = h[r].type
        /\ g[r].start = IF r = into THEN h[into].start + h[rg].size ELSE h[r].start
        /\ g[r].size = IF r = into THEN size ELSE h[r].size
        /\ g[r].next = IF r = h[into].prev THEN rg
                       ELSE IF r = rg THEN into ELSE h[r].next
        /\ g[r].prev = IF r = into THEN rg ELSE h[r].prev
  <2>1. h[into].size - h[rg].size = size
    BY <1>1
  <2>2. /\ g = InsertAtStart(h, into, rg)
        /\ into \in 1 .. Len(h) /\ rg \in 1 .. Len(h)
    BY <1>1, <1>2
  <2>3. CutFromStart(h, g, into, rg, size)
    BY <1>2, <2>1, <2>2, InsertAtStartIs
  <2> HIDE DEF g
  <2> QED
    BY <1>2, <2>3 DEF CutFromStart
<1> HIDE DEF g
<1>4. Unique(h, n, into)
  BY Neighbours
<1>5. h[into].prev # into /\ h[into].prev # rg
  BY <1>1, <1>4 DEF Unique, Backed, NULL
<1>6. /\ h[into].start \in Nat /\ h[into].size \in Nat /\ h[rg].size \in Nat
      /\ size = h[into].size - h[rg].size
  <2>1. h[into] \in Node /\ h[rg] \in Node
    BY <1>2, ElementOfSeq
  <2> QED
    BY <1>1, <2>1 DEF Node
<1>7. ASSUME NEW r \in 1 .. rg
      PROVE  /\ g[r].next \in 0 .. rg /\ g[r].prev \in 0 .. rg
             /\ g[r].type = "free" => g[r].size # 0
             /\ g[r].type # "freed" /\ g[r].next # NULL => Follows(g, r, g[r].next)
  <2>1. CASE r = rg
    <3>1. /\ g[r].next = into /\ g[r].prev = NULL /\ g[r].type = "alloc"
          /\ g[r].start = h[into].start /\ g[r].size = h[rg].size
      BY <1>2, <1>3, <1>5, <2>1
    <3>2. g[into].type = "free" /\ g[into].start = h[into].start + h[rg].size
          /\ g[into].prev = rg
      BY <1>2, <1>3
    <3> QED
      BY <1>2, <2>1, <3>1, <3>2 DEF NULL, Follows
  <2>2. CASE r = h[into].prev
    <3>1. r \in 1 .. n /\ r # NULL /\ h[r].next = into /\ h[r].type # "freed"
          /\ h[r].prev \in 0 .. n /\ (h[r].type = "free" => h[r].size # 0)
          /\ into # NULL
      BY <1>1, <1>5, <2>2 DEF Backed, Chained, NULL
    <3>2. Follows(h, r, into)
      BY <3>1 DEF Chained
    <3>3. /\ g[r].next = rg /\ g[r].start = h[r].start /\ g[r].size = h[r].size
          /\ g[r].prev = h[r].prev /\ g[r].type = h[r].type
          /\ g[rg].type = "alloc" /\ g[rg].start = h[into].start
      BY <1>2, <1>3, <1>5, <2>2
    <3> QED
      BY <1>1, <1>2, <3>1, <3>2, <3>3 DEF Follows
  <2>3. CASE r = into
    <3>1. /\ g[r].next = h[into].next /\ g[r].prev = rg /\ g[r].size = size
          /\ g[r].start = h[into].start + h[rg].size /\ h[into].next \in 0 .. n
      BY <1>2, <1>3, <1>4, <1>5, <2>3 DEF Unique
    <3>2. g[r].start + g[r].size = h[into].start + h[into].size
      BY <1>6, <3>1
    <3>3. ASSUME h[into].next # NULL PROVE Follows(g, r, h[into].next)
      <4>1. PICK t : t = h[into].next
        OBVIOUS
      <4>2. t \in 1 .. n /\ t \in 1 .. rg /\ t # into
        BY <1>1, <1>4, <3>3, <4>1 DEF Unique, NULL
      <4>3. Follows(h, into, t)
        BY <3>3, <4>1 DEF Chained
      <4>4. g[t].type = h[t].type /\ g[t].start = h[t].start /\ g[t].prev = h[t].prev
        BY <1>3, <4>2
      <4> QED
        BY <2>3, <3>2, <4>1, <4>3, <4>4 DEF Follows
    <3> QED
      BY <1>1, <1>2, <3>1, <3>3
  <2>4. CASE r # rg /\ r # into /\ r # h[into].prev
    <3>1. r \in 1 .. n
      BY <1>1, <2>4
    <3>2. /\ h[r].next \in 0 .. n /\ h[r].prev \in 0 .. n
          /\ h[r].type = "free" => h[r].size # 0
          /\ h[r].type # "freed" /\ h[r].next # NULL => Follows(h, r, h[r].next)
      BY <3>1 DEF Chained
    <3>3. /\ g[r].type = h[r].type /\ g[r].start = h[r].start /\ g[r].size = h[r].size
          /\ g[r].next = h[r].next /\ g[r].prev = h[r].prev
      BY <1>3, <2>4
    <3>4. ASSUME h[r].type # "freed", h[r].next # NULL PROVE Follows(g, r, h[r].next)
      <4>1. PICK t : t = h[r].next
        OBVIOUS
      <4>2. t \in 1 .. n /\ t \in 1 .. rg /\ t # into
        BY <1>1, <1>4, <2>4, <3>1, <3>2, <3>4, <4>1 DEF NULL, Unique
      <4>3. Follows(h, r, t)
        BY <3>2, <3>4, <4>1
      <4>4. g[t].type = h[t].type /\ g[t].start = h[t].start /\ g[t].prev = h[t].prev
        BY <1>3, <4>2
      <4> QED
        BY <3>3, <4>1, <4>3, <4>4 DEF Follows
    <3> QED
      BY <1>1, <3>2, <3>3, <3>4
  <2> QED
    BY <2>1, <2>2, <2>3, <2>4
<1>8. Chained(g, n + 1)
  BY <1>1, <1>7 DEF Chained
<1>9. HeadOf(g, f) \in 1 .. n + 1 /\ Headed(g, HeadOf(g, f))
  <2>1. f \in 1 .. rg /\ f # rg /\ rg # NULL
    BY <1>1 DEF NULL
  <2>2. CASE f = into
    <3>1. HeadOf(g, f) = rg
      BY <1>3, <2>1, <2>2 DEF HeadOf
    <3>2. g[rg].type = "alloc" /\ g[rg].prev = NULL /\ g[rg].start = 0
      BY <1>2, <1>3, <2>2 DEF Headed
    <3> QED
      BY <1>1, <1>2, <3>1, <3>2 DEF Headed
  <2>3. CASE f # into
    <3>1. g[f].type = h[f].type /\ g[f].prev = h[f].prev /\ g[f].start = h[f].start
      BY <1>3, <2>1, <2>3
    <3>2. HeadOf(g, f) = f
      BY <3>1 DEF HeadOf, Headed
    <3> QED
      BY <1>1, <2>1, <3>1, <3>2 DEF Headed
  <2> QED
    BY <2>2, <2>3
<1> QED
  BY <1>8, <1>9 DEF g

(* The new region in the place of the free one, whose neighbours know it:  *)
(* it does not know them, so that the chain may end with it, and what was  *)
(* the first region may be freed.                                          *)
LEMMA ChainReplace ==
  ASSUME NEW n \in Nat, NEW h, Fresh(h, n), Chained(h, n),
         NEW into \in 1 .. n, h[into].type = "free", Backed(h, into),
         NEW f \in 1 .. n, Headed(h, f),
         h[n + 1].start = h[into].start
  PROVE  LET g == Replace(h, into, n + 1)
         IN  Chained(g, n + 1) /\ (g[f].type = "freed" \/ Headed(g, f))
<1> DEFINE g == Replace(h, into, n + 1)
<1>1. PICK rg \in Nat : rg = n + 1
  OBVIOUS
<1>2. /\ into \in 1 .. rg /\ rg \in 1 .. rg /\ into # rg /\ Len(h) = rg /\ h \in Seq(Node)
      /\ h[rg].type = "alloc" /\ h[rg].next = NULL /\ h[rg].prev = NULL
      /\ h[rg].start = h[into].start
  BY <1>1 DEF Fresh
<1>3. \A r \in 1 .. rg :
        /\ g[r].type = IF r = into THEN "freed" ELSE h[r].type
        /\ g[r].start = h[r].start /\ g[r].size = h[r].size
        /\ g[r].next = IF r = into THEN NULL
                       ELSE IF r = h[into].prev THEN rg ELSE h[r].next
        /\ g[r].prev = IF r = into THEN NULL
                       ELSE IF r = h[into].next THEN rg ELSE h[r].prev
  <2>1. /\ g = Replace(h, into, rg)
        /\ into \in 1 .. Len(h) /\ rg \in 1 .. Len(h)
    BY <1>1, <1>2
  <2>2. Replaced(h, g, into, rg)
    BY <1>2, <2>1, ReplaceIs
  <2> HIDE DEF g
  <2> QED
    BY <1>2, <2>2 DEF Replaced
<1> HIDE DEF g
<1>4. Unique(h, n, into)
  BY Neighbours
<1>5. h[into].prev # into /\ h[into].prev # rg /\ h[into].next # rg
  BY <1>1, <1>4 DEF Unique, Backed, NULL
<1>6. ASSUME NEW r \in 1 .. rg
      PROVE  /\ g[r].next \in 0 .. rg /\ g[r].prev \in 0 .. rg
             /\ g[r].type = "free" => g[r].size # 0
             /\ g[r].type # "freed" /\ g[r].next # NULL => Follows(g, r, g[r].next)
  <2>1. CASE r = rg
    <3>1. g[r].next = NULL /\ g[r].prev = NULL /\ g[r].type = "alloc"
      BY <1>2, <1>3, <1>5, <2>1
    <3> QED
      BY <3>1 DEF NULL
  <2>2. CASE r = into
    <3>1. g[r].next = NULL /\ g[r].prev = NULL /\ g[r].type = "freed"
      BY <1>3, <2>2
    <3> QED
      BY <3>1 DEF NULL
  <2>3. CASE r = h[into].prev
    <3>1. r \in 1 .. n /\ r # NULL /\ h[r].next = into /\ h[r].type # "freed"
          /\ h[r].prev \in 0 .. n /\ (h[r].type = "free" => h[r].size # 0)
          /\ into # NULL /\ r # into
      BY <1>1, <1>5, <2>3 DEF Backed, Chained, NULL
    <3>2. Follows(h, r, into)
      BY <3>1 DEF Chained
    <3>3. /\ g[r].next = rg /\ g[r].start = h[r].start /\ g[r].size = h[r].size
          /\ g[r].prev = rg \/ g[r].prev = h[r].prev
          /\ g[r].type = h[r].type
          /\ g[rg].type = "alloc" /\ g[rg].start = h[into].start
      BY <1>2, <1>3, <2>3, <3>1
    <3> QED
      BY <1>1, <1>2, <3>1, <3>2, <3>3 DEF Follows
  <2>4. CASE r # rg /\ r # into /\ r # h[into].prev
    <3>1. r \in 1 .. n
      BY <1>1, <2>4
    <3>2. /\ h[r].next \in 0 .. n /\ h[r].prev \in 0 .. n
          /\ h[r].type = "free" => h[r].size # 0
          /\ h[r].type # "freed" /\ h[r].next # NULL => Follows(h, r, h[r].next)
      BY <3>1 DEF Chained
    <3>3. /\ g[r].type = h[r].type /\ g[r].start = h[r].start /\ g[r].size = h[r].size
          /\ g[r].next = h[r].next
          /\ g[r].prev = rg \/ g[r].prev = h[r].prev
      BY <1>3, <2>4
    <3>4. ASSUME h[r].type # "freed", h[r].next # NULL PROVE Follows(g, r, h[r].next)
      <4>1. PICK t : t = h[r].next
        OBVIOUS
      <4>2. t \in 1 .. n /\ t \in 1 .. rg /\ t # into
        BY <1>1, <1>4, <2>4, <3>1, <3>2, <3>4, <4>1 DEF NULL, Unique
      <4>3. Follows(h, r, t)
        BY <3>2, <3>4, <4>1
      <4>4. h[t].type = "free" => t # h[into].next
        BY <1>4, <2>4, <3>1, <3>4, <4>1, <4>2 DEF NULL, Unique
      <4>5. g[t].type = h[t].type /\ g[t].start = h[t].start
            /\ (h[t].type = "free" => g[t].prev = h[t].prev)
        BY <1>3, <4>2, <4>4
      <4> QED
        BY <3>3, <4>1, <4>3, <4>5 DEF Follows
    <3> QED
      BY <1>1, <3>2, <3>3, <3>4
  <2> QED
    BY <2>1, <2>2, <2>3, <2>4
<1>7. Chained(g, n + 1)
  BY <1>1, <1>6 DEF Chained
<1>8. g[f].type = "freed" \/ Headed(g, f)
  <2>1. f \in 1 .. rg /\ f # NULL
    BY <1>1 DEF NULL
  <2>2. CASE f = into
    BY <1>3, <2>1, <2>2
  <2>3. CASE f # into
    <3>1. f # h[into].next
      BY <1>4, <2>1 DEF Unique, Headed
    <3> QED
      BY <1>3, <2>1, <2>3, <3>1 DEF Headed
  <2> QED
    BY <2>2, <2>3
<1> QED
  BY <1>7, <1>8 DEF g

(* ld_region_insert, whatever room there is.                               *)
LEMMA RegionInsertChains ==
  ASSUME NEW n \in Nat, NEW h, Fresh(h, n), Chained(h, n),
         NEW into \in 1 .. n, CanInsert(h, into, n + 1), Backed(h, into),
         NEW f \in 1 .. n, Headed(h, f)
  PROVE  LET g == RegionInsert(h, into, n + 1)
         IN  /\ Chained(g, Len(g))
             /\ \/ g[f].type = "freed"
                \/ HeadOf(g, f) \in 1 .. Len(g) /\ Headed(g, HeadOf(g, f))
<1> DEFINE g == RegionInsert(h, into, n + 1)
<1>1. PICK rg \in Nat : rg = n + 1
  OBVIOUS
<1>2. /\ into \in 1 .. Len(h) /\ rg \in 1 .. Len(h) /\ into # rg
      /\ h \in Seq(Node) /\ Len(h) = rg /\ CanInsert(h, into, rg) /\ h[rg].next = NULL
  BY <1>1 DEF Fresh
<1>3. PICK before \in Nat, after \in Nat :
        /\ before = h[rg].start - h[into].start
        /\ after = h[into].size - (before + h[rg].size)
  BY <1>2, Room
<1>4. /\ h[into].type = "free" /\ h[into].start \in Nat /\ h[into].size \in Nat
      /\ h[rg].start \in Nat /\ h[rg].size \in Nat
  BY <1>2, Room
<1>5. /\ h[rg].start = h[into].start + before
      /\ h[into].size = before + h[rg].size + after
  BY <1>3, <1>4
<1>6. f \in 1 .. rg /\ f \in 1 .. Len(h)
  BY <1>1, <1>2
<1>7. CASE before # 0 /\ after # 0
  <2>1. g = InsertMiddle(h, into, rg, after)
    BY <1>1, <1>3, <1>7 DEF RegionInsert
  <2>2. h[into].size - (h[rg].size + after) = before
    BY <1>4, <1>5
  <2> HIDE DEF g
  <2>3. Chained(g, n + 2) /\ Headed(g, f)
    BY <1>1, <1>4, <1>5, <1>7, <2>1, <2>2, ChainMiddle
  <2>4. Len(g) = n + 2
    <3>1. SplitInTwo(h, g, into, rg, before, after)
      BY <1>2, <2>1, <2>2, InsertMiddleIs
    <3> QED
      BY <1>1, <1>2, <3>1 DEF SplitInTwo
  <2>5. HeadOf(g, f) = f /\ f \in 1 .. n + 2
    BY <2>3 DEF HeadOf, Headed
  <2> USE DEF g
  <2> QED
    BY <2>3, <2>4, <2>5
<1>8. CASE before # 0 /\ after = 0
  <2>1. g = InsertAtEnd(h, into, rg)
    BY <1>1, <1>3, <1>8 DEF RegionInsert
  <2>2. h[into].size - h[rg].size = before
    BY <1>4, <1>5, <1>8
  <2> HIDE DEF g
  <2>3. Chained(g, n + 1) /\ Headed(g, f)
    BY <1>1, <1>4, <1>5, <1>8, <2>1, <2>2, ChainAtEnd
  <2>4. Len(g) = n + 1
    <3>1. CutFromEnd(h, g, into, rg, before)
      BY <1>2, <2>1, <2>2, InsertAtEndIs
    <3> QED
      BY <1>1, <1>2, <3>1 DEF CutFromEnd
  <2>5. HeadOf(g, f) = f /\ f \in 1 .. n + 1
    BY <2>3 DEF HeadOf, Headed
  <2> USE DEF g
  <2> QED
    BY <2>3, <2>4, <2>5
<1>9. CASE before = 0 /\ after # 0
  <2>1. g = InsertAtStart(h, into, rg)
    BY <1>1, <1>3, <1>9 DEF RegionInsert
  <2>2. h[into].size - h[rg].size = after /\ h[rg].start = h[into].start
    BY <1>4, <1>5, <1>9
  <2> HIDE DEF g
  <2>3. Chained(g, n + 1) /\ HeadOf(g, f) \in 1 .. n + 1 /\ Headed(g, HeadOf(g, f))
    BY <1>1, <1>4, <1>9, <2>1, <2>2, ChainAtStart
  <2>4. Len(g) = n + 1
    <3>1. CutFromStart(h, g, into, rg, after)
      BY <1>2, <2>1, <2>2, InsertAtStartIs
    <3> QED
      BY <1>1, <1>2, <3>1 DEF CutFromStart
  <2> USE DEF g
  <2> QED
    BY <2>3, <2>4
<1>10. CASE before = 0 /\ after = 0
  <2>1. g = Replace(h, into, rg)
    BY <1>1, <1>3, <1>10 DEF RegionInsert
  <2>2. h[rg].start = h[into].start
    BY <1>4, <1>5, <1>10
  <2> HIDE DEF g
  <2>3. Chained(g, n + 1) /\ (g[f].type = "freed" \/ Headed(g, f))
    BY <1>1, <1>4, <2>1, <2>2, ChainReplace
  <2>4. Len(g) = n + 1
    <3>1. Replaced(h, g, into, rg)
      BY <1>2, <2>1, ReplaceIs
    <3> QED
      BY <1>1, <1>2, <3>1 DEF Replaced
  <2>5. Headed(g, f) => HeadOf(g, f) = f /\ f \in 1 .. n + 1
    BY DEF HeadOf, Headed
  <2> USE DEF g
  <2> QED
    BY <2>3, <2>4, <2>5
<1> QED
  BY <1>7, <1>8, <1>9, <1>10

(* What the fields of the nodes are bounded by.                            *)
Measured(h, n, top, count) ==
  \A r \in 1 .. n : h[r].start <= top /\ h[r].size <= top /\ h[r].section <= count

LEMMA RegionInsertMeasured ==
  ASSUME NEW n \in Nat, NEW h, Fresh(h, n), NEW into \in 1 .. n,
         CanInsert(h, into, n + 1), NEW top \in Nat, NEW count \in Nat,
         Measured(h, n, top, count), h[n + 1].section <= count,
         h[into].start + h[into].size <= top
  PROVE  LET g == RegionInsert(h, into, n + 1)
         IN  g \in Seq(Node) /\ Len(g) >= Len(h) /\ Measured(g, Len(g), top, count)
<1> DEFINE g == RegionInsert(h, into, n + 1)
<1>1. PICK rg \in Nat : rg = n + 1
  OBVIOUS
<1>2. /\ into \in 1 .. Len(h) /\ rg \in 1 .. Len(h) /\ into # rg
      /\ h \in Seq(Node) /\ Len(h) = rg /\ CanInsert(h, into, rg) /\ h[rg].next = NULL
  BY <1>1 DEF Fresh
<1>3. PICK before \in Nat, after \in Nat :
        /\ before = h[rg].start - h[into].start
        /\ after = h[into].size - (before + h[rg].size)
  BY <1>2, Room
<1>4. /\ h[into].type = "free" /\ h[into].start \in Nat /\ h[into].size \in Nat
      /\ h[rg].start \in Nat /\ h[rg].size \in Nat
  BY <1>2, Room
<1>5. /\ h[rg].start = h[into].start + before
      /\ h[into].size = before + h[rg].size + after
  BY <1>3, <1>4
<1>6. /\ h[rg].start <= top /\ h[rg].size <= top /\ h[rg].start + h[rg].size <= top
      /\ before <= top /\ after <= top /\ h[into].start + h[rg].size <= top
  <2>1. PICK s \in Nat, z \in Nat, t \in Nat, y \in Nat :
          s = h[into].start /\ z = h[into].size /\ t = h[rg].start /\ y = h[rg].size
    BY <1>4
  <2>2. t = s + before /\ z = before + y + after /\ s + z <= top
    BY <1>5, <2>1
  <2>3. t <= top /\ y <= top /\ t + y <= top /\ before <= top /\ after <= top /\ s + y <= top
    BY <2>2
  <2> QED
    BY <2>1, <2>3
<1>7. Measured(h, rg, top, count)
  <2> SUFFICES ASSUME NEW r \in 1 .. rg
               PROVE  h[r].start <= top /\ h[r].size <= top /\ h[r].section <= count
    BY DEF Measured
  <2>1. r = rg \/ r \in 1 .. n
    BY <1>1
  <2> QED
    BY <1>1, <1>6, <2>1 DEF Measured
<1>8. CASE before # 0 /\ after # 0
  <2>1. g = InsertMiddle(h, into, rg, after)
    BY <1>1, <1>3, <1>8 DEF RegionInsert
  <2> HIDE DEF g
  <2>2. h[into].size - (h[rg].size + after) = before
    BY <1>4, <1>5
  <2>3. SplitInTwo(h, g, into, rg, before, after)
    BY <1>2, <2>1, <2>2, InsertMiddleIs
  <2>4. PICK m \in Nat : m = rg + 1
    OBVIOUS
  <2>5. /\ g \in Seq(Node) /\ Len(g) = m
        /\ \A r \in 1 .. rg : /\ g[r].section = h[r].section /\ g[r].start = h[r].start
                              /\ g[r].size = IF r = into THEN before ELSE h[r].size
        /\ g[m].start = h[rg].start + h[rg].size
        /\ g[m].size = after /\ g[m].section = 0
    BY <1>2, <2>3, <2>4 DEF SplitInTwo
  <2>6. ASSUME NEW r \in 1 .. m
        PROVE  g[r].start <= top /\ g[r].size <= top /\ g[r].section <= count
    <3>1. CASE r = m
      BY <1>6, <2>5, <3>1
    <3>2. CASE r # m
      <4>1. r \in 1 .. rg
        BY <2>4, <3>2
      <4> QED
        BY <1>6, <1>7, <2>5, <4>1 DEF Measured
    <3> QED
      BY <3>1, <3>2
  <2> USE DEF g
  <2> QED
    BY <1>2, <2>4, <2>5, <2>6 DEF Measured
<1>9. CASE before # 0 /\ after = 0
  <2>1. g = InsertAtEnd(h, into, rg)
    BY <1>1, <1>3, <1>9 DEF RegionInsert
  <2> HIDE DEF g
  <2>2. h[into].size - h[rg].size = before
    BY <1>4, <1>5, <1>9
  <2>3. CutFromEnd(h, g, into, rg, before)
    BY <1>2, <2>1, <2>2, InsertAtEndIs
  <2>4. /\ g \in Seq(Node) /\ Len(g) = rg
        /\ \A r \in 1 .. rg : /\ g[r].section = h[r].section /\ g[r].start = h[r].start
                              /\ g[r].size = IF r = into THEN before ELSE h[r].size
    BY <1>2, <2>3 DEF CutFromEnd
  <2>5. ASSUME NEW r \in 1 .. rg
        PROVE  g[r].start <= top /\ g[r].size <= top /\ g[r].section <= count
    BY <1>6, <1>7, <2>4 DEF Measured
  <2> USE DEF g
  <2> QED
    BY <1>2, <2>4, <2>5 DEF Measured
<1>10. CASE before = 0 /\ after # 0
  <2>1. g = InsertAtStart(h, into, rg)
    BY <1>1, <1>3, <1>10 DEF RegionInsert
  <2> HIDE DEF g
  <2>2. h[into].size - h[rg].size = after
    BY <1>4, <1>5, <1>10
  <2>3. CutFromStart(h, g, into, rg, after)
    BY <1>2, <2>1, <2>2, InsertAtStartIs
  <2>4. /\ g \in Seq(Node) /\ Len(g) = rg
        /\ \A r \in 1 .. rg :
             /\ g[r].section = h[r].section
             /\ g[r].start = IF r = into THEN h[into].start + h[rg].size ELSE h[r].start
             /\ g[r].size = IF r = into THEN after ELSE h[r].size
    BY <1>2, <2>3 DEF CutFromStart
  <2>5. ASSUME NEW r \in 1 .. rg
        PROVE  g[r].start <= top /\ g[r].size <= top /\ g[r].section <= count
    BY <1>6, <1>7, <2>4 DEF Measured
  <2> USE DEF g
  <2> QED
    BY <1>2, <2>4, <2>5 DEF Measured
<1>11. CASE before = 0 /\ after = 0
  <2>1. g = Replace(h, into, rg)
    BY <1>1, <1>3, <1>11 DEF RegionInsert
  <2> HIDE DEF g
  <2>2. Replaced(h, g, into, rg)
    BY <1>2, <2>1, ReplaceIs
  <2>3. /\ g \in Seq(Node) /\ Len(g) = rg
        /\ \A r \in 1 .. rg : /\ g[r].section = h[r].section /\ g[r].start = h[r].start
                              /\ g[r].size = h[r].size
    BY <1>2, <2>2 DEF Replaced
  <2>4. ASSUME NEW r \in 1 .. rg
        PROVE  g[r].start <= top /\ g[r].size <= top /\ g[r].section <= count
    BY <1>7, <2>3 DEF Measured
  <2> USE DEF g
  <2> QED
    BY <1>2, <2>3, <2>4 DEF Measured
<1> QED
  BY <1>8, <1>9, <1>10, <1>11

-----------------------------------------------------------------------------
(* get_first_region finds the first region, from it or from the one behind.*)
LEMMA FirstRegionIs ==
  ASSUME NEW h \in Seq(Node), NEW c \in 1 .. Len(h),
         HeadOf(h, c) \in 1 .. Len(h), Headed(h, HeadOf(h, c))
  PROVE  FirstRegion(h, c) = HeadOf(h, c)
<1> DEFINE Back(p) == IF h[p].prev = NULL THEN p ELSE h[p].prev
           Step(b) == [k \in 0 .. Len(h) |-> IF k = 0 THEN c ELSE Back(b[k - 1])]
<1>1. PICK n \in Nat : n = Len(h) /\ n # 0
  BY LenProperties
<1>2. PICK f : f = HeadOf(h, c)
  OBVIOUS
<1>3. Back(c) = f /\ Back(f) = f
  BY <1>2 DEF HeadOf, Headed
<1>4. FirstRegion(h, c) = (CHOOSE b : b = Step(b))[n]
  BY <1>1 DEF FirstRegion
<1> HIDE DEF Back
<1>5. \E b : b = Step(b)
  <2>1. PICK b : b = [k \in 0 .. Len(h) |-> IF k = 0 THEN c ELSE f]
    OBVIOUS
  <2>2. ASSUME NEW k \in 0 .. Len(h)
        PROVE  b[k] = IF k = 0 THEN c ELSE Back(b[k - 1])
    <3>1. CASE k = 0
      BY <2>1, <3>1
    <3>2. CASE k # 0
      <4>1. k - 1 \in 0 .. Len(h)
        BY <1>1, <3>2
      <4>2. b[k - 1] = c \/ b[k - 1] = f
        BY <2>1, <4>1
      <4>3. b[k] = f
        BY <2>1, <3>2
      <4> QED
        BY <1>3, <3>2, <4>2, <4>3
    <3> QED
      BY <3>1, <3>2
  <2>3. b = [k \in 0 .. Len(h) |-> b[k]]
    BY <2>1
  <2>4. b = Step(b)
    BY <2>2, <2>3
  <2> QED
    BY <2>4
<1>6. PICK b : b = Step(b) /\ FirstRegion(h, c) = b[n]
  <2> HIDE DEF Step
  <2> QED
    BY <1>4, <1>5
<1>7. \A k \in 1 .. n : b[k] = Back(b[k - 1])
  <2>1. \A k \in 0 .. n : b[k] = IF k = 0 THEN c ELSE Back(b[k - 1])
    BY <1>1, <1>6
  <2> QED
    BY <1>1, <2>1
<1>8. b[0] = c
  BY <1>1, <1>6
<1> DEFINE T == {k \in Nat : k \in 1 .. n /\ b[k] # f}
<1>9. T = {}
  <2>1. SUFFICES ASSUME T # {} PROVE FALSE
    OBVIOUS
  <2>2. PICK k \in T : \A j \in T : k <= j
    BY <2>1, LeastNat
  <2>3. k \in Nat /\ k \in 1 .. n /\ b[k] # f
    OBVIOUS
  <2>4. k - 1 = 0 \/ (k - 1 \in 1 .. n /\ k - 1 \in Nat /\ k - 1 < k)
    BY <1>1, <2>3
  <2>5. b[k - 1] = c \/ b[k - 1] = f
    BY <1>8, <2>2, <2>4
  <2> QED
    BY <1>3, <1>7, <2>3, <2>5
<1>10. n \in 1 .. n
  BY <1>1
<1> QED
  BY <1>2, <1>6, <1>9, <1>10

(* The regions that were met when the walk is at one of them: from the     *)
(* first one on each is the next of the one before, and none is freed.     *)
Path(h, f, w) ==
  /\ w \in Seq(1 .. Len(h)) /\ Len(w) # 0 /\ w[1] = f
  /\ \A k \in 1 .. Len(w) : h[w[k]].type # "freed"
  /\ \A k \in 1 .. Len(w) :
       k # 1 => h[w[k - 1]].next = w[k] /\ Follows(h, w[k - 1], w[k])

(* One step of the walk.                                                   *)
Farther(h, met) ==
  LET n == h[met[Len(met)]].next IN IF n = NULL THEN met ELSE Append(met, n)

LEMMA PathGrows ==
  ASSUME NEW h \in Seq(Node), Chained(h, Len(h)), NEW f, NEW w, Path(h, f, w)
  PROVE  Path(h, f, Farther(h, w))
<1>1. PICK l \in Nat : l = Len(w) /\ l # 0
  BY LenProperties DEF Path
<1>2. w \in Seq(1 .. Len(h)) /\ w[l] \in 1 .. Len(h) /\ l \in 1 .. l
  <2>1. w \in Seq(1 .. Len(h)) /\ l \in 1 .. Len(w)
    BY <1>1 DEF Path
  <2> QED
    BY <1>1, <2>1, ElementOfSeq
<1>3. PICK t : t = h[w[l]].next
  OBVIOUS
<1>4. t \in 0 .. Len(h) /\ (t # NULL => Follows(h, w[l], t))
  BY <1>1, <1>2, <1>3 DEF Chained, Path
<1>5. Farther(h, w) = IF t = NULL THEN w ELSE Append(w, t)
  BY <1>1, <1>3 DEF Farther
<1>6. CASE t = NULL
  BY <1>5, <1>6
<1>7. CASE t # NULL
  <2>1. t \in 1 .. Len(h)
    BY <1>4, <1>7 DEF NULL
  <2>2. PICK v : v = Append(w, t)
    OBVIOUS
  <2>3. /\ v \in Seq(1 .. Len(h)) /\ Len(v) = l + 1 /\ v[l + 1] = t
        /\ \A k \in 1 .. l : v[k] = w[k]
    BY <1>1, <1>2, <2>1, <2>2, AppendProperties
  <2>4. v[1] = f
    <3>1. 1 \in 1 .. l
      BY <1>1
    <3> QED
      BY <2>3, <3>1 DEF Path
  <2>5. ASSUME NEW k \in 1 .. l + 1
        PROVE  /\ h[v[k]].type # "freed"
               /\ k # 1 => h[v[k - 1]].next = v[k] /\ Follows(h, v[k - 1], v[k])
    <3>1. CASE k = l + 1
      <4>1. v[k] = t /\ v[k - 1] = w[l] /\ Follows(h, w[l], t)
        BY <1>2, <1>4, <1>7, <2>3, <3>1
      <4> QED
        BY <1>3, <4>1 DEF Follows
    <3>2. CASE k # l + 1
      <4>1. k \in 1 .. l /\ v[k] = w[k]
        BY <2>3, <3>2
      <4>2. k # 1 => k - 1 \in 1 .. l /\ v[k - 1] = w[k - 1]
        BY <2>3, <4>1
      <4> QED
        BY <1>1, <4>1, <4>2 DEF Path
    <3> QED
      BY <3>1, <3>2
  <2>6. Path(h, f, v)
    <3>1. Len(v) # 0
      BY <1>1, <2>3
    <3> QED
      BY <2>3, <2>4, <2>5, <3>1 DEF Path
  <2> QED
    BY <1>5, <1>7, <2>2, <2>6
<1> QED
  BY <1>6, <1>7

(* The functions the recursive definition of Walk can stand for, up to n   *)
(* steps.                                                                  *)
Walks(h, f, n) ==
  {a \in [1 .. n -> {w \in Seq(1 .. Len(h)) : Path(h, f, w)}] :
     a = [k \in 1 .. n |-> IF k = 1 THEN <<f>> ELSE Farther(h, a[k - 1])]}

LEMMA PathStarts ==
  ASSUME NEW h \in Seq(Node), NEW f \in 1 .. Len(h), Headed(h, f)
  PROVE  Path(h, f, <<f>>)
<1>1. PICK w : w = <<f>>
  OBVIOUS
<1>2. w \in Seq(1 .. Len(h)) /\ Len(w) = 1 /\ w[1] = f
  BY <1>1
<1>3. \A k \in 1 .. Len(w) : k = 1
  BY <1>2
<1> QED
  BY <1>1, <1>2, <1>3 DEF Path, Headed

LEMMA WalksExist ==
  ASSUME NEW h \in Seq(Node), Chained(h, Len(h)), NEW f \in 1 .. Len(h), Headed(h, f),
         NEW n \in Nat
  PROVE  Walks(h, f, n) # {}
<1> DEFINE P == {w \in Seq(1 .. Len(h)) : Path(h, f, w)}
           T == {j \in Nat : Walks(h, f, j) = {}}
<1>1. SUFFICES ASSUME T # {} PROVE FALSE
  OBVIOUS
<1>2. PICK m \in T : \A j \in T : m <= j
  BY <1>1, LeastNat
<1>3. m \in Nat /\ Walks(h, f, m) = {}
  OBVIOUS
<1>4. CASE m = 0
  <2>1. PICK a : a = [k \in 1 .. m |-> <<f>>]
    OBVIOUS
  <2>2. \A k \in 1 .. m : FALSE
    BY <1>4
  <2>3. a \in [1 .. m -> P]
    BY <2>1, <2>2
  <2>4. a = [k \in 1 .. m |-> IF k = 1 THEN <<f>> ELSE Farther(h, a[k - 1])]
    BY <2>1, <2>2
  <2> QED
    BY <1>3, <2>3, <2>4 DEF Walks
<1>5. CASE m # 0
  <2>1. m - 1 \in Nat /\ m - 1 < m
    BY <1>3, <1>5
  <2>2. Walks(h, f, m - 1) # {}
    BY <1>2, <2>1
  <2>3. PICK a \in [1 .. m - 1 -> P] :
          a = [k \in 1 .. m - 1 |-> IF k = 1 THEN <<f>> ELSE Farther(h, a[k - 1])]
    BY <2>2 DEF Walks
  <2>4. PICK last : last = IF m = 1 THEN <<f>> ELSE Farther(h, a[m - 1])
    OBVIOUS
  <2>5. last \in P
    <3>1. CASE m = 1
      <4>1. Path(h, f, <<f>>)
        BY PathStarts
      <4> QED
        BY <2>4, <3>1, <4>1 DEF Path
    <3>2. CASE m # 1
      <4>1. m - 1 \in 1 .. m - 1
        BY <1>3, <1>5, <3>2
      <4>2. Path(h, f, a[m - 1])
        BY <2>3, <4>1
      <4>3. Path(h, f, Farther(h, a[m - 1]))
        BY <4>2, PathGrows
      <4> QED
        BY <2>4, <3>2, <4>3 DEF Path
    <3> QED
      BY <3>1, <3>2
  <2> HIDE DEF P
  <2>6. PICK g : g = [k \in 1 .. m |-> IF k = m THEN last ELSE a[k]]
    OBVIOUS
  <2>7. ASSUME NEW k \in 1 .. m, k # m PROVE k \in 1 .. m - 1 /\ g[k] = a[k]
    BY <1>3, <2>6, <2>7
  <2>8. g[m] = last /\ m \in 1 .. m
    BY <1>3, <1>5, <2>6
  <2>9. \A k \in 1 .. m - 1 : a[k] = IF k = 1 THEN <<f>> ELSE Farther(h, a[k - 1])
    BY <2>3
  <2>10. ASSUME NEW k \in 1 .. m
         PROVE  g[k] = IF k = 1 THEN <<f>> ELSE Farther(h, g[k - 1])
    <3>1. k # 1 => k - 1 \in 1 .. m /\ k - 1 # m
      BY <1>3
    <3>2. k # 1 => g[k - 1] = a[k - 1]
      BY <2>7, <3>1
    <3>3. CASE k = m
      BY <2>4, <2>8, <3>2, <3>3
    <3>4. CASE k # m
      BY <2>7, <2>9, <3>2, <3>4
    <3> QED
      BY <3>3, <3>4
  <2>11. g = [k \in 1 .. m |-> g[k]]
    BY <2>6
  <2>12. g = [k \in 1 .. m |-> IF k = 1 THEN <<f>> ELSE Farther(h, g[k - 1])]
    BY <2>10, <2>11
  <2>13. \A k \in 1 .. m : g[k] \in P
    BY <2>3, <2>5, <2>7, <2>8
  <2>14. g \in [1 .. m -> P]
    BY <2>11, <2>13
  <2> QED
    BY <1>3, <2>12, <2>14 DEF Walks, P
<1> QED
  BY <1>4, <1>5

(* A walk from the first region is a path.                                 *)
LEMMA WalkIs ==
  ASSUME NEW h \in Seq(Node), Chained(h, Len(h)), NEW f \in 1 .. Len(h), Headed(h, f)
  PROVE  Path(h, f, Walk(h, f))
<1> DEFINE Step(a) == [k \in 1 .. Len(h) |-> IF k = 1 THEN <<f>> ELSE Farther(h, a[k - 1])]
<1>1. PICK n \in Nat : n = Len(h) /\ n # 0
  BY LenProperties
<1>2. Walk(h, f) = (CHOOSE a : a = Step(a))[n]
  BY <1>1 DEF Walk, Farther
<1>3. \E a : a = Step(a)
  BY <1>1, WalksExist DEF Walks
<1>4. PICK a : a = Step(a) /\ Walk(h, f) = a[n]
  <2> HIDE DEF Step
  <2> QED
    BY <1>2, <1>3
<1>5. \A k \in 1 .. n : a[k] = IF k = 1 THEN <<f>> ELSE Farther(h, a[k - 1])
  BY <1>1, <1>4
<1> HIDE DEF Step
<1> DEFINE T == {k \in Nat : k \in 1 .. n /\ ~Path(h, f, a[k])}
<1>6. T = {}
  <2>1. SUFFICES ASSUME T # {} PROVE FALSE
    OBVIOUS
  <2>2. PICK k \in T : \A j \in T : k <= j
    BY <2>1, LeastNat
  <2>3. k \in Nat /\ k \in 1 .. n /\ ~Path(h, f, a[k])
    OBVIOUS
  <2>4. k # 1
    <3>1. Path(h, f, <<f>>)
      BY PathStarts
    <3> QED
      BY <1>5, <2>3, <3>1
  <2>5. k - 1 \in Nat /\ k - 1 \in 1 .. n /\ k - 1 < k
    BY <1>1, <2>3, <2>4
  <2>6. Path(h, f, a[k - 1])
    BY <2>2, <2>5
  <2>7. Path(h, f, Farther(h, a[k - 1]))
    BY <2>6, PathGrows
  <2> QED
    BY <1>5, <2>3, <2>4, <2>7
<1>7. n \in 1 .. n
  BY <1>1
<1> QED
  BY <1>4, <1>6, <1>7

-----------------------------------------------------------------------------
(* The inductive invariant of the chain, beside PlacementInv: while the    *)
(* head is not freed, the pointer the linker holds is at the first region  *)
(* or at the one behind it.                                                *)
HeadHeld ==
  Dangling \/ /\ HeadOf(heap, chain) \in 1 .. Len(heap)
              /\ Headed(heap, HeadOf(heap, chain))

ChainInv ==
  /\ chain \in 1 .. Len(heap)
  /\ Chained(heap, Len(heap)) /\ HeadHeld
  /\ Measured(heap, Len(heap), MaxAddr, Len(entries))

LEMMA Walked ==
  ASSUME PlacementInv, ChainInv, ~Dangling
  PROVE  /\ First = HeadOf(heap, chain) /\ First \in 1 .. Len(heap)
         /\ Headed(heap, First) /\ Path(heap, First, Regions)
<1>1. heap \in Seq(Node)
  BY DEF PlacementInv
<1>2. /\ HeadOf(heap, chain) \in 1 .. Len(heap) /\ Headed(heap, HeadOf(heap, chain))
      /\ chain \in 1 .. Len(heap) /\ Chained(heap, Len(heap))
  BY DEF ChainInv, HeadHeld
<1>3. First = HeadOf(heap, chain)
  BY <1>1, <1>2, FirstRegionIs DEF First
<1>4. First \in 1 .. Len(heap) /\ Headed(heap, First)
  BY <1>2, <1>3
<1>5. Path(heap, First, Regions)
  BY <1>1, <1>2, <1>4, WalkIs DEF Regions
<1> QED
  BY <1>3, <1>4, <1>5

(* The heap with the new node of section e, that is put into region r.     *)
Ready(h, e, r, start) ==
  /\ Fresh(h, Len(heap)) /\ Chained(h, Len(heap))
  /\ \A q \in 1 .. Len(heap) : h[q] = heap[q]
  /\ h[Len(heap) + 1].start = start /\ h[Len(heap) + 1].size = entries[e].size
  /\ h[Len(heap) + 1].section = e
  /\ CanInsert(h, r, Len(heap) + 1) /\ heap[r].type = "free"
  /\ First \in 1 .. Len(heap) /\ Headed(h, First) /\ Backed(h, r)

(* An insertion into a region that the walk has met.                       *)
LEMMA InsertIsReady ==
  ASSUME PlacementInv, ChainInv, ~Dangling, NEW e \in Entry, NEW r \in DOMAIN heap,
         \E k \in DOMAIN Regions : Regions[k] = r, NEW start \in Nat,
         Insert(e, r, start)
  PROVE  \E h : /\ Ready(h, e, r, start)
               /\ heap' = RegionInsert(h, r, Len(heap) + 1)
               /\ chain' = First /\ entries' = entries
<1> DEFINE n   == Len(heap)
           new == NewRegion("alloc", start, entries[e].size, e)
           h   == Append(heap, new)
           g   == RegionInsert(h, r, Len(h))
<1>1. heap \in Seq(Node) /\ n \in Nat /\ r \in 1 .. n
  BY LenProperties DEF PlacementInv
<1>2. entries[e].size \in Nat /\ e \in Nat /\ e <= Len(entries) /\ Len(entries) \in Nat
  <2>1. entries \in Inputs
    BY DEF PlacementInv
  <2> QED
    BY <2>1, LinkerAssumption DEF Entry
<1>3. new \in Node /\ new.type = "alloc" /\ new.next = NULL /\ new.prev = NULL
      /\ new.section = e
  BY <1>2 DEF NewRegion, Node, NULL
<1> HIDE DEF new
<1>4. /\ h \in Seq(Node) /\ Len(h) = n + 1 /\ h[n + 1] = new
      /\ \A q \in 1 .. n : h[q] = heap[q]
  BY <1>1, <1>3, AppendProperties
<1>5. CanInsert(h, r, Len(h)) /\ heap' = g /\ chain' = First /\ entries' = entries
  BY DEF Insert, new
<1> HIDE DEF h, n
<1>6. Fresh(h, n)
  BY <1>3, <1>4 DEF Fresh
<1>7. CanInsert(h, r, n + 1) /\ g = RegionInsert(h, r, n + 1)
  BY <1>4, <1>5
<1> HIDE DEF g
<1>8. Chained(h, n)
  <2>1. Chained(heap, n)
    BY DEF ChainInv, n
  <2>2. ASSUME NEW q \in 1 .. n
        PROVE  /\ h[q].next \in 0 .. n /\ h[q].prev \in 0 .. n
               /\ h[q].type = "free" => h[q].size # 0
               /\ h[q].type # "freed" /\ h[q].next # NULL => Follows(h, q, h[q].next)
    <3>1. /\ heap[q].next \in 0 .. n /\ heap[q].prev \in 0 .. n
          /\ heap[q].type = "free" => heap[q].size # 0
          /\ heap[q].type # "freed" /\ heap[q].next # NULL
               => Follows(heap, q, heap[q].next)
      BY <2>1 DEF Chained
    <3>2. h[q] = heap[q]
      BY <1>4
    <3>3. heap[q].next # NULL => heap[q].next \in 1 .. n
      BY <3>1 DEF NULL
    <3>4. heap[q].next # NULL => h[heap[q].next] = heap[heap[q].next]
      BY <1>4, <3>3
    <3> QED
      BY <3>1, <3>2, <3>4 DEF Follows
  <2> QED
    BY <2>2 DEF Chained
<1>9. /\ First \in 1 .. n /\ Headed(heap, First) /\ Path(heap, First, Regions)
  BY Walked DEF n
<1>10. Headed(h, First)
  BY <1>4, <1>9 DEF Headed
<1>11. h[r].type = "free" /\ heap[r].type = "free" /\ h[r] = heap[r]
  BY <1>1, <1>4, <1>7 DEF CanInsert
<1>12. Backed(h, r)
  <2>1. PICK k \in DOMAIN Regions : Regions[k] = r
    OBVIOUS
  <2>2. Regions \in Seq(1 .. n) /\ Regions[1] = First
        /\ k \in 1 .. Len(Regions) /\ Len(Regions) \in Nat
    BY <1>9, LenProperties DEF Path, n
  <2>3. CASE k = 1
    <3>1. heap[r].prev = NULL
      BY <1>9, <2>1, <2>2, <2>3 DEF Headed
    <3> QED
      BY <1>11, <3>1 DEF Backed
  <2>4. CASE k # 1
    <3>1. k - 1 \in 1 .. Len(Regions)
      BY <2>2, <2>4
    <3>2. PICK s \in 1 .. n : s = Regions[k - 1]
      BY <2>2, <3>1, ElementOfSeq
    <3>3. heap[s].next = r /\ Follows(heap, s, r) /\ heap[s].type # "freed"
      BY <1>9, <2>1, <2>2, <2>4, <3>1, <3>2 DEF Path
    <3>4. heap[r].prev = s
      BY <1>11, <3>3 DEF Follows
    <3> QED
      BY <1>4, <1>11, <3>3, <3>4 DEF Backed
  <2> QED
    BY <2>3, <2>4
<1>13. h[n + 1].start = start /\ h[n + 1].size = entries[e].size /\ h[n + 1].section = e
  BY <1>4 DEF NewRegion, new
<1>14. Ready(h, e, r, start)
  BY <1>4, <1>6, <1>7, <1>8, <1>9, <1>10, <1>11, <1>12, <1>13 DEF Ready, n
<1>15. heap' = RegionInsert(h, r, Len(heap) + 1)
  BY <1>5, <1>7 DEF n
<1> QED
  BY <1>5, <1>14, <1>15

LEMMA InsertKeepsChain ==
  ASSUME PlacementInv, ChainInv, ~Dangling, NEW e \in Entry, NEW r \in DOMAIN heap,
         \E k \in DOMAIN Regions : Regions[k] = r, NEW start \in Nat,
         Insert(e, r, start)
  PROVE  ChainInv'
<1> DEFINE n == Len(heap)
<1>1. heap \in Seq(Node) /\ n \in Nat /\ r \in 1 .. n
  BY LenProperties DEF PlacementInv
<1>2. e \in Nat /\ e <= Len(entries) /\ Len(entries) \in Nat
  BY Sections
<1>3. PICK h : /\ Ready(h, e, r, start) /\ heap' = RegionInsert(h, r, n + 1)
               /\ chain' = First /\ entries' = entries
  BY InsertIsReady
<1> DEFINE g == RegionInsert(h, r, n + 1)
<1> HIDE DEF n, g
<1>4. /\ Fresh(h, n) /\ Chained(h, n) /\ \A q \in 1 .. n : h[q] = heap[q]
      /\ h[n + 1].section = e /\ CanInsert(h, r, n + 1) /\ heap[r].type = "free"
      /\ First \in 1 .. n /\ Headed(h, First) /\ Backed(h, r)
      /\ h \in Seq(Node) /\ Len(h) = n + 1
  BY <1>3 DEF Ready, Fresh, n
<1>5. heap' = g /\ chain' = First /\ entries' = entries
  BY <1>3 DEF n, g
<1>6. /\ Chained(g, Len(g))
      /\ \/ g[First].type = "freed"
         \/ HeadOf(g, First) \in 1 .. Len(g) /\ Headed(g, HeadOf(g, First))
  BY <1>1, <1>4, RegionInsertChains DEF g
<1>7. g \in Seq(Node) /\ Len(g) >= Len(h) /\ Measured(g, Len(g), MaxAddr, Len(entries))
  <2>1. MaxAddr \in Nat
    BY LinkerAssumption
  <2>2. Measured(h, n, MaxAddr, Len(entries))
    BY <1>4 DEF ChainInv, Measured, n
  <2>3. h[n + 1].section <= Len(entries)
    BY <1>2, <1>4
  <2>4. h[r].start + h[r].size <= MaxAddr
    <3>1. r \in Live
      BY <1>4 DEF Live
    <3>2. Ends(r) <= MaxAddr
      BY <3>1 DEF PlacementInv, RegionsApart
    <3> QED
      BY <1>1, <1>4, <3>2 DEF Ends
  <2> QED
    BY <1>1, <1>2, <1>4, <2>1, <2>2, <2>3, <2>4, RegionInsertMeasured DEF g
<1>8. First \in 1 .. Len(g)
  <2>1. Len(g) \in Nat
    BY <1>7, LenProperties
  <2> QED
    BY <1>1, <1>4, <1>7, <2>1
<1> QED
  BY <1>5, <1>6, <1>7, <1>8 DEF ChainInv, HeadHeld, Dangling

LEMMA ChainInit ==
  ASSUME Init PROVE ChainInv
<1> DEFINE new == NewRegion("free", 0, MaxAddr, 0)
<1>1. MaxAddr \in Nat /\ MaxAddr # 0 /\ Len(entries) \in Nat
  BY LinkerAssumption DEF Init
<1>2. /\ new.type = "free" /\ new.start = 0 /\ new.size = MaxAddr /\ new.section = 0
      /\ new.next = NULL /\ new.prev = NULL
  BY DEF NewRegion
<1>3. heap = <<new>> /\ chain = 1
  BY DEF Init
<1> HIDE DEF new
<1>4. Len(heap) = 1 /\ heap[1] = new /\ chain = 1 /\ 1 .. Len(heap) = {1}
  BY <1>3
<1>5. Chained(heap, Len(heap))
  BY <1>1, <1>2, <1>4 DEF Chained, NULL
<1>6. HeadHeld
  BY <1>2, <1>4 DEF HeadHeld, HeadOf, Headed
<1>7. Measured(heap, Len(heap), MaxAddr, Len(entries))
  BY <1>1, <1>2, <1>4 DEF Measured
<1> QED
  BY <1>4, <1>5, <1>6, <1>7 DEF ChainInv

LEMMA ChainNext ==
  ASSUME PlacementInv, ChainInv, [Next]_vars
  PROVE  ChainInv'
<1>0. /\ Entry = 1 .. Len(entries) /\ Len(entries) \in Nat /\ i \in Nat \ {0}
      /\ heap \in Seq(Node) /\ DOMAIN heap = 1 .. Len(heap)
  BY Sections, LenProperties DEF PlacementInv
<1>1. CASE PlaceStatic
  <2>1. PICK r \in RegionsAt(entries[i].origin) : Insert(i, r, entries[i].origin)
    BY <1>1 DEF PlaceStatic
  <2>2. i \in Entry /\ ~Dangling
    BY <1>0, <1>1 DEF PlaceStatic, AtStatic
  <2>3. r \in DOMAIN heap /\ entries[i].origin \in Nat
    BY <2>2, Sections DEF RegionsAt
  <2>4. \E k \in DOMAIN Regions : Regions[k] = r
    BY DEF RegionsAt, ToSet
  <2> QED
    BY <2>1, <2>2, <2>3, <2>4, InsertKeepsChain
<1>2. CASE PlaceMovable
  <2>1. PICK e \in Largest : \E r \in FirstFit(e) : Insert(e, r, heap[r].start)
    BY <1>2 DEF PlaceMovable
  <2>2. PICK r \in FirstFit(e) : Insert(e, r, heap[r].start)
    BY <2>1
  <2>3. e \in Entry /\ ~Dangling
    BY <1>2 DEF PlaceMovable, Largest, Movable
  <2>4. r \in DOMAIN heap /\ heap[r].start \in Nat
    <3>1. r \in 1 .. Len(heap)
      BY <1>0 DEF FirstFit
    <3>2. heap[r] \in Node
      BY <1>0, <3>1, ElementOfSeq
    <3> QED
      BY <1>0, <3>1, <3>2 DEF Node
  <2>5. \E k \in DOMAIN Regions : Regions[k] = r
    BY DEF FirstFit
  <2> QED
    BY <2>2, <2>3, <2>4, <2>5, InsertKeepsChain
<1>3. CASE ~(PlaceStatic \/ PlaceMovable)
  <2>1. UNCHANGED <<entries, heap, chain>>
    BY <1>3 DEF Next, vars, SkipMovable, StaticFails, Advance, MovableFails,
                MovablesPlaced, UseAfterFree, CollectSymbols, WriteImage, LinkSection,
                Ended, End
  <2> QED
    BY <2>1 DEF ChainInv, HeadHeld, Dangling
<1> QED
  BY <1>1, <1>2, <1>3

(* What the pointers keep, for every list of sections, while the linker    *)
(* runs and after (ld_region_insert).                                      *)
THEOREM ChainInvariant == Spec => []ChainInv
<1>1. PlacementInv /\ ChainInv /\ [Next]_vars => ChainInv'
  BY ChainNext
<1>2. Init => ChainInv
  BY ChainInit
<1> QED
  BY <1>1, <1>2, PlacementInvariant, PTL DEF Spec

(* Walking the chain goes up the memory without a gap and meets no freed   *)
(* node, unless its head itself was freed, whatever an insertion has cut   *)
(* off (insert_after, insert_before, ld_region_insert).                    *)
THEOREM ChainHasNoGap == Spec => []ChainContiguous
<1>1. PlacementInv /\ ChainInv => ChainContiguous
  <2> SUFFICES ASSUME PlacementInv, ChainInv, ~Dangling, NEW k \in DOMAIN Regions
               PROVE  /\ heap[Regions[k]].type # "freed"
                      /\ heap[Regions[k]].start = IF k = 1 THEN 0 ELSE Ends(Regions[k - 1])
    BY DEF ChainContiguous
  <2>1. Headed(heap, First) /\ Path(heap, First, Regions)
    BY Walked
  <2>2. k \in 1 .. Len(Regions)
    BY <2>1, LenProperties DEF Path
  <2>3. k = 1 => heap[Regions[k]].start = 0
    BY <2>1 DEF Path, Headed
  <2>4. k # 1 => heap[Regions[k]].start = Ends(Regions[k - 1])
    BY <2>1, <2>2 DEF Path, Follows, Ends
  <2> QED
    BY <2>1, <2>2, <2>3, <2>4 DEF Path
<1> QED
  BY <1>1, PlacementInvariant, ChainInvariant, PTL

-----------------------------------------------------------------------------
Phases == {"static", "movable", "symbols", "output", "link", "done", "failed", "undefined"}

Loops == phase \in Phases /\ i \in 1 .. Len(entries) + 1

LEMMA LoopsNext ==
  ASSUME PlacementInv, Loops, [Next]_vars
  PROVE  Loops'
<1>0. Len(entries) \in Nat /\ i \in Nat /\ i # 0 /\ i <= Len(entries) + 1
  BY Sections DEF Loops
<1>1. CASE SkipMovable \/ PlaceStatic
  <2>1. phase' = phase /\ entries' = entries /\ i' = i + 1 /\ i <= Len(entries)
    BY <1>1 DEF SkipMovable, PlaceStatic, AtStatic, Insert
  <2> QED
    BY <1>0, <2>1 DEF Loops
<1>2. CASE StaticFails \/ MovableFails \/ UseAfterFree
  <2>1. phase' \in {"failed", "undefined"} /\ entries' = entries /\ i' = i
    BY <1>2 DEF StaticFails, MovableFails, UseAfterFree, End
  <2> QED
    BY <1>0, <2>1 DEF Loops, Phases
<1>3. CASE PlaceMovable \/ UNCHANGED vars \/ Ended
  <2>1. phase' = phase /\ entries' = entries /\ i' = i
    BY <1>3 DEF PlaceMovable, Insert, vars, Ended
  <2> QED
    BY <2>1 DEF Loops
<1>4. CASE \/ Advance("static", "movable") \/ Advance("symbols", "output")
           \/ Advance("link", "done") \/ MovablesPlaced \/ WriteImage
  <2>1. /\ phase' \in {"movable", "output", "done", "symbols", "link"}
        /\ entries' = entries /\ i' = 1
    BY <1>4 DEF Advance, MovablesPlaced, WriteImage
  <2> QED
    BY <1>0, <2>1 DEF Loops, Phases
<1>5. CASE CollectSymbols \/ LinkSection
  <2>1. /\ entries' = entries /\ i <= Len(entries)
        /\ \/ phase' = phase /\ i' = i + 1
           \/ phase' \in {"failed", "undefined"} /\ i' = i
    BY <1>5 DEF CollectSymbols, LinkSection, End
  <2> QED
    BY <1>0, <2>1 DEF Loops, Phases
<1> QED
  BY <1>1, <1>2, <1>3, <1>4, <1>5 DEF Next

(* The linker keeps its types (struct ld_linker): no pointer leaves the    *)
(* nodes that were allocated, whatever is freed, and no region the memory. *)
THEOREM TypeCorrect == Spec => []TypeOK
<1>1. Init => Loops
  <2> SUFFICES ASSUME Init PROVE Loops
    OBVIOUS
  <2>1. Len(entries) \in Nat
    BY LinkerAssumption DEF Init
  <2> QED
    BY <2>1 DEF Init, Loops, Phases
<1>2. PlacementInv /\ Loops /\ [Next]_vars => Loops'
  BY LoopsNext
<1>3. PlacementInv /\ ChainInv /\ Loops => TypeOK
  <2> SUFFICES ASSUME PlacementInv, ChainInv, Loops PROVE TypeOK
    OBVIOUS
  <2> DEFINE S == Region(0 .. Len(entries), 0 .. MaxAddr)
  <2>1. /\ heap \in Seq(Node) /\ heap \in [1 .. Len(heap) -> Node] /\ Len(heap) \in Nat
        /\ DOMAIN heap = 1 .. Len(heap)
    BY LenProperties DEF PlacementInv
  <2>2. Len(entries) \in Nat /\ MaxAddr \in Nat
    BY Sections, LinkerAssumption
  <2>3. ASSUME NEW r \in 1 .. Len(heap) PROVE heap[r] \in S
    <3>1. heap[r] \in Node
      BY <2>1
    <3>2. heap[r].start <= MaxAddr /\ heap[r].size <= MaxAddr
          /\ heap[r].section <= Len(entries)
      BY DEF ChainInv, Measured
    <3>3. /\ heap[r].start \in 0 .. MaxAddr /\ heap[r].size \in 0 .. MaxAddr
          /\ heap[r].section \in 0 .. Len(entries)
          /\ heap[r].type \in {"free", "alloc", "freed"}
          /\ heap[r].next \in Nat /\ heap[r].prev \in Nat
      BY <2>2, <3>1, <3>2 DEF Node
    <3>4. heap[r] = [type |-> heap[r].type, start |-> heap[r].start, size |-> heap[r].size,
                     section |-> heap[r].section, next |-> heap[r].next,
                     prev |-> heap[r].prev]
      BY <3>1 DEF Node
    <3> QED
      BY <3>3, <3>4 DEF Region
  <2>4. heap \in Seq(S)
    <3> HIDE DEF S
    <3>1. heap \in [1 .. Len(heap) -> S]
      BY <2>1, <2>3
    <3> QED
      BY <2>1, <3>1, SeqDef
  <2>5. \A r \in DOMAIN heap : {heap[r].next, heap[r].prev} \subseteq 0 .. Len(heap)
    BY <2>1 DEF ChainInv, Chained
  <2> QED
    BY <2>1, <2>4, <2>5 DEF TypeOK, PlacementInv, ChainInv, Loops, Phases
<1> QED
  BY <1>1, <1>2, <1>3, PlacementInvariant, ChainInvariant, PTL DEF Spec

-----------------------------------------------------------------------------
(* Along a path the regions lie one behind the other.                      *)
LEMMA PathGoesUp ==
  ASSUME NEW h \in Seq(Node), NEW f, NEW w, Path(h, f, w), NEW j \in 1 .. Len(w)
  PROVE  \A k \in 1 .. Len(w) : j < k => h[w[j]].start + h[w[j]].size <= h[w[k]].start
<1> DEFINE T == {k \in Nat : /\ k \in 1 .. Len(w) /\ j < k
                             /\ ~(h[w[j]].start + h[w[j]].size <= h[w[k]].start)}
<1>1. Len(w) \in Nat /\ w \in Seq(1 .. Len(h))
  BY LenProperties DEF Path
<1>2. ASSUME NEW k \in 1 .. Len(w) PROVE h[w[k]].start \in Nat /\ h[w[k]].size \in Nat
  <2>1. w[k] \in 1 .. Len(h)
    BY <1>1, ElementOfSeq
  <2>2. h[w[k]] \in Node
    BY <2>1, ElementOfSeq
  <2> QED
    BY <2>2 DEF Node
<1>3. SUFFICES ASSUME T # {} PROVE FALSE
  BY <1>1
<1>4. PICK k \in T : \A m \in T : k <= m
  BY <1>3, LeastNat
<1>5. /\ k \in Nat /\ k \in 1 .. Len(w) /\ j < k
      /\ ~(h[w[j]].start + h[w[j]].size <= h[w[k]].start)
  OBVIOUS
<1>6. k # 1 /\ k - 1 \in Nat /\ k - 1 \in 1 .. Len(w) /\ k - 1 < k
  BY <1>1, <1>5
<1>7. h[w[k]].start = h[w[k - 1]].start + h[w[k - 1]].size
  BY <1>5, <1>6 DEF Path, Follows
<1>8. CASE j = k - 1
  <2>1. h[w[j]].start + h[w[j]].size \in Nat
    BY <1>2
  <2> QED
    BY <1>5, <1>7, <1>8, <2>1
<1>9. CASE j # k - 1
  <2>1. j < k - 1
    BY <1>1, <1>5, <1>9
  <2>2. h[w[j]].start + h[w[j]].size <= h[w[k - 1]].start
    BY <1>4, <1>6, <2>1
  <2>3. PICK a \in Nat, b \in Nat, c \in Nat, d \in Nat :
          /\ a = h[w[j]].start + h[w[j]].size /\ b = h[w[k - 1]].start
          /\ c = h[w[k - 1]].size /\ d = h[w[k]].start
    <3>1. h[w[j]].start + h[w[j]].size \in Nat
      BY <1>2
    <3> QED
      BY <1>2, <1>5, <1>6, <3>1
  <2>4. a <= b /\ d = b + c
    BY <1>7, <2>2, <2>3
  <2>5. a <= d
    BY <2>4
  <2> QED
    BY <1>5, <2>3, <2>5
<1> QED
  BY <1>8, <1>9

(* Every byte below the end of a region of the path is in one of them.     *)
LEMMA PathCovers ==
  ASSUME NEW h \in Seq(Node), NEW f, NEW w, Path(h, f, w), h[f].start = 0,
         NEW j \in 1 .. Len(w), NEW a \in Nat, a < h[w[j]].start + h[w[j]].size
  PROVE  \E k \in 1 .. Len(w) : h[w[k]].start <= a /\ a < h[w[k]].start + h[w[k]].size
<1> DEFINE T == {k \in Nat : k \in 1 .. Len(w) /\ a < h[w[k]].start + h[w[k]].size}
<1>1. Len(w) \in Nat /\ w \in Seq(1 .. Len(h))
  BY LenProperties DEF Path
<1>2. ASSUME NEW k \in 1 .. Len(w) PROVE h[w[k]].start \in Nat /\ h[w[k]].size \in Nat
  <2>1. w[k] \in 1 .. Len(h)
    BY <1>1, ElementOfSeq
  <2>2. h[w[k]] \in Node
    BY <2>1, ElementOfSeq
  <2> QED
    BY <2>2 DEF Node
<1>3. j \in T
  BY <1>1
<1>4. PICK k \in T : \A m \in T : k <= m
  BY <1>3, LeastNat
<1>5. k \in Nat /\ k \in 1 .. Len(w) /\ a < h[w[k]].start + h[w[k]].size
  OBVIOUS
<1>6. CASE k = 1
  <2>1. h[w[k]].start = 0
    BY <1>6 DEF Path
  <2> QED
    BY <1>5, <2>1
<1>7. CASE k # 1
  <2>1. k - 1 \in Nat /\ k - 1 \in 1 .. Len(w) /\ k - 1 < k
    BY <1>1, <1>5, <1>7
  <2>2. ~(a < h[w[k - 1]].start + h[w[k - 1]].size)
    BY <1>4, <2>1
  <2>3. h[w[k]].start = h[w[k - 1]].start + h[w[k - 1]].size
    BY <1>5, <1>7 DEF Path, Follows
  <2>4. h[w[k]].start \in Nat
    BY <1>2, <1>5
  <2>5. h[w[k]].start <= a
    BY <2>2, <2>3, <2>4
  <2> QED
    BY <1>5, <2>5
<1> QED
  BY <1>6, <1>7

(* The image has no byte that the linker did not write: the bytes below    *)
(* the end of the last section all lie in a region of the walk, and the    *)
(* last region is free only above them.                                    *)
LEMMA ImageClean ==
  ASSUME PlacementInv, ChainInv, ~Dangling, NEW a \in DOMAIN Image
  PROVE  Image[a] # Junk
<1> DEFINE w == Regions
           Around == {r \in ToSet(Regions) : heap[r].start <= a /\ a < Ends(r)}
           r == CHOOSE r \in Around : TRUE
<1>1. /\ heap \in Seq(Node) /\ Headed(heap, First) /\ Path(heap, First, w)
      /\ DOMAIN w = 1 .. Len(w) /\ Len(w) \in Nat /\ w \in Seq(1 .. Len(heap))
  <2>1. heap \in Seq(Node) /\ Headed(heap, First) /\ Path(heap, First, w)
    BY Walked DEF PlacementInv
  <2> QED
    BY <2>1, LenProperties DEF Path
<1>2. a \in 0 .. OutputSize - 1 /\
      Image[a] = IF Around = {} THEN Junk
                 ELSE IF heap[r].type = "alloc"
                        THEN Code(heap[r].section, a - heap[r].start)
                 ELSE IF Zeroed(r) THEN Zero ELSE Junk
  <2>1. a \in 0 .. OutputSize - 1
    BY DEF Image
  <2> QED
    BY <2>1 DEF Image
<1> HIDE DEF w
<1>3. Used # {}
  <2>1. SUFFICES ASSUME Used = {} PROVE FALSE
    OBVIOUS
  <2>2. OutputSize = 0
    BY <2>1 DEF OutputSize
  <2> QED
    BY <1>2, <2>2
<1>4. ASSUME NEW k \in 1 .. Len(w)
      PROVE  /\ w[k] \in 1 .. Len(heap) /\ w[k] \in ToSet(Regions)
             /\ heap[w[k]].start \in Nat /\ heap[w[k]].size \in Nat
             /\ heap[w[k]].type \in {"free", "alloc"}
  <2>1. w[k] \in 1 .. Len(heap)
    BY <1>1, ElementOfSeq
  <2>2. heap[w[k]] \in Node
    BY <1>1, <2>1, ElementOfSeq
  <2>3. heap[w[k]].type # "freed"
    BY <1>1 DEF Path
  <2>4. w[k] \in ToSet(Regions)
    BY <1>1 DEF ToSet, w
  <2> QED
    BY <2>1, <2>2, <2>3, <2>4 DEF Node
<1>5. PICK m \in 1 .. Len(w) : /\ heap[w[m]].type = "alloc"
                               /\ OutputSize = heap[w[m]].start + heap[w[m]].size
  <2>1. Used \subseteq 1 .. Len(w)
    BY <1>1 DEF Used, w
  <2>2. \E k \in Used : \A q \in Used : k >= q
    <3> DEFINE T == {Len(w) - k : k \in Used}
    <3>0. ASSUME NEW k \in Used PROVE Len(w) - k \in Nat
      <4>1. k \in 1 .. Len(w)
        BY <2>1
      <4> QED
        BY <1>1, <4>1
    <3>1. T \subseteq Nat /\ T # {}
      BY <1>3, <3>0
    <3>2. PICK t \in T : \A q \in T : t <= q
      BY <3>1, LeastNat
    <3>3. PICK k \in Used : t = Len(w) - k
      OBVIOUS
    <3>4. ASSUME NEW q \in Used PROVE k >= q
      <4>1. Len(w) - q \in T
        OBVIOUS
      <4>2. t <= Len(w) - q
        BY <3>2, <4>1
      <4> QED
        BY <1>1, <2>1, <3>3, <4>2
    <3> QED
      BY <3>4
  <2>3. Max(Used) \in Used
    BY <2>2 DEF Max
  <2>4. OutputSize = Ends(Regions[Max(Used)])
    BY <1>3 DEF OutputSize
  <2>5. heap[Regions[Max(Used)]].type = "alloc"
    BY <2>3 DEF Used
  <2> QED
    BY <2>1, <2>3, <2>4, <2>5 DEF Ends, w
<1>6. a \in Nat /\ a < heap[w[m]].start + heap[w[m]].size
  <2>1. heap[w[m]].start + heap[w[m]].size \in Nat
    BY <1>4
  <2> QED
    BY <1>2, <1>5, <2>1
<1>7. PICK k \in 1 .. Len(w) :
        heap[w[k]].start <= a /\ a < heap[w[k]].start + heap[w[k]].size
  BY <1>1, <1>6, PathCovers DEF Headed
<1>8. w[k] \in Around
  BY <1>4, <1>7 DEF Ends
<1>9. r \in Around
  BY <1>8
<1> HIDE DEF r
<1>10. PICK q \in 1 .. Len(w) : r = w[q]
  BY <1>1, <1>9 DEF ToSet, w
<1>11. CASE heap[r].type = "alloc"
  <2>1. Image[a] = Code(heap[r].section, a - heap[r].start)
    BY <1>2, <1>8, <1>11
  <2> QED
    BY <2>1 DEF Code, Junk
<1>12. CASE heap[r].type = "free"
  <2>1. r # Last(Regions)
    <3>1. SUFFICES ASSUME r = w[Len(w)] PROVE FALSE
      BY DEF Last, w
    <3>0. m # Len(w)
      BY <1>5, <1>12, <3>1
    <3>2. m < Len(w) /\ Len(w) \in 1 .. Len(w)
      <4>1. PICK l \in Nat : l = Len(w)
        BY <1>1
      <4>2. m \in 1 .. l /\ m # l
        BY <3>0, <4>1
      <4>3. m < l /\ l \in 1 .. l
        BY <4>2
      <4> QED
        BY <4>1, <4>3
    <3>3. heap[w[m]].start + heap[w[m]].size <= heap[r].start
      BY <1>1, <3>1, <3>2, PathGoesUp
    <3>4. heap[r].start <= a
      BY <1>9
    <3>5. heap[w[m]].start + heap[w[m]].size \in Nat /\ heap[r].start \in Nat
      BY <1>4, <1>10
    <3> QED
      BY <1>6, <3>3, <3>4, <3>5
  <2>2. Zeroed(r)
    BY <1>12, <2>1 DEF Zeroed
  <2>3. Image[a] = Zero
    BY <1>2, <1>8, <1>12, <2>2
  <2> QED
    BY <2>3 DEF Zero, Junk
<1> QED
  BY <1>4, <1>10, <1>11, <1>12

(* From the image on, no byte is memory of malloc.                         *)
OutputClean ==
  phase \in {"link", "done"} => \A a \in DOMAIN output : output[a] # Junk

LEMMA OutputCleanNext ==
  ASSUME PlacementInv, ChainInv, OutputClean, [Next]_vars
  PROVE  OutputClean'
<1>1. CASE WriteImage
  <2>1. output' = Image /\ ~Dangling
    BY <1>1 DEF WriteImage
  <2> QED
    BY <2>1, ImageClean DEF OutputClean
<1>2. CASE LinkSection
  <2>1. phase = "link"
    BY <1>2 DEF LinkSection
  <2>2. \A a \in DOMAIN output : output[a] # Junk
    BY <2>1 DEF OutputClean
  <2>3. CASE phase' \in {"failed", "undefined"}
    BY <2>3 DEF OutputClean
  <2>4. CASE phase' \notin {"failed", "undefined"}
    <3>0. output' = Patched(i)
      BY <1>2, <2>4 DEF LinkSection, End
    <3>1. \A a \in DOMAIN output' : \/ \E x : output'[a] = Low(x)
                                    \/ \E x : output'[a] = High(x)
                                    \/ a \in DOMAIN output /\ output'[a] = output[a]
      BY <3>0 DEF Patched
    <3>2. \A x : Low(x) # Junk /\ High(x) # Junk
      BY DEF Low, High, Junk
    <3> QED
      BY <2>2, <3>1, <3>2 DEF OutputClean
  <2> QED
    BY <2>3, <2>4
<1>3. CASE Advance("link", "done") \/ UNCHANGED vars \/ Ended
  <2>1. output' = output /\ (phase' = phase \/ phase = "link")
    BY <1>3 DEF Advance, vars, Ended
  <2> QED
    BY <2>1 DEF OutputClean
<1>4. CASE \/ SkipMovable \/ PlaceStatic \/ StaticFails \/ Advance("static", "movable")
           \/ PlaceMovable \/ MovableFails \/ MovablesPlaced \/ UseAfterFree
           \/ CollectSymbols \/ Advance("symbols", "output")
  <2>1. phase' \in {"static", "movable", "symbols", "output", "failed", "undefined"}
    BY <1>4 DEF SkipMovable, PlaceStatic, StaticFails, Advance, PlaceMovable,
                MovableFails, MovablesPlaced, UseAfterFree, CollectSymbols, AtStatic,
                AtMovable, Insert, End
  <2> QED
    BY <2>1 DEF OutputClean
<1> QED
  BY <1>1, <1>2, <1>3, <1>4 DEF Next

(* Nothing the linker did not write gets into the file, also when sections *)
(* were cut off the chain (copy_code_sections, zero_free_sections).        *)
THEOREM FileIsClean == Spec => []NoJunk
<1>1. Init => OutputClean
  BY DEF Init, OutputClean
<1>2. PlacementInv /\ ChainInv /\ OutputClean /\ [Next]_vars => OutputClean'
  BY OutputCleanNext
<1>3. OutputClean => NoJunk
  BY DEF OutputClean, NoJunk
<1> QED
  BY <1>1, <1>2, <1>3, PlacementInvariant, ChainInvariant, PTL DEF Spec

=============================================================================
