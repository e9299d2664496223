--------------------------- MODULE LinkerFileProofs ---------------------------
(***************************************************************************)
(* Theorems about the linker, for every list of sections whose insertions  *)
(* have nothing behind them to lose, that is, under WholeSpec: the chain   *)
(* keeps all regions, nothing undefined happens, the file has all the code *)
(* with the right addresses in it, and the placement is the one of         *)
(* LdPlacement.  A list never changes, so Spec keeps that for such lists.  *)
(***************************************************************************)
EXTENDS LinkerProofs

(* Every live region but the first one is the next of another; the walk    *)
(* goes up the memory, or on to a later node, or to a region that is not   *)
(* empty; and only the region at the top has no next.                      *)
Whole(h, n, f, top) ==
  \A r \in 1 .. n : h[r].type # "freed" =>
    /\ r # f => \E s \in 1 .. n : h[s].type # "freed" /\ h[s].next = r
    /\ h[r].next # NULL =>
         h[r].size # 0 \/ r < h[r].next \/ h[h[r].next].size # 0
    /\ h[r].next = NULL => h[r].start + h[r].size = top

(* The live regions of g, after region n + 1 was put into a free one of h: *)
(* one of the others, what is left before and behind it, and itself.       *)
Kept(h, g, n, into, r) ==
  /\ r \in 1 .. n /\ r # into
  /\ g[r].type = h[r].type /\ g[r].start = h[r].start /\ g[r].size = h[r].size
  /\ g[r].next = NULL <=> h[r].next = NULL

Ahead(h, g, n, into, r) ==
  /\ g[r].type = "free" /\ g[r].next # NULL /\ h[into].next = NULL
  /\ g[r].start = h[into].start /\ g[r].start + g[r].size = h[n + 1].start
  /\ g[r].size # 0

Back(h, g, n, into, r) ==
  /\ g[r].type = "free"
  /\ g[r].start = h[n + 1].start + h[n + 1].size
  /\ g[r].start + g[r].size = h[into].start + h[into].size
  /\ g[r].next = NULL <=> h[into].next = NULL

Itself(h, g, n, r) ==
  /\ r = n + 1 /\ g[r].type = "alloc"
  /\ g[r].start = h[r].start /\ g[r].size = h[r].size

Pieces(h, g, n, into) ==
  \A r \in 1 .. Len(g) : g[r].type # "freed" =>
    \/ Kept(h, g, n, into, r) \/ Ahead(h, g, n, into, r)
    \/ Back(h, g, n, into, r) \/ Itself(h, g, n, r)

(* The fields of nodes are numbers.                                        *)
LEMMA Numbers ==
  ASSUME NEW h \in Seq(Node), NEW r \in 1 .. Len(h)
  PROVE  /\ h[r].start \in Nat /\ h[r].size \in Nat /\ h[r].next \in Nat
         /\ h[r].prev \in Nat /\ h[r].type \in {"free", "alloc", "freed"}
<1>1. h[r] \in Node
  BY ElementOfSeq
<1> QED
  BY <1>1 DEF Node

(* The new region behind what is left of the last one.                     *)
LEMMA WholeAtEnd ==
  ASSUME NEW n \in Nat, NEW h, Fresh(h, n), Chained(h, n),
         NEW into \in 1 .. n, h[into].type = "free", h[into].next = NULL,
         NEW f \in 1 .. n, NEW top, Whole(h, n, f, top),
         NEW before \in Nat, before # 0, NEW g, CutFromEnd(h, g, into, n + 1, before),
         h[into].size = before + h[n + 1].size, h[n + 1].start = h[into].start + before
  PROVE  Whole(g, n + 1, f, top) /\ Pieces(h, g, n, into)
<1>1. PICK rg \in Nat : rg = n + 1
  OBVIOUS
<1>2. /\ into \in 1 .. rg /\ rg \in 1 .. rg /\ into # rg /\ Len(h) = rg /\ h \in Seq(Node)
      /\ h[rg].type = "alloc" /\ h[rg].next = NULL
      /\ into # NULL /\ rg # NULL
  BY <1>1 DEF Fresh, NULL
<1>3. Len(g) = rg /\ \A r \in 1 .. rg :
        /\ g[r].type = h[r].type /\ g[r].start = h[r].start
        /\ g[r].size = IF r = into THEN before ELSE h[r].size
        /\ g[r].next = IF r = into THEN rg ELSE h[r].next
  BY <1>1, <1>2 DEF CutFromEnd
<1>4. /\ h[into].start \in Nat /\ h[into].size \in Nat
      /\ h[rg].start \in Nat /\ h[rg].size \in Nat
  BY <1>2, Numbers
<1>5. /\ h[into].size = before + h[rg].size /\ h[rg].start = h[into].start + before
      /\ h[rg].start + h[rg].size = h[into].start + h[into].size
  BY <1>1, <1>4
<1>6. ASSUME NEW r \in 1 .. rg, g[r].type # "freed"
      PROVE  /\ r # f => \E s \in 1 .. rg : g[s].type # "freed" /\ g[s].next = r
             /\ g[r].next # NULL =>
                  g[r].size # 0 \/ r < g[r].next \/ g[g[r].next].size # 0
             /\ g[r].next = NULL => g[r].start + g[r].size = top
  <2>1. CASE r = rg
    <3>1. g[into].type # "freed" /\ g[into].next = r
      BY <1>2, <1>3, <2>1
    <3>2. g[r].next = NULL /\ g[r].start = h[rg].start /\ g[r].size = h[rg].size
      BY <1>2, <1>3, <2>1
    <3>3. h[into].start + h[into].size = top
      BY <1>2 DEF Whole
    <3> QED
      BY <1>2, <1>5, <3>1, <3>2, <3>3
  <2>2. CASE r # rg
    <3>1. r \in 1 .. n /\ h[r].type # "freed"
      BY <1>1, <1>3, <1>6, <2>2
    <3>2. /\ r # f => \E s \in 1 .. n : h[s].type # "freed" /\ h[s].next = r
          /\ h[r].next # NULL =>
               h[r].size # 0 \/ r < h[r].next \/ h[h[r].next].size # 0
          /\ h[r].next = NULL => h[r].start + h[r].size = top
      BY <3>1 DEF Whole
    <3>3. ASSUME r # f PROVE \E s \in 1 .. rg : g[s].type # "freed" /\ g[s].next = r
      <4>1. PICK s \in 1 .. n : h[s].type # "freed" /\ h[s].next = r
        BY <3>2, <3>3
      <4>2. s \in 1 .. rg /\ s # into
        BY <1>1, <3>1, <4>1 DEF NULL
      <4> QED
        BY <1>3, <4>1, <4>2
    <3>4. CASE r = into
      BY <1>2, <1>3, <3>3, <3>4
    <3>5. CASE r # into
      <4>1. g[r].next = h[r].next /\ g[r].start = h[r].start /\ g[r].size = h[r].size
        BY <1>3, <3>5
      <4>2. PICK t : t = h[r].next
        OBVIOUS
      <4>3. t # NULL => t \in 1 .. n /\ t \in 1 .. rg
        BY <1>1, <3>1, <4>2 DEF Chained, NULL
      <4>4. t # NULL /\ h[t].size # 0 => g[t].size # 0
        BY <1>3, <4>3
      <4> QED
        BY <3>2, <3>3, <4>1, <4>2, <4>4
    <3> QED
      BY <3>4, <3>5
  <2> QED
    BY <2>1, <2>2
<1>7. ASSUME NEW r \in 1 .. rg, g[r].type # "freed"
      PROVE  \/ Kept(h, g, n, into, r) \/ Ahead(h, g, n, into, r) \/ Itself(h, g, n, r)
  <2>1. CASE r = rg
    BY <1>1, <1>2, <1>3, <2>1 DEF Itself
  <2>2. CASE r = into
    <3>1. /\ g[r].type = "free" /\ g[r].next # NULL /\ g[r].start = h[into].start
          /\ g[r].size = before
      BY <1>2, <1>3, <2>2
    <3> QED
      BY <1>1, <1>5, <3>1 DEF Ahead
  <2>3. CASE r # rg /\ r # into
    BY <1>1, <1>3, <2>3 DEF Kept
  <2> QED
    BY <2>1, <2>2, <2>3
<1> QED
  BY <1>1, <1>3, <1>6, <1>7 DEF Whole, Pieces

(* The new region in the middle of the last one.                           *)
LEMMA WholeMiddle ==
  ASSUME NEW n \in Nat, NEW h, Fresh(h, n), Chained(h, n),
         NEW into \in 1 .. n, h[into].type = "free", h[into].next = NULL,
         NEW f \in 1 .. n, NEW top, Whole(h, n, f, top),
         NEW before \in Nat, before # 0, NEW after \in Nat, after # 0,
         NEW g, SplitInTwo(h, g, into, n + 1, before, after),
         h[into].size = before + h[n + 1].size + after,
         h[n + 1].start = h[into].start + before
  PROVE  Whole(g, n + 2, f, top) /\ Pieces(h, g, n, into)
<1>1. PICK rg \in Nat, m \in Nat : rg = n + 1 /\ m = rg + 1 /\ m = n + 2
  OBVIOUS
<1>2. /\ into \in 1 .. rg /\ rg \in 1 .. rg /\ into # rg /\ Len(h) = rg /\ h \in Seq(Node)
      /\ h[rg].type = "alloc" /\ h[rg].next = NULL
      /\ into # NULL /\ rg # NULL /\ m # NULL
  BY <1>1 DEF Fresh, NULL
<1>3. Len(g) = m /\ \A r \in 1 .. rg :
        /\ g[r].type = h[r].type /\ g[r].start = h[r].start
        /\ g[r].size = IF r = into THEN before ELSE h[r].size
        /\ g[r].next = IF r = rg THEN m ELSE IF r = into THEN rg ELSE h[r].next
  <2>1. SplitInTwo(h, g, into, rg, before, after)
    BY <1>1
  <2>2. /\ Len(g) = Len(h) + 1
        /\ \A r \in 1 .. Len(h) :
             /\ g[r].type = h[r].type /\ g[r].start = h[r].start
             /\ g[r].size = IF r = into THEN before ELSE h[r].size
             /\ g[r].next = IF r = rg THEN Len(h) + 1
                             ELSE IF r = into THEN rg ELSE h[r].next
    BY <2>1 DEF SplitInTwo
  <2>3. Len(h) = rg /\ Len(h) + 1 = m
    BY <1>1, <1>2
  <2> QED
    BY <2>2, <2>3
<1>4. /\ g[m].type = "free" /\ g[m].start = h[rg].start + h[rg].size
      /\ g[m].size = after /\ g[m].next = NULL
  <2>1. SplitInTwo(h, g, into, rg, before, after)
    BY <1>1
  <2>2. Len(h) + 1 = m
    BY <1>1, <1>2
  <2> QED
    BY <2>1, <2>2 DEF SplitInTwo
<1>5. /\ h[into].start \in Nat /\ h[into].size \in Nat
      /\ h[rg].start \in Nat /\ h[rg].size \in Nat
  BY <1>2, Numbers
<1>6. /\ h[rg].start = h[into].start + before
      /\ h[rg].start + h[rg].size + after = h[into].start + h[into].size
  BY <1>1, <1>5
<1>7. h[into].start + h[into].size = top
  BY <1>2 DEF Whole
<1>8. ASSUME NEW r \in 1 .. m, g[r].type # "freed"
      PROVE  /\ r # f => \E s \in 1 .. m : g[s].type # "freed" /\ g[s].next = r
             /\ g[r].next # NULL =>
                  g[r].size # 0 \/ r < g[r].next \/ g[g[r].next].size # 0
             /\ g[r].next = NULL => g[r].start + g[r].size = top
  <2>1. CASE r = m
    <3>1. rg \in 1 .. m /\ g[rg].type # "freed" /\ g[rg].next = r
      BY <1>1, <1>2, <1>3, <2>1
    <3> QED
      BY <1>4, <1>6, <1>7, <2>1, <3>1
  <2>2. CASE r = rg
    <3>1. into \in 1 .. m /\ g[into].type # "freed" /\ g[into].next = r
      BY <1>1, <1>2, <1>3, <2>2
    <3>2. g[r].next = m /\ g[m].size # 0
      BY <1>2, <1>3, <1>4, <2>2
    <3> QED
      BY <1>2, <3>1, <3>2
  <2>3. CASE r # rg /\ r # m
    <3>1. r \in 1 .. n /\ h[r].type # "freed"
      BY <1>1, <1>3, <1>8, <2>3
    <3>2. /\ r # f => \E s \in 1 .. n : h[s].type # "freed" /\ h[s].next = r
          /\ h[r].next # NULL =>
               h[r].size # 0 \/ r < h[r].next \/ h[h[r].next].size # 0
          /\ h[r].next = NULL => h[r].start + h[r].size = top
      BY <3>1 DEF Whole
    <3>3. ASSUME r # f PROVE \E s \in 1 .. m : g[s].type # "freed" /\ g[s].next = r
      <4>1. PICK s \in 1 .. n : h[s].type # "freed" /\ h[s].next = r
        BY <3>2, <3>3
      <4>2. s \in 1 .. rg /\ s \in 1 .. m /\ s # into /\ s # rg
        BY <1>1, <3>1, <4>1 DEF NULL
      <4> QED
        BY <1>3, <4>1, <4>2
    <3>4. CASE r = into
      <4>1. g[r].next = rg /\ g[r].size = before
        BY <1>2, <1>3, <3>4
      <4> QED
        BY <1>2, <3>3, <4>1
    <3>5. CASE r # into
      <4>1. g[r].next = h[r].next /\ g[r].start = h[r].start /\ g[r].size = h[r].size
        BY <1>1, <1>3, <2>3, <3>1, <3>5
      <4>2. PICK t : t = h[r].next
        OBVIOUS
      <4>3. t # NULL => t \in 1 .. n /\ t \in 1 .. rg
        BY <1>1, <3>1, <4>2 DEF Chained, NULL
      <4>4. t # NULL /\ h[t].size # 0 => g[t].size # 0
        BY <1>3, <4>3
      <4> QED
        BY <3>2, <3>3, <4>1, <4>2, <4>4
    <3> QED
      BY <3>4, <3>5
  <2> QED
    BY <2>1, <2>2, <2>3
<1>9. ASSUME NEW r \in 1 .. m, g[r].type # "freed"
      PROVE  \/ Kept(h, g, n, into, r) \/ Ahead(h, g, n, into, r)
             \/ Back(h, g, n, into, r) \/ Itself(h, g, n, r)
  <2>1. CASE r = rg
    BY <1>1, <1>2, <1>3, <2>1 DEF Itself
  <2>2. CASE r = into
    <3>1. /\ g[r].type = "free" /\ g[r].next # NULL /\ g[r].start = h[into].start
          /\ g[r].size = before
      BY <1>2, <1>3, <2>2
    <3> QED
      BY <1>1, <1>6, <3>1 DEF Ahead
  <2>3. CASE r = m
    <3>1. g[r].start = h[n + 1].start + h[n + 1].size /\ g[r].size = after
      BY <1>1, <1>4, <2>3
    <3>2. g[r].start + g[r].size = h[into].start + h[into].size
      BY <1>1, <1>6, <3>1
    <3> QED
      BY <1>4, <2>3, <3>1, <3>2 DEF Back
  <2>4. CASE r # rg /\ r # into /\ r # m
    <3>1. r \in 1 .. n /\ r \in 1 .. rg
      BY <1>1, <2>4
    <3> QED
      BY <1>3, <2>4, <3>1 DEF Kept
  <2> QED
    BY <2>1, <2>2, <2>3, <2>4
<1>10. Whole(g, n + 2, f, top)
  BY <1>1, <1>8 DEF Whole
<1> QED
  BY <1>1, <1>3, <1>9, <1>10 DEF Pieces

(* Only the first region has none before it.                               *)
LEMMA BeforeFree ==
  ASSUME NEW n \in Nat, NEW h, Fresh(h, n), Chained(h, n),
         NEW into \in 1 .. n, h[into].type = "free", Backed(h, into),
         NEW f \in 1 .. n, Headed(h, f), NEW top, Whole(h, n, f, top)
  PROVE  /\ into = f => h[into].prev = NULL
         /\ into # f => /\ h[into].prev \in 1 .. n /\ h[into].prev # into
                        /\ h[h[into].prev].type # "freed"
                        /\ h[h[into].prev].next = into
<1>1. Unique(h, n, into)
  BY Neighbours
<1>2. CASE into = f
  BY <1>2 DEF Headed
<1>3. CASE into # f
  <2>1. PICK s \in 1 .. n : h[s].type # "freed" /\ h[s].next = into
    BY <1>3 DEF Whole
  <2>2. h[into].prev = s /\ s # into
    BY <1>1, <2>1 DEF Unique
  <2> QED
    BY <1>3, <2>1, <2>2
<1> QED
  BY <1>2, <1>3

(* The new region before what is left of the free one.                     *)
LEMMA WholeAtStart ==
  ASSUME NEW n \in Nat, NEW h, Fresh(h, n), Chained(h, n),
         NEW into \in 1 .. n, h[into].type = "free", Backed(h, into),
         NEW f \in 1 .. n, Headed(h, f), NEW top, Whole(h, n, f, top),
         NEW size \in Nat, size # 0, NEW g, CutFromStart(h, g, into, n + 1, size),
         h[into].size = h[n + 1].size + size, h[n + 1].start = h[into].start
  PROVE  Whole(g, n + 1, HeadOf(g, f), top) /\ Pieces(h, g, n, into)
<1>1. PICK rg \in Nat : rg = n + 1
  OBVIOUS
<1>2. /\ into \in 1 .. rg /\ rg \in 1 .. rg /\ into # rg /\ Len(h) = rg /\ h \in Seq(Node)
      /\ h[rg].type = "alloc" /\ h[rg].next = NULL
      /\ into # NULL /\ rg # NULL /\ f \in 1 .. rg
  BY <1>1 DEF Fresh, NULL
<1>3. Len(g) = rg /\ \A r \in 1 .. rg :
        /\ g[r].type = h[r].type
        /\ g[r].start = IF r = into THEN h[into].start + h[rg].size ELSE h[r].start
        /\ g[r].size = IF r = into THEN size ELSE h[r].size
        /\ g[r].next = IF r = h[into].prev THEN rg
                       ELSE IF r = rg THEN into ELSE h[r].next
        /\ g[r].prev = IF r = into THEN rg ELSE h[r].prev
  BY <1>1, <1>2 DEF CutFromStart
<1>4. /\ h[into].start \in Nat /\ h[into].size \in Nat
      /\ h[rg].start \in Nat /\ h[rg].size \in Nat
  BY <1>2, Numbers
<1>5. /\ h[rg].start = h[into].start
      /\ h[into].start + h[rg].size + size = h[into].start + h[into].size
  BY <1>1, <1>4
<1>6. PICK p : p = h[into].prev
  OBVIOUS
<1>7. /\ into = f => p = NULL
      /\ into # f => p \in 1 .. n /\ p # into /\ h[p].type # "freed" /\ h[p].next = into
  BY <1>6, BeforeFree
<1>8. p # into /\ p # rg
  BY <1>1, <1>2, <1>7
<1>9. HeadOf(g, f) = IF into = f THEN rg ELSE f
  <2>1. h[f].prev = NULL
    BY DEF Headed
  <2> QED
    BY <1>2, <1>3, <2>1 DEF HeadOf
<1>10. g[rg].next = into /\ g[into].next = h[into].next
  BY <1>2, <1>3, <1>6, <1>8
<1>11. ASSUME NEW r \in 1 .. rg, g[r].type # "freed"
       PROVE  /\ r # HeadOf(g, f) => \E s \in 1 .. rg : g[s].type # "freed" /\ g[s].next = r
              /\ g[r].next # NULL =>
                   g[r].size # 0 \/ r < g[r].next \/ g[g[r].next].size # 0
              /\ g[r].next = NULL => g[r].start + g[r].size = top
  <2>1. CASE r = rg
    <3>1. ASSUME r # HeadOf(g, f)
          PROVE  \E s \in 1 .. rg : g[s].type # "freed" /\ g[s].next = r
      <4>1. into # f
        BY <1>9, <2>1, <3>1
      <4>2. p \in 1 .. rg /\ g[p].type # "freed" /\ g[p].next = rg
        BY <1>1, <1>3, <1>6, <1>7, <4>1
      <4> QED
        BY <2>1, <4>2
    <3>2. g[into].size # 0
      BY <1>2, <1>3
    <3> QED
      BY <1>2, <1>10, <2>1, <3>1, <3>2
  <2>2. CASE r = into
    <3>1. g[rg].type # "freed" /\ g[rg].next = r
      BY <1>2, <1>3, <1>10, <2>2
    <3>2. g[r].size = size /\ g[r].start = h[into].start + h[rg].size
      BY <1>2, <1>3, <2>2
    <3>3. h[into].next = NULL => h[into].start + h[into].size = top
      BY <1>2 DEF Whole
    <3> QED
      BY <1>2, <1>4, <1>5, <1>10, <2>2, <3>1, <3>2, <3>3
  <2>3. CASE r # rg /\ r # into
    <3>1. r \in 1 .. n /\ h[r].type # "freed"
      BY <1>1, <1>3, <1>11, <2>3
    <3>2. /\ r # f => \E s \in 1 .. n : h[s].type # "freed" /\ h[s].next = r
          /\ h[r].next # NULL =>
               h[r].size # 0 \/ r < h[r].next \/ h[h[r].next].size # 0
          /\ h[r].next = NULL => h[r].start + h[r].size = top
      BY <3>1 DEF Whole
    <3>3. ASSUME r # HeadOf(g, f)
          PROVE  \E s \in 1 .. rg : g[s].type # "freed" /\ g[s].next = r
      <4>0. r # f
        BY <1>9, <2>3, <3>3
      <4>1. PICK s \in 1 .. n : h[s].type # "freed" /\ h[s].next = r
        BY <3>2, <4>0
      <4>2. s \in 1 .. rg /\ s # rg /\ s # p
        BY <1>1, <1>7, <2>3, <4>1 DEF NULL
      <4> QED
        BY <1>3, <1>6, <4>1, <4>2
    <3>4. g[r].start = h[r].start /\ g[r].size = h[r].size
      BY <1>3, <2>3
    <3>5. CASE r = p
      <4>1. g[r].next = rg /\ r < rg
        BY <1>1, <1>3, <1>6, <3>1, <3>5
      <4> QED
        BY <1>2, <3>3, <4>1
    <3>6. CASE r # p
      <4>1. g[r].next = h[r].next
        BY <1>3, <1>6, <2>3, <3>6
      <4>2. PICK t : t = h[r].next
        OBVIOUS
      <4>3. t # NULL => t \in 1 .. n /\ t \in 1 .. rg
        BY <1>1, <3>1, <4>2 DEF Chained, NULL
      <4>4. t # NULL /\ h[t].size # 0 => g[t].size # 0
        BY <1>3, <4>3
      <4> QED
        BY <3>2, <3>3, <3>4, <4>1, <4>2, <4>4
    <3> QED
      BY <3>5, <3>6
  <2> QED
    BY <2>1, <2>2, <2>3
<1>12. ASSUME NEW r \in 1 .. rg, g[r].type # "freed"
       PROVE  \/ Kept(h, g, n, into, r) \/ Back(h, g, n, into, r) \/ Itself(h, g, n, r)
  <2>1. CASE r = rg
    BY <1>1, <1>2, <1>3, <2>1 DEF Itself
  <2>2. CASE r = into
    <3>1. g[r].start = h[n + 1].start + h[n + 1].size /\ g[r].size = size
      BY <1>1, <1>2, <1>3, <1>5, <2>2
    <3>2. g[r].start + g[r].size = h[into].start + h[into].size
      BY <1>1, <1>4, <1>5, <3>1
    <3>3. g[r].type = "free"
      BY <1>2, <1>3, <2>2
    <3> QED
      BY <1>10, <2>2, <3>1, <3>2, <3>3 DEF Back
  <2>3. CASE r # rg /\ r # into
    <3>1. r \in 1 .. n
      BY <1>1, <2>3
    <3>2. r = p => h[r].next # NULL /\ g[r].next # NULL
      BY <1>2, <1>3, <1>6, <1>7, <2>3 DEF NULL
    <3>3. r # p => g[r].next = h[r].next
      BY <1>3, <1>6, <2>3
    <3> QED
      BY <1>3, <2>3, <3>1, <3>2, <3>3 DEF Kept
  <2> QED
    BY <2>1, <2>2, <2>3
<1> QED
  BY <1>1, <1>3, <1>11, <1>12 DEF Whole, Pieces

(* The new region in the place of the last one, which is not the first.    *)
LEMMA WholeReplaced ==
  ASSUME NEW n \in Nat, NEW h, Fresh(h, n), Chained(h, n),
         NEW into \in 1 .. n, h[into].type = "free", h[into].next = NULL,
         Backed(h, into), NEW f \in 1 .. n, into # f, Headed(h, f),
         NEW top, Whole(h, n, f, top), NEW g, Replaced(h, g, into, n + 1),
         h[into].size = h[n + 1].size, h[n + 1].start = h[into].start
  PROVE  /\ Whole(g, n + 1, HeadOf(g, f), top) /\ Pieces(h, g, n, into)
         /\ g[f].type # "freed"
<1>1. PICK rg \in Nat : rg = n + 1
  OBVIOUS
<1>2. /\ into \in 1 .. rg /\ rg \in 1 .. rg /\ into # rg /\ Len(h) = rg /\ h \in Seq(Node)
      /\ h[rg].type = "alloc" /\ h[rg].next = NULL
      /\ into # NULL /\ rg # NULL /\ f \in 1 .. rg /\ f # rg
  BY <1>1 DEF Fresh, NULL
<1>3. PICK p : p = h[into].prev
  OBVIOUS
<1>4. p \in 1 .. n /\ p # into /\ h[p].type # "freed" /\ h[p].next = into /\ p # rg
      /\ p \in 1 .. rg
  BY <1>1, <1>3, BeforeFree
<1>5. Len(g) = rg /\ \A r \in 1 .. rg :
        /\ g[r].type = IF r = into THEN "freed" ELSE h[r].type
        /\ g[r].start = h[r].start /\ g[r].size = h[r].size
        /\ g[r].next = IF r = into THEN NULL ELSE IF r = p THEN rg ELSE h[r].next
        /\ g[r].prev = IF r = into THEN NULL
                       ELSE IF r = h[into].next THEN rg ELSE h[r].prev
  BY <1>1, <1>2, <1>3 DEF Replaced
<1>6. HeadOf(g, f) = f /\ g[f].type # "freed"
  <2>1. h[f].prev = NULL /\ h[f].type # "freed" /\ f # NULL
    BY <1>1 DEF Headed, NULL
  <2>2. g[f].prev = NULL
    BY <1>2, <1>5, <2>1
  <2> QED
    BY <1>2, <1>5, <2>1, <2>2 DEF HeadOf
<1>7. h[into].start + h[into].size = top
  BY <1>2 DEF Whole
<1>8. ASSUME NEW r \in 1 .. rg, g[r].type # "freed"
      PROVE  /\ r # f => \E s \in 1 .. rg : g[s].type # "freed" /\ g[s].next = r
             /\ g[r].next # NULL =>
                  g[r].size # 0 \/ r < g[r].next \/ g[g[r].next].size # 0
             /\ g[r].next = NULL => g[r].start + g[r].size = top
  <2>0. r # into
    BY <1>5, <1>8
  <2>1. CASE r = rg
    <3>1. g[p].type # "freed" /\ g[p].next = r
      BY <1>4, <1>5, <2>1
    <3>2. g[r].next = NULL /\ g[r].start = h[into].start /\ g[r].size = h[into].size
      BY <1>1, <1>2, <1>4, <1>5, <2>1
    <3> QED
      BY <1>4, <1>7, <3>1, <3>2
  <2>2. CASE r # rg
    <3>1. r \in 1 .. n /\ h[r].type # "freed"
      BY <1>1, <1>5, <1>8, <2>0, <2>2
    <3>2. /\ r # f => \E s \in 1 .. n : h[s].type # "freed" /\ h[s].next = r
          /\ h[r].next # NULL =>
               h[r].size # 0 \/ r < h[r].next \/ h[h[r].next].size # 0
          /\ h[r].next = NULL => h[r].start + h[r].size = top
      BY <3>1 DEF Whole
    <3>3. ASSUME r # f PROVE \E s \in 1 .. rg : g[s].type # "freed" /\ g[s].next = r
      <4>1. PICK s \in 1 .. n : h[s].type # "freed" /\ h[s].next = r
        BY <3>2, <3>3
      <4>2. s \in 1 .. rg /\ s # into /\ s # p
        BY <1>1, <1>4, <2>0, <3>1, <4>1 DEF NULL
      <4> QED
        BY <1>5, <4>1, <4>2
    <3>4. g[r].start = h[r].start /\ g[r].size = h[r].size
      BY <1>5
    <3>5. CASE r = p
      <4>1. g[r].next = rg /\ r < rg
        BY <1>1, <1>5, <2>0, <3>1, <3>5
      <4> QED
        BY <1>2, <3>3, <4>1
    <3>6. CASE r # p
      <4>1. g[r].next = h[r].next
        BY <1>5, <2>0, <3>6
      <4>2. PICK t : t = h[r].next
        OBVIOUS
      <4>3. t # NULL => t \in 1 .. n /\ t \in 1 .. rg
        BY <1>1, <3>1, <4>2 DEF Chained, NULL
      <4>4. t # NULL => g[t].size = h[t].size
        BY <1>5, <4>3
      <4> QED
        BY <3>2, <3>3, <3>4, <4>1, <4>2, <4>4
    <3> QED
      BY <3>5, <3>6
  <2> QED
    BY <2>1, <2>2
<1>9. ASSUME NEW r \in 1 .. rg, g[r].type # "freed"
      PROVE  Kept(h, g, n, into, r) \/ Itself(h, g, n, r)
  <2>0. r # into
    BY <1>5, <1>9
  <2>1. CASE r = rg
    BY <1>1, <1>2, <1>5, <2>1 DEF Itself
  <2>2. CASE r # rg
    <3>1. r \in 1 .. n
      BY <1>1, <2>2
    <3>2. r = p => h[r].next # NULL /\ g[r].next # NULL
      BY <1>2, <1>4, <1>5
    <3>3. r # p => g[r].next = h[r].next
      BY <1>5, <2>0
    <3> QED
      BY <1>5, <2>0, <3>1, <3>2, <3>3 DEF Kept
  <2> QED
    BY <2>1, <2>2
<1> QED
  BY <1>1, <1>5, <1>6, <1>8, <1>9 DEF Whole, Pieces

(* ld_region_insert keeps the chain whole when the free region is the last *)
(* of the chain, or the new one goes to its start and leaves some of it.   *)
LEMMA RegionInsertWhole ==
  ASSUME NEW n \in Nat, NEW h, Fresh(h, n), Chained(h, n),
         NEW into \in 1 .. n, CanInsert(h, into, n + 1), Backed(h, into),
         NEW f \in 1 .. n, Headed(h, f), NEW top, Whole(h, n, f, top),
         \/ h[into].next = NULL
         \/ h[n + 1].start = h[into].start /\ h[n + 1].size < h[into].size,
         into # f \/ h[n + 1].size < h[into].size,
         NEW g, g = RegionInsert(h, into, n + 1)
  PROVE  /\ Whole(g, Len(g), HeadOf(g, f), top) /\ Pieces(h, g, n, into)
         /\ g[f].type # "freed"
<1>1. PICK rg \in Nat : rg = n + 1
  OBVIOUS
<1>2. /\ into \in 1 .. Len(h) /\ rg \in 1 .. Len(h) /\ into # rg
      /\ h \in Seq(Node) /\ Len(h) = rg /\ CanInsert(h, into, rg) /\ h[rg].next = NULL
  BY <1>1 DEF Fresh
<1>3. PICK before \in Nat, after \in Nat :
        /\ before = h[rg].start - h[into].start
        /\ after = h[into].size - (before + h[rg].size)
  BY <1>2, Room
<1>4. /\ h[into].type = "free" /\ h[into].start \in Nat /\ h[into].size \in Nat
      /\ h[rg].start \in Nat /\ h[rg].size \in Nat
  BY <1>2, Room
<1>5. /\ h[rg].start = h[into].start + before
      /\ h[into].size = before + h[rg].size + after
  BY <1>3, <1>4
<1>6. before # 0 \/ after = 0 => h[into].next = NULL
  <2>1. h[rg].start = h[into].start /\ h[rg].size < h[into].size => before = 0 /\ after # 0
    BY <1>4, <1>5
  <2> QED
    BY <1>1, <2>1
<1>7. f \in 1 .. rg /\ h[f].prev = NULL /\ h[f].type # "freed" /\ h[rg].type = "alloc"
  BY <1>1 DEF Headed, Fresh
<1>8. CASE before # 0 /\ after # 0
  <2>1. g = InsertMiddle(h, into, rg, after)
    BY <1>1, <1>3, <1>8 DEF RegionInsert
  <2>2. h[into].size - (h[rg].size + after) = before
    BY <1>4, <1>5
  <2>3. SplitInTwo(h, g, into, rg, before, after)
    BY <1>2, <2>1, <2>2, InsertMiddleIs
  <2>4. Len(g) = n + 2
    BY <1>1, <1>2, <2>3 DEF SplitInTwo
  <2>5. Whole(g, n + 2, f, top) /\ Pieces(h, g, n, into)
    BY <1>1, <1>4, <1>5, <1>6, <1>8, <2>3, WholeMiddle
  <2>6. g[f].type # "freed" /\ HeadOf(g, f) = f
    <3>1. Chained(g, n + 2) /\ Headed(g, f)
      BY <1>1, <1>4, <1>5, <1>8, <2>1, <2>2, ChainMiddle
    <3> QED
      BY <3>1 DEF Headed, HeadOf
  <2> QED
    BY <2>4, <2>5, <2>6
<1>9. CASE before # 0 /\ after = 0
  <2>1. g = InsertAtEnd(h, into, rg)
    BY <1>1, <1>3, <1>9 DEF RegionInsert
  <2>2. h[into].size - h[rg].size = before /\ h[into].size = before + h[rg].size
    BY <1>4, <1>5, <1>9
  <2>3. CutFromEnd(h, g, into, rg, before)
    BY <1>2, <2>1, <2>2, InsertAtEndIs
  <2>4. Len(g) = n + 1
    BY <1>1, <1>2, <2>3 DEF CutFromEnd
  <2>5. Whole(g, n + 1, f, top) /\ Pieces(h, g, n, into)
    BY <1>1, <1>4, <1>5, <1>6, <1>9, <2>2, <2>3, WholeAtEnd
  <2>6. g[f].type # "freed" /\ HeadOf(g, f) = f
    <3>1. Chained(g, n + 1) /\ Headed(g, f)
      BY <1>1, <1>4, <1>5, <1>9, <2>1, <2>2, ChainAtEnd
    <3> QED
      BY <3>1 DEF Headed, HeadOf
  <2> QED
    BY <2>4, <2>5, <2>6
<1>10. CASE before = 0 /\ after # 0
  <2>1. g = InsertAtStart(h, into, rg)
    BY <1>1, <1>3, <1>10 DEF RegionInsert
  <2>2. /\ h[into].size - h[rg].size = after /\ h[rg].start = h[into].start
        /\ h[into].size = h[rg].size + after
    BY <1>4, <1>5, <1>10
  <2>3. CutFromStart(h, g, into, rg, after)
    BY <1>2, <2>1, <2>2, InsertAtStartIs
  <2>4. Len(g) = n + 1 /\ g[f].type = h[f].type
    BY <1>1, <1>2, <1>7, <2>3 DEF CutFromStart
  <2>5. Whole(g, n + 1, HeadOf(g, f), top) /\ Pieces(h, g, n, into)
    BY <1>1, <1>4, <1>10, <2>2, <2>3, WholeAtStart
  <2> QED
    BY <1>7, <2>4, <2>5
<1>11. CASE before = 0 /\ after = 0
  <2>1. g = Replace(h, into, rg)
    BY <1>1, <1>3, <1>11 DEF RegionInsert
  <2>2. h[rg].start = h[into].start /\ h[into].size = h[rg].size /\ into # f
    BY <1>1, <1>4, <1>5, <1>11
  <2>3. Replaced(h, g, into, rg)
    BY <1>2, <2>1, ReplaceIs
  <2>4. Len(g) = n + 1
    BY <1>1, <1>2, <2>3 DEF Replaced
  <2>5. /\ Whole(g, n + 1, HeadOf(g, f), top) /\ Pieces(h, g, n, into)
        /\ g[f].type # "freed"
    BY <1>1, <1>4, <1>6, <1>11, <2>2, <2>3, WholeReplaced
  <2> QED
    BY <2>4, <2>5
<1> QED
  BY <1>8, <1>9, <1>10, <1>11

-----------------------------------------------------------------------------
(* The order in which the walk meets the regions of a whole chain: empty   *)
(* ones before the one that begins where they are, by their number.        *)
Lower(h, a, b) ==
  \/ h[a].start < h[b].start
  \/ /\ h[a].start = h[b].start /\ h[a].size = 0
     /\ h[b].size # 0 \/ a < b

LEMMA LowerAdds ==
  ASSUME NEW h \in Seq(Node), NEW a \in 1 .. Len(h), NEW b \in 1 .. Len(h),
         NEW c \in 1 .. Len(h), Lower(h, a, b), Lower(h, b, c)
  PROVE  Lower(h, a, c)
<1>1. /\ h[a].start \in Nat /\ h[b].start \in Nat /\ h[c].start \in Nat
      /\ a \in Nat /\ b \in Nat /\ c \in Nat
  BY Numbers
<1> QED
  BY <1>1 DEF Lower

LEMMA PathRises ==
  ASSUME NEW h \in Seq(Node), NEW f, NEW top, Whole(h, Len(h), f, top),
         NEW w, Path(h, f, w), NEW j \in 1 .. Len(w)
  PROVE  \A k \in 1 .. Len(w) : j < k => Lower(h, w[j], w[k])
<1> DEFINE T == {k \in Nat : k \in 1 .. Len(w) /\ j < k /\ ~Lower(h, w[j], w[k])}
<1>1. Len(w) \in Nat /\ w \in Seq(1 .. Len(h))
  BY LenProperties DEF Path
<1>2. SUFFICES ASSUME T # {} PROVE FALSE
  BY <1>1
<1>3. PICK k \in T : \A m \in T : k <= m
  BY <1>2, LeastNat
<1>4. k \in Nat /\ k \in 1 .. Len(w) /\ j < k /\ ~Lower(h, w[j], w[k])
  OBVIOUS
<1>5. k # 1 /\ k - 1 \in Nat /\ k - 1 \in 1 .. Len(w) /\ k - 1 < k
  BY <1>1, <1>4
<1>6. PICK a \in 1 .. Len(h), b \in 1 .. Len(h) : a = w[k - 1] /\ b = w[k]
  BY <1>1, <1>4, <1>5, ElementOfSeq
<1>7. /\ h[a].type # "freed" /\ h[a].next = b
      /\ h[b].start = h[a].start + h[a].size
  BY <1>4, <1>5, <1>6 DEF Path, Follows
<1>8. h[a].size # 0 \/ a < b \/ h[b].size # 0
  <2>1. b # NULL
    BY <1>6 DEF NULL
  <2> QED
    BY <1>6, <1>7, <2>1 DEF Whole
<1>9. Lower(h, a, b)
  <2>1. h[a].start \in Nat /\ h[a].size \in Nat
    BY <1>6, Numbers
  <2> QED
    BY <1>7, <1>8, <2>1 DEF Lower
<1>10. CASE j = k - 1
  BY <1>4, <1>6, <1>9, <1>10
<1>11. CASE j # k - 1
  <2>1. j < k - 1
    BY <1>1, <1>4, <1>11
  <2>2. Lower(h, w[j], w[k - 1])
    BY <1>3, <1>5, <2>1
  <2>3. w[j] \in 1 .. Len(h)
    BY <1>1, ElementOfSeq
  <2> QED
    BY <1>4, <1>6, <1>9, <2>2, <2>3, LowerAdds
<1> QED
  BY <1>10, <1>11

(* So it meets none of them twice.                                         *)
LEMMA PathIsShort ==
  ASSUME NEW h \in Seq(Node), NEW f, NEW top, Whole(h, Len(h), f, top),
         NEW w, Path(h, f, w)
  PROVE  Len(w) <= Len(h)
<1>1. PICK l \in Nat, n \in Nat : l = Len(w) /\ n = Len(h)
  BY LenProperties DEF Path
<1>2. SUFFICES ASSUME n < l PROVE FALSE
  BY <1>1
<1>3. w \in [1 .. l -> 1 .. n]
  BY <1>1 DEF Path
<1>4. /\ IsFiniteSet(1 .. l) /\ Cardinality(1 .. l) = l
      /\ IsFiniteSet(1 .. n) /\ Cardinality(1 .. n) = n
  <2>1. /\ IsFiniteSet(1 .. l) /\ Cardinality(1 .. l) = IF 1 > l THEN 0 ELSE l - 1 + 1
        /\ IsFiniteSet(1 .. n) /\ Cardinality(1 .. n) = IF 1 > n THEN 0 ELSE n - 1 + 1
    BY FS_Interval
  <2> QED
    BY <2>1
<1>5. PICK x \in 1 .. l, y \in 1 .. l : x # y /\ w[x] = w[y]
  BY <1>2, <1>3, <1>4, FS_PigeonHole
<1>6. PICK j \in 1 .. l, k \in 1 .. l : j < k /\ w[j] = w[k]
  <2>1. x < y \/ y < x
    BY <1>5
  <2> QED
    BY <1>5, <2>1
<1>7. Lower(h, w[j], w[j])
  BY <1>1, <1>6, PathRises
<1>8. w[j] \in 1 .. Len(h)
  BY <1>1, <1>3
<1>9. h[w[j]].start \in Nat /\ w[j] \in Nat
  BY <1>8, Numbers
<1> QED
  BY <1>7, <1>9 DEF Lower

(* And it ends at a region that has no next, not for want of steps.        *)
LEMMA WalkEnds ==
  ASSUME NEW h \in Seq(Node), Chained(h, Len(h)), NEW f \in 1 .. Len(h), Headed(h, f),
         NEW top, Whole(h, Len(h), f, top), NEW w, w = Walk(h, f)
  PROVE  Path(h, f, w) /\ h[w[Len(w)]].next = NULL
<1> DEFINE Step(a) == [k \in 1 .. Len(h) |-> IF k = 1 THEN <<f>> ELSE Farther(h, a[k - 1])]
           Over(v) == h[v[Len(v)]].next = NULL
<1>1. PICK n \in Nat : n = Len(h) /\ n # 0
  BY LenProperties
<1>2. Walk(h, f) = (CHOOSE a : a = Step(a))[n]
  BY <1>1 DEF Walk, Farther
<1>3. PICK b \in Walks(h, f, n) : TRUE
  BY WalksExist
<1>4. PICK a : a = Step(a) /\ Walk(h, f) = a[n]
  <2>1. \E a : a = Step(a)
    BY <1>1, <1>3 DEF Walks
  <2> HIDE DEF Step
  <2> QED
    BY <1>2, <2>1
<1>5. \A k \in 1 .. n : a[k] = IF k = 1 THEN <<f>> ELSE Farther(h, a[k - 1])
  BY <1>1, <1>4
<1> HIDE DEF Step
<1> DEFINE Good(k) == Path(h, f, a[k]) /\ (Over(a[k]) \/ Len(a[k]) = k)
           T == {k \in Nat : k \in 1 .. n /\ ~Good(k)}
<1>6. ASSUME NEW v, Path(h, f, v), ~Over(v)
      PROVE  Len(Farther(h, v)) = Len(v) + 1
  <2>1. PICK t : t = h[v[Len(v)]].next
    OBVIOUS
  <2>2. t # NULL /\ Farther(h, v) = Append(v, t)
    BY <1>6, <2>1 DEF Farther
  <2>3. Len(v) \in Nat /\ v \in Seq(1 .. Len(h)) /\ Len(v) \in 1 .. Len(v)
    BY <1>6, LenProperties DEF Path
  <2>4. v[Len(v)] \in 1 .. Len(h)
    BY <2>3, ElementOfSeq
  <2>5. t \in 1 .. Len(h)
    BY <2>1, <2>2, <2>4 DEF Chained, NULL
  <2> QED
    BY <2>2, <2>3, <2>5, AppendProperties
<1>7. T = {}
  <2>1. SUFFICES ASSUME T # {} PROVE FALSE
    OBVIOUS
  <2>2. PICK k \in T : \A j \in T : k <= j
    BY <2>1, LeastNat
  <2>3. k \in Nat /\ k \in 1 .. n /\ ~Good(k)
    OBVIOUS
  <2>4. k # 1
    <3>1. Path(h, f, <<f>>) /\ Len(<<f>>) = 1
      BY PathStarts
    <3> QED
      BY <1>5, <2>3, <3>1
  <2>5. k - 1 \in Nat /\ k - 1 \in 1 .. n /\ k - 1 < k
    BY <1>1, <2>3, <2>4
  <2>6. Good(k - 1)
    BY <2>2, <2>5
  <2>7. a[k] = Farther(h, a[k - 1])
    BY <1>5, <2>3, <2>4
  <2>8. Path(h, f, a[k])
    BY <2>6, <2>7, PathGrows
  <2>9. CASE Over(a[k - 1])
    <3>1. a[k] = a[k - 1]
      BY <2>7, <2>9 DEF Farther
    <3> QED
      BY <2>3, <2>8, <2>9, <3>1
  <2>10. CASE ~Over(a[k - 1])
    <3>1. Len(a[k - 1]) = k - 1
      BY <2>6, <2>10
    <3>2. Len(a[k]) = k - 1 + 1
      BY <1>6, <2>6, <2>7, <2>10, <3>1
    <3> QED
      BY <2>3, <2>8, <3>2
  <2> QED
    BY <2>9, <2>10
<1>8. Good(n) /\ w = a[n]
  BY <1>1, <1>4, <1>7
<1> HIDE DEF Good
<1>9. Path(h, f, w)
  BY <1>8 DEF Good
<1>10. Over(w)
  <2>1. SUFFICES ASSUME ~Over(w) PROVE FALSE
    OBVIOUS
  <2>2. Len(w) = n
    BY <1>8, <2>1 DEF Good
  <2>3. Path(h, f, Farther(h, w)) /\ Len(Farther(h, w)) = n + 1
    BY <1>6, <1>9, <2>1, <2>2, PathGrows
  <2>4. Len(Farther(h, w)) <= n
    BY <1>1, <2>3, PathIsShort
  <2> QED
    BY <2>3, <2>4
<1> QED
  BY <1>9, <1>10

LEMMA LowestMissed ==
  ASSUME NEW h \in Seq(Node), NEW M \in SUBSET (1 .. Len(h)), M # {}
  PROVE  \E r \in M : \A q \in M : ~Lower(h, q, r)
<1>1. \A r \in M : h[r].start \in Nat /\ h[r].size \in Nat /\ r \in Nat
  BY Numbers
<1> DEFINE S == {h[r].start : r \in M}
           E(s) == {r \in M : h[r].start = s /\ h[r].size = 0}
<1>2. PICK s \in S : \A t \in S : s <= t
  <2>1. S \subseteq Nat /\ S # {}
    BY <1>1
  <2> QED
    BY <2>1, LeastNat
<1>3. \A r \in M : s <= h[r].start
  BY <1>2
<1>4. PICK a \in M : h[a].start = s
  BY <1>2
<1>5. CASE E(s) = {}
  <2>1. \A q \in M : ~Lower(h, q, a)
    BY <1>1, <1>3, <1>4, <1>5 DEF Lower
  <2> QED
    BY <2>1
<1>6. CASE E(s) # {}
  <2>1. E(s) \subseteq Nat
    BY <1>1
  <2>2. PICK r \in E(s) : \A q \in E(s) : r <= q
    BY <1>6, <2>1, LeastNat
  <2>3. ASSUME NEW q \in M, Lower(h, q, r) PROVE FALSE
    <3>1. h[r].start = s /\ h[r].size = 0 /\ s <= h[q].start /\ r \in M
      BY <1>3
    <3>2. h[q].start = s /\ h[q].size = 0 /\ q < r
      BY <1>1, <2>3, <3>1 DEF Lower
    <3>3. r <= q
      BY <2>2, <3>2
    <3> QED
      BY <1>1, <3>1, <3>2, <3>3
  <2> QED
    BY <2>2, <2>3
<1> QED
  BY <1>5, <1>6

(* The walk meets every live region of a whole chain.                      *)
LEMMA WalkMeetsAll ==
  ASSUME NEW h \in Seq(Node), Chained(h, Len(h)), NEW f \in 1 .. Len(h), Headed(h, f),
         NEW top, Whole(h, Len(h), f, top), NEW w, w = Walk(h, f)
  PROVE  \A r \in 1 .. Len(h) : h[r].type # "freed" => \E k \in 1 .. Len(w) : w[k] = r
<1> DEFINE M == {r \in 1 .. Len(h) : h[r].type # "freed" /\ \A k \in 1 .. Len(w) : w[k] # r}
<1>1. Path(h, f, w) /\ h[w[Len(w)]].next = NULL
  BY WalkEnds
<1>2. Len(w) \in Nat /\ w \in Seq(1 .. Len(h)) /\ 1 \in 1 .. Len(w) /\ w[1] = f
  BY <1>1, LenProperties DEF Path
<1>3. SUFFICES ASSUME M # {} PROVE FALSE
  OBVIOUS
<1>4. PICK r \in M : \A q \in M : ~Lower(h, q, r)
  <2>1. M \in SUBSET (1 .. Len(h))
    OBVIOUS
  <2> HIDE DEF M
  <2> QED
    BY <1>3, <2>1, LowestMissed
<1>5. /\ r \in 1 .. Len(h) /\ h[r].type # "freed" /\ r # NULL
      /\ \A k \in 1 .. Len(w) : w[k] # r
  BY DEF NULL
<1>6. r # f
  BY <1>2, <1>5
<1>7. PICK s \in 1 .. Len(h) : h[s].type # "freed" /\ h[s].next = r
  BY <1>5, <1>6 DEF Whole
<1>8. h[r].start = h[s].start + h[s].size
  BY <1>5, <1>7 DEF Chained, Follows
<1>9. h[s].size # 0 \/ s < r \/ h[r].size # 0
  BY <1>5, <1>7 DEF Whole
<1>10. Lower(h, s, r)
  <2>1. h[s].start \in Nat /\ h[s].size \in Nat
    BY Numbers
  <2> QED
    BY <1>8, <1>9, <2>1 DEF Lower
<1>11. PICK k \in 1 .. Len(w) : w[k] = s
  BY <1>4, <1>7, <1>10
<1>12. CASE k = Len(w)
  BY <1>1, <1>5, <1>7, <1>11, <1>12
<1>13. CASE k # Len(w)
  <2>1. k + 1 \in 1 .. Len(w) /\ k + 1 # 1 /\ (k + 1) - 1 = k
    BY <1>2, <1>13
  <2>2. h[w[k]].next = w[k + 1]
    BY <1>1, <2>1 DEF Path
  <2> QED
    BY <1>5, <1>7, <1>11, <2>1, <2>2
<1> QED
  BY <1>12, <1>13

-----------------------------------------------------------------------------
(* The greatest of a set of numbers that has a bound.                      *)
LEMMA Greatest ==
  ASSUME NEW S, S \subseteq Nat, S # {}, NEW b \in Nat, \A x \in S : x <= b
  PROVE  Max(S) \in S /\ \A x \in S : x <= Max(S)
<1> DEFINE T == {b - x : x \in S}
<1>1. T \subseteq Nat /\ T # {}
  <2>1. ASSUME NEW x \in S PROVE b - x \in Nat
    <3>1. x \in Nat /\ x <= b
      OBVIOUS
    <3> QED
      BY <3>1
  <2> QED
    BY <2>1
<1>2. PICK t \in T : \A q \in T : t <= q
  BY <1>1, LeastNat
<1>3. PICK m \in S : t = b - m
  OBVIOUS
<1>4. ASSUME NEW x \in S PROVE m >= x
  <2>1. t <= b - x
    BY <1>2
  <2>2. x \in Nat /\ m \in Nat
    OBVIOUS
  <2> QED
    BY <1>3, <2>1, <2>2
<1>5. Max(S) \in S /\ \A x \in S : Max(S) >= x
  BY <1>4 DEF Max
<1>6. ASSUME NEW x \in S PROVE x <= Max(S)
  <2>1. x \in Nat /\ Max(S) \in Nat /\ Max(S) >= x
    BY <1>5
  <2> QED
    BY <2>1
<1> QED
  BY <1>5, <1>6

(* What the assumption says of a list of sections.                         *)
LEMMA InputIs ==
  ASSUME NEW input \in Inputs
  PROVE  /\ Len(input) \in Nat /\ DOMAIN input = 1 .. Len(input)
         /\ \A e \in DOMAIN input : /\ input[e].fixed \in BOOLEAN
                                    /\ input[e].size \in Nat /\ input[e].origin \in Nat
BY LinkerAssumption

(* The end of what the sections before e with an origin take.              *)
Bottom(input, e) == Max(EndsBefore(input, e))

LEMMA EndsOne ==
  ASSUME NEW input \in Inputs
  PROVE  EndsBefore(input, 1) = {0}
<1>1. \A f \in DOMAIN input : ~(f < 1)
  BY InputIs
<1> QED
  BY <1>1 DEF EndsBefore

LEMMA EndsNext ==
  ASSUME NEW input \in Inputs, NEW e \in DOMAIN input
  PROVE  EndsBefore(input, e + 1) =
           EndsBefore(input, e) \cup IF input[e].fixed
                                       THEN {input[e].origin + input[e].size} ELSE {}
<1>1. \A f \in DOMAIN input : f < e + 1 <=> f < e \/ f = e
  BY InputIs
<1>2. {f \in DOMAIN input : input[f].fixed /\ f < e + 1} =
        {f \in DOMAIN input : input[f].fixed /\ f < e}
          \cup IF input[e].fixed THEN {e} ELSE {}
  BY <1>1
<1> QED
  BY <1>2 DEF EndsBefore

LEMMA BottomIs ==
  ASSUME NEW input \in Inputs, NEW e \in 1 .. Len(input) + 1
  PROVE  /\ Bottom(input, e) \in EndsBefore(input, e) /\ Bottom(input, e) \in Nat
         /\ \A x \in EndsBefore(input, e) : x <= Bottom(input, e)
<1> DEFINE Bound(k) == \E b \in Nat : \A x \in EndsBefore(input, k) : x <= b
           T == {k \in Nat : k \in 1 .. Len(input) + 1 /\ ~Bound(k)}
<1>0. Len(input) \in Nat /\ DOMAIN input = 1 .. Len(input)
  BY InputIs
<1>1. EndsBefore(input, e) \subseteq Nat /\ EndsBefore(input, e) # {}
  BY InputIs DEF EndsBefore
<1>2. T = {}
  <2>1. SUFFICES ASSUME T # {} PROVE FALSE
    OBVIOUS
  <2>2. PICK k \in T : \A j \in T : k <= j
    BY <2>1, LeastNat
  <2>3. k \in 1 .. Len(input) + 1 /\ ~Bound(k) /\ k \in Nat
    OBVIOUS
  <2>4. k # 1
    BY <2>3, EndsOne
  <2>5. k - 1 \in DOMAIN input /\ k - 1 \in Nat /\ k - 1 \in 1 .. Len(input) + 1
        /\ (k - 1) + 1 = k /\ k - 1 < k
    BY <1>0, <2>3, <2>4
  <2>6. Bound(k - 1)
    BY <2>2, <2>5
  <2>7. PICK b \in Nat : \A x \in EndsBefore(input, k - 1) : x <= b
    BY <2>6
  <2>8. PICK c \in Nat : c = input[k - 1].origin + input[k - 1].size
    BY <2>5, InputIs
  <2>9. \A x \in EndsBefore(input, k) : x \in EndsBefore(input, k - 1) \/ x = c
    BY <2>5, <2>8, EndsNext
  <2>10. EndsBefore(input, k - 1) \subseteq Nat
    BY InputIs DEF EndsBefore
  <2>11. \A x \in EndsBefore(input, k) : x <= b + c
    BY <2>7, <2>9, <2>10
  <2> QED
    BY <2>3, <2>7, <2>8, <2>11
<1>3. Bound(e)
  BY <1>0, <1>2
<1> QED
  BY <1>1, <1>3, Greatest DEF Bottom

(* The sum of the sizes up to a section.                                   *)
Share(input, set, k) == IF k \in set THEN input[k].size ELSE 0

Sums(input, set, n) ==
  {u \in [0 .. n -> Nat] :
     u = [k \in 0 .. n |-> IF k = 0 THEN 0 ELSE u[k - 1] + Share(input, set, k)]}

LEMMA SumsExist ==
  ASSUME NEW input \in Inputs, NEW set, NEW n \in Nat, n <= Len(input)
  PROVE  Sums(input, set, n) # {}
<1> DEFINE T == {j \in Nat : j <= Len(input) /\ Sums(input, set, j) = {}}
<1>0. Len(input) \in Nat
  BY InputIs
<1>1. SUFFICES ASSUME T # {} PROVE FALSE
  OBVIOUS
<1>2. PICK m \in T : \A j \in T : m <= j
  BY <1>1, LeastNat
<1>3. m \in Nat /\ m <= Len(input) /\ Sums(input, set, m) = {}
  OBVIOUS
<1>4. CASE m = 0
  <2>1. PICK u : u = [k \in 0 .. m |-> 0]
    OBVIOUS
  <2>2. \A k \in 0 .. m : k = 0
    BY <1>4
  <2>3. u \in [0 .. m -> Nat]
    BY <2>1
  <2>4. u = [k \in 0 .. m |-> IF k = 0 THEN 0 ELSE u[k - 1] + Share(input, set, k)]
    BY <2>1, <2>2
  <2> QED
    BY <1>3, <2>3, <2>4 DEF Sums
<1>5. CASE m # 0
  <2>1. PICK p \in Nat : p = m - 1 /\ p < m
    BY <1>3, <1>5
  <2>2. Sums(input, set, p) # {}
    BY <1>0, <1>2, <1>3, <2>1
  <2>3. PICK u \in [0 .. p -> Nat] :
          u = [k \in 0 .. p |-> IF k = 0 THEN 0 ELSE u[k - 1] + Share(input, set, k)]
    BY <2>2 DEF Sums
  <2>4. PICK last \in Nat : last = u[p] + Share(input, set, m)
    <3>1. m \in DOMAIN input
      BY <1>0, <1>3, <1>5, InputIs
    <3>2. Share(input, set, m) \in Nat
      BY <3>1, InputIs DEF Share
    <3>3. u[p] \in Nat
      BY <2>1, <2>3
    <3> QED
      BY <3>2, <3>3
  <2>5. PICK g : g = [k \in 0 .. m |-> IF k = m THEN last ELSE u[k]]
    OBVIOUS
  <2>6. ASSUME NEW k \in 0 .. m, k # m PROVE k \in 0 .. p /\ g[k] = u[k]
    BY <1>3, <2>1, <2>5, <2>6
  <2>7. g[m] = last /\ m \in 0 .. m
    BY <1>3, <2>5
  <2>8. \A k \in 0 .. p : u[k] = IF k = 0 THEN 0 ELSE u[k - 1] + Share(input, set, k)
    BY <2>3
  <2>9. ASSUME NEW k \in 0 .. m
        PROVE  g[k] = IF k = 0 THEN 0 ELSE g[k - 1] + Share(input, set, k)
    <3>1. k # 0 => k - 1 \in 0 .. m /\ k - 1 # m
      BY <1>3
    <3>2. k # 0 => g[k - 1] = u[k - 1]
      BY <2>6, <3>1
    <3>3. CASE k = m
      BY <1>5, <2>1, <2>4, <2>7, <3>2, <3>3
    <3>4. CASE k # m
      BY <2>6, <2>8, <3>2, <3>4
    <3> QED
      BY <3>3, <3>4
  <2>10. g = [k \in 0 .. m |-> g[k]]
    BY <2>5
  <2>11. g = [k \in 0 .. m |-> IF k = 0 THEN 0 ELSE g[k - 1] + Share(input, set, k)]
    BY <2>9, <2>10
  <2>12. \A k \in 0 .. m : g[k] \in Nat
    BY <2>3, <2>4, <2>6, <2>7
  <2>13. g \in [0 .. m -> Nat]
    BY <2>10, <2>12
  <2> QED
    BY <1>3, <2>11, <2>13 DEF Sums
<1> QED
  BY <1>4, <1>5

LEMMA LoadIs ==
  ASSUME NEW input \in Inputs, NEW set
  PROVE  \E u \in [0 .. Len(input) -> Nat] :
           /\ Load(input, set) = u[Len(input)] /\ u[0] = 0
           /\ \A k \in 1 .. Len(input) : u[k] = u[k - 1] + Share(input, set, k)
<1> DEFINE Step(u) == [k \in 0 .. Len(input) |->
                         IF k = 0 THEN 0 ELSE u[k - 1] + Share(input, set, k)]
<1>1. PICK n \in Nat : n = Len(input)
  BY InputIs
<1>2. Load(input, set) = (CHOOSE u : u = Step(u))[n]
  BY <1>1 DEF Load, Share
<1>3. PICK v \in [0 .. n -> Nat] : v = Step(v)
  <2>1. Sums(input, set, n) # {}
    BY <1>1, SumsExist
  <2>2. PICK v \in Sums(input, set, n) : TRUE
    BY <2>1
  <2> QED
    BY <1>1, <2>2 DEF Sums
<1>4. PICK u : u = Step(u) /\ Load(input, set) = u[n]
  <2> HIDE DEF Step
  <2> QED
    BY <1>2, <1>3
<1>5. /\ \A k \in 0 .. n : u[k] = IF k = 0 THEN 0 ELSE u[k - 1] + Share(input, set, k)
      /\ \A k \in 0 .. n : v[k] = IF k = 0 THEN 0 ELSE v[k - 1] + Share(input, set, k)
      /\ u = [k \in 0 .. n |-> u[k]]
  BY <1>1, <1>3, <1>4
<1> HIDE DEF Step
<1> DEFINE T == {k \in Nat : k \in 0 .. n /\ u[k] # v[k]}
<1>6. T = {}
  <2>1. SUFFICES ASSUME T # {} PROVE FALSE
    OBVIOUS
  <2>2. PICK k \in T : \A j \in T : k <= j
    BY <2>1, LeastNat
  <2>3. k \in 0 .. n /\ u[k] # v[k] /\ k \in Nat
    OBVIOUS
  <2>4. k # 0
    BY <1>5, <2>3
  <2>5. k - 1 \in Nat /\ k - 1 \in 0 .. n /\ k - 1 < k
    BY <1>1, <2>3, <2>4
  <2>6. u[k - 1] = v[k - 1]
    BY <2>2, <2>5
  <2> QED
    BY <1>5, <2>3, <2>4, <2>6
<1>7. \A k \in 0 .. n : u[k] \in Nat
  BY <1>6
<1>8. u \in [0 .. n -> Nat]
  BY <1>5, <1>7
<1>9. u[0] = 0
  BY <1>1, <1>5
<1>10. ASSUME NEW k \in 1 .. n PROVE u[k] = u[k - 1] + Share(input, set, k)
  <2>1. k \in 0 .. n /\ k # 0
    BY <1>1
  <2> QED
    BY <1>5, <2>1
<1> QED
  BY <1>1, <1>4, <1>8, <1>9, <1>10

(* Without one of the sections, the load is less by its size.              *)
LEMMA LoadWithout ==
  ASSUME NEW input \in Inputs, NEW set, NEW e \in DOMAIN input, e \in set
  PROVE  /\ Load(input, set \ {e}) \in Nat
         /\ Load(input, set) = Load(input, set \ {e}) + input[e].size
<1>1. PICK n \in Nat, z \in Nat : n = Len(input) /\ z = input[e].size
  BY InputIs
<1>2. e \in 1 .. n /\ n \in 0 .. n
  BY <1>1, InputIs
<1>3. PICK u \in [0 .. n -> Nat] :
        /\ Load(input, set) = u[n] /\ u[0] = 0
        /\ \A k \in 1 .. n : u[k] = u[k - 1] + Share(input, set, k)
  BY <1>1, LoadIs
<1>4. PICK v \in [0 .. n -> Nat] :
        /\ Load(input, set \ {e}) = v[n] /\ v[0] = 0
        /\ \A k \in 1 .. n : v[k] = v[k - 1] + Share(input, set \ {e}, k)
  BY <1>1, LoadIs
<1> DEFINE Same(k) == u[k] = v[k] + IF e <= k THEN z ELSE 0
           T == {k \in Nat : k \in 0 .. n /\ ~Same(k)}
<1>5. T = {}
  <2>1. SUFFICES ASSUME T # {} PROVE FALSE
    OBVIOUS
  <2>2. PICK k \in T : \A j \in T : k <= j
    BY <2>1, LeastNat
  <2>3. k \in 0 .. n /\ ~Same(k) /\ k \in Nat
    OBVIOUS
  <2>4. k # 0
    BY <1>2, <1>3, <1>4, <2>3
  <2>5. k - 1 \in Nat /\ k - 1 \in 0 .. n /\ k - 1 < k /\ k \in 1 .. n
    BY <1>1, <2>3, <2>4
  <2>6. Same(k - 1)
    BY <2>2, <2>5
  <2>7. PICK a \in Nat, b \in Nat, s \in Nat, t \in Nat :
          /\ a = u[k - 1] /\ b = v[k - 1]
          /\ s = Share(input, set, k) /\ t = Share(input, set \ {e}, k)
    <3>1. k \in DOMAIN input
      BY <1>1, <2>5, InputIs
    <3>2. Share(input, set, k) \in Nat /\ Share(input, set \ {e}, k) \in Nat
      BY <3>1, InputIs DEF Share
    <3>3. u[k - 1] \in Nat /\ v[k - 1] \in Nat
      BY <2>5
    <3> QED
      BY <3>2, <3>3
  <2>8. u[k] = a + s /\ v[k] = b + t
    BY <1>3, <1>4, <2>5, <2>7
  <2>9. s = t + IF k = e THEN z ELSE 0
    BY <1>1, <2>7 DEF Share
  <2>10. a = b + IF e <= k - 1 THEN z ELSE 0
    BY <2>6, <2>7
  <2>11. u[k] = v[k] + IF e <= k THEN z ELSE 0
    <3>1. e \in Nat /\ k \in Nat
      BY <1>2, <2>3
    <3>2. CASE e <= k - 1
      <4>1. e <= k /\ k # e
        BY <3>1, <3>2
      <4> QED
        BY <2>8, <2>9, <2>10, <3>2, <4>1
    <3>3. CASE k = e
      <4>1. ~(e <= k - 1) /\ e <= k
        BY <3>1, <3>3
      <4> QED
        BY <2>8, <2>9, <2>10, <3>3, <4>1
    <3>4. CASE ~(e <= k - 1) /\ k # e
      <4>1. ~(e <= k)
        BY <3>1, <3>4
      <4> QED
        BY <2>8, <2>9, <2>10, <3>4, <4>1
    <3> QED
      BY <3>2, <3>3, <3>4
  <2> QED
    BY <2>3, <2>11
<1>6. Same(n)
  BY <1>2, <1>5
<1>7. v[n] \in Nat /\ e <= n
  BY <1>2
<1> QED
  BY <1>1, <1>3, <1>4, <1>6, <1>7

-----------------------------------------------------------------------------
(* All the regions hang together.                                          *)
WholeInv == ~Dangling /\ Whole(heap, Len(heap), HeadOf(heap, chain), MaxAddr)

(* What an insertion of section e into region r makes of the regions.      *)
AsBefore(q, r) ==
  /\ q \in Live /\ q # r
  /\ heap'[q].type = heap[q].type /\ heap'[q].start = heap[q].start
  /\ heap'[q].size = heap[q].size
  /\ heap'[q].next = NULL <=> heap[q].next = NULL

LeftBefore(q, r, start) ==
  /\ heap'[q].type = "free" /\ heap'[q].next # NULL /\ heap[r].next = NULL
  /\ heap'[q].start = heap[r].start /\ heap'[q].start + heap'[q].size = start
  /\ heap'[q].size # 0

LeftBehind(q, e, r, start) ==
  /\ heap'[q].type = "free" /\ heap'[q].start = start + entries[e].size
  /\ heap'[q].start + heap'[q].size = Ends(r)
  /\ heap'[q].next = NULL <=> heap[r].next = NULL

IsNew(q, e, start) ==
  /\ q = Len(heap) + 1
  /\ heap'[q].type = "alloc" /\ heap'[q].start = start /\ heap'[q].size = entries[e].size

Cut(e, r, start) ==
  \A q \in Live' :
    \/ AsBefore(q, r) \/ LeftBefore(q, r, start)
    \/ LeftBehind(q, e, r, start) \/ IsNew(q, e, start)

LEMMA InsertKeepsWhole ==
  ASSUME PlacementInv, ChainInv, WholeInv, NEW e \in Entry, NEW r \in DOMAIN heap,
         \E k \in DOMAIN Regions : Regions[k] = r, NEW start \in Nat,
         \/ heap[r].next = NULL
         \/ start = heap[r].start /\ entries[e].size < heap[r].size,
         r # First \/ entries[e].size < heap[r].size,
         Insert(e, r, start)
  PROVE  WholeInv' /\ Cut(e, r, start)
<1> DEFINE n == Len(heap)
<1>0. ~Dangling
  BY DEF WholeInv
<1>1. heap \in Seq(Node) /\ n \in Nat /\ r \in 1 .. n
  BY LenProperties DEF PlacementInv
<1>2. PICK h : /\ Ready(h, e, r, start) /\ heap' = RegionInsert(h, r, n + 1)
               /\ chain' = First /\ entries' = entries
  BY <1>0, InsertIsReady
<1>3. PICK g : g = RegionInsert(h, r, n + 1)
  OBVIOUS
<1> HIDE DEF n
<1>4. /\ Fresh(h, n) /\ Chained(h, n) /\ \A q \in 1 .. n : h[q] = heap[q]
      /\ h[n + 1].start = start /\ h[n + 1].size = entries[e].size
      /\ CanInsert(h, r, n + 1) /\ heap[r].type = "free"
      /\ First \in 1 .. n /\ Headed(h, First) /\ Backed(h, r)
  BY <1>2 DEF Ready, n
<1>5. heap' = g /\ chain' = First /\ entries' = entries
  BY <1>2, <1>3 DEF n
<1>6. First = HeadOf(heap, chain)
  BY <1>0, Walked
<1>7. Whole(h, n, First, MaxAddr)
  <2>1. Whole(heap, n, First, MaxAddr)
    BY <1>6 DEF WholeInv, n
  <2>2. \A q \in 1 .. n : heap[q].type # "freed" /\ heap[q].next # NULL => heap[q].next \in 1 .. n
    BY DEF ChainInv, Chained, n, NULL
  <2> QED
    BY <1>4, <2>1, <2>2 DEF Whole
<1>8. h[r] = heap[r]
  BY <1>1, <1>4
<1>9. /\ Whole(g, Len(g), HeadOf(g, First), MaxAddr) /\ Pieces(h, g, n, r)
      /\ g[First].type # "freed"
  BY <1>1, <1>3, <1>4, <1>7, <1>8, RegionInsertWhole
<1>10. WholeInv'
  BY <1>5, <1>9 DEF WholeInv, Dangling
<1>11. DOMAIN g = 1 .. Len(g)
  <2>1. heap' \in Seq(Node)
    <3>1. Measured(g, Len(g), MaxAddr, Len(entries)) /\ g \in Seq(Node)
      <4>1. ChainInv'
        BY <1>0, InsertKeepsChain
      <4>2. /\ n \in Nat /\ h \in Seq(Node) /\ Len(h) = n + 1 /\ r \in 1 .. n
            /\ MaxAddr \in Nat /\ Len(entries) \in Nat
        BY <1>1, <1>4, LinkerAssumption, Sections DEF Fresh
      <4>3. r \in 1 .. Len(h) /\ n + 1 \in 1 .. Len(h) /\ r # n + 1
        BY <4>2
      <4>4. Splits(h, g, r, n + 1)
        BY <1>3, <1>4, <4>2, <4>3, RegionInsertSplits
      <4> QED
        BY <1>5, <4>1, <4>4 DEF Splits, ChainInv
    <3> QED
      BY <1>5, <3>1
  <2> QED
    BY <1>5, <2>1, LenProperties
<1>12. ASSUME NEW q \in 1 .. Len(g), g[q].type # "freed"
       PROVE  \/ AsBefore(q, r) \/ LeftBefore(q, r, start)
              \/ LeftBehind(q, e, r, start) \/ IsNew(q, e, start)
  <2>1. CASE Kept(h, g, n, r, q)
    <3>1. q \in 1 .. n /\ h[q] = heap[q]
      BY <1>4, <2>1 DEF Kept
    <3>2. q \in Live
      BY <1>1, <1>12, <2>1, <3>1 DEF Kept, Live, n
    <3>3. AsBefore(q, r)
      BY <1>5, <2>1, <3>1, <3>2 DEF Kept, AsBefore
    <3> QED
      BY <3>3
  <2>2. CASE Ahead(h, g, n, r, q)
    <3>1. LeftBefore(q, r, start)
      BY <1>4, <1>5, <1>8, <2>2 DEF Ahead, LeftBefore
    <3> QED
      BY <3>1
  <2>3. CASE Back(h, g, n, r, q)
    <3>1. LeftBehind(q, e, r, start)
      BY <1>4, <1>5, <1>8, <2>3 DEF Back, LeftBehind, Ends
    <3> QED
      BY <3>1
  <2>4. CASE Itself(h, g, n, q)
    <3>1. IsNew(q, e, start)
      BY <1>4, <1>5, <2>4 DEF Itself, IsNew, n
    <3> QED
      BY <3>1
  <2> QED
    BY <1>9, <1>12, <2>1, <2>2, <2>3, <2>4 DEF Pieces
<1>13. Cut(e, r, start)
  BY <1>5, <1>11, <1>12 DEF Cut, Live
<1> QED
  BY <1>10, <1>13

-----------------------------------------------------------------------------
(* The invariant of the placement under WholeSpec.  While the sections     *)
(* with an origin are placed, the last gap is behind all of them, and a    *)
(* gap that has something behind it is larger than what is left to place.  *)
Left == {e \in Entry : ~entries[e].fixed /\ region[e] = NULL}

Behind ==
  phase = "static" =>
    /\ Left = Others(entries)
    /\ \A r \in Live :
         /\ heap[r].next # NULL => Ends(r) <= Bottom(entries, i)
         /\ heap[r].type = "free" /\ heap[r].next = NULL
              => heap[r].start = Bottom(entries, i)

Gaps ==
  phase \in {"static", "movable"} =>
    \A r \in Live : heap[r].type = "free" /\ heap[r].next # NULL =>
                      heap[r].size > Load(entries, Left)

RoomInv == Roomy(entries) /\ WholeInv /\ Behind /\ Gaps

(* A region is alone at the top of the memory.                             *)
LEMMA OneAtTheTop ==
  ASSUME PlacementInv, ChainInv, NEW q \in Live, NEW r \in Live,
         heap[q].type = "free", heap[r].type = "free", Ends(q) = Ends(r)
  PROVE  q = r
<1>1. heap \in Seq(Node) /\ q \in 1 .. Len(heap) /\ r \in 1 .. Len(heap)
  BY LenProperties DEF PlacementInv, Live
<1>2. /\ heap[q].start \in Nat /\ heap[q].size \in Nat
      /\ heap[r].start \in Nat /\ heap[r].size \in Nat
  BY <1>1, Numbers
<1>3. heap[q].size # 0 /\ heap[r].size # 0
  BY <1>1 DEF ChainInv, Chained
<1>4. q # r => Apart(q, r)
  BY DEF PlacementInv, RegionsApart
<1> QED
  BY <1>2, <1>3, <1>4 DEF Apart, Ends

(* What is left to place takes at least what each of it takes.             *)
LEMMA LoadOfOne ==
  ASSUME PlacementInv, NEW e \in Left
  PROVE  /\ Load(entries, Left \ {e}) \in Nat /\ entries[e].size \in Nat
         /\ Load(entries, Left) = Load(entries, Left \ {e}) + entries[e].size
<1>1. entries \in Inputs /\ e \in DOMAIN entries
  BY DEF PlacementInv, Left, Entry
<1> QED
  BY <1>1, LoadWithout, InputIs

LEMMA LoadIsNat ==
  ASSUME NEW input \in Inputs, NEW set
  PROVE  Load(input, set) \in Nat
<1>1. PICK u \in [0 .. Len(input) -> Nat] : Load(input, set) = u[Len(input)]
  BY LoadIs
<1>2. Len(input) \in 0 .. Len(input)
  BY InputIs
<1> QED
  BY <1>1, <1>2

(* The region at the bottom reaches the top only when all is free.         *)
LEMMA HeadHasRoom ==
  ASSUME PlacementInv, ChainInv, RoomInv, NEW e \in Entry, NEW r \in Live, r = First,
         heap[r].next = NULL
  PROVE  entries[e].size < heap[r].size
<1>1. ~Dangling /\ r \in 1 .. Len(heap) /\ heap \in Seq(Node)
  BY LenProperties DEF RoomInv, WholeInv, PlacementInv, Live
<1>2. heap[r].start = 0
  BY <1>1, Walked DEF Headed
<1>3. heap[r].start + heap[r].size = MaxAddr
  BY <1>1 DEF RoomInv, WholeInv, Whole, Live
<1>4. heap[r].size \in Nat
  BY <1>1, Numbers
<1>5. entries[e].size < MaxAddr
  BY DEF RoomInv, Roomy, Entry
<1> QED
  BY <1>2, <1>3, <1>4, <1>5

(* The region at the origin of the next section that has one is the last.  *)
LEMMA StaticAtTheTop ==
  ASSUME PlacementInv, ChainInv, RoomInv, phase = "static", i \in Entry, entries[i].fixed,
         NEW r \in Live, entries[i].origin < Ends(r)
  PROVE  /\ heap[r].next = NULL /\ Ends(r) = MaxAddr
         /\ \/ entries[i].origin = Bottom(entries, i)
            \/ entries[i].origin - Bottom(entries, i) > Load(entries, Left)
<1> DEFINE o == entries[i].origin
           b == Bottom(entries, i)
<1>1. entries \in Inputs /\ i \in 1 .. Len(entries) + 1 /\ o \in Nat
  <2>1. entries \in Inputs /\ i \in DOMAIN entries
    BY DEF PlacementInv, Entry
  <2> QED
    BY <2>1, InputIs
<1>2. b \in Nat /\ Load(entries, Left) \in Nat
  BY <1>1, BottomIs, LoadIsNat
<1>3. o = b \/ o - b > Load(entries, Left)
  <2>1. o = b \/ o - b > Load(entries, Others(entries))
    BY DEF RoomInv, Roomy, Bottom, Entry
  <2> QED
    BY <2>1 DEF RoomInv, Behind
<1>4. r \in 1 .. Len(heap) /\ heap \in Seq(Node)
  BY LenProperties DEF Live, PlacementInv
<1>5. Ends(r) \in Nat
  BY <1>4, Numbers DEF Ends
<1>6. heap[r].next # NULL => Ends(r) <= b
  BY DEF RoomInv, Behind
<1>7. heap[r].next = NULL
  BY <1>1, <1>2, <1>3, <1>5, <1>6
<1>8. Ends(r) = MaxAddr
  BY <1>4, <1>7 DEF RoomInv, WholeInv, Whole, Live, Ends
<1> QED
  BY <1>3, <1>7, <1>8

LEMMA StaticCuts ==
  ASSUME PlacementInv, ChainInv, RoomInv, phase = "static", i \in Entry, entries[i].fixed,
         NEW r \in RegionsAt(entries[i].origin), Insert(i, r, entries[i].origin)
  PROVE  /\ WholeInv' /\ Cut(i, r, entries[i].origin)
         /\ heap[r].type = "free" /\ r \in Live
<1> DEFINE o == entries[i].origin
<1>1. o \in Nat
  BY InputIs DEF PlacementInv, Entry
<1>2. r \in DOMAIN heap /\ r \in ToSet(Regions) /\ heap[r].start <= o /\ o < Ends(r)
  BY DEF RegionsAt
<1>3. ~Dangling /\ \E k \in DOMAIN Regions : Regions[k] = r
  BY <1>2 DEF ToSet, RoomInv, WholeInv
<1>4. heap[r].type = "free" /\ r \in Live
  <2>1. PICK h : Ready(h, i, r, o)
    BY <1>1, <1>2, <1>3, InsertIsReady
  <2> QED
    BY <1>2, <2>1 DEF Ready, Live
<1>5. heap[r].next = NULL
  BY <1>2, <1>4, StaticAtTheTop
<1>6. r # First \/ entries[i].size < heap[r].size
  BY <1>4, <1>5, HeadHasRoom
<1>7. WholeInv' /\ Cut(i, r, o)
  BY <1>1, <1>2, <1>3, <1>5, <1>6, InsertKeepsWhole DEF RoomInv
<1> QED
  BY <1>4, <1>7

LEMMA PlaceStaticKeeps ==
  ASSUME PlacementInv, ChainInv, RoomInv, PlaceStatic
  PROVE  RoomInv'
<1> DEFINE o == entries[i].origin
           b == Bottom(entries, i)
           z == entries[i].size
<1>1. PICK r \in RegionsAt(o) : Insert(i, r, o)
  BY DEF PlaceStatic
<1>2. /\ phase = "static" /\ i \in Entry /\ entries[i].fixed /\ i' = i + 1
      /\ ~Dangling /\ entries' = entries /\ phase' = phase
  BY <1>1, Sections DEF PlaceStatic, AtStatic, PlacementInv, Insert
<1>3. entries \in Inputs /\ i \in 1 .. Len(entries) + 1 /\ i \in DOMAIN entries
      /\ o \in Nat /\ z \in Nat
  <2>1. entries \in Inputs /\ i \in DOMAIN entries
    BY <1>2 DEF PlacementInv, Entry
  <2> QED
    BY <2>1, InputIs
<1>4. b \in Nat /\ b \in EndsBefore(entries, i) /\ \A x \in EndsBefore(entries, i) : x <= b
  BY <1>3, BottomIs
<1>5. r \in 1 .. Len(heap) /\ heap \in Seq(Node) /\ r \in Live
      /\ heap[r].start <= o /\ o < Ends(r)
  BY <1>1, <1>2, StaticCuts, LenProperties DEF RegionsAt, PlacementInv
<1>6. WholeInv' /\ Cut(i, r, o) /\ heap[r].type = "free" /\ r \in DOMAIN heap
  BY <1>1, <1>2, StaticCuts DEF RegionsAt
<1>7. /\ heap[r].next = NULL /\ Ends(r) = MaxAddr
      /\ o = b \/ o - b > Load(entries, Left)
  BY <1>2, <1>5, StaticAtTheTop
<1>8. Load(entries, Left) \in Nat
  BY <1>3, LoadIsNat
<1>9. o >= b
  BY <1>3, <1>4, <1>7, <1>8
<1>10. heap[r].start = b
  BY <1>2, <1>5, <1>6, <1>7 DEF RoomInv, Behind
<1>11. Bottom(entries, i + 1) = o + z
  <2>1. PICK c : c = Bottom(entries, i + 1)
    OBVIOUS
  <2>2. i + 1 \in 1 .. Len(entries) + 1
    BY <1>3, InputIs
  <2>3. c \in EndsBefore(entries, i + 1) /\ c \in Nat
        /\ \A x \in EndsBefore(entries, i + 1) : x <= c
    BY <1>3, <2>1, <2>2, BottomIs
  <2>4. EndsBefore(entries, i + 1) = EndsBefore(entries, i) \cup {o + z}
    BY <1>2, <1>3, EndsNext
  <2>5. c = o + z \/ c <= b
    BY <1>4, <2>3, <2>4
  <2>6. o + z <= c /\ b <= c
    BY <1>4, <2>3, <2>4
  <2> QED
    BY <1>3, <1>4, <1>9, <2>1, <2>3, <2>5, <2>6
<1>12. Left' = Left
  <2>1. region' = [region EXCEPT ![i] = Len(Append(heap, NewRegion("alloc", o, z, i)))]
    BY <1>1 DEF Insert
  <2>2. region \in [Entry -> 0 .. Len(heap)]
    BY DEF PlacementInv
  <2>3. \A e \in Entry : e # i => region'[e] = region[e]
    BY <2>1, <2>2
  <2> QED
    BY <1>2, <2>3 DEF Left, Entry
<1> HIDE DEF o, b, z
<1>13. ASSUME NEW q \in Live'
       PROVE  /\ heap'[q].next # NULL => Ends(q)' <= o + z
              /\ heap'[q].type = "free" /\ heap'[q].next = NULL => heap'[q].start = o + z
              /\ heap'[q].type = "free" /\ heap'[q].next # NULL
                   => heap'[q].size > Load(entries, Left)
  <2>1. CASE AsBefore(q, r)
    <3>1. /\ q \in Live /\ q # r /\ Ends(q)' = Ends(q) /\ heap'[q].type = heap[q].type
          /\ heap'[q].next = NULL <=> heap[q].next = NULL
          /\ heap'[q].size = heap[q].size
      BY <2>1 DEF AsBefore, Ends
    <3>2. q \in 1 .. Len(heap)
      BY <1>5, <3>1, LenProperties DEF Live
    <3>3. heap[q].start \in Nat /\ heap[q].size \in Nat
      BY <1>5, <3>2, Numbers
    <3>4. heap[q].next # NULL => Ends(q) <= b
      BY <1>2, <3>1 DEF RoomInv, Behind, b
    <3>5. heap[q].next # NULL => Ends(q) <= o + z
      BY <1>3, <1>4, <1>9, <3>3, <3>4 DEF Ends
    <3>6. ~(heap[q].type = "free" /\ heap[q].next = NULL)
      <4>1. SUFFICES ASSUME heap[q].type = "free", heap[q].next = NULL PROVE FALSE
        OBVIOUS
      <4>2. heap[q].start + heap[q].size = MaxAddr
        BY <3>1, <3>2, <4>1 DEF RoomInv, WholeInv, Whole, Live
      <4>3. Ends(q) = Ends(r)
        BY <1>7, <4>2 DEF Ends
      <4> QED
        BY <1>5, <1>6, <3>1, <4>1, <4>3, OneAtTheTop
    <3>7. heap[q].type = "free" /\ heap[q].next # NULL => heap[q].size > Load(entries, Left)
      BY <1>2, <3>1 DEF RoomInv, Gaps
    <3> QED
      BY <3>1, <3>5, <3>6, <3>7
  <2>2. CASE LeftBefore(q, r, o)
    <3>1. /\ heap'[q].next # NULL /\ heap'[q].start = b
          /\ heap'[q].start + heap'[q].size = o /\ heap'[q].size # 0
      BY <1>10, <2>2 DEF LeftBefore
    <3>2. heap'[q].size \in Nat
      <4>1. heap' \in Seq(Node)
        BY <1>1, <1>2, <1>3, <1>5, InsertPlaces DEF o
      <4>2. q \in 1 .. Len(heap')
        BY <4>1, LenProperties DEF Live
      <4> QED
        BY <4>1, <4>2, Numbers
    <3> QED
      BY <1>3, <1>4, <1>7, <1>8, <3>1, <3>2 DEF Ends
  <2>3. CASE LeftBehind(q, i, r, o)
    BY <1>7, <2>3 DEF LeftBehind, z
  <2>4. CASE IsNew(q, i, o)
    BY <1>3, <2>4 DEF IsNew, Ends, z
  <2> QED
    BY <1>6, <2>1, <2>2, <2>3, <2>4 DEF Cut
<1>14. Behind'
  <2>1. Left' = Others(entries')
    BY <1>2, <1>12 DEF RoomInv, Behind
  <2>2. Bottom(entries, i)' = o + z
    BY <1>2, <1>11 DEF o, z
  <2> QED
    BY <1>13, <2>1, <2>2 DEF Behind
<1>15. Gaps'
  BY <1>2, <1>12, <1>13 DEF Gaps
<1> QED
  BY <1>2, <1>6, <1>14, <1>15 DEF RoomInv

LEMMA MovableCuts ==
  ASSUME PlacementInv, ChainInv, RoomInv, phase = "movable",
         NEW e \in Largest, NEW r \in FirstFit(e), Insert(e, r, heap[r].start)
  PROVE  /\ e \in Entry /\ region[e] = NULL /\ ~entries[e].fixed /\ e \in Left
         /\ r \in Live /\ r \in DOMAIN heap /\ heap[r].type = "free"
         /\ heap[r].start \in Nat /\ heap[r].size \in Nat /\ entries[e].size \in Nat
         /\ entries[e].size <= heap[r].size
         /\ heap[r].next # NULL => heap[r].size > Load(entries, Left)
         /\ WholeInv' /\ Cut(e, r, heap[r].start)
<1>1. PICK start : start = heap[r].start
  OBVIOUS
<1>2. e \in Entry /\ region[e] = NULL /\ ~Dangling
  BY DEF Largest, Movable, RoomInv, WholeInv
<1>3. ~entries[e].fixed /\ e \in Left
  BY <1>2 DEF PlacementInv, FixedPlaced, Placed, Left
<1>4. /\ r \in DOMAIN heap /\ heap[r].type = "free" /\ entries[e].size <= heap[r].size
      /\ \E k \in DOMAIN Regions : Regions[k] = r
  <2>1. Fits(r, e) /\ r \in DOMAIN heap /\ \E k \in DOMAIN Regions : Regions[k] = r
    BY DEF FirstFit
  <2>2. entries[e].size \in Nat /\ heap[r].size \in Nat
    <3>1. r \in 1 .. Len(heap) /\ heap \in Seq(Node)
      BY <2>1, LenProperties DEF PlacementInv
    <3> QED
      BY <1>2, <3>1, Numbers, InputIs DEF PlacementInv, Entry
  <2> QED
    BY <2>1, <2>2 DEF Fits
<1>5. r \in 1 .. Len(heap) /\ heap \in Seq(Node) /\ r \in Live
  BY <1>4, LenProperties DEF PlacementInv, Live
<1>6. heap[r].size \in Nat /\ start \in Nat
  BY <1>1, <1>5, Numbers
<1>7. /\ Load(entries, Left \ {e}) \in Nat /\ entries[e].size \in Nat
      /\ Load(entries, Left) = Load(entries, Left \ {e}) + entries[e].size
  BY <1>3, LoadOfOne
<1>8. heap[r].next # NULL => heap[r].size > Load(entries, Left)
  BY <1>4, <1>5 DEF RoomInv, Gaps
<1>9. heap[r].next # NULL => entries[e].size < heap[r].size
  BY <1>6, <1>7, <1>8
<1>10. r # First \/ entries[e].size < heap[r].size
  BY <1>2, <1>5, <1>9, HeadHasRoom
<1>11. WholeInv' /\ Cut(e, r, start)
  BY <1>1, <1>2, <1>4, <1>6, <1>9, <1>10, InsertKeepsWhole DEF RoomInv
<1> QED
  BY <1>1, <1>2, <1>3, <1>4, <1>5, <1>6, <1>7, <1>8, <1>11

LEMMA PlaceMovableKeeps ==
  ASSUME PlacementInv, ChainInv, RoomInv, PlaceMovable
  PROVE  RoomInv'
<1>1. PICK e \in Largest : \E r \in FirstFit(e) : Insert(e, r, heap[r].start)
  BY DEF PlaceMovable
<1>2. PICK r \in FirstFit(e) : Insert(e, r, heap[r].start)
  BY <1>1
<1>3. PICK start : start = heap[r].start
  OBVIOUS
<1>4. phase = "movable" /\ ~Dangling /\ entries' = entries /\ phase' = phase
  BY <1>2 DEF PlaceMovable, AtMovable, Insert
<1>5. /\ e \in Entry /\ region[e] = NULL /\ ~entries[e].fixed /\ e \in Left
      /\ r \in Live /\ r \in DOMAIN heap /\ heap[r].type = "free"
      /\ start \in Nat /\ heap[r].size \in Nat
      /\ heap[r].next # NULL => heap[r].size > Load(entries, Left)
      /\ WholeInv' /\ Cut(e, r, start)
  BY <1>2, <1>3, <1>4, MovableCuts
<1>6. /\ Load(entries, Left \ {e}) \in Nat /\ entries[e].size \in Nat
      /\ Load(entries, Left) = Load(entries, Left \ {e}) + entries[e].size
  BY <1>5, LoadOfOne
<1>7. heap' \in Seq(Node) /\ \A f \in Entry : Placed(f)' <=> Placed(f) \/ f = e
  BY <1>2, <1>3, <1>4, <1>5, InsertPlaces
<1>8. Left' = Left \ {e}
  BY <1>4, <1>5, <1>7 DEF Left, Placed, Entry
<1>9. ASSUME NEW q \in Live', heap'[q].type = "free", heap'[q].next # NULL
       PROVE  heap'[q].size > Load(entries, Left \ {e})
  <2>1. q \in 1 .. Len(heap')
    BY <1>7, LenProperties DEF Live
  <2>2. heap'[q].size \in Nat /\ heap'[q].start \in Nat
    BY <1>7, <2>1, Numbers
  <2>3. CASE AsBefore(q, r)
    <3>1. heap'[q].size = heap[q].size /\ heap[q].size > Load(entries, Left)
      BY <1>4, <1>9, <2>3 DEF AsBefore, RoomInv, Gaps
    <3> QED
      BY <1>6, <2>2, <3>1
  <2>4. CASE LeftBefore(q, r, start)
    <3>1. heap'[q].start + heap'[q].size = heap'[q].start /\ heap'[q].size # 0
      BY <1>3, <2>4 DEF LeftBefore
    <3> QED
      BY <2>2, <3>1
  <2>5. CASE LeftBehind(q, e, r, start)
    <3>1. /\ heap'[q].start = start + entries[e].size /\ heap[r].next # NULL
          /\ heap'[q].start + heap'[q].size = start + heap[r].size
      BY <1>3, <1>9, <2>5 DEF LeftBehind, Ends
    <3>2. heap[r].size > Load(entries, Left)
      BY <1>5, <3>1
    <3> QED
      BY <1>5, <1>6, <2>2, <3>1, <3>2
  <2>6. CASE IsNew(q, e, start)
    BY <1>9, <2>6 DEF IsNew
  <2> QED
    BY <1>5, <2>3, <2>4, <2>5, <2>6 DEF Cut
<1>10. Gaps' /\ Behind'
  BY <1>4, <1>8, <1>9 DEF Gaps, Behind
<1> QED
  BY <1>4, <1>5, <1>10 DEF RoomInv

LEMMA RoomInit ==
  ASSUME Init, Roomy(entries)
  PROVE  RoomInv
<1> DEFINE new == NewRegion("free", 0, MaxAddr, 0)
<1>1. entries \in Inputs /\ phase = "static" /\ i = 1 /\ chain = 1 /\ heap = <<new>>
      /\ MaxAddr \in Nat
  BY LinkerAssumption DEF Init
<1>2. new.type = "free" /\ new.start = 0 /\ new.size = MaxAddr /\ new.next = NULL
      /\ new.prev = NULL
  BY DEF NewRegion
<1> HIDE DEF new
<1>3. Len(heap) = 1 /\ heap[1] = new /\ 1 .. Len(heap) = {1} /\ DOMAIN heap = {1}
  BY <1>1
<1>4. WholeInv
  BY <1>1, <1>2, <1>3 DEF WholeInv, Dangling, Whole, HeadOf
<1>5. Live = {1}
  BY <1>2, <1>3 DEF Live
<1>6. Left = Others(entries)
  BY DEF Init, Left, Others, Entry
<1>7. Bottom(entries, 1) = 0
  <2>1. 1 \in 1 .. Len(entries) + 1
    BY <1>1, InputIs
  <2>2. Bottom(entries, 1) \in {0}
    BY <1>1, <2>1, EndsOne, BottomIs
  <2> QED
    BY <2>2
<1>8. Behind /\ Gaps
  BY <1>1, <1>2, <1>3, <1>5, <1>6, <1>7 DEF Behind, Gaps
<1> QED
  BY <1>4, <1>8 DEF RoomInv

LEMMA RoomNext ==
  ASSUME PlacementInv, ChainInv, RoomInv, [Next]_vars
  PROVE  RoomInv'
<1>1. CASE PlaceStatic
  BY <1>1, PlaceStaticKeeps
<1>2. CASE PlaceMovable
  BY <1>2, PlaceMovableKeeps
<1>3. CASE SkipMovable
  <2>1. /\ phase = "static" /\ i \in Entry /\ ~entries[i].fixed /\ i' = i + 1
        /\ UNCHANGED <<entries, heap, chain, region, phase>> /\ entries \in Inputs
    BY <1>3, Sections DEF SkipMovable, PlacementInv
  <2>2. Bottom(entries, i + 1) = Bottom(entries, i)
    <3>1. i \in DOMAIN entries
      BY <2>1 DEF Entry
    <3>2. EndsBefore(entries, i + 1) =
            EndsBefore(entries, i) \cup IF entries[i].fixed
                                         THEN {entries[i].origin + entries[i].size} ELSE {}
      BY <2>1, <3>1, EndsNext
    <3>3. EndsBefore(entries, i + 1) = EndsBefore(entries, i)
      BY <2>1, <3>2
    <3> QED
      BY <3>3 DEF Bottom
  <2>3. Live' = Live /\ Left' = Left /\ WholeInv'
    BY <2>1 DEF Live, Left, Entry, RoomInv, WholeInv, Dangling
  <2>4. Behind'
    BY <2>1, <2>2, <2>3 DEF RoomInv, Behind, Ends
  <2>5. Gaps'
    BY <2>1, <2>3 DEF RoomInv, Gaps
  <2> QED
    BY <2>1, <2>3, <2>4, <2>5 DEF RoomInv
<1>4. CASE ~(PlaceStatic \/ PlaceMovable \/ SkipMovable)
  <2>1. /\ UNCHANGED <<entries, heap, chain, region>>
        /\ phase' = "static" => UNCHANGED <<phase, i>>
        /\ phase' = "movable" => phase \in {"static", "movable"}
    BY <1>4 DEF Next, vars, StaticFails, Advance, MovableFails,
                MovablesPlaced, UseAfterFree, CollectSymbols, WriteImage, LinkSection,
                Ended, End, AtStatic, AtMovable
  <2>2. Live' = Live /\ Left' = Left /\ WholeInv'
    BY <2>1 DEF Live, Left, Entry, RoomInv, WholeInv, Dangling
  <2>3. Behind'
    BY <2>1, <2>2 DEF RoomInv, Behind, Ends
  <2>4. Gaps'
    BY <2>1, <2>2 DEF RoomInv, Gaps
  <2> QED
    BY <2>1, <2>2, <2>3, <2>4 DEF RoomInv
<1> QED
  BY <1>1, <1>2, <1>3, <1>4

LEMMA WholeSpecIsSpec == WholeSpec => Spec
BY DEF WholeSpec, Spec

(* No step of the linker touches its list: it is orderly all along or      *)
(* never.                                                                  *)
LEMMA OrderStays ==
  ASSUME [Next]_vars
  PROVE  entries' = entries
BY DEF Next, SkipMovable, PlaceStatic, StaticFails, Advance, PlaceMovable, MovableFails,
       MovablesPlaced, UseAfterFree, CollectSymbols, WriteImage, LinkSection, Ended, Insert,
       End, vars

LEMMA DisorderStays == Spec /\ ~Orderly => []~Orderly
<1>1. ~Orderly /\ [Next]_vars => ~Orderly'
  BY OrderStays DEF Orderly
<1> QED
  BY <1>1, PTL DEF Spec

(* The regions of every list of sections that is Roomy hang together while *)
(* the linker runs and after.                                              *)
THEOREM RoomInvariant == WholeSpec => []RoomInv
<1>1. Init /\ Roomy(entries) => RoomInv
  BY RoomInit
<1>2. PlacementInv /\ ChainInv /\ RoomInv /\ [Next]_vars => RoomInv'
  BY RoomNext
<1> QED
  BY <1>1, <1>2, WholeSpecIsSpec, PlacementInvariant, ChainInvariant, PTL
     DEF WholeSpec, Orderly

LEMMA WalkIsLive ==
  ASSUME PlacementInv, ChainInv, RoomInv
  PROVE  ToSet(Regions) = Live
<1>1. /\ ~Dangling /\ heap \in Seq(Node) /\ DOMAIN heap = 1 .. Len(heap)
      /\ Chained(heap, Len(heap))
  BY LenProperties DEF RoomInv, WholeInv, PlacementInv, ChainInv
<1>2. /\ First = HeadOf(heap, chain) /\ First \in 1 .. Len(heap)
      /\ Headed(heap, First) /\ Path(heap, First, Regions)
  BY <1>1, Walked
<1>3. Whole(heap, Len(heap), First, MaxAddr)
  BY <1>2 DEF RoomInv, WholeInv
<1>4. \A r \in 1 .. Len(heap) :
        heap[r].type # "freed" => \E k \in 1 .. Len(Regions) : Regions[k] = r
  BY <1>1, <1>2, <1>3, WalkMeetsAll DEF Regions
<1>5. DOMAIN Regions = 1 .. Len(Regions) /\ Regions \in Seq(1 .. Len(heap))
  BY <1>2, LenProperties DEF Path
<1>6. \A k \in 1 .. Len(Regions) : Regions[k] \in Live
  BY <1>1, <1>2, <1>5, ElementOfSeq DEF Path, Live
<1> QED
  BY <1>1, <1>4, <1>5, <1>6 DEF ToSet, Live

(* No insertion cuts a region off: the walk of the linker meets all of     *)
(* them (ld_region_insert, place_static_regions, place_movable_regions).   *)
THEOREM ChainKeepsAll == Spec => []ChainComplete
<1>1. PlacementInv /\ ChainInv /\ RoomInv => ChainComplete
  BY WalkIsLive DEF ChainComplete, RoomInv, WholeInv
<1>2. ~Orderly => ChainComplete
  BY DEF ChainComplete
<1>3. Spec /\ Orderly => WholeSpec
  BY DEF Spec, WholeSpec
<1> QED
  BY <1>1, <1>2, <1>3, RoomInvariant, DisorderStays, PlacementInvariant, ChainInvariant, PTL

-----------------------------------------------------------------------------
(* Where sections are, and that they share no byte.                        *)
LEMMA PlaceOf ==
  ASSUME PlacementInv, NEW e \in Entry, Placed(e)
  PROVE  /\ region[e] \in 1 .. Len(heap) /\ region[e] \in Live
         /\ heap[region[e]].type = "alloc" /\ heap[region[e]].section = e
         /\ heap[region[e]].size = entries[e].size
         /\ heap[region[e]].start \in Nat /\ entries[e].size \in Nat
<1>1. heap \in Seq(Node) /\ region \in [Entry -> 0 .. Len(heap)] /\ Len(heap) \in Nat
      /\ DOMAIN heap = 1 .. Len(heap)
  BY LenProperties DEF PlacementInv
<1>2. region[e] \in 1 .. Len(heap)
  BY <1>1 DEF Placed, NULL
<1>3. /\ heap[region[e]].type = "alloc" /\ heap[region[e]].section = e
      /\ heap[region[e]].size = entries[e].size
  BY DEF PlacementInv, SectionsPlaced
<1>4. heap[region[e]].start \in Nat /\ heap[region[e]].size \in Nat
  BY <1>1, <1>2, Numbers
<1> QED
  BY <1>1, <1>2, <1>3, <1>4 DEF Live

LEMMA BytesApart ==
  ASSUME PlacementInv, NEW e \in Entry, NEW f \in Entry, Placed(e), Placed(f), e # f,
         NEW j \in Nat, NEW k \in Nat, j < entries[e].size, k < entries[f].size
  PROVE  Address(e, j) # Address(f, k)
<1>1. /\ region[e] \in Live /\ region[f] \in Live /\ region[e] # region[f]
      /\ heap[region[e]].size = entries[e].size /\ heap[region[f]].size = entries[f].size
      /\ heap[region[e]].start \in Nat /\ heap[region[f]].start \in Nat
      /\ entries[e].size \in Nat /\ entries[f].size \in Nat
  BY PlaceOf
<1>2. Apart(region[e], region[f])
  BY <1>1 DEF PlacementInv, RegionsApart
<1> QED
  BY <1>1, <1>2 DEF Apart, Ends, Address

(* The image of the memory has all the code of a section that is placed.   *)
LEMMA SectionInImage ==
  ASSUME PlacementInv, ChainInv, RoomInv, NEW e \in Entry, Placed(e),
         NEW k \in Nat, k < entries[e].size
  PROVE  Address(e, k) \in DOMAIN Image /\ Image[Address(e, k)] = Code(e, k)
<1> DEFINE a  == Address(e, k)
           q  == region[e]
           At2 == {r \in ToSet(Regions) : heap[r].start <= a /\ a < Ends(r)}
<1>1. /\ q \in 1 .. Len(heap) /\ q \in Live
      /\ heap[q].type = "alloc" /\ heap[q].section = e
      /\ heap[q].size = entries[e].size
      /\ heap[q].start \in Nat /\ entries[e].size \in Nat
  BY PlaceOf
<1>2. a = heap[q].start + k /\ a \in Nat /\ heap[q].start <= a /\ a < Ends(q)
      /\ a - heap[q].start = k
  BY <1>1 DEF Address, Ends
<1> HIDE DEF q
<1>3. Ends(q) = heap[q].start + heap[q].size /\ Ends(q) \in Nat /\ heap[q].size \in Nat
  BY <1>1 DEF Ends
<1> HIDE DEF a
<1>4. q \in At2 /\ ToSet(Regions) = Live
  BY <1>1, <1>2, WalkIsLive
<1>5. ASSUME NEW r \in At2 PROVE r = q
  <2>1. r \in Live /\ heap[r].start <= a /\ a < Ends(r)
    BY <1>4
  <2>2. r \in 1 .. Len(heap) /\ heap \in Seq(Node)
    BY <2>1, LenProperties DEF PlacementInv, Live
  <2>3. heap[r].start \in Nat /\ heap[r].size \in Nat
    BY <2>2, Numbers
  <2>4. r # q => Ends(r) <= heap[q].start \/ Ends(q) <= heap[r].start
    BY <1>1, <2>1 DEF PlacementInv, RegionsApart, Apart
  <2>5. Ends(r) \in Nat
    BY <2>3 DEF Ends
  <2> QED
    BY <1>1, <1>2, <1>3, <2>1, <2>3, <2>4, <2>5
<1>6. ~Dangling /\ heap \in Seq(Node)
  BY DEF RoomInv, WholeInv, PlacementInv
<1>7. /\ Path(heap, First, Regions) /\ Regions \in Seq(1 .. Len(heap))
      /\ DOMAIN Regions = 1 .. Len(Regions) /\ Len(Regions) \in Nat
  <2>1. Path(heap, First, Regions)
    BY <1>6, Walked
  <2> QED
    BY <2>1, LenProperties DEF Path
<1>8. PICK m \in 1 .. Len(Regions) : Regions[m] = q
  BY <1>4, <1>7 DEF ToSet
<1>9. m \in Used /\ Used \subseteq 1 .. Len(Regions)
  BY <1>1, <1>7, <1>8 DEF Used
<1>10. Max(Used) \in Used /\ m <= Max(Used)
  <2>1. Used \subseteq Nat /\ \A x \in Used : x <= Len(Regions)
    BY <1>7, <1>9
  <2> QED
    BY <1>7, <1>9, <2>1, Greatest
<1>11. PICK t \in 1 .. Len(Regions) : t = Max(Used)
  BY <1>9, <1>10
<1>12. OutputSize = Ends(Regions[t]) /\ Regions[t] \in 1 .. Len(heap)
  <2>1. Used # {}
    BY <1>9
  <2>2. OutputSize = Ends(Regions[Max(Used)])
    BY <2>1 DEF OutputSize
  <2> QED
    BY <1>7, <1>11, <2>2, ElementOfSeq
<1>13. heap[Regions[t]].start \in Nat /\ heap[Regions[t]].size \in Nat
  BY <1>6, <1>12, Numbers
<1>14. Ends(Regions[t]) \in Nat
  BY <1>13 DEF Ends
<1>15. Ends(q) <= Ends(Regions[t])
  <2>1. CASE m = t
    BY <1>8, <1>13, <2>1 DEF Ends
  <2>2. CASE m # t
    <3>1. m < t
      BY <1>7, <1>10, <1>11, <2>2
    <3>2. heap[Regions[m]].start + heap[Regions[m]].size <= heap[Regions[t]].start
      BY <1>6, <1>7, <3>1, PathGoesUp
    <3>3. PICK s \in Nat, z \in Nat :
            s = heap[Regions[t]].start /\ z = heap[Regions[t]].size
      BY <1>13
    <3>4. Ends(q) <= s
      BY <1>8, <3>2, <3>3 DEF Ends
    <3>5. Ends(Regions[t]) = s + z
      BY <3>3 DEF Ends
    <3>6. PICK x \in Nat : x = Ends(q)
      BY <1>3
    <3>7. x <= s + z
      BY <3>3, <3>4, <3>6
    <3> QED
      BY <3>5, <3>6, <3>7
  <2> QED
    BY <2>1, <2>2
<1>16. a \in 0 .. OutputSize - 1
  BY <1>2, <1>12, <1>15, <1>3, <1>14
<1>17. a \in DOMAIN Image /\
       Image[a] = LET r == CHOOSE r \in At2 : TRUE
                  IN  IF At2 = {} THEN Junk
                      ELSE IF heap[r].type = "alloc"
                             THEN Code(heap[r].section, a - heap[r].start)
                      ELSE IF Zeroed(r) THEN Zero ELSE Junk
  BY <1>16 DEF Image
<1>18. At2 # {} /\ (CHOOSE r \in At2 : TRUE) = q
  BY <1>4, <1>5
<1> HIDE DEF At2
<1>19. Image[a] = Code(heap[q].section, a - heap[q].start)
  BY <1>1, <1>17, <1>18
<1> QED
  BY <1>1, <1>2, <1>17, <1>19 DEF a

-----------------------------------------------------------------------------
(* The first of a name in a list.                                          *)
LEMMA FirstNamedIs ==
  ASSUME NEW seq, NEW n \in Nat, DOMAIN seq = 1 .. n, NEW name, Named(seq, name)
  PROVE  /\ FirstNamed(seq, name) \in 1 .. n /\ seq[FirstNamed(seq, name)].name = name
         /\ \A j \in 1 .. n : seq[j].name = name => FirstNamed(seq, name) <= j
<1> DEFINE named == {k \in DOMAIN seq : seq[k].name = name}
<1>1. named \subseteq Nat /\ named # {}
  BY DEF Named
<1>2. \E k \in named : \A j \in named : k <= j
  BY <1>1, LeastNat
<1>3. FirstNamed(seq, name) = CHOOSE k \in named : \A j \in named : k <= j
  BY DEF FirstNamed
<1>4. FirstNamed(seq, name) \in named /\ \A j \in named : FirstNamed(seq, name) <= j
  BY <1>2, <1>3
<1> QED
  BY <1>4

FirstOf(seq, n, name, k) ==
  /\ DOMAIN seq = 1 .. n /\ k \in 1 .. n /\ seq[k].name = name
  /\ \A j \in 1 .. n : seq[j].name = name => k <= j

LEMMA FirstNamedAt ==
  ASSUME NEW seq, NEW n \in Nat, NEW name, NEW k, FirstOf(seq, n, name, k)
  PROVE  Named(seq, name) /\ FirstNamed(seq, name) = k
<1>0. /\ DOMAIN seq = 1 .. n /\ k \in 1 .. n /\ seq[k].name = name
      /\ \A j \in 1 .. n : seq[j].name = name => k <= j
  BY DEF FirstOf
<1>1. Named(seq, name)
  BY <1>0 DEF Named
<1>2. /\ FirstNamed(seq, name) \in 1 .. n /\ FirstNamed(seq, name) <= k
      /\ seq[FirstNamed(seq, name)].name = name
  BY <1>0, <1>1, FirstNamedIs
<1>3. k <= FirstNamed(seq, name)
  BY <1>0, <1>2
<1> QED
  BY <1>0, <1>1, <1>2, <1>3

IsList(s) == Len(s) \in Nat /\ s \in [1 .. Len(s) -> {s[k] : k \in 1 .. Len(s)}]

LEMMA Concatenated ==
  ASSUME NEW s, NEW t, IsList(s), IsList(t)
  PROVE  /\ IsList(s \o t) /\ Len(s \o t) = Len(s) + Len(t)
         /\ \A k \in 1 .. Len(s) : (s \o t)[k] = s[k]
         /\ \A k \in 1 .. Len(t) : (s \o t)[Len(s) + k] = t[k]
<1> DEFINE S == {s[k] : k \in 1 .. Len(s)} \cup {t[k] : k \in 1 .. Len(t)}
           u == s \o t
<1>1. s \in [1 .. Len(s) -> S] /\ t \in [1 .. Len(t) -> S]
      /\ Len(s) \in Nat /\ Len(t) \in Nat
  BY DEF IsList
<1> HIDE DEF S
<1>2. s \in Seq(S) /\ t \in Seq(S)
  BY <1>1, SeqDef
<1>3. /\ u \in Seq(S) /\ Len(u) = Len(s) + Len(t)
      /\ \A k \in 1 .. Len(s) + Len(t) :
           u[k] = IF k <= Len(s) THEN s[k] ELSE t[k - Len(s)]
  BY <1>2, ConcatProperties
<1> HIDE DEF u
<1>4. \A k \in 1 .. Len(s) : u[k] = s[k]
  <2> TAKE k \in 1 .. Len(s)
  <2>1. k \in 1 .. Len(s) + Len(t) /\ k <= Len(s)
    BY <1>1
  <2> QED
    BY <1>3, <2>1
<1>5. \A k \in 1 .. Len(t) : u[Len(s) + k] = t[k]
  <2> TAKE k \in 1 .. Len(t)
  <2>1. Len(s) + k \in 1 .. Len(s) + Len(t) /\ ~(Len(s) + k <= Len(s))
        /\ (Len(s) + k) - Len(s) = k
    BY <1>1
  <2> QED
    BY <1>3, <2>1
<1>6. IsList(u)
  <2>1. u \in [1 .. Len(u) -> S] /\ Len(u) \in Nat
    BY <1>1, <1>3, LenProperties
  <2> QED
    BY <2>1 DEF IsList
<1> QED
  BY <1>3, <1>4, <1>5, <1>6 DEF u

(* A list that is added behind another gives only the names that the other *)
(* has not.                                                                *)
LEMMA NamedBehind ==
  ASSUME NEW s, NEW t, IsList(s), IsList(t), NEW u, u = s \o t, NEW name
  PROVE  /\ Named(u, name) <=> Named(s, name) \/ Named(t, name)
         /\ Named(s, name) => u[FirstNamed(u, name)] = s[FirstNamed(s, name)]
         /\ ~Named(s, name) /\ Named(t, name)
              => u[FirstNamed(u, name)] = t[FirstNamed(t, name)]
<1>1. PICK l \in Nat, m \in Nat : l = Len(s) /\ m = Len(t)
  BY DEF IsList
<1>2. /\ IsList(u) /\ Len(u) = l + m
      /\ \A k \in 1 .. l : u[k] = s[k]
      /\ \A k \in 1 .. m : u[l + k] = t[k]
  BY <1>1, Concatenated
<1>3. DOMAIN s = 1 .. l /\ DOMAIN t = 1 .. m /\ DOMAIN u = 1 .. l + m
  BY <1>1, <1>2 DEF IsList
<1>4. ASSUME NEW k \in 1 .. l + m
      PROVE  \/ k \in 1 .. l /\ u[k] = s[k]
             \/ l < k /\ k - l \in 1 .. m /\ l + (k - l) = k /\ u[k] = t[k - l]
  <2>1. CASE k <= l
    BY <1>2, <2>1
  <2>2. CASE ~(k <= l)
    <3>1. l < k /\ k - l \in 1 .. m /\ l + (k - l) = k
      BY <2>2
    <3>2. u[l + (k - l)] = t[k - l]
      BY <1>2, <3>1
    <3> QED
      BY <3>1, <3>2
  <2> QED
    BY <2>1, <2>2
<1>5. PICK z \in Nat : z = l + m
  OBVIOUS
<1>6. /\ DOMAIN u = 1 .. z
      /\ \A k \in 1 .. l : k \in 1 .. z
      /\ \A k \in 1 .. m : l + k \in 1 .. z
  BY <1>3, <1>5
<1>7. ASSUME Named(s, name)
      PROVE  Named(u, name) /\ u[FirstNamed(u, name)] = s[FirstNamed(s, name)]
  <2>1. PICK k \in 1 .. l : k = FirstNamed(s, name)
    BY <1>3, <1>7, FirstNamedIs
  <2>2. s[k].name = name /\ \A j \in 1 .. l : s[j].name = name => k <= j
    BY <1>3, <1>7, <2>1, FirstNamedIs
  <2>3. k \in 1 .. z /\ u[k] = s[k]
    BY <1>2, <1>6
  <2>4. ASSUME NEW j \in 1 .. z, u[j].name = name PROVE k <= j
    BY <1>4, <1>5, <2>2, <2>4
  <2>5. Named(u, name) /\ FirstNamed(u, name) = k
    <3>1. FirstOf(u, z, name, k)
      BY <1>6, <2>2, <2>3, <2>4 DEF FirstOf
    <3> QED
      BY <3>1, FirstNamedAt
  <2> QED
    BY <2>1, <2>3, <2>5
<1>8. ASSUME ~Named(s, name), Named(t, name)
      PROVE  Named(u, name) /\ u[FirstNamed(u, name)] = t[FirstNamed(t, name)]
  <2>1. PICK k \in 1 .. m : k = FirstNamed(t, name)
    BY <1>3, <1>8, FirstNamedIs
  <2>2. t[k].name = name /\ \A j \in 1 .. m : t[j].name = name => k <= j
    BY <1>3, <1>8, <2>1, FirstNamedIs
  <2>3. l + k \in 1 .. z /\ u[l + k] = t[k]
    BY <1>2, <1>6
  <2>4. ASSUME NEW j \in 1 .. z, u[j].name = name PROVE l + k <= j
    <3>1. ~(j \in 1 .. l /\ u[j] = s[j])
      BY <1>3, <1>8, <2>4 DEF Named
    <3>2. l < j /\ j - l \in 1 .. m /\ u[j] = t[j - l]
      BY <1>4, <1>5, <3>1
    <3>3. k <= j - l
      BY <2>2, <2>4, <3>2
    <3> QED
      BY <1>5, <3>2, <3>3
  <2>5. Named(u, name) /\ FirstNamed(u, name) = l + k
    <3>1. FirstOf(u, z, name, l + k)
      BY <1>6, <2>2, <2>3, <2>4 DEF FirstOf
    <3> QED
      BY <3>1, FirstNamedAt
  <2> QED
    BY <2>1, <2>3, <2>5
<1>9. Named(u, name) => Named(s, name) \/ Named(t, name)
  BY <1>3, <1>4 DEF Named
<1> QED
  BY <1>7, <1>8, <1>9

-----------------------------------------------------------------------------
(* The invariant of the file under WholeSpec: what has to be placed is     *)
(* placed; the symbols are those of the sections so far, each name with    *)
(* the address of its first exporter; the file has the code of every       *)
(* section and the addresses of the links of the sections so far.          *)
AllPlaced ==
  phase \in {"symbols", "output", "link", "done"} =>
    \A e \in Entry : entries[e].fixed \/ entries[e].size > 0 => Placed(e)

Exported(name) ==
  LET exporters == {f \in Entry : Named(entries[f].exports, name)}
      f         == CHOOSE f \in exporters : \A g \in exporters : f <= g
  IN  Address(f, entries[f].exports[FirstNamed(entries[f].exports, name)].off)

Collected(e) == phase # "symbols" \/ e < i

SymbolsMeet ==
  /\ IsList(symbols)
  /\ phase \in {"static", "movable"} => symbols = <<>>
  /\ phase \in {"symbols", "output", "link", "done"} =>
       \A name :
         /\ Named(symbols, name) <=>
              \E e \in Entry : Collected(e) /\ Named(entries[e].exports, name)
         /\ Named(symbols, name) =>
              symbols[FirstNamed(symbols, name)].addr = Exported(name)

CodeThere ==
  phase \in {"link", "done"} =>
    \A e \in Entry : Placed(e) =>
      \A k \in Nat : k < entries[e].size =>
        /\ Address(e, k) \in DOMAIN output
        /\ Address(e, k) \notin LinkBytes(e) => output[Address(e, k)] = Code(e, k)

Linked(e, k) ==
  LET target == Target(e, entries[e].links[k].name)
  IN  output[At(e, k)] = Low(target) /\ output[At(e, k) + 1] = High(target)

LinksThere ==
  phase \in {"link", "done"} =>
    \A e \in Entry : phase = "done" \/ e < i =>
      \A k \in DOMAIN entries[e].links : Linked(e, k)

FileInv ==
  /\ Linkable(entries) /\ phase # "undefined"
  /\ AllPlaced /\ SymbolsMeet /\ CodeThere /\ LinksThere

(* What the assumption says of the links of a section.                     *)
LEMMA LinkIs ==
  ASSUME PlacementInv, Linkable(entries), AllPlaced, NEW e \in Entry,
         NEW k \in DOMAIN entries[e].links,
         phase \in {"symbols", "output", "link", "done"}
  PROVE  /\ Placed(e) /\ entries[e].links[k].off \in Nat
         /\ entries[e].links[k].off + 1 \in Nat
         /\ entries[e].links[k].off < entries[e].size
         /\ entries[e].links[k].off + 1 < entries[e].size
         /\ At(e, k) = Address(e, entries[e].links[k].off)
         /\ At(e, k) + 1 = Address(e, entries[e].links[k].off + 1)
<1>1. entries \in Inputs /\ e \in DOMAIN entries
  BY DEF PlacementInv, Entry
<1>2. entries[e].links[k].off \in Nat /\ entries[e].size \in Nat
  BY <1>1, LinkerAssumption
<1>3. entries[e].links[k].off + 1 < entries[e].size
  BY <1>1 DEF Linkable
<1>4. entries[e].size > 0
  BY <1>2, <1>3
<1>5. Placed(e)
  BY <1>4 DEF AllPlaced
<1>6. heap[region[e]].start \in Nat
  BY <1>5, PlaceOf
<1>7. At(e, k) = Address(e, entries[e].links[k].off)
  BY DEF At
<1>8. At(e, k) + 1 = Address(e, entries[e].links[k].off + 1)
  BY <1>2, <1>6, <1>7 DEF Address
<1> QED
  BY <1>2, <1>3, <1>5, <1>7, <1>8

(* The bytes of the links of a section are its own.                        *)
LEMMA LinkBytesOwn ==
  ASSUME PlacementInv, Linkable(entries), AllPlaced,
         phase \in {"symbols", "output", "link", "done"},
         NEW e \in Entry, NEW f \in Entry, e # f, Placed(e),
         NEW k \in Nat, k < entries[e].size
  PROVE  Address(e, k) \notin LinkBytes(f)
<1>1. ASSUME NEW m \in DOMAIN entries[f].links
      PROVE  Address(e, k) \notin {At(f, m), At(f, m) + 1}
  <2>1. PICK off : off = entries[f].links[m].off
    OBVIOUS
  <2>2. /\ Placed(f) /\ off \in Nat /\ off + 1 \in Nat
        /\ off < entries[f].size /\ off + 1 < entries[f].size
        /\ At(f, m) = Address(f, off) /\ At(f, m) + 1 = Address(f, off + 1)
    BY <2>1, LinkIs
  <2>3. Address(e, k) # Address(f, off) /\ Address(e, k) # Address(f, off + 1)
    BY <2>2, BytesApart
  <2> QED
    BY <2>2, <2>3
<1> QED
  BY <1>1 DEF LinkBytes

(* Two link points of a section do not meet.                               *)
LEMMA LinksApart ==
  ASSUME PlacementInv, Linkable(entries), AllPlaced, NEW e \in Entry,
         NEW k \in DOMAIN entries[e].links, NEW m \in DOMAIN entries[e].links, k # m,
         phase \in {"symbols", "output", "link", "done"}
  PROVE  {At(e, k), At(e, k) + 1} \cap {At(e, m), At(e, m) + 1} = {}
<1>1. PICK a \in Nat, b \in Nat : a = entries[e].links[k].off /\ b = entries[e].links[m].off
  BY LinkIs
<1>2. a + 1 < b \/ b + 1 < a
  BY <1>1 DEF Linkable, Entry
<1>3. Placed(e) /\ At(e, k) = Address(e, a) /\ At(e, m) = Address(e, b)
  BY <1>1, LinkIs
<1>4. heap[region[e]].start \in Nat
  BY <1>3, PlaceOf
<1> QED
  BY <1>1, <1>2, <1>3, <1>4 DEF Address

(* What the writes of one section do to the file.                          *)
LEMMA PatchedElsewhere ==
  ASSUME NEW e, NEW a \in DOMAIN output, a \notin LinkBytes(e)
  PROVE  a \in DOMAIN Patched(e) /\ Patched(e)[a] = output[a]
<1>1. {k \in DOMAIN entries[e].links : a \in {At(e, k), At(e, k) + 1}} = {}
  BY DEF LinkBytes
<1> QED
  BY <1>1 DEF Patched

LEMMA PatchedHere ==
  ASSUME PlacementInv, Linkable(entries), AllPlaced, NEW e \in Entry,
         NEW k \in DOMAIN entries[e].links,
         phase \in {"symbols", "output", "link", "done"},
         {At(e, k), At(e, k) + 1} \subseteq DOMAIN output
  PROVE  /\ Patched(e)[At(e, k)] = Low(Resolve(e, entries[e].links[k].name))
         /\ Patched(e)[At(e, k) + 1] = High(Resolve(e, entries[e].links[k].name))
<1> DEFINE Here(a) == {m \in DOMAIN entries[e].links : a \in {At(e, m), At(e, m) + 1}}
<1>1. \A m \in DOMAIN entries[e].links :
        m # k => {At(e, k), At(e, k) + 1} \cap {At(e, m), At(e, m) + 1} = {}
  BY LinksApart
<1>2. Here(At(e, k)) = {k} /\ Here(At(e, k) + 1) = {k}
  BY <1>1
<1>3. k \in Nat /\ Max({k}) = k
  <2>1. entries \in Inputs /\ e \in DOMAIN entries
    BY DEF PlacementInv, Entry
  <2>2. k \in Nat
    BY <2>1, LinkerAssumption
  <2> QED
    BY <2>2 DEF Max
<1>4. At(e, k) + 1 # At(e, k)
  <2>1. Placed(e) /\ entries[e].links[k].off \in Nat
        /\ At(e, k) = Address(e, entries[e].links[k].off)
    BY LinkIs
  <2>2. heap[region[e]].start \in Nat
    BY <2>1, PlaceOf
  <2> QED
    BY <2>1, <2>2 DEF Address
<1>5. Patched(e) =
        [a \in DOMAIN output |->
           IF Here(a) = {} THEN output[a]
           ELSE IF a = At(e, Max(Here(a)))
                  THEN Low(Resolve(e, entries[e].links[Max(Here(a))].name))
                  ELSE High(Resolve(e, entries[e].links[Max(Here(a))].name))]
  BY DEF Patched
<1> HIDE DEF Here
<1> QED
  BY <1>2, <1>3, <1>4, <1>5

(* A name leads to what is meant, by the tables of the linker.             *)
LEMMA ResolveIsTarget ==
  ASSUME SymbolsMeet, NEW e, NEW name, CanResolve(e, name),
         phase \in {"symbols", "output", "link", "done"}
  PROVE  Resolve(e, name) = Target(e, name)
<1>1. CASE Named(entries[e].symbols, name)
  BY <1>1 DEF Resolve, Target
<1>2. CASE ~Named(entries[e].symbols, name)
  <2>1. Named(symbols, name)
    BY <1>2 DEF CanResolve
  <2>2. symbols[FirstNamed(symbols, name)].addr = Exported(name)
    BY <2>1 DEF SymbolsMeet
  <2>3. Target(e, name) = Exported(name)
    BY <1>2 DEF Target, Exported
  <2> QED
    BY <1>2, <2>2, <2>3 DEF Resolve
<1> QED
  BY <1>1, <1>2

(* Names and targets do not change while nothing is placed.                *)
LEMMA TargetsStay ==
  ASSUME UNCHANGED <<entries, heap, region>>
  PROVE  /\ Entry' = Entry
         /\ \A e : Placed(e)' <=> Placed(e)
         /\ \A e, k : Address(e, k)' = Address(e, k) /\ At(e, k)' = At(e, k)
         /\ \A e : LinkBytes(e)' = LinkBytes(e)
         /\ \A name : Exported(name)' = Exported(name)
         /\ \A e, name : Target(e, name)' = Target(e, name)
BY DEF Entry, Placed, Address, At, LinkBytes, Exported, Target

LEMMA LinkSectionKeeps ==
  ASSUME PlacementInv, FileInv, LinkSection
  PROVE  FileInv'
<1>1. /\ phase = "link" /\ i \in Entry /\ i \in Nat /\ entries' = entries
      /\ UNCHANGED <<entries, heap, region, symbols>>
  <2>1. phase = "link" /\ i <= Len(entries)
        /\ UNCHANGED <<entries, heap, region, symbols>>
    BY DEF LinkSection, End
  <2> QED
    BY <2>1, Sections DEF PlacementInv
<1>2. ASSUME NEW k \in DOMAIN entries[i].links
      PROVE  region[i] # NULL /\ {At(i, k), At(i, k) + 1} \subseteq DOMAIN output
  <2>1. PICK off : off = entries[i].links[k].off
    OBVIOUS
  <2>2. /\ Placed(i) /\ off \in Nat /\ off + 1 \in Nat
        /\ off < entries[i].size /\ off + 1 < entries[i].size
        /\ At(i, k) = Address(i, off) /\ At(i, k) + 1 = Address(i, off + 1)
    BY <1>1, <2>1, LinkIs DEF FileInv
  <2>3. Address(i, off) \in DOMAIN output /\ Address(i, off + 1) \in DOMAIN output
    BY <1>1, <2>2 DEF FileInv, CodeThere
  <2> QED
    BY <2>2, <2>3 DEF Placed
<1>3. \A k \in Broken(i) : ~CanResolve(i, entries[i].links[k].name)
  BY <1>2 DEF Broken
<1>4. CASE Broken(i) # {}
  <2>1. Min(Broken(i)) \in Broken(i)
    <3>1. Broken(i) \subseteq Nat
      <4>1. entries \in Inputs /\ i \in DOMAIN entries
        BY <1>1 DEF PlacementInv, Entry
      <4>2. DOMAIN entries[i].links \subseteq Nat
        BY <4>1, LinkerAssumption
      <4> QED
        BY <4>2 DEF Broken
    <3>2. \E k \in Broken(i) : \A m \in Broken(i) : k <= m
      BY <1>4, <3>1, LeastNat
    <3> QED
      BY <3>2 DEF Min
  <2>2. phase' = "failed"
    BY <1>3, <1>4, <2>1 DEF LinkSection, End
  <2> QED
    BY <1>1, <2>2 DEF FileInv, AllPlaced, SymbolsMeet, CodeThere, LinksThere
<1>5. CASE Broken(i) = {}
  <2>1. output' = Patched(i) /\ i' = i + 1 /\ phase' = phase
    BY <1>5 DEF LinkSection, End
  <2>2. DOMAIN output' = DOMAIN output
    BY <2>1 DEF Patched
  <2>3. /\ Entry' = Entry
        /\ \A e : Placed(e)' <=> Placed(e)
        /\ \A e, k : Address(e, k)' = Address(e, k) /\ At(e, k)' = At(e, k)
        /\ \A e : LinkBytes(e)' = LinkBytes(e)
        /\ \A e, name : Target(e, name)' = Target(e, name)
    BY <1>1, TargetsStay
  <2>4. CodeThere'
    <3> SUFFICES ASSUME NEW e \in Entry, Placed(e), NEW k \in Nat, k < entries[e].size
                 PROVE  /\ Address(e, k) \in DOMAIN output'
                        /\ Address(e, k) \notin LinkBytes(e) =>
                             output'[Address(e, k)] = Code(e, k)
      BY <1>1, <2>3 DEF CodeThere, Code
    <3>1. /\ Address(e, k) \in DOMAIN output
          /\ Address(e, k) \notin LinkBytes(e) => output[Address(e, k)] = Code(e, k)
      BY <1>1 DEF FileInv, CodeThere
    <3>2. ASSUME Address(e, k) \notin LinkBytes(e)
          PROVE  output'[Address(e, k)] = output[Address(e, k)]
      <4>1. Address(e, k) \notin LinkBytes(i)
        BY <1>1, <3>2, LinkBytesOwn DEF FileInv
      <4> QED
        BY <2>1, <3>1, <4>1, PatchedElsewhere
    <3> QED
      BY <2>2, <3>1, <3>2
  <2>5. LinksThere'
    <3> SUFFICES ASSUME NEW e \in Entry, e < i + 1, NEW k \in DOMAIN entries[e].links
                 PROVE  Linked(e, k)'
      BY <1>1, <2>1, <2>3 DEF LinksThere
    <3>1. PICK target : target = Target(e, entries[e].links[k].name)
      OBVIOUS
    <3>2. SUFFICES /\ output'[At(e, k)] = Low(target)
                   /\ output'[At(e, k) + 1] = High(target)
      BY <1>1, <2>3, <3>1 DEF Linked, Low, High
    <3>3. CASE e = i
      <4>1. CanResolve(i, entries[i].links[k].name)
        BY <1>5, <3>3 DEF Broken
      <4>2. Resolve(i, entries[i].links[k].name) = target
        BY <1>1, <3>1, <3>3, <4>1, ResolveIsTarget DEF FileInv
      <4>3. {At(i, k), At(i, k) + 1} \subseteq DOMAIN output
        BY <1>2, <3>3
      <4>4. /\ Patched(i)[At(i, k)] = Low(Resolve(i, entries[i].links[k].name))
            /\ Patched(i)[At(i, k) + 1] = High(Resolve(i, entries[i].links[k].name))
        BY <1>1, <3>3, <4>3, PatchedHere DEF FileInv
      <4> QED
        BY <2>1, <3>3, <4>2, <4>4
    <3>4. CASE e # i
      <4>1. e < i
        BY <1>1, <3>4, Sections
      <4>2. output[At(e, k)] = Low(target) /\ output[At(e, k) + 1] = High(target)
        BY <1>1, <3>1, <4>1 DEF FileInv, LinksThere, Linked
      <4>3. PICK off : off = entries[e].links[k].off
        OBVIOUS
      <4>4. /\ Placed(e) /\ off \in Nat /\ off + 1 \in Nat
            /\ off < entries[e].size /\ off + 1 < entries[e].size
            /\ At(e, k) = Address(e, off) /\ At(e, k) + 1 = Address(e, off + 1)
        BY <1>1, <4>3, LinkIs DEF FileInv
      <4>5. /\ Address(e, off) \notin LinkBytes(i) /\ Address(e, off + 1) \notin LinkBytes(i)
        BY <1>1, <3>4, <4>4, LinkBytesOwn DEF FileInv
      <4>6. Address(e, off) \in DOMAIN output /\ Address(e, off + 1) \in DOMAIN output
        BY <1>1, <4>4 DEF FileInv, CodeThere
      <4>7. /\ output'[At(e, k)] = output[At(e, k)]
            /\ output'[At(e, k) + 1] = output[At(e, k) + 1]
        BY <2>1, <4>4, <4>5, <4>6, PatchedElsewhere
      <4> QED
        BY <4>2, <4>7
    <3> QED
      BY <3>3, <3>4
  <2>6. AllPlaced' /\ SymbolsMeet'
    <3>1. AllPlaced'
      BY <1>1, <2>1, <2>3 DEF FileInv, AllPlaced
    <3>2. \A name : Exported(name)' = Exported(name)
      BY <1>1, TargetsStay
    <3>3. SymbolsMeet'
      BY <1>1, <2>1, <2>3, <3>2 DEF FileInv, SymbolsMeet, Collected
    <3> QED
      BY <3>1, <3>3
  <2> QED
    BY <1>1, <2>1, <2>4, <2>5, <2>6 DEF FileInv
<1> QED
  BY <1>4, <1>5

LEMMA CollectSymbolsKeeps ==
  ASSUME PlacementInv, FileInv, CollectSymbols
  PROVE  FileInv'
<1> DEFINE exports == entries[i].exports
           t == [k \in DOMAIN exports |->
                   [name |-> exports[k].name, addr |-> Address(i, exports[k].off)]]
<1>1. phase = "symbols" /\ i \in Entry /\ i \in Nat /\ entries \in Inputs
  BY Sections DEF CollectSymbols, PlacementInv
<1>2. ~(region[i] = NULL /\ exports # <<>>)
  <2>1. exports # <<>> => entries[i].fixed \/ entries[i].size > 0
    BY <1>1 DEF FileInv, Linkable, Entry
  <2>2. exports # <<>> => Placed(i)
    BY <1>1, <2>1 DEF FileInv, AllPlaced
  <2> QED
    BY <2>2 DEF Placed
<1>3. /\ symbols' = symbols \o t /\ i' = i + 1 /\ phase' = phase
      /\ UNCHANGED <<entries, heap, region, output>>
  BY <1>2 DEF CollectSymbols
<1>4. PICK n \in Nat : DOMAIN exports = 1 .. n
  BY <1>1, LinkerAssumption DEF Entry
<1>5. /\ DOMAIN t = 1 .. n
      /\ \A k \in 1 .. n : /\ t[k].name = exports[k].name
                           /\ t[k].addr = Address(i, exports[k].off)
  BY <1>4
<1>6. IsList(t)
  <2> DEFINE S == {t[k] : k \in 1 .. n}
  <2>1. t \in [1 .. n -> S]
    BY <1>4
  <2> HIDE DEF t
  <2>2. t \in Seq(S)
    <3> HIDE DEF S
    <3> QED
      BY <2>1, SeqDef
  <2>3. Len(t) = n
    <3> HIDE DEF S
    <3> QED
      BY <1>5, <2>2, LenProperties
  <2> QED
    BY <2>1, <2>3 DEF IsList
<1> HIDE DEF t
<1>7. \A name : Named(t, name) <=> Named(exports, name)
  BY <1>4, <1>5 DEF Named
<1>8. \A name : Named(t, name) => FirstNamed(t, name) = FirstNamed(exports, name)
  <2> SUFFICES ASSUME NEW name PROVE FirstNamed(t, name) = FirstNamed(exports, name)
    OBVIOUS
  <2>1. {k \in DOMAIN t : t[k].name = name} = {k \in DOMAIN exports : exports[k].name = name}
    BY <1>4, <1>5
  <2> QED
    BY <2>1 DEF FirstNamed
<1>9. IsList(symbols')
  BY <1>3, <1>6, Concatenated DEF FileInv, SymbolsMeet
<1>10. /\ Entry' = Entry
       /\ \A e : Placed(e)' <=> Placed(e)
       /\ \A name : Exported(name)' = Exported(name)
  BY <1>3, TargetsStay
<1>11. ASSUME NEW name
       PROVE  /\ Named(symbols', name) <=> Named(symbols, name) \/ Named(exports, name)
              /\ Named(symbols, name) =>
                   symbols'[FirstNamed(symbols', name)].addr = Exported(name)
              /\ ~Named(symbols, name) /\ Named(exports, name) =>
                   symbols'[FirstNamed(symbols', name)].addr =
                     Address(i, exports[FirstNamed(exports, name)].off)
  <2>1. /\ Named(symbols', name) <=> Named(symbols, name) \/ Named(t, name)
        /\ Named(symbols, name) =>
             symbols'[FirstNamed(symbols', name)] = symbols[FirstNamed(symbols, name)]
        /\ ~Named(symbols, name) /\ Named(t, name) =>
             symbols'[FirstNamed(symbols', name)] = t[FirstNamed(t, name)]
    <3>1. IsList(symbols)
      BY DEF FileInv, SymbolsMeet
    <3> QED
      BY <1>3, <1>6, <3>1, NamedBehind
  <2>2. Named(symbols, name) => symbols[FirstNamed(symbols, name)].addr = Exported(name)
    BY <1>1 DEF FileInv, SymbolsMeet
  <2>3. Named(t, name) => t[FirstNamed(t, name)].addr =
                            Address(i, exports[FirstNamed(exports, name)].off)
    <3> SUFFICES ASSUME Named(t, name)
                 PROVE  t[FirstNamed(t, name)].addr =
                          Address(i, exports[FirstNamed(exports, name)].off)
      OBVIOUS
    <3>1. PICK k \in 1 .. n : k = FirstNamed(t, name)
      BY <1>5, FirstNamedIs
    <3>2. FirstNamed(exports, name) = k
      BY <1>8, <3>1
    <3> QED
      BY <1>5, <3>1, <3>2
  <2> QED
    BY <1>7, <2>1, <2>2, <2>3
<1>12. ASSUME NEW name
       PROVE  Named(symbols', name) <=>
                \E e \in Entry : e < i + 1 /\ Named(entries[e].exports, name)
  <2>1. Named(symbols, name) <=>
          \E e \in Entry : e < i /\ Named(entries[e].exports, name)
    BY <1>1 DEF FileInv, SymbolsMeet, Collected
  <2>2. \A e \in Entry : e < i + 1 <=> e < i \/ e = i
    BY <1>1, Sections
  <2> QED
    BY <1>1, <1>11, <2>1, <2>2
<1>13. ASSUME NEW name, Named(symbols', name)
       PROVE  symbols'[FirstNamed(symbols', name)].addr = Exported(name)
  <2>1. CASE Named(symbols, name)
    BY <1>11, <2>1
  <2>2. CASE ~Named(symbols, name)
    <3> DEFINE exporters == {f \in Entry : Named(entries[f].exports, name)}
    <3>1. Named(exports, name)
      BY <1>11, <1>13, <2>2
    <3>2. i \in exporters
      BY <1>1, <3>1
    <3>3. ASSUME NEW g \in exporters PROVE i <= g
      <4>1. ~(g < i)
        BY <1>1, <2>2 DEF FileInv, SymbolsMeet, Collected
      <4> QED
        BY <1>1, <4>1, Sections
    <3>4. (CHOOSE f \in exporters : \A g \in exporters : f <= g) = i
      <4>1. ASSUME NEW f \in exporters, \A g \in exporters : f <= g PROVE f = i
        <5>1. f <= i /\ i <= f
          BY <3>2, <3>3, <4>1
        <5>2. f \in Nat
          BY Sections
        <5> QED
          BY <1>1, <5>1, <5>2
      <4> HIDE DEF exporters
      <4> QED
        BY <3>2, <3>3, <4>1
    <3>5. Exported(name) = Address(i, exports[FirstNamed(exports, name)].off)
      BY <3>4 DEF Exported
    <3> QED
      BY <1>11, <2>2, <3>1, <3>5
  <2> QED
    BY <2>1, <2>2
<1>14. SymbolsMeet'
  BY <1>1, <1>3, <1>9, <1>10, <1>12, <1>13 DEF SymbolsMeet, Collected
<1>15. AllPlaced' /\ CodeThere' /\ LinksThere'
  BY <1>1, <1>3, <1>10 DEF FileInv, AllPlaced, CodeThere, LinksThere
<1> QED
  BY <1>1, <1>3, <1>14, <1>15 DEF FileInv

LEMMA FileInit ==
  ASSUME Init, Linkable(entries)
  PROVE  FileInv
<1>1. phase = "static" /\ symbols = <<>>
  BY DEF Init
<1>2. IsList(symbols)
  <2>1. Len(symbols) = 0 /\ symbols \in Seq({})
    BY <1>1
  <2>2. symbols \in [1 .. 0 -> {}]
    BY <2>1, LenProperties
  <2> QED
    BY <2>1, <2>2 DEF IsList
<1> QED
  BY <1>1, <1>2 DEF FileInv, AllPlaced, SymbolsMeet, CodeThere, LinksThere

(* The loops of the placement, and the ways they fail.                     *)
LEMMA PlacingKeeps ==
  ASSUME PlacementInv, RoomInv, FileInv,
         \/ SkipMovable \/ PlaceStatic \/ StaticFails \/ Advance("static", "movable")
         \/ PlaceMovable \/ MovableFails \/ UseAfterFree
  PROVE  FileInv'
<1>1. ~UseAfterFree
  BY DEF RoomInv, WholeInv, UseAfterFree
<1>2. /\ phase' \in {"static", "movable", "failed"} /\ UNCHANGED <<entries, symbols>>
      /\ phase' # "failed" => phase \in {"static", "movable"}
  BY <1>1 DEF SkipMovable, PlaceStatic, StaticFails, Advance, PlaceMovable, MovableFails,
              AtStatic, AtMovable, Insert, End
<1> QED
  BY <1>2 DEF FileInv, AllPlaced, SymbolsMeet, CodeThere, LinksThere

LEMMA WriteImageKeeps ==
  ASSUME PlacementInv, ChainInv, RoomInv, FileInv, WriteImage
  PROVE  FileInv'
<1>1. /\ phase = "output" /\ phase' = "link" /\ output' = Image /\ i' = 1
      /\ UNCHANGED <<entries, heap, region, symbols>>
  BY DEF WriteImage
<1>2. /\ Entry' = Entry
      /\ \A e : Placed(e)' <=> Placed(e)
      /\ \A e, k : Address(e, k)' = Address(e, k)
      /\ \A e : LinkBytes(e)' = LinkBytes(e)
      /\ \A name : Exported(name)' = Exported(name)
  BY <1>1, TargetsStay
<1>3. CodeThere'
  <2>1. ASSUME NEW e \in Entry, Placed(e), NEW k \in Nat, k < entries[e].size
        PROVE  /\ Address(e, k) \in DOMAIN output'
               /\ output'[Address(e, k)] = Code(e, k)
    BY <1>1, <2>1, SectionInImage
  <2> QED
    BY <1>1, <1>2, <2>1 DEF CodeThere, Code
<1>4. LinksThere'
  <2>1. \A e \in Entry : ~(e < 1)
    BY Sections
  <2> QED
    BY <1>1, <1>2, <2>1 DEF LinksThere
<1>5. AllPlaced' /\ SymbolsMeet'
  BY <1>1, <1>2 DEF FileInv, AllPlaced, SymbolsMeet, Collected
<1> QED
  BY <1>1, <1>3, <1>4, <1>5 DEF FileInv

LEMMA FileNext ==
  ASSUME PlacementInv, ChainInv, RoomInv, FileInv, [Next]_vars
  PROVE  FileInv'
<1>1. CASE \/ SkipMovable \/ PlaceStatic \/ StaticFails \/ Advance("static", "movable")
           \/ PlaceMovable \/ MovableFails \/ UseAfterFree
  BY <1>1, PlacingKeeps
<1>2. CASE CollectSymbols
  BY <1>2, CollectSymbolsKeeps
<1>3. CASE WriteImage
  BY <1>3, WriteImageKeeps
<1>4. CASE LinkSection
  BY <1>4, LinkSectionKeeps
<1>5. CASE MovablesPlaced
  <2>1. /\ phase = "movable" /\ Movable = {} /\ phase' = "symbols" /\ i' = 1
        /\ UNCHANGED <<entries, heap, region, symbols>>
    BY <1>5 DEF MovablesPlaced
  <2>2. \A e \in Entry : entries[e].fixed \/ entries[e].size > 0 => Placed(e)
    BY <2>1 DEF PlacementInv, FixedPlaced, Movable, Placed
  <2>3. AllPlaced'
    BY <2>1, <2>2 DEF AllPlaced, Entry, Placed
  <2>4. SymbolsMeet'
    <3>1. symbols = <<>> /\ IsList(symbols) /\ \A name : ~Named(symbols, name)
      BY <2>1 DEF FileInv, SymbolsMeet, Named
    <3>2. \A e \in Entry : ~(e < 1)
      BY Sections
    <3> QED
      BY <2>1, <3>1, <3>2 DEF SymbolsMeet, Collected, Entry
  <2> QED
    BY <2>1, <2>3, <2>4 DEF FileInv, CodeThere, LinksThere
<1>6. CASE Advance("symbols", "output") \/ Advance("link", "done") \/ UNCHANGED vars \/ Ended
  <2>1. /\ UNCHANGED <<entries, heap, region, symbols, output>>
        /\ \/ UNCHANGED <<phase, i>>
           \/ phase = "symbols" /\ phase' = "output" /\ i > Len(entries)
           \/ phase = "link" /\ phase' = "done" /\ i > Len(entries)
    BY <1>6 DEF Advance, Ended, vars
  <2>2. \A e \in Entry : i > Len(entries) => e < i
    BY Sections DEF PlacementInv
  <2>3. /\ Entry' = Entry
        /\ \A e : Placed(e)' <=> Placed(e)
        /\ \A e, k : Address(e, k)' = Address(e, k) /\ At(e, k)' = At(e, k)
        /\ \A e : LinkBytes(e)' = LinkBytes(e)
        /\ \A name : Exported(name)' = Exported(name)
        /\ \A e, name : Target(e, name)' = Target(e, name)
    BY <2>1, TargetsStay
  <2>4. AllPlaced' /\ phase' # "undefined"
    BY <2>1, <2>3 DEF FileInv, AllPlaced
  <2>5. SymbolsMeet'
    BY <2>1, <2>2, <2>3 DEF FileInv, SymbolsMeet, Collected
  <2>6. CodeThere'
    BY <2>1, <2>3 DEF FileInv, CodeThere, Code
  <2>7. LinksThere'
    <3>1. \A e, k : Linked(e, k)' <=> Linked(e, k)
      BY <2>1, <2>3 DEF Linked, Low, High
    <3> QED
      BY <2>1, <2>2, <2>3, <3>1 DEF FileInv, LinksThere
  <2> QED
    BY <2>1, <2>4, <2>5, <2>6, <2>7 DEF FileInv
<1> QED
  BY <1>1, <1>2, <1>3, <1>4, <1>5, <1>6 DEF Next

(* The file and the tables hold what they should in every state, for every *)
(* list of sections that is Roomy and Linkable.                            *)
THEOREM FileInvariant == WholeSpec => []FileInv
<1>1. Init /\ Linkable(entries) => FileInv
  BY FileInit
<1>2. PlacementInv /\ ChainInv /\ RoomInv /\ FileInv /\ [Next]_vars => FileInv'
  BY FileNext
<1> QED
  BY <1>1, <1>2, WholeSpecIsSpec, PlacementInvariant, ChainInvariant, RoomInvariant, PTL
     DEF WholeSpec, Orderly

(* The linker never follows a pointer to a freed region or to none, and    *)
(* never writes outside of the file (get_first_region, collect_symbols,    *)
(* link_section).                                                          *)
THEOREM NothingUndefined == Spec => []NeverUndefined
<1>1. FileInv => NeverUndefined
  BY DEF FileInv, NeverUndefined
<1>2. ~Orderly => NeverUndefined
  BY DEF NeverUndefined
<1>3. Spec /\ Orderly => WholeSpec
  BY DEF Spec, WholeSpec
<1> QED
  BY <1>1, <1>2, <1>3, DisorderStays, FileInvariant, PTL

(* The code of every section is in the file, byte by byte but for its own  *)
(* link points, at the place its symbols were computed from                *)
(* (copy_code_sections, link_section).                                     *)
THEOREM FileIsComplete == Spec => []OutputComplete
<1>1. PlacementInv /\ FileInv => OutputComplete
  <2> SUFFICES ASSUME PlacementInv, FileInv, phase = "done",
                      NEW e \in Entry, NEW k \in 0 .. entries[e].size - 1
               PROVE  /\ Address(e, k) \in DOMAIN output
                      /\ Address(e, k) \notin LinkBytes(e) =>
                           output[Address(e, k)] = Code(e, k)
    BY DEF OutputComplete, OutputHasEverySection
  <2>1. entries[e].size \in Nat
    BY InputIs DEF PlacementInv, Entry
  <2>2. k \in Nat /\ k < entries[e].size /\ entries[e].size > 0
    BY <2>1
  <2>3. Placed(e)
    BY <2>2 DEF FileInv, AllPlaced
  <2> QED
    BY <2>2, <2>3 DEF FileInv, CodeThere
<1>2. ~Orderly => OutputComplete
  BY DEF OutputComplete
<1>3. Spec /\ Orderly => WholeSpec
  BY DEF Spec, WholeSpec
<1> QED
  BY <1>1, <1>2, <1>3, DisorderStays, PlacementInvariant, FileInvariant, PTL

(* Every link point holds the address of the section's own symbol of its   *)
(* name, else of the first section that exports it, whatever was linked    *)
(* before and after it (collect_symbols, resolve_local_symbol,             *)
(* resolve_global_symbol, link_section).                                   *)
THEOREM EveryLinkResolved == Spec => []LinksResolved
<1>1. FileInv => LinksResolved
  BY DEF FileInv, LinksThere, Linked, LinksResolved
<1>2. ~Orderly => LinksResolved
  BY DEF LinksResolved
<1>3. Spec /\ Orderly => WholeSpec
  BY DEF Spec, WholeSpec
<1> QED
  BY <1>1, <1>2, <1>3, DisorderStays, FileInvariant, PTL

-----------------------------------------------------------------------------
(* The placement: allocated regions are those of the sections, the loops   *)
(* go through the sections in their order, and the file is empty until the *)
(* image is written.                                                       *)
PlacedInv ==
  /\ \A r \in Live : heap[r].type = "alloc" => \E e \in Entry : region[e] = r
  /\ phase = "static" => \A e \in Entry : Placed(e) => e < i
  /\ phase \in {"static", "movable", "symbols", "output"} => output = <<>>

LEMMA PlacedInit ==
  ASSUME Init
  PROVE  PlacedInv
<1>1. phase = "static" /\ output = <<>> /\ region = [e \in Entry |-> NULL]
  BY DEF Init, Entry
<1>2. heap = <<NewRegion("free", 0, MaxAddr, 0)>>
  BY DEF Init
<1>3. \A r \in DOMAIN heap : heap[r].type = "free"
  BY <1>2 DEF NewRegion
<1> QED
  BY <1>1, <1>3 DEF PlacedInv, Live, Placed

LEMMA InsertKeepsOwners ==
  ASSUME PlacementInv, PlacedInv, NEW e \in Entry, ~Placed(e), NEW r, NEW start,
         Cut(e, r, start), entries' = entries,
         \A f \in Entry : region'[f] = IF f = e THEN Len(heap) + 1 ELSE region[f]
  PROVE  \A q \in Live' : heap'[q].type = "alloc" => \E f \in Entry' : region'[f] = q
<1> SUFFICES ASSUME NEW q \in Live', heap'[q].type = "alloc"
             PROVE  \E f \in Entry : region'[f] = q
  BY DEF Entry
<1>1. CASE AsBefore(q, r)
  <2>1. q \in Live /\ heap[q].type = "alloc"
    BY <1>1 DEF AsBefore
  <2>2. PICK f \in Entry : region[f] = q
    BY <2>1 DEF PlacedInv
  <2>3. f # e
    <3>1. q # NULL
      <4>1. q \in 1 .. Len(heap)
        BY <2>1, LenProperties DEF Live, PlacementInv
      <4> QED
        BY <4>1 DEF NULL
    <3> QED
      BY <2>2, <3>1 DEF Placed
  <2> QED
    BY <2>2, <2>3
<1>2. CASE IsNew(q, e, start)
  BY <1>2 DEF IsNew
<1>3. CASE LeftBefore(q, r, start) \/ LeftBehind(q, e, r, start)
  BY <1>3 DEF LeftBefore, LeftBehind
<1> QED
  BY <1>1, <1>2, <1>3 DEF Cut

(* Every byte of the memory is in a region that the walk meets.            *)
LEMMA Covered ==
  ASSUME PlacementInv, ChainInv, RoomInv, NEW a \in Nat, a < MaxAddr
  PROVE  \E k \in 1 .. Len(Regions) :
           Regions[k] \in Live /\ heap[Regions[k]].start <= a /\ a < Ends(Regions[k])
<1>1. /\ ~Dangling /\ heap \in Seq(Node) /\ DOMAIN heap = 1 .. Len(heap)
      /\ Chained(heap, Len(heap))
  BY LenProperties DEF RoomInv, WholeInv, PlacementInv, ChainInv
<1>2. /\ First = HeadOf(heap, chain) /\ First \in 1 .. Len(heap)
      /\ Headed(heap, First) /\ Path(heap, First, Regions)
  BY <1>1, Walked
<1>3. Whole(heap, Len(heap), First, MaxAddr)
  BY <1>2 DEF RoomInv, WholeInv
<1>4. heap[Regions[Len(Regions)]].next = NULL
  BY <1>1, <1>2, <1>3, WalkEnds DEF Regions
<1>5. /\ Len(Regions) \in 1 .. Len(Regions) /\ Regions \in Seq(1 .. Len(heap))
      /\ DOMAIN Regions = 1 .. Len(Regions)
  BY <1>2, LenProperties DEF Path
<1>6. PICK l \in 1 .. Len(heap) : l = Regions[Len(Regions)]
  BY <1>5, ElementOfSeq
<1>7. heap[l].type # "freed"
  BY <1>2, <1>5, <1>6 DEF Path
<1>8. heap[l].start + heap[l].size = MaxAddr
  BY <1>3, <1>4, <1>6, <1>7 DEF Whole
<1>9. heap[First].start = 0
  BY <1>2 DEF Headed
<1>10. PICK k \in 1 .. Len(Regions) :
         /\ heap[Regions[k]].start <= a
         /\ a < heap[Regions[k]].start + heap[Regions[k]].size
  BY <1>1, <1>2, <1>5, <1>6, <1>8, <1>9, PathCovers
<1>11. Regions[k] \in Live
  BY <1>5, WalkIsLive DEF ToSet
<1> QED
  BY <1>10, <1>11 DEF Ends

-----------------------------------------------------------------------------
(* What is used and where there is room, in the words of LdPlacement.      *)
LEMMA UsedIs ==
  ASSUME PlacementInv, NEW a
  PROVE  a \in Placement!Used <=>
           \E e \in Entry : /\ Placed(e)
                            /\ a \in heap[region[e]].start
                                     .. heap[region[e]].start + entries[e].size - 1
<1>1. \A e \in Entry : Placed(e) <=>
        [f \in Entry |-> IF region[f] = NULL THEN -1 ELSE heap[region[f]].start][e] # -1
  BY PlaceOf DEF Placed
<1>2. \A e \in Entry : Placed(e) =>
        Placement!Bytes(e) = heap[region[e]].start
                               .. heap[region[e]].start + entries[e].size - 1
  BY DEF Placed, Placement!Bytes
<1> QED
  BY <1>1, <1>2 DEF Placement!Used, Entry

LEMMA RoomInFree ==
  ASSUME PlacementInv, NEW e \in Entry, NEW r \in Live, heap[r].type = "free",
         NEW a \in Nat, heap[r].start <= a, a < Ends(r), a + entries[e].size <= Ends(r)
  PROVE  Placement!Room(e, a)
<1>1. /\ r \in 1 .. Len(heap) /\ heap \in Seq(Node) /\ entries[e].size \in Nat
      /\ MaxAddr \in Nat
  BY LenProperties, LinkerAssumption DEF PlacementInv, Live, Entry
<1>2. heap[r].start \in Nat /\ heap[r].size \in Nat
  BY <1>1, Numbers
<1>3. Ends(r) \in Nat /\ Ends(r) <= MaxAddr
  BY <1>2 DEF Ends, PlacementInv, RegionsApart
<1>4. ASSUME NEW b \in Nat, heap[r].start <= b, b < Ends(r)
      PROVE  b \notin Placement!Used
  <2>1. SUFFICES ASSUME NEW f \in Entry, Placed(f),
                        b \in heap[region[f]].start
                              .. heap[region[f]].start + entries[f].size - 1
                 PROVE  FALSE
    BY UsedIs
  <2>2. /\ region[f] \in Live /\ heap[region[f]].type = "alloc"
        /\ heap[region[f]].size = entries[f].size
        /\ heap[region[f]].start \in Nat /\ entries[f].size \in Nat
    BY <2>1, PlaceOf
  <2>3. Apart(r, region[f])
    BY <2>2 DEF PlacementInv, RegionsApart
  <2>4. Ends(region[f]) = heap[region[f]].start + entries[f].size
    BY <2>2 DEF Ends
  <2>5. PICK x \in Nat, z \in Nat, y \in Nat, w \in Nat :
          /\ x = heap[region[f]].start /\ z = entries[f].size
          /\ y = Ends(r) /\ w = heap[r].start
    BY <1>2, <1>3, <2>2
  <2>6. x <= b /\ b < x + z
    BY <2>1, <2>5
  <2>7. y <= x \/ x + z <= w
    BY <2>3, <2>4, <2>5 DEF Apart
  <2>8. w <= b /\ b < y
    BY <1>4, <2>5
  <2> QED
    BY <2>5, <2>6, <2>7, <2>8
<1>5. a \notin Placement!Used
  BY <1>4
<1>6. \A b \in a .. a + entries[e].size - 1 : b \notin Placement!Used
  <2> TAKE b \in a .. a + entries[e].size - 1
  <2>1. PICK y \in Nat, z \in Nat, w \in Nat :
          y = Ends(r) /\ z = entries[e].size /\ w = heap[r].start
    BY <1>1, <1>2, <1>3
  <2>2. w <= a /\ a + z <= y
    BY <2>1
  <2>3. b \in Nat /\ w <= b /\ b < y
    BY <2>1, <2>2
  <2> QED
    BY <1>4, <2>1, <2>3
<1>7. a + entries[e].size <= MaxAddr /\ a < MaxAddr
  BY <1>1, <1>3
<1> QED
  BY <1>5, <1>6, <1>7 DEF Placement!Room

(* Where there is room, a free region begins or goes on.                   *)
LEMMA FreeWhereRoom ==
  ASSUME PlacementInv, PlacedInv, NEW e \in Entry, NEW a \in Nat, Placement!Room(e, a),
         NEW r \in Live, heap[r].start <= a, a < Ends(r)
  PROVE  heap[r].type = "free"
<1>1. SUFFICES ASSUME heap[r].type = "alloc" PROVE FALSE
  <2>1. r \in 1 .. Len(heap) /\ heap \in Seq(Node)
    BY LenProperties DEF PlacementInv, Live
  <2> QED
    BY <2>1, Numbers DEF Live
<1>2. PICK f \in Entry : region[f] = r
  BY <1>1 DEF PlacedInv
<1>3. Placed(f)
  <2>1. r # NULL
    BY LenProperties DEF PlacementInv, Live, NULL
  <2> QED
    BY <1>2, <2>1 DEF Placed
<1>4. /\ heap[r].size = entries[f].size /\ heap[r].start \in Nat
      /\ entries[f].size \in Nat
  BY <1>2, <1>3, PlaceOf
<1>5. a \in heap[region[f]].start .. heap[region[f]].start + entries[f].size - 1
  BY <1>2, <1>4 DEF Ends
<1>6. a \in Placement!Used
  BY <1>3, <1>5, UsedIs
<1> QED
  BY <1>6 DEF Placement!Room

LEMMA WaitingIs ==
  ASSUME PlacementInv
  PROVE  /\ Placement!Waiting(TRUE) = {e \in Entry : entries[e].fixed /\ ~Placed(e)}
         /\ Placement!Waiting(FALSE) =
              {e \in Entry : ~entries[e].fixed /\ ~Placed(e) /\ entries[e].size > 0}
<1>1. \A e \in Entry : Placed(e) <=>
        [f \in Entry |-> IF region[f] = NULL THEN -1 ELSE heap[region[f]].start][e] # -1
  BY PlaceOf DEF Placed
<1>2. \A e \in Entry : entries[e].fixed \in BOOLEAN
  BY Sections
<1>3. \A e \in Entry : (entries[e].fixed = TRUE <=> entries[e].fixed)
                       /\ (entries[e].fixed = FALSE <=> ~entries[e].fixed)
  BY <1>2
<1> QED
  BY <1>1, <1>3 DEF Placement!Waiting, Entry

(* An insertion gives its section the address.                             *)
LEMMA PutIs ==
  ASSUME PlacementInv, NEW e \in Entry, NEW start, entries' = entries,
         (phase' = "failed" /\ output' = <<>>) <=> (phase = "failed" /\ output = <<>>),
         \A f \in Entry : Placed(f)' <=> Placed(f) \/ f = e,
         \A f \in Entry : Placed(f)' =>
           heap'[region'[f]].start = IF f = e THEN start ELSE heap[region[f]].start
  PROVE  Placement!Put(e, start)
<1> DEFINE place  == [f \in Entry |-> IF region[f] = NULL THEN -1
                                                        ELSE heap[region[f]].start]
           placeN == [f \in Entry |-> IF region'[f] = NULL THEN -1
                                                         ELSE heap'[region'[f]].start]
<1>1. ASSUME NEW f \in Entry
      PROVE  placeN[f] = IF f = e THEN start ELSE place[f]
  BY DEF Placed
<1>2. placeN = [place EXCEPT ![e] = start]
  BY <1>1
<1>3. Entry' = Entry
  BY DEF Entry
<1> QED
  BY <1>2, <1>3 DEF Placement!Put

LEMMA PlaceStaticMaps ==
  ASSUME PlacementInv, ChainInv, RoomInv, PlacedInv, PlaceStatic
  PROVE  Placement!Next /\ PlacedInv'
<1> DEFINE o == entries[i].origin
           z == entries[i].size
<1>1. PICK r \in RegionsAt(o) : Insert(i, r, o)
  BY DEF PlaceStatic
<1>2. /\ phase = "static" /\ i \in Entry /\ entries[i].fixed /\ i' = i + 1 /\ i \in Nat
      /\ ~Dangling /\ entries' = entries /\ phase' = phase /\ output' = output
  BY <1>1, Sections DEF PlaceStatic, AtStatic, PlacementInv, Insert
<1>3. o \in Nat /\ z \in Nat
  BY <1>2, InputIs DEF PlacementInv, Entry
<1>4. r \in DOMAIN heap /\ r \in 1 .. Len(heap) /\ heap \in Seq(Node) /\ r \in ToSet(Regions)
      /\ heap[r].start <= o /\ o < Ends(r)
  BY LenProperties DEF RegionsAt, PlacementInv
<1>5. \E k \in DOMAIN Regions : Regions[k] = r
  BY <1>4 DEF ToSet
<1>6. PICK h : Ready(h, i, r, o)
  BY <1>1, <1>2, <1>3, <1>4, <1>5, InsertIsReady
<1>7. heap[r].type = "free" /\ r \in Live /\ o + z <= Ends(r)
  <2>1. PICK n \in Nat : n = Len(heap) + 1
    BY <1>4, LenProperties
  <2>2. /\ h[r] = heap[r] /\ h[n].start = o /\ h[n].size = z /\ CanInsert(h, r, n)
        /\ heap[r].type = "free"
    BY <1>4, <1>6, <2>1 DEF Ready
  <2>3. heap[r].start \in Nat /\ heap[r].size \in Nat
    BY <1>4, Numbers
  <2>4. heap[r].size - (o - heap[r].start) >= z
    BY <2>2 DEF CanInsert, RegionContains
  <2> QED
    BY <1>3, <1>4, <2>2, <2>3, <2>4 DEF Live, Ends
<1>8. /\ \A f \in Entry : Placed(f)' <=> Placed(f) \/ f = i
      /\ \A f \in Entry : region'[f] = IF f = i THEN Len(heap) + 1 ELSE region[f]
      /\ \A f \in Entry : Placed(f)' =>
           heap'[region'[f]].start = IF f = i THEN o ELSE heap[region[f]].start
  BY <1>1, <1>2, <1>3, <1>4, InsertPlaces
<1>9. ~Placed(i)
  BY <1>2 DEF PlacedInv
<1>10. Cut(i, r, o)
  BY <1>1, <1>2, StaticCuts
<1>11. PICK e \in Entry, a \in Nat : e = i /\ a = o
  BY <1>2, <1>3
<1>12. Placement!Put(e, a)
  BY <1>2, <1>8, <1>11, PutIs
<1>13. Placement!Room(e, a)
  BY <1>2, <1>3, <1>4, <1>7, <1>11, RoomInFree
<1>14. Placement!NextFixed(e)
  <2>1. Placement!Waiting(TRUE) = {f \in Entry : entries[f].fixed /\ ~Placed(f)}
    BY WaitingIs
  <2>2. \A f \in Entry : entries[f].fixed /\ ~Placed(f) => i <= f
    BY <1>2, Sections DEF PlacementInv, FixedPlaced
  <2> QED
    BY <1>2, <1>9, <1>11, <2>1, <2>2 DEF Placement!NextFixed
<1>15. Placement!Next
  <2>1. Placement!PlaceFixed(e)
    BY <1>11, <1>12, <1>13, <1>14 DEF Placement!PlaceFixed, Placement!Put
  <2> QED
    BY <1>2, <2>1 DEF Placement!Next, Entry
<1>16. PlacedInv'
  <2>1. \A q \in Live' : heap'[q].type = "alloc" => \E f \in Entry' : region'[f] = q
    BY <1>2, <1>8, <1>9, <1>10, InsertKeepsOwners
  <2>2. \A f \in Entry' : Placed(f)' => f < i + 1
    BY <1>2, <1>8, Sections DEF PlacedInv, Entry
  <2> QED
    BY <1>2, <2>1, <2>2 DEF PlacedInv
<1> QED
  BY <1>15, <1>16

LEMMA StaticFailsMaps ==
  ASSUME PlacementInv, ChainInv, RoomInv, PlacedInv, StaticFails
  PROVE  Placement!Next
<1>1. /\ phase = "static" /\ i \in Entry /\ entries[i].fixed
      /\ UNCHANGED <<entries, heap, region, output>> /\ phase' = "failed"
      /\ output = <<>> /\ i \in Nat
  BY Sections DEF StaticFails, AtStatic, End, PlacementInv, PlacedInv
<1>2. PICK e \in Entry, a \in Nat : e = i /\ a = entries[i].origin
  BY <1>1, InputIs DEF PlacementInv, Entry
<1>3. ~Placement!Room(e, a)
  <2> SUFFICES ASSUME Placement!Room(e, a) PROVE FALSE
    OBVIOUS
  <2>1. a + entries[e].size <= MaxAddr /\ a < MaxAddr
    BY DEF Placement!Room
  <2>2. PICK k \in 1 .. Len(Regions) :
          Regions[k] \in Live /\ heap[Regions[k]].start <= a /\ a < Ends(Regions[k])
    BY <2>1, Covered
  <2>3. PICK r \in Live : r = Regions[k] /\ heap[r].start <= a /\ a < Ends(r)
    BY <2>2
  <2>4. heap[r].type = "free"
    BY <2>3, FreeWhereRoom
  <2>5. Ends(r) = MaxAddr
    BY <1>1, <1>2, <2>3, StaticAtTheTop
  <2>6. r \in 1 .. Len(heap) /\ heap \in Seq(Node) /\ r \in DOMAIN heap /\ Len(heap) \in Nat
    BY LenProperties DEF PlacementInv, Live
  <2>7. r \in RegionsAt(entries[i].origin)
    BY <1>2, <2>3, <2>6, WalkIsLive DEF RegionsAt
  <2>8. CannotInsert(i, r, entries[i].origin)
    BY <2>7 DEF StaticFails
  <2> DEFINE new == NewRegion("alloc", a, entries[e].size, e)
             h   == Append(heap, new)
  <2>9. ~CanInsert(h, r, Len(h))
    BY <1>2, <2>8 DEF CannotInsert
  <2>10. entries[e].size \in Nat
    BY InputIs DEF PlacementInv, Entry
  <2>11. new \in Node /\ new.start = a /\ new.size = entries[e].size
    <3>1. e \in Nat
      BY Sections
    <3> QED
      BY <2>10, <3>1 DEF NewRegion, Node, NULL
  <2> HIDE DEF new
  <2>12. h[r] = heap[r] /\ h[Len(h)] = new
    <3>1. Len(h) = Len(heap) + 1 /\ h[Len(heap) + 1] = new
          /\ \A q \in 1 .. Len(heap) : h[q] = heap[q]
      BY <2>6, <2>11, AppendProperties
    <3> QED
      BY <2>6, <3>1
  <2>13. heap[r].start \in Nat /\ heap[r].size \in Nat
    BY <2>6, Numbers
  <2>14. /\ heap[r].size >= entries[e].size /\ a >= heap[r].start
         /\ heap[r].size - (a - heap[r].start) >= entries[e].size
    <3>1. heap[r].start + heap[r].size = MaxAddr /\ MaxAddr \in Nat /\ a \in Nat
      BY <2>5, LinkerAssumption DEF Ends
    <3>2. heap[r].start <= a
      BY <2>3
    <3>3. PICK s \in Nat, z \in Nat, y \in Nat :
            s = heap[r].start /\ z = heap[r].size /\ y = entries[e].size
      BY <2>10, <2>13
    <3>4. s + z = MaxAddr /\ s <= a /\ a + y <= MaxAddr
      BY <2>1, <3>1, <3>2, <3>3
    <3>5. z >= y /\ a >= s /\ z - (a - s) >= y
      BY <3>1, <3>4
    <3> QED
      BY <3>3, <3>5
  <2> HIDE DEF h
  <2> QED
    BY <2>4, <2>9, <2>11, <2>12, <2>14 DEF CanInsert, RegionContains
<1>4. Placement!NextFixed(e)
  <2>1. Placement!Waiting(TRUE) = {f \in Entry : entries[f].fixed /\ ~Placed(f)}
    BY WaitingIs
  <2>2. ~Placed(e)
    BY <1>1, <1>2 DEF PlacedInv
  <2>3. \A f \in Entry : entries[f].fixed /\ ~Placed(f) => i <= f
    BY <1>1, Sections DEF PlacementInv, FixedPlaced
  <2> QED
    BY <1>1, <1>2, <2>1, <2>2, <2>3 DEF Placement!NextFixed
<1>5. Placement!GiveUp(e)
  BY <1>1, <1>2, <1>3, <1>4 DEF Placement!GiveUp, Entry
<1> QED
  BY <1>1, <1>5 DEF Placement!Next, Entry

(* The section that is placed next is the abstract one.                    *)
LEMMA LargestIsNext ==
  ASSUME PlacementInv, phase = "movable", NEW e \in Largest
  PROVE  /\ Placement!NextMovable(e) /\ e \in Entry /\ ~Placed(e) /\ ~entries[e].fixed
         /\ entries[e].size > 0
<1>1. /\ Placement!Waiting(TRUE) = {f \in Entry : entries[f].fixed /\ ~Placed(f)}
      /\ Placement!Waiting(FALSE) =
           {f \in Entry : ~entries[f].fixed /\ ~Placed(f) /\ entries[f].size > 0}
  BY WaitingIs
<1>2. Placement!Waiting(TRUE) = {} /\ Placement!Waiting(FALSE) = Movable
  BY <1>1 DEF PlacementInv, FixedPlaced, Movable, Placed
<1>3. /\ e \in Movable
      /\ \A f \in Movable : \/ entries[f].size < entries[e].size
                            \/ entries[f].size = entries[e].size /\ e <= f
  BY DEF Largest
<1>4. Placement!NextMovable(e)
  BY <1>2, <1>3 DEF Placement!NextMovable
<1> QED
  BY <1>1, <1>2, <1>3, <1>4

LEMMA SomeLargest ==
  ASSUME PlacementInv, Roomy(entries), Movable # {}
  PROVE  Largest # {}
<1> DEFINE S == {entries[e].size : e \in Movable}
<1>1. MaxAddr \in Nat /\ \A e \in Movable : entries[e].size \in Nat /\ e \in Nat
                                          /\ entries[e].size < MaxAddr
  BY Sections, InputIs, LinkerAssumption DEF PlacementInv, Movable, Entry, Roomy
<1>2. S \subseteq Nat /\ S # {} /\ \A x \in S : x <= MaxAddr
  BY <1>1
<1>3. PICK m \in S : \A x \in S : x <= m
  <2> HIDE DEF S
  <2> QED
    BY <1>1, <1>2, Greatest
<1> DEFINE E == {e \in Movable : entries[e].size = m}
<1>4. E \subseteq Nat /\ E # {}
  BY <1>1
<1>5. PICK e \in E : \A f \in E : e <= f
  BY <1>4, LeastNat
<1>6. ASSUME NEW f \in Movable
      PROVE  \/ entries[f].size < entries[e].size
             \/ entries[f].size = entries[e].size /\ e <= f
  <2>1. entries[f].size <= m /\ entries[e].size = m /\ m \in Nat /\ entries[f].size \in Nat
    BY <1>1, <1>2, <1>3
  <2> QED
    BY <1>5, <2>1
<1> QED
  BY <1>6 DEF Largest

(* A live region with room for a section that is left can take it.         *)
LEMMA RoomFits ==
  ASSUME PlacementInv, ChainInv, RoomInv, PlacedInv, phase = "movable",
         NEW e \in Left, NEW a \in Nat, Placement!Room(e, a),
         NEW r \in Live, heap[r].start <= a, a < Ends(r)
  PROVE  Fits(r, e)
<1>1. e \in Entry
  BY DEF Left
<1>2. heap[r].type = "free"
  BY <1>1, FreeWhereRoom
<1>3. r \in 1 .. Len(heap) /\ heap \in Seq(Node)
  BY LenProperties DEF PlacementInv, Live
<1>4. PICK s \in Nat, z \in Nat, y \in Nat :
        s = heap[r].start /\ z = heap[r].size /\ y = entries[e].size
  BY <1>1, <1>3, Numbers, InputIs DEF PlacementInv, Entry
<1>5. CASE heap[r].next # NULL
  <2>1. z > Load(entries, Left)
    BY <1>2, <1>4, <1>5 DEF RoomInv, Gaps
  <2>2. /\ Load(entries, Left \ {e}) \in Nat
        /\ Load(entries, Left) = Load(entries, Left \ {e}) + y
    BY <1>1, <1>4, LoadOfOne
  <2> QED
    BY <1>2, <1>4, <2>1, <2>2 DEF Fits
<1>6. CASE heap[r].next = NULL
  <2>1. s + z = MaxAddr /\ MaxAddr \in Nat
    BY <1>2, <1>3, <1>4, <1>6, LinkerAssumption DEF RoomInv, WholeInv, Whole
  <2>2. a + y <= MaxAddr /\ s <= a
    BY <1>4 DEF Placement!Room
  <2>3. z >= y
    BY <2>1, <2>2
  <2> QED
    BY <1>2, <1>4, <2>3 DEF Fits
<1> QED
  BY <1>5, <1>6

LEMMA PlaceMovableMaps ==
  ASSUME PlacementInv, ChainInv, RoomInv, PlacedInv, PlaceMovable
  PROVE  Placement!Next /\ PlacedInv'
<1>1. PICK e \in Largest : \E r \in FirstFit(e) : Insert(e, r, heap[r].start)
  BY DEF PlaceMovable
<1>2. PICK r \in FirstFit(e) : Insert(e, r, heap[r].start)
  BY <1>1
<1>3. PICK start : start = heap[r].start
  OBVIOUS
<1>4. /\ phase = "movable" /\ ~Dangling /\ entries' = entries /\ phase' = phase
      /\ output' = output
  BY <1>2 DEF PlaceMovable, AtMovable, Insert
<1>5. /\ e \in Entry /\ region[e] = NULL /\ ~entries[e].fixed /\ e \in Left
      /\ r \in Live /\ r \in DOMAIN heap /\ heap[r].type = "free"
      /\ start \in Nat /\ heap[r].size \in Nat /\ entries[e].size \in Nat
      /\ entries[e].size <= heap[r].size /\ Cut(e, r, start)
  BY <1>2, <1>3, <1>4, MovableCuts
<1>6. Placement!NextMovable(e) /\ ~Placed(e) /\ entries[e].size > 0
  BY <1>4, LargestIsNext
<1>7. /\ \A f \in Entry : Placed(f)' <=> Placed(f) \/ f = e
      /\ \A f \in Entry : region'[f] = IF f = e THEN Len(heap) + 1 ELSE region[f]
      /\ \A f \in Entry : Placed(f)' =>
           heap'[region'[f]].start = IF f = e THEN start ELSE heap[region[f]].start
  BY <1>2, <1>3, <1>5, InsertPlaces
<1>8. PICK a \in Nat : a = start
  BY <1>5
<1>9. Placement!Put(e, a)
  BY <1>4, <1>5, <1>7, <1>8, PutIs
<1>10. Ends(r) = a + heap[r].size /\ Ends(r) <= MaxAddr /\ MaxAddr \in Nat
  BY <1>3, <1>5, <1>8, LinkerAssumption DEF Ends, PlacementInv, RegionsApart
<1>11. a < Ends(r) /\ a + entries[e].size <= Ends(r) /\ a < MaxAddr
  BY <1>5, <1>6, <1>10
<1>12. Placement!Room(e, a)
  BY <1>3, <1>5, <1>8, <1>11, RoomInFree
<1>13. ASSUME NEW b \in 0 .. a - 1, Placement!Room(e, b)
       PROVE  FALSE
  <2>1. b \in Nat /\ b < a /\ b < MaxAddr
    BY <1>10, <1>11, <1>13
  <2>2. PICK k \in 1 .. Len(Regions) :
          Regions[k] \in Live /\ heap[Regions[k]].start <= b /\ b < Ends(Regions[k])
    BY <2>1, Covered
  <2>3. Fits(Regions[k], e)
    BY <1>4, <1>5, <1>13, <2>1, <2>2, RoomFits
  <2>4. PICK j \in DOMAIN Regions :
          Regions[j] = r /\ \A l \in 1 .. j - 1 : ~Fits(Regions[l], e)
    BY DEF FirstFit
  <2>5. heap \in Seq(Node) /\ Path(heap, First, Regions)
    BY <1>4, Walked DEF PlacementInv, ChainInv
  <2>6. Len(Regions) \in Nat /\ j \in 1 .. Len(Regions)
    BY <2>4, <2>5, LenProperties DEF Path
  <2>7. ~(k < j)
    BY <2>3, <2>4, <2>6
  <2>8. k # j
    BY <1>3, <1>8, <2>1, <2>2, <2>4
  <2>9. j < k
    BY <2>6, <2>7, <2>8
  <2>10. heap[r].start + heap[r].size <= heap[Regions[k]].start
    BY <2>4, <2>5, <2>6, <2>9, PathGoesUp
  <2>11. heap[Regions[k]].start \in Nat
    <3>1. Regions[k] \in 1 .. Len(heap)
      BY <2>2, <2>5, LenProperties DEF Live
    <3> QED
      BY <2>5, <3>1, Numbers
  <2> QED
    BY <1>3, <1>5, <1>8, <2>1, <2>2, <2>10, <2>11
<1>14. Placement!Lowest(e, a)
  BY <1>12, <1>13 DEF Placement!Lowest
<1>15. a \in 0 .. MaxAddr
  BY <1>10, <1>11
<1>16. Placement!PlaceMovable(e)
  BY <1>6, <1>9, <1>14, <1>15 DEF Placement!PlaceMovable
<1>17. Placement!Next
  BY <1>4, <1>5, <1>16 DEF Placement!Next, Entry
<1>18. PlacedInv'
  <2>1. \A q \in Live' : heap'[q].type = "alloc" => \E f \in Entry' : region'[f] = q
    BY <1>4, <1>5, <1>6, <1>7, InsertKeepsOwners
  <2> QED
    BY <1>4, <2>1 DEF PlacedInv
<1> QED
  BY <1>17, <1>18

LEMMA MovableFailsMaps ==
  ASSUME PlacementInv, ChainInv, RoomInv, PlacedInv, MovableFails
  PROVE  Placement!Next
<1>1. /\ phase = "movable" /\ Movable # {} /\ \A f \in Largest : FirstFit(f) = {}
      /\ UNCHANGED <<entries, heap, region, output>> /\ phase' = "failed"
      /\ output = <<>> /\ ~Dangling
  BY DEF MovableFails, AtMovable, End, PlacedInv
<1>2. PICK e \in Largest : TRUE
  BY <1>1, SomeLargest DEF RoomInv
<1>3. Placement!NextMovable(e) /\ e \in Entry /\ ~Placed(e) /\ ~entries[e].fixed
  BY <1>1, LargestIsNext
<1>4. e \in Left
  BY <1>3 DEF Left, Placed
<1>5. ASSUME NEW a \in 0 .. MaxAddr, Placement!Room(e, a)
      PROVE  FALSE
  <2>1. a \in Nat /\ a < MaxAddr
    BY <1>5, LinkerAssumption DEF Placement!Room
  <2>2. PICK k \in 1 .. Len(Regions) :
          Regions[k] \in Live /\ heap[Regions[k]].start <= a /\ a < Ends(Regions[k])
    BY <2>1, Covered
  <2>3. Fits(Regions[k], e)
    BY <1>1, <1>4, <1>5, <2>1, <2>2, RoomFits
  <2> DEFINE K == {l \in Nat : l \in 1 .. Len(Regions) /\ Fits(Regions[l], e)}
  <2>4. Path(heap, First, Regions) /\ DOMAIN Regions = 1 .. Len(Regions)
        /\ Len(Regions) \in Nat /\ Regions \in Seq(1 .. Len(heap))
    BY <1>1, Walked, LenProperties DEF PlacementInv, ChainInv, Path
  <2>5. k \in K
    BY <2>3, <2>4
  <2>6. PICK j \in K : \A l \in K : j <= l
    <3> HIDE DEF K
    <3> QED
      BY <2>5, LeastNat DEF K
  <2>7. j \in DOMAIN Regions /\ Fits(Regions[j], e)
    BY <2>4
  <2>8. \A l \in 1 .. j - 1 : ~Fits(Regions[l], e)
    <3> TAKE l \in 1 .. j - 1
    <3>1. l \in Nat /\ l \in 1 .. Len(Regions) /\ ~(j <= l)
      BY <2>4, <2>6
    <3> QED
      BY <2>6, <3>1
  <2>9. Regions[j] \in DOMAIN heap
    <3>1. Regions[j] \in 1 .. Len(heap)
      BY <2>4, <2>7, ElementOfSeq
    <3> QED
      BY <3>1, LenProperties DEF PlacementInv
  <2>10. Regions[j] \in FirstFit(e)
    BY <2>7, <2>8, <2>9 DEF FirstFit
  <2> QED
    BY <1>1, <2>10
<1>6. Placement!GiveUp(e)
  BY <1>1, <1>3, <1>5 DEF Placement!GiveUp, Entry
<1> QED
  BY <1>1, <1>3, <1>6 DEF Placement!Next, Entry

(* Nothing else moves a section, and after the image was written a failure *)
(* is not one of the placement.                                            *)
LEMMA OthersStutter ==
  ASSUME PlacementInv, RoomInv, FileInv, PlacedInv, [Next]_vars,
         ~PlaceStatic, ~StaticFails, ~PlaceMovable, ~MovableFails
  PROVE  PlacedInv' /\ UNCHANGED Placement!vars
<1>1. ASSUME LinkSection, phase' = "failed"
      PROVE  output' # <<>>
  <2>1. /\ phase = "link" /\ i \in Entry /\ Broken(i) # {} /\ output' = output
    BY <1>1, Sections DEF LinkSection, End, PlacementInv
  <2>2. PICK k \in DOMAIN entries[i].links : TRUE
    BY <2>1 DEF Broken
  <2>3. PICK off : off = entries[i].links[k].off
    OBVIOUS
  <2>4. Placed(i) /\ off \in Nat /\ off < entries[i].size
    BY <2>1, <2>3, LinkIs DEF FileInv
  <2>5. Address(i, off) \in DOMAIN output
    BY <2>1, <2>4 DEF FileInv, CodeThere
  <2>6. DOMAIN <<>> = {}
    OBVIOUS
  <2> QED
    BY <2>1, <2>5, <2>6
<1>2. CASE SkipMovable \/ Advance("static", "movable") \/ MovablesPlaced
  <2>1. /\ UNCHANGED <<entries, heap, region, output>> /\ phase \in {"static", "movable"}
        /\ \/ phase' = "static" /\ phase = "static" /\ ~entries[i].fixed
              /\ i' = i + 1 /\ i \in Entry
           \/ phase' \in {"movable", "symbols"}
    BY <1>2, Sections DEF SkipMovable, Advance, MovablesPlaced, PlacementInv
  <2>2. phase' = "static" => \A e \in Entry : Placed(e) => e < i + 1
    BY <2>1, Sections DEF PlacedInv
  <2>3. PlacedInv'
    BY <2>1, <2>2 DEF PlacedInv, Live, Entry, Placed
  <2> QED
    BY <2>1, <2>3 DEF Placement!vars, Entry
<1>3. CASE \/ CollectSymbols \/ Advance("symbols", "output") \/ WriteImage \/ LinkSection
           \/ Advance("link", "done")
  <2>1. /\ UNCHANGED <<entries, heap, region>> /\ phase \in {"symbols", "output", "link"}
        /\ phase' = "failed" => LinkSection
        /\ phase' \in {"symbols", "output"} => output' = output
        /\ phase' \notin {"static", "movable"}
    BY <1>3 DEF CollectSymbols, Advance, WriteImage, LinkSection, End
  <2>2. phase' \in {"symbols", "output"} => phase \in {"symbols", "output"}
    BY <1>3 DEF CollectSymbols, Advance, WriteImage, LinkSection, End
  <2>3. PlacedInv'
    BY <2>1, <2>2 DEF PlacedInv, Live, Entry
  <2>4. ~(phase = "failed" /\ output = <<>>) /\ ~(phase' = "failed" /\ output' = <<>>)
    BY <1>1, <2>1
  <2> QED
    BY <2>1, <2>3, <2>4 DEF Placement!vars, Entry
<1>4. CASE Ended \/ UNCHANGED vars
  <2>1. UNCHANGED vars
    BY <1>4 DEF Ended
  <2> QED
    BY <2>1 DEF vars, PlacedInv, Live, Entry, Placed, Placement!vars
<1>5. ~UseAfterFree
  BY DEF UseAfterFree, RoomInv, WholeInv
<1> QED
  BY <1>2, <1>3, <1>4, <1>5 DEF Next

LEMMA PlacedNext ==
  ASSUME PlacementInv, ChainInv, RoomInv, FileInv, PlacedInv, [Next]_vars
  PROVE  PlacedInv' /\ [Placement!Next]_(Placement!vars)
<1>1. CASE PlaceStatic
  BY <1>1, PlaceStaticMaps
<1>2. CASE PlaceMovable
  BY <1>2, PlaceMovableMaps
<1>3. CASE StaticFails \/ MovableFails
  <2>1. UNCHANGED <<entries, heap, region>> /\ phase' = "failed"
    BY <1>3 DEF StaticFails, MovableFails, End
  <2>2. PlacedInv'
    BY <2>1 DEF PlacedInv, Live, Entry
  <2> QED
    BY <1>3, <2>2, StaticFailsMaps, MovableFailsMaps
<1>4. CASE ~PlaceStatic /\ ~StaticFails /\ ~PlaceMovable /\ ~MovableFails
  BY <1>4, OthersStutter
<1> QED
  BY <1>1, <1>2, <1>3, <1>4

LEMMA PlacementBegins ==
  ASSUME Init
  PROVE  Placement!Init
<1>1. region = [e \in Entry |-> NULL] /\ phase = "static"
  BY DEF Init, Entry
<1> QED
  BY <1>1 DEF Placement!Init, Entry

(* The linker does what LdPlacement promises: sections with an origin go   *)
(* there in their order, the others, largest first, to the lowest address  *)
(* with room, and it gives up only when there is none                      *)
(* (place_static_regions, place_movable_regions).                          *)
THEOREM ImplementsPlacement == WholeSpec => PlacementSpec
<1>1. Init => PlacedInv /\ Placement!Init
  BY PlacedInit, PlacementBegins
<1>2. PlacementInv /\ ChainInv /\ RoomInv /\ FileInv /\ PlacedInv /\ [Next]_vars
        => PlacedInv' /\ [Placement!Next]_(Placement!vars)
  BY PlacedNext
<1> QED
  BY <1>1, <1>2, WholeSpecIsSpec, PlacementInvariant, ChainInvariant, RoomInvariant,
     FileInvariant, PTL
     DEF WholeSpec, Orderly, PlacementSpec, Placement!Spec

(* The same as a property of every list, whose steps are promised only if  *)
(* it is orderly (place_static_regions, place_movable_regions).            *)
THEOREM KeepsPlacement == Spec => PlacementKept
<1> DEFINE Mapped == [Placement!Next]_(Placement!vars)
<1>1. Init => Placement!Init
  BY PlacementBegins
<1>2. Mapped => [Orderly => Mapped]_vars
  OBVIOUS
<1>3. ~Orderly => [Orderly => Mapped]_vars
  OBVIOUS
<1>4. Spec /\ Orderly => WholeSpec
  BY DEF Spec, WholeSpec
<1> QED
  BY <1>1, <1>2, <1>3, <1>4, DisorderStays, ImplementsPlacement, PTL
     DEF Spec, PlacementSpec, PlacementKept, Placement!Spec

=============================================================================
