-------------------------------- MODULE Linker --------------------------------
(***************************************************************************)
(* The linker (ld/src/link.c): it gives every section of the objects a     *)
(* range of the memory, copies the code there and writes the addresses of  *)
(* the symbols into the link points.  One action is one iteration of a     *)
(* loop of the code.                                                       *)
(*                                                                         *)
(* A section is a record of what the linker reads of it:                   *)
(*   fixed    IOF_SFLAG_STATIC_ORIGIN      origin, size    in bytes        *)
(*   exports, symbols, links: sequences of [name, off]                     *)
(***************************************************************************)
EXTENDS LdRegion, SequencesExt, FiniteSets

CONSTANTS
  MaxAddr,      (* IRID_MAX_ADDR: the size of the region that is managed   *)
  Inputs        (* the sequences of sections the linker may be given       *)

ASSUME LinkerAssumption ==
  /\ MaxAddr \in Nat \ {0}
  /\ \A input \in Inputs :
       /\ Len(input) \in Nat /\ DOMAIN input = 1 .. Len(input)
       /\ \A e \in DOMAIN input :
            /\ input[e].fixed \in BOOLEAN
            /\ input[e].size \in Nat /\ input[e].origin \in Nat
            /\ \A seq \in {input[e].exports, input[e].symbols, input[e].links} :
                 /\ Len(seq) \in Nat /\ DOMAIN seq = 1 .. Len(seq)
                 /\ \A k \in DOMAIN seq : seq[k].off \in Nat

VARIABLES
  entries,      (* self->entries: the sections in the order of the objects *)
  heap,         (* the nodes of the regions                                *)
  chain,        (* self->_region_chain                                     *)
  region,       (* entry->region, NULL while the section has no place      *)
  symbols,      (* self->symbols: [name, addr]                             *)
  output,       (* self->output: the bytes by address                      *)
  phase,        (* the loop the linker is in, or how it ended              *)
  i             (* the index of that loop                                  *)

vars == <<entries, heap, chain, region, symbols, output, phase, i>>

Entry == DOMAIN entries

-----------------------------------------------------------------------------
(* What can be in a byte of the output.                                    *)
Junk == [kind |-> "junk", section |-> 0, off |-> 0]     \* malloc'ed memory
Zero == [kind |-> "zero", section |-> 0, off |-> 0]
Code(e, k)  == [kind |-> "code", section |-> e, off |-> k]
Low(addr)   == [kind |-> "low",  section |-> 0, off |-> addr]
High(addr)  == [kind |-> "high", section |-> 0, off |-> addr]

First == FirstRegion(heap, chain)
Regions == Walk(heap, First)

(* A pointer the code is about to follow into a freed node: what happens   *)
(* then is up to the allocator.                                            *)
Dangling == heap[chain].type = "freed"

Ends(r) == heap[r].start + heap[r].size

Init ==
  /\ entries \in Inputs
  /\ heap    = <<NewRegion("free", 0, MaxAddr, 0)>>     \* create_empty_region
  /\ chain   = 1
  /\ region  = [e \in DOMAIN entries |-> NULL]
  /\ symbols = <<>>
  /\ output  = <<>>
  /\ phase   = "static"
  /\ i       = 1

End(how) ==
  /\ phase' = how
  /\ UNCHANGED <<entries, heap, chain, region, symbols, output, i>>

(* A loop over the entries ends and the next one starts.                   *)
Advance(from, to) ==
  /\ phase = from /\ i > Len(entries)
  /\ phase' = to /\ i' = 1
  /\ UNCHANGED <<entries, heap, chain, region, symbols, output>>

-----------------------------------------------------------------------------
(* Mutant of Insert: the section does not learn its region.                *)
InsertForgets(e, r, start) ==
  LET h == Append(heap, NewRegion("alloc", start, entries[e].size, e))
  IN  /\ CanInsert(h, r, Len(h))
      /\ heap'   = RegionInsert(h, r, Len(h))
      /\ chain'  = First
      /\ UNCHANGED <<entries, region, symbols, output, phase>>

(* The new node of section e, and ld_region_insert into region r.          *)
Insert(e, r, start) ==
  LET h == Append(heap, NewRegion("alloc", start, entries[e].size, e))
  IN  /\ CanInsert(h, r, Len(h))
      /\ heap'   = RegionInsert(h, r, Len(h))
      /\ region' = [region EXCEPT ![e] = Len(h)]
      /\ chain'  = First
      /\ UNCHANGED <<entries, symbols, output, phase>>

(* The section does not fit behind its start ("failed to insert region").  *)
CannotInsert(e, r, start) ==
  LET h == Append(heap, NewRegion("alloc", start, entries[e].size, e))
  IN  ~CanInsert(h, r, Len(h))

(* find_region_with_addr.                                                  *)
RegionsAt(addr) ==
  {r \in DOMAIN heap : /\ r \in ToSet(Regions)
                       /\ heap[r].start <= addr /\ addr < Ends(r)}

SkipMovable ==
  /\ phase = "static" /\ i <= Len(entries)
  /\ ~entries[i].fixed
  /\ i' = i + 1
  /\ UNCHANGED <<entries, heap, chain, region, symbols, output, phase>>

AtStatic ==
  phase = "static" /\ i <= Len(entries) /\ entries[i].fixed

(* Mutant of PlaceStatic: the origin only chooses the region.              *)
PlaceStaticAtRegion ==
  /\ AtStatic /\ ~Dangling
  /\ \E r \in RegionsAt(entries[i].origin) : Insert(i, r, heap[r].start)
  /\ i' = i + 1

PlaceStatic ==
  /\ AtStatic /\ ~Dangling
  /\ \E r \in RegionsAt(entries[i].origin) : Insert(i, r, entries[i].origin)
  /\ i' = i + 1

(* "cannot find region with address", "overlaps", "failed to insert".      *)
StaticFails ==
  /\ AtStatic /\ ~Dangling
  /\ \A r \in RegionsAt(entries[i].origin) :
       CannotInsert(i, r, entries[i].origin)
  /\ End("failed")

(* largest_nonplaced_section: the first of the largest, of size 0 never.   *)
Movable == {e \in Entry : region[e] = NULL /\ entries[e].size > 0}

Largest ==
  {e \in Movable : \A f \in Movable :
     \/ entries[f].size < entries[e].size
     \/ entries[f].size = entries[e].size /\ e <= f}

Fits(r, e) == heap[r].type = "free" /\ heap[r].size >= entries[e].size

AtMovable == phase = "movable" /\ Movable # {}

(* Mutant of FirstFit: the last region that fits.                          *)
LastFit(e) ==
  {r \in DOMAIN heap : /\ Fits(r, e)
                       /\ \E k \in DOMAIN Regions :
                            /\ Regions[k] = r
                            /\ \A j \in k + 1 .. Len(Regions) : ~Fits(Regions[j], e)}

(* The first region of the walk that fits, if any.                         *)
FirstFit(e) ==
  {r \in DOMAIN heap : /\ Fits(r, e)
                       /\ \E k \in DOMAIN Regions :
                            /\ Regions[k] = r
                            /\ \A j \in 1 .. k - 1 : ~Fits(Regions[j], e)}

PlaceMovable ==
  /\ AtMovable /\ ~Dangling
  /\ \E e \in Largest : \E r \in FirstFit(e) : Insert(e, r, heap[r].start)
  /\ UNCHANGED i

(* "failed to find enough space for section".                              *)
MovableFails ==
  /\ AtMovable /\ ~Dangling
  /\ \A e \in Largest : FirstFit(e) = {}
  /\ End("failed")

MovablesPlaced ==
  /\ phase = "movable" /\ Movable = {}
  /\ phase' = "symbols" /\ i' = 1
  /\ UNCHANGED <<entries, heap, chain, region, symbols, output>>

(* The first use of the chain after its head was freed.                    *)
UseAfterFree ==
  /\ AtStatic \/ AtMovable \/ phase = "output"
  /\ Dangling
  /\ End("undefined")

-----------------------------------------------------------------------------
Address(e, off) == heap[region[e]].start + off

(* A section without a region is followed through a NULL pointer as soon   *)
(* as it exports or links something.                                       *)
CollectSymbols ==
  /\ phase = "symbols" /\ i <= Len(entries)
  /\ IF region[i] = NULL /\ entries[i].exports # <<>>
       THEN End("undefined")
       ELSE /\ symbols' = symbols \o
                 [k \in DOMAIN entries[i].exports |->
                    [name |-> entries[i].exports[k].name,
                     addr |-> Address(i, entries[i].exports[k].off)]]
            /\ i' = i + 1
            /\ UNCHANGED <<entries, heap, chain, region, output, phase>>

(* The places of the walk where an allocated region is.                    *)
Used == {k \in DOMAIN Regions : heap[Regions[k]].type = "alloc"}

(* Mutant of OutputSize: the first allocated region of the walk.           *)
OutputSizeFirst == IF Used = {} THEN 0 ELSE Ends(Regions[Min(Used)])

(* create_output_buffer: the end of the last allocated region of the walk. *)
OutputSize == IF Used = {} THEN 0 ELSE Ends(Regions[Max(Used)])

(* Mutant of Zeroed: free regions are left as they come.                   *)
ZeroedNever(r) == FALSE

(* zero_free_sections: the last region is never zeroed.                    *)
Zeroed(r) == heap[r].type = "free" /\ r # Last(Regions)

(* copy_code_sections and zero_free_sections, over the walk.               *)
Image ==
  [a \in 0 .. OutputSize - 1 |->
    LET at == {r \in ToSet(Regions) : heap[r].start <= a /\ a < Ends(r)}
        r  == CHOOSE r \in at : TRUE
    IN  IF at = {}                    THEN Junk
        ELSE IF heap[r].type = "alloc" THEN Code(heap[r].section, a - heap[r].start)
        ELSE IF Zeroed(r)             THEN Zero
        ELSE Junk]

WriteImage ==
  /\ phase = "output"
  /\ ~Dangling
  /\ output' = Image
  /\ phase' = "link" /\ i' = 1
  /\ UNCHANGED <<entries, heap, chain, region, symbols>>

(* resolve_local_symbol and resolve_global_symbol: the first of the name.  *)
FirstNamed(seq, name) ==
  LET named == {k \in DOMAIN seq : seq[k].name = name}
  IN  CHOOSE k \in named : \A j \in named : k <= j

Named(seq, name) == \E k \in DOMAIN seq : seq[k].name = name

(* Mutant of Resolve: the exported symbols go first.                       *)
ResolveGlobalFirst(e, name) ==
  IF Named(symbols, name)
    THEN symbols[FirstNamed(symbols, name)].addr
    ELSE Address(e, entries[e].symbols[FirstNamed(entries[e].symbols, name)].off)

Resolve(e, name) ==
  IF Named(entries[e].symbols, name)
    THEN Address(e, entries[e].symbols[FirstNamed(entries[e].symbols, name)].off)
    ELSE symbols[FirstNamed(symbols, name)].addr

CanResolve(e, name) == Named(entries[e].symbols, name) \/ Named(symbols, name)

(* The first byte of link point k of section e; the second is behind it.   *)
At(e, k) == Address(e, entries[e].links[k].off)

(* The link points that name nothing, have no place or lie outside.        *)
Broken(e) ==
  {k \in DOMAIN entries[e].links :
     \/ ~CanResolve(e, entries[e].links[k].name)
     \/ region[e] = NULL
     \/ {At(e, k), At(e, k) + 1} \cap DOMAIN output # {At(e, k), At(e, k) + 1}}

(* The output with the link points of section e written in their order: a  *)
(* byte keeps what the last of them put there.                             *)
Patched(e) ==
  [a \in DOMAIN output |->
    LET here == {k \in DOMAIN entries[e].links : a \in {At(e, k), At(e, k) + 1}}
        k    == Max(here)
        addr == Resolve(e, entries[e].links[k].name)
    IN  IF here = {}           THEN output[a]
        ELSE IF a = At(e, k)   THEN Low(addr)
        ELSE High(addr)]

(* link_section, all the link points of one section, up to the first that  *)
(* is broken: the writes before a symbol that is missing do not reach the  *)
(* file, since the linker dies.                                            *)
LinkSection ==
  /\ phase = "link" /\ i <= Len(entries)
  /\ \/ /\ Broken(i) # {}
        /\ LET k == Min(Broken(i))
           IN  End(IF CanResolve(i, entries[i].links[k].name) THEN "undefined"
                                                              ELSE "failed")
     \/ /\ Broken(i) = {}
        /\ output' = Patched(i)
        /\ i' = i + 1
        /\ UNCHANGED <<entries, heap, chain, region, symbols, phase>>

Ended ==
  /\ phase \in {"done", "failed", "undefined"}
  /\ UNCHANGED vars

-----------------------------------------------------------------------------
Next ==
  \/ SkipMovable \/ PlaceStatic \/ StaticFails
  \/ Advance("static", "movable")
  \/ PlaceMovable \/ MovableFails \/ MovablesPlaced
  \/ UseAfterFree
  \/ CollectSymbols \/ Advance("symbols", "output")
  \/ WriteImage
  \/ LinkSection \/ Advance("link", "done")
  \/ Ended

Spec == Init /\ [][Next]_vars

-----------------------------------------------------------------------------
(* The lists of sections whose insertions have nothing behind them to      *)
(* lose: no section is all of the memory, the origins rise with the order  *)
(* of the objects, and what is left free below a section with an origin is *)
(* nothing, or more than all the others take.                              *)
Others(input) == {e \in DOMAIN input : ~input[e].fixed}

Load(input, set) ==
  LET upto[k \in 0 .. Len(input)] ==
        IF k = 0 THEN 0
        ELSE upto[k - 1] + IF k \in set THEN input[k].size ELSE 0
  IN  upto[Len(input)]

EndsBefore(input, e) ==
  {0} \cup {input[f].origin + input[f].size :
              f \in {f \in DOMAIN input : input[f].fixed /\ f < e}}

Roomy(input) ==
  \A e \in DOMAIN input :
    /\ input[e].size < MaxAddr
    /\ input[e].fixed =>
         LET bottom == Max(EndsBefore(input, e))
         IN  \/ input[e].origin = bottom
             \/ input[e].origin - bottom > Load(input, Others(input))

(* What a section exports or links has a place; its link points are within *)
(* its code and do not overlap.                                            *)
Linkable(input) ==
  \A e \in DOMAIN input :
    LET links == input[e].links
    IN  /\ input[e].exports # <<>> => input[e].fixed \/ input[e].size > 0
        /\ \A k \in DOMAIN links : links[k].off + 1 < input[e].size
        /\ \A k, m \in DOMAIN links : k # m =>
             links[k].off + 1 < links[m].off \/ links[m].off + 1 < links[k].off

(* What is asked of a file is asked for these lists; Spec has the others,  *)
(* too, and what the linker keeps for all of them.                         *)
Orderly == Roomy(entries) /\ Linkable(entries)

WholeSpec == Init /\ Orderly /\ [][Next]_vars

-----------------------------------------------------------------------------
(* The placement as the sections see it.                                   *)
Placement ==
  INSTANCE LdPlacement WITH
    place   <- [e \in Entry |-> IF region[e] = NULL THEN -1
                                                    ELSE heap[region[e]].start],
    outcome <- IF phase = "failed" /\ output = <<>> THEN "failed" ELSE "placing"

PlacementSpec == Placement!Spec

(* For an orderly list, every step of the linker on regions and pointers   *)
(* is a step of LdPlacement or none: fixed sections where they want to be, *)
(* the others "starting from the largest" at the lowest address with room, *)
(* and no giving up while there is any (place_static_regions,              *)
(* place_movable_regions).                                                 *)
PlacementKept ==
  Placement!Init /\ [][Orderly => [Placement!Next]_(Placement!vars)]_vars

Live == {r \in DOMAIN heap : heap[r].type # "freed"}

TypeOK ==
  /\ heap \in Seq(Region(0 .. Len(entries), 0 .. MaxAddr))
  /\ \A r \in DOMAIN heap : {heap[r].next, heap[r].prev} \subseteq 0 .. Len(heap)
  /\ chain \in DOMAIN heap
  /\ region \in [Entry -> 0 .. Len(heap)]
  /\ phase \in {"static", "movable", "symbols", "output", "link",
                "done", "failed", "undefined"}
  /\ i \in 1 .. Len(entries) + 1

Apart(r, s) == Ends(r) <= heap[s].start \/ Ends(s) <= heap[r].start

(* No two regions share a byte and none leaves the memory, whatever the    *)
(* chain that links them has become (ld_region_insert).                    *)
RegionsApart ==
  /\ \A r \in Live : Ends(r) <= MaxAddr
  /\ \A r, s \in Live : r # s => Apart(r, s)

(* A section that was placed has the whole of an allocated region, at its  *)
(* origin if it has one, and no other section shares it.                   *)
Placed(e) == region[e] # NULL

SectionsPlaced ==
  \A e \in Entry : Placed(e) =>
    /\ heap[region[e]].type = "alloc"
    /\ heap[region[e]].section = e
    /\ heap[region[e]].size = entries[e].size
    /\ entries[e].fixed => heap[region[e]].start = entries[e].origin

(* Walking the chain goes up the memory from 0 without a gap, and meets no *)
(* freed node, until the head itself is freed.                             *)
ChainContiguous ==
  ~Dangling /\ phase # "undefined" =>
    \A k \in DOMAIN Regions :
      /\ heap[Regions[k]].type # "freed"
      /\ heap[Regions[k]].start = IF k = 1 THEN 0 ELSE Ends(Regions[k - 1])

(* For an orderly list the walk meets every region: the ones an insertion  *)
(* touches stay linked with the rest ("Place the region in the middle of   *)
(* this empty one", "Replace the current region with the new one",         *)
(* ld_region_insert).                                                      *)
ChainComplete == Orderly => ~Dangling /\ ToSet(Regions) = Live

(* For an orderly list the linker never follows a pointer to a freed       *)
(* region or to none, and never writes outside of the output.              *)
NeverUndefined == Orderly => phase # "undefined"

(* The bytes of the output that link points of e take.                     *)
LinkBytes(e) ==
  UNION {{At(e, k), At(e, k) + 1} : k \in DOMAIN entries[e].links}

(* The code of every section is in the file, byte by byte but for the link *)
(* points, at the place the symbols were computed from.                    *)
OutputHasEverySection ==
  phase = "done" =>
    \A e \in Entry : \A k \in 0 .. entries[e].size - 1 :
      /\ Address(e, k) \in DOMAIN output
      /\ Address(e, k) \notin LinkBytes(e) => output[Address(e, k)] = Code(e, k)

(* For an orderly list it is (copy_code_sections, link_section).           *)
OutputComplete == Orderly => OutputHasEverySection

(* Nothing the linker did not write gets into the file, whatever the list. *)
NoJunk == phase = "done" => \A a \in DOMAIN output : output[a] # Junk

(* "find all link points and add the correct pointers to local functions   *)
(* or exported functions" (link_section): for an orderly list a link holds *)
(* the address of the section's own symbol of that name, else of the first *)
(* section that exports it.                                                *)
Target(e, name) ==
  LET own       == entries[e].symbols
      exporters == {f \in Entry : Named(entries[f].exports, name)}
      f         == CHOOSE f \in exporters : \A g \in exporters : f <= g
  IN  IF Named(own, name) THEN Address(e, own[FirstNamed(own, name)].off)
      ELSE Address(f, entries[f].exports[FirstNamed(entries[f].exports, name)].off)

LinksResolved ==
  Orderly /\ phase = "done" =>
    \A e \in Entry : \A k \in DOMAIN entries[e].links :
      LET target == Target(e, entries[e].links[k].name)
      IN  output[At(e, k)] = Low(target) /\ output[At(e, k) + 1] = High(target)

(* A fixed section that the first loop has passed has its place.           *)
FixedPlaced ==
  /\ phase = "static"  => \A e \in Entry : entries[e].fixed /\ e < i => Placed(e)
  /\ phase = "movable" => \A e \in Entry : entries[e].fixed => Placed(e)

(* The inductive invariant behind RegionsApart and SectionsPlaced.  The    *)
(* pointers take no part in it: an insertion splits one free region, and   *)
(* what it splits off lies within it, whatever the chain looks like.       *)
Node == [type : {"free", "alloc", "freed"}, start : Nat, size : Nat,
         section : Nat, next : Nat, prev : Nat]

PlacementInv ==
  /\ entries \in Inputs
  /\ heap \in Seq(Node)
  /\ region \in [Entry -> 0 .. Len(heap)]
  /\ i \in Nat \ {0}
  /\ RegionsApart /\ SectionsPlaced /\ FixedPlaced

(* The linker ends, with a file or with a message: every step goes on to a *)
(* later loop, to the next entry of this one, or places one more section   *)
(* ("while ((entry = largest_nonplaced_section(self)))").                  *)
Rank(p) ==
  CASE p = "static" -> 1 [] p = "movable" -> 2 [] p = "symbols" -> 3
    [] p = "output" -> 4 [] p = "link"    -> 5 [] OTHER         -> 6

EveryStepProgresses ==
  [][\/ Rank(phase') > Rank(phase)
     \/ phase' = phase /\ i' > i
     \/ phase' = phase /\ Movable' # Movable /\ Movable' \subseteq Movable]_vars

=============================================================================
