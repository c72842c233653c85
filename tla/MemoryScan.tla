------------------------------ MODULE MemoryScan ------------------------------
(***************************************************************************)
(* The loader's search for live objects, scan_private_memory_for_vtable:   *)
(* region by region and chunk by chunk through the game's private memory,  *)
(* for aligned words that hold a vtable's address, while the game writes,  *)
(* allocates and frees.                                                    *)
(*                                                                         *)
(* Memory is a sequence of pages of bytes.  A word is WordSize bytes; the  *)
(* real one has four, an aligned address being a multiple of it.           *)
(***************************************************************************)
EXTENDS Integers, Sequences, SequencesExt, FiniteSets

CONSTANTS
  WordSize,    \* bytes of a word
  PageSize,    \* bytes of a page
  Chunk,       \* bytes read at once
  MaxHits,     \* max_hits
  Target,      \* the bytes of the vtable's address
  Pages,       \* what a page may hold
  NPages,      \* pages below max_address
  MaxWrites    \* bound: changes the game makes

ScanAssumption ==
  /\ {WordSize, PageSize, Chunk, NPages} \subseteq Nat \ {0}
  /\ PageSize % WordSize = 0 /\ Chunk % WordSize = 0
  /\ Target \in Seq(Int) /\ Len(Target) = WordSize /\ MaxHits \in Nat /\ MaxWrites \in Nat
  \* No proper suffix of the target is one of its prefixes, as in the three vtables
  \* the loader looks for.
  /\ \A n \in 1..WordSize - 1 :
       SubSeq(Target, 1, n) # SubSeq(Target, WordSize - n + 1, WordSize)

VARIABLES
  page,     \* the bytes of each page
  open,     \* the pages that are committed, private and readable
  writes,   \* changes so far
  address,  \* where the next query is
  limit,    \* the end of the region being read, 0 outside of one
  hits,     \* the candidates found
  steady,   \* no page has come or gone
  kept,     \* addresses that have held the target all the time
  had       \* addresses that have held it at some time

game == <<page, open, writes, steady>>
scan == <<address, limit, hits>>
vars == <<game, scan, kept, had>>

End == NPages * PageSize
PageOf(a) == 1 + (a \div PageSize)
Byte(a) == page[PageOf(a)][1 + (a % PageSize)]
Bytes(a, n) == [k \in 1..n |-> Byte(a + k - 1)]
Words == {a \in 0..End - 1 : a % WordSize = 0}
Holding == {a \in Words : PageOf(a) \in open /\ Bytes(a, WordSize) = Target}

Init ==
  /\ page \in [1..NPages -> Pages] /\ open \in SUBSET (1..NPages)
  /\ writes = 0 /\ steady = TRUE /\ address = 0 /\ limit = 0 /\ hits = <<>>
  /\ kept = Holding /\ had = Holding

Done == limit = 0 /\ (address >= End \/ Len(hits) >= MaxHits)
Follow == kept' = kept \cap Holding' /\ had' = had \cup Holding'

-----------------------------------------------------------------------------
\* VirtualQueryEx: the region at an address ends where the pages' state changes.
RegionEnd(a) ==
  LET same(p) == p \in open <=> PageOf(a) \in open
  IN  PageSize * (CHOOSE p \in PageOf(a)..NPages :
                    /\ \A q \in PageOf(a)..p : same(q)
                    /\ p = NPages \/ ~same(p + 1))
Query ==
  /\ limit = 0 /\ ~Done
  /\ IF PageOf(address) \in open
     THEN limit' = RegionEnd(address) /\ UNCHANGED address
     ELSE address' = RegionEnd(address) /\ UNCHANGED limit
  /\ UNCHANGED <<game, hits>> /\ Follow

\* blob.find from position i on, the length of the blob when there is none.
Find(blob, i) ==
  LET at == {k \in i..Len(blob) - WordSize : SubSeq(blob, k + 1, k + WordSize) = Target}
  IN  IF at = {} THEN Len(blob) ELSE CHOOSE k \in at : \A m \in at : k <= m

\* An aligned match is a hit; the next search begins behind the match.
BadBehind(k) == k + 2 * WordSize
Behind(k) == k + WordSize
Found(blob, base) ==
  LET from[i \in 0..Len(blob) + 2 * WordSize] ==
        LET k == IF i > Len(blob) THEN Len(blob) ELSE Find(blob, i)
        IN  IF k = Len(blob) THEN <<>>
            ELSE (IF (base + k) % WordSize = 0 THEN <<base + k>> ELSE <<>>) \o from[Behind(k)]
  IN  from[0]

\* A chunk that cannot be read whole is skipped whole.
ReadChunk ==
  /\ limit > 0
  /\ LET want == IF limit - address < Chunk THEN limit - address ELSE Chunk
         readable == \A a \in address..address + want - 1 : PageOf(a) \in open
         found == IF readable THEN Found(Bytes(address, want), address) ELSE <<>>
         all == hits \o found
     IN  /\ hits' = SubSeq(all, 1, IF Len(all) < MaxHits THEN Len(all) ELSE MaxHits)
         /\ address' = IF Len(hits') >= MaxHits THEN limit ELSE address + want
         /\ limit' = IF address' >= limit THEN 0 ELSE limit
  /\ UNCHANGED game /\ Follow

\* The game writes a word, frees a page or gets one.
Writes ==
  /\ writes < MaxWrites /\ ~Done /\ writes' = writes + 1
  /\ \/ \E a \in Words : \E p \in Pages :
          /\ PageOf(a) \in open
          /\ page' = [page EXCEPT ![PageOf(a)] =
               [k \in 1..PageSize |->
                  IF k - 1 \in (a % PageSize)..((a % PageSize) + WordSize - 1)
                  THEN p[k] ELSE page[PageOf(a)][k]]]
          /\ UNCHANGED <<open, steady>>
     \/ \E n \in 1..NPages :
          /\ open' = IF n \in open THEN open \ {n} ELSE open \cup {n}
          /\ steady' = FALSE /\ UNCHANGED page
  /\ UNCHANGED scan /\ Follow

Next == Query \/ ReadChunk \/ Writes
Spec == Init /\ [][Next]_vars

-----------------------------------------------------------------------------
\* What the scan reports was there, in ascending order and no address twice; and a
\* scan that ends before its limit has found every object that stayed where it was.
\* A page that comes or goes meanwhile may cost the rest of its chunk.
ScanSound ==
  /\ \A k \in DOMAIN hits : hits[k] \in had /\ \A m \in 1..k - 1 : hits[m] < hits[k]
  /\ Done /\ Len(hits) < MaxHits /\ steady => kept \subseteq ToSet(hits)
=============================================================================
