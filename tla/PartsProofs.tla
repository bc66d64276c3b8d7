----------------------------- MODULE PartsProofs -----------------------------
(***************************************************************************)
(* Proofs about the smaller parts, for every value of their constants: the *)
(* nonces, the secure buffers and the streams of crates/crypto, what a     *)
(* session may access, hardware containers, self-encrypting drives and the *)
(* detection of drives, the preparation of a drive, and the cache of       *)
(* chunks under Dokan.  The parts share no state; each theorem is about    *)
(* the specification of one.                                               *)
(***************************************************************************)
EXTENDS NonceRegistry, SecureMemory, SessionAccess, DriveContainer, OpalDrive,
  DriveDetection, DrivePackage, Streaming, ChunkCache, FiniteSetTheorems, SequenceTheorems,
  WellFoundedInduction, TLAPS

\* The set is the nonces counted once, whoever is about to register which.
NonceInv ==
  /\ registered \subseteq Nonces
  /\ drawn \in [Threads -> Nonces \cup {NotDrawn}]
  /\ given = [n \in Nonces |-> IF n \in registered THEN 1 ELSE 0]

\* No nonce is given out twice between two clears, however the threads that drew
\* it before registering interleave (nonce.rs:186-192).
THEOREM NoncesAreUnique == NonceSpec => []NoNonceTwice
<1>1. NonceInit => NonceInv
  BY DEF NonceInit, NonceInv
<1>2. NonceInv /\ [NonceNext]_noncevars => NonceInv'
  <2> SUFFICES ASSUME NonceInv, [NonceNext]_noncevars PROVE NonceInv'
    OBVIOUS
  <2> USE DEF NonceInv
  <2>1. ASSUME NEW t \in Threads, GenerateNonce(t) PROVE NonceInv'
    BY <2>1 DEF GenerateNonce
  <2>2. ASSUME NEW t \in Threads, RegisterNonce(t) PROVE NonceInv'
    <3>1. drawn[t] \in Nonces /\ drawn[t] \notin registered
      BY <2>2 DEF RegisterNonce, Known
    <3>2. given' = [n \in Nonces |-> IF n \in registered' THEN 1 ELSE 0]
      BY <2>2, <3>1 DEF RegisterNonce
    <3> QED
      BY <2>2, <3>1, <3>2 DEF RegisterNonce
  <2>3. ASSUME NEW t \in Threads, NonceCollision(t) PROVE NonceInv'
    BY <2>3 DEF NonceCollision
  <2>4. CASE ClearRegistry
    BY <2>4 DEF ClearRegistry
  <2>5. CASE UNCHANGED noncevars
    BY <2>5 DEF noncevars
  <2> QED
    BY <2>1, <2>2, <2>3, <2>4, <2>5 DEF NonceNext
<1>3. NonceInv => NoNonceTwice
  BY DEF NonceInv, NoNonceTwice, Known
<1> QED
  BY <1>1, <1>2, <1>3, PTL DEF NonceSpec

-----------------------------------------------------------------------------
\* Only a value that lies inside its owner moves, and its owner is never on the heap.
MemoryInv ==
  /\ buffer \in [Buffers -> [kind : {"none", "bytes", "key", "nonce"},
                             place : Places \cup {"nowhere"},
                             empty : BOOLEAN, locked : BOOLEAN]]
  /\ \A b \in Buffers : buffer[b].kind \in {"key", "nonce"} => buffer[b].place \in StackPlaces
  /\ FreedHeapIsWiped

\* One buffer changes: the places of the others stay taken, and so does its own
\* unless there is no buffer any more.
LEMMA TakenStays ==
  ASSUME NEW b \in Buffers, MemoryInv, NEW v, buffer' = [buffer EXCEPT ![b] = v]
  PROVE  /\ Taken \ {buffer[b].place} \subseteq Taken'
         /\ v # NoBuffer => v.place \in Taken'
         /\ buffer[b] = NoBuffer => Taken \subseteq Taken'
<1>1. buffer'[b] = v /\ \A c \in Buffers \ {b} : buffer'[c] = buffer[c]
  BY DEF MemoryInv
<1> QED
  BY <1>1 DEF Taken, Live

\* It is an invariant of every program that uses the buffers.
LEMMA MemoryIsOwned == MemorySpec => []MemoryInv
<1>1. MemoryInit => MemoryInv
  BY DEF MemoryInit, MemoryInv, FreedHeapIsWiped, NoBuffer
<1>2. MemoryInv /\ [MemoryNext]_memoryvars => MemoryInv'
  <2> SUFFICES ASSUME MemoryInv, [MemoryNext]_memoryvars PROVE MemoryInv'
    OBVIOUS
  <2> USE PlaceAssumption
  <2>1. ASSUME NEW b \in Buffers, NEW p \in HeapPlaces, NewBytes(b, p) \/ NewLockedBytes(b, p)
        PROVE  MemoryInv'
    <3> DEFINE v(l) == [kind |-> "bytes", place |-> p, empty |-> FALSE, locked |-> l]
    <3>1. PICK l \in BOOLEAN : buffer' = [buffer EXCEPT ![b] = v(l)]
      BY <2>1 DEF NewBytes, NewLockedBytes, Value
    <3>2. secret' \cap HeapPlaces \subseteq Taken'
      <4>1. v(l) # NoBuffer /\ v(l).place = p
        BY DEF NoBuffer
      <4>2. buffer[b] = NoBuffer
        BY <2>1 DEF NewBytes, NewLockedBytes, Live
      <4> HIDE DEF v
      <4>3. Taken \subseteq Taken' /\ p \in Taken'
        BY <3>1, <4>1, <4>2, TakenStays
      <4> QED
        BY <2>1, <4>3 DEF MemoryInv, FreedHeapIsWiped, NewBytes, NewLockedBytes
    <3> QED
      BY <3>1, <3>2 DEF MemoryInv, FreedHeapIsWiped, Places
  <2>2. ASSUME NEW b \in Buffers, NEW p \in StackPlaces, NewKey(b, p) \/ NewNonce(b, p)
        PROVE  MemoryInv'
    <3>1. PICK k \in {"key", "nonce"} : buffer' = [buffer EXCEPT ![b] = Value(k, p)]
      BY <2>2 DEF NewKey, NewNonce
    <3>2. secret' \cap HeapPlaces \subseteq Taken'
      <4>1. Taken \subseteq Taken'
        BY <2>2, <3>1, TakenStays DEF NewKey, NewNonce, Live
      <4> QED
        BY <2>2, <4>1 DEF MemoryInv, FreedHeapIsWiped, NewKey, NewNonce
    <3> QED
      BY <3>1, <3>2 DEF MemoryInv, FreedHeapIsWiped, Value, Places
  <2>3. ASSUME NEW b \in Buffers, NEW p \in StackPlaces, Move(b, p) PROVE MemoryInv'
    <3>1. buffer' = [buffer EXCEPT ![b] = [buffer[b] EXCEPT !.place = p]]
      BY <2>3 DEF Move
    <3>2. secret' \cap HeapPlaces \subseteq Taken'
      <4>1. buffer[b].place \in StackPlaces
        BY <2>3 DEF Move, MemoryInv
      <4>2. Taken \ {buffer[b].place} \subseteq Taken'
        BY <3>1, TakenStays
      <4> QED
        BY <2>3, <4>1, <4>2 DEF MemoryInv, FreedHeapIsWiped, Move
    <3> QED
      BY <2>3, <3>1, <3>2 DEF MemoryInv, FreedHeapIsWiped, Places
  <2>4. ASSUME NEW b \in Buffers, NEW p \in StackPlaces, NEW q \in StackPlaces,
               NewLockedKey(b, q, p)
        PROVE  MemoryInv'
    <3>1. PICK v : buffer' = [buffer EXCEPT ![b] = v]
      BY <2>4 DEF NewLockedKey
    <3> QED
      BY <2>4, <3>1, TakenStays
      DEF MemoryInv, FreedHeapIsWiped, NewLockedKey, Value, Live, Places
  <2>5. ASSUME NEW b \in Buffers,
               LockBytes(b) \/ LockKey(b) \/ UnlockBytes(b) \/ UnlockKey(b) \/ ZeroizeBytes(b)
        PROVE  MemoryInv'
    <3>1. secret' \subseteq secret
      BY <2>5 DEF LockBytes, LockKey, UnlockBytes, UnlockKey, ZeroizeBytes
    <3>2. \A c \in Buffers : buffer'[c].kind = buffer[c].kind /\ buffer'[c].place = buffer[c].place
      BY <2>5 DEF LockBytes, LockKey, UnlockBytes, UnlockKey, ZeroizeBytes, MemoryInv
    <3>3. \A c \in Buffers : buffer'[c] = buffer[c] \/ buffer[c].kind # "none"
      BY <2>5 DEF LockBytes, LockKey, UnlockBytes, UnlockKey, ZeroizeBytes, MemoryInv
    <3>4. Taken \subseteq Taken'
      <4> SUFFICES ASSUME NEW c \in Buffers, buffer[c] # NoBuffer
                   PROVE  buffer'[c] # NoBuffer /\ buffer'[c].place = buffer[c].place
        BY DEF Taken, Live
      <4> QED
        BY <3>2, <3>3 DEF NoBuffer
    <3>5. buffer' \in [Buffers -> [kind : {"none", "bytes", "key", "nonce"},
                                   place : Places \cup {"nowhere"},
                                   empty : BOOLEAN, locked : BOOLEAN]]
      <4>1. \/ buffer' = buffer
            \/ \E l \in BOOLEAN : buffer' = [buffer EXCEPT ![b] = [buffer[b] EXCEPT !.locked = l]]
            \/ buffer' = [buffer EXCEPT ![b] = [buffer[b] EXCEPT !.empty = TRUE]]
        BY <2>5 DEF LockBytes, LockKey, UnlockBytes, UnlockKey, ZeroizeBytes
      <4> DEFINE T == [kind : {"none", "bytes", "key", "nonce"}, place : Places \cup {"nowhere"},
                       empty : BOOLEAN, locked : BOOLEAN]
      <4>2. buffer \in [Buffers -> T]
        BY DEF MemoryInv
      <4>3. \A w \in T, l \in BOOLEAN :
              [w EXCEPT !.locked = l] \in T /\ [w EXCEPT !.empty = l] \in T
        OBVIOUS
      <4> HIDE DEF T
      <4>4. buffer' \in [Buffers -> T]
        <5>1. buffer[b] \in T
          BY <4>2
        <5>2. buffer' = buffer \/ \E w \in T : buffer' = [buffer EXCEPT ![b] = w]
          BY <4>1, <4>3, <5>1
        <5> QED
          BY <4>2, <5>2
      <4> QED
        BY <4>4 DEF T
    <3> QED
      BY <3>1, <3>2, <3>4, <3>5 DEF MemoryInv, FreedHeapIsWiped
  <2>6. ASSUME NEW b \in Buffers, DropBytes(b) \/ DropKey(b) \/ DropNonce(b)
        PROVE  MemoryInv'
    <3>1. buffer' = [buffer EXCEPT ![b] = NoBuffer] /\ secret' = secret \ {buffer[b].place}
      BY <2>6 DEF DropBytes, DropKey, DropNonce
    <3> QED
      BY <3>1, TakenStays DEF MemoryInv, FreedHeapIsWiped, NoBuffer
  <2>7. CASE UNCHANGED memoryvars
    BY <2>7 DEF memoryvars, MemoryInv, FreedHeapIsWiped, Taken, Live
  <2> QED
    BY <2>1, <2>2, <2>3, <2>4, <2>5, <2>6, <2>7 DEF MemoryNext
<1> QED
  BY <1>1, <1>2, PTL DEF MemorySpec

\* Heap memory no buffer owns any more holds nothing secret (secure_memory.rs:219).
THEOREM HeapIsWiped == MemorySpec => []FreedHeapIsWiped
<1>1. MemoryInv => FreedHeapIsWiped
  BY DEF MemoryInv
<1> QED
  BY <1>1, MemoryIsOwned, PTL

\* No two buffers share a place: the pages one of them returns to the kernel are
\* not those of a buffer that is alone on its page.
PagesInv ==
  /\ \A b \in Live : buffer[b].kind # "none" /\ buffer[b].place \in Places
  /\ \A b, c \in Live : b # c => buffer[b].place # buffer[c].place
  /\ LockedIsInMemory

\* One buffer changes, its place is its own, and it gives back at most its page.
LEMMA OneBufferChanges ==
  ASSUME MemoryInv, PagesInv, NEW b \in Buffers, NEW v,
         buffer' = [buffer EXCEPT ![b] = v],
         \/ v = NoBuffer
         \/ /\ v.kind # "none" /\ v.place \in Places
            /\ \A c \in Live : c # b => buffer[c].place # v.place,
         \/ lockedPages \subseteq lockedPages'
         \/ b \in Live /\ lockedPages' = lockedPages \ {Page(b)},
         v.kind = "bytes" /\ v.locked /\ AloneOnItsPage(v.place)
            => PageOf[v.place] \in lockedPages'
  PROVE  PagesInv'
<1>1. buffer'[b] = v /\ \A c \in Buffers : c # b => buffer'[c] = buffer[c]
  BY DEF MemoryInv
<1>2. \A c \in Buffers : c # b => (c \in Live' <=> c \in Live)
  BY <1>1 DEF Live
<1>3. ASSUME NEW c \in Live' PROVE buffer'[c].kind # "none" /\ buffer'[c].place \in Places
  BY <1>1, <1>2 DEF PagesInv, Live
<1>4. ASSUME NEW c \in Live', NEW d \in Live', c # d
      PROVE  buffer'[c].place # buffer'[d].place
  BY <1>1, <1>2, <1>4 DEF PagesInv, Live
<1>5. ASSUME NEW c \in Live', buffer'[c].kind = "bytes", buffer'[c].locked,
             AloneOnItsPage(buffer'[c].place)
      PROVE  PageOf[buffer'[c].place] \in lockedPages'
  <2>1. CASE c = b
    BY <1>1, <1>5, <2>1
  <2>2. CASE c # b
    <3>1. c \in Live /\ buffer'[c] = buffer[c]
      BY <1>1, <1>2, <2>2 DEF Live
    <3>2. Page(c) \in lockedPages
      BY <1>5, <3>1 DEF PagesInv, LockedIsInMemory
    <3>3. b \in Live => Page(b) # Page(c)
      BY <1>5, <2>2, <3>1 DEF PagesInv, AloneOnItsPage, Page
    <3> QED
      BY <3>1, <3>2, <3>3 DEF Page
  <2> QED
    BY <2>1, <2>2
<1> QED
  BY <1>3, <1>4, <1>5 DEF PagesInv, LockedIsInMemory, Page

\* A buffer that says it is locked is on a locked page, if nothing else can lie on
\* that page (secure_memory.rs:135-172, 212-221).
THEOREM LockedStaysInMemory == MemorySpec => []LockedIsInMemory
<1>1. MemoryInit => PagesInv
  BY DEF MemoryInit, PagesInv, LockedIsInMemory, Live
<1>2. MemoryInv /\ PagesInv /\ [MemoryNext]_memoryvars => PagesInv'
  <2> SUFFICES ASSUME MemoryInv, PagesInv, [MemoryNext]_memoryvars PROVE PagesInv'
    OBVIOUS
  <2>1. ASSUME NEW b \in Buffers, NEW p \in Places, p \notin Taken, NEW v,
               buffer' = [buffer EXCEPT ![b] = v],
               v.kind # "none", v.place = p, lockedPages \subseteq lockedPages',
               v.kind = "bytes" /\ v.locked => PageOf[p] \in lockedPages'
        PROVE  PagesInv'
    <3>1. \A c \in Live : c # b => buffer[c].place # v.place
      BY <2>1 DEF Taken
    <3> QED
      BY <2>1, <3>1, OneBufferChanges
  <2>2. ASSUME NEW b \in Buffers, NEW p \in HeapPlaces, NewBytes(b, p) PROVE PagesInv'
    <3> DEFINE v == Value("bytes", p)
    <3>1. /\ p \in Places /\ p \notin Taken /\ buffer' = [buffer EXCEPT ![b] = v]
          /\ lockedPages \subseteq lockedPages'
      BY <2>2 DEF NewBytes, Places
    <3>2. v.kind # "none" /\ v.place = p
      BY DEF Value
    <3>3. v.kind = "bytes" /\ v.locked => PageOf[p] \in lockedPages'
      BY <2>2 DEF NewBytes, Value
    <3> HIDE DEF v
    <3> QED
      BY <2>1, <3>1, <3>2, <3>3
  <2>3. ASSUME NEW b \in Buffers, NEW p \in HeapPlaces, NewLockedBytes(b, p) PROVE PagesInv'
    <3> DEFINE v == [Value("bytes", p) EXCEPT !.locked = TRUE]
    <3>1. /\ p \in Places /\ p \notin Taken /\ buffer' = [buffer EXCEPT ![b] = v]
          /\ lockedPages \subseteq lockedPages'
      BY <2>3 DEF NewLockedBytes, Places
    <3>2. v.kind # "none" /\ v.place = p
      BY DEF Value
    <3>3. v.kind = "bytes" /\ v.locked => PageOf[p] \in lockedPages'
      BY <2>3 DEF NewLockedBytes, Value
    <3> HIDE DEF v
    <3> QED
      BY <2>1, <3>1, <3>2, <3>3
  <2>4. ASSUME NEW b \in Buffers, NEW p \in StackPlaces, NewKey(b, p) PROVE PagesInv'
    <3> DEFINE v == Value("key", p)
    <3>1. /\ p \in Places /\ p \notin Taken /\ buffer' = [buffer EXCEPT ![b] = v]
          /\ lockedPages \subseteq lockedPages'
      BY <2>4 DEF NewKey, Places
    <3>2. v.kind # "none" /\ v.place = p
      BY DEF Value
    <3>3. v.kind = "bytes" /\ v.locked => PageOf[p] \in lockedPages'
      BY <2>4 DEF NewKey, Value
    <3> HIDE DEF v
    <3> QED
      BY <2>1, <3>1, <3>2, <3>3
  <2>5. ASSUME NEW b \in Buffers, NEW p \in StackPlaces, NewNonce(b, p) PROVE PagesInv'
    <3> DEFINE v == Value("nonce", p)
    <3>1. /\ p \in Places /\ p \notin Taken /\ buffer' = [buffer EXCEPT ![b] = v]
          /\ lockedPages \subseteq lockedPages'
      BY <2>5 DEF NewNonce, Places
    <3>2. v.kind # "none" /\ v.place = p
      BY DEF Value
    <3>3. v.kind = "bytes" /\ v.locked => PageOf[p] \in lockedPages'
      BY <2>5 DEF NewNonce, Value
    <3> HIDE DEF v
    <3> QED
      BY <2>1, <3>1, <3>2, <3>3
  <2>6. ASSUME NEW b \in Buffers, NEW p \in StackPlaces, NEW q \in StackPlaces,
               NewLockedKey(b, q, p)
        PROVE  PagesInv'
    <3> DEFINE v == [Value("key", p) EXCEPT !.locked = TRUE]
    <3>1. /\ p \in Places /\ p \notin Taken /\ buffer' = [buffer EXCEPT ![b] = v]
          /\ lockedPages \subseteq lockedPages'
      BY <2>6 DEF NewLockedKey, Places, LockMemory
    <3>2. v.kind # "none" /\ v.place = p
      BY DEF Value
    <3>3. v.kind = "bytes" /\ v.locked => PageOf[p] \in lockedPages'
      BY <2>6 DEF NewLockedKey, Value
    <3> HIDE DEF v
    <3> QED
      BY <2>1, <3>1, <3>2, <3>3
  <2>7. ASSUME NEW b \in Buffers, NEW p \in StackPlaces, Move(b, p) PROVE PagesInv'
    <3> DEFINE v == [buffer[b] EXCEPT !.place = p]
    <3>1. buffer' = [buffer EXCEPT ![b] = v] /\ lockedPages' = lockedPages
      BY <2>7 DEF Move
    <3>2. v.kind \in {"key", "nonce"} /\ v.place = p
      BY <2>7 DEF Move, MemoryInv
    <3>3. p \in Places /\ p \notin Taken
      BY <2>7 DEF Move, Places
    <3> HIDE DEF v
    <3> QED
      BY <2>1, <3>1, <3>2, <3>3
  <2>8. ASSUME NEW b \in Live, NEW v, buffer' = [buffer EXCEPT ![b] = v],
               v.kind = buffer[b].kind, v.place = buffer[b].place,
               \/ lockedPages \subseteq lockedPages'
               \/ lockedPages' = lockedPages \ {Page(b)} /\ ~v.locked,
               v.locked => buffer[b].locked \/ Page(b) \in lockedPages'
        PROVE  PagesInv'
    <3>1. b \in Buffers
      BY DEF Live
    <3>2. v.kind # "none" /\ v.place \in Places
      BY <2>8 DEF PagesInv
    <3>3. \A c \in Live : c # b => buffer[c].place # v.place
      BY <2>8 DEF PagesInv
    <3>4. v.kind = "bytes" /\ v.locked /\ AloneOnItsPage(v.place)
            => PageOf[v.place] \in lockedPages'
      BY <2>8 DEF PagesInv, LockedIsInMemory, Page
    <3> QED
      BY <2>8, <3>1, <3>2, <3>3, <3>4, OneBufferChanges
  <2>9. ASSUME NEW b \in Buffers,
               LockBytes(b) \/ LockKey(b) \/ UnlockBytes(b) \/ UnlockKey(b) \/ ZeroizeBytes(b)
        PROVE  PagesInv'
    <3>1. b \in Live
      BY <2>9 DEF LockBytes, LockKey, UnlockBytes, UnlockKey, ZeroizeBytes, Live, NoBuffer
    <3>2. CASE LockBytes(b) \/ LockKey(b)
      <4> DEFINE v == [buffer[b] EXCEPT !.locked = TRUE]
      <4>1. /\ buffer' = [buffer EXCEPT ![b] = v]
            /\ lockedPages' = lockedPages \cup {Page(b)}
        BY <3>2 DEF LockBytes, LockKey, LockMemory, Page
      <4>2. v.kind = buffer[b].kind /\ v.place = buffer[b].place
        BY DEF MemoryInv
      <4> HIDE DEF v
      <4> QED
        BY <2>8, <3>1, <4>1, <4>2
    <3>3. CASE UnlockBytes(b) \/ UnlockKey(b)
      <4> DEFINE v == [buffer[b] EXCEPT !.locked = FALSE]
      <4>1. \/ UNCHANGED <<buffer, lockedPages>>
            \/ /\ buffer' = [buffer EXCEPT ![b] = v]
               /\ lockedPages' = lockedPages \ {Page(b)}
        BY <3>3 DEF UnlockBytes, UnlockKey, UnlockMemory, Page
      <4>2. v.kind = buffer[b].kind /\ v.place = buffer[b].place /\ ~v.locked
        BY DEF MemoryInv
      <4> HIDE DEF v
      <4>3. CASE UNCHANGED <<buffer, lockedPages>>
        BY <4>3 DEF PagesInv, LockedIsInMemory, Live, Page
      <4> QED
        BY <2>8, <3>1, <4>1, <4>2, <4>3
    <3>4. CASE ZeroizeBytes(b)
      <4> DEFINE v == [buffer[b] EXCEPT !.empty = TRUE]
      <4>1. buffer' = [buffer EXCEPT ![b] = v] /\ lockedPages' = lockedPages
        BY <3>4 DEF ZeroizeBytes
      <4>2. v.kind = buffer[b].kind /\ v.place = buffer[b].place /\ v.locked = buffer[b].locked
        BY DEF MemoryInv
      <4> HIDE DEF v
      <4> QED
        BY <2>8, <3>1, <4>1, <4>2
    <3> QED
      BY <2>9, <3>2, <3>3, <3>4
  <2>10. ASSUME NEW b \in Buffers, DropBytes(b) \/ DropKey(b) \/ DropNonce(b) PROVE PagesInv'
    <3>1. b \in Live
      BY <2>10 DEF DropBytes, DropKey, DropNonce, Live, NoBuffer
    <3>2. /\ buffer' = [buffer EXCEPT ![b] = NoBuffer]
          /\ lockedPages' = lockedPages \/ lockedPages' = lockedPages \ {Page(b)}
      BY <2>10 DEF DropBytes, DropKey, DropNonce, UnlockMemory, Page
    <3>3. NoBuffer.kind # "bytes"
      BY DEF NoBuffer
    <3> HIDE DEF NoBuffer
    <3> QED
      BY <3>1, <3>2, <3>3, OneBufferChanges
  <2>11. CASE UNCHANGED memoryvars
    BY <2>11 DEF memoryvars, PagesInv, LockedIsInMemory, Live, Page
  <2> QED
    BY <2>2, <2>3, <2>4, <2>5, <2>6, <2>7, <2>9, <2>10, <2>11 DEF MemoryNext
<1>3. PagesInv => LockedIsInMemory
  BY DEF PagesInv
<1> QED
  BY <1>1, <1>2, <1>3, MemoryIsOwned, PTL DEF MemorySpec

-----------------------------------------------------------------------------
(* SessionAccess. *)
\* A set of naturals that has a bound has a highest member.
LEMMA HighestIsThere ==
  ASSUME NEW S, S \subseteq Nat, S # {}, NEW m \in Nat, \A s \in S : s <= m
  PROVE  Highest(S) \in S /\ \A k \in S : k <= Highest(S)
<1> DEFINE R == OpToRel(<, Nat)
           T == {m - s : s \in S}
<1>1. IsWellFoundedOn(R, Nat)
  BY NatLessThanWellFounded, Zenon
<1>2. T \subseteq Nat /\ T # {}
  <2>1. ASSUME NEW s \in S PROVE m - s \in Nat
    <3>1. s \in Nat /\ s <= m
      OBVIOUS
    <3> QED
      BY <3>1
  <2> QED
    BY <2>1
<1>3. \A x, y \in Nat : y < x => <<y, x>> \in R
  BY DEF OpToRel
<1>4. \E x \in T : \A y \in T : ~ (<<y, x>> \in R)
  <2> HIDE DEF R, T
  <2> QED
    BY <1>1, <1>2, WFMin
<1>5. PICK x \in T : \A y \in T : ~ (y < x)
  <2> HIDE DEF R
  <2> QED
    BY <1>2, <1>3, <1>4
<1>6. PICK s \in S : x = m - s
  OBVIOUS
<1>7. \A k \in S : k <= s
  <2> SUFFICES ASSUME NEW k \in S PROVE k <= s
    OBVIOUS
  <2>1. ~ (m - k < m - s)
    BY <1>5, <1>6
  <2>2. k \in Nat /\ s \in Nat
    BY <1>6
  <2> HIDE DEF R, T
  <2> QED
    BY <2>1, <2>2
<1> QED
  BY <1>7 DEF Highest

\* What a session has opened are levels, the highest of them is max_level, and
\* only an active session has opened any.
AccessInv ==
  /\ access_mode \in {"Isolated", "Hierarchical"}
  /\ Unlocked \subseteq Levels
  /\ max_level = IF Unlocked = {} THEN NoLevel ELSE Highest(Unlocked)
  /\ state # "Active" => Unlocked = {}

\* Among the levels a set has a highest member.
LEMMA HighestLevel ==
  ASSUME NEW S, S \subseteq Levels, S # {}
  PROVE  Highest(S) \in S /\ \A k \in S : k <= Highest(S)
<1>1. PICK top \in Levels : \A l \in Levels : l <= top
  BY AccessAssumption
<1>2. top \in Nat /\ S \subseteq Nat /\ \A s \in S : s <= top
  BY <1>1, AccessAssumption
<1> QED
  BY <1>2, HighestIsThere

\* A set of levels has one highest member.
LEMMA HighestIsOne ==
  ASSUME NEW S, S \subseteq Levels, NEW h \in S, \A k \in S : k <= h
  PROVE  Highest(S) = h
<1>1. Highest(S) \in S /\ \A k \in S : k <= Highest(S)
  BY HighestLevel
<1>2. h <= Highest(S) /\ Highest(S) <= h /\ h \in Nat /\ Highest(S) \in Nat
  BY <1>1, AccessAssumption
<1> QED
  BY <1>2

\* max_level, raised by levels that are opened, is the highest opened.
LEMMA RaisedIsHighest ==
  ASSUME AccessInv, NEW ls, ls \subseteq Levels
  PROVE  Raised(ls) = IF Unlocked \cup ls = {} THEN NoLevel ELSE Highest(Unlocked \cup ls)
<1> DEFINE S == {max_level} \cup ls
<1>1. CASE Unlocked \cup ls = {}
  <2>1. S = {NoLevel} /\ NoLevel \in Nat
    BY <1>1 DEF AccessInv, NoLevel
  <2>2. Highest(S) \in S
    BY <2>1, HighestIsThere, NoLevel <= NoLevel DEF NoLevel
  <2> QED
    BY <1>1, <2>1, <2>2 DEF Raised
<1>2. CASE Unlocked = {} /\ ls # {}
  <2>1. PICK h \in ls : \A k \in ls : k <= h
    BY <1>2, HighestLevel
  <2>2. S \subseteq Nat /\ h \in S /\ \A k \in S : k <= h
    BY <1>2, <2>1, AccessAssumption DEF AccessInv, NoLevel
  <2>3. Highest(S) \in S /\ \A k \in S : k <= Highest(S)
    BY <2>2, HighestIsThere
  <2>4. Highest(S) = h
    <3>1. Highest(S) \in Nat /\ h \in Nat /\ h <= Highest(S) /\ Highest(S) <= h
      BY <2>2, <2>3
    <3> QED
      BY <3>1
  <2>5. Highest(Unlocked \cup ls) = h
    BY <1>2, <2>1, HighestIsOne
  <2> QED
    BY <1>2, <2>4, <2>5 DEF Raised
<1>3. CASE Unlocked # {}
  <2>1. max_level \in Unlocked /\ \A k \in Unlocked : k <= max_level
    BY <1>3, HighestLevel DEF AccessInv
  <2>2. S \subseteq Levels /\ S # {}
    BY <2>1 DEF AccessInv
  <2>3. Highest(S) \in S /\ \A k \in S : k <= Highest(S)
    BY <2>2, HighestLevel
  <2>4. \A k \in Unlocked \cup ls : k <= Highest(S)
    <3>1. Unlocked \subseteq Nat /\ ls \subseteq Nat /\ Highest(S) \in Nat
      BY <2>2, <2>3, AccessAssumption DEF AccessInv
    <3>2. max_level <= Highest(S) /\ \A k \in ls : k <= Highest(S)
      BY <2>3
    <3> QED
      BY <2>1, <3>1, <3>2
  <2>5. Highest(S) \in Unlocked \cup ls /\ Unlocked \cup ls \subseteq Levels
    BY <2>1, <2>3 DEF AccessInv
  <2>6. Highest(Unlocked \cup ls) = Highest(S)
    BY <2>4, <2>5, HighestIsOne
  <2> QED
    BY <1>3, <2>6 DEF Raised
<1> QED
  BY <1>1, <1>2, <1>3

\* Opening levels raises max_level with them.
LEMMA OpeningLevels ==
  ASSUME AccessInv, NEW ls, ls \subseteq Levels, NEW p,
         state = "Active", state' = "Active", access_mode' = access_mode,
         unlocked' = With(ls, p), max_level' = Raised(ls)
  PROVE  AccessInv'
<1>1. Unlocked' = Unlocked \cup ls
  BY DEF With, Unlocked
<1>2. max_level' = IF Unlocked \cup ls = {} THEN NoLevel ELSE Highest(Unlocked \cup ls)
  BY RaisedIsHighest
<1> QED
  BY <1>1, <1>2 DEF AccessInv

\* The top of what a session may access is a level whose own password was given,
\* in either mode and whatever was unlocked before (session.rs:366-494, 553-568).
THEOREM TopHasItsKey == AccessSpec => []TopLevelWasUnlocked
<1>1. AccessInit => AccessInv
  BY DEF AccessInit, AccessInv, Unlocked, Nothing
<1>2. AccessInv /\ [AccessNext]_accessvars => AccessInv'
  <2> SUFFICES ASSUME AccessInv, [AccessNext]_accessvars PROVE AccessInv'
    OBVIOUS
  <2>1. ASSUME NEW p \in LevelPasswordsOf, NEW mode \in {"Isolated", "Hierarchical"},
               OpenVault(p, mode)
        PROVE  AccessInv'
    <3>1. Unlocked' = OpenedBy(p, Levels) /\ OpenedBy(p, Levels) # {}
      BY <2>1 DEF OpenVault, Unlocked
    <3> QED
      BY <2>1, <3>1 DEF OpenVault, AccessInv, OpenedBy
  <2>2. ASSUME NEW mode \in {"Isolated", "Hierarchical"}, SetAccessMode(mode)
        PROVE  AccessInv'
    BY <2>2 DEF SetAccessMode, AccessInv, Unlocked
  <2>3. ASSUME NEW l \in Levels, NEW p \in LevelPasswordsOf, UnlockLevel(l, p)
        PROVE  AccessInv'
    BY <2>3, OpeningLevels DEF UnlockLevel
  <2>4. ASSUME NEW l \in Levels, NEW p \in LevelPasswordsOf, UnlockHierarchy(l, p)
        PROVE  AccessInv'
    <3> DEFINE opened == OpenedBy(p, {k \in Levels : k <= l} \ Unlocked)
    <3>1. opened \subseteq Levels
      BY DEF OpenedBy
    <3>2. /\ state = "Active" /\ state' = "Active" /\ access_mode' = access_mode
          /\ unlocked' = With(opened, p) /\ max_level' = Raised(opened)
      BY <2>4 DEF UnlockHierarchy
    <3> HIDE DEF opened
    <3> QED
      BY <3>1, <3>2, OpeningLevels
  <2>5. CASE LockSession \/ CloseSession
    BY <2>5 DEF LockSession, CloseSession, AccessInv, Unlocked, Nothing
  <2>6. ASSUME NEW l \in Levels, NEW p \in LevelPasswordsOf \cup {NoKeystore},
               KeystoreChanged(l, p)
        PROVE  AccessInv'
    BY <2>6 DEF KeystoreChanged, AccessInv, Unlocked
  <2>7. CASE UNCHANGED accessvars
    BY <2>7 DEF accessvars, AccessInv, Unlocked
  <2> QED
    BY <2>1, <2>2, <2>3, <2>4, <2>5, <2>6, <2>7 DEF AccessNext
<1>3. AccessInv => TopLevelWasUnlocked
  <2> SUFFICES ASSUME AccessInv, AccessibleLevels # {}
               PROVE  HasEffectiveKek(Highest(AccessibleLevels))
    BY DEF TopLevelWasUnlocked
  <2>1. AccessibleLevels \subseteq Levels /\ state = "Active"
    BY DEF AccessibleLevels, CanAccessLevel
  <2>2. Unlocked # {}
    <3>1. CASE access_mode = "Isolated"
      BY <3>1 DEF AccessibleLevels, CanAccessLevel
    <3>2. CASE access_mode = "Hierarchical"
      <4>1. PICK l \in Levels : l <= max_level
        BY <3>2 DEF AccessibleLevels, CanAccessLevel
      <4>2. l \in Nat \ {0} /\ ~(l <= NoLevel)
        BY AccessAssumption DEF NoLevel
      <4> QED
        BY <4>1, <4>2 DEF AccessInv
    <3> QED
      BY <3>1, <3>2 DEF AccessInv
  <2>3. max_level \in Unlocked /\ \A k \in Unlocked : k <= max_level
    BY <2>2, HighestLevel DEF AccessInv
  <2>4. max_level \in AccessibleLevels /\ CanAccessLevel(max_level)
    <3>1. max_level \in Levels /\ max_level # 0 /\ max_level <= max_level
      BY <2>3, AccessAssumption DEF AccessInv, NoLevel
    <3> QED
      BY <2>1, <2>3, <3>1 DEF AccessInv, AccessibleLevels, CanAccessLevel
  <2>5. \A k \in AccessibleLevels : k <= max_level
    BY <2>3 DEF AccessInv, AccessibleLevels, CanAccessLevel
  <2>6. Highest(AccessibleLevels) = max_level
    BY <2>1, <2>4, <2>5, HighestIsOne
  <2> QED
    BY <2>3, <2>4, <2>6 DEF HasEffectiveKek
<1> QED
  BY <1>1, <1>2, <1>3, PTL DEF AccessSpec

-----------------------------------------------------------------------------
(* DriveContainer. *)
KeyPasswords == Passwords \cup {None, "torn", "plain"}
Keys == [pw : KeyPasswords, salt : Nat]
Steps == [at : {"idle", "create", "zero", "loop", "map", "mount", "undo map",
                "undo loop", "close", "find"},
          key : Keys, loop : Loops \cup {None}]

\* The steps of a call that will mount the mapping or close it.
Holding == {"mount", "undo map", "close"}

\* What is mounted is a mapping, and a mapping that is not mounted is one that a
\* call will mount or close, unless a teardown failed or a process died.
ContainerInv ==
  /\ header \in Keys /\ salt \in Nat
  /\ mounted \in BOOLEAN /\ leftover \in BOOLEAN
  /\ call \in [Callers -> Steps]
  /\ mounted => dm # NoMapping
  /\ dm # NoMapping /\ ~mounted /\ ~leftover => \E c \in Callers : call[c].at \in Holding

\* One call goes on, and it keeps the mapping in hand, gets rid of it or fails to,
\* or it never had it.
LEMMA OneCallGoesOn ==
  ASSUME ContainerInv, NEW c \in Callers, NEW s \in Steps, Goto(c, s),
         header' \in Keys, salt' \in Nat, mounted' \in BOOLEAN, leftover' \in BOOLEAN,
         mounted' => dm' # NoMapping,
         \/ s.at \in Holding \/ leftover' \/ dm' = NoMapping \/ mounted'
         \/ call[c].at \notin Holding /\ UNCHANGED <<dm, mounted, leftover>>
  PROVE  ContainerInv'
<1>1. /\ call' \in [Callers -> Steps] /\ call'[c] = s
      /\ \A d \in Callers : d # c => call'[d] = call[d]
  BY DEF ContainerInv, Goto
<1> QED
  BY <1>1 DEF ContainerInv

\* The drive's state changes and no call goes on: there is no mapping any more, or
\* the mapping is as it was.
LEMMA NoCallGoesOn ==
  ASSUME ContainerInv, header' \in Keys, salt' \in Nat,
         UNCHANGED <<dm, mounted, call, leftover>>
  PROVE  ContainerInv'
  BY DEF ContainerInv

\* The steps a call can go to.
LEMMA TheSteps ==
  /\ Idle \in Steps /\ Idle.at = "idle" /\ Blank \in Keys /\ Torn \in Keys
  /\ \A p \in KeyPasswords, n \in Nat : Key(p, n) \in Keys
  /\ \A s \in {"create", "zero", "loop", "close", "find"}, k \in Keys :
       Step(s, k, None) \in Steps /\ Step(s, k, None).at = s
  /\ \A k \in Keys, l \in Loops : Step("map", k, l) \in Steps
  /\ \A w \in Steps : /\ w.key \in Keys /\ w.key.pw \in KeyPasswords
                      /\ \A s \in {"mount", "undo map", "undo loop"} :
                           [w EXCEPT !.at = s] \in Steps /\ [w EXCEPT !.at = s].at = s
<1>1. Blank \in Keys /\ Torn \in Keys /\ \A p \in KeyPasswords, n \in Nat : Key(p, n) \in Keys
  BY DEF Blank, Torn, Key, Keys, KeyPasswords
<1>2. Idle \in Steps /\ Idle.at = "idle"
  <2> HIDE DEF Blank, Keys
  <2> QED
    BY <1>1 DEF Idle, Step, Steps
<1>3. /\ \A s \in {"create", "zero", "loop", "close", "find"}, k \in Keys :
           Step(s, k, None) \in Steps /\ Step(s, k, None).at = s
      /\ \A k \in Keys, l \in Loops : Step("map", k, l) \in Steps
  BY DEF Step, Steps
<1>4. \A w \in Steps, s \in {"mount", "undo map", "undo loop"} :
        [w EXCEPT !.at = s] \in Steps /\ [w EXCEPT !.at = s].at = s
  BY DEF Steps
<1>5. \A w \in Steps : w.key \in Keys /\ w.key.pw \in KeyPasswords
  BY DEF Steps, Keys
<1> QED
  BY <1>1, <1>2, <1>3, <1>4, <1>5

\* While no call runs, no teardown has failed and no process was killed, the drive
\* is decrypted only if its file system is mounted (linux.rs:413-430, 451-517).
THEOREM NoMappingIsLeft == HwSpec => []DecryptedOnlyWhileMounted
<1>1. HwInit => ContainerInv
  <2> SUFFICES ASSUME HwInit PROVE ContainerInv
    OBVIOUS
  <2>1. call \in [Callers -> Steps]
    BY TheSteps DEF HwInit
  <2>2. header \in Keys /\ salt \in Nat
    BY TheSteps DEF HwInit
  <2> QED
    BY <2>1, <2>2 DEF HwInit, ContainerInv
<1>2. ContainerInv /\ [HwNext]_hwvars => ContainerInv'
  <2> SUFFICES ASSUME ContainerInv, [HwNext]_hwvars PROVE ContainerInv'
    OBVIOUS
  <2>0. /\ header \in Keys /\ salt \in Nat /\ salt + 1 \in Nat
        /\ mounted \in BOOLEAN /\ leftover \in BOOLEAN
        /\ mounted => dm # NoMapping
        /\ \A c \in Callers : call[c] \in Steps
    BY DEF ContainerInv
  <2> USE TheSteps
  <2>1. ASSUME NEW c \in Callers, NEW p \in Passwords,
               CreateLinux(c, p) \/ CreateMacOS(c, p) \/ CreateWindows(c, p)
        PROVE  ContainerInv'
    <3>1. Goto(c, Step("create", Key(p, 0), None)) /\ call[c] = Idle
      BY <2>1 DEF CreateLinux, CreateMacOS, CreateWindows
    <3>2. UNCHANGED <<header, dm, mounted, salt, leftover>>
      BY <2>1 DEF CreateLinux, CreateMacOS, CreateWindows, drive, kernel
    <3>3. Key(p, 0) \in Keys
      BY DEF KeyPasswords
    <3> QED
      BY <2>0, <3>1, <3>2, <3>3, OneCallGoesOn DEF Holding
  <2>2. ASSUME NEW c \in Callers, NEW p \in Passwords, UnlockLinux(c, p)
        PROVE  ContainerInv'
    BY <2>0, <2>2, OneCallGoesOn DEF UnlockLinux, drive, kernel, DeriveDualKeys, Holding
  <2>3. ASSUME NEW c \in Callers, NEW p \in Passwords,
               UnlockMacOS(c, p) \/ UnlockWindows(c, p)
        PROVE  ContainerInv'
    BY <2>0, <2>3, NoCallGoesOn DEF UnlockMacOS, UnlockWindows, hwvars, kernel
  <2>4. ASSUME NEW c \in Callers, NEW p \in Passwords, ChangePasswordTorn(c, p)
        PROVE  ContainerInv'
    <3>1. call' \in [Callers -> Steps]
      BY <2>4 DEF ChangePasswordTorn
    <3>2. header' \in Keys /\ salt' \in Nat
      BY <2>0, <2>4 DEF ChangePasswordTorn, DrawSalts
    <3> QED
      BY <2>4, <3>1, <3>2 DEF ChangePasswordTorn, ContainerInv
  <2>5. ASSUME NEW c \in Callers, NEW p \in Passwords, NEW q \in Passwords,
               ChangePassword(c, p, q)
        PROVE  ContainerInv'
    <3>1. salt' = salt + 1 /\ header' = Key(q, salt + 1) /\ q \in KeyPasswords
      BY <2>5 DEF ChangePassword, Initialize, DrawSalts, KeyPasswords
    <3>2. salt' \in Nat /\ header' \in Keys
      BY <2>0, <3>1
    <3> QED
      BY <2>5, <3>2, NoCallGoesOn DEF ChangePassword, kernel
  <2>6. ASSUME NEW c \in Callers, WriteHeader(c) PROVE ContainerInv'
    <3>1. /\ salt' = salt + 1 /\ header' = Key(call[c].key.pw, salt + 1)
          /\ Goto(c, Step("zero", Blank, None)) /\ call[c].at \notin Holding
          /\ UNCHANGED <<dm, mounted, leftover>>
      BY <2>6 DEF WriteHeader, Initialize, DrawSalts, kernel, Holding
    <3>2. salt' \in Nat /\ header' \in Keys
      <4>1. call[c].key.pw \in KeyPasswords
        BY <2>0
      <4> QED
        BY <2>0, <3>1, <4>1
    <3> QED
      BY <2>0, <3>1, <3>2, OneCallGoesOn
  <2>7. ASSUME NEW c \in Callers, ZeroData(c) \/ DetachLoop(c) PROVE ContainerInv'
    <3>1. /\ Goto(c, Idle) /\ call[c].at \notin Holding
          /\ UNCHANGED <<header, dm, mounted, salt, leftover>>
      BY <2>7 DEF ZeroData, DetachLoop, Return, drive, kernel, Holding
    <3> QED
      BY <2>0, <3>1, OneCallGoesOn
  <2>8. ASSUME NEW c \in Callers, SetupLoopDevice(c) PROVE ContainerInv'
    <3>1. /\ call[c].at \notin Holding
          /\ UNCHANGED <<header, dm, mounted, salt, leftover>>
          /\ \/ \E l \in Loops : Goto(c, Step("map", call[c].key, l))
             \/ Goto(c, Idle)
      BY <2>8 DEF SetupLoopDevice, Return, drive, Holding
    <3> QED
      BY <2>0, <3>1, OneCallGoesOn
  <2>9. ASSUME NEW c \in Callers, SetupDmCrypt(c) PROVE ContainerInv'
    <3>1. UNCHANGED <<header, mounted, salt, leftover>> /\ call[c].at \notin Holding
      BY <2>9 DEF SetupDmCrypt, drive, Holding
    <3>2. CASE Goto(c, [call[c] EXCEPT !.at = "mount"]) /\ dm = NoMapping
      BY <2>0, <3>1, <3>2, OneCallGoesOn DEF Holding
    <3>3. CASE Goto(c, [call[c] EXCEPT !.at = "undo loop"]) /\ dm' = dm
      BY <2>0, <3>1, <3>3, OneCallGoesOn
    <3> QED
      BY <2>9, <3>2, <3>3 DEF SetupDmCrypt
  <2>10. ASSUME NEW c \in Callers, MountFilesystem(c) PROVE ContainerInv'
    <3>1. UNCHANGED <<header, dm, salt, leftover>>
      BY <2>10 DEF MountFilesystem, drive
    <3>2. CASE Readable /\ mounted' = TRUE /\ Goto(c, Idle)
      BY <2>0, <3>1, <3>2, OneCallGoesOn DEF Readable
    <3>3. CASE Goto(c, [call[c] EXCEPT !.at = "undo map"]) /\ mounted' = mounted
      BY <2>0, <3>1, <3>3, OneCallGoesOn DEF Holding
    <3> QED
      BY <2>10, <3>2, <3>3 DEF MountFilesystem, Return
  <2>11. ASSUME NEW closed \in BOOLEAN, TeardownDmCrypt(closed)
         PROVE  /\ leftover' \in BOOLEAN
                /\ mounted' = mounted => (mounted' => dm' # NoMapping)
                /\ leftover' \/ dm' = NoMapping
    BY <2>0, <2>11 DEF TeardownDmCrypt
  <2>12. ASSUME NEW c \in Callers, UndoMapping(c) \/ CloseMapping(c) PROVE ContainerInv'
    <3>1. PICK closed \in BOOLEAN : TeardownDmCrypt(closed)
      BY <2>12 DEF UndoMapping, CloseMapping
    <3>2. UNCHANGED <<header, mounted, salt>>
      BY <2>12 DEF UndoMapping, CloseMapping, drive
    <3>3. \E s \in Steps : Goto(c, s)
      BY <2>0, <2>12 DEF UndoMapping, CloseMapping
    <3> QED
      BY <2>0, <2>11, <3>1, <3>2, <3>3, OneCallGoesOn
  <2>13. ASSUME NEW c \in Callers, UndoLoop(c) PROVE ContainerInv'
    <3>1. /\ Goto(c, Idle) /\ call[c].at \notin Holding
          /\ UNCHANGED <<header, dm, mounted, salt>>
          /\ leftover' \in BOOLEAN /\ (leftover' = leftover \/ leftover')
      BY <2>0, <2>13 DEF UndoLoop, Return, drive, Holding
    <3> QED
      BY <2>0, <3>1, OneCallGoesOn
  <2>14. ASSUME NEW c \in Callers, Lock(c) PROVE ContainerInv'
    BY <2>0, <2>14, OneCallGoesOn DEF Lock, drive, Holding
  <2>15. ASSUME NEW c \in Callers, Killed(c) PROVE ContainerInv'
    BY <2>0, <2>15, OneCallGoesOn DEF Killed, Return, drive, kernel
  <2>16. CASE MakeFilesystem
    BY <2>0, <2>16, NoCallGoesOn DEF MakeFilesystem, kernel
  <2>17. CASE Reboot
    BY <2>17 DEF Reboot, ContainerInv
  <2>18. CASE UNCHANGED hwvars
    BY <2>0, <2>18, NoCallGoesOn DEF hwvars
  <2> QED
    BY <2>1, <2>2, <2>3, <2>4, <2>5, <2>6, <2>7, <2>8, <2>9, <2>10, <2>12, <2>13, <2>14,
       <2>15, <2>16, <2>17, <2>18 DEF HwNext
<1>3. ContainerInv => DecryptedOnlyWhileMounted
  BY TheSteps DEF ContainerInv, DecryptedOnlyWhileMounted, Holding
<1> QED
  BY <1>1, <1>2, <1>3, PTL DEF HwSpec

-----------------------------------------------------------------------------
(* OpalDrive. *)
\* A call that is about to set up the drive has a password for it, and what a
\* call was told Ok for is the owner's password: once somebody owns the drive
\* the tool refuses every other call that saw it uninitialized.
OpalInv ==
  /\ opal \in [supported : BOOLEAN, owner : OpalPasswords \cup {NoOwner},
               enabled : BOOLEAN, locked : BOOLEAN, mbrdone : BOOLEAN]
  /\ cmd \in [OpalCallers -> [do : {"none", "unlock", "initialize", "lock"},
                              pw : OpalPasswords \cup {NoOwner}]]
  /\ \A c \in OpalCallers : cmd[c].do = "initialize" => cmd[c].pw # NoOwner
  /\ claimed # {} => claimed = {opal.owner} /\ opal.owner # NoOwner

\* Deciding on a command, or returning from one, keeps the commands in their type.
LEMMA OpalCommands ==
  ASSUME OpalInv, NEW c \in OpalCallers, NEW w,
         w \in [do : {"none", "unlock", "initialize", "lock"},
                pw : OpalPasswords \cup {NoOwner}],
         w.do = "initialize" => w.pw # NoOwner,
         cmd' = [cmd EXCEPT ![c] = w]
  PROVE  /\ cmd' \in [OpalCallers -> [do : {"none", "unlock", "initialize", "lock"},
                                      pw : OpalPasswords \cup {NoOwner}]]
         /\ \A d \in OpalCallers : cmd'[d].do = "initialize" => cmd'[d].pw # NoOwner
  BY DEF OpalInv

\* An initialization that returned Ok has made its own password the drive's, even
\* when two calls saw the drive uninitialized (sed/mod.rs:43-47).
THEOREM OkIsForTheOwner == OpalSpec => []OkMeansOwned
<1> USE OpalAssumption
<1>1. OpalInit => OpalInv
  <2> SUFFICES ASSUME OpalInit PROVE OpalInv
    OBVIOUS
  <2>1. opal \in [supported : BOOLEAN, owner : OpalPasswords \cup {NoOwner},
                 enabled : BOOLEAN, locked : BOOLEAN, mbrdone : BOOLEAN]
    BY DEF OpalInit
  <2>2. \A c \in OpalCallers : cmd[c] = Ready
    BY DEF OpalInit
  <2> QED
    BY <2>1, <2>2 DEF OpalInit, OpalInv, Ready
<1>2. OpalInv /\ [OpalNext]_opalvars => OpalInv'
  <2> SUFFICES ASSUME OpalInv, [OpalNext]_opalvars PROVE OpalInv'
    OBVIOUS
  <2> DEFINE Cmds == [do : {"none", "unlock", "initialize", "lock"},
                      pw : OpalPasswords \cup {NoOwner}]
  <2>0. Ready \in Cmds /\ Ready.do # "initialize"
    BY DEF Ready
  <2>1. ASSUME NEW c \in OpalCallers, NEW p \in OpalPasswords,
               Unlock(c, p) \/ InitializeDrive(c, p)
        PROVE  OpalInv'
    <3>1. PICK w \in {Ready, Ask("unlock", p), Ask("initialize", p)} :
            cmd' = [cmd EXCEPT ![c] = w]
      BY <2>1 DEF Unlock, InitializeDrive, Decide, Returns, Statuses
    <3>2. w \in Cmds /\ (w.do = "initialize" => w.pw # NoOwner)
      BY <2>0 DEF Ask
    <3> QED
      BY <2>1, <3>1, <3>2, OpalCommands DEF OpalInv, Unlock, InitializeDrive
  <2>2. ASSUME NEW c \in OpalCallers, LockDrive(c) PROVE OpalInv'
    <3>1. PICK w \in {Ready, Ask("lock", NoOwner)} : cmd' = [cmd EXCEPT ![c] = w]
      BY <2>2 DEF LockDrive, Decide, Returns, Statuses
    <3>2. w \in Cmds /\ w.do # "initialize"
      BY <2>0 DEF Ask
    <3> QED
      BY <2>2, <3>1, <3>2, OpalCommands DEF OpalInv, LockDrive
  <2>3. ASSUME NEW c \in OpalCallers,
               \/ UnlockOpalLinux(c) \/ UnlockOpalMacOS(c) \/ UnlockOpalWindows(c)
               \/ LockOpal(c)
        PROVE  OpalInv'
    <3>1. cmd' = [cmd EXCEPT ![c] = Ready] /\ claimed' = claimed
      BY <2>3 DEF UnlockOpalLinux, UnlockOpalMacOS, UnlockOpalWindows, UnlockWith,
                  LockOpal, Returns
    <3>2. opal' \in {opal, [opal EXCEPT !.locked = FALSE], [opal EXCEPT !.locked = opal.enabled]}
      BY <2>3 DEF UnlockOpalLinux, UnlockOpalMacOS, UnlockOpalWindows, UnlockWith, LockOpal
    <3> QED
      BY <2>0, <3>1, <3>2, OpalCommands DEF OpalInv
  <2>4. ASSUME NEW c \in OpalCallers, InitializeOpalUnix(c) \/ InitializeOpalWindows(c)
        PROVE  OpalInv'
    <3>1. cmd[c].do = "initialize" /\ cmd' = [cmd EXCEPT ![c] = Ready]
      BY <2>4 DEF InitializeOpalUnix, InitializeOpalWindows, InitializeWith, Returns
    <3>2. cmd[c].pw \in OpalPasswords
      BY <3>1 DEF OpalInv
    <3>3. \/ /\ opal.owner = NoOwner
             /\ opal' = SetUp(cmd[c].pw)
             /\ claimed' = claimed \cup {cmd[c].pw}
          \/ UNCHANGED <<opal, claimed>>
      BY <2>4 DEF InitializeOpalUnix, InitializeOpalWindows, InitializeWith
    <3> QED
      BY <2>0, <3>1, <3>2, <3>3, OpalCommands DEF OpalInv, SetUp
  <2>5. ASSUME NEW c \in OpalCallers, InitializeOpalHalfway(c) PROVE OpalInv'
    <3>1. cmd[c].pw \in OpalPasswords
      BY <2>5 DEF InitializeOpalHalfway, OpalInv
    <3> QED
      BY <2>0, <2>5, <3>1, OpalCommands DEF OpalInv, InitializeOpalHalfway, Returns
  <2>6. CASE PowerCycle
    BY <2>6 DEF PowerCycle, OpalInv
  <2>7. CASE UNCHANGED opalvars
    BY <2>7 DEF opalvars, OpalInv
  <2> QED
    BY <2>1, <2>2, <2>3, <2>4, <2>5, <2>6, <2>7 DEF OpalNext
<1>3. OpalInv => OkMeansOwned
  BY DEF OpalInv, OkMeansOwned
<1> QED
  BY <1>1, <1>2, <1>3, PTL DEF OpalSpec

-----------------------------------------------------------------------------
(* DriveDetection. *)
\* What is listed on Linux is plugged in and flagged removable by the kernel; macOS
\* lists nothing.
LEMMA ListedDrives ==
  ASSUME system \in Systems, NEW i \in Detected
  PROVE  /\ system # "macos"
         /\ system = "linux" => i.disk \in plugged /\ DiskFacts[i.disk].removable
<1>1. system # "macos"
  BY DetectionAssumption DEF Detected, DetectMacOS, ListDisks, HasAnS
<1>2. ASSUME system = "linux"
      PROVE  i.disk \in plugged /\ DiskFacts[i.disk].removable
  <2>1. i \in DetectLinux
    BY <1>2 DEF Detected
  <2>2. i \in AnyInfo /\ DiskFacts[i.disk].removable
    BY <2>1 DEF DetectLinux
  <2> QED
    BY <2>2 DEF AnyInfo, Info
<1> QED
  BY <1>1, <1>2

\* A drive is found for a vault on Linux only, and it is one that is listed.
LEMMA FoundDrive ==
  ASSUME system \in Systems, NEW f, NEW d \in FindDriveForPath(f), d # NoDrive
  PROVE  system = "linux" /\ \E i \in Detected : i.disk = d
<1>1. \E i \in Detected : system # "windows" /\ i.disk = d
  BY DEF FindDriveForPath
<1> QED
  BY <1>1, ListedDrives, DetectionAssumption

\* The drive the desktop follows on Linux is one the kernel flags removable.
FollowedInv ==
  /\ system \in Systems /\ plugged \subseteq Disks
  /\ system = "linux" /\ current # NoDrive
       => current \in Disks /\ DiskFacts[current].removable

\* The invariant of the detection holds throughout.
LEMMA FollowedAlways == DetectSpec => []FollowedInv
<1>1. DetectInit => FollowedInv
  BY DEF DetectInit, FollowedInv
<1>2. FollowedInv /\ [DetectNext]_detectvars => FollowedInv'
  <2> SUFFICES ASSUME FollowedInv, [DetectNext]_detectvars PROVE FollowedInv'
    OBVIOUS
  <2>1. ASSUME NEW d \in Disks,
               \/ Plug(d) \/ Unplug(d)
               \/ \E n \in Parts, f \in MountFolders : Mount(d, n, f)
        PROVE  FollowedInv'
    BY <2>1 DEF Plug, Unplug, Mount, FollowedInv
  <2>2. ASSUME NEW f \in MountFolders, CheckEncryptedDriveStatus(f) PROVE FollowedInv'
    <3>1. found' # NoDrive => \E i \in Detected : system = "linux" /\ i.disk = found'
      BY <2>2, FoundDrive DEF CheckEncryptedDriveStatus, FollowedInv
    <3>2. system' = system /\ plugged' = plugged
      BY <2>2 DEF CheckEncryptedDriveStatus, machine
    <3>3. found' # NoDrive => found' \in Disks /\ DiskFacts[found'].removable
      BY <3>1, ListedDrives DEF FollowedInv
    <3>4. current' = current \/ (current' = found' /\ found' # NoDrive)
      BY <2>2 DEF CheckEncryptedDriveStatus
    <3> QED
      BY <3>2, <3>3, <3>4 DEF FollowedInv
  <2>3. CASE CheckRemoval \/ EjectLinux \/ EjectWindows
    BY <2>3 DEF CheckRemoval, EjectLinux, EjectWindows, FollowedInv, machine
  <2>4. CASE FollowUnlocked
    BY <2>4, ListedDrives DEF FollowUnlocked, FollowedInv, machine
  <2>5. CASE UNCHANGED detectvars
    BY <2>5 DEF detectvars, FollowedInv
  <2> QED
    BY <2>1, <2>2, <2>3, <2>4, <2>5 DEF DetectNext
<1> QED
  BY <1>1, <1>2, PTL DEF DetectSpec

\* On Linux the desktop is told that a drive was removed only when it is gone, for any
\* disks, folders and mounts, given what the kernel sees to: no disk it flags removable
\* has a digit in its name, at which is_drive_connected would cut it (detect.rs:518).
THEOREM RemovedDriveIsGone ==
  ASSUME \A d \in Disks : DiskFacts[d].removable => ~DiskFacts[d].digits
  PROVE  DetectSpec => RemovedOnLinuxIsGone
<1> DEFINE A == system = "linux" /\ told' = "removed" /\ told # "removed"
                  => current \notin plugged
<1>1. FollowedInv /\ [DetectNext]_detectvars => [A]_detectvars
  <2> SUFFICES ASSUME FollowedInv, DetectNext, system = "linux",
                      told' = "removed", told # "removed"
               PROVE  current \notin plugged
    OBVIOUS
  <2>1. CheckRemoval
    BY DEF DetectNext, Plug, Unplug, Mount, CheckEncryptedDriveStatus, FollowUnlocked,
           EjectLinux, EjectWindows
  <2>2. current # NoDrive /\ ~ConnectedLinux(current)
    BY <2>1 DEF CheckRemoval, IsDriveConnected
  <2> QED
    BY <2>2 DEF ConnectedLinux, FollowedInv
<1>2. [][A]_detectvars => RemovedOnLinuxIsGone
  BY PTL DEF RemovedOnLinuxIsGone
<1> QED
  BY <1>1, <1>2, FollowedAlways, PTL DEF DetectSpec

-----------------------------------------------------------------------------
(* DrivePackage. *)
Sticks == [dir : BOOLEAN, exe : [Exe -> Contents],
           version : [readable : BOOLEAN, real : SUBSET Exe],
           vault : {"absent", "empty", "marked"}]
Installs == [tool : {"none", "prepare", "bundle"}, at : {"idle", "clear", "copy", "vault"},
             from : SourceSets \cup {{}}, done : SUBSET Exe, real : SUBSET Exe,
             over : BOOLEAN, initVault : BOOLEAN]

\* What a finished copy or placeholder is.
Whole == Contents \ {"absent", "cut"}

\* Of the executables xs the drive has each, and of those in real not a placeholder.
Has(exe, xs, real) ==
  \A x \in xs : /\ exe[x] \notin {"absent", "cut"}
                /\ x \in real => exe[x] \notin {"placeholder", "mixed"}

\* A version can be read only if its executables are there, or an installation over
\* it runs or was broken off, or files were lost; an installation has copied what it
\* has done.
PackInv ==
  /\ artifacts \in [Exe -> {"absent", "partial", "built", "signed"}]
  /\ stick \in Sticks /\ install \in Installs /\ broken \in BOOLEAN
  /\ install.real \subseteq install.done
  /\ install.at = "idle" => install = NoInstall
  /\ install.at = "clear" => install.done = {}
  /\ stick.version.readable \/ install.at \in {"copy", "vault"} => stick.dir
  /\ install.at = "idle" /\ stick.version.readable /\ ~broken
       => Has(stick.exe, Exe, stick.version.real)
  /\ install.at \in {"clear", "copy"} /\ ~install.over => ~stick.version.readable
  /\ install.at = "copy" => Has(stick.exe, install.done, install.real)
  /\ install.at = "vault" => stick.version.readable /\ Has(stick.exe, Exe, stick.version.real)

\* The executables are three.
LEMMA TheExecutables ==
  /\ Exe = {"windows", "linux", "macos"}
  /\ \A i, j \in DOMAIN Executables : Executables[i] = Executables[j] => i = j
<1>1. DOMAIN Executables = 1 .. 3
  BY DEF Executables
<1>2. Executables[1] = "windows" /\ Executables[2] = "linux" /\ Executables[3] = "macos"
  BY DEF Executables
<1>3. \A i \in 1 .. 3 : i = 1 \/ i = 2 \/ i = 3
  OBVIOUS
<1> QED
  BY <1>1, <1>2, <1>3 DEF Exe

\* The executable that is copied next has not been copied.
LEMMA NextIsNotDone == ASSUME NEW x, NextExe(x) PROVE x \in Exe \ install.done
<1>1. PICK i \in DOMAIN Executables :
        x = Executables[i] /\ install.done = {Executables[j] : j \in 1 .. i - 1}
  BY DEF NextExe
<1>2. i \in 1 .. 3 /\ DOMAIN Executables = 1 .. 3
  BY DEF Executables
<1>3. \A j \in 1 .. i - 1 : j \in 1 .. 3 /\ j # i
  BY <1>2
<1>4. \A j \in 1 .. i - 1 : Executables[j] # x
  BY <1>1, <1>2, <1>3, TheExecutables
<1> QED
  BY <1>1, <1>4 DEF Exe

\* What a build, a copy or a placeholder leaves.
LEMMA PlacingExecutables ==
  ASSUME PackInv, install.at = "copy", NEW x \in Exe \ install.done,
         NEW what \in Whole, NEW isReal \in BOOLEAN,
         isReal => what \notin {"placeholder", "mixed"},
         Place(x, what, isReal), UNCHANGED <<artifacts, broken>>
  PROVE  PackInv'
<1> DEFINE exe == [stick.exe EXCEPT ![x] = what]
           done == install.done \cup {x}
           real == IF isReal THEN install.real \cup {x} ELSE install.real
<1>1. stick' = [stick EXCEPT !.exe = exe] /\ install' = [install EXCEPT !.done = done, !.real = real]
  BY DEF Place
<1>2. exe \in [Exe -> Contents] /\ exe[x] = what /\ \A y \in Exe : y # x => exe[y] = stick.exe[y]
  BY DEF PackInv, Sticks, Whole
<1>3. done \in SUBSET Exe /\ real \in SUBSET Exe /\ real \subseteq done
  BY DEF PackInv, Installs
<1>4. Has(exe, done, real)
  BY <1>2 DEF PackInv, Has, Installs, Whole
<1> HIDE DEF exe, done, real
<1>5. /\ stick' \in Sticks /\ stick'.exe = exe /\ stick'.version = stick.version
      /\ stick'.dir = stick.dir
  BY <1>1, <1>2 DEF PackInv, Sticks
<1>6. /\ install' \in Installs /\ install'.at = "copy" /\ install'.done = done
      /\ install'.real = real /\ install'.over = install.over
  BY <1>1, <1>3 DEF PackInv, Installs
<1> QED
  BY <1>3, <1>4, <1>5, <1>6 DEF PackInv

\* The builders leave no placeholder, and do not touch the drive.
LEMMA BuildersKeep ==
  ASSUME PackInv, UNCHANGED <<stick, install, broken>>,
         artifacts' \in [Exe -> {"absent", "partial", "built", "signed"}]
  PROVE  PackInv'
  BY DEF PackInv, Has

\* What the builders change of the outputs.
LEMMA OutputsOfBuilds ==
  ASSUME PackInv, NEW x \in {"linux", "macos"}, NEW what \in {"absent", "partial", "built", "signed"},
         artifacts' = [artifacts EXCEPT ![x] = what]
  PROVE  artifacts' \in [Exe -> {"absent", "partial", "built", "signed"}]
  BY TheExecutables DEF PackInv

\* An installation starts with nothing copied, over what the drive has.
LEMMA Starting ==
  ASSUME PackInv, NEW tool \in {"prepare", "bundle"}, NEW step \in {"clear", "copy"},
         NEW sources \in SourceSets \cup {{}}, NEW initVault \in BOOLEAN,
         Start(tool, step, sources, initVault)
  PROVE  /\ install' \in Installs /\ install'.at = step
         /\ install'.done = {} /\ install'.real = {} /\ install'.over = InstalledVersion
<1> DEFINE over == InstalledVersion
<1>1. over \in BOOLEAN
  BY DEF PackInv, Sticks, InstalledVersion, IsInstalled
<1>2. install' = [NoInstall EXCEPT !.tool = tool, !.at = step, !.from = sources,
                                   !.over = over, !.initVault = initVault]
  BY DEF Start
<1> HIDE DEF over
<1>3. /\ install' \in Installs /\ install'.at = step
      /\ install'.done = {} /\ install'.real = {} /\ install'.over = over
  BY <1>1, <1>2 DEF NoInstall, Installs
<1> QED
  BY <1>3 DEF over

\* A version that can be read stands for an installation that was written to its end,
\* unless a run over an earlier one was broken off or the drive was pulled before all
\* was written back (usb.rs:258-272, bundle.rs:475-604), for any targets and sources.
THEOREM VersionIsWritten == PackSpec => []VersionMeansWritten
<1>1. PackInit => PackInv
  <2> SUFFICES ASSUME PackInit PROVE PackInv
    OBVIOUS
  <2>1. artifacts \in [Exe -> {"absent", "partial", "built", "signed"}]
    BY DEF PackInit
  <2>2. stick \in Sticks /\ ~stick.version.readable
    BY DEF PackInit, Sticks, NoVersion, NothingCopied, Contents
  <2>3. install \in Installs /\ install.at = "idle" /\ install.real = {}
    BY DEF PackInit, NoInstall, Installs
  <2> QED
    BY <2>1, <2>2, <2>3 DEF PackInit, PackInv
<1>2. PackInv /\ [PackNext]_packvars => PackInv'
  <2> SUFFICES ASSUME PackInv, [PackNext]_packvars PROVE PackInv'
    OBVIOUS
  <2>1. CASE BuildAppImage \/ CheckSize \/ PublishAppBundle
    BY <2>1, BuildersKeep DEF BuildAppImage, CheckSize, PublishAppBundle, PackInv, medium
  <2>2. CASE CreateAppImage
    <3>1. PICK what \in {"absent", "partial", "built", "signed"} :
            artifacts' = [artifacts EXCEPT !.linux = what]
      BY <2>2, TheExecutables DEF CreateAppImage, PackInv
    <3> QED
      BY <2>2, <3>1, OutputsOfBuilds, BuildersKeep DEF CreateAppImage, medium
  <2>3. CASE (\E sign \in BOOLEAN : BuildAppBundle(sign)) \/ FillAppBundle \/ CodeSign
    <3>1. artifacts["macos"] \in {"absent", "partial", "built", "signed"}
      BY TheExecutables DEF PackInv
    <3>2. \/ artifacts' = artifacts
          \/ \E what \in {"absent", "partial", "built", "signed"} :
               artifacts' = [artifacts EXCEPT !.macos = what]
      BY <2>3, <3>1 DEF BuildAppBundle, FillAppBundle, CodeSign
    <3>3. artifacts' \in [Exe -> {"absent", "partial", "built", "signed"}]
      BY <3>2, OutputsOfBuilds DEF PackInv
    <3> QED
      BY <2>3, <3>3, BuildersKeep DEF BuildAppBundle, FillAppBundle, CodeSign, medium
  <2>4. ASSUME NEW tgt \in Media, NEW force \in BOOLEAN, NEW skip \in BOOLEAN,
               NEW initVault \in BOOLEAN, NEW sources \in SourceSets \cup {{}},
               Prepare(tgt, force, skip, sources, initVault)
        PROVE  PackInv'
    <3>1. /\ install' \in Installs /\ install'.at = "copy"
          /\ install'.done = {} /\ install'.real = {} /\ install'.over = InstalledVersion
      BY <2>4, Starting DEF Prepare
    <3>2. /\ stick' \in Sticks /\ stick'.version = stick.version /\ stick'.dir = TRUE
      BY <2>4 DEF Prepare, PackInv, Sticks
    <3> QED
      BY <2>4, <3>1, <3>2 DEF Prepare, PackInv, Has, InstalledVersion, IsInstalled
  <2>5. ASSUME NEW force \in BOOLEAN, NEW sources \in SourceSets, CreateBundle(force, sources)
        PROVE  PackInv'
    <3>1. /\ install' \in Installs /\ install'.at = "clear"
          /\ install'.done = {} /\ install'.real = {} /\ install'.over = InstalledVersion
      BY <2>5, Starting DEF CreateBundle
    <3> QED
      BY <2>5, <3>1 DEF CreateBundle, PackInv, InstalledVersion, IsInstalled, medium
  <2>6. CASE ClearBundle
    <3>1. /\ install' \in Installs /\ install'.at = "copy" /\ install'.done = install.done
          /\ install'.real = install.real
      BY <2>6 DEF ClearBundle, PackInv, Installs
    <3>2. stick' \in Sticks /\ ~stick'.version.readable
      BY <2>6 DEF ClearBundle, PackInv, Sticks, NoVersion, NothingCopied, Contents
    <3> QED
      BY <2>6, <3>1, <3>2 DEF ClearBundle, PackInv, Has
  <2>7. CASE WriteVersionFile
    <3>1. /\ install' \in Installs /\ install'.at = "vault" /\ install'.done = install.done
          /\ install'.real = install.real
      BY <2>7 DEF WriteVersionFile, PackInv, Installs
    <3>2. PICK v \in {BundleVersion, [BundleVersion EXCEPT !.real = {}]} :
            stick' = [stick EXCEPT !.version = v]
      BY <2>7 DEF WriteVersionFile
    <3>3. /\ v \in [readable : BOOLEAN, real : SUBSET Exe]
          /\ v.readable /\ v.real \in {install.real, {}}
      <4>1. install.real \in SUBSET Exe
        BY DEF PackInv, Installs
      <4> DEFINE V == [readable : BOOLEAN, real : SUBSET Exe]
      <4>2. BundleVersion \in V /\ BundleVersion.readable /\ BundleVersion.real = install.real
        BY <4>1 DEF BundleVersion
      <4>3. \A w \in V : LET u == [w EXCEPT !.real = {}] IN
              u \in V /\ u.readable = w.readable /\ u.real = {}
        OBVIOUS
      <4> QED
        BY <4>2, <4>3
    <3>4. /\ stick' \in Sticks /\ stick'.version = v
          /\ stick'.exe = stick.exe /\ stick'.dir = stick.dir
      BY <3>2, <3>3 DEF PackInv, Sticks
    <3>5. Has(stick'.exe, Exe, stick'.version.real)
      BY <2>7, <3>3, <3>4 DEF WriteVersionFile, PackInv, Has
    <3>6. stick'.dir
      BY <2>7, <3>4 DEF WriteVersionFile, PackInv
    <3> QED
      BY <2>7, <3>1, <3>3, <3>4, <3>5, <3>6 DEF WriteVersionFile, PackInv
  <2>8. CASE FinishInstall
    <3>1. install' \in Installs /\ install' = NoInstall /\ install'.at = "idle" /\ install'.real = {}
      BY <2>8 DEF FinishInstall, Finish, NoInstall, Installs
    <3>2. PICK vault \in {"absent", "empty", "marked"} : stick' = [stick EXCEPT !.vault = vault]
      <4>1. stick = [stick EXCEPT !.vault = stick.vault] /\ stick.vault \in {"absent", "empty", "marked"}
        BY DEF PackInv, Sticks
      <4> QED
        BY <2>8, <4>1 DEF FinishInstall, InitializeVault
    <3>3. /\ stick' \in Sticks /\ stick'.version = stick.version
          /\ stick'.exe = stick.exe /\ stick'.dir = stick.dir
      BY <3>2 DEF PackInv, Sticks
    <3> QED
      BY <2>8, <3>1, <3>3 DEF FinishInstall, Finish, PackInv
  <2>9. CASE BreakOff
    <3>1. install' \in Installs /\ install' = NoInstall /\ install'.at = "idle" /\ install'.real = {}
      BY <2>9 DEF BreakOff, NoInstall, Installs
    <3>2. /\ stick' \in Sticks /\ stick'.dir = stick.dir
          /\ stick'.version \in {stick.version, NoVersion}
          /\ stick' = stick \/ install.at \in {"clear", "copy"}
      <4>1. CASE stick' = stick
        BY <4>1 DEF PackInv
      <4>2. ASSUME NEW x \in Exe, NextExe(x), stick' = [stick EXCEPT !.exe[x] = "cut"]
            PROVE  <3>2
        BY <4>2 DEF NextExe, PackInv, Sticks, Contents
      <4>3. ASSUME NEW lost \in SUBSET Exe, NEW version \in {stick.version, NoVersion},
                   install.at = "clear",
                   stick' = [stick EXCEPT !.version = version,
                               !.exe = [x \in Exe |-> IF x \in lost THEN "absent" ELSE @[x]]]
            PROVE  <3>2
        <5>1. version \in [readable : BOOLEAN, real : SUBSET Exe]
          <6>1. stick.version \in [readable : BOOLEAN, real : SUBSET Exe]
            BY DEF PackInv, Sticks
          <6>2. NoVersion \in [readable : BOOLEAN, real : SUBSET Exe]
            BY DEF NoVersion
          <6> QED
            BY <6>1, <6>2
        <5>2. [x \in Exe |-> IF x \in lost THEN "absent" ELSE stick.exe[x]] \in [Exe -> Contents]
          BY DEF PackInv, Sticks, Contents
        <5> QED
          BY <4>3, <5>1, <5>2 DEF PackInv, Sticks
      <4> QED
        BY <2>9, <4>1, <4>2, <4>3 DEF BreakOff
    <3>3. broken' = (broken \/ install.over) /\ artifacts' = artifacts /\ install # NoInstall
      BY <2>9 DEF BreakOff
    <3>4. install.at \in {"clear", "copy", "vault"} /\ install.over \in BOOLEAN
      BY <3>3 DEF PackInv, Installs
    <3>5. ASSUME stick'.version.readable, ~broken' PROVE Has(stick'.exe, Exe, stick'.version.real)
      <4>1. stick'.version = stick.version /\ stick.version.readable
        BY <3>2, <3>5 DEF NoVersion
      <4>2. install.at = "vault"
        BY <3>3, <3>4, <3>5, <4>1 DEF PackInv
      <4> QED
        BY <3>2, <4>2 DEF PackInv
    <3>6. stick'.version.readable => stick'.dir
      BY <3>2 DEF PackInv, NoVersion
    <3>7. broken' \in BOOLEAN
      BY <3>3, <3>4 DEF PackInv
    <3> QED
      BY <3>1, <3>2, <3>3, <3>5, <3>6, <3>7 DEF PackInv
  <2>10. ASSUME NEW x \in Exe, NextExe(x), artifacts[x] # "absent"
         PROVE  /\ artifacts[x] \in Whole \ {"placeholder", "mixed"}
                /\ \A new \in {artifacts[x], "placeholder"} : CopiedOver(x, new) \in Whole
    BY <2>10 DEF PackInv, Contents, CopiedOver, Whole
  <2>11. ASSUME NEW x \in Exe, CopyExecutable(x) PROVE PackInv'
    <3>1. x \in Exe \ install.done /\ install.at = "copy"
      BY <2>11, NextIsNotDone DEF CopyExecutable, NextExe
    <3>2. \E what \in Whole : Place(x, what, FALSE)
      <4>1. CopiedOver(x, "placeholder") \in Whole
        BY DEF CopiedOver, Contents, Whole
      <4> QED
        BY <2>10, <2>11, <4>1 DEF CopyExecutable, Available, WritePlaceholder
    <3> QED
      BY <2>11, <3>1, <3>2, PlacingExecutables DEF CopyExecutable
  <2>12. ASSUME NEW x \in Exe, BundleExecutable(x) PROVE PackInv'
    <3>1. x \in Exe \ install.done /\ install.at = "copy"
      BY <2>12, NextIsNotDone DEF BundleExecutable, NextExe
    <3>2. \E what \in Whole, isReal \in BOOLEAN :
            /\ isReal => what \notin {"placeholder", "mixed"}
            /\ Place(x, what, isReal)
      <4>1. {"placeholder", "mixed"} \subseteq Whole
        BY DEF Contents, Whole
      <4>2. CASE CopyIntoBundle(x)
        BY <2>10, <2>12, <4>2 DEF BundleExecutable, CopyIntoBundle, Available
      <4>3. CASE CreatePlaceholder(x)
        BY <4>1, <4>3 DEF CreatePlaceholder
      <4> QED
        BY <2>12, <4>2, <4>3 DEF BundleExecutable
    <3> QED
      BY <2>12, <3>1, <3>2, PlacingExecutables DEF BundleExecutable
  <2>13. CASE WriteBack
    BY <2>13 DEF WriteBack, PackInv, Has
  <2>14. CASE PullDrive
    <3>1. PICK lost \in SUBSET unsynced, left \in {"absent", "cut"} :
            stick' = [stick EXCEPT
                        !.exe = [x \in Exe |-> IF x \in lost THEN left ELSE @[x]],
                        !.version = IF "version" \in lost THEN NoVersion ELSE @]
      BY <2>14 DEF PullDrive
    <3>2. [x \in Exe |-> IF x \in lost THEN left ELSE stick.exe[x]] \in [Exe -> Contents]
      BY DEF PackInv, Sticks, Contents
    <3>3. NoVersion \in [readable : BOOLEAN, real : SUBSET Exe] /\ ~NoVersion.readable
      BY DEF NoVersion
    <3>4. /\ stick' \in Sticks /\ stick'.dir = stick.dir
          /\ stick'.version \in {stick.version, NoVersion}
      BY <3>1, <3>2, <3>3 DEF PackInv, Sticks
    <3> QED
      BY <2>14, <3>3, <3>4 DEF PullDrive, PackInv, NoInstall
  <2>15. CASE UNCHANGED packvars
    BY <2>15 DEF packvars, PackInv, Has
  <2> QED
    BY <2>1, <2>2, <2>3, <2>4, <2>5, <2>6, <2>7, <2>8, <2>9, <2>11, <2>12, <2>13, <2>14,
       <2>15 DEF PackNext
<1>3. PackInv => VersionMeansWritten
  <2> SUFFICES ASSUME PackInv, InstalledVersion, install = NoInstall, ~broken
               PROVE  Has(stick.exe, Exe, stick.version.real)
    BY DEF VersionMeansWritten, Has
  <2>1. install.at = "idle" /\ stick.version.readable
    BY DEF NoInstall, InstalledVersion
  <2> QED
    BY <2>1 DEF PackInv
<1> QED
  BY <1>1, <1>2, <1>3, PTL DEF PackSpec

-----------------------------------------------------------------------------
(***************************************************************************)
(* Streaming.  A sealed byte names its stream, its chunk and its place in  *)
(* it; the nonce and what is authenticated with it leave no other.         *)
(***************************************************************************)
\* How many bytes the chunk holds, whether the stream ends with it, and its sealed bytes.
Holds(s, i) == ChunkOf(length[s], i)
Ends(s, i) == i * ChunkSize + Holds(s, i) = length[s]
Byte(s, i, pos) ==
  [nonce |-> DeriveChunkNonce(s[2], i), aad |-> BuildChunkAad(s[1], i, Ends(s, i)),
   size |-> Holds(s, i) + Tag, pos |-> pos, plain |-> <<s, i * ChunkSize + pos>>]

\* The sealed byte at place k of the whole stream.
ByteAt(s, k) ==
  LET i == (k - 1) \div (ChunkSize + Tag) IN Byte(s, i, k - i * (ChunkSize + Tag))

Bytes == {Byte(s, i, pos) : s \in Streams, i \in Nat, pos \in Nat}
Bases == {s[2] : s \in Streams}
PlainBytes == {<<s, k>> : s \in Streams, k \in Nat}

StreamSteps == {"encrypt", "stored", "decrypt", "ok", "failed"}

\* Every stored byte was sealed by an encryptor, wherever it came from.
StreamTyped ==
  /\ length \in [Streams -> Nat]
  /\ stored \in [nonce : Bases, chunk : Nat, body : Seq(Bytes)]
  /\ work \in [at : StreamSteps, of : Files \X Bases, index : Nat, off : Nat]
  /\ output \in Seq(PlainBytes)

\* A chunk starts within its stream; the decryptor has written the chunks before its own.
StreamInv ==
  /\ StreamTyped
  /\ work.at \in {"encrypt", "stored"} => output = <<>>
  /\ work.at = "encrypt" => work.of \in Streams /\ work.index * ChunkSize <= length[work.of]
  /\ work.at \in {"decrypt", "ok", "failed"} => \A k \in 1 .. Len(output) : output[k] = <<work.of, k>>
  /\ work.at = "decrypt" =>
       /\ work.off <= Len(stored.body)
       /\ Len(output) = work.index * ChunkSize
       /\ work.index > 0 => work.of \in Streams /\ work.index * ChunkSize <= length[work.of]
  /\ work.at = "ok" => work.of \in Streams /\ Len(output) = length[work.of]

\* What a byte is does not change, so the types can be taken from the state before.
LEMMA NextTyped ==
  ASSUME StreamTyped, UNCHANGED length,
         stored' \in [nonce : Bases, chunk : Nat, body : Seq(Bytes)],
         work' \in [at : StreamSteps, of : Files \X Bases, index : Nat, off : Nat],
         output' \in Seq(PlainBytes)
  PROVE  StreamTyped'
<1>1. Bytes' = Bytes
  BY DEF Bytes, Byte, Ends, Holds
<1> QED
  BY <1>1 DEF StreamTyped

\* Division, of which the provers know less.
LEMMA Quotient ==
  ASSUME NEW a \in Nat, NEW b \in Nat \ {0}
  PROVE  /\ a \div b \in Nat
         /\ (a \div b) * b <= a /\ a < (a \div b) * b + b
  OBVIOUS

\* What the provers need to be told of products.
LEMMA Products ==
  ASSUME NEW i \in Nat, NEW b \in Nat
  PROVE  i * b \in Nat /\ (i + 1) * b = i * b + b
  OBVIOUS

\* A product grows with its first factor.
LEMMA Larger ==
  ASSUME NEW i \in Nat, NEW j \in Nat, NEW b \in Nat, i <= j
  PROVE  i * b <= j * b
  OBVIOUS

\* A nonce tells the base it was derived from, of chunks of the same index.
LEMMA NonceTellsBase ==
  ASSUME NEW a, NEW b, NEW i, DeriveChunkNonce(a, i) = DeriveChunkNonce(b, i)
  PROVE  a = b
<1> DEFINE B == BitsOf(i)
<1> HIDE DEF B
<1>1. (a \ B) \cup (B \ a) = (b \ B) \cup (B \ b)
  BY DEF DeriveChunkNonce, B
<1>2. \A x : x \in a <=> x \in b
  BY <1>1
<1> QED
  BY <1>2, SetExtensionality

\* A chunk within the stream holds as many bytes as are left, up to the chunk size.
LEMMA ChunkWithin ==
  ASSUME StreamTyped, NEW s \in Streams, NEW i \in Nat, i * ChunkSize <= length[s]
  PROVE  /\ Holds(s, i) \in Nat /\ Holds(s, i) + Tag \in Nat
         /\ i * ChunkSize + Holds(s, i) \in Nat
         /\ Holds(s, i) <= ChunkSize
         /\ ~ Ends(s, i) => /\ Holds(s, i) = ChunkSize
                            /\ (i + 1) * ChunkSize = i * ChunkSize + Holds(s, i)
                            /\ (i + 1) * ChunkSize <= length[s]
                            /\ (i + 1) * ChunkSize < length[s]
<1> DEFINE start == i * ChunkSize
           n == length[s]
<1>1. start \in Nat /\ n \in Nat /\ start <= n /\ (i + 1) * ChunkSize = start + ChunkSize
  BY Products, StreamAssumption DEF StreamTyped
<1>2. Holds(s, i) = IF n - start < ChunkSize THEN n - start ELSE ChunkSize
  BY DEF Holds, ChunkOf
<1>3. Ends(s, i) <=> start + Holds(s, i) = n
  BY DEF Ends
<1> HIDE DEF start, n
<1>4. CASE n - start < ChunkSize
  BY <1>1, <1>2, <1>3, <1>4, StreamAssumption DEF start
<1>5. CASE ~ (n - start < ChunkSize)
  BY <1>1, <1>2, <1>3, <1>5, StreamAssumption DEF start, n
<1> QED
  BY <1>4, <1>5

\* What encrypt_chunk makes of a chunk are its bytes, in order.
LEMMA ChunkBytes ==
  ASSUME StreamTyped, NEW s \in Streams, NEW i \in Nat, Holds(s, i) + Tag \in Nat
  PROVE  LET c == EncryptChunk(s, i, Ends(s, i), Holds(s, i))
         IN  c \in Seq(Bytes) /\ \A pos \in 1 .. Holds(s, i) + Tag : c[pos] = Byte(s, i, pos)
<1> DEFINE m == Holds(s, i) + Tag
           c == [pos \in 1 .. m |-> Byte(s, i, pos)]
<1>1. EncryptChunk(s, i, Ends(s, i), Holds(s, i)) = c
  BY DEF EncryptChunk, Byte
<1>2. \A pos \in Nat : Byte(s, i, pos) \in Bytes
  BY DEF Bytes
<1>3. c \in Seq(Bytes)
  <2> HIDE DEF m
  <2>1. c \in [1 .. m -> Bytes]
    BY <1>2
  <2> QED
    BY <2>1 DEF m
<1> QED
  BY <1>1, <1>3

\* The last chunk begins within the stream, which it ends.
LEMMA LastChunk ==
  ASSUME NEW n \in Nat
  PROVE  /\ Chunks(n) \in Nat \ {0}
         /\ (Chunks(n) - 1) * ChunkSize <= n /\ n <= Chunks(n) * ChunkSize
         /\ n # 0 => (Chunks(n) - 1) * ChunkSize < n
         /\ n = 0 => Chunks(n) = 1
<1>1. CASE n = 0
  BY <1>1, StreamAssumption DEF Chunks
<1>2. CASE n # 0
  <2> DEFINE q == (n + ChunkSize - 1) \div ChunkSize
  <2>1. n + ChunkSize - 1 \in Nat /\ ChunkSize \in Nat \ {0}
    BY <1>2, StreamAssumption
  <2>2. q \in Nat /\ q * ChunkSize <= n + ChunkSize - 1 /\ n + ChunkSize - 1 < q * ChunkSize + ChunkSize
    BY <2>1, Quotient
  <2>3. Chunks(n) = q
    BY <1>2 DEF Chunks
  <2> HIDE DEF q
  <2>4. q * ChunkSize \in Nat /\ n <= q * ChunkSize
    BY <2>1, <2>2, Products
  <2>5. q # 0
    BY <1>2, <2>1, <2>4
  <2>6. q - 1 \in Nat /\ (q - 1) + 1 = q
    BY <2>2, <2>5
  <2>7. (q - 1) * ChunkSize \in Nat /\ q * ChunkSize = (q - 1) * ChunkSize + ChunkSize
    BY <2>1, <2>6, Products
  <2> QED
    BY <2>1, <2>2, <2>3, <2>4, <2>6, <2>7
<1> QED
  BY <1>1, <1>2

\* encrypt_bytes seals the same bytes.
LEMMA BodyBytes ==
  ASSUME StreamTyped, NEW s \in Streams
  PROVE  /\ Body(s) \in Seq(Bytes)
         /\ Len(Body(s)) = length[s] + Chunks(length[s]) * Tag
         /\ \A k \in 1 .. Len(Body(s)) : Body(s)[k] = ByteAt(s, k)
<1> DEFINE n == length[s]
           c == Chunks(n)
           sealed == ChunkSize + Tag
           total == n + c * Tag
<1>1. n \in Nat /\ c \in Nat \ {0} /\ (c - 1) * ChunkSize <= n /\ n <= c * ChunkSize
  BY LastChunk DEF StreamTyped
<1>2. ChunkSize \in Nat \ {0} /\ Tag \in Nat \ {0} /\ sealed \in Nat \ {0}
  BY StreamAssumption
<1> HIDE DEF n, c, sealed
<1>3. total \in Nat
  <2>1. c * Tag \in Nat
    BY <1>1, <1>2, Products
  <2> QED
    BY <1>1, <2>1
<1>4. ASSUME NEW k \in 1 .. total
      PROVE  LET i == (k - 1) \div sealed IN
             /\ EncryptChunk(s, i, Ends(s, i), Holds(s, i))[k - i * sealed] \in Bytes
             /\ EncryptChunk(s, i, Ends(s, i), Holds(s, i))[k - i * sealed] = ByteAt(s, k)
  <2> DEFINE i == (k - 1) \div sealed
  <2>0. k \in Nat /\ k - 1 \in Nat /\ k <= total
    BY <1>3
  <2>1. i \in Nat /\ i * sealed <= k - 1 /\ k - 1 < i * sealed + sealed
    BY <1>2, <2>0, Quotient
  <2> HIDE DEF i, total
  <2>2. i * sealed = i * ChunkSize + i * Tag /\ i * ChunkSize \in Nat /\ i * Tag \in Nat
    BY <1>2, <2>1 DEF sealed
  <2>3. c * sealed = c * ChunkSize + c * Tag /\ c * ChunkSize \in Nat /\ c * Tag \in Nat
    BY <1>1, <1>2 DEF sealed
  <2>4. i < c
    <3> SUFFICES ASSUME c <= i PROVE FALSE
      BY <1>1, <2>1
    <3>1. c * sealed <= i * sealed
      BY <1>1, <1>2, <2>1, Larger
    <3>2. k - 1 < n + c * Tag
      BY <2>0, <1>1, <2>3 DEF total
    <3> QED
      BY <1>1, <2>0, <2>1, <2>2, <2>3, <3>1, <3>2
  <2>5. i * ChunkSize <= n
    <3>1. i <= c - 1 /\ c - 1 \in Nat
      BY <1>1, <2>1, <2>4
    <3>2. i * ChunkSize <= (c - 1) * ChunkSize /\ (c - 1) * ChunkSize \in Nat
      BY <1>2, <2>1, <3>1, Larger, Products
    <3> QED
      BY <1>1, <2>2, <3>2
  <2>6. /\ Holds(s, i) \in Nat /\ Holds(s, i) + Tag \in Nat
        /\ ~ Ends(s, i) => Holds(s, i) = ChunkSize
        /\ Ends(s, i) => i * ChunkSize + Holds(s, i) = n
    BY <2>1, <2>5, ChunkWithin DEF Ends, n
  <2>7. k - i * sealed \in 1 .. Holds(s, i) + Tag
    <3>1. k - i * sealed \in Nat /\ k - i * sealed >= 1
      BY <2>0, <2>1, <2>2
    <3>2. CASE ~ Ends(s, i)
      BY <1>2, <2>0, <2>1, <2>2, <2>6, <3>1, <3>2 DEF sealed
    <3>3. CASE Ends(s, i)
      <4>1. i + 1 <= c /\ i + 1 \in Nat
        BY <1>1, <2>1, <2>4
      <4>2. CASE i + 1 = c
        <5>1. c * Tag = i * Tag + Tag
          BY <1>2, <2>1, <4>2, Products
        <5>2. k <= n + (i * Tag + Tag)
          BY <2>0, <5>1 DEF total
        <5> QED
          BY <1>1, <1>2, <2>0, <2>2, <2>6, <3>1, <3>3, <5>2
      <4>3. CASE i + 1 # c
        <5>1. i + 1 <= c - 1 /\ c - 1 \in Nat
          BY <1>1, <2>1, <4>1, <4>3
        <5>2. (i + 1) * ChunkSize <= (c - 1) * ChunkSize /\ (c - 1) * ChunkSize \in Nat
          BY <1>2, <4>1, <5>1, Larger, Products
        <5>3. (i + 1) * ChunkSize = i * ChunkSize + ChunkSize
          BY <1>2, <2>1, Products
        <5>4. ChunkSize <= Holds(s, i)
          BY <1>1, <1>2, <2>2, <2>6, <3>3, <5>2, <5>3
        <5> QED
          BY <1>2, <2>0, <2>1, <2>2, <2>6, <3>1, <5>4 DEF sealed
      <4> QED
        BY <4>2, <4>3
    <3> QED
      BY <3>2, <3>3
  <2>8. EncryptChunk(s, i, Ends(s, i), Holds(s, i))[k - i * sealed] = Byte(s, i, k - i * sealed)
    BY <2>1, <2>6, <2>7, ChunkBytes
  <2>9. Byte(s, i, k - i * sealed) \in Bytes
    <3>1. k - i * sealed \in Nat
      BY <2>6, <2>7
    <3> QED
      BY <2>1, <3>1 DEF Bytes
  <2> QED
    BY <2>8, <2>9 DEF i, ByteAt, sealed
<1>5. Body(s) = [k \in 1 .. total |->
                  LET i == (k - 1) \div sealed IN
                  EncryptChunk(s, i, Ends(s, i), Holds(s, i))[k - i * sealed]]
  BY DEF Body, Ends, Holds, sealed, n, c
<1>6. Body(s) \in [1 .. total -> Bytes]
  <2> HIDE DEF total
  <2> QED
    BY <1>4, <1>5
<1>7. Body(s) \in Seq(Bytes) /\ Len(Body(s)) = total
  <2> HIDE DEF total
  <2> QED
    BY <1>3, <1>6
<1>8. \A k \in 1 .. total : Body(s)[k] = ByteAt(s, k)
  <2> HIDE DEF total
  <2> QED
    BY <1>4, <1>5
<1> QED
  BY <1>7, <1>8 DEF n, c

\* A piece that opens is the whole of the decryptor's next chunk, in order.
LEMMA AuthenticPiece ==
  ASSUME StreamTyped, NEW piece \in Seq(Bytes), Len(piece) >= Tag,
         NEW of \in Files \X Bases, NEW i \in Nat, NEW final \in BOOLEAN,
         Authentic(piece, of[1], of[2], i, final)
  PROVE  /\ of \in Streams /\ (final <=> Ends(of, i))
         /\ Len(piece) = Holds(of, i) + Tag
         /\ \A pos \in 1 .. Len(piece) : piece[pos].plain = <<of, i * ChunkSize + pos>>
<1>1. ASSUME NEW pos \in 1 .. Len(piece)
      PROVE  /\ of \in Streams /\ (final <=> Ends(of, i))
             /\ piece[pos].size = Holds(of, i) + Tag
             /\ piece[pos].plain = <<of, i * ChunkSize + pos>>
  <2>1. piece[pos] \in Bytes
    OBVIOUS
  <2>2. PICK s \in Streams, j \in Nat, p \in Nat : piece[pos] = Byte(s, j, p)
    BY <2>1 DEF Bytes
  <2>3. /\ piece[pos].nonce = DeriveChunkNonce(s[2], j)
        /\ piece[pos].aad = <<s[1], j, Ends(s, j)>>
        /\ piece[pos].pos = p /\ piece[pos].size = Holds(s, j) + Tag
        /\ piece[pos].plain = <<s, j * ChunkSize + p>>
    BY <2>2 DEF Byte, BuildChunkAad
  <2>4. /\ piece[pos].nonce = DeriveChunkNonce(of[2], i)
        /\ piece[pos].aad = <<of[1], i, final>> /\ piece[pos].pos = pos
    BY DEF Authentic, BuildChunkAad
  <2>5. s[1] = of[1] /\ j = i /\ Ends(s, j) = final /\ p = pos
    BY <2>3, <2>4
  <2>6. s[2] = of[2]
    <3>1. DeriveChunkNonce(s[2], i) = DeriveChunkNonce(of[2], i)
      BY <2>3, <2>4, <2>5
    <3> QED
      BY <3>1, NonceTellsBase
  <2>7. s = of
    <3>1. s = <<s[1], s[2]>> /\ of = <<of[1], of[2]>>
      BY StreamAssumption
    <3> QED
      BY <2>5, <2>6, <3>1
  <2> QED
    BY <2>3, <2>5, <2>7
<1>2. 1 \in 1 .. Len(piece)
  BY StreamAssumption
<1>3. Len(piece) = piece[1].size
  BY DEF Authentic
<1> QED
  BY <1>1, <1>2, <1>3

\* The first states of the streams satisfy the invariant.
LEMMA InitStream == StreamInit => StreamInv
<1> SUFFICES ASSUME StreamInit PROVE StreamInv
  OBVIOUS
<1>1. PICK s \in Streams : work = At("encrypt", s, 0, 0)
  BY DEF StreamInit
<1>2. s \in Files \X Bases
  BY StreamAssumption DEF Files, Bases
<1>3. work \in [at : StreamSteps, of : Files \X Bases, index : Nat, off : Nat] /\ work.of = s
      /\ work.at = "encrypt" /\ work.index = 0
  BY <1>1, <1>2 DEF At, StreamSteps
<1>4. length \in [Streams -> Nat]
  BY StreamAssumption DEF StreamInit
<1>5. stored \in [nonce : Bases, chunk : Nat, body : Seq(Bytes)] /\ output = <<>>
  BY <1>3, StreamAssumption DEF StreamInit, Bases
<1>6. 0 * ChunkSize <= length[s]
  BY <1>4, StreamAssumption
<1> QED
  BY <1>3, <1>4, <1>5, <1>6 DEF StreamInv, StreamTyped

\* Every step of the encryptor, the decryptor and what happens to the bytes keeps it.
LEMMA StreamStep == StreamInv /\ [StreamNext]_streamvars => StreamInv'
<1> SUFFICES ASSUME StreamInv, [StreamNext]_streamvars PROVE StreamInv'
  OBVIOUS
<1>0. StreamTyped /\ ChunkSize \in Nat \ {0} /\ Tag \in Nat \ {0}
  BY StreamAssumption DEF StreamInv
<1> DEFINE s == work.of
           i == work.index
<1>t. /\ s \in Files \X Bases /\ i \in Nat /\ work.off \in Nat /\ work.at \in StreamSteps
      /\ stored.body \in Seq(Bytes) /\ stored.chunk \in Nat /\ stored.nonce \in Bases
      /\ length \in [Streams -> Nat] /\ output \in Seq(PlainBytes)
  BY <1>0 DEF StreamTyped
<1>1. CASE EncryptNext
  <2> DEFINE n == Holds(s, i)
             final == Ends(s, i)
             chunk == EncryptChunk(s, i, final, n)
  <2>1. s \in Streams /\ i * ChunkSize <= length[s] /\ output = <<>> /\ work.at = "encrypt"
    BY <1>1 DEF EncryptNext, StreamInv
  <2>2. n + Tag \in Nat /\ (~ final => (i + 1) * ChunkSize <= length[s])
    BY <1>0, <1>t, <2>1, ChunkWithin
  <2>3. chunk \in Seq(Bytes)
    BY <1>0, <1>t, <2>1, <2>2, ChunkBytes
  <2>4. /\ stored' = [stored EXCEPT !.body = @ \o chunk]
        /\ work' = IF final THEN At("stored", s, 0, 0) ELSE [work EXCEPT !.index = @ + 1]
        /\ UNCHANGED <<length, output>>
    BY <1>1 DEF EncryptNext, Holds, Ends
  <2> HIDE DEF n, final, chunk
  <2>5. stored' \in [nonce : Bases, chunk : Nat, body : Seq(Bytes)]
    <3>1. stored.body \o chunk \in Seq(Bytes)
      BY <1>t, <2>3
    <3> QED
      BY <1>0, <2>4, <3>1 DEF StreamTyped
  <2>6. CASE final
    <3>1. work' \in [at : StreamSteps, of : Files \X Bases, index : Nat, off : Nat] /\ work'.at = "stored"
      BY <1>t, <2>4, <2>6 DEF At, StreamSteps
    <3> QED
      BY <1>0, <1>t, <2>1, <2>4, <2>5, <3>1, NextTyped DEF StreamInv
  <2>7. CASE ~ final
    <3>1. work' \in [at : StreamSteps, of : Files \X Bases, index : Nat, off : Nat]
          /\ work'.at = "encrypt" /\ work'.of = s /\ work'.index = i + 1
      <4>1. i + 1 \in Nat
        BY <1>t
      <4> QED
        BY <1>0, <2>1, <2>4, <2>7, <4>1 DEF StreamTyped, StreamSteps
    <3>2. (i + 1) * ChunkSize <= length'[s]
      BY <2>2, <2>4, <2>7
    <3> HIDE DEF s, i
    <3> QED
      BY <1>0, <1>t, <2>1, <2>4, <2>5, <3>1, <3>2, NextTyped DEF StreamInv
  <2> QED
    BY <2>6, <2>7
<1>2. CASE EncryptFails
  <2>1. work' = At("stored", s, 0, 0) /\ UNCHANGED <<length, stored, output>> /\ output = <<>>
    BY <1>2 DEF EncryptFails, StreamInv
  <2>2. work' \in [at : StreamSteps, of : Files \X Bases, index : Nat, off : Nat] /\ work'.at = "stored"
    BY <1>t, <2>1 DEF At, StreamSteps
  <2> QED
    <3>1. stored' \in [nonce : Bases, chunk : Nat, body : Seq(Bytes)]
      BY <1>0, <2>1 DEF StreamTyped
    <3> QED
      BY <1>t, <1>0, <2>1, <2>2, <3>1, NextTyped DEF StreamInv
<1>3. CASE Damage
  <2>1. work.at = "stored" /\ UNCHANGED <<length, work, output>>
    BY <1>3 DEF Damage
  <2>2. stored' \in [nonce : Bases, chunk : Nat, body : Seq(Bytes)]
    <3>1. CASE \E t \in Streams : stored' = [stored EXCEPT !.nonce = t[2]]
      BY <1>0, <3>1 DEF StreamTyped, Bases
    <3>2. CASE \E size \in SizesRead : stored' = [stored EXCEPT !.chunk = size]
      BY <1>0, <3>2, StreamAssumption DEF StreamTyped
    <3>3. ASSUME NEW t \in Streams, NEW k \in 0 .. Len(stored.body), NEW j \in 1 .. Len(Body(t)) + 1,
                 stored' = [stored EXCEPT !.body = SubSeq(@, 1, k) \o SubSeq(Body(t), j, Len(Body(t)))]
          PROVE  stored' \in [nonce : Bases, chunk : Nat, body : Seq(Bytes)]
      <4> DEFINE front == SubSeq(stored.body, 1, k)
                 back == SubSeq(Body(t), j, Len(Body(t)))
      <4>1. Body(t) \in Seq(Bytes)
        BY <1>0, BodyBytes
      <4>2. front \in Seq(Bytes)
        BY <1>t
      <4>3. back \in Seq(Bytes)
        <5> DEFINE b == Body(t)
        <5>1. b \in Seq(Bytes) /\ j \in 1 .. Len(b) + 1
          BY <4>1
        <5> HIDE DEF b
        <5>2. SubSeq(b, j, Len(b)) \in Seq(Bytes)
          BY <5>1
        <5> QED
          BY <5>2 DEF b
      <4>4. stored' = [stored EXCEPT !.body = front \o back]
        BY <3>3
      <4> HIDE DEF front, back
      <4>5. front \o back \in Seq(Bytes)
        BY <4>2, <4>3
      <4> QED
        BY <1>0, <4>4, <4>5 DEF StreamTyped
    <3> QED
      BY <1>3, <3>1, <3>2, <3>3 DEF Damage
  <2> QED
    <3>1. work' \in [at : StreamSteps, of : Files \X Bases, index : Nat, off : Nat] /\ output' \in Seq(PlainBytes)
      BY <1>0, <2>1 DEF StreamTyped
    <3> QED
      BY <1>0, <2>1, <2>2, <3>1, NextTyped DEF StreamInv
<1>4. ASSUME NEW file \in Files, DecryptStream(file) PROVE StreamInv'
  <2>1. work.at = "stored" /\ output = <<>> /\ UNCHANGED <<length, stored, output>>
    BY <1>4 DEF DecryptStream, StreamInv
  <2>2. /\ work' \in [at : StreamSteps, of : Files \X Bases, index : Nat, off : Nat]
        /\ work'.at \in {"decrypt", "failed"} /\ work'.index = 0 /\ work'.off = 0
    <3>1. PICK at \in {"decrypt", "failed"} :
            work' = [At(at, s, 0, 0) EXCEPT !.of = <<file, stored.nonce>>]
      BY <1>4 DEF DecryptStream
    <3>2. <<file, stored.nonce>> \in Files \X Bases
      BY <1>t
    <3>3. work' = [at |-> at, of |-> <<file, stored.nonce>>, index |-> 0, off |-> 0]
      BY <3>1 DEF At
    <3> QED
      BY <3>1, <3>2, <3>3 DEF StreamSteps
  <2>3. Len(output') = 0 /\ 0 * ChunkSize = 0 /\ 0 <= Len(stored.body)
    BY <1>t, <1>0, <2>1
  <2> QED
    <3>1. stored' \in [nonce : Bases, chunk : Nat, body : Seq(Bytes)] /\ output' \in Seq(PlainBytes)
      BY <1>0, <2>1 DEF StreamTyped
    <3>2. StreamTyped'
      BY <1>0, <2>1, <2>2, <3>1, NextTyped
    <3> QED
      BY <1>t, <1>0, <2>1, <2>2, <2>3, <3>2 DEF StreamInv
<1>5. CASE DecryptNext
  <2> DEFINE total == Len(stored.body)
             end == IF work.off + stored.chunk + Tag < total
                    THEN work.off + stored.chunk + Tag ELSE total
             piece == SubSeq(stored.body, work.off + 1, end)
             final == end = total
  <2>1. /\ work.at = "decrypt" /\ work.off <= total /\ total \in Nat
        /\ Len(output) = i * ChunkSize
        /\ i > 0 => s \in Streams /\ i * ChunkSize <= length[s]
        /\ \A k \in 1 .. Len(output) : output[k] = <<s, k>>
        /\ UNCHANGED <<length, stored>>
    BY <1>5, <1>t DEF DecryptNext, StreamInv
  <2>2. end \in Nat /\ work.off <= end /\ end <= total
    BY <1>0, <1>t, <2>1
  <2>3. piece \in Seq(Bytes)
    <3> HIDE DEF end
    <3> QED
      BY <1>t, <2>1, <2>2
  <2>4. CASE ~ (Len(piece) >= Tag /\ Authentic(piece, s[1], s[2], i, final))
    <3>1. work' = [work EXCEPT !.at = "failed"] /\ output' = output
      BY <1>5, <2>4 DEF DecryptNext
    <3>2. work' \in [at : StreamSteps, of : Files \X Bases, index : Nat, off : Nat]
          /\ work'.at = "failed" /\ work'.of = s
      BY <1>0, <3>1 DEF StreamTyped, StreamSteps
    <3> HIDE DEF s, i, piece, end, total
    <3> QED
      <4>1. stored' \in [nonce : Bases, chunk : Nat, body : Seq(Bytes)] /\ output' \in Seq(PlainBytes)
        BY <1>0, <2>1, <3>1 DEF StreamTyped
      <4>2. StreamTyped'
        BY <1>0, <2>1, <3>2, <4>1, NextTyped
      <4> QED
        BY <2>1, <3>1, <3>2, <4>2 DEF StreamInv
  <2>5. CASE Len(piece) >= Tag /\ Authentic(piece, s[1], s[2], i, final)
    <3> DEFINE plain == PlainOf(piece)
    <3>1. /\ output' = output \o plain
          /\ work' = IF final THEN [work EXCEPT !.at = "ok"]
                     ELSE [work EXCEPT !.index = @ + 1, !.off = end]
      BY <1>5, <2>5 DEF DecryptNext
    <3>2. /\ s \in Streams /\ (final <=> Ends(s, i))
          /\ Len(piece) = Holds(s, i) + Tag
          /\ \A pos \in 1 .. Len(piece) : piece[pos].plain = <<s, i * ChunkSize + pos>>
      <4> HIDE DEF piece, end, total, s, i
      <4>1. final \in BOOLEAN
        OBVIOUS
      <4>2. /\ StreamTyped /\ piece \in Seq(Bytes) /\ s \in Files \X Bases /\ i \in Nat
            /\ Len(piece) >= Tag /\ Authentic(piece, s[1], s[2], i, final)
        BY <1>0, <1>t, <2>3, <2>5
      <4> HIDE DEF final
      <4> QED
        BY <4>1, <4>2, AuthenticPiece
    <3> DEFINE n == Holds(s, i)
    <3>3. i * ChunkSize <= length[s]
      <4>1. CASE i = 0
        BY <1>0, <1>t, <3>2, <4>1
      <4> QED
        BY <1>t, <2>1, <4>1
    <3>4. /\ n \in Nat /\ i * ChunkSize \in Nat
          /\ final => i * ChunkSize + n = length[s]
          /\ ~ final => (i + 1) * ChunkSize = i * ChunkSize + n /\ (i + 1) * ChunkSize <= length[s]
      <4>1. n \in Nat /\ (~ Ends(s, i) => (i + 1) * ChunkSize = i * ChunkSize + n
                                           /\ (i + 1) * ChunkSize <= length[s])
        BY <1>0, <1>t, <3>2, <3>3, ChunkWithin
      <4>2. i * ChunkSize \in Nat
        BY <1>0, <1>t, Products
      <4>3. Ends(s, i) => i * ChunkSize + n = length[s]
        BY DEF Ends
      <4> HIDE DEF n, final, s, i
      <4> QED
        BY <3>2, <4>1, <4>2, <4>3
    <3> HIDE DEF n, final, piece, s, i
    <3>5. plain = [pos \in 1 .. n |-> <<s, i * ChunkSize + pos>>]
      <4>1. Len(piece) - Tag = n /\ \A pos \in 1 .. n : pos \in 1 .. Len(piece)
        BY <1>0, <3>2, <3>4 DEF n
      <4> QED
        BY <3>2, <4>1 DEF PlainOf
    <3>6. plain \in Seq(PlainBytes) /\ Len(plain) = n
      <4>1. \A pos \in 1 .. n : <<s, i * ChunkSize + pos>> \in PlainBytes
        BY <3>2, <3>4 DEF PlainBytes
      <4> HIDE DEF plain
      <4> QED
        BY <3>4, <3>5, <4>1
    <3>7. /\ output' \in Seq(PlainBytes) /\ Len(output') = i * ChunkSize + n
          /\ \A k \in 1 .. Len(output') : output'[k] = <<s, k>>
      <4> DEFINE m == i * ChunkSize
      <4>1. m \in Nat /\ Len(output) = m /\ plain = [pos \in 1 .. n |-> <<s, m + pos>>]
        BY <2>1, <3>4, <3>5
      <4> HIDE DEF m, plain
      <4>2. output' \in Seq(PlainBytes) /\ Len(output') = m + n
        BY <1>t, <3>1, <3>4, <3>6, <4>1
      <4>3. ASSUME NEW k \in 1 .. m + n PROVE output'[k] = <<s, k>>
        <5>1. CASE k <= m
          BY <1>t, <2>1, <3>1, <3>4, <3>6, <4>1, <5>1
        <5>2. CASE k > m
          <6>1. output'[k] = plain[k - m]
            <7>1. /\ output \in Seq(PlainBytes) /\ plain \in Seq(PlainBytes) /\ output' = output \o plain
                  /\ Len(output) = m /\ Len(plain) = n /\ m \in Nat /\ n \in Nat
              BY <1>t, <3>1, <3>4, <3>6, <4>1
            <7>2. k \in 1 .. Len(output) + Len(plain) /\ ~ (k <= Len(output))
              BY <7>1, <5>2
            <7>3. (output \o plain)[k] = plain[k - Len(output)]
              BY <7>1, <7>2, ConcatProperties
            <7> QED
              BY <7>1, <7>3
          <6>2. k - m \in 1 .. n /\ m + (k - m) = k
            BY <3>4, <4>1, <5>2
          <6> QED
            BY <4>1, <6>1, <6>2
        <5> QED
          BY <4>1, <5>1, <5>2
      <4> QED
        BY <4>2, <4>3 DEF m
    <3>8. CASE final
      <4>1. work' \in [at : StreamSteps, of : Files \X Bases, index : Nat, off : Nat]
            /\ work'.at = "ok" /\ work'.of = s
        BY <1>0, <3>1, <3>8 DEF StreamTyped, StreamSteps, s
      <4>2. StreamTyped'
        <5>1. stored' \in [nonce : Bases, chunk : Nat, body : Seq(Bytes)]
          BY <1>0, <2>1 DEF StreamTyped
        <5> QED
          BY <1>0, <2>1, <3>7, <4>1, <5>1, NextTyped
      <4> QED
        BY <2>1, <3>2, <3>4, <3>7, <3>8, <4>1, <4>2 DEF StreamInv
    <3>9. CASE ~ final
      <4>1. work' \in [at : StreamSteps, of : Files \X Bases, index : Nat, off : Nat]
            /\ work'.at = "decrypt" /\ work'.of = s /\ work'.index = i + 1 /\ work'.off = end
        <5>1. i + 1 \in Nat /\ end \in Nat
          BY <1>t, <2>2
        <5> HIDE DEF end
        <5> QED
          BY <1>0, <2>1, <3>1, <3>9, <5>1 DEF StreamTyped, StreamSteps, s, i
      <4>2. Len(output') = (i + 1) * ChunkSize /\ (i + 1) * ChunkSize <= length'[s]
        BY <2>1, <3>4, <3>7, <3>9
      <4>3. end <= Len(stored'.body)
        BY <2>1, <2>2
      <4>4. StreamTyped'
        <5>1. stored' \in [nonce : Bases, chunk : Nat, body : Seq(Bytes)]
          BY <1>0, <2>1 DEF StreamTyped
        <5> QED
          BY <1>0, <2>1, <3>7, <4>1, <5>1, NextTyped
      <4> HIDE DEF end, total
      <4> QED
        BY <2>1, <3>2, <3>7, <4>1, <4>2, <4>3, <4>4 DEF StreamInv
    <3> QED
      BY <3>8, <3>9
  <2> QED
    BY <2>4, <2>5
<1>6. CASE UNCHANGED streamvars
  <2>1. UNCHANGED <<length, work, stored, output>>
    BY <1>6 DEF streamvars
  <2>2. Bytes' = Bytes
    BY <2>1 DEF Bytes, Byte, Ends, Holds
  <2> QED
    BY <2>1, <2>2 DEF StreamInv, StreamTyped
<1> QED
  BY <1>1, <1>2, <1>3, <1>4, <1>5, <1>6 DEF StreamNext

\* Whatever happened to the stored bytes (lost, doubled, moved, of another stream, under
\* another header), what the decryptor has written out is a beginning of what one
\* stream was made from, and all of it once it says Ok; for files and chunks of
\* any length, and any damage.
THEOREM OnlyWhatWasEncrypted == StreamSpec => []DecryptsWhatWasEncrypted
<1>1. StreamInv => DecryptsWhatWasEncrypted
  BY DEF StreamInv, DecryptsWhatWasEncrypted
<1> QED
  BY <1>1, InitStream, StreamStep, PTL DEF StreamSpec

-----------------------------------------------------------------------------
(***************************************************************************)
(* Streams and byte slices.  What encrypt_stream has stored is a beginning *)
(* of what encrypt_bytes would make; what decrypt_stream has opened are    *)
(* the pieces that decrypt_bytes would cut.                                *)
(***************************************************************************)
\* A quotient is known by what lies between its multiples.
LEMMA QuotientIs ==
  ASSUME NEW a \in Nat, NEW b \in Nat \ {0}, NEW q \in Nat, q * b <= a, a < q * b + b
  PROVE  a \div b = q /\ a % b = a - q * b
<1> DEFINE d == a \div b
<1>1. d \in Nat /\ d * b <= a /\ a < d * b + b
  BY Quotient
<1>2. a % b = a - d * b
  OBVIOUS
<1> HIDE DEF d
<1>3. (d + 1) * b = d * b + b /\ (q + 1) * b = q * b + b /\ d * b \in Nat /\ q * b \in Nat
  BY <1>1, Products
<1>4. CASE d < q
  <2>1. (d + 1) * b <= q * b
    BY <1>1, <1>4, Larger
  <2> QED
    BY <1>1, <1>3, <2>1
<1>5. CASE q < d
  <2>1. (q + 1) * b <= d * b
    BY <1>1, <1>5, Larger
  <2> QED
    BY <1>1, <1>3, <2>1
<1>6. d = q
  BY <1>1, <1>4, <1>5
<1> QED
  BY <1>2, <1>6 DEF d

\* So is the number of chunks.
LEMMA ChunksIs ==
  ASSUME NEW n \in Nat, NEW i \in Nat, i > 0 => i * ChunkSize < n, n <= (i + 1) * ChunkSize
  PROVE  Chunks(n) = i + 1
<1> DEFINE c == Chunks(n)
<1>1. /\ c \in Nat \ {0} /\ ChunkSize \in Nat \ {0}
      /\ n <= c * ChunkSize /\ (n # 0 => (c - 1) * ChunkSize < n) /\ (n = 0 => c = 1)
  BY LastChunk, StreamAssumption
<1> HIDE DEF c
<1>2. i * ChunkSize \in Nat /\ c - 1 \in Nat /\ (c - 1) * ChunkSize \in Nat
  BY <1>1, Products
<1>3. CASE c - 1 < i
  <2>1. c * ChunkSize <= i * ChunkSize
    BY <1>1, <1>3, Larger
  <2>2. i > 0 /\ c * ChunkSize \in Nat
    BY <1>1, <1>2, <1>3, Products
  <2> QED
    BY <1>1, <1>2, <2>1, <2>2
<1>4. CASE i < c - 1
  <2>1. n # 0
    BY <1>1, <1>4
  <2>2. (i + 1) * ChunkSize <= (c - 1) * ChunkSize /\ (i + 1) * ChunkSize \in Nat
    BY <1>1, <1>2, <1>4, Larger, Products
  <2> QED
    BY <1>1, <1>2, <2>1, <2>2
<1> QED
  BY <1>1, <1>2, <1>3, <1>4 DEF c

\* The size of a sealed stream gives back the size of the plaintext.
LEMMA SizesAgree ==
  ASSUME NEW n \in Nat
  PROVE  CalculateMaxPlaintextSize(n + Chunks(n) * Tag) = n
<1> DEFINE c == Chunks(n)
           sealed == ChunkSize + Tag
           size == n + c * Tag
           p == c - 1
<1>1. /\ c \in Nat \ {0} /\ ChunkSize \in Nat \ {0} /\ Tag \in Nat \ {0}
      /\ n <= c * ChunkSize /\ p * ChunkSize <= n
  BY LastChunk, StreamAssumption
<1> HIDE DEF c
<1>2. p \in Nat /\ c = p + 1
  BY <1>1
<1> HIDE DEF p
<1>3. /\ p * ChunkSize \in Nat /\ p * Tag \in Nat /\ c * Tag = p * Tag + Tag
      /\ c * ChunkSize = p * ChunkSize + ChunkSize
  BY <1>1, <1>2, Products
<1>4. p * sealed = p * ChunkSize + p * Tag /\ c * sealed = p * sealed + sealed
  <2>1. c * sealed = p * sealed + sealed
    BY <1>1, <1>2, Products
  <2> QED
    BY <1>1, <1>2, <2>1
<1> DEFINE r == n - p * ChunkSize
<1>5. r \in Nat /\ r <= ChunkSize /\ size = p * sealed + r + Tag /\ n = p * ChunkSize + r
  BY <1>1, <1>3, <1>4
<1>6. size \in Nat /\ sealed \in Nat \ {0} /\ p * sealed \in Nat
  BY <1>1, <1>3, <1>4, <1>5
<1> HIDE DEF r, size, sealed
<1>7. CASE r = ChunkSize
  <2>1. size = c * sealed
    BY <1>1, <1>3, <1>4, <1>5, <1>6, <1>7 DEF sealed
  <2>2. size \div sealed = c /\ size % sealed = size - c * sealed
    <3>1. c * sealed <= size /\ size < c * sealed + sealed
      BY <1>6, <2>1
    <3> QED
      BY <1>1, <1>6, <3>1, QuotientIs
  <2>3. ~ (size < Tag) /\ size % sealed = 0
    BY <1>1, <1>5, <1>6, <2>1, <2>2
  <2>4. CalculateMaxPlaintextSize(size) = c * ChunkSize
    BY <1>1, <1>3, <2>2, <2>3 DEF CalculateMaxPlaintextSize, sealed
  <2> QED
    BY <1>3, <1>5, <1>7, <2>4 DEF size, c
<1>8. CASE r # ChunkSize
  <2>1. p * sealed <= size /\ size < p * sealed + sealed
    BY <1>1, <1>5, <1>6, <1>8 DEF sealed
  <2>2. size \div sealed = p /\ size % sealed = size - p * sealed
    BY <1>2, <1>6, <2>1, QuotientIs
  <2>3. ~ (size < Tag) /\ size % sealed = r + Tag
    BY <1>1, <1>5, <1>6, <2>2
  <2>4. CalculateMaxPlaintextSize(size) = p * ChunkSize + r
    BY <1>1, <1>3, <1>5, <2>2, <2>3 DEF CalculateMaxPlaintextSize, sealed
  <2> QED
    BY <1>5, <2>4 DEF size, c
<1> QED
  BY <1>7, <1>8

\* A stream before its last chunk: what encrypt_bytes would have made so far.
SoFar(body, s, i) ==
  /\ Len(body) = i * (ChunkSize + Tag)
  /\ \A k \in 1 .. Len(body) : body[k] = ByteAt(s, k)

\* The decryptor is at the beginning of a piece, and has opened those before.
AgreeInv ==
  /\ stored.chunk \in SizesRead /\ damages \in Nat
  /\ work.at = "encrypt" =>
       /\ damages = 0 /\ SoFar(stored.body, work.of, work.index)
       /\ work.index > 0 => work.index * ChunkSize < length[work.of]
  /\ work.at = "stored" /\ damages = 0 =>
       /\ work.of \in Streams
       /\ \/ stored.body = Body(work.of)
          \/ \A k \in 1 .. Len(stored.body) : ~ stored.body[k].aad[3]
  /\ work.at = "decrypt" =>
       /\ stored.chunk >= MinChunkSize
       /\ work.off = work.index * (stored.chunk + Tag)
       /\ work.index > 0 => work.off < Len(stored.body) /\ stored.chunk = ChunkSize
       /\ \A j \in Nat : j < work.index => PieceOpens(stored.body, work.of, j)
  /\ work.at \in {"ok", "failed"} /\ stored.chunk >= MinChunkSize =>
       LET bytes == DecryptBytes(stored.body, work.of) IN
         /\ bytes.ok <=> work.at = "ok"
         /\ bytes.ok => bytes.plain = output

\* A chunk that begins before the last byte, and does not end with it, is not the last.
LEMMA EarlierChunks ==
  ASSUME StreamTyped, NEW s \in Streams, NEW i \in Nat, NEW j \in Nat, j < i,
         i * ChunkSize < length[s]
  PROVE  ~ Ends(s, j)
<1> DEFINE n == length[s]
           start == j * ChunkSize
<1>1. n \in Nat /\ ChunkSize \in Nat \ {0} /\ start \in Nat /\ i * ChunkSize \in Nat
  BY Products, StreamAssumption DEF StreamTyped
<1>2. (j + 1) * ChunkSize = start + ChunkSize /\ (j + 1) * ChunkSize <= i * ChunkSize
  BY <1>1, Products, Larger
<1> HIDE DEF n, start
<1>3. start + ChunkSize < n
  BY <1>1, <1>2 DEF n
<1>4. Holds(s, j) = IF n - start < ChunkSize THEN n - start ELSE ChunkSize
  BY DEF Holds, ChunkOf, n, start
<1>5. Holds(s, j) = ChunkSize
  BY <1>1, <1>3, <1>4
<1> QED
  BY <1>1, <1>3, <1>5 DEF Ends, n, start

\* A chunk sealed at the end of what there is of a stream.
LEMMA ChunkAppended ==
  ASSUME StreamTyped, NEW s \in Streams, NEW i \in Nat, i * ChunkSize <= length[s],
         NEW body \in Seq(Bytes), SoFar(body, s, i)
  PROVE  LET c == EncryptChunk(s, i, Ends(s, i), Holds(s, i)) IN
         /\ Len(body \o c) = i * (ChunkSize + Tag) + Holds(s, i) + Tag
         /\ \A k \in 1 .. Len(body \o c) : (body \o c)[k] = ByteAt(s, k)
<1> DEFINE c == EncryptChunk(s, i, Ends(s, i), Holds(s, i))
           n == Holds(s, i)
           sealed == ChunkSize + Tag
           m == i * sealed
<1>1. /\ n \in Nat /\ n <= ChunkSize /\ ChunkSize \in Nat \ {0} /\ Tag \in Nat \ {0}
      /\ sealed \in Nat \ {0} /\ m \in Nat
  BY ChunkWithin, Products, StreamAssumption
<1>2. c \in Seq(Bytes) /\ \A pos \in 1 .. n + Tag : c[pos] = Byte(s, i, pos)
  BY <1>1, ChunkBytes
<1>3. Len(c) = n + Tag
  <2>1. DOMAIN c = 1 .. n + Tag /\ n + Tag \in Nat
    BY <1>1 DEF EncryptChunk
  <2> HIDE DEF c, n
  <2> QED
    BY <1>2, <2>1, LenProperties
<1> HIDE DEF c, n
<1>4. Len(body) = m /\ \A k \in 1 .. m : body[k] = ByteAt(s, k)
  BY DEF SoFar
<1>5. n + Tag <= sealed
  BY <1>1
<1> HIDE DEF m, sealed
<1>6. /\ Len(body \o c) = m + (n + Tag)
      /\ \A k \in 1 .. m + (n + Tag) : (body \o c)[k] = IF k <= m THEN body[k] ELSE c[k - m]
  <2>1. /\ Len(body \o c) = Len(body) + Len(c)
        /\ \A k \in 1 .. Len(body) + Len(c) :
             (body \o c)[k] = IF k <= Len(body) THEN body[k] ELSE c[k - Len(body)]
    BY <1>2, ConcatProperties
  <2>2. Len(body) = m /\ Len(c) = n + Tag
    BY <1>3, <1>4
  <2> QED
    BY <2>1, <2>2
<1>7. ASSUME NEW k \in 1 .. m + (n + Tag) PROVE (body \o c)[k] = ByteAt(s, k)
  <2>1. CASE k <= m
    BY <1>1, <1>4, <1>6, <2>1
  <2>2. CASE ~ (k <= m)
    <3>1. k - m \in 1 .. n + Tag /\ k - 1 \in Nat /\ m <= k - 1 /\ k - 1 < m + sealed
      BY <1>1, <1>5, <2>2
    <3>2. (k - 1) \div sealed = i
      BY <1>1, <3>1, QuotientIs DEF m
    <3>3. ByteAt(s, k) = Byte(s, i, k - m)
      BY <3>2 DEF ByteAt, sealed, m
    <3> QED
      BY <1>2, <1>6, <2>2, <3>1, <3>3
  <2> QED
    BY <2>1, <2>2
<1>8. m + (n + Tag) = i * (ChunkSize + Tag) + Holds(s, i) + Tag
  BY <1>1 DEF m, sealed, n
<1> QED
  BY <1>6, <1>7, <1>8 DEF c

\* What the pieces are, and where.
LEMMA PieceFacts ==
  ASSUME NEW body \in Seq(Bytes), NEW i \in Nat, stored.chunk \in Nat,
         i * (stored.chunk + Tag) <= Len(body)
  PROVE  LET off == i * (stored.chunk + Tag)
             end == PieceEnd(body, i)
         IN  /\ off \in Nat /\ end \in Nat /\ off <= end /\ end <= Len(body)
             /\ end <= off + stored.chunk + Tag
             /\ (end = Len(body) <=> Len(body) <= off + stored.chunk + Tag)
             /\ (end # Len(body) => end = off + stored.chunk + Tag)
             /\ (i + 1) * (stored.chunk + Tag) = off + stored.chunk + Tag
             /\ Piece(body, i) \in Seq(Bytes) /\ Len(Piece(body, i)) = end - off
             /\ \A pos \in 1 .. end - off : Piece(body, i)[pos] = body[off + pos]
<1> DEFINE sealed == stored.chunk + Tag
           off == i * sealed
           end == PieceEnd(body, i)
           total == Len(body)
<1>1. /\ Tag \in Nat \ {0} /\ sealed \in Nat \ {0} /\ off \in Nat /\ total \in Nat
      /\ (i + 1) * sealed = off + sealed
  BY Products, StreamAssumption
<1>2. end = IF off + sealed < total THEN off + sealed ELSE total
  BY <1>1 DEF PieceEnd
<1>3. /\ end \in Nat /\ off <= end /\ end <= total /\ end <= off + sealed
      /\ (end = total <=> total <= off + sealed) /\ (end # total => end = off + sealed)
  <2> HIDE DEF sealed, off, end
  <2>1. off <= total
    BY DEF off, sealed, total
  <2> HIDE DEF total
  <2> QED
    BY <1>1, <1>2, <2>1
<1>4. Piece(body, i) = SubSeq(body, off + 1, end)
  BY DEF Piece
<1> HIDE DEF off, end, total
<1>5. /\ Piece(body, i) \in Seq(Bytes) /\ Len(Piece(body, i)) = end - off
      /\ \A pos \in 1 .. end - off : Piece(body, i)[pos] = body[off + pos]
  <2>1. off + 1 \in 1 .. end + 1 /\ end \in 0 .. Len(body)
    BY <1>1, <1>3 DEF total
  <2> QED
    BY <1>1, <1>3, <1>4, <2>1 DEF total
<1>6. sealed = stored.chunk + Tag /\ off + sealed = off + stored.chunk + Tag
  BY <1>1
<1> QED
  BY <1>1, <1>3, <1>5, <1>6 DEF off, end, total

\* What decrypt_bytes makes of the bytes when the decryptor gets past the last piece.
LEMMA AllPieces ==
  ASSUME StreamTyped, NEW of \in Files \X Bases, NEW i \in Nat,
         stored.chunk \in Nat \ {0}, i > 0 => stored.chunk = ChunkSize,
         i * (stored.chunk + Tag) <= Len(stored.body),
         PieceEnd(stored.body, i) = Len(stored.body),
         \A j \in Nat : j <= i => PieceOpens(stored.body, of, j)
  PROVE  LET bytes == DecryptBytes(stored.body, of)
         IN  /\ of \in Streams
             /\ bytes.ok
             /\ bytes.plain = [k \in 1 .. length[of] |-> <<of, k>>]
<1> DEFINE body == stored.body
           total == Len(body)
           chunk == stored.chunk
           sealed == chunk + Tag
           off == i * sealed
           n == Holds(of, i)
           pieces == {j \in 0 .. total : j * sealed < total}
<1>1. /\ body \in Seq(Bytes) /\ total \in Nat /\ chunk \in Nat \ {0} /\ Tag \in Nat \ {0}
      /\ ChunkSize \in Nat \ {0} /\ sealed \in Nat \ {0} /\ off \in Nat
      /\ i * chunk \in Nat /\ i * Tag \in Nat /\ off = i * chunk + i * Tag
  <2>1. body \in Seq(Bytes) /\ total \in Nat
    BY DEF StreamTyped
  <2>2. chunk \in Nat \ {0} /\ Tag \in Nat \ {0} /\ ChunkSize \in Nat \ {0}
    BY StreamAssumption
  <2> HIDE DEF chunk
  <2>3. sealed \in Nat \ {0} /\ i * chunk \in Nat /\ i * Tag \in Nat
    BY <2>2, Products
  <2>4. off \in Nat /\ off = i * chunk + i * Tag
    BY <2>2, <2>3
  <2> QED
    BY <2>1, <2>2, <2>3, <2>4
<1>2. /\ off <= total /\ total <= off + chunk + Tag
      /\ Piece(body, i) \in Seq(Bytes) /\ Len(Piece(body, i)) = total - off
  BY <1>1, PieceFacts
<1>3. Len(Piece(body, i)) >= Tag /\ Authentic(Piece(body, i), of[1], of[2], i, TRUE)
  <2>1. PieceOpens(body, of, i) /\ (PieceEnd(body, i) = total) = TRUE
    OBVIOUS
  <2> QED
    BY <2>1 DEF PieceOpens
<1>4. of \in Streams /\ Ends(of, i) /\ Len(Piece(body, i)) = n + Tag
  BY <1>2, <1>3, AuthenticPiece
<1>5. /\ n \in Nat /\ n <= chunk /\ total = off + n + Tag
  <2>1. n \in Int
    <3>1. length[of] \in Nat /\ i * ChunkSize \in Nat
      BY <1>1, <1>4, Products DEF StreamTyped
    <3> QED
      BY <1>1, <3>1 DEF Holds, ChunkOf
  <2> HIDE DEF n, off, total, chunk, body
  <2> QED
    BY <1>1, <1>2, <1>3, <1>4, <2>1 DEF n
<1>6. i * chunk + n = length[of]
  <2>1. CASE i = 0
    BY <1>1, <1>4, <2>1 DEF Ends
  <2>2. CASE i > 0
    BY <1>1, <1>4, <2>2 DEF Ends
  <2> QED
    BY <2>1, <2>2
<1>7. pieces = 0 .. i
  <2> HIDE DEF off, total, chunk, body, n
  <2>1. ASSUME NEW j \in 0 .. total, j * sealed < total PROVE j \in 0 .. i
    <3> SUFFICES ASSUME ~ (j <= i) PROVE FALSE
      BY <1>1
    <3>1. (i + 1) * sealed <= j * sealed /\ (i + 1) * sealed = off + sealed /\ j * sealed \in Nat
      BY <1>1, Larger, Products DEF off
    <3> QED
      BY <1>1, <1>2, <2>1, <3>1
  <2>2. ASSUME NEW j \in 0 .. i PROVE j \in 0 .. total /\ j * sealed < total
    <3>1. j * sealed <= off /\ j * sealed \in Nat
      BY <1>1, Larger, Products DEF off
    <3>2. off < total
      BY <1>1, <1>5
    <3>3. j * 1 <= j * sealed
      BY <1>1
    <3>4. j <= j * sealed
      BY <3>3
    <3> QED
      <4> DEFINE m == j * sealed
      <4> HIDE DEF m, sealed
      <4>1. m \in Nat /\ m <= off /\ j \in Nat /\ j <= m
        BY <3>1, <3>4 DEF m
      <4>2. j \in 0 .. total /\ m < total
        BY <1>1, <3>2, <4>1
      <4> QED
        BY <4>2 DEF m
  <2> QED
    BY <2>1, <2>2
<1>8. pieces # {} /\ \A j \in pieces : PieceOpens(body, of, j)
  BY <1>7
<1>9. Cardinality(pieces) = i + 1
  <2>1. Cardinality(0 .. i) = IF 0 > i THEN 0 ELSE i - 0 + 1
    BY FS_Interval
  <2>2. Cardinality(0 .. i) = i + 1
    BY <2>1
  <2> HIDE DEF pieces
  <2> QED
    BY <1>7, <2>2
<1>10. total - Cardinality(pieces) * Tag = length[of]
  <2>1. Cardinality(pieces) * Tag = i * Tag + Tag
    BY <1>1, <1>9, Products
  <2> DEFINE q == Cardinality(pieces) * Tag
             len == length[of]
  <2>2. q = i * Tag + Tag /\ len = i * chunk + n
    BY <1>6, <2>1
  <2> HIDE DEF q, len, total, off, n, chunk
  <2>3. total - q = len
    BY <1>1, <1>5, <2>2
  <2> QED
    BY <2>3 DEF q, len
<1>11. ASSUME NEW k \in 1 .. length[of]
       PROVE  body[k + ((k - 1) \div chunk) * Tag].plain = <<of, k>>
  <2> DEFINE j == (k - 1) \div chunk
             pos == k - j * chunk
  <2>0. length[of] \in Nat /\ k \in Nat /\ k - 1 \in Nat /\ k <= length[of]
    BY <1>4 DEF StreamTyped
  <2>1. j \in Nat /\ j * chunk <= k - 1 /\ k - 1 < j * chunk + chunk /\ j * chunk \in Nat
    <3> HIDE DEF chunk
    <3> QED
      BY <1>1, <2>0, Quotient, Products
  <2> HIDE DEF j
  <2>2. pos \in Nat /\ pos >= 1 /\ pos <= chunk /\ k = j * chunk + pos
    <3> HIDE DEF chunk
    <3> QED
      BY <1>1, <2>0, <2>1
  <2> HIDE DEF pos
  <2>3. j <= i
    <3> SUFFICES ASSUME ~ (j <= i) PROVE FALSE
      OBVIOUS
    <3> HIDE DEF chunk, n, off, total, body
    <3>1. (i + 1) * chunk <= j * chunk /\ (i + 1) * chunk = i * chunk + chunk
      BY <1>1, <2>1, Larger, Products
    <3> QED
      BY <1>1, <1>5, <1>6, <2>0, <2>1, <3>1
  <2>4. /\ j * sealed = j * chunk + j * Tag /\ j * Tag \in Nat /\ j * sealed \in Nat
        /\ j * sealed <= off
    <3> HIDE DEF chunk
    <3>1. j * chunk \in Nat /\ j * Tag \in Nat /\ j * sealed <= i * sealed
      BY <1>1, <2>1, <2>3, Larger, Products
    <3> QED
      BY <1>1, <2>1, <3>1
  <2>5. j * sealed <= total
    <3> HIDE DEF total, off, chunk, sealed
    <3> QED
      BY <1>1, <1>2, <2>4
  <2>6. /\ PieceEnd(body, j) \in Nat
        /\ Piece(body, j) \in Seq(Bytes) /\ Len(Piece(body, j)) = PieceEnd(body, j) - j * sealed
        /\ \A q \in 1 .. PieceEnd(body, j) - j * sealed : Piece(body, j)[q] = body[j * sealed + q]
        /\ (PieceEnd(body, j) = total <=> total <= j * sealed + chunk + Tag)
        /\ (PieceEnd(body, j) # total => PieceEnd(body, j) = j * sealed + chunk + Tag)
    BY <1>1, <2>1, <2>5, PieceFacts
  <2> DEFINE end == PieceEnd(body, j)
  <2> HIDE DEF end
  <2>7. pos <= end - j * sealed
    <3> HIDE DEF chunk, sealed, n, off, total, body
    <3>1. CASE end # total
      <4>1. end = j * sealed + chunk + Tag
        BY <2>6, <3>1 DEF end
      <4> QED
        BY <1>1, <2>2, <2>4, <4>1
    <3>2. CASE end = total
      <4>1. CASE j = i
        <5>1. j * sealed = off
          BY <4>1 DEF off
        <5>2. pos <= n
          <6> DEFINE m == i * chunk
                     len == length[of]
          <6>1. m \in Nat /\ len \in Nat /\ m + n = len /\ n \in Nat
            BY <1>1, <1>5, <1>6, <2>0
          <6>2. k = m + pos /\ k <= len /\ pos \in Nat
            BY <2>0, <2>2, <4>1
          <6> HIDE DEF m, len
          <6> QED
            BY <6>1, <6>2
        <5>3. off \in Nat /\ n \in Nat /\ Tag \in Nat /\ total = off + n + Tag /\ pos \in Nat
          BY <1>1, <1>5, <2>2
        <5>4. pos <= total - off
          BY <5>2, <5>3
        <5> QED
          BY <3>2, <5>1, <5>4
      <4>2. CASE j # i
        <5>1. (j + 1) * sealed <= i * sealed /\ (j + 1) * sealed = j * sealed + sealed
          BY <1>1, <2>1, <2>3, <4>2, Larger, Products
        <5>2. j * sealed + sealed <= total
          BY <1>1, <1>2, <2>4, <5>1 DEF off
        <5> QED
          BY <1>1, <2>2, <2>4, <3>2, <5>2 DEF sealed
      <4> QED
        BY <4>1, <4>2
    <3> QED
      BY <3>1, <3>2
  <2>8. pos \in 1 .. end - j * sealed /\ pos \in 1 .. Len(Piece(body, j))
    <3> HIDE DEF chunk, sealed, body
    <3> QED
      BY <2>2, <2>4, <2>6, <2>7 DEF end
  <2>9. Piece(body, j)[pos] = body[k + j * Tag]
    <3>1. Piece(body, j)[pos] = body[j * sealed + pos]
      BY <2>6, <2>8 DEF end
    <3>2. j * sealed + pos = k + j * Tag
      <4> HIDE DEF chunk, sealed
      <4> QED
        BY <1>1, <2>1, <2>2, <2>4
    <3> QED
      BY <3>1, <3>2
  <2>10. Piece(body, j)[pos].plain = <<of, j * ChunkSize + pos>>
    <3> DEFINE p == Piece(body, j)
               final == end = total
    <3>1. Len(p) >= Tag /\ Authentic(p, of[1], of[2], j, final) /\ final \in BOOLEAN
      <4>1. PieceOpens(body, of, j)
        BY <2>1, <2>3
      <4> QED
        BY <4>1 DEF PieceOpens, end
    <3>2. p \in Seq(Bytes) /\ pos \in 1 .. Len(p)
      BY <2>6, <2>8
    <3> HIDE DEF p, final
    <3> QED
      <4>1. \A q \in 1 .. Len(p) : p[q].plain = <<of, j * ChunkSize + q>>
        BY <2>1, <3>1, <3>2, AuthenticPiece
      <4> QED
        BY <3>2, <4>1 DEF p
  <2>11. j * ChunkSize + pos = k
    <3>1. CASE j = 0
      BY <1>1, <2>2, <3>1
    <3>2. CASE j # 0
      <4>1. i > 0
        BY <2>1, <2>3, <3>2
      <4> QED
        BY <2>2, <4>1
    <3> QED
      BY <3>1, <3>2
  <2> QED
    BY <2>9, <2>10, <2>11 DEF j
<1>12. DecryptBytes(body, of) =
         [ok |-> pieces # {} /\ \A j \in pieces : PieceOpens(body, of, j),
          plain |-> [k \in 1 .. total - Cardinality(pieces) * Tag |->
                       body[k + ((k - 1) \div chunk) * Tag].plain]]
  BY DEF DecryptBytes
<1> HIDE DEF pieces
<1>13. DecryptBytes(body, of).plain =
         [k \in 1 .. length[of] |-> body[k + ((k - 1) \div chunk) * Tag].plain]
  BY <1>10, <1>12
<1>14. DecryptBytes(body, of).plain = [k \in 1 .. length[of] |-> <<of, k>>]
  BY <1>11, <1>13
<1>15. DecryptBytes(body, of).ok
  <2> DEFINE ok == pieces # {} /\ \A j \in pieces : PieceOpens(body, of, j)
  <2>1. ok = TRUE
    BY <1>8
  <2> HIDE DEF ok
  <2>2. DecryptBytes(body, of).ok = ok
    BY <1>12 DEF ok
  <2> QED
    BY <2>1, <2>2
<1> QED
  BY <1>4, <1>14, <1>15

\* One piece that does not open, and decrypt_bytes gives nothing.
LEMMA OnePieceClosed ==
  ASSUME NEW body \in Seq(Bytes), NEW of, NEW i \in Nat, stored.chunk \in Nat,
         i * (stored.chunk + Tag) < Len(body) \/ body = <<>>, ~ PieceOpens(body, of, i)
  PROVE  ~ DecryptBytes(body, of).ok
<1> DEFINE sealed == stored.chunk + Tag
           pieces == {j \in 0 .. Len(body) : j * sealed < Len(body)}
<1>1. DecryptBytes(body, of).ok <=> pieces # {} /\ \A j \in pieces : PieceOpens(body, of, j)
  BY DEF DecryptBytes
<1>2. Len(body) \in Nat /\ sealed \in Nat \ {0}
  BY StreamAssumption
<1>3. CASE body = <<>>
  <2>1. Len(body) = 0
    BY <1>3
  <2>2. \A j \in 0 .. Len(body) : ~ (j * sealed < Len(body))
    BY <1>2, <2>1
  <2> QED
    BY <1>1, <2>2
<1>4. CASE i * sealed < Len(body)
  <2>1. i * 1 <= i * sealed
    BY <1>2
  <2>2. i \in 0 .. Len(body)
    BY <1>2, <1>4, <2>1
  <2> QED
    BY <1>1, <1>4, <2>2
<1> QED
  BY <1>3, <1>4

\* Before anything is sealed, encrypt_bytes would have made nothing.
LEMMA AgreeStarts == StreamInit => AgreeInv
<1> SUFFICES ASSUME StreamInit PROVE AgreeInv
  OBVIOUS
<1>1. PICK s \in Streams : work = At("encrypt", s, 0, 0)
  BY DEF StreamInit
<1>2. work.at = "encrypt" /\ work.of = s /\ work.index = 0
  BY <1>1 DEF At
<1>3. stored.chunk = ChunkSize /\ stored.body = <<>> /\ damages = 0
  BY DEF StreamInit
<1>4. SoFar(stored.body, work.of, work.index)
  <2>1. 0 * (ChunkSize + Tag) = 0 /\ Len(<<>>) = 0
    BY StreamAssumption
  <2> QED
    BY <1>2, <1>3, <2>1 DEF SoFar
<1> QED
  BY <1>2, <1>3, <1>4, StreamAssumption DEF AgreeInv

\* Sealing the last chunk completes what encrypt_bytes makes; the others continue it.
LEMMA SealingAgrees ==
  ASSUME StreamInv, AgreeInv, EncryptNext
  PROVE  AgreeInv'
<1> DEFINE s == work.of
           i == work.index
           n == Holds(s, i)
           final == Ends(s, i)
           chunk == EncryptChunk(s, i, final, n)
           body == stored.body
<1>1. /\ StreamTyped /\ s \in Streams /\ i \in Nat /\ i * ChunkSize <= length[s]
      /\ length[s] \in Nat /\ body \in Seq(Bytes)
      /\ work.at = "encrypt" /\ damages = 0 /\ SoFar(body, s, i)
      /\ i > 0 => i * ChunkSize < length[s]
  BY DEF EncryptNext, StreamInv, StreamTyped, AgreeInv
<1>2. /\ stored' = [stored EXCEPT !.body = @ \o chunk]
      /\ work' = IF final THEN At("stored", s, 0, 0) ELSE [work EXCEPT !.index = @ + 1]
      /\ UNCHANGED <<length, damages>>
  BY DEF EncryptNext, Holds, Ends
<1>3. /\ Len(body \o chunk) = i * (ChunkSize + Tag) + n + Tag
      /\ \A k \in 1 .. Len(body \o chunk) : (body \o chunk)[k] = ByteAt(s, k)
  BY <1>1, ChunkAppended
<1>4. /\ n \in Nat /\ n <= ChunkSize /\ i * ChunkSize \in Nat
      /\ ChunkSize \in Nat \ {0} /\ Tag \in Nat \ {0}
      /\ (i + 1) * ChunkSize = i * ChunkSize + ChunkSize
      /\ ~ final => n = ChunkSize /\ (i + 1) * ChunkSize < length[s]
  BY <1>1, ChunkWithin, Products, StreamAssumption
<1>5. stored'.body = body \o chunk /\ stored'.chunk = stored.chunk /\ stored.chunk \in SizesRead
  BY <1>1, <1>2 DEF StreamTyped, AgreeInv
<1>6. CASE final
  <2>1. i * ChunkSize + n = length[s]
    BY <1>6 DEF Ends
  <2>2. Chunks(length[s]) = i + 1
    <3> DEFINE len == length[s]
    <3> HIDE DEF n, len
    <3>1. len \in Nat /\ len <= (i + 1) * ChunkSize /\ (i > 0 => i * ChunkSize < len)
      BY <1>1, <1>4, <2>1 DEF len
    <3> HIDE DEF i
    <3> QED
      BY <1>1, <3>1, ChunksIs DEF len
  <2>3. Len(body \o chunk) = length[s] + Chunks(length[s]) * Tag
    <3> DEFINE len == length[s]
               c == Chunks(len)
    <3>1. c * Tag = i * Tag + Tag /\ i * Tag \in Nat
      BY <1>1, <1>4, <2>2, Products
    <3>2. i * (ChunkSize + Tag) = i * ChunkSize + i * Tag
      BY <1>1, <1>4
    <3>3. len = i * ChunkSize + n
      BY <2>1
    <3> HIDE DEF len, c, n, chunk, body, i
    <3> QED
      <4>1. Len(body \o chunk) = len + c * Tag
        BY <1>3, <1>4, <3>1, <3>2, <3>3
      <4> QED
        BY <4>1 DEF len, c
  <2>4. /\ Body(s) \in Seq(Bytes) /\ Len(Body(s)) = length[s] + Chunks(length[s]) * Tag
        /\ \A k \in 1 .. Len(Body(s)) : Body(s)[k] = ByteAt(s, k)
    BY <1>1, BodyBytes
  <2>5. body \o chunk = Body(s)
    <3>1. chunk \in Seq(Bytes)
      <4>1. n + Tag \in Nat
        BY <1>4
      <4> QED
        BY <1>1, <4>1, ChunkBytes
    <3> DEFINE a == body \o chunk
               b == Body(s)
    <3>2. a \in Seq(Bytes)
      BY <1>1, <3>1
    <3>3. b \in Seq(Bytes) /\ Len(a) = Len(b) /\ \A k \in 1 .. Len(a) : a[k] = b[k]
      BY <1>3, <2>3, <2>4
    <3> HIDE DEF a, b
    <3>4. a = b
      BY <3>2, <3>3, SeqEqual
    <3> QED
      BY <3>4 DEF a, b
  <2>6. work'.at = "stored" /\ work'.of = s /\ Body(s)' = Body(s)
    BY <1>2, <1>6 DEF At, Body
  <2>7. damages' = 0
    BY <1>1, <1>2
  <2> QED
    BY <1>1, <1>5, <2>5, <2>6, <2>7 DEF AgreeInv
<1>7. CASE ~ final
  <2>1. work'.at = "encrypt" /\ work'.of = s /\ work'.index = i + 1
    BY <1>1, <1>2, <1>7 DEF StreamTyped
  <2>2. (i + 1) * ChunkSize < length'[s]
    BY <1>2, <1>4, <1>7
  <2>3. Len(body \o chunk) = (i + 1) * (ChunkSize + Tag)
    <3>1. (i + 1) * (ChunkSize + Tag) = i * (ChunkSize + Tag) + (ChunkSize + Tag)
      BY <1>1, <1>4, Products
    <3>2. n = ChunkSize
      BY <1>4, <1>7
    <3>3. i * (ChunkSize + Tag) \in Nat
      <4>1. ChunkSize + Tag \in Nat
        BY <1>4
      <4> QED
        BY <1>1, <4>1, Products
    <3> HIDE DEF n, chunk, body, i
    <3> QED
      BY <1>3, <1>4, <3>1, <3>2, <3>3
  <2>4. SoFar(stored.body, work.of, work.index)'
    <3>1. \A t, k : ByteAt(t, k)' = ByteAt(t, k)
      BY <1>2 DEF ByteAt, Byte, Ends, Holds
    <3> HIDE DEF chunk, n
    <3>2. /\ Len(stored'.body) = work'.index * (ChunkSize + Tag)
          /\ \A k \in 1 .. Len(stored'.body) : stored'.body[k] = ByteAt(work'.of, k)
      BY <1>3, <1>5, <2>1, <2>3
    <3>3. \A k : ByteAt(work'.of, k) = ByteAt(work.of, k)'
      BY <3>1
    <3> QED
      BY <3>2, <3>3 DEF SoFar
  <2> QED
    BY <1>1, <1>2, <1>5, <2>1, <2>2, <2>4 DEF AgreeInv
<1> QED
  BY <1>6, <1>7

\* A reader that fails leaves a stream none of whose bytes says it is the last.
LEMMA FailingAgrees ==
  ASSUME StreamInv, AgreeInv, EncryptFails
  PROVE  AgreeInv'
<1> DEFINE s == work.of
           i == work.index
           sealed == ChunkSize + Tag
<1>1. /\ StreamTyped /\ s \in Streams /\ i \in Nat
      /\ work.at = "encrypt" /\ damages = 0 /\ SoFar(stored.body, s, i)
      /\ i > 0 => i * ChunkSize < length[s]
      /\ sealed \in Nat \ {0}
  BY StreamAssumption DEF EncryptFails, StreamInv, StreamTyped, AgreeInv
<1>2. work' = At("stored", s, 0, 0) /\ UNCHANGED <<length, stored, damages>>
  BY DEF EncryptFails
<1>3. ASSUME NEW k \in 1 .. Len(stored.body) PROVE ~ stored.body[k].aad[3]
  <2> DEFINE j == (k - 1) \div sealed
  <2>1. Len(stored.body) = i * sealed /\ stored.body[k] = ByteAt(s, k) /\ i * sealed \in Nat
    BY <1>1, Products DEF SoFar
  <2>2. k - 1 \in Nat /\ k - 1 < i * sealed
    BY <2>1
  <2>3. j \in Nat /\ j * sealed <= k - 1 /\ j * sealed \in Nat
    <3> HIDE DEF sealed
    <3> QED
      BY <1>1, <2>2, Quotient, Products
  <2> HIDE DEF j, sealed
  <2>4. j < i
    <3> SUFFICES ASSUME i <= j PROVE FALSE
      BY <1>1, <2>3
    <3>1. i * sealed <= j * sealed
      BY <1>1, <2>3, Larger
    <3> QED
      BY <2>1, <2>2, <2>3, <3>1
  <2>5. ~ Ends(s, j)
    <3>1. i * ChunkSize < length[s]
      BY <1>1, <2>3, <2>4
    <3> QED
      BY <1>1, <2>3, <2>4, <3>1, EarlierChunks
  <2> QED
    BY <2>1, <2>5 DEF ByteAt, Byte, BuildChunkAad, j, sealed
<1>4. work'.at = "stored" /\ work'.of = s
  BY <1>2 DEF At
<1> QED
  BY <1>1, <1>2, <1>3, <1>4 DEF AgreeInv

\* The decryptor opens the next piece, or finds that it does not open.
LEMMA OpeningAgrees ==
  ASSUME StreamInv, StreamInv', AgreeInv, DecryptNext
  PROVE  AgreeInv'
<1> DEFINE s == work.of
           i == work.index
           body == stored.body
           sealed == stored.chunk + Tag
           end == IF work.off + stored.chunk + Tag < Len(body)
                  THEN work.off + stored.chunk + Tag ELSE Len(body)
           piece == SubSeq(body, work.off + 1, end)
<1>1. /\ StreamTyped /\ work.at = "decrypt" /\ UNCHANGED <<length, stored, damages>>
      /\ s \in Files \X Bases /\ i \in Nat /\ work.off \in Nat
      /\ body \in Seq(Bytes) /\ Len(body) \in Nat
      /\ stored.chunk \in Nat \ {0} /\ Tag \in Nat \ {0} /\ ChunkSize \in Nat \ {0}
      /\ stored.chunk >= MinChunkSize /\ stored.chunk \in SizesRead
      /\ work.off <= Len(body)
      /\ i > 0 => s \in Streams /\ i * ChunkSize <= length[s]
  <2>1. work.at = "decrypt" /\ UNCHANGED <<length, stored, damages>> /\ StreamTyped
    BY DEF DecryptNext, StreamInv
  <2>2. /\ s \in Files \X Bases /\ i \in Nat /\ work.off \in Nat
        /\ body \in Seq(Bytes) /\ stored.chunk \in Nat
    BY <2>1 DEF StreamTyped
  <2>3. /\ work.off <= Len(body)
        /\ i > 0 => s \in Streams /\ i * ChunkSize <= length[s]
    BY <2>1 DEF StreamInv
  <2>4. stored.chunk >= MinChunkSize /\ stored.chunk \in SizesRead
    BY <2>1 DEF AgreeInv
  <2>5. /\ stored.chunk # 0 /\ Tag \in Nat \ {0} /\ ChunkSize \in Nat \ {0}
    BY <2>2, <2>4, StreamAssumption
  <2> QED
    BY <2>1, <2>2, <2>3, <2>4, <2>5
<1>2. /\ work.off = i * sealed
      /\ i > 0 => work.off < Len(body) /\ stored.chunk = ChunkSize
      /\ \A j \in Nat : j < i => PieceOpens(body, s, j)
  BY <1>1 DEF AgreeInv
<1>3. /\ i * sealed <= Len(body) /\ i * sealed \in Nat
      /\ (i + 1) * sealed = i * sealed + stored.chunk + Tag
      /\ PieceEnd(body, i) \in Nat /\ PieceEnd(body, i) <= Len(body)
      /\ PieceEnd(body, i) # Len(body) => PieceEnd(body, i) = i * sealed + stored.chunk + Tag
      /\ Piece(body, i) \in Seq(Bytes) /\ Len(Piece(body, i)) = PieceEnd(body, i) - i * sealed
  <2>1. i * sealed <= Len(body)
    BY <1>1, <1>2
  <2>2. stored.chunk \in Nat /\ body \in Seq(Bytes) /\ i \in Nat
    BY <1>1
  <2> QED
    BY <2>1, <2>2, PieceFacts
<1>4. end = PieceEnd(body, i) /\ piece = Piece(body, i)
  <2>1. work.off + stored.chunk + Tag = (i + 1) * sealed
    BY <1>2, <1>3
  <2>2. end = PieceEnd(body, i)
    BY <2>1 DEF PieceEnd
  <2> HIDE DEF end
  <2> QED
    BY <1>2, <2>2 DEF Piece
<1>5. CASE ~ PieceOpens(body, s, i)
  <2>1. ~ (Len(piece) >= Tag /\ Authentic(piece, s[1], s[2], i, end = Len(body)))
    <3> HIDE DEF piece, end
    <3> QED
      BY <1>4, <1>5 DEF PieceOpens
  <2>2. work' = [work EXCEPT !.at = "failed"]
    BY <2>1 DEF DecryptNext
  <2>3. work'.at = "failed" /\ work'.of = s
    BY <1>1, <2>2 DEF StreamTyped
  <2>4. i * sealed < Len(body) \/ body = <<>>
    <3>1. CASE i > 0
      BY <1>2, <3>1
    <3>2. CASE i = 0
      <4>1. i * sealed = 0
        BY <1>1, <3>2
      <4> QED
        BY <1>1, <4>1, EmptySeq
    <3> QED
      BY <1>1, <3>1, <3>2
  <2>5. ~ DecryptBytes(body, s).ok
    BY <1>1, <1>5, <2>4, OnePieceClosed
  <2>6. DecryptBytes(stored.body, work.of).ok' = DecryptBytes(body, s).ok
    BY <1>1, <2>3 DEF DecryptBytes, PieceOpens, PieceEnd, Piece
  <2> QED
    BY <1>1, <2>3, <2>5, <2>6 DEF AgreeInv
<1>6. CASE PieceOpens(body, s, i)
  <2>1. Len(piece) >= Tag /\ Authentic(piece, s[1], s[2], i, end = Len(body))
    <3> HIDE DEF piece, end
    <3> QED
      BY <1>4, <1>6 DEF PieceOpens
  <2>2. work' = IF end = Len(body) THEN [work EXCEPT !.at = "ok"]
                ELSE [work EXCEPT !.index = @ + 1, !.off = end]
    BY <2>1 DEF DecryptNext
  <2>3. \A j \in Nat : j <= i => PieceOpens(body, s, j)
    BY <1>1, <1>2, <1>6
  <2> HIDE DEF piece, end
  <2>4. CASE end = Len(body)
    <3>1. work'.at = "ok" /\ work'.of = s
      BY <1>1, <2>2, <2>4 DEF StreamTyped
    <3>2. /\ s \in Streams /\ DecryptBytes(body, s).ok
          /\ DecryptBytes(body, s).plain = [k \in 1 .. length[s] |-> <<s, k>>]
      BY <1>1, <1>2, <1>3, <1>4, <2>3, <2>4, AllPieces
    <3>3. output' = [k \in 1 .. length[s] |-> <<s, k>>]
      <4>1. /\ output' \in Seq(PlainBytes') /\ Len(output') = length[s] /\ length[s] \in Nat
            /\ \A k \in 1 .. Len(output') : output'[k] = <<s, k>>
        BY <1>1, <3>1, <3>2 DEF StreamInv, StreamTyped
      <4>2. output' = [k \in 1 .. Len(output') |-> output'[k]]
        BY <4>1
      <4> QED
        BY <4>1, <4>2
    <3>4. DecryptBytes(stored.body, work.of)' = DecryptBytes(body, s)
      BY <1>1, <3>1 DEF DecryptBytes, PieceOpens, PieceEnd, Piece
    <3> QED
      BY <1>1, <3>1, <3>2, <3>3, <3>4 DEF AgreeInv
  <2>5. CASE end # Len(body)
    <3>1. work'.at = "decrypt" /\ work'.of = s /\ work'.index = i + 1 /\ work'.off = end
      BY <1>1, <2>2, <2>5 DEF StreamTyped
    <3>2. end = (i + 1) * sealed /\ end < Len(body)
      BY <1>1, <1>3, <1>4, <2>5
    <3>3. stored.chunk = ChunkSize
      <4>1. /\ s \in Streams /\ ~ Ends(s, i) /\ Len(Piece(body, i)) = Holds(s, i) + Tag
        <5>1. Authentic(Piece(body, i), s[1], s[2], i, FALSE) /\ Len(Piece(body, i)) >= Tag
          <6>1. (PieceEnd(body, i) = Len(body)) = FALSE
            BY <1>4, <2>5
          <6> QED
            BY <1>6, <6>1 DEF PieceOpens
        <5> HIDE DEF s, i, body
        <5> QED
          BY <1>1, <1>3, <5>1, AuthenticPiece
      <4>2. CASE i = 0
        <5>1. 0 * ChunkSize <= length[s]
          BY <1>1, <4>1 DEF StreamTyped
        <5>2. Holds(s, i) = ChunkSize
          BY <1>1, <4>1, <4>2, <5>1, ChunkWithin
        <5>3. PieceEnd(body, i) = i * sealed + stored.chunk + Tag
          BY <1>3, <1>4, <2>5
        <5> DEFINE off == i * sealed
                   c == stored.chunk
                   l == Len(Piece(body, i))
        <5>4. off \in Nat /\ c \in Nat
          BY <1>1, <1>3
        <5>5. l = ChunkSize + Tag
          BY <4>1, <5>2
        <5>6. l = PieceEnd(body, i) - off
          BY <1>3
        <5>7. PieceEnd(body, i) = off + c + Tag
          BY <5>3
        <5> HIDE DEF off, c, l
        <5>8. c = ChunkSize
          BY <1>1, <5>4, <5>5, <5>6, <5>7
        <5> QED
          BY <5>8 DEF c
      <4>3. CASE i > 0
        BY <1>2, <4>3
      <4> QED
        BY <1>1, <4>2, <4>3
    <3>4. \A j \in Nat : j < i + 1 => PieceOpens(body, s, j)
      BY <1>1, <2>3
    <3>5. \A j \in Nat : j < work'.index => PieceOpens(stored.body, work.of, j)'
      <4>1. \A j : PieceOpens(stored.body, work.of, j)' = PieceOpens(body, s, j)
        BY <1>1, <3>1 DEF PieceOpens, PieceEnd, Piece
      <4> QED
        BY <3>1, <3>4, <4>1
    <3> QED
      BY <1>1, <3>1, <3>2, <3>3, <3>5 DEF AgreeInv
  <2> QED
    BY <2>4, <2>5
<1> QED
  BY <1>5, <1>6

\* The steps between.
LEMMA AgreeStep == StreamInv /\ StreamInv' /\ AgreeInv /\ [StreamNext]_streamvars => AgreeInv'
<1> SUFFICES ASSUME StreamInv, StreamInv', AgreeInv, [StreamNext]_streamvars PROVE AgreeInv'
  OBVIOUS
<1>1. CASE EncryptNext
  BY <1>1, SealingAgrees
<1>2. CASE EncryptFails
  BY <1>2, FailingAgrees
<1>3. CASE Damage
  <2>1. work.at = "stored" /\ UNCHANGED work /\ damages' = damages + 1
    BY <1>3 DEF Damage
  <2>2. stored'.chunk \in SizesRead
    <3>1. stored \in [nonce : Bases, chunk : Nat, body : Seq(Bytes)] /\ stored.chunk \in SizesRead
      BY DEF StreamInv, StreamTyped, AgreeInv
    <3> QED
      BY <1>3, <3>1 DEF Damage
  <2>3. damages' \in Nat /\ damages' # 0
    BY <2>1 DEF AgreeInv
  <2> QED
    BY <2>1, <2>2, <2>3 DEF AgreeInv
<1>4. ASSUME NEW file \in Files, DecryptStream(file) PROVE AgreeInv'
  <2> DEFINE legal == stored.chunk \in SizesRead /\ stored.chunk >= MinChunkSize
  <2>1. /\ UNCHANGED <<length, stored, damages>>
        /\ work' = [At(IF legal THEN "decrypt" ELSE "failed", work.of, 0, 0)
                     EXCEPT !.of = <<file, stored.nonce>>]
    BY <1>4 DEF DecryptStream
  <2>2. /\ work'.at = IF legal THEN "decrypt" ELSE "failed"
        /\ work'.index = 0 /\ work'.off = 0
    BY <2>1 DEF At
  <2>3. stored.chunk \in SizesRead /\ stored.chunk \in Nat
    BY DEF AgreeInv, StreamInv, StreamTyped
  <2>4. 0 * (stored.chunk + Tag) = 0
    BY <2>3, StreamAssumption
  <2> QED
    BY <2>1, <2>2, <2>3, <2>4 DEF AgreeInv
<1>5. CASE DecryptNext
  BY <1>5, OpeningAgrees
<1>6. CASE UNCHANGED streamvars
  <2>1. UNCHANGED <<length, work, stored, output, damages>>
    BY <1>6 DEF streamvars
  <2>2. \A s : Body(s)' = Body(s)
    BY <2>1 DEF Body
  <2>3. \A s, k : ByteAt(s, k)' = ByteAt(s, k)
    BY <2>1 DEF ByteAt, Byte, Ends, Holds
  <2>4. SoFar(stored.body, work.of, work.index)' <=> SoFar(stored.body, work.of, work.index)
    BY <2>1, <2>3 DEF SoFar
  <2>5. \A b, s, j : PieceOpens(b, s, j)' = PieceOpens(b, s, j)
    BY <2>1 DEF PieceOpens, PieceEnd, Piece
  <2>6. \A b, s : DecryptBytes(b, s)' = DecryptBytes(b, s)
    BY <2>1, <2>5 DEF DecryptBytes
  <2>7. Body(work.of)' = Body(work.of)
    BY <2>1, <2>2
  <2>8. \A j : PieceOpens(stored.body, work.of, j)' = PieceOpens(stored.body, work.of, j)
    BY <2>1, <2>5
  <2>9. DecryptBytes(stored.body, work.of)' = DecryptBytes(stored.body, work.of)
    BY <2>1, <2>6
  <2> QED
    BY <2>1, <2>4, <2>7, <2>8, <2>9 DEF AgreeInv
<1> QED
  BY <1>1, <1>2, <1>3, <1>4, <1>5, <1>6 DEF StreamNext

\* encrypt_stream stores what encrypt_bytes returns, of the size that was computed
\* before, and decrypt_stream and decrypt_bytes accept the same bytes, and make the
\* same of them, whatever happened to them; for files and chunks of any length.
THEOREM StreamsAreBytes == StreamSpec => []BytesAndStreamsAgree
<1>1. StreamInv /\ AgreeInv => BytesAndStreamsAgree
  <2> SUFFICES ASSUME StreamInv, AgreeInv PROVE BytesAndStreamsAgree
    OBVIOUS
  <2>1. ASSUME work.at = "stored", damages = 0, Len(stored.body) > 0,
               stored.body[Len(stored.body)].aad[3]
        PROVE  /\ stored.body = Body(work.of)
               /\ Len(stored.body) = CalculateEncryptedSize(length[work.of])
               /\ CalculateMaxPlaintextSize(Len(stored.body)) = length[work.of]
    <3> DEFINE n == length[work.of]
    <3>1. /\ StreamTyped /\ work.of \in Streams /\ n \in Nat
          /\ Len(stored.body) \in 1 .. Len(stored.body)
      BY <2>1 DEF StreamInv, StreamTyped, AgreeInv
    <3>2. stored.body = Body(work.of)
      BY <2>1, <3>1 DEF AgreeInv
    <3>3. Len(Body(work.of)) = n + Chunks(n) * Tag
      BY <3>1, BodyBytes
    <3> HIDE DEF n
    <3>4. Len(stored.body) = CalculateEncryptedSize(n)
      BY <3>2, <3>3 DEF CalculateEncryptedSize
    <3>5. CalculateMaxPlaintextSize(Len(stored.body)) = n
      BY <3>1, <3>2, <3>3, SizesAgree
    <3> QED
      BY <3>2, <3>4, <3>5 DEF n
  <2> QED
    BY <2>1 DEF BytesAndStreamsAgree, AgreeInv
<1> QED
  BY <1>1, InitStream, StreamStep, AgreeStarts, AgreeStep, PTL DEF StreamSpec

-----------------------------------------------------------------------------
(***************************************************************************)
(* The cache of chunks.  It holds the bytes of its chunks, and whoever     *)
(* fills it with a file inserts that file's chunks in order, alone.        *)
(***************************************************************************)
KnownChunks == {c \in [file : CachedFiles, index : Nat] : c.index \in DOMAIN Content[c.file]}

Reads ==
  {NoRead} \cup [at : {"decrypt", "fill"}, file : CachedFiles]
    \cup {r \in [at : {"insert"}, file : CachedFiles, next : Nat] :
            r.next \in DOMAIN Content[r.file]}

\* A cache that accounts for its chunks, and has room for so many bytes more.
Accounts(cache, n) ==
  /\ cache.chunks \subseteq KnownChunks
  /\ IsFiniteSet(BytesIn(cache.chunks))
  /\ cache.size = SumOfSizes(cache.chunks)
  /\ cache.size + n <= MaxCacheSize

CacheInv ==
  /\ Accounts(Cache, 0)
  /\ reading \in [Readers -> Reads]
  /\ \A r, q \in Readers : reading[r].at = "insert" /\ reading[q].at = "insert" => r = q
  /\ \A r \in Readers : reading[r].at = "insert" =>
       \A c \in chunks : c.file = reading[r].file => c.index < reading[r].next

\* The bytes of a set of chunks are those of a part of it and of the rest.
LEMMA BytesSplit ==
  ASSUME NEW S, NEW G, IsFiniteSet(BytesIn(S))
  PROVE  /\ IsFiniteSet(BytesIn(S \ G))
         /\ Minus(SumOfSizes(S), SumOfSizes(S \cap G)) = SumOfSizes(S \ G)
         /\ SumOfSizes(S \ G) \in Nat /\ SumOfSizes(S) \in Nat
         /\ SumOfSizes(S \ G) <= SumOfSizes(S)
<1> DEFINE A == BytesIn(S \ G)
           B == BytesIn(S \cap G)
           C == BytesIn(S)
<1>1. A \cup B = C /\ A \cap B = {}
  BY DEF BytesIn
<1>2. A \subseteq C /\ B \subseteq C
  BY <1>1
<1> HIDE DEF A, B
<1>3. IsFiniteSet(A) /\ IsFiniteSet(B)
  BY <1>2, FS_Subset
<1>4. Cardinality(C) = Cardinality(A) + Cardinality(B) - Cardinality(A \cap B)
  BY <1>1, <1>3, FS_Union
<1>5. Cardinality(A \cap B) = 0
  BY <1>1, FS_EmptySet
<1>6. Cardinality(A) \in Nat /\ Cardinality(B) \in Nat
  BY <1>3, FS_CardinalityType
<1> HIDE DEF C
<1>7. /\ Minus(Cardinality(C), Cardinality(B)) = Cardinality(A)
      /\ Cardinality(C) \in Nat /\ Cardinality(A) <= Cardinality(C)
  BY <1>4, <1>5, <1>6 DEF Minus
<1> QED
  BY <1>3, <1>6, <1>7 DEF A, B, C, SumOfSizes

\* What is taken out of a cache is taken off its total.
LEMMA WithoutAccounts ==
  ASSUME NEW cache, NEW gone, NEW n \in Nat, Accounts(cache, n)
  PROVE  /\ Accounts(Without(cache, gone), n)
         /\ Without(cache, gone).chunks = cache.chunks \ gone
<1> DEFINE S == cache.chunks
<1>1. /\ Without(cache, gone).chunks = S \ gone
      /\ Without(cache, gone).size = Minus(cache.size, SumOfSizes(S \cap gone))
  BY DEF Without
<1>2. /\ IsFiniteSet(BytesIn(S \ gone))
      /\ Minus(SumOfSizes(S), SumOfSizes(S \cap gone)) = SumOfSizes(S \ gone)
      /\ SumOfSizes(S \ gone) \in Nat /\ SumOfSizes(S) \in Nat
      /\ SumOfSizes(S \ gone) <= SumOfSizes(S)
  BY BytesSplit DEF Accounts
<1> QED
  BY <1>1, <1>2, CacheAssumption DEF Accounts

\* A chunk has as many bytes as its size.
LEMMA BytesOfOne ==
  ASSUME NEW c \in KnownChunks
  PROVE  /\ SizeOf(c) \in 1 .. MaxCacheSize
         /\ IsFiniteSet({c} \X (1 .. SizeOf(c)))
         /\ Cardinality({c} \X (1 .. SizeOf(c))) = SizeOf(c)
<1>1. SizeOf(c) \in 1 .. MaxCacheSize
  <2>1. Content[c.file] \in Seq(1 .. MaxCacheSize) /\ c.index \in DOMAIN Content[c.file]
    BY CacheAssumption DEF KnownChunks
  <2> DEFINE x == Content[c.file]
  <2> HIDE DEF x
  <2>2. x \in Seq(1 .. MaxCacheSize) /\ c.index \in DOMAIN x
    BY <2>1 DEF x
  <2>3. x[c.index] \in 1 .. MaxCacheSize
    <3> DEFINE T == 1 .. MaxCacheSize
    <3> HIDE DEF T
    <3>1. x \in Seq(T) /\ c.index \in 1 .. Len(x)
      BY <2>2 DEF T
    <3>2. x[c.index] \in T
      BY <3>1, ElementOfSeq
    <3> QED
      BY <3>2 DEF T
  <2> QED
    BY <2>3 DEF SizeOf, x
<1> DEFINE n == SizeOf(c)
<1>2. n \in Nat /\ n >= 1
  BY <1>1, CacheAssumption
<1> HIDE DEF n
<1>3. IsFiniteSet(1 .. n) /\ Cardinality(1 .. n) = n
  <2>1. IsFiniteSet(1 .. n) /\ Cardinality(1 .. n) = IF 1 > n THEN 0 ELSE n - 1 + 1
    BY <1>2, FS_Interval
  <2> QED
    BY <1>2, <2>1
<1>4. IsFiniteSet({c}) /\ Cardinality({c}) = 1
  BY FS_Singleton
<1>5. IsFiniteSet({c} \X (1 .. n)) /\ Cardinality({c} \X (1 .. n)) = Cardinality({c}) * Cardinality(1 .. n)
  BY <1>3, <1>4, FS_Product
<1> QED
  BY <1>1, <1>2, <1>3, <1>4, <1>5 DEF n

\* A new chunk adds its size, and there was room for it.
LEMMA InsertAccounts ==
  ASSUME NEW cache, NEW c \in KnownChunks, Accounts(cache, SizeOf(c)), c \notin cache.chunks
  PROVE  /\ Accounts(Insert(cache, c), 0)
         /\ Insert(cache, c).chunks \subseteq cache.chunks \cup {c}
<1> DEFINE room == LimitFile(DropExpired(cache, c.file), c.file)
           n == SizeOf(c)
<1>1. n \in Nat /\ IsFiniteSet({c} \X (1 .. n)) /\ Cardinality({c} \X (1 .. n)) = n
  <2>1. n \in 1 .. MaxCacheSize
    BY BytesOfOne
  <2> QED
    BY <2>1, BytesOfOne, CacheAssumption
<1>2. Accounts(room, n) /\ room.chunks \subseteq cache.chunks
  <2> HIDE DEF n
  <2>1. /\ Accounts(DropExpired(cache, c.file), n)
        /\ DropExpired(cache, c.file).chunks \subseteq cache.chunks
    BY <1>1, WithoutAccounts DEF DropExpired, n
  <2> DEFINE d == DropExpired(cache, c.file)
  <2> HIDE DEF d
  <2>2. Accounts(LimitFile(d, c.file), n) /\ LimitFile(d, c.file).chunks \subseteq d.chunks
    BY <1>1, <2>1, WithoutAccounts DEF LimitFile, d
  <2> QED
    BY <2>1, <2>2 DEF d
<1>3. /\ Insert(cache, c).chunks = room.chunks \cup {c}
      /\ Insert(cache, c).size = room.size + n
  <2>1. /\ room.chunks = room.chunks /\ {"chunks", "size", "before"} \subseteq DOMAIN room
    BY DEF LimitFile, Without
  <2> QED
    BY <2>1 DEF Insert
<1> HIDE DEF room
<1>4. BytesIn(room.chunks \cup {c}) = BytesIn(room.chunks) \cup ({c} \X (1 .. n))
  BY DEF BytesIn
<1>5. BytesIn(room.chunks) \cap ({c} \X (1 .. n)) = {}
  BY <1>2 DEF BytesIn
<1> DEFINE A == BytesIn(room.chunks)
           B == {c} \X (1 .. n)
<1>6. IsFiniteSet(A) /\ room.size = Cardinality(A) /\ Cardinality(A) \in Nat
      /\ Cardinality(A) + n <= MaxCacheSize
  <2>1. IsFiniteSet(A) /\ room.size = Cardinality(A) /\ room.size + n <= MaxCacheSize
    BY <1>2 DEF Accounts, SumOfSizes
  <2> QED
    BY <2>1, FS_CardinalityType
<1> HIDE DEF A, B, n
<1>7. IsFiniteSet(A \cup B) /\ Cardinality(A \cup B) = Cardinality(A) + n
  <2>1. A \cap B = {} /\ IsFiniteSet(B) /\ Cardinality(B) = n
    BY <1>1, <1>5 DEF A, B
  <2>2. IsFiniteSet(A \cup B) /\ Cardinality(A \cup B) = Cardinality(A) + Cardinality(B) - Cardinality(A \cap B)
    BY <1>6, <2>1, FS_Union
  <2>3. Cardinality(A \cap B) = 0
    BY <2>1, FS_EmptySet
  <2> QED
    BY <1>1, <1>6, <2>1, <2>2, <2>3
<1>8. room.chunks \cup {c} \subseteq KnownChunks
  BY <1>2 DEF Accounts
<1> QED
  <2>1. BytesIn(Insert(cache, c).chunks) = A \cup B
    BY <1>3, <1>4 DEF A, B
  <2>2. Insert(cache, c).size = SumOfSizes(Insert(cache, c).chunks)
    BY <1>3, <1>6, <1>7, <2>1 DEF SumOfSizes
  <2>3. Insert(cache, c).size + 0 <= MaxCacheSize
    BY <1>1, <1>3, <1>6
  <2> QED
    BY <1>2, <1>3, <1>7, <1>8, <2>1, <2>2, <2>3 DEF Accounts

\* An empty cache counts nothing.
LEMMA CacheStarts == CacheInit => CacheInv
<1> SUFFICES ASSUME CacheInit PROVE CacheInv
  OBVIOUS
<1>1. BytesIn(chunks) = {}
  BY DEF CacheInit, BytesIn
<1>2. Accounts(Cache, 0)
  <2>1. IsFiniteSet(BytesIn(chunks)) /\ SumOfSizes(chunks) = 0
    BY <1>1, FS_EmptySet DEF SumOfSizes
  <2>2. chunks = {} /\ total_size = 0 /\ total_size + 0 <= MaxCacheSize
    BY CacheAssumption DEF CacheInit
  <2> QED
    BY <2>1, <2>2 DEF Cache, Accounts
<1>3. \A r \in Readers : reading[r] = NoRead
  BY DEF CacheInit
<1>4. reading \in [Readers -> Reads]
  BY DEF CacheInit, Reads
<1> QED
  BY <1>2, <1>3, <1>4 DEF CacheInv, NoRead

\* A step that only takes chunks out, and moves one read that does not insert.
LEMMA TakenOut ==
  ASSUME CacheInv, Accounts(Cache, 0)', chunks' \subseteq chunks,
         NEW r \in Readers, NEW x \in Reads, reading' = [reading EXCEPT ![r] = x],
         x.at = "insert" => /\ CacheFree
                            /\ \A c \in chunks' : c.file # x.file
  PROVE  CacheInv'
<1>1. reading \in [Readers -> Reads] /\ reading' \in [Readers -> Reads]
  BY DEF CacheInv
<1>2. \A q \in Readers : reading'[q] = IF q = r THEN x ELSE reading[q]
  BY <1>1
<1>3. \A p, q \in Readers : reading'[p].at = "insert" /\ reading'[q].at = "insert" => p = q
  <2> SUFFICES ASSUME NEW p \in Readers, NEW q \in Readers, p # q,
                      reading'[p].at = "insert", reading'[q].at = "insert"
               PROVE  FALSE
    OBVIOUS
  <2>1. CASE p = r \/ q = r
    BY <1>2, <2>1 DEF CacheFree
  <2>2. CASE p # r /\ q # r
    BY <1>2, <2>2 DEF CacheInv
  <2> QED
    BY <2>1, <2>2
<1>4. ASSUME NEW q \in Readers, reading'[q].at = "insert", NEW c \in chunks', c.file = reading'[q].file
      PROVE  c.index < reading'[q].next
  <2>1. q # r
    BY <1>2, <1>4
  <2> QED
    BY <1>2, <1>4, <2>1 DEF CacheInv
<1>5. KnownChunks' = KnownChunks /\ Reads' = Reads
  BY DEF KnownChunks, Reads, NoRead
<1> QED
  BY <1>1, <1>3, <1>4, <1>5 DEF CacheInv

\* The same when no read moves.
LEMMA TakenOutOnly ==
  ASSUME CacheInv, Accounts(Cache, 0)', chunks' \subseteq chunks, UNCHANGED reading
  PROVE  CacheInv'
BY DEF CacheInv

\* What Become does to the accounts.
LEMMA Becomes ==
  ASSUME NEW cache, Accounts(cache, 0), Become(cache)
  PROVE  Accounts(Cache, 0)' /\ chunks' = cache.chunks
BY DEF Become, Accounts, Cache, SumOfSizes, BytesIn, SizeOf, KnownChunks

\* What the readers do to it keeps the count.
LEMMA CacheStep == CacheInv /\ [CacheNext]_cachevars => CacheInv'
<1> SUFFICES ASSUME CacheInv, [CacheNext]_cachevars PROVE CacheInv'
  OBVIOUS
<1>0. Accounts(Cache, 0) /\ reading \in [Readers -> Reads]
  BY DEF CacheInv
<1>s. UNCHANGED <<chunks, total_size>> => Accounts(Cache, 0)'
  BY <1>0 DEF Accounts, Cache, SumOfSizes, BytesIn, SizeOf, KnownChunks
<1>c. \A f : Accounts(ClearFile(Cache, f), 0)
              /\ ClearFile(Cache, f).chunks = chunks \ {c \in chunks : c.file = f}
  BY <1>0, WithoutAccounts DEF ClearFile, FileChunks, Cache
<1>1. ASSUME NEW r \in Readers, NEW f \in CachedFiles, NEW i, NEW j, ReadFile(r, f, i, j)
      PROVE  CacheInv'
  <2>1. \E x \in {NoRead, [at |-> "decrypt", file |-> f]} : reading' = [reading EXCEPT ![r] = x]
    BY <1>1 DEF ReadFile
  <2>2. PICK x \in {NoRead, [at |-> "decrypt", file |-> f]} : reading' = [reading EXCEPT ![r] = x]
    BY <2>1
  <2>3. x \in Reads /\ x.at # "insert"
    BY <2>2 DEF Reads, NoRead
  <2>4. UNCHANGED <<chunks, total_size>>
    BY <1>1 DEF ReadFile
  <2> QED
    BY <1>s, <2>2, <2>3, <2>4, TakenOut
<1>2. ASSUME NEW r \in Readers, DecryptFileContent(r) PROVE CacheInv'
  <2>1. reading[r].at = "decrypt" /\ UNCHANGED <<chunks, total_size>>
    BY <1>2 DEF DecryptFileContent
  <2>2. PICK x \in {NoRead, [reading[r] EXCEPT !.at = "fill"]} : reading' = [reading EXCEPT ![r] = x]
    BY <1>2 DEF DecryptFileContent
  <2>3. reading[r] \in [at : {"decrypt", "fill"}, file : CachedFiles]
    BY <1>0, <2>1 DEF Reads, NoRead
  <2>4. x \in Reads /\ x.at # "insert"
    BY <2>2, <2>3 DEF Reads, NoRead
  <2> QED
    BY <1>s, <2>1, <2>2, <2>4, TakenOut
<1>3. ASSUME NEW r \in Readers, FillCache(r) PROVE CacheInv'
  <2> DEFINE f == reading[r].file
             x == Inserting(f, 1)
  <2>1. reading[r].at = "fill" /\ CacheFree /\ Become(ClearFile(Cache, f))
        /\ reading' = [reading EXCEPT ![r] = x]
    BY <1>3 DEF FillCache
  <2>2. f \in CachedFiles
    BY <1>0, <2>1 DEF Reads, NoRead
  <2>3. x \in Reads /\ (x.at = "insert" => x.file = f)
    BY <2>2 DEF Reads, NoRead, Inserting
  <2> HIDE DEF f, x
  <2>4. Accounts(Cache, 0)' /\ chunks' = chunks \ {c \in chunks : c.file = f}
    BY <1>c, <2>1, Becomes
  <2> QED
    BY <2>1, <2>3, <2>4, TakenOut
<1>4. ASSUME NEW r \in Readers, EvictOldest(r) PROVE CacheInv'
  <2>1. PICK c \in chunks : Become(Without(Cache, {c}))
    BY <1>4 DEF EvictOldest
  <2>2. Accounts(Without(Cache, {c}), 0) /\ Without(Cache, {c}).chunks = chunks \ {c}
    BY <1>0, WithoutAccounts DEF Cache
  <2> QED
    BY <1>4, <2>1, <2>2, Becomes, TakenOutOnly DEF EvictOldest
<1>5. ASSUME NEW r \in Readers, InsertChunk(r) PROVE CacheInv'
  <2> DEFINE f == reading[r].file
             i == reading[r].next
             c == Chunk(f, i)
             x == Inserting(f, i + 1)
  <2>1. /\ reading[r].at = "insert" /\ (HasRoom(r) \/ chunks = {})
        /\ Become(Insert(Cache, c))
        /\ reading' = [reading EXCEPT ![r] = x]
    BY <1>5 DEF InsertChunk, NextChunk
  <2>2. f \in CachedFiles /\ i \in Nat /\ i \in DOMAIN Content[f]
    BY <1>0, <2>1 DEF Reads, NoRead
  <2>3. c \in KnownChunks /\ c.file = f /\ c.index = i
    BY <2>2 DEF KnownChunks, Chunk
  <2>4. c \notin chunks
    BY <2>1, <2>2, <2>3 DEF CacheInv
  <2>5. Accounts(Cache, SizeOf(c))
    <3>1. SizeOf(c) \in 1 .. MaxCacheSize
      BY <2>3, BytesOfOne
    <3>2. CASE HasRoom(r)
      BY <1>0, <3>1, <3>2 DEF HasRoom, Accounts, Cache, NextChunk
    <3>3. CASE chunks = {}
      <4>1. BytesIn(chunks) = {}
        BY <3>3 DEF BytesIn
      <4>2. total_size = 0
        BY <1>0, <4>1, FS_EmptySet DEF Accounts, Cache, SumOfSizes
      <4> QED
        BY <1>0, <3>1, <4>2, CacheAssumption DEF Accounts, Cache
    <3> QED
      BY <2>1, <3>2, <3>3
  <2>6. /\ Accounts(Insert(Cache, c), 0)
        /\ Insert(Cache, c).chunks \subseteq chunks \cup {c}
    BY <2>3, <2>4, <2>5, InsertAccounts DEF Cache
  <2>7. x \in Reads /\ (x.at = "insert" => x.file = f /\ x.next = i + 1)
    BY <2>2 DEF Reads, NoRead, Inserting
  <2> HIDE DEF f, i, c, x
  <2>8. Accounts(Cache, 0)' /\ chunks' \subseteq chunks \cup {c}
    BY <2>1, <2>6, Becomes
  <2>9. /\ reading' \in [Readers -> Reads]
        /\ \A q \in Readers : reading'[q] = IF q = r THEN x ELSE reading[q]
    BY <1>0, <2>1, <2>7
  <2>10. \A q \in Readers : reading'[q].at = "insert" => q = r
    BY <2>1, <2>9 DEF CacheInv
  <2>11. ASSUME x.at = "insert", NEW d \in chunks', d.file = x.file PROVE d.index < x.next
    <3>1. d.file = f /\ x.next = i + 1
      BY <2>7, <2>11
    <3>2. CASE d = c
      BY <2>2, <2>3, <3>1, <3>2
    <3>3. CASE d \in chunks
      <4>1. d.index < i
        BY <2>1, <3>1, <3>3 DEF CacheInv, f, i
      <4>2. d.index \in Nat
        BY <1>0, <3>3 DEF Accounts, Cache, KnownChunks
      <4> QED
        BY <2>2, <3>1, <4>1, <4>2
    <3> QED
      BY <2>8, <2>11, <3>2, <3>3
  <2> QED
    <3>1. Reads' = Reads
      BY DEF Reads, NoRead
    <3> QED
      BY <2>8, <2>9, <2>10, <2>11, <3>1 DEF CacheInv
<1>6. ASSUME NEW f \in CachedFiles, Written(f) \/ Deleted(f) PROVE CacheInv'
  <2>1. Become(ClearFile(Cache, f)) /\ UNCHANGED reading
    BY <1>6 DEF Written, Deleted
  <2> QED
    BY <1>c, <2>1, Becomes, TakenOutOnly
<1>7. ASSUME NEW locked \in BOOLEAN, ClearCache(locked) PROVE CacheInv'
  <2>1. chunks' = {} /\ total_size' = 0 /\ UNCHANGED reading
    BY <1>7 DEF ClearCache
  <2>2. BytesIn(chunks)' = {}
    BY <2>1 DEF BytesIn
  <2>3. Accounts(Cache, 0)'
    BY <2>1, <2>2, FS_EmptySet, CacheAssumption DEF Accounts, Cache, SumOfSizes
  <2> QED
    BY <2>1, <2>3, TakenOutOnly
<1>8. CASE Expire \/ UNCHANGED cachevars
  <2>1. UNCHANGED <<chunks, total_size, reading>>
    BY <1>8 DEF Expire, cachevars
  <2> QED
    BY <1>s, <2>1, TakenOutOnly
<1> QED
  BY <1>1, <1>2, <1>3, <1>4, <1>5, <1>6, <1>7, <1>8 DEF CacheNext

\* The cache holds the bytes it accounts for and no more than it may, for any number of
\* readers, and files and chunks of any size (dokan.rs:546-586, 613-619).
THEOREM CacheHoldsWhatItCounts == CacheSpec => []CacheAccounts
<1>1. CacheInv => CacheAccounts
  <2> SUFFICES ASSUME CacheInv PROVE CacheAccounts
    OBVIOUS
  <2>1. Accounts(Cache, 0)
    BY DEF CacheInv
  <2>2. total_size = SumOfSizes(chunks) /\ total_size + 0 <= MaxCacheSize
    BY <2>1 DEF Accounts, Cache
  <2>3. total_size \in Nat
    BY <2>1, FS_CardinalityType DEF Accounts, Cache, SumOfSizes
  <2> QED
    BY <2>2, <2>3, CacheAssumption DEF CacheAccounts
<1> QED
  BY <1>1, CacheStarts, CacheStep, PTL DEF CacheSpec
=============================================================================
