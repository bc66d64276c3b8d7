---------------------------- MODULE SecureMemory ----------------------------
(* crates/crypto/src/secure_memory.rs: buffers that keep their pages out of *)
(* the swap file and wipe themselves.  SecureBytes has its bytes on the     *)
(* heap, SecureKey, SecureNonce and SecureSalt have theirs inside the value *)
(* and move with it.  The kernel locks whole pages and counts nothing.      *)
EXTENDS Naturals

CONSTANTS
    Buffers,    \* the values a program may have at once
    HeapPlaces, StackPlaces,
    PageOf      \* [HeapPlaces \cup StackPlaces -> pages]

ASSUME PlaceAssumption == HeapPlaces \cap StackPlaces = {}

Places == HeapPlaces \cup StackPlaces
NoBuffer == [kind |-> "none", place |-> "nowhere", empty |-> TRUE, locked |-> FALSE]

VARIABLES
    buffer,      \* buffer[b]: the value b, or NoBuffer
    secret,      \* the places that hold secret bytes
    lockedPages  \* the pages the kernel keeps in memory

memoryvars == <<buffer, secret, lockedPages>>

Live == {b \in Buffers : buffer[b] # NoBuffer}
Taken == {buffer[b].place : b \in Live}
Page(b) == PageOf[buffer[b].place]

MemoryInit ==
    /\ buffer = [b \in Buffers |-> NoBuffer]
    /\ secret = {} /\ lockedPages = {}

Value(kind, p) == [kind |-> kind, place |-> p, empty |-> FALSE, locked |-> FALSE]

\* SecureBytes::new takes the caller's Vec, from_slice copies it.
NewBytes(b, p) ==
    /\ b \notin Live /\ p \in HeapPlaces \ Taken
    /\ buffer' = [buffer EXCEPT ![b] = Value("bytes", p)]
    /\ secret' = secret \cup {p}
    /\ UNCHANGED lockedPages

\* new_locked: when the lock fails the new buffer is dropped, wiped.
NewLockedBytes(b, p) ==
    /\ b \notin Live /\ p \in HeapPlaces \ Taken
    /\ buffer' = [buffer EXCEPT ![b] = [Value("bytes", p) EXCEPT !.locked = TRUE]]
    /\ secret' = secret \cup {p}
    /\ lockedPages' = lockedPages \cup {PageOf[p]}

NewKey(b, p) ==
    /\ b \notin Live /\ p \in StackPlaces \ Taken
    /\ buffer' = [buffer EXCEPT ![b] = Value("key", p)]
    /\ secret' = secret \cup {p}
    /\ UNCHANGED lockedPages

\* SecureNonce and SecureSalt cannot be locked.
NewNonce(b, p) ==
    /\ b \notin Live /\ p \in StackPlaces \ Taken
    /\ buffer' = [buffer EXCEPT ![b] = Value("nonce", p)]
    /\ secret' = secret \cup {p}
    /\ UNCHANGED lockedPages

\* lock_memory: mlock or VirtualLock of the pages, or an error.
LockMemory(p) == lockedPages' = lockedPages \cup {PageOf[p]}
UnlockMemory(p) == lockedPages' = lockedPages \ {PageOf[p]}

\* SecureBytes::lock: nothing to do for a buffer that is locked or empty.
LockBytes_Anyway(b) ==
    /\ buffer[b].kind = "bytes" /\ ~buffer[b].locked /\ ~buffer[b].empty
    /\ lockedPages' \in {lockedPages, lockedPages \cup {Page(b)}}
    /\ buffer' = [buffer EXCEPT ![b].locked = TRUE]
    /\ UNCHANGED secret

LockBytes(b) ==
    /\ buffer[b].kind = "bytes" /\ ~buffer[b].locked /\ ~buffer[b].empty
    /\ LockMemory(buffer[b].place)
    /\ buffer' = [buffer EXCEPT ![b].locked = TRUE]
    /\ UNCHANGED secret

LockKey(b) ==
    /\ buffer[b].kind = "key" /\ ~buffer[b].locked
    /\ LockMemory(buffer[b].place)
    /\ buffer' = [buffer EXCEPT ![b].locked = TRUE]
    /\ UNCHANGED secret

\* An empty buffer counts as unlocked already and keeps its flag.
UnlockBytes(b) ==
    /\ buffer[b].kind = "bytes" /\ buffer[b].locked /\ ~buffer[b].empty
    /\ \/ /\ UnlockMemory(buffer[b].place)
          /\ buffer' = [buffer EXCEPT ![b].locked = FALSE]
       \/ UNCHANGED <<lockedPages, buffer>>     \* the error is returned
    /\ UNCHANGED secret

UnlockKey(b) ==
    /\ buffer[b].kind = "key" /\ buffer[b].locked
    /\ UnlockMemory(buffer[b].place)
    /\ buffer' = [buffer EXCEPT ![b].locked = FALSE]
    /\ UNCHANGED secret

\* SecureKey::new_locked locks the page of its local and returns the value,
\* which the caller has elsewhere, with what the flag says of the local.
NewLockedKey(b, local, p) ==
    /\ b \notin Live /\ {local, p} \subseteq StackPlaces \ Taken
    /\ buffer' = [buffer EXCEPT ![b] = [Value("key", p) EXCEPT !.locked = TRUE]]
    /\ secret' = secret \cup {local, p}
    /\ LockMemory(local)

\* A value that is moved leaves its bytes where it was.
Move(b, p) ==
    /\ buffer[b].kind \in {"key", "nonce"} /\ p \in StackPlaces \ Taken
    /\ buffer' = [buffer EXCEPT ![b].place = p]
    /\ secret' = secret \cup {p}
    /\ UNCHANGED lockedPages

\* Zeroize wipes the bytes, empties a Vec and leaves the flag.
ZeroizeBytes(b) ==
    /\ buffer[b].kind = "bytes"
    /\ buffer' = [buffer EXCEPT ![b].empty = TRUE]
    /\ secret' = secret \ {buffer[b].place}
    /\ UNCHANGED lockedPages

\* Drop for SecureBytes: unlock, whose error is ignored, then wipe.
DropBytes(b) ==
    /\ buffer[b].kind = "bytes"
    /\ IF buffer[b].locked /\ ~buffer[b].empty
       THEN UnlockMemory(buffer[b].place) \/ UNCHANGED lockedPages
       ELSE UNCHANGED lockedPages
    /\ secret' = secret \ {buffer[b].place}
    /\ buffer' = [buffer EXCEPT ![b] = NoBuffer]

DropKey(b) ==
    /\ buffer[b].kind = "key"
    /\ IF buffer[b].locked THEN UnlockMemory(buffer[b].place) ELSE UNCHANGED lockedPages
    /\ secret' = secret \ {buffer[b].place}
    /\ buffer' = [buffer EXCEPT ![b] = NoBuffer]

DropNonce(b) ==
    /\ buffer[b].kind = "nonce"
    /\ secret' = secret \ {buffer[b].place}
    /\ buffer' = [buffer EXCEPT ![b] = NoBuffer]
    /\ UNCHANGED lockedPages

MemoryNext ==
    \/ \E b \in Buffers, p \in HeapPlaces : NewBytes(b, p) \/ NewLockedBytes(b, p)
    \/ \E b \in Buffers, p \in StackPlaces :
         \/ NewKey(b, p) \/ NewNonce(b, p) \/ Move(b, p)
         \/ \E q \in StackPlaces \ {p} : NewLockedKey(b, q, p)
    \/ \E b \in Buffers :
         \/ LockBytes(b) \/ LockKey(b) \/ UnlockBytes(b) \/ UnlockKey(b)
         \/ ZeroizeBytes(b) \/ DropBytes(b) \/ DropKey(b) \/ DropNonce(b)

MemorySpec == MemoryInit /\ [][MemoryNext]_memoryvars
---------------------------------------------------------------------------
AloneOnItsPage(p) == \A q \in Places \ {p} : PageOf[q] # PageOf[p]

(* A buffer on the heap that says it is locked is on a locked page, as     *)
(* long as nothing else can lie on that page: whatever failed, was emptied *)
(* or dropped before (secure_memory.rs:135-172, 212-221).                  *)
LockedIsInMemory ==
    \A b \in Live : buffer[b].kind = "bytes" /\ buffer[b].locked
                    /\ AloneOnItsPage(buffer[b].place) => Page(b) \in lockedPages

(* Heap memory that no buffer owns any more holds nothing secret           *)
(* (secure_memory.rs:219).                                                 *)
FreedHeapIsWiped == secret \cap HeapPlaces \subseteq Taken

(* Known to be violated: the same for any buffer.  Unlocking or dropping   *)
(* one unlocks the pages of its neighbours (line 571), and a key that      *)
(* new_locked returns was locked somewhere else (line 326).                *)
EveryLockedIsInMemory ==
    \A b \in Live : buffer[b].locked => Page(b) \in lockedPages

(* Known to be violated: a key that has moved is wiped where it was.       *)
MovedKeysAreWiped == secret \subseteq Taken

(* Known to be violated: without buffers no page stays locked.  A buffer   *)
(* that was emptied first skips the unlocking (line 215).                  *)
PagesAreReturned == Live = {} => lockedPages = {}
===========================================================================
