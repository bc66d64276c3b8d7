---------------------------- MODULE ChunkCache ----------------------------
(* The cache of decrypted chunks behind Dokan's reads (dokan.rs:440-647,   *)
(* 1469-1670; fuse.rs has the same one and only ever clears it).  Reads    *)
(* interleave: a lookup, the decryption and the filling of the cache are   *)
(* steps of their own, and the vault may be locked or unmounted between.   *)
EXTENDS Naturals, Sequences, FiniteSets

CONSTANTS
    CachedFiles, Readers,
    Content,        \* Content[f]: the sizes of the chunks of file f
    MaxCacheSize, MaxCachedChunksPerFile

\* CACHE_CHUNK_SIZE is less than MAX_CACHE_SIZE, and no chunk is empty.
ASSUME CacheAssumption ==
    MaxCacheSize \in Nat /\ Content \in [CachedFiles -> Seq(1 .. MaxCacheSize)]

VARIABLES
    chunks,     \* the cached chunks
    before,     \* <<c, d>>: c was last accessed before d
    expired,    \* those not accessed for CACHE_EXPIRATION_SECS
    total_size, \* what the cache believes it holds
    reading,    \* reading[r]: the step a read is at, its file and next chunk
    live        \* the files that can be decrypted

cachevars == <<chunks, before, expired, total_size, reading, live>>

Chunk(f, i) == [file |-> f, index |-> i]
SizeOf(c) == Content[c.file][c.index]

\* The bytes of chunks, counted.
BytesIn(S) == UNION {{c} \X (1 .. SizeOf(c)) : c \in S}
SumOfSizes(S) == Cardinality(BytesIn(S))

\* saturating_sub
Minus(a, b) == IF a > b THEN a - b ELSE 0

Cache == [chunks |-> chunks, before |-> before, expired |-> expired, size |-> total_size]

Without(cache, gone) ==
    [chunks |-> cache.chunks \ gone,
     before |-> {p \in cache.before : p[1] \notin gone /\ p[2] \notin gone},
     expired |-> cache.expired \ gone,
     size |-> Minus(cache.size, SumOfSizes(cache.chunks \cap gone))]

FileChunks(cache, f) == {c \in cache.chunks : c.file = f}

DropExpired(cache, f) == Without(cache, FileChunks(cache, f) \cap cache.expired)

\* The oldest chunks of f go until there is one less than f may have.
LimitFile(cache, f) ==
    Without(cache,
        {c \in FileChunks(cache, f) :
            Cardinality({d \in FileChunks(cache, f) : <<d, c>> \notin cache.before})
                >= MaxCachedChunksPerFile})

\* insert, once there is room; a chunk that was there already would be counted twice.
Insert(cache, c) ==
    LET room == LimitFile(DropExpired(cache, c.file), c.file) IN
    [room EXCEPT !.chunks = @ \cup {c},
                 !.before = @ \cup (room.chunks \X {c}),
                 !.size = @ + SizeOf(c)]

ClearFile_KeepsTotal(cache, f) ==
    [Without(cache, FileChunks(cache, f)) EXCEPT !.size = cache.size]

\* clear_file
ClearFile(cache, f) == Without(cache, FileChunks(cache, f))

Become(cache) ==
    /\ chunks' = cache.chunks /\ before' = cache.before
    /\ expired' = cache.expired /\ total_size' = cache.size

NoRead == [at |-> "idle"]

CacheInit ==
    /\ chunks = {} /\ before = {} /\ expired = {} /\ total_size = 0
    /\ reading = [r \in Readers |-> NoRead]
    /\ live = CachedFiles

\* cache_file_content keeps the cache's lock from its first chunk to its last.
CacheFree == \A r \in Readers : reading[r].at # "insert"

\* find_chunk: the chunk when it has not expired; finding it makes it recent.
Fresh(c) == c \in chunks \ expired
Touched(f, found) ==
    LET used == {Chunk(f, k) : k \in found} IN
    {p \in before : p[1] \notin used /\ p[2] \notin used}
        \cup ((chunks \ used) \X used)
        \cup {p \in used \X used : p[1].index < p[2].index}

\* read_file finds a stretch of chunks in the cache, from chunk i on, ...
ReadFile(r, f, i, j) ==
    /\ reading[r] = NoRead /\ CacheFree
    /\ LET found == {k \in i .. j : \A m \in i .. k : Fresh(Chunk(f, m))}
       IN /\ before' = Touched(f, found)
          /\ reading' = [reading EXCEPT ![r] =
                IF found = i .. j THEN NoRead ELSE [at |-> "decrypt", file |-> f]]
    /\ UNCHANGED <<chunks, expired, total_size, live>>

\* ... or decrypts the file, which a locked session or a deleted file refuses, ...
DecryptFileContent(r) ==
    /\ reading[r].at = "decrypt"
    /\ reading' = [reading EXCEPT ![r] =
          IF reading[r].file \in live THEN [@ EXCEPT !.at = "fill"] ELSE NoRead]
    /\ UNCHANGED <<chunks, before, expired, total_size, live>>

\* ... and caches all of it, chunk by chunk, in place of what is there of it.
Inserting(f, i) ==
    IF i \in DOMAIN Content[f] THEN [at |-> "insert", file |-> f, next |-> i] ELSE NoRead

FillCache(r) ==
    /\ reading[r].at = "fill" /\ CacheFree
    /\ Become(ClearFile(Cache, reading[r].file))
    /\ reading' = [reading EXCEPT ![r] = Inserting(reading[r].file, 1)]
    /\ UNCHANGED live

NextChunk(r) == Chunk(reading[r].file, reading[r].next)
HasRoom(r) == total_size + SizeOf(NextChunk(r)) <= MaxCacheSize

\* evict_oldest, as often as insert needs it
EvictOldest(r) ==
    /\ reading[r].at = "insert" /\ ~ HasRoom(r)
    /\ \E c \in chunks :
         (\A d \in chunks : <<d, c>> \notin before) /\ Become(Without(Cache, {c}))
    /\ UNCHANGED <<reading, live>>

InsertChunk(r) ==
    /\ reading[r].at = "insert" /\ (HasRoom(r) \/ chunks = {})
    /\ Become(Insert(Cache, NextChunk(r)))
    /\ reading' = [reading EXCEPT ![r] = Inserting(@.file, @.next + 1)]
    /\ UNCHANGED live

\* A write or a new length: the file's chunks go.
Written(f) ==
    /\ f \in live /\ CacheFree
    /\ Become(ClearFile(Cache, f))
    /\ UNCHANGED <<reading, live>>

\* delete_file_by_uuid
Deleted(f) ==
    /\ f \in live /\ CacheFree
    /\ live' = live \ {f}
    /\ Become(ClearFile(Cache, f))
    /\ UNCHANGED reading

\* clear_cache: while unmounting, after the session has been locked or not
ClearCache(locked) ==
    /\ CacheFree
    /\ chunks' = {} /\ before' = {} /\ expired' = {} /\ total_size' = 0
    /\ live' = IF locked THEN {} ELSE live
    /\ UNCHANGED reading

\* CACHE_EXPIRATION_SECS pass for a chunk, and for those accessed before it.
Expire ==
    /\ \E c \in chunks \ expired : expired' = {c} \cup {d \in chunks : <<d, c>> \in before}
    /\ UNCHANGED <<chunks, before, total_size, reading, live>>

CacheNext ==
    \/ \E r \in Readers, f \in CachedFiles :
         \E i \in DOMAIN Content[f] : \E j \in i .. Len(Content[f]) : ReadFile(r, f, i, j)
    \/ \E r \in Readers :
         DecryptFileContent(r) \/ FillCache(r) \/ EvictOldest(r) \/ InsertChunk(r)
    \/ \E f \in CachedFiles : Written(f) \/ Deleted(f)
    \/ \E locked \in BOOLEAN : ClearCache(locked)
    \/ Expire

CacheSpec == CacheInit /\ [][CacheNext]_cachevars
---------------------------------------------------------------------------
(* Through every eviction, expiry, clearing and refilling, by any readers,  *)
(* what the cache believes it holds is what it holds, with no chunk counted *)
(* twice, and no more than its limit (dokan.rs:546-586; saturating_sub     *)
(* would hide a difference).                                               *)
CacheAccounts == total_size = SumOfSizes(chunks) /\ total_size <= MaxCacheSize

(* Known to be violated: nothing of a deleted file, or of a locked vault,   *)
(* stays readable in memory.  A read that decrypted before puts the chunks *)
(* back after they were cleared (dokan.rs:1516-1520, 2098-2101).           *)
CacheForgets == \A c \in chunks : c.file \in live
===========================================================================
