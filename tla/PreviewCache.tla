---------------------------- MODULE PreviewCache ----------------------------
(***************************************************************************)
(* The reader's cache of prepared previews, bounded in entries and in the  *)
(* bytes they keep, and the preview requests that fill it.  A preview of a *)
(* large file whose content is not downloaded yet is prepared without it   *)
(* and must not be cached; a request may be superseded, or its decoder may *)
(* panic, after the preview was prepared.                                  *)
(***************************************************************************)
EXTENDS Integers, Sequences, FiniteSets, SequencesExt

CONSTANTS
    Keys,          \* preview keys: objects, paths and modes of two sides
    Bytes,         \* Bytes[k], what the whole preview of a key keeps
    Large,         \* keys whose content is downloaded
    ByteLimit,     \* CACHE_BYTE_LIMIT
    EntryLimit     \* CACHE_ENTRY_LIMIT

KeysAssumption == Large \subseteq Keys /\ Bytes \in [Keys -> Nat]
CacheLimits == ByteLimit \in Nat /\ EntryLimit \in Nat

VARIABLES
    stored,     \* the large contents that are stored locally
    entries,    \* the cached previews: their bytes and whether they are whole
    lru,        \* their keys, the least recently used first
    bytes,      \* the bytes counted
    job,        \* the request that runs: its key, and its preview once prepared
    used        \* ghost: every key ever cached or hit, in the order of last use

cacheVars == <<entries, lru, bytes>>
previewVars == <<stored, cacheVars, job, used>>

NoJob == [stage |-> "idle"]
Prepared(k, b, whole) == [stage |-> "prepared", key |-> k, bytes |-> b, whole |-> whole]

\* VecDeque::retain; a key is queued once.
Without(s, k) == RemoveFirst(s, k)
Used(k) == Append(Without(used, k), k)

SumOf(numbers) ==
    LET sum[n \in 0 .. Len(numbers)] == IF n = 0 THEN 0 ELSE sum[n - 1] + numbers[n]
    IN  sum[Len(numbers)]

\* Content::bytes over the keys of a sequence.
Weight(s) == SumOf([i \in 1 .. Len(s) |-> entries[s[i]].bytes])

Available(k) == k \in Large => k \in stored

-----------------------------------------------------------------------------
(* The cache *)

\* Mutant: a hit does not promote its entry.
GetUnpromoted(k) == UNCHANGED cacheVars

\* PreviewCache::get of a key that is cached.
Get(k) ==
    /\ lru' = Append(Without(lru, k), k)
    /\ UNCHANGED <<entries, bytes>>

\* How many entries the loop evicts from the front for b more bytes, when so
\* many are counted: the fewest that make room, or all of them.
Evicted(s, counted, b) ==
    LET enough == {n \in 0 .. Len(s) : /\ counted - Weight(SubSeq(s, 1, n)) + b <= ByteLimit
                                       /\ Len(s) - n < EntryLimit}
    IN  IF enough = {} THEN Len(s) ELSE CHOOSE n \in enough : \A m \in enough : n <= m

\* PreviewCache::insert.  What leaves the cache is taken off the count.
Insert(k, b, whole) ==
    LET rest == Without(lru, k)
        counted == bytes - (IF k \in DOMAIN entries THEN entries[k].bytes ELSE 0)
        evicted == Evicted(rest, counted, b)
        kept == SubSeq(rest, evicted + 1, Len(rest)) IN
    IF b > ByteLimit \/ EntryLimit = 0
    THEN /\ lru' = rest
         /\ entries' = [x \in ToSet(rest) |-> entries[x]]
         /\ bytes' = counted
    ELSE /\ lru' = Append(kept, k)
         /\ entries' = [x \in ToSet(kept) \cup {k} |->
                            IF x = k THEN [bytes |-> b, whole |-> whole] ELSE entries[x]]
         /\ bytes' = counted - Weight(SubSeq(rest, 1, evicted)) + b

-----------------------------------------------------------------------------
(* Requests *)

Start(k) ==
    /\ job = NoJob
    /\ job' = [stage |-> "started", key |-> k]
    /\ UNCHANGED <<stored, cacheVars, used>>

Hit ==
    /\ job.stage = "started" /\ job.key \in DOMAIN entries
    /\ Get(job.key)
    /\ used' = Used(job.key)
    /\ job' = NoJob
    /\ UNCHANGED stored

\* text_content: prepared from what is stored at this time; a preview without
\* its content is smaller.
Prepare ==
    /\ job.stage = "started" /\ job.key \notin DOMAIN entries
    /\ job' = IF Available(job.key) THEN Prepared(job.key, Bytes[job.key], TRUE)
              ELSE Prepared(job.key, 1, FALSE)
    /\ UNCHANGED <<stored, cacheVars, used>>

\* Content::cacheable of what was prepared.
Cacheable(j) == j.whole

\* The preview is whole and its request was not superseded.
Store ==
    /\ job.stage = "prepared" /\ Cacheable(job)
    /\ Insert(job.key, job.bytes, job.whole)
    /\ used' = IF job.bytes > ByteLimit \/ EntryLimit = 0
               THEN Without(used, job.key) ELSE Used(job.key)
    /\ job' = NoJob
    /\ UNCHANGED stored

Deliver ==
    /\ job.stage = "prepared" /\ ~Cacheable(job)
    /\ job' = NoJob
    /\ UNCHANGED <<stored, cacheVars, used>>

\* A later request took its place, or its objects cannot be read.
Supersede ==
    /\ job # NoJob
    /\ job' = NoJob
    /\ UNCHANGED <<stored, cacheVars, used>>

\* The worker answers a panic with an error and starts with an empty cache.
Panic ==
    /\ job # NoJob
    /\ job' = NoJob
    /\ entries' = [x \in {} |-> 0] /\ lru' = <<>> /\ bytes' = 0
    /\ used' = <<>>
    /\ UNCHANGED stored

\* Large contents are downloaded, and pruned, outside of the reader.
Download(k) ==
    /\ stored' = IF k \in stored THEN stored \ {k} ELSE stored \cup {k}
    /\ UNCHANGED <<cacheVars, job, used>>

CacheInit ==
    /\ stored = {}
    /\ entries = [x \in {} |-> 0] /\ lru = <<>> /\ bytes = 0
    /\ job = NoJob
    /\ used = <<>>

CacheNext ==
    \/ \E k \in Keys : Start(k)
    \/ Hit \/ Prepare \/ Store \/ Deliver \/ Supersede \/ Panic
    \/ \E k \in Large : Download(k)

CacheSpec == CacheInit /\ [][CacheNext]_previewVars

-----------------------------------------------------------------------------
(* Properties *)

CacheTypeOK ==
    /\ stored \subseteq Large
    /\ lru \in Seq(Keys) /\ IsInjective(lru)
    /\ entries \in [ToSet(lru) -> [bytes : Nat, whole : BOOLEAN]]
    /\ bytes \in Nat
    /\ job \in {NoJob} \cup [stage : {"started"}, key : Keys]
                \cup [stage : {"prepared"}, key : Keys, bytes : Nat, whole : BOOLEAN]

\* The count is that of the cached entries, after any number of hits,
\* replacements, evictions, oversized previews and panics: an error in it would
\* either shrink the cache for ever or wrap below zero.
CountIsExact == bytes = Weight(lru)

\* No more entries, and no more bytes, than the limits.
WithinLimits == Cardinality(DOMAIN entries) <= EntryLimit /\ bytes <= ByteLimit

\* What is cached is what was used last, in that order: nothing is evicted while
\* something used before it stays (get's promotion, insert's loop).
NewestAreCached == IsSuffix(lru, used)

\* A preview without its content is never cached, so that a request after the
\* download prepares it again (docs/architecture.md:70).
CachedIsWhole == \A k \in DOMAIN entries : entries[k].whole

(***************************************************************************)
(* The cache holds the previews used last, as many as fit, whole ones      *)
(* only, and counts their bytes (PreviewCache::get, remove and insert).    *)
(***************************************************************************)
KeepsMostRecent ==
    CacheTypeOK /\ CountIsExact /\ WithinLimits /\ NewestAreCached /\ CachedIsWhole

=============================================================================
