---------------------------- MODULE StaticCache ----------------------------
(***************************************************************************)
(* The in-memory file cache of src/plugins/static.ts: a Map in the order of*)
(* insertion and a count of its bytes, filled by requests that read files  *)
(* side by side while the files change.  A file's version stands for its   *)
(* modification time; preloading is a request that comes before the others.*)
(***************************************************************************)
EXTENDS Integers, SequencesExt

CONSTANTS
  Path,         \* the files
  Request,      \* requests under way at a time
  Sizes,        \* what sizes files have
  MaxFileSize, MaxEntries, MaxBytes,   \* cacheMaxFileSize, cacheMaxEntries, cacheMaxBytes
  Ttl,          \* cacheTtl, or 0
  MaxVersion    \* bound on the versions of a file

VARIABLES
  disk,        \* each file: its size and version
  fileCache,   \* the entries, the one inserted first in front
  cacheBytes,
  req          \* each request: what it awaits

vars == <<disk, fileCache, cacheBytes, req>>

Idle == [at |-> "idle"]

Init ==
  /\ disk \in [Path -> [size : Sizes, version : {1}]]
  /\ fileCache = <<>> /\ cacheBytes = 0
  /\ req = [r \in Request |-> Idle]

Entries == ToSet(fileCache)
Held(cache) == SumFunction([i \in DOMAIN cache |-> cache[i].size])

\* What is left of a cache when what is not in keep is deleted.
Keeping(cache, keep) ==
  LET kept[n \in 0..Len(cache)] ==
        IF n = 0 THEN <<>>
        ELSE IF cache[n] \in keep THEN Append(kept[n - 1], cache[n]) ELSE kept[n - 1]
  IN kept[Len(cache)]
Expired(e) == Ttl # 0 /\ e.age >= Ttl

\* isFresh()
Fresh(e, file) == e.size = file.size /\ e.version = file.version /\ ~ Expired(e)

\* evictCache(): the first entries go until both limits hold.
Evicted(cache, bytes) ==
  LET gone == CHOOSE n \in 0..Len(cache) :
        /\ \/ n = Len(cache)
           \/ /\ Len(cache) - n <= MaxEntries
              /\ bytes - Held(SubSeq(cache, 1, n)) <= MaxBytes
        /\ \A m \in 0..(n - 1) :
              \/ Len(cache) - m > MaxEntries
              \/ bytes - Held(SubSeq(cache, 1, m)) > MaxBytes
  IN [cache |-> SubSeq(cache, gone + 1, Len(cache)),
      bytes |-> bytes - Held(SubSeq(cache, 1, gone))]

-----------------------------------------------------------------------------
\* With a ttl an entry answers without a look at the disk; what it does not
\* answer awaits exists().
Arrive(r, f) ==
  /\ req[r] = Idle
  /\ Ttl # 0 => \A e \in Entries : e.path = f => Expired(e)
  /\ req' = [req EXCEPT ![r] = [at |-> "exists", path |-> f]]
  /\ UNCHANGED <<disk, fileCache, cacheBytes>>

\* The file is as the entry says: answered from memory.
Hit(r) ==
  /\ req[r].at = "exists"
  /\ \E e \in Entries : e.path = req[r].path /\ Fresh(e, disk[e.path])
  /\ req' = [req EXCEPT ![r] = Idle]
  /\ UNCHANGED <<disk, fileCache, cacheBytes>>

\* It is not: a stale entry is dropped and the file read, unless it is too
\* big or the request wants no body.
MissDropsNewSize(r) ==
  /\ req[r].at = "exists"
  /\ LET f == req[r].path
         stale == {e \in Entries : e.path = f}
     IN /\ \A e \in stale : ~ Fresh(e, disk[f])
        /\ fileCache' = Keeping(fileCache, Entries \ stale)
        /\ cacheBytes' = IF stale = {} THEN cacheBytes ELSE cacheBytes - disk[f].size
        /\ \/ req' = [req EXCEPT ![r] = Idle]
           \/ /\ disk[f].size <= MaxFileSize
              /\ req' = [req EXCEPT ![r] = [at |-> "reading", path |-> f, file |-> disk[f]]]
  /\ UNCHANGED disk

Miss(r) ==
  /\ req[r].at = "exists"
  /\ LET f == req[r].path
         stale == {e \in Entries : e.path = f}
     IN /\ \A e \in stale : ~ Fresh(e, disk[f])
        /\ fileCache' = Keeping(fileCache, Entries \ stale)
        /\ cacheBytes' = cacheBytes - Held(Keeping(fileCache, stale))
        /\ \/ req' = [req EXCEPT ![r] = Idle]
           \/ /\ disk[f].size <= MaxFileSize
              /\ req' = [req EXCEPT ![r] = [at |-> "reading", path |-> f, file |-> disk[f]]]
  /\ UNCHANGED disk

\* cacheFile(): expired entries go, the file's entry is set, where it is
\* or last, with the size it had before the read, and the limits are enforced.
CacheFile(r) ==
  /\ req[r].at = "reading"
  /\ LET f == req[r].path
         new == [path |-> f, size |-> req[r].file.size, version |-> req[r].file.version,
                 body |-> disk[f].version, age |-> 0]
         live == Keeping(fileCache, {e \in Entries : ~ Expired(e)})
         set == IF \E e \in ToSet(live) : e.path = f
                THEN [i \in DOMAIN live |-> IF live[i].path = f THEN new ELSE live[i]]
                ELSE Append(live, new)
         bytes == cacheBytes - (Held(fileCache) - Held(live)) + new.size
     IN /\ fileCache' = Evicted(set, bytes).cache
        /\ cacheBytes' = Evicted(set, bytes).bytes
  /\ req' = [req EXCEPT ![r] = Idle]
  /\ UNCHANGED disk

\* The file cannot be read: next() answers.
ReadFails(r) ==
  /\ req[r].at # "idle"
  /\ req' = [req EXCEPT ![r] = Idle]
  /\ UNCHANGED <<disk, fileCache, cacheBytes>>

-----------------------------------------------------------------------------
Change(f, size) ==
  /\ disk[f].version < MaxVersion
  /\ disk' = [disk EXCEPT ![f] = [size |-> size, version |-> @.version + 1]]
  /\ UNCHANGED <<fileCache, cacheBytes, req>>

Tick ==
  /\ \E e \in Entries : e.age < Ttl
  /\ fileCache' = [i \in DOMAIN fileCache |->
       [fileCache[i] EXCEPT !.age = IF @ < Ttl THEN @ + 1 ELSE @]]
  /\ UNCHANGED <<disk, cacheBytes, req>>

Next ==
  \/ \E r \in Request : \/ \E f \in Path : Arrive(r, f)
                        \/ Hit(r) \/ Miss(r) \/ CacheFile(r) \/ ReadFails(r)
  \/ \E f \in Path, size \in Sizes : Change(f, size)
  \/ Tick

Spec == Init /\ [][Next]_vars

-----------------------------------------------------------------------------
\* Whatever requests read side by side and however files grow and shrink
\* meanwhile, the cache holds no more files than it may and no more bytes, by the
\* sizes the files had when their requests looked them up, and an entry that
\* looks like the file on the disk has its content.
CacheSound ==
  /\ Len(fileCache) <= MaxEntries /\ Held(fileCache) <= MaxBytes
  /\ \A e \in Entries : e.version = disk[e.path].version => e.body = e.version
=============================================================================
