---------------------------- MODULE OCIDiskCache ----------------------------
(***************************************************************************)
(* The OCI artifact cache of a proxy, one tenant/upstream scope: requests  *)
(* that read through CachedOCIClient, the staged write that fills the      *)
(* cache while the body streams to the client, and the eviction pass that  *)
(* every commit runs.  Nothing locks the directory: each file-system call  *)
(* is a step of its own.  All bodies have the same size, so that the byte  *)
(* limit is an entry limit.                                                *)
(***************************************************************************)
EXTENDS Integers, FiniteSets

CONSTANTS
    Digest,
    Session,     \* concurrent fetches
    NoDigest,
    MaxEntries,  \* cache limit, in entries
    AgeLimit,    \* TRUE if max_age is set
    MaxWrites,   \* bound on completed upstream bodies
    MaxCrashes,  \* bound on proxy crashes
    MaxIOErrors  \* bound on failed file-system calls

ASSUME DiskAssumption ==
    /\ NoDigest \notin Digest
    /\ MaxEntries \in Nat \ {0}
    /\ AgeLimit \in BOOLEAN
    /\ MaxWrites \in Nat
    /\ MaxCrashes \in Nat
    /\ MaxIOErrors \in Nat

Times == 0..MaxWrites
Stages == {"idle", "readMeta", "openData", "fetch", "stream", "commit", "stat",
           "renameData", "renameMeta", "list", "info", "evict", "removeMeta"}

VARIABLES
    data,      \* *.data files: digest -> [body, time], time 0 for no file
    meta,      \* digests with a *.meta.json file
    session,   \* the state of every fetch
    clock,     \* completed bodies so far: the file modification times
    served,    \* body of the last response of a session that was a cache hit
    skipped,   \* history: eviction passes that ended with an error
    deleted,   \* history: some file was removed from the scope
    crashes, ioErrors

vars == <<data, meta, session, clock, served, skipped, deleted, crashes, ioErrors>>

Bodies == {"none", "partial", "whole"}
NoFile == [body |-> "none", time |-> 0]
File == [body : Bodies, time : Times]

IdleSession == [pc |-> "idle", digest |-> NoDigest, temp |-> NoFile,
                files |-> {}, plan |-> {}, victim |-> NoDigest]
SessionState == [pc : Stages, digest : Digest \cup {NoDigest}, temp : File,
                 files : SUBSET Digest,                        \* listed
                 plan : SUBSET [digest : Digest, time : Times,  \* to evict
                                expired : BOOLEAN],
                 victim : Digest \cup {NoDigest}]

Init ==
    /\ data = [d \in Digest |-> NoFile]
    /\ meta = {}
    /\ session = [s \in Session |-> IdleSession]
    /\ clock = 0
    /\ served = [s \in Session |-> "none"]
    /\ skipped = 0
    /\ deleted = FALSE
    /\ crashes = 0
    /\ ioErrors = 0

Present == {d \in Digest : data[d] # NoFile}
bounds == <<crashes, ioErrors>>
ghosts == <<skipped, deleted>>

Become(s, next) == session' = [session EXCEPT ![s] = next]
Goto(s, stage) == Become(s, [session[s] EXCEPT !.pc = stage])
End(s) == Become(s, IdleSession)
IOError == ioErrors < MaxIOErrors /\ ioErrors' = ioErrors + 1 /\ UNCHANGED crashes

-----------------------------------------------------------------------------
(* Reading: CachedOCIClient.fetchWithCache and DiskCache.Get.              *)

Request(s, d) ==
    /\ session[s].pc = "idle"
    /\ Become(s, [IdleSession EXCEPT !.pc = "readMeta", !.digest = d])
    /\ served' = [served EXCEPT ![s] = "none"]
    /\ UNCHANGED <<data, meta, clock, ghosts, bounds>>

\* The metadata file first; a miss or an error leads to the upstream.
ReadMeta(s) ==
    /\ session[s].pc = "readMeta"
    /\ Goto(s, IF session[s].digest \in meta THEN "openData" ELSE "fetch")
    /\ UNCHANGED <<data, meta, clock, served, ghosts, bounds>>

\* Then the data file; an open file stays readable after its removal.
OpenData(s) ==
    /\ session[s].pc = "openData"
    /\ LET d == session[s].digest IN
       IF d \in Present
       THEN End(s) /\ served' = [served EXCEPT ![s] = data[d].body]
       ELSE Goto(s, "fetch") /\ UNCHANGED served
    /\ UNCHANGED <<data, meta, clock, ghosts, bounds>>

GetFails(s) ==
    /\ session[s].pc \in {"readMeta", "openData"}
    /\ IOError
    /\ Goto(s, "fetch")
    /\ UNCHANGED <<data, meta, clock, served, ghosts>>

\* The upstream answers 200 and StartWrite creates the temporary file.
StartWrite(s) ==
    /\ session[s].pc = "fetch"
    /\ Become(s, [session[s] EXCEPT !.pc = "stream", !.temp.body = "partial"])
    /\ UNCHANGED <<data, meta, clock, served, ghosts, bounds>>

\* The upstream fails, or the body is passed on without a cache fill.
FetchUncached(s) ==
    /\ session[s].pc = "fetch"
    /\ End(s)
    /\ UNCHANGED <<data, meta, clock, served, ghosts, bounds>>

-----------------------------------------------------------------------------
(* Writing: cacheReadCloser and diskWriteSession.                          *)

\* Read returns io.EOF: every byte is in the temporary file.
ReadEOF(s) ==
    /\ session[s].pc = "stream" /\ clock < MaxWrites
    /\ clock' = clock + 1
    /\ Become(s, [session[s] EXCEPT !.pc = "commit",
                                    !.temp = [body |-> "whole", time |-> clock + 1]])
    /\ UNCHANGED <<data, meta, served, ghosts, bounds>>

\* Mutant: Close promotes what has been read so far.
CommitPartial(s) ==
    /\ session[s].pc = "stream"
    /\ Become(s, [session[s] EXCEPT !.pc = "commit", !.temp.time = clock])
    /\ UNCHANGED <<data, meta, clock, served, ghosts, bounds>>

\* The upstream read or the temporary write fails, or the client closes.
Abort(s) ==
    /\ session[s].pc = "stream"
    /\ End(s)
    /\ UNCHANGED <<data, meta, clock, served, ghosts, bounds>>

\* Commit closes the data file and writes the temporary metadata file.
CommitStages(s) ==
    /\ session[s].pc = "commit"
    /\ Goto(s, "stat")
    /\ UNCHANGED <<data, meta, clock, served, ghosts, bounds>>

\* A file that is already there wins, and no eviction pass runs.
StatFinal(s) ==
    /\ session[s].pc = "stat"
    /\ IF session[s].digest \in Present THEN End(s) ELSE Goto(s, "renameData")
    /\ UNCHANGED <<data, meta, clock, served, ghosts, bounds>>

RenameData(s) ==
    /\ session[s].pc = "renameData"
    /\ data' = [data EXCEPT ![session[s].digest] = session[s].temp]
    /\ Goto(s, "renameMeta")
    /\ UNCHANGED <<meta, clock, served, ghosts, bounds>>

\* A commit that fails before the promotion leaves no final file.
CommitFails(s) ==
    /\ session[s].pc \in {"commit", "stat", "renameData"}
    /\ IOError
    /\ End(s)
    /\ UNCHANGED <<data, meta, clock, served, ghosts>>

RenameMeta(s) ==
    /\ session[s].pc = "renameMeta"
    /\ meta' = meta \cup {session[s].digest}
    /\ Goto(s, "list")
    /\ UNCHANGED <<data, clock, served, ghosts, bounds>>

\* Mutant: the data file stays.
RenameMetaFailsSilently(s) ==
    /\ session[s].pc = "renameMeta"
    /\ IOError
    /\ End(s)
    /\ UNCHANGED <<data, meta, clock, served, ghosts>>

\* The metadata cannot be promoted: the data file is removed again.
RenameMetaFails(s) ==
    /\ session[s].pc = "renameMeta"
    /\ IOError
    /\ data' = [data EXCEPT ![session[s].digest] = NoFile]
    /\ deleted' = TRUE
    /\ End(s)
    /\ UNCHANGED <<meta, clock, served, skipped>>

-----------------------------------------------------------------------------
(* enforceLimits.                                                          *)

\* WalkDir reads the directory ...
ListFiles(s) ==
    /\ session[s].pc = "list"
    /\ Become(s, [session[s] EXCEPT !.pc = "info", !.files = Present])
    /\ UNCHANGED <<data, meta, clock, served, ghosts, bounds>>

\* Mutant: one entry more than the limit is tolerated.
CapacityExceededLate(n) == n > MaxEntries + 1

CapacityExceeded(n) == n > MaxEntries

\* removeExpiredFiles and enforceCapacityLimits: the files written up to `cut`,
\* and the oldest others, as many as must go.
Victims(files, cut) ==
    LET Kept(d) == {e \in files : data[e].time >= data[d].time}
    IN {[digest |-> d, time |-> data[d].time, expired |-> data[d].time <= cut] : d \in
           {d \in files : data[d].time <= cut \/ CapacityExceeded(Cardinality(Kept(d)))}}

\* ... and then asks for every file's size and age: a file that has gone in
\* between ends the pass with an error.  Files up to `cut` are over max_age.
InfoFiles(s, cut) ==
    /\ session[s].pc = "info"
    /\ cut # 0 => AgeLimit /\ cut <= clock
    /\ IF session[s].files \subseteq Present
       THEN /\ Become(s, [session[s] EXCEPT !.pc = "evict", !.files = {},
                                            !.plan = Victims(session[s].files, cut)])
            /\ UNCHANGED skipped
       ELSE End(s) /\ skipped' = skipped + 1
    /\ UNCHANGED <<data, meta, clock, served, deleted, bounds>>

\* Expired files go first, in directory order, then the oldest of the others.
NextVictim(s, f) ==
    /\ session[s].pc = "evict" /\ f \in session[s].plan
    /\ \/ f.expired
       \/ \A g \in session[s].plan : ~g.expired /\ g.time >= f.time

\* removeCachedFile: the data file (it may be gone, or be a new one by now), ...
EvictData(s, f) ==
    /\ NextVictim(s, f)
    /\ data' = [data EXCEPT ![f.digest] = NoFile]
    /\ deleted' = TRUE
    /\ Become(s, [session[s] EXCEPT !.pc = "removeMeta", !.victim = f.digest,
                                    !.plan = @ \ {f}])
    /\ UNCHANGED <<meta, clock, served, skipped, bounds>>

\* ... and then its metadata.
EvictMeta(s) ==
    /\ session[s].pc = "removeMeta"
    /\ meta' = meta \ {session[s].victim}
    /\ Become(s, [session[s] EXCEPT !.pc = "evict", !.victim = NoDigest])
    /\ UNCHANGED <<data, clock, served, ghosts, bounds>>

EvictDone(s) ==
    /\ session[s].pc = "evict" /\ session[s].plan = {}
    /\ End(s)
    /\ UNCHANGED <<data, meta, clock, served, ghosts, bounds>>

\* A removal fails for another reason than a missing file.
EvictFails(s) ==
    /\ session[s].pc = "removeMeta" \/ session[s].plan # {}
    /\ IOError
    /\ skipped' = skipped + 1
    /\ End(s)
    /\ UNCHANGED <<data, meta, clock, served, deleted>>

\* The proxy dies; the directory stays as it is.
Crash ==
    /\ crashes < MaxCrashes
    /\ crashes' = crashes + 1
    /\ session' = [s \in Session |-> IdleSession]
    /\ UNCHANGED <<data, meta, clock, served, ghosts, ioErrors>>

-----------------------------------------------------------------------------
Step(s) ==
    \/ ReadMeta(s) \/ OpenData(s) \/ GetFails(s) \/ StartWrite(s) \/ FetchUncached(s)
    \/ ReadEOF(s) \/ Abort(s) \/ CommitStages(s) \/ StatFinal(s) \/ RenameData(s)
    \/ CommitFails(s) \/ RenameMeta(s) \/ RenameMetaFails(s)
    \/ ListFiles(s) \/ EvictMeta(s) \/ EvictDone(s) \/ EvictFails(s)
    \/ \E cut \in Times : InfoFiles(s, cut)
    \/ \E f \in session[s].plan : EvictData(s, f)

Next ==
    \/ \E s \in Session : Step(s) \/ \E d \in Digest : Request(s, d)
    \/ Crash

Spec == Init /\ [][Next]_vars

-----------------------------------------------------------------------------
(* Properties.                                                             *)

\* Every variable keeps its type.
TypeOK ==
    /\ data \in [Digest -> File]
    /\ meta \subseteq Digest
    /\ session \in [Session -> SessionState]
    /\ clock \in Times
    /\ served \in [Session -> Bodies]
    /\ skipped \in Nat
    /\ deleted \in BOOLEAN
    /\ crashes \in 0..MaxCrashes
    /\ ioErrors \in 0..MaxIOErrors

\* persistence.md: a staged write is promoted "only when the upstream body
\* finishes successfully".  No interleaving of fills, evictions, aborts and
\* crashes serves a partial body from the cache.
ServedWhole == \A s \in Session : served[s] # "partial"

Quiescent == \A s \in Session : session[s].pc = "idle"

\* A data file without its metadata is a miss for every reader, and Commit
\* never completes it because the data file is there.
DeadEntry(d) == d \in Present /\ d \notin meta

\* Commits alone, however they overlap, leave no dead entry: it takes a
\* removal or a crash between the two renames.
CommitsLeaveNoDeadEntry ==
    Quiescent /\ ~deleted /\ crashes = 0 => \A d \in Digest : ~DeadEntry(d)

\* Overlapping eviction passes: when all fetches are over, the scope exceeds
\* its limit by at most the passes that ended early.
OvershootBounded ==
    Quiescent /\ crashes = 0 => Cardinality(Present) <= MaxEntries + skipped
=============================================================================
