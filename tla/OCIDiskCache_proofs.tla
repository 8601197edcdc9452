------------------------ MODULE OCIDiskCache_proofs ------------------------
(***************************************************************************)
(* What the OCI artifact cache guarantees for any number of digests and    *)
(* concurrent fetches, any limits, and any number of crashes and failed    *)
(* file-system calls.  The invariant follows a body from the temporary     *)
(* file to its final name, and says who still owes an entry its metadata;  *)
(* a second one accounts for the entries beyond the limit.                 *)
(***************************************************************************)
EXTENDS OCIDiskCache, FiniteSetTheorems, TLAPS

\* Bodies are complete from the end of the stream on; only an eviction pass
\* has a plan.
SessionInv(x) ==
    /\ x.pc \in {"commit", "stat", "renameData"} => x.temp.body = "whole"
    /\ x.pc \in {"readMeta", "openData", "fetch", "stream", "commit", "stat", "renameData",
                 "renameMeta"} => x.digest \in Digest
    /\ x.pc \notin {"evict", "removeMeta"} => x.plan = {}

WholeInv ==
    /\ \A d \in Digest : data[d].body # "partial"
    /\ ServedWhole

\* Metadata still missing is owed by a commit between its two renames, while
\* nothing was removed and nobody crashed.
DeadInv ==
    ~deleted /\ crashes = 0 =>
        /\ \A d \in Digest : DeadEntry(d) =>
              \E s \in Session : session[s].pc = "renameMeta" /\ session[s].digest = d
        /\ \A s \in Session : session[s].pc # "removeMeta"

\* The inductive invariant.
DiskInv ==
    /\ TypeOK
    /\ \A s \in Session : SessionInv(session[s])
    /\ WholeInv
    /\ DeadInv

-----------------------------------------------------------------------------
LEMMA IdleIsFine == IdleSession \in SessionState /\ SessionInv(IdleSession)
<1>1. NoFile \in File BY DiskAssumption DEF NoFile, File, Bodies, Times
<1>2. IdleSession \in SessionState BY <1>1 DEF IdleSession, SessionState, Stages
<1> QED BY <1>2 DEF IdleSession, SessionInv

LEMMA BecomeKeeps ==
    ASSUME DiskInv, NEW s \in Session, NEW x \in SessionState, SessionInv(x), Become(s, x)
    PROVE  /\ session' \in [Session -> SessionState]
           /\ session'[s] = x
           /\ \A r \in Session \ {s} : session'[r] = session[r]
           /\ \A r \in Session : SessionInv(session'[r])
<1>1. session \in [Session -> SessionState] /\ \A r \in Session : SessionInv(session[r])
  BY DEF DiskInv, TypeOK
<1>2. session' = [session EXCEPT ![s] = x] BY DEF Become
<1>3. session'[s] = x /\ \A r \in Session \ {s} : session'[r] = session[r] BY <1>1, <1>2
<1>4. ASSUME NEW r \in Session PROVE SessionInv(session'[r])
  <2>1. CASE r = s BY <1>3, <2>1
  <2>2. CASE r # s BY <1>1, <1>3, <2>2
  <2> QED BY <2>1, <2>2
<1> QED BY <1>1, <1>2, <1>3, <1>4

\* The variables a step of one session may leave as they are.
LEMMA Typing ==
    ASSUME DiskInv, NEW s \in Session
    PROVE  /\ session[s] \in SessionState /\ SessionInv(session[s])
           /\ data \in [Digest -> File] /\ meta \subseteq Digest /\ clock \in Times
           /\ served \in [Session -> Bodies] /\ skipped \in Nat /\ deleted \in BOOLEAN
           /\ crashes \in 0..MaxCrashes /\ ioErrors \in 0..MaxIOErrors
BY DEF DiskInv, TypeOK

LEMMA IOErrorType ==
    ASSUME ioErrors \in 0..MaxIOErrors, IOError
    PROVE  ioErrors' \in 0..MaxIOErrors /\ crashes' = crashes
BY DiskAssumption DEF IOError

\* A step of one session that leaves the directory alone and neither pays nor
\* takes on a debt of metadata.
LEMMA SessionStep ==
    ASSUME DiskInv, NEW s \in Session, NEW x \in SessionState, SessionInv(x), Become(s, x),
           session[s].pc # "renameMeta", x.pc \notin {"renameMeta", "removeMeta"},
           UNCHANGED <<data, meta, deleted, crashes>>,
           clock' \in Times, served' \in [Session -> Bodies], ServedWhole',
           skipped' \in Nat, ioErrors' \in 0..MaxIOErrors
    PROVE  DiskInv'
<1>1. /\ session' \in [Session -> SessionState]
      /\ session'[s] = x
      /\ \A r \in Session \ {s} : session'[r] = session[r]
      /\ \A r \in Session : SessionInv(session'[r])
  BY BecomeKeeps
<1>2. TypeOK' BY <1>1, Typing DEF TypeOK
<1>3. WholeInv' BY DEF DiskInv, WholeInv
<1>4. DeadInv'
  <2> SUFFICES ASSUME ~deleted, crashes = 0
               PROVE  /\ \A d \in Digest : DeadEntry(d)' =>
                            \E r \in Session : session'[r].pc = "renameMeta"
                                                /\ session'[r].digest = d
                      /\ \A r \in Session : session'[r].pc # "removeMeta"
    BY DEF DeadInv
  <2>1. /\ \A d \in Digest : DeadEntry(d) =>
              \E r \in Session : session[r].pc = "renameMeta" /\ session[r].digest = d
        /\ \A r \in Session : session[r].pc # "removeMeta"
    BY DEF DiskInv, DeadInv
  <2>2. \A d \in Digest : DeadEntry(d)' <=> DeadEntry(d) BY DEF DeadEntry, Present
  <2> QED BY <1>1, <2>1, <2>2
<1>5. \A r \in Session : SessionInv(session[r])' BY <1>1 DEF SessionInv
<1> QED BY <1>2, <1>3, <1>4, <1>5 DEF DiskInv

LEMMA ReadSteps ==
    ASSUME DiskInv, NEW s \in Session,
           \/ \E d \in Digest : Request(s, d)
           \/ ReadMeta(s) \/ OpenData(s) \/ GetFails(s) \/ StartWrite(s) \/ FetchUncached(s)
    PROVE  DiskInv'
<1>1. /\ session[s] \in SessionState /\ SessionInv(session[s])
      /\ data \in [Digest -> File] /\ clock \in Times
      /\ served \in [Session -> Bodies] /\ skipped \in Nat /\ ioErrors \in 0..MaxIOErrors
      /\ ServedWhole /\ \A d \in Digest : data[d].body # "partial"
  BY Typing DEF DiskInv, WholeInv
<1>2. CASE \E d \in Digest : Request(s, d)
  <2>1. PICK d \in Digest : Request(s, d) BY <1>2
  <2> DEFINE x == [IdleSession EXCEPT !.pc = "readMeta", !.digest = d]
  <2>2. Become(s, x) BY <2>1 DEF Request
  <2>3. x \in SessionState /\ x.pc = "readMeta" /\ x.digest = d /\ x.plan = {}
    BY IdleIsFine DEF SessionState, Stages, IdleSession
  <2> HIDE DEF x
  <2>4. SessionInv(x) BY <2>3 DEF SessionInv
  <2>5. served' \in [Session -> Bodies] /\ ServedWhole'
    BY <1>1, <2>1 DEF Request, Bodies, ServedWhole
  <2> QED BY <1>1, <2>1, <2>2, <2>3, <2>4, <2>5, SessionStep DEF Request, ghosts, bounds
<1>3. CASE ReadMeta(s)
  <2> DEFINE pc == IF session[s].digest \in meta THEN "openData" ELSE "fetch"
             x == [session[s] EXCEPT !.pc = pc]
  <2>1. Become(s, x) BY <1>3 DEF ReadMeta, Goto
  <2>2. x \in SessionState /\ x.pc = pc /\ x.digest = session[s].digest
        /\ x.plan = session[s].plan
    BY <1>1 DEF SessionState, Stages
  <2> HIDE DEF x
  <2>3. SessionInv(x) BY <1>1, <1>3, <2>2 DEF SessionInv, ReadMeta
  <2>4. ServedWhole' BY <1>1, <1>3 DEF ReadMeta, ServedWhole
  <2> QED BY <1>1, <1>3, <2>1, <2>2, <2>3, <2>4, SessionStep DEF ReadMeta, ghosts, bounds
<1>4. CASE OpenData(s) /\ session[s].digest \in Present
  <2>1. Become(s, IdleSession) /\ served' = [served EXCEPT ![s] = data[session[s].digest].body]
    BY <1>4 DEF OpenData, End
  <2>2. session[s].digest \in Digest BY <1>4 DEF Present
  <2>3. data[session[s].digest].body \in Bodies \ {"partial"} BY <1>1, <2>2 DEF File
  <2>4. served' \in [Session -> Bodies] /\ ServedWhole'
    BY <1>1, <2>1, <2>3 DEF ServedWhole
  <2>5. IdleSession.pc = "idle" BY DEF IdleSession
  <2> QED BY <1>1, <1>4, <2>1, <2>4, <2>5, IdleIsFine, SessionStep DEF OpenData, ghosts, bounds
<1>5. CASE (OpenData(s) /\ session[s].digest \notin Present) \/ GetFails(s)
  <2> DEFINE x == [session[s] EXCEPT !.pc = "fetch"]
  <2>1. Become(s, x) BY <1>5 DEF OpenData, GetFails, Goto
  <2>2. x \in SessionState /\ x.pc = "fetch" /\ x.digest = session[s].digest
        /\ x.plan = session[s].plan
    BY <1>1 DEF SessionState, Stages
  <2> HIDE DEF x
  <2>3. session[s].pc \in {"readMeta", "openData"} BY <1>5 DEF OpenData, GetFails
  <2>4. SessionInv(x) BY <1>1, <2>2, <2>3 DEF SessionInv
  <2>5. ServedWhole' /\ UNCHANGED <<data, meta, clock, served, skipped, deleted, crashes>>
    BY <1>1, <1>5, IOErrorType DEF OpenData, GetFails, ServedWhole, ghosts, bounds
  <2>6. ioErrors' \in 0..MaxIOErrors
    BY <1>1, <1>5, IOErrorType DEF OpenData, GetFails, bounds
  <2> QED BY <1>1, <2>1, <2>2, <2>3, <2>4, <2>5, <2>6, SessionStep
<1>6. CASE StartWrite(s)
  <2> DEFINE x == [session[s] EXCEPT !.pc = "stream", !.temp.body = "partial"]
  <2>1. Become(s, x) BY <1>6 DEF StartWrite
  <2>2. [session[s].temp EXCEPT !.body = "partial"] \in File
    BY <1>1 DEF SessionState, File, Bodies
  <2>3. x \in SessionState /\ x.pc = "stream" /\ x.digest = session[s].digest
        /\ x.plan = session[s].plan
    BY <1>1, <2>2 DEF SessionState, Stages
  <2> HIDE DEF x
  <2>4. SessionInv(x) BY <1>1, <1>6, <2>3 DEF SessionInv, StartWrite
  <2>5. ServedWhole' BY <1>1, <1>6 DEF StartWrite, ServedWhole
  <2> QED BY <1>1, <1>6, <2>1, <2>3, <2>4, <2>5, SessionStep DEF StartWrite, ghosts, bounds
<1>7. CASE FetchUncached(s)
  <2>1. Become(s, IdleSession) /\ IdleSession.pc = "idle"
    BY <1>7 DEF FetchUncached, End, IdleSession
  <2>2. ServedWhole' BY <1>1, <1>7 DEF FetchUncached, ServedWhole
  <2> QED BY <1>1, <1>7, <2>1, <2>2, IdleIsFine, SessionStep DEF FetchUncached, ghosts, bounds
<1> QED BY <1>2, <1>3, <1>4, <1>5, <1>6, <1>7

LEMMA WriteSteps ==
    ASSUME DiskInv, NEW s \in Session,
           ReadEOF(s) \/ Abort(s) \/ CommitStages(s) \/ StatFinal(s) \/ CommitFails(s)
    PROVE  DiskInv'
<1>1. /\ session[s] \in SessionState /\ SessionInv(session[s]) /\ clock \in Times
      /\ served \in [Session -> Bodies] /\ skipped \in Nat /\ ioErrors \in 0..MaxIOErrors
      /\ ServedWhole
  BY Typing DEF DiskInv, WholeInv
<1>2. UNCHANGED <<data, meta, served, skipped, deleted, crashes>> /\ ServedWhole'
  BY <1>1, IOErrorType DEF ReadEOF, Abort, CommitStages, StatFinal, CommitFails, ghosts, bounds,
                           ServedWhole
<1>3. ioErrors' \in 0..MaxIOErrors
  BY <1>1, IOErrorType DEF ReadEOF, Abort, CommitStages, StatFinal, CommitFails, bounds
<1>4. session[s].pc \in {"stream", "commit", "stat", "renameData"}
  BY DEF ReadEOF, Abort, CommitStages, StatFinal, CommitFails
<1>5. CASE ReadEOF(s)
  <2> DEFINE file == [body |-> "whole", time |-> clock + 1]
             x == [session[s] EXCEPT !.pc = "commit", !.temp = file]
  <2>1. Become(s, x) BY <1>5 DEF ReadEOF
  <2>2. clock' \in Times /\ clock + 1 \in Times BY <1>1, <1>5, DiskAssumption DEF ReadEOF, Times
  <2>3. file \in File BY <2>2 DEF File, Bodies
  <2>4. x \in SessionState /\ x.pc = "commit" /\ x.digest = session[s].digest
        /\ x.temp.body = "whole" /\ x.plan = session[s].plan
    BY <1>1, <2>3 DEF SessionState, Stages
  <2> HIDE DEF x, file
  <2>5. SessionInv(x) BY <1>1, <1>4, <2>4 DEF SessionInv
  <2> QED BY <1>1, <1>2, <1>3, <1>4, <2>1, <2>2, <2>4, <2>5, SessionStep
<1>6. CASE Become(s, IdleSession) /\ clock' = clock
  <2>1. IdleSession.pc = "idle" BY DEF IdleSession
  <2> QED BY <1>1, <1>2, <1>3, <1>4, <1>6, <2>1, IdleIsFine, SessionStep
<1>7. ASSUME NEW pc \in {"stat", "renameData"}, Goto(s, pc), clock' = clock,
             session[s].pc \in {"commit", "stat"}
      PROVE  DiskInv'
  <2> DEFINE x == [session[s] EXCEPT !.pc = pc]
  <2>1. Become(s, x) BY <1>7 DEF Goto
  <2>2. x \in SessionState /\ x.pc = pc /\ x.digest = session[s].digest
        /\ x.temp = session[s].temp /\ x.plan = session[s].plan
    BY <1>1 DEF SessionState, Stages
  <2> HIDE DEF x
  <2>3. SessionInv(x) BY <1>1, <1>7, <2>2 DEF SessionInv
  <2> QED BY <1>1, <1>2, <1>3, <1>4, <1>7, <2>1, <2>2, <2>3, SessionStep
<1>8. CASE Abort(s) \/ CommitFails(s) BY <1>6, <1>8 DEF Abort, CommitFails, End
<1>9. CASE CommitStages(s) BY <1>7, <1>9 DEF CommitStages
<1>10. CASE StatFinal(s) BY <1>6, <1>7, <1>10 DEF StatFinal, End
<1> QED BY <1>5, <1>8, <1>9, <1>10

LEMMA EvictStages ==
    ASSUME DiskInv, NEW s \in Session,
           \/ ListFiles(s) \/ EvictDone(s)
           \/ \E cut \in Times : InfoFiles(s, cut)
    PROVE  DiskInv'
<1>1. /\ session[s] \in SessionState /\ SessionInv(session[s]) /\ clock \in Times
      /\ data \in [Digest -> File]
      /\ served \in [Session -> Bodies] /\ skipped \in Nat /\ ioErrors \in 0..MaxIOErrors
      /\ ServedWhole
  BY Typing DEF DiskInv, WholeInv
<1>2. UNCHANGED <<data, meta, clock, served, deleted, crashes, ioErrors>> /\ ServedWhole'
  BY <1>1 DEF ListFiles, EvictDone, InfoFiles, ghosts, bounds, ServedWhole
<1>3. session[s].pc \in {"list", "info", "evict"}
  BY DEF ListFiles, EvictDone, InfoFiles
<1>4. CASE Become(s, IdleSession) /\ skipped' \in Nat
  <2>1. IdleSession.pc = "idle" BY DEF IdleSession
  <2> QED BY <1>1, <1>2, <1>3, <1>4, <2>1, IdleIsFine, SessionStep
<1>5. CASE ListFiles(s)
  <2> DEFINE x == [session[s] EXCEPT !.pc = "info", !.files = Present]
  <2>1. Become(s, x) /\ skipped' = skipped BY <1>5 DEF ListFiles, ghosts
  <2>2. Present \in SUBSET Digest BY DEF Present
  <2>3. x \in SessionState /\ x.pc = "info" /\ x.plan = session[s].plan
    BY <1>1, <2>2 DEF SessionState, Stages
  <2> HIDE DEF x
  <2>4. SessionInv(x) BY <1>1, <1>5, <2>3 DEF SessionInv, ListFiles
  <2> QED BY <1>1, <1>2, <1>3, <2>1, <2>3, <2>4, SessionStep
<1>6. CASE EvictDone(s) BY <1>1, <1>4, <1>6 DEF EvictDone, End, ghosts
<1>7. CASE \E cut \in Times : InfoFiles(s, cut)
  <2>1. PICK cut \in Times : InfoFiles(s, cut) BY <1>7
  <2> DEFINE plan == Victims(session[s].files, cut)
             x == [session[s] EXCEPT !.pc = "evict", !.files = {}, !.plan = plan]
  <2>2. CASE session[s].files \subseteq Present
    <3>1. Become(s, x) /\ skipped' = skipped BY <2>1, <2>2 DEF InfoFiles
    <3>2. plan \subseteq [digest : Digest, time : Times, expired : BOOLEAN]
      <4>1. session[s].files \subseteq Digest BY <2>2 DEF Present
      <4>2. \A d \in Digest : data[d].time \in Times BY <1>1 DEF File
      <4> SUFFICES ASSUME NEW v \in plan
                   PROVE  v \in [digest : Digest, time : Times, expired : BOOLEAN]
        OBVIOUS
      <4>3. PICK d \in session[s].files :
                v = [digest |-> d, time |-> data[d].time, expired |-> data[d].time <= cut]
        BY DEF Victims
      <4> DEFINE late == data[d].time <= cut
      <4>4. late \in BOOLEAN OBVIOUS
      <4>5. v = [digest |-> d, time |-> data[d].time, expired |-> late] BY <4>3
      <4> HIDE DEF late
      <4> QED BY <4>1, <4>2, <4>4, <4>5
    <3> HIDE DEF plan
    <3>3. x \in SessionState /\ x.pc = "evict" BY <1>1, <3>2 DEF SessionState, Stages
    <3> HIDE DEF x
    <3>4. SessionInv(x) BY <3>3 DEF SessionInv
    <3> QED BY <1>1, <1>2, <1>3, <3>1, <3>3, <3>4, SessionStep
  <2>3. CASE ~(session[s].files \subseteq Present)
    <3>1. Become(s, IdleSession) /\ skipped' = skipped + 1 BY <2>1, <2>3 DEF InfoFiles, End
    <3> QED BY <1>1, <1>4, <3>1
  <2> QED BY <2>2, <2>3
<1> QED BY <1>5, <1>6, <1>7

\* The data file gets its final name: the commit now owes the metadata.
LEMMA RenameDataStep ==
    ASSUME DiskInv, NEW s \in Session, RenameData(s)
    PROVE  DiskInv'
<1> DEFINE x == [session[s] EXCEPT !.pc = "renameMeta"]
           d == session[s].digest
<1>1. /\ session[s] \in SessionState /\ SessionInv(session[s]) /\ data \in [Digest -> File]
      /\ session[s].pc = "renameData" /\ Become(s, x)
      /\ data' = [data EXCEPT ![d] = session[s].temp]
  BY Typing DEF RenameData, Goto
<1>2. d \in Digest /\ session[s].temp.body = "whole" /\ session[s].temp \in File
  BY <1>1 DEF SessionInv, SessionState
<1>3. x \in SessionState /\ x.pc = "renameMeta" /\ x.digest = d /\ x.plan = session[s].plan
  BY <1>1 DEF SessionState, Stages
<1> HIDE DEF x
<1>4. SessionInv(x) BY <1>1, <1>2, <1>3 DEF SessionInv
<1>5. /\ session' \in [Session -> SessionState]
      /\ session'[s] = x
      /\ \A r \in Session \ {s} : session'[r] = session[r]
      /\ \A r \in Session : SessionInv(session'[r])
  BY <1>1, <1>3, <1>4, BecomeKeeps
<1>6. /\ data' \in [Digest -> File] /\ data'[d] = session[s].temp
      /\ \A e \in Digest \ {d} : data'[e] = data[e]
  BY <1>1, <1>2
<1>7. UNCHANGED <<meta, clock, served, skipped, deleted, crashes, ioErrors>>
  BY DEF RenameData, ghosts, bounds
<1>8. TypeOK' BY <1>5, <1>6, <1>7, Typing DEF TypeOK
<1>9. WholeInv' BY <1>2, <1>6, <1>7 DEF DiskInv, WholeInv, ServedWhole
<1>10. DeadInv'
  <2> SUFFICES ASSUME ~deleted, crashes = 0
               PROVE  /\ \A e \in Digest : DeadEntry(e)' =>
                            \E r \in Session : session'[r].pc = "renameMeta"
                                                /\ session'[r].digest = e
                      /\ \A r \in Session : session'[r].pc # "removeMeta"
    BY <1>7 DEF DeadInv
  <2>1. /\ \A e \in Digest : DeadEntry(e) =>
              \E r \in Session : session[r].pc = "renameMeta" /\ session[r].digest = e
        /\ \A r \in Session : session[r].pc # "removeMeta"
    BY DEF DiskInv, DeadInv
  <2>2. \A e \in Digest \ {d} : DeadEntry(e)' <=> DeadEntry(e)
    BY <1>6, <1>7 DEF DeadEntry, Present
  <2> QED BY <1>1, <1>3, <1>5, <2>1, <2>2
<1>11. \A r \in Session : SessionInv(session[r])' BY <1>5 DEF SessionInv
<1> QED BY <1>8, <1>9, <1>10, <1>11 DEF DiskInv

\* ... and pays it.
LEMMA RenameMetaStep ==
    ASSUME DiskInv, NEW s \in Session, RenameMeta(s)
    PROVE  DiskInv'
<1> DEFINE x == [session[s] EXCEPT !.pc = "list"]
           d == session[s].digest
<1>1. /\ session[s] \in SessionState /\ SessionInv(session[s])
      /\ session[s].pc = "renameMeta" /\ Become(s, x) /\ meta' = meta \cup {d}
  BY Typing DEF RenameMeta, Goto
<1>2. d \in Digest BY <1>1 DEF SessionInv
<1>3. x \in SessionState /\ x.pc = "list" /\ x.plan = session[s].plan
  BY <1>1 DEF SessionState, Stages
<1> HIDE DEF x
<1>4. SessionInv(x) BY <1>1, <1>3 DEF SessionInv
<1>5. /\ session' \in [Session -> SessionState]
      /\ session'[s] = x
      /\ \A r \in Session \ {s} : session'[r] = session[r]
      /\ \A r \in Session : SessionInv(session'[r])
  BY <1>1, <1>3, <1>4, BecomeKeeps
<1>6. UNCHANGED <<data, clock, served, skipped, deleted, crashes, ioErrors>>
  BY DEF RenameMeta, ghosts, bounds
<1>7. TypeOK' BY <1>1, <1>2, <1>5, <1>6, Typing DEF TypeOK
<1>8. WholeInv' BY <1>6 DEF DiskInv, WholeInv, ServedWhole
<1>9. DeadInv'
  <2> SUFFICES ASSUME ~deleted, crashes = 0
               PROVE  /\ \A e \in Digest : DeadEntry(e)' =>
                            \E r \in Session : session'[r].pc = "renameMeta"
                                                /\ session'[r].digest = e
                      /\ \A r \in Session : session'[r].pc # "removeMeta"
    BY <1>6 DEF DeadInv
  <2>1. /\ \A e \in Digest : DeadEntry(e) =>
              \E r \in Session : session[r].pc = "renameMeta" /\ session[r].digest = e
        /\ \A r \in Session : session[r].pc # "removeMeta"
    BY DEF DiskInv, DeadInv
  <2>2. \A e \in Digest : DeadEntry(e)' => DeadEntry(e) /\ e # d
    BY <1>1, <1>6 DEF DeadEntry, Present
  <2> QED BY <1>3, <1>5, <2>1, <2>2
<1>10. \A r \in Session : SessionInv(session[r])' BY <1>5 DEF SessionInv
<1> QED BY <1>7, <1>8, <1>9, <1>10 DEF DiskInv

\* From a removal or a crash on, dead entries may be there.
LEMMA RemovalStep ==
    ASSUME DiskInv, session' \in [Session -> SessionState],
           \A r \in Session : SessionInv(session'[r]),
           data' \in [Digest -> File], \A d \in Digest : data'[d] \in {data[d], NoFile},
           meta' \subseteq Digest, deleted' \in BOOLEAN,
           deleted' \/ crashes' # 0,
           UNCHANGED <<clock, served>>, skipped' \in Nat,
           crashes' \in 0..MaxCrashes, ioErrors' \in 0..MaxIOErrors
    PROVE  DiskInv'
<1>1. TypeOK' BY DEF DiskInv, TypeOK
<1>2. WholeInv' BY DEF DiskInv, WholeInv, ServedWhole, NoFile
<1>3. DeadInv' BY DEF DeadInv
<1>4. \A r \in Session : SessionInv(session[r])' BY DEF SessionInv
<1> QED BY <1>1, <1>2, <1>3, <1>4 DEF DiskInv

LEMMA RenameMetaFailsStep ==
    ASSUME DiskInv, NEW s \in Session, RenameMetaFails(s)
    PROVE  DiskInv'
<1>1. /\ session' \in [Session -> SessionState]
      /\ \A r \in Session : SessionInv(session'[r])
  BY IdleIsFine, BecomeKeeps DEF RenameMetaFails, End
<1>2. NoFile \in File BY DiskAssumption DEF NoFile, File, Bodies, Times
<1>3. data' \in [Digest -> File] /\ \A d \in Digest : data'[d] \in {data[d], NoFile}
  BY <1>2, Typing DEF RenameMetaFails
<1>4. crashes' \in 0..MaxCrashes /\ ioErrors' \in 0..MaxIOErrors
  BY Typing, IOErrorType DEF RenameMetaFails
<1>5. deleted' /\ UNCHANGED <<meta, clock, served, skipped>> /\ deleted' \in BOOLEAN
  BY DEF RenameMetaFails
<1>6. meta \subseteq Digest /\ skipped \in Nat BY Typing
<1> QED BY <1>1, <1>3, <1>4, <1>5, <1>6, RemovalStep

LEMMA EvictDataStep ==
    ASSUME DiskInv, NEW s \in Session, NEW f \in session[s].plan, EvictData(s, f)
    PROVE  DiskInv'
<1> DEFINE x == [session[s] EXCEPT !.pc = "removeMeta", !.victim = f.digest, !.plan = @ \ {f}]
<1>1. session[s] \in SessionState /\ data \in [Digest -> File] BY Typing
<1>2. f.digest \in Digest BY <1>1 DEF SessionState
<1>3. x \in SessionState /\ x.pc = "removeMeta" BY <1>1, <1>2 DEF SessionState, Stages
<1>4. Become(s, x) BY DEF EvictData
<1> HIDE DEF x
<1>5. SessionInv(x) BY <1>3 DEF SessionInv
<1>6. /\ session' \in [Session -> SessionState]
      /\ \A r \in Session : SessionInv(session'[r])
  BY <1>3, <1>4, <1>5, BecomeKeeps
<1>7. NoFile \in File BY DiskAssumption DEF NoFile, File, Bodies, Times
<1>8. data' \in [Digest -> File] /\ \A d \in Digest : data'[d] \in {data[d], NoFile}
  BY <1>1, <1>7 DEF EvictData
<1>9. deleted' /\ UNCHANGED <<meta, clock, served, skipped, crashes, ioErrors>>
      /\ deleted' \in BOOLEAN
  BY DEF EvictData, bounds
<1>10. /\ meta \subseteq Digest /\ skipped \in Nat
       /\ crashes \in 0..MaxCrashes /\ ioErrors \in 0..MaxIOErrors
  BY Typing
<1> QED BY <1>6, <1>8, <1>9, <1>10, RemovalStep

LEMMA EvictMetaStep ==
    ASSUME DiskInv, NEW s \in Session, EvictMeta(s)
    PROVE  DiskInv'
<1> DEFINE x == [session[s] EXCEPT !.pc = "evict", !.victim = NoDigest]
<1>1. /\ session[s] \in SessionState /\ data \in [Digest -> File]
      /\ meta \subseteq Digest /\ skipped \in Nat /\ deleted \in BOOLEAN
      /\ crashes \in 0..MaxCrashes /\ ioErrors \in 0..MaxIOErrors
  BY Typing
<1>2. x \in SessionState /\ x.pc = "evict" BY <1>1 DEF SessionState, Stages
<1>3. Become(s, x) BY DEF EvictMeta
<1> HIDE DEF x
<1>4. SessionInv(x) BY <1>2 DEF SessionInv
<1>5. /\ session' \in [Session -> SessionState]
      /\ \A r \in Session : SessionInv(session'[r])
  BY <1>2, <1>3, <1>4, BecomeKeeps
<1>6. deleted \/ crashes # 0 BY DEF EvictMeta, DiskInv, DeadInv
<1>7. meta' \subseteq Digest /\ UNCHANGED <<data, clock, served, skipped, deleted, crashes, ioErrors>>
  BY <1>1 DEF EvictMeta, ghosts, bounds
<1> QED BY <1>1, <1>5, <1>6, <1>7, RemovalStep

\* An eviction pass that fails: with a plan left it may not have removed
\* anything yet, but it owes no metadata either.
LEMMA EvictFailsStep ==
    ASSUME DiskInv, NEW s \in Session, EvictFails(s)
    PROVE  DiskInv'
<1>1. /\ session[s] \in SessionState /\ data \in [Digest -> File] /\ clock \in Times
      /\ served \in [Session -> Bodies]
      /\ meta \subseteq Digest /\ skipped \in Nat /\ deleted \in BOOLEAN
      /\ crashes \in 0..MaxCrashes /\ ioErrors \in 0..MaxIOErrors
      /\ ServedWhole
  BY Typing DEF DiskInv, WholeInv
<1>2. /\ Become(s, IdleSession) /\ skipped' \in Nat
      /\ UNCHANGED <<data, meta, clock, served, deleted>>
  BY <1>1 DEF EvictFails, End
<1>3. crashes' = crashes /\ ioErrors' \in 0..MaxIOErrors BY <1>1, IOErrorType DEF EvictFails
<1>4. session[s].pc # "renameMeta"
  BY Typing DEF EvictFails, SessionInv
<1>5. IdleSession.pc = "idle" BY DEF IdleSession
<1>6. ServedWhole' BY <1>1, <1>2 DEF ServedWhole
<1> QED BY <1>1, <1>2, <1>3, <1>4, <1>5, <1>6, IdleIsFine, SessionStep

LEMMA CrashStep ==
    ASSUME DiskInv, Crash
    PROVE  DiskInv'
<1>1. /\ session' \in [Session -> SessionState]
      /\ \A r \in Session : SessionInv(session'[r])
  BY IdleIsFine DEF Crash
<1>2. /\ data \in [Digest -> File] /\ meta \subseteq Digest /\ skipped \in Nat
      /\ deleted \in BOOLEAN /\ crashes \in 0..MaxCrashes /\ ioErrors \in 0..MaxIOErrors
  BY DEF DiskInv, TypeOK
<1>3. crashes' \in 0..MaxCrashes /\ crashes' # 0 BY <1>2, DiskAssumption DEF Crash
<1>4. UNCHANGED <<data, meta, clock, served, skipped, deleted, ioErrors>> BY DEF Crash, ghosts
<1> QED BY <1>1, <1>2, <1>3, <1>4, RemovalStep

LEMMA InitDisk == Init => DiskInv
<1> SUFFICES ASSUME Init PROVE DiskInv OBVIOUS
<1>1. NoFile \in File BY DiskAssumption DEF NoFile, File, Bodies, Times
<1>2. TypeOK
  <2>1. data \in [Digest -> File] BY <1>1 DEF Init
  <2>2. session \in [Session -> SessionState] BY IdleIsFine DEF Init
  <2>3. served \in [Session -> Bodies] BY DEF Init, Bodies
  <2>4. meta \subseteq Digest /\ deleted \in BOOLEAN /\ skipped \in Nat BY DEF Init
  <2>5. clock \in Times /\ crashes \in 0..MaxCrashes /\ ioErrors \in 0..MaxIOErrors
    BY DiskAssumption DEF Init, Times
  <2> QED BY <2>1, <2>2, <2>3, <2>4, <2>5 DEF TypeOK
<1>3. \A s \in Session : SessionInv(session[s]) BY IdleIsFine DEF Init
<1>4. WholeInv BY DEF Init, WholeInv, ServedWhole, NoFile
<1>5. DeadInv BY DEF Init, DeadInv, DeadEntry, Present, IdleSession
<1> QED BY <1>2, <1>3, <1>4, <1>5 DEF DiskInv

LEMMA NextDisk == ASSUME DiskInv, [Next]_vars PROVE DiskInv'
<1>1. ASSUME NEW s \in Session,
             \/ \E d \in Digest : Request(s, d)
             \/ ReadMeta(s) \/ OpenData(s) \/ GetFails(s) \/ StartWrite(s) \/ FetchUncached(s)
      PROVE  DiskInv'
  BY <1>1, ReadSteps
<1>2. ASSUME NEW s \in Session,
             ReadEOF(s) \/ Abort(s) \/ CommitStages(s) \/ StatFinal(s) \/ CommitFails(s)
      PROVE  DiskInv'
  BY <1>2, WriteSteps
<1>3. ASSUME NEW s \in Session,
             ListFiles(s) \/ EvictDone(s) \/ \E cut \in Times : InfoFiles(s, cut)
      PROVE  DiskInv'
  BY <1>3, EvictStages
<1>4. ASSUME NEW s \in Session, RenameData(s) PROVE DiskInv' BY <1>4, RenameDataStep
<1>5. ASSUME NEW s \in Session, RenameMeta(s) PROVE DiskInv' BY <1>5, RenameMetaStep
<1>6. ASSUME NEW s \in Session, RenameMetaFails(s) PROVE DiskInv'
  BY <1>6, RenameMetaFailsStep
<1>7. ASSUME NEW s \in Session, \E f \in session[s].plan : EvictData(s, f) PROVE DiskInv'
  BY <1>7, EvictDataStep
<1>8. ASSUME NEW s \in Session, EvictMeta(s) PROVE DiskInv' BY <1>8, EvictMetaStep
<1>9. ASSUME NEW s \in Session, EvictFails(s) PROVE DiskInv' BY <1>9, EvictFailsStep
<1>10. CASE Crash BY <1>10, CrashStep
<1>11. CASE UNCHANGED vars
  <2> USE <1>11 DEF vars
  <2>1. TypeOK' BY DEF DiskInv, TypeOK
  <2>2. \A s \in Session : SessionInv(session[s])' BY DEF DiskInv, SessionInv
  <2>3. WholeInv' BY DEF DiskInv, WholeInv, ServedWhole
  <2>4. DeadInv' BY DEF DiskInv, DeadInv, DeadEntry, Present
  <2> QED BY <2>1, <2>2, <2>3, <2>4 DEF DiskInv
<1> QED BY <1>1, <1>2, <1>3, <1>4, <1>5, <1>6, <1>7, <1>8, <1>9, <1>10, <1>11 DEF Next, Step

\* A body is followed from the stream to its final name (disk.go).
THEOREM DiskInvariance == Spec => []DiskInv
<1>1. Init => DiskInv BY InitDisk
<1>2. DiskInv /\ [Next]_vars => DiskInv' BY NextDisk
<1> QED BY <1>1, <1>2, PTL DEF Spec

\* Sessions, files and eviction plans of the cache keep their shape (disk.go).
THEOREM DiskTypeCorrect == Spec => []TypeOK
<1>1. DiskInv => TypeOK BY DEF DiskInv
<1> QED BY <1>1, DiskInvariance, PTL

\* However fills, evictions, aborts and crashes interleave, no partial body is
\* served from the cache (disk.go, Commit and Get).
THEOREM OnlyWholeBodiesServed == Spec => []ServedWhole
<1>1. DiskInv => ServedWhole BY DEF DiskInv, WholeInv
<1> QED BY <1>1, DiskInvariance, PTL

\* Overlapping commits alone never leave a data file that no reader finds
\* (disk.go, Commit and its two renames).
THEOREM CommitsCompleteEntries == Spec => []CommitsLeaveNoDeadEntry
<1>1. DiskInv => CommitsLeaveNoDeadEntry
  BY DEF DiskInv, DeadInv, CommitsLeaveNoDeadEntry, Quiescent
<1> QED BY <1>1, DiskInvariance, PTL

-----------------------------------------------------------------------------
(* The size of the scope.  A pass that lists the scope after all others    *)
(* and completes leaves at most MaxEntries of what it listed; what came    *)
(* later is owed by commits whose pass is still to come, or by passes that *)
(* ended with an error.  Which pass listed last is no part of the state:   *)
(* some order of the listings accounts for every entry.                    *)

Few(S, n) == IsFiniteSet(S) /\ Cardinality(S) <= n

\* Entries whose commit is between its two renames, and may take them back.
Unpaired == {d \in Digest : \E s \in Session :
                               session[s].pc = "renameMeta" /\ session[s].digest = d}
Settled == Present \ Unpaired

PassStages == {"info", "evict", "removeMeta"}
EvictingStages == {"evict", "removeMeta"}

\* Sessions with a pass to come or under way.
Busy == {s \in Session : session[s].pc \in {"list"} \cup PassStages}

\* Those of them that list, or listed, the scope after the n-th listing.
Charged(rank, n) ==
    {s \in Session : \/ session[s].pc = "list"
                     \/ session[s].pc \in PassStages /\ rank[s] > n}

\* What a pass that has listed the scope will leave, if it completes.
PassInv(x, settled, spare) ==
    /\ x.pc = "info" => Few(settled \ x.files, spare)
    /\ x.pc \in EvictingStages => Few(settled \ {f.digest : f \in x.plan}, MaxEntries + spare)

\* `last` is the latest listing among the completed passes.
Accounts(rank, last) ==
    /\ Few(Settled, MaxEntries + (skipped + Cardinality(Charged(rank, last))))
    /\ \A s \in Session : session[s].pc \in PassStages /\ rank[s] > last =>
          PassInv(session[s], Settled, skipped + Cardinality(Charged(rank, rank[s])))

\* top is the number of the next listing.
Ranked(rank, last, top) ==
    /\ last < top
    /\ \A s \in Session : session[s].pc \in PassStages => rank[s] < top

OvershootInv ==
    crashes = 0 =>
        /\ IsFiniteSet(Present) /\ IsFiniteSet(Busy)
        /\ \E rank \in [Session -> Nat], last \in Nat, top \in Nat :
              Ranked(rank, last, top) /\ Accounts(rank, last)

-----------------------------------------------------------------------------
LEMMA FewSubset ==
    ASSUME NEW S, NEW T, NEW m \in Nat, NEW n \in Nat, Few(S, m), T \subseteq S, m <= n
    PROVE  Few(T, n)
<1>1. IsFiniteSet(S) /\ Cardinality(S) <= m BY DEF Few
<1>2. T \in SUBSET S OBVIOUS
<1>3. IsFiniteSet(T) /\ Cardinality(T) <= Cardinality(S) BY <1>1, <1>2, FS_Subset
<1>4. Cardinality(S) \in Nat /\ Cardinality(T) \in Nat BY <1>1, <1>3, FS_CardinalityType
<1> QED BY <1>1, <1>3, <1>4 DEF Few

LEMMA FewAndOne ==
    ASSUME NEW S, NEW T, NEW x, NEW n \in Nat, Few(S, n), T \subseteq S \cup {x}
    PROVE  Few(T, n + 1)
<1>1. IsFiniteSet(S) /\ Cardinality(S) <= n BY DEF Few
<1>2. Cardinality(S) \in Nat BY <1>1, FS_CardinalityType
<1>3. /\ IsFiniteSet(S \cup {x})
      /\ Cardinality(S \cup {x}) = IF x \in S THEN Cardinality(S) ELSE Cardinality(S) + 1
  BY <1>1, FS_AddElement
<1>4. Few(S \cup {x}, n + 1) BY <1>1, <1>2, <1>3 DEF Few
<1>5. n + 1 \in Nat /\ n + 1 <= n + 1 OBVIOUS
<1> QED BY <1>4, <1>5, FewSubset

LEMMA FewUnion ==
    ASSUME NEW S, NEW T, NEW U, NEW m \in Nat, NEW n \in Nat, Few(S, m), Few(T, n),
           U \subseteq S \cup T
    PROVE  Few(U, m + n)
<1>1. IsFiniteSet(S) /\ IsFiniteSet(T) /\ Cardinality(S) <= m /\ Cardinality(T) <= n BY DEF Few
<1>2. /\ IsFiniteSet(S \cup T) /\ IsFiniteSet(S \cap T)
      /\ Cardinality(S \cup T) = Cardinality(S) + Cardinality(T) - Cardinality(S \cap T)
  BY <1>1, FS_Union, FS_Intersection
<1>3. Cardinality(S) \in Nat /\ Cardinality(T) \in Nat /\ Cardinality(S \cap T) \in Nat
  BY <1>1, <1>2, FS_CardinalityType
<1>4. Few(S \cup T, m + n) BY <1>1, <1>2, <1>3 DEF Few
<1>5. m + n \in Nat /\ m + n <= m + n OBVIOUS
<1> QED BY <1>4, <1>5, FewSubset

LEMMA FewOfNone ==
    ASSUME NEW n \in Nat
    PROVE  Few({}, n)
BY FS_EmptySet DEF Few

LEMMA Least ==
    ASSUME NEW T, T \subseteq Nat, T # {}
    PROVE  \E x \in T : \A y \in T : x <= y
<1>1. IsWellFoundedOn(OpToRel(<, Nat), Nat) BY NatLessThanWellFounded
<1> DEFINE R == OpToRel(<, Nat)
<1>2. \A x, y \in Nat : x < y => <<x, y>> \in R BY DEF OpToRel
<1>3. IsWellFoundedOn(R, Nat) BY <1>1
<1> HIDE DEF R
<1>4. PICK x \in T : \A y \in T : <<y, x>> \notin R BY <1>3, WFMin
<1>5. ASSUME NEW y \in T PROVE x <= y
  <2>1. x \in Nat /\ y \in Nat /\ <<y, x>> \notin R BY <1>4
  <2>2. ~(y < x) BY <1>2, <2>1
  <2> QED BY <2>1, <2>2
<1> QED BY <1>5

\* What a pass spares of the files it listed is within the limit, whatever
\* the age limit adds to its plan: all of it is at least as new as the oldest
\* file it spares (enforceCapacityLimits).
LEMMA SparedFew ==
    ASSUME data \in [Digest -> File], NEW F, F \subseteq Digest, IsFiniteSet(F),
           NEW cut \in Times
    PROVE  Few(F \ {f.digest : f \in Victims(F, cut)}, MaxEntries)
<1> DEFINE V == Victims(F, cut)
           K == F \ {f.digest : f \in V}
           Kept(d) == {e \in F : data[e].time >= data[d].time}
<1>1. MaxEntries \in Nat BY DiskAssumption
<1>2. \A d \in Digest : data[d].time \in Nat BY DiskAssumption DEF File, Times
<1>3. ASSUME NEW d \in K PROVE Few(Kept(d), MaxEntries)
  <2>1. ~(data[d].time <= cut \/ CapacityExceeded(Cardinality(Kept(d))))
    <3> SUFFICES ASSUME data[d].time <= cut \/ CapacityExceeded(Cardinality(Kept(d)))
                 PROVE  FALSE
      OBVIOUS
    <3> DEFINE v == [digest |-> d, time |-> data[d].time, expired |-> data[d].time <= cut]
    <3>1. d \in F BY <1>3
    <3>2. v \in V BY <3>1 DEF Victims
    <3>3. v.digest = d OBVIOUS
    <3> HIDE DEF v, V
    <3> QED BY <1>3, <3>2, <3>3
  <2>2. Kept(d) \in SUBSET F OBVIOUS
  <2>3. IsFiniteSet(Kept(d)) BY <2>2, FS_Subset
  <2>4. Cardinality(Kept(d)) \in Nat BY <2>3, FS_CardinalityType
  <2> HIDE DEF Kept
  <2> QED BY <1>1, <2>1, <2>3, <2>4 DEF CapacityExceeded, Few
<1>4. CASE K = {} BY <1>1, <1>4, FewOfNone
<1>5. CASE K # {}
  <2> DEFINE T == {data[d].time : d \in K}
  <2>1. K \subseteq Digest OBVIOUS
  <2>2. T \subseteq Nat /\ T # {}
    <3> HIDE DEF K
    <3> QED BY <1>2, <1>5, <2>1
  <2> HIDE DEF K
  <2>3. PICK t \in T : \A y \in T : t <= y
    <3> HIDE DEF T
    <3> QED BY <2>2, Least
  <2>4. PICK d \in K : t = data[d].time OBVIOUS
  <2>5. \A e \in K : t <= data[e].time BY <2>3
  <2>6. K \subseteq F BY DEF K
  <2>7. K \subseteq Kept(d)
    <3> SUFFICES ASSUME NEW e \in K PROVE e \in Kept(d) OBVIOUS
    <3>1. e \in Digest /\ d \in Digest /\ data[e].time \in Nat /\ data[d].time \in Nat
      BY <1>2, <2>1, <2>4
    <3> QED BY <2>4, <2>5, <2>6, <3>1
  <2> HIDE DEF Kept
  <2>8. Few(Kept(d), MaxEntries) BY <1>3, <2>4
  <2>9. MaxEntries <= MaxEntries BY <1>1
  <2>10. Few(K, MaxEntries) BY <1>1, <2>7, <2>8, <2>9, FewSubset
  <2> QED BY <2>10 DEF K
<1> QED BY <1>4, <1>5

LEMMA PassMonotone ==
    ASSUME NEW x, NEW S, NEW T, NEW m \in Nat, NEW n \in Nat, PassInv(x, S, m),
           T \subseteq S, m <= n
    PROVE  PassInv(x, T, n)
<1>1. MaxEntries + m \in Nat /\ MaxEntries + n \in Nat /\ MaxEntries + m <= MaxEntries + n
  BY DiskAssumption
<1>2. ASSUME x.pc = "info" PROVE Few(T \ x.files, n)
  <2>1. Few(S \ x.files, m) BY <1>2 DEF PassInv
  <2>2. T \ x.files \subseteq S \ x.files OBVIOUS
  <2> QED BY <2>1, <2>2, FewSubset
<1>3. ASSUME x.pc \in EvictingStages
      PROVE  Few(T \ {f.digest : f \in x.plan}, MaxEntries + n)
  <2> DEFINE D == {f.digest : f \in x.plan}
  <2>1. Few(S \ D, MaxEntries + m) BY <1>3 DEF PassInv
  <2>2. T \ D \subseteq S \ D OBVIOUS
  <2> HIDE DEF D
  <2>3. Few(T \ D, MaxEntries + n) BY <1>1, <2>1, <2>2, FewSubset
  <2> QED BY <2>3 DEF D
<1> QED BY <1>2, <1>3 DEF PassInv

\* A pass cannot have counted an entry that was not there yet.
LEMMA PassAndOne ==
    ASSUME NEW x, NEW S, NEW T, NEW d, NEW n \in Nat, PassInv(x, S, n), T \subseteq S \cup {d}
    PROVE  PassInv(x, T, n + 1)
<1>1. MaxEntries + n \in Nat /\ (MaxEntries + n) + 1 = MaxEntries + (n + 1) BY DiskAssumption
<1>2. ASSUME x.pc = "info" PROVE Few(T \ x.files, n + 1)
  <2>1. Few(S \ x.files, n) BY <1>2 DEF PassInv
  <2>2. T \ x.files \subseteq (S \ x.files) \cup {d} OBVIOUS
  <2> QED BY <2>1, <2>2, FewAndOne
<1>3. ASSUME x.pc \in EvictingStages
      PROVE  Few(T \ {f.digest : f \in x.plan}, MaxEntries + (n + 1))
  <2> DEFINE D == {f.digest : f \in x.plan}
  <2>1. Few(S \ D, MaxEntries + n) BY <1>3 DEF PassInv
  <2>2. T \ D \subseteq (S \ D) \cup {d} OBVIOUS
  <2> HIDE DEF D
  <2>3. Few(T \ D, (MaxEntries + n) + 1) BY <1>1, <2>1, <2>2, FewAndOne
  <2>4. Few(T \ D, MaxEntries + (n + 1)) BY <1>1, <2>3
  <2> QED BY <2>4 DEF D
<1> QED BY <1>2, <1>3 DEF PassInv

LEMMA ChargedFinite ==
    ASSUME IsFiniteSet(Busy), NEW rank, NEW n
    PROVE  IsFiniteSet(Charged(rank, n)) /\ Cardinality(Charged(rank, n)) \in Nat
<1>1. Charged(rank, n) \in SUBSET Busy BY DEF Charged, Busy
<1>2. IsFiniteSet(Charged(rank, n)) BY <1>1, FS_Subset
<1> QED BY <1>2, FS_CardinalityType

\* The facts about the charges that a step must keep: entries may go, the
\* spare room of every pass may only grow, and a pass under way stays as it
\* is or comes closer to its end.
LEMMA AccountsKept ==
    ASSUME DiskInv, NEW rank \in [Session -> Nat], NEW last \in Nat, NEW top \in Nat,
           IsFiniteSet(Busy), IsFiniteSet(Present),
           Ranked(rank, last, top), Accounts(rank, last),
           Settled' \subseteq Settled, Present' \subseteq Present \/ IsFiniteSet(Present'),
           Busy' \subseteq Busy, skipped' \in Nat,
           \A n \in Nat : skipped + Cardinality(Charged(rank, n))
                            <= skipped' + Cardinality(Charged(rank, n)'),
           \A t \in Session : session'[t].pc \in PassStages =>
               /\ session[t].pc \in PassStages
               /\ \A n \in Nat : PassInv(session[t], Settled, n)
                                     => PassInv(session'[t], Settled', n)
    PROVE  OvershootInv'
<1>1. IsFiniteSet(Busy)'
  <2>1. Busy' \in SUBSET Busy OBVIOUS
  <2> QED BY <2>1, FS_Subset
<1>2. IsFiniteSet(Present)'
  <2>1. CASE Present' \subseteq Present
    <3>1. Present' \in SUBSET Present BY <2>1
    <3> QED BY <3>1, FS_Subset
  <2> QED BY <2>1
<1>3. skipped \in Nat /\ MaxEntries \in Nat BY DiskAssumption DEF DiskInv, TypeOK
<1>4. \A n \in Nat : /\ Cardinality(Charged(rank, n)) \in Nat
                     /\ Cardinality(Charged(rank, n)') \in Nat
  <2>1. \A n \in Nat : Cardinality(Charged(rank, n)) \in Nat BY ChargedFinite
  <2>2. ASSUME NEW n \in Nat PROVE Cardinality(Charged(rank, n)') \in Nat
    <3>1. Charged(rank, n)' \in SUBSET Busy' BY DEF Charged, Busy
    <3>2. IsFiniteSet(Charged(rank, n)') BY <1>1, <3>1, FS_Subset
    <3> QED BY <3>2, FS_CardinalityType
  <2> QED BY <2>1, <2>2
<1>5. Ranked(rank, last, top)' BY DEF Ranked
<1>6. Accounts(rank, last)'
  <2>1. Few(Settled, MaxEntries + (skipped + Cardinality(Charged(rank, last)))) BY DEF Accounts
  <2> DEFINE m == MaxEntries + (skipped + Cardinality(Charged(rank, last)))
             n == MaxEntries + (skipped' + Cardinality(Charged(rank, last)'))
  <2>2. m \in Nat /\ n \in Nat /\ m <= n BY <1>3, <1>4
  <2>3. Few(Settled, m) BY <2>1
  <2> HIDE DEF m, n
  <2>4. Few(Settled', n) BY <2>2, <2>3, FewSubset
  <2>5. Few(Settled', MaxEntries + (skipped' + Cardinality(Charged(rank, last)'))) BY <2>4 DEF n
  <2>6. ASSUME NEW t \in Session, session'[t].pc \in PassStages, rank[t] > last
        PROVE  PassInv(session'[t], Settled', skipped' + Cardinality(Charged(rank, rank[t])'))
    <3>1. session[t].pc \in PassStages /\ rank[t] \in Nat BY <2>6
    <3> DEFINE k == skipped + Cardinality(Charged(rank, rank[t]))
               l == skipped' + Cardinality(Charged(rank, rank[t])')
    <3>2. PassInv(session[t], Settled, k) BY <2>6, <3>1 DEF Accounts
    <3>3. k \in Nat /\ l \in Nat /\ k <= l BY <1>3, <1>4, <3>1
    <3> HIDE DEF k, l
    <3>4. PassInv(session'[t], Settled', k) BY <2>6, <3>2, <3>3
    <3>5. Settled' \subseteq Settled' OBVIOUS
    <3>6. PassInv(session'[t], Settled', l) BY <3>3, <3>4, <3>5, PassMonotone
    <3> QED BY <3>6 DEF l
  <2> QED BY <2>5, <2>6 DEF Accounts
<1> QED BY <1>1, <1>2, <1>5, <1>6 DEF OvershootInv

LEMMA SettledSame ==
    ASSUME NEW s \in Session, \A t \in Session \ {s} : session'[t] = session[t],
           session[s].pc # "renameMeta", session'[s].pc # "renameMeta"
    PROVE  /\ Unpaired' = Unpaired
           /\ data' = data => Settled' = Settled /\ Present' = Present
<1>1. \A t \in Session, d \in Digest :
         (session'[t].pc = "renameMeta" /\ session'[t].digest = d)
            <=> (session[t].pc = "renameMeta" /\ session[t].digest = d)
  <2> TAKE t \in Session, d \in Digest
  <2>1. CASE t = s BY <2>1
  <2>2. CASE t # s BY <2>2
  <2> QED BY <2>1, <2>2
<1>2. Unpaired' = Unpaired BY <1>1 DEF Unpaired
<1> QED BY <1>2 DEF Settled, Present

\* A session outside the eviction pass.
LEMMA OutsideStep ==
    ASSUME DiskInv, OvershootInv, NEW s \in Session,
           \A t \in Session \ {s} : session'[t] = session[t],
           session[s].pc \notin {"list"} \cup PassStages,
           session'[s].pc \notin {"list"} \cup PassStages,
           Settled' \subseteq Settled, IsFiniteSet(Present) => IsFiniteSet(Present'),
           skipped' = skipped, crashes' = crashes
    PROVE  OvershootInv'
<1> SUFFICES ASSUME crashes = 0 PROVE OvershootInv' BY DEF OvershootInv
<1>1. PICK rank \in [Session -> Nat], last \in Nat, top \in Nat :
          Ranked(rank, last, top) /\ Accounts(rank, last)
  BY DEF OvershootInv
<1>2. IsFiniteSet(Busy) /\ IsFiniteSet(Present) BY DEF OvershootInv
<1>3. \A t \in Session : \/ session'[t] = session[t]
                         \/ /\ session[t].pc \notin {"list"} \cup PassStages
                            /\ session'[t].pc \notin {"list"} \cup PassStages
  OBVIOUS
<1>4. Busy' = Busy BY <1>3 DEF Busy
<1>5. ASSUME NEW n \in Nat PROVE Charged(rank, n)' = Charged(rank, n)
  BY <1>3 DEF Charged
<1>6. skipped \in Nat BY DEF DiskInv, TypeOK
<1>7. \A n \in Nat : Cardinality(Charged(rank, n)) \in Nat BY <1>2, ChargedFinite
<1>8. \A n \in Nat : skipped + Cardinality(Charged(rank, n))
                        <= skipped' + Cardinality(Charged(rank, n)')
  BY <1>5, <1>6, <1>7
<1>9. ASSUME NEW t \in Session, session'[t].pc \in PassStages
      PROVE  /\ session[t].pc \in PassStages
             /\ \A n \in Nat : PassInv(session[t], Settled, n)
                                   => PassInv(session'[t], Settled', n)
  <2>1. session'[t] = session[t] BY <1>3, <1>9
  <2>2. ASSUME NEW n \in Nat, PassInv(session[t], Settled, n)
        PROVE  PassInv(session'[t], Settled', n)
    <3>1. n <= n OBVIOUS
    <3> QED BY <2>1, <2>2, <3>1, PassMonotone
  <2> QED BY <1>9, <2>1, <2>2
<1> QED BY <1>1, <1>2, <1>4, <1>6, <1>8, <1>9, AccountsKept

\* A pass removes one more file, or the metadata of one.
LEMMA EvictingStep ==
    ASSUME DiskInv, OvershootInv, NEW s \in Session,
           \A t \in Session \ {s} : session'[t] = session[t],
           session[s].pc \in EvictingStages, session'[s].pc \in EvictingStages,
           Present' \subseteq Present, Settled' \subseteq Settled,
           Settled' \ {f.digest : f \in session'[s].plan}
               \subseteq Settled \ {f.digest : f \in session[s].plan},
           skipped' = skipped, crashes' = crashes
    PROVE  OvershootInv'
<1> SUFFICES ASSUME crashes = 0 PROVE OvershootInv' BY DEF OvershootInv
<1>1. PICK rank \in [Session -> Nat], last \in Nat, top \in Nat :
          Ranked(rank, last, top) /\ Accounts(rank, last)
  BY DEF OvershootInv
<1>2. IsFiniteSet(Busy) /\ IsFiniteSet(Present) BY DEF OvershootInv
<1>3. \A t \in Session : \/ session'[t] = session[t]
                         \/ /\ session[t].pc \in PassStages /\ session[t].pc # "list"
                            /\ session'[t].pc \in PassStages /\ session'[t].pc # "list"
  BY DEF EvictingStages, PassStages
<1>4. Busy' = Busy BY <1>3 DEF Busy
<1>5. ASSUME NEW n \in Nat PROVE Charged(rank, n)' = Charged(rank, n)
  BY <1>3 DEF Charged
<1>6. skipped \in Nat BY DEF DiskInv, TypeOK
<1>7. \A n \in Nat : Cardinality(Charged(rank, n)) \in Nat BY <1>2, ChargedFinite
<1>8. \A n \in Nat : skipped + Cardinality(Charged(rank, n))
                        <= skipped' + Cardinality(Charged(rank, n)')
  BY <1>5, <1>6, <1>7
<1>9. ASSUME NEW t \in Session, session'[t].pc \in PassStages
      PROVE  /\ session[t].pc \in PassStages
             /\ \A n \in Nat : PassInv(session[t], Settled, n)
                                   => PassInv(session'[t], Settled', n)
  <2>1. session[t].pc \in PassStages BY <1>3, <1>9
  <2>2. ASSUME NEW n \in Nat, PassInv(session[t], Settled, n)
        PROVE  PassInv(session'[t], Settled', n)
    <3>1. CASE t # s
      <4>1. session'[t] = session[t] /\ n <= n BY <3>1
      <4> QED BY <2>2, <4>1, PassMonotone
    <3>2. CASE t = s
      <4> DEFINE C == {f.digest : f \in session[s].plan}
                 D == {f.digest : f \in session'[s].plan}
      <4>1. Few(Settled \ C, MaxEntries + n) BY <2>2, <3>2 DEF PassInv
      <4>2. Settled' \ D \subseteq Settled \ C OBVIOUS
      <4>3. MaxEntries + n \in Nat /\ MaxEntries + n <= MaxEntries + n BY DiskAssumption
      <4> HIDE DEF C, D
      <4>4. Few(Settled' \ D, MaxEntries + n) BY <4>1, <4>2, <4>3, FewSubset
      <4>5. session'[s].pc # "info" BY DEF EvictingStages
      <4> QED BY <3>2, <4>4, <4>5 DEF PassInv, D
    <3> QED BY <3>1, <3>2
  <2> QED BY <2>1, <2>2
<1> QED BY <1>1, <1>2, <1>4, <1>6, <1>8, <1>9, AccountsKept

\* A pass that ends with an error is counted in `skipped`.
LEMMA FailedPass ==
    ASSUME DiskInv, OvershootInv, NEW s \in Session,
           \A t \in Session \ {s} : session'[t] = session[t],
           session[s].pc \in PassStages, session'[s].pc = "idle",
           data' = data, skipped' = skipped + 1, crashes' = crashes
    PROVE  OvershootInv'
<1> SUFFICES ASSUME crashes = 0 PROVE OvershootInv' BY DEF OvershootInv
<1>1. PICK rank \in [Session -> Nat], last \in Nat, top \in Nat :
          Ranked(rank, last, top) /\ Accounts(rank, last)
  BY DEF OvershootInv
<1>2. IsFiniteSet(Busy) /\ IsFiniteSet(Present) BY DEF OvershootInv
<1>3. Settled' = Settled /\ Present' = Present BY SettledSame DEF PassStages
<1>4. session'[s].pc \notin {"list"} \cup PassStages BY DEF PassStages
<1>5. Busy' \subseteq Busy BY <1>4 DEF Busy
<1>6. skipped \in Nat /\ skipped' \in Nat BY DEF DiskInv, TypeOK
<1>7. ASSUME NEW n \in Nat
      PROVE  skipped + Cardinality(Charged(rank, n)) <= skipped' + Cardinality(Charged(rank, n)')
  <2> DEFINE C == Charged(rank, n)
             D == Charged(rank, n)'
  <2>1. C \subseteq D \cup {s}
    <3> SUFFICES ASSUME NEW t \in C, t # s PROVE t \in D OBVIOUS
    <3>1. t \in Session /\ session'[t] = session[t] BY DEF Charged
    <3> QED BY <3>1 DEF Charged
  <2>2. IsFiniteSet(C) /\ Cardinality(C) \in Nat BY <1>2, ChargedFinite
  <2>3. D \in SUBSET Busy
    <3>1. D \subseteq Busy' BY DEF Charged, Busy
    <3> QED BY <1>5, <3>1
  <2> HIDE DEF C, D
  <2>4. IsFiniteSet(D) BY <1>2, <2>3, FS_Subset
  <2>5. Cardinality(D) \in Nat BY <2>4, FS_CardinalityType
  <2>6. Few(D, Cardinality(D)) BY <2>4, <2>5 DEF Few
  <2>7. Few(C, Cardinality(D) + 1) BY <2>1, <2>5, <2>6, FewAndOne
  <2>8. skipped + Cardinality(C) <= skipped' + Cardinality(D)
    BY <1>6, <2>2, <2>5, <2>7 DEF Few
  <2> QED BY <2>8 DEF C, D
<1>8. ASSUME NEW t \in Session, session'[t].pc \in PassStages
      PROVE  /\ session[t].pc \in PassStages
             /\ \A n \in Nat : PassInv(session[t], Settled, n)
                                   => PassInv(session'[t], Settled', n)
  <2>1. t # s BY <1>4, <1>8
  <2>2. session'[t] = session[t] BY <2>1
  <2> QED BY <1>3, <1>8, <2>2
<1> QED BY <1>1, <1>2, <1>3, <1>5, <1>6, <1>7, <1>8, AccountsKept

\* A commit is complete: its entry counts, and its pass is still to come.
LEMMA RenameMetaCount ==
    ASSUME DiskInv, OvershootInv, NEW s \in Session,
           \A t \in Session \ {s} : session'[t] = session[t],
           session[s].pc = "renameMeta", session'[s].pc = "list",
           data' = data, skipped' = skipped, crashes' = crashes
    PROVE  OvershootInv'
<1> SUFFICES ASSUME crashes = 0 PROVE OvershootInv' BY DEF OvershootInv
<1>1. PICK rank \in [Session -> Nat], last \in Nat, top \in Nat :
          Ranked(rank, last, top) /\ Accounts(rank, last)
  BY DEF OvershootInv
<1>2. IsFiniteSet(Busy) /\ IsFiniteSet(Present) BY DEF OvershootInv
<1> DEFINE d == session[s].digest
<1>3. Present' = Present BY DEF Present
<1>4. Settled' \subseteq Settled \cup {d}
  <2> SUFFICES ASSUME NEW e \in Settled', e # d PROVE e \in Settled OBVIOUS
  <2>1. e \in Present /\ e \in Digest /\ e \notin Unpaired' BY <1>3 DEF Settled, Present
  <2>2. e \notin Unpaired
    <3> SUFFICES ASSUME NEW t \in Session, session[t].pc = "renameMeta", session[t].digest = e
                 PROVE  FALSE
      BY DEF Unpaired
    <3>1. t # s OBVIOUS
    <3> QED BY <2>1, <3>1 DEF Unpaired
  <2> QED BY <2>1, <2>2 DEF Settled
<1> HIDE DEF d
<1>5. IsFiniteSet(Busy)'
  <2>1. Busy' = Busy \cup {s} BY DEF Busy, PassStages
  <2> QED BY <1>2, <2>1, FS_AddElement
<1>6. skipped \in Nat /\ MaxEntries \in Nat BY DiskAssumption DEF DiskInv, TypeOK
<1>7. ASSUME NEW n \in Nat
      PROVE  /\ Cardinality(Charged(rank, n)) \in Nat
             /\ Cardinality(Charged(rank, n)') = Cardinality(Charged(rank, n)) + 1
  <2>1. s \notin Charged(rank, n) BY DEF Charged, PassStages
  <2>2. Charged(rank, n)' = Charged(rank, n) \cup {s} BY DEF Charged, PassStages
  <2>3. IsFiniteSet(Charged(rank, n)) /\ Cardinality(Charged(rank, n)) \in Nat
    BY <1>2, ChargedFinite
  <2> QED BY <2>1, <2>2, <2>3, FS_AddElement
<1>8. Ranked(rank, last, top)' BY <1>1 DEF Ranked, PassStages
<1>9. Accounts(rank, last)'
  <2> DEFINE m == MaxEntries + (skipped + Cardinality(Charged(rank, last)))
             n == MaxEntries + (skipped' + Cardinality(Charged(rank, last)'))
  <2>1. m \in Nat /\ n = m + 1 BY <1>6, <1>7
  <2>2. Few(Settled, m) BY <1>1 DEF Accounts
  <2> HIDE DEF m
  <2>3. Few(Settled', m + 1) BY <1>4, <2>1, <2>2, FewAndOne
  <2>4. Few(Settled', n) BY <2>1, <2>3
  <2>5. ASSUME NEW t \in Session, session'[t].pc \in PassStages, rank[t] > last
        PROVE  PassInv(session'[t], Settled', skipped' + Cardinality(Charged(rank, rank[t])'))
    <3>1. t # s BY <2>5 DEF PassStages
    <3>2. session'[t] = session[t] /\ rank[t] \in Nat BY <3>1
    <3> DEFINE k == skipped + Cardinality(Charged(rank, rank[t]))
               l == skipped' + Cardinality(Charged(rank, rank[t])')
    <3>3. PassInv(session[t], Settled, k) BY <1>1, <2>5, <3>2 DEF Accounts
    <3>4. k \in Nat /\ l = k + 1 BY <1>6, <1>7, <3>2
    <3> HIDE DEF k
    <3>5. PassInv(session[t], Settled', k + 1) BY <1>4, <3>3, <3>4, PassAndOne
    <3> QED BY <3>2, <3>4, <3>5
  <2> QED BY <2>4, <2>5 DEF Accounts
<1> QED BY <1>1, <1>2, <1>3, <1>5, <1>8, <1>9 DEF OvershootInv

\* The latest listing sees every entry there is.
LEMMA ListFilesCount ==
    ASSUME DiskInv, OvershootInv, NEW s \in Session,
           \A t \in Session \ {s} : session'[t] = session[t],
           session[s].pc = "list", session'[s].pc = "info", session'[s].files = Present,
           data' = data, skipped' = skipped, crashes' = crashes
    PROVE  OvershootInv'
<1> SUFFICES ASSUME crashes = 0 PROVE OvershootInv' BY DEF OvershootInv
<1>1. PICK rank \in [Session -> Nat], last \in Nat, top \in Nat :
          Ranked(rank, last, top) /\ Accounts(rank, last)
  BY DEF OvershootInv
<1>2. IsFiniteSet(Busy) /\ IsFiniteSet(Present) BY DEF OvershootInv
<1>3. Settled' = Settled /\ Present' = Present BY SettledSame
<1>4. Busy' = Busy BY DEF Busy, PassStages
<1>5. skipped \in Nat /\ MaxEntries \in Nat BY DiskAssumption DEF DiskInv, TypeOK
<1> DEFINE next == [rank EXCEPT ![s] = top]
<1>6. /\ next \in [Session -> Nat] /\ next[s] = top
      /\ \A t \in Session \ {s} : next[t] = rank[t]
  OBVIOUS
<1> HIDE DEF next
<1>7. ASSUME NEW n \in Nat, n < top
      PROVE  Charged(next, n)' = Charged(rank, n)
  BY <1>6, <1>7 DEF Charged, PassStages
<1>8. Ranked(next, last, top + 1)'
  <2>1. last < top + 1 BY <1>1 DEF Ranked
  <2>2. ASSUME NEW t \in Session, session'[t].pc \in PassStages PROVE next[t] < top + 1
    <3>1. CASE t = s BY <1>6, <3>1
    <3>2. CASE t # s
      <4>1. rank[t] < top BY <1>1, <2>2, <3>2 DEF Ranked
      <4>2. rank[t] \in Nat /\ next[t] = rank[t] BY <1>6, <3>2
      <4> QED BY <4>1, <4>2
    <3> QED BY <3>1, <3>2
  <2> QED BY <2>1, <2>2 DEF Ranked
<1>9. Accounts(next, last)'
  <2>1. last < top BY <1>1 DEF Ranked
  <2>2. Few(Settled', MaxEntries + (skipped' + Cardinality(Charged(next, last)')))
    BY <1>1, <1>3, <1>7, <2>1 DEF Accounts
  <2>3. ASSUME NEW t \in Session, session'[t].pc \in PassStages, next[t] > last
        PROVE  PassInv(session'[t], Settled', skipped' + Cardinality(Charged(next, next[t])'))
    <3>1. CASE t = s
      <4>1. Settled' \ session'[s].files = {} BY <1>3 DEF Settled
      <4>2. Cardinality(Charged(next, next[s])') \in Nat
        <5>1. Charged(next, next[s])' \in SUBSET Busy' BY DEF Charged, Busy
        <5>2. IsFiniteSet(Charged(next, next[s])') BY <1>2, <1>4, <5>1, FS_Subset
        <5> QED BY <5>2, FS_CardinalityType
      <4>3. skipped' + Cardinality(Charged(next, next[s])') \in Nat BY <1>5, <4>2
      <4>4. Few({}, skipped' + Cardinality(Charged(next, next[s])')) BY <4>3, FewOfNone
      <4> QED BY <3>1, <4>1, <4>4 DEF PassInv, EvictingStages
    <3>2. CASE t # s
      <4>1. session'[t] = session[t] /\ next[t] = rank[t] /\ rank[t] \in Nat BY <1>6, <3>2
      <4>2. rank[t] < top BY <1>1, <2>3, <4>1 DEF Ranked
      <4>3. PassInv(session[t], Settled, skipped + Cardinality(Charged(rank, rank[t])))
        BY <1>1, <2>3, <4>1 DEF Accounts
      <4>4. Charged(next, next[t])' = Charged(rank, rank[t]) BY <1>7, <4>1, <4>2
      <4> QED BY <1>3, <4>1, <4>3, <4>4
    <3> QED BY <3>1, <3>2
  <2> QED BY <2>2, <2>3 DEF Accounts
<1>10. top + 1 \in Nat OBVIOUS
<1> QED BY <1>2, <1>3, <1>4, <1>6, <1>8, <1>9, <1>10 DEF OvershootInv

\* The plan is made: the pass will leave what it spares of its list, and what
\* was added since.
LEMMA InfoFilesCount ==
    ASSUME DiskInv, OvershootInv, NEW s \in Session, NEW cut \in Times,
           \A t \in Session \ {s} : session'[t] = session[t],
           session[s].pc = "info", session'[s].pc = "evict",
           session[s].files \subseteq Present,
           session'[s].plan = Victims(session[s].files, cut),
           data' = data, skipped' = skipped, crashes' = crashes
    PROVE  OvershootInv'
<1> SUFFICES ASSUME crashes = 0 PROVE OvershootInv' BY DEF OvershootInv
<1>1. PICK rank \in [Session -> Nat], last \in Nat, top \in Nat :
          Ranked(rank, last, top) /\ Accounts(rank, last)
  BY DEF OvershootInv
<1>2. IsFiniteSet(Busy) /\ IsFiniteSet(Present) BY DEF OvershootInv
<1>3. Settled' = Settled /\ Present' = Present BY SettledSame
<1>4. Busy' = Busy BY DEF Busy, PassStages
<1>5. skipped \in Nat /\ MaxEntries \in Nat BY DiskAssumption DEF DiskInv, TypeOK
<1>6. ASSUME NEW n \in Nat PROVE Charged(rank, n)' = Charged(rank, n)
  BY DEF Charged, PassStages
<1>7. \A n \in Nat : Cardinality(Charged(rank, n)) \in Nat BY <1>2, ChargedFinite
<1>8. \A n \in Nat : skipped + Cardinality(Charged(rank, n))
                        <= skipped' + Cardinality(Charged(rank, n)')
  BY <1>5, <1>6, <1>7
<1>9. ASSUME NEW t \in Session, session'[t].pc \in PassStages
      PROVE  /\ session[t].pc \in PassStages
             /\ \A n \in Nat : PassInv(session[t], Settled, n)
                                   => PassInv(session'[t], Settled', n)
  <2>1. CASE t # s
    <3>1. session'[t] = session[t] BY <2>1
    <3> QED BY <1>3, <1>9, <3>1
  <2>2. CASE t = s
    <3> DEFINE F == session[s].files
               D == {f.digest : f \in session'[s].plan}
    <3>1. F \in SUBSET Present /\ F \subseteq Digest BY DEF Present
    <3>2. IsFiniteSet(F) BY <1>2, <3>1, FS_Subset
    <3>3. data \in [Digest -> File] BY DEF DiskInv, TypeOK
    <3>4. Few(F \ {f.digest : f \in Victims(F, cut)}, MaxEntries)
      <4> HIDE DEF F
      <4> QED BY <3>1, <3>2, <3>3, SparedFew
    <3>5. Few(F \ D, MaxEntries) BY <3>4
    <3>6. ASSUME NEW n \in Nat, PassInv(session[s], Settled, n)
          PROVE  Few(Settled \ D, MaxEntries + n)
      <4>1. Few(Settled \ F, n) BY <3>6 DEF PassInv
      <4>2. Settled \ D \subseteq (F \ D) \cup (Settled \ F) OBVIOUS
      <4> HIDE DEF F, D
      <4> QED BY <1>5, <3>5, <4>1, <4>2, FewUnion
    <3>7. session[s].pc \in PassStages BY DEF PassStages
    <3> QED BY <1>3, <2>2, <3>6, <3>7 DEF PassInv
  <2> QED BY <2>1, <2>2
<1> QED BY <1>1, <1>2, <1>3, <1>4, <1>5, <1>8, <1>9, AccountsKept

\* A complete pass: unless a later listing is complete already, this one is
\* the latest that is.
LEMMA EvictDoneCount ==
    ASSUME DiskInv, OvershootInv, NEW s \in Session,
           \A t \in Session \ {s} : session'[t] = session[t],
           session[s].pc = "evict", session[s].plan = {}, session'[s].pc = "idle",
           data' = data, skipped' = skipped, crashes' = crashes
    PROVE  OvershootInv'
<1> SUFFICES ASSUME crashes = 0 PROVE OvershootInv' BY DEF OvershootInv
<1>1. PICK rank \in [Session -> Nat], last \in Nat, top \in Nat :
          Ranked(rank, last, top) /\ Accounts(rank, last)
  BY DEF OvershootInv
<1>2. IsFiniteSet(Busy) /\ IsFiniteSet(Present) BY DEF OvershootInv
<1>3. Settled' = Settled /\ Present' = Present BY SettledSame
<1>4. IsFiniteSet(Busy)'
  <2>1. Busy' \in SUBSET Busy BY DEF Busy, PassStages
  <2> QED BY <1>2, <2>1, FS_Subset
<1> DEFINE done == IF rank[s] > last THEN rank[s] ELSE last
<1>5. rank[s] \in Nat /\ done \in Nat /\ done >= last /\ done >= rank[s] /\ done < top
  BY <1>1 DEF Ranked, PassStages
<1>6. Few(Settled, MaxEntries + (skipped + Cardinality(Charged(rank, done))))
  <2>1. CASE rank[s] > last
    <3>1. PassInv(session[s], Settled, skipped + Cardinality(Charged(rank, rank[s])))
      BY <1>1, <2>1 DEF Accounts, PassStages
    <3>2. Settled \ {f.digest : f \in session[s].plan} = Settled OBVIOUS
    <3> QED BY <2>1, <3>1, <3>2 DEF PassInv, EvictingStages
  <2>2. CASE ~(rank[s] > last) BY <1>1, <2>2 DEF Accounts
  <2> QED BY <2>1, <2>2
<1> HIDE DEF done
<1>7. ASSUME NEW n \in Nat, n >= done PROVE Charged(rank, n)' = Charged(rank, n)
  <2>1. ~(rank[s] > n) BY <1>5, <1>7
  <2> QED BY <2>1 DEF Charged, PassStages
<1>8. Ranked(rank, done, top)' BY <1>1, <1>5 DEF Ranked, PassStages
<1>9. Accounts(rank, done)'
  <2>1. Few(Settled', MaxEntries + (skipped' + Cardinality(Charged(rank, done)')))
    <3>1. done >= done BY <1>5
    <3> QED BY <1>3, <1>5, <1>6, <1>7, <3>1
  <2>2. ASSUME NEW t \in Session, session'[t].pc \in PassStages, rank[t] > done
        PROVE  PassInv(session'[t], Settled', skipped' + Cardinality(Charged(rank, rank[t])'))
    <3>1. t # s BY <2>2 DEF PassStages
    <3>2. session'[t] = session[t] /\ rank[t] \in Nat BY <3>1
    <3>3. rank[t] > last /\ rank[t] >= done BY <1>5, <2>2, <3>2
    <3>4. PassInv(session[t], Settled, skipped + Cardinality(Charged(rank, rank[t])))
      BY <1>1, <2>2, <3>2, <3>3 DEF Accounts
    <3>5. Charged(rank, rank[t])' = Charged(rank, rank[t]) BY <1>7, <3>2, <3>3
    <3> QED BY <1>3, <3>2, <3>4, <3>5
  <2> QED BY <2>1, <2>2 DEF Accounts
<1> QED BY <1>1, <1>2, <1>3, <1>4, <1>5, <1>8, <1>9 DEF OvershootInv

-----------------------------------------------------------------------------
LEMMA Becomes ==
    ASSUME DiskInv, NEW s \in Session, NEW x, Become(s, x)
    PROVE  session'[s] = x /\ \A t \in Session \ {s} : session'[t] = session[t]
BY DEF DiskInv, TypeOK, Become

LEMMA GoesTo ==
    ASSUME DiskInv, NEW s \in Session, NEW stage, Goto(s, stage)
    PROVE  /\ session'[s].pc = stage
           /\ session'[s].digest = session[s].digest
           /\ \A t \in Session \ {s} : session'[t] = session[t]
<1> DEFINE x == [session[s] EXCEPT !.pc = stage]
<1>1. session[s] \in SessionState BY DEF DiskInv, TypeOK
<1>2. x.pc = stage /\ x.digest = session[s].digest BY <1>1 DEF SessionState
<1>3. Become(s, x) BY DEF Goto
<1> HIDE DEF x
<1> QED BY <1>2, <1>3, Becomes

LEMMA Ends ==
    ASSUME DiskInv, NEW s \in Session, End(s)
    PROVE  session'[s].pc = "idle" /\ \A t \in Session \ {s} : session'[t] = session[t]
<1>1. IdleSession.pc = "idle" BY DEF IdleSession
<1> QED BY <1>1, Becomes DEF End

\* The steps of a fetch before its first rename.
QuietStages == {"idle", "readMeta", "openData", "fetch", "stream", "commit", "stat", "renameData"}

LEMMA QuietStep ==
    ASSUME DiskInv, OvershootInv, NEW s \in Session,
           \A t \in Session \ {s} : session'[t] = session[t],
           session[s].pc \in QuietStages, session'[s].pc \in QuietStages,
           data' = data, skipped' = skipped, crashes' = crashes
    PROVE  OvershootInv'
<1>1. /\ session[s].pc # "renameMeta" /\ session'[s].pc # "renameMeta"
      /\ session[s].pc \notin {"list"} \cup PassStages
      /\ session'[s].pc \notin {"list"} \cup PassStages
  BY DEF QuietStages, PassStages
<1>2. Settled' = Settled /\ Present' = Present BY <1>1, SettledSame
<1> QED BY <1>1, <1>2, OutsideStep

LEMMA QuietSteps ==
    ASSUME DiskInv, OvershootInv, NEW s \in Session,
           \/ \E d \in Digest : Request(s, d)
           \/ ReadMeta(s) \/ OpenData(s) \/ GetFails(s) \/ StartWrite(s) \/ FetchUncached(s)
           \/ ReadEOF(s) \/ Abort(s) \/ CommitStages(s) \/ StatFinal(s) \/ CommitFails(s)
    PROVE  OvershootInv'
<1>1. session[s] \in SessionState BY DEF DiskInv, TypeOK
<1>2. session[s].pc \in QuietStages /\ data' = data /\ skipped' = skipped /\ crashes' = crashes
  BY DEF Request, ReadMeta, OpenData, GetFails, StartWrite, FetchUncached, ReadEOF, Abort,
         CommitStages, StatFinal, CommitFails, IOError, ghosts, bounds, QuietStages
<1>3. CASE End(s)
  <2>1. session'[s].pc \in QuietStages /\ \A t \in Session \ {s} : session'[t] = session[t]
    BY <1>3, Ends DEF QuietStages
  <2> QED BY <1>2, <2>1, QuietStep
<1>4. ASSUME NEW stage \in QuietStages, Goto(s, stage) PROVE OvershootInv'
  <2>1. session'[s].pc \in QuietStages /\ \A t \in Session \ {s} : session'[t] = session[t]
    BY <1>4, GoesTo
  <2> QED BY <1>2, <2>1, QuietStep
<1>5. ASSUME NEW x, Become(s, x), x.pc \in QuietStages PROVE OvershootInv'
  <2>1. session'[s].pc \in QuietStages /\ \A t \in Session \ {s} : session'[t] = session[t]
    BY <1>5, Becomes
  <2> QED BY <1>2, <2>1, QuietStep
<1>6. CASE \E d \in Digest : Request(s, d)
  <2>1. PICK d \in Digest : Request(s, d) BY <1>6
  <2> DEFINE x == [IdleSession EXCEPT !.pc = "readMeta", !.digest = d]
  <2>2. x.pc \in QuietStages BY DEF IdleSession, QuietStages
  <2>3. Become(s, x) BY <2>1 DEF Request
  <2> HIDE DEF x
  <2> QED BY <1>5, <2>2, <2>3
<1>7. CASE ReadMeta(s) \/ OpenData(s) \/ GetFails(s) \/ FetchUncached(s) \/ Abort(s)
           \/ CommitStages(s) \/ StatFinal(s) \/ CommitFails(s)
  <2>1. \/ End(s)
        \/ Goto(s, "openData") \/ Goto(s, "fetch") \/ Goto(s, "stat") \/ Goto(s, "renameData")
    BY <1>7 DEF ReadMeta, OpenData, GetFails, FetchUncached, Abort, CommitStages, StatFinal,
                CommitFails
  <2>2. {"openData", "fetch", "stat", "renameData"} \subseteq QuietStages BY DEF QuietStages
  <2> QED BY <1>3, <1>4, <2>1, <2>2
<1>8. CASE StartWrite(s)
  <2> DEFINE x == [session[s] EXCEPT !.pc = "stream", !.temp.body = "partial"]
  <2>1. x.pc \in QuietStages BY <1>1 DEF SessionState, QuietStages
  <2>2. Become(s, x) BY <1>8 DEF StartWrite
  <2> HIDE DEF x
  <2> QED BY <1>5, <2>1, <2>2
<1>9. CASE ReadEOF(s)
  <2> DEFINE x == [session[s] EXCEPT !.pc = "commit",
                                     !.temp = [body |-> "whole", time |-> clock + 1]]
  <2>1. x.pc \in QuietStages BY <1>1 DEF SessionState, QuietStages
  <2>2. Become(s, x) BY <1>9 DEF ReadEOF
  <2> HIDE DEF x
  <2> QED BY <1>5, <2>1, <2>2
<1> QED BY <1>6, <1>7, <1>8, <1>9

\* An entry in its commit may still be taken back, so it is not counted yet.
LEMMA RenameDataCount ==
    ASSUME DiskInv, OvershootInv, NEW s \in Session, RenameData(s)
    PROVE  OvershootInv'
<1> DEFINE d == session[s].digest
<1>1. session[s].pc = "renameData" /\ skipped' = skipped /\ crashes' = crashes
      /\ data' = [data EXCEPT ![d] = session[s].temp] /\ Goto(s, "renameMeta")
  BY DEF RenameData, ghosts, bounds
<1>2. /\ session'[s].pc = "renameMeta" /\ session'[s].digest = d
      /\ \A t \in Session \ {s} : session'[t] = session[t]
  BY <1>1, GoesTo
<1>3. d \in Digest /\ data \in [Digest -> File]
  BY <1>1 DEF DiskInv, TypeOK, SessionInv
<1>4. Present' \subseteq Present \cup {d} BY <1>1, <1>3 DEF Present
<1>5. IsFiniteSet(Present) => IsFiniteSet(Present')
  <2> SUFFICES ASSUME IsFiniteSet(Present) PROVE IsFiniteSet(Present') OBVIOUS
  <2>1. IsFiniteSet(Present \cup {d}) BY FS_AddElement
  <2>2. Present' \in SUBSET (Present \cup {d}) BY <1>4
  <2> QED BY <2>1, <2>2, FS_Subset
<1>6. Settled' \subseteq Settled
  <2> SUFFICES ASSUME NEW e \in Settled' PROVE e \in Settled OBVIOUS
  <2>1. e \in Digest /\ e \in Present' /\ e \notin Unpaired' BY DEF Settled, Present
  <2>2. e # d BY <1>2, <2>1 DEF Unpaired
  <2>3. e \in Present BY <1>4, <2>1, <2>2
  <2>4. e \notin Unpaired
    <3> SUFFICES ASSUME NEW t \in Session, session[t].pc = "renameMeta", session[t].digest = e
                 PROVE  FALSE
      BY DEF Unpaired
    <3>1. t # s BY <1>1
    <3> QED BY <1>2, <2>1, <3>1 DEF Unpaired
  <2> QED BY <2>3, <2>4 DEF Settled
<1>7. /\ session[s].pc \notin {"list"} \cup PassStages
      /\ session'[s].pc \notin {"list"} \cup PassStages
  BY <1>1, <1>2 DEF PassStages
<1> HIDE DEF d
<1> QED BY <1>1, <1>2, <1>5, <1>6, <1>7, OutsideStep

LEMMA RenameMetaFailsCount ==
    ASSUME DiskInv, OvershootInv, NEW s \in Session, RenameMetaFails(s)
    PROVE  OvershootInv'
<1> DEFINE d == session[s].digest
<1>1. session[s].pc = "renameMeta" /\ skipped' = skipped /\ crashes' = crashes
      /\ data' = [data EXCEPT ![d] = NoFile] /\ End(s)
  BY DEF RenameMetaFails, IOError
<1>2. session'[s].pc = "idle" /\ \A t \in Session \ {s} : session'[t] = session[t]
  BY <1>1, Ends
<1>3. d \in Digest /\ data \in [Digest -> File]
  BY <1>1 DEF DiskInv, TypeOK, SessionInv
<1>4. Present' \subseteq Present \ {d} BY <1>1, <1>3 DEF Present
<1>5. IsFiniteSet(Present) => IsFiniteSet(Present')
  <2>1. Present' \in SUBSET Present BY <1>4
  <2> QED BY <2>1, FS_Subset
<1>6. Settled' \subseteq Settled
  <2> SUFFICES ASSUME NEW e \in Settled' PROVE e \in Settled OBVIOUS
  <2>1. e \in Digest /\ e \in Present' /\ e \notin Unpaired' BY DEF Settled, Present
  <2>2. e # d /\ e \in Present BY <1>4, <2>1
  <2>3. e \notin Unpaired
    <3> SUFFICES ASSUME NEW t \in Session, session[t].pc = "renameMeta", session[t].digest = e
                 PROVE  FALSE
      BY DEF Unpaired
    <3>1. t # s BY <2>2
    <3> QED BY <1>2, <2>1, <3>1 DEF Unpaired
  <2> QED BY <2>2, <2>3 DEF Settled
<1>7. /\ session[s].pc \notin {"list"} \cup PassStages
      /\ session'[s].pc \notin {"list"} \cup PassStages
  BY <1>1, <1>2 DEF PassStages
<1> HIDE DEF d
<1> QED BY <1>1, <1>2, <1>5, <1>6, <1>7, OutsideStep

LEMMA EvictDataCount ==
    ASSUME DiskInv, OvershootInv, NEW s \in Session, NEW f \in session[s].plan, EvictData(s, f)
    PROVE  OvershootInv'
<1> DEFINE x == [session[s] EXCEPT !.pc = "removeMeta", !.victim = f.digest, !.plan = @ \ {f}]
<1>1. session[s] \in SessionState /\ data \in [Digest -> File] BY DEF DiskInv, TypeOK
<1>2. f.digest \in Digest BY <1>1 DEF SessionState
<1>3. session[s].pc = "evict" /\ skipped' = skipped /\ crashes' = crashes
      /\ data' = [data EXCEPT ![f.digest] = NoFile] /\ Become(s, x)
  BY DEF EvictData, NextVictim, bounds
<1>4. x.pc = "removeMeta" /\ x.plan = session[s].plan \ {f} BY <1>1 DEF SessionState
<1> HIDE DEF x
<1>5. /\ session'[s].pc = "removeMeta" /\ session'[s].plan = session[s].plan \ {f}
      /\ \A t \in Session \ {s} : session'[t] = session[t]
  BY <1>3, <1>4, Becomes
<1>6. Present' \subseteq Present \ {f.digest} BY <1>1, <1>2, <1>3 DEF Present
<1>7. Unpaired' = Unpaired BY <1>3, <1>5, SettledSame
<1>8. Settled' \subseteq Settled \ {f.digest} BY <1>6, <1>7 DEF Settled
<1>9. Settled' \ {g.digest : g \in session'[s].plan}
          \subseteq Settled \ {g.digest : g \in session[s].plan}
  <2> SUFFICES ASSUME NEW e \in Settled', NEW g \in session[s].plan, e = g.digest
               PROVE  \E h \in session'[s].plan : e = h.digest
    BY <1>8
  <2>1. g # f BY <1>8
  <2> QED BY <1>5, <2>1
<1>10. session[s].pc \in EvictingStages /\ session'[s].pc \in EvictingStages
  BY <1>3, <1>5 DEF EvictingStages
<1>11. Present' \subseteq Present /\ Settled' \subseteq Settled BY <1>6, <1>8
<1> QED BY <1>3, <1>5, <1>9, <1>10, <1>11, EvictingStep

LEMMA EvictMetaCount ==
    ASSUME DiskInv, OvershootInv, NEW s \in Session, EvictMeta(s)
    PROVE  OvershootInv'
<1> DEFINE x == [session[s] EXCEPT !.pc = "evict", !.victim = NoDigest]
<1>1. session[s] \in SessionState BY DEF DiskInv, TypeOK
<1>2. session[s].pc = "removeMeta" /\ skipped' = skipped /\ crashes' = crashes
      /\ data' = data /\ Become(s, x)
  BY DEF EvictMeta, ghosts, bounds
<1>3. x.pc = "evict" /\ x.plan = session[s].plan BY <1>1 DEF SessionState
<1> HIDE DEF x
<1>4. /\ session'[s].pc = "evict" /\ session'[s].plan = session[s].plan
      /\ \A t \in Session \ {s} : session'[t] = session[t]
  BY <1>2, <1>3, Becomes
<1>5. Settled' = Settled /\ Present' = Present BY <1>2, <1>4, SettledSame
<1>6. session[s].pc \in EvictingStages /\ session'[s].pc \in EvictingStages
  BY <1>2, <1>4 DEF EvictingStages
<1> QED BY <1>2, <1>4, <1>5, <1>6, EvictingStep

LEMMA PassSteps ==
    ASSUME DiskInv, OvershootInv, NEW s \in Session,
           \/ RenameMeta(s) \/ ListFiles(s) \/ EvictDone(s) \/ EvictFails(s)
           \/ \E cut \in Times : InfoFiles(s, cut)
    PROVE  OvershootInv'
<1>1. session[s] \in SessionState /\ SessionInv(session[s]) BY DEF DiskInv, TypeOK
<1>2. CASE RenameMeta(s)
  <2>1. session[s].pc = "renameMeta" /\ Goto(s, "list")
        /\ data' = data /\ skipped' = skipped /\ crashes' = crashes
    BY <1>2 DEF RenameMeta, ghosts, bounds
  <2>2. session'[s].pc = "list" /\ \A t \in Session \ {s} : session'[t] = session[t]
    BY <2>1, GoesTo
  <2> QED BY <2>1, <2>2, RenameMetaCount
<1>3. CASE ListFiles(s)
  <2> DEFINE x == [session[s] EXCEPT !.pc = "info", !.files = Present]
  <2>1. session[s].pc = "list" /\ Become(s, x)
        /\ data' = data /\ skipped' = skipped /\ crashes' = crashes
    BY <1>3 DEF ListFiles, ghosts, bounds
  <2>2. x.pc = "info" /\ x.files = Present BY <1>1 DEF SessionState
  <2> HIDE DEF x
  <2>3. /\ session'[s].pc = "info" /\ session'[s].files = Present
        /\ \A t \in Session \ {s} : session'[t] = session[t]
    BY <2>1, <2>2, Becomes
  <2> QED BY <2>1, <2>3, ListFilesCount
<1>4. CASE EvictDone(s)
  <2>1. session[s].pc = "evict" /\ session[s].plan = {} /\ End(s)
        /\ data' = data /\ skipped' = skipped /\ crashes' = crashes
    BY <1>4 DEF EvictDone, ghosts, bounds
  <2>2. session'[s].pc = "idle" /\ \A t \in Session \ {s} : session'[t] = session[t]
    BY <2>1, Ends
  <2> QED BY <2>1, <2>2, EvictDoneCount
<1>5. CASE EvictFails(s)
  <2>1. End(s) /\ data' = data /\ skipped' = skipped + 1 /\ crashes' = crashes
    BY <1>5 DEF EvictFails, IOError
  <2>2. session[s].pc \in PassStages BY <1>1, <1>5 DEF EvictFails, SessionInv, PassStages
  <2>3. session'[s].pc = "idle" /\ \A t \in Session \ {s} : session'[t] = session[t]
    BY <2>1, Ends
  <2> QED BY <2>1, <2>2, <2>3, FailedPass
<1>6. CASE \E cut \in Times : InfoFiles(s, cut)
  <2>1. PICK cut \in Times : InfoFiles(s, cut) BY <1>6
  <2>2. session[s].pc = "info" /\ data' = data /\ crashes' = crashes
    BY <2>1 DEF InfoFiles, bounds
  <2>3. CASE session[s].files \subseteq Present
    <3> DEFINE plan == Victims(session[s].files, cut)
               x == [session[s] EXCEPT !.pc = "evict", !.files = {}, !.plan = plan]
    <3>1. Become(s, x) /\ skipped' = skipped BY <2>1, <2>3 DEF InfoFiles
    <3> HIDE DEF plan
    <3>2. x.pc = "evict" /\ x.plan = plan BY <1>1 DEF SessionState
    <3> HIDE DEF x
    <3>3. /\ session'[s].pc = "evict" /\ session'[s].plan = plan
          /\ \A t \in Session \ {s} : session'[t] = session[t]
      BY <3>1, <3>2, Becomes
    <3>4. session'[s].plan = Victims(session[s].files, cut) BY <3>3 DEF plan
    <3> QED BY <2>2, <2>3, <3>1, <3>3, <3>4, InfoFilesCount
  <2>4. CASE ~(session[s].files \subseteq Present)
    <3>1. End(s) /\ skipped' = skipped + 1 BY <2>1, <2>4 DEF InfoFiles
    <3>2. session'[s].pc = "idle" /\ \A t \in Session \ {s} : session'[t] = session[t]
      BY <3>1, Ends
    <3>3. session[s].pc \in PassStages BY <2>2 DEF PassStages
    <3> QED BY <2>2, <3>1, <3>2, <3>3, FailedPass
  <2> QED BY <2>3, <2>4
<1> QED BY <1>2, <1>3, <1>4, <1>5, <1>6

LEMMA InitOvershoot == Init => OvershootInv
<1> SUFFICES ASSUME Init PROVE OvershootInv OBVIOUS
<1>1. \A s \in Session : session[s].pc = "idle" BY DEF Init, IdleSession
<1>2. Present = {} /\ Settled = {} BY DEF Init, Present, Settled
<1>3. Busy = {} BY <1>1 DEF Busy, PassStages
<1> DEFINE rank == [s \in Session |-> 0]
<1>4. Charged(rank, 0) = {} BY <1>1 DEF Charged, PassStages
<1>5. rank \in [Session -> Nat] OBVIOUS
<1> HIDE DEF rank
<1>6. MaxEntries + (skipped + Cardinality(Charged(rank, 0))) \in Nat
  BY <1>4, FS_EmptySet, DiskAssumption DEF Init
<1>7. Accounts(rank, 0) BY <1>1, <1>2, <1>6, FewOfNone DEF Accounts, PassStages
<1>8. Ranked(rank, 0, 1) BY <1>1 DEF Ranked, PassStages
<1>9. 0 \in Nat /\ 1 \in Nat OBVIOUS
<1> QED BY <1>2, <1>3, <1>5, <1>7, <1>8, <1>9, FS_EmptySet DEF OvershootInv

LEMMA NextOvershoot == ASSUME DiskInv, OvershootInv, [Next]_vars PROVE OvershootInv'
<1>1. ASSUME NEW s \in Session,
             \/ \E d \in Digest : Request(s, d)
             \/ ReadMeta(s) \/ OpenData(s) \/ GetFails(s) \/ StartWrite(s) \/ FetchUncached(s)
             \/ ReadEOF(s) \/ Abort(s) \/ CommitStages(s) \/ StatFinal(s) \/ CommitFails(s)
      PROVE  OvershootInv'
  BY <1>1, QuietSteps
<1>2. ASSUME NEW s \in Session,
             \/ RenameMeta(s) \/ ListFiles(s) \/ EvictDone(s) \/ EvictFails(s)
             \/ \E cut \in Times : InfoFiles(s, cut)
      PROVE  OvershootInv'
  BY <1>2, PassSteps
<1>3. ASSUME NEW s \in Session, RenameData(s) PROVE OvershootInv' BY <1>3, RenameDataCount
<1>4. ASSUME NEW s \in Session, RenameMetaFails(s) PROVE OvershootInv'
  BY <1>4, RenameMetaFailsCount
<1>5. ASSUME NEW s \in Session, \E f \in session[s].plan : EvictData(s, f) PROVE OvershootInv'
  BY <1>5, EvictDataCount
<1>6. ASSUME NEW s \in Session, EvictMeta(s) PROVE OvershootInv' BY <1>6, EvictMetaCount
<1>7. CASE Crash
  <2>1. crashes' # 0 BY <1>7 DEF Crash, DiskInv, TypeOK
  <2> QED BY <2>1 DEF OvershootInv
<1>8. CASE UNCHANGED vars
  BY <1>8 DEF vars, OvershootInv, Present, Busy, Ranked, Accounts, Settled, Unpaired, Charged
<1> QED BY <1>1, <1>2, <1>3, <1>4, <1>5, <1>6, <1>7, <1>8 DEF Next, Step

\* However fills and eviction passes overlap, once all fetches are over the
\* scope exceeds its limit by at most the passes that ended with an error
\* (disk.go, enforceLimits), for any number of fetches and any limit.
THEOREM OvershootIsBounded == Spec => []OvershootBounded
<1>1. Init => OvershootInv BY InitOvershoot
<1>2. DiskInv /\ OvershootInv /\ [Next]_vars => OvershootInv' BY NextOvershoot
<1>3. DiskInv /\ OvershootInv => OvershootBounded
  <2> SUFFICES ASSUME DiskInv, OvershootInv, Quiescent, crashes = 0
               PROVE  Cardinality(Present) <= MaxEntries + skipped
    BY DEF OvershootBounded
  <2>1. PICK rank \in [Session -> Nat], last \in Nat : Accounts(rank, last) BY DEF OvershootInv
  <2>2. Settled = Present BY DEF Quiescent, Settled, Unpaired
  <2>3. Charged(rank, last) = {} BY DEF Quiescent, Charged, PassStages
  <2>4. Few(Present, MaxEntries + (skipped + Cardinality({}))) BY <2>1, <2>2, <2>3 DEF Accounts
  <2>5. skipped \in Nat /\ MaxEntries \in Nat BY DiskAssumption DEF DiskInv, TypeOK
  <2> QED BY <2>4, <2>5, FS_EmptySet DEF Few
<1> QED BY <1>1, <1>2, <1>3, DiskInvariance, PTL DEF Spec
=============================================================================
