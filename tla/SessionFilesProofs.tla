------------------------- MODULE SessionFilesProofs -------------------------
(***************************************************************************)
(* Theorems about the DLL files of formula sessions, for any number of     *)
(* processes, threads, process ids and crashes.                            *)
(***************************************************************************)
EXTENDS SessionFiles, TLAPS

(***************************************************************************)
(* Names.  A process id is that of one running process, and what a process *)
(* compiles or has compiled carries its id and a number below its counter. *)
(***************************************************************************)
PidsDiffer == \A p, q \in Procs : pid[p] = pid[q] /\ pid[p] # NoPid => p = q

JobsOwn ==
    \A w \in Workers :
        IF Busy(w)
        THEN /\ job[w].dll \in DllNames /\ job[w].src \in Formulas
             /\ job[w].dll[1] = pid[w[1]] /\ job[w].dll[2] < ctr[w[1]]
        ELSE job[w] = Idle

SessionsOwn ==
    \A s \in session :
        /\ pid[s.proc] # NoPid
        /\ IF s.owns_dll
           THEN s.dll \in DllNames /\ s.dll[1] = pid[s.proc] /\ s.dll[2] < ctr[s.proc]
           ELSE s.dll = UserDll /\ s.src = Prebuilt

(***************************************************************************)
(* Compilers.  A g++ works for a thread that waits for it, or its host has *)
(* crashed; one without a host is never of the process id of a clean job   *)
(* or session.                                                             *)
(***************************************************************************)
CompilersOwn ==
    \A g \in compiler :
        \/ g.worker = {} /\ g.dll[1] \in crashed
        \/ \E w \in Workers : /\ g.worker = {w} /\ At(w, "wait")
                              /\ g.dll = job[w].dll /\ g.src = job[w].src

CleanAlone ==
    \A g \in compiler : g.worker = {} =>
        /\ \A w \in Workers : Busy(w) /\ job[w].clean => g.dll[1] # job[w].dll[1]
        /\ \A s \in session : s.clean => g.dll[1] # s.dll[1]

(***************************************************************************)
(* Files.  The name a thread gives to its g++ is free, unless the g++ of a *)
(* crashed process with the same id has written there; what a clean job    *)
(* finds afterwards is its own DLL or nothing.                             *)
(***************************************************************************)
JobFiles ==
    \A w \in Workers :
        /\ job[w].pc \in {"spawn", "wait"} =>
              \/ file[job[w].dll] = Absent
              \/ ~job[w].clean /\ job[w].dll[1] \in crashed
        /\ At(w, "check") /\ job[w].clean => file[job[w].dll] \in {Absent, job[w].src}

FilesInv ==
    /\ TypeOK
    /\ PidsDiffer /\ JobsOwn /\ SessionsOwn /\ NamesDiffer
    /\ CompilersOwn /\ CleanAlone
    /\ JobFiles /\ SessionFileIntact /\ TempFilesOwned /\ PrebuiltKept

-----------------------------------------------------------------------------
JobRecords == [pc : {"idle", "path", "set", "remove", "spawn", "wait", "check", "cleanup"},
               dll : DllNames \cup {NoDll}, src : Formulas \cup {Absent},
               dir : SUBSET Dirs, read : SUBSET Dirs, clean : BOOLEAN]
Compilers == [dll : DllNames, src : Formulas, worker : SUBSET Workers]
SessionRecords == [proc : Procs, id : SessionIds, dll : DllNames \cup {UserDll},
                   owns_dll : BOOLEAN, src : Contents, dir : SUBSET Dirs, clean : BOOLEAN]

LEMMA TypeParts ==
    TypeOK <=> /\ pid \in [Procs -> Pids \cup {NoPid}]
               /\ ctr \in [Procs -> Nat] /\ \A p \in Procs : ctr[p] <= MaxSessions[p]
               /\ path \in [Procs -> SUBSET Dirs]
               /\ file \in [DllNames \cup {UserDll} -> Contents]
               /\ job \in [Workers -> JobRecords]
               /\ compiler \subseteq Compilers /\ session \subseteq SessionRecords
               /\ crashed \subseteq Pids
  BY DEF TypeOK, JobRecords, Compilers, SessionRecords

LEMMA TypeNext ==
    ASSUME pid' \in [Procs -> Pids \cup {NoPid}],
           ctr' \in [Procs -> Nat], \A p \in Procs : ctr'[p] <= MaxSessions[p],
           path' \in [Procs -> SUBSET Dirs],
           file' \in [DllNames \cup {UserDll} -> Contents],
           job' \in [Workers -> JobRecords],
           compiler' \subseteq Compilers, session' \subseteq SessionRecords,
           crashed' \subseteq Pids
    PROVE  TypeOK'
  BY DEF TypeOK, JobRecords, Compilers, SessionRecords

LEMMA DllFact ==
    /\ \A d \in DllNames : d[1] \in Pids /\ d[2] \in SessionIds /\ d # UserDll /\ d[1] # NoPid
    /\ UserDll[1] = NoPid
    /\ \A i \in Pids, n \in SessionIds :
          <<i, n>> \in DllNames /\ <<i, n>>[1] = i /\ <<i, n>>[2] = n
  BY FilesAssumption DEF DllNames, UserDll

LEMMA WorkerFact == \A w \in Workers : w[1] \in Procs
  BY FilesAssumption

LEMMA IdleFact == Idle \in JobRecords /\ Idle.pc = "idle"
  BY DEF Idle, JobRecords

LEMMA JobFact ==
    ASSUME TypeOK, NEW w \in Workers
    PROVE  job[w] \in JobRecords /\ w[1] \in Procs
  BY TypeParts, WorkerFact

\* A number that is still below the bound of a process can name a session.
LEMMA NextId ==
    ASSUME TypeOK, NEW p \in Procs, ctr[p] < MaxSessions[p]
    PROVE  ctr[p] \in SessionIds /\ ctr[p] + 1 \in Nat /\ ctr[p] + 1 <= MaxSessions[p]
  <1>1. ctr[p] \in Nat /\ MaxSessions[p] \in Nat
    BY FilesAssumption, TypeParts
  <1>2. ctr[p] \in 0..(MaxSessions[p] - 1)
    BY <1>1
  <1> QED
    BY <1>1, <1>2 DEF SessionIds

-----------------------------------------------------------------------------
LEMMA FilesStart == Init => FilesInv
  <1> SUFFICES ASSUME Init PROVE FilesInv
    OBVIOUS
  <1>1. job \in [Workers -> JobRecords] /\ \A w \in Workers : job[w] = Idle /\ ~Busy(w)
    BY IdleFact DEF Init, Busy, At
  <1>2. file \in [DllNames \cup {UserDll} -> Contents] /\ PrebuiltKept
    BY DEF Init, Contents, PrebuiltKept
  <1>3. \A d \in DllNames : file[d] = Absent
    BY DllFact DEF Init
  <1>4. TypeOK
    BY <1>1, <1>2, FilesAssumption, TypeParts DEF Init
  <1>5. PidsDiffer /\ SessionsOwn /\ CompilersOwn /\ CleanAlone /\ SessionFileIntact
    BY DEF Init, PidsDiffer, SessionsOwn, CompilersOwn, CleanAlone, SessionFileIntact
  <1>6. JobsOwn /\ NamesDiffer /\ TempFilesOwned
    BY <1>1, <1>3 DEF Init, JobsOwn, NamesDiffer, TempFilesOwned
  <1>7. JobFiles
    BY <1>1, IdleFact DEF JobFiles, At
  <1> QED
    BY <1>2, <1>4, <1>5, <1>6, <1>7 DEF FilesInv

(***************************************************************************)
(* A thread takes its job a step further, or is done with it: what is      *)
(* known of names, and of who writes to them, does not depend on how far   *)
(* the jobs have come.                                                     *)
(***************************************************************************)
JobMoves(w, j) ==
    /\ job' = [job EXCEPT ![w] = j]
    /\ j \in JobRecords
    /\ j = Idle \/ (j.pc # "idle" /\ j.dll = job[w].dll /\ j.src = job[w].src
                    /\ j.clean = job[w].clean)

NamesInv == PidsDiffer /\ JobsOwn /\ SessionsOwn /\ NamesDiffer

LEMMA JobMovesNames ==
    ASSUME TypeOK, NamesInv, NEW w \in Workers, NEW j, Busy(w), JobMoves(w, j),
           UNCHANGED <<pid, ctr, session>>
    PROVE  NamesInv' /\ job' \in [Workers -> JobRecords]
  <1>1. job' \in [Workers -> JobRecords] /\ job'[w] = j
        /\ \A v \in Workers \ {w} : job'[v] = job[v]
    BY TypeParts DEF JobMoves
  <1>2. PidsDiffer' /\ SessionsOwn'
    BY DEF NamesInv, PidsDiffer, SessionsOwn
  <1>3. \A v \in Workers : Busy(v)' => Busy(v) /\ job'[v].dll = job[v].dll
    BY <1>1, IdleFact DEF Busy, At, JobMoves
  <1>4. JobsOwn'
    BY <1>1, <1>3, IdleFact DEF NamesInv, JobsOwn, JobMoves, Busy, At
  <1>5. NamesDiffer'
    BY <1>3 DEF NamesInv, NamesDiffer, Busy, At
  <1> QED
    BY <1>1, <1>2, <1>4, <1>5 DEF NamesInv


LEMMA JobMovesCompilers ==
    ASSUME FilesInv, NEW w \in Workers, NEW j, Busy(w), ~At(w, "wait"), JobMoves(w, j),
           UNCHANGED <<pid, ctr, compiler, session, crashed>>
    PROVE  CompilersOwn' /\ CleanAlone'
  <1>1. job'[w] = j /\ \A v \in Workers \ {w} : job'[v] = job[v]
    BY TypeParts DEF JobMoves, FilesInv
  <1>2. \A v \in Workers : Busy(v)' => Busy(v) /\ job'[v].dll = job[v].dll
                                       /\ job'[v].clean = job[v].clean
    BY <1>1, IdleFact DEF Busy, At, JobMoves
  <1>3. CleanAlone'
    BY <1>2 DEF FilesInv, CleanAlone, Busy, At
  <1>4. CompilersOwn'
    BY <1>1 DEF FilesInv, CompilersOwn, At
  <1> QED
    BY <1>3, <1>4

\* Only the thread whose job it is touches the name of its DLL.
LEMMA JobMovesFiles ==
    ASSUME FilesInv, NEW w \in Workers, NEW j, Busy(w), JobMoves(w, j),
           UNCHANGED <<session, crashed>>,
           \A d \in (DllNames \cup {UserDll}) \ {job[w].dll} : file'[d] = file[d],
           j.pc \in {"spawn", "wait"} =>
              \/ file'[job[w].dll] = Absent
              \/ ~job[w].clean /\ job[w].dll[1] \in crashed,
           j.pc = "check" /\ job[w].clean => file'[job[w].dll] \in {Absent, job[w].src},
           j = Idle /\ file'[job[w].dll] # Absent => job[w].dll[1] \in crashed
    PROVE  JobFiles' /\ SessionFileIntact' /\ TempFilesOwned' /\ PrebuiltKept'
  <1>1. job'[w] = j /\ \A v \in Workers \ {w} : job'[v] = job[v]
    BY TypeParts DEF JobMoves, FilesInv
  <1>2. job[w].dll \in DllNames
    BY DEF FilesInv, JobsOwn
  <1>3. \A v \in Workers \ {w} : Busy(v) => job[v].dll \in DllNames /\ job[v].dll # job[w].dll
    BY DEF FilesInv, JobsOwn, NamesDiffer
  <1>4. \A s \in session : s.dll # job[w].dll /\ s.dll \in DllNames \cup {UserDll}
    BY TypeParts DEF FilesInv, NamesDiffer, SessionRecords
  <1>5. PrebuiltKept'
    BY <1>2, DllFact DEF FilesInv, PrebuiltKept
  <1>6. SessionFileIntact'
    BY <1>4 DEF FilesInv, SessionFileIntact
  <1>7. JobFiles'
    <2> SUFFICES ASSUME NEW v \in Workers
                 PROVE  /\ job'[v].pc \in {"spawn", "wait"} =>
                              \/ file'[job'[v].dll] = Absent
                              \/ ~job'[v].clean /\ job'[v].dll[1] \in crashed
                        /\ job'[v].pc = "check" /\ job'[v].clean =>
                              file'[job'[v].dll] \in {Absent, job'[v].src}
      BY DEF JobFiles, At
    <2>1. CASE v = w
      BY <1>1, <2>1, IdleFact DEF JobMoves
    <2>2. CASE v # w
      BY <1>1, <1>3, <2>2 DEF FilesInv, JobFiles, Busy, At
    <2> QED
      BY <2>1, <2>2
  <1>8. TempFilesOwned'
    <2> SUFFICES ASSUME NEW d \in DllNames, file'[d] # Absent
                 PROVE  \/ \E s \in session : s.owns_dll /\ s.dll = d
                        \/ \E v \in Workers : job'[v].pc # "idle" /\ job'[v].dll = d
                        \/ d[1] \in crashed
      BY DEF TempFilesOwned, Busy, At
    <2>1. CASE d = job[w].dll
      BY <1>1, <2>1 DEF JobMoves
    <2>2. CASE d # job[w].dll
      BY <1>1, <2>2 DEF FilesInv, TempFilesOwned, Busy, At
    <2> QED
      BY <2>1, <2>2
  <1> QED
    BY <1>5, <1>6, <1>7, <1>8

-----------------------------------------------------------------------------
\* The first steps of a compilation read and set PATH and touch no file.
LEMMA PathStep == \A w \in Workers : FilesInv /\ (ReadPath(w) \/ SetPath(w)) => FilesInv'
  <1> SUFFICES ASSUME NEW w \in Workers, FilesInv, ReadPath(w) \/ SetPath(w) PROVE FilesInv'
    OBVIOUS
  <1>1. TypeOK /\ NamesInv
    BY DEF FilesInv, NamesInv
  <1>2. job[w] \in JobRecords /\ w[1] \in Procs /\ path[w[1]] \in SUBSET Dirs
    BY <1>1, JobFact, TypeParts
  <1>3. UNCHANGED <<pid, ctr, file, compiler, session, crashed>>
    BY DEF ReadPath, SetPath
  <1>4. PICK j : JobMoves(w, j) /\ j.pc \in {"set", "remove"}
    <2>1. CASE ReadPath(w)
      <3> DEFINE j == IF job[w].dir \subseteq path[w[1]]
                      THEN [job[w] EXCEPT !.pc = "remove"]
                      ELSE [job[w] EXCEPT !.pc = "set", !.read = path[w[1]]]
      <3>1. job' = [job EXCEPT ![w] = j]
        BY <1>1, <2>1, TypeParts DEF ReadPath
      <3>2. j \in JobRecords /\ j.pc \in {"set", "remove"} /\ j.dll = job[w].dll
            /\ j.src = job[w].src /\ j.clean = job[w].clean
        BY <1>2 DEF JobRecords
      <3> QED
        BY <3>1, <3>2 DEF JobMoves
    <2>2. CASE SetPath(w)
      <3> DEFINE j == [job[w] EXCEPT !.pc = "remove", !.read = {}]
      <3>1. job' = [job EXCEPT ![w] = j]
        BY <1>1, <2>2, TypeParts DEF SetPath
      <3>2. j \in JobRecords /\ j.pc = "remove" /\ j.dll = job[w].dll
            /\ j.src = job[w].src /\ j.clean = job[w].clean
        BY <1>2 DEF JobRecords
      <3> QED
        BY <3>1, <3>2 DEF JobMoves
    <2> QED
      BY <2>1, <2>2
  <1>5. Busy(w) /\ ~At(w, "wait")
    BY DEF ReadPath, SetPath, Busy, At
  <1>6. NamesInv' /\ job' \in [Workers -> JobRecords]
    BY <1>1, <1>3, <1>4, <1>5, JobMovesNames
  <1>7. CompilersOwn' /\ CleanAlone'
    BY <1>3, <1>4, <1>5, JobMovesCompilers
  <1>8. JobFiles' /\ SessionFileIntact' /\ TempFilesOwned' /\ PrebuiltKept'
    BY <1>3, <1>4, <1>5, IdleFact, JobMovesFiles
  <1>9. path' \in [Procs -> SUBSET Dirs]
    <2>1. job[w].read \cup job[w].dir \in SUBSET Dirs
      BY <1>2 DEF JobRecords
    <2> QED
      BY <1>1, <1>2, <2>1, TypeParts DEF ReadPath, SetPath
  <1>10. TypeOK'
    BY <1>1, <1>3, <1>6, <1>9, TypeParts, TypeNext
  <1> QED
    BY <1>6, <1>7, <1>8, <1>10 DEF FilesInv, NamesInv


LEMMA SetFileFact ==
    ASSUME TypeOK, NEW d \in DllNames, NEW c \in Contents, SetFile(d, c)
    PROVE  /\ file' \in [DllNames \cup {UserDll} -> Contents] /\ file'[d] = c
           /\ \A e \in (DllNames \cup {UserDll}) \ {d} : file'[e] = file[e]
  BY TypeParts DEF SetFile

\* The name is freed before the g++ starts, and again when it has failed.
LEMMA RemoveStep == \A w \in Workers : FilesInv /\ (RemoveStale(w) \/ CleanUp(w)) => FilesInv'
  <1> SUFFICES ASSUME NEW w \in Workers, FilesInv, RemoveStale(w) \/ CleanUp(w)
               PROVE  FilesInv'
    OBVIOUS
  <1>1. TypeOK /\ NamesInv
    BY DEF FilesInv, NamesInv
  <1>2. job[w] \in JobRecords
    BY <1>1, JobFact
  <1>3. UNCHANGED <<pid, ctr, path, compiler, session, crashed>> /\ SetFile(job[w].dll, Absent)
    BY DEF RemoveStale, CleanUp
  <1>4. Busy(w) /\ ~At(w, "wait")
    BY DEF RemoveStale, CleanUp, Busy, At
  <1>5. job[w].dll \in DllNames /\ Absent \in Contents
    BY <1>1, <1>4 DEF NamesInv, JobsOwn, Contents
  <1>6. /\ file' \in [DllNames \cup {UserDll} -> Contents] /\ file'[job[w].dll] = Absent
        /\ \A e \in (DllNames \cup {UserDll}) \ {job[w].dll} : file'[e] = file[e]
    BY <1>1, <1>3, <1>5, SetFileFact
  <1>7. PICK j : JobMoves(w, j) /\ (j = Idle \/ j.pc = "spawn")
    <2>1. CASE RemoveStale(w)
      <3> DEFINE j == [job[w] EXCEPT !.pc = "spawn"]
      <3>1. job' = [job EXCEPT ![w] = j]
        BY <1>1, <2>1, TypeParts DEF RemoveStale, Goto
      <3>2. j \in JobRecords /\ j.pc = "spawn" /\ j.dll = job[w].dll
            /\ j.src = job[w].src /\ j.clean = job[w].clean
        BY <1>2 DEF JobRecords
      <3> QED
        BY <3>1, <3>2 DEF JobMoves
    <2>2. CASE CleanUp(w)
      BY <2>2, IdleFact DEF CleanUp, JobMoves
    <2> QED
      BY <2>1, <2>2
  <1>8. NamesInv' /\ job' \in [Workers -> JobRecords]
    BY <1>1, <1>3, <1>4, <1>7, JobMovesNames
  <1>9. CompilersOwn' /\ CleanAlone'
    BY <1>3, <1>4, <1>7, JobMovesCompilers
  <1>10. JobFiles' /\ SessionFileIntact' /\ TempFilesOwned' /\ PrebuiltKept'
    BY <1>3, <1>4, <1>6, <1>7, IdleFact, JobMovesFiles
  <1>11. TypeOK'
    BY <1>1, <1>3, <1>6, <1>8, TypeParts, TypeNext
  <1> QED
    BY <1>8, <1>9, <1>10, <1>11 DEF FilesInv, NamesInv

LEMMA SpawnStep == \A w \in Workers : FilesInv /\ Spawn(w) => FilesInv'
  <1> SUFFICES ASSUME NEW w \in Workers, FilesInv, Spawn(w) PROVE FilesInv'
    OBVIOUS
  <1> DEFINE g == [dll |-> job[w].dll, src |-> job[w].src, worker |-> {w}]
             waiting == [job[w] EXCEPT !.pc = "wait"]
  <1>1. TypeOK /\ NamesInv
    BY DEF FilesInv, NamesInv
  <1>2. job[w] \in JobRecords
    BY <1>1, JobFact
  <1>3. UNCHANGED <<pid, ctr, path, file, session, crashed>>
    BY DEF Spawn
  <1>4. Busy(w) /\ ~At(w, "wait") /\ job[w].pc = "spawn"
    BY DEF Spawn, Busy, At
  <1>5. \/ job' = [job EXCEPT ![w] = waiting] /\ compiler' = compiler \cup {g}
        \/ job' = [job EXCEPT ![w] = Idle] /\ compiler' = compiler
    BY <1>1, TypeParts DEF Spawn, Goto
  <1>6. /\ waiting \in JobRecords /\ waiting.pc = "wait" /\ waiting.dll = job[w].dll
        /\ waiting.src = job[w].src /\ waiting.clean = job[w].clean
    BY <1>2 DEF JobRecords
  <1>7. PICK j : /\ JobMoves(w, j)
                 /\ \/ j = Idle /\ compiler' = compiler
                    \/ j = waiting /\ compiler' = compiler \cup {g}
    BY <1>5, <1>6, IdleFact DEF JobMoves
  <1>8. /\ g \in Compilers /\ g.worker = {w} /\ g.dll = job[w].dll /\ g.src = job[w].src
    BY <1>1, <1>4 DEF Compilers, NamesInv, JobsOwn
  <1> HIDE DEF g, waiting
  <1>9. NamesInv' /\ job' \in [Workers -> JobRecords]
    BY <1>1, <1>3, <1>4, <1>7, JobMovesNames
  <1>10. job[w].dll \in DllNames
    BY <1>1, <1>4 DEF NamesInv, JobsOwn
  <1>11. \/ file[job[w].dll] = Absent
         \/ ~job[w].clean /\ job[w].dll[1] \in crashed
    BY <1>4 DEF FilesInv, JobFiles
  <1>12. JobFiles' /\ SessionFileIntact' /\ TempFilesOwned' /\ PrebuiltKept'
    BY <1>3, <1>4, <1>6, <1>7, <1>11, IdleFact, JobMovesFiles
  <1>13. job'[w] = j /\ \A v \in Workers \ {w} : job'[v] = job[v]
    BY <1>1, <1>7, TypeParts DEF JobMoves
  <1>14. CompilersOwn'
    <2> SUFFICES ASSUME NEW h \in compiler'
                 PROVE  \/ h.worker = {} /\ h.dll[1] \in crashed'
                        \/ \E v \in Workers : /\ h.worker = {v} /\ job'[v].pc = "wait"
                                              /\ h.dll = job'[v].dll /\ h.src = job'[v].src
      BY DEF CompilersOwn, At
    <2>1. CASE h \in compiler
      BY <1>3, <1>4, <1>13, <2>1 DEF FilesInv, CompilersOwn, At
    <2>2. CASE h \notin compiler
      BY <1>6, <1>7, <1>8, <1>13, <2>2
    <2> QED
      BY <2>1, <2>2
  <1>15. CleanAlone'
    <2>1. \A v \in Workers : Busy(v)' => Busy(v) /\ job'[v].dll = job[v].dll
                                         /\ job'[v].clean = job[v].clean
      BY <1>4, <1>7, <1>13, IdleFact DEF Busy, At, JobMoves
    <2>2. \A h \in compiler' : h.worker = {} => h \in compiler
      BY <1>7, <1>8
    <2> QED
      BY <1>3, <2>1, <2>2 DEF FilesInv, CleanAlone, Busy, At
  <1>16. TypeOK'
    BY <1>1, <1>3, <1>7, <1>8, <1>9, TypeParts, TypeNext
  <1> QED
    BY <1>9, <1>12, <1>14, <1>15, <1>16 DEF FilesInv, NamesInv


-----------------------------------------------------------------------------
(***************************************************************************)
(* A compilation gets a name nobody has: its process id is that of no      *)
(* other process, and every number its process has given out is smaller.   *)
(***************************************************************************)
LEMMA FreshName ==
    ASSUME FilesInv, NEW p \in Procs, pid[p] # NoPid, ctr[p] < MaxSessions[p]
    PROVE  /\ <<pid[p], ctr[p]>> \in DllNames
           /\ <<pid[p], ctr[p]>>[1] = pid[p] /\ <<pid[p], ctr[p]>>[2] = ctr[p]
           /\ \A w \in Workers : Busy(w) => job[w].dll # <<pid[p], ctr[p]>>
           /\ \A s \in session : s.dll # <<pid[p], ctr[p]>>
  <1>1. TypeOK
    BY DEF FilesInv
  <1>2. pid[p] \in Pids /\ ctr[p] \in SessionIds /\ ctr[p] \in Nat
    BY <1>1, NextId, TypeParts
  <1> DEFINE d == <<pid[p], ctr[p]>>
  <1>3. d \in DllNames /\ d[1] = pid[p] /\ d[2] = ctr[p]
    BY <1>2, DllFact
  <1> HIDE DEF d
  <1>4. ASSUME NEW w \in Workers, Busy(w) PROVE job[w].dll # d
    <2>1. w[1] \in Procs /\ job[w].dll[1] = pid[w[1]] /\ job[w].dll[2] < ctr[w[1]]
      BY <1>4, WorkerFact DEF FilesInv, JobsOwn
    <2>2. w[1] # p \/ job[w].dll[2] # d[2]
      BY <1>2, <1>3, <2>1
    <2> QED
      BY <1>3, <2>1, <2>2 DEF FilesInv, PidsDiffer
  <1>5. ASSUME NEW s \in session PROVE s.dll # d
    <2>1. s.proc \in Procs
      BY <1>1, TypeParts DEF SessionRecords
    <2>2. CASE s.owns_dll
      <3>1. s.dll[1] = pid[s.proc] /\ s.dll[2] < ctr[s.proc]
        BY <2>2 DEF FilesInv, SessionsOwn
      <3>2. s.proc # p \/ s.dll[2] # d[2]
        BY <1>2, <1>3, <3>1
      <3> QED
        BY <1>3, <2>1, <3>1, <3>2 DEF FilesInv, PidsDiffer
    <2>3. CASE ~s.owns_dll
      BY <1>3, <2>3, DllFact DEF FilesInv, SessionsOwn
    <2> QED
      BY <2>2, <2>3
  <1> QED
    BY <1>3, <1>4, <1>5 DEF d

\* A number is given out: what was below the counter still is.
LEMMA CountOn ==
    ASSUME FilesInv, NEW p \in Procs, ctr[p] < MaxSessions[p],
           ctr' = [ctr EXCEPT ![p] = @ + 1]
    PROVE  /\ ctr' \in [Procs -> Nat] /\ \A q \in Procs : ctr'[q] <= MaxSessions[q]
           /\ ctr'[p] = ctr[p] + 1 /\ \A q \in Procs \ {p} : ctr'[q] = ctr[q]
           /\ \A q \in Procs, n \in Nat : n < ctr[q] => n < ctr'[q]
  <1>1. ctr \in [Procs -> Nat] /\ \A q \in Procs : ctr[q] <= MaxSessions[q]
    BY TypeParts DEF FilesInv
  <1>2. /\ ctr'[p] = ctr[p] + 1 /\ ctr' \in [Procs -> Nat]
        /\ \A q \in Procs \ {p} : ctr'[q] = ctr[q]
    BY <1>1
  <1>3. \A q \in Procs : ctr'[q] <= MaxSessions[q]
    BY <1>1, <1>2, FilesAssumption
  <1> QED
    BY <1>1, <1>2, <1>3

LEMMA SessionIdNat == \A n \in SessionIds : n \in Nat
  BY FilesAssumption DEF SessionIds

LEMMA CompileStep == \A w \in Workers : FilesInv /\ Compile(w) => FilesInv'
  <1> SUFFICES ASSUME NEW w \in Workers, FilesInv, Compile(w) PROVE FilesInv'
    OBVIOUS
  <1> DEFINE p == w[1]
  <1>1. TypeOK /\ p \in Procs
    BY WorkerFact DEF FilesInv
  <1>2. /\ pid[p] # NoPid /\ ~Busy(w) /\ ctr[p] < MaxSessions[p]
        /\ ctr' = [ctr EXCEPT ![p] = @ + 1]
        /\ UNCHANGED <<pid, path, file, compiler, session, crashed>>
    BY DEF Compile, Busy
  <1>3. PICK f \in Formulas, d \in Dirs :
           job' = [job EXCEPT ![w] = [pc |-> "path", dll |-> <<pid[p], ctr[p]>>,
                      src |-> f, dir |-> {d}, read |-> {},
                      clean |-> Orphans(pid[p]) = {}]]
    BY DEF Compile
  <1> DEFINE j == [pc |-> "path", dll |-> <<pid[p], ctr[p]>>, src |-> f, dir |-> {d},
                   read |-> {}, clean |-> Orphans(pid[p]) = {}]
  <1>4. /\ <<pid[p], ctr[p]>> \in DllNames
        /\ <<pid[p], ctr[p]>>[1] = pid[p] /\ <<pid[p], ctr[p]>>[2] = ctr[p]
        /\ \A v \in Workers : Busy(v) => job[v].dll # <<pid[p], ctr[p]>>
        /\ \A s \in session : s.dll # <<pid[p], ctr[p]>>
    BY <1>1, <1>2, FreshName
  <1>5. /\ j \in JobRecords /\ j.pc = "path" /\ j.src = f /\ j.dll \in DllNames
        /\ j.dll[1] = pid[p] /\ j.dll[2] = ctr[p]
        /\ j.clean <=> Orphans(pid[p]) = {}
        /\ \A v \in Workers : Busy(v) => job[v].dll # j.dll
        /\ \A s \in session : s.dll # j.dll
    BY <1>4 DEF JobRecords
  <1>6. job' \in [Workers -> JobRecords] /\ job'[w] = j
        /\ \A v \in Workers \ {w} : job'[v] = job[v]
    BY <1>1, <1>3, <1>5, TypeParts
  <1> HIDE DEF j, p
  <1>7. /\ ctr' \in [Procs -> Nat] /\ \A q \in Procs : ctr'[q] <= MaxSessions[q]
        /\ ctr'[p] = ctr[p] + 1 /\ ctr[p] \in Nat
        /\ \A q \in Procs, n \in Nat : n < ctr[q] => n < ctr'[q]
    BY <1>1, <1>2, CountOn, TypeParts
  <1>8. TypeOK'
    BY <1>1, <1>2, <1>6, <1>7, TypeParts, TypeNext
  <1>9. PidsDiffer' /\ PrebuiltKept' /\ SessionFileIntact'
    BY <1>2 DEF FilesInv, PidsDiffer, PrebuiltKept, SessionFileIntact
  <1>10. JobsOwn'
    <2> SUFFICES ASSUME NEW v \in Workers
                 PROVE  IF job'[v].pc # "idle"
                        THEN /\ job'[v].dll \in DllNames /\ job'[v].src \in Formulas
                             /\ job'[v].dll[1] = pid[v[1]] /\ job'[v].dll[2] < ctr'[v[1]]
                        ELSE job'[v] = Idle
      BY <1>2 DEF JobsOwn, Busy, At
    <2>1. CASE v = w
      BY <1>5, <1>6, <1>7, <2>1 DEF p
    <2>2. CASE v # w
      <3>1. job'[v] = job[v] /\ v[1] \in Procs
        BY <1>6, <2>2, WorkerFact
      <3>2. job[v].pc # "idle" => job[v].dll[2] \in Nat
        BY DllFact, SessionIdNat DEF FilesInv, JobsOwn, Busy, At
      <3> QED
        BY <1>7, <3>1, <3>2 DEF FilesInv, JobsOwn, Busy, At
    <2> QED
      BY <2>1, <2>2
  <1>11. SessionsOwn'
    <2>1. \A s \in session : s.proc \in Procs /\ (s.owns_dll => s.dll[2] \in Nat)
      BY <1>1, TypeParts, DllFact, SessionIdNat DEF FilesInv, SessionsOwn, SessionRecords
    <2> QED
      BY <1>2, <1>7, <2>1 DEF FilesInv, SessionsOwn
  <1>12. NamesDiffer'
    <2>1. \A v \in Workers : Busy(v)' <=> (v = w \/ Busy(v))
      BY <1>5, <1>6 DEF Busy, At
    <2>2. \A v \in Workers \ {w} : job'[v].dll = job[v].dll
      BY <1>6
    <2> QED
      BY <1>2, <1>5, <1>6, <2>1, <2>2 DEF FilesInv, NamesDiffer, Busy, At
  <1>13. CompilersOwn'
    BY <1>2, <1>6 DEF FilesInv, CompilersOwn, Busy, At
  <1>14. CleanAlone'
    <2>1. \A g \in compiler : g.worker = {} /\ j.clean => g.dll[1] # j.dll[1]
      BY <1>5 DEF Orphans
    <2> QED
      BY <1>2, <1>6, <2>1 DEF FilesInv, CleanAlone, Busy, At
  <1>15. JobFiles'
    BY <1>2, <1>5, <1>6 DEF FilesInv, JobFiles, At
  <1>16. TempFilesOwned'
    BY <1>2, <1>6 DEF FilesInv, TempFilesOwned, Busy, At
  <1> QED
    BY <1>8, <1>9, <1>10, <1>11, <1>12, <1>13, <1>14, <1>15, <1>16 DEF FilesInv


\* Neither a prebuilt DLL nor a missing compiler starts a job; either takes a number.
LEMMA CountStep ==
    \A w \in Workers : FilesInv /\ (CompilePrebuilt(w) \/ CompileNothing(w)) => FilesInv'
  <1> SUFFICES ASSUME NEW w \in Workers, FilesInv, CompilePrebuilt(w) \/ CompileNothing(w)
               PROVE  FilesInv'
    OBVIOUS
  <1> DEFINE p == w[1]
             new == Session(w, ctr[p], UserDll, FALSE, [Idle EXCEPT !.src = file[UserDll]])
  <1>1. TypeOK /\ p \in Procs
    BY WorkerFact DEF FilesInv
  <1>2. /\ pid[p] # NoPid /\ ctr[p] < MaxSessions[p]
        /\ ctr' = [ctr EXCEPT ![p] = @ + 1]
        /\ UNCHANGED <<pid, path, file, job, compiler, crashed>>
    BY DEF CompilePrebuilt, CompileNothing
  <1>3. session' = session \cup {new} \/ session' = session
    BY DEF CompilePrebuilt, CompileNothing
  <1>4. /\ new \in SessionRecords /\ new.proc = p /\ ~new.owns_dll /\ new.dll = UserDll
        /\ new.src = Prebuilt
    BY <1>1, <1>2, NextId DEF Session, Idle, SessionRecords, Contents, FilesInv, PrebuiltKept
  <1> HIDE DEF new, p
  <1>5. /\ ctr' \in [Procs -> Nat] /\ \A q \in Procs : ctr'[q] <= MaxSessions[q]
        /\ \A q \in Procs, n \in Nat : n < ctr[q] => n < ctr'[q]
    BY <1>1, <1>2, CountOn
  <1>6. TypeOK'
    BY <1>1, <1>2, <1>3, <1>4, <1>5, TypeParts, TypeNext
  <1>7. PidsDiffer' /\ PrebuiltKept' /\ CompilersOwn'
    BY <1>2 DEF FilesInv, PidsDiffer, PrebuiltKept, CompilersOwn, At
  <1>8. \A v \in Workers : Busy(v) => job[v].dll \in DllNames /\ job[v].dll[2] \in Nat
                                      /\ v[1] \in Procs
    BY DllFact, SessionIdNat, WorkerFact DEF FilesInv, JobsOwn
  <1>9. JobsOwn'
    BY <1>2, <1>5, <1>8 DEF FilesInv, JobsOwn, Busy, At
  <1>10. \A s \in session : /\ s.proc \in Procs
                            /\ s.owns_dll => s.dll \in DllNames /\ s.dll[2] \in Nat
    BY <1>1, TypeParts, DllFact, SessionIdNat DEF FilesInv, SessionsOwn, SessionRecords
  <1>11. SessionsOwn'
    BY <1>2, <1>3, <1>4, <1>5, <1>10 DEF FilesInv, SessionsOwn
  <1>12. NamesDiffer'
    BY <1>2, <1>3, <1>4, <1>8, <1>10, DllFact DEF FilesInv, NamesDiffer, Busy, At
  <1>13. CleanAlone'
    <2>1. \A g \in compiler : g.dll \in DllNames
      BY <1>1, TypeParts DEF Compilers
    <2> QED
      BY <1>2, <1>3, <1>4, <2>1, DllFact DEF FilesInv, CleanAlone, Busy, At
  <1>14. JobFiles'
    BY <1>2 DEF FilesInv, JobFiles, At
  <1>15. SessionFileIntact'
    BY <1>2, <1>3, <1>4 DEF FilesInv, SessionFileIntact, PrebuiltKept
  <1>16. TempFilesOwned'
    BY <1>2, <1>3 DEF FilesInv, TempFilesOwned, Busy, At
  <1> QED
    BY <1>6, <1>7, <1>9, <1>11, <1>12, <1>13, <1>14, <1>15, <1>16 DEF FilesInv

(***************************************************************************)
(* The job becomes a session over its DLL, or fails because there is none. *)
(***************************************************************************)
LEMMA FinishStep == \A w \in Workers : FilesInv /\ Finish(w) => FilesInv'
  <1> SUFFICES ASSUME NEW w \in Workers, FilesInv, Finish(w) PROVE FilesInv'
    OBVIOUS
  <1> DEFINE new == Session(w, job[w].dll[2], job[w].dll, TRUE, job[w])
  <1>1. TypeOK /\ NamesInv
    BY DEF FilesInv, NamesInv
  <1>2. job[w] \in JobRecords /\ w[1] \in Procs
    BY <1>1, JobFact
  <1>3. /\ Busy(w) /\ At(w, "check") /\ job' = [job EXCEPT ![w] = Idle]
        /\ UNCHANGED <<pid, ctr, path, file, compiler, crashed>>
        /\ session' = IF file[job[w].dll] = Absent THEN session ELSE session \cup {new}
    BY DEF Finish, Busy, At
  <1>4. /\ job[w].dll \in DllNames /\ job[w].src \in Formulas
        /\ job[w].dll[1] = pid[w[1]] /\ job[w].dll[2] < ctr[w[1]]
    BY <1>3 DEF FilesInv, JobsOwn
  <1>5. pid[w[1]] # NoPid /\ job[w].dll[2] \in SessionIds
    BY <1>4, DllFact
  <1>6. /\ new \in SessionRecords /\ new.proc = w[1] /\ new.owns_dll
        /\ new.dll = job[w].dll /\ new.src = job[w].src /\ new.clean = job[w].clean
    BY <1>2, <1>4, <1>5 DEF Session, SessionRecords, JobRecords, Contents
  <1> HIDE DEF new
  <1>7. job' \in [Workers -> JobRecords] /\ job'[w] = Idle
        /\ \A v \in Workers \ {w} : job'[v] = job[v]
    BY <1>1, <1>3, IdleFact, TypeParts
  <1>8. \A v \in Workers : Busy(v)' <=> v # w /\ Busy(v)
    BY <1>7, IdleFact DEF Busy, At
  <1>9. TypeOK'
    BY <1>1, <1>3, <1>6, <1>7, TypeParts, TypeNext
  <1>10. PidsDiffer' /\ PrebuiltKept'
    BY <1>3 DEF FilesInv, PidsDiffer, PrebuiltKept
  <1>11. JobsOwn'
    BY <1>3, <1>7, <1>8, IdleFact DEF FilesInv, JobsOwn, Busy, At
  <1>12. SessionsOwn'
    BY <1>3, <1>4, <1>5, <1>6 DEF FilesInv, SessionsOwn
  <1>13. NamesDiffer'
    <2>1. \A v \in Workers : Busy(v)' => v # w /\ Busy(v) /\ job'[v].dll = job[v].dll
                                         /\ job[v].dll # job[w].dll
      BY <1>3, <1>7, <1>8 DEF FilesInv, NamesDiffer
    <2>2. \A s \in session : s.dll # job[w].dll
      BY <1>3 DEF FilesInv, NamesDiffer
    <2> QED
      BY <1>3, <1>6, <2>1, <2>2 DEF FilesInv, NamesDiffer, Busy, At
  <1>14. CompilersOwn'
    BY <1>3, <1>7 DEF FilesInv, CompilersOwn, At
  <1>15. CleanAlone'
    BY <1>3, <1>6, <1>7, <1>8 DEF FilesInv, CleanAlone, Busy, At
  <1>16. JobFiles'
    BY <1>3, <1>7, IdleFact DEF FilesInv, JobFiles, At
  <1>17. SessionFileIntact'
    BY <1>3, <1>6 DEF FilesInv, SessionFileIntact, JobFiles
  <1>18. TempFilesOwned'
    <2> SUFFICES ASSUME NEW d \in DllNames, file[d] # Absent
                 PROVE  \/ \E s \in session' : s.owns_dll /\ s.dll = d
                        \/ \E v \in Workers : job'[v].pc # "idle" /\ job'[v].dll = d
                        \/ d[1] \in crashed
      BY <1>3 DEF TempFilesOwned, Busy, At
    <2>1. CASE d = job[w].dll
      BY <1>3, <1>6, <2>1
    <2>2. CASE d # job[w].dll
      BY <1>3, <1>7, <2>2 DEF FilesInv, TempFilesOwned, Busy, At
    <2> QED
      BY <2>1, <2>2
  <1> QED
    BY <1>9, <1>10, <1>11, <1>12, <1>13, <1>14, <1>15, <1>16, <1>17, <1>18 DEF FilesInv

\* A session removes its own DLL, which nobody else has.
LEMMA FreeStep == \A s \in session : FilesInv /\ Free(s) => FilesInv'
  <1> SUFFICES ASSUME NEW s \in session, FilesInv, Free(s) PROVE FilesInv'
    OBVIOUS
  <1>1. TypeOK
    BY DEF FilesInv
  <1>2. /\ session' = session \ {s}
        /\ UNCHANGED <<pid, ctr, path, job, compiler, crashed>>
    BY DEF Free
  <1>3. /\ file' \in [DllNames \cup {UserDll} -> Contents] /\ file'[UserDll] = file[UserDll]
        /\ \A d \in DllNames : \/ file'[d] = file[d] /\ ~(s.owns_dll /\ d = s.dll)
                               \/ file'[d] = Absent /\ s.owns_dll /\ d = s.dll
    <2>1. CASE s.owns_dll
      <3>1. s.dll \in DllNames /\ Absent \in Contents
        BY <2>1 DEF FilesInv, SessionsOwn, Contents
      <3>2. SetFile(s.dll, Absent)
        BY <2>1 DEF Free
      <3>3. /\ file' \in [DllNames \cup {UserDll} -> Contents] /\ file'[s.dll] = Absent
            /\ \A d \in (DllNames \cup {UserDll}) \ {s.dll} : file'[d] = file[d]
        BY <1>1, <3>1, <3>2, SetFileFact
      <3>4. UserDll # s.dll
        BY <3>1, DllFact
      <3> QED
        BY <2>1, <3>3, <3>4
    <2>2. CASE ~s.owns_dll
      BY <1>1, <2>2, TypeParts DEF Free
    <2> QED
      BY <2>1, <2>2
  <1>4. TypeOK'
    BY <1>1, <1>2, <1>3, TypeParts, TypeNext
  <1>5. PidsDiffer' /\ PrebuiltKept' /\ CompilersOwn' /\ CleanAlone' /\ JobsOwn' /\ SessionsOwn'
    BY <1>2, <1>3 DEF FilesInv, PidsDiffer, PrebuiltKept, CompilersOwn, CleanAlone, JobsOwn,
                      SessionsOwn, Busy, At
  <1>6. NamesDiffer'
    BY <1>2 DEF FilesInv, NamesDiffer, Busy, At
  <1>7. JobFiles'
    <2>1. \A v \in Workers : Busy(v) => job[v].dll \in DllNames /\ job[v].dll # s.dll
      BY DEF FilesInv, JobsOwn, NamesDiffer
    <2>2. \A v \in Workers : Busy(v) => file'[job[v].dll] = file[job[v].dll]
      BY <1>3, <2>1
    <2> QED
      BY <1>2, <2>2 DEF FilesInv, JobFiles, Busy, At
  <1>8. SessionFileIntact'
    <2> SUFFICES ASSUME NEW r \in session, r # s, r.clean PROVE file'[r.dll] = r.src
      BY <1>2 DEF SessionFileIntact
    <2>1. r.dll \in DllNames \cup {UserDll} /\ (s.owns_dll => r.dll # s.dll)
      BY <1>1, TypeParts DEF FilesInv, NamesDiffer, SessionRecords
    <2>2. file'[r.dll] = file[r.dll]
      BY <1>3, <2>1
    <2> QED
      BY <2>2 DEF FilesInv, SessionFileIntact
  <1>9. TempFilesOwned'
    BY <1>2, <1>3 DEF FilesInv, TempFilesOwned, Busy, At
  <1> QED
    BY <1>4, <1>5, <1>6, <1>7, <1>8, <1>9 DEF FilesInv


-----------------------------------------------------------------------------
(***************************************************************************)
(* A g++ ends.  The one a thread waits for changes the file of that        *)
(* thread's job only; an orphan writes where the id of a crashed process   *)
(* stands, which no clean job or session shares with it.                   *)
(***************************************************************************)
LEMMA CompilerOutcome ==
    ASSUME FilesInv, NEW g \in compiler, CompilerEnds(g)
    PROVE  /\ compiler' = compiler \ {g}
           /\ UNCHANGED <<pid, ctr, path, session, crashed>>
           /\ g.dll \in DllNames
           /\ file' \in [DllNames \cup {UserDll} -> Contents]
           /\ \A d \in (DllNames \cup {UserDll}) \ {g.dll} : file'[d] = file[d]
           /\ \/ file'[g.dll] \in {file[g.dll], g.src}
                 /\ job' = [w \in Workers |-> IF w \in g.worker
                              THEN [job[w] EXCEPT !.pc = "check"] ELSE job[w]]
              \/ job' = [w \in Workers |-> IF w \in g.worker
                           THEN [job[w] EXCEPT !.pc = "cleanup"] ELSE job[w]]
  <1>1. TypeOK /\ g \in Compilers
    BY TypeParts DEF FilesInv
  <1>2. g.dll \in DllNames /\ g.src \in Contents /\ Partial \in Contents
    BY <1>1 DEF Compilers, Contents
  <1>3. file \in [DllNames \cup {UserDll} -> Contents]
    BY <1>1, TypeParts
  <1>4. PICK outcome \in {"built", "nothing", "failed", "failed_partial"} :
          /\ file' = CASE outcome = "built" -> [file EXCEPT ![g.dll] = g.src]
                       [] outcome = "failed_partial" -> [file EXCEPT ![g.dll] = Partial]
                       [] OTHER -> file
          /\ job' = [w \in Workers |->
                       IF w \in g.worker
                       THEN [job[w] EXCEPT !.pc = IF outcome \in {"built", "nothing"}
                                                  THEN "check" ELSE "cleanup"]
                       ELSE job[w]]
    BY DEF CompilerEnds
  <1>5. compiler' = compiler \ {g} /\ UNCHANGED <<pid, ctr, path, session, crashed>>
    BY DEF CompilerEnds
  <1>6. CASE outcome = "built"
    <2>1. file' = [file EXCEPT ![g.dll] = g.src]
      BY <1>4, <1>6
    <2> QED
      BY <1>2, <1>3, <1>4, <1>5, <1>6, <2>1
  <1>7. CASE outcome = "failed_partial"
    <2>1. file' = [file EXCEPT ![g.dll] = Partial]
      BY <1>4, <1>7
    <2> QED
      BY <1>2, <1>3, <1>4, <1>5, <1>7, <2>1
  <1>8. CASE outcome \in {"nothing", "failed"}
    <2>1. file' = file
      BY <1>4, <1>8
    <2> QED
      BY <1>2, <1>3, <1>4, <1>5, <1>8, <2>1
  <1> QED
    BY <1>6, <1>7, <1>8

LEMMA AwaitedCompilerStep ==
    ASSUME FilesInv, NEW g \in compiler, NEW w \in Workers, CompilerEnds(g),
           g.worker = {w}, At(w, "wait"), g.dll = job[w].dll, g.src = job[w].src
    PROVE  FilesInv'
  <1>1. TypeOK /\ NamesInv
    BY DEF FilesInv, NamesInv
  <1>2. job[w] \in JobRecords /\ Busy(w)
    BY <1>1, JobFact DEF Busy, At
  <1>3. /\ compiler' = compiler \ {g}
        /\ UNCHANGED <<pid, ctr, path, session, crashed>>
        /\ file' \in [DllNames \cup {UserDll} -> Contents]
        /\ \A d \in (DllNames \cup {UserDll}) \ {job[w].dll} : file'[d] = file[d]
    BY CompilerOutcome
  <1>4. PICK j : /\ JobMoves(w, j)
                 /\ \/ j.pc = "check" /\ file'[job[w].dll] \in {file[job[w].dll], job[w].src}
                    \/ j.pc = "cleanup"
    <2> DEFINE check == [job[w] EXCEPT !.pc = "check"]
               cleanup == [job[w] EXCEPT !.pc = "cleanup"]
    <2>1. /\ check \in JobRecords /\ check.pc = "check" /\ check.dll = job[w].dll
          /\ check.src = job[w].src /\ check.clean = job[w].clean
          /\ cleanup \in JobRecords /\ cleanup.pc = "cleanup" /\ cleanup.dll = job[w].dll
          /\ cleanup.src = job[w].src /\ cleanup.clean = job[w].clean
      BY <1>2 DEF JobRecords
    <2>2. \/ file'[job[w].dll] \in {file[job[w].dll], job[w].src}
             /\ job' = [v \in Workers |-> IF v \in {w} THEN [job[v] EXCEPT !.pc = "check"]
                                          ELSE job[v]]
          \/ job' = [v \in Workers |-> IF v \in {w} THEN [job[v] EXCEPT !.pc = "cleanup"]
                                       ELSE job[v]]
      BY CompilerOutcome
    <2>3. \/ file'[job[w].dll] \in {file[job[w].dll], job[w].src}
             /\ job' = [job EXCEPT ![w] = check]
          \/ job' = [job EXCEPT ![w] = cleanup]
      BY <1>1, <2>2, TypeParts
    <2> HIDE DEF check, cleanup
    <2> QED
      BY <2>1, <2>3 DEF JobMoves
  <1>5. NamesInv' /\ job' \in [Workers -> JobRecords]
    BY <1>1, <1>2, <1>3, <1>4, JobMovesNames
  <1>6. job[w].clean => file[job[w].dll] = Absent
    BY DEF FilesInv, JobFiles, At
  <1>7. JobFiles' /\ SessionFileIntact' /\ TempFilesOwned' /\ PrebuiltKept'
    BY <1>2, <1>3, <1>4, <1>6, IdleFact, JobMovesFiles
  <1>8. job'[w] = j /\ \A v \in Workers \ {w} : job'[v] = job[v]
    BY <1>1, <1>4, TypeParts DEF JobMoves
  <1>9. CleanAlone'
    <2>1. \A v \in Workers : Busy(v)' => Busy(v) /\ job'[v].dll = job[v].dll
                                         /\ job'[v].clean = job[v].clean
      BY <1>2, <1>4, <1>8, IdleFact DEF Busy, At, JobMoves
    <2> QED
      BY <1>3, <2>1 DEF FilesInv, CleanAlone, Busy, At
  <1>10. CompilersOwn'
    <2> SUFFICES ASSUME NEW h \in compiler, h # g
                 PROVE  \/ h.worker = {} /\ h.dll[1] \in crashed
                        \/ \E v \in Workers : /\ h.worker = {v} /\ job'[v].pc = "wait"
                                              /\ h.dll = job'[v].dll /\ h.src = job'[v].src
      BY <1>3 DEF CompilersOwn, At
    <2>1. ASSUME NEW v \in Workers, h.worker = {v}, At(v, "wait"), h.dll = job[v].dll,
                 h.src = job[v].src
          PROVE  v # w
      <3>1. h \in Compilers /\ g \in Compilers
        BY <1>1, TypeParts
      <3>2. CASE v = w
        <4>1. h.dll = g.dll /\ h.src = g.src /\ h.worker = g.worker
          BY <2>1, <3>2
        <4> QED
          BY <3>1, <4>1 DEF Compilers
      <3> QED
        BY <3>2
    <2> QED
      BY <1>8, <2>1 DEF FilesInv, CompilersOwn, At
  <1>11. TypeOK'
    BY <1>1, <1>3, <1>5, TypeParts, TypeNext
  <1> QED
    BY <1>5, <1>7, <1>9, <1>10, <1>11 DEF FilesInv, NamesInv


LEMMA OrphanStep ==
    ASSUME FilesInv, NEW g \in compiler, CompilerEnds(g), g.worker = {}, g.dll[1] \in crashed
    PROVE  FilesInv'
  <1>1. TypeOK
    BY DEF FilesInv
  <1>2. /\ compiler' = compiler \ {g}
        /\ UNCHANGED <<pid, ctr, path, session, crashed>>
        /\ g.dll \in DllNames
        /\ file' \in [DllNames \cup {UserDll} -> Contents]
        /\ \A d \in (DllNames \cup {UserDll}) \ {g.dll} : file'[d] = file[d]
    BY CompilerOutcome
  <1>3. job' = job
    <2>1. job' = [w \in Workers |-> job[w]]
      BY CompilerOutcome
    <2> QED
      BY <1>1, <2>1, TypeParts
  <1>4. TypeOK'
    BY <1>1, <1>2, <1>3, TypeParts, TypeNext
  <1>5. PidsDiffer' /\ JobsOwn' /\ SessionsOwn' /\ NamesDiffer'
    BY <1>2, <1>3 DEF FilesInv, PidsDiffer, JobsOwn, SessionsOwn, NamesDiffer, Busy, At
  <1>6. CompilersOwn' /\ CleanAlone'
    BY <1>2, <1>3 DEF FilesInv, CompilersOwn, CleanAlone, Busy, At
  <1>7. PrebuiltKept'
    BY <1>2, DllFact DEF FilesInv, PrebuiltKept
  <1>8. \A w \in Workers : Busy(w) =>
           \/ file'[job[w].dll] = file[job[w].dll]
           \/ ~job[w].clean /\ job[w].dll[1] \in crashed
    BY <1>2 DEF FilesInv, JobsOwn, CleanAlone
  <1>9. JobFiles'
    BY <1>2, <1>3, <1>8 DEF FilesInv, JobFiles, Busy, At
  <1>10. SessionFileIntact'
    <2> SUFFICES ASSUME NEW s \in session, s.clean PROVE file'[s.dll] = s.src
      BY <1>2 DEF SessionFileIntact
    <2>1. s.dll \in DllNames \cup {UserDll}
      BY <1>1, TypeParts DEF SessionRecords
    <2>2. s.dll # g.dll
      BY DEF FilesInv, CleanAlone
    <2> QED
      BY <1>2, <2>1, <2>2 DEF FilesInv, SessionFileIntact
  <1>11. TempFilesOwned'
    BY <1>2, <1>3 DEF FilesInv, TempFilesOwned, Busy, At
  <1> QED
    BY <1>4, <1>5, <1>6, <1>7, <1>9, <1>10, <1>11 DEF FilesInv

LEMMA CompilerStep == \A g \in compiler : FilesInv /\ CompilerEnds(g) => FilesInv'
  BY AwaitedCompilerStep, OrphanStep DEF FilesInv, CompilersOwn

-----------------------------------------------------------------------------
(***************************************************************************)
(* A process starts with an id no running process has; what a predecessor  *)
(* left of its jobs and sessions is gone.                                  *)
(***************************************************************************)
LEMMA StartStep == \A p \in Procs : FilesInv /\ Start(p) => FilesInv'
  <1> SUFFICES ASSUME NEW p \in Procs, FilesInv, Start(p) PROVE FilesInv'
    OBVIOUS
  <1>1. TypeOK
    BY DEF FilesInv
  <1>2. /\ pid[p] = NoPid
        /\ UNCHANGED <<ctr, path, file, job, compiler, session, crashed>>
    BY DEF Start
  <1>3. PICK i \in Pids \ {pid[q] : q \in Procs} : pid' = [pid EXCEPT ![p] = i]
    BY DEF Start
  <1>4. /\ pid' \in [Procs -> Pids \cup {NoPid}] /\ pid'[p] = i
        /\ \A q \in Procs \ {p} : pid'[q] = pid[q]
    BY <1>1, <1>3, TypeParts
  <1>5. TypeOK'
    BY <1>1, <1>2, <1>4, TypeParts, TypeNext
  <1>6. PidsDiffer'
    BY <1>3, <1>4 DEF FilesInv, PidsDiffer
  <1>7. \A w \in Workers : Busy(w) => pid'[w[1]] = pid[w[1]]
    BY <1>2, <1>4, WorkerFact, DllFact DEF FilesInv, JobsOwn
  <1>8. JobsOwn'
    BY <1>2, <1>7 DEF FilesInv, JobsOwn, Busy, At
  <1>9. \A s \in session : pid'[s.proc] = pid[s.proc]
    BY <1>1, <1>2, <1>4, TypeParts DEF FilesInv, SessionsOwn, SessionRecords
  <1>10. SessionsOwn'
    BY <1>2, <1>9 DEF FilesInv, SessionsOwn
  <1>11. NamesDiffer' /\ CompilersOwn' /\ CleanAlone'
    BY <1>2 DEF FilesInv, NamesDiffer, CompilersOwn, CleanAlone, Busy, At
  <1>12. JobFiles' /\ SessionFileIntact' /\ TempFilesOwned' /\ PrebuiltKept'
    BY <1>2 DEF FilesInv, JobFiles, SessionFileIntact, TempFilesOwned, PrebuiltKept, Busy, At
  <1> QED
    BY <1>5, <1>6, <1>8, <1>10, <1>11, <1>12 DEF FilesInv

(***************************************************************************)
(* A crash: jobs and sessions of the process go, and its compilers have no *)
(* host left.  Their id is now that of a crashed process, and of no other  *)
(* that runs.                                                              *)
(***************************************************************************)
LEMMA CrashStep == \A p \in Procs : FilesInv /\ Crash(p) => FilesInv'
  <1> SUFFICES ASSUME NEW p \in Procs, FilesInv, Crash(p) PROVE FilesInv'
    OBVIOUS
  <1>1. TypeOK
    BY DEF FilesInv
  <1>2. /\ pid[p] # NoPid /\ file' = file
        /\ crashed' = crashed \cup {pid[p]} /\ session' = {s \in session : s.proc # p}
    BY DEF Crash
  <1>3. /\ pid' \in [Procs -> Pids \cup {NoPid}] /\ pid'[p] = NoPid
        /\ ctr' \in [Procs -> Nat] /\ ctr'[p] = 0
        /\ \A q \in Procs \ {p} : pid'[q] = pid[q] /\ ctr'[q] = ctr[q]
    BY <1>1, TypeParts DEF Crash
  <1>4. path' \in [Procs -> SUBSET Dirs]
    BY <1>1, TypeParts, FilesAssumption DEF Crash
  <1>5. /\ job' \in [Workers -> JobRecords]
        /\ \A w \in Workers : job'[w] = IF w[1] = p THEN Idle ELSE job[w]
    BY <1>1, TypeParts, IdleFact DEF Crash
  <1>6. \A w \in Workers : Busy(w)' <=> w[1] # p /\ Busy(w)
    BY <1>5, IdleFact DEF Busy, At
  <1>7. compiler' = {IF \E w \in g.worker : w[1] = p
                     THEN [g EXCEPT !.worker = {}] ELSE g : g \in compiler}
    BY DEF Crash
  <1>8. \A w \in Workers : Busy(w) => w[1] \in Procs /\ job[w].dll[1] = pid[w[1]]
    BY WorkerFact DEF FilesInv, JobsOwn
  <1>9. ASSUME NEW h \in compiler'
        PROVE  /\ h \in Compilers
               /\ \/ h \in compiler /\ \A w \in h.worker : w[1] # p
                  \/ h.worker = {} /\ h.dll[1] = pid[p]
    <2>1. PICK g \in compiler : h = IF \E w \in g.worker : w[1] = p
                                    THEN [g EXCEPT !.worker = {}] ELSE g
      BY <1>7
    <2>2. g \in Compilers
      BY <1>1, TypeParts
    <2>3. CASE \E w \in g.worker : w[1] = p
      <3>1. h = [g EXCEPT !.worker = {}]
        BY <2>1, <2>3
      <3>2. h \in Compilers /\ h.worker = {} /\ h.dll = g.dll
        BY <2>2, <3>1 DEF Compilers
      <3>3. PICK w \in Workers : g.worker = {w} /\ At(w, "wait") /\ g.dll = job[w].dll
        BY <2>3 DEF FilesInv, CompilersOwn
      <3>4. w[1] = p
        BY <2>3, <3>3
      <3> QED
        BY <1>8, <3>2, <3>3, <3>4 DEF Busy, At
    <2>4. CASE ~\E w \in g.worker : w[1] = p
      BY <2>1, <2>2, <2>4
    <2> QED
      BY <2>3, <2>4
  <1>10. TypeOK'
    <2>1. \A q \in Procs : ctr'[q] <= MaxSessions[q]
      BY <1>1, <1>3, TypeParts, FilesAssumption
    <2>2. crashed' \subseteq Pids /\ session' \subseteq SessionRecords /\ compiler' \subseteq Compilers
      BY <1>1, <1>2, <1>9, TypeParts
    <2>3. file' \in [DllNames \cup {UserDll} -> Contents]
      BY <1>1, <1>2, TypeParts
    <2> QED
      BY <1>3, <1>4, <1>5, <2>1, <2>2, <2>3, TypeNext
  <1>11. PidsDiffer' /\ PrebuiltKept'
    BY <1>2, <1>3 DEF FilesInv, PidsDiffer, PrebuiltKept
  <1>12. JobsOwn'
    BY <1>3, <1>5, <1>6, <1>8 DEF FilesInv, JobsOwn, Busy, At
  <1>13. \A s \in session : s.proc \in Procs
    BY <1>1, TypeParts DEF SessionRecords
  <1>14. SessionsOwn'
    BY <1>2, <1>3, <1>13 DEF FilesInv, SessionsOwn
  <1>15. NamesDiffer'
    BY <1>2, <1>5, <1>6 DEF FilesInv, NamesDiffer, Busy, At
  <1>16. CompilersOwn'
    <2> SUFFICES ASSUME NEW h \in compiler'
                 PROVE  \/ h.worker = {} /\ h.dll[1] \in crashed'
                        \/ \E v \in Workers : /\ h.worker = {v} /\ job'[v].pc = "wait"
                                              /\ h.dll = job'[v].dll /\ h.src = job'[v].src
      BY DEF CompilersOwn, At
    <2>1. CASE h \in compiler /\ \A w \in h.worker : w[1] # p
      BY <1>2, <1>5, <2>1 DEF FilesInv, CompilersOwn, At
    <2> QED
      BY <1>2, <1>9, <2>1
  <1>17. CleanAlone'
    <2> SUFFICES ASSUME NEW h \in compiler', h.worker = {}
                 PROVE  /\ \A w \in Workers : job'[w].pc # "idle" /\ job'[w].clean =>
                              h.dll[1] # job'[w].dll[1]
                        /\ \A s \in session' : s.clean => h.dll[1] # s.dll[1]
      BY DEF CleanAlone, Busy, At
    <2>1. CASE h \in compiler
      BY <1>2, <1>5, <1>6, <2>1 DEF FilesInv, CleanAlone, Busy, At
    <2>2. CASE h.dll[1] = pid[p]
      <3>1. \A w \in Workers : w[1] # p /\ Busy(w) => job[w].dll[1] # pid[p]
        BY <1>2, <1>8 DEF FilesInv, PidsDiffer
      <3>2. \A s \in session : s.proc # p => s.dll[1] # pid[p]
        BY <1>2, <1>13, DllFact DEF FilesInv, PidsDiffer, SessionsOwn
      <3> QED
        BY <1>2, <1>5, <1>6, <2>2, <3>1, <3>2 DEF Busy, At
    <2> QED
      BY <1>9, <2>1, <2>2
  <1>18. JobFiles'
    BY <1>2, <1>5, IdleFact DEF FilesInv, JobFiles, At
  <1>19. SessionFileIntact'
    BY <1>2 DEF FilesInv, SessionFileIntact
  <1>20. TempFilesOwned'
    <2> SUFFICES ASSUME NEW d \in DllNames, file[d] # Absent, d[1] \notin crashed'
                 PROVE  \/ \E s \in session' : s.owns_dll /\ s.dll = d
                        \/ \E v \in Workers : job'[v].pc # "idle" /\ job'[v].dll = d
      BY <1>2 DEF TempFilesOwned, Busy, At
    <2>1. CASE \E s \in session : s.owns_dll /\ s.dll = d
      BY <1>2, <2>1 DEF FilesInv, SessionsOwn
    <2>2. CASE \E v \in Workers : Busy(v) /\ job[v].dll = d
      BY <1>2, <1>5, <1>8, <2>2 DEF Busy, At
    <2> QED
      BY <1>2, <2>1, <2>2 DEF FilesInv, TempFilesOwned
  <1> QED
    BY <1>10, <1>11, <1>12, <1>14, <1>15, <1>16, <1>17, <1>18, <1>19, <1>20 DEF FilesInv

-----------------------------------------------------------------------------
LEMMA FilesStep == FilesInv /\ [Next]_vars => FilesInv'
  <1>1. FilesInv /\ UNCHANGED vars => FilesInv'
    BY DEF vars, FilesInv, TypeOK, PidsDiffer, JobsOwn, SessionsOwn, NamesDiffer, CompilersOwn,
           CleanAlone, JobFiles, SessionFileIntact, TempFilesOwned, PrebuiltKept, Busy, At
  <1> QED
    BY <1>1, StartStep, CrashStep, CompileStep, CountStep, PathStep, RemoveStep, SpawnStep,
       FinishStep, CompilerStep, FreeStep DEF Next, CompileNull

LEMMA FilesAlways == Spec => []FilesInv
  BY FilesStart, FilesStep, PTL DEF Spec


\* Every variable of the session files keeps its type.
THEOREM FilesTypeOK == Spec => []TypeOK
  BY FilesAlways, PTL DEF FilesInv

(***************************************************************************)
(* "Concurrent sessions don't clash" (ffi.rs:171), for any number of       *)
(* processes and threads, through crashes and reused process ids: the      *)
(* process id and the counter of session_compile name a DLL that no other  *)
(* compilation or session of a running process has.                        *)
(***************************************************************************)
THEOREM SessionsDontClash == Spec => []NamesDiffer
  BY FilesAlways, PTL DEF FilesInv

(***************************************************************************)
(* A live session's DLL is there and is what it was compiled from (or the  *)
(* DLL it was given), whatever else compiles, frees, fails or crashes,     *)
(* unless it was compiled while a g++ of a crashed process with the same   *)
(* process id was still running.                                           *)
(***************************************************************************)
THEOREM SessionsKeepTheirDll == Spec => []SessionFileIntact
  BY FilesAlways, PTL DEF FilesInv

\* A temp DLL belongs to a session or a compilation, or its process crashed:
\* no way out of compile_once and session_free leaves one behind.
THEOREM NoLitter == Spec => []TempFilesOwned
  BY FilesAlways, PTL DEF FilesInv

\* No compilation, session_free or crash touches the DLL the user built.
THEOREM PrebuiltDllKept == Spec => []PrebuiltKept
  BY FilesAlways, PTL DEF FilesInv

-----------------------------------------------------------------------------
(***************************************************************************)
(* PATH.  It loses nothing if a process compiles on one thread at a time,  *)
(* or if all compilers are in one directory: then what SetPath writes has  *)
(* everything that was added since it was read.                            *)
(***************************************************************************)
NoPathRace ==
    \/ \A v, w \in Workers : v[1] = w[1] => v = w
    \/ \A d, e \in Dirs : d = e

PathInv ==
    /\ \A w \in Workers :
          /\ Busy(w) => \E d \in Dirs : job[w].dir = {d}
          /\ At(w, "set") => path[w[1]] \subseteq job[w].read \cup job[w].dir
          /\ job[w].pc \in {"remove", "spawn", "wait", "check"} =>
                job[w].dir \subseteq path[w[1]]
    /\ PathHasCompiler

\* What PATH has to have depends on a job's place and directory only.
LEMMA PathMoves ==
    ASSUME FilesInv, PathInv, NEW w \in Workers, NEW j, job' = [job EXCEPT ![w] = j],
           UNCHANGED <<path, session>>,
           j = Idle \/ (\E d \in Dirs : j.dir = {d}),
           j.pc = "set" => path[w[1]] \subseteq j.read \cup j.dir,
           j.pc \in {"remove", "spawn", "wait", "check"} => j.dir \subseteq path[w[1]]
    PROVE  PathInv'
  <1>1. job'[w] = j /\ \A v \in Workers \ {w} : job'[v] = job[v]
    BY TypeParts DEF FilesInv
  <1>2. PathHasCompiler'
    BY DEF PathInv, PathHasCompiler
  <1> SUFFICES ASSUME NEW v \in Workers
               PROVE  /\ job'[v].pc # "idle" => \E d \in Dirs : job'[v].dir = {d}
                      /\ job'[v].pc = "set" => path[v[1]] \subseteq job'[v].read \cup job'[v].dir
                      /\ job'[v].pc \in {"remove", "spawn", "wait", "check"} =>
                            job'[v].dir \subseteq path[v[1]]
    BY <1>2 DEF PathInv, Busy, At
  <1>3. CASE v = w
    BY <1>1, <1>3, IdleFact
  <1>4. CASE v # w
    BY <1>1, <1>4 DEF PathInv, Busy, At
  <1> QED
    BY <1>3, <1>4

LEMMA PathStart == FilesInv /\ Init => PathInv
  <1>1. Init => \A w \in Workers : job[w] = Idle
    BY DEF Init
  <1>2. Init => PathHasCompiler
    BY DEF Init, PathHasCompiler
  <1> QED
    BY <1>1, <1>2, IdleFact DEF PathInv, Busy, At

(***************************************************************************)
(* Without a race PATH only grows: nobody has added to it since it was     *)
(* read, or nobody has anything else to add.                               *)
(***************************************************************************)
LEMMA SetPathFact ==
    ASSUME NoPathRace, FilesInv, PathInv, NEW w \in Workers, SetPath(w)
    PROVE  PathInv'
  <1> DEFINE p == w[1]
             j == [job[w] EXCEPT !.pc = "remove", !.read = {}]
  <1>1. TypeOK /\ job[w] \in JobRecords /\ p \in Procs
    BY JobFact DEF FilesInv
  <1>2. /\ At(w, "set") /\ session' = session
        /\ path' = [path EXCEPT ![p] = job[w].read \cup job[w].dir]
    BY DEF SetPath
  <1>3. job' = [job EXCEPT ![w] = j]
    BY <1>1, TypeParts DEF SetPath
  <1>4. j.pc = "remove" /\ j.dir = job[w].dir
    BY <1>1 DEF JobRecords
  <1>5. job'[w] = j /\ \A v \in Workers \ {w} : job'[v] = job[v]
    BY <1>1, <1>3, TypeParts
  <1> HIDE DEF j
  <1>6. path'[p] = job[w].read \cup job[w].dir /\ \A q \in Procs \ {p} : path'[q] = path[q]
    BY <1>1, <1>2, TypeParts
  <1>7. \A q \in Procs : path[q] \subseteq path'[q] /\ path'[q] \subseteq Dirs
    <2>1. path[p] \subseteq path'[p]
      BY <1>2, <1>6 DEF PathInv
    <2>2. job[w].read \cup job[w].dir \subseteq Dirs
      BY <1>1 DEF JobRecords
    <2> QED
      BY <1>1, <1>6, <2>1, <2>2, TypeParts
  <1> HIDE DEF p
  <1>8. PathHasCompiler'
    <2>1. \A s \in session : s.proc \in Procs
      BY <1>1, TypeParts DEF SessionRecords
    <2> QED
      BY <1>2, <1>7, <2>1 DEF PathInv, PathHasCompiler
  <1> SUFFICES ASSUME NEW v \in Workers
               PROVE  /\ job'[v].pc # "idle" => \E d \in Dirs : job'[v].dir = {d}
                      /\ job'[v].pc = "set" => path'[v[1]] \subseteq job'[v].read \cup job'[v].dir
                      /\ job'[v].pc \in {"remove", "spawn", "wait", "check"} =>
                            job'[v].dir \subseteq path'[v[1]]
    BY <1>8 DEF PathInv, Busy, At
  <1>9. CASE v = w
    BY <1>2, <1>4, <1>5, <1>6, <1>9 DEF PathInv, Busy, At, p
  <1>10. CASE v # w
    <2>1. job'[v] = job[v] /\ v[1] \in Procs
      BY <1>5, <1>10, WorkerFact
    <2>2. job[v].pc = "set" => path'[v[1]] \subseteq job[v].read \cup job[v].dir
      <3> SUFFICES ASSUME At(v, "set") PROVE path'[v[1]] \subseteq job[v].read \cup job[v].dir
        BY DEF At
      <3>1. CASE \A x, y \in Workers : x[1] = y[1] => x = y
        <4>1. path'[v[1]] = path[v[1]]
          BY <1>6, <1>10, <2>1, <3>1 DEF p
        <4> QED
          BY <4>1 DEF PathInv
      <3>2. CASE \A d, e \in Dirs : d = e
        <4>1. PICK d \in Dirs : job[v].dir = {d}
          BY DEF PathInv, Busy, At
        <4> QED
          BY <1>7, <2>1, <3>2, <4>1
      <3> QED
        BY <3>1, <3>2 DEF NoPathRace
    <2> QED
      BY <1>7, <2>1, <2>2 DEF PathInv, Busy, At
  <1> QED
    BY <1>9, <1>10

LEMMA PathWorkerFact ==
    ASSUME NoPathRace, FilesInv, PathInv, NEW w \in Workers,
           \/ Compile(w) \/ CompilePrebuilt(w) \/ CompileNothing(w) \/ ReadPath(w)
           \/ RemoveStale(w) \/ Spawn(w) \/ CleanUp(w) \/ Finish(w)
    PROVE  PathInv'
  <1>1. TypeOK /\ job[w] \in JobRecords /\ w[1] \in Procs
    BY JobFact DEF FilesInv
  <1>2. CASE Compile(w)
    <2>1. PICK f \in Formulas, d \in Dirs :
             job' = [job EXCEPT ![w] = [pc |-> "path", dll |-> <<pid[w[1]], ctr[w[1]]>>,
                        src |-> f, dir |-> {d}, read |-> {},
                        clean |-> Orphans(pid[w[1]]) = {}]]
      BY <1>2 DEF Compile
    <2>2. UNCHANGED <<path, session>>
      BY <1>2 DEF Compile
    <2> DEFINE j == [pc |-> "path", dll |-> <<pid[w[1]], ctr[w[1]]>>, src |-> f, dir |-> {d},
                     read |-> {}, clean |-> Orphans(pid[w[1]]) = {}]
    <2>3. job' = [job EXCEPT ![w] = j] /\ j.pc = "path" /\ j.dir = {d}
      BY <2>1
    <2> HIDE DEF j
    <2> QED
      BY <2>2, <2>3, PathMoves
  <1>3. CASE ReadPath(w)
    <2> DEFINE on == [job[w] EXCEPT !.pc = "remove"]
               set == [job[w] EXCEPT !.pc = "set", !.read = path[w[1]]]
    <2>1. \/ job[w].dir \subseteq path[w[1]] /\ job' = [job EXCEPT ![w] = on]
          \/ job' = [job EXCEPT ![w] = set]
      BY <1>1, <1>3, TypeParts DEF ReadPath
    <2>2. /\ on.pc = "remove" /\ on.dir = job[w].dir
          /\ set.pc = "set" /\ set.dir = job[w].dir /\ set.read = path[w[1]]
      BY <1>1 DEF JobRecords
    <2>3. UNCHANGED <<path, session>> /\ \E d \in Dirs : job[w].dir = {d}
      BY <1>3 DEF ReadPath, PathInv, Busy, At
    <2> HIDE DEF on, set
    <2>4. CASE job[w].dir \subseteq path[w[1]] /\ job' = [job EXCEPT ![w] = on]
      BY <2>2, <2>3, <2>4, PathMoves
    <2>5. CASE job' = [job EXCEPT ![w] = set]
      BY <2>2, <2>3, <2>5, PathMoves
    <2> QED
      BY <2>1, <2>4, <2>5
  <1>4. CASE RemoveStale(w) \/ Spawn(w)
    <2> DEFINE spawn == [job[w] EXCEPT !.pc = "spawn"]
               wait == [job[w] EXCEPT !.pc = "wait"]
    <2>1. \/ job' = [job EXCEPT ![w] = spawn]
          \/ job' = [job EXCEPT ![w] = wait]
          \/ job' = [job EXCEPT ![w] = Idle]
      BY <1>1, <1>4, TypeParts DEF RemoveStale, Spawn, Goto
    <2>2. /\ spawn.pc = "spawn" /\ spawn.dir = job[w].dir
          /\ wait.pc = "wait" /\ wait.dir = job[w].dir
      BY <1>1 DEF JobRecords
    <2>3. /\ UNCHANGED <<path, session>> /\ \E d \in Dirs : job[w].dir = {d}
          /\ job[w].dir \subseteq path[w[1]]
      BY <1>4 DEF RemoveStale, Spawn, PathInv, Busy, At
    <2> HIDE DEF spawn, wait
    <2> QED
      BY <2>1, <2>2, <2>3, IdleFact, PathMoves
  <1>5. CASE CleanUp(w)
    BY <1>5, IdleFact, PathMoves DEF CleanUp
  <1>6. CASE CompilePrebuilt(w) \/ CompileNothing(w) \/ Finish(w)
    <2>1. PathHasCompiler'
      <3>1. CASE CompileNothing(w)
        BY <3>1 DEF CompileNothing, PathInv, PathHasCompiler
      <3>2. CASE CompilePrebuilt(w)
        <4> DEFINE new == Session(w, ctr[w[1]], UserDll, FALSE, [Idle EXCEPT !.src = file[UserDll]])
        <4>1. session' = session \cup {new} /\ path' = path
          BY <3>2 DEF CompilePrebuilt
        <4>2. new.dir = {}
          BY DEF Session, Idle
        <4> HIDE DEF new
        <4> QED
          BY <4>1, <4>2 DEF PathInv, PathHasCompiler
      <3>3. CASE Finish(w)
        <4> DEFINE new == Session(w, job[w].dll[2], job[w].dll, TRUE, job[w])
        <4>1. session' \subseteq session \cup {new} /\ path' = path
          BY <3>3 DEF Finish
        <4>2. new.dir = job[w].dir /\ new.proc = w[1]
          BY DEF Session
        <4>3. job[w].dir \subseteq path[w[1]]
          BY <3>3 DEF Finish, PathInv, At
        <4> HIDE DEF new
        <4> QED
          BY <4>1, <4>2, <4>3 DEF PathInv, PathHasCompiler
      <3> QED
        BY <1>6, <3>1, <3>2, <3>3
    <2>2. path' = path /\ \A v \in Workers : job'[v] = job[v] \/ job'[v] = Idle
      BY <1>1, <1>6, TypeParts DEF CompilePrebuilt, CompileNothing, Finish
    <2> QED
      BY <2>1, <2>2, IdleFact DEF PathInv, Busy, At
  <1> QED
    BY <1>2, <1>3, <1>4, <1>5, <1>6

\* A g++ ends, its thread goes on; its directory was on PATH before it started.
LEMMA PathCompilerFact ==
    ASSUME FilesInv, PathInv, NEW g \in compiler, CompilerEnds(g)
    PROVE  PathInv'
  <1>1. TypeOK /\ UNCHANGED <<path, session>>
    BY DEF FilesInv, CompilerEnds
  <1>2. PathHasCompiler'
    BY <1>1 DEF PathInv, PathHasCompiler
  <1>3. PICK pc \in {"check", "cleanup"} :
          job' = [w \in Workers |-> IF w \in g.worker THEN [job[w] EXCEPT !.pc = pc] ELSE job[w]]
    BY CompilerOutcome
  <1> SUFFICES ASSUME NEW v \in Workers
               PROVE  /\ job'[v].pc # "idle" => \E d \in Dirs : job'[v].dir = {d}
                      /\ job'[v].pc = "set" => path[v[1]] \subseteq job'[v].read \cup job'[v].dir
                      /\ job'[v].pc \in {"remove", "spawn", "wait", "check"} =>
                            job'[v].dir \subseteq path[v[1]]
    BY <1>1, <1>2 DEF PathInv, Busy, At
  <1>4. CASE v \in g.worker
    <2>1. At(v, "wait")
      BY <1>4 DEF FilesInv, CompilersOwn
    <2>2. job'[v] = [job[v] EXCEPT !.pc = pc] /\ job[v] \in JobRecords
      BY <1>1, <1>3, <1>4, JobFact
    <2>3. job'[v].pc = pc /\ job'[v].dir = job[v].dir
      BY <2>2 DEF JobRecords
    <2> QED
      BY <2>1, <2>3 DEF PathInv, Busy, At
  <1>5. CASE v \notin g.worker
    <2>1. job'[v] = job[v]
      BY <1>3, <1>5
    <2> QED
      BY <2>1 DEF PathInv, Busy, At
  <1> QED
    BY <1>4, <1>5

\* A crash takes PATH, jobs and sessions of one process together.
LEMMA PathCrashFact ==
    ASSUME FilesInv, PathInv, NEW p \in Procs, Crash(p)
    PROVE  PathInv'
  <1>1. /\ TypeOK /\ session' = {s \in session : s.proc # p}
        /\ job' = [w \in Workers |-> IF w[1] = p THEN Idle ELSE job[w]]
        /\ path' = [path EXCEPT ![p] = InitialPath[p]]
    BY DEF FilesInv, Crash
  <1>2. \A q \in Procs \ {p} : path'[q] = path[q]
    BY <1>1, TypeParts
  <1>3. \A s \in session : s.proc \in Procs
    BY <1>1, TypeParts DEF SessionRecords
  <1>4. PathHasCompiler'
    BY <1>1, <1>2, <1>3 DEF PathInv, PathHasCompiler
  <1>5. \A w \in Workers : \/ job'[w] = Idle
                           \/ job'[w] = job[w] /\ path'[w[1]] = path[w[1]]
    BY <1>1, <1>2, WorkerFact
  <1> QED
    BY <1>4, <1>5, IdleFact DEF PathInv, Busy, At

LEMMA PathStepFact == ASSUME NoPathRace PROVE FilesInv /\ PathInv /\ [Next]_vars => PathInv'
  <1> SUFFICES ASSUME FilesInv, PathInv, [Next]_vars PROVE PathInv'
    OBVIOUS
  <1>1. ASSUME UNCHANGED <<path, job>>, session' \subseteq session PROVE PathInv'
    BY <1>1 DEF PathInv, PathHasCompiler, Busy, At
  <1>2. ASSUME NEW p \in Procs, Start(p) PROVE PathInv'
    BY <1>1, <1>2 DEF Start
  <1>3. ASSUME NEW s \in session, Free(s) PROVE PathInv'
    BY <1>1, <1>3 DEF Free
  <1>4. UNCHANGED vars => PathInv'
    BY <1>1 DEF vars
  <1> QED
    BY <1>2, <1>3, <1>4, PathCrashFact, SetPathFact, PathWorkerFact, PathCompilerFact
       DEF Next, CompileNull

(***************************************************************************)
(* The directory of the compiler of every live session is on PATH          *)
(* (ffi.rs:278-284), if every process compiles on one thread or all        *)
(* compilers are in one directory.  Without either it is not: the only way *)
(* compile_once loses a directory is between its read and its write.       *)
(***************************************************************************)
THEOREM PathKeptWithoutRace == ASSUME NoPathRace PROVE Spec => []PathHasCompiler
<1>1. FilesInv /\ Init => PathInv
  BY PathStart
<1>2. FilesInv /\ PathInv /\ [Next]_vars => PathInv'
  BY PathStepFact
<1>3. PathInv => PathHasCompiler
  BY DEF PathInv
<1> QED
  BY <1>1, <1>2, <1>3, FilesAlways, PTL DEF Spec
=============================================================================
