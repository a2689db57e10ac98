---------------------------- MODULE SessionFiles ----------------------------
(***************************************************************************)
(* The DLL files behind formula sessions (ffi.rs, session_compile,         *)
(* compile_once, session_free): processes that share a working directory,  *)
(* with threads that compile at the same time, crash, and come back, maybe *)
(* with the process id of a predecessor.  A compiler (g++) is a process of *)
(* its own, outside src/: it outlives a host that crashes.                 *)
(***************************************************************************)
EXTENDS Naturals, FiniteSets

CONSTANTS
    Procs,       \* host processes that may be running at one time
    Threads,     \* names of threads
    Workers,     \* the pairs <<p, t>> of a process and a thread it has
    Pids,        \* process ids the system hands out
    NoPid,
    Formulas,    \* formula sources (.cpp)
    Absent,      \* the content of a file that does not exist
    Partial,     \* the content of a file a failed compiler left behind
    Prebuilt,    \* the content of the DLL the user built himself
    Dirs,        \* directories a C++ compiler is found in
    InitialPath, \* those on the PATH a process starts with
    MaxSessions, \* bound on session ids of each process
    MaxCrashes   \* bound on crashes (and each pid crashes once)

ASSUME FilesAssumption ==
    /\ NoPid \notin Pids
    /\ Workers \subseteq Procs \X Threads
    /\ {Absent, Partial, Prebuilt} \cap Formulas = {}
    /\ Cardinality({Absent, Partial, Prebuilt}) = 3
    /\ InitialPath \in [Procs -> SUBSET Dirs]
    /\ MaxSessions \in [Procs -> Nat] /\ MaxCrashes \in Nat

VARIABLES
    pid,       \* the id of each running process, or NoPid
    ctr,       \* its CTR: the next session id
    path,      \* its PATH, as a set of directories
    file,      \* DLLs by name; the content of a temp DLL is the formula compiled
    job,       \* what each thread of each process is doing
    compiler,  \* running g++ processes
    session,   \* live sessions: of which process, over which DLL, and whether
               \* it is theirs; the rest is history
    crashed    \* pids of processes that have crashed

vars == <<pid, ctr, path, file, job, compiler, session, crashed>>

\* rtorch_api_rt_{pid}_{session_id}.dll in the working directory.
SessionIds == UNION {0..(MaxSessions[p] - 1) : p \in Procs}
DllNames == Pids \X SessionIds
Contents == Formulas \cup {Absent, Partial, Prebuilt}
UserDll == <<NoPid, 0>>
NoDll == <<NoPid, 1>>

Idle == [pc |-> "idle", dll |-> NoDll, src |-> Absent, dir |-> {}, read |-> {}, clean |-> TRUE]

Init ==
    /\ pid = [p \in Procs |-> NoPid]
    /\ ctr = [p \in Procs |-> 0]
    /\ path = InitialPath
    /\ file = [d \in DllNames \cup {UserDll} |-> IF d = UserDll THEN Prebuilt ELSE Absent]
    /\ job = [w \in Workers |-> Idle]
    /\ compiler = {}
    /\ session = {}
    /\ crashed = {}

At(w, pc) == job[w].pc = pc
Goto(w, pc) == job' = [job EXCEPT ![w].pc = pc]
SetFile(d, c) == file' = [file EXCEPT ![d] = c]

\* g++ processes of a pid whose host has crashed.
Orphans(i) == {g \in compiler : g.dll[1] = i /\ g.worker = {}}

-----------------------------------------------------------------------------
\* A host process starts: its CTR is 0 and it has a pid no running one has.
Start(p) ==
    /\ pid[p] = NoPid
    /\ \E i \in Pids \ {pid[q] : q \in Procs} : pid' = [pid EXCEPT ![p] = i]
    /\ UNCHANGED <<ctr, path, file, job, compiler, session, crashed>>

\* Wrong form: the id is taken without advancing the counter.
CompileWithoutCounting(w) ==
    /\ pid[w[1]] # NoPid /\ At(w, "idle") /\ ctr[w[1]] < MaxSessions[w[1]]
    /\ \E f \in Formulas, d \in Dirs :
          job' = [job EXCEPT ![w] = [pc |-> "path", dll |-> <<pid[w[1]], ctr[w[1]]>>,
                     src |-> f, dir |-> {d}, read |-> {},
                     clean |-> Orphans(pid[w[1]]) = {}]]
    /\ UNCHANGED <<pid, ctr, path, file, compiler, session, crashed>>

(***************************************************************************)
(* session_compile of a .cpp: CTR.fetch_add names the DLL; find_compiler   *)
(* answers the directory of a compiler (the host may have changed          *)
(* RTORCH_GXX since the last call).                                        *)
(***************************************************************************)
Compile(w) ==
    /\ pid[w[1]] # NoPid /\ At(w, "idle") /\ ctr[w[1]] < MaxSessions[w[1]]
    /\ ctr' = [ctr EXCEPT ![w[1]] = @ + 1]
    /\ \E f \in Formulas, d \in Dirs :
          job' = [job EXCEPT ![w] = [pc |-> "path", dll |-> <<pid[w[1]], ctr[w[1]]>>,
                     src |-> f, dir |-> {d}, read |-> {},
                     clean |-> Orphans(pid[w[1]]) = {}]]
    /\ UNCHANGED <<pid, path, file, compiler, session, crashed>>

\* A null source is refused before anything else.
CompileNull(w) ==
    /\ pid[w[1]] # NoPid /\ At(w, "idle")
    /\ UNCHANGED vars

\* A session over the DLL it names, with the history the properties need.
Session(w, id, d, own, j) ==
    [proc |-> w[1], id |-> id, dll |-> d, owns_dll |-> own,
     src |-> j.src, dir |-> j.dir, clean |-> j.clean]

\* session_compile of a .dll takes an id too, and owns nothing.
CompilePrebuilt(w) ==
    /\ pid[w[1]] # NoPid /\ At(w, "idle") /\ ctr[w[1]] < MaxSessions[w[1]]
    /\ ctr' = [ctr EXCEPT ![w[1]] = @ + 1]
    /\ session' = session \cup
          {Session(w, ctr[w[1]], UserDll, FALSE, [Idle EXCEPT !.src = file[UserDll]])}
    /\ UNCHANGED <<pid, path, file, job, compiler, crashed>>

\* A .cpp when there is no compiler takes an id and touches no file.
CompileNothing(w) ==
    /\ pid[w[1]] # NoPid /\ At(w, "idle") /\ ctr[w[1]] < MaxSessions[w[1]]
    /\ ctr' = [ctr EXCEPT ![w[1]] = @ + 1]
    /\ UNCHANGED <<pid, path, file, job, compiler, session, crashed>>

\* env::var("PATH"), and set_var of what was read with the directory in front.
ReadPath(w) ==
    /\ At(w, "path")
    /\ job' = [job EXCEPT ![w] = IF job[w].dir \subseteq path[w[1]]
                                THEN [@ EXCEPT !.pc = "remove"]
                                ELSE [@ EXCEPT !.pc = "set", !.read = path[w[1]]]]
    /\ UNCHANGED <<pid, ctr, path, file, compiler, session, crashed>>

SetPath(w) ==
    /\ At(w, "set")
    /\ path' = [path EXCEPT ![w[1]] = job[w].read \cup job[w].dir]
    /\ job' = [job EXCEPT ![w].pc = "remove", ![w].read = {}]
    /\ UNCHANGED <<pid, ctr, file, compiler, session, crashed>>

\* Wrong form: a file of that name is left for the compiler to overwrite.
KeepStale(w) ==
    /\ At(w, "remove")
    /\ Goto(w, "spawn")
    /\ UNCHANGED <<pid, ctr, path, file, compiler, session, crashed>>

\* remove_file(out_dll), then g++ starts, or cannot be started.
RemoveStale(w) ==
    /\ At(w, "remove")
    /\ SetFile(job[w].dll, Absent)
    /\ Goto(w, "spawn")
    /\ UNCHANGED <<pid, ctr, path, compiler, session, crashed>>

Spawn(w) ==
    /\ At(w, "spawn")
    /\ \/ /\ compiler' = compiler \cup {[dll |-> job[w].dll, src |-> job[w].src, worker |-> {w}]}
          /\ Goto(w, "wait")
       \/ /\ job' = [job EXCEPT ![w] = Idle]
          /\ UNCHANGED compiler
    /\ UNCHANGED <<pid, ctr, path, file, session, crashed>>

(***************************************************************************)
(* g++ ends: with a DLL, with success and no DLL written, or with a        *)
(* failure that may leave something behind.  The exit status reaches the   *)
(* thread that waits in Command::status, if it still exists.               *)
(***************************************************************************)
CompilerEnds(g) ==
    /\ \E outcome \in {"built", "nothing", "failed", "failed_partial"} :
          /\ file' = CASE outcome = "built" -> [file EXCEPT ![g.dll] = g.src]
                       [] outcome = "failed_partial" -> [file EXCEPT ![g.dll] = Partial]
                       [] OTHER -> file
          /\ job' = [w \in Workers |->
                       IF w \in g.worker
                       THEN [job[w] EXCEPT !.pc = IF outcome \in {"built", "nothing"}
                                                  THEN "check" ELSE "cleanup"]
                       ELSE job[w]]
    /\ compiler' = compiler \ {g}
    /\ UNCHANGED <<pid, ctr, path, session, crashed>>

\* Wrong form: what a failed compiler left stays.
LeavePartial(w) ==
    /\ At(w, "cleanup")
    /\ job' = [job EXCEPT ![w] = Idle]
    /\ UNCHANGED <<pid, ctr, path, file, compiler, session, crashed>>

\* A failed compilation removes the DLL and reports E_PARSE.
CleanUp(w) ==
    /\ At(w, "cleanup")
    /\ SetFile(job[w].dll, Absent)
    /\ job' = [job EXCEPT ![w] = Idle]
    /\ UNCHANGED <<pid, ctr, path, compiler, session, crashed>>

\* Wrong form: the session forgets which file it owns.
FinishForgetsDll(w) ==
    /\ At(w, "check")
    /\ session' = session \cup {Session(w, job[w].dll[2], NoDll, TRUE, job[w])}
    /\ job' = [job EXCEPT ![w] = Idle]
    /\ UNCHANGED <<pid, ctr, path, file, compiler, crashed>>

\* out_dll.exists(): the session is boxed, or the call fails.
Finish(w) ==
    /\ At(w, "check")
    /\ session' = IF file[job[w].dll] = Absent THEN session
                  ELSE session \cup {Session(w, job[w].dll[2], job[w].dll, TRUE, job[w])}
    /\ job' = [job EXCEPT ![w] = Idle]
    /\ UNCHANGED <<pid, ctr, path, file, compiler, crashed>>

\* Wrong form: the file goes with the session, whoever built it.
FreeIgnoresOwner(s) ==
    /\ session' = session \ {s}
    /\ SetFile(s.dll, Absent)
    /\ UNCHANGED <<pid, ctr, path, job, compiler, crashed>>

\* session_free: the box, and the file if the session owns it.
Free(s) ==
    /\ session' = session \ {s}
    /\ IF s.owns_dll THEN SetFile(s.dll, Absent) ELSE UNCHANGED file
    /\ UNCHANGED <<pid, ctr, path, job, compiler, crashed>>

\* The host dies, or exits without freeing its sessions: threads and sessions go,
\* files and compilers stay.
Crash(p) ==
    /\ pid[p] # NoPid
    /\ pid[p] \notin crashed /\ Cardinality(crashed) < MaxCrashes
    /\ crashed' = crashed \cup {pid[p]}
    /\ pid' = [pid EXCEPT ![p] = NoPid]
    /\ ctr' = [ctr EXCEPT ![p] = 0]
    /\ path' = [path EXCEPT ![p] = InitialPath[p]]
    /\ job' = [w \in Workers |-> IF w[1] = p THEN Idle ELSE job[w]]
    /\ compiler' = {IF \E w \in g.worker : w[1] = p
                    THEN [g EXCEPT !.worker = {}] ELSE g : g \in compiler}
    /\ session' = {s \in session : s.proc # p}
    /\ UNCHANGED file

Next ==
    \/ \E p \in Procs : Start(p) \/ Crash(p)
    \/ \E w \in Workers :
          \/ Compile(w) \/ CompileNull(w) \/ CompilePrebuilt(w)
          \/ CompileNothing(w) \/ ReadPath(w) \/ SetPath(w) \/ RemoveStale(w) \/ Spawn(w) \/ CleanUp(w) \/ Finish(w)
    \/ \E g \in compiler : CompilerEnds(g)
    \/ \E s \in session : Free(s)

Spec == Init /\ [][Next]_vars

-----------------------------------------------------------------------------
Busy(w) == ~At(w, "idle")

TypeOK ==
    /\ pid \in [Procs -> Pids \cup {NoPid}]
    /\ ctr \in [Procs -> Nat] /\ \A p \in Procs : ctr[p] <= MaxSessions[p]
    /\ path \in [Procs -> SUBSET Dirs]
    /\ file \in [DllNames \cup {UserDll} -> Contents]
    /\ job \in [Workers ->
         [pc : {"idle", "path", "set", "remove", "spawn", "wait", "check", "cleanup"},
          dll : DllNames \cup {NoDll}, src : Formulas \cup {Absent},
          dir : SUBSET Dirs, read : SUBSET Dirs, clean : BOOLEAN]]
    /\ compiler \subseteq [dll : DllNames, src : Formulas, worker : SUBSET Workers]
    /\ session \subseteq [proc : Procs, id : SessionIds,
                          dll : DllNames \cup {UserDll}, owns_dll : BOOLEAN,
                          src : Contents, dir : SUBSET Dirs, clean : BOOLEAN]
    /\ crashed \subseteq Pids

(***************************************************************************)
(* "Concurrent sessions don't clash" (ffi.rs:171): no two compilations in  *)
(* progress or live sessions, of any threads of any running processes,     *)
(* have the same DLL, crashes and reused process ids included.             *)
(***************************************************************************)
NamesDiffer ==
    /\ \A v, w \in Workers :
          Busy(v) /\ Busy(w) /\ job[v].dll = job[w].dll => v = w
    /\ \A s, r \in session : s.owns_dll /\ s.dll = r.dll => s = r
    /\ \A s \in session, w \in Workers : Busy(w) => job[w].dll # s.dll

(***************************************************************************)
(* A session executes the formula it was compiled from, or the DLL it was  *)
(* given, as long as it lives: the file is there, whole, whatever other    *)
(* threads and processes compile, free, or leave behind.  The exception is *)
(* a session compiled while a g++ that a crashed process with the same pid *)
(* started is still running: that g++ may write the same file.             *)
(***************************************************************************)
SessionFileIntact ==
    \A s \in session : s.clean => file[s.dll] = s.src

(***************************************************************************)
(* The working directory is not littered: a temp DLL belongs to a live     *)
(* session or a compilation in progress, or its process has crashed.       *)
(***************************************************************************)
TempFilesOwned ==
    \A d \in DllNames : file[d] # Absent =>
        \/ \E s \in session : s.owns_dll /\ s.dll = d
        \/ \E w \in Workers : Busy(w) /\ job[w].dll = d
        \/ d[1] \in crashed

(***************************************************************************)
(* Only "a temp DLL we own" is cleaned up (ffi.rs:152): sessions over a    *)
(* DLL the user built, freed in any order and any number of times over,    *)
(* leave it as it is, and so does what compilations and crashes remove.    *)
(***************************************************************************)
PrebuiltKept == file[UserDll] = Prebuilt

(***************************************************************************)
(* "Ensure compiler runtime DLLs are on PATH so the resulting DLL (which   *)
(* we LoadLibrary later) can resolve" its dependencies (ffi.rs:280-281):   *)
(* the directory of the compiler of every live session is on PATH.  Two    *)
(* threads with two compilers lose one update.                             *)
(***************************************************************************)
PathHasCompiler ==
    \A s \in session : s.dir \subseteq path[s.proc]
=============================================================================
