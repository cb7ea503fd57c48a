---------------------------- MODULE RunFileStore ----------------------------
(***************************************************************************)
(* The filesystem run store (adapters/filesystem.py): runs saved by        *)
(* several command-line processes below one directory, on a POSIX file     *)
(* system that can lose power.                                             *)
(*                                                                         *)
(* A saver goes from system call to system call.  A file is an inode: its  *)
(* content is what its writer wants stored, and its length says how much   *)
(* of it is there.  What a power failure leaves of a directory is, entry   *)
(* by entry, the last synced one or the current one; a file that was never *)
(* synced may be cut short.  That holds of runs/ itself as well, which the *)
(* first save creates with its parents: save syncs what is in it and never *)
(* the directory above, so a power failure may take runs/ with all of it.  *)
(***************************************************************************)
EXTENDS Naturals, FiniteSets

CONSTANTS
    Savers,
    Runs,           \* run identifiers, one file name each
    Contents,       \* results that may be saved under a run identifier
    None,
    MaxFiles,       \* bound: files created
    MaxPowerLosses  \* bound: power failures

ASSUME RunFileStoreAssumption ==
    /\ None \notin Runs \cup Contents \cup [name : Runs, content : Contents]
    /\ MaxFiles \in Nat /\ MaxPowerLosses \in Nat

VARIABLES
    directory,  \* runs/ and its parents: "missing", "created" or "durable"
    entries,    \* the file behind each run's name, or 0
    synced,     \* the same as of the last sync of the directory
    temps,      \* the files that have a temporary name
    files,      \* the sequence numbers of files created, with content, length and disk
    savers,     \* each saver: pc, run, content, file; history: free and answer
    promises,   \* history variable: the saves reported as successful
    losses,     \* number of power failures
    swept       \* history variable: the last of them that took the directory, or 0

vars == <<directory, entries, synced, temps, files, savers, promises, losses, swept>>
disk == <<directory, entries, synced, temps, files>>
failures == <<losses, swept>>

Empty == 0
Partial == 1
Whole == 2

Calls == [name : Runs, content : Contents]
Answers == [call : Calls, outcome : {"created", "existing", "conflict"}, record : Contents]

Inode == [content : Contents, length : Empty .. Whole, disk : Empty .. Whole]

Saver ==
    [pc : {"idle", "check", "create", "write", "sync", "link", "unlink", "discard", "publish"},
     run : Runs \cup {None}, content : Contents \cup {None}, file : 0 .. MaxFiles,
     free : BOOLEAN, answer : Answers \cup {None}]

Reported == [run : Runs, content : Contents, durable : BOOLEAN, epoch : 0 .. MaxPowerLosses]

DiskOK ==
    /\ directory \in {"missing", "created", "durable"}
    /\ \E n \in 0 .. MaxFiles : files \in [1 .. n -> Inode]
    /\ entries \in [Runs -> 0 .. MaxFiles] /\ synced \in [Runs -> 0 .. MaxFiles]
    /\ temps \subseteq DOMAIN files

TypeOK ==
    /\ DiskOK
    /\ savers \in [Savers -> Saver]
    /\ promises \subseteq Reported
    /\ losses \in 0 .. MaxPowerLosses /\ swept \in 0 .. losses

File(c) == [content |-> c, length |-> Empty, disk |-> Empty]

\* answer is what was decided about the save, whether it is told or not, and free
\* whether the name was free when the save began.
NoSaver == [pc |-> "idle", run |-> None, content |-> None, file |-> 0,
            free |-> FALSE, answer |-> None]

Resting(s) == [NoSaver EXCEPT !.free = savers[s].free, !.answer = savers[s].answer]

Answer(s, outcome) ==
    [call |-> [name |-> savers[s].run, content |-> savers[s].content], outcome |-> outcome,
     record |-> IF outcome = "created" THEN savers[s].content
                ELSE files[entries[savers[s].run]].content]

(***************************************************************************)
(* get                                                                     *)
(***************************************************************************)

Missing == <<"missing">>
Corrupt == <<"corrupt">>

\* What get returns for a run.  A file is opened once and published files do not
\* change, so reading is one step.
Get(r) ==
    IF entries[r] = 0 THEN Missing
    ELSE IF files[entries[r]].length < Whole THEN Corrupt
    ELSE <<"found", files[entries[r]].content>>

(***************************************************************************)
(* save                                                                    *)
(***************************************************************************)

Goto(s, pc) == savers' = [savers EXCEPT ![s].pc = pc]

\* The outcome of the save is settled; what is left to do cannot change it.
Decide(s, pc, outcome) ==
    savers' = [savers EXCEPT ![s].pc = pc, ![s].answer = Answer(s, outcome)]

\* A save that returns, with or without having synced the directory.
Promise(s, durable) ==
    promises' = promises \cup
        {[run |-> savers[s].run, content |-> savers[s].content, durable |-> durable,
          epoch |-> losses]}

\* _ensure_directory: mkdir with parents, which syncs none of them.  It comes first, and
\* nothing but a power failure, which ends the save as well, could undo it.
Save(s, r, c) ==
    /\ savers[s].pc = "idle"
    /\ savers' = [savers EXCEPT ![s] =
          [NoSaver EXCEPT !.pc = "check", !.run = r, !.content = c, !.free = entries[r] = 0]]
    /\ directory' = IF directory = "missing" THEN "created" ELSE directory
    /\ UNCHANGED <<entries, synced, temps, files, promises>>

\* _require_identical
Identical(s) == Get(savers[s].run) = <<"found", savers[s].content>>

\* destination.exists(): a name that is taken ends the save, well if the bytes are
\* the same and with RunConflictError if not.  Nothing is synced.
Check(s) ==
    /\ savers[s].pc = "check"
    /\ \/ entries[savers[s].run] = 0 /\ Goto(s, "create") /\ UNCHANGED promises
       \/ /\ entries[savers[s].run] # 0
          /\ IF Identical(s)
             THEN /\ Promise(s, FALSE)
                  /\ savers' = [savers EXCEPT ![s] =
                        [Resting(s) EXCEPT !.answer = Answer(s, "existing")]]
             ELSE /\ savers' = [savers EXCEPT ![s] =
                        [Resting(s) EXCEPT !.answer = Answer(s, "conflict")]]
                  /\ UNCHANGED promises
    /\ UNCHANGED disk

\* mkstemp
CreateTemporary(s) ==
    /\ savers[s].pc = "create" /\ Cardinality(DOMAIN files) < MaxFiles
    /\ LET f == Cardinality(DOMAIN files) + 1
       IN  /\ files' = [g \in DOMAIN files \cup {f} |->
                           IF g = f THEN File(savers[s].content) ELSE files[g]]
           /\ temps' = temps \cup {f}
           /\ savers' = [savers EXCEPT ![s].pc = "write", ![s].file = f]
    /\ UNCHANGED <<directory, entries, synced, promises>>

\* stream.write and flush; os.fsync follows.
Write(s) ==
    /\ savers[s].pc = "write"
    /\ files' = [files EXCEPT ![savers[s].file].length = @ + 1]
    /\ Goto(s, IF files[savers[s].file].length = Empty THEN "write" ELSE "sync")
    /\ UNCHANGED <<directory, entries, synced, temps, promises>>

\* Mutant: the file is linked before it is known to be on the disk.
SyncFileSkipped(s) ==
    /\ savers[s].pc = "sync"
    /\ Goto(s, "link")
    /\ UNCHANGED <<disk, promises>>

SyncFile(s) ==
    /\ savers[s].pc = "sync"
    /\ files' = [files EXCEPT ![savers[s].file].disk = files[savers[s].file].length]
    /\ Goto(s, "link")
    /\ UNCHANGED <<directory, entries, synced, temps, promises>>

\* Mutant: a rename takes the name over instead of a link that may not.
LinkReplacing(s) ==
    /\ savers[s].pc = "link"
    /\ entries' = [entries EXCEPT ![savers[s].run] = savers[s].file]
    /\ Decide(s, "unlink", "created")
    /\ UNCHANGED <<directory, synced, temps, files, promises>>

\* os.link, and _require_identical if the name was taken meanwhile.
Link(s) ==
    /\ savers[s].pc = "link"
    /\ \/ /\ entries[savers[s].run] = 0
          /\ entries' = [entries EXCEPT ![savers[s].run] = savers[s].file]
          /\ Decide(s, "unlink", "created")
       \/ /\ entries[savers[s].run] # 0
          /\ IF Identical(s) THEN Decide(s, "unlink", "existing")
                             ELSE Decide(s, "discard", "conflict")
          /\ UNCHANGED entries
    /\ UNCHANGED <<directory, synced, temps, files, promises>>

\* An error on the way: the temporary file is removed and the save raises.
Fail(s) ==
    /\ savers[s].pc \in {"write", "sync", "link"}
    /\ Goto(s, "discard")
    /\ UNCHANGED <<disk, promises>>

\* The finally clause.  An unlink that fails is suppressed and leaves what a crash
\* would leave.
Unlink(s) ==
    /\ temps' = temps \ {savers[s].file}
    /\ \/ savers[s].pc = "unlink" /\ Goto(s, "publish")
       \/ savers[s].pc = "discard" /\ savers' = [savers EXCEPT ![s] = Resting(s)]
    /\ UNCHANGED <<directory, entries, synced, files, promises>>

\* Mutant: a save returns as soon as the name is linked.
SyncDirectorySkipped(s) ==
    /\ savers[s].pc = "publish"
    /\ Promise(s, TRUE)
    /\ savers' = [savers EXCEPT ![s] = Resting(s)]
    /\ UNCHANGED disk

\* _sync_directory, and save returns.
SyncDirectory(s) ==
    /\ savers[s].pc = "publish"
    /\ synced' = entries
    /\ Promise(s, TRUE)
    /\ savers' = [savers EXCEPT ![s] = Resting(s)]
    /\ UNCHANGED <<directory, entries, temps, files>>

SaverStep(s) ==
    /\ \/ \E r \in Runs, c \in Contents : Save(s, r, c)
       \/ Check(s) \/ CreateTemporary(s) \/ Write(s) \/ SyncFile(s) \/ Link(s)
       \/ Fail(s) \/ Unlink(s) \/ SyncDirectory(s)
    /\ UNCHANGED failures

(***************************************************************************)
(* Crashes                                                                 *)
(***************************************************************************)

\* The process dies and its temporary file stays.  Failures of the calls outside
\* of the try statement, and the artifact that is too large, end a save alike.
Crash(s) ==
    /\ savers[s].pc # "idle"
    /\ savers' = [savers EXCEPT ![s] = Resting(s)]
    /\ UNCHANGED <<disk, promises, failures>>

\* Of each name and file either what it was or what the disk was told last survives,
\* and all of the temporary files may.
DirectorySurvives ==
    /\ directory' = IF directory = "missing" THEN "missing" ELSE "durable"
    /\ entries' \in [Runs -> 0 .. MaxFiles]
    /\ \A r \in Runs : entries'[r] \in {entries[r], synced[r]}
    /\ UNCHANGED <<temps, swept>>

\* The disk was never told of the directory, and it goes with everything in it.
DirectoryVanishes ==
    /\ directory = "created" /\ directory' = "missing"
    /\ entries' = [r \in Runs |-> 0] /\ temps' = {}
    /\ swept' = losses'

\* Every process dies.
PowerLoss ==
    /\ losses < MaxPowerLosses
    /\ losses' = losses + 1
    /\ DirectorySurvives \/ DirectoryVanishes
    /\ synced' = entries'
    /\ \E cut \in SUBSET DOMAIN files :
          files' = [f \in DOMAIN files |->
              [files[f] EXCEPT !.length = IF f \in cut THEN files[f].disk ELSE @]]
    /\ savers' = [s \in Savers |-> Resting(s)]
    /\ UNCHANGED promises

\* A store that was there before is one that survived a power failure.
Init ==
    /\ directory = "missing"
    /\ entries = [r \in Runs |-> 0] /\ synced = entries
    /\ temps = {} /\ files = [f \in {} |-> None]
    /\ savers = [s \in Savers |-> NoSaver]
    /\ promises = {} /\ losses = 0 /\ swept = 0

Next ==
    \/ \E s \in Savers : SaverStep(s) \/ Crash(s)
    \/ PowerLoss

Spec == Init /\ [][Next]_vars

(***************************************************************************)
(* Properties                                                              *)
(***************************************************************************)

\* Whoever reads a run, at any time and after any crash, gets all of it or is told
\* that there is none: a part of it is never under its name (save: "Atomically
\* publish a run once").
ReadsAreWhole == \A r \in Runs : Get(r) # Corrupt

\* A save that returned is kept: until the next power failure if it found the run
\* already stored, and for good if it synced the directory, unless a later power
\* failure takes the directory itself.  No save that creates it is safe from that.
PromisesAreKept ==
    \A p \in promises :
        (p.durable /\ swept <= p.epoch) \/ p.epoch = losses =>
            Get(p.run) = <<"found", p.content>>

\* A power failure takes runs away, but replaces none and cuts none short.
Lost == losses' > losses /\ \A r \in Runs : Get(r)' \in {Get(r), Missing}

\* A run has the content c.
Stored(r, c) == entries[r] # 0 /\ files[entries[r]].content = c

\* A file that is on the disk, all of it.
Durable(f) == f \in DOMAIN files /\ files[f].length = Whole /\ files[f].disk = Whole

\* What is under a name is on the disk, and the disk was told of it or of nothing.
EntriesAreDurable ==
    \A r \in Runs :
        /\ entries[r] # 0 => Durable(entries[r])
        /\ synced[r] \in {0, entries[r]}

\* Where a saver stands agrees with what it has done: until the link it has a file of
\* its own and no answer, and after it the run is stored.
Knows(s) ==
    LET my == savers[s]
    IN  /\ my.pc # "idle" => my.run \in Runs /\ my.content \in Contents
        /\ my.pc \in {"check", "create", "write", "sync", "link"} => my.answer = None
        /\ my.pc # "idle" => directory # "missing"
        /\ my.pc \in {"write", "sync", "link"} =>
              my.file \in DOMAIN files /\ files[my.file].content = my.content
        /\ my.pc = "write" => files[my.file].length < Whole
        /\ my.pc = "sync" => files[my.file].length = Whole
        /\ my.pc = "link" => Durable(my.file)
        /\ my.pc \in {"unlink", "publish"} => Stored(my.run, my.content)

OneWriterPerFile ==
    \A s, t \in Savers :
        savers[s].pc = "write" /\ savers[t].pc = "write" /\ savers[s].file = savers[t].file
            => s = t

\* Why a promise is kept: it outlives a power failure if the disk was told of the name
\* and the directory is still the one it was made in.
Stands(p) ==
    /\ p.epoch <= losses
    /\ p.durable /\ swept <= p.epoch => synced[p.run] # 0
    /\ (p.durable /\ swept <= p.epoch) \/ p.epoch = losses => Stored(p.run, p.content)

\* Names are in the directory.
NamesHaveDirectory == directory = "missing" => \A r \in Runs : entries[r] = 0

\* The inductive invariant.
IInv ==
    /\ TypeOK
    /\ EntriesAreDurable
    /\ \A s \in Savers : Knows(s)
    /\ OneWriterPerFile
    /\ NamesHaveDirectory
    /\ \A p \in promises : Stands(p)

\* What callers see of the store: what is under each name, the saves that are not
\* decided yet, and what was decided about the last one of each saver.
Published == [r \in Runs |-> IF entries[r] = 0 THEN None ELSE files[entries[r]].content]

Undecided ==
    [s \in Savers |->
        IF savers[s].pc \in {"check", "create", "write", "sync", "link"}
        THEN [name |-> savers[s].run, content |-> savers[s].content] ELSE None]

Once == INSTANCE CreateOnce WITH
    Processes <- Savers, Names <- Runs, Records <- Contents, Nothing <- None,
    Content <- [c \in Contents |-> c], Unacceptable <- {},
    stored <- Published, calls <- Undecided,
    free <- [s \in Savers |-> savers[s].free],
    answers <- [s \in Savers |-> savers[s].answer]

\* But for power failures the store is a register in which each save is decided in
\* one step, by the link or by what it found: no save replaces what is published.
ImplementsCreateOnce ==
    Once!OnceInit /\ [][Once!OnceNext \/ Lost]_(Once!onceVars)
=============================================================================
