-------------------------- MODULE RunFileStoreProofs --------------------------
(***************************************************************************)
(* Proofs about RunFileStore, for any number of savers, runs, contents,    *)
(* files and power failures: its inductive invariant, that what is read is *)
(* whole and what was promised is kept, and that it implements CreateOnce. *)
(*                                                                         *)
(* The argument: a file that is linked was synced before and is never      *)
(* written again, for its writer has left the write for good and nobody    *)
(* shares a file.  So a name is bound to a durable file, a power failure   *)
(* can at most undo the binding, and it cannot undo one that was synced    *)
(* unless it takes the directory, which the disk was not told of.          *)
(***************************************************************************)
EXTENDS RunFileStore, TLAPS, FiniteSetTheorems

(***************************************************************************)
(* Lemmas                                                                  *)
(***************************************************************************)

\* What the proofs use of the constants.
LEMMA Constants ==
  /\ None \notin Runs /\ None \notin Contents /\ None \notin Calls
  /\ MaxFiles \in Nat /\ MaxPowerLosses \in Nat
  /\ Empty = 0 /\ Whole = 2
  BY RunFileStoreAssumption DEF Calls, Empty, Whole

\* What get answers distinguishes the runs that are whole from the others.
LEMMA GetFacts ==
  ASSUME NEW r \in Runs, NEW c
  PROVE  /\ Get(r) = Corrupt <=> entries[r] # 0 /\ files[entries[r]].length < Whole
         /\ Get(r) = <<"found", c>> <=>
              /\ Stored(r, c)
              /\ ~ (files[entries[r]].length < Whole)
<1>1. Missing # Corrupt /\ Missing # <<"found", c>> /\ Corrupt # <<"found", c>>
  BY DEF Missing, Corrupt
<1>2. \A d : Missing # <<"found", d>> /\ Corrupt # <<"found", d>>
  BY DEF Missing, Corrupt
<1>3. \A d : <<"found", d>> = <<"found", c>> <=> d = c
  OBVIOUS
<1> QED
  BY <1>1, <1>2, <1>3 DEF Get, Stored

\* A number that was not in use is taken for the file that mkstemp creates.
LEMMA NewFile ==
  ASSUME TypeOK, Cardinality(DOMAIN files) < MaxFiles
  PROVE  /\ Cardinality(DOMAIN files) + 1 \notin DOMAIN files
         /\ Cardinality(DOMAIN files) + 1 \in 1 .. MaxFiles
         /\ DOMAIN files \cup {Cardinality(DOMAIN files) + 1}
              = 1 .. Cardinality(DOMAIN files) + 1
<1>1. PICK n \in 0 .. MaxFiles : files \in [1 .. n -> Inode]
  BY DEF TypeOK, DiskOK
<1>2. DOMAIN files = 1 .. n /\ Cardinality(1 .. n) = n
  BY <1>1, FS_Interval, Constants
<1>3. n \in Nat /\ n < MaxFiles
  BY <1>1, <1>2, Constants
<1> QED
  BY <1>2, <1>3, Constants

\* Files are numbered below the bound and have inodes.
LEMMA FileFacts ==
  ASSUME TypeOK
  PROVE  /\ \A f \in DOMAIN files : files[f] \in Inode /\ f \in 1 .. MaxFiles
         /\ 0 \notin DOMAIN files
  BY Constants DEF TypeOK, DiskOK

\* The initial states satisfy the invariant.
LEMMA InitIInv == Init => IInv
<1> SUFFICES ASSUME Init
             PROVE  IInv
  OBVIOUS
<1>1. files \in [1 .. 0 -> Inode]
  BY DEF Init
<1>2. NoSaver \in Saver /\ NoSaver.pc = "idle"
  BY Constants DEF NoSaver, Saver
<1>3. TypeOK
  BY <1>1, <1>2, Constants DEF Init, TypeOK, DiskOK
<1>4. EntriesAreDurable
  BY DEF Init, EntriesAreDurable
<1>5. \A s \in Savers : Knows(s)
  BY <1>2 DEF Init, Knows
<1>6. OneWriterPerFile
  BY <1>2 DEF Init, OneWriterPerFile
<1>7. NamesHaveDirectory
  BY DEF Init, NamesHaveDirectory
<1> QED
  BY <1>3, <1>4, <1>5, <1>6, <1>7 DEF Init, IInv

(***************************************************************************)
(* Types                                                                   *)
(***************************************************************************)

\* A saver that never saved is a saver.
LEMMA NoSaverFacts == NoSaver \in Saver /\ NoSaver.pc = "idle" /\ NoSaver.answer = None
  BY Constants DEF NoSaver, Saver

\* A saver that rests is a saver.
LEMMA RestingFacts ==
  ASSUME TypeOK, NEW s \in Savers
  PROVE  /\ Resting(s) \in Saver /\ Resting(s).pc = "idle"
         /\ Resting(s).free = savers[s].free /\ Resting(s).answer = savers[s].answer
<1>1. NoSaver \in Saver /\ NoSaver.pc = "idle"
  BY NoSaverFacts
<1>2. savers[s].free \in BOOLEAN /\ savers[s].answer \in Answers \cup {None}
  BY DEF TypeOK, Saver
<1>3. [NoSaver EXCEPT !.free = savers[s].free, !.answer = savers[s].answer] \in Saver
  BY <1>1, <1>2 DEF Saver
<1> QED
  BY <1>1, <1>3 DEF Resting, Saver

\* The answer that is given about a run that is stored, or was just created.
LEMMA AnswerFacts ==
  ASSUME TypeOK, NEW s \in Savers, savers[s].run \in Runs, savers[s].content \in Contents,
         NEW outcome \in {"created", "existing", "conflict"},
         outcome # "created" => entries[savers[s].run] \in DOMAIN files
  PROVE  Answer(s, outcome) \in Answers
<1>1. [name |-> savers[s].run, content |-> savers[s].content] \in Calls
  BY DEF Calls
<1>2. outcome # "created" => files[entries[savers[s].run]].content \in Contents
  BY FileFacts DEF Inode
<1> QED
  BY <1>1, <1>2 DEF Answer, Answers

\* A save is reported, and what was reported before stays so.
LEMMA PromiseTypes ==
  ASSUME TypeOK, NEW s \in Savers, savers[s].run \in Runs, savers[s].content \in Contents,
         NEW durable \in BOOLEAN, Promise(s, durable)
  PROVE  promises' \subseteq Reported
<1>1. [run |-> savers[s].run, content |-> savers[s].content, durable |-> durable,
       epoch |-> losses] \in Reported
  BY DEF Reported, TypeOK
<1> QED
  BY <1>1 DEF Promise, TypeOK

\* A saver that goes on, decided or not, is a saver.
LEMMA GotoTypes ==
  ASSUME TypeOK, NEW s \in Savers,
         NEW pc \in {"check", "create", "write", "sync", "link", "unlink", "discard",
                     "publish"},
         \/ Goto(s, pc)
         \/ \E outcome : Answer(s, outcome) \in Answers /\ Decide(s, pc, outcome)
  PROVE  savers' \in [Savers -> Saver]
<1>1. savers[s] \in Saver
  BY DEF TypeOK
<1>2. [savers[s] EXCEPT !.pc = pc] \in Saver
  BY <1>1 DEF Saver
<1>3. \A a \in Answers : [savers[s] EXCEPT !.pc = pc, !.answer = a] \in Saver
  BY <1>1 DEF Saver
<1>4. CASE Goto(s, pc)
  BY <1>2, <1>4 DEF Goto, TypeOK
<1>5. ASSUME NEW outcome, Answer(s, outcome) \in Answers, Decide(s, pc, outcome)
      PROVE  savers' \in [Savers -> Saver]
  BY <1>3, <1>5 DEF Decide, TypeOK
<1> QED
  BY <1>4, <1>5

\* A step that leaves the disk alone keeps its types.
LEMMA DiskUnchanged == TypeOK /\ UNCHANGED disk => DiskOK'
  BY DEF TypeOK, DiskOK, disk

\* Writing to a file or syncing it keeps its inode one.
LEMMA InodeChanges ==
  ASSUME TypeOK, NEW f \in DOMAIN files, NEW inode \in Inode,
         files' = [files EXCEPT ![f] = inode],
         UNCHANGED <<directory, entries, synced, temps>>
  PROVE  DiskOK'
<1>1. PICK n \in 0 .. MaxFiles : files \in [1 .. n -> Inode]
  BY DEF TypeOK, DiskOK
<1>2. files' \in [1 .. n -> Inode] /\ DOMAIN files' = DOMAIN files
  BY <1>1
<1> QED
  BY <1>2 DEF TypeOK, DiskOK

\* Every step of a saver keeps the types.
LEMMA SaverTypes ==
  ASSUME TypeOK, NEW s \in Savers, Knows(s), EntriesAreDurable, SaverStep(s) \/ Crash(s)
  PROVE  TypeOK'
<1>1. /\ losses' = losses /\ losses \in 0 .. MaxPowerLosses
      /\ swept' = swept /\ swept \in 0 .. losses
  BY DEF SaverStep, Crash, TypeOK, failures
<1>2. savers[s] \in Saver
  BY DEF TypeOK
<1>3. \A r \in Runs : entries[r] # 0 => entries[r] \in DOMAIN files
  BY DEF EntriesAreDurable, Durable
<1>4. savers[s].pc # "idle" => savers[s].run \in Runs /\ savers[s].content \in Contents
  BY DEF Knows
<1>5. ASSUME NEW outcome \in {"existing", "conflict"}, savers[s].pc # "idle",
             entries[savers[s].run] # 0
      PROVE  Answer(s, outcome) \in Answers
  BY <1>3, <1>4, <1>5, AnswerFacts
<1>6. ASSUME NEW r \in Runs, NEW c \in Contents, Save(s, r, c)
      PROVE  TypeOK'
  <2>1. [NoSaver EXCEPT !.pc = "check", !.run = r, !.content = c,
                        !.free = entries[r] = 0] \in Saver
    BY NoSaverFacts DEF Saver
  <2>2. savers' \in [Savers -> Saver]
    BY <1>6, <2>1 DEF Save, TypeOK
  <2>3. DiskOK'
    BY <1>6 DEF Save, TypeOK, DiskOK
  <2> QED
    BY <1>1, <1>6, <2>2, <2>3 DEF Save, TypeOK
<1>7. CASE Check(s)
  <2>1. DiskOK'
    BY <1>7, DiskUnchanged DEF Check
  <2>2. CASE Goto(s, "create") /\ UNCHANGED promises
    BY <1>1, <2>1, <2>2, GotoTypes DEF TypeOK
  <2>3. ASSUME NEW outcome \in {"existing", "conflict"}, entries[savers[s].run] # 0,
               savers' = [savers EXCEPT ![s] =
                             [Resting(s) EXCEPT !.answer = Answer(s, outcome)]]
        PROVE  savers' \in [Savers -> Saver]
    <3>1. Answer(s, outcome) \in Answers
      BY <1>5, <1>7, <2>3 DEF Check
    <3>2. [Resting(s) EXCEPT !.answer = Answer(s, outcome)] \in Saver
      BY <3>1, RestingFacts DEF Saver
    <3> QED
      BY <2>3, <3>2 DEF TypeOK
  <2>4. Promise(s, FALSE) => promises' \subseteq Reported
    BY <1>4, <1>7, PromiseTypes DEF Check
  <2> QED
    BY <1>1, <1>7, <2>1, <2>2, <2>3, <2>4 DEF Check, TypeOK
<1>8. CASE CreateTemporary(s)
  <2> DEFINE f == Cardinality(DOMAIN files) + 1
  <2>1. f \in 1 .. MaxFiles /\ f \notin DOMAIN files /\ DOMAIN files \cup {f} = 1 .. f
    BY <1>8, NewFile DEF CreateTemporary
  <2>2. File(savers[s].content) \in Inode
    BY <1>4, <1>8, Constants DEF CreateTemporary, File, Inode
  <2>3. /\ files' = [g \in DOMAIN files \cup {f} |->
                        IF g = f THEN File(savers[s].content) ELSE files[g]]
        /\ temps' = temps \cup {f} /\ UNCHANGED <<directory, entries, synced, promises>>
        /\ savers' = [savers EXCEPT ![s] = [@ EXCEPT !.pc = "write", !.file = f]]
    BY <1>8 DEF CreateTemporary
  <2> HIDE DEF f
  <2>4. files' \in [1 .. f -> Inode]
    BY <2>1, <2>2, <2>3, FileFacts
  <2>5. DiskOK'
    <3>1. f \in 0 .. MaxFiles /\ DOMAIN files' = 1 .. f
      BY <2>1, <2>3, Constants
    <3>2. temps' \subseteq DOMAIN files'
      BY <2>1, <2>3, <3>1 DEF TypeOK, DiskOK
    <3> QED
      BY <2>3, <2>4, <3>1, <3>2 DEF TypeOK, DiskOK
  <2>6. [savers[s] EXCEPT !.pc = "write", !.file = f] \in Saver
    <3>1. f \in 0 .. MaxFiles
      BY <2>1, Constants
    <3> QED
      BY <1>2, <3>1 DEF Saver
  <2>7. savers' \in [Savers -> Saver]
    BY <2>3, <2>6 DEF TypeOK
  <2> QED
    BY <1>1, <2>3, <2>5, <2>7 DEF TypeOK
<1>9. CASE Write(s)
  <2>1. /\ savers[s].file \in DOMAIN files /\ files[savers[s].file] \in Inode
        /\ files[savers[s].file].length < Whole
    BY <1>9, FileFacts DEF Write, Knows
  <2>2. [files[savers[s].file] EXCEPT !.length = @ + 1] \in Inode
    BY <2>1, Constants DEF Inode
  <2>3. DiskOK'
    BY <1>9, <2>1, <2>2, InodeChanges DEF Write
  <2>4. savers' \in [Savers -> Saver]
    BY <1>9, GotoTypes DEF Write
  <2> QED
    BY <1>1, <1>9, <2>3, <2>4 DEF Write, TypeOK
<1>10. CASE SyncFile(s)
  <2>1. savers[s].file \in DOMAIN files /\ files[savers[s].file] \in Inode
    BY <1>10, FileFacts DEF SyncFile, Knows
  <2>2. [files[savers[s].file] EXCEPT !.disk = files[savers[s].file].length] \in Inode
    BY <2>1, Constants DEF Inode
  <2>3. DiskOK'
    BY <1>10, <2>1, <2>2, InodeChanges DEF SyncFile
  <2>4. savers' \in [Savers -> Saver]
    BY <1>10, GotoTypes DEF SyncFile
  <2> QED
    BY <1>1, <1>10, <2>3, <2>4 DEF SyncFile, TypeOK
<1>11. CASE Link(s)
  <2>1. savers[s].file \in DOMAIN files /\ savers[s].run \in Runs
    BY <1>4, <1>11 DEF Link, Knows
  <2>2. entries' \in [Runs -> 0 .. MaxFiles]
    <3>1. savers[s].file \in 0 .. MaxFiles /\ entries \in [Runs -> 0 .. MaxFiles]
      BY <1>2 DEF TypeOK, DiskOK, Saver
    <3> QED
      BY <1>11, <3>1 DEF Link
  <2>3. DiskOK'
    BY <1>11, <2>2 DEF Link, TypeOK, DiskOK
  <2>4. Answer(s, "created") \in Answers
    BY <1>4, <1>11, AnswerFacts DEF Link
  <2>5. savers' \in [Savers -> Saver]
    BY <1>5, <1>11, <2>4, GotoTypes DEF Link
  <2> QED
    BY <1>1, <1>11, <2>3, <2>5 DEF Link, TypeOK
<1>12. CASE Fail(s)
  <2>1. savers' \in [Savers -> Saver]
    BY <1>12, GotoTypes DEF Fail
  <2> QED
    BY <1>1, <1>12, <2>1, DiskUnchanged DEF Fail, TypeOK
<1>13. CASE Unlink(s)
  <2>1. savers' \in [Savers -> Saver]
    BY <1>13, GotoTypes, RestingFacts DEF Unlink, TypeOK
  <2> QED
    BY <1>1, <1>13, <2>1 DEF Unlink, TypeOK, DiskOK
<1>14. CASE SyncDirectory(s)
  <2>1. savers' \in [Savers -> Saver]
    BY <1>14, RestingFacts DEF SyncDirectory, TypeOK
  <2>2. promises' \subseteq Reported
    BY <1>4, <1>14, PromiseTypes DEF SyncDirectory
  <2> QED
    BY <1>1, <1>14, <2>1, <2>2 DEF SyncDirectory, TypeOK, DiskOK
<1>15. CASE Crash(s)
  <2>1. savers' \in [Savers -> Saver]
    BY <1>15, RestingFacts DEF Crash, TypeOK
  <2> QED
    BY <1>1, <1>15, <2>1, DiskUnchanged DEF Crash, TypeOK
<1> QED
  BY <1>6, <1>7, <1>8, <1>9, <1>10, <1>11, <1>12, <1>13, <1>14, <1>15 DEF SaverStep

\* A power failure keeps the types: no file becomes longer than it was.
LEMMA PowerLossTypes ==
  ASSUME TypeOK, PowerLoss
  PROVE  TypeOK'
<1>1. PICK n \in 0 .. MaxFiles : files \in [1 .. n -> Inode]
  BY DEF TypeOK, DiskOK
<1>2. PICK cut \in SUBSET DOMAIN files :
         files' = [f \in DOMAIN files |->
            [files[f] EXCEPT !.length = IF f \in cut THEN files[f].disk ELSE @]]
  BY DEF PowerLoss
<1>3. files' \in [1 .. n -> Inode]
  BY <1>1, <1>2 DEF Inode
<1>4. savers' \in [Savers -> Saver]
  BY RestingFacts DEF PowerLoss
<1>5. losses' \in 0 .. MaxPowerLosses /\ swept' \in 0 .. losses'
  BY Constants DEF PowerLoss, DirectorySurvives, DirectoryVanishes, TypeOK
<1>6. /\ directory' \in {"missing", "created", "durable"}
      /\ entries' \in [Runs -> 0 .. MaxFiles] /\ temps' \subseteq temps
  BY Constants DEF PowerLoss, DirectorySurvives, DirectoryVanishes
<1>7. DOMAIN files' = DOMAIN files /\ synced' = entries'
  BY <1>1, <1>2, <1>3 DEF PowerLoss
<1>8. DiskOK'
  BY <1>1, <1>3, <1>6, <1>7 DEF TypeOK, DiskOK
<1> QED
  BY <1>4, <1>5, <1>8 DEF PowerLoss, TypeOK

(***************************************************************************)
(* What a step leaves as it was                                            *)
(***************************************************************************)

\* The directory stays, files keep their content, and what is on the disk stays there.
FilesStay ==
    /\ directory # "missing" => directory' # "missing"
    /\ \A f \in DOMAIN files :
          /\ f \in DOMAIN files' /\ files'[f].content = files[f].content
          /\ Durable(f) => files'[f] = files[f]

NamesStay == \A r \in Runs : entries[r] # 0 => entries'[r] = entries[r]

\* Only a writer makes a file longer, and only its own, which is not on the disk yet.
LEMMA SaverKeepsFiles ==
  ASSUME IInv, NEW s \in Savers, SaverStep(s) \/ Crash(s)
  PROVE  FilesStay /\ NamesStay
<1>1. TypeOK /\ Knows(s)
  BY DEF IInv
<1>2. CASE /\ UNCHANGED <<entries, files>>
           /\ directory # "missing" => directory' # "missing"
  BY <1>2 DEF FilesStay, NamesStay, Durable
<1>3. CASE CreateTemporary(s)
  BY <1>1, <1>3, NewFile DEF CreateTemporary, FilesStay, NamesStay
<1>4. CASE Write(s)
  <2>1. savers[s].file \in DOMAIN files /\ files[savers[s].file] \in Inode
    BY <1>1, <1>4, FileFacts DEF Write, Knows
  <2>2. ~ Durable(savers[s].file)
    BY <1>1, <1>4, Constants DEF Write, Knows, Durable
  <2>3. files' = [files EXCEPT ![savers[s].file].length = @ + 1]
    BY <1>4 DEF Write
  <2>4. \A f \in DOMAIN files : /\ files'[f].content = files[f].content
                                /\ f # savers[s].file => files'[f] = files[f]
    BY <1>1, <2>1, <2>3, FileFacts DEF Inode
  <2> QED
    BY <1>4, <2>2, <2>3, <2>4 DEF Write, FilesStay, NamesStay
<1>5. CASE SyncFile(s)
  <2>1. savers[s].file \in DOMAIN files /\ files[savers[s].file] \in Inode
    BY <1>1, <1>5, FileFacts DEF SyncFile, Knows
  <2>2. files' = [files EXCEPT ![savers[s].file].disk = files[savers[s].file].length]
    BY <1>5 DEF SyncFile
  <2>3. \A f \in DOMAIN files : /\ files'[f].content = files[f].content
                                /\ f # savers[s].file => files'[f] = files[f]
    BY <1>1, <2>1, <2>2, FileFacts DEF Inode
  <2>4. Durable(savers[s].file) => files'[savers[s].file] = files[savers[s].file]
    BY <2>1, <2>2 DEF Durable, Inode
  <2> QED
    BY <1>5, <2>2, <2>3, <2>4 DEF SyncFile, FilesStay, NamesStay
<1>6. CASE Link(s)
  <2>1. FilesStay
    BY <1>6 DEF Link, FilesStay
  <2>2. savers[s].run \in Runs
    BY <1>1, <1>6 DEF Link, Knows
  <2>3. NamesStay
    BY <1>1, <1>6, <2>2 DEF Link, NamesStay, TypeOK, DiskOK
  <2> QED
    BY <2>1, <2>3
<1> QED
  BY <1>2, <1>3, <1>4, <1>5, <1>6 DEF SaverStep, Save, Check, Fail, Unlink, SyncDirectory,
     Crash, disk

\* A run that is stored stays stored while names and files stay.
LEMMA StoredStays ==
  ASSUME FilesStay, NamesStay, EntriesAreDurable, NEW r \in Runs, NEW c, Stored(r, c)
  PROVE  Stored(r, c)'
<1>1. entries[r] # 0 /\ entries'[r] = entries[r] /\ entries[r] \in DOMAIN files
  BY DEF Stored, NamesStay, EntriesAreDurable, Durable
<1> QED
  BY <1>1 DEF Stored, FilesStay

\* A durable file remains one while no file that has a name is written.
LEMMA DurableStays ==
  ASSUME FilesStay, NEW f, Durable(f)
  PROVE  Durable(f)'
<1>1. f \in DOMAIN files /\ f \in DOMAIN files' /\ files'[f] = files[f]
  BY DEF FilesStay, Durable
<1> QED
  BY <1>1 DEF Durable

\* A saver that takes no part in a step knows what it knew, if nobody writes its file.
LEMMA Bystander ==
  ASSUME IInv, FilesStay, NamesStay, NEW t \in Savers, savers'[t] = savers[t],
         savers[t].pc \in {"write", "sync"} =>
             files'[savers[t].file].length = files[savers[t].file].length
  PROVE  Knows(t)'
<1>1. Knows(t) /\ EntriesAreDurable
  BY DEF IInv
<1>2. savers[t].pc \in {"write", "sync", "link"} =>
        /\ savers[t].file \in DOMAIN files'
        /\ files'[savers[t].file].content = savers[t].content
  BY <1>1 DEF Knows, FilesStay
<1>3. savers[t].pc = "link" => Durable(savers[t].file)'
  <2>1. savers[t].pc = "link" => Durable(savers[t].file)
    BY <1>1 DEF Knows
  <2>2. Durable(savers[t].file) => Durable(savers[t].file)'
    <3>1. Durable(savers[t].file) =>
            /\ savers[t].file \in DOMAIN files'
            /\ files'[savers[t].file] = files[savers[t].file]
      BY DEF FilesStay, Durable
    <3> QED
      BY <3>1 DEF Durable
  <2> QED
    BY <2>1, <2>2
<1>4. savers[t].pc \in {"unlink", "publish"} => Stored(savers[t].run, savers[t].content)'
  <2>1. savers[t].pc \in {"unlink", "publish"} =>
          savers[t].run \in Runs /\ Stored(savers[t].run, savers[t].content)
    BY <1>1 DEF Knows
  <2>2. savers[t].pc \in {"unlink", "publish"} =>
          /\ entries'[savers[t].run] = entries[savers[t].run] /\ entries[savers[t].run] # 0
          /\ files'[entries[savers[t].run]].content = savers[t].content
    BY <1>1, <2>1 DEF Stored, NamesStay, EntriesAreDurable, Durable, FilesStay
  <2> QED
    BY <2>2 DEF Stored
<1>5. savers[t].pc # "idle" => directory' # "missing"
  BY <1>1 DEF Knows, FilesStay
<1> QED
  BY <1>1, <1>2, <1>3, <1>4, <1>5 DEF Knows

(***************************************************************************)
(* The invariant                                                           *)
(***************************************************************************)

\* A saver's step changes that saver only, and no file that another one writes.
LEMMA OthersStay ==
  ASSUME IInv, NEW s \in Savers, NEW t \in Savers \ {s}, SaverStep(s) \/ Crash(s)
  PROVE  /\ savers'[t] = savers[t]
         /\ savers[t].pc \in {"write", "sync"} =>
                files'[savers[t].file].length = files[savers[t].file].length
<1>1. TypeOK /\ Knows(s) /\ Knows(t)
  BY DEF IInv
<1>2. savers'[t] = savers[t]
  <2>1. \E new : savers' = [savers EXCEPT ![s] = new]
    BY DEF SaverStep, Save, Check, CreateTemporary, Write, SyncFile, Link, Fail, Unlink,
       SyncDirectory, Crash, Goto, Decide
  <2> QED
    BY <1>1, <2>1 DEF TypeOK
<1>3. ASSUME savers[t].pc \in {"write", "sync"}
      PROVE  files'[savers[t].file].length = files[savers[t].file].length
  <2>1. savers[t].file \in DOMAIN files /\ files[savers[t].file] \in Inode
    BY <1>1, <1>3, FileFacts DEF Knows
  <2>2. CASE UNCHANGED files
    BY <2>2
  <2>3. CASE CreateTemporary(s)
    BY <1>1, <2>1, <2>3, NewFile DEF CreateTemporary
  <2>4. CASE Write(s)
    <3>1. /\ savers[s].pc = "write" /\ files[savers[s].file].length < Whole
          /\ files' = [files EXCEPT ![savers[s].file].length = @ + 1]
      BY <1>1, <2>4 DEF Write, Knows
    <3>2. savers[t].file # savers[s].file
      <4>1. savers[t].pc = "sync" => files[savers[t].file].length = Whole
        BY <1>1 DEF Knows
      <4> QED
        BY <1>3, <3>1, <4>1, Constants DEF IInv, OneWriterPerFile
    <3> QED
      BY <2>1, <3>1, <3>2
  <2>5. CASE SyncFile(s)
    <3>1. savers[s].file \in DOMAIN files /\ files[savers[s].file] \in Inode
      BY <1>1, <2>5, FileFacts DEF SyncFile, Knows
    <3>2. files' = [files EXCEPT ![savers[s].file].disk = files[savers[s].file].length]
      BY <2>5 DEF SyncFile
    <3> QED
      BY <2>1, <3>1, <3>2 DEF Inode
  <2> QED
    BY <2>2, <2>3, <2>4, <2>5 DEF SaverStep, Save, Check, Link, Fail, Unlink,
       SyncDirectory, Crash, disk
<1> QED
  BY <1>2, <1>3

\* A saver that moves on knows what its step has established.
LEMMA Mover ==
  ASSUME IInv, NEW s \in Savers, FilesStay, savers[s].pc # "idle",
         NEW pc \in {"create", "sync", "write", "link", "unlink", "discard", "publish"},
         \/ /\ Goto(s, pc)
            /\ savers[s].pc \in {"check", "write", "sync", "link"} \/ pc \in {"discard", "publish"}
         \/ pc \in {"unlink", "discard"} /\ \E outcome : Decide(s, pc, outcome),
         pc \in {"sync", "write", "link"} =>
             savers[s].file \in DOMAIN files /\ files[savers[s].file].content = savers[s].content,
         pc = "write" => files'[savers[s].file].length < Whole,
         pc = "sync" => files'[savers[s].file].length = Whole,
         pc = "link" => Durable(savers[s].file)',
         pc \in {"unlink", "publish"} => Stored(savers[s].run, savers[s].content)'
  PROVE  Knows(s)'
<1>1. savers[s] \in Saver /\ Knows(s)
  BY DEF IInv, TypeOK
<1>2. /\ savers'[s].pc = pc /\ savers'[s].run = savers[s].run
      /\ savers'[s].content = savers[s].content /\ savers'[s].file = savers[s].file
  BY <1>1 DEF Goto, Decide, IInv, TypeOK, Saver
<1>3. pc \in {"create", "write", "sync", "link"} => savers'[s].answer = None
  <2>1. pc \in {"create", "write", "sync", "link"} =>
          savers[s].pc \in {"check", "write", "sync", "link"} /\ Goto(s, pc)
    OBVIOUS
  <2>2. savers[s].pc \in {"check", "write", "sync", "link"} => savers[s].answer = None
    BY <1>1 DEF Knows
  <2> QED
    BY <1>1, <2>1, <2>2 DEF Goto, IInv, TypeOK, Saver
<1>4. savers'[s].run \in Runs /\ savers'[s].content \in Contents
  BY <1>1, <1>2 DEF Knows
<1>5. pc \in {"write", "sync", "link"} =>
        /\ savers[s].file \in DOMAIN files'
        /\ files'[savers[s].file].content = savers[s].content
  BY DEF FilesStay
<1>6. directory' # "missing"
  BY <1>1 DEF Knows, FilesStay
<1> QED
  BY <1>2, <1>3, <1>4, <1>5, <1>6 DEF Knows

\* A saver that rests has nothing to know.
LEMMA Rester ==
  ASSUME NEW s \in Savers, savers'[s].pc = "idle"
  PROVE  Knows(s)'
  BY DEF Knows

\* _require_identical: the run is stored, whole, with the same content.
LEMMA IdenticalFacts ==
  ASSUME NEW s \in Savers, savers[s].run \in Runs, Identical(s)
  PROVE  Stored(savers[s].run, savers[s].content)
  BY GetFacts DEF Identical

\* Whoever acts knows what its step has established.
LEMMA Actor ==
  ASSUME IInv, NEW s \in Savers, SaverStep(s) \/ Crash(s), FilesStay, NamesStay
  PROVE  Knows(s)'
<1>1. TypeOK /\ Knows(s) /\ EntriesAreDurable /\ savers[s] \in Saver
  BY DEF IInv, TypeOK
<1>2. savers[s].pc # "idle" => savers[s].run \in Runs /\ savers[s].content \in Contents
  BY <1>1 DEF Knows
<1>3. ASSUME NEW r \in Runs, NEW c \in Contents, Save(s, r, c)
      PROVE  Knows(s)'
  <2>1. /\ savers'[s].pc = "check" /\ savers'[s].run = r /\ savers'[s].content = c
        /\ savers'[s].answer = None
    BY <1>1, <1>3, NoSaverFacts DEF Save, TypeOK, Saver
  <2>2. directory' # "missing"
    BY <1>3 DEF Save
  <2> QED
    BY <2>1, <2>2 DEF Knows
<1>4. CASE Check(s)
  <2>1. CASE Goto(s, "create")
    BY <1>4, <2>1, Mover DEF Check
  <2>2. CASE \E a : savers' = [savers EXCEPT ![s] = [Resting(s) EXCEPT !.answer = a]]
    <3>1. savers'[s].pc = "idle"
      BY <1>1, <2>2, RestingFacts DEF TypeOK, Saver
    <3> QED
      BY <3>1, Rester
  <2> QED
    BY <1>4, <2>1, <2>2 DEF Check
<1>5. CASE CreateTemporary(s)
  <2> DEFINE f == Cardinality(DOMAIN files) + 1
  <2>1. f \notin DOMAIN files /\ f \in 1 .. MaxFiles
    BY <1>1, <1>5, NewFile DEF CreateTemporary
  <2>2. /\ f \in DOMAIN files' /\ files'[f] = File(savers[s].content)
        /\ savers' = [savers EXCEPT ![s] = [@ EXCEPT !.pc = "write", !.file = f]]
    BY <1>5 DEF CreateTemporary
  <2> HIDE DEF f
  <2>3. /\ savers'[s].pc = "write" /\ savers'[s].run = savers[s].run
        /\ savers'[s].content = savers[s].content /\ savers'[s].file = f
        /\ savers'[s].answer = savers[s].answer
    BY <1>1, <2>2 DEF TypeOK, Saver
  <2>4. savers[s].answer = None
    BY <1>1, <1>5 DEF CreateTemporary, Knows
  <2>5. files'[f].content = savers[s].content /\ files'[f].length < Whole
    BY <2>2, Constants DEF File
  <2>6. directory' # "missing"
    BY <1>1, <1>5 DEF CreateTemporary, Knows
  <2> QED
    BY <1>2, <1>5, <2>2, <2>3, <2>4, <2>5, <2>6 DEF CreateTemporary, Knows
<1>6. CASE Write(s)
  <2>1. /\ savers[s].file \in DOMAIN files /\ files[savers[s].file].content = savers[s].content
        /\ files[savers[s].file].length < Whole /\ files[savers[s].file] \in Inode
    BY <1>1, <1>6, FileFacts DEF Write, Knows
  <2>2. /\ files' = [files EXCEPT ![savers[s].file].length = @ + 1]
        /\ Goto(s, IF files[savers[s].file].length = Empty THEN "write" ELSE "sync")
    BY <1>6 DEF Write
  <2>3. files'[savers[s].file].length = files[savers[s].file].length + 1
    BY <2>1, <2>2 DEF Inode
  <2>4. CASE files[savers[s].file].length = Empty
    BY <1>6, <2>1, <2>2, <2>3, <2>4, Mover, Constants DEF Write
  <2>5. CASE files[savers[s].file].length # Empty
    <3>1. files'[savers[s].file].length = Whole
      BY <2>1, <2>3, <2>5, Constants DEF Inode
    <3> QED
      BY <1>6, <2>1, <2>2, <2>5, <3>1, Mover DEF Write
  <2> QED
    BY <2>4, <2>5
<1>7. CASE SyncFile(s)
  <2>1. /\ savers[s].file \in DOMAIN files /\ files[savers[s].file].content = savers[s].content
        /\ files[savers[s].file].length = Whole /\ files[savers[s].file] \in Inode
    BY <1>1, <1>7, FileFacts DEF SyncFile, Knows
  <2>2. /\ files' = [files EXCEPT ![savers[s].file].disk = files[savers[s].file].length]
        /\ Goto(s, "link") /\ savers[s].pc = "sync"
    BY <1>7 DEF SyncFile
  <2>3. Durable(savers[s].file)'
    <3>1. /\ savers'[s].file = savers[s].file /\ savers[s].file \in DOMAIN files'
          /\ files'[savers[s].file].length = Whole /\ files'[savers[s].file].disk = Whole
      BY <1>1, <2>1, <2>2 DEF Inode, Goto, TypeOK, Saver
    <3> QED
      BY <3>1 DEF Durable
  <2>4. savers'[s].file = savers[s].file
    BY <1>1, <2>2 DEF Goto, TypeOK, Saver
  <2> QED
    BY <2>1, <2>2, <2>3, <2>4, Mover
<1>8. CASE Link(s)
  <2>1. savers[s].run \in Runs /\ savers[s].pc = "link" /\ files' = files
    BY <1>2, <1>8 DEF Link
  <2>2. CASE /\ entries[savers[s].run] = 0
             /\ entries' = [entries EXCEPT ![savers[s].run] = savers[s].file]
             /\ Decide(s, "unlink", "created")
    <3>1. savers[s].file \in DOMAIN files /\ files[savers[s].file].content = savers[s].content
      BY <1>1, <2>1 DEF Knows
    <3>2. entries'[savers[s].run] = savers[s].file /\ savers[s].file # 0
      BY <1>1, <2>1, <2>2, <3>1, FileFacts DEF TypeOK, DiskOK
    <3>3. savers'[s].run = savers[s].run /\ savers'[s].content = savers[s].content
      BY <1>1, <2>2 DEF Decide, TypeOK, Saver
    <3>4. Stored(savers[s].run, savers[s].content)'
      BY <2>1, <3>1, <3>2, <3>3 DEF Stored
    <3> QED
      BY <2>1, <2>2, <3>4, Mover
  <2>3. CASE Identical(s) /\ Decide(s, "unlink", "existing") /\ UNCHANGED entries
    <3>1. Stored(savers[s].run, savers[s].content)
      BY <2>1, <2>3, IdenticalFacts
    <3>2. savers'[s].run = savers[s].run /\ savers'[s].content = savers[s].content
      BY <1>1, <2>3 DEF Decide, TypeOK, Saver
    <3>3. Stored(savers[s].run, savers[s].content)'
      BY <2>1, <2>3, <3>1, <3>2 DEF Stored
    <3> QED
      BY <2>1, <2>3, <3>3, Mover
  <2>4. CASE Decide(s, "discard", "conflict")
    BY <2>1, <2>4, Mover
  <2> QED
    BY <1>8, <2>2, <2>3, <2>4 DEF Link
<1>9. CASE Fail(s)
  BY <1>9, Mover DEF Fail
<1>10. CASE Unlink(s)
  <2>1. CASE savers[s].pc = "unlink" /\ Goto(s, "publish")
    <3>1. Stored(savers[s].run, savers[s].content)
      BY <1>1, <2>1 DEF Knows
    <3>2. savers'[s].run = savers[s].run /\ savers'[s].content = savers[s].content
      BY <1>1, <2>1 DEF Goto, TypeOK, Saver
    <3>3. Stored(savers[s].run, savers[s].content)'
      BY <1>10, <3>1, <3>2 DEF Stored, Unlink
    <3> QED
      BY <2>1, <3>3, Mover
  <2>2. CASE savers' = [savers EXCEPT ![s] = Resting(s)]
    BY <1>1, <2>2, RestingFacts, Rester DEF TypeOK
  <2> QED
    BY <1>10, <2>1, <2>2 DEF Unlink
<1>11. CASE SyncDirectory(s) \/ Crash(s)
  BY <1>1, <1>11, RestingFacts, Rester DEF SyncDirectory, Crash, TypeOK
<1> QED
  BY <1>3, <1>4, <1>5, <1>6, <1>7, <1>8, <1>9, <1>10, <1>11 DEF SaverStep

\* Names are bound to durable files only, and the directory is synced as it is.
LEMMA EntriesStayDurable ==
  ASSUME IInv, NEW s \in Savers, SaverStep(s) \/ Crash(s), FilesStay, NamesStay
  PROVE  EntriesAreDurable'
<1>1. TypeOK /\ Knows(s) /\ EntriesAreDurable
  BY DEF IInv
<1>2. ASSUME NEW r \in Runs, entries'[r] # 0
      PROVE  /\ entries'[r] \in DOMAIN files'
             /\ files'[entries'[r]].length = Whole /\ files'[entries'[r]].disk = Whole
  <2>1. CASE entries[r] # 0
    BY <1>1, <2>1 DEF NamesStay, FilesStay, EntriesAreDurable, Durable
  <2>2. CASE entries[r] = 0
    <3>1. Link(s)
      BY <1>2, <2>2 DEF SaverStep, Save, Check, CreateTemporary, Write, SyncFile, Fail,
         Unlink, SyncDirectory, Crash, disk
    <3>2. Durable(savers[s].file) /\ files' = files
      BY <1>1, <3>1 DEF Link, Knows
    <3>3. entries'[r] = savers[s].file
      BY <1>1, <1>2, <2>2, <3>1 DEF Link, TypeOK, DiskOK
    <3> QED
      BY <3>2, <3>3 DEF Durable
  <2> QED
    BY <2>1, <2>2
<1>3. ASSUME NEW r \in Runs
      PROVE  synced'[r] \in {0, entries'[r]}
  <2>1. synced' = synced \/ (synced' = entries /\ entries' = entries)
    BY DEF SaverStep, Save, Check, CreateTemporary, Write, SyncFile, Link, Fail, Unlink,
       SyncDirectory, Crash, disk
  <2> QED
    BY <1>1, <2>1 DEF EntriesAreDurable, NamesStay
<1> QED
  BY <1>2, <1>3 DEF EntriesAreDurable, Durable

\* mkstemp gives a saver a file that nobody has.
LEMMA WritersStayApart ==
  ASSUME IInv, NEW s \in Savers, SaverStep(s) \/ Crash(s)
  PROVE  OneWriterPerFile'
<1>1. TypeOK /\ \A t \in Savers : Knows(t)
  BY DEF IInv
<1>2. ASSUME NEW t \in Savers, t # s
      PROVE  savers'[t] = savers[t]
  BY <1>2, OthersStay
<1>3. CASE CreateTemporary(s)
  <2>1. savers'[s].file \notin DOMAIN files
    BY <1>1, <1>3, NewFile DEF CreateTemporary, TypeOK, Saver
  <2>2. \A t \in Savers : savers[t].pc = "write" => savers[t].file \in DOMAIN files
    BY <1>1 DEF Knows
  <2> QED
    BY <1>2, <2>1, <2>2 DEF IInv, OneWriterPerFile
<1>4. CASE savers'[s].pc = "write" => savers[s].pc = "write" /\ savers'[s].file = savers[s].file
  BY <1>2, <1>4 DEF IInv, OneWriterPerFile
<1>5. CASE Write(s)
  BY <1>1, <1>4, <1>5 DEF Write, Goto, TypeOK, Saver
<1>6. CASE \E r \in Runs, c \in Contents : Save(s, r, c)
  BY <1>1, <1>4, <1>6, NoSaverFacts DEF Save, TypeOK, Saver
<1>7. CASE Check(s) \/ SyncFile(s) \/ Link(s) \/ Fail(s) \/ Unlink(s) \/ SyncDirectory(s)
             \/ Crash(s)
  <2>1. savers[s] \in Saver
    BY <1>1 DEF TypeOK
  <2>2. \/ \E pc \in {"create", "link", "unlink", "discard", "publish"} :
              Goto(s, pc) \/ \E outcome : Decide(s, pc, outcome)
        \/ savers' = [savers EXCEPT ![s] = Resting(s)]
        \/ \E a : savers' = [savers EXCEPT ![s] = [Resting(s) EXCEPT !.answer = a]]
    BY <1>7 DEF Check, SyncFile, Link, Fail, Unlink, SyncDirectory, Crash
  <2>3. savers'[s].pc # "write"
    BY <1>1, <2>1, <2>2, RestingFacts DEF Goto, Decide, TypeOK, Saver
  <2> QED
    BY <1>4, <2>3
<1> QED
  BY <1>3, <1>5, <1>6, <1>7 DEF SaverStep

\* A save reports what is stored, and says that it will stay when the disk was told.
LEMMA PromisesStand ==
  ASSUME IInv, NEW s \in Savers, SaverStep(s) \/ Crash(s), FilesStay, NamesStay,
         NEW p \in promises'
  PROVE  Stands(p)'
<1>1. TypeOK /\ Knows(s) /\ EntriesAreDurable /\ losses' = losses /\ swept' = swept
  BY DEF IInv, SaverStep, Crash, failures
<1>2. \A r \in Runs : synced[r] # 0 => synced'[r] # 0
  <2>1. synced' = synced \/ synced' = entries
    BY DEF SaverStep, Save, Check, CreateTemporary, Write, SyncFile, Link, Fail, Unlink,
       SyncDirectory, Crash, disk
  <2> QED
    BY <1>1, <2>1 DEF EntriesAreDurable
<1>3. CASE p \in promises
  <2>1. p.run \in Runs /\ Stands(p)
    BY <1>1, <1>3 DEF IInv, TypeOK, Reported
  <2>2. Stored(p.run, p.content) => Stored(p.run, p.content)'
    BY <1>1, <2>1, StoredStays
  <2> QED
    BY <1>1, <1>2, <2>1, <2>2 DEF Stands
<1>4. CASE p \notin promises
  <2>1. PICK durable \in BOOLEAN :
           /\ p = [run |-> savers[s].run, content |-> savers[s].content,
                   durable |-> durable, epoch |-> losses]
           /\ \/ Check(s) /\ Identical(s) /\ ~durable
              \/ SyncDirectory(s)
    BY <1>4 DEF Promise, SaverStep, Save, Check, CreateTemporary, Write, SyncFile, Link,
       Fail, Unlink, SyncDirectory, Crash
  <2>2. p.run \in Runs /\ p.epoch = losses /\ p.durable = durable
    BY <1>1, <2>1 DEF Check, SyncDirectory, Knows
  <2>3. Stored(p.run, p.content)
    BY <1>1, <2>1, <2>2, IdenticalFacts DEF SyncDirectory, Knows
  <2>4. Stored(p.run, p.content)'
    BY <1>1, <2>2, <2>3, StoredStays
  <2>5. p.durable => synced'[p.run] # 0
    BY <2>1, <2>2, <2>3 DEF SyncDirectory, Stored
  <2>6. p.epoch <= losses
    BY <1>1, <2>2, Constants DEF TypeOK
  <2> QED
    BY <1>1, <2>4, <2>5, <2>6 DEF Stands
<1> QED
  BY <1>3, <1>4

\* Every step of a saver keeps the invariant.
LEMMA SaverKeepsInvariant ==
  ASSUME IInv, NEW s \in Savers, SaverStep(s) \/ Crash(s)
  PROVE  IInv'
<1>1. FilesStay /\ NamesStay
  BY SaverKeepsFiles
<1>2. TypeOK'
  BY SaverTypes DEF IInv
<1>3. ASSUME NEW t \in Savers
      PROVE  Knows(t)'
  <2>1. CASE t = s
    BY <1>1, <2>1, Actor
  <2>2. CASE t # s
    BY <1>1, <2>2, OthersStay, Bystander
  <2> QED
    BY <2>1, <2>2
<1>4. \A p \in promises' : Stands(p)'
  BY <1>1, PromisesStand
<1>5. (\A t \in Savers : Knows(t))' /\ (\A p \in promises : Stands(p))'
  BY <1>3, <1>4
<1>6. NamesHaveDirectory'
  <2>1. CASE directory # "missing"
    BY <1>1, <2>1 DEF FilesStay, NamesHaveDirectory
  <2>2. CASE directory = "missing"
    <3>1. savers[s].pc = "idle"
      BY <2>2 DEF IInv, Knows
    <3>2. entries' = entries
      BY <3>1 DEF SaverStep, Save, Check, CreateTemporary, Write, SyncFile, Link, Fail,
         Unlink, SyncDirectory, Crash, disk
    <3> QED
      BY <2>2, <3>2 DEF IInv, NamesHaveDirectory
  <2> QED
    BY <2>1, <2>2
<1> QED
  BY <1>1, <1>2, <1>5, <1>6, EntriesStayDurable, WritersStayApart DEF IInv

\* A power failure spares what is durable, and of each name and the disk's idea of it
\* one is left, unless the directory goes.
LEMMA PowerLossFacts ==
  ASSUME IInv, PowerLoss
  PROVE  /\ \A f : Durable(f) => Durable(f)' /\ files'[f].content = files[f].content
         /\ \A r \in Runs :
               /\ entries'[r] \in {0, entries[r]}
               /\ synced[r] # 0 /\ swept' = swept => entries'[r] = entries[r]
         /\ swept' \in {swept, losses'}
<1>1. PICK cut \in SUBSET DOMAIN files :
         files' = [f \in DOMAIN files |->
            [files[f] EXCEPT !.length = IF f \in cut THEN files[f].disk ELSE @]]
  BY DEF PowerLoss
<1>2. \A f \in DOMAIN files : files[f] \in Inode
  BY FileFacts DEF IInv
<1>3. \A f : Durable(f) => Durable(f)' /\ files'[f].content = files[f].content
  BY <1>1, <1>2 DEF Durable, Inode
<1>4. ASSUME NEW r \in Runs
      PROVE  /\ entries'[r] \in {0, entries[r]}
             /\ synced[r] # 0 /\ swept' = swept => entries'[r] = entries[r]
  <2>1. swept \in 0 .. losses /\ losses \in Nat /\ losses' = losses + 1
    BY Constants DEF IInv, TypeOK, PowerLoss
  <2>2. DirectoryVanishes => swept' # swept /\ entries'[r] = 0
    BY <2>1 DEF DirectoryVanishes
  <2>3. DirectorySurvives => entries'[r] \in {entries[r], synced[r]}
    BY DEF DirectorySurvives
  <2> QED
    BY <2>2, <2>3 DEF IInv, EntriesAreDurable, PowerLoss
<1>5. swept' \in {swept, losses'}
  BY DEF PowerLoss, DirectorySurvives, DirectoryVanishes
<1> QED
  BY <1>3, <1>4, <1>5

\* A power failure keeps the invariant.
LEMMA PowerLossKeepsInvariant ==
  ASSUME IInv, PowerLoss
  PROVE  IInv'
<1>1. TypeOK /\ TypeOK' /\ EntriesAreDurable
  BY PowerLossTypes DEF IInv
<1>2. \A s \in Savers : savers'[s].pc = "idle"
  BY <1>1, RestingFacts DEF PowerLoss
<1>3. \A s \in Savers : Knows(s)'
  BY <1>2, Rester
<1>4. OneWriterPerFile'
  BY <1>2 DEF OneWriterPerFile
<1>5. EntriesAreDurable'
  <2>1. ASSUME NEW r \in Runs, entries'[r] # 0
        PROVE  /\ entries'[r] \in DOMAIN files'
               /\ files'[entries'[r]].length = Whole /\ files'[entries'[r]].disk = Whole
    <3>1. entries'[r] = entries[r] /\ Durable(entries[r])
      BY <1>1, <2>1, PowerLossFacts DEF EntriesAreDurable
    <3>2. PICK cut \in SUBSET DOMAIN files :
             files' = [f \in DOMAIN files |->
                [files[f] EXCEPT !.length = IF f \in cut THEN files[f].disk ELSE @]]
      BY DEF PowerLoss
    <3>3. files[entries[r]] \in Inode
      BY <1>1, <3>1, FileFacts DEF Durable
    <3> QED
      BY <3>1, <3>2, <3>3 DEF Durable, Inode
  <2>2. synced' = entries'
    BY DEF PowerLoss
  <2> QED
    BY <2>1, <2>2 DEF EntriesAreDurable, Durable
<1>6. ASSUME NEW p \in promises
      PROVE  Stands(p)'
  <2>1. p.run \in Runs /\ p.epoch \in Nat /\ p.durable \in BOOLEAN
    BY <1>1, <1>6, Constants DEF TypeOK, Reported
  <2>2. Stands(p)
    BY <1>6 DEF IInv
  <2>3. losses \in Nat /\ losses' = losses + 1
    BY <1>1, Constants DEF TypeOK, PowerLoss
  <2>4. p.epoch <= losses' /\ p.epoch # losses'
    BY <2>1, <2>2, <2>3 DEF Stands
  <2>5. ASSUME p.durable, swept' <= p.epoch
        PROVE  /\ synced'[p.run] # 0 /\ entries'[p.run] # 0
               /\ files'[entries'[p.run]].content = p.content
    <3>0. swept' = swept
      <4>1. swept' \in {swept, losses'}
        BY PowerLossFacts
      <4>2. swept' # losses'
        BY <2>1, <2>2, <2>3, <2>5 DEF Stands
      <4> QED
        BY <4>1, <4>2
    <3>1. synced[p.run] # 0 /\ Stored(p.run, p.content)
      BY <2>2, <2>5, <3>0 DEF Stands
    <3>2. entries'[p.run] = entries[p.run] /\ entries[p.run] # 0
      BY <2>1, <3>0, <3>1, PowerLossFacts DEF Stored
    <3>3. Durable(entries[p.run])
      BY <1>1, <2>1, <3>2 DEF EntriesAreDurable
    <3>4. files'[entries[p.run]].content = p.content
      BY <3>1, <3>3, PowerLossFacts DEF Stored
    <3> QED
      BY <3>2, <3>4 DEF PowerLoss
  <2> QED
    BY <2>4, <2>5 DEF Stands, Stored
<1>7. (\A s \in Savers : Knows(s))' /\ (\A p \in promises : Stands(p))'
  BY <1>3, <1>6 DEF PowerLoss
<1>8. NamesHaveDirectory'
  BY <1>1 DEF IInv, NamesHaveDirectory, PowerLoss, DirectorySurvives, DirectoryVanishes,
     EntriesAreDurable
<1> QED
  BY <1>1, <1>4, <1>5, <1>7, <1>8 DEF IInv

\* The invariant is inductive.
LEMMA IInvStep == IInv /\ [Next]_vars => IInv'
<1> SUFFICES ASSUME IInv, [Next]_vars
             PROVE  IInv'
  OBVIOUS
<1>1. CASE UNCHANGED vars
  BY <1>1 DEF IInv, TypeOK, DiskOK, EntriesAreDurable, Durable, Knows, Stored,
     OneWriterPerFile, NamesHaveDirectory, Stands, vars
<1> QED
  BY <1>1, SaverKeepsInvariant, PowerLossKeepsInvariant DEF Next

(***************************************************************************)
(* The safety properties                                                   *)
(***************************************************************************)

\* The inductive invariant holds in every reachable state.
THEOREM InvariantHolds == Spec => []IInv
  BY InitIInv, IInvStep, PTL DEF Spec

\* get never finds a part of a run (save: "Atomically publish a run once"): at any
\* point of any save, after any crash and any power failure.
THEOREM WholeReads == Spec => []ReadsAreWhole
<1>1. IInv => ReadsAreWhole
  BY GetFacts, Constants DEF IInv, EntriesAreDurable, Durable, ReadsAreWhole
<1> QED
  BY <1>1, InvariantHolds, PTL

\* What save reported is stored: once _sync_directory has returned for as long as the
\* directory is there, which _ensure_directory leaves to the file system, and else until
\* the power fails.
THEOREM PromisesHold == Spec => []PromisesAreKept
<1>1. IInv => PromisesAreKept
  <2> SUFFICES ASSUME IInv, NEW p \in promises,
                      (p.durable /\ swept <= p.epoch) \/ p.epoch = losses
               PROVE  Get(p.run) = <<"found", p.content>>
    BY DEF PromisesAreKept
  <2>1. p.run \in Runs /\ Stored(p.run, p.content)
    BY DEF IInv, TypeOK, Reported, Stands
  <2>2. files[entries[p.run]].length = Whole
    BY <2>1 DEF IInv, EntriesAreDurable, Durable, Stored
  <2> QED
    BY <2>1, <2>2, GetFacts, Constants
<1> QED
  BY <1>1, InvariantHolds, PTL

(***************************************************************************)
(* The refinement                                                          *)
(***************************************************************************)

\* The mapped initial states are initial states of CreateOnce.
LEMMA InitRefines == Init => Once!OnceInit
  BY DEF Init, NoSaver, Once!OnceInit, Published, Undecided

\* What is under the name of a save that is about to be decided.
LEMMA PublishedFacts ==
  ASSUME IInv, NEW r \in Runs
  PROVE  /\ Published[r] = IF entries[r] = 0 THEN None ELSE files[entries[r]].content
         /\ entries[r] # 0 => files[entries[r]].content \in Contents
         /\ Published[r] = None <=> entries[r] = 0
<1>1. entries[r] # 0 => files[entries[r]] \in Inode
  BY FileFacts DEF IInv, EntriesAreDurable, Durable
<1>2. entries[r] # 0 => files[entries[r]].content \in Contents
  BY <1>1 DEF Inode
<1> QED
  BY <1>2, Constants DEF Published

\* As long as names and contents stay, so does what is published.
LEMMA PublishedStays ==
  ASSUME IInv, FilesStay, entries' = entries
  PROVE  Published' = Published
<1>1. \A r \in Runs : entries[r] # 0 => entries[r] \in DOMAIN files
  BY DEF IInv, EntriesAreDurable, Durable
<1> QED
  BY <1>1 DEF FilesStay, Published

Deciding == {"check", "create", "write", "sync", "link"}

\* A saver whose save is not decided has a call and no answer.
LEMMA CallFacts ==
  ASSUME IInv, NEW s \in Savers, savers[s].pc \in Deciding
  PROVE  /\ Undecided[s] = [name |-> savers[s].run, content |-> savers[s].content]
         /\ Undecided[s] # None /\ savers[s].answer = None
         /\ savers[s].run \in Runs /\ savers[s].content \in Contents
<1>1. Knows(s)
  BY DEF IInv
<1>2. savers[s].run \in Runs /\ savers[s].content \in Contents /\ savers[s].answer = None
  BY <1>1 DEF Knows, Deciding
<1>3. [name |-> savers[s].run, content |-> savers[s].content] \in Calls
  BY <1>2 DEF Calls
<1> QED
  BY <1>2, <1>3, Constants DEF Undecided, Deciding

\* The end of a call, as callers see it.
LEMMA Decided ==
  ASSUME IInv, NEW s \in Savers, savers[s].pc \in Deciding,
         NEW new \in Saver, savers' = [savers EXCEPT ![s] = new],
         new.pc \notin Deciding, new.free = savers[s].free
  PROVE  /\ Undecided[s] # None
         /\ Undecided' = [Undecided EXCEPT ![s] = None]
         /\ [t \in Savers |-> savers[t].answer]'
              = [[t \in Savers |-> savers[t].answer] EXCEPT ![s] = new.answer]
         /\ UNCHANGED [t \in Savers |-> savers[t].free]
<1>1. savers \in [Savers -> Saver]
  BY DEF IInv, TypeOK
<1>2. Undecided[s] # None
  BY CallFacts
<1>3. Undecided' = [Undecided EXCEPT ![s] = None]
  BY <1>1 DEF Undecided, Deciding
<1>4. [t \in Savers |-> savers[t].answer]'
        = [[t \in Savers |-> savers[t].answer] EXCEPT ![s] = new.answer]
  BY <1>1
<1>5. [t \in Savers |-> savers[t].free]' = [t \in Savers |-> savers[t].free]
  BY <1>1
<1> QED
  BY <1>2, <1>3, <1>4, <1>5

\* A step of a saver that callers do not see: its save stays decided, or undecided.
LEMMA Unseen ==
  ASSUME IInv, NEW s \in Savers, FilesStay, entries' = entries,
         NEW new \in Saver, savers' = [savers EXCEPT ![s] = new],
         savers[s].pc \in Deciding <=> new.pc \in Deciding,
         savers[s].pc \in Deciding =>
             new.run = savers[s].run /\ new.content = savers[s].content,
         new.free = savers[s].free, new.answer = savers[s].answer
  PROVE  UNCHANGED Once!onceVars
<1>1. savers \in [Savers -> Saver]
  BY DEF IInv, TypeOK
<1>2. Published' = Published
  BY PublishedStays
<1>3. Undecided' = Undecided
  BY <1>1 DEF Undecided, Deciding
<1>4. /\ [t \in Savers |-> savers[t].answer]' = [t \in Savers |-> savers[t].answer]
      /\ [t \in Savers |-> savers[t].free]' = [t \in Savers |-> savers[t].free]
  BY <1>1
<1> QED
  BY <1>2, <1>3, <1>4 DEF Once!onceVars

\* _require_identical compares what is under the name with what is saved.
LEMMA IdenticalIff ==
  ASSUME IInv, NEW s \in Savers, savers[s].run \in Runs, entries[savers[s].run] # 0
  PROVE  Identical(s) <=> files[entries[savers[s].run]].content = savers[s].content
<1>1. files[entries[savers[s].run]].length = Whole
  BY DEF IInv, EntriesAreDurable, Durable
<1> QED
  BY <1>1, GetFacts, Constants DEF Identical, Stored

\* A save that finds its name taken is decided by what it finds.
LEMMA FoundRefines ==
  ASSUME IInv, NEW s \in Savers, savers[s].pc \in Deciding, entries[savers[s].run] # 0,
         NEW outcome, outcome = IF Identical(s) THEN "existing" ELSE "conflict",
         NEW new \in Saver, savers' = [savers EXCEPT ![s] = new],
         new.pc \notin Deciding, new.free = savers[s].free, new.answer = Answer(s, outcome),
         UNCHANGED <<entries, files>>
  PROVE  Once!OnceNext
<1> DEFINE r == Published[savers[s].run]
<1>1. /\ Undecided[s] = [name |-> savers[s].run, content |-> savers[s].content]
      /\ Undecided[s] # None /\ savers[s].run \in Runs
  BY CallFacts
<1>2. r = files[entries[savers[s].run]].content /\ r \in Contents /\ r # None
  BY <1>1, PublishedFacts, Constants
<1>3. [c \in Contents |-> c][r] = r
  BY <1>2
<1>4. outcome = IF r = savers[s].content THEN "existing" ELSE "conflict"
  BY <1>1, <1>2, IdenticalIff
<1>5. Answer(s, outcome) = [call |-> Undecided[s], outcome |-> outcome, record |-> r]
  BY <1>1, <1>2, <1>4 DEF Answer
<1>6. Once!Done(s, Answer(s, outcome))
  <2>1. /\ Undecided' = [Undecided EXCEPT ![s] = None]
        /\ [t \in Savers |-> savers[t].answer]'
             = [[t \in Savers |-> savers[t].answer] EXCEPT ![s] = new.answer]
        /\ UNCHANGED [t \in Savers |-> savers[t].free]
    BY Decided
  <2>2. new.answer = Answer(s, outcome)
    OBVIOUS
  <2> QED
    BY <1>1, <2>1, <2>2 DEF Once!Done
<1>7. Published' = Published
  BY DEF Published
<1>8. Undecided[s].name = savers[s].run /\ Undecided[s].content = savers[s].content
  BY <1>1
<1>9. r = Published[Undecided[s].name]
  BY <1>8
<1> HIDE DEF r
<1>10. outcome = IF [c \in Contents |-> c][r] = Undecided[s].content
                 THEN "existing" ELSE "conflict"
  BY <1>3, <1>4, <1>8
<1>11. Once!Done(s, [call |-> Undecided[s],
                     outcome |-> IF [c \in Contents |-> c][r] = Undecided[s].content
                                 THEN "existing" ELSE "conflict",
                     record |-> r])
  BY <1>5, <1>6, <1>10 DEF Once!Done
<1>12. Once!Found(s)
  BY <1>2, <1>7, <1>9, <1>11 DEF Once!Found, Once!Done
<1> QED
  BY <1>1, <1>12 DEF Once!OnceNext

\* A save that ends with no decision failed.
LEMMA FailedRefines ==
  ASSUME IInv, NEW s \in Savers, savers[s].pc \in Deciding, FilesStay, entries' = entries,
         NEW new \in Saver, savers' = [savers EXCEPT ![s] = new],
         new.pc \notin Deciding, new.free = savers[s].free, new.answer = savers[s].answer
  PROVE  Once!OnceNext
<1>1. Undecided[s] # None /\ savers[s].answer = None
  BY CallFacts
<1>2. Once!Done(s, None)
  <2>1. /\ Undecided' = [Undecided EXCEPT ![s] = None]
        /\ [t \in Savers |-> savers[t].answer]'
             = [[t \in Savers |-> savers[t].answer] EXCEPT ![s] = new.answer]
        /\ UNCHANGED [t \in Savers |-> savers[t].free]
    BY Decided
  <2>2. new.answer = None
    BY <1>1
  <2> QED
    BY <1>1, <2>1, <2>2 DEF Once!Done
<1>3. Published' = Published
  BY PublishedStays
<1> QED
  BY <1>1, <1>2, <1>3 DEF Once!Failed, Once!OnceNext

\* A link that takes a free name is what decides the save.
LEMMA LinkRefines ==
  ASSUME IInv, NEW s \in Savers, Link(s), entries[savers[s].run] = 0,
         entries' = [entries EXCEPT ![savers[s].run] = savers[s].file],
         Decide(s, "unlink", "created")
  PROVE  Once!OnceNext
<1> DEFINE c == savers[s].content
<1>1. /\ savers[s].pc \in Deciding /\ files' = files /\ Knows(s) /\ TypeOK
      /\ savers[s] \in Saver
  BY DEF Link, Deciding, IInv, TypeOK
<1>2. /\ Undecided[s] = [name |-> savers[s].run, content |-> c]
      /\ Undecided[s] # None /\ savers[s].run \in Runs /\ c \in Contents
  BY <1>1, CallFacts
<1>3. savers[s].file \in DOMAIN files /\ files[savers[s].file].content = c
      /\ savers[s].file # 0
  BY <1>1, FileFacts DEF Link, Knows
<1>4. Answer(s, "created") = [call |-> Undecided[s], outcome |-> "created", record |-> c]
  BY <1>2 DEF Answer
<1>5. Published[savers[s].run] = None
  BY <1>2, PublishedFacts
<1>6. Published' = [Published EXCEPT ![savers[s].run] = c]
  <2>1. \A r \in Runs : entries'[r] = IF r = savers[s].run THEN savers[s].file ELSE entries[r]
    BY <1>1, <1>2 DEF TypeOK, DiskOK
  <2>2. ASSUME NEW r \in Runs
        PROVE  Published'[r] = IF r = savers[s].run THEN c ELSE Published[r]
    BY <1>1, <1>3, <2>1 DEF Published
  <2>3. DOMAIN Published = Runs /\ DOMAIN Published' = Runs
    BY DEF Published
  <2>4. Published' = [r \in Runs |-> Published'[r]]
    BY DEF Published
  <2>5. Published' = [r \in Runs |-> IF r = savers[s].run THEN c ELSE Published[r]]
    BY <2>2, <2>4
  <2> HIDE DEF c
  <2> QED
    BY <1>2, <2>3, <2>5
<1>7. Once!Done(s, Answer(s, "created"))
  <2>1. Answer(s, "created") \in Answers
    BY <1>2, AnswerFacts, <1>1
  <2> DEFINE new == [savers[s] EXCEPT !.pc = "unlink", !.answer = Answer(s, "created")]
  <2>2. /\ new \in Saver /\ new.pc = "unlink" /\ new.free = savers[s].free
        /\ new.answer = Answer(s, "created")
    BY <1>1, <2>1 DEF Saver
  <2>3. savers' = [savers EXCEPT ![s] = new]
    BY DEF Decide
  <2>4. new.pc \notin Deciding
    BY <2>2 DEF Deciding
  <2> HIDE DEF new
  <2>5. /\ Undecided' = [Undecided EXCEPT ![s] = None]
        /\ [t \in Savers |-> savers[t].answer]'
             = [[t \in Savers |-> savers[t].answer] EXCEPT ![s] = new.answer]
        /\ UNCHANGED [t \in Savers |-> savers[t].free]
    BY <1>1, <2>2, <2>3, <2>4, Decided
  <2> QED
    BY <1>2, <2>2, <2>5 DEF Once!Done
<1>8. [d \in Contents |-> d][c] = c
  BY <1>2
<1>9. Undecided[s].name = savers[s].run /\ Undecided[s].content = c
  BY <1>2
<1> HIDE DEF c
<1>10. Once!Create(s, c)
  BY <1>5, <1>6, <1>8, <1>9 DEF Once!Create
<1>11. Once!Done(s, [call |-> Undecided[s], outcome |-> "created", record |-> c])
  BY <1>4, <1>7 DEF Once!Done
<1>12. Once!Created(s)
  BY <1>2, <1>10, <1>11 DEF Once!Created, Once!Done
<1> QED
  BY <1>2, <1>12 DEF Once!OnceNext

\* Every step of a saver is a step of CreateOnce or one that callers do not see.
LEMMA SaverRefines ==
  ASSUME IInv, NEW s \in Savers, SaverStep(s) \/ Crash(s)
  PROVE  Once!OnceNext \/ UNCHANGED Once!onceVars
<1>1. /\ FilesStay /\ NamesStay /\ Knows(s) /\ TypeOK
      /\ savers \in [Savers -> Saver] /\ savers[s] \in Saver
  BY SaverKeepsFiles DEF IInv, TypeOK
<1>2. ASSUME NEW r \in Runs, NEW c \in Contents, Save(s, r, c)
      PROVE  Once!OnceNext
  <2> DEFINE new == [NoSaver EXCEPT !.pc = "check", !.run = r, !.content = c,
                                    !.free = entries[r] = 0]
             call == [name |-> r, content |-> c]
  <2>1. /\ savers' = [savers EXCEPT ![s] = new] /\ savers[s].pc = "idle"
        /\ UNCHANGED <<entries, files>>
    BY <1>2 DEF Save, disk
  <2>2. /\ new.pc = "check" /\ new.run = r /\ new.content = c /\ new.answer = None
        /\ new.free = (entries[r] = 0)
    BY NoSaverFacts DEF Saver
  <2>3. call \in Once!Calls /\ call.name = r
    BY DEF Once!Calls
  <2>4. Undecided[s] = None
    BY <2>1 DEF Undecided
  <2> HIDE DEF new
  <2>5. Undecided' = [Undecided EXCEPT ![s] = call]
    BY <1>1, <2>1, <2>2 DEF Undecided
  <2>6. [t \in Savers |-> savers[t].free]'
          = [[t \in Savers |-> savers[t].free] EXCEPT ![s] = Published[r] = None]
    BY <1>1, <2>1, <2>2, PublishedFacts
  <2>7. [t \in Savers |-> savers[t].answer]'
          = [[t \in Savers |-> savers[t].answer] EXCEPT ![s] = None]
    BY <1>1, <2>1, <2>2
  <2>8. Published' = Published
    BY <2>1 DEF Published
  <2> HIDE DEF call
  <2>9. Once!Arrive(s, call)
    BY <2>3, <2>4, <2>5, <2>6, <2>7, <2>8 DEF Once!Arrive
  <2> QED
    BY <2>3, <2>9 DEF Once!OnceNext
<1>3. CASE Check(s)
  <2>1. /\ savers[s].pc \in Deciding /\ savers[s].run \in Runs
        /\ savers[s].content \in Contents /\ UNCHANGED <<entries, files>>
    BY <1>1, <1>3 DEF Check, Deciding, disk, Knows
  <2>2. CASE Goto(s, "create")
    <3>1. [savers[s] EXCEPT !.pc = "create"] \in Saver
      BY <1>1 DEF Saver
    <3> QED
      BY <1>1, <2>1, <2>2, <3>1, Unseen DEF Goto, Saver, Deciding
  <2>3. ASSUME NEW outcome, outcome = IF Identical(s) THEN "existing" ELSE "conflict",
               entries[savers[s].run] # 0,
               savers' = [savers EXCEPT ![s] =
                             [Resting(s) EXCEPT !.answer = Answer(s, outcome)]]
        PROVE  Once!OnceNext
    <3>1. entries[savers[s].run] \in DOMAIN files
      BY <2>1, <2>3 DEF IInv, EntriesAreDurable, Durable
    <3>2. Answer(s, outcome) \in Answers
      BY <1>1, <2>1, <2>3, <3>1, AnswerFacts
    <3> DEFINE new == [Resting(s) EXCEPT !.answer = Answer(s, outcome)]
    <3>3. /\ new \in Saver /\ new.pc = "idle" /\ new.free = savers[s].free
          /\ new.answer = Answer(s, outcome)
      BY <1>1, <3>2, RestingFacts DEF Saver
    <3>4. new.pc \notin Deciding
      BY <3>3 DEF Deciding
    <3> HIDE DEF new
    <3> QED
      BY <2>1, <2>3, <3>3, <3>4, FoundRefines DEF new
  <2> QED
    BY <1>3, <2>2, <2>3 DEF Check
<1>4. CASE CreateTemporary(s)
  <2>1. savers' = [savers EXCEPT ![s] =
            [savers[s] EXCEPT !.pc = "write", !.file = Cardinality(DOMAIN files) + 1]]
    BY <1>4 DEF CreateTemporary
  <2>2. savers' \in [Savers -> Saver]
    BY <1>1, SaverTypes DEF IInv, TypeOK
  <2>3. savers'[s] \in Saver /\ savers' = [savers EXCEPT ![s] = savers'[s]]
    BY <1>1, <2>1, <2>2
  <2>4. /\ savers'[s].pc = "write" /\ savers'[s].run = savers[s].run
        /\ savers'[s].content = savers[s].content /\ savers'[s].free = savers[s].free
        /\ savers'[s].answer = savers[s].answer
    BY <1>1, <2>1 DEF Saver
  <2>5. entries' = entries /\ savers[s].pc = "create"
    BY <1>4 DEF CreateTemporary
  <2> QED
    BY <1>1, <2>3, <2>4, <2>5, Unseen DEF Deciding
<1>5. ASSUME NEW pc \in {"write", "sync", "link", "discard", "publish"}, Goto(s, pc),
             entries' = entries, savers[s].pc \in Deciding <=> pc \in Deciding
      PROVE  UNCHANGED Once!onceVars
  <2> DEFINE new == [savers[s] EXCEPT !.pc = pc]
  <2>1. /\ new \in Saver /\ new.pc = pc /\ new.run = savers[s].run
        /\ new.content = savers[s].content /\ new.free = savers[s].free
        /\ new.answer = savers[s].answer
    BY <1>1 DEF Saver
  <2>2. savers' = [savers EXCEPT ![s] = new]
    BY <1>5 DEF Goto
  <2> HIDE DEF new
  <2> QED
    BY <1>1, <1>5, <2>1, <2>2, Unseen
<1>6. CASE Write(s) \/ SyncFile(s)
  BY <1>5, <1>6 DEF Write, SyncFile, Deciding
<1>7. CASE Link(s)
  <2>1. CASE entries[savers[s].run] = 0
    BY <1>7, <2>1, LinkRefines DEF Link
  <2>2. CASE entries[savers[s].run] # 0
    <3> DEFINE outcome == IF Identical(s) THEN "existing" ELSE "conflict"
    <3>1. /\ savers[s].pc \in Deciding /\ savers[s].run \in Runs
          /\ savers[s].content \in Contents /\ UNCHANGED <<entries, files>>
      BY <1>1, <1>7, <2>2 DEF Link, Deciding, Knows
    <3>2. Answer(s, outcome) \in Answers
      BY <1>1, <2>2, <3>1, AnswerFacts DEF IInv, EntriesAreDurable, Durable
    <3>3. PICK pc \in {"unlink", "discard"} : Decide(s, pc, outcome)
      BY <1>7, <2>2 DEF Link
    <3> DEFINE new == [savers[s] EXCEPT !.pc = pc, !.answer = Answer(s, outcome)]
    <3>4. /\ new \in Saver /\ new.pc = pc /\ new.free = savers[s].free
          /\ new.answer = Answer(s, outcome)
      BY <1>1, <3>2 DEF Saver
    <3>5. savers' = [savers EXCEPT ![s] = new] /\ pc \notin Deciding
      BY <3>3 DEF Decide, Deciding
    <3> HIDE DEF new
    <3> QED
      BY <2>2, <3>1, <3>4, <3>5, FoundRefines
  <2> QED
    BY <2>1, <2>2
<1>8. CASE Fail(s)
  <2> DEFINE new == [savers[s] EXCEPT !.pc = "discard"]
  <2>1. /\ new \in Saver /\ new.pc = "discard" /\ new.free = savers[s].free
        /\ new.answer = savers[s].answer
    BY <1>1 DEF Saver
  <2>2. /\ savers' = [savers EXCEPT ![s] = new] /\ savers[s].pc \in Deciding
        /\ entries' = entries
    BY <1>8 DEF Fail, Goto, Deciding, disk
  <2> HIDE DEF new
  <2> QED
    BY <1>1, <2>1, <2>2, FailedRefines DEF Deciding
<1>9. ASSUME savers' = [savers EXCEPT ![s] = Resting(s)], entries' = entries
      PROVE  Once!OnceNext \/ UNCHANGED Once!onceVars
  <2>1. /\ Resting(s) \in Saver /\ Resting(s).pc \notin Deciding
        /\ Resting(s).free = savers[s].free /\ Resting(s).answer = savers[s].answer
    BY <1>1, RestingFacts DEF Deciding
  <2>2. CASE savers[s].pc \in Deciding
    BY <1>1, <1>9, <2>1, <2>2, FailedRefines
  <2>3. CASE savers[s].pc \notin Deciding
    BY <1>1, <1>9, <2>1, <2>3, Unseen
  <2> QED
    BY <2>2, <2>3
<1>10. CASE Unlink(s)
  BY <1>5, <1>9, <1>10 DEF Unlink, Deciding
<1>11. CASE SyncDirectory(s) \/ Crash(s)
  BY <1>9, <1>11 DEF SyncDirectory, Crash, disk
<1> QED
  BY <1>2, <1>3, <1>4, <1>6, <1>7, <1>8, <1>10, <1>11 DEF SaverStep

\* A power failure loses runs but replaces none.
LEMMA PowerLossLoses ==
  ASSUME IInv, PowerLoss
  PROVE  Lost
<1>1. losses' > losses
  BY Constants DEF IInv, TypeOK, PowerLoss
<1>2. ASSUME NEW r \in Runs
      PROVE  Get(r)' \in {Get(r), Missing}
  <2>1. CASE entries'[r] = 0
    BY <2>1 DEF Get
  <2>2. CASE entries'[r] # 0
    <3>1. entries'[r] = entries[r] /\ Durable(entries[r])
      BY <2>2, PowerLossFacts DEF IInv, EntriesAreDurable
    <3>2. files'[entries[r]].content = files[entries[r]].content
      BY <3>1, PowerLossFacts
    <3>3. IInv'
      BY PowerLossKeepsInvariant
    <3>4. files'[entries'[r]].length = Whole
      BY <2>2, <3>3 DEF IInv, EntriesAreDurable, Durable
    <3>5. files[entries[r]].length = Whole
      BY <3>1 DEF Durable
    <3> QED
      BY <2>2, <3>1, <3>2, <3>4, <3>5, Constants DEF Get
  <2> QED
    BY <2>1, <2>2
<1> QED
  BY <1>1, <1>2 DEF Lost

\* Savers that link, compare and fail in any order are a register that is written once
\* per name; the power may take a run away, and put none in its place.
THEOREM StoreImplementsCreateOnce == Spec => ImplementsCreateOnce
<1>1. Init => Once!OnceInit
  BY InitRefines
<1>2. IInv /\ [Next]_vars => [Once!OnceNext \/ Lost]_(Once!onceVars)
  <2>1. UNCHANGED vars => UNCHANGED Once!onceVars
    BY DEF vars, Once!onceVars, Published, Undecided
  <2> QED
    BY <2>1, SaverRefines, PowerLossLoses DEF Next
<1> QED
  BY <1>1, <1>2, InvariantHolds, PTL DEF Spec, ImplementsCreateOnce
=============================================================================
