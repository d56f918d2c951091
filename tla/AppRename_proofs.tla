--------------------------- MODULE AppRename_proofs ---------------------------
(***************************************************************************)
(* Proofs about AppRename: the inductive invariant IInv, and from it that  *)
(* a daemon which died during a rename starts again, that the manifest and *)
(* the registry agree, that memory is never ahead of the file, and that a  *)
(* rename is atomic for whoever reads the files after a crash.             *)
(***************************************************************************)
EXTENDS AppRename, TLAPS

RenameSteps == {"reading", "preparing", "writing", "noting", "saving", "publishing",
                "rolling", "clearing"}

\* What holds as long as no registry writers overlapped.
Core == OwnersInv /\ DownInv /\ SnapInv /\ StepsInv /\ AppsInv

-----------------------------------------------------------------------------
(* Jobs                                                                    *)

\* An entry of a file is an entry.
LEMMA FileEntriesAre == FileEntries \subseteq Entries
  BY DEF FileEntries, Entries

\* A job's fields, whatever its kind.
LEMMA JobFields ==
  ASSUME NEW j \in Job
  PROVE  /\ j # None /\ j.app \in Apps /\ j.kind \in {"rename", "register", "unregister"}
         /\ j.kind = "rename" => /\ j.before \in FileEntries /\ j.after \in FileEntries
                                 /\ j.before.path = j.after.path /\ j.at \in RenameSteps /\ j \in Rename
         /\ j.kind = "register" => /\ j.after \in Entries /\ j.at \in {"reading", "saving"}
                                   /\ j \in Registration
         /\ j.kind = "unregister" => j.at = "saving"
<1>1. j # None
  BY NoneAssumption
<1>2. CASE j \in Rename
  BY <1>1, <1>2 DEF Rename, RenameSteps
<1>3. CASE j \in Registration
  BY <1>1, <1>3 DEF Registration
<1>4. CASE j \in Unregistration
  BY <1>1, <1>4 DEF Unregistration
<1>5. QED
  BY <1>2, <1>3, <1>4 DEF Job

\* A job that moves on is the same job at another step.
LEMMA Moved ==
  ASSUME TypeOK, NEW c \in Clients, job[c] # None, NEW step, MoveTo(c, step),
         \/ job[c].kind = "rename" /\ step \in RenameSteps
         \/ job[c].kind = "register" /\ step = "saving"
  PROVE  /\ job' \in [Clients -> Job \cup {None}]
         /\ job'[c] # None /\ job'[c].at = step
         /\ job'[c].kind = job[c].kind /\ job'[c].app = job[c].app
         /\ job'[c].before = job[c].before /\ job'[c].after = job[c].after
         /\ \A d \in Clients : d # c => job'[d] = job[d]
<1>1. job[c] \in Job /\ job \in [Clients -> Job \cup {None}]
  BY DEF TypeOK
<1>2. job'[c] = [job[c] EXCEPT !.at = step] /\ \A d \in Clients : d # c => job'[d] = job[d]
  BY <1>1 DEF MoveTo
<1>3. CASE job[c].kind = "rename"
  <2>1. job[c] \in Rename /\ step \in RenameSteps
    BY <1>1, <1>3, JobFields
  <2>2. job'[c] \in Rename /\ job'[c].at = step
    BY <1>2, <2>1 DEF Rename, RenameSteps
  <2>3. /\ job'[c].kind = job[c].kind /\ job'[c].app = job[c].app
        /\ job'[c].before = job[c].before /\ job'[c].after = job[c].after
    BY <1>2, <2>1 DEF Rename
  <2>4. job' \in [Clients -> Job \cup {None}]
    BY <1>1, <1>2, <2>2 DEF MoveTo, Job
  <2>5. QED
    BY <1>2, <2>2, <2>3, <2>4, NoneAssumption DEF Job
<1>4. CASE job[c].kind = "register"
  <2>1. job[c] \in Registration /\ step = "saving"
    BY <1>1, <1>4, JobFields
  <2>2. job'[c] \in Registration /\ job'[c].at = step
    BY <1>2, <2>1 DEF Registration
  <2>3. /\ job'[c].kind = job[c].kind /\ job'[c].app = job[c].app
        /\ job'[c].before = job[c].before /\ job'[c].after = job[c].after
    BY <1>2, <2>1 DEF Registration
  <2>4. job' \in [Clients -> Job \cup {None}]
    BY <1>1, <1>2, <2>2 DEF MoveTo, Job
  <2>5. QED
    BY <1>2, <2>2, <2>3, <2>4, NoneAssumption DEF Job
<1>5. QED
  BY <1>3, <1>4

\* A job that ends leaves the others.
LEMMA Ended ==
  ASSUME TypeOK, NEW c \in Clients, End(c)
  PROVE  /\ job' \in [Clients -> Job \cup {None}]
         /\ job'[c] = None
         /\ \A d \in Clients : d # c => job'[d] = job[d]
  BY DEF TypeOK, End

\* A job that begins is the only one that is new.
LEMMA Begun ==
  ASSUME TypeOK, NEW c \in Clients, NEW j \in Job, job' = [job EXCEPT ![c] = j]
  PROVE  /\ job' \in [Clients -> Job \cup {None}]
         /\ job'[c] = j /\ job'[c] # None
         /\ \A d \in Clients : d # c => job'[d] = job[d]
  BY NoneAssumption DEF TypeOK

\* Jobs in a state of the right type.
LEMMA Typed ==
  ASSUME TypeOK, NEW c \in Clients, job[c] # None
  PROVE  job[c] \in Job
  BY DEF TypeOK

-----------------------------------------------------------------------------
(* Types                                                                   *)

\* One entry of a map is set.
LEMMA Entry ==
  ASSUME NEW m \in Maps, NEW a \in Apps, NEW entry \in Entries \cup {Absent}
  PROVE  /\ [m EXCEPT ![a] = entry] \in Maps
         /\ [m EXCEPT ![a] = entry][a] = entry
         /\ \A b \in Apps : b # a => [m EXCEPT ![a] = entry][b] = m[b]
  BY DEF Maps

\* What is registered is an entry, and the manifest file it came from has its name.
LEMMA RegistrableIs ==
  ASSUME TypeOK, NEW a \in Apps, NEW entry \in Registrable(a)
  PROVE  entry \in Entries /\ (entry.path = Inline \/ Says(a, entry))
  BY DEF TypeOK, Registrable, FromFile, FromRequest, Entries, Says

\* A manifest file that is written has the name of the entry.
LEMMA WrittenIs ==
  ASSUME TypeOK, NEW a \in Apps, NEW entry \in FileEntries, manifest' = Written(a, entry)
  PROVE  /\ manifest' \in [Apps -> [Paths -> Names]]
         /\ entry.path \in Paths /\ manifest'[a][entry.path] = entry.name
         /\ \A b \in Apps : b # a => manifest'[b] = manifest[b]
<1>1. manifest \in [Apps -> [Paths -> Names]] /\ entry.path \in Paths /\ entry.name \in Names
  BY DEF TypeOK, FileEntries
<1>2. manifest' = [manifest EXCEPT ![a] = [manifest[a] EXCEPT ![entry.path] = entry.name]]
  BY <1>1 DEF Written
<1>3. [manifest[a] EXCEPT ![entry.path] = entry.name] \in [Paths -> Names]
  BY <1>1
<1>4. QED
  BY <1>1, <1>2, <1>3

\* No request, no record, and the file is what memory says.
LEMMA InitInv == Init => IInv
<1> SUFFICES ASSUME Init PROVE IInv
  OBVIOUS
<1>1. TypeOK /\ CopyInv
  BY DEF Init, TypeOK, CopyInv, Maps
<1>2. OwnersInv /\ DownInv /\ SnapInv /\ StepsInv
  BY DEF Init, OwnersInv, DownInv, SnapInv, SnapOf, StepsInv, Writing, At
<1>3. AppsInv
  BY DEF Init, AppsInv, RecordInv, DurableInv, NamesInv, Known, Says
<1>4. QED
  BY <1>1, <1>2, <1>3 DEF IInv

\* Steps of registrations and unregistrations.
LEMMA RegistryTypes ==
  ASSUME TypeOK, CopyInv, NEW c \in Clients,
         \/ TakeSnapshot(c) \/ Save(c) \/ SetEntry(c)
         \/ \E a \in Apps : Register(c, a) \/ Unregister(c, a)
  PROVE  TypeOK' /\ CopyInv'
<1>1. CASE TakeSnapshot(c)
  BY <1>1 DEF TakeSnapshot, TypeOK, CopyInv, Writing
<1>2. CASE Save(c)
  <2>1. /\ job' \in [Clients -> Job \cup {None}] /\ job'[c] = None
        /\ \A d \in Clients : d # c => job'[d] = job[d]
    BY <1>2, Ended DEF Save
  <2>2. snap[c] \in Maps /\ job[c].kind \in {"register", "unregister"}
    BY <1>2 DEF Save, At, TypeOK
  <2>3. disk' \in Maps
    BY <1>2, <2>2 DEF Save, TypeOK
  <2>4. failed' \subseteq {"rename", "register", "unregister"}
    BY <1>2, <2>2 DEF Save, Fails, TypeOK
  <2>5. TypeOK'
    BY <1>2, <2>1, <2>3, <2>4 DEF Save, TypeOK
  <2>6. QED
    BY <1>2, <2>1, <2>5 DEF Save, CopyInv, Writing, TypeOK
<1>3. CASE SetEntry(c)
  <2>1. job[c] # None /\ job[c].kind = "register" /\ job[c].app \in Apps /\ job[c].after \in Entries
    BY <1>3, Typed, JobFields DEF SetEntry, At
  <2>2. /\ job' \in [Clients -> Job \cup {None}] /\ job'[c].kind = "register"
        /\ \A d \in Clients : d # c => job'[d] = job[d]
    BY <1>3, <2>1, Moved DEF SetEntry
  <2>3. mem' \in Maps
    BY <1>3, <2>1, Entry DEF SetEntry, Upsert, TypeOK
  <2>4. TypeOK'
    BY <1>3, <2>2, <2>3 DEF SetEntry, Upsert, TypeOK
  <2>5. QED
    BY <1>3, <2>2, <2>4 DEF SetEntry, CopyInv, Writing
<1>4. ASSUME NEW a \in Apps, Register(c, a) PROVE TypeOK' /\ CopyInv'
  <2>1. PICK entry \in Registrable(a) :
          job' = [job EXCEPT ![c] = [kind |-> "register", app |-> a, before |-> Absent,
                                     after |-> entry, at |-> "reading"]]
    BY <1>4 DEF Register
  <2>2. PICK j : j = [kind |-> "register", app |-> a, before |-> Absent,
                      after |-> entry, at |-> "reading"]
    OBVIOUS
  <2>3. j \in Job /\ j.kind = "register"
    BY <2>2, RegistrableIs DEF Job, Registration
  <2>4. job' = [job EXCEPT ![c] = j]
    BY <2>1, <2>2
  <2>5. QED
    BY <1>4, <2>3, <2>4, Begun DEF Register, TypeOK, CopyInv, Writing
<1>5. ASSUME NEW a \in Apps, Unregister(c, a) PROVE TypeOK' /\ CopyInv'
  <2>1. PICK j : j = [kind |-> "unregister", app |-> a, before |-> mem[a],
                      after |-> Absent, at |-> "saving"]
    OBVIOUS
  <2>2. j \in Job /\ j.kind = "unregister"
    BY <1>5, <2>1 DEF Job, Unregistration, TypeOK, Maps, Unregister
  <2>3. job' = [job EXCEPT ![c] = j]
    BY <1>5, <2>1 DEF Unregister
  <2>4. mem' \in Maps
    BY <1>5, Entry DEF Unregister, TypeOK
  <2>5. QED
    BY <1>5, <2>2, <2>3, <2>4, Begun DEF Unregister, TypeOK, CopyInv, Writing
<1>6. QED
  BY <1>1, <1>2, <1>3, <1>4, <1>5

\* A rename begins.
LEMMA BeginRenameTypes ==
  ASSUME TypeOK, CopyInv, NEW c \in Clients, NEW a \in Apps, NEW name \in Names, BeginRename(c, a, name)
  PROVE  TypeOK' /\ CopyInv'
<1>1. PICK j : j = [kind |-> "rename", app |-> a, before |-> mem[a], after |-> [name |-> name, path |-> mem[a].path], at |-> "reading"]
  OBVIOUS
<1>2. j \in Job /\ j.at = "reading"
  <2>1. mem[a] \in FileEntries
    BY DEF TypeOK, Maps, BeginRename, Entries, FileEntries
  <2>2. [name |-> name, path |-> mem[a].path] \in FileEntries
    BY <2>1 DEF FileEntries
  <2>3. QED
    BY <1>1, <2>1, <2>2 DEF Job, Rename
<1>3. job' = [job EXCEPT ![c] = j]
  BY <1>1 DEF BeginRename
<1>4. QED
  BY <1>2, <1>3, Begun DEF BeginRename, TypeOK, CopyInv, Writing

\* Steps of a rename.
LEMMA RenameTypes ==
  ASSUME TypeOK, CopyInv, NEW c \in Clients,
         \/ ReadManifest(c) \/ Prepare(c) \/ WriteManifest(c) \/ CopyRegistry(c)
         \/ SaveCopy(c) \/ Publish(c) \/ RollBack(c) \/ Clear(c)
  PROVE  TypeOK' /\ CopyInv'
<1> DEFINE j == job[c]
<1>1. /\ j # None /\ j \in Job /\ j.kind = "rename" /\ j.app \in Apps
      /\ j.before \in FileEntries /\ j.after \in FileEntries
      /\ j.before.path = j.after.path /\ j.after \in Entries
  BY Typed, JobFields, FileEntriesAre DEF ReadManifest, Prepare, WriteManifest, CopyRegistry, SaveCopy, Publish,
     RollBack, Clear, At
<1>2. ASSUME NEW step \in RenameSteps, MoveTo(c, step)
      PROVE  /\ job' \in [Clients -> Job \cup {None}] /\ job'[c].at = step
             /\ \A d \in Clients : d # c => job'[d] = job[d]
  BY <1>1, <1>2, Moved
<1>3. ASSUME End(c)
      PROVE  /\ job' \in [Clients -> Job \cup {None}] /\ job'[c] = None
             /\ \A d \in Clients : d # c => job'[d] = job[d]
  BY <1>3, Ended
<1>4. ASSUME job' \in [Clients -> Job \cup {None}], job'[c] # None => job'[c].at \notin {"saving", "publishing"},
             \A d \in Clients : d # c => job'[d] = job[d] /\ (snap'[d] = snap[d] \/ snap'[d] \in Maps)
      PROVE  CopyInv'
  BY <1>4 DEF CopyInv, Writing
<1>5. [before |-> j.before, after |-> j.after] \in Record
  BY <1>1, JobFields DEF Record
<1>6. CASE ReadManifest(c)
  BY <1>1, <1>2, <1>3, <1>4, <1>6 DEF ReadManifest, TypeOK, RenameSteps
<1>7. CASE Prepare(c)
  <2>1. record' \in [Apps -> Record \cup {None}]
    BY <1>1, <1>5, <1>7 DEF Prepare, TypeOK
  <2>2. QED
    BY <1>1, <1>2, <1>3, <1>4, <1>7, <2>1 DEF Prepare, TypeOK, RenameSteps, Fails
<1>8. CASE WriteManifest(c)
  <2>1. manifest' \in [Apps -> [Paths -> Names]]
    BY <1>1, <1>8, WrittenIs DEF WriteManifest, TypeOK
  <2>2. QED
    BY <1>1, <1>2, <1>3, <1>4, <1>8, <2>1 DEF WriteManifest, TypeOK, RenameSteps, Fails
<1>9. CASE CopyRegistry(c)
  <2>1. PICK next : next = [mem EXCEPT ![j.app] = j.after]
    OBVIOUS
  <2>2. next \in Maps
    BY <1>1, <2>1, Entry DEF TypeOK
  <2>3. CASE Copied(c, next) /\ MoveTo(c, "saving") /\ raced' = (raced \/ WritersOverlap(c)) /\ UNCHANGED failed
    <3>1. /\ job' \in [Clients -> Job \cup {None}] /\ job'[c].at = "saving"
          /\ \A d \in Clients : d # c => job'[d] = job[d]
      BY <1>2, <2>3 DEF RenameSteps
    <3>2. snap' \in [Clients -> Maps \cup {None}] /\ snap'[c] = next
          /\ \A d \in Clients : d # c => snap'[d] = snap[d]
      BY <2>2, <2>3 DEF Copied, TypeOK
    <3>3. CopyInv'
      BY <2>2, <3>1, <3>2 DEF CopyInv, Writing
    <3>4. raced' \in BOOLEAN
      BY <2>3 DEF TypeOK
    <3>5. QED
      BY <1>9, <2>3, <3>1, <3>2, <3>3, <3>4 DEF CopyRegistry, Copied, TypeOK
  <2>4. CASE Fails(c) /\ End(c) /\ UNCHANGED <<mem, snap, raced>>
    BY <1>1, <1>3, <1>4, <1>9, <2>4 DEF CopyRegistry, TypeOK, Fails
  <2>5. QED
    BY <1>9, <2>1, <2>3, <2>4 DEF CopyRegistry
<1>10. CASE SaveCopy(c)
  <2>1. snap[c] \in Maps
    BY <1>1, <1>10 DEF SaveCopy, CopyInv, Writing, At
  <2>2. CASE disk' = snap[c] /\ MoveTo(c, "publishing") /\ UNCHANGED <<snap, failed>>
    <3>1. /\ job' \in [Clients -> Job \cup {None}] /\ job'[c].at = "publishing"
          /\ \A d \in Clients : d # c => job'[d] = job[d]
      BY <1>2, <2>2 DEF RenameSteps
    <3>2. CopyInv'
      BY <2>1, <2>2, <3>1 DEF CopyInv, Writing
    <3>3. QED
      BY <1>10, <2>1, <2>2, <3>1, <3>2 DEF SaveCopy, TypeOK
  <2>3. CASE /\ Fails(c) /\ MoveTo(c, "rolling")
             /\ snap' = [snap EXCEPT ![c] = None] /\ UNCHANGED disk
    BY <1>1, <1>2, <1>4, <1>10, <2>3 DEF SaveCopy, TypeOK, RenameSteps, Fails
  <2>4. QED
    BY <1>10, <2>2, <2>3 DEF SaveCopy
<1>11. CASE Publish(c)
  <2>1. snap[c] \in Maps
    BY <1>1, <1>11 DEF Publish, CopyInv, Writing, At
  <2>2. snap' \in [Clients -> Maps \cup {None}]
    BY <1>11 DEF Publish, TypeOK
  <2>3. \A d \in Clients : d # c => snap'[d] = snap[d] \/ snap'[d] \in Maps
    BY <1>11 DEF Publish, TypeOK
  <2>4. QED
    BY <1>1, <1>2, <1>4, <1>11, <2>1, <2>2, <2>3 DEF Publish, TypeOK, RenameSteps
<1>12. CASE RollBack(c)
  <2>1. manifest' \in [Apps -> [Paths -> Names]]
    BY <1>1, <1>12, WrittenIs DEF RollBack, RolledBack, TypeOK
  <2>2. QED
    BY <1>1, <1>2, <1>3, <1>4, <1>12, <2>1 DEF RollBack, TypeOK, RenameSteps
<1>13. CASE Clear(c)
  <2>1. record' \in [Apps -> Record \cup {None}]
    BY <1>1, <1>13 DEF Clear, TypeOK
  <2>2. QED
    BY <1>1, <1>3, <1>4, <1>13, <2>1 DEF Clear, TypeOK, Fails
<1>14. QED
  BY <1>6, <1>7, <1>8, <1>9, <1>10, <1>11, <1>12, <1>13

\* A daemon dies, and the next one starts.
LEMMA StartTypes ==
  ASSUME TypeOK, CopyInv, Crash \/ Serve \/ \E a \in Apps : Recover(a)
  PROVE  TypeOK' /\ CopyInv'
<1>1. CASE Crash
  BY <1>1 DEF Crash, TypeOK, CopyInv
<1>2. CASE Serve
  BY <1>2 DEF Serve, TypeOK, CopyInv, Writing
<1>3. ASSUME NEW a \in Apps, Recover(a) PROVE TypeOK' /\ CopyInv'
  <2>1. record[a].after \in FileEntries /\ record[a].after \in Entries
    BY <1>3, FileEntriesAre DEF Recover, TypeOK, Record
  <2>2. [mem EXCEPT ![a] = record[a].after] \in Maps
    BY <2>1, Entry DEF TypeOK
  <2>3. TypeOK'
    BY <1>3, <2>2 DEF Recover, TypeOK
  <2>4. QED
    BY <1>3, <2>3 DEF Recover, CopyInv, Writing
<1>4. QED
  BY <1>1, <1>2, <1>3

-----------------------------------------------------------------------------
(* Steps without overlapping writers                                       *)

\* The record of a rename says both entries of the app.
LEMMA RecordIsKept ==
  ASSUME TypeOK, NEW c \in Clients, job[c] # None, job[c].kind = "rename", NEW a,
         record[a] = [before |-> job[c].before, after |-> job[c].after]
  PROVE  /\ record[a] # None /\ record[a].before = job[c].before /\ record[a].after = job[c].after
         /\ record[a].before.path = record[a].after.path
<1>1. /\ job[c].before \in FileEntries /\ job[c].after \in FileEntries
      /\ job[c].before.path = job[c].after.path
  BY Typed, JobFields
<1>2. record[a] \in Record
  BY <1>1 DEF Record
<1>3. QED
  BY <1>1, <1>2, NoneAssumption

\* A rename past its preparation knows the app's entry in memory: it is one of the
\* record's.
LEMMA RenamedIsThere ==
  ASSUME TypeOK, StepsInv, NEW c \in Clients, job[c] # None, job[c].kind = "rename",
         job[c].at # "reading"
  PROVE  LET a == job[c].app
         IN  /\ mem[a] # Absent
             /\ job[c].at # "preparing" => record[a] # None /\ mem[a].path = record[a].before.path
<1>1. PICK a : a = job[c].app
  OBVIOUS
<1>2. /\ job[c].before \in FileEntries /\ job[c].after \in FileEntries /\ job[c].at \in RenameSteps
      /\ StepInv(c, a)
  BY <1>1, Typed, JobFields DEF StepsInv
<1>3. mem[a] \in {job[c].before, job[c].after}
  BY <1>2 DEF StepInv, At, RenameSteps
<1>4. mem[a] # Absent
  BY <1>2, <1>3, AbsentAssumption, FileEntriesAre
<1>5. CASE job[c].at # "preparing"
  <2>1. record[a] = [before |-> job[c].before, after |-> job[c].after]
    BY <1>2, <1>5 DEF StepInv
  <2>2. QED
    BY <1>1, <1>3, <1>4, <2>1, RecordIsKept
<1>6. QED
  BY <1>1, <1>4, <1>5

\* A step of one request: what it leaves of the invariant to show is about itself
\* and its app.
LEMMA StepOf ==
  ASSUME IInv, ~raced, ~raced', NEW c \in Clients, NEW a \in Apps,
         up = "up", up' = "up", failed \subseteq failed',
         \A d \in Clients : d # c => job'[d] = job[d],
         job[c] # None => job[c].app = a,
         job'[c] # None => job'[c].app = a /\ StepInv(c, a)',
         \A d \in Clients : d # c /\ job[d] # None /\ job[d].app = a =>
            /\ StepInv(d, a)'
            /\ job'[c] # None => job[d].kind = "register" /\ job'[c].kind = "register",
         Writing(c)' => \A d \in Clients : d # c => ~Writing(d),
         \A b \in Apps : b # a => /\ manifest'[b] = manifest[b] /\ mem'[b] = mem[b]
                                  /\ record'[b] = record[b] /\ disk'[b] \in {disk[b], mem[b]},
         RecordInv(a)', DurableInv(a)', NamesInv(a)'
  PROVE  OwnersInv' /\ DownInv' /\ StepsInv' /\ AppsInv'
<1>1. OwnersInv /\ StepsInv /\ AppsInv /\ TypeOK
  BY DEF IInv
<1>2. \A d \in Clients : d # c => (Writing(d)' <=> Writing(d))
  BY DEF Writing
<1>3. OwnersInv'
  BY <1>1, <1>2 DEF OwnersInv
<1>4. DownInv'
  BY DEF DownInv
<1>5. ASSUME NEW d \in Clients, d # c, job[d] # None, job[d].app # a
      PROVE  StepInv(d, job[d].app)'
  <2>1. job[d].app \in Apps /\ StepInv(d, job[d].app)
    BY <1>1, <1>5, Typed, JobFields DEF StepsInv
  <2>2. job'[d] = job[d]
    BY <1>5
  <2>3. QED
    BY <1>5, <2>1, <2>2 DEF StepInv, At, Says
<1>6. StepsInv'
  BY <1>5 DEF StepsInv
<1>7. ASSUME NEW b \in Apps, b # a PROVE RecordInv(b)' /\ DurableInv(b)' /\ NamesInv(b)'
  <2>1. /\ manifest'[b] = manifest[b] /\ mem'[b] = mem[b]
        /\ record'[b] = record[b] /\ disk'[b] \in {disk[b], mem[b]}
    BY <1>7
  <2>2. RecordInv(b) /\ DurableInv(b) /\ NamesInv(b)
    BY <1>1 DEF AppsInv
  <2>3. \A d \in Clients : job[d] # None /\ job[d].app = b => d # c /\ job'[d] = job[d]
    BY <1>7
  <2>4. RecordInv(b)'
    <3>1. SUFFICES ASSUME record[b] # None, {"rename", "register"} \cap failed' = {}
                   PROVE  /\ ~Replaced(b)'
                          /\ \E d \in Clients : /\ job'[d] # None /\ job'[d].app = b
                                                /\ job'[d].kind = "rename"
                                                /\ job'[d].at \notin {"reading", "preparing"}
      BY <2>1, <2>2 DEF RecordInv, Says, Replaced
    <3>2. {"rename", "register"} \cap failed = {}
      BY <3>1
    <3>3. PICK d \in Clients : /\ job[d] # None /\ job[d].app = b /\ job[d].kind = "rename"
                               /\ job[d].at \notin {"reading", "preparing"}
      BY <2>2, <3>1, <3>2 DEF RecordInv, Says, Replaced
    <3>4. ~Replaced(b) /\ mem[b] # Absent /\ mem[b].path = record[b].before.path
      BY <1>1, <2>2, <3>1, <3>2, <3>3, RenamedIsThere DEF RecordInv, Says, Replaced
    <3>5. QED
      BY <2>1, <2>3, <3>3, <3>4 DEF Replaced
  <2>5. DurableInv(b)'
    <3>1. Unsaved(b) => Unsaved(b)'
      BY <2>3 DEF Unsaved, At, Writing
    <3>2. QED
      BY <2>1, <2>2, <3>1 DEF DurableInv
  <2>6. NamesInv(b)'
    BY <2>1, <2>2 DEF NamesInv, Known, Says
  <2>7. QED
    BY <2>4, <2>5, <2>6
<1>8. QED
  BY <1>3, <1>4, <1>6, <1>7 DEF AppsInv

\* The requests beside one that is no registration are for other apps, and no
\* two requests write the registry.
LEMMA Alone ==
  ASSUME OwnersInv, NEW c \in Clients, NEW d \in Clients, d # c, job[c] # None, job[d] # None
  PROVE  /\ job[c].kind # "register" => job[d].app # job[c].app
         /\ job[d].app = job[c].app => job[d].kind = "register"
         /\ Writing(c) => ~Writing(d)
  BY DEF OwnersInv

\* The copies of the requests that a step is not of are as good after it.
LEMMA SnapKept ==
  ASSUME SnapInv, NEW c \in Clients,
         \A d \in Clients : d # c => job'[d] = job[d] /\ snap'[d] = snap[d],
         (mem' = mem /\ disk' = disk) \/ \A d \in Clients : d # c => ~Writing(d),
         SnapOf(c)'
  PROVE  SnapInv'
<1>1. ASSUME NEW d \in Clients, d # c PROVE SnapOf(d)'
  <2>1. job'[d] = job[d] /\ snap'[d] = snap[d] /\ SnapOf(d)
    BY <1>1 DEF SnapInv
  <2>2. CASE Writing(d)
    BY <1>1, <2>1, <2>2 DEF SnapOf, Writing, At
  <2>3. CASE ~Writing(d)
    BY <2>1, <2>3 DEF SnapOf, Writing, At
  <2>4. QED
    BY <2>2, <2>3
<1>2. QED
  BY <1>1 DEF SnapInv

\* Registry writes of registrations and unregistrations.
LEMMA SnapshotCore ==
  ASSUME IInv, ~raced, NEW c \in Clients, TakeSnapshot(c)
  PROVE  ~raced' => Core'
<1>1. OwnersInv /\ DownInv /\ SnapInv /\ StepsInv /\ AppsInv /\ TypeOK
  BY DEF IInv
<1>2. SnapInv'
  BY <1>1 DEF TakeSnapshot, SnapInv, SnapOf, Writing, At, TypeOK
<1>3. OwnersInv' /\ DownInv' /\ StepsInv' /\ AppsInv'
  BY <1>1 DEF TakeSnapshot, OwnersInv, DownInv, StepsInv, StepInv, AppsInv, RecordInv, DurableInv,
     NamesInv, Known, Says, Unsaved, Writing, At, Replaced
<1>4. QED
  BY <1>2, <1>3 DEF Core

\* A save ends: the file is what memory says, or a write of this kind failed.
LEMMA SaveCore ==
  ASSUME IInv, ~raced, NEW c \in Clients, Save(c)
  PROVE  ~raced' => Core'
<1> SUFFICES ASSUME ~raced' PROVE Core'
  OBVIOUS
<1>1. OwnersInv /\ DownInv /\ SnapInv /\ StepsInv /\ AppsInv /\ TypeOK
  BY DEF IInv
<1>0. PICK a : a = job[c].app
  OBVIOUS
<1>2. job[c] # None /\ job[c].app = a /\ a \in Apps /\ job[c].kind \in {"register", "unregister"} /\ job[c].at = "saving"
  BY <1>0, <1>1, Typed, JobFields DEF Save, At
<1>3. /\ job'[c] = None /\ \A d \in Clients : d # c => job'[d] = job[d]
      /\ up = "up" /\ up' = "up"
  BY <1>1, <1>2, Ended DEF Save, DownInv
<1>4. snap[c] = mem /\ \A d \in Clients : d # c => ~Writing(d)
  BY <1>1, <1>2, Alone DEF Save, SnapInv, SnapOf, Writing
<1>5. disk' = mem \/ (disk' = disk /\ failed' = failed \cup {job[c].kind})
  BY <1>4 DEF Save, Fails
<1>6. failed \subseteq failed'
  BY DEF Save, Fails
<1>7. SnapInv'
  <2>1. snap'[c] = None /\ \A d \in Clients : d # c => snap'[d] = snap[d]
    BY <1>1 DEF Save, TypeOK
  <2>2. SnapOf(c)'
    BY <1>3, <2>1 DEF SnapOf, Writing, At
  <2>3. QED
    BY <1>1, <1>3, <1>4, <2>1, <2>2, SnapKept
<1>8. ASSUME NEW d \in Clients, d # c, job[d] # None, job[d].app = a PROVE StepInv(d, a)'
  <2>1. job'[d] = job[d] /\ job[d].kind = "register" /\ StepInv(d, a)
    BY <1>1, <1>2, <1>3, <1>8, Alone DEF StepsInv
  <2>2. QED
    BY <2>1 DEF Save, StepInv, At, Says
<1>9. RecordInv(a) /\ DurableInv(a) /\ NamesInv(a) /\ StepInv(c, a)
  BY <1>1, <1>2 DEF AppsInv, StepsInv
<1>10. RecordInv(a)'
  <2>1. ASSUME NEW d \in Clients, job[d] # None, job[d].app = a, job[d].kind = "rename" PROVE FALSE
    BY <1>1, <1>2, <2>1, Alone
  <2>2. QED
    BY <1>3, <1>6, <1>9, <2>1 DEF RecordInv, Save, Says, Replaced
<1>11. DurableInv(a)'
  <2>1. mem' = mem
    BY DEF Save
  <2>2. CASE disk' = mem
    BY <2>1, <2>2 DEF DurableInv
  <2>3. CASE failed' = failed \cup {job[c].kind}
    BY <1>2, <1>9, <2>1, <2>3 DEF DurableInv, StepInv, At
  <2>4. QED
    BY <1>5, <2>2, <2>3
<1>12. NamesInv(a)'
  <2>1. manifest' = manifest /\ mem' = mem /\ record' = record
    BY DEF Save
  <2>2. "register" \notin failed' => Known(a, mem)' /\ Known(a, disk)'
    BY <1>5, <1>6, <1>9, <2>1 DEF NamesInv, Known, Says
  <2>3. QED
    BY <2>2 DEF NamesInv
<1>13. QED
  <2>1. \A b \in Apps : b # a => /\ manifest'[b] = manifest[b] /\ mem'[b] = mem[b]
                                 /\ record'[b] = record[b] /\ disk'[b] \in {disk[b], mem[b]}
    BY <1>5 DEF Save
  <2>2. ~Writing(c)'
    BY <1>3 DEF Writing
  <2>3. OwnersInv' /\ DownInv' /\ StepsInv' /\ AppsInv'
    BY <1>2, <1>3, <1>6, <1>8, <1>10, <1>11, <1>12, <2>1, <2>2, StepOf
  <2>4. QED
    BY <1>7, <2>3 DEF Core

\* A registration begins, and remembers what the manifest says.
LEMMA RegisterCore ==
  ASSUME IInv, ~raced, NEW c \in Clients, NEW a \in Apps, Register(c, a)
  PROVE  ~raced' => Core'
<1>1. OwnersInv /\ DownInv /\ SnapInv /\ StepsInv /\ AppsInv /\ TypeOK
  BY DEF IInv
<1> SUFFICES ASSUME ~raced' PROVE Core'
  OBVIOUS
<1>0. PICK entry \in Registrable(a) :
        job' = [job EXCEPT ![c] = [kind |-> "register", app |-> a, before |-> Absent,
                                   after |-> entry, at |-> "reading"]]
  BY DEF Register
<1>2. PICK j : j = [kind |-> "register", app |-> a, before |-> Absent,
                    after |-> entry, at |-> "reading"]
  OBVIOUS
<1>3. j \in Job /\ (entry.path = Inline \/ Says(a, entry))
  BY <1>1, <1>2, RegistrableIs DEF Job, Registration
<1>4. job'[c] = j /\ job'[c] # None /\ \A d \in Clients : d # c => job'[d] = job[d]
  BY <1>0, <1>1, <1>2, <1>3, Begun
<1>5. SnapInv'
  <2>1. ~Writing(c)' /\ ~At(c, "rename", "publishing")'
    BY <1>2, <1>4 DEF Writing, At
  <2>2. snap'[c] = None
    BY <1>1 DEF Register, SnapInv, SnapOf, Writing
  <2>3. SnapOf(c)'
    BY <2>1, <2>2 DEF SnapOf
  <2>4. QED
    BY <1>1, <1>4, <2>3, SnapKept DEF Register
<1>6. ASSUME NEW d \in Clients, d # c, job[d] # None, job[d].app = a
      PROVE  StepInv(d, a)' /\ job[d].kind = "register"
  <2>1. job'[d] = job[d] /\ StepInv(d, a)
    BY <1>1, <1>4, <1>6 DEF StepsInv
  <2>2. job[d].kind = "register"
    BY <1>6 DEF Register, Gated
  <2>3. QED
    BY <2>1, <2>2 DEF Register, StepInv, At, Says
<1>7. StepInv(c, a)'
  BY <1>2, <1>3, <1>4 DEF StepInv, At, Says, Register
<1>8. RecordInv(a) /\ DurableInv(a) /\ NamesInv(a)
  BY <1>1 DEF AppsInv
<1>9. RecordInv(a)' /\ NamesInv(a)' /\ DurableInv(a)'
  <2>1. ASSUME NEW d \in Clients, job[d] # None PROVE job'[d] = job[d]
    BY <1>4, <2>1 DEF Register
  <2>2. QED
    BY <1>8, <2>1 DEF RecordInv, NamesInv, DurableInv, Known, Says, Unsaved, Writing, At, Register, Replaced
<1>10. QED
  <2>1. ~Writing(c)'
    BY <1>2, <1>4 DEF Writing
  <2>2. OwnersInv' /\ DownInv' /\ StepsInv' /\ AppsInv'
    BY <1>2, <1>4, <1>6, <1>7, <1>9, <2>1, StepOf DEF Register
  <2>3. QED
    BY <1>5, <2>2 DEF Core

\* What the manifest said becomes the entry: no rename of the app changed it.
LEMMA SetEntryCore ==
  ASSUME IInv, ~raced, NEW c \in Clients, SetEntry(c)
  PROVE  ~raced' => Core'
<1> SUFFICES ASSUME ~raced' PROVE Core'
  OBVIOUS
<1>0. PICK a : a = job[c].app
  OBVIOUS
<1>1. OwnersInv /\ DownInv /\ SnapInv /\ StepsInv /\ AppsInv /\ TypeOK
  BY DEF IInv
<1>2. /\ job[c] # None /\ job[c].app = a /\ a \in Apps
      /\ job[c].kind = "register" /\ job[c].at = "reading" /\ job[c].after \in Entries
  BY <1>0, <1>1, Typed, JobFields DEF SetEntry, At
<1>3. /\ job'[c] # None /\ job'[c].kind = "register" /\ job'[c].at = "saving" /\ job'[c].app = a
      /\ job'[c].after = job[c].after /\ \A d \in Clients : d # c => job'[d] = job[d]
      /\ up = "up" /\ up' = "up"
  BY <1>1, <1>2, Moved DEF SetEntry, DownInv
<1>4. \A d \in Clients : d # c => ~Writing(d)
  BY DEF SetEntry, Upsert, WritersOverlap
<1>5. mem'[a] = job[c].after /\ \A b \in Apps : b # a => mem'[b] = mem[b]
  BY <1>1, <1>2, Entry DEF SetEntry, Upsert, TypeOK
<1>6. job[c].after.path = Inline \/ Says(a, job[c].after)
  BY <1>1, <1>2 DEF StepsInv, StepInv, Says
<1>7. SnapInv'
  <2>1. snap'[c] = None
    BY <1>1, <1>2 DEF SetEntry, SnapInv, SnapOf, Writing
  <2>2. SnapOf(c)'
    BY <1>3, <2>1 DEF SnapOf, At
  <2>3. QED
    BY <1>1, <1>3, <1>4, <2>2, SnapKept DEF SetEntry
<1>8. ASSUME NEW d \in Clients, d # c, job[d] # None, job[d].app = a
      PROVE  StepInv(d, a)' /\ job[d].kind = "register"
  <2>1. job'[d] = job[d] /\ job[d].kind = "register" /\ StepInv(d, a)
    BY <1>1, <1>2, <1>3, <1>8, Alone DEF StepsInv
  <2>2. ~Writing(d)
    BY <1>4, <1>8
  <2>3. QED
    BY <1>8, <2>1, <2>2 DEF SetEntry, StepInv, At, Writing, Says
<1>9. StepInv(c, a)'
  BY <1>3, <1>5, <1>6 DEF StepInv, At, SetEntry, Says
<1>10. RecordInv(a)'
  <2>1. RecordInv(a)
    BY <1>1, <1>2 DEF AppsInv
  <2>2. \A d \in Clients : job[d] # None /\ job[d].kind = "rename" => job'[d] = job[d]
    BY <1>2, <1>3
  <2>3. QED
    BY <2>1, <2>2 DEF RecordInv, SetEntry, Says, Replaced
<1>11. DurableInv(a)'
  BY <1>3 DEF DurableInv, Unsaved, Writing, At
<1>12. NamesInv(a)'
  <2>1. NamesInv(a)
    BY <1>1, <1>2 DEF AppsInv
  <2>2. QED
    BY <1>5, <1>6, <2>1 DEF NamesInv, Known, Says, SetEntry
<1>13. OwnersInv' /\ DownInv' /\ StepsInv' /\ AppsInv'
  BY <1>2, <1>3, <1>4, <1>5, <1>8, <1>9, <1>10, <1>11, <1>12, StepOf DEF SetEntry
<1>14. QED
  BY <1>7, <1>13 DEF Core

\* An app is unregistered while nothing else is done to it.
LEMMA UnregisterCore ==
  ASSUME IInv, ~raced, NEW c \in Clients, NEW a \in Apps, Unregister(c, a)
  PROVE  ~raced' => Core'
<1> SUFFICES ASSUME ~raced' PROVE Core'
  OBVIOUS
<1>1. OwnersInv /\ DownInv /\ SnapInv /\ StepsInv /\ AppsInv /\ TypeOK
  BY DEF IInv
<1>2. PICK j : j = [kind |-> "unregister", app |-> a, before |-> mem[a],
                    after |-> Absent, at |-> "saving"]
  OBVIOUS
<1>3. j \in Job
  BY <1>1, <1>2 DEF Job, Unregistration, TypeOK, Maps, Unregister
<1>4. job'[c] = j /\ job'[c] # None /\ \A d \in Clients : d # c => job'[d] = job[d]
  BY <1>1, <1>2, <1>3, Begun DEF Unregister
<1>5. mem'[a] = Absent /\ \A b \in Apps : b # a => mem'[b] = mem[b]
  <2>1. mem \in Maps /\ mem' = [mem EXCEPT ![a] = Absent]
    BY <1>1 DEF Unregister, TypeOK
  <2>2. QED
    BY <2>1, Entry
<1>6. \A d \in Clients : d # c => ~Writing(d)
  BY DEF Unregister, WritersOverlap
<1>7. \A d \in Clients : job[d] # None => job[d].app # a
  BY DEF Unregister, Gated, Registering
<1>8. SnapInv'
  <2>1. snap'[c] = None
    BY <1>1 DEF Unregister, SnapInv, SnapOf, Writing
  <2>2. SnapOf(c)'
    BY <1>2, <1>4, <2>1 DEF SnapOf, At
  <2>3. QED
    BY <1>1, <1>4, <1>6, <2>2, SnapKept DEF Unregister
<1>9. StepInv(c, a)'
  BY <1>2, <1>4, <1>5 DEF StepInv, At
<1>10. RecordInv(a)'
  BY <1>1, <1>7 DEF Unregister, AppsInv, RecordInv, Says, Replaced
<1>11. DurableInv(a)'
  BY <1>2, <1>4 DEF DurableInv, Unsaved, Writing, At
<1>12. NamesInv(a)'
  BY <1>1, <1>5 DEF AppsInv, NamesInv, Known, Says, Unregister
<1>13. OwnersInv' /\ DownInv' /\ StepsInv' /\ AppsInv'
  BY <1>2, <1>4, <1>5, <1>6, <1>7, <1>9, <1>10, <1>11, <1>12, StepOf DEF Unregister
<1>14. QED
  BY <1>8, <1>13 DEF Core

-----------------------------------------------------------------------------
(* A rename without overlapping writers                                    *)

\* A rename begins while nothing else is done to its app.
LEMMA BeginRenameCore ==
  ASSUME IInv, ~raced, NEW c \in Clients, NEW a \in Apps, NEW name \in Names, BeginRename(c, a, name)
  PROVE  ~raced' => Core'
<1> SUFFICES ASSUME ~raced' PROVE Core'
  OBVIOUS
<1>1. OwnersInv /\ DownInv /\ SnapInv /\ StepsInv /\ AppsInv /\ TypeOK
  BY DEF IInv
<1>2. PICK j : j = [kind |-> "rename", app |-> a, before |-> mem[a], after |-> [name |-> name, path |-> mem[a].path], at |-> "reading"]
  OBVIOUS
<1>3. j \in Job
  <2>1. mem[a] \in FileEntries
    BY <1>1 DEF TypeOK, Maps, BeginRename, Entries, FileEntries
  <2>2. [name |-> name, path |-> mem[a].path] \in FileEntries
    BY <2>1 DEF FileEntries
  <2>3. QED
    BY <1>2, <2>1, <2>2 DEF Job, Rename
<1>4. job'[c] = j /\ job'[c] # None /\ \A d \in Clients : d # c => job'[d] = job[d]
  BY <1>1, <1>2, <1>3, Begun DEF BeginRename
<1>5. \A d \in Clients : job[d] # None => job[d].app # a
  BY DEF BeginRename, Gated, Registering
<1>6. ~Writing(c)' /\ ~At(c, "rename", "publishing")'
  BY <1>2, <1>4 DEF Writing, At
<1>7. SnapInv'
  <2>1. snap'[c] = None
    BY <1>1 DEF BeginRename, SnapInv, SnapOf, Writing
  <2>2. SnapOf(c)'
    BY <1>6, <2>1 DEF SnapOf
  <2>3. QED
    BY <1>1, <1>4, <2>2, SnapKept DEF BeginRename
<1>8. StepInv(c, a)'
  BY <1>2, <1>4 DEF StepInv, At, BeginRename
<1>9. RecordInv(a)' /\ DurableInv(a)' /\ NamesInv(a)'
  <2>1. RecordInv(a) /\ DurableInv(a) /\ NamesInv(a)
    BY <1>1 DEF AppsInv
  <2>2. ~Unsaved(a)
    BY <1>5 DEF Unsaved, Writing
  <2>3. QED
    BY <1>5, <2>1, <2>2 DEF RecordInv, DurableInv, NamesInv, Known, Says, BeginRename
<1>10. OwnersInv' /\ DownInv' /\ StepsInv' /\ AppsInv'
  BY <1>2, <1>4, <1>5, <1>6, <1>8, <1>9, StepOf DEF BeginRename
<1>11. QED
  BY <1>7, <1>10 DEF Core

\* A step of a rename: what it leaves to show is about its copy and its app.
LEMMA RenameStep ==
  ASSUME IInv, ~raced, ~raced', NEW c \in Clients, job[c] # None, job[c].kind = "rename",
         NEW a, a = job[c].app, up' = up, failed \subseteq failed',
         \A d \in Clients : d # c => job'[d] = job[d],
         job'[c] # None => job'[c].app = a /\ StepInv(c, a)',
         Writing(c)' => Writing(c) \/ \A d \in Clients : d # c => ~Writing(d),
         \A b \in Apps : b # a => /\ manifest'[b] = manifest[b] /\ mem'[b] = mem[b]
                                  /\ record'[b] = record[b] /\ disk'[b] \in {disk[b], mem[b]},
         SnapInv', RecordInv(a)', DurableInv(a)', NamesInv(a)'
  PROVE  Core'
<1>1. OwnersInv /\ DownInv /\ TypeOK
  BY DEF IInv
<1>2. a \in Apps /\ up = "up"
  BY <1>1, Typed, JobFields DEF DownInv
<1>3. \A d \in Clients : d # c => /\ job[d] # None => job[d].app # a
                                  /\ Writing(c) => ~Writing(d)
  BY <1>1, Alone DEF Writing
<1>4. OwnersInv' /\ DownInv' /\ StepsInv' /\ AppsInv'
  BY <1>2, <1>3, StepOf
<1>5. QED
  BY <1>4 DEF Core

\* What a rename's step starts from.
LEMMA RenameFacts ==
  ASSUME IInv, ~raced, NEW c \in Clients, job[c] # None, job[c].kind = "rename"
  PROVE  /\ OwnersInv /\ DownInv /\ SnapInv /\ StepsInv /\ AppsInv /\ TypeOK
         /\ job[c].app \in Apps /\ job[c].before \in FileEntries /\ job[c].after \in FileEntries
         /\ job[c].after \in Entries /\ job[c].before.path = job[c].after.path
         /\ StepInv(c, job[c].app) /\ SnapOf(c) /\ up = "up"
         /\ RecordInv(job[c].app) /\ DurableInv(job[c].app) /\ NamesInv(job[c].app)
         /\ \A d \in Clients : d # c => /\ job[d] # None => job[d].app # job[c].app
                                        /\ Writing(c) => ~Writing(d)
<1>1. OwnersInv /\ DownInv /\ SnapInv /\ StepsInv /\ AppsInv /\ TypeOK
  BY DEF IInv
<1>2. /\ job[c].app \in Apps /\ job[c].before \in FileEntries /\ job[c].after \in FileEntries
      /\ job[c].after \in Entries /\ job[c].before.path = job[c].after.path /\ up = "up"
  BY <1>1, Typed, JobFields, FileEntriesAre DEF DownInv
<1>3. \A d \in Clients : d # c => /\ job[d] # None => job[d].app # job[c].app
                                  /\ Writing(c) => ~Writing(d)
  BY <1>1, Alone DEF Writing
<1>4. QED
  BY <1>1, <1>2, <1>3 DEF StepsInv, SnapInv, AppsInv

\* The manifest says the same name as memory, or the rename ends.
LEMMA ReadManifestCore ==
  ASSUME IInv, ~raced, NEW c \in Clients, ReadManifest(c)
  PROVE  ~raced' => Core'
<1> SUFFICES ASSUME ~raced' PROVE Core'
  OBVIOUS
<1>1. PICK a : a = job[c].app
  OBVIOUS
<1>2. job[c] # None /\ job[c].kind = "rename" /\ job[c].at = "reading"
  BY DEF ReadManifest, At
<1>3. /\ SnapInv /\ TypeOK /\ a \in Apps /\ StepInv(c, a) /\ SnapOf(c)
      /\ RecordInv(a) /\ DurableInv(a) /\ NamesInv(a)
      /\ \A d \in Clients : d # c /\ job[d] # None => job[d].app # a
  BY <1>1, <1>2, RenameFacts
<1>4. /\ \A d \in Clients : d # c => job'[d] = job[d]
      /\ job'[c] # None => /\ job'[c].app = a /\ job'[c].kind = "rename" /\ job'[c].at = "preparing"
                           /\ job'[c].before = job[c].before /\ Says(a, job[c].before)
  BY <1>1, <1>2, <1>3, Ended, Moved DEF ReadManifest, RenameSteps
<1>5. ~Writing(c)' /\ ~At(c, "rename", "publishing")'
  BY <1>4 DEF Writing, At
<1>6. SnapInv'
  <2>1. snap'[c] = None
    BY <1>2, <1>3 DEF ReadManifest, SnapOf, Writing
  <2>2. SnapOf(c)'
    BY <1>5, <2>1 DEF SnapOf
  <2>3. QED
    BY <1>3, <1>4, <2>2, SnapKept DEF ReadManifest
<1>7. job'[c] # None => StepInv(c, a)'
  BY <1>2, <1>3, <1>4 DEF StepInv, At, ReadManifest, Says
<1>8. RecordInv(a)' /\ DurableInv(a)' /\ NamesInv(a)'
  <2>1. ~Unsaved(a)
    BY <1>2, <1>3 DEF Unsaved, Writing
  <2>2. \A d \in Clients : job[d] # None /\ job[d].at \notin {"reading", "preparing"} => job'[d] = job[d]
    BY <1>2, <1>4
  <2>3. QED
    BY <1>3, <2>1, <2>2 DEF RecordInv, DurableInv, NamesInv, Known, Says, ReadManifest, Replaced
<1>9. QED
  BY <1>1, <1>2, <1>4, <1>5, <1>6, <1>7, <1>8, RenameStep DEF ReadManifest

\* The record says the names that the files have and are to have.
LEMMA PrepareCore ==
  ASSUME IInv, ~raced, NEW c \in Clients, Prepare(c)
  PROVE  ~raced' => Core'
<1> SUFFICES ASSUME ~raced' PROVE Core'
  OBVIOUS
<1>1. PICK a : a = job[c].app
  OBVIOUS
<1>2. job[c] # None /\ job[c].kind = "rename" /\ job[c].at = "preparing"
  BY DEF Prepare, At
<1>3. /\ SnapInv /\ TypeOK /\ a \in Apps /\ StepInv(c, a) /\ SnapOf(c)
      /\ job[c].before \in FileEntries /\ job[c].after \in FileEntries
      /\ job[c].after \in Entries /\ job[c].before.path = job[c].after.path
      /\ RecordInv(a) /\ DurableInv(a) /\ NamesInv(a) /\ up = "up"
      /\ \A d \in Clients : d # c /\ job[d] # None => job[d].app # a
  BY <1>1, <1>2, RenameFacts
<1>4. PICK r : r = [before |-> job[c].before, after |-> job[c].after]
  OBVIOUS
<1>5. /\ \A d \in Clients : d # c => job'[d] = job[d]
      /\ \/ /\ job'[c] # None /\ job'[c].app = a /\ job'[c].kind = "rename" /\ job'[c].at = "writing"
            /\ job'[c].before = job[c].before /\ job'[c].after = job[c].after
            /\ record'[a] = r /\ (\A b \in Apps : b # a => record'[b] = record[b]) /\ failed' = failed
         \/ job'[c] = None /\ record' = record /\ failed' = failed \cup {"rename"}
  BY <1>1, <1>2, <1>3, <1>4, Ended, Moved DEF Prepare, RenameSteps, Fails, TypeOK
<1>6. ~Writing(c)' /\ ~At(c, "rename", "publishing")'
  BY <1>5 DEF Writing, At
<1>7. SnapInv'
  <2>1. snap'[c] = None
    BY <1>2, <1>3 DEF Prepare, SnapOf, Writing
  <2>2. SnapOf(c)'
    BY <1>6, <2>1 DEF SnapOf
  <2>3. QED
    BY <1>3, <1>5, <2>2, SnapKept DEF Prepare
<1>8. Says(a, job[c].before) /\ mem[a] = job[c].before
  BY <1>1, <1>2, <1>3 DEF StepInv, At
<1>9. job'[c] # None => StepInv(c, a)'
  BY <1>4, <1>5, <1>8 DEF StepInv, At, Prepare, Says
<1>10. ~Unsaved(a)
  BY <1>2, <1>3 DEF Unsaved, Writing
<1>11. DurableInv(a)'
  BY <1>3, <1>5, <1>10 DEF DurableInv, Prepare
<1>12. CASE job'[c] = None
  <2>1. RecordInv(a)' /\ NamesInv(a)'
    BY <1>3, <1>5, <1>12 DEF RecordInv, NamesInv, Known, Says, Prepare
  <2>2. QED
    BY <1>1, <1>2, <1>5, <1>6, <1>7, <1>9, <1>11, <1>12, <2>1, RenameStep DEF Prepare
<1>13. CASE job'[c] # None
  <2>1. r.before = job[c].before /\ r.after = job[c].after
    BY <1>4
  <2>2. disk[a] = mem[a] \/ "register" \in failed
    BY <1>3, <1>8, <1>10, AbsentAssumption, FileEntriesAre DEF DurableInv
  <2>3. RecordInv(a)'
    BY <1>3, <1>5, <1>8, <1>13, <2>1, <2>2, AbsentAssumption, FileEntriesAre DEF RecordInv, Prepare, Says, Replaced
  <2>4. NamesInv(a)'
    BY <1>5, <1>8, <1>13, <2>2 DEF NamesInv, Known, Says, Prepare
  <2>5. QED
    BY <1>1, <1>2, <1>5, <1>6, <1>7, <1>9, <1>11, <1>13, <2>3, <2>4, RenameStep DEF Prepare
<1>14. QED
  BY <1>12, <1>13

\* The file says what memory says of an app that is renamed, until the copy is saved.
LEMMA RenamedIsSaved ==
  ASSUME IInv, ~raced, NEW c \in Clients, job[c] # None, job[c].kind = "rename",
         job[c].at # "publishing"
  PROVE  LET a == job[c].app
         IN  /\ mem[a] # Absent /\ ~Unsaved(a)
             /\ disk[a] = mem[a] \/ "register" \in failed
<1>1. PICK a : a = job[c].app
  OBVIOUS
<1>2. /\ TypeOK /\ StepsInv /\ a \in Apps /\ StepInv(c, a) /\ DurableInv(a) /\ job[c].before \in FileEntries
      /\ \A d \in Clients : d # c /\ job[d] # None => job[d].app # a
  BY <1>1, RenameFacts
<1>3. mem[a] # Absent
  <2>1. CASE job[c].at = "reading"
    BY <1>2, <2>1, AbsentAssumption, FileEntriesAre DEF StepInv, At, Says
  <2>2. QED
    BY <1>1, <1>2, <2>1, RenamedIsThere
<1>4. ~Unsaved(a)
  BY <1>2 DEF Unsaved, Writing, At
<1>5. QED
  BY <1>1, <1>2, <1>3, <1>4 DEF DurableInv

\* The manifest is ahead of the registry, as the record says.
LEMMA WriteManifestCore ==
  ASSUME IInv, ~raced, NEW c \in Clients, WriteManifest(c)
  PROVE  ~raced' => Core'
<1> SUFFICES ASSUME ~raced' PROVE Core'
  OBVIOUS
<1>1. PICK a : a = job[c].app
  OBVIOUS
<1>2. job[c] # None /\ job[c].kind = "rename" /\ job[c].at = "writing"
  BY DEF WriteManifest, At
<1>3. /\ SnapInv /\ TypeOK /\ a \in Apps /\ StepInv(c, a) /\ SnapOf(c)
      /\ job[c].before \in FileEntries /\ job[c].after \in FileEntries
      /\ job[c].after \in Entries /\ job[c].before.path = job[c].after.path
      /\ RecordInv(a) /\ DurableInv(a) /\ NamesInv(a) /\ up = "up"
      /\ \A d \in Clients : d # c => /\ job[d] # None => job[d].app # a
                                     /\ Writing(c) => ~Writing(d)
  BY <1>1, <1>2, RenameFacts
<1>4. /\ record[a] # None /\ record[a].before = job[c].before /\ record[a].after = job[c].after
      /\ record[a].before.path = record[a].after.path
  BY <1>2, <1>3, RecordIsKept DEF StepInv, Says
<1>5. /\ \A d \in Clients : d # c => job'[d] = job[d]
      /\ \/ /\ job'[c] # None /\ job'[c].app = a /\ job'[c].kind = "rename" /\ job'[c].at = "noting"
            /\ job'[c].before = job[c].before /\ job'[c].after = job[c].after
            /\ manifest'[a][job[c].after.path] = job[c].after.name /\ (\A b \in Apps : b # a => manifest'[b] = manifest[b])
            /\ failed' = failed
         \/ job'[c] = None /\ manifest' = manifest /\ failed' = failed \cup {"rename"}
  BY <1>1, <1>2, <1>3, Ended, Moved, WrittenIs DEF WriteManifest, RenameSteps, Fails
<1>6. SnapInv'
  <2>1. ~Writing(c)' /\ ~At(c, "rename", "publishing")'
    BY <1>5 DEF Writing, At
  <2>2. snap'[c] = None
    BY <1>2, <1>3 DEF WriteManifest, SnapOf, Writing
  <2>3. SnapOf(c)'
    BY <2>1, <2>2 DEF SnapOf
  <2>4. QED
    BY <1>3, <1>5, <2>3, SnapKept DEF WriteManifest
<1>7. Says(a, job[c].before) /\ mem[a] = job[c].before
  BY <1>2, <1>3 DEF StepInv, At
<1>8. ~Unsaved(a) /\ (disk[a] = mem[a] \/ "register" \in failed)
  BY <1>1, <1>2, RenamedIsSaved
<1>9. ~Writing(c)'
  BY <1>5 DEF Writing
<1>10. DurableInv(a)'
  BY <1>3, <1>5, <1>8 DEF DurableInv, WriteManifest
<1>11. CASE job'[c] = None
  <2>1. RecordInv(a)' /\ NamesInv(a)'
    BY <1>3, <1>5, <1>11 DEF RecordInv, NamesInv, Known, Says, WriteManifest
  <2>2. QED
    BY <1>1, <1>2, <1>5, <1>6, <1>9, <1>10, <1>11, <2>1, RenameStep DEF WriteManifest
<1>12. CASE job'[c] # None
  <2>1. StepInv(c, a)'
    BY <1>2, <1>3, <1>5, <1>7, <1>12 DEF StepInv, At, WriteManifest, Says
  <2>2. RecordInv(a)'
    BY <1>3, <1>4, <1>5, <1>12 DEF RecordInv, WriteManifest, Says, Replaced
  <2>3. NamesInv(a)'
    BY <1>4, <1>5, <1>7, <1>8, <1>12 DEF NamesInv, Known, Says, WriteManifest
  <2>4. QED
    BY <1>1, <1>2, <1>5, <1>6, <1>9, <1>10, <1>12, <2>1, <2>2, <2>3, RenameStep DEF WriteManifest
<1>13. QED
  BY <1>11, <1>12

\* The copy that will be saved differs from memory in the new name only.
LEMMA CopyRegistryCore ==
  ASSUME IInv, ~raced, NEW c \in Clients, CopyRegistry(c)
  PROVE  ~raced' => Core'
<1> SUFFICES ASSUME ~raced' PROVE Core'
  OBVIOUS
<1>1. PICK a : a = job[c].app
  OBVIOUS
<1>2. job[c] # None /\ job[c].kind = "rename" /\ job[c].at = "noting"
  BY DEF CopyRegistry, At
<1>3. /\ SnapInv /\ TypeOK /\ a \in Apps /\ StepInv(c, a) /\ SnapOf(c)
      /\ job[c].before \in FileEntries /\ job[c].after \in FileEntries
      /\ job[c].after \in Entries /\ job[c].before.path = job[c].after.path
      /\ RecordInv(a) /\ DurableInv(a) /\ NamesInv(a) /\ up = "up"
      /\ \A d \in Clients : d # c => /\ job[d] # None => job[d].app # a
                                     /\ Writing(c) => ~Writing(d)
  BY <1>1, <1>2, RenameFacts
<1>4. /\ record[a] # None /\ record[a].before = job[c].before /\ record[a].after = job[c].after
      /\ record[a].before.path = record[a].after.path
  BY <1>2, <1>3, RecordIsKept DEF StepInv, Says
<1>5. /\ \A d \in Clients : d # c => job'[d] = job[d] /\ snap'[d] = snap[d]
      /\ \/ /\ job'[c] # None /\ job'[c].app = a /\ job'[c].kind = "rename" /\ job'[c].at = "saving"
            /\ job'[c].before = job[c].before /\ job'[c].after = job[c].after
            /\ snap'[c] = [mem EXCEPT ![a] = job[c].after]
            /\ failed' = failed /\ \A d \in Clients : d # c => ~Writing(d)
         \/ job'[c] = None /\ snap' = snap /\ failed' = failed \cup {"rename"}
  BY <1>1, <1>2, <1>3, Ended, Moved DEF CopyRegistry, Copied, RenameSteps, Fails, TypeOK, WritersOverlap
<1>6. Says(a, job[c].after) /\ mem[a] = job[c].before /\ snap[c] = None
  BY <1>2, <1>3 DEF StepInv, SnapOf, Writing
<1>7. UNCHANGED <<manifest, mem, disk, record, up>>
  BY DEF CopyRegistry, Copied
<1>8. ~Unsaved(a) /\ (disk[a] = mem[a] \/ "register" \in failed)
  BY <1>1, <1>2, RenamedIsSaved
<1>9. DurableInv(a)' /\ NamesInv(a)'
  BY <1>3, <1>5, <1>7, <1>8 DEF DurableInv, NamesInv, Known, Says
<1>10. CASE job'[c] = None
  <2>1. RecordInv(a)'
    BY <1>3, <1>5, <1>7, <1>10 DEF RecordInv, Says, Replaced
  <2>2. SnapOf(c)'
    BY <1>5, <1>6, <1>10 DEF SnapOf, Writing, At
  <2>3. SnapInv'
    BY <1>3, <1>5, <1>7, <2>2, SnapKept
  <2>4. ~Writing(c)'
    BY <1>10 DEF Writing
  <2>5. QED
    BY <1>1, <1>2, <1>5, <1>7, <1>9, <1>10, <2>1, <2>3, <2>4, RenameStep
<1>11. CASE job'[c] # None
  <2>1. StepInv(c, a)'
    BY <1>2, <1>3, <1>5, <1>6, <1>7, <1>11 DEF StepInv, At, Says
  <2>2. RecordInv(a)'
    BY <1>3, <1>5, <1>7, <1>11 DEF RecordInv, Says, Replaced
  <2>3. SnapOf(c)'
    BY <1>5, <1>7, <1>11 DEF SnapOf, Writing, At
  <2>4. SnapInv'
    BY <1>3, <1>5, <1>7, <2>3, SnapKept
  <2>5. QED
    BY <1>1, <1>2, <1>5, <1>7, <1>9, <1>11, <2>1, <2>2, <2>4, RenameStep
<1>12. QED
  BY <1>10, <1>11

\* The file is ahead of memory in the new name, or the manifest is to be rolled back.
LEMMA SaveCopyCore ==
  ASSUME IInv, ~raced, NEW c \in Clients, SaveCopy(c)
  PROVE  ~raced' => Core'
<1> SUFFICES ASSUME ~raced' PROVE Core'
  OBVIOUS
<1>1. PICK a : a = job[c].app
  OBVIOUS
<1>2. job[c] # None /\ job[c].kind = "rename" /\ job[c].at = "saving"
  BY DEF SaveCopy, At
<1>3. /\ SnapInv /\ TypeOK /\ a \in Apps /\ StepInv(c, a) /\ SnapOf(c)
      /\ job[c].before \in FileEntries /\ job[c].after \in FileEntries
      /\ job[c].after \in Entries /\ job[c].before.path = job[c].after.path
      /\ RecordInv(a) /\ DurableInv(a) /\ NamesInv(a) /\ up = "up"
      /\ \A d \in Clients : d # c => /\ job[d] # None => job[d].app # a
                                     /\ Writing(c) => ~Writing(d)
  BY <1>1, <1>2, RenameFacts
<1>4. /\ record[a] # None /\ record[a].before = job[c].before /\ record[a].after = job[c].after
      /\ record[a].before.path = record[a].after.path
  BY <1>2, <1>3, RecordIsKept DEF StepInv, Says
<1>5. /\ \A d \in Clients : d # c => job'[d] = job[d] /\ snap'[d] = snap[d] /\ ~Writing(d)
      /\ job'[c] # None /\ job'[c].app = a /\ job'[c].kind = "rename"
      /\ job'[c].before = job[c].before /\ job'[c].after = job[c].after
      /\ \/ job'[c].at = "publishing" /\ disk' = snap[c] /\ snap' = snap /\ failed' = failed
         \/ job'[c].at = "rolling" /\ disk' = disk /\ snap'[c] = None /\ failed' = failed \cup {"rename"}
  BY <1>1, <1>2, <1>3, Moved DEF SaveCopy, RenameSteps, Fails, TypeOK, Writing
<1>6. Says(a, job[c].after) /\ mem[a] = job[c].before
  BY <1>2, <1>3 DEF StepInv
<1>7. UNCHANGED <<manifest, mem, record, up>>
  BY DEF SaveCopy
<1>8. ~Unsaved(a) /\ (disk[a] = mem[a] \/ "register" \in failed)
  BY <1>1, <1>2, RenamedIsSaved
<1>9. Writing(c) /\ (Writing(c) => snap[c] = [mem EXCEPT ![a] = job[c].after])
  BY <1>1, <1>2, <1>3 DEF SnapOf, Writing
<1>10. StepInv(c, a)'
  BY <1>2, <1>3, <1>5, <1>6, <1>7 DEF StepInv, At, Says
<1>11. SnapInv'
  <2>1. SnapOf(c)'
    BY <1>5, <1>7, <1>9 DEF SnapOf, Writing, At
  <2>2. QED
    BY <1>3, <1>5, <2>1, SnapKept
<1>12. mem \in Maps
  BY <1>3 DEF TypeOK
<1>13. CASE job'[c].at = "publishing"
  <2>1. disk'[a] = job[c].after /\ \A b \in Apps : b # a => disk'[b] = mem[b]
    <3>1. disk' = [mem EXCEPT ![a] = job[c].after]
      BY <1>5, <1>9, <1>13
    <3>2. a \in Apps /\ job[c].after \in Entries \cup {Absent}
      BY <1>3
    <3>3. QED
      BY <1>12, <3>1, <3>2, Entry
  <2>2. RecordInv(a)'
    BY <1>3, <1>4, <1>5, <1>7, <1>13, <2>1, AbsentAssumption DEF RecordInv, Says, Replaced
  <2>3. DurableInv(a)'
    BY <1>5, <1>13 DEF DurableInv, Unsaved, Writing, At
  <2>4. NamesInv(a)'
    BY <1>3, <1>5, <1>6, <1>7, <1>13, <2>1 DEF NamesInv, Known, Says
  <2>5. QED
    BY <1>1, <1>2, <1>5, <1>7, <1>9, <1>10, <1>11, <1>13, <2>1, <2>2, <2>3, <2>4, RenameStep
<1>14. CASE job'[c].at = "rolling"
  <2>1. RecordInv(a)' /\ DurableInv(a)' /\ NamesInv(a)'
    BY <1>3, <1>5, <1>7, <1>8, <1>14 DEF RecordInv, DurableInv, NamesInv, Known, Says
  <2>2. QED
    BY <1>1, <1>2, <1>5, <1>7, <1>9, <1>10, <1>11, <1>14, <2>1, RenameStep
<1>15. QED
  BY <1>5, <1>13, <1>14

\* Memory becomes what the file says.
LEMMA PublishCore ==
  ASSUME IInv, ~raced, NEW c \in Clients, Publish(c)
  PROVE  ~raced' => Core'
<1> SUFFICES ASSUME ~raced' PROVE Core'
  OBVIOUS
<1>1. PICK a : a = job[c].app
  OBVIOUS
<1>2. job[c] # None /\ job[c].kind = "rename" /\ job[c].at = "publishing"
  BY DEF Publish, At
<1>3. /\ SnapInv /\ TypeOK /\ a \in Apps /\ StepInv(c, a) /\ SnapOf(c)
      /\ job[c].before \in FileEntries /\ job[c].after \in FileEntries
      /\ job[c].after \in Entries /\ job[c].before.path = job[c].after.path
      /\ RecordInv(a) /\ DurableInv(a) /\ NamesInv(a) /\ up = "up"
      /\ \A d \in Clients : d # c => /\ job[d] # None => job[d].app # a
                                     /\ Writing(c) => ~Writing(d)
  BY <1>1, <1>2, RenameFacts
<1>4. /\ record[a] # None /\ record[a].before = job[c].before /\ record[a].after = job[c].after
      /\ record[a].before.path = record[a].after.path
  BY <1>2, <1>3, RecordIsKept DEF StepInv, Says
<1>5. /\ \A d \in Clients : d # c => job'[d] = job[d] /\ ~Writing(d)
      /\ job'[c] # None /\ job'[c].app = a /\ job'[c].kind = "rename" /\ job'[c].at = "clearing"
      /\ job'[c].before = job[c].before /\ job'[c].after = job[c].after
  BY <1>1, <1>2, <1>3, Moved DEF Publish, RenameSteps, Writing
<1>6. UNCHANGED <<manifest, disk, record, up, failed>> /\ mem' = snap[c]
  BY DEF Publish
<1>7. Says(a, job[c].after)
  BY <1>2, <1>3 DEF StepInv
<1>8. snap[c] = [mem EXCEPT ![a] = job[c].after] /\ disk = snap[c] /\ Writing(c)
  BY <1>1, <1>2, <1>3 DEF SnapOf, Writing, At
<1>9. mem'[a] = job[c].after /\ \A b \in Apps : b # a => mem'[b] = mem[b]
  <2>1. mem \in Maps
    BY <1>3 DEF TypeOK
  <2>2. QED
    BY <1>3, <1>6, <1>8, <2>1, Entry
<1>10. SnapInv'
  <2>1. \A d \in Clients : d # c => snap'[d] = snap[d]
    BY <1>5 DEF Publish
  <2>2. snap'[c] = None /\ ~Writing(c)'
    BY <1>5 DEF Publish, Writing
  <2>3. SnapOf(c)'
    BY <1>5, <2>2 DEF SnapOf, At
  <2>4. QED
    BY <1>3, <1>5, <2>1, <2>3, SnapKept
<1>11. StepInv(c, a)'
  BY <1>2, <1>3, <1>5, <1>6, <1>7, <1>9, AbsentAssumption, FileEntriesAre DEF StepInv, At, Says
<1>12. RecordInv(a)'
  BY <1>3, <1>5, <1>6 DEF RecordInv, Says, Replaced
<1>13. DurableInv(a)' /\ NamesInv(a)'
  BY <1>3, <1>6, <1>7, <1>8, <1>9 DEF DurableInv, NamesInv, Known, Says
<1>14. QED
  BY <1>1, <1>2, <1>5, <1>6, <1>8, <1>9, <1>10, <1>11, <1>12, <1>13, RenameStep

\* The manifest says the old name again, or the record stays.
LEMMA RollBackCore ==
  ASSUME IInv, ~raced, NEW c \in Clients, RollBack(c)
  PROVE  ~raced' => Core'
<1> SUFFICES ASSUME ~raced' PROVE Core'
  OBVIOUS
<1>1. PICK a : a = job[c].app
  OBVIOUS
<1>2. job[c] # None /\ job[c].kind = "rename" /\ job[c].at = "rolling"
  BY DEF RollBack, At
<1>3. /\ SnapInv /\ TypeOK /\ a \in Apps /\ StepInv(c, a) /\ SnapOf(c)
      /\ job[c].before \in FileEntries /\ job[c].after \in FileEntries
      /\ job[c].after \in Entries /\ job[c].before.path = job[c].after.path
      /\ RecordInv(a) /\ DurableInv(a) /\ NamesInv(a) /\ up = "up"
      /\ \A d \in Clients : d # c => /\ job[d] # None => job[d].app # a
                                     /\ Writing(c) => ~Writing(d)
  BY <1>1, <1>2, RenameFacts
<1>4. /\ record[a] # None /\ record[a].before = job[c].before /\ record[a].after = job[c].after
      /\ record[a].before.path = record[a].after.path
  BY <1>2, <1>3, RecordIsKept DEF StepInv, Says
<1>5. /\ \A d \in Clients : d # c => job'[d] = job[d]
      /\ \/ /\ job'[c] # None /\ job'[c].app = a /\ job'[c].kind = "rename" /\ job'[c].at = "clearing"
            /\ job'[c].before = job[c].before /\ job'[c].after = job[c].after
            /\ manifest'[a][job[c].before.path] = job[c].before.name
         \/ /\ job'[c] = None
            /\ manifest' = manifest \/ manifest'[a][job[c].before.path] = job[c].before.name
      /\ \A b \in Apps : b # a => manifest'[b] = manifest[b]
  BY <1>1, <1>2, <1>3, Ended, Moved, WrittenIs DEF RollBack, RolledBack, RenameSteps
<1>6. SnapInv'
  <2>1. ~Writing(c)' /\ ~At(c, "rename", "publishing")'
    BY <1>5 DEF Writing, At
  <2>2. snap'[c] = None
    BY <1>2, <1>3 DEF RollBack, SnapOf, Writing
  <2>3. SnapOf(c)'
    BY <2>1, <2>2 DEF SnapOf
  <2>4. QED
    BY <1>3, <1>5, <2>3, SnapKept DEF RollBack
<1>7. mem[a] = job[c].before /\ Says(a, job[c].after) /\ "rename" \in failed
  BY <1>2, <1>3 DEF StepInv, At
<1>8. ~Unsaved(a) /\ mem[a] # Absent /\ (disk[a] = mem[a] \/ "register" \in failed)
  BY <1>1, <1>2, RenamedIsSaved
<1>9. UNCHANGED <<mem, disk, record, failed, up>>
  BY DEF RollBack
<1>10. job'[c] # None => StepInv(c, a)'
  BY <1>2, <1>3, <1>5, <1>7, <1>8, <1>9 DEF StepInv, At, Says
<1>11. RecordInv(a)'
  BY <1>4, <1>5, <1>7, <1>9 DEF RecordInv, Says, Replaced
<1>12. DurableInv(a)'
  BY <1>3, <1>8, <1>9 DEF DurableInv
<1>13. NamesInv(a)'
  <2>1. CASE manifest' = manifest
    BY <1>3, <1>9, <2>1 DEF NamesInv, Known, Says
  <2>2. CASE manifest'[a][job[c].before.path] = job[c].before.name
    <3>1. Says(a, mem[a])'
      BY <1>3, <1>7, <1>9, <2>2 DEF Says, FileEntries
    <3>2. QED
      BY <1>8, <1>9, <3>1 DEF NamesInv, Known, Says
  <2>3. QED
    BY <1>5, <2>1, <2>2
<1>14. ~Writing(c)'
  BY <1>5 DEF Writing
<1>15. QED
  BY <1>1, <1>2, <1>5, <1>6, <1>9, <1>10, <1>11, <1>12, <1>13, <1>14, RenameStep

\* The files agree, so that the record may go; if it stays, a write failed.
LEMMA ClearCore ==
  ASSUME IInv, ~raced, NEW c \in Clients, Clear(c)
  PROVE  ~raced' => Core'
<1> SUFFICES ASSUME ~raced' PROVE Core'
  OBVIOUS
<1>1. PICK a : a = job[c].app
  OBVIOUS
<1>2. job[c] # None /\ job[c].kind = "rename" /\ job[c].at = "clearing"
  BY DEF Clear, At
<1>3. /\ SnapInv /\ TypeOK /\ a \in Apps /\ StepInv(c, a) /\ SnapOf(c)
      /\ job[c].before \in FileEntries /\ job[c].after \in FileEntries
      /\ job[c].after \in Entries /\ job[c].before.path = job[c].after.path
      /\ RecordInv(a) /\ DurableInv(a) /\ NamesInv(a) /\ up = "up"
      /\ \A d \in Clients : d # c => /\ job[d] # None => job[d].app # a
                                     /\ Writing(c) => ~Writing(d)
  BY <1>1, <1>2, RenameFacts
<1>4. /\ record[a] # None /\ record[a].before = job[c].before /\ record[a].after = job[c].after
      /\ record[a].before.path = record[a].after.path
  BY <1>2, <1>3, RecordIsKept DEF StepInv, Says
<1>5. /\ \A d \in Clients : d # c => job'[d] = job[d]
      /\ job'[c] = None
      /\ \/ record'[a] = None /\ (\A b \in Apps : b # a => record'[b] = record[b]) /\ failed' = failed
         \/ record' = record /\ failed' = failed \cup {"rename"}
  BY <1>1, <1>2, <1>3, Ended DEF Clear, Fails, TypeOK
<1>6. SnapInv'
  <2>1. ~Writing(c)' /\ ~At(c, "rename", "publishing")'
    BY <1>5 DEF Writing, At
  <2>2. snap'[c] = None
    BY <1>2, <1>3 DEF Clear, SnapOf, Writing
  <2>3. SnapOf(c)'
    BY <2>1, <2>2 DEF SnapOf
  <2>4. QED
    BY <1>3, <1>5, <2>3, SnapKept DEF Clear
<1>7. Says(a, mem[a])
  BY <1>2, <1>3 DEF StepInv, At
<1>8. ~Unsaved(a) /\ (disk[a] = mem[a] \/ "register" \in failed)
  BY <1>1, <1>2, RenamedIsSaved
<1>9. UNCHANGED <<manifest, mem, disk, up>> /\ failed \subseteq failed'
  BY <1>5 DEF Clear
<1>10. RecordInv(a)'
  BY <1>3, <1>5, <1>9 DEF RecordInv, Says, Replaced
<1>11. DurableInv(a)'
  BY <1>3, <1>8, <1>9 DEF DurableInv
<1>12. NamesInv(a)'
  BY <1>7, <1>8, <1>9 DEF NamesInv, Known, Says
<1>13. ~Writing(c)'
  BY <1>5 DEF Writing
<1>14. QED
  BY <1>1, <1>2, <1>5, <1>6, <1>9, <1>10, <1>11, <1>12, <1>13, RenameStep

-----------------------------------------------------------------------------
(* A start without overlapping writers                                     *)

\* Steps of a start find no requests, and memory as the file.
LEMMA StartCore ==
  ASSUME IInv, ~raced, Crash \/ Serve \/ \E a \in Apps : Recover(a)
  PROVE  ~raced' => Core'
<1>1. DownInv /\ AppsInv /\ TypeOK /\ SnapInv
  BY DEF IInv
<1>2. ASSUME \A c \in Clients : job'[c] = None /\ snap'[c] = None, mem' = disk',
             \A a \in Apps : RecordInv(a)' /\ NamesInv(a)',
             up' = "refused" => \E a \in Apps : /\ record[a] # None /\ ~Forward(a)
                                                /\ ~Consistent(a, record[a].after)
                                                /\ ~Consistent(a, record[a].before)
                                                /\ UNCHANGED <<manifest, mem, record>>
      PROVE  Core'
  <2>1. OwnersInv' /\ StepsInv'
    BY <1>2 DEF OwnersInv, StepsInv
  <2>2. DownInv'
    BY <1>2 DEF DownInv, Forward, Consistent, Says
  <2>3. SnapInv'
    BY <1>2 DEF SnapInv, SnapOf, Writing, At
  <2>4. \A a \in Apps : DurableInv(a)'
    BY <1>2 DEF DurableInv
  <2>5. QED
    BY <1>2, <2>1, <2>2, <2>3, <2>4 DEF Core, AppsInv
<1>3. CASE Crash
  <2>1. \A a \in Apps : RecordInv(a)' /\ NamesInv(a)'
    BY <1>1, <1>3 DEF Crash, AppsInv, RecordInv, NamesInv, Known, Says, Replaced
  <2>2. QED
    BY <1>2, <1>3, <2>1 DEF Crash
<1>4. ASSUME up # "up" PROVE mem = disk /\ \A c \in Clients : job[c] = None /\ snap[c] = None
  BY <1>1, <1>4 DEF DownInv, SnapInv, SnapOf, Writing
<1>5. CASE Serve
  <2>1. \A a \in Apps : RecordInv(a)' /\ NamesInv(a)'
    BY <1>1, <1>5 DEF Serve, AppsInv, RecordInv, NamesInv, Known, Says
  <2>2. QED
    BY <1>2, <1>4, <1>5, <2>1 DEF Serve
<1>6. ASSUME NEW a \in Apps, Recover(a) PROVE Core'
  <2>1. /\ up = "starting" /\ mem = disk /\ \A c \in Clients : job'[c] = None /\ snap'[c] = None
        /\ manifest' = manifest /\ failed' = failed
    BY <1>4, <1>6 DEF Recover
  <2>2. \A b \in Apps : RecordInv(b) /\ NamesInv(b)
    BY <1>1 DEF AppsInv
  <2>3. CASE /\ Consistent(a, record[a].after) \/ Consistent(a, record[a].before)
             /\ record' = [record EXCEPT ![a] = None]
             /\ UNCHANGED <<mem, disk, up>>
    <3>1. record'[a] = None /\ \A b \in Apps : b # a => record'[b] = record[b]
      BY <1>1, <2>3 DEF TypeOK
    <3>2. \A b \in Apps : RecordInv(b)'
      BY <2>1, <2>2, <2>3, <3>1 DEF RecordInv, Says, Replaced
    <3>3. Says(a, mem[a])
      BY <2>3 DEF Consistent, Says
    <3>4. \A b \in Apps : NamesInv(b)'
      BY <2>1, <2>2, <2>3, <3>1, <3>3 DEF NamesInv, Known, Says
    <3>5. QED
      BY <1>2, <2>1, <2>3, <3>2, <3>4
  <2>4. CASE /\ Forward(a)
             /\ disk' = [mem EXCEPT ![a] = record[a].after]
             /\ mem' = disk'
             /\ UNCHANGED <<record, up>>
    <3>1. /\ record[a].after \in FileEntries /\ record[a].after \in Entries
          /\ record[a].before.path = record[a].after.path
      BY <1>1, <1>6, FileEntriesAre DEF Recover, TypeOK, Record
    <3>2. mem \in Maps /\ record[a].after \in Entries \cup {Absent}
      BY <1>1, <3>1 DEF TypeOK
    <3>3. disk'[a] = record[a].after /\ \A b \in Apps : b # a => disk'[b] = mem[b]
      BY <2>4, <3>2, Entry
    <3>4. Says(a, record[a].after)
      BY <2>4 DEF Forward
    <3>5. \A b \in Apps : RecordInv(b)'
      BY <2>1, <2>2, <2>4, <3>1, <3>3, AbsentAssumption, FileEntriesAre DEF RecordInv, Says, Replaced
    <3>6. \A b \in Apps : NamesInv(b)'
      BY <2>1, <2>2, <2>4, <3>3, <3>4 DEF NamesInv, Known, Says
    <3>7. QED
      BY <1>2, <2>1, <2>4, <3>5, <3>6
  <2>5. CASE /\ ~Consistent(a, record[a].after) /\ ~Consistent(a, record[a].before)
             /\ ~Forward(a)
             /\ up' = "refused"
             /\ UNCHANGED <<mem, disk, record>>
    <3>1. \A b \in Apps : RecordInv(b)' /\ NamesInv(b)'
      BY <2>1, <2>2, <2>5 DEF RecordInv, NamesInv, Known, Says, Replaced
    <3>2. record[a] # None /\ UNCHANGED <<manifest, mem, record>>
      BY <1>6, <2>5 DEF Recover
    <3>3. QED
      BY <1>2, <2>1, <2>5, <3>1, <3>2
  <2>6. QED
    BY <1>6, <2>3, <2>4, <2>5 DEF Recover
<1>7. QED
  BY <1>3, <1>5, <1>6

-----------------------------------------------------------------------------
\* Every step keeps the invariant.
LEMMA NextInv == IInv /\ [Next]_vars => IInv'
<1> SUFFICES ASSUME IInv, [Next]_vars PROVE IInv'
  OBVIOUS
<1>1. TypeOK /\ CopyInv
  BY DEF IInv
<1>2. ASSUME TypeOK', CopyInv', ~raced => (~raced' => Core'), raced => raced' PROVE IInv'
  BY <1>2 DEF IInv, Core, TypeOK
<1>3. ASSUME NEW c \in Clients, TakeSnapshot(c) \/ Save(c) \/ SetEntry(c) PROVE IInv'
  <2>1. raced => raced'
    BY <1>3 DEF TakeSnapshot, Save, SetEntry, Upsert
  <2>2. QED
    BY <1>1, <1>2, <1>3, <2>1, RegistryTypes, SnapshotCore, SaveCore, SetEntryCore
<1>4. ASSUME NEW c \in Clients, NEW a \in Apps, Register(c, a) \/ Unregister(c, a) PROVE IInv'
  <2>1. raced => raced'
    BY <1>4 DEF Register, Unregister
  <2>2. QED
    BY <1>1, <1>2, <1>4, <2>1, RegistryTypes, RegisterCore, UnregisterCore
<1>5. ASSUME NEW c \in Clients, NEW a \in Apps, NEW name \in Names, BeginRename(c, a, name) PROVE IInv'
  <2>1. raced => raced'
    BY <1>5 DEF BeginRename
  <2>2. QED
    BY <1>1, <1>2, <1>5, <2>1, BeginRenameTypes, BeginRenameCore
<1>6. ASSUME NEW c \in Clients, ReadManifest(c) \/ Prepare(c) \/ WriteManifest(c) \/ CopyRegistry(c)
      PROVE  IInv'
  <2>1. raced => raced'
    BY <1>6 DEF ReadManifest, Prepare, WriteManifest, CopyRegistry
  <2>2. QED
    BY <1>1, <1>2, <1>6, <2>1, RenameTypes, ReadManifestCore, PrepareCore, WriteManifestCore, CopyRegistryCore
<1>7. ASSUME NEW c \in Clients, SaveCopy(c) \/ Publish(c) \/ RollBack(c) \/ Clear(c) PROVE IInv'
  <2>1. raced => raced'
    BY <1>7 DEF SaveCopy, Publish, RollBack, Clear
  <2>2. QED
    BY <1>1, <1>2, <1>7, <2>1, RenameTypes, SaveCopyCore, PublishCore, RollBackCore, ClearCore
<1>8. CASE Crash \/ Serve \/ \E a \in Apps : Recover(a)
  <2>1. raced => raced'
    BY <1>8 DEF Crash, Serve, Recover
  <2>2. QED
    BY <1>1, <1>2, <1>8, <2>1, StartTypes, StartCore
<1>9. CASE UNCHANGED vars
  BY <1>9 DEF vars, IInv, TypeOK, CopyInv, OwnersInv, DownInv, Consistent, Forward, SnapInv, SnapOf, StepsInv,
     StepInv, AppsInv, RecordInv, DurableInv, NamesInv, Known, Says, Unsaved, Writing, At, Replaced
<1>10. QED
  BY <1>3, <1>4, <1>5, <1>6, <1>7, <1>8, <1>9 DEF Next

\* The invariant holds of every reachable state.
THEOREM Invariance == Spec => []IInv
  BY InitInv, NextInv, PTL DEF Spec

\* Files and memory hold names, whatever overlapped and whatever failed.
THEOREM TypeCorrect == Spec => []TypeOK
<1>1. IInv => TypeOK
  BY DEF IInv
<1>2. QED
  BY <1>1, Invariance, PTL

\* A daemon that died at any step of a rename, or after any of its writes failed, starts
\* again, unless the app was unregistered, or registered without a file or from another
\* one, while the record of a failed rename was left.
THEOREM StartsAgain == Spec => []RecoverySucceeds
<1>1. IInv => RecoverySucceeds
  <2>1. SUFFICES ASSUME IInv, ~raced, "register" \notin failed, up = "refused"
                 PROVE  \E a \in Apps : "rename" \in failed /\ record[a] # None /\ Replaced(a)
    BY DEF RecoverySucceeds
  <2>2. DownInv /\ mem = disk
    BY <2>1 DEF IInv, DownInv
  <2>3. PICK a \in Apps : /\ record[a] # None /\ ~Forward(a)
                          /\ ~Consistent(a, record[a].after)
                          /\ ~Consistent(a, record[a].before)
    BY <2>1, <2>2 DEF DownInv
  <2>4. RecordInv(a) /\ Known(a, mem)
    BY <2>1 DEF IInv, AppsInv, NamesInv
  <2>5. Replaced(a)
    <3>1. SUFFICES ASSUME ~Replaced(a) PROVE FALSE
      OBVIOUS
    <3>2. /\ record[a] \in Record /\ mem[a] \in Entries \cup {Absent}
          /\ manifest[a] \in [Paths -> Names]
      BY <2>1, <2>3 DEF IInv, TypeOK, Maps
    <3>3. /\ record[a].before \in FileEntries /\ record[a].after \in FileEntries
          /\ record[a].before.path = record[a].after.path
      BY <3>2 DEF Record
    <3>4. mem[a] \in Entries /\ mem[a].path = record[a].before.path /\ mem[a].path # Inline
      BY <2>2, <3>1, <3>2, <3>3, InlineAssumption DEF Replaced, FileEntries
    <3>5. Says(a, mem[a])
      BY <2>3, <2>4, <3>4, AbsentAssumption DEF Known, Forward
    <3>6. ASSUME NEW entry \in {record[a].before, record[a].after}, Says(a, entry) PROVE FALSE
      <4>1. entry \in Entries /\ entry.name = mem[a].name /\ entry.path = mem[a].path
        BY <3>3, <3>4, <3>5, <3>6, FileEntriesAre DEF Says
      <4>2. entry = mem[a]
        BY <3>4, <4>1 DEF Entries
      <4>3. QED
        BY <2>3, <3>6, <4>2 DEF Consistent
    <3>7. QED
      BY <2>3, <2>4, <3>6 DEF RecordInv
  <2>6. QED
    BY <2>1, <2>3, <2>4, <2>5 DEF RecordInv, Says, Replaced
<1>2. QED
  BY <1>1, Invariance, PTL

\* The registry and the manifest file that an app was registered from, if there is one,
\* agree on the name of an app that is not being renamed and of which no record is left.
THEOREM ManifestAndRegistryAgree == Spec => []NamesAgree
<1>1. IInv => NamesAgree
  BY DEF IInv, NamesAgree, AppsInv, NamesInv, Known, Says
<1>2. QED
  BY <1>1, Invariance, PTL

\* With no registry writer at work, memory says what a restart would read.
THEOREM MemoryIsNeverAhead == Spec => []MemoryIsDurable
<1>1. IInv => MemoryIsDurable
  <2>1. SUFFICES ASSUME IInv, ~raced, failed \subseteq {"rename"}, \A c \in Clients : ~Writing(c)
                 PROVE  mem = disk
    BY DEF MemoryIsDurable
  <2>2. \A a \in Apps : mem[a] = disk[a]
    BY <2>1 DEF IInv, AppsInv, DurableInv, Unsaved
  <2>3. mem \in Maps /\ disk \in Maps
    BY <2>1 DEF IInv, TypeOK
  <2>4. QED
    BY <2>2, <2>3 DEF Maps
<1>2. QED
  BY <1>1, Invariance, PTL

-----------------------------------------------------------------------------
(* What the next daemon makes of the files.                                 *)

\* The step changes what becomes of the app's name only as a decision about it.
AtomicAt(a) ==
  Settled(a)' # Settled(a) =>
    \/ \E c \in Clients : Decides(c, a)
    \/ "unregister" \in failed /\ Settled(a)' = Absent

\* A record has nothing to say of an entry that has the name its file has, or came from
\* no file.
LEMMA Settles ==
  ASSUME NEW r \in Record, NEW e \in Entries, NEW names,
         e.path = Inline \/ names[e.path] = e.name,
         names[r.after.path] = r.after.name, e = r.before
  PROVE  r.after = e
<1>1. r.after \in Entries /\ r.after.path = e.path /\ e.path # Inline
  BY FileEntriesAre, InlineAssumption DEF Record, FileEntries
<1>2. r.after.name = e.name
  BY <1>1
<1>3. QED
  BY <1>1, <1>2 DEF Entries

\* So the file says what is settled.
LEMMA SettledNow ==
  ASSUME TypeOK, NEW a \in Apps, disk[a] \in Entries, disk[a].path = Inline \/ Says(a, disk[a])
  PROVE  Settled(a) = disk[a]
  BY Settles DEF Settled, Says, TypeOK

LEMMA SettledNext ==
  ASSUME TypeOK', NEW a \in Apps, disk'[a] \in Entries,
         disk'[a].path = Inline \/ Says(a, disk[a])'
  PROVE  Settled(a)' = disk'[a]
<1>1. record'[a] \in Record \cup {None}
  BY DEF TypeOK
<1>2. ASSUME record'[a] # None, Says(a, record[a].after)', disk'[a] = record'[a].before
      PROVE  record'[a].after = disk'[a]
  <2>1. record'[a] \in Record
    BY <1>1, <1>2
  <2>2. manifest'[a][record'[a].after.path] = record'[a].after.name
    BY <1>2 DEF Says
  <2>3. disk'[a].path = Inline \/ manifest'[a][disk'[a].path] = disk'[a].name
    BY DEF Says
  <2>4. QED
    BY <1>2, <2>1, <2>2, <2>3, Settles
<1>3. QED
  BY <1>2 DEF Settled

LEMMA SameFiles ==
  ASSUME NEW a, manifest'[a] = manifest[a], record'[a] = record[a], disk'[a] = disk[a]
  PROVE  AtomicAt(a)
  BY DEF AtomicAt, Settled, Says

\* An app that is not in registry.json is not there after a recovery either.
LEMMA SettledAbsent ==
  ASSUME TypeOK', NEW a \in Apps, disk'[a] = Absent
  PROVE  Settled(a)' = Absent
<1>1. record'[a] # None => record'[a].before # Absent
  BY AbsentAssumption, FileEntriesAre DEF TypeOK, Record
<1>2. QED
  BY <1>1 DEF Settled, Says

\* While one writer saves, the file says of the other apps what memory says, unless an
\* unregistration of theirs was not saved.
LEMMA SavedWithOthers ==
  ASSUME IInv, ~raced, "register" \notin failed, NEW c \in Clients, job[c] # None,
         \A d \in Clients : d # c => ~Writing(d), NEW b \in Apps, b # job[c].app
  PROVE  disk[b] = mem[b] \/ ("unregister" \in failed /\ mem[b] = Absent)
<1>1. DurableInv(b)
  BY DEF IInv, AppsInv
<1>2. ~Unsaved(b)
  BY DEF Unsaved
<1>3. QED
  BY <1>1, <1>2 DEF DurableInv

\* So a save in which another app is named changes nothing of this one.
LEMMA OthersAtomic ==
  ASSUME IInv, TypeOK', ~raced, "register" \notin failed, NEW c \in Clients, job[c] # None,
         \A d \in Clients : d # c => ~Writing(d), NEW b \in Apps, b # job[c].app,
         manifest' = manifest, record' = record, disk'[b] = mem[b]
  PROVE  AtomicAt(b)
<1>1. CASE disk[b] = mem[b]
  BY <1>1, SameFiles
<1>2. CASE "unregister" \in failed /\ mem[b] = Absent
  BY <1>2, SettledAbsent DEF AtomicAt
<1>3. QED
  BY <1>1, <1>2, SavedWithOthers

\* The save of a registration or an unregistration decides about its app.
LEMMA SaveAtomic ==
  ASSUME IInv, TypeOK', ~raced, "register" \notin failed', NEW c \in Clients, Save(c),
         NEW b \in Apps
  PROVE  AtomicAt(b)
<1>1. /\ OwnersInv /\ SnapInv /\ StepsInv /\ AppsInv /\ TypeOK
      /\ "register" \notin failed /\ manifest' = manifest /\ record' = record
  BY DEF IInv, Save, Fails
<1>2. PICK a : a = job[c].app
  OBVIOUS
<1>3. /\ job[c] # None /\ a \in Apps /\ job[c].at = "saving" /\ job[c] \in Job
      /\ job[c].kind \in {"register", "unregister"}
  BY <1>1, <1>2, Typed, JobFields DEF Save, At
<1>4. snap[c] = mem /\ \A d \in Clients : d # c => ~Writing(d)
  BY <1>1, <1>3, Alone DEF Save, SnapInv, SnapOf, Writing
<1>5. CASE disk' = disk
  BY <1>1, <1>5, SameFiles
<1>6. CASE disk' = mem
  <2>1. CASE b # a
    BY <1>1, <1>2, <1>3, <1>4, <1>6, <2>1, OthersAtomic
  <2>2. CASE b = a
    <3>1. StepInv(c, a)
      BY <1>1, <1>2, <1>3 DEF StepsInv
    <3>2. Settled(a)' = job[c].after
      <4>1. CASE job[c].kind = "register"
        <5>1. /\ job[c].after \in Entries /\ mem[a] = job[c].after
              /\ job[c].after.path = Inline \/ Says(a, job[c].after)
          BY <1>3, <3>1, <4>1, JobFields DEF StepInv, At
        <5>2. QED
          BY <1>1, <1>3, <1>6, <5>1, SettledNext DEF Says
      <4>2. CASE job[c].kind = "unregister"
        <5>1. mem[a] = Absent
          BY <1>3, <3>1, <4>2 DEF StepInv, At, Says
        <5>2. job[c].after = Absent
          BY <1>3, <4>2 DEF Job, Rename, Registration, Unregistration
        <5>3. QED
          BY <1>3, <1>6, <5>1, <5>2, SettledAbsent
      <4>3. QED
        BY <1>3, <4>1, <4>2
    <3>3. Decides(c, a)
      BY <1>2, <1>3, <3>2 DEF Decides
    <3>4. QED
      BY <2>2, <3>3 DEF AtomicAt
  <2>3. QED
    BY <2>1, <2>2
<1>7. QED
  BY <1>4, <1>5, <1>6 DEF Save

\* What the steps of a rename know of its app's files.
LEMMA FilesOf ==
  ASSUME IInv, ~raced, "register" \notin failed, NEW c \in Clients,
         job[c] # None, job[c].kind = "rename", job[c].at \notin {"reading", "publishing"},
         NEW a, a = job[c].app
  PROVE  /\ a \in Apps /\ TypeOK /\ SnapOf(c) /\ disk[a] = mem[a]
         /\ job[c].before \in FileEntries /\ job[c].after \in FileEntries
         /\ job[c].at # "preparing" =>
              /\ record[a] # None /\ record[a].before = job[c].before
              /\ record[a].after = job[c].after
         /\ job[c].at \in {"preparing", "writing"} =>
              mem[a] = job[c].before /\ Says(a, job[c].before)
         /\ job[c].at \in {"noting", "saving", "rolling"} =>
              mem[a] = job[c].before /\ Says(a, job[c].after)
         /\ job[c].at = "clearing" => mem[a] \in {job[c].before, job[c].after} /\ Says(a, mem[a])
         /\ Writing(c) => \A d \in Clients : d # c => ~Writing(d)
<1>1. /\ a \in Apps /\ TypeOK /\ SnapOf(c) /\ StepInv(c, a)
      /\ job[c].before \in FileEntries /\ job[c].after \in FileEntries
      /\ Writing(c) => \A d \in Clients : d # c => ~Writing(d)
  BY RenameFacts
<1>2. disk[a] = mem[a]
  BY RenamedIsSaved
<1>3. job[c].at # "preparing" =>
        /\ record[a] # None /\ record[a].before = job[c].before /\ record[a].after = job[c].after
  BY <1>1, RecordIsKept DEF StepInv
<1>4. QED
  BY <1>1, <1>2, <1>3 DEF StepInv, At

LEMMA PrepareAtomic ==
  ASSUME IInv, TypeOK', ~raced, "register" \notin failed', NEW c \in Clients, Prepare(c),
         NEW b \in Apps
  PROVE  AtomicAt(b)
<1>1. PICK a : a = job[c].app
  OBVIOUS
<1>2. /\ job[c] # None /\ job[c].kind = "rename" /\ job[c].at = "preparing"
      /\ "register" \notin failed
      /\ manifest' = manifest /\ disk' = disk
  BY DEF Prepare, At, Fails
<1>3. /\ a \in Apps /\ TypeOK /\ job[c].before \in FileEntries /\ job[c].after \in FileEntries
      /\ disk[a] = job[c].before /\ Says(a, job[c].before)
  BY <1>1, <1>2, FilesOf
<1>4. CASE record' = record \/ b # a
  <2>1. record'[b] = record[b]
    BY <1>1, <1>3, <1>4 DEF Prepare, TypeOK
  <2>2. QED
    BY <1>2, <2>1, SameFiles
<1>5. CASE record' = [record EXCEPT ![a] = [before |-> job[c].before, after |-> job[c].after]] /\ b = a
  <2>1. record'[a].before = job[c].before /\ record'[a].after = job[c].after
    BY <1>3, <1>5 DEF TypeOK
  <2>2. Settled(a)' = job[c].before
    BY <1>2, <1>3, <2>1, FileEntriesAre, SettledNext DEF Says
  <2>3. Settled(a) = job[c].before
    BY <1>3, FileEntriesAre, SettledNow
  <2>4. QED
    BY <1>5, <2>2, <2>3 DEF AtomicAt
<1>6. QED
  BY <1>1, <1>4, <1>5 DEF Prepare

LEMMA ManifestAtomic ==
  ASSUME IInv, ~raced, "register" \notin failed', NEW c \in Clients,
         TypeOK', WriteManifest(c) \/ RollBack(c), NEW b \in Apps
  PROVE  AtomicAt(b)
<1>1. PICK a : a = job[c].app
  OBVIOUS
<1>2. /\ job[c] # None /\ job[c].kind = "rename" /\ job[c].at \in {"writing", "rolling"}
      /\ "register" \notin failed /\ record' = record /\ disk' = disk
  BY DEF WriteManifest, RollBack, At, Fails
<1>3. /\ a \in Apps /\ TypeOK /\ disk[a] = job[c].before
      /\ record[a] # None /\ record[a].before = job[c].before /\ record[a].after = job[c].after
      /\ job[c].before \in FileEntries /\ job[c].after \in FileEntries
      /\ Says(a, IF job[c].at = "writing" THEN job[c].before ELSE job[c].after)
  BY <1>1, <1>2, FilesOf
<1>4. \/ manifest' = manifest
      \/ job[c].at = "writing" /\ manifest' = Written(a, job[c].after)
      \/ job[c].at = "rolling" /\ manifest' = Written(a, job[c].before)
  BY <1>1 DEF WriteManifest, RollBack, RolledBack, At
<1>5. CASE manifest' = manifest \/ b # a
  <2>1. manifest'[b] = manifest[b]
    BY <1>3, <1>4, <1>5, WrittenIs
  <2>2. QED
    BY <1>2, <2>1, SameFiles
<1>6. CASE job[c].at = "writing" /\ manifest' = Written(a, job[c].after) /\ b = a
  <2>1. Settled(a) = job[c].before
    BY <1>3, <1>6, FileEntriesAre, SettledNow
  <2>2. Settled(a)' = job[c].after
    BY <1>2, <1>3, <1>6, WrittenIs DEF Settled, Says
  <2>3. Decides(c, a)
    BY <1>1, <1>2, <1>6, <2>1, <2>2 DEF Decides, At
  <2>4. QED
    BY <1>6, <2>3 DEF AtomicAt
<1>7. CASE job[c].at = "rolling" /\ manifest' = Written(a, job[c].before) /\ b = a
  <2>1. Settled(a) = job[c].after
    BY <1>2, <1>3, <1>7 DEF Settled
  <2>2. Settled(a)' = job[c].before
    BY <1>2, <1>3, <1>7, WrittenIs, FileEntriesAre, SettledNext DEF Says
  <2>3. Decides(c, a)
    BY <1>1, <1>2, <1>7, <2>1, <2>2 DEF Decides, At
  <2>4. QED
    BY <1>7, <2>3 DEF AtomicAt
<1>8. QED
  BY <1>4, <1>5, <1>6, <1>7

\* The registry only follows what the manifest decided.
LEMMA SaveCopyAtomic ==
  ASSUME IInv, TypeOK', ~raced, "register" \notin failed', NEW c \in Clients, SaveCopy(c),
         NEW b \in Apps
  PROVE  AtomicAt(b)
<1>1. PICK a : a = job[c].app
  OBVIOUS
<1>2. /\ job[c] # None /\ job[c].kind = "rename" /\ job[c].at = "saving" /\ Writing(c)
      /\ "register" \notin failed /\ manifest' = manifest /\ record' = record
  BY DEF SaveCopy, At, Fails, Writing
<1>3. /\ a \in Apps /\ TypeOK /\ SnapOf(c) /\ disk[a] = job[c].before
      /\ record[a] # None /\ record[a].before = job[c].before /\ record[a].after = job[c].after
      /\ Says(a, job[c].after)
      /\ \A d \in Clients : d # c => ~Writing(d)
  BY <1>1, <1>2, FilesOf
<1>4. CASE disk' = disk
  BY <1>2, <1>4, SameFiles
<1>5. CASE disk' = snap[c]
  <2>1. /\ disk'[a] = job[c].after
        /\ \A d \in Apps : d # a => disk'[d] = mem[d]
    BY <1>1, <1>2, <1>3, <1>5 DEF SnapOf, TypeOK, Maps
  <2>2. CASE b # a
    BY <1>1, <1>2, <1>3, <2>1, <2>2, OthersAtomic
  <2>3. CASE b = a
    BY <1>2, <1>3, <2>1, <2>3 DEF AtomicAt, Settled
  <2>4. QED
    BY <2>2, <2>3
<1>6. QED
  BY <1>4, <1>5 DEF SaveCopy

\* A record that is dropped has nothing left to say.
LEMMA ClearAtomic ==
  ASSUME IInv, ~raced, "register" \notin failed', NEW c \in Clients, Clear(c), NEW b \in Apps
  PROVE  AtomicAt(b)
<1>1. PICK a : a = job[c].app
  OBVIOUS
<1>2. /\ job[c] # None /\ job[c].kind = "rename" /\ job[c].at = "clearing"
      /\ "register" \notin failed /\ manifest' = manifest /\ disk' = disk
  BY DEF Clear, At, Fails
<1>3. /\ a \in Apps /\ TypeOK /\ disk[a] = mem[a] /\ Says(a, mem[a])
      /\ record[a] # None /\ record[a].before = job[c].before /\ record[a].after = job[c].after
      /\ mem[a] \in {job[c].before, job[c].after} /\ mem[a] \in FileEntries
  BY <1>1, <1>2, FilesOf
<1>4. CASE record' = record \/ b # a
  <2>1. record'[b] = record[b]
    BY <1>1, <1>3, <1>4 DEF Clear, TypeOK
  <2>2. QED
    BY <1>2, <2>1, SameFiles
<1>5. CASE record' = [record EXCEPT ![a] = None] /\ b = a
  <2>1. record'[a] = None
    BY <1>3, <1>5 DEF TypeOK
  <2>2. Settled(a) = disk[a]
    BY <1>3, FileEntriesAre, SettledNow
  <2>3. Settled(a)' = disk[a]
    BY <1>2, <2>1 DEF Settled
  <2>4. QED
    BY <1>5, <2>2, <2>3 DEF AtomicAt
<1>6. QED
  BY <1>1, <1>4, <1>5 DEF Clear

\* A recovery does what it was always going to do.
LEMMA RecoverAtomic ==
  ASSUME IInv, ~raced, NEW a \in Apps, Recover(a), NEW b \in Apps
  PROVE  AtomicAt(b)
<1>1. /\ TypeOK /\ mem = disk /\ manifest' = manifest /\ record[a] # None
  BY DEF IInv, DownInv, Recover
<1>2. CASE UNCHANGED <<disk, record>>
  BY <1>1, <1>2, SameFiles
<1>3. CASE /\ Consistent(a, record[a].after) \/ Consistent(a, record[a].before)
           /\ record' = [record EXCEPT ![a] = None] /\ disk' = disk
  <2>1. record'[a] = None /\ \A d \in Apps : d # a => record'[d] = record[d]
    BY <1>1, <1>3 DEF TypeOK
  <2>2. CASE b # a
    BY <1>1, <1>3, <2>1, <2>2, SameFiles
  <2>3. CASE b = a
    <3>1. Says(a, disk[a]) /\ disk[a] \in Entries
      BY <1>1, <1>3, FileEntriesAre DEF Consistent, TypeOK, Record
    <3>2. Settled(a) = disk[a]
      BY <1>1, <3>1, SettledNow
    <3>3. Settled(a)' = disk[a]
      BY <1>3, <2>1 DEF Settled
    <3>4. QED
      BY <2>3, <3>2, <3>3 DEF AtomicAt
  <2>4. QED
    BY <2>2, <2>3
<1>4. CASE Forward(a) /\ disk' = [mem EXCEPT ![a] = record[a].after] /\ record' = record
  <2>1. disk'[a] = record[a].after /\ \A d \in Apps : d # a => disk'[d] = disk[d]
    BY <1>1, <1>4 DEF TypeOK, Maps
  <2>2. CASE b # a
    BY <1>1, <1>4, <2>1, <2>2, SameFiles
  <2>3. CASE b = a
    BY <1>1, <1>4, <2>1, <2>3 DEF AtomicAt, Settled, Forward
  <2>4. QED
    BY <2>2, <2>3
<1>5. QED
  BY <1>2, <1>3, <1>4 DEF Recover

LEMMA StepAtomic ==
  ASSUME IInv, [Next]_vars, ~raced', "register" \notin failed', NEW b \in Apps
  PROVE  AtomicAt(b)
<1>1. IInv' /\ TypeOK'
  BY NextInv DEF IInv
<1>2. CASE UNCHANGED <<manifest, record, disk>>
  BY <1>2, SameFiles
<1>3. ASSUME NEW c \in Clients, Save(c) \/ Prepare(c) \/ WriteManifest(c) \/ SaveCopy(c)
                                \/ RollBack(c) \/ Clear(c)
      PROVE  AtomicAt(b)
  <2>1. ~raced
    BY <1>3 DEF Save, Prepare, WriteManifest, SaveCopy, RollBack, Clear
  <2>2. QED
    BY <1>1, <1>3, <2>1, SaveAtomic, PrepareAtomic, ManifestAtomic, SaveCopyAtomic, ClearAtomic
<1>4. ASSUME NEW a \in Apps, Recover(a)
      PROVE  AtomicAt(b)
  BY <1>4, RecoverAtomic DEF Recover
<1>5. CASE \/ \E c \in Clients : TakeSnapshot(c) \/ SetEntry(c)
           \/ \E c \in Clients, a \in Apps : Register(c, a) \/ Unregister(c, a)
           \/ \E c \in Clients, a \in Apps, name \in Names : BeginRename(c, a, name)
           \/ \E c \in Clients : ReadManifest(c) \/ CopyRegistry(c) \/ Publish(c)
           \/ Crash \/ Serve \/ UNCHANGED vars
  BY <1>2, <1>5
  DEF TakeSnapshot, SetEntry, Register, Unregister, BeginRename, ReadManifest, CopyRegistry,
      Publish, Crash, Serve, vars
<1>6. QED
  BY <1>3, <1>4, <1>5 DEF Next

\* Whatever fails and wherever the daemon dies, the entry an app will have after a restart
\* changes in one write of a request for it (applyAppRename, recoverAppRenames), and a
\* recovery changes nothing that was not decided before.
THEOREM RenamesAreAtomic == Spec => RenameIsAtomic
<1>1. IInv /\ [Next]_vars =>
        [~raced' /\ "register" \notin failed' =>
           \A a \in Apps : Settled(a)' # Settled(a) =>
             \/ \E c \in Clients : Decides(c, a)
             \/ "unregister" \in failed /\ Settled(a)' = Absent]_vars
  BY StepAtomic DEF AtomicAt
<1>2. QED
  BY <1>1, Invariance, PTL DEF Spec, RenameIsAtomic
=============================================================================
