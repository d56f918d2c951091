------------------------------ MODULE AppRename ------------------------------
(***************************************************************************)
(* Names of apps: the registry (registry.ts), an app rename and its        *)
(* recovery (appRename.ts), unregistering (appUnregister.ts) and           *)
(* registering (the handler of apps/register in api.ts).                   *)
(*                                                                         *)
(* An app has its name in two files, a manifest and registry.json, and in  *)
(* the daemon's memory.  A rename writes the two files one after the       *)
(* other, between a record in a recovery file and its removal, and         *)
(* publishes the memory last.  A write can fail, and the daemon can die    *)
(* between any two of them: the next one recovers from the records before  *)
(* it serves anything, or refuses to start.  A registration may name any   *)
(* manifest file of the app, or bring a manifest of its own that is in no  *)
(* file, with any name: the entry of such an app cannot be renamed.        *)
(*                                                                         *)
(* Each file is replaced by a rename of a temporary file: it is old or     *)
(* new.  The hashes compared by the code cover the whole manifest and the  *)
(* whole registry entry; here a manifest differs from another in its name  *)
(* only, and an entry in its name and in where it came from.  Left out:    *)
(* previews (apply compares everything with them again), the phase of a    *)
(* record (recovery does not read it), the lifecycle operations that gates *)
(* also exclude (see OperationStore), and files that setup or a person     *)
(* rewrites (what setup upserts is a registration).                        *)
(***************************************************************************)
EXTENDS Naturals, FiniteSets

CONSTANTS
  Apps,    \* app ids
  Names,   \* names that manifests give them
  Paths,   \* the manifest files that an app may be registered from
  Inline,  \* where an entry came from that was registered without a file
  Clients, \* bound: requests under way at the same time
  Absent,  \* what the registry says of an app it does not hold
  None

ASSUME InlineAssumption == Inline \notin Paths

Entries == [name : Names, path : Paths \cup {Inline}]
FileEntries == [name : Names, path : Paths]

ASSUME AbsentAssumption == Absent \notin Entries

VARIABLES
  manifest, \* the name in each manifest file of an app
  mem,      \* Registry.#apps: an entry of each app that is registered
  disk,     \* registry.json
  record,   \* the recovery file: entries of one manifest file, before and after
  job,      \* the request of each client, and how far it got
  snap,     \* the map whose copy it is saving
  up,       \* the daemon serves, is starting, or gave up recovering
  failed,   \* history: writes of these kinds of requests failed, any number of times
  raced     \* history: registry writers overlapped in a way nothing excludes

vars == <<manifest, mem, disk, record, job, snap, up, failed, raced>>

Maps == [Apps -> Entries \cup {Absent}]
Record == {r \in [before : FileEntries, after : FileEntries] : r.before.path = r.after.path}
Rename == {j \in [kind : {"rename"}, app : Apps, before : FileEntries, after : FileEntries,
                  at : {"reading", "preparing", "writing", "noting", "saving", "publishing",
                        "rolling", "clearing"}] : j.before.path = j.after.path}
Registration == [kind : {"register"}, app : Apps, before : {Absent}, after : Entries,
                 at : {"reading", "saving"}]
Unregistration == [kind : {"unregister"}, app : Apps, before : Entries, after : {Absent},
                   at : {"saving"}]
Job == Rename \cup Registration \cup Unregistration

ASSUME NoneAssumption == None \notin Record \cup Job \cup Maps

At(c, kind, step) == job[c] # None /\ job[c].kind = kind /\ job[c].at = step

\* withTargetGate: renames and unregistrations of an app exclude each other.
Ungated(a) == FALSE
Gated(a) == \E c \in Clients : job[c] # None /\ job[c].app = a /\ job[c].kind # "register"

\* Between the change or the copy of the map and the end of its save.
Writing(c) == job[c] # None /\ job[c].at \in {"saving", "publishing"}

\* Nothing orders two registry writers, nor a registration and a gated request of
\* the same app.
WritersOverlap(c) == \E d \in Clients \ {c} : Writing(d)
Registering(a) == \E c \in Clients : job[c] # None /\ job[c].kind = "register" /\ job[c].app = a

Init ==
  /\ manifest \in [Apps -> [Paths -> Names]]
  /\ mem = [a \in Apps |-> Absent]
  /\ disk = mem
  /\ record = [a \in Apps |-> None]
  /\ job = [c \in Clients |-> None]
  /\ snap = [c \in Clients |-> None]
  /\ up = "up"
  /\ failed = {}
  /\ raced = FALSE

MoveTo(c, step) == job' = [job EXCEPT ![c].at = step]
End(c) == job' = [job EXCEPT ![c] = None]

\* The manifest file that the entry came from has the entry's name.
Says(a, entry) == entry.path \in Paths /\ manifest[a][entry.path] = entry.name

\* A write of the client's request fails, and the request with it.
Fails(c) == failed' = failed \cup {job[c].kind}

-----------------------------------------------------------------------------
(* Registry: upsertManifest, remove, save, upsertManifestAtomic            *)

\* The map changes at once, then it is saved.
Upsert(c, a, entry) ==
  /\ mem' = [mem EXCEPT ![a] = entry]
  /\ raced' = (raced \/ WritersOverlap(c))

\* #saveSnapshot reads the map after its first await.
TakeSnapshot(c) ==
  /\ At(c, "register", "saving") \/ At(c, "unregister", "saving")
  /\ snap[c] = None
  /\ snap' = [snap EXCEPT ![c] = mem]
  /\ UNCHANGED <<manifest, mem, disk, record, job, up, failed, raced>>

\* registry.json is replaced, or not.
Save(c) ==
  /\ At(c, "register", "saving") \/ At(c, "unregister", "saving")
  /\ snap[c] # None
  /\ snap' = [snap EXCEPT ![c] = None]
  /\ End(c)
  /\ \/ disk' = snap[c] /\ UNCHANGED failed
     \/ Fails(c) /\ UNCHANGED disk
  /\ UNCHANGED <<manifest, mem, record, up, raced>>

PublishedFirst(c, next) ==
  /\ snap' = [snap EXCEPT ![c] = next]
  /\ mem' = next

\* upsertManifestAtomic copies the map; memory keeps the old one until the copy is saved.
Copied(c, next) ==
  /\ snap' = [snap EXCEPT ![c] = next]
  /\ UNCHANGED mem

-----------------------------------------------------------------------------
(* Requests                                                                *)

\* What may be registered: what a manifest file says, or any manifest that the request
\* itself holds. Nothing of an older entry is kept (mergeAppRecord).
FromFile(a) == {[name |-> manifest[a][p], path |-> p] : p \in Paths}
FromRequest == [name : Names, path : {Inline}]
Registrable(a) == FromFile(a) \cup FromRequest

\* POST apps/register, or a tool that does the same: the manifest is read, ...
Register(c, a) ==
  /\ up = "up" /\ job[c] = None
  /\ \E entry \in Registrable(a) :
       job' = [job EXCEPT ![c] = [kind |-> "register", app |-> a, before |-> Absent,
                                  after |-> entry, at |-> "reading"]]
  /\ raced' = (raced \/ Gated(a))
  /\ UNCHANGED <<manifest, mem, disk, record, snap, up, failed>>

\* ... and what was read becomes the entry.
SetEntry(c) ==
  /\ At(c, "register", "reading")
  /\ Upsert(c, job[c].app, job[c].after)
  /\ MoveTo(c, "saving")
  /\ UNCHANGED <<manifest, disk, record, snap, up, failed>>

\* applyAppUnregister: under the gate the app is stopped and in no package.
Unregister(c, a) ==
  /\ up = "up" /\ job[c] = None
  /\ ~Gated(a)
  /\ mem[a] # Absent
  /\ job' = [job EXCEPT ![c] = [kind |-> "unregister", app |-> a, before |-> mem[a],
                                after |-> Absent, at |-> "saving"]]
  /\ mem' = [mem EXCEPT ![a] = Absent]
  /\ raced' = (raced \/ WritersOverlap(c) \/ Registering(a))
  /\ UNCHANGED <<manifest, disk, record, snap, up, failed>>

\* applyAppRename of an app that runs or is stopped and was registered from a file, to
\* a name no other app has.
BeginRename(c, a, name) ==
  /\ up = "up" /\ job[c] = None
  /\ ~Gated(a)
  /\ mem[a] # Absent /\ mem[a].path # Inline /\ mem[a].name # name
  /\ \A b \in Apps \ {a} : mem[b] # Absent => mem[b].name # name
  /\ job' = [job EXCEPT ![c] = [kind |-> "rename", app |-> a, before |-> mem[a],
                                after |-> [name |-> name, path |-> mem[a].path],
                                at |-> "reading"]]
  /\ raced' = (raced \/ Registering(a))
  /\ UNCHANGED <<manifest, mem, disk, record, snap, up, failed>>

\* The manifest still says the name that the registry said.
ReadManifest(c) ==
  /\ At(c, "rename", "reading")
  /\ IF Says(job[c].app, job[c].before) THEN MoveTo(c, "preparing") ELSE End(c)
  /\ UNCHANGED <<manifest, mem, disk, record, snap, up, failed, raced>>

\* putRecoveryRecord, phase prepared: the app's older record, if any, is replaced.
Prepare(c) ==
  /\ At(c, "rename", "preparing")
  /\ \/ /\ record' = [record EXCEPT ![job[c].app] = [before |-> job[c].before,
                                                     after |-> job[c].after]]
        /\ MoveTo(c, "writing")
        /\ UNCHANGED failed
     \/ Fails(c) /\ End(c) /\ UNCHANGED record
  /\ UNCHANGED <<manifest, mem, disk, snap, up, raced>>

\* The manifest file of the entry is replaced by one with its name.
Written(a, entry) == [manifest EXCEPT ![a][entry.path] = entry.name]

WriteManifest(c) ==
  /\ At(c, "rename", "writing")
  /\ \/ /\ manifest' = Written(job[c].app, job[c].after)
        /\ MoveTo(c, "noting")
        /\ UNCHANGED failed
     \/ Fails(c) /\ End(c) /\ UNCHANGED manifest
  /\ UNCHANGED <<mem, disk, record, snap, up, raced>>

\* The record says manifest_written, and the registry update begins.
CopyRegistry(c) ==
  /\ At(c, "rename", "noting")
  /\ \/ /\ Copied(c, [mem EXCEPT ![job[c].app] = job[c].after])
        /\ MoveTo(c, "saving")
        /\ raced' = (raced \/ WritersOverlap(c))
        /\ UNCHANGED failed
     \/ Fails(c) /\ End(c) /\ UNCHANGED <<mem, snap, raced>>
  /\ UNCHANGED <<manifest, disk, record, up>>

\* The copy is saved; or it is not, and the manifest has to be rolled back.
SaveCopy(c) ==
  /\ At(c, "rename", "saving")
  /\ \/ disk' = snap[c] /\ MoveTo(c, "publishing") /\ UNCHANGED <<snap, failed>>
     \/ /\ Fails(c)
        /\ MoveTo(c, "rolling")
        /\ snap' = [snap EXCEPT ![c] = None]
        /\ UNCHANGED disk
  /\ UNCHANGED <<manifest, mem, record, up, raced>>

\* The copy becomes the map. A save called on the old map before still reads that.
Publish(c) ==
  /\ At(c, "rename", "publishing")
  /\ mem' = snap[c]
  /\ snap' = [d \in Clients |-> CASE d = c -> None
                                  [] d # c /\ Writing(d) /\ snap[d] = None -> mem
                                  [] OTHER -> snap[d]]
  /\ MoveTo(c, "clearing")
  /\ UNCHANGED <<manifest, disk, record, up, failed, raced>>

NotRolledBack(a, entry) == manifest
RolledBack(a, entry) == Written(a, entry)

\* The old manifest is written again and the record removed; if that fails too, the
\* next start recovers.
RollBack(c) ==
  /\ At(c, "rename", "rolling")
  /\ \/ /\ manifest' = RolledBack(job[c].app, job[c].before)
        /\ MoveTo(c, "clearing")
     \/ /\ manifest' \in {manifest, RolledBack(job[c].app, job[c].before)}
        /\ End(c)
  /\ UNCHANGED <<mem, disk, record, snap, up, failed, raced>>

\* The record says registry_written (unless the rename was rolled back) and is
\* removed; if a write fails, it stays.
Clear(c) ==
  /\ At(c, "rename", "clearing")
  /\ \/ record' = [record EXCEPT ![job[c].app] = None] /\ UNCHANGED failed
     \/ Fails(c) /\ UNCHANGED record
  /\ End(c)
  /\ UNCHANGED <<manifest, mem, disk, snap, up, raced>>

-----------------------------------------------------------------------------
(* Crash and recoverAppRenames                                             *)

\* The daemon dies, serving, starting or refusing to; the next one reads registry.json.
Crash ==
  /\ up' = "starting"
  /\ mem' = disk
  /\ job' = [c \in Clients |-> None]
  /\ snap' = [c \in Clients |-> None]
  /\ UNCHANGED <<manifest, disk, record, failed, raced>>

ManifestOnly(a, entry) == Says(a, entry)
Consistent(a, entry) == Says(a, entry) /\ mem[a] = entry
NeverForward(a) == FALSE
Forward(a) == Says(a, record[a].after) /\ mem[a] = record[a].before

Recover(a) ==
  /\ up = "starting"
  /\ record[a] # None
  /\ \/ /\ Consistent(a, record[a].after) \/ Consistent(a, record[a].before)
        /\ record' = [record EXCEPT ![a] = None]
        /\ UNCHANGED <<mem, disk, up>>
     \/ /\ Forward(a)
        /\ disk' = [mem EXCEPT ![a] = record[a].after]
        /\ mem' = disk'
        /\ UNCHANGED <<record, up>>
     \/ /\ ~Consistent(a, record[a].after) /\ ~Consistent(a, record[a].before)
        /\ ~Forward(a)
        /\ up' = "refused"
        /\ UNCHANGED <<mem, disk, record>>
  /\ UNCHANGED <<manifest, job, snap, failed, raced>>

Serve ==
  /\ up = "starting"
  /\ \A a \in Apps : record[a] = None
  /\ up' = "up"
  /\ UNCHANGED <<manifest, mem, disk, record, job, snap, failed, raced>>

-----------------------------------------------------------------------------
Next ==
  \/ \E c \in Clients : TakeSnapshot(c) \/ Save(c) \/ SetEntry(c)
  \/ \E c \in Clients, a \in Apps : Register(c, a) \/ Unregister(c, a)
  \/ \E c \in Clients, a \in Apps, name \in Names : BeginRename(c, a, name)
  \/ \E c \in Clients : ReadManifest(c) \/ Prepare(c) \/ WriteManifest(c) \/ CopyRegistry(c)
  \/ \E c \in Clients : SaveCopy(c) \/ Publish(c) \/ RollBack(c) \/ Clear(c)
  \/ \E a \in Apps : Recover(a)
  \/ Crash \/ Serve

Spec == Init /\ [][Next]_vars

-----------------------------------------------------------------------------
(* Properties                                                              *)

\* Manifests hold names, registry and memory hold entries, and a record holds two of one
\* file.
TypeOK ==
  /\ manifest \in [Apps -> [Paths -> Names]]
  /\ mem \in Maps
  /\ disk \in Maps
  /\ record \in [Apps -> Record \cup {None}]
  /\ job \in [Clients -> Job \cup {None}]
  /\ snap \in [Clients -> Maps \cup {None}]
  /\ up \in {"up", "starting", "refused"}
  /\ failed \subseteq {"rename", "register", "unregister"}
  /\ raced \in BOOLEAN

\* The registry no longer holds the app as an entry of the file that its record is about.
Replaced(a) == disk[a] = Absent \/ disk[a].path # record[a].before.path

\* A daemon that died at any step of a rename, or after one of its writes failed,
\* starts again (recoverAppRenames). It gives up only on an app that was unregistered, or
\* registered without a file or from another one, while a record of a failed rename was
\* left.
RecoverySucceeds ==
  ~raced /\ "register" \notin failed /\ up = "refused" =>
    \E a \in Apps : "rename" \in failed /\ record[a] # None /\ Replaced(a)

\* The manifest file that an app was registered from and the registry give it the same
\* name unless it is being renamed or a record says that the next start has to finish it
\* (applyAppRename): a reader never sees the name of a rename that was rolled back or half
\* recovered. An app registered without a file has no other name to agree with. Only a
\* registration whose save failed breaks it: memory is then ahead of registry.json, and
\* the older entry comes back with the next daemon.
NamesAgree ==
  ~raced /\ "register" \notin failed /\ up = "up" =>
    \A a \in Apps : mem[a] # Absent /\ ~Gated(a) /\ record[a] = None =>
      mem[a].path = Inline \/ Says(a, mem[a])

\* "a persistence failure cannot leave process-memory state ahead of registry.json"
\* (registry.ts:60): with no registry writer under way, memory says what a restart
\* would read, whichever writes of renames failed.
MemoryIsDurable ==
  ~raced /\ failed \subseteq {"rename"} /\ (\A c \in Clients : ~Writing(c)) => mem = disk

\* The entry an app has for the next daemon, whatever happens to this one: what recovery
\* makes of its files, record and manifest.
Settled(a) ==
  IF record[a] # None /\ Says(a, record[a].after) /\ disk[a] = record[a].before
    THEN record[a].after ELSE disk[a]

\* A request decides it in one write: a rename in that of the manifest, and takes it back
\* in the roll-back; the others in that of the registry.
Decides(c, a) ==
  /\ job[c] # None /\ job[c].app = a
  /\ \/ At(c, "rename", "writing") /\ Settled(a) = job[c].before /\ Settled(a)' = job[c].after
     \/ At(c, "rename", "rolling") /\ Settled(a) = job[c].after /\ Settled(a)' = job[c].before
     \/ job[c].kind # "rename" /\ job[c].at = "saving" /\ Settled(a)' = job[c].after

\* A rename changes the manifest's name and the registry's together (docs/app-state.md:35):
\* five writes, any of which may fail, and a crash between any two, yet the entry an app
\* has after a restart changes in a single step of a request for that app, and in no step
\* of a recovery.
RenameIsAtomic ==
  [][~raced' /\ "register" \notin failed' =>
       \A a \in Apps : Settled(a)' # Settled(a) =>
         \/ \E c \in Clients : Decides(c, a)
         \/ "unregister" \in failed /\ Settled(a)' = Absent]_vars

-----------------------------------------------------------------------------
(* The invariant behind them, as long as no registry writers overlapped    *)

\* Registry writers come one at a time, and only registrations share an app.
OwnersInv ==
  \A c, d \in Clients : c # d /\ job[c] # None /\ job[d] # None =>
    /\ ~(Writing(c) /\ Writing(d))
    /\ job[c].app = job[d].app => job[c].kind = "register" /\ job[d].kind = "register"

\* A daemon that starts or gave up has no requests, and its memory is the file; what it
\* gave up on is a record that fits neither.
DownInv ==
  /\ up # "up" => mem = disk /\ \A c \in Clients : job[c] = None
  /\ up = "refused" => \E a \in Apps : /\ record[a] # None /\ ~Forward(a)
                                       /\ ~Consistent(a, record[a].after)
                                       /\ ~Consistent(a, record[a].before)

\* What a writer saves is what memory says, or is to say once it is saved.
SnapOf(c) ==
  /\ snap[c] # None => Writing(c)
  /\ Writing(c) /\ job[c].kind # "rename" => snap[c] \in {None, mem}
  /\ Writing(c) /\ job[c].kind = "rename" =>
       snap[c] = [mem EXCEPT ![job[c].app] = job[c].after]
  /\ At(c, "rename", "publishing") => disk = snap[c]
SnapInv == \A c \in Clients : SnapOf(c)

\* What each step of a request knows of the manifest, of memory and of its record.
StepInv(c, a) ==
  /\ job[c].kind = "register" => job[c].after.path = Inline \/ Says(a, job[c].after)
  /\ At(c, "register", "saving") => mem[a] = job[c].after
  /\ At(c, "unregister", "saving") => mem[a] = Absent
  /\ At(c, "rename", "reading") => mem[a] = job[c].before
  /\ At(c, "rename", "preparing") => mem[a] = job[c].before /\ Says(a, job[c].before)
  /\ job[c].kind = "rename" /\ job[c].at \notin {"reading", "preparing"} =>
       record[a] = [before |-> job[c].before, after |-> job[c].after]
  /\ At(c, "rename", "writing") => mem[a] = job[c].before /\ Says(a, job[c].before)
  /\ job[c].kind = "rename" /\ job[c].at \in {"noting", "saving", "publishing", "rolling"} =>
       mem[a] = job[c].before /\ Says(a, job[c].after)
  /\ At(c, "rename", "clearing") => mem[a] \in {job[c].before, job[c].after} /\ Says(a, mem[a])
  /\ At(c, "rename", "rolling") => "rename" \in failed

StepsInv == \A c \in Clients : job[c] # None => StepInv(c, job[c].app)

\* A record is of a rename under way, or of one that failed.
RecordInv(a) ==
  record[a] # None =>
    /\ Says(a, record[a].before) \/ Says(a, record[a].after)
    /\ {"rename", "register"} \cap failed = {} =>
         /\ ~Replaced(a)
         /\ up = "up" => \E c \in Clients : /\ job[c] # None /\ job[c].app = a
                                            /\ job[c].kind = "rename"
                                            /\ job[c].at \notin {"reading", "preparing"}

\* Memory is ahead of the file for an app whose entry is being saved, or was not.
Unsaved(a) == \E c \in Clients : Writing(c) /\ job[c].app = a /\ ~At(c, "rename", "saving")
DurableInv(a) ==
  \/ mem[a] = disk[a]
  \/ Unsaved(a)
  \/ "register" \in failed
  \/ "unregister" \in failed /\ mem[a] = Absent

\* An entry of a file has the file's name, or a record says how to make it so.
Known(a, view) ==
  \/ view[a] = Absent
  \/ view[a].path = Inline
  \/ Says(a, view[a])
  \/ record[a] # None /\ view[a] = record[a].before /\ Says(a, record[a].after)
NamesInv(a) == "register" \notin failed => Known(a, mem) /\ Known(a, disk)

AppsInv == \A a \in Apps : RecordInv(a) /\ DurableInv(a) /\ NamesInv(a)

\* The rename's copy of the map exists, whatever overlapped.
CopyInv ==
  \A c \in Clients : job[c] # None /\ job[c].kind = "rename" /\ Writing(c) => snap[c] \in Maps

IInv ==
  /\ TypeOK
  /\ CopyInv
  /\ ~raced => OwnersInv /\ DownInv /\ SnapInv /\ StepsInv /\ AppsInv
=============================================================================
