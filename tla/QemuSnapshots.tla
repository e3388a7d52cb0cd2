---------------------------- MODULE QemuSnapshots ----------------------------
(***************************************************************************)
(* Snapshots of a virtual machine in QEMU: its RAM goes to a file named     *)
(* after the snapshot, and each drive gets a new overlay file, so that the  *)
(* file below keeps the state of the moment. To load a snapshot QEMU is     *)
(* stopped, later overlays are deleted and the one above that state is      *)
(* created anew. OpenQA::Qemu::Proc keeps a model of the snapshots and of   *)
(* the overlays, which a later job of the same machine takes over through   *)
(* qemu_state.json (SKIPTO).                                                *)
(*                                                                          *)
(* SIGTERM may end a job between any two steps.                             *)
(***************************************************************************)
EXTENDS Naturals, Sequences, SequencesExt

CONSTANTS
  LastDrive,     \* number of drives
  LastModule,    \* number of test modules
  TestSnapshots, \* MAKETESTSNAPSHOTS
  Sigterms,      \* whether SIGTERM may end a job anywhere
  Jobs,          \* bound: jobs one after the other, all but the first with SKIPTO
  MaxSnapshots,  \* bound: snapshots of a job
  MaxWrites      \* bound: steps of the guest

ASSUME DrivesAssumption == LastDrive \in Nat \ {0} /\ LastModule \in Nat
ASSUME SettingsAssumption == TestSnapshots \in BOOLEAN /\ Sigterms \in BOOLEAN
ASSUME BoundsAssumption ==
  Jobs \in Nat \ {0} /\ MaxSnapshots \in Nat /\ MaxWrites \in Nat

Drives == 1..LastDrive
Modules == 1..LastModule
LastGood == 0                       \* the name 'lastgood'; others by module
Names == {LastGood} \cup Modules

\* Each job adds at most MaxSnapshots to what it took over.
Sequences == 1..(Jobs * MaxSnapshots)
NoSnapshot == 0                     \* an overlay that belongs to no snapshot
Snapshots == [sequence : Sequences, name : Names]
Ids == 0..(Jobs * MaxSnapshots)     \* the N of <drive>-overlayN
Layers == [id : Ids, snapshot : {NoSnapshot} \cup Sequences,
           needs_creating : BOOLEAN]

\* What a disk or the RAM contains is the number of the guest's last step.
Contents == 0..MaxWrites
BaseImage == Jobs * MaxSnapshots + 1
Files == [backing : Ids \cup {BaseImage}, data : Contents, exists : BOOLEAN]
NoFile == [backing |-> BaseImage, data |-> 0, exists |-> FALSE]
Overlay(backing) == [backing |-> backing, data |-> 0, exists |-> TRUE]

NoRam == MaxWrites + 1              \* no RAM file, or one without its end
NotSaved == [ram |-> NoRam, disks |-> [d \in Drives |-> 0]]
NoState == [chain |-> <<>>, layers |-> [d \in Drives |-> <<>>],
            last_overlay_id |-> [d \in Drives |-> 0]]

VARIABLES
  job,
  pc,
  drive,            \* the drive for_each_drive is at
  chain,            \* the snapshots from the first one to _head
  sequence,         \* _sequence
  layers,           \* the block devices of each drive, the base image left out
  last_overlay_id,
  files,            \* the overlay files of each drive
  active,           \* the overlay that QEMU writes to
  ram,
  ram_files,        \* VM_SNAPSHOTS_DIR
  state_file,       \* qemu_state.json
  milestone,        \* autotest: this job has saved 'lastgood'
  testmodule,       \* autotest: the module that runs
  writes,           \* number of the guest's steps
  saved             \* history: the guest as each snapshot was completed

confVars == <<chain, sequence, layers, last_overlay_id>>
guestVars == <<active, ram, writes>>
diskVars == <<files, ram_files, state_file>>
testVars == <<milestone, testmodule>>
vars == <<job, pc, drive, confVars, diskVars, guestVars, testVars, saved>>

TypeOK ==
  /\ job \in 1..Jobs
  /\ pc \in {"running", "overlay", "sync", "migrate", "revert", "recreate",
             "incoming", "create", "loaded", "dying", "off", "died"}
  /\ drive \in Drives
  /\ chain \in Seq(Snapshots)
  /\ sequence \in {0} \cup Sequences
  /\ layers \in [Drives -> Seq(Layers)]
  /\ last_overlay_id \in [Drives -> Ids]
  /\ files \in [Drives -> [Ids -> Files]]
  /\ active \in [Drives -> Ids]
  /\ ram \in Contents
  /\ ram_files \in [Names -> Contents \cup {NoRam}]
  /\ state_file \in [chain : Seq(Snapshots), layers : [Drives -> Seq(Layers)],
                     last_overlay_id : [Drives -> Ids]]
  /\ milestone \in BOOLEAN
  /\ testmodule \in 0..LastModule
  /\ writes \in Contents
  /\ saved \in [Sequences -> [ram : Contents \cup {NoRam},
                              disks : [Drives -> Contents]]]

FirstLayer == [id |-> 0, snapshot |-> NoSnapshot, needs_creating |-> FALSE]

\* The first job after start_qemu
Init ==
  /\ job = 1
  /\ pc = "running"
  /\ drive = 1
  /\ chain = <<>>
  /\ sequence = 0
  /\ layers = [d \in Drives |-> <<FirstLayer>>]
  /\ last_overlay_id = [d \in Drives |-> 0]
  /\ files = [d \in Drives |->
                [id \in Ids |-> IF id = 0 THEN Overlay(BaseImage) ELSE NoFile]]
  /\ active = [d \in Drives |-> 0]
  /\ ram = 0
  /\ ram_files = [name \in Names |-> NoRam]
  /\ state_file = NoState
  /\ milestone = FALSE
  /\ testmodule = 0
  /\ writes = 0
  /\ saved = [s \in Sequences |-> NotSaved]
-----------------------------------------------------------------------------
Running == pc = "running"
HeadSnapshot == Last(chain)        \* _head
Top(d) == Last(layers[d])

\* What is read from an overlay down through the backing files, which have smaller
\* numbers (only the base image has not)
ReadFrom(overlays, overlay) ==
  LET read[id \in Ids \cup {BaseImage}] ==
        IF id = BaseImage THEN 0
        ELSE IF overlays[id].data # 0 \/ overlays[id].backing >= id
             THEN overlays[id].data
             ELSE read[overlays[id].backing]
  IN  read[overlay]

\* The content of a drive as seen from one of its overlays
Content(d, overlay) == ReadFrom(files[d], overlay)

Disks == [d \in Drives |-> Content(d, active[d])]

\* What save_state writes
State == [chain |-> chain, layers |-> layers, last_overlay_id |-> last_overlay_id]

\* for_each_drive
NextDrive(loop, after) ==
  IF drive = LastDrive THEN drive' = 1 /\ pc' = after
                       ELSE drive' = drive + 1 /\ pc' = loop

GuestWrites(d) ==
  /\ Running
  /\ writes < MaxWrites
  /\ writes' = writes + 1
  /\ ram' = writes'
  /\ files' = [files EXCEPT ![d][active[d]].data = writes']
  /\ UNCHANGED <<job, pc, drive, confVars, active, ram_files, state_file,
                 testVars, saved>>
-----------------------------------------------------------------------------
(* save_snapshot                                                             *)

\* autotest saves 'lastgood', and before a module the snapshot of its name.
Saves(name) ==
  \/ /\ name = LastGood
     /\ milestone' = TRUE
     /\ UNCHANGED testmodule
  \/ /\ TestSnapshots
     /\ name = testmodule + 1
     /\ testmodule' = name
     /\ UNCHANGED milestone

AddSnapshot(name) ==
  /\ Running
  /\ sequence < job * MaxSnapshots
  /\ Saves(name)
  /\ sequence' = sequence + 1
  /\ chain' = Append(chain, [sequence |-> sequence', name |-> name])
  /\ saved' = [saved EXCEPT ![sequence'] = NotSaved]
  /\ pc' = "overlay"
  /\ UNCHANGED <<job, drive, layers, last_overlay_id, diskVars, guestVars>>

NewOverlayId(d) == last_overlay_id[d] + 1

AddSnapshotToDrive ==
  /\ pc = "overlay"
  /\ NewOverlayId(drive) \in Ids
  /\ LET id == NewOverlayId(drive)
     IN  /\ layers' = [layers EXCEPT ![drive] =
                         Append(@, [id |-> id, snapshot |-> HeadSnapshot.sequence,
                                    needs_creating |-> FALSE])]
         /\ last_overlay_id' = [last_overlay_id EXCEPT ![drive] = id]
  /\ pc' = "sync"
  /\ UNCHANGED <<job, drive, chain, sequence, diskVars, guestVars, testVars,
                 saved>>

\* QEMU creates the file and writes to it from now on.
BlockdevSnapshotSync ==
  /\ pc = "sync"
  /\ LET id == Top(drive).id
     IN  /\ files' = [files EXCEPT ![drive][id] = Overlay(active[drive])]
         /\ active' = [active EXCEPT ![drive] = id]
  /\ NextDrive("overlay", "migrate")
  /\ UNCHANGED <<job, confVars, ram, writes, ram_files, state_file, testVars,
                 saved>>

MigrateToFile ==
  /\ pc = "migrate"
  /\ ram_files' = [ram_files EXCEPT ![HeadSnapshot.name] = ram]
  /\ saved' = [saved EXCEPT ![HeadSnapshot.sequence] =
                 [ram |-> ram,
                  disks |-> [d \in Drives |-> Content(d, files[d][active[d]].backing)]]]
  /\ pc' = "running"
  /\ UNCHANGED <<job, drive, confVars, files, state_file, guestVars, testVars>>

\* 'Migrate to file failed'
MigrationFails ==
  /\ pc = "migrate"
  /\ ram_files' = [ram_files EXCEPT ![HeadSnapshot.name] = NoRam]
  /\ pc' = "dying"
  /\ UNCHANGED <<job, drive, confVars, files, state_file, guestVars, testVars,
                 saved>>
-----------------------------------------------------------------------------
(* load_snapshot                                                             *)

Named(name) == { i \in DOMAIN chain : chain[i].name = name }
IsNewest(i, S) == i \in S /\ \A j \in S : j <= i

\* autotest goes back to the milestone of this job, or a job starts from where
\* an earlier one was.
LoadSnapshot(name) ==
  /\ \/ Running /\ milestone /\ name = LastGood
     \/ pc = "loaded" /\ name \in {LastGood, testmodule}
  /\ \/ \E i \in DOMAIN chain :
          /\ IsNewest(i, Named(name))
          /\ chain' = SubSeq(chain, 1, i)
          /\ pc' = "revert"
     \/ Named(name) = {} /\ pc' = "dying" /\ UNCHANGED chain
  /\ state_file' = State           \* close_pipes stops QEMU with do_stop_vm
  /\ UNCHANGED <<job, drive, sequence, layers, last_overlay_id, files, ram_files,
                 guestVars, testVars, saved>>

LayersOf(snapshot) ==
  { i \in DOMAIN layers[drive] : layers[drive][i].snapshot = snapshot }

\* Mutant: the overlay of the snapshot is used as it is.
LayersKept_bug(i) == SubSeq(layers[drive], 1, i)

LayersKept(i) ==
  [SubSeq(layers[drive], 1, i) EXCEPT ![i].needs_creating = TRUE]

RevertDrive ==
  /\ pc = "revert"
  /\ \E i \in DOMAIN layers[drive] :
       /\ IsNewest(i, LayersOf(HeadSnapshot.sequence))
       /\ layers' = [layers EXCEPT ![drive] = LayersKept(i)]
       /\ files' = [files EXCEPT ![drive] =
                      [id \in Ids |->
                         IF \E j \in DOMAIN layers[drive] :
                              j > i /\ layers[drive][j].id = id
                         THEN NoFile ELSE @[id]]]
  /\ NextDrive("revert", "recreate")
  /\ UNCHANGED <<job, chain, sequence, last_overlay_id, ram_files, state_file,
                 guestVars, testVars, saved>>

\* A drive without an overlay of the snapshot: the walk ends below the base image.
RevertDies ==
  /\ pc = "revert"
  /\ LayersOf(HeadSnapshot.sequence) = {}
  /\ layers' = [layers EXCEPT ![drive] = <<>>]
  /\ pc' = "dying"
  /\ UNCHANGED <<job, drive, chain, sequence, last_overlay_id, diskVars,
                 guestVars, testVars, saved>>

\* Mutant: images are created on top of the first one.
LayerBelow_bug(d, i) == IF i = 1 THEN BaseImage ELSE layers[d][1].id

\* init_blockdev_images, in each of its uses with exec_qemu after it
LayerBelow(d, i) == IF i = 1 THEN BaseImage ELSE layers[d][i - 1].id
Created == [d \in Drives |->
             [id \in Ids |->
                IF \E i \in DOMAIN layers[d] :
                     layers[d][i].id = id /\ layers[d][i].needs_creating
                THEN Overlay(LayerBelow(d, CHOOSE i \in DOMAIN layers[d] :
                                             layers[d][i].id = id))
                ELSE files[d][id]]]

Startable == \A d \in Drives : \A i \in DOMAIN layers[d] :
               Created[d][layers[d][i].id].exists

InitBlockdevImages ==
  /\ pc \in {"create", "recreate"}
  /\ files' = Created
  /\ layers' = [d \in Drives |->
                  [i \in DOMAIN layers[d] |->
                     [layers[d][i] EXCEPT !.needs_creating = FALSE]]]
  /\ IF Startable
     THEN /\ active' = [d \in Drives |-> Top(d).id]
          /\ pc' = IF pc = "create" THEN "loaded" ELSE "incoming"
     ELSE pc' = "dying" /\ UNCHANGED active
  /\ UNCHANGED <<job, drive, chain, sequence, last_overlay_id, ram, writes,
                 ram_files, state_file, testVars, saved>>

MigrateIncoming ==
  /\ pc = "incoming"
  /\ IF ram_files[HeadSnapshot.name] = NoRam
     THEN pc' = "dying" /\ UNCHANGED ram
     ELSE pc' = "running" /\ ram' = ram_files[HeadSnapshot.name]
  /\ UNCHANGED <<job, drive, confVars, diskVars, active, writes, testVars, saved>>
-----------------------------------------------------------------------------
(* The end of a job, and the next one                                        *)

\* do_stop_vm: save_state, then the end of QEMU
StopVm ==
  /\ pc \notin {"off", "died"}
  /\ pc \in {"running", "dying"} \/ Sigterms
  /\ state_file' = State
  /\ pc' = "off"
  /\ drive' = 1
  /\ UNCHANGED <<job, confVars, files, ram_files, guestVars, testVars, saved>>

\* from_map counts the snapshots again and looks for the one of each layer.
SequencesMatch == \A i \in DOMAIN state_file.chain :
                    state_file.chain[i].sequence = i
LayersMatch ==
  \A d \in Drives :
    /\ state_file.layers[d] # <<>>
    /\ \A i \in DOMAIN state_file.layers[d] :
         state_file.layers[d][i].snapshot \in 0..Len(state_file.chain)

\* Mutant: the state file has no last_overlay_id.
OverlayIdsLoaded_bug == [d \in Drives |-> 0]

OverlayIdsLoaded == state_file.last_overlay_id

\* A job with SKIPTO=module
SkipTo(module) ==
  /\ pc = "off"
  /\ job < Jobs
  /\ job' = job + 1
  /\ milestone' = FALSE
  /\ testmodule' = module
  /\ IF SequencesMatch /\ LayersMatch
     THEN /\ chain' = state_file.chain
          /\ sequence' = Len(chain')
          /\ layers' = state_file.layers
          /\ last_overlay_id' = OverlayIdsLoaded
          /\ pc' = "create"
     ELSE /\ pc' = "died"
          /\ UNCHANGED confVars
  /\ UNCHANGED <<drive, diskVars, guestVars, saved>>
-----------------------------------------------------------------------------
Next ==
  \/ \E d \in Drives : GuestWrites(d)
  \/ \E name \in Names : AddSnapshot(name) \/ LoadSnapshot(name)
  \/ AddSnapshotToDrive \/ BlockdevSnapshotSync \/ MigrateToFile \/ MigrationFails
  \/ RevertDrive \/ RevertDies \/ InitBlockdevImages \/ MigrateIncoming
  \/ StopVm
  \/ \E module \in Modules : SkipTo(module)

Spec == Init /\ [][Next]_vars
-----------------------------------------------------------------------------
\* 'combined with calls to BlockDevConf and QEMU itself to ... keep the entire
\* object model consistent' (SnapshotConf.pm:6-9): while the guest runs, every
\* drive has one overlay per snapshot, in the same order, each on top of the file
\* below, and QEMU writes to the last one.
ModelConsistent ==
  Running =>
    \A d \in Drives :
      /\ Len(layers[d]) = Len(chain) + 1
      /\ \A i \in DOMAIN chain :
           /\ layers[d][i + 1].snapshot = chain[i].sequence
           /\ files[d][layers[d][i + 1].id].backing = layers[d][i].id
      /\ \A i \in DOMAIN layers[d] : files[d][layers[d][i].id].exists
      /\ active[d] = Top(d).id

\* Whatever is written, deleted or created later, by this job or a later one: the
\* drives are kept as they were at each snapshot that could be loaded.
SnapshotsIntact ==
  \A d \in Drives : \A i \in DOMAIN layers[d] :
    LET s == layers[d][i].snapshot
    IN  s # NoSnapshot /\ saved[s] # NotSaved
          => Content(d, LayerBelow(d, i)) = saved[s].disks[d]

\* Loading a snapshot that was completed brings the RAM and the drives of the same
\* moment back.
RestoredAsSaved ==
  [][ pc = "incoming" /\ pc' = "running" /\ saved[HeadSnapshot.sequence] # NotSaved
        => ram' = saved[HeadSnapshot.sequence].ram /\ Disks = saved[HeadSnapshot.sequence].disks ]_vars

\* 'from_map: The inverse of to_map' (MutParams.pm:39-41): the state that a job
\* has saved can be loaded by the next one ('Restore VM from snapshot and
\* continue', doc/backend_vars.md:198).
StateReloads == pc # "died"
=============================================================================
