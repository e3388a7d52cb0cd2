-------------------------- MODULE SnapshotsProofs --------------------------
(***************************************************************************)
(* Proofs about QemuSnapshots, for any number of drives, jobs and           *)
(* snapshots: the object model, the files and QEMU agree (ModelInv); what   *)
(* lies below a layer is what the drive was at its snapshot (DisksInv); and *)
(* a rollback finds the RAM of the same moment (GuestInv).                  *)
(*                                                                          *)
(* What is read from an overlay is a recursive function. That two reads     *)
(* agree is shown by the least number at which they would differ.           *)
(***************************************************************************)
EXTENDS QemuSnapshots, WellFoundedInduction, TLAPS

LEMMA BoundIsNatural == Jobs * MaxSnapshots \in Nat
  BY BoundsAssumption

LEMMA JobsBound ==
  ASSUME NEW j \in 1..Jobs
  PROVE  j * MaxSnapshots \in Nat /\ j * MaxSnapshots <= Jobs * MaxSnapshots
  BY BoundsAssumption

LEMMA IdsAreBelow ==
  /\ BaseImage \in Nat
  /\ \A id \in Ids : id \in Nat /\ id < BaseImage
  BY BoundIsNatural DEF Ids, BaseImage

LEMMA LeastNumber ==
  ASSUME NEW S \in SUBSET Nat, S # {}
  PROVE  \E n \in S : \A m \in S : n <= m
<1>1. PICK n \in S : \A m \in S : <<m, n>> \notin OpToRel(<, Nat)
  BY WFMin, NatLessThanWellFounded
<1>2. \A m \in S : ~(m < n)
  BY <1>1 DEF OpToRel
<1> QED
  BY <1>2

-----------------------------------------------------------------------------
(* What is read from an overlay                                              *)

\* What one overlay contributes, if `below' is what is read from each one below it
Value(f, below, id) ==
  IF f[id].data # 0 \/ f[id].backing >= id THEN f[id].data ELSE below[f[id].backing]

\* The files have a content: the recursion of ReadFrom defines a function.
LEMMA ReadExists ==
  ASSUME NEW f \in [Ids -> Files]
  PROVE  \E g \in [Nat -> Nat] : \A id \in Ids : g[id] = Value(f, g, id)
<1> USE IdsAreBelow
<1> DEFINE IsRead(g, n) == \A id \in Ids : id < n => g[id] = Value(f, g, id)
           Failing == { n \in Nat : ~ \E g \in [Nat -> Nat] : IsRead(g, n) }
<1>1. ASSUME NEW n \in Failing, \A m \in Failing : n <= m
      PROVE  FALSE
  <2>1. n # 0
    <3>1. IsRead([k \in Nat |-> 0], 0)
      OBVIOUS
    <3> QED
      BY <3>1
  <2>2. n - 1 \in Nat /\ n - 1 \notin Failing
    <3>1. n \in Nat
      OBVIOUS
    <3>2. n - 1 \in Nat /\ ~(n <= n - 1)
      BY <2>1, <3>1
    <3> HIDE DEF Failing
    <3> QED
      BY <1>1, <3>2
  <2>3. PICK g \in [Nat -> Nat] : IsRead(g, n - 1)
    BY <2>2
  <2> DEFINE h == [g EXCEPT ![n - 1] = IF n - 1 \in Ids THEN Value(f, g, n - 1) ELSE 0]
  <2>4. ASSUME NEW id \in Ids
        PROVE  Value(f, g, id) \in Nat
    <3>1. f[id] \in Files
      OBVIOUS
    <3>2. f[id].backing \in Nat /\ f[id].data \in Nat
      BY <3>1 DEF Files, Contents
    <3> QED
      BY <3>2 DEF Value
  <2>5. h \in [Nat -> Nat]
    BY <2>2, <2>4
  <2>6. ASSUME NEW id \in Ids, id < n
        PROVE  h[id] = Value(f, h, id)
    <3>1. f[id].backing \in Nat /\ id \in Nat
      BY DEF Files
    <3>2. Value(f, h, id) = Value(f, g, id)
      BY <2>2, <2>6, <3>1 DEF Value
    <3>3. CASE id = n - 1
      BY <2>2, <3>2, <3>3
    <3>4. CASE id < n - 1
      BY <2>2, <2>3, <3>2, <3>4
    <3> QED
      BY <2>6, <3>3, <3>4
  <2> QED
    BY <2>5, <2>6
<1>2. Failing = {}
  BY <1>1, LeastNumber
<1>3. BaseImage \notin Failing
  BY <1>2
<1>4. PICK g \in [Nat -> Nat] : IsRead(g, BaseImage)
  BY <1>3
<1> QED
  BY <1>4

LEMMA ReadUnfolds ==
  ASSUME NEW f \in [Ids -> Files]
  PROVE  /\ ReadFrom(f, BaseImage) = 0
         /\ \A id \in Ids :
              ReadFrom(f, id) =
                IF f[id].data # 0 \/ f[id].backing >= id
                THEN f[id].data ELSE ReadFrom(f, f[id].backing)
<1> USE IdsAreBelow
<1> DEFINE Step(g) == [id \in Ids \cup {BaseImage} |->
              IF id = BaseImage THEN 0
              ELSE IF f[id].data # 0 \/ f[id].backing >= id
                   THEN f[id].data
                   ELSE g[f[id].backing]]
           read == CHOOSE g : g = Step(g)
<1>1. \E g : g = Step(g)
  <2>1. PICK g \in [Nat -> Nat] : \A id \in Ids : g[id] = Value(f, g, id)
    BY ReadExists
  <2> DEFINE r == [id \in Ids \cup {BaseImage} |-> IF id = BaseImage THEN 0 ELSE g[id]]
  <2>2. ASSUME NEW id \in Ids \cup {BaseImage}
        PROVE  r[id] = Step(r)[id]
    <3>1. CASE id = BaseImage
      BY <3>1
    <3>2. CASE id # BaseImage
      <4>1. id \in Ids /\ f[id].backing \in Ids \cup {BaseImage}
        BY <3>2 DEF Files
      <4>2. r[id] = Value(f, g, id)
        BY <2>1, <3>2, <4>1
      <4>3. f[id].backing < id => f[id].backing # BaseImage /\ f[id].backing \in Ids
        BY <4>1
      <4>5. f[id].backing < id => r[f[id].backing] = g[f[id].backing]
        BY <4>1, <4>3
      <4>6. Value(f, g, id) = Value(f, r, id)
        BY <4>1, <4>5 DEF Value
      <4> QED
        BY <3>2, <4>1, <4>2, <4>6 DEF Value
    <3> QED
      BY <3>1, <3>2
  <2>3. r = Step(r)
    BY <2>2
  <2> QED
    BY <2>3
<1>2. \A o : ReadFrom(f, o) = read[o]
  BY DEF ReadFrom
<1>3. read = Step(read)
  BY <1>1
<1> HIDE DEF read
<1>4. read[BaseImage] = 0
  BY <1>3
<1>5. ASSUME NEW id \in Ids
      PROVE  read[id] = IF f[id].data # 0 \/ f[id].backing >= id
                        THEN f[id].data ELSE read[f[id].backing]
  <2>1. id # BaseImage
    OBVIOUS
  <2> QED
    BY <1>3, <2>1
<1> QED
  BY <1>2, <1>4, <1>5

LEMMA ReadIsContent ==
  ASSUME NEW f \in [Ids -> Files]
  PROVE  \A id \in Ids \cup {BaseImage} : ReadFrom(f, id) \in Contents
<1> 0 \in Contents
  BY BoundsAssumption DEF Contents
<1> USE IdsAreBelow
<1> DEFINE Failing == { id \in Ids : ReadFrom(f, id) \notin Contents }
<1>1. ASSUME NEW id \in Failing, \A other \in Failing : id <= other
      PROVE  FALSE
  <2>1. /\ id \in Ids /\ ReadFrom(f, id) \notin Contents
        /\ f[id].data \in Contents /\ f[id].backing \in Ids \cup {BaseImage}
    BY DEF Files
  <2>2. ReadFrom(f, id) = IF f[id].data # 0 \/ f[id].backing >= id
                          THEN f[id].data ELSE ReadFrom(f, f[id].backing)
    BY ReadUnfolds
  <2>3. f[id].backing < id /\ ReadFrom(f, f[id].backing) \notin Contents
    BY <2>1, <2>2, ReadUnfolds
  <2>4. f[id].backing \in Ids
    BY <2>1, <2>3
  <2>5. f[id].backing \in Failing /\ ~(id <= f[id].backing)
    BY <2>1, <2>3, <2>4
  <2> HIDE DEF Failing
  <2> QED
    BY <1>1, <2>5
<1>2. Failing = {}
  BY <1>1, LeastNumber
<1> QED
  BY <1>2, ReadUnfolds

\* Only the overlay itself and those below it matter.
LEMMA ReadFromBelow ==
  ASSUME NEW f \in [Ids -> Files], NEW g \in [Ids -> Files], NEW overlay \in Ids,
         \A id \in Ids : id <= overlay => f[id] = g[id]
  PROVE  ReadFrom(f, overlay) = ReadFrom(g, overlay)
<1> USE IdsAreBelow
<1> DEFINE Failing == { id \in Ids : id <= overlay /\ ReadFrom(f, id) # ReadFrom(g, id) }
<1>1. ASSUME NEW id \in Failing, \A other \in Failing : id <= other
      PROVE  FALSE
  <2>1. /\ id \in Ids /\ id <= overlay /\ ReadFrom(f, id) # ReadFrom(g, id)
        /\ f[id] = g[id] /\ f[id].backing \in Ids \cup {BaseImage}
    BY DEF Files
  <2>2. /\ ReadFrom(f, id) = IF f[id].data # 0 \/ f[id].backing >= id
                             THEN f[id].data ELSE ReadFrom(f, f[id].backing)
        /\ ReadFrom(g, id) = IF g[id].data # 0 \/ g[id].backing >= id
                             THEN g[id].data ELSE ReadFrom(g, g[id].backing)
    BY ReadUnfolds
  <2>3. f[id].backing < id /\ ReadFrom(f, f[id].backing) # ReadFrom(g, f[id].backing)
    BY <2>1, <2>2, ReadUnfolds
  <2>4. f[id].backing \in Ids /\ f[id].backing <= overlay
    BY <2>1, <2>3
  <2>5. f[id].backing \in Failing /\ ~(id <= f[id].backing)
    BY <2>1, <2>3, <2>4
  <2> HIDE DEF Failing
  <2> QED
    BY <1>1, <2>5
<1>2. Failing = {}
  BY <1>1, LeastNumber
<1> QED
  BY <1>2

-----------------------------------------------------------------------------
(* Sequences, the chain of snapshots and the stack of layers of one drive     *)

LEMMA Appended ==
  ASSUME NEW S, NEW s \in Seq(S), NEW e \in S
  PROVE  /\ Append(s, e) \in Seq(S)
         /\ Len(Append(s, e)) = Len(s) + 1
         /\ \A i \in DOMAIN s : i \in DOMAIN Append(s, e) /\ Append(s, e)[i] = s[i]
         /\ Append(s, e)[Len(s) + 1] = e
         /\ \A i \in DOMAIN Append(s, e) : i \in DOMAIN s \/ i = Len(s) + 1
  OBVIOUS

LEMMA Cut ==
  ASSUME NEW S, NEW s \in Seq(S), NEW k \in DOMAIN s
  PROVE  /\ SubSeq(s, 1, k) \in Seq(S)
         /\ Len(SubSeq(s, 1, k)) = k
         /\ \A i \in DOMAIN SubSeq(s, 1, k) :
              i \in DOMAIN s /\ i <= k /\ SubSeq(s, 1, k)[i] = s[i]
         /\ \A i \in DOMAIN s : i <= k => i \in DOMAIN SubSeq(s, 1, k)
  OBVIOUS

LEMMA IsSequence ==
  ASSUME NEW S, NEW s \in Seq(S)
  PROVE  /\ Len(s) \in Nat /\ DOMAIN s = 1..Len(s)
         /\ \A i \in DOMAIN s : i \in Nat /\ i >= 1 /\ i <= Len(s) /\ s[i] \in S
  OBVIOUS

LEMMA HasOneBelow ==
  ASSUME NEW S, NEW s \in Seq(S), NEW i \in DOMAIN s, i # 1
  PROVE  i \in Nat /\ i - 1 \in DOMAIN s
  OBVIOUS

LEMMA EmptyHasNone ==
  ASSUME NEW S, NEW s \in Seq(S)
  PROVE  s = <<>> <=> Len(s) = 0
  OBVIOUS

LEMMA SequencesAreNumbers ==
  /\ \A s \in Sequences : s \in Nat /\ s # 0
  /\ \A s \in Nat : s # 0 /\ s <= Jobs * MaxSnapshots => s \in Sequences
  /\ \A id \in Nat : id <= Jobs * MaxSnapshots <=> id \in Ids
  BY BoundIsNatural DEF Sequences, Ids

LEMMA LayersTyped ==
  ASSUME NEW L \in Seq(Layers), NEW i \in DOMAIN L
  PROVE  /\ L[i] \in Layers /\ i \in Nat /\ i >= 1 /\ i <= Len(L)
         /\ L[i].id \in Ids /\ L[i].id \in Nat
         /\ L[i].snapshot \in {NoSnapshot} \cup Sequences /\ L[i].snapshot \in Nat
         /\ L[i].needs_creating \in BOOLEAN
<1>1. L[i] \in Layers /\ i \in Nat /\ i >= 1 /\ i <= Len(L)
  OBVIOUS
<1> QED
  BY <1>1, IdsAreBelow, SequencesAreNumbers DEF Layers, NoSnapshot

LEMMA ChainTyped ==
  ASSUME NEW c \in Seq(Snapshots), NEW i \in DOMAIN c
  PROVE  /\ c[i] \in Snapshots /\ i \in Nat /\ i >= 1 /\ i <= Len(c)
         /\ c[i].sequence \in Sequences /\ c[i].sequence \in Nat /\ c[i].sequence # 0
         /\ c[i].name \in Names
<1>1. c[i] \in Snapshots /\ i \in Nat /\ i >= 1 /\ i <= Len(c)
  OBVIOUS
<1> QED
  BY <1>1, SequencesAreNumbers DEF Snapshots

\* The snapshots are numbered upwards.
Counted(c, seq) ==
  /\ \A i \in DOMAIN c : c[i].sequence <= seq
  /\ \A i, j \in DOMAIN c : i < j => c[i].sequence < c[j].sequence

\* The layers of a drive belong to the snapshots of the chain, one by one from the
\* first snapshot on; what is above the chain is younger.
Stack(L, c, last, seq) ==
  /\ \A i \in DOMAIN L : /\ L[i].id <= last
                         /\ L[i].snapshot <= seq
                         /\ i = 1 => L[i].snapshot = NoSnapshot
                         /\ i - 1 \in DOMAIN c => L[i].snapshot = c[i - 1].sequence
  /\ \A i, j \in DOMAIN L : i < j => L[i].id < L[j].id /\ L[i].snapshot < L[j].snapshot

\* Each overlay lies on the file of the layer below.
Backed(L, f) ==
  \A i \in DOMAIN L : i # 1 /\ f[L[i].id].exists => f[L[i].id].backing = L[i - 1].id

LEMMA CountedAppended ==
  ASSUME NEW c \in Seq(Snapshots), NEW seq \in Nat, Counted(c, seq),
         NEW e \in Snapshots, e.sequence = seq + 1
  PROVE  Counted(Append(c, e), seq + 1)
<1> DEFINE d == Append(c, e)
<1>1. ASSUME NEW i \in DOMAIN d
      PROVE  \/ i \in DOMAIN c /\ d[i] = c[i] /\ c[i].sequence \in Nat /\ i <= Len(c)
             \/ i = Len(c) + 1 /\ d[i].sequence = seq + 1
  <2>1. \/ i \in DOMAIN c /\ d[i] = c[i]
        \/ i = Len(c) + 1 /\ d[i] = e
    BY Appended
  <2> HIDE DEF d
  <2> QED
    BY <2>1, ChainTyped
<1>2. \A i, j \in DOMAIN d : i < j => i \in DOMAIN c
  BY Appended, IsSequence
<1> HIDE DEF d
<1>3. Counted(d, seq + 1)
  BY <1>1, <1>2, IsSequence DEF Counted
<1> QED
  BY <1>3 DEF d

LEMMA CountedCut ==
  ASSUME NEW c \in Seq(Snapshots), NEW seq \in Nat, Counted(c, seq), NEW k \in DOMAIN c
  PROVE  Counted(SubSeq(c, 1, k), seq)
<1> DEFINE d == SubSeq(c, 1, k)
<1>1. \A i \in DOMAIN d : i \in DOMAIN c /\ d[i] = c[i]
  BY Cut
<1> HIDE DEF d
<1>2. Counted(d, seq)
  BY <1>1 DEF Counted
<1> QED
  BY <1>2 DEF d

LEMMA StackAppended ==
  ASSUME NEW L \in Seq(Layers), NEW c \in Seq(Snapshots), NEW last \in Nat, NEW seq \in Nat,
         Counted(c, seq), Stack(L, c, last, seq), Len(L) = Len(c), c # <<>>,
         NEW e \in Layers, e.id = last + 1, e.snapshot = c[Len(c)].sequence
  PROVE  Stack(Append(L, e), c, last + 1, seq)
<1> DEFINE M == Append(L, e)
<1>0. Len(c) \in DOMAIN c /\ Len(L) \in Nat /\ Len(L) >= 1
  BY IsSequence
<1>1. \A i \in DOMAIN M : \/ i \in DOMAIN L /\ M[i] = L[i] /\ i <= Len(L) /\ i \in Nat
                          \/ i = Len(L) + 1 /\ M[i] = e
  BY Appended, LayersTyped
<1>2. \A i \in DOMAIN L : L[i].id \in Nat /\ L[i].snapshot \in Nat /\ L[i].snapshot < e.snapshot
  <2> SUFFICES ASSUME NEW i \in DOMAIN L
               PROVE  L[i].snapshot < e.snapshot
    BY LayersTyped
  <2>1. CASE i = 1
    BY <1>0, <2>1, ChainTyped, LayersTyped DEF Stack, NoSnapshot
  <2>2. CASE i # 1
    <3>1. i - 1 \in DOMAIN c /\ i - 1 < Len(c)
      BY <2>2, IsSequence
    <3> QED
      BY <1>0, <3>1, ChainTyped DEF Stack, Counted
  <2> QED
    BY <2>1, <2>2
<1>3. e.id \in Nat /\ e.snapshot \in Nat /\ e.snapshot <= seq
  BY <1>0, ChainTyped DEF Counted
<1> HIDE DEF M
<1>4. ASSUME NEW i \in DOMAIN M
      PROVE  /\ M[i].id <= last + 1
             /\ M[i].snapshot <= seq
             /\ i = 1 => M[i].snapshot = NoSnapshot
             /\ i - 1 \in DOMAIN c => M[i].snapshot = c[i - 1].sequence
  <2>1. CASE i \in DOMAIN L /\ M[i] = L[i]
    BY <1>2, <2>1 DEF Stack
  <2>2. CASE i = Len(L) + 1 /\ M[i] = e
    BY <1>0, <1>3, <2>2
  <2> QED
    BY <1>1, <2>1, <2>2
<1>5. ASSUME NEW i \in DOMAIN M, NEW j \in DOMAIN M, i < j
      PROVE  M[i].id < M[j].id /\ M[i].snapshot < M[j].snapshot
  <2>1. i \in DOMAIN L /\ M[i] = L[i]
    BY <1>0, <1>1, <1>5
  <2>2. CASE j \in DOMAIN L /\ M[j] = L[j]
    BY <1>5, <2>1, <2>2 DEF Stack
  <2>3. CASE M[j] = e
    <3>1. L[i].id <= last
      BY <2>1 DEF Stack
    <3> QED
      BY <1>2, <1>3, <2>1, <2>3, <3>1
  <2> QED
    BY <1>1, <2>2, <2>3
<1>6. Stack(M, c, last + 1, seq)
  BY <1>4, <1>5 DEF Stack
<1> QED
  BY <1>6 DEF M

LEMMA StackChainGrown ==
  ASSUME NEW L \in Seq(Layers), NEW c \in Seq(Snapshots), NEW last \in Nat, NEW seq \in Nat,
         Stack(L, c, last, seq), Len(L) = Len(c) + 1, NEW e \in Snapshots
  PROVE  Stack(L, Append(c, e), last, seq + 1)
<1> DEFINE d == Append(c, e)
<1>1. ASSUME NEW i \in DOMAIN L
      PROVE  /\ L[i].id <= last
             /\ L[i].snapshot <= seq + 1
             /\ i = 1 => L[i].snapshot = NoSnapshot
             /\ i - 1 \in DOMAIN d => L[i].snapshot = d[i - 1].sequence
  <2>1. L[i].snapshot \in Nat /\ L[i].snapshot <= seq
    BY LayersTyped DEF Stack
  <2>2. i - 1 \in DOMAIN d => i - 1 \in DOMAIN c /\ d[i - 1] = c[i - 1]
    BY Appended, IsSequence, LayersTyped
  <2> HIDE DEF d
  <2> QED
    BY <2>1, <2>2 DEF Stack
<1> QED
  BY <1>1 DEF Stack

LEMMA StackChainCut ==
  ASSUME NEW L \in Seq(Layers), NEW c \in Seq(Snapshots), NEW last \in Nat, NEW seq \in Nat,
         Stack(L, c, last, seq), NEW k \in DOMAIN c
  PROVE  Stack(L, SubSeq(c, 1, k), last, seq)
  BY Cut DEF Stack

\* Layers that differ only in what has to be created
LEMMA StackCut ==
  ASSUME NEW L \in Seq(Layers), NEW M \in Seq(Layers), NEW c, NEW last, NEW seq,
         Stack(L, c, last, seq),
         \A i \in DOMAIN M :
           i \in DOMAIN L /\ M[i].id = L[i].id /\ M[i].snapshot = L[i].snapshot
  PROVE  Stack(M, c, last, seq)
<1>1. ASSUME NEW i \in DOMAIN M
      PROVE  /\ M[i].id <= last
             /\ M[i].snapshot <= seq
             /\ i = 1 => M[i].snapshot = NoSnapshot
             /\ i - 1 \in DOMAIN c => M[i].snapshot = c[i - 1].sequence
  BY DEF Stack
<1>2. ASSUME NEW i \in DOMAIN M, NEW j \in DOMAIN M, i < j
      PROVE  M[i].id < M[j].id /\ M[i].snapshot < M[j].snapshot
  BY <1>2 DEF Stack
<1> QED
  BY <1>1, <1>2 DEF Stack

-----------------------------------------------------------------------------
(* The inductive invariant of the object model                               *)

\* A chain that is being worked on has a head; only the loops over the drives
\* and what ends them are at another drive than the first.
LoopInv ==
  /\ pc \in {"overlay", "sync", "migrate", "revert", "recreate", "incoming"} => chain # <<>>
  /\ pc \notin {"overlay", "sync", "revert", "dying"} => drive = 1

ChainInv == Counted(chain, sequence)

StacksInv == \A d \in Drives : Stack(layers[d], chain, last_overlay_id[d], sequence)

\* How many layers each drive has, in each of the loops over the drives
LengthInv(d) ==
  /\ pc \in {"running", "migrate", "recreate", "incoming"} => Len(layers[d]) = Len(chain) + 1
  /\ pc = "overlay" => Len(layers[d]) = IF d < drive THEN Len(chain) + 1 ELSE Len(chain)
  /\ pc = "sync" => Len(layers[d]) = IF d <= drive THEN Len(chain) + 1 ELSE Len(chain)
  /\ pc = "revert" /\ d < drive => Len(layers[d]) = Len(chain) + 1
  /\ pc \notin {"off", "dying", "died"} => layers[d] # <<>>
  /\ layers[d] # <<>> => Len(layers[d]) >= Len(chain)
LengthsInv == \A d \in Drives : LengthInv(d)

\* Only the overlay above a snapshot that is loaded has to be created.
CreatingInv ==
  \A d \in Drives : \A i \in DOMAIN layers[d] :
    layers[d][i].needs_creating =>
      /\ i = Len(layers[d]) /\ i # 1
      /\ pc \in {"revert", "recreate", "create", "dying", "off", "died"}

\* No file has a number that is still to come.
BornInv == \A d \in Drives : \A id \in Ids : files[d][id].exists => id <= last_overlay_id[d]

BackedInv == \A d \in Drives : Backed(layers[d], files[d])

\* While QEMU runs all files are there, and it writes to the last one; at `sync' the
\* overlay of one drive is not there yet.
IsComplete(d) ==
  /\ active[d] = Top(d).id
  /\ \A i \in DOMAIN layers[d] : files[d][layers[d][i].id].exists
ActiveInv ==
  \A d \in Drives :
    /\ pc \in {"running", "overlay", "migrate", "incoming"} => IsComplete(d)
    /\ pc = "sync" /\ d # drive => IsComplete(d)
    /\ pc = "sync" /\ d = drive =>
         /\ active[d] = layers[d][Len(layers[d]) - 1].id
         /\ \A i \in DOMAIN layers[d] : i < Len(layers[d]) => files[d][layers[d][i].id].exists

StateInv == pc = "off" => state_file = State

ModelInv ==
  /\ TypeOK /\ LoopInv /\ ChainInv /\ StacksInv /\ LengthsInv /\ CreatingInv
  /\ BornInv /\ BackedInv /\ ActiveInv /\ StateInv

LEMMA InitModel == Init => ModelInv
<1> SUFFICES ASSUME Init PROVE ModelInv
  OBVIOUS
<1> USE DEF Init
<1>0. 0 \in Ids /\ 0 \in Contents /\ 1 \in Drives /\ BaseImage \in Nat
  <2>1. 0 \in Ids
    BY BoundIsNatural, SequencesAreNumbers
  <2>2. 0 \in Contents /\ 1 \in Drives
    BY BoundsAssumption, DrivesAssumption DEF Contents, Drives
  <2> QED
    BY <2>1, <2>2, IdsAreBelow
<1>1. FirstLayer \in Layers
  BY <1>0 DEF FirstLayer, Layers
<1>2. \A d \in Drives : layers[d] = <<FirstLayer>> /\ layers[d] \in Seq(Layers)
  BY <1>1
<1>3. Overlay(BaseImage) \in Files /\ NoFile \in Files
  BY <1>0 DEF Overlay, NoFile, Files
<1>4. NotSaved \in [ram : Contents \cup {NoRam}, disks : [Drives -> Contents]]
  BY <1>0 DEF NotSaved
<1>5. NoState \in [chain : Seq(Snapshots), layers : [Drives -> Seq(Layers)],
                   last_overlay_id : [Drives -> Ids]]
  <2>1. [d \in Drives |-> <<>>] \in [Drives -> Seq(Layers)]
    OBVIOUS
  <2>2. [d \in Drives |-> 0] \in [Drives -> Ids]
    BY <1>0
  <2> QED
    BY <2>1, <2>2 DEF NoState
<1>6. TypeOK
  <2>1. files \in [Drives -> [Ids -> Files]]
    BY <1>3
  <2>2. layers \in [Drives -> Seq(Layers)]
    BY <1>2
  <2>3. /\ job \in 1..Jobs /\ chain \in Seq(Snapshots) /\ ram \in Contents /\ writes \in Contents
        /\ testmodule \in 0..LastModule /\ milestone \in BOOLEAN /\ drive \in Drives
        /\ pc \in {"running", "overlay", "sync", "migrate", "revert", "recreate",
                   "incoming", "create", "loaded", "dying", "off", "died"}
    BY <1>0, BoundsAssumption, DrivesAssumption
  <2>4. /\ sequence \in {0} \cup Sequences /\ last_overlay_id \in [Drives -> Ids]
        /\ active \in [Drives -> Ids] /\ ram_files \in [Names -> Contents \cup {NoRam}]
    BY <1>0
  <2>5. /\ state_file \in [chain : Seq(Snapshots), layers : [Drives -> Seq(Layers)],
                           last_overlay_id : [Drives -> Ids]]
        /\ saved \in [Sequences -> [ram : Contents \cup {NoRam}, disks : [Drives -> Contents]]]
    BY <1>4, <1>5
  <2> QED
    BY <2>1, <2>2, <2>3, <2>4, <2>5 DEF TypeOK
<1>7. \A d \in Drives : /\ DOMAIN layers[d] = {1} /\ Len(layers[d]) = 1
                        /\ layers[d][1] = FirstLayer /\ layers[d] # <<>> /\ Top(d) = FirstLayer
  BY <1>2 DEF Top, Last
<1>8. LoopInv /\ ChainInv /\ StateInv
  BY DEF LoopInv, ChainInv, Counted, StateInv
<1>9. StacksInv
  <2>1. ASSUME NEW d \in Drives
        PROVE  Stack(<<FirstLayer>>, <<>>, 0, 0)
    <3> DEFINE L == <<FirstLayer>>
    <3>1. \A i \in DOMAIN L : i = 1 /\ L[i].id = 0 /\ L[i].snapshot = 0
      BY DEF FirstLayer, NoSnapshot
    <3>2. DOMAIN <<>> = {}
      OBVIOUS
    <3> HIDE DEF L
    <3>3. Stack(L, <<>>, 0, 0)
      BY <3>1, <3>2 DEF Stack, NoSnapshot
    <3> QED
      BY <3>3 DEF L
  <2> QED
    BY <1>2, <2>1 DEF StacksInv
<1>10. LengthsInv
  BY <1>7 DEF LengthsInv, LengthInv
<1>11. CreatingInv
  BY <1>7 DEF CreatingInv, FirstLayer
<1>12. BornInv
  BY <1>0 DEF BornInv, NoFile, Overlay
<1>13. BackedInv
  BY <1>7 DEF BackedInv, Backed
<1>14. ActiveInv
  BY <1>0, <1>7 DEF ActiveInv, IsComplete, Overlay, FirstLayer
<1> QED
  BY <1>6, <1>8, <1>9, <1>10, <1>11, <1>12, <1>13, <1>14 DEF ModelInv

LEMMA GuestWritesModel ==
  ASSUME ModelInv, NEW d \in Drives, GuestWrites(d)
  PROVE  ModelInv'
<1> USE DEF ModelInv
<1>1. active[d] \in Ids /\ writes + 1 \in Contents
  BY BoundsAssumption DEF TypeOK, GuestWrites, Contents
<1>2. /\ UNCHANGED <<job, pc, drive, confVars, active, ram_files, state_file, testVars, saved>>
      /\ writes' = writes + 1 /\ ram' = writes + 1
      /\ files' = [files EXCEPT ![d][active[d]].data = writes + 1]
  BY DEF GuestWrites
<1>3. files' \in [Drives -> [Ids -> Files]]
  <2> DEFINE new == [files[d][active[d]] EXCEPT !.data = writes + 1]
  <2>1. files \in [Drives -> [Ids -> Files]]
    BY DEF TypeOK
  <2>2. new \in Files
    BY <1>1, <2>1 DEF Files
  <2>3. files' = [files EXCEPT ![d] = [files[d] EXCEPT ![active[d]] = new]]
    BY <1>2, <2>1
  <2> HIDE DEF new
  <2> QED
    BY <1>1, <2>1, <2>2, <2>3
<1>4. \A e \in Drives, id \in Ids : /\ files'[e][id].exists = files[e][id].exists
                                    /\ files'[e][id].backing = files[e][id].backing
  BY <1>1, <1>2 DEF TypeOK, Files
<1>5. TypeOK'
  BY <1>1, <1>2, <1>3 DEF TypeOK, confVars, testVars
<1>6. LoopInv' /\ ChainInv' /\ StacksInv' /\ LengthsInv' /\ CreatingInv' /\ StateInv'
  BY <1>2 DEF confVars, LoopInv, ChainInv, StacksInv, LengthsInv, LengthInv, CreatingInv,
              StateInv, State
<1>7. BornInv'
  BY <1>2, <1>4 DEF confVars, BornInv
<1>8. \A e \in Drives : \A i \in DOMAIN layers[e] : layers[e][i].id \in Ids
  BY LayersTyped DEF TypeOK
<1>9. BackedInv'
  BY <1>2, <1>4, <1>8 DEF confVars, BackedInv, Backed
<1>10. ActiveInv'
  BY <1>2, <1>4, <1>8 DEF confVars, ActiveInv, IsComplete, Top, Last
<1> QED
  BY <1>5, <1>6, <1>7, <1>9, <1>10

LEMMA AddSnapshotModel ==
  ASSUME ModelInv, NEW name \in Names, AddSnapshot(name)
  PROVE  ModelInv'
<1> USE DEF ModelInv
<1> DEFINE e == [sequence |-> sequence + 1, name |-> name]
<1>1. /\ pc = "running" /\ pc' = "overlay" /\ sequence' = sequence + 1
      /\ chain' = Append(chain, e) /\ Saves(name)
      /\ saved' = [saved EXCEPT ![sequence + 1] = NotSaved]
      /\ UNCHANGED <<job, drive, layers, last_overlay_id, diskVars, guestVars>>
  BY DEF AddSnapshot, Running
<1>2. /\ chain \in Seq(Snapshots) /\ sequence \in Nat /\ sequence + 1 \in Sequences
      /\ layers \in [Drives -> Seq(Layers)] /\ drive = 1
      /\ \A d \in Drives : last_overlay_id[d] \in Nat
  <2>1. job * MaxSnapshots <= Jobs * MaxSnapshots /\ job * MaxSnapshots \in Nat
    BY JobsBound DEF TypeOK
  <2>2. sequence \in Nat /\ sequence < job * MaxSnapshots
    BY SequencesAreNumbers DEF TypeOK, AddSnapshot
  <2>3. sequence + 1 \in Sequences
    BY <2>1, <2>2, BoundIsNatural, SequencesAreNumbers
  <2> QED
    BY <1>1, <2>2, <2>3, IdsAreBelow DEF TypeOK, LoopInv
<1>3. e \in Snapshots
  BY <1>2 DEF Snapshots
<1>4. /\ chain' \in Seq(Snapshots) /\ Len(chain') = Len(chain) + 1 /\ chain' # <<>>
      /\ Len(chain) \in Nat
  BY <1>1, <1>2, <1>3, Appended
<1>5. TypeOK'
  <2>1. NotSaved \in [ram : Contents \cup {NoRam}, disks : [Drives -> Contents]]
    BY BoundsAssumption DEF NotSaved, Contents
  <2>2. saved' \in [Sequences -> [ram : Contents \cup {NoRam}, disks : [Drives -> Contents]]]
    BY <1>1, <1>2, <2>1 DEF TypeOK
  <2>3. milestone' \in BOOLEAN /\ testmodule' \in 0..LastModule
    <3>1. milestone \in BOOLEAN /\ testmodule \in 0..LastModule
      BY DEF TypeOK
    <3>2. name \in 0..LastModule
      BY DrivesAssumption DEF Names, Modules, LastGood
    <3>3. testmodule' = testmodule \/ testmodule' = name
      BY <1>1 DEF Saves
    <3>4. milestone' = milestone \/ milestone' = TRUE
      BY <1>1 DEF Saves
    <3> QED
      BY <3>1, <3>2, <3>3, <3>4
  <2> QED
    BY <1>1, <1>2, <1>4, <2>2, <2>3 DEF TypeOK, diskVars, guestVars
<1>6. LoopInv'
  BY <1>1, <1>2, <1>4 DEF LoopInv
<1>7. ChainInv'
  BY <1>1, <1>2, <1>3, CountedAppended DEF ChainInv
<1>8. \A d \in Drives : /\ Len(layers[d]) = Len(chain) + 1 /\ layers[d] # <<>>
                        /\ layers[d] \in Seq(Layers)
  BY <1>1, <1>2 DEF LengthsInv, LengthInv
<1>9. StacksInv'
  BY <1>1, <1>2, <1>3, <1>8, StackChainGrown DEF StacksInv
<1>10. LengthsInv'
  <2> SUFFICES ASSUME NEW d \in Drives PROVE LengthInv(d)'
    BY DEF LengthsInv
  <2>1. ~(d < 1) /\ Len(layers[d]) = Len(chain')
    BY <1>4, <1>8 DEF Drives
  <2> QED
    BY <1>1, <1>2, <1>4, <1>8, <2>1 DEF LengthInv
<1>11. CreatingInv'
  BY <1>1 DEF CreatingInv
<1>12. BornInv' /\ BackedInv' /\ ActiveInv' /\ StateInv'
  BY <1>1 DEF diskVars, guestVars, BornInv, BackedInv, ActiveInv, IsComplete, Top, Last, StateInv
<1> QED
  BY <1>5, <1>6, <1>7, <1>9, <1>10, <1>11, <1>12

LEMMA AddSnapshotToDriveModel ==
  ASSUME ModelInv, AddSnapshotToDrive
  PROVE  ModelInv'
<1> USE DEF ModelInv
<1> DEFINE id == last_overlay_id[drive] + 1
           e == [id |-> id, snapshot |-> HeadSnapshot.sequence, needs_creating |-> FALSE]
<1>1. /\ pc = "overlay" /\ pc' = "sync" /\ id \in Ids
      /\ layers' = [layers EXCEPT ![drive] = Append(layers[drive], e)]
      /\ last_overlay_id' = [last_overlay_id EXCEPT ![drive] = id]
      /\ UNCHANGED <<job, drive, chain, sequence, diskVars, guestVars, testVars, saved>>
  BY DEF AddSnapshotToDrive, NewOverlayId, TypeOK
<1>2. /\ chain \in Seq(Snapshots) /\ sequence \in Nat /\ drive \in Drives
      /\ layers \in [Drives -> Seq(Layers)] /\ chain # <<>>
      /\ last_overlay_id \in [Drives -> Ids] /\ files \in [Drives -> [Ids -> Files]]
      /\ \A d \in Drives : last_overlay_id[d] \in Nat
  BY <1>1, SequencesAreNumbers, IdsAreBelow DEF TypeOK, LoopInv
<1>3. /\ Len(chain) \in DOMAIN chain /\ HeadSnapshot = chain[Len(chain)]
      /\ HeadSnapshot.sequence \in Sequences
  <2>1. Len(chain) \in DOMAIN chain
    BY <1>2, IsSequence
  <2>2. HeadSnapshot = chain[Len(chain)]
    BY DEF HeadSnapshot, Last
  <2> QED
    BY <1>2, <2>1, <2>2, ChainTyped
<1>4. e \in Layers
  BY <1>1, <1>3 DEF Layers
<1>5. ASSUME NEW d \in Drives, d # drive
      PROVE  layers'[d] = layers[d] /\ last_overlay_id'[d] = last_overlay_id[d]
  BY <1>1, <1>2, <1>5
<1> DEFINE old == layers[drive]
           new == Append(old, e)
<1>6. layers'[drive] = new /\ last_overlay_id'[drive] = id /\ old \in Seq(Layers)
  BY <1>1, <1>2
<1>7. /\ new \in Seq(Layers) /\ Len(new) = Len(old) + 1 /\ new # <<>>
      /\ new[Len(new)] = e /\ new[Len(new) - 1] = old[Len(old)]
      /\ Len(old) = Len(chain) /\ Len(old) \in DOMAIN old /\ Len(old) \in Nat
      /\ \A i \in DOMAIN new : i \in Nat /\ ((i \in DOMAIN old /\ new[i] = old[i]) \/ i = Len(new))
      /\ \A i \in DOMAIN old : i < Len(new)
  <2>1. Len(old) = Len(chain) /\ old # <<>> /\ Len(old) \in Nat /\ Len(old) \in DOMAIN old
    <3>1. LengthInv(drive)
      BY <1>2 DEF LengthsInv
    <3>2. Len(old) = Len(chain) /\ old # <<>>
      BY <1>1, <1>2, <3>1 DEF LengthInv, Drives
    <3> HIDE DEF old
    <3> QED
      BY <1>6, <3>2, IsSequence
  <2>2. \A i \in DOMAIN new : i \in Nat /\ ((i \in DOMAIN old /\ new[i] = old[i]) \/ i = Len(old) + 1)
    BY <1>4, <1>6, Appended
  <2>3. /\ new \in Seq(Layers) /\ Len(new) = Len(old) + 1
        /\ new[Len(old) + 1] = e /\ new[Len(old)] = old[Len(old)]
    BY <1>4, <1>6, <2>1, Appended
  <2>4. \A i \in DOMAIN old : i < Len(old) + 1
    BY <1>6, IsSequence
  <2> HIDE DEF old, new, e
  <2> QED
    BY <2>1, <2>2, <2>3, <2>4
<1>8. Stack(new, chain, id, sequence)
  <2>1. Stack(old, chain, last_overlay_id[drive], sequence)
    BY <1>2 DEF StacksInv
  <2>2. last_overlay_id[drive] \in Nat
    BY <1>2
  <2>3. Counted(chain, sequence)
    BY DEF ChainInv
  <2> QED
    BY <1>2, <1>3, <1>4, <1>6, <1>7, <2>1, <2>2, <2>3, StackAppended
<1>9. ~files[drive][id].exists
  BY <1>1, <1>2 DEF BornInv
<1> HIDE DEF old, new
<1>10. TypeOK'
  <2>1. layers' \in [Drives -> Seq(Layers)] /\ last_overlay_id' \in [Drives -> Ids]
    BY <1>1, <1>2, <1>7 DEF old, new
  <2> HIDE DEF e
  <2> QED
    BY <1>1, <2>1 DEF TypeOK, diskVars, guestVars, testVars
<1>11. LoopInv' /\ ChainInv' /\ StateInv'
  BY <1>1 DEF LoopInv, ChainInv, StateInv
<1>12. StacksInv'
  BY <1>1, <1>5, <1>6, <1>8 DEF StacksInv
<1>13. LengthsInv'
  <2> SUFFICES ASSUME NEW d \in Drives PROVE LengthInv(d)'
    BY DEF LengthsInv
  <2>1. d \in Nat /\ drive \in Nat /\ Len(chain) \in Nat
    BY <1>2, IsSequence DEF Drives
  <2>2. CASE d = drive
    BY <1>1, <1>6, <1>7, <2>1, <2>2 DEF LengthInv
  <2>3. CASE d # drive
    <3>1. LengthInv(d)
      BY DEF LengthsInv
    <3>2. layers'[d] = layers[d] /\ chain' = chain /\ drive' = drive
      BY <1>1, <1>5, <2>3
    <3>3. d <= drive <=> d < drive
      BY <2>1, <2>3
    <3> QED
      BY <1>1, <3>1, <3>2, <3>3 DEF LengthInv
  <2> QED
    BY <2>2, <2>3
<1>14. \A i \in DOMAIN new : (i \in DOMAIN old /\ new[i] = old[i]) \/ (i = Len(new) /\ new[i] = e)
  <2> HIDE DEF e
  <2> QED
    BY <1>7
<1>15. CreatingInv'
  <2> SUFFICES ASSUME NEW d \in Drives, NEW i \in DOMAIN layers'[d]
               PROVE  ~layers'[d][i].needs_creating
    BY DEF CreatingInv
  <2>1. CASE d = drive
    BY <1>1, <1>6, <1>14, <2>1 DEF CreatingInv, old
  <2>2. CASE d # drive
    BY <1>1, <1>5, <2>2 DEF CreatingInv
  <2> QED
    BY <2>1, <2>2
<1>16. BornInv'
  <2> SUFFICES ASSUME NEW d \in Drives, NEW n \in Ids, files[d][n].exists
               PROVE  n <= last_overlay_id'[d]
    BY <1>1 DEF BornInv, diskVars
  <2>1. n <= last_overlay_id[d] /\ last_overlay_id[d] \in Nat /\ n \in Nat
    BY <1>2, IdsAreBelow DEF BornInv
  <2> QED
    BY <1>5, <1>6, <2>1
<1>17. BackedInv'
  <2> SUFFICES ASSUME NEW d \in Drives PROVE Backed(layers'[d], files[d])
    BY <1>1 DEF BackedInv, diskVars
  <2>1. CASE d = drive
    <3> SUFFICES ASSUME NEW i \in DOMAIN new, i # 1, files[d][new[i].id].exists
                 PROVE  files[d][new[i].id].backing = new[i - 1].id
      BY <1>6, <2>1 DEF Backed
    <3>1. i \in DOMAIN old /\ new[i] = old[i]
      BY <1>9, <1>14, <2>1
    <3>2. i - 1 \in DOMAIN old /\ i - 1 \in DOMAIN new /\ i - 1 # Len(new)
      BY <1>6, <1>7, <3>1, IsSequence
    <3>3. new[i - 1] = old[i - 1]
      BY <1>14, <3>2
    <3> QED
      BY <2>1, <3>1, <3>3 DEF BackedInv, Backed, old
  <2>2. CASE d # drive
    BY <1>5, <2>2 DEF BackedInv
  <2> QED
    BY <2>1, <2>2
<1>18. ActiveInv'
  <2>1. \A d \in Drives : IsComplete(d)
    BY <1>1 DEF ActiveInv
  <2>2. ASSUME NEW d \in Drives, d # drive
        PROVE  IsComplete(d)'
    BY <1>1, <1>5, <2>1, <2>2 DEF IsComplete, Top, Last, diskVars, guestVars
  <2>3. active[drive] = new[Len(new) - 1].id
    BY <1>2, <1>7, <2>1 DEF IsComplete, Top, Last, old
  <2>4. ASSUME NEW i \in DOMAIN new, i < Len(new)
        PROVE  files[drive][new[i].id].exists
    <3>1. i \in DOMAIN old /\ new[i] = old[i]
      BY <1>7, <2>4
    <3> QED
      BY <1>2, <2>1, <3>1 DEF IsComplete, old
  <2> QED
    BY <1>1, <1>6, <2>2, <2>3, <2>4 DEF ActiveInv, diskVars, guestVars
<1> QED
  BY <1>10, <1>11, <1>12, <1>13, <1>15, <1>16, <1>17, <1>18

\* What the type invariant and the stack say of one drive
LEMMA DriveTyped ==
  ASSUME TypeOK, NEW d \in Drives
  PROVE  /\ layers[d] \in Seq(Layers) /\ files[d] \in [Ids -> Files] /\ active[d] \in Ids
         /\ last_overlay_id[d] \in Ids /\ last_overlay_id[d] \in Nat
         /\ chain \in Seq(Snapshots) /\ sequence \in Nat /\ d \in Nat /\ d >= 1
         /\ d <= LastDrive /\ drive \in Nat /\ drive \in Drives /\ LastDrive \in Nat
         /\ Len(chain) \in Nat /\ Len(layers[d]) \in Nat
<1>1. /\ layers[d] \in Seq(Layers) /\ files[d] \in [Ids -> Files] /\ active[d] \in Ids
      /\ last_overlay_id[d] \in Ids /\ chain \in Seq(Snapshots)
      /\ sequence \in {0} \cup Sequences /\ drive \in Drives
  BY DEF TypeOK
<1>2. last_overlay_id[d] \in Nat /\ sequence \in Nat
  BY <1>1, IdsAreBelow, SequencesAreNumbers
<1>3. d \in Nat /\ d >= 1 /\ d <= LastDrive /\ drive \in Nat /\ LastDrive \in Nat
  BY <1>1, DrivesAssumption DEF Drives
<1>4. Len(chain) \in Nat /\ Len(layers[d]) \in Nat
  BY <1>1, IsSequence
<1> QED
  BY <1>1, <1>2, <1>3, <1>4

LEMMA HeadTyped ==
  ASSUME TypeOK, chain # <<>>
  PROVE  /\ Len(chain) \in DOMAIN chain /\ HeadSnapshot = chain[Len(chain)]
         /\ HeadSnapshot.sequence \in Sequences /\ HeadSnapshot.sequence # 0
         /\ HeadSnapshot.name \in Names
<1>1. chain \in Seq(Snapshots)
  BY DEF TypeOK
<1>2. Len(chain) \in DOMAIN chain
  BY <1>1, IsSequence
<1>3. HeadSnapshot = chain[Len(chain)]
  BY DEF HeadSnapshot, Last
<1> QED
  BY <1>1, <1>2, <1>3, ChainTyped

LEMMA BlockdevSnapshotSyncModel ==
  ASSUME ModelInv, BlockdevSnapshotSync
  PROVE  ModelInv'
<1> USE DEF ModelInv
<1> DEFINE L == layers[drive]
           id == L[Len(L)].id
<1>1. /\ pc = "sync"
      /\ files' = [files EXCEPT ![drive][id] = Overlay(active[drive])]
      /\ active' = [active EXCEPT ![drive] = id]
      /\ UNCHANGED <<job, confVars, ram, writes, ram_files, state_file, testVars, saved>>
      /\ \/ drive = LastDrive /\ drive' = 1 /\ pc' = "migrate"
         \/ drive # LastDrive /\ drive' = drive + 1 /\ pc' = "overlay"
  BY DEF BlockdevSnapshotSync, NextDrive, Top, Last
<1>2. /\ L \in Seq(Layers) /\ drive \in Drives /\ chain # <<>> /\ drive \in Nat
      /\ files \in [Drives -> [Ids -> Files]] /\ active \in [Drives -> Ids] /\ LastDrive \in Nat
  BY <1>1, DriveTyped DEF TypeOK, LoopInv
<1>3. /\ Len(L) = Len(chain) + 1 /\ Len(L) \in DOMAIN L /\ Len(L) \in Nat /\ Len(L) > 1
      /\ Len(L) - 1 \in DOMAIN L /\ Len(chain) \in Nat
  <2>1. LengthInv(drive)
    BY <1>2 DEF LengthsInv
  <2>2. Len(L) = Len(chain) + 1
    BY <1>1, <1>2, <2>1 DEF LengthInv
  <2>3. chain \in Seq(Snapshots) /\ Len(chain) \in Nat /\ Len(chain) # 0
    BY <1>2 DEF TypeOK
  <2> HIDE DEF L
  <2> QED
    BY <1>2, <2>2, <2>3, IsSequence
<1>4. id \in Ids /\ active[drive] \in Ids /\ active[drive] = L[Len(L) - 1].id
  <2>1. active[drive] = L[Len(L) - 1].id
    BY <1>1, <1>2 DEF ActiveInv
  <2> HIDE DEF L
  <2> QED
    BY <1>2, <1>3, <2>1, LayersTyped
<1>5. Overlay(active[drive]) \in Files
  BY <1>4, BoundsAssumption DEF Overlay, Files, Contents
<1>6. \A d \in Drives, n \in Ids :
        files'[d][n] = IF d = drive /\ n = id THEN Overlay(active[drive]) ELSE files[d][n]
  <2> HIDE DEF id
  <2> QED
    BY <1>1, <1>2, <1>4
<1>7. \A d \in Drives : active'[d] = IF d = drive THEN id ELSE active[d]
  BY <1>1, <1>2
<1>8. \A d \in Drives : \A i \in DOMAIN layers[d] : layers[d][i].id \in Ids /\ i \in Nat
  BY LayersTyped DEF TypeOK
<1>9. \A i \in DOMAIN L : i = Len(L) \/ (i < Len(L) /\ L[i].id # id)
  <2>1. Stack(L, chain, last_overlay_id[drive], sequence)
    BY <1>2 DEF StacksInv
  <2>2. \A i \in DOMAIN L : i < Len(L) => L[i].id < id
    BY <1>3, <2>1 DEF Stack
  <2>3. \A i \in DOMAIN L : i \in Nat /\ i <= Len(L) /\ L[i].id \in Nat
    BY <1>2, LayersTyped
  <2>4. id \in Nat
    BY <1>4, IdsAreBelow
  <2> HIDE DEF L, id
  <2> QED
    BY <1>3, <2>2, <2>3, <2>4
<1> HIDE DEF id
<1>10. TypeOK'
  <2>1. files' \in [Drives -> [Ids -> Files]]
    BY <1>1, <1>2, <1>4, <1>5
  <2>2. active' \in [Drives -> Ids]
    BY <1>1, <1>2, <1>4
  <2>3. drive' \in Drives /\ pc' \in {"migrate", "overlay"}
    BY <1>1, <1>2, DrivesAssumption DEF Drives
  <2> QED
    BY <1>1, <2>1, <2>2, <2>3 DEF TypeOK, confVars, testVars
<1>11. LoopInv' /\ ChainInv' /\ StacksInv' /\ StateInv'
  BY <1>1, <1>2 DEF LoopInv, ChainInv, StacksInv, StateInv, confVars
<1>12. LengthsInv'
  <2> SUFFICES ASSUME NEW d \in Drives PROVE LengthInv(d)'
    BY DEF LengthsInv
  <2>1. LengthInv(d) /\ d \in Nat /\ d <= LastDrive /\ Len(chain) \in Nat
    BY DriveTyped DEF LengthsInv
  <2>2. UNCHANGED <<layers, chain>>
    BY <1>1 DEF confVars
  <2> QED
    BY <1>1, <1>2, <2>1, <2>2 DEF LengthInv
<1>13. CreatingInv'
  BY <1>1 DEF CreatingInv, confVars
<1>14. BornInv'
  <2> SUFFICES ASSUME NEW d \in Drives, NEW n \in Ids, files'[d][n].exists
               PROVE  n <= last_overlay_id[d]
    BY <1>1 DEF BornInv, confVars
  <2>1. CASE d = drive /\ n = id
    BY <1>2, <1>3, <2>1 DEF StacksInv, Stack, id
  <2>2. CASE ~(d = drive /\ n = id)
    BY <1>6, <2>2 DEF BornInv
  <2> QED
    BY <2>1, <2>2
<1>15. BackedInv'
  <2> SUFFICES ASSUME NEW d \in Drives, NEW i \in DOMAIN layers[d], i # 1,
                      files'[d][layers[d][i].id].exists
               PROVE  files'[d][layers[d][i].id].backing = layers[d][i - 1].id
    BY <1>1 DEF BackedInv, Backed, confVars
  <2>1. CASE d = drive /\ i = Len(L)
    BY <1>4, <1>6, <2>1 DEF Overlay, id
  <2>2. CASE ~(d = drive /\ i = Len(L))
    <3>1. files'[d][layers[d][i].id] = files[d][layers[d][i].id]
      BY <1>6, <1>8, <1>9, <2>2
    <3> QED
      BY <3>1 DEF BackedInv, Backed
  <2> QED
    BY <2>1, <2>2
<1>16. ActiveInv'
  <2> SUFFICES ASSUME NEW d \in Drives PROVE IsComplete(d)'
    BY <1>1 DEF ActiveInv
  <2>1. CASE d = drive
    <3>1. active'[d] = Top(d)'.id
      BY <1>1, <1>7, <2>1 DEF Top, Last, confVars, id
    <3>2. ASSUME NEW i \in DOMAIN L
          PROVE  files'[d][L[i].id].exists
      <4>1. CASE i = Len(L)
        BY <1>4, <1>6, <2>1, <4>1 DEF Overlay, id
      <4>2. CASE i < Len(L) /\ L[i].id # id
        BY <1>1, <1>6, <1>8, <2>1, <4>2 DEF ActiveInv
      <4> QED
        BY <1>9, <4>1, <4>2
    <3> QED
      BY <1>1, <2>1, <3>1, <3>2 DEF IsComplete, confVars
  <2>2. CASE d # drive
    BY <1>1, <1>6, <1>7, <1>8, <2>2 DEF ActiveInv, IsComplete, Top, Last, confVars
  <2> QED
    BY <2>1, <2>2
<1> QED
  BY <1>10, <1>11, <1>12, <1>13, <1>14, <1>15, <1>16

LEMMA ContentTyped ==
  ASSUME TypeOK, NEW d \in Drives
  PROVE  /\ \A id \in Ids \cup {BaseImage} : Content(d, id) \in Contents
         /\ files[d][active[d]].backing \in Ids \cup {BaseImage}
<1>1. files[d] \in [Ids -> Files] /\ active[d] \in Ids
  BY DriveTyped
<1> QED
  BY <1>1, ReadIsContent DEF Content, Files

LEMMA MigrateModel ==
  ASSUME ModelInv, MigrateToFile \/ MigrationFails
  PROVE  ModelInv'
<1> USE DEF ModelInv
<1>1. /\ pc = "migrate" /\ pc' \in {"running", "dying"}
      /\ UNCHANGED <<job, drive, confVars, files, state_file, guestVars, testVars>>
      /\ \/ ram_files' = [ram_files EXCEPT ![HeadSnapshot.name] = ram]
         \/ ram_files' = [ram_files EXCEPT ![HeadSnapshot.name] = NoRam]
  BY DEF MigrateToFile, MigrationFails
<1>2. saved' \in [Sequences -> [ram : Contents \cup {NoRam}, disks : [Drives -> Contents]]]
  <2> DEFINE D == [d \in Drives |-> Content(d, files[d][active[d]].backing)]
  <2>1. D \in [Drives -> Contents]
    BY ContentTyped
  <2> HIDE DEF D
  <2>2. [ram |-> ram, disks |-> D] \in [ram : Contents \cup {NoRam}, disks : [Drives -> Contents]]
    BY <2>1 DEF TypeOK
  <2>3. \/ saved' = saved
        \/ saved' = [saved EXCEPT ![HeadSnapshot.sequence] = [ram |-> ram, disks |-> D]]
    BY DEF MigrateToFile, MigrationFails, D
  <2> QED
    BY <2>2, <2>3 DEF TypeOK
<1>3. TypeOK'
  <2>1. ram_files' \in [Names -> Contents \cup {NoRam}]
    BY <1>1 DEF TypeOK
  <2> QED
    BY <1>1, <1>2, <2>1 DEF TypeOK, confVars, guestVars, testVars
<1>4. LoopInv' /\ ChainInv' /\ StacksInv' /\ BornInv' /\ BackedInv' /\ StateInv' /\ CreatingInv'
  BY <1>1 DEF LoopInv, ChainInv, StacksInv, BornInv, BackedInv, StateInv, CreatingInv,
              confVars, guestVars
<1>5. LengthsInv'
  BY <1>1 DEF LengthsInv, LengthInv, confVars
<1>6. ActiveInv'
  BY <1>1 DEF ActiveInv, IsComplete, Top, Last, confVars, guestVars
<1> QED
  BY <1>3, <1>4, <1>5, <1>6

LEMMA StateTyped ==
  ASSUME TypeOK
  PROVE  State \in [chain : Seq(Snapshots), layers : [Drives -> Seq(Layers)],
                    last_overlay_id : [Drives -> Ids]]
  BY DEF TypeOK, State

LEMMA LoadSnapshotModel ==
  ASSUME ModelInv, NEW name \in Names, LoadSnapshot(name)
  PROVE  ModelInv'
<1> USE DEF ModelInv
<1>1. /\ pc \in {"running", "loaded"} /\ state_file' = State
      /\ UNCHANGED <<job, drive, sequence, layers, last_overlay_id, files, ram_files,
                     guestVars, testVars, saved>>
      /\ \/ /\ pc' = "dying" /\ chain' = chain
         \/ /\ pc' = "revert"
            /\ \E i \in DOMAIN chain : chain' = SubSeq(chain, 1, i)
  BY DEF LoadSnapshot, Running
<1>2. chain \in Seq(Snapshots) /\ drive = 1 /\ sequence \in Nat /\ layers \in [Drives -> Seq(Layers)]
  BY <1>1, SequencesAreNumbers DEF TypeOK, LoopInv
<1>3. /\ chain' \in Seq(Snapshots) /\ Len(chain') \in Nat /\ Len(chain') <= Len(chain)
      /\ pc' = "revert" => chain' # <<>>
      /\ Counted(chain', sequence)
      /\ \A d \in Drives : Stack(layers[d], chain', last_overlay_id[d], sequence)
  <2>1. CASE chain' = chain /\ pc' = "dying"
    BY <1>2, <2>1 DEF ChainInv, StacksInv
  <2>2. CASE pc' = "revert"
    <3>1. PICK i \in DOMAIN chain : chain' = SubSeq(chain, 1, i)
      BY <1>1, <2>2
    <3>2. chain' \in Seq(Snapshots) /\ Len(chain') = i /\ i \in Nat /\ i >= 1 /\ i <= Len(chain)
      BY <1>2, <3>1, Cut, IsSequence
    <3>3. Counted(chain', sequence)
      BY <1>2, <3>1, CountedCut DEF ChainInv
    <3>4. \A d \in Drives : Stack(layers[d], chain', last_overlay_id[d], sequence)
      BY <1>2, <3>1, StackChainCut, DriveTyped DEF StacksInv
    <3> QED
      BY <3>2, <3>3, <3>4
  <2> QED
    BY <1>1, <2>1, <2>2
<1>4. TypeOK'
  BY <1>1, <1>3, StateTyped DEF TypeOK, guestVars, testVars
<1>5. LoopInv' /\ ChainInv' /\ StacksInv' /\ BornInv' /\ BackedInv' /\ StateInv'
  BY <1>1, <1>2, <1>3 DEF LoopInv, ChainInv, StacksInv, BornInv, BackedInv, StateInv
<1>6. CreatingInv'
  BY <1>1 DEF CreatingInv
<1>7. LengthsInv'
  <2> SUFFICES ASSUME NEW d \in Drives PROVE LengthInv(d)'
    BY DEF LengthsInv
  <2>1. LengthInv(d) /\ ~(d < 1) /\ Len(layers[d]) \in Nat /\ Len(chain) \in Nat
    BY DriveTyped DEF LengthsInv
  <2>2. layers[d] # <<>> /\ Len(layers[d]) >= Len(chain)
    BY <1>1, <2>1 DEF LengthInv
  <2> QED
    BY <1>1, <1>2, <1>3, <2>1, <2>2 DEF LengthInv
<1>8. ActiveInv'
  BY <1>1 DEF ActiveInv
<1> QED
  BY <1>4, <1>5, <1>6, <1>7, <1>8

\* The layer that revert_to_snapshot goes back to is the one above the chain.
LEMMA NewestIsAbove ==
  ASSUME NEW L \in Seq(Layers), NEW c \in Seq(Snapshots), NEW last, NEW seq,
         Stack(L, c, last, seq), Counted(c, seq), c # <<>>, Len(L) >= Len(c),
         NEW i \in DOMAIN L, L[i].snapshot = c[Len(c)].sequence
  PROVE  i = Len(c) + 1
<1>1. /\ Len(c) \in DOMAIN c /\ Len(c) \in Nat /\ Len(c) >= 1 /\ Len(L) \in Nat
      /\ DOMAIN c = 1..Len(c) /\ DOMAIN L = 1..Len(L)
  BY IsSequence
<1>2. \A j \in DOMAIN L : j \in Nat /\ j >= 1 /\ j <= Len(L) /\ L[j].snapshot \in Nat
  BY LayersTyped
<1>3. \A j \in DOMAIN c : c[j].sequence \in Nat /\ c[j].sequence # 0
  BY ChainTyped
<1>4. i # 1
  BY <1>1, <1>3 DEF Stack, NoSnapshot
<1>5. ~(i - 1 < Len(c))
  <2> SUFFICES ASSUME i - 1 < Len(c) PROVE FALSE
    OBVIOUS
  <2>1. i - 1 \in DOMAIN c
    BY <1>1, <1>2, <1>4
  <2>2. L[i].snapshot = c[i - 1].sequence
    BY <2>1 DEF Stack
  <2>3. c[i - 1].sequence < c[Len(c)].sequence
    BY <1>1, <2>1 DEF Counted
  <2> QED
    BY <1>1, <1>3, <2>1, <2>2, <2>3
<1>6. ~(i > Len(c) + 1)
  <2> SUFFICES ASSUME i > Len(c) + 1 PROVE FALSE
    OBVIOUS
  <2> DEFINE k == Len(c) + 1
  <2>1. k \in DOMAIN L /\ k - 1 = Len(c) /\ k < i
    BY <1>1, <1>2
  <2>2. L[k].snapshot = c[Len(c)].sequence
    BY <1>1, <2>1 DEF Stack
  <2>3. L[k].snapshot < L[i].snapshot
    BY <2>1 DEF Stack
  <2> QED
    BY <1>2, <2>1, <2>2, <2>3
<1> QED
  BY <1>1, <1>2, <1>5, <1>6

LEMMA LayersKeptIs ==
  ASSUME TypeOK, NEW i \in DOMAIN layers[drive]
  PROVE  /\ LayersKept(i) \in Seq(Layers) /\ Len(LayersKept(i)) = i
         /\ \A j \in DOMAIN LayersKept(i) :
              /\ j \in DOMAIN layers[drive] /\ j <= i
              /\ LayersKept(i)[j].id = layers[drive][j].id
              /\ LayersKept(i)[j].snapshot = layers[drive][j].snapshot
              /\ j # i => LayersKept(i)[j] = layers[drive][j]
<1> DEFINE L == layers[drive]
           K == SubSeq(L, 1, i)
<1>1. L \in Seq(Layers)
  BY DriveTyped DEF TypeOK
<1>2. /\ K \in Seq(Layers) /\ Len(K) = i /\ i \in DOMAIN K
      /\ \A j \in DOMAIN K : j \in DOMAIN L /\ j <= i /\ K[j] = L[j]
  BY <1>1, Cut, IsSequence
<1> HIDE DEF K
<1> DEFINE M == [K EXCEPT ![i].needs_creating = TRUE]
<1>3. [K[i] EXCEPT !.needs_creating = TRUE] \in Layers
  <2>1. K[i] \in Layers
    BY <1>1, <1>2, LayersTyped
  <2> QED
    BY <2>1 DEF Layers
<1>4. M \in Seq(Layers) /\ Len(M) = Len(K) /\ DOMAIN M = DOMAIN K
  BY <1>2, <1>3
<1>5. \A j \in DOMAIN K : /\ j # i => M[j] = K[j]
                          /\ M[j].id = K[j].id /\ M[j].snapshot = K[j].snapshot
  <2>1. \A j \in DOMAIN K : K[j] \in Layers
    BY <1>2, LayersTyped
  <2> QED
    BY <1>2, <2>1 DEF Layers
<1>6. LayersKept(i) = M
  BY DEF LayersKept, K
<1> HIDE DEF M, L
<1> QED
  BY <1>2, <1>4, <1>5, <1>6 DEF L

LEMMA RevertDriveModel ==
  ASSUME ModelInv, RevertDrive
  PROVE  ModelInv'
<1> USE DEF ModelInv
<1> DEFINE L == layers[drive]
<1>1. PICK i \in DOMAIN L :
        /\ IsNewest(i, LayersOf(HeadSnapshot.sequence))
        /\ layers' = [layers EXCEPT ![drive] = LayersKept(i)]
        /\ files' = [files EXCEPT ![drive] =
                       [id \in Ids |->
                          IF \E j \in DOMAIN layers[drive] :
                               j > i /\ layers[drive][j].id = id
                          THEN NoFile ELSE files[drive][id]]]
  BY DEF RevertDrive, TypeOK
<1>2. /\ pc = "revert"
      /\ UNCHANGED <<job, chain, sequence, last_overlay_id, ram_files, state_file,
                     guestVars, testVars, saved>>
      /\ \/ drive = LastDrive /\ drive' = 1 /\ pc' = "recreate"
         \/ drive # LastDrive /\ drive' = drive + 1 /\ pc' = "revert"
  BY DEF RevertDrive, NextDrive
<1>3. /\ L \in Seq(Layers) /\ drive \in Drives /\ chain # <<>> /\ drive \in Nat
      /\ chain \in Seq(Snapshots) /\ LastDrive \in Nat /\ Len(chain) \in Nat
      /\ files \in [Drives -> [Ids -> Files]] /\ layers \in [Drives -> Seq(Layers)]
  BY <1>2, DriveTyped DEF TypeOK, LoopInv
<1>4. i = Len(chain) + 1
  <2>1. L[i].snapshot = chain[Len(chain)].sequence
    BY <1>1, <1>3, HeadTyped DEF IsNewest, LayersOf
  <2>2. Stack(L, chain, last_overlay_id[drive], sequence) /\ Counted(chain, sequence)
    BY <1>3 DEF StacksInv, ChainInv
  <2>3. L # <<>> /\ Len(L) >= Len(chain)
    BY <1>2, <1>3 DEF LengthsInv, LengthInv
  <2> HIDE DEF L
  <2> QED
    BY <1>3, <2>1, <2>2, <2>3, NewestIsAbove
<1> DEFINE M == LayersKept(i)
<1>5. /\ M \in Seq(Layers) /\ Len(M) = i
      /\ \A j \in DOMAIN M : /\ j \in DOMAIN L /\ j <= i
                             /\ M[j].id = L[j].id /\ M[j].snapshot = L[j].snapshot
                             /\ j # i => M[j] = L[j]
  BY LayersKeptIs
<1>6. \A d \in Drives : layers'[d] = IF d = drive THEN M ELSE layers[d]
  BY <1>1, <1>3
<1> HIDE DEF M
<1>7. \A d \in Drives, id \in Ids :
        files'[d][id] = files[d][id] \/ (d = drive /\ files'[d][id] = NoFile)
  BY <1>1, <1>3
<1>8. files' \in [Drives -> [Ids -> Files]]
  <2>1. NoFile \in Files
    BY BoundsAssumption DEF NoFile, Files, Contents
  <2> DEFINE new == [id \in Ids |->
                       IF \E j \in DOMAIN layers[drive] :
                            j > i /\ layers[drive][j].id = id
                       THEN NoFile ELSE files[drive][id]]
  <2>2. new \in [Ids -> Files]
    BY <1>3, <2>1
  <2>3. files' = [files EXCEPT ![drive] = new]
    BY <1>1
  <2> HIDE DEF new
  <2> QED
    BY <1>3, <2>2, <2>3
<1>9. layers' \in [Drives -> Seq(Layers)]
  BY <1>1, <1>3, <1>5 DEF M
<1>10. TypeOK'
  <2>1. drive' \in Drives /\ pc' \in {"recreate", "revert"}
    BY <1>2, <1>3, DrivesAssumption DEF Drives
  <2> QED
    BY <1>2, <1>8, <1>9, <2>1 DEF TypeOK, guestVars, testVars
<1>11. LoopInv' /\ ChainInv' /\ StateInv'
  BY <1>2, <1>3 DEF LoopInv, ChainInv, StateInv
<1>12. StacksInv'
  <2> SUFFICES ASSUME NEW d \in Drives
               PROVE  Stack(layers'[d], chain, last_overlay_id[d], sequence)
    BY <1>2 DEF StacksInv
  <2>1. Stack(L, chain, last_overlay_id[drive], sequence)
    BY <1>3 DEF StacksInv
  <2>2. Stack(M, chain, last_overlay_id[drive], sequence)
    BY <1>3, <1>5, <2>1, StackCut
  <2> QED
    BY <1>6, <2>2 DEF StacksInv
<1>13. LengthsInv'
  <2> SUFFICES ASSUME NEW d \in Drives PROVE LengthInv(d)'
    BY DEF LengthsInv
  <2>1. LengthInv(d) /\ d \in Nat /\ d <= LastDrive
    BY DriveTyped DEF LengthsInv
  <2>2. M # <<>>
    BY <1>3, <1>4, <1>5
  <2>3. CASE d = drive
    BY <1>2, <1>3, <1>4, <1>5, <1>6, <2>1, <2>2, <2>3 DEF LengthInv
  <2>4. CASE d # drive
    <3>1. layers'[d] = layers[d] /\ layers[d] # <<>> /\ Len(layers[d]) >= Len(chain)
      BY <1>2, <1>6, <2>1, <2>4 DEF LengthInv
    <3>2. pc' = "recreate" \/ d < drive' => Len(layers[d]) = Len(chain) + 1
      BY <1>2, <1>3, <2>1, <2>4 DEF LengthInv
    <3> QED
      BY <1>2, <3>1, <3>2 DEF LengthInv
  <2> QED
    BY <2>3, <2>4
<1>14. CreatingInv'
  <2> SUFFICES ASSUME NEW d \in Drives, NEW j \in DOMAIN layers'[d],
                      layers'[d][j].needs_creating
               PROVE  j = Len(layers'[d]) /\ j # 1
    BY <1>2 DEF CreatingInv
  <2>1. CASE d = drive
    <3>1. Len(chain) # 0 /\ i # 1
      BY <1>3, <1>4
    <3>2. j = i \/ (j \in DOMAIN L /\ M[j] = L[j] /\ j < i)
      BY <1>5, <1>6, <1>3, <2>1, LayersTyped
    <3>3. ~(j \in DOMAIN L /\ M[j] = L[j] /\ j < i)
      <4>1. i <= Len(L) /\ i \in Nat
        BY <1>1, <1>3, LayersTyped
      <4> SUFFICES ASSUME j \in DOMAIN L, M[j] = L[j], j < i PROVE FALSE
        OBVIOUS
      <4>2. j = Len(L)
        BY <1>6, <2>1 DEF CreatingInv
      <4> QED
        BY <4>1, <4>2
    <3> QED
      BY <1>5, <1>6, <2>1, <3>1, <3>2, <3>3
  <2>2. CASE d # drive
    BY <1>6, <2>2 DEF CreatingInv
  <2> QED
    BY <2>1, <2>2
<1>15. BornInv'
  BY <1>2, <1>7 DEF BornInv, NoFile
<1>16. BackedInv'
  <2> SUFFICES ASSUME NEW d \in Drives, NEW j \in DOMAIN layers'[d], j # 1,
                      files'[d][layers'[d][j].id].exists
               PROVE  files'[d][layers'[d][j].id].backing = layers'[d][j - 1].id
    BY DEF BackedInv, Backed
  <2>0. /\ j \in DOMAIN layers[d] /\ layers'[d][j].id = layers[d][j].id
        /\ j - 1 \in DOMAIN layers'[d] /\ layers'[d][j - 1].id = layers[d][j - 1].id
    <3>1. layers'[d] \in Seq(Layers)
      BY <1>9
    <3>2. j - 1 \in DOMAIN layers'[d]
      BY <3>1, IsSequence
    <3> QED
      BY <1>5, <1>6, <3>2
  <2>1. layers[d][j].id \in Ids
    BY <1>3, <2>0, LayersTyped
  <2>2. files'[d][layers[d][j].id] = files[d][layers[d][j].id]
    BY <1>7, <2>0, <2>1 DEF NoFile
  <2> QED
    BY <2>0, <2>2 DEF BackedInv, Backed
<1>17. ActiveInv'
  BY <1>2 DEF ActiveInv
<1> QED
  BY <1>10, <1>11, <1>12, <1>13, <1>14, <1>15, <1>16, <1>17

LEMMA RevertDiesModel ==
  ASSUME ModelInv, RevertDies
  PROVE  ModelInv'
<1> USE DEF ModelInv
<1>1. /\ pc = "revert" /\ pc' = "dying" /\ layers' = [layers EXCEPT ![drive] = <<>>]
      /\ UNCHANGED <<job, drive, chain, sequence, last_overlay_id, diskVars,
                     guestVars, testVars, saved>>
  BY DEF RevertDies
<1>2. /\ layers \in [Drives -> Seq(Layers)]
      /\ \A d \in Drives : layers'[d] = layers[d] \/ layers'[d] = <<>>
  BY <1>1 DEF TypeOK
<1>3. \A d \in Drives : \A i \in DOMAIN layers'[d] : layers'[d] = layers[d] /\ i \in DOMAIN layers[d]
  BY <1>2
<1>4. TypeOK'
  BY <1>1 DEF TypeOK, diskVars, guestVars, testVars
<1>5. LoopInv' /\ ChainInv' /\ StateInv' /\ BornInv' /\ ActiveInv'
  BY <1>1 DEF LoopInv, ChainInv, StateInv, BornInv, ActiveInv, diskVars
<1>6. StacksInv' /\ BackedInv' /\ CreatingInv'
  BY <1>1, <1>3 DEF StacksInv, Stack, BackedInv, Backed, CreatingInv, diskVars
<1>7. LengthsInv'
  BY <1>1, <1>2 DEF LengthsInv, LengthInv
<1> QED
  BY <1>4, <1>5, <1>6, <1>7

\* No two layers of a drive have the same file.
LEMMA IdsDiffer ==
  ASSUME ModelInv, NEW d \in Drives, NEW i \in DOMAIN layers[d], NEW j \in DOMAIN layers[d],
         layers[d][i].id = layers[d][j].id
  PROVE  i = j
<1>1. /\ layers[d] \in Seq(Layers) /\ Stack(layers[d], chain, last_overlay_id[d], sequence)
  BY DriveTyped DEF ModelInv, StacksInv
<1>2. i \in Nat /\ j \in Nat /\ layers[d][i].id \in Nat /\ layers[d][j].id \in Nat
  BY <1>1, LayersTyped
<1>3. ~(i < j) /\ ~(j < i)
  BY <1>1, <1>2 DEF Stack
<1> QED
  BY <1>2, <1>3

\* What init_blockdev_images changes: the file of the layer on top, at most
NeedsTop(d) ==
  /\ Len(layers[d]) \in DOMAIN layers[d] /\ Len(layers[d]) - 1 \in DOMAIN layers[d]
  /\ layers[d][Len(layers[d])].needs_creating

LEMMA CreatedIs ==
  ASSUME ModelInv, NEW d \in Drives, NEW id \in Ids
  PROVE  \/ Created[d][id] = files[d][id]
         \/ /\ NeedsTop(d) /\ id = Top(d).id
            /\ Created[d][id] = Overlay(layers[d][Len(layers[d]) - 1].id)
<1> DEFINE L == layers[d]
           IsIt(i) == L[i].id = id
<1>1. L \in Seq(Layers)
  BY DriveTyped DEF ModelInv
<1>2. CASE \E i \in DOMAIN L : L[i].id = id /\ L[i].needs_creating
  <2>1. PICK i \in DOMAIN L : L[i].id = id /\ L[i].needs_creating
    BY <1>2
  <2>2. i = Len(L) /\ i # 1
    BY <2>1 DEF ModelInv, CreatingInv
  <2>3. i \in Nat /\ i - 1 \in DOMAIN L
    BY <1>1, <2>2, HasOneBelow
  <2> DEFINE k == CHOOSE j \in DOMAIN L : L[j].id = id
  <2>4. k \in DOMAIN L /\ L[k].id = id
    BY <2>1
  <2> HIDE DEF k
  <2>5. k = i
    BY <2>1, <2>4, IdsDiffer
  <2>6. Created[d][id] = Overlay(LayerBelow(d, k))
    BY <1>2 DEF Created, k
  <2> QED
    BY <2>1, <2>2, <2>3, <2>5, <2>6 DEF LayerBelow, NeedsTop, Top, Last
<1>3. CASE ~ \E i \in DOMAIN L : L[i].id = id /\ L[i].needs_creating
  BY <1>3 DEF Created
<1> QED
  BY <1>2, <1>3

LEMMA InitBlockdevImagesModel ==
  ASSUME ModelInv, InitBlockdevImages
  PROVE  ModelInv'
<1> USE DEF ModelInv
<1>1. /\ pc \in {"create", "recreate"} /\ files' = Created
      /\ layers' = [d \in Drives |->
                      [i \in DOMAIN layers[d] |->
                         [layers[d][i] EXCEPT !.needs_creating = FALSE]]]
      /\ UNCHANGED <<job, drive, chain, sequence, last_overlay_id, ram, writes,
                     ram_files, state_file, testVars, saved>>
      /\ \/ /\ Startable /\ active' = [d \in Drives |-> Top(d).id]
            /\ pc' = IF pc = "create" THEN "loaded" ELSE "incoming"
         \/ pc' = "dying" /\ active' = active
  BY DEF InitBlockdevImages
<1>2. ASSUME NEW d \in Drives
      PROVE  /\ layers'[d] \in Seq(Layers) /\ Len(layers'[d]) = Len(layers[d])
             /\ DOMAIN layers'[d] = DOMAIN layers[d] /\ layers[d] \in Seq(Layers)
             /\ \A i \in DOMAIN layers[d] :
                  /\ layers'[d][i].id = layers[d][i].id
                  /\ layers'[d][i].snapshot = layers[d][i].snapshot
                  /\ layers'[d][i].needs_creating = FALSE
                  /\ layers[d][i].id \in Ids
  <2> DEFINE L == layers[d]
             M == [i \in DOMAIN L |-> [L[i] EXCEPT !.needs_creating = FALSE]]
  <2>1. L \in Seq(Layers) /\ layers'[d] = M
    BY <1>1, DriveTyped
  <2>2. ASSUME NEW i \in DOMAIN L
        PROVE  M[i] \in Layers /\ M[i].id = L[i].id /\ M[i].snapshot = L[i].snapshot
               /\ M[i].needs_creating = FALSE
    <3>1. L[i] \in Layers
      BY <2>1, LayersTyped
    <3> HIDE DEF L
    <3> QED
      BY <3>1 DEF Layers
  <2>3. M \in Seq(Layers) /\ Len(M) = Len(L) /\ DOMAIN M = DOMAIN L
    <3>1. DOMAIN L = 1..Len(L) /\ Len(L) \in Nat
      BY <2>1, IsSequence
    <3>2. M \in [1..Len(L) -> Layers]
      BY <2>2, <3>1
    <3> HIDE DEF M, L
    <3> QED
      BY <3>1, <3>2
  <2>4. \A i \in DOMAIN L : L[i].id \in Ids
    BY <2>1, LayersTyped
  <2> HIDE DEF L, M
  <2> QED
    BY <2>1, <2>2, <2>3, <2>4 DEF L
<1>3. ASSUME NEW d \in Drives, NeedsTop(d)
      PROVE  layers[d][Len(layers[d]) - 1].id \in Ids
  BY <1>2, <1>3 DEF NeedsTop
<1>4. files' \in [Drives -> [Ids -> Files]]
  <2>1. ASSUME NEW d \in Drives, NEW id \in Ids
        PROVE  Created[d][id] \in Files
    <3>1. \A below \in Ids : Overlay(below) \in Files
      BY BoundsAssumption DEF Overlay, Files, Contents
    <3>2. files[d][id] \in Files
      BY DriveTyped
    <3> QED
      BY <1>3, <3>1, <3>2, CreatedIs
  <2>2. Created = [d \in Drives |-> [id \in Ids |-> Created[d][id]]]
    BY DEF Created
  <2> QED
    BY <1>1, <2>1, <2>2
<1>5. \A d \in Drives, id \in Ids : files'[d][id] = Created[d][id]
  BY <1>1
<1>6. layers' \in [Drives -> Seq(Layers)]
  <2>1. \A d \in Drives : layers'[d] \in Seq(Layers)
    BY <1>2
  <2>2. layers' = [d \in Drives |-> layers'[d]]
    BY <1>1
  <2> QED
    BY <2>1, <2>2
<1>7. pc' = "dying" \/ \A d \in Drives : /\ layers[d] # <<>> /\ Len(layers[d]) \in DOMAIN layers[d]
                                         /\ active'[d] = Top(d).id /\ Top(d).id \in Ids
  <2> SUFFICES ASSUME pc' # "dying", NEW d \in Drives
               PROVE  /\ layers[d] # <<>> /\ Len(layers[d]) \in DOMAIN layers[d]
                      /\ active'[d] = Top(d).id /\ Top(d).id \in Ids
    OBVIOUS
  <2>1. layers[d] # <<>>
    BY <1>1 DEF LengthsInv, LengthInv
  <2>2. Len(layers[d]) \in DOMAIN layers[d]
    BY <1>2, <2>1, IsSequence
  <2>3. Top(d).id \in Ids
    BY <1>2, <2>2 DEF Top, Last
  <2>4. active'[d] = Top(d).id
    BY <1>1
  <2> QED
    BY <2>1, <2>2, <2>3, <2>4
<1>8. TypeOK'
  <2>1. active' \in [Drives -> Ids]
    BY <1>1, <1>7 DEF TypeOK
  <2>2. pc' \in {"loaded", "incoming", "dying"}
    BY <1>1
  <2> QED
    BY <1>1, <1>4, <1>6, <2>1, <2>2 DEF TypeOK, testVars
<1>9. LoopInv' /\ ChainInv' /\ StateInv'
  BY <1>1 DEF LoopInv, ChainInv, StateInv
<1>10. StacksInv'
  <2> SUFFICES ASSUME NEW d \in Drives
               PROVE  Stack(layers'[d], chain, last_overlay_id[d], sequence)
    BY <1>1 DEF StacksInv
  <2>1. Stack(layers[d], chain, last_overlay_id[d], sequence)
    BY DEF StacksInv
  <2> QED
    BY <1>2, <2>1, StackCut
<1>11. LengthsInv'
  <2> SUFFICES ASSUME NEW d \in Drives PROVE LengthInv(d)'
    BY DEF LengthsInv
  <2>1. LengthInv(d)
    BY DEF LengthsInv
  <2>2. layers'[d] # <<>> <=> layers[d] # <<>>
    BY <1>2, EmptyHasNone
  <2> QED
    BY <1>1, <1>2, <2>1, <2>2 DEF LengthInv
<1>12. CreatingInv'
  BY <1>2 DEF CreatingInv
<1>13. BornInv'
  <2> SUFFICES ASSUME NEW d \in Drives, NEW id \in Ids, files'[d][id].exists
               PROVE  id <= last_overlay_id[d]
    BY <1>1 DEF BornInv
  <2>1. CASE files'[d][id] = files[d][id]
    BY <2>1 DEF BornInv
  <2>2. CASE NeedsTop(d) /\ id = Top(d).id
    BY <2>2 DEF NeedsTop, Top, Last, StacksInv, Stack
  <2> QED
    BY <1>5, <2>1, <2>2, CreatedIs
<1>14. BackedInv'
  <2> SUFFICES ASSUME NEW d \in Drives, NEW i \in DOMAIN layers'[d], i # 1,
                      files'[d][layers'[d][i].id].exists
               PROVE  files'[d][layers'[d][i].id].backing = layers'[d][i - 1].id
    BY DEF BackedInv, Backed
  <2>1. i \in DOMAIN layers[d] /\ i - 1 \in DOMAIN layers[d]
    BY <1>2, HasOneBelow
  <2>2. /\ layers'[d][i].id = layers[d][i].id /\ layers[d][i].id \in Ids
        /\ layers'[d][i - 1].id = layers[d][i - 1].id
    BY <1>2, <2>1
  <2>3. CASE files'[d][layers[d][i].id] = files[d][layers[d][i].id]
    BY <2>1, <2>2, <2>3 DEF BackedInv, Backed
  <2>4. CASE /\ NeedsTop(d) /\ layers[d][i].id = Top(d).id
             /\ files'[d][layers[d][i].id] = Overlay(layers[d][Len(layers[d]) - 1].id)
    <3>1. i = Len(layers[d])
      BY <2>1, <2>4, IdsDiffer DEF NeedsTop, Top, Last
    <3> QED
      BY <2>2, <2>4, <3>1 DEF Overlay
  <2> QED
    BY <1>5, <2>2, <2>3, <2>4, CreatedIs
<1>15. ActiveInv'
  <2> SUFFICES ASSUME pc' = "incoming", NEW d \in Drives PROVE IsComplete(d)'
    BY <1>1 DEF ActiveInv
  <2>1. active'[d] = Top(d)'.id
    BY <1>2, <1>7 DEF Top, Last
  <2>2. ASSUME NEW i \in DOMAIN layers[d]
        PROVE  files'[d][layers[d][i].id].exists
    <3>1. Startable
      BY <1>1
    <3> QED
      BY <1>1, <3>1 DEF Startable
  <2> QED
    BY <1>2, <2>1, <2>2 DEF IsComplete
<1> QED
  BY <1>8, <1>9, <1>10, <1>11, <1>12, <1>13, <1>14, <1>15

LEMMA MigrateIncomingModel ==
  ASSUME ModelInv, MigrateIncoming
  PROVE  ModelInv'
<1> USE DEF ModelInv
<1>1. /\ pc = "incoming" /\ pc' \in {"dying", "running"}
      /\ ram' = ram \/ (ram' = ram_files[HeadSnapshot.name] /\ ram' # NoRam)
      /\ UNCHANGED <<job, drive, confVars, diskVars, active, writes, testVars, saved>>
  BY DEF MigrateIncoming
<1>2. ram' \in Contents
  <2>1. HeadSnapshot.name \in Names
    BY <1>1, HeadTyped DEF LoopInv
  <2> QED
    BY <1>1, <2>1 DEF TypeOK
<1>3. TypeOK'
  BY <1>1, <1>2 DEF TypeOK, confVars, diskVars, testVars
<1>4. LoopInv' /\ ChainInv' /\ StacksInv' /\ CreatingInv' /\ BornInv' /\ BackedInv' /\ StateInv'
  BY <1>1 DEF LoopInv, ChainInv, StacksInv, CreatingInv, BornInv, BackedInv, StateInv,
              confVars, diskVars
<1>5. LengthsInv'
  BY <1>1 DEF LengthsInv, LengthInv, confVars
<1>6. ActiveInv'
  BY <1>1 DEF ActiveInv, IsComplete, Top, Last, confVars, diskVars
<1> QED
  BY <1>3, <1>4, <1>5, <1>6

LEMMA StopVmModel ==
  ASSUME ModelInv, StopVm
  PROVE  ModelInv'
<1> USE DEF ModelInv
<1>1. /\ state_file' = State /\ pc' = "off" /\ drive' = 1
      /\ UNCHANGED <<job, confVars, files, ram_files, guestVars, testVars, saved>>
  BY DEF StopVm
<1>2. TypeOK'
  <2>1. drive' \in Drives
    BY <1>1, DrivesAssumption DEF Drives
  <2> QED
    BY <1>1, <2>1, StateTyped DEF TypeOK, confVars, guestVars, testVars
<1>3. LoopInv' /\ ChainInv' /\ StacksInv' /\ CreatingInv' /\ BornInv' /\ BackedInv' /\ ActiveInv'
  BY <1>1 DEF LoopInv, ChainInv, StacksInv, CreatingInv, BornInv, BackedInv, ActiveInv, confVars
<1>4. LengthsInv'
  BY <1>1 DEF LengthsInv, LengthInv, confVars
<1>5. StateInv'
  BY <1>1 DEF StateInv, State, confVars
<1> QED
  BY <1>2, <1>3, <1>4, <1>5

LEMMA SkipToModel ==
  ASSUME ModelInv, NEW module \in Modules, SkipTo(module)
  PROVE  ModelInv'
<1> USE DEF ModelInv
<1>1. /\ pc = "off" /\ job < Jobs /\ job' = job + 1 /\ milestone' = FALSE /\ testmodule' = module
      /\ UNCHANGED <<drive, diskVars, guestVars, saved>>
      /\ state_file = State
  BY DEF SkipTo, StateInv
<1>2. /\ UNCHANGED <<chain, layers, last_overlay_id>>
      /\ \/ pc' = "died" /\ sequence' = sequence
         \/ /\ pc' = "create" /\ sequence' = Len(chain)
            /\ SequencesMatch /\ LayersMatch
  BY <1>1 DEF SkipTo, State, OverlayIdsLoaded, confVars
<1>3. chain \in Seq(Snapshots) /\ Len(chain) \in Nat
  BY IsSequence DEF TypeOK
<1>4. pc' = "create" => /\ \A i \in DOMAIN chain : chain[i].sequence = i
                        /\ \A d \in Drives : /\ layers[d] # <<>>
                                             /\ \A i \in DOMAIN layers[d] :
                                                  layers[d][i].snapshot <= Len(chain)
  BY <1>1, <1>2, <1>3 DEF State, SequencesMatch, LayersMatch
<1>5. sequence' \in {0} \cup Sequences
  <2>1. CASE Len(chain) # 0 /\ pc' = "create"
    <3>1. Len(chain) \in DOMAIN chain
      BY <1>3, <2>1, IsSequence
    <3> QED
      BY <1>2, <1>3, <1>4, <2>1, <3>1, ChainTyped
  <2> QED
    BY <1>2, <2>1 DEF TypeOK
<1>6. TypeOK'
  <2>1. job' \in 1..Jobs
    BY <1>1, BoundsAssumption DEF TypeOK
  <2>2. module \in 0..LastModule
    BY DrivesAssumption DEF Modules
  <2>3. testmodule' \in 0..LastModule /\ milestone' \in BOOLEAN
    BY <1>1, <2>2
  <2>4. pc' \in {"died", "create"}
    BY <1>2
  <2> QED
    BY <1>1, <1>2, <1>5, <2>1, <2>3, <2>4 DEF TypeOK, diskVars, guestVars
<1>7. LoopInv' /\ BackedInv' /\ BornInv' /\ ActiveInv' /\ CreatingInv' /\ StateInv'
  BY <1>1, <1>2 DEF LoopInv, BackedInv, BornInv, ActiveInv, CreatingInv, StateInv, diskVars
<1>8. ChainInv'
  <2>1. CASE pc' = "create"
    <3>1. \A i \in DOMAIN chain : i <= Len(chain)
      BY <1>3, IsSequence
    <3> QED
      BY <1>2, <1>4, <2>1, <3>1 DEF ChainInv, Counted
  <2> QED
    BY <1>2, <2>1 DEF ChainInv
<1>9. StacksInv'
  <2>1. CASE pc' = "create"
    BY <1>2, <1>4, <2>1 DEF StacksInv, Stack
  <2> QED
    BY <1>2, <2>1 DEF StacksInv
<1>10. LengthsInv'
  BY <1>2, <1>4 DEF LengthsInv, LengthInv
<1> QED
  BY <1>6, <1>7, <1>8, <1>9, <1>10

LEMMA NextModel ==
  ASSUME ModelInv, [Next]_vars
  PROVE  ModelInv'
<1>1. CASE UNCHANGED vars
  BY <1>1 DEF ModelInv, TypeOK, LoopInv, ChainInv, StacksInv, LengthsInv, LengthInv,
     CreatingInv, BornInv, BackedInv, ActiveInv, IsComplete, Top, Last, StateInv, State,
     vars, confVars, diskVars, guestVars, testVars
<1>2. CASE Next
  BY <1>2, GuestWritesModel, AddSnapshotModel, LoadSnapshotModel, AddSnapshotToDriveModel,
     BlockdevSnapshotSyncModel, MigrateModel, RevertDriveModel, RevertDiesModel,
     InitBlockdevImagesModel, MigrateIncomingModel, StopVmModel, SkipToModel DEF Next
<1> QED
  BY <1>1, <1>2

LEMMA ModelIsInvariant == Spec => []ModelInv
<1>1. ModelInv /\ [Next]_vars => ModelInv'
  BY NextModel
<1> QED
  BY InitModel, <1>1, PTL DEF Spec

\* The object model, the files and the state file keep their types, for any number
\* of drives, modules, jobs, snapshots and steps of the guest.
THEOREM TypeCorrect == Spec => []TypeOK
<1>1. ModelInv => TypeOK
  BY DEF ModelInv
<1> QED
  BY ModelIsInvariant, <1>1, PTL

LEMMA ModelAgrees ==
  ASSUME ModelInv
  PROVE  ModelConsistent
<1> SUFFICES ASSUME Running, NEW d \in Drives
             PROVE  /\ Len(layers[d]) = Len(chain) + 1
                    /\ \A i \in DOMAIN chain :
                         /\ layers[d][i + 1].snapshot = chain[i].sequence
                         /\ files[d][layers[d][i + 1].id].backing = layers[d][i].id
                    /\ \A i \in DOMAIN layers[d] : files[d][layers[d][i].id].exists
                    /\ active[d] = Top(d).id
  BY DEF ModelConsistent
<1>1. layers[d] \in Seq(Layers) /\ chain \in Seq(Snapshots)
  BY DriveTyped DEF ModelInv
<1>2. IsComplete(d) /\ Len(layers[d]) = Len(chain) + 1
  BY DEF ModelInv, ActiveInv, LengthsInv, LengthInv, Running
<1>3. ASSUME NEW i \in DOMAIN chain
      PROVE  /\ layers[d][i + 1].snapshot = chain[i].sequence
             /\ files[d][layers[d][i + 1].id].backing = layers[d][i].id
  <2>1. i + 1 \in DOMAIN layers[d] /\ i + 1 # 1 /\ (i + 1) - 1 = i
    BY <1>1, <1>2, IsSequence
  <2>2. Stack(layers[d], chain, last_overlay_id[d], sequence) /\ Backed(layers[d], files[d])
    BY DEF ModelInv, StacksInv, BackedInv
  <2>3. files[d][layers[d][i + 1].id].exists
    BY <1>2, <2>1 DEF IsComplete
  <2>4. layers[d][i + 1].snapshot = chain[i].sequence
    BY <2>1, <2>2 DEF Stack
  <2>5. files[d][layers[d][i + 1].id].backing = layers[d][i].id
    BY <2>1, <2>2, <2>3 DEF Backed
  <2> QED
    BY <2>4, <2>5
<1> QED
  BY <1>2, <1>3 DEF IsComplete

\* 'keep the entire object model consistent' (SnapshotConf.pm:6-9): however often
\* snapshots are saved and loaded, whatever fails, and after any number of jobs: while
\* the guest runs, every drive has one overlay per snapshot, in the same order, each
\* on the file of the one below, and QEMU writes to the last.
THEOREM ModelIsConsistent == Spec => []ModelConsistent
<1>1. ModelInv => ModelConsistent
  BY ModelAgrees
<1> QED
  BY ModelIsInvariant, <1>1, PTL

-----------------------------------------------------------------------------
(* The drives as they were at each snapshot                                  *)

\* What lies below a layer is what the drive was at the snapshot of that layer.
KeptLayer(d, i) ==
  saved[layers[d][i].snapshot] # NotSaved =>
    Content(d, layers[d][i - 1].id) = saved[layers[d][i].snapshot].disks[d]
KeptInv == \A d \in Drives : \A i \in DOMAIN layers[d] : i # 1 => KeptLayer(d, i)

\* The snapshot that is being made is not complete.
FreshInv == pc \in {"overlay", "sync", "migrate"} => saved[HeadSnapshot.sequence] = NotSaved

DisksInv == ModelInv /\ KeptInv /\ FreshInv

LEMMA InitDisks == Init => DisksInv
<1> SUFFICES ASSUME Init PROVE DisksInv
  OBVIOUS
<1>1. ModelInv
  BY InitModel
<1>2. KeptInv
  <2> SUFFICES ASSUME NEW d \in Drives, NEW i \in DOMAIN layers[d], i # 1 PROVE FALSE
    BY DEF KeptInv
  <2>1. layers[d] = <<FirstLayer>>
    BY DEF Init
  <2> QED
    BY <2>1
<1>3. FreshInv
  BY DEF Init, FreshInv
<1> QED
  BY <1>1, <1>2, <1>3 DEF DisksInv

LEMMA LayerBelowIs ==
  ASSUME ModelInv, NEW d \in Drives, NEW i \in DOMAIN layers[d], i # 1
  PROVE  /\ i - 1 \in DOMAIN layers[d] /\ i \in Nat
         /\ layers[d][i].id \in Ids /\ layers[d][i - 1].id \in Ids
         /\ layers[d][i].id \in Nat /\ layers[d][i - 1].id \in Nat
         /\ layers[d][i - 1].id < layers[d][i].id
         /\ layers[d][i].snapshot \in Sequences /\ layers[d][i].snapshot # NoSnapshot
         /\ Len(layers[d]) \in DOMAIN layers[d] /\ i <= Len(layers[d])
         /\ \A j \in DOMAIN layers[d] : i <= j => layers[d][i - 1].id < layers[d][j].id
<1> DEFINE L == layers[d]
<1>1. L \in Seq(Layers) /\ Stack(L, chain, last_overlay_id[d], sequence)
  BY DriveTyped DEF ModelInv, StacksInv
<1> HIDE DEF L
<1>2. i \in DOMAIN L
  BY DEF L
<1>3. i - 1 \in DOMAIN L /\ i \in Nat /\ Len(L) \in DOMAIN L /\ i <= Len(L) /\ 1 \in DOMAIN L
  BY <1>1, <1>2, HasOneBelow, IsSequence
<1>4. /\ L[i].id \in Ids /\ L[i - 1].id \in Ids /\ L[i].id \in Nat /\ L[i - 1].id \in Nat
      /\ L[i].snapshot \in {NoSnapshot} \cup Sequences /\ L[i].snapshot \in Nat
  BY <1>1, <1>2, <1>3, LayersTyped
<1>5. 1 < i /\ i - 1 < i
  BY <1>1, <1>2, <1>3, LayersTyped
<1>6. L[i - 1].id < L[i].id /\ L[1].snapshot < L[i].snapshot /\ L[1].snapshot = NoSnapshot
  BY <1>1, <1>2, <1>3, <1>5 DEF Stack
<1>7. L[i].snapshot # NoSnapshot
  BY <1>4, <1>6 DEF NoSnapshot
<1>8. ASSUME NEW j \in DOMAIN L, i <= j
      PROVE  L[i - 1].id < L[j].id
  <2>1. j \in Nat
    BY <1>1, LayersTyped
  <2>2. i - 1 < j
    BY <1>3, <1>8, <2>1
  <2> QED
    BY <1>1, <1>3, <2>2 DEF Stack
<1> QED
  BY <1>3, <1>4, <1>6, <1>7, <1>8 DEF L

\* A drive is as it was below what has not changed.
LEMMA ContentKept ==
  ASSUME TypeOK, TypeOK', NEW d \in Drives, NEW low \in Ids,
         \A id \in Ids : id <= low => files'[d][id] = files[d][id]
  PROVE  ReadFrom(files'[d], low) = ReadFrom(files[d], low)
<1>1. files[d] \in [Ids -> Files] /\ files'[d] \in [Ids -> Files]
  BY DEF TypeOK
<1> QED
  BY <1>1, ReadFromBelow

\* A step that changes at most the file on top of each drive, and no snapshot
LEMMA OnlyTopChanges ==
  ASSUME DisksInv, ModelInv', saved' = saved,
         \A d \in Drives :
           /\ DOMAIN layers'[d] = DOMAIN layers[d]
           /\ \A i \in DOMAIN layers[d] : /\ layers'[d][i].id = layers[d][i].id
                                          /\ layers'[d][i].snapshot = layers[d][i].snapshot
           /\ \A id \in Ids : id # Top(d).id => files'[d][id] = files[d][id]
  PROVE  KeptInv'
<1> SUFFICES ASSUME NEW d \in Drives, NEW i \in DOMAIN layers[d], i # 1 PROVE KeptLayer(d, i)'
  BY DEF KeptInv
<1>1. ModelInv /\ TypeOK /\ TypeOK'
  BY DEF DisksInv, ModelInv
<1> DEFINE low == layers[d][i - 1].id
<1>2. i - 1 \in DOMAIN layers[d] /\ low \in Ids
  BY <1>1, LayerBelowIs
<1>3. layers'[d][i - 1].id = low /\ layers'[d][i].snapshot = layers[d][i].snapshot
  BY <1>2
<1>4. low < Top(d).id /\ low \in Nat
  BY <1>1, LayerBelowIs DEF Top, Last
<1> HIDE DEF low
<1>5. Top(d).id \in Ids /\ Top(d).id \in Nat
  BY <1>1, LayersTyped, DriveTyped, LayerBelowIs DEF Top, Last
<1>6. \A id \in Ids : id <= low => files'[d][id] = files[d][id]
  BY <1>4, <1>5, IdsAreBelow
<1>7. ReadFrom(files'[d], low) = ReadFrom(files[d], low)
  BY <1>1, <1>2, <1>6, ContentKept
<1>8. KeptLayer(d, i)
  BY DEF DisksInv, KeptInv
<1> QED
  BY <1>3, <1>7, <1>8 DEF KeptLayer, Content, low

\* A step that leaves layers, files and snapshots alone
LEMMA NothingChanges ==
  ASSUME DisksInv, UNCHANGED <<layers, files, saved>>
  PROVE  KeptInv'
  BY DEF DisksInv, KeptInv, KeptLayer, Content

LEMMA GuestWritesDisks ==
  ASSUME DisksInv, ModelInv', NEW d \in Drives, GuestWrites(d)
  PROVE  KeptInv' /\ FreshInv'
<1>1. /\ pc = "running" /\ UNCHANGED <<pc, layers, saved>>
      /\ files' = [files EXCEPT ![d][active[d]].data = writes + 1]
  BY DEF GuestWrites, Running, confVars
<1>2. active[d] = Top(d).id
  BY <1>1 DEF DisksInv, ModelInv, ActiveInv, IsComplete
<1>3. files \in [Drives -> [Ids -> Files]]
  BY DEF DisksInv, ModelInv, TypeOK
<1>4. \A e \in Drives, id \in Ids : id # Top(e).id => files'[e][id] = files[e][id]
  BY <1>1, <1>2, <1>3
<1>5. KeptInv'
  BY <1>1, <1>4, OnlyTopChanges
<1> QED
  BY <1>1, <1>5 DEF FreshInv

LEMMA BlockdevSnapshotSyncDisks ==
  ASSUME DisksInv, ModelInv', BlockdevSnapshotSync
  PROVE  KeptInv' /\ FreshInv'
<1>1. /\ pc = "sync" /\ UNCHANGED <<chain, layers, saved>>
      /\ files' = [files EXCEPT ![drive][Top(drive).id] = Overlay(active[drive])]
  BY DEF BlockdevSnapshotSync, confVars
<1>2. files \in [Drives -> [Ids -> Files]]
  BY DEF DisksInv, ModelInv, TypeOK
<1>3. \A e \in Drives, id \in Ids : id # Top(e).id => files'[e][id] = files[e][id]
  BY <1>1, <1>2
<1>4. KeptInv'
  BY <1>1, <1>3, OnlyTopChanges
<1> QED
  BY <1>1, <1>4 DEF DisksInv, FreshInv, HeadSnapshot, Last

LEMMA InitBlockdevImagesDisks ==
  ASSUME DisksInv, ModelInv', InitBlockdevImages
  PROVE  KeptInv' /\ FreshInv'
<1>1. /\ files' = Created /\ pc' \notin {"overlay", "sync", "migrate"} /\ saved' = saved
      /\ layers' = [d \in Drives |->
                      [i \in DOMAIN layers[d] |->
                         [layers[d][i] EXCEPT !.needs_creating = FALSE]]]
  BY DEF InitBlockdevImages
<1>2. ModelInv
  BY DEF DisksInv
<1>3. \A d \in Drives, id \in Ids : id # Top(d).id => files'[d][id] = files[d][id]
  BY <1>1, <1>2, CreatedIs
<1>4. ASSUME NEW d \in Drives
      PROVE  /\ DOMAIN layers'[d] = DOMAIN layers[d]
             /\ \A i \in DOMAIN layers[d] : /\ layers'[d][i].id = layers[d][i].id
                                            /\ layers'[d][i].snapshot = layers[d][i].snapshot
  <2>1. layers'[d] = [i \in DOMAIN layers[d] |-> [layers[d][i] EXCEPT !.needs_creating = FALSE]]
    BY <1>1
  <2>2. \A i \in DOMAIN layers[d] : layers[d][i] \in Layers
    BY <1>2, DriveTyped, LayersTyped DEF ModelInv
  <2> QED
    BY <2>1, <2>2 DEF Layers
<1>5. KeptInv'
  BY <1>1, <1>3, <1>4, OnlyTopChanges
<1> QED
  BY <1>1, <1>5 DEF FreshInv

LEMMA AddSnapshotDisks ==
  ASSUME DisksInv, ModelInv', NEW name \in Names, AddSnapshot(name)
  PROVE  KeptInv' /\ FreshInv'
<1>1. /\ saved' = [saved EXCEPT ![sequence + 1] = NotSaved] /\ UNCHANGED <<layers, files>>
      /\ chain' = Append(chain, [sequence |-> sequence + 1, name |-> name])
      /\ sequence' = sequence + 1
  BY DEF AddSnapshot, diskVars
<1>2. /\ ModelInv /\ sequence \in Nat /\ sequence + 1 \in Sequences /\ chain \in Seq(Snapshots)
      /\ saved \in [Sequences -> [ram : Contents \cup {NoRam}, disks : [Drives -> Contents]]]
  BY <1>1, SequencesAreNumbers DEF DisksInv, ModelInv, TypeOK
<1>3. ASSUME NEW d \in Drives, NEW i \in DOMAIN layers[d], i # 1
      PROVE  KeptLayer(d, i)'
  <2>1. layers[d][i].snapshot \in Sequences /\ layers[d][i].snapshot <= sequence
    BY <1>2, <1>3, LayerBelowIs DEF ModelInv, StacksInv, Stack
  <2>2. saved'[layers[d][i].snapshot] = saved[layers[d][i].snapshot]
    BY <1>1, <1>2, <2>1, SequencesAreNumbers
  <2>3. KeptLayer(d, i)
    BY <1>3 DEF DisksInv, KeptInv
  <2> QED
    BY <1>1, <2>2, <2>3 DEF KeptLayer, Content
<1>4. KeptInv'
  BY <1>1, <1>3 DEF KeptInv
<1>5. HeadSnapshot'.sequence = sequence + 1
  <2> DEFINE e == [sequence |-> sequence + 1, name |-> name]
  <2>1. e \in Snapshots
    BY <1>2 DEF Snapshots
  <2>2. chain'[Len(chain')] = e
    BY <1>1, <1>2, <2>1, Appended
  <2> QED
    BY <2>2 DEF HeadSnapshot, Last
<1>6. saved'[sequence + 1] = NotSaved
  BY <1>1, <1>2
<1> QED
  BY <1>4, <1>5, <1>6 DEF FreshInv

LEMMA AddSnapshotToDriveDisks ==
  ASSUME DisksInv, ModelInv', AddSnapshotToDrive
  PROVE  KeptInv' /\ FreshInv'
<1> DEFINE e == [id |-> last_overlay_id[drive] + 1, snapshot |-> HeadSnapshot.sequence,
                 needs_creating |-> FALSE]
           old == layers[drive]
           new == Append(old, e)
<1>1. /\ pc = "overlay" /\ UNCHANGED <<chain, files, saved>>
      /\ last_overlay_id[drive] + 1 \in Ids
      /\ layers' = [layers EXCEPT ![drive] = new]
  BY DEF AddSnapshotToDrive, NewOverlayId, diskVars, DisksInv, ModelInv, TypeOK
<1>2. /\ ModelInv /\ TypeOK /\ drive \in Drives /\ old \in Seq(Layers)
      /\ HeadSnapshot.sequence \in Sequences /\ saved[HeadSnapshot.sequence] = NotSaved
  BY <1>1, DriveTyped, HeadTyped DEF DisksInv, ModelInv, LoopInv, FreshInv, TypeOK
<1>3. e \in Layers
  BY <1>1, <1>2 DEF Layers
<1>4. /\ layers'[drive] = new
      /\ \A d \in Drives : d # drive => layers'[d] = layers[d]
  BY <1>1, <1>2 DEF TypeOK
<1> HIDE DEF old
<1>5. /\ \A i \in DOMAIN old : i \in DOMAIN new /\ new[i] = old[i]
      /\ \A i \in DOMAIN new : i \in DOMAIN old \/ new[i] = e
  BY <1>2, <1>3, Appended
<1> HIDE DEF new
<1>6. ASSUME NEW d \in Drives, NEW i \in DOMAIN layers'[d], i # 1
      PROVE  KeptLayer(d, i)'
  <2>1. CASE d # drive
    BY <1>1, <1>4, <1>6, <2>1 DEF DisksInv, KeptInv, KeptLayer, Content
  <2>2. CASE d = drive /\ i \in DOMAIN old
    <3>1. i - 1 \in DOMAIN old
      BY <1>2, <1>6, <2>2, HasOneBelow
    <3>2. new[i] = old[i] /\ new[i - 1] = old[i - 1]
      BY <1>5, <2>2, <3>1
    <3>3. KeptLayer(d, i)
      BY <1>6, <2>2 DEF DisksInv, KeptInv, old
    <3> QED
      BY <1>1, <1>4, <2>2, <3>2, <3>3 DEF KeptLayer, Content, old
  <2>3. CASE d = drive /\ new[i] = e
    BY <1>1, <1>2, <1>4, <2>3 DEF KeptLayer
  <2> QED
    BY <1>4, <1>5, <1>6, <2>1, <2>2, <2>3
<1>7. KeptInv'
  BY <1>6 DEF KeptInv
<1> QED
  BY <1>1, <1>2, <1>7 DEF FreshInv, HeadSnapshot, Last

LEMMA MigrateToFileDisks ==
  ASSUME DisksInv, ModelInv', MigrateToFile
  PROVE  KeptInv' /\ FreshInv'
<1> DEFINE head == HeadSnapshot.sequence
           now == [ram |-> ram, disks |-> [d \in Drives |-> Content(d, files[d][active[d]].backing)]]
<1>1. /\ pc = "migrate" /\ pc' = "running" /\ UNCHANGED <<layers, files>>
      /\ saved' = [saved EXCEPT ![head] = now]
  BY DEF MigrateToFile, confVars
<1>2. /\ ModelInv /\ TypeOK /\ chain # <<>> /\ chain \in Seq(Snapshots) /\ head \in Sequences
      /\ head = chain[Len(chain)].sequence
      /\ saved \in [Sequences -> [ram : Contents \cup {NoRam}, disks : [Drives -> Contents]]]
  BY <1>1, HeadTyped DEF DisksInv, ModelInv, LoopInv, TypeOK
<1> HIDE DEF now, head
<1>3. ASSUME NEW d \in Drives, NEW i \in DOMAIN layers[d], i # 1
      PROVE  KeptLayer(d, i)'
  <2>1. CASE layers[d][i].snapshot # head
    <3>1. saved'[layers[d][i].snapshot] = saved[layers[d][i].snapshot]
      BY <1>1, <1>2, <1>3, <2>1, LayerBelowIs
    <3> QED
      BY <1>1, <1>3, <3>1 DEF DisksInv, KeptInv, KeptLayer, Content
  <2>2. CASE layers[d][i].snapshot = head
    <3>1. /\ layers[d] \in Seq(Layers) /\ Len(layers[d]) = Len(chain) + 1
          /\ Stack(layers[d], chain, last_overlay_id[d], sequence) /\ Counted(chain, sequence)
          /\ Backed(layers[d], files[d]) /\ IsComplete(d) /\ Len(chain) \in Nat
      BY <1>1, <1>2, DriveTyped DEF ModelInv, LengthsInv, LengthInv, StacksInv, ChainInv,
         BackedInv, ActiveInv
    <3>2. Len(layers[d]) >= Len(chain)
      BY <3>1
    <3>3. i = Len(layers[d])
      BY <1>2, <2>2, <3>1, <3>2, NewestIsAbove
    <3>4. files[d][active[d]].backing = layers[d][i - 1].id
      BY <1>3, <3>1, <3>3 DEF IsComplete, Backed, Top, Last
    <3>5. saved'[head].disks[d] = Content(d, layers[d][i - 1].id)
      BY <1>1, <1>2, <3>4 DEF now
    <3> QED
      BY <1>1, <2>2, <3>5 DEF KeptLayer, Content
  <2> QED
    BY <2>1, <2>2
<1>4. KeptInv'
  BY <1>1, <1>3 DEF KeptInv
<1> QED
  BY <1>1, <1>4 DEF FreshInv

LEMMA RevertDriveDisks ==
  ASSUME DisksInv, ModelInv', RevertDrive
  PROVE  KeptInv' /\ FreshInv'
<1>0. ModelInv /\ TypeOK /\ TypeOK' /\ drive \in Drives
  BY DEF DisksInv, ModelInv, TypeOK
<1>1. PICK k \in DOMAIN layers[drive] :
        /\ layers' = [layers EXCEPT ![drive] = LayersKept(k)]
        /\ files' = [files EXCEPT ![drive] =
                       [id \in Ids |->
                          IF \E j \in DOMAIN layers[drive] :
                               j > k /\ layers[drive][j].id = id
                          THEN NoFile ELSE files[drive][id]]]
  BY DEF RevertDrive, DisksInv, ModelInv, TypeOK
<1>2. pc' \notin {"overlay", "sync", "migrate"} /\ saved' = saved
  BY DEF RevertDrive, NextDrive
<1>3. ASSUME NEW d \in Drives, d # drive
      PROVE  layers'[d] = layers[d] /\ files'[d] = files[d]
  BY <1>0, <1>1, <1>3 DEF TypeOK
<1> DEFINE M == LayersKept(k)
<1>4. /\ layers'[drive] = M /\ M \in Seq(Layers)
      /\ \A j \in DOMAIN M : /\ j \in DOMAIN layers[drive] /\ j <= k
                             /\ M[j].id = layers[drive][j].id
                             /\ M[j].snapshot = layers[drive][j].snapshot
  BY <1>0, <1>1, LayersKeptIs DEF TypeOK
<1> HIDE DEF M
<1>5. \A id \in Ids : files'[drive][id] # files[drive][id] =>
        \E j \in DOMAIN layers[drive] : j > k /\ layers[drive][j].id = id
  BY <1>0, <1>1 DEF TypeOK
<1>6. ASSUME NEW d \in Drives, NEW i \in DOMAIN layers'[d], i # 1
      PROVE  KeptLayer(d, i)'
  <2>1. CASE d # drive
    BY <1>2, <1>3, <1>6, <2>1 DEF DisksInv, KeptInv, KeptLayer, Content
  <2>2. CASE d = drive
    <3>1. i \in DOMAIN layers[d] /\ i - 1 \in DOMAIN M /\ i <= k
      BY <1>4, <1>6, <2>2, HasOneBelow
    <3> DEFINE low == layers[d][i - 1].id
    <3>2. layers'[d][i - 1].id = low /\ layers'[d][i].snapshot = layers[d][i].snapshot
      BY <1>4, <1>6, <2>2, <3>1
    <3>3. /\ low \in Ids /\ low \in Nat /\ i \in Nat /\ layers[d] \in Seq(Layers)
          /\ \A j \in DOMAIN layers[d] : i <= j => low < layers[d][j].id
      BY <1>0, <1>6, <3>1, LayerBelowIs, DriveTyped
    <3> HIDE DEF low
    <3>4. \A j \in DOMAIN layers[d] : j > k => i <= j /\ layers[d][j].id \in Nat
      BY <2>2, <3>1, <3>3, LayersTyped
    <3>5. ASSUME NEW id \in Ids, id <= low
          PROVE  files'[d][id] = files[d][id]
      <4>1. ASSUME NEW j \in DOMAIN layers[d], j > k
            PROVE  layers[d][j].id # id
        BY <3>3, <3>4, <3>5, <4>1
      <4> QED
        BY <1>5, <2>2, <4>1
    <3>6. ReadFrom(files'[d], low) = ReadFrom(files[d], low)
      BY <1>0, <3>3, <3>5, ContentKept
    <3>7. KeptLayer(d, i)
      BY <1>6, <3>1 DEF DisksInv, KeptInv
    <3> QED
      BY <1>2, <3>2, <3>6, <3>7 DEF KeptLayer, Content, low
  <2> QED
    BY <2>1, <2>2
<1>7. KeptInv'
  BY <1>6 DEF KeptInv
<1> QED
  BY <1>2, <1>7 DEF FreshInv

LEMMA NextDisks ==
  ASSUME DisksInv, [Next]_vars
  PROVE  DisksInv'
<1>1. ModelInv'
  BY NextModel DEF DisksInv
<1>2. CASE UNCHANGED vars
  <2>1. UNCHANGED <<pc, chain, layers, files, saved>>
    BY <1>2 DEF vars, confVars, diskVars
  <2>2. FreshInv'
    BY <2>1 DEF DisksInv, FreshInv, HeadSnapshot, Last
  <2> QED
    BY <1>1, <2>1, <2>2, NothingChanges DEF DisksInv
<1>3. CASE \E name \in Names : LoadSnapshot(name)
  <2>1. UNCHANGED <<layers, files, saved>> /\ pc' \notin {"overlay", "sync", "migrate"}
    BY <1>3 DEF LoadSnapshot
  <2> QED
    BY <1>1, <2>1, NothingChanges DEF DisksInv, FreshInv
<1>4. CASE MigrationFails \/ MigrateIncoming \/ StopVm
  <2>1. UNCHANGED <<layers, files, saved>> /\ pc' \notin {"overlay", "sync", "migrate"}
    BY <1>4 DEF MigrationFails, MigrateIncoming, StopVm, confVars, diskVars
  <2> QED
    BY <1>1, <2>1, NothingChanges DEF DisksInv, FreshInv
<1>5. CASE \E module \in Modules : SkipTo(module)
  <2>1. UNCHANGED <<layers, files, saved>> /\ pc' \notin {"overlay", "sync", "migrate"}
    BY <1>5 DEF SkipTo, State, StateInv, DisksInv, ModelInv, confVars, diskVars
  <2> QED
    BY <1>1, <2>1, NothingChanges DEF DisksInv, FreshInv
<1>6. CASE RevertDies
  <2>1. /\ UNCHANGED <<files, saved>> /\ pc' \notin {"overlay", "sync", "migrate"}
        /\ layers' = [layers EXCEPT ![drive] = <<>>]
    BY <1>6 DEF RevertDies, diskVars
  <2>2. \A d \in Drives : \A i \in DOMAIN layers'[d] : layers'[d] = layers[d]
    BY <2>1 DEF DisksInv, ModelInv, TypeOK
  <2>3. KeptInv'
    BY <2>1, <2>2 DEF DisksInv, KeptInv, KeptLayer, Content
  <2> QED
    BY <1>1, <2>1, <2>3 DEF DisksInv, FreshInv
<1> QED
  BY <1>1, <1>2, <1>3, <1>4, <1>5, <1>6, GuestWritesDisks, AddSnapshotDisks,
     AddSnapshotToDriveDisks, BlockdevSnapshotSyncDisks, MigrateToFileDisks,
     RevertDriveDisks, InitBlockdevImagesDisks DEF Next, DisksInv

LEMMA DisksInvariant == Spec => []DisksInv
<1>1. DisksInv /\ [Next]_vars => DisksInv'
  BY NextDisks
<1> QED
  BY InitDisks, <1>1, PTL DEF Spec

LEMMA DisksAreIntact ==
  ASSUME DisksInv
  PROVE  SnapshotsIntact
<1> SUFFICES ASSUME NEW d \in Drives, NEW i \in DOMAIN layers[d],
                    layers[d][i].snapshot # NoSnapshot, saved[layers[d][i].snapshot] # NotSaved
             PROVE  Content(d, LayerBelow(d, i)) = saved[layers[d][i].snapshot].disks[d]
  BY DEF SnapshotsIntact
<1>1. i # 1
  BY DEF DisksInv, ModelInv, StacksInv, Stack
<1> QED
  BY <1>1 DEF DisksInv, KeptInv, KeptLayer, LayerBelow

\* Whatever is written, deleted or created, by this job or a later one, and wherever
\* SIGTERM ends a job: the drives below a layer are what they were at its snapshot.
THEOREM SnapshotsAreKept == Spec => []SnapshotsIntact
<1>1. DisksInv => SnapshotsIntact
  BY DisksAreIntact
<1> QED
  BY DisksInvariant, <1>1, PTL

-----------------------------------------------------------------------------
(* What a rollback brings back                                               *)

\* The RAM file of `lastgood' is that of the newest snapshot of this name, which is
\* complete unless it is the one being made.
IsMade(i) ==
  \/ pc \in {"running", "revert", "recreate", "incoming"}
  \/ pc \in {"overlay", "sync", "migrate"} /\ i # Len(chain)
RamInv ==
  milestone =>
    \A i \in DOMAIN chain :
      IsNewest(i, Named(LastGood)) /\ IsMade(i) =>
        /\ saved[chain[i].sequence].ram = ram_files[LastGood]
        /\ ram_files[LastGood] \in Contents

\* A job that has a milestone loads nothing else; the first job loads nothing before.
RollbackInv ==
  /\ milestone /\ pc \in {"revert", "recreate", "incoming"} => HeadSnapshot.name = LastGood
  /\ pc \in {"create", "loaded"} => ~milestone /\ job # 1
  /\ job = 1 /\ pc \in {"revert", "recreate", "incoming"} => milestone
  /\ job = 1 => pc # "died"

\* The overlay above the snapshot that is loaded has to be created, and is empty then.
EmptyInv ==
  \A d \in Drives :
    /\ pc = "recreate" \/ (pc = "revert" /\ d < drive) =>
         layers[d][Len(layers[d])].needs_creating
    /\ pc = "incoming" => files[d][active[d]].data = 0

GuestInv == DisksInv /\ RamInv /\ RollbackInv /\ EmptyInv

LEMMA InitGuest == Init => GuestInv
  BY InitDisks DEF Init, GuestInv, RamInv, RollbackInv, EmptyInv

\* Steps that do not touch what RamInv speaks of
LEMMA RamUnchanged ==
  ASSUME RamInv, UNCHANGED <<chain, saved, ram_files, milestone>>,
         \/ pc' = pc
         \/ pc' \notin {"running", "revert", "recreate", "incoming", "overlay", "sync", "migrate"}
         \/ pc \in {"overlay", "sync"} /\ pc' \in {"overlay", "sync", "migrate"}
         \/ /\ pc \in {"revert", "recreate", "incoming"}
            /\ pc' \in {"revert", "recreate", "incoming", "running"}
  PROVE  RamInv'
  BY DEF RamInv, IsMade, IsNewest, Named

LEMMA AddSnapshotGuest ==
  ASSUME GuestInv, DisksInv', NEW name \in Names, AddSnapshot(name)
  PROVE  GuestInv'
<1> DEFINE e == [sequence |-> sequence + 1, name |-> name]
<1>1. /\ pc = "running" /\ pc' = "overlay" /\ chain' = Append(chain, e)
      /\ saved' = [saved EXCEPT ![sequence + 1] = NotSaved]
      /\ ram_files' = ram_files /\ job' = job
      /\ name = LastGood \/ milestone' = milestone
  BY DEF AddSnapshot, Running, diskVars, Saves
<1>2. /\ chain \in Seq(Snapshots) /\ sequence \in Nat /\ Counted(chain, sequence)
      /\ saved \in [Sequences -> [ram : Contents \cup {NoRam}, disks : [Drives -> Contents]]]
      /\ Len(chain) \in Nat
  BY SequencesAreNumbers, IsSequence DEF GuestInv, DisksInv, ModelInv, TypeOK, ChainInv
<1>3. sequence' \in Sequences /\ sequence' = sequence + 1
  BY <1>2, SequencesAreNumbers DEF AddSnapshot, DisksInv, ModelInv, TypeOK
<1>4. e \in Snapshots
  BY <1>3 DEF Snapshots
<1>5. /\ Len(chain') = Len(chain) + 1 /\ chain'[Len(chain')] = e
      /\ Len(chain') \in DOMAIN chain'
      /\ \A i \in DOMAIN chain : i \in DOMAIN chain' /\ chain'[i] = chain[i]
      /\ \A i \in DOMAIN chain' : i \in DOMAIN chain \/ i = Len(chain')
  <2>1. chain' \in Seq(Snapshots)
    BY <1>1, <1>2, <1>4, Appended
  <2>2. Len(chain') = Len(chain) + 1 /\ chain'[Len(chain')] = e
    BY <1>1, <1>2, <1>4, Appended
  <2>3. Len(chain') \in DOMAIN chain'
    BY <1>2, <2>1, <2>2, IsSequence
  <2> HIDE DEF e
  <2> QED
    BY <1>1, <1>2, <1>4, <2>2, <2>3, Appended
<1>6. RamInv'
  <2> SUFFICES ASSUME milestone', NEW i \in DOMAIN chain', IsNewest(i, Named(LastGood))',
                      IsMade(i)'
               PROVE  /\ saved'[chain'[i].sequence].ram = ram_files[LastGood]
                      /\ ram_files[LastGood] \in Contents
    BY <1>1 DEF RamInv
  <2>1. i # Len(chain')
    BY <1>1 DEF IsMade
  <2>2. i \in DOMAIN chain /\ chain'[i] = chain[i] /\ i \in Nat /\ i <= Len(chain)
    BY <1>2, <1>5, <2>1, ChainTyped
  <2>3. name # LastGood
    <3> SUFFICES ASSUME name = LastGood PROVE FALSE
      OBVIOUS
    <3>1. Len(chain') <= i
      BY <1>5 DEF IsNewest, Named
    <3> QED
      BY <1>2, <1>5, <2>2, <3>1
  <2>4. IsNewest(i, Named(LastGood))
    BY <1>5, <2>2 DEF IsNewest, Named
  <2>5. saved'[chain'[i].sequence] = saved[chain[i].sequence]
    <3>1. chain[i].sequence \in Sequences /\ chain[i].sequence <= sequence
      BY <1>2, <2>2, ChainTyped DEF Counted
    <3>2. chain[i].sequence # sequence + 1
      BY <1>2, <3>1, SequencesAreNumbers
    <3> QED
      BY <1>1, <1>2, <2>2, <3>1, <3>2
  <2>6. milestone
    BY <1>1, <2>3
  <2> QED
    BY <1>1, <2>2, <2>4, <2>5, <2>6 DEF GuestInv, RamInv, IsMade
<1>7. RollbackInv' /\ EmptyInv'
  BY <1>1 DEF GuestInv, RollbackInv, EmptyInv
<1> QED
  BY <1>6, <1>7 DEF GuestInv

LEMMA MigrateToFileGuest ==
  ASSUME GuestInv, DisksInv', MigrateToFile
  PROVE  GuestInv'
<1>1. /\ pc = "migrate" /\ pc' = "running" /\ UNCHANGED <<job, chain, milestone>>
      /\ ram_files' = [ram_files EXCEPT ![HeadSnapshot.name] = ram]
      /\ saved' = [saved EXCEPT ![HeadSnapshot.sequence] =
                     [ram |-> ram,
                      disks |-> [d \in Drives |-> Content(d, files[d][active[d]].backing)]]]
  BY DEF MigrateToFile, confVars, testVars
<1>2. /\ TypeOK /\ chain # <<>> /\ chain \in Seq(Snapshots) /\ Counted(chain, sequence)
      /\ saved \in [Sequences -> [ram : Contents \cup {NoRam}, disks : [Drives -> Contents]]]
      /\ ram_files \in [Names -> Contents \cup {NoRam}] /\ ram \in Contents
  BY <1>1 DEF GuestInv, DisksInv, ModelInv, TypeOK, LoopInv, ChainInv
<1> DEFINE n == Len(chain)
<1>3. /\ n \in DOMAIN chain /\ HeadSnapshot = chain[n] /\ chain[n].sequence \in Sequences
      /\ chain[n].name \in Names /\ LastGood \in Names /\ n \in Nat
  BY <1>2, HeadTyped, IsSequence DEF Names
<1>4. RamInv'
  <2> SUFFICES ASSUME milestone, NEW i \in DOMAIN chain, IsNewest(i, Named(LastGood))
               PROVE  /\ saved'[chain[i].sequence].ram = ram_files'[LastGood]
                      /\ ram_files'[LastGood] \in Contents
    BY <1>1 DEF RamInv, IsNewest, Named
  <2>1. CASE i = n
    <3>1. chain[n].name = LastGood
      BY <2>1 DEF IsNewest, Named
    <3> QED
      BY <1>1, <1>2, <1>3, <2>1, <3>1
  <2>2. CASE i # n
    <3>1. i \in Nat /\ i < n /\ chain[i].sequence \in Sequences
      BY <1>2, <1>3, <2>2, ChainTyped
    <3>2. chain[i].sequence # chain[n].sequence
      BY <1>2, <1>3, <3>1, ChainTyped DEF Counted
    <3>3. chain[n].name # LastGood
      BY <1>3, <3>1 DEF IsNewest, Named
    <3>4. /\ saved[chain[i].sequence].ram = ram_files[LastGood]
          /\ ram_files[LastGood] \in Contents
      BY <1>1, <2>2 DEF GuestInv, RamInv, IsMade
    <3> QED
      BY <1>1, <1>2, <1>3, <3>1, <3>2, <3>3, <3>4
  <2> QED
    BY <2>1, <2>2
<1>5. RollbackInv' /\ EmptyInv'
  BY <1>1 DEF GuestInv, RollbackInv, EmptyInv
<1> QED
  BY <1>4, <1>5 DEF GuestInv

LEMMA LoadSnapshotGuest ==
  ASSUME GuestInv, DisksInv', NEW name \in Names, LoadSnapshot(name)
  PROVE  GuestInv'
<1>1. /\ UNCHANGED <<job, drive, saved, ram_files, milestone>>
      /\ (pc = "running" /\ milestone /\ name = LastGood) \/ pc = "loaded"
      /\ \/ pc' = "dying" /\ chain' = chain
         \/ /\ pc' = "revert"
            /\ \E i \in DOMAIN chain : /\ IsNewest(i, Named(name))
                                       /\ chain' = SubSeq(chain, 1, i)
  BY DEF LoadSnapshot, Running, testVars
<1>2. chain \in Seq(Snapshots) /\ drive = 1
  BY <1>1 DEF GuestInv, DisksInv, ModelInv, TypeOK, LoopInv
<1>3. CASE pc' = "dying"
  BY <1>1, <1>3 DEF GuestInv, RamInv, IsMade, RollbackInv, EmptyInv
<1>4. CASE pc' = "revert" /\ pc = "loaded"
  <2>1. ~milestone /\ job # 1
    BY <1>4 DEF GuestInv, RollbackInv
  <2>2. \A d \in Drives : ~(d < 1)
    BY DEF Drives
  <2> QED
    BY <1>1, <1>2, <1>4, <2>1, <2>2 DEF GuestInv, RamInv, RollbackInv, EmptyInv
<1>5. CASE pc' = "revert" /\ pc = "running"
  <2>1. milestone /\ milestone' /\ name = LastGood
    BY <1>1, <1>5
  <2>2. PICK k \in DOMAIN chain : /\ IsNewest(k, Named(LastGood))
                                  /\ chain' = SubSeq(chain, 1, k)
    BY <1>1, <1>5, <2>1
  <2>3. /\ Len(chain') = k /\ k \in DOMAIN chain' /\ k \in Nat
        /\ \A i \in DOMAIN chain' : i \in DOMAIN chain /\ i <= k /\ chain'[i] = chain[i]
        /\ chain[k].name = LastGood
    <3>1. Len(chain') = k /\ k \in Nat
      BY <1>2, <2>2, Cut, IsSequence
    <3>2. k \in DOMAIN chain'
      BY <1>2, <2>2, <3>1, Cut
    <3>3. \A i \in DOMAIN chain' : i \in DOMAIN chain /\ i <= k /\ chain'[i] = chain[i]
      BY <1>2, <2>2, Cut
    <3>4. chain[k].name = LastGood
      BY <2>2 DEF IsNewest, Named
    <3> QED
      BY <3>1, <3>2, <3>3, <3>4
  <2>4. /\ saved[chain[k].sequence].ram = ram_files[LastGood]
        /\ ram_files[LastGood] \in Contents
    BY <1>5, <2>1, <2>2 DEF GuestInv, RamInv, IsMade
  <2>5. RamInv'
    <3> SUFFICES ASSUME NEW i \in DOMAIN chain', IsNewest(i, Named(LastGood))'
                 PROVE  i = k
      BY <1>1, <2>3, <2>4 DEF RamInv
    <3>1. k <= i
      BY <2>3 DEF IsNewest, Named
    <3>2. i <= k /\ i \in Nat
      BY <1>2, <2>3, ChainTyped
    <3> QED
      BY <2>3, <3>1, <3>2
  <2>6. HeadSnapshot'.name = LastGood
    BY <2>3 DEF HeadSnapshot, Last
  <2>7. \A d \in Drives : ~(d < 1)
    BY DEF Drives
  <2>8. RollbackInv' /\ EmptyInv'
    BY <1>1, <1>2, <1>5, <2>1, <2>6, <2>7 DEF RollbackInv, EmptyInv
  <2> QED
    BY <2>5, <2>8 DEF GuestInv
<1> QED
  BY <1>1, <1>3, <1>4, <1>5

LEMMA RevertDriveGuest ==
  ASSUME GuestInv, DisksInv', RevertDrive
  PROVE  GuestInv'
<1>1. PICK i \in DOMAIN layers[drive] :
        layers' = [layers EXCEPT ![drive] = LayersKept(i)]
  BY DEF RevertDrive, GuestInv, DisksInv, ModelInv, TypeOK
<1>2. /\ pc = "revert" /\ UNCHANGED <<job, chain, ram_files, saved, milestone>>
      /\ \/ drive = LastDrive /\ drive' = 1 /\ pc' = "recreate"
         \/ drive # LastDrive /\ drive' = drive + 1 /\ pc' = "revert"
  BY DEF RevertDrive, NextDrive, testVars
<1>3. RamInv' /\ RollbackInv'
  BY <1>2, RamUnchanged DEF GuestInv, RollbackInv, HeadSnapshot, Last
<1>4. TypeOK /\ drive \in Drives /\ layers \in [Drives -> Seq(Layers)]
  BY DEF GuestInv, DisksInv, ModelInv, TypeOK
<1>5. Len(LayersKept(i)) = i /\ LayersKept(i)[i].needs_creating = TRUE
  <2> DEFINE K == SubSeq(layers[drive], 1, i)
  <2>1. layers[drive] \in Seq(Layers)
    BY <1>4
  <2>2. K \in Seq(Layers) /\ Len(K) = i /\ i \in DOMAIN K
    BY <2>1, Cut, IsSequence
  <2>3. LayersKept(i) = [K EXCEPT ![i].needs_creating = TRUE]
    BY DEF LayersKept
  <2>4. K[i] \in Layers
    BY <2>2
  <2> HIDE DEF K
  <2>5. [K[i] EXCEPT !.needs_creating = TRUE].needs_creating = TRUE
    BY <2>4 DEF Layers
  <2>6. Len(LayersKept(i)) = i
    BY <1>4, LayersKeptIs
  <2> QED
    BY <2>2, <2>3, <2>5, <2>6
<1>6. EmptyInv'
  <2> SUFFICES ASSUME NEW d \in Drives, pc' = "recreate" \/ d < drive'
               PROVE  layers'[d][Len(layers'[d])].needs_creating
    BY <1>2 DEF EmptyInv
  <2>1. CASE d = drive
    BY <1>1, <1>4, <1>5, <2>1
  <2>2. CASE d # drive
    <3>1. d < drive
      BY <1>2, <1>4, <2>2, DriveTyped
    <3>2. layers'[d] = layers[d]
      BY <1>1, <1>4, <2>2
    <3> QED
      BY <1>2, <3>1, <3>2 DEF GuestInv, EmptyInv
  <2> QED
    BY <2>1, <2>2
<1> QED
  BY <1>3, <1>6 DEF GuestInv

LEMMA InitBlockdevImagesGuest ==
  ASSUME GuestInv, DisksInv', InitBlockdevImages
  PROVE  GuestInv'
<1>1. /\ pc \in {"create", "recreate"} /\ files' = Created
      /\ UNCHANGED <<job, chain, ram_files, saved, milestone>>
      /\ \/ /\ active' = [d \in Drives |-> Top(d).id]
            /\ pc' = IF pc = "create" THEN "loaded" ELSE "incoming"
         \/ pc' = "dying"
  BY DEF InitBlockdevImages, testVars
<1>2. RamInv'
  <2>1. RamInv /\ pc' \in {"loaded", "incoming", "dying"}
    BY <1>1 DEF GuestInv
  <2>2. CASE pc = "create"
    BY <1>1, <2>1, <2>2, RamUnchanged
  <2>3. CASE pc = "recreate"
    BY <1>1, <2>1, <2>3, RamUnchanged
  <2> QED
    BY <1>1, <2>2, <2>3
<1>3. RollbackInv'
  BY <1>1 DEF GuestInv, RollbackInv, HeadSnapshot, Last
<1>4. EmptyInv'
  <2> SUFFICES ASSUME pc' = "incoming", NEW d \in Drives
               PROVE  files'[d][active'[d]].data = 0
    BY <1>1 DEF EmptyInv
  <2>1. ModelInv /\ pc = "recreate"
    BY <1>1 DEF GuestInv, DisksInv
  <2> DEFINE L == layers[d]
  <2>2. L \in Seq(Layers) /\ L # <<>> /\ L[Len(L)].needs_creating
    BY <2>1, DriveTyped DEF ModelInv, LengthsInv, LengthInv, GuestInv, EmptyInv
  <2> HIDE DEF L
  <2>3. Len(L) \in DOMAIN L
    BY <2>2, IsSequence
  <2>4. L[Len(L)].id \in Ids /\ active'[d] = L[Len(L)].id
    BY <1>1, <2>1, <2>2, <2>3, LayersTyped DEF Top, Last, L
  <2>5. \E i \in DOMAIN L : L[i].id = L[Len(L)].id /\ L[i].needs_creating
    BY <2>2, <2>3
  <2>6. \E below : Created[d][L[Len(L)].id] = Overlay(below)
    BY <2>4, <2>5 DEF Created, L
  <2> QED
    BY <1>1, <2>4, <2>6 DEF Overlay
<1> QED
  BY <1>2, <1>3, <1>4 DEF GuestInv

LEMMA NextGuest ==
  ASSUME GuestInv, [Next]_vars
  PROVE  GuestInv'
<1>1. DisksInv'
  BY NextDisks DEF GuestInv
<1>2. RamInv /\ RollbackInv /\ EmptyInv
  BY DEF GuestInv
<1>3. CASE UNCHANGED vars
  <2>1. UNCHANGED <<pc, job, drive, chain, layers, files, active, ram_files, saved, milestone>>
    BY <1>3 DEF vars, confVars, diskVars, guestVars, testVars
  <2> QED
    BY <1>1, <1>2, <2>1, RamUnchanged DEF GuestInv, RollbackInv, EmptyInv, HeadSnapshot, Last
<1>4. CASE \/ \E d \in Drives : GuestWrites(d)
           \/ AddSnapshotToDrive \/ BlockdevSnapshotSync \/ RevertDies
  <2>1. /\ UNCHANGED <<job, chain, ram_files, saved, milestone>>
        /\ \/ pc = "running" /\ pc' = "running"
           \/ pc \in {"overlay", "sync"} /\ pc' \in {"overlay", "sync", "migrate"}
           \/ pc = "revert" /\ pc' = "dying"
    BY <1>4 DEF GuestWrites, Running, AddSnapshotToDrive, BlockdevSnapshotSync, NextDrive,
       RevertDies, confVars, diskVars, testVars
  <2>2. RamInv'
    BY <1>2, <2>1, RamUnchanged
  <2>3. RollbackInv' /\ EmptyInv'
    BY <1>2, <2>1 DEF RollbackInv, EmptyInv
  <2> QED
    BY <1>1, <2>2, <2>3 DEF GuestInv
<1>5. CASE MigrationFails
  <2>1. pc' = "dying"
    BY <1>5 DEF MigrationFails
  <2> QED
    BY <1>1, <2>1 DEF GuestInv, RamInv, IsMade, RollbackInv, EmptyInv
<1>6. CASE MigrateIncoming \/ StopVm
  <2>1. /\ UNCHANGED <<job, chain, ram_files, saved, milestone>>
        /\ \/ pc = "incoming" /\ pc' \in {"running", "dying"}
           \/ pc' = "off"
    BY <1>6 DEF MigrateIncoming, StopVm, confVars, diskVars, testVars
  <2>2. RamInv'
    BY <1>2, <2>1, RamUnchanged
  <2>3. RollbackInv' /\ EmptyInv'
    BY <1>2, <2>1 DEF RollbackInv, EmptyInv
  <2> QED
    BY <1>1, <2>2, <2>3 DEF GuestInv
<1>7. CASE \E module \in Modules : SkipTo(module)
  <2>1. milestone' = FALSE /\ job' = job + 1 /\ pc' \in {"create", "died"}
    BY <1>7 DEF SkipTo
  <2>2. job' # 1
    BY <2>1, BoundsAssumption DEF GuestInv, DisksInv, ModelInv, TypeOK
  <2> QED
    BY <1>1, <2>1, <2>2 DEF GuestInv, RamInv, RollbackInv, EmptyInv
<1> QED
  BY <1>1, <1>3, <1>4, <1>5, <1>6, <1>7, AddSnapshotGuest, MigrateToFileGuest,
     LoadSnapshotGuest, RevertDriveGuest, InitBlockdevImagesGuest DEF Next

LEMMA GuestInvariant == Spec => []GuestInv
<1>1. GuestInv /\ [Next]_vars => GuestInv'
  BY NextGuest
<1> QED
  BY InitGuest, <1>1, PTL DEF Spec

\* QEMU runs on drives that are what they were at the snapshot it loads.
DisksComeBack ==
  pc = "incoming" /\ saved[HeadSnapshot.sequence] # NotSaved
    => Disks = saved[HeadSnapshot.sequence].disks

LEMMA DisksAreThose ==
  ASSUME GuestInv
  PROVE  DisksComeBack
<1> SUFFICES ASSUME pc = "incoming", saved[HeadSnapshot.sequence] # NotSaved
             PROVE  Disks = saved[HeadSnapshot.sequence].disks
  BY DEF DisksComeBack
<1> DEFINE head == HeadSnapshot.sequence
<1>1. /\ DisksInv /\ ModelInv /\ TypeOK /\ chain # <<>> /\ head \in Sequences
      /\ head = chain[Len(chain)].sequence /\ Len(chain) \in DOMAIN chain
      /\ chain \in Seq(Snapshots)
  BY HeadTyped DEF GuestInv, DisksInv, ModelInv, LoopInv, TypeOK
<1>2. ASSUME NEW d \in Drives
      PROVE  Content(d, active[d]) = saved[head].disks[d]
  <2> DEFINE L == layers[d]
             n == Len(L)
  <2>1. /\ L \in Seq(Layers) /\ n = Len(chain) + 1 /\ IsComplete(d)
        /\ Stack(L, chain, last_overlay_id[d], sequence) /\ Backed(L, files[d])
        /\ files[d] \in [Ids -> Files] /\ active[d] = L[n].id /\ active[d] \in Ids
        /\ Len(chain) \in Nat
    BY <1>1, DriveTyped DEF ModelInv, LengthsInv, LengthInv, ActiveInv, StacksInv, BackedInv,
       IsComplete, Top, Last
  <2>2. n \in DOMAIN L /\ n # 1 /\ n - 1 = Len(chain)
    <3> HIDE DEF L
    <3>1. Len(chain) # 0
      BY <1>1, EmptyHasNone
    <3> QED
      BY <2>1, <3>1, IsSequence
  <2>3. /\ L[n - 1].id \in Ids /\ L[n - 1].id < L[n].id
        /\ L[n - 1].id \in Nat /\ L[n].id \in Nat
    BY <1>1, <2>2, LayerBelowIs
  <2>4. L[n].snapshot = head
    BY <1>1, <2>1, <2>2 DEF Stack
  <2>5. files[d][active[d]].data = 0 /\ files[d][active[d]].backing = L[n - 1].id
    BY <2>1, <2>2 DEF GuestInv, EmptyInv, IsComplete, Backed
  <2>6. KeptLayer(d, n)
    BY <1>1, <2>2 DEF DisksInv, KeptInv
  <2> HIDE DEF L, n, head
  <2>7. ReadFrom(files[d], active[d]) = ReadFrom(files[d], L[n - 1].id)
    BY <2>1, <2>3, <2>5, ReadUnfolds
  <2>8. Content(d, L[n - 1].id) = saved[head].disks[d]
    BY <2>4, <2>6 DEF KeptLayer, L, head
  <2> QED
    BY <2>7, <2>8 DEF Content
<1>3. saved[head].disks \in [Drives -> Contents]
  <2>1. saved[head] \in [ram : Contents \cup {NoRam}, disks : [Drives -> Contents]]
    BY <1>1 DEF TypeOK
  <2> HIDE DEF head
  <2> QED
    BY <2>1
<1> HIDE DEF head
<1>4. Disks = saved[head].disks
  BY <1>2, <1>3 DEF Disks
<1> QED
  BY <1>4 DEF head

\* What a rollback within a job brings back: the milestone was complete, the RAM file
\* is the one that was saved with it, and the drives are those of the same moment.
RollbackIsTrue ==
  pc = "incoming" /\ milestone =>
    LET milestoneSaved == saved[HeadSnapshot.sequence]
    IN  /\ milestoneSaved # NotSaved
        /\ ram_files[HeadSnapshot.name] = milestoneSaved.ram
        /\ Disks = milestoneSaved.disks

LEMMA RollbackRestores ==
  ASSUME GuestInv
  PROVE  RollbackIsTrue
<1> SUFFICES ASSUME pc = "incoming", milestone
             PROVE  /\ saved[HeadSnapshot.sequence] # NotSaved
                    /\ ram_files[HeadSnapshot.name] = saved[HeadSnapshot.sequence].ram
                    /\ Disks = saved[HeadSnapshot.sequence].disks
  BY DEF RollbackIsTrue
<1>1. /\ TypeOK /\ chain # <<>> /\ chain \in Seq(Snapshots) /\ HeadSnapshot.name = LastGood
  BY DEF GuestInv, DisksInv, ModelInv, LoopInv, RollbackInv, TypeOK
<1>2. Len(chain) \in DOMAIN chain /\ HeadSnapshot = chain[Len(chain)]
  BY <1>1, HeadTyped
<1>3. IsNewest(Len(chain), Named(LastGood))
  BY <1>1, <1>2, IsSequence DEF IsNewest, Named
<1>4. /\ saved[HeadSnapshot.sequence].ram = ram_files[LastGood]
      /\ ram_files[LastGood] \in Contents
  BY <1>2, <1>3 DEF GuestInv, RamInv, IsMade
<1>5. NotSaved.ram \notin Contents
  BY BoundsAssumption DEF NotSaved, NoRam, Contents
<1>6. saved[HeadSnapshot.sequence] # NotSaved
  BY <1>4, <1>5
<1> QED
  BY <1>1, <1>4, <1>6, DisksAreThose DEF DisksComeBack

\* However many snapshots, rollbacks and jobs there were: a rollback of autotest finds
\* its milestone complete, and brings the RAM and the drives of that moment back.
THEOREM RollbacksAreTrue == Spec => [](RollbackIsTrue /\ DisksComeBack)
<1>1. GuestInv => RollbackIsTrue /\ DisksComeBack
  BY RollbackRestores, DisksAreThose
<1> QED
  BY GuestInvariant, <1>1, PTL

\* Without SKIPTO, that is in a job on its own overlays, loading a snapshot brings back
\* what was saved. (With SKIPTO the RAM file may be younger than the snapshot: the
\* third job of an instance shows it.)
THEOREM OneJobRestores == Jobs = 1 => (Spec => RestoredAsSaved)
<1> SUFFICES ASSUME Jobs = 1 PROVE Spec => RestoredAsSaved
  OBVIOUS
<1>1. ASSUME GuestInv, [Next]_vars
      PROVE  [pc = "incoming" /\ pc' = "running" /\ saved[HeadSnapshot.sequence] # NotSaved
                => /\ ram' = saved[HeadSnapshot.sequence].ram
                   /\ Disks = saved[HeadSnapshot.sequence].disks]_vars
  <2> SUFFICES ASSUME pc = "incoming", pc' = "running", ~UNCHANGED vars
               PROVE  /\ ram' = saved[HeadSnapshot.sequence].ram
                      /\ Disks = saved[HeadSnapshot.sequence].disks
    OBVIOUS
  <2>1. milestone
    <3>1. RollbackInv /\ TypeOK
      BY <1>1 DEF GuestInv, DisksInv, ModelInv
    <3>2. job = 1
      BY <3>1 DEF TypeOK
    <3> QED
      BY <3>1, <3>2 DEF RollbackInv
  <2>2. MigrateIncoming
    BY <1>1 DEF Next, GuestWrites, AddSnapshot, LoadSnapshot, AddSnapshotToDrive,
       BlockdevSnapshotSync, MigrateToFile, MigrationFails, RevertDrive, RevertDies,
       InitBlockdevImages, StopVm, SkipTo, Running
  <2>3. ram' = ram_files[HeadSnapshot.name]
    BY <2>2 DEF MigrateIncoming
  <2> QED
    BY <1>1, <2>1, <2>3, RollbackRestores DEF RollbackIsTrue
<1> QED
  BY GuestInvariant, <1>1, PTL DEF Spec, RestoredAsSaved
=============================================================================
