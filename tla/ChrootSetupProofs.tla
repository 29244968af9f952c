------------------------- MODULE ChrootSetupProofs -------------------------
(***************************************************************************)
(* Theorems of ChrootSetup, for every request, every configuration and any  *)
(* number of changes the caller makes in its tree while root works in it.   *)
(***************************************************************************)
EXTENDS ChrootSetup, TLAPS

USE RequestAssumption

(***************************************************************************)
(* The inductive invariant.  Its core is what the executor knows about the  *)
(* directory it stands in although the caller may exchange the names that   *)
(* led there: the first lstat fixes the directory, is_changed holds the     *)
(* chdir to it, and only the executor mounts or makes anything in between.  *)
(***************************************************************************)
Early == {"ns", "enter", "unshare", "sort"}
Walking == {"lstat", "chdir", "lstat2", "getcwd"}
Placing == Walking \cup {"mount"}
InDevices == {"mkdir", "mknod", "copy"}

(* The namespace is a slave before the first mount.                         *)
NamespaceOk ==
  /\ outside = {}
  /\ pc \notin Early \cup {"slave", "dead"} => ns = "slave"

(* The walk is made with the caller's credentials.                          *)
CredsOk ==
  /\ pc \in Walking => fsuid = "caller"
  /\ Searchable(cwd)

(* No directory of root's stands in one of the caller's, and the two names  *)
(* in the tmpfs of /dev lead to the directories setup_devices made.         *)
EntriesOk ==
  /\ \A s \in Slots :
       Owner(s[1]) = "caller" /\ entry[s].kind = "dir" =>
         Owner(entry[s].to) # "root"
  /\ entry[<<"dev:", "shm">>] \in {Nothing, Dir("dev:shm")}
  /\ entry[<<"dev:", "pts">>] \in {Nothing, Dir("dev:pts")}

(* Where a file system may be mounted.                                      *)
Target(m, d) == CASE m = "/dev/shm" -> d = "dev:shm"
                  [] m = "/dev/pts" -> d = "dev:pts"
                  [] OTHER -> Owner(d) # "root"
MountsOk == \A d \in Dirs : mnt[d] # "none" => Target(mnt[d], d)

(* What is still to be done was not done yet, and /dev comes before the     *)
(* devices and the devices before everything else.                          *)
OrderOk ==
  /\ pc \in Early => todo = {}
  /\ pc \in Early \cup {"slave", "fstab"} => \A d \in Dirs : mnt[d] = "none"
  /\ \A d \in Dirs : mnt[d] \notin todo /\ (pc \in Placing => mnt[d] # job)
  /\ pc \in Placing \cup InDevices => job \notin todo
  /\ pc = "mount" => job # "devices"
  /\ pc \in InDevices => job = "devices"
  /\ pc \in Placing /\ "devices" \in todo => job = "/dev"
  /\ "devices" \in todo \/ (pc \in Walking /\ job = "devices") =>
       \A d \in Dirs : mnt[d] \in {"none", "/dev"}

(* The last name of a path below /dev, and the directory it stands for.     *)
Last(m) == IF m = "/dev/shm" THEN "shm" ELSE "pts"
Below(m) == IF m = "/dev/shm" THEN "dev:shm" ELSE "dev:pts"

(* The executor in directory d, about to enter e; and d as entered by the   *)
(* first name of e.                                                         *)
StandsIn(d, e) ==
  CASE job = "devices" -> d = "chroot" /\ e = <<"dev">>
    [] IsDevSubdir(job) -> \/ d = "chroot" /\ e = <<"dev", Last(job)>>
                           \/ d \in FsRoots /\ e = <<Last(job)>>
    [] OTHER -> TRUE
Entered(d, e) ==
  CASE job = "devices" -> d = "dev:" /\ e = <<"dev">>
    [] IsDevSubdir(job) -> \/ d \in FsRoots /\ e = <<"dev", Last(job)>>
                           \/ d = Below(job) /\ e = <<Last(job)>>
    [] OTHER -> Owner(d) # "root" /\ mnt[d] = "none"
Arrived(d) == IF job = "devices" THEN d = "dev:"
              ELSE Target(job, d) /\ mnt[d] = "none"
WalkOk ==
  /\ pc \in {"lstat", "chdir", "lstat2"} => elems # <<>>
  /\ pc = "lstat" => StandsIn(cwd, elems)
  /\ pc \in {"chdir", "lstat2"} => Entered(st1.ino, elems)
  /\ pc \in {"getcwd", "mount"} => Arrived(cwd)
  /\ pc \in InDevices => cwd = "dev:"

(* What was requested was mounted, is being mounted or still to be done.    *)
RequestsOk ==
  pc \notin Early \cup {"dead"} =>
    /\ \A i \in requested : ~Refused(i)
    /\ todo \subseteq Wanted \cup {"devices"}
    /\ pc \in Placing => job \in Wanted \cup {"devices"}
    /\ \A d \in Dirs : mnt[d] \in Wanted \cup {"none"}
    /\ \A m \in Wanted : \/ m \in todo
                         \/ pc \in Placing /\ job = m
                         \/ on[m] # "none"
    /\ pc \in {"back", "chroot", "done"} => todo = {}

(* The device nodes made: none, then setup_devices' own, then all.          *)
NodesDue == \/ pc \in Early \/ "devices" \in todo
            \/ pc \in Walking \cup {"mkdir", "mknod"} /\ job = "devices"
DevicesOk ==
  /\ \A p \in made : p[1] = "dev:"
  /\ pc # "dead" =>
       /\ NodesDue => made = {}
       /\ ~NodesDue => /\ {"dev:"} \X StartNodes \subseteq made
                       /\ made \subseteq {"dev:"} \X (StartNodes \cup DevVec)
       /\ ~NodesDue /\ pc # "copy" => {"dev:"} \X DevVec \subseteq made

(* A file system was mounted where it may be, and is there until that       *)
(* directory is removed; none but that of /dev before setup_devices makes   *)
(* its directories.                                                         *)
PlacedOk ==
  /\ \A m \in MountPoints :
       on[m] # "none" => Target(m, on[m]) /\ (Named(on[m]) => mnt[on[m]] = m)
  /\ NodesDue => \A m \in MountPoints : m # "/dev" => on[m] = "none"

SetupInv == /\ TypeOK /\ NamespaceOk /\ CredsOk /\ EntriesOk /\ MountsOk
            /\ OrderOk /\ WalkOk /\ RequestsOk /\ DevicesOk /\ PlacedOk

-----------------------------------------------------------------------------
USE DEF input, space, jobs, walk, exec, vars

(* Nodes and directories have their fields.                                 *)
LEMMA NodeFields ==
  /\ \A n \in Nodes : n.kind \in {"none", "dir", "link"} /\ n.to \in Dirs
  /\ \A d \in Dirs : Dir(d) \in Nodes
  /\ Nothing \in Nodes /\ Nothing.kind = "none" /\ Nothing.to = "/"
  /\ \A d \in Dirs : Dir(d).kind = "dir" /\ Dir(d).to = d
  /\ \A d, e \in Dirs : Dir(d) # Nothing /\ (Dir(d) = Dir(e) => d = e)
<1>1. "/" \in Dirs
  BY DEF Dirs, SystemDirs
<1>2. \A n \in Nodes : n.kind \in {"none", "dir", "link"} /\ n.to \in Dirs
  <2> SUFFICES ASSUME NEW n \in Nodes
               PROVE  n.kind \in {"none", "dir", "link"} /\ n.to \in Dirs
    OBVIOUS
  <2>1. CASE n = Nothing
    BY <1>1, <2>1 DEF Nothing
  <2>2. CASE \E d \in Dirs : n = Dir(d)
    BY <2>2 DEF Dir
  <2>3. CASE \E d \in Dirs : n = Link(d)
    BY <2>3 DEF Link
  <2> QED  BY <2>1, <2>2, <2>3 DEF Nodes
<1>3. Nothing \in Nodes /\ \A d \in Dirs : Dir(d) \in Nodes
  BY DEF Nodes
<1>4. Nothing.kind = "none" /\ Nothing.to = "/"
  BY DEF Nothing
<1>5. \A d : Dir(d).kind = "dir" /\ Dir(d).to = d
  BY DEF Dir
<1>6. \A d, e \in Dirs : Dir(d) # Nothing /\ (Dir(d) = Dir(e) => d = e)
  BY <1>4, <1>5
<1> QED  BY <1>2, <1>3, <1>4, <1>5, <1>6

(* Path resolution stays among the directories; a mounted root is root's.   *)
LEMMA Resolution ==
  ASSUME TypeOK
  PROVE  /\ \A d \in Dirs : Top(d) \in Dirs
         /\ \A d \in Dirs : Owner(Top(d)) # "root" =>
                             Top(d) = d /\ mnt[d] = "none"
         /\ \A d, name : Lookup(d, name) \in Nodes
<1>1. \A m \in MountPoints : FsRoot(m) \in Dirs /\ Owner(FsRoot(m)) = "root"
  BY DEF MountPoints, FsRoot, Dirs, FsRoots, Owner, CallerDirs
<1>2. \A d \in Dirs : mnt[d] \in MountPoints \cup {"none"}
  BY DEF TypeOK
<1>3. \A s \in Slots : entry[s] \in Nodes
  BY DEF TypeOK
<1> QED  BY <1>1, <1>2, <1>3, NodeFields DEF Top, Lookup

(* The executor starts in a state of the invariant.                         *)
LEMMA InitStep == Init => SetupInv
<1> SUFFICES ASSUME Init PROVE SetupInv
  OBVIOUS
<1>1. TypeOK
  <2>1. entry \in [Slots -> Nodes]
    BY NodeFields DEF Init, Nodes, Dirs, CallerDirs, SystemDirs, SysfsDirs
  <2>2. job \in Jobs /\ cwd \in Dirs /\ st1 \in [ino : Dirs, attr : Attrs]
    BY DEF Init, Jobs, Dirs, SystemDirs, NoStat, Attrs
  <2>3. attr \in [Dirs -> Attrs] /\ mnt \in [Dirs -> MountPoints \cup {"none"}]
    BY DEF Init, Attrs
  <2> QED  BY <2>1, <2>2, <2>3 DEF Init, TypeOK, Step
<1>2. EntriesOk
  <2>1. entry[<<"dev:", "shm">>] = Nothing /\ entry[<<"dev:", "pts">>] = Nothing
    BY DEF Init, Slots
  <2>2. ASSUME NEW s \in Slots, Owner(s[1]) = "caller", entry[s].kind = "dir"
        PROVE  Owner(entry[s].to) # "root"
    BY <2>2 DEF Init, Slots, Owner, CallerDirs, Dir, Link, Nothing
  <2> QED  BY <2>1, <2>2 DEF EntriesOk
<1>3. NamespaceOk /\ CredsOk
  BY DEF Init, NamespaceOk, Early, CredsOk, Walking, Searchable
<1>4. MountsOk /\ OrderOk /\ WalkOk
  BY DEF Init, MountsOk, OrderOk, WalkOk, Early, Walking, Placing, InDevices
<1>5. RequestsOk /\ DevicesOk /\ PlacedOk
  BY DEF Init, RequestsOk, DevicesOk, NodesDue, Early, PlacedOk
<1> QED  BY <1>1, <1>2, <1>3, <1>4, <1>5 DEF SetupInv

(* Steps that neither mount, nor make nor remove anything.                  *)
LEMMA PlacedKept ==
  ASSUME PlacedOk, UNCHANGED <<entry, mnt, on>>, NodesDue' => NodesDue
  PROVE  PlacedOk'
BY DEF PlacedOk, Named

(* An executor that dies leaves everything as it is.                        *)
LEMMA DieStep ==
  ASSUME SetupInv, Die, UNCHANGED <<entry, attr, changes>>
  PROVE  SetupInv'
<1> USE DEF Die, SetupInv
<1>1. TypeOK'
  BY DEF TypeOK, Step
<1>2. NamespaceOk' /\ CredsOk' /\ EntriesOk'
  BY DEF NamespaceOk, CredsOk, EntriesOk, Early, Walking
<1>3. MountsOk' /\ OrderOk' /\ WalkOk'
  BY DEF MountsOk, OrderOk, WalkOk, Early, Walking, Placing, InDevices
<1>4. RequestsOk' /\ DevicesOk'
  BY DEF RequestsOk, DevicesOk
<1>5. PlacedOk'
  BY PlacedKept DEF NodesDue, Early, Walking
<1> QED  BY <1>1, <1>2, <1>3, <1>4, <1>5

(* What the requests stand for depends on nothing that changes.             *)
LEMMA RequestsFixed ==
  ASSUME UNCHANGED requested
  PROVE  /\ UNCHANGED <<Wanted, StartNodes, DevVec>>
         /\ \A i : Refused(i)' <=> Refused(i)
BY DEF Wanted, StartNodes, DevPtsMounted, DevVec, MpointVec, Allowed, Refused

(* The steps before the first mount.                                        *)
LEMMA PrepareStep ==
  ASSUME SetupInv, UNCHANGED <<entry, attr, changes>>,
         \/ SetupNs \/ EnterChroot \/ UnshareMount \/ SortRequests
         \/ MakeSlave \/ SetupFstab
  PROVE  SetupInv'
<1> SUFFICES ASSUME ~Die PROVE SetupInv'
  BY DieStep
<1> USE DEF SetupInv
<1>1. /\ UNCHANGED <<requested, prefixed, mnt, on, outside, job, elems, st1, made>>
      /\ "chroot" \in Dirs /\ "/" \in Dirs
      /\ \/ pc = "ns" /\ pc' = "enter" /\ UNCHANGED <<todo, cwd, fsuid>>
            /\ ns' = "caller"
         \/ pc = "enter" /\ pc' = "unshare" /\ UNCHANGED <<todo, ns>>
            /\ cwd' = "chroot" /\ fsuid' = "root"
         \/ pc = "unshare" /\ pc' = "sort" /\ UNCHANGED <<todo, cwd, fsuid>>
            /\ ns' = "private"
         \/ /\ pc = "sort" /\ pc' = "slave" /\ UNCHANGED <<ns, cwd, fsuid>>
            /\ todo' = {"/dev", "devices", "/dev/shm"} \cup MpointVec
            /\ \A i \in requested : ~Refused(i)
         \/ pc = "slave" /\ pc' = "fstab" /\ UNCHANGED <<todo, cwd, fsuid>>
            /\ ns' = "slave"
         \/ pc = "fstab" /\ pc' = "next" /\ UNCHANGED <<todo, ns, fsuid>>
            /\ cwd' = "/"
  BY DEF SetupNs, EnterChroot, UnshareMount, SortRequests, MakeSlave, SetupFstab,
         FchdirUid, RestoreCreds, Dirs, CallerDirs, SystemDirs
<1>2. MpointVec \subseteq MountPoints /\ MpointVec \subseteq Wanted
  BY DEF MpointVec, Allowed, Wanted
<1>3. TypeOK'
  BY <1>1, <1>2 DEF TypeOK, Step, Jobs, MountPoints
<1>4. NamespaceOk' /\ CredsOk' /\ EntriesOk'
  BY <1>1 DEF NamespaceOk, CredsOk, EntriesOk, Early, Walking, Searchable
<1>5. MountsOk' /\ OrderOk' /\ WalkOk'
  BY <1>1, <1>2 DEF MountsOk, OrderOk, WalkOk, Early, Walking, Placing, InDevices,
                    MountPoints
<1>6. RequestsOk'
  BY <1>1, <1>2 DEF RequestsOk, OrderOk, Early, Placing, Walking, Wanted, Always,
                    MpointVec, Allowed, Refused
<1>7. DevicesOk'
  BY <1>1, RequestsFixed DEF DevicesOk, NodesDue, Early, Walking, RequestsOk
<1>12. PlacedOk'
  BY <1>1, <1>2, PlacedKept DEF NodesDue, Early, Walking
<1> QED  BY <1>3, <1>4, <1>5, <1>6, <1>7, <1>12

(***************************************************************************)
(* The walk.  Lstat: what the validator lets through is where the job may   *)
(* be, whatever the caller has put there.                                   *)
(***************************************************************************)
LEMMA LstatStep ==
  ASSUME SetupInv, Lstat, UNCHANGED <<entry, attr, changes>>
  PROVE  SetupInv'
<1> SUFFICES ASSUME ~Die PROVE SetupInv'
  BY DieStep
<1> USE DEF SetupInv
<1> DEFINE n == Lookup(cwd, Head(elems))
           d == Top(n.to)
<1>1. /\ pc = "lstat" /\ pc' = "chdir"
      /\ n.kind = "dir" /\ Valid(d)
      /\ st1' = [ino |-> d, attr |-> attr[d]]
      /\ UNCHANGED <<requested, prefixed, mnt, on, ns, outside, todo, job, elems,
                     cwd, fsuid, made>>
  BY DEF Lstat
<1>2. n \in Nodes /\ n.to \in Dirs /\ d \in Dirs
  BY Resolution, NodeFields
<1>3. st1'.ino = d /\ st1' \in [ino : Dirs, attr : Attrs]
  BY <1>1, <1>2 DEF TypeOK
<1>4. Entered(d, elems)
  <2>1. StandsIn(cwd, elems)
    BY <1>1 DEF WalkOk
  <2>2. ASSUME cwd = "chroot", Head(elems) = "dev", Owner(d) = "root"
        PROVE  mnt[n.to] \in {"/dev", "/sys", "/sys/fs/cgroup"}
               /\ d = FsRoot(mnt[n.to])
    <3>1. n = entry[<<"chroot", "dev">>] /\ <<"chroot", "dev">> \in Slots
      BY <2>2 DEF Lookup, Slots
    <3>2. Owner(n.to) # "root"
      BY <1>1, <3>1 DEF EntriesOk, Owner, CallerDirs
    <3>3. mnt[n.to] # "none" /\ d = FsRoot(mnt[n.to])
      BY <2>2, <3>2 DEF Top
    <3>4. Target(mnt[n.to], n.to) /\ mnt[n.to] \in MountPoints
      BY <1>2, <3>3 DEF MountsOk, TypeOK
    <3> QED  BY <3>2, <3>3, <3>4 DEF Target, MountPoints, Owner, CallerDirs
  <2>3. CASE job = "devices"
    <3>1. cwd = "chroot" /\ elems = <<"dev">>
      BY <2>1, <2>3 DEF StandsIn, IsDevSubdir
    <3>2. Head(elems) = "dev"
      BY <3>1
    <3>3. Owner(d) = "root"
      BY <1>1, <2>3 DEF Valid, RootOk
    <3>4. mnt[n.to] \in {"none", "/dev"}
      BY <1>1, <1>2, <2>3 DEF OrderOk, Walking
    <3>5. d = "dev:"
      BY <2>2, <3>1, <3>2, <3>3, <3>4 DEF FsRoot
    <3> QED  BY <2>3, <3>1, <3>5 DEF Entered, IsDevSubdir
  <2>4. CASE IsDevSubdir(job)
    <3>1. Owner(d) = "root" /\ job # "devices"
      BY <1>1, <2>4 DEF Valid, RootOk, IsDevSubdir
    <3>2. CASE cwd = "chroot" /\ elems = <<"dev", Last(job)>>
      <4>1. Head(elems) = "dev"
        BY <3>2
      <4>2. d \in FsRoots
        BY <2>2, <3>1, <3>2, <4>1 DEF FsRoot, FsRoots
      <4> QED  BY <2>4, <3>1, <3>2, <4>2 DEF Entered
    <3>3. CASE cwd \in FsRoots /\ elems = <<Last(job)>>
      <4>1. Head(elems) = Last(job)
        BY <3>3
      <4>2. n # Nothing
        BY <1>1, NodeFields
      <4>3. n = Dir(Below(job)) /\ Below(job) \in TmpfsDirs
        BY <2>4, <3>3, <4>1, <4>2
        DEF Lookup, Slots, FsRoots, Last, Below, IsDevSubdir, EntriesOk, TmpfsDirs
      <4>4. n.to = Below(job) /\ Below(job) \in Dirs
        BY <4>3, NodeFields DEF Dirs
      <4>5. mnt[Below(job)] = "none"
        <5>1. mnt[Below(job)] # job
          BY <1>1, <4>4 DEF OrderOk, Placing, Walking
        <5>2. mnt[Below(job)] # "none" => Target(mnt[Below(job)], Below(job))
          BY <4>4 DEF MountsOk
        <5> QED  BY <2>4, <5>1, <5>2
                 DEF Target, Below, IsDevSubdir, Owner, CallerDirs
      <4> QED  BY <2>4, <3>1, <3>3, <4>4, <4>5 DEF Entered, Top
    <3> QED  BY <2>1, <2>4, <3>1, <3>2, <3>3 DEF StandsIn
  <2>5. CASE job # "devices" /\ ~IsDevSubdir(job)
    <3>1. Owner(d) # "root"
      BY <1>1, <2>5 DEF Valid, CallerRooterOk
    <3>2. d = n.to /\ mnt[n.to] = "none"
      BY <1>2, <3>1, Resolution
    <3> QED  BY <2>5, <3>1, <3>2 DEF Entered
  <2> QED  BY <2>3, <2>4, <2>5
<1> HIDE DEF n, d
<1>5. TypeOK'
  BY <1>1, <1>3 DEF TypeOK, Step
<1>6. NamespaceOk' /\ CredsOk' /\ EntriesOk' /\ MountsOk' /\ OrderOk'
  BY <1>1 DEF NamespaceOk, CredsOk, EntriesOk, MountsOk, OrderOk, Early, Walking,
              Placing, InDevices
<1>8. WalkOk'
  BY <1>1, <1>3, <1>4 DEF WalkOk, InDevices, Entered
<1>9. RequestsOk' /\ DevicesOk'
  BY <1>1, RequestsFixed
  DEF RequestsOk, DevicesOk, NodesDue, Early, Walking, Placing
<1>12. PlacedOk'
  BY <1>1, <1>2, PlacedKept DEF NodesDue, Early, Walking
<1> QED  BY <1>5, <1>6, <1>8, <1>9, <1>12

(* Chdir: with the caller's credentials it goes nowhere the caller cannot.  *)
LEMMA ChdirStep ==
  ASSUME SetupInv, Chdir, UNCHANGED <<entry, attr, changes>>
  PROVE  SetupInv'
<1> SUFFICES ASSUME ~Die PROVE SetupInv'
  BY DieStep
<1> USE DEF SetupInv
<1> DEFINE d == Top(Lookup(cwd, Head(elems)).to)
<1>1. /\ pc = "chdir" /\ pc' = "lstat2" /\ cwd' = d
      /\ fsuid = "root" \/ Searchable(d)
      /\ UNCHANGED <<requested, prefixed, mnt, on, ns, outside, todo, job, elems,
                     fsuid, st1, made>>
  BY DEF Chdir
<1>2. d \in Dirs
  BY Resolution, NodeFields
<1>3. Searchable(d)
  BY <1>1 DEF CredsOk, Walking
<1> HIDE DEF d
<1>4. TypeOK'
  BY <1>1, <1>2 DEF TypeOK, Step
<1>5. NamespaceOk' /\ CredsOk' /\ EntriesOk' /\ MountsOk' /\ OrderOk'
  BY <1>1, <1>3 DEF NamespaceOk, CredsOk, EntriesOk, MountsOk, OrderOk, Early,
                    Walking, Placing, InDevices
<1>6. WalkOk'
  BY <1>1 DEF WalkOk, InDevices, Entered
<1>7. RequestsOk' /\ DevicesOk'
  BY <1>1, RequestsFixed
  DEF RequestsOk, DevicesOk, NodesDue, Early, Walking, Placing
<1>12. PlacedOk'
  BY <1>1, <1>2, PlacedKept DEF NodesDue, Early, Walking
<1> QED  BY <1>4, <1>5, <1>6, <1>7, <1>12

(* Lstat2: the directory entered is the one the validator saw.              *)
LEMMA Lstat2Step ==
  ASSUME SetupInv, Lstat2, UNCHANGED <<entry, attr, changes>>
  PROVE  SetupInv'
<1> SUFFICES ASSUME ~Die PROVE SetupInv'
  BY DieStep
<1> USE DEF SetupInv
<1>1. /\ pc = "lstat2" /\ st1.ino = cwd /\ elems' = Tail(elems)
      /\ pc' = IF Tail(elems) = <<>> THEN "getcwd" ELSE "lstat"
      /\ UNCHANGED <<requested, prefixed, mnt, on, ns, outside, todo, job, cwd,
                     fsuid, st1, made>>
  BY DEF Lstat2, Unchanged
<1>2. Entered(cwd, elems) /\ elems # <<>>
  BY <1>1 DEF WalkOk
<1>3. TypeOK'
  BY <1>1, <1>2 DEF TypeOK, Step
<1>4. NamespaceOk' /\ CredsOk' /\ EntriesOk' /\ MountsOk' /\ OrderOk'
  BY <1>1 DEF NamespaceOk, CredsOk, EntriesOk, MountsOk, OrderOk, Early, Walking,
              Placing, InDevices
<1>5. IF Tail(elems) = <<>> THEN Arrived(cwd) ELSE StandsIn(cwd, Tail(elems))
  <2>1. CASE job = "devices"
    <3>1. cwd = "dev:" /\ elems = <<"dev">>
      BY <1>2, <2>1 DEF Entered, IsDevSubdir
    <3>2. Tail(elems) = <<>>
      BY <3>1
    <3> QED  BY <2>1, <3>1, <3>2 DEF Arrived
  <2>2. CASE IsDevSubdir(job)
    <3>1. job # "devices" /\ job \in {"/dev/shm", "/dev/pts"}
      BY <2>2 DEF IsDevSubdir
    <3>2. CASE cwd \in FsRoots /\ elems = <<"dev", Last(job)>>
      <4>1. Tail(elems) = <<Last(job)>>
        BY <3>2
      <4> QED  BY <2>2, <3>1, <3>2, <4>1 DEF StandsIn
    <3>3. CASE cwd = Below(job) /\ elems = <<Last(job)>>
      <4>1. Tail(elems) = <<>>
        BY <3>3
      <4>2. Target(job, cwd)
        BY <3>1, <3>3 DEF Target, Below
      <4>3. cwd \in Dirs /\ mnt[cwd] # job
        BY <1>1 DEF OrderOk, Placing, Walking, TypeOK
      <4>4. mnt[cwd] # "none" => Target(mnt[cwd], cwd)
        BY <4>3 DEF MountsOk
      <4>5. mnt[cwd] = "none"
        BY <3>1, <3>3, <4>3, <4>4 DEF Target, Below, Owner, CallerDirs
      <4> QED  BY <3>1, <4>1, <4>2, <4>5 DEF Arrived
    <3> QED  BY <1>2, <2>2, <3>1, <3>2, <3>3 DEF Entered
  <2>3. CASE job # "devices" /\ ~IsDevSubdir(job)
    <3>1. Owner(cwd) # "root" /\ mnt[cwd] = "none"
      BY <1>2, <2>3 DEF Entered
    <3> QED  BY <2>3, <3>1 DEF Arrived, Target, StandsIn, IsDevSubdir
  <2> QED  BY <2>1, <2>2, <2>3
<1>6. WalkOk'
  BY <1>1, <1>5 DEF WalkOk, InDevices, Arrived, StandsIn
<1>7. RequestsOk' /\ DevicesOk'
  BY <1>1, RequestsFixed
  DEF RequestsOk, DevicesOk, NodesDue, Early, Walking, Placing
<1>12. PlacedOk'
  BY <1>1, <1>2, PlacedKept DEF NodesDue, Early, Walking
<1> QED  BY <1>3, <1>4, <1>6, <1>7, <1>12

LEMMA CheckCwdStep ==
  ASSUME SetupInv, CheckCwd, UNCHANGED <<entry, attr, changes>>
  PROVE  SetupInv'
<1> SUFFICES ASSUME ~Die PROVE SetupInv'
  BY DieStep
<1> USE DEF SetupInv
<1>1. /\ pc = "getcwd" /\ pc' = IF job = "devices" THEN "mkdir" ELSE "mount"
      /\ fsuid' = "root"
      /\ UNCHANGED <<requested, prefixed, mnt, on, ns, outside, todo, job, elems,
                     cwd, st1, made>>
  BY DEF CheckCwd, RestoreCreds
<1>2. TypeOK'
  BY <1>1 DEF TypeOK, Step
<1>3. NamespaceOk' /\ CredsOk' /\ EntriesOk' /\ MountsOk' /\ OrderOk'
  BY <1>1 DEF NamespaceOk, CredsOk, EntriesOk, MountsOk, OrderOk, Early, Walking,
              Placing, InDevices
<1>4. WalkOk'
  BY <1>1 DEF WalkOk, InDevices, Arrived
<1>5. "devices" \notin Wanted
  BY DEF Wanted, Always, MountPoints
<1>6. RequestsOk'
  BY <1>1, <1>5, RequestsFixed DEF RequestsOk, Early, Walking, Placing
<1>7. DevicesOk'
  BY <1>1, RequestsFixed DEF DevicesOk, NodesDue, Early, Walking
<1>12. PlacedOk'
  BY <1>1, <1>2, PlacedKept DEF NodesDue, Early, Walking
<1> QED  BY <1>2, <1>3, <1>4, <1>6, <1>7, <1>12

(***************************************************************************)
(* NextJob takes the first of what is left: /dev, then the devices.         *)
(***************************************************************************)
LEMMA NextJobStep ==
  ASSUME SetupInv, NextJob, UNCHANGED <<entry, attr, changes>>
  PROVE  SetupInv'
<1> SUFFICES ASSUME ~Die PROVE SetupInv'
  BY DieStep
<1> USE DEF SetupInv
<1>1. PICK j \in todo : IsFirst(j, todo)
                        /\ job' = j /\ todo' = todo \ {j}
                        /\ elems' = IF j = "devices" THEN <<"dev">> ELSE Path(j)
  BY DEF NextJob
<1>2. /\ pc = "next" /\ pc' = "lstat" /\ cwd' = "chroot" /\ fsuid' = "caller"
      /\ UNCHANGED <<requested, prefixed, mnt, on, ns, outside, st1, made>>
  BY DEF NextJob, ChangeCreds
<1>3. j \in Jobs /\ "chroot" \in Dirs
  BY DEF TypeOK, Dirs, CallerDirs
<1>4. elems' \in Seq({"dev", "shm", "pts", "sys", "fs", "cgroup"}) /\ elems' # <<>>
  <2>1. CASE j = "devices"
    BY <1>1, <2>1
  <2>2. CASE j = "/dev"
    BY <1>1, <2>2 DEF Path
  <2>3. CASE j = "/dev/shm"
    BY <1>1, <2>3 DEF Path
  <2>4. CASE j = "/dev/pts"
    BY <1>1, <2>4 DEF Path
  <2>5. CASE j = "/sys"
    BY <1>1, <2>5 DEF Path
  <2>6. CASE j = "/sys/fs/cgroup"
    BY <1>1, <2>6 DEF Path
  <2> QED  BY <1>3, <2>1, <2>2, <2>3, <2>4, <2>5, <2>6 DEF Jobs, MountPoints
<1>5. TypeOK'
  BY <1>1, <1>2, <1>3, <1>4 DEF TypeOK, Step
<1>6. NamespaceOk' /\ CredsOk' /\ EntriesOk' /\ MountsOk'
  BY <1>2 DEF NamespaceOk, CredsOk, EntriesOk, MountsOk, Early, Walking, Searchable
<1>7. OrderOk'
  <2>1. "devices" \in todo => j \in {"/dev", "devices"}
    <3>1. "devices" \in todo => Rank(j) <= 2
      BY <1>1 DEF IsFirst, Rank
    <3> QED  BY <1>3, <3>1 DEF Jobs, MountPoints, Rank
  <2> QED  BY <1>1, <1>2, <2>1 DEF OrderOk, Early, Walking, Placing, InDevices
<1>8. StandsIn(cwd, elems)'
  <2>1. CASE j = "devices"
    BY <1>1, <1>2, <2>1 DEF StandsIn, IsDevSubdir
  <2>2. CASE IsDevSubdir(j)
    <3>1. elems' = <<"dev", Last(j)>>
      BY <1>1, <2>2 DEF IsDevSubdir, Path, Last
    <3> QED  BY <1>1, <1>2, <2>2, <3>1 DEF StandsIn, IsDevSubdir
  <2>3. CASE j # "devices" /\ ~IsDevSubdir(j)
    BY <1>1, <2>3 DEF StandsIn, IsDevSubdir
  <2> QED  BY <2>1, <2>2, <2>3
<1>9. WalkOk'
  BY <1>2, <1>4, <1>8 DEF WalkOk, InDevices
<1>10. RequestsOk' /\ DevicesOk'
  BY <1>1, <1>2, RequestsFixed
  DEF RequestsOk, DevicesOk, NodesDue, Early, Walking, Placing
<1>12. PlacedOk'
  BY <1>1, <1>2, PlacedKept DEF NodesDue, Early, Walking
<1> QED  BY <1>5, <1>6, <1>7, <1>9, <1>10, <1>12

(* Mount covers the directory of the job, which nothing covered before.     *)
LEMMA MountStep ==
  ASSUME SetupInv, Mount, UNCHANGED <<entry, attr, changes>>
  PROVE  SetupInv'
<1> SUFFICES ASSUME ~Die PROVE SetupInv'
  BY DieStep
<1> USE DEF SetupInv
<1>1. /\ pc = "mount" /\ pc' = IF todo = {} THEN "back" ELSE "next"
      /\ mnt' = [mnt EXCEPT ![cwd] = job] /\ on' = [on EXCEPT ![job] = cwd]
      /\ outside' = IF ns # "slave" THEN outside \cup {job} ELSE outside
      /\ UNCHANGED <<requested, prefixed, ns, todo, job, elems, cwd, fsuid,
                     st1, made>>
  BY DEF Mount
<1>2. /\ job \in MountPoints /\ job # "devices" /\ job \notin todo
      /\ "devices" \in todo => job = "/dev"
      /\ cwd \in Dirs /\ ns = "slave"
  BY <1>1 DEF TypeOK, OrderOk, Jobs, Placing, InDevices, NamespaceOk, Early
<1>3. Target(job, cwd) /\ mnt[cwd] = "none"
  BY <1>1, <1>2 DEF WalkOk, Arrived
<1>4. /\ mnt'[cwd] = job
      /\ \A d \in Dirs \ {cwd} : mnt'[d] = mnt[d]
  BY <1>1, <1>2 DEF TypeOK
<1>12. on'[job] = cwd /\ \A m \in MountPoints \ {job} : on'[m] = on[m]
  BY <1>1, <1>2 DEF TypeOK
<1>5. TypeOK'
  BY <1>1, <1>2 DEF TypeOK, Step
<1>6. NamespaceOk' /\ CredsOk' /\ EntriesOk'
  BY <1>1, <1>2 DEF NamespaceOk, CredsOk, EntriesOk, Early, Walking
<1>7. MountsOk'
  BY <1>1, <1>2, <1>3, <1>4 DEF MountsOk
<1>8. OrderOk'
  BY <1>1, <1>2, <1>4 DEF OrderOk, Early, Walking, Placing, InDevices
<1>9. WalkOk'
  BY <1>1 DEF WalkOk, InDevices
<1>10. RequestsOk'
  <2>1. /\ \A i \in requested : ~Refused(i)'
        /\ (todo \subseteq Wanted \cup {"devices"})'
        /\ pc' \notin Placing
        /\ pc' \in {"back", "chroot", "done"} => todo' = {}
    BY <1>1, RequestsFixed DEF RequestsOk, Early, Placing, Walking
  <2>2. job \in Wanted /\ Wanted' = Wanted
    BY <1>1, <1>2, RequestsFixed DEF RequestsOk, Early, Placing
  <2>3. \A d \in Dirs : mnt'[d] \in Wanted \cup {"none"}
    BY <1>1, <1>4, <2>2 DEF RequestsOk, Early
  <2>4. ASSUME NEW m \in Wanted, m \notin todo
        PROVE  on'[m] # "none"
    <3>1. m \in MountPoints /\ (m # job => on[m] # "none")
      BY <1>1, <2>4 DEF RequestsOk, Early, Wanted, Always, MountPoints
    <3> QED  BY <1>2, <1>12, <3>1 DEF Dirs, CallerDirs, SystemDirs, FsRoots,
                                      TmpfsDirs, SysfsDirs
  <2> QED  BY <1>1, <1>2, <1>4, <2>1, <2>2, <2>3, <2>4 DEF RequestsOk
<1>11. DevicesOk'
  BY <1>1, RequestsFixed DEF DevicesOk, NodesDue, Early, Walking
<1>13. PlacedOk'
  <2>1. ASSUME NEW m \in MountPoints, on'[m] # "none"
        PROVE  /\ Target(m, on'[m])
               /\ (\E s \in Slots : entry[s] = Dir(on'[m])) => mnt'[on'[m]] = m
    <3>1. CASE m = job
      BY <1>3, <1>4, <1>12, <3>1
    <3>2. CASE m # job
      <4>1. on'[m] = on[m] /\ on[m] \in Dirs
        BY <1>12, <2>1, <3>2 DEF TypeOK
      <4>2. /\ Target(m, on[m])
            /\ (\E s \in Slots : entry[s] = Dir(on[m])) => mnt[on[m]] = m
        BY <2>1, <4>1 DEF PlacedOk, Named
      <4>3. mnt[on[m]] = m => on[m] # cwd
        BY <1>3 DEF MountPoints
      <4> QED  BY <1>4, <4>1, <4>2, <4>3
    <3> QED  BY <3>1, <3>2
  <2>2. ASSUME NodesDue', NEW m \in MountPoints, m # "/dev"
        PROVE  on'[m] = "none"
    <3>1. "devices" \in todo /\ job = "/dev"
      BY <1>1, <1>2, <2>2 DEF NodesDue, Early, Walking
    <3>2. NodesDue
      BY <3>1 DEF NodesDue
    <3> QED  BY <1>12, <2>2, <3>1, <3>2 DEF PlacedOk
  <2> QED  BY <2>1, <2>2 DEF PlacedOk, Named
<1> QED  BY <1>5, <1>6, <1>7, <1>8, <1>9, <1>10, <1>11, <1>13

(***************************************************************************)
(* setup_devices, in the tmpfs of /dev.                                     *)
(***************************************************************************)
LEMMA MakeDirsStep ==
  ASSUME SetupInv, MakeDirs, UNCHANGED <<attr, changes>>
  PROVE  SetupInv'
<1> SUFFICES ASSUME ~(Die /\ UNCHANGED entry) PROVE SetupInv'
  BY DieStep
<1> USE DEF SetupInv
<1>1. /\ pc = "mkdir" /\ pc' = "mknod"
      /\ entry' = [s \in Slots |-> CASE s = <<cwd, "pts">> -> Dir("dev:pts")
                                      [] s = <<cwd, "shm">> -> Dir("dev:shm")
                                      [] OTHER -> entry[s]]
      /\ UNCHANGED <<requested, prefixed, mnt, on, ns, outside, todo, job, elems,
                     cwd, fsuid, st1, made>>
  BY DEF MakeDirs
<1>2. cwd = "dev:"
  BY <1>1 DEF WalkOk, InDevices
<1>3. /\ \A s \in Slots \ {<<"dev:", "pts">>, <<"dev:", "shm">>} :
           entry'[s] = entry[s]
      /\ entry'[<<"dev:", "pts">>] = Dir("dev:pts")
      /\ entry'[<<"dev:", "shm">>] = Dir("dev:shm")
  BY <1>1, <1>2 DEF Slots
<1>4. entry' \in [Slots -> Nodes]
  <2>1. "dev:pts" \in Dirs /\ "dev:shm" \in Dirs
    BY DEF Dirs, TmpfsDirs
  <2>2. Dir("dev:pts") \in Nodes /\ Dir("dev:shm") \in Nodes
    BY <2>1, NodeFields
  <2> QED  BY <1>1, <2>2 DEF TypeOK
<1>5. TypeOK'
  BY <1>1, <1>4 DEF TypeOK, Step
<1>6. EntriesOk'
  BY <1>3 DEF EntriesOk, Owner, CallerDirs
<1>7. NamespaceOk' /\ CredsOk' /\ MountsOk' /\ OrderOk' /\ WalkOk'
  BY <1>1 DEF NamespaceOk, CredsOk, MountsOk, OrderOk, WalkOk, Early, Walking,
              Placing, InDevices
<1>8. RequestsOk' /\ DevicesOk'
  BY <1>1, RequestsFixed
  DEF RequestsOk, DevicesOk, NodesDue, Early, Walking, Placing
<1>9. PlacedOk'
  <2>1. NodesDue /\ \A m \in MountPoints : m # "/dev" => on[m] = "none"
    BY <1>1 DEF PlacedOk, NodesDue, OrderOk, InDevices
  <2>2. ASSUME NEW d, d \notin TmpfsDirs, Named(d)' PROVE Named(d)
    BY <1>3, <2>2 DEF Named, Dir, TmpfsDirs
  <2>3. "/dev" \in MountPoints /\ ~IsDevSubdir("/dev")
    BY DEF MountPoints, IsDevSubdir
  <2>4. Target("/dev", on["/dev"]) => on["/dev"] \notin TmpfsDirs
    BY DEF Target, Owner, CallerDirs, TmpfsDirs
  <2> QED  BY <1>1, <2>1, <2>2, <2>3, <2>4 DEF PlacedOk
<1> QED  BY <1>5, <1>6, <1>7, <1>8, <1>9

LEMMA MakeNodesStep ==
  ASSUME SetupInv, MakeNodes, UNCHANGED <<entry, attr, changes>>
  PROVE  SetupInv'
<1> USE DEF SetupInv
<1>1. /\ pc = "mknod" /\ pc' = "copy" /\ cwd = "dev:" /\ job = "devices"
      /\ job \notin todo
      /\ UNCHANGED <<requested, prefixed, mnt, on, ns, outside, todo, job, elems,
                     cwd, fsuid, st1>>
  BY DEF MakeNodes, WalkOk, OrderOk, InDevices
<1>2. made = {} /\ made' = {"dev:"} \X StartNodes
  BY <1>1 DEF MakeNodes, DevicesOk, NodesDue
<1>3. "dev:" \in Dirs /\ StartNodes \subseteq StdNodes \cup PtsNodes
  BY DEF Dirs, FsRoots, StartNodes
<1>4. TypeOK'
  BY <1>1, <1>2, <1>3 DEF TypeOK, Step
<1>5. NamespaceOk' /\ CredsOk' /\ EntriesOk' /\ MountsOk' /\ OrderOk' /\ WalkOk'
  BY <1>1 DEF NamespaceOk, CredsOk, EntriesOk, MountsOk, OrderOk, WalkOk, Early,
              Walking, Placing, InDevices
<1>6. RequestsOk'
  BY <1>1, RequestsFixed DEF RequestsOk, Early, Walking, Placing
<1>7. DevicesOk'
  BY <1>1, <1>2, RequestsFixed DEF DevicesOk, NodesDue, Early, Walking
<1>12. PlacedOk'
  BY <1>1, <1>2, PlacedKept DEF NodesDue, Early, Walking
<1> QED  BY <1>4, <1>5, <1>6, <1>7, <1>12

LEMMA CopyDevStep ==
  ASSUME SetupInv, CopyDev, UNCHANGED <<entry, attr, changes>>
  PROVE  SetupInv'
<1> SUFFICES ASSUME ~Die PROVE SetupInv'
  BY DieStep
<1> USE DEF SetupInv
<1>1. /\ pc = "copy" /\ cwd = "dev:" /\ job = "devices" /\ job \notin todo
      /\ UNCHANGED <<requested, prefixed, mnt, on, ns, outside, todo, job, elems,
                     cwd, fsuid, st1>>
  BY DEF CopyDev, WalkOk, OrderOk, InDevices
<1>2. \/ pc' = "next" /\ made' = made /\ DevVec \subseteq Copied
      \/ pc' = "copy" /\ \E i \in DevVec : made' = made \cup {<<"dev:", i>>}
  BY <1>1 DEF CopyDev
<1>3. DevVec \subseteq Items /\ "dev:" \in Dirs
  BY DEF DevVec, Allowed, TypeOK, Dirs, FsRoots
<1>4. TypeOK'
  BY <1>1, <1>2, <1>3 DEF TypeOK, Step
<1>5. NamespaceOk' /\ CredsOk' /\ EntriesOk' /\ MountsOk' /\ OrderOk' /\ WalkOk'
  BY <1>1, <1>2 DEF NamespaceOk, CredsOk, EntriesOk, MountsOk, OrderOk, WalkOk,
                    Early, Walking, Placing, InDevices
<1>6. RequestsOk'
  BY <1>1, <1>2, RequestsFixed DEF RequestsOk, Early, Walking, Placing
<1>7. DevicesOk'
  <2>1. /\ ~NodesDue /\ ~NodesDue'
        /\ {"dev:"} \X StartNodes \subseteq made
        /\ made \subseteq {"dev:"} \X (StartNodes \cup DevVec)
    BY <1>1, <1>2 DEF DevicesOk, NodesDue, Early, Walking
  <2>2. DevVec \subseteq Copied => {"dev:"} \X DevVec \subseteq made
    BY <1>1 DEF Copied
  <2> QED  BY <1>1, <1>2, <2>1, <2>2, RequestsFixed DEF DevicesOk
<1>12. PlacedOk'
  BY <1>1, <1>2, PlacedKept DEF NodesDue, Early, Walking
<1> QED  BY <1>4, <1>5, <1>6, <1>7, <1>12

LEMMA LeaveStep ==
  ASSUME SetupInv, GoBack \/ Chroot, UNCHANGED <<entry, attr, changes>>
  PROVE  SetupInv'
<1> SUFFICES ASSUME ~Die PROVE SetupInv'
  BY DieStep
<1> USE DEF SetupInv
<1>1. /\ \/ pc = "back" /\ pc' = "chroot" /\ cwd' = "chroot" /\ fsuid' = "root"
         \/ pc = "chroot" /\ pc' = "done" /\ UNCHANGED <<cwd, fsuid>>
      /\ "chroot" \in Dirs
      /\ UNCHANGED <<requested, prefixed, mnt, on, ns, outside, todo, job, elems,
                     st1, made>>
  BY DEF GoBack, Chroot, FchdirUid, RestoreCreds, Dirs, CallerDirs
<1>2. TypeOK'
  BY <1>1 DEF TypeOK, Step
<1>3. NamespaceOk' /\ CredsOk' /\ EntriesOk' /\ MountsOk' /\ OrderOk' /\ WalkOk'
  BY <1>1 DEF NamespaceOk, CredsOk, EntriesOk, MountsOk, OrderOk, WalkOk, Early,
              Walking, Placing, InDevices, Searchable
<1>4. RequestsOk' /\ DevicesOk'
  BY <1>1, RequestsFixed
  DEF RequestsOk, DevicesOk, NodesDue, Early, Walking, Placing
<1>12. PlacedOk'
  BY <1>1, <1>2, PlacedKept DEF NodesDue, Early, Walking
<1> QED  BY <1>2, <1>3, <1>4, <1>12

(***************************************************************************)
(* The caller: what it puts into its own directories stood in one of them,  *)
(* and the mounts it can detach are those on the directories it removes.    *)
(***************************************************************************)
TreeKept ==
  /\ entry' \in [Slots -> Nodes] /\ attr' \in [Dirs -> Attrs]
  /\ mnt' \in [Dirs -> MountPoints \cup {"none"}]
  /\ \A d \in Dirs : mnt'[d] \in {mnt[d], "none"}
  /\ \A d \in Dirs : Named(d)' => Named(d) /\ mnt'[d] = mnt[d]
  /\ EntriesOk'

LEMMA TreeStep ==
  ASSUME SetupInv, Caller
  PROVE  TreeKept
<1> USE DEF SetupInv, TypeOK
<1>1. /\ Nothing \in Nodes /\ \A d \in Dirs : Dir(d) # Nothing
      /\ Nothing.kind = "none"
  BY NodeFields
<1>2. CASE \E d \in {"chroot", "dev", "sys"} : Chmod(d)
  <2>1. PICK d \in {"chroot", "dev", "sys"} : Chmod(d)
    BY <1>2
  <2>2. PICK a \in Attrs : attr' = [attr EXCEPT ![d] = a]
    BY <2>1 DEF Chmod
  <2>3. entry' = entry /\ mnt' = mnt
    BY <2>1 DEF Chmod
  <2> QED  BY <2>2, <2>3 DEF TreeKept, EntriesOk, Named
<1>3. ASSUME NEW s \in CallerSlots, NEW t \in CallerSlots, Exchange(s, t)
      PROVE  TreeKept
  <2>1. s \in Slots /\ t \in Slots /\ Owner(s[1]) = "caller" /\ Owner(t[1]) = "caller"
    BY DEF CallerSlots
  <2>2. /\ entry' = [entry EXCEPT ![s] = entry[t], ![t] = entry[s]]
        /\ attr' = attr /\ mnt' = mnt
    BY <1>3 DEF Exchange
  <2>3. /\ entry' \in [Slots -> Nodes]
        /\ \A x \in Slots : entry'[x] = IF x = t THEN entry[s]
                                       ELSE IF x = s THEN entry[t] ELSE entry[x]
    BY <2>1, <2>2
  <2>4. s \notin {<<"dev:", "shm">>, <<"dev:", "pts">>}
        /\ t \notin {<<"dev:", "shm">>, <<"dev:", "pts">>}
    BY <2>1 DEF Owner, CallerDirs
  <2>5. <<"dev:", "shm">> \in Slots /\ <<"dev:", "pts">> \in Slots
    BY DEF Slots
  <2>6. EntriesOk'
    BY <2>1, <2>3, <2>4, <2>5 DEF EntriesOk
  <2>7. \A d \in Dirs : Named(d)' => Named(d)
    BY <2>1, <2>3 DEF Named
  <2> QED  BY <2>2, <2>3, <2>6, <2>7 DEF TreeKept
<1>4. ASSUME NEW d \in Dirs, \E s \in CallerSlots : entry[s] = Dir(d),
             NEW n \in {Nothing} \cup {entry[s] : s \in CallerSlots}, n # Dir(d),
             entry' \in [Slots -> Nodes],
             \A x \in Slots : entry'[x] \in
               {Nothing, IF entry[x] = Dir(d) THEN n ELSE entry[x]} \ {Dir(d)},
             mnt' = [mnt EXCEPT ![d] = "none"], attr' = attr
      PROVE  TreeKept
  <2>1. Owner(d) # "root"
    BY <1>4, NodeFields DEF EntriesOk, CallerSlots
  <2>2. n.kind = "dir" => Owner(n.to) # "root"
    BY <1>1 DEF EntriesOk, CallerSlots
  <2>3. <<"dev:", "shm">> \in Slots /\ <<"dev:", "pts">> \in Slots
        /\ "dev:shm" \in Dirs /\ "dev:pts" \in Dirs
        /\ Owner("dev:shm") = "root" /\ Owner("dev:pts") = "root"
    BY DEF Slots, Dirs, TmpfsDirs, Owner, CallerDirs
  <2>4. Dir("dev:shm") # Dir(d) /\ Dir("dev:pts") # Dir(d) /\ Nothing # Dir(d)
    BY <1>1, <2>1, <2>3, NodeFields
  <2>5. /\ entry'[<<"dev:", "shm">>] \in {Nothing, Dir("dev:shm")}
        /\ entry'[<<"dev:", "pts">>] \in {Nothing, Dir("dev:pts")}
    BY <1>4, <2>3, <2>4 DEF EntriesOk
  <2>6. ASSUME NEW x \in Slots, Owner(x[1]) = "caller", entry'[x].kind = "dir"
        PROVE  Owner(entry'[x].to) # "root"
    BY <1>1, <1>4, <2>2, <2>6 DEF EntriesOk
  <2>7. ASSUME NEW e \in Dirs, Named(e)' PROVE Named(e) /\ e # d
    <3>1. PICK x \in Slots : entry'[x] = Dir(e)
      BY <2>7 DEF Named
    <3>2. e # d /\ (entry[x] = Dir(e) \/ n = Dir(e))
      BY <1>1, <1>4, <3>1
    <3> QED  BY <1>1, <3>2 DEF Named, CallerSlots
  <2> QED  BY <1>4, <2>5, <2>6, <2>7 DEF TreeKept, EntriesOk
<1>5. ASSUME NEW d \in Dirs, Remove(d) PROVE TreeKept
  <2>1. /\ entry' = [s \in Slots |-> IF entry[s] = Dir(d) THEN Nothing ELSE entry[s]]
        /\ mnt' = [mnt EXCEPT ![d] = "none"] /\ attr' = attr
        /\ \E s \in CallerSlots : entry[s] = Dir(d)
    BY <1>5 DEF Remove
  <2>2. entry' \in [Slots -> Nodes]
    BY <1>1, <2>1
  <2>3. \A x \in Slots : entry'[x] \in
          {Nothing, IF entry[x] = Dir(d) THEN Nothing ELSE entry[x]} \ {Dir(d)}
    BY <1>1, <2>1
  <2> QED  BY <1>1, <1>4, <2>1, <2>2, <2>3
<1>6. ASSUME NEW d \in Dirs, NEW s \in CallerSlots, Replace(d, s) PROVE TreeKept
  <2>1. /\ entry' = [t \in Slots |-> IF t = s THEN Nothing
                                    ELSE IF entry[t] = Dir(d) THEN entry[s] ELSE entry[t]]
        /\ mnt' = [mnt EXCEPT ![d] = "none"] /\ attr' = attr
        /\ entry[s] # Dir(d) /\ \E t \in CallerSlots : entry[t] = Dir(d)
    BY <1>6 DEF Replace
  <2>2. entry' \in [Slots -> Nodes] /\ s \in Slots
    BY <1>1, <2>1 DEF CallerSlots
  <2>3. \A x \in Slots : entry'[x] \in
          {Nothing, IF entry[x] = Dir(d) THEN entry[s] ELSE entry[x]} \ {Dir(d)}
    BY <1>1, <2>1
  <2>4. PICK n \in {entry[x] : x \in CallerSlots} : n = entry[s]
    OBVIOUS
  <2>5. n \in {Nothing} \cup {entry[x] : x \in CallerSlots} /\ n # Dir(d)
    BY <2>1, <2>4
  <2>6. \A x \in Slots : entry'[x] \in
          {Nothing, IF entry[x] = Dir(d) THEN n ELSE entry[x]} \ {Dir(d)}
    BY <2>3, <2>4
  <2>7. \E x \in CallerSlots : entry[x] = Dir(d)
    BY <2>1
  <2> QED  BY <1>4, <2>1, <2>2, <2>5, <2>6, <2>7
<1> QED  BY <1>2, <1>3, <1>5, <1>6 DEF Caller

LEMMA CallerStep ==
  ASSUME SetupInv, Caller
  PROVE  SetupInv'
<1> USE DEF SetupInv
<1>1. UNCHANGED <<pc, requested, prefixed, on, ns, outside, todo, job, elems, cwd,
                  fsuid, st1, made>>
  BY DEF Caller, Change
<1>2. changes' \in 0..MaxChanges
  BY DEF Caller, Change, TypeOK
<1>3. \A d \in Dirs : mnt'[d] \in {mnt[d], "none"}
  BY TreeStep DEF TreeKept
<1>4. TypeOK' /\ EntriesOk'
  BY <1>1, <1>2, TreeStep DEF TreeKept, TypeOK
<1>5. NamespaceOk' /\ CredsOk'
  BY <1>1 DEF NamespaceOk, CredsOk
<1>6. MountsOk'
  BY <1>3 DEF MountsOk
<1>7. OrderOk'
  <2>1. todo \subseteq Jobs /\ job \in Jobs /\ "none" \notin Jobs
    BY DEF TypeOK, Jobs, MountPoints
  <2> QED  BY <1>1, <1>3, <2>1 DEF OrderOk
<1>8. WalkOk'
  <2>1. cwd \in Dirs /\ st1.ino \in Dirs
    BY DEF TypeOK
  <2>2. \A d \in Dirs : mnt[d] = "none" => mnt'[d] = "none"
    BY <1>3
  <2> QED  BY <1>1, <2>1, <2>2 DEF WalkOk, StandsIn, Entered, Arrived
<1>9. RequestsOk' /\ DevicesOk'
  BY <1>1, <1>3, RequestsFixed DEF RequestsOk, DevicesOk, NodesDue
<1>10. PlacedOk'
  <2>1. ASSUME NEW m \in MountPoints, on[m] # "none"
        PROVE  /\ Target(m, on[m])
               /\ (\E s \in Slots : entry'[s] = Dir(on[m])) => mnt'[on[m]] = m
    <3>1. on[m] \in Dirs
      BY <2>1 DEF TypeOK
    <3>2. (\E s \in Slots : entry'[s] = Dir(on[m])) =>
            Named(on[m]) /\ mnt'[on[m]] = mnt[on[m]]
      BY <3>1, TreeStep DEF TreeKept, Named
    <3> QED  BY <2>1, <3>2 DEF PlacedOk
  <2> QED  BY <1>1, <2>1 DEF PlacedOk, NodesDue, Named
<1> QED  BY <1>4, <1>5, <1>6, <1>7, <1>8, <1>9, <1>10

(* The invariant holds whatever the caller does in its tree meanwhile.      *)
THEOREM SetupIsInvariant == Spec => []SetupInv
<1>1. SetupInv /\ [Next]_vars => SetupInv'
  <2> SUFFICES ASSUME SetupInv, [Next]_vars PROVE SetupInv'
    OBVIOUS
  <2>1. CASE Executor
    <3>1. CASE MakeDirs /\ UNCHANGED <<attr, changes>>
      BY <3>1, MakeDirsStep
    <3>2. CASE /\ \/ SetupNs \/ EnterChroot \/ UnshareMount \/ SortRequests
                  \/ MakeSlave \/ SetupFstab
               /\ UNCHANGED <<entry, attr, changes>>
      BY <3>2, PrepareStep
    <3>3. CASE /\ NextJob \/ Lstat \/ Chdir \/ Lstat2 \/ CheckCwd
               /\ UNCHANGED <<entry, attr, changes>>
      BY <3>3, NextJobStep, LstatStep, ChdirStep, Lstat2Step, CheckCwdStep
    <3>4. CASE /\ Mount \/ MakeNodes \/ CopyDev \/ GoBack \/ Chroot
               /\ UNCHANGED <<entry, attr, changes>>
      BY <3>4, MountStep, MakeNodesStep, CopyDevStep, LeaveStep
    <3> QED  BY <2>1, <3>1, <3>2, <3>3, <3>4 DEF Executor
  <2>2. CASE Caller
    BY <2>2, CallerStep
  <2>3. CASE UNCHANGED vars
    <3> USE <2>3 DEF SetupInv
    <3>1. TypeOK' /\ NamespaceOk' /\ CredsOk' /\ EntriesOk' /\ MountsOk'
      BY DEF TypeOK, NamespaceOk, CredsOk, EntriesOk, MountsOk
    <3>2. OrderOk' /\ WalkOk'
      BY DEF OrderOk, WalkOk, StandsIn, Entered, Arrived
    <3>3. RequestsOk' /\ DevicesOk' /\ PlacedOk'
      BY RequestsFixed DEF RequestsOk, DevicesOk, NodesDue, PlacedOk, Named
    <3> QED  BY <3>1, <3>2, <3>3
  <2> QED  BY <2>1, <2>2, <2>3 DEF Next, Finished
<1> QED  BY <1>1, InitStep, PTL DEF Spec

(* Whatever the caller renames while root walks its tree, file systems are  *)
(* mounted only on directories of its own or on those setup_devices made.   *)
THEOREM MountsStayInTree == Spec => []MountsCoverOwnDirs
<1>1. SetupInv => MountsCoverOwnDirs
  BY DEF SetupInv, MountsOk, MountsCoverOwnDirs, Covered, Target, Owner,
         IsDevSubdir, TmpfsDirs, MountPoints
<1> QED  BY <1>1, SetupIsInvariant, PTL

(* Device nodes appear in the tmpfs mounted at /dev and nowhere else, in    *)
(* spite of a caller that exchanges dev for another directory.              *)
THEOREM NodesStayInTmpfs == Spec => []NodesOnlyInTmpfs
<1>1. SetupInv => NodesOnlyInTmpfs
  BY DEF SetupInv, DevicesOk, NodesOnlyInTmpfs
<1> QED  BY <1>1, SetupIsInvariant, PTL

(* chdiruid never takes root where the caller could not have gone.          *)
THEOREM RootNeedsPermission == Spec => []NeverPastPermissions
<1>1. SetupInv => NeverPastPermissions
  BY DEF SetupInv, CredsOk, NeverPastPermissions
<1> QED  BY <1>1, SetupIsInvariant, PTL

(* Every mount is made after "/" has become a slave, so none propagates.    *)
THEOREM MountsStayInside == Spec => []NothingOutside
<1>1. SetupInv => NothingOutside
  BY DEF SetupInv, NamespaceOk, NothingOutside
<1> QED  BY <1>1, SetupIsInvariant, PTL

(* A program is started only when every file system and device that was     *)
(* requested was set up, none refused or passed over, and none it did not   *)
(* request; a file system it does not find is one whose directory the       *)
(* caller removed meanwhile.                                                *)
THEOREM SetupIsWhatWasRequested == Spec => []SetupAsRequested
<1>1. SetupInv => SetupAsRequested
  <2> SUFFICES ASSUME SetupInv, pc = "done" PROVE SetupAsRequested!2
    BY DEF SetupAsRequested
  <2> USE DEF SetupInv
  <2>1. /\ todo = {} /\ \A i \in requested : ~Refused(i)
        /\ \A d \in Dirs : mnt[d] \in Wanted \cup {"none"}
        /\ \A m \in Wanted : on[m] # "none"
    BY DEF RequestsOk, Early, Placing, Walking
  <2>2. requested \subseteq Wanted \cup AllowedDevices
    BY <2>1 DEF Refused, Wanted, Always
  <2>3. \A m \in Wanted : Named(on[m]) => mnt[on[m]] = m
    BY <2>1 DEF PlacedOk, Wanted, Always, MountPoints
  <2>4. made = {"dev:"} \X (StartNodes \cup DevVec)
    <3>1. ~NodesDue
      BY <2>1 DEF NodesDue, Early, Walking
    <3> QED  BY <3>1 DEF DevicesOk
  <2>5. DevVec = (requested \cap AllowedDevices) \ Always
    BY DEF DevVec, Allowed
  <2>6. {p[2] : p \in made} = StartNodes \cup DevVec
    <3> DEFINE N == StartNodes \cup DevVec
    <3>1. \A p \in made : p[2] \in N
      BY <2>4
    <3>2. ASSUME NEW n \in N PROVE \E p \in made : p[2] = n
      <4>1. <<"dev:", n>> \in made /\ <<"dev:", n>>[2] = n
        BY <2>4
      <4> QED  BY <4>1
    <3> QED  BY <3>1, <3>2
  <2> QED  BY <2>1, <2>2, <2>3, <2>5, <2>6
<1> QED  BY <1>1, SetupIsInvariant, PTL

-----------------------------------------------------------------------------
(***************************************************************************)
(* A tree the caller leaves alone.  Here the walk is known exactly: each    *)
(* mount stands at the point its path names, and the one order in which a   *)
(* mount could hide another, cgroup before the sysfs above it, is excluded  *)
(* by the sorted list; the other way round the walk ends at root's sysfs,   *)
(* which the validator of mount points refuses.                             *)
(***************************************************************************)

(* The directory of a mount point and the entry that leads to it.           *)
Point(m) == CASE m = "/dev" -> "dev"
              [] m = "/sys" -> "sys"
              [] m = "/sys/fs/cgroup" -> "cgroup"
              [] OTHER -> Below(m)
Slot(m) == CASE m = "/dev" -> <<"chroot", "dev">>
             [] m = "/sys" -> <<"chroot", "sys">>
             [] m = "/sys/fs/cgroup" -> <<"fs", "cgroup">>
             [] OTHER -> <<"dev:", Last(m)>>
AtPoint(m, d) == d = Point(m) /\ entry[Slot(m)] = Dir(d)

LeftOk ==
  /\ entry[<<"chroot", "dev">>].kind = "dir" =>
       entry[<<"chroot", "dev">>] = Dir("dev")
  /\ entry[<<"chroot", "sys">>] = Dir("sys")
  /\ entry[<<"sys", "fs">>] = Dir("fs")
  /\ entry[<<"fs", "cgroup">>] = Dir("cgroup")

PointsOk == \A d \in Dirs : mnt[d] # "none" => AtPoint(mnt[d], d)

(* No cgroup is mounted before a sysfs, nor below one.                      *)
Cgroup == "/sys/fs/cgroup"
NoCgroup == \A d \in Dirs : mnt[d] # Cgroup
HiddenOk ==
  /\ "/sys" \in todo \/ (pc \in Placing /\ job = "/sys") =>
       NoCgroup /\ ~(pc \in Placing /\ job = Cgroup)
  /\ NoCgroup \/ mnt["sys"] = "none"

(* Where the executor stands before it enters e, and after its first name.  *)
About(d, e) ==
  CASE job = "/dev" -> d = "chroot" /\ e = <<"dev">>
    [] job = "/sys" -> d = "chroot" /\ e = <<"sys">>
    [] job = Cgroup -> \/ d = "chroot" /\ e = <<"sys", "fs", "cgroup">>
                       \/ d = "sys" /\ e = <<"fs", "cgroup">> /\ mnt["sys"] = "none"
                       \/ d = "fs" /\ e = <<"cgroup">> /\ mnt["sys"] = "none"
    [] OTHER -> TRUE
Reached(d, e) ==
  CASE job = "devices" -> TRUE
    [] job = "/dev" -> AtPoint(job, d) /\ e = <<"dev">>
    [] job = "/sys" -> AtPoint(job, d) /\ e = <<"sys">>
    [] job = Cgroup -> /\ mnt["sys"] = "none"
                       /\ \/ d = "sys" /\ e = <<"sys", "fs", "cgroup">>
                          \/ d = "fs" /\ e = <<"fs", "cgroup">>
                          \/ AtPoint(job, d) /\ e = <<"cgroup">>
    [] OTHER -> Tail(e) = <<>> => AtPoint(job, d)
Standing(d) ==
  job # "devices" => AtPoint(job, d) /\ (job = Cgroup => mnt["sys"] = "none")
PathOk ==
  /\ pc = "lstat" => About(cwd, elems)
  /\ pc \in {"chdir", "lstat2"} => Reached(st1.ino, elems)
  /\ pc \in {"getcwd", "mount"} => Standing(cwd)

LeftAlone == pc # "dead" /\ changes = 0
AloneInv == LeftAlone => LeftOk /\ PointsOk /\ HiddenOk /\ PathOk

(* What was mounted is still there.                                         *)
StillOk == changes = 0 => \A m \in MountPoints : on[m] # "none" => mnt[on[m]] = m

LEMMA StillStep ==
  ASSUME SetupInv, StillOk, [Next]_vars
  PROVE  StillOk'
<1> SUFFICES ASSUME changes' = 0, NEW m \in MountPoints, on'[m] # "none"
             PROVE  mnt'[on'[m]] = m
  BY DEF StillOk
<1>1. CASE UNCHANGED <<mnt, on, changes>>
  BY <1>1 DEF StillOk
<1>2. CASE Mount /\ ~Die /\ UNCHANGED changes
  <2>1. /\ pc = "mount" /\ job \in MountPoints /\ cwd \in Dirs
        /\ mnt' = [mnt EXCEPT ![cwd] = job] /\ on' = [on EXCEPT ![job] = cwd]
    BY <1>2 DEF Mount, SetupInv, OrderOk, TypeOK, Jobs
  <2>2. mnt[cwd] = "none" /\ "none" \notin MountPoints
    BY <2>1 DEF SetupInv, WalkOk, Arrived, OrderOk, MountPoints
  <2>3. /\ mnt \in [Dirs -> MountPoints \cup {"none"}]
        /\ on \in [MountPoints -> Dirs \cup {"none"}]
    BY DEF SetupInv, TypeOK
  <2>4. m # job => on[m] \in Dirs /\ mnt[on[m]] = m
    BY <1>2, <2>1, <2>3 DEF StillOk
  <2> QED  BY <2>1, <2>2, <2>3, <2>4
<1>3. CASE Caller
  BY <1>3 DEF Caller, Change, SetupInv, TypeOK
<1>4. CASE Executor /\ ~(Mount /\ ~Die /\ UNCHANGED changes)
  BY <1>1, <1>4 DEF Executor, Die, SetupNs, EnterChroot, UnshareMount, SortRequests,
     MakeSlave, SetupFstab, NextJob, Lstat, Chdir, Lstat2, CheckCwd, MakeDirs,
     MakeNodes, CopyDev, GoBack, Chroot, FchdirUid
<1> QED  BY <1>1, <1>2, <1>3, <1>4 DEF Next, Finished

LEMMA AloneInit == Init => AloneInv
<1> SUFFICES ASSUME Init PROVE LeftOk /\ PointsOk /\ HiddenOk /\ PathOk
  BY DEF AloneInv
<1>1. LeftOk
  <2>1. entry[<<"chroot", "dev">>] \in {Dir("dev"), Link("etc"), Nothing}
    BY DEF Init, Slots
  <2>2. entry[<<"chroot", "sys">>] = Dir("sys") /\ entry[<<"sys", "fs">>] = Dir("fs")
        /\ entry[<<"fs", "cgroup">>] = Dir("cgroup")
    BY DEF Init, Slots
  <2>3. Link("etc").kind = "link" /\ Nothing.kind = "none"
    BY DEF Link, Nothing
  <2> QED  BY <2>1, <2>2, <2>3 DEF LeftOk
<1>2. PointsOk /\ PathOk
  BY DEF Init, PointsOk, PathOk
<1>3. HiddenOk
  BY DEF Init, HiddenOk, NoCgroup, Cgroup, Dirs, CallerDirs, Placing, Walking
<1> QED  BY <1>1, <1>2, <1>3

(* Steps that leave the tree, the mounts and the walk where they are.       *)
LEMMA AloneElsewhere ==
  ASSUME LeftOk, PointsOk, HiddenOk, UNCHANGED <<entry, mnt>>,
         \/ UNCHANGED todo
         \/ NoCgroup,
         pc \notin Placing, pc' \notin Placing
  PROVE  LeftOk' /\ PointsOk' /\ HiddenOk' /\ PathOk'
<1>1. LeftOk' /\ PointsOk'
  BY DEF LeftOk, PointsOk, AtPoint
<1>2. HiddenOk'
  BY DEF HiddenOk, NoCgroup
<1>3. PathOk'
  BY DEF PathOk, Placing, Walking
<1> QED  BY <1>1, <1>2, <1>3

(* The sorted list: a sysfs is taken up before the cgroup below it.         *)
LEMMA AloneNextJob ==
  ASSUME SetupInv, LeftOk, PointsOk, HiddenOk, NextJob, ~Die, UNCHANGED entry
  PROVE  LeftOk' /\ PointsOk' /\ HiddenOk' /\ PathOk'
<1>1. PICK j \in todo : /\ IsFirst(j, todo)
                        /\ job' = j /\ todo' = todo \ {j} /\ cwd' = "chroot"
                        /\ elems' = IF j = "devices" THEN <<"dev">> ELSE Path(j)
                        /\ pc = "next" /\ pc' = "lstat" /\ UNCHANGED mnt
  BY DEF NextJob
<1>2. LeftOk' /\ PointsOk'
  BY <1>1 DEF LeftOk, PointsOk, AtPoint
<1>3. HiddenOk'
  <2>1. "/sys" \in todo => j # Cgroup
    BY <1>1 DEF IsFirst, Rank, Cgroup
  <2>2. Cgroup # "/sys"
    BY DEF Cgroup
  <2> QED  BY <1>1, <2>1, <2>2 DEF HiddenOk, NoCgroup, Placing, Walking
<1>4. About(cwd, elems)'
  <2>1. CASE j = "/dev"
    BY <1>1, <2>1 DEF About, Path, Cgroup
  <2>2. CASE j = "/sys"
    BY <1>1, <2>2 DEF About, Path, Cgroup
  <2>3. CASE j = Cgroup
    BY <1>1, <2>3 DEF About, Path, Cgroup
  <2> QED  BY <1>1, <2>1, <2>2, <2>3 DEF About
<1>5. PathOk'
  BY <1>1, <1>4 DEF PathOk
<1> QED  BY <1>2, <1>3, <1>5

(* The walk enters the directories the caller left, and no mounted root.    *)
LEMMA AloneLstat ==
  ASSUME SetupInv, SetupInv', LeftOk, PointsOk, HiddenOk, PathOk,
         Lstat, ~Die, UNCHANGED entry
  PROVE  LeftOk' /\ PointsOk' /\ HiddenOk' /\ PathOk'
<1> DEFINE n == Lookup(cwd, Head(elems))
           d == Top(n.to)
<1>1. /\ pc = "lstat" /\ pc' = "chdir"
      /\ n.kind = "dir" /\ Valid(d) /\ st1' = [ino |-> d, attr |-> attr[d]]
      /\ UNCHANGED <<mnt, todo, job, elems, cwd>>
  BY DEF Lstat
<1>2. n \in Nodes /\ n.to \in Dirs /\ d \in Dirs
  BY Resolution, NodeFields DEF SetupInv
<1>3. LeftOk' /\ PointsOk' /\ HiddenOk'
  BY <1>1 DEF LeftOk, PointsOk, AtPoint, HiddenOk, NoCgroup, Placing, Walking
<1>4. About(cwd, elems)
  BY <1>1 DEF PathOk
<1>5. job # "devices" /\ ~IsDevSubdir(job) => d = n.to /\ mnt[n.to] = "none"
  <2> SUFFICES ASSUME job # "devices", ~IsDevSubdir(job)
               PROVE  d = n.to /\ mnt[n.to] = "none"
    OBVIOUS
  <2>1. Owner(d) # "root"
    BY <1>1 DEF Valid, CallerRooterOk
  <2> QED  BY <1>2, <2>1, Resolution DEF SetupInv
<1>6. Reached(d, elems)
  <2>1. CASE job = "/dev"
    <3>1. cwd = "chroot" /\ elems = <<"dev">> /\ Head(elems) = "dev"
      BY <1>4, <2>1 DEF About, Cgroup
    <3>2. n = entry[<<"chroot", "dev">>]
      BY <3>1 DEF Lookup, Slots
    <3>3. n = Dir("dev") /\ n.to = "dev"
      BY <1>1, <3>2 DEF LeftOk, Dir
    <3> QED  BY <1>5, <2>1, <3>1, <3>2, <3>3
             DEF Reached, AtPoint, Point, Slot, IsDevSubdir, Cgroup
  <2>2. CASE job = "/sys"
    <3>1. cwd = "chroot" /\ elems = <<"sys">> /\ Head(elems) = "sys"
      BY <1>4, <2>2 DEF About, Cgroup
    <3>2. n = entry[<<"chroot", "sys">>]
      BY <3>1 DEF Lookup, Slots
    <3>3. n = Dir("sys") /\ n.to = "sys"
      BY <3>2 DEF LeftOk, Dir
    <3> QED  BY <1>5, <2>2, <3>1, <3>2, <3>3
             DEF Reached, AtPoint, Point, Slot, IsDevSubdir, Cgroup
  <2>3. CASE job = Cgroup
    <3>1. d = n.to /\ mnt[n.to] = "none" /\ job # "devices" /\ job # "/dev"
          /\ job # "/sys"
      BY <1>5, <2>3 DEF IsDevSubdir, Cgroup
    <3>2. CASE cwd = "chroot" /\ elems = <<"sys", "fs", "cgroup">>
      <4>1. n = entry[<<"chroot", "sys">>]
        BY <3>2 DEF Lookup, Slots
      <4>2. n.to = "sys"
        BY <4>1 DEF LeftOk, Dir
      <4> QED  BY <2>3, <3>1, <3>2, <4>2 DEF Reached
    <3>3. CASE cwd = "sys" /\ elems = <<"fs", "cgroup">> /\ mnt["sys"] = "none"
      <4>1. n = entry[<<"sys", "fs">>]
        BY <3>3 DEF Lookup, Slots
      <4>2. n.to = "fs"
        BY <4>1 DEF LeftOk, Dir
      <4> QED  BY <2>3, <3>1, <3>3, <4>2 DEF Reached
    <3>4. CASE cwd = "fs" /\ elems = <<"cgroup">> /\ mnt["sys"] = "none"
      <4>1. n = entry[<<"fs", "cgroup">>]
        BY <3>4 DEF Lookup, Slots
      <4>2. n = Dir("cgroup") /\ n.to = "cgroup"
        BY <4>1 DEF LeftOk, Dir
      <4>3. AtPoint(job, d)
        BY <2>3, <3>1, <4>1, <4>2 DEF AtPoint, Point, Slot, Cgroup
      <4> QED  BY <2>3, <3>1, <3>4, <4>3 DEF Reached
    <3> QED  BY <1>4, <2>3, <3>1, <3>2, <3>3, <3>4 DEF About
  <2>4. CASE IsDevSubdir(job)
    <3>1. /\ job # "devices" /\ job # "/dev" /\ job # "/sys" /\ job # Cgroup
          /\ job \in {"/dev/shm", "/dev/pts"}
      BY <2>4 DEF IsDevSubdir, Cgroup
    <3>2. SUFFICES ASSUME Tail(elems) = <<>> PROVE AtPoint(job, d)
      BY <3>1 DEF Reached
    <3>3. ~(elems = <<"dev", Last(job)>>)
      <4>1. Tail(<<"dev", Last(job)>>) = <<Last(job)>>
        OBVIOUS
      <4>2. Len(<<Last(job)>>) # Len(<<>>)
        OBVIOUS
      <4> QED  BY <3>2, <4>1, <4>2
    <3>4. cwd \in FsRoots /\ elems = <<Last(job)>> /\ Head(elems) = Last(job)
      BY <1>1, <2>4, <3>1, <3>3 DEF SetupInv, WalkOk, StandsIn
    <3>5. n = entry[<<"dev:", Last(job)>>] /\ <<"dev:", Last(job)>> \in Slots
      <4>1. n # Nothing
        BY <1>1 DEF Nothing
      <4> QED  BY <3>1, <3>4, <4>1 DEF Lookup, Slots, FsRoots, Last
    <3>6. n = Dir(Below(job))
      BY <1>1, <3>1, <3>5 DEF SetupInv, EntriesOk, Last, Below, Nothing
    <3>7. Entered(d, elems)
      BY <1>1 DEF SetupInv, WalkOk, Entered
    <3>8. d = Below(job)
      BY <2>4, <3>1, <3>3, <3>7 DEF Entered
    <3> QED  BY <3>1, <3>5, <3>6, <3>8 DEF AtPoint, Point, Slot, Cgroup
  <2>5. CASE job = "devices"
    BY <2>5 DEF Reached, Cgroup
  <2>6. job \in Jobs
    BY DEF SetupInv, TypeOK
  <2> QED  BY <2>1, <2>2, <2>3, <2>4, <2>5, <2>6
           DEF Jobs, MountPoints, IsDevSubdir, Cgroup
<1>7. PathOk'
  BY <1>1, <1>6 DEF PathOk, Reached, AtPoint
<1> QED  BY <1>3, <1>7

LEMMA AloneChdir ==
  ASSUME LeftOk, PointsOk, HiddenOk, PathOk, Chdir, ~Die, UNCHANGED entry
  PROVE  LeftOk' /\ PointsOk' /\ HiddenOk' /\ PathOk'
<1>1. /\ pc = "chdir" /\ pc' = "lstat2"
      /\ UNCHANGED <<mnt, todo, job, elems, st1>>
  BY DEF Chdir
<1>2. LeftOk' /\ PointsOk' /\ HiddenOk'
  BY <1>1 DEF LeftOk, PointsOk, AtPoint, HiddenOk, NoCgroup, Placing, Walking
<1>3. Reached(st1.ino, elems)
  BY <1>1 DEF PathOk
<1>4. PathOk'
  BY <1>1, <1>3 DEF PathOk, Reached, AtPoint
<1> QED  BY <1>2, <1>4

LEMMA AloneLstat2 ==
  ASSUME SetupInv, SetupInv', LeftOk, PointsOk, HiddenOk, PathOk,
         Lstat2, ~Die, UNCHANGED entry
  PROVE  LeftOk' /\ PointsOk' /\ HiddenOk' /\ PathOk'
<1>1. /\ pc = "lstat2" /\ st1.ino = cwd /\ elems' = Tail(elems)
      /\ pc' = IF Tail(elems) = <<>> THEN "getcwd" ELSE "lstat"
      /\ UNCHANGED <<mnt, todo, job, cwd>>
  BY DEF Lstat2, Unchanged
<1>2. LeftOk' /\ PointsOk' /\ HiddenOk'
  BY <1>1 DEF LeftOk, PointsOk, AtPoint, HiddenOk, NoCgroup, Placing, Walking
<1>3. Reached(cwd, elems)
  BY <1>1 DEF PathOk
<1>4. IF Tail(elems) = <<>> THEN Standing(cwd) ELSE About(cwd, Tail(elems))
  <2>1. CASE job = "/dev"
    <3>1. AtPoint(job, cwd) /\ elems = <<"dev">>
      BY <1>3, <2>1 DEF Reached, Cgroup
    <3>2. Tail(elems) = <<>>
      BY <3>1
    <3> QED  BY <2>1, <3>1, <3>2 DEF Standing, Cgroup
  <2>2. CASE job = "/sys"
    <3>1. AtPoint(job, cwd) /\ elems = <<"sys">>
      BY <1>3, <2>2 DEF Reached, Cgroup
    <3>2. Tail(elems) = <<>>
      BY <3>1
    <3> QED  BY <2>2, <3>1, <3>2 DEF Standing, Cgroup
  <2>3. CASE job = Cgroup
    <3>1. mnt["sys"] = "none" /\ job # "devices"
      BY <1>3, <2>3 DEF Reached, Cgroup
    <3>2. CASE cwd = "sys" /\ elems = <<"sys", "fs", "cgroup">>
      <4>1. Tail(elems) = <<"fs", "cgroup">>
        BY <3>2
      <4>2. Len(<<"fs", "cgroup">>) # Len(<<>>)
        OBVIOUS
      <4> QED  BY <2>3, <3>1, <3>2, <4>1, <4>2 DEF About, Cgroup
    <3>3. CASE cwd = "fs" /\ elems = <<"fs", "cgroup">>
      <4>1. Tail(elems) = <<"cgroup">>
        BY <3>3
      <4>2. Len(<<"cgroup">>) # Len(<<>>)
        OBVIOUS
      <4> QED  BY <2>3, <3>1, <3>3, <4>1, <4>2 DEF About, Cgroup
    <3>4. CASE AtPoint(job, cwd) /\ elems = <<"cgroup">>
      <4>1. Tail(elems) = <<>>
        BY <3>4
      <4> QED  BY <2>3, <3>1, <3>4, <4>1 DEF Standing
    <3> QED  BY <1>3, <2>3, <3>2, <3>3, <3>4 DEF Reached, Cgroup
  <2>4. CASE IsDevSubdir(job)
    <3>1. job # "devices" /\ job # "/dev" /\ job # "/sys" /\ job # Cgroup
      BY <2>4 DEF IsDevSubdir, Cgroup
    <3>2. Tail(elems) = <<>> => AtPoint(job, cwd)
      BY <1>3, <3>1 DEF Reached
    <3> QED  BY <3>1, <3>2 DEF Standing, About
  <2>5. CASE job = "devices"
    BY <2>5 DEF Standing, About, Cgroup
  <2>6. job \in Jobs
    BY DEF SetupInv, TypeOK
  <2> QED  BY <2>1, <2>2, <2>3, <2>4, <2>5, <2>6
           DEF Jobs, MountPoints, IsDevSubdir, Cgroup
<1>5. PathOk'
  BY <1>1, <1>4 DEF PathOk, Standing, About, AtPoint
<1> QED  BY <1>2, <1>5

LEMMA AloneCheckCwd ==
  ASSUME LeftOk, PointsOk, HiddenOk, PathOk, CheckCwd, ~Die, UNCHANGED entry
  PROVE  LeftOk' /\ PointsOk' /\ HiddenOk' /\ PathOk'
<1>1. /\ pc = "getcwd" /\ pc' = IF job = "devices" THEN "mkdir" ELSE "mount"
      /\ UNCHANGED <<mnt, todo, job, cwd>>
  BY DEF CheckCwd
<1>2. LeftOk' /\ PointsOk' /\ HiddenOk'
  BY <1>1 DEF LeftOk, PointsOk, AtPoint, HiddenOk, NoCgroup, Placing, Walking
<1>3. PathOk'
  BY <1>1 DEF PathOk, Standing, AtPoint
<1> QED  BY <1>2, <1>3

(* The mount covers the point of its path, and hides no earlier one.        *)
LEMMA AloneMount ==
  ASSUME SetupInv, LeftOk, PointsOk, HiddenOk, PathOk, Mount, ~Die,
         UNCHANGED entry
  PROVE  LeftOk' /\ PointsOk' /\ HiddenOk' /\ PathOk'
<1>1. /\ pc = "mount" /\ pc' \in {"back", "next"}
      /\ mnt' = [mnt EXCEPT ![cwd] = job] /\ UNCHANGED <<todo, job, cwd>>
  BY DEF Mount
<1>2. job # "devices" /\ job \in MountPoints /\ cwd \in Dirs
  BY <1>1 DEF SetupInv, OrderOk, TypeOK, Jobs
<1>3. AtPoint(job, cwd) /\ (job = Cgroup => mnt["sys"] = "none")
  BY <1>1, <1>2 DEF PathOk, Standing
<1>4. /\ mnt'[cwd] = job /\ "sys" \in Dirs
      /\ \A d \in Dirs \ {cwd} : mnt'[d] = mnt[d]
  BY <1>1, <1>2 DEF SetupInv, TypeOK, Dirs, CallerDirs
<1>5. LeftOk'
  BY DEF LeftOk
<1>6. PointsOk'
  BY <1>3, <1>4 DEF PointsOk, AtPoint
<1>7. pc' \notin Placing /\ pc \in Placing
  BY <1>1 DEF Placing, Walking
<1>8. HiddenOk'
  <2>1. CASE job = Cgroup
    <3>1. cwd # "sys"
      BY <1>3, <2>1 DEF AtPoint, Point, Cgroup
    <3>2. "/sys" \notin todo
      BY <1>7, <2>1 DEF HiddenOk
    <3> QED  BY <1>1, <1>3, <1>4, <1>7, <2>1, <3>1, <3>2 DEF HiddenOk
  <2>2. CASE job = "/sys"
    <3>1. NoCgroup /\ job # Cgroup
      BY <1>7, <2>2 DEF HiddenOk, Cgroup
    <3>2. NoCgroup'
      BY <1>4, <3>1 DEF NoCgroup
    <3> QED  BY <1>7, <3>2 DEF HiddenOk
  <2>3. CASE job # Cgroup /\ job # "/sys"
    <3>1. cwd # "sys"
      BY <1>2, <1>3, <2>3 DEF AtPoint, Point, Cgroup, MountPoints, Below
    <3>2. NoCgroup => NoCgroup'
      BY <1>4, <2>3 DEF NoCgroup
    <3> QED  BY <1>1, <1>4, <1>7, <3>1, <3>2 DEF HiddenOk
  <2> QED  BY <2>1, <2>2, <2>3
<1>9. PathOk'
  BY <1>7 DEF PathOk, Placing, Walking
<1> QED  BY <1>5, <1>6, <1>8, <1>9

(* setup_devices adds to the tmpfs, and to nothing of the caller's.         *)
LEMMA AloneMakeDirs ==
  ASSUME SetupInv, LeftOk, PointsOk, HiddenOk, MakeDirs, ~(Die /\ UNCHANGED entry)
  PROVE  LeftOk' /\ PointsOk' /\ HiddenOk' /\ PathOk'
<1>1. /\ pc = "mkdir" /\ pc' = "mknod" /\ UNCHANGED <<mnt, todo, job>>
      /\ entry' = [s \in Slots |-> CASE s = <<cwd, "pts">> -> Dir("dev:pts")
                                      [] s = <<cwd, "shm">> -> Dir("dev:shm")
                                      [] OTHER -> entry[s]]
  BY DEF MakeDirs
<1>2. cwd = "dev:"
  BY <1>1 DEF SetupInv, WalkOk, InDevices
<1>3. /\ entry'[<<"chroot", "dev">>] = entry[<<"chroot", "dev">>]
      /\ entry'[<<"chroot", "sys">>] = entry[<<"chroot", "sys">>]
      /\ entry'[<<"sys", "fs">>] = entry[<<"sys", "fs">>]
      /\ entry'[<<"fs", "cgroup">>] = entry[<<"fs", "cgroup">>]
      /\ entry'[<<"dev:", "pts">>] = Dir("dev:pts")
      /\ entry'[<<"dev:", "shm">>] = Dir("dev:shm")
  BY <1>1, <1>2 DEF Slots
<1>4. LeftOk'
  BY <1>3 DEF LeftOk
<1>5. PointsOk'
  <2>1. ASSUME NEW d \in Dirs, mnt[d] # "none"
        PROVE  d = Point(mnt[d]) /\ entry'[Slot(mnt[d])] = Dir(d)
    <3>1. mnt[d] \in MountPoints /\ AtPoint(mnt[d], d)
      BY <2>1 DEF SetupInv, TypeOK, PointsOk
    <3> QED  BY <1>3, <3>1 DEF AtPoint, Point, Slot, Below, Last, MountPoints
  <2> QED  BY <1>1, <2>1 DEF PointsOk, AtPoint
<1>6. HiddenOk' /\ PathOk'
  BY <1>1 DEF HiddenOk, NoCgroup, PathOk, Placing, Walking
<1> QED  BY <1>4, <1>5, <1>6

LEMMA AloneStep ==
  ASSUME SetupInv, SetupInv', AloneInv, [Next]_vars
  PROVE  AloneInv'
<1> SUFFICES ASSUME LeftAlone'
             PROVE  LeftOk' /\ PointsOk' /\ HiddenOk' /\ PathOk'
  BY DEF AloneInv
<1>1. ASSUME LeftAlone
      PROVE  LeftOk /\ PointsOk /\ HiddenOk /\ PathOk
  BY <1>1 DEF AloneInv
<1>2. CASE Executor
  <2>1. changes' = changes /\ ~Die
    BY <1>2 DEF Executor, MakeDirs, LeftAlone, Die
  <2>2. ASSUME UNCHANGED <<entry, mnt>>, UNCHANGED todo \/ NoCgroup,
               pc \notin Placing \cup {"dead"}, pc' \notin Placing
        PROVE  LeftOk' /\ PointsOk' /\ HiddenOk' /\ PathOk'
    <3>1. LeftAlone
      BY <2>1, <2>2 DEF LeftAlone
    <3> QED  BY <1>1, <2>2, <3>1, AloneElsewhere
  <2>3. CASE MakeDirs
    <3>1. LeftAlone
      BY <2>1, <2>3 DEF LeftAlone, MakeDirs
    <3> QED  BY <1>1, <2>1, <2>3, <3>1, AloneMakeDirs
  <2>4. CASE UNCHANGED entry /\ (NextJob \/ Lstat \/ Chdir \/ Lstat2 \/ CheckCwd)
    <3>1. LeftAlone
      BY <2>1, <2>4 DEF LeftAlone, NextJob, Lstat, Chdir, Lstat2, CheckCwd
    <3> QED  BY <1>1, <2>1, <2>4, <3>1, AloneNextJob, AloneLstat, AloneChdir,
                AloneLstat2, AloneCheckCwd
  <2>5. CASE UNCHANGED entry /\ Mount
    <3>1. LeftAlone
      BY <2>1, <2>5 DEF LeftAlone, Mount
    <3> QED  BY <1>1, <2>1, <2>5, <3>1, AloneMount
  <2>6. CASE UNCHANGED entry /\ SortRequests
    <3>1. NoCgroup
      BY <2>6 DEF SortRequests, SetupInv, OrderOk, Early, NoCgroup, Cgroup
    <3>2. UNCHANGED mnt /\ pc = "sort" /\ pc' = "slave"
      BY <2>1, <2>6 DEF SortRequests
    <3> QED  BY <2>2, <2>6, <3>1, <3>2 DEF Placing, Walking
  <2>7. CASE /\ UNCHANGED entry
             /\ \/ SetupNs \/ EnterChroot \/ UnshareMount \/ MakeSlave
                \/ SetupFstab
    <3>1. /\ UNCHANGED <<mnt, todo>>
          /\ pc \in {"ns", "enter", "unshare", "slave", "fstab"}
          /\ pc' \in {"enter", "unshare", "sort", "fstab", "next"}
      BY <2>1, <2>7 DEF SetupNs, EnterChroot, UnshareMount, MakeSlave, SetupFstab,
                        FchdirUid
    <3> QED  BY <2>2, <2>7, <3>1 DEF Placing, Walking
  <2>8. CASE UNCHANGED entry /\ (MakeNodes \/ CopyDev \/ GoBack \/ Chroot)
    <3>1. /\ UNCHANGED <<mnt, todo>>
          /\ pc \in {"mknod", "copy", "back", "chroot"}
          /\ pc' \in {"copy", "next", "chroot", "done"}
      BY <2>1, <2>8 DEF MakeNodes, CopyDev, GoBack, Chroot, FchdirUid
    <3> QED  BY <2>2, <2>8, <3>1 DEF Placing, Walking
  <2> QED  BY <1>2, <2>3, <2>4, <2>5, <2>6, <2>7, <2>8 DEF Executor
<1>3. CASE Caller
  <2>1. changes \in Nat /\ changes' = changes + 1
    BY <1>3 DEF Caller, Change, SetupInv, TypeOK
  <2> QED  BY <2>1 DEF LeftAlone
<1>4. CASE UNCHANGED vars
  <2>1. LeftAlone
    BY <1>4 DEF LeftAlone
  <2>2. LeftOk' /\ PointsOk' /\ HiddenOk'
    BY <1>1, <1>4, <2>1 DEF LeftOk, PointsOk, AtPoint, HiddenOk, NoCgroup
  <2>3. PathOk'
    BY <1>1, <1>4, <2>1 DEF PathOk, About, Reached, Standing, AtPoint
  <2> QED  BY <2>2, <2>3
<1> QED  BY <1>2, <1>3, <1>4 DEF Next, Finished

(* What a path leads to, one name at a time.                                *)
Enter(d, name) == Top(Lookup(d, name).to)

(* f holds the directories along the path of m, "chroot" first.             *)
Along(f, m) ==
  f = [n \in 0..Len(Path(m)) |->
        IF n = 0 THEN "chroot" ELSE Top(Lookup(f[n - 1], Path(m)[n]).to)]

LEMMA WalkUnfolds ==
  ASSUME NEW m, NEW f, Along(f, m)
  PROVE  \E at : Along(at, m) /\ Walk(m) = at[Len(Path(m))]
<1> DEFINE at[n \in 0..Len(Path(m))] ==
             IF n = 0 THEN "chroot" ELSE Top(Lookup(at[n - 1], Path(m)[n]).to)
<1>1. Along(at, m)
  BY DEF Along, at
<1>2. Walk(m) = at[Len(Path(m))]
  BY DEF Walk
<1> HIDE DEF at
<1> QED  BY <1>1, <1>2

LEMMA WalkOfOne ==
  ASSUME NEW m, NEW a, Path(m) = <<a>>
  PROVE  Walk(m) = Enter("chroot", a)
<1> DEFINE one == Enter("chroot", a)
           f == [n \in 0..1 |-> IF n = 0 THEN "chroot" ELSE one]
<1>1. Len(Path(m)) = 1 /\ Path(m)[1] = a
  OBVIOUS
<1>2. f[0] = "chroot" /\ f[1] = one
  OBVIOUS
<1>3. ASSUME NEW n \in 0..1
      PROVE  f[n] = IF n = 0 THEN "chroot"
                    ELSE Top(Lookup(f[n - 1], Path(m)[n]).to)
  <2>1. n \in {0, 1} /\ 1 - 1 = 0
    OBVIOUS
  <2> HIDE DEF f
  <2> QED  BY <1>1, <1>2, <2>1 DEF Enter
<1>4. Along(f, m)
  BY <1>1, <1>3 DEF Along
<1> HIDE DEF f
<1>5. PICK at : Along(at, m) /\ Walk(m) = at[Len(Path(m))]
  BY <1>4, WalkUnfolds
<1>6. at[0] = "chroot"
  BY <1>1, <1>5 DEF Along
<1>7. at[1] = one
  BY <1>1, <1>5, <1>6 DEF Along, Enter
<1> QED  BY <1>1, <1>5, <1>7

LEMMA WalkOfTwo ==
  ASSUME NEW m, NEW a, NEW b, Path(m) = <<a, b>>
  PROVE  Walk(m) = Enter(Enter("chroot", a), b)
<1> DEFINE one == Enter("chroot", a)
           two == Enter(one, b)
           f == [n \in 0..2 |-> IF n = 0 THEN "chroot" ELSE IF n = 1 THEN one ELSE two]
<1>1. Len(Path(m)) = 2 /\ Path(m)[1] = a /\ Path(m)[2] = b
  OBVIOUS
<1>2. f[0] = "chroot" /\ f[1] = one /\ f[2] = two
  OBVIOUS
<1>3. ASSUME NEW n \in 0..2
      PROVE  f[n] = IF n = 0 THEN "chroot"
                    ELSE Top(Lookup(f[n - 1], Path(m)[n]).to)
  <2>1. n \in {0, 1, 2} /\ 1 - 1 = 0 /\ 2 - 1 = 1
    OBVIOUS
  <2> HIDE DEF f
  <2> QED  BY <1>1, <1>2, <2>1 DEF Enter
<1>4. Along(f, m)
  BY <1>1, <1>3 DEF Along
<1> HIDE DEF f
<1>5. PICK at : Along(at, m) /\ Walk(m) = at[Len(Path(m))]
  BY <1>4, WalkUnfolds
<1>6. at[0] = "chroot"
  BY <1>1, <1>5 DEF Along
<1>7. at[1] = one
  BY <1>1, <1>5, <1>6 DEF Along, Enter
<1>8. at[2] = two
  BY <1>1, <1>5, <1>7 DEF Along, Enter
<1> QED  BY <1>1, <1>5, <1>8

LEMMA WalkOfThree ==
  ASSUME NEW m, NEW a, NEW b, NEW c, Path(m) = <<a, b, c>>
  PROVE  Walk(m) = Enter(Enter(Enter("chroot", a), b), c)
<1> DEFINE one == Enter("chroot", a)
           two == Enter(one, b)
           three == Enter(two, c)
           f == [n \in 0..3 |-> IF n = 0 THEN "chroot" ELSE IF n = 1 THEN one
                                ELSE IF n = 2 THEN two ELSE three]
<1>1. Len(Path(m)) = 3 /\ Path(m)[1] = a /\ Path(m)[2] = b /\ Path(m)[3] = c
  OBVIOUS
<1>2. f[0] = "chroot" /\ f[1] = one /\ f[2] = two /\ f[3] = three
  OBVIOUS
<1>3. ASSUME NEW n \in 0..3
      PROVE  f[n] = IF n = 0 THEN "chroot"
                    ELSE Top(Lookup(f[n - 1], Path(m)[n]).to)
  <2>1. n \in {0, 1, 2, 3} /\ 1 - 1 = 0 /\ 2 - 1 = 1 /\ 3 - 1 = 2
    OBVIOUS
  <2> HIDE DEF f
  <2> QED  BY <1>1, <1>2, <2>1 DEF Enter
<1>4. Along(f, m)
  BY <1>1, <1>3 DEF Along
<1> HIDE DEF f
<1>5. PICK at : Along(at, m) /\ Walk(m) = at[Len(Path(m))]
  BY <1>4, WalkUnfolds
<1>6. at[0] = "chroot"
  BY <1>1, <1>5 DEF Along
<1>7. at[1] = one
  BY <1>1, <1>5, <1>6 DEF Along, Enter
<1>8. at[2] = two
  BY <1>1, <1>5, <1>7 DEF Along, Enter
<1>9. at[3] = three
  BY <1>1, <1>5, <1>8 DEF Along, Enter
<1> QED  BY <1>1, <1>5, <1>9

(* A tree left alone leads every path to the file system mounted for it.    *)
LEMMA PathsLeadToMounts ==
  ASSUME SetupInv, AloneInv, StillOk, pc = "done", changes = 0
  PROVE  \A m \in Wanted : Walk(m) = FsRoot(m)
<1>1. LeftOk /\ PointsOk /\ HiddenOk
  BY DEF AloneInv, LeftAlone
<1>2. \A m \in Wanted : \E d \in Dirs : mnt[d] = m
  <2>1. \A m \in Wanted : on[m] # "none"
    BY DEF SetupInv, RequestsOk, Early, Placing, Walking
  <2>2. \A m \in Wanted : m \in MountPoints
    BY DEF Wanted, Always, MountPoints
  <2> QED  BY <2>1, <2>2 DEF StillOk, SetupInv, TypeOK
<1>3. Wanted \subseteq MountPoints /\ "/dev" \in Wanted
  BY DEF Wanted, Always, MountPoints
(* The last name of a path.                                                 *)
<1>4. ASSUME NEW m \in Wanted
      PROVE  /\ mnt[Point(m)] = m
             /\ Enter(Slot(m)[1], Slot(m)[2]) = FsRoot(m)
  <2>1. PICK d \in Dirs : mnt[d] = m
    BY <1>2
  <2>2. m # "none"
    BY <1>3 DEF MountPoints
  <2>3. d = Point(m) /\ entry[Slot(m)] = Dir(d)
    BY <1>1, <2>1, <2>2 DEF PointsOk, AtPoint
  <2>4. Slot(m) \in Slots /\ <<Slot(m)[1], Slot(m)[2]>> = Slot(m)
    BY <1>3 DEF Slot, Slots, MountPoints, Last
  <2>5. Lookup(Slot(m)[1], Slot(m)[2]) = Dir(d)
    BY <2>3, <2>4 DEF Lookup
  <2>6. Top(d) = FsRoot(m)
    BY <2>1, <2>2 DEF Top
  <2> QED  BY <2>1, <2>3, <2>5, <2>6 DEF Enter, Dir
<1>5. Enter("chroot", "dev") = "dev:"
  BY <1>3, <1>4 DEF Slot, FsRoot
<1>6. ASSUME NEW m \in Wanted PROVE Walk(m) = FsRoot(m)
  <2>1. CASE m = "/dev"
    <3>1. Path(m) = <<"dev">>
      BY <2>1 DEF Path
    <3> QED  BY <1>5, <2>1, <3>1, WalkOfOne DEF FsRoot
  <2>2. CASE m = "/sys"
    <3>1. Path(m) = <<"sys">>
      BY <2>2 DEF Path
    <3>2. Enter("chroot", "sys") = FsRoot(m)
      BY <1>4, <2>2 DEF Slot
    <3> QED  BY <3>1, <3>2, WalkOfOne
  <2>3. CASE IsDevSubdir(m)
    <3>1. Path(m) = <<"dev", Last(m)>>
      BY <2>3 DEF Path, IsDevSubdir, Last
    <3>2. Enter("dev:", Last(m)) = FsRoot(m)
      BY <1>4, <2>3 DEF Slot, IsDevSubdir
    <3> QED  BY <1>5, <3>1, <3>2, WalkOfTwo
  <2>4. CASE m = Cgroup
    <3>1. Path(m) = <<"sys", "fs", "cgroup">>
      BY <2>4 DEF Path, Cgroup
    <3>2. mnt["sys"] = "none"
      BY <1>1, <1>2, <2>4 DEF HiddenOk, NoCgroup
    <3>3. mnt["fs"] = "none"
      <4>1. "fs" \in Dirs /\ mnt["fs"] \in MountPoints \cup {"none"}
        BY DEF Dirs, CallerDirs, SetupInv, TypeOK
      <4>2. mnt["fs"] # "none" => "fs" = Point(mnt["fs"])
        BY <1>1, <4>1 DEF PointsOk, AtPoint
      <4> QED  BY <4>1, <4>2 DEF Point, Below, MountPoints
    <3>4. Enter("chroot", "sys") = "sys" /\ Enter("sys", "fs") = "fs"
      BY <1>1, <3>2, <3>3 DEF LeftOk, Enter, Lookup, Slots, Dir, Top
    <3>5. Enter("fs", "cgroup") = FsRoot(m)
      BY <1>4, <2>4 DEF Slot, Cgroup
    <3> QED  BY <3>1, <3>4, <3>5, WalkOfThree
  <2> QED  BY <1>3, <2>1, <2>2, <2>3, <2>4 DEF MountPoints, IsDevSubdir, Cgroup
<1> QED  BY <1>6

(* A program is started with what was asked for, as far as the caller did   *)
(* not take it away from its own job, and nothing else; and when the caller *)
(* left its tree alone, each file system stands where its path leads, none  *)
(* hidden under a later one.                                                *)
THEOREM SetupIsAsRequestedAndInPlace == Spec => []SetupIsExact
<1>1. SetupInv /\ SetupInv' /\ AloneInv /\ [Next]_vars => AloneInv'
  BY AloneStep
<1>2. Spec => []AloneInv
  BY <1>1, AloneInit, SetupIsInvariant, PTL DEF Spec
<1>3. Init => StillOk
  BY DEF Init, StillOk
<1>4. SetupInv /\ StillOk /\ [Next]_vars => StillOk'
  BY StillStep
<1>5. Spec => []StillOk
  BY <1>3, <1>4, SetupIsInvariant, PTL DEF Spec
<1>6. SetupInv /\ AloneInv /\ StillOk /\ SetupAsRequested => SetupIsExact
  BY PathsLeadToMounts DEF SetupIsExact
<1> QED  BY <1>2, <1>5, <1>6, SetupIsInvariant, SetupIsWhatWasRequested, PTL

=============================================================================
