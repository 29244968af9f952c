---------------------------- MODULE ChrootSetup ----------------------------
(***************************************************************************)
(* The privileged set-up of a chroot job: chrootuid.c up to chroot(2),      *)
(* with setup_mountpoints (mount.c), setup_devices (makedev.c), chdiruid    *)
(* and fchdiruid (chdiruid.c) and the validated chdir of chdir.c.           *)
(*                                                                         *)
(* The executor is root and walks, name by name, a tree that belongs to    *)
(* the caller.  The caller runs at the same time and may rename any entry   *)
(* of a directory it owns, put a symbolic link in its place, remove an      *)
(* empty directory, or change the permissions and the group of its          *)
(* directories; one system call of the executor on that tree is one step,   *)
(* so these changes fall between any two of them.  The caller's namespace   *)
(* does not see the executor's mounts: it can remove a directory that only  *)
(* the executor mounted something on, and the kernel detaches that mount.   *)
(***************************************************************************)
EXTENDS Naturals, Sequences, FiniteSets

CONSTANTS
  Requests,             \* the values of requested_mountpoints, as sets
  AllowedDevices,       \* allowed_devices of the configuration
  AllowedMountpoints,   \* allowed_mountpoints of the configuration
  Fstab,                \* mount points with an entry in fstab or def_fstab
  HostDevices,          \* names under /dev that are devices on the host
  MaxChanges            \* bound: changes the caller makes during one set-up

(***************************************************************************)
(* Directories.  "chroot" is the directory of chroot_fd, under "home", the  *)
(* configured prefix; "dev" ... "cgroup" stand in it at first; "stage" and  *)
(* "own" are the caller's, outside the prefix.  "etc" and "secret" are      *)
(* directories of the system.  Then the roots of the mounted file systems   *)
(* and the directories in them: the two that setup_devices makes in the     *)
(* tmpfs of /dev, and those of sysfs.                                       *)
(***************************************************************************)
CallerDirs == {"home", "chroot", "dev", "sys", "fs", "stage", "own"}
SystemDirs == {"/", "etc", "secret"}
FsRoots == {"dev:", "shm:", "pts:", "sys:", "cgroup:"}
TmpfsDirs == {"dev:shm", "dev:pts"}
SysfsDirs == {"sys:fs", "sys:cgroup"}
(* The ones whose name nobody changes.                                      *)
Tops == SystemDirs \cup {"home", "stage"}
Dirs == CallerDirs \cup {"cgroup"} \cup SystemDirs \cup FsRoots
          \cup TmpfsDirs \cup SysfsDirs

(* st_uid; no directory changes its owner.  "cgroup" was made by user1.     *)
Owner(d) == IF d \in CallerDirs THEN "caller"
            ELSE IF d = "cgroup" THEN "rooter" ELSE "root"

(* A directory the caller's credentials may not search.                     *)
Searchable(d) == d # "secret"

(***************************************************************************)
(* Permissions and group, as far as the validators and is_changed tell them *)
(* apart: no group or world write bit; group write with the sticky bit; a   *)
(* write bit every validator refuses; or a group that is not change_gid1.   *)
(***************************************************************************)
Attrs == {"closed", "sticky", "writable", "chgrp"}

Slots == {<<"home", "chroot">>, <<"chroot", "dev">>, <<"chroot", "sys">>,
          <<"sys", "fs">>, <<"fs", "cgroup">>, <<"stage", "spare">>,
          <<"dev:", "shm">>, <<"dev:", "pts">>,
          <<"sys:", "fs">>, <<"sys:fs", "cgroup">>}

Nothing == [kind |-> "none", to |-> "/"]
Dir(d) == [kind |-> "dir", to |-> d]
Link(d) == [kind |-> "link", to |-> d]
Nodes == {Nothing} \cup {Dir(d) : d \in Dirs} \cup {Link(d) : d \in Dirs}

(* Mount points, the path of each below the chroot, its file system's root. *)
MountPoints == {"/dev", "/dev/shm", "/dev/pts", "/sys", "/sys/fs/cgroup"}

Path(m) == CASE m = "/dev" -> <<"dev">>
             [] m = "/dev/shm" -> <<"dev", "shm">>
             [] m = "/dev/pts" -> <<"dev", "pts">>
             [] m = "/sys" -> <<"sys">>
             [] m = "/sys/fs/cgroup" -> <<"sys", "fs", "cgroup">>

FsRoot(m) == CASE m = "/dev" -> "dev:"
               [] m = "/dev/shm" -> "shm:"
               [] m = "/dev/pts" -> "pts:"
               [] m = "/sys" -> "sys:"
               [] m = "/sys/fs/cgroup" -> "cgroup:"

IsDevSubdir(m) == m \in {"/dev/shm", "/dev/pts"}

(* Every item a request may hold.  "//sys" and "proc" are names that        *)
(* setup_mountpoints refuses by their form.                                 *)
Items == {"//sys", "/dev", "/dev/fuse", "/dev/kvm", "/dev/pts", "/dev/shm",
          "/opt", "/srv", "/sys", "/sys/fs/cgroup", "proc"}
BadForm == {"//sys", "proc"}
DevNames == {"/dev/fuse", "/dev/kvm", "/dev/pts"}    \* begin with "/dev/"
Always == {"/dev", "/dev/shm"}
(* setup_devices' fixed list; console, tty0, fb0 and the log socket apart.  *)
StdNodes == {"null", "zero", "full", "urandom", "random"}
PtsNodes == {"tty", "ptmx"}

ASSUME RequestAssumption ==
  /\ Requests \subseteq SUBSET Items
  /\ AllowedMountpoints \subseteq MountPoints /\ Fstab \subseteq MountPoints
  /\ MaxChanges \in Nat

VARIABLES
  pc,          \* where the executor is; "dead" after any *_and_die
  requested,   \* requested_mountpoints
  prefixed,    \* chroot_prefix_list is set, to "home"
  entry,       \* what each name of each directory leads to
  attr,        \* permissions and group of each directory
  mnt,         \* the mount that covers a directory, in the new namespace
  on,          \* the directory each file system was mounted on
  ns,          \* the executor's mount namespace
  outside,     \* mounts that show up outside that namespace
  todo,        \* mounts and devices still to be set up
  job,         \* the one in progress
  elems,       \* path elements left to enter
  cwd,         \* working directory of the executor
  fsuid,       \* credentials of its file system accesses
  st1,         \* the first lstat of the element being entered
  made,        \* device nodes made, with the directory each stands in
  changes      \* changes made by the caller so far

input == <<requested, prefixed>>
space == <<mnt, on, ns, outside>>
jobs == <<todo, job>>
walk == <<elems, cwd, fsuid, st1>>
exec == <<pc, input, space, jobs, walk, made>>
vars == <<exec, entry, attr, changes>>

NoStat == [ino |-> "/", attr |-> "closed"]
Step == {"ns", "enter", "unshare", "sort", "slave", "fstab", "next", "lstat",
         "chdir", "lstat2", "getcwd", "mount", "mkdir", "mknod", "copy",
         "back", "chroot", "done", "dead"}
Jobs == MountPoints \cup {"devices"}

(* Type correctness of the executor's and the caller's state.               *)
TypeOK ==
  /\ pc \in Step /\ requested \in Requests /\ prefixed \in BOOLEAN
  /\ entry \in [Slots -> Nodes] /\ attr \in [Dirs -> Attrs]
  /\ mnt \in [Dirs -> MountPoints \cup {"none"}]
  /\ on \in [MountPoints -> Dirs \cup {"none"}]
  /\ ns \in {"host", "caller", "private", "slave"}
  /\ outside \subseteq MountPoints
  /\ todo \subseteq Jobs /\ job \in Jobs
  /\ elems \in Seq({"dev", "shm", "pts", "sys", "fs", "cgroup"})
  /\ cwd \in Dirs /\ fsuid \in {"root", "caller"}
  /\ st1 \in [ino : Dirs, attr : Attrs]
  /\ made \subseteq Dirs \X (StdNodes \cup PtsNodes \cup Items)
  /\ changes \in 0..MaxChanges

(***************************************************************************)
(* Path resolution in the executor's namespace.                            *)
(***************************************************************************)
Top(d) == IF mnt[d] = "none" THEN d ELSE FsRoot(mnt[d])

Lookup(d, name) == IF <<d, name>> \in Slots THEN entry[<<d, name>>] ELSE Nothing

(* The directory above each one: where the caller sees it, and for getcwd.  *)
(* What has no name and no mount point any more, is "gone".                 *)
Parent == [d \in Dirs |-> IF \E s \in Slots : entry[s] = Dir(d)
                          THEN (CHOOSE s \in Slots : entry[s] = Dir(d))[1]
                          ELSE IF d \in Tops THEN "/" ELSE "gone"]
CwdParent == [d \in Dirs |->
               IF \E c \in Dirs : mnt[c] # "none" /\ FsRoot(mnt[c]) = d
               THEN CHOOSE c \in Dirs : mnt[c] # "none" /\ FsRoot(mnt[c]) = d
               ELSE Parent[d]]

(* Whether a is d or a directory above it.                                  *)
IsAbove(a, d, parent) ==
  LET below[x \in Dirs \cup {"gone"}] ==
        x = a \/ (x \notin {"/", "gone"} /\ below[parent[x]])
  IN  below[d]

(* d is neither removed nor in a detached file system.                      *)
Attached(d) == IsAbove("/", d, CwdParent)
InPrefix(d) == Attached(d) /\ (prefixed => IsAbove("home", d, CwdParent))

(***************************************************************************)
(* The validators, and is_changed.                                         *)
(***************************************************************************)
CallerOk(d) == Owner(d) = "caller" /\ attr[d] \in {"closed", "sticky"}
CallerRooterOk(d) ==
  Owner(d) \in {"caller", "rooter"} /\ attr[d] \in {"closed", "sticky"}
RootOkAnyOwner(d) == attr[d] \in {"closed", "chgrp"}
RootOk(d) == Owner(d) = "root" /\ attr[d] \in {"closed", "chgrp"}

Valid(d) == IF job = "devices" \/ IsDevSubdir(job) THEN RootOk(d)
            ELSE CallerRooterOk(d)

UnchangedByMode == st1.attr = attr[cwd]
Unchanged == st1.ino = cwd /\ st1.attr = attr[cwd]

-----------------------------------------------------------------------------
(***************************************************************************)
(* Initially the chroot holds the caller's directories, as hsh-initroot     *)
(* leaves them, or has nothing or a link at dev; no directory owned by root *)
(* stands in a directory of the caller.  The spare entry is what the caller *)
(* has prepared.                                                            *)
(***************************************************************************)
Init ==
  /\ pc = "ns" /\ requested \in Requests /\ prefixed \in BOOLEAN /\ ns = "host"
  /\ \E dev \in {Dir("dev"), Link("etc"), Nothing},
        spare \in {Dir("own"), Link("etc"), Link("secret"), Nothing} :
       entry = [s \in Slots |->
                 CASE s = <<"home", "chroot">> -> Dir("chroot")
                   [] s = <<"chroot", "dev">> -> dev
                   [] s = <<"chroot", "sys">> -> Dir("sys")
                   [] s = <<"sys", "fs">> -> Dir("fs")
                   [] s = <<"fs", "cgroup">> -> Dir("cgroup")
                   [] s = <<"stage", "spare">> -> spare
                   [] s = <<"sys:", "fs">> -> Dir("sys:fs")
                   [] s = <<"sys:fs", "cgroup">> -> Dir("sys:cgroup")
                   [] OTHER -> Nothing]
  /\ attr = [d \in Dirs |-> IF d = "shm:" THEN "writable" ELSE "closed"]
  /\ mnt = [d \in Dirs |-> "none"] /\ outside = {}
  /\ on = [m \in MountPoints |-> "none"]
  /\ todo = {} /\ job = "devices" /\ elems = <<>>
  /\ cwd = "/" /\ fsuid = "root" /\ st1 = NoStat
  /\ made = {} /\ changes = 0

(* perror_msg_and_die, error_msg_and_die: the executor exits.               *)
Die == /\ pc' = "dead"
       /\ UNCHANGED <<input, space, jobs, walk, made>>

(* change_creds and restore_creds set the file system uid and gid.          *)
ChangeCredsNot == fsuid' = "root"
ChangeCreds == fsuid' = "caller"
RestoreCreds == fsuid' = "root"

(***************************************************************************)
(* setup_ns: the executor joins those of the caller's namespaces that may  *)
(* differ, or refuses, when another one differs or the caller is gone.      *)
(***************************************************************************)
SetupNs ==
  /\ pc = "ns"
  /\ \/ /\ ns' = "caller" /\ pc' = "enter"
        /\ UNCHANGED <<input, mnt, on, outside, jobs, walk, made>>
     \/ Die

(* fchdiruid(chroot_fd, stat_caller_ok_validator), then pc goes to next.    *)
FchdirUid(next) ==
  IF CallerOk("chroot") /\ InPrefix("chroot")
  THEN /\ cwd' = "chroot" /\ pc' = next
       /\ RestoreCreds
       /\ UNCHANGED <<input, space, jobs, elems, st1, made>>
  ELSE Die

EnterChroot == pc = "enter" /\ FchdirUid("unshare")

(* unshare_mount, and the chroot reopened in the new namespace; with        *)
(* share_flag 0 a kernel that cannot unshare ends the executor.             *)
UnshareMount ==
  /\ pc = "unshare"
  /\ \/ /\ ns' = "private" /\ pc' = "sort"
        /\ UNCHANGED <<input, mnt, on, outside, jobs, walk, made>>
     \/ Die

(***************************************************************************)
(* The first loop of setup_mountpoints: each request is a device, a mount   *)
(* point, or an error.                                                      *)
(***************************************************************************)
Allowed(names) == {i \in requested : i \notin Always /\ i \in names}
DevVec == Allowed(AllowedDevices)
MpointVec == Allowed(AllowedMountpoints)
DevPtsMounted == "/dev/pts" \in MpointVec

(* The order in which setup_mountpoints works: its three fixed calls, then  *)
(* what was requested in the order parse_str_list sorts it (a name given    *)
(* twice was cleared).                                                      *)
RankReversed(i) ==
  CASE i = "/dev" -> 1 [] i = "devices" -> 2 [] i = "/dev/shm" -> 3
    [] i = "/sys/fs/cgroup" -> 4 [] i = "/sys" -> 5 [] i = "/opt" -> 6
    [] i = "/dev/pts" -> 7 [] i = "/dev/kvm" -> 8 [] i = "/dev/fuse" -> 9
    [] OTHER -> 0
Rank(i) ==
  CASE i = "/dev" -> 1 [] i = "devices" -> 2 [] i = "/dev/shm" -> 3
    [] i = "/dev/fuse" -> 4 [] i = "/dev/kvm" -> 5 [] i = "/dev/pts" -> 6
    [] i = "/opt" -> 7 [] i = "/sys" -> 8 [] i = "/sys/fs/cgroup" -> 9
    [] OTHER -> 10
IsFirst(i, items) == i \in items /\ \A k \in items : Rank(i) <= Rank(k)

Refused(i) ==
  /\ i \notin Always
  /\ \/ i \in BadForm
     \/ i \in AllowedDevices /\ i \in AllowedMountpoints
     \/ i \in AllowedDevices /\ i \notin DevNames
     \/ i \notin AllowedDevices /\ i \notin AllowedMountpoints

SortRequests ==
  /\ pc = "sort"
  /\ IF \E i \in requested : Refused(i)
     THEN Die
     ELSE /\ todo' = {"/dev", "devices", "/dev/shm"} \cup MpointVec
          /\ pc' = "slave"
          /\ UNCHANGED <<input, space, job, walk, made>>

(* mount("/", "/", MS_SLAVE | MS_REC): no later mount propagates.  (EINVAL, *)
(* which the code passes over, needs a "/" that is not a mount point; here  *)
(* it is one.)                                                              *)
MakeSlaveNot ==
  /\ pc = "slave"
  /\ \/ /\ UNCHANGED ns /\ pc' = "fstab"
        /\ UNCHANGED <<input, mnt, on, outside, jobs, walk, made>>
     \/ Die
MakeSlave ==
  /\ pc = "slave"
  /\ \/ /\ ns' = "slave" /\ pc' = "fstab"
        /\ UNCHANGED <<input, mnt, on, outside, jobs, walk, made>>
     \/ Die

(* setup_fstab: root's own directories, which the caller cannot change.     *)
SetupFstab ==
  /\ pc = "fstab"
  /\ \/ /\ cwd' = "/" /\ pc' = "next"
        /\ UNCHANGED <<input, space, jobs, elems, fsuid, st1, made>>
     \/ Die

(***************************************************************************)
(* The start of xmount and of setup_devices: back to the chroot directory,  *)
(* then chdiruid begins with the caller's credentials.                      *)
(***************************************************************************)
NextJob ==
  /\ pc = "next"
  /\ \E j \in todo :
       /\ IsFirst(j, todo)
       /\ IF /\ j = "devices" \/ j \in Fstab
             /\ CallerOk("chroot") /\ InPrefix("chroot")
          THEN /\ job' = j /\ todo' = todo \ {j} /\ cwd' = "chroot"
               /\ elems' = IF j = "devices" THEN <<"dev">> ELSE Path(j)
               /\ ChangeCreds
               /\ pc' = "lstat"
               /\ UNCHANGED <<input, space, st1, made>>
          ELSE Die

(* safe_chdir_component: lstat, S_ISDIR and the validator ...               *)
Lstat ==
  /\ pc = "lstat"
  /\ LET n == Lookup(cwd, Head(elems)) IN
     IF n.kind = "dir" /\ Valid(Top(n.to))
     THEN /\ st1' = [ino |-> Top(n.to), attr |-> attr[Top(n.to)]]
          /\ pc' = "chdir"
          /\ UNCHANGED <<input, space, jobs, elems, cwd, fsuid, made>>
     ELSE Die

(* ... chdir, which follows a link and looks the name up again ...          *)
Chdir ==
  /\ pc = "chdir"
  /\ LET n == Lookup(cwd, Head(elems)) IN
     IF n # Nothing /\ (fsuid = "root" \/ Searchable(Top(n.to)))
     THEN /\ cwd' = Top(n.to)
          /\ pc' = "lstat2"
          /\ UNCHANGED <<input, space, jobs, elems, fsuid, st1, made>>
     ELSE Die

(* ... and lstat("."), which must find what the first lstat found.          *)
Lstat2 ==
  /\ pc = "lstat2"
  /\ IF Unchanged
     THEN /\ elems' = Tail(elems)
          /\ pc' = IF Tail(elems) = <<>> THEN "getcwd" ELSE "lstat"
          /\ UNCHANGED <<input, space, jobs, cwd, fsuid, st1, made>>
     ELSE Die

(* The end of chdiruid: check_cwd and restore_creds.                        *)
CheckCwd ==
  /\ pc = "getcwd"
  /\ IF InPrefix(cwd)
     THEN /\ RestoreCreds
          /\ pc' = IF job = "devices" THEN "mkdir" ELSE "mount"
          /\ UNCHANGED <<input, space, jobs, elems, cwd, st1, made>>
     ELSE Die

(* mount(2) on ".", which must be attached; the mounts of the host are       *)
(* shared, as systemd makes them, so that one below them would show up       *)
(* outside as well.                                                          *)
Mount ==
  /\ pc = "mount"
  /\ \/ /\ Attached(cwd)
        /\ mnt' = [mnt EXCEPT ![cwd] = job] /\ on' = [on EXCEPT ![job] = cwd]
        /\ outside' = IF ns # "slave" THEN outside \cup {job} ELSE outside
        /\ pc' = IF todo = {} THEN "back" ELSE "next"
        /\ UNCHANGED <<input, ns, jobs, walk, made>>
     \/ Die

(* setup_devices: pts and shm must not exist yet.                           *)
MakeDirs ==
  /\ pc = "mkdir"
  /\ IF Lookup(cwd, "pts") = Nothing /\ Lookup(cwd, "shm") = Nothing
     THEN /\ entry' = [s \in Slots |->
                        CASE s = <<cwd, "pts">> -> Dir("dev:pts")
                          [] s = <<cwd, "shm">> -> Dir("dev:shm")
                          [] OTHER -> entry[s]]
          /\ pc' = "mknod"
          /\ UNCHANGED <<input, space, jobs, walk, made>>
     ELSE Die /\ UNCHANGED entry

StartNodes == StdNodes \cup IF DevPtsMounted THEN PtsNodes ELSE {}
MakeNodes ==
  /\ pc = "mknod"
  /\ made' = made \cup ({cwd} \X StartNodes)
  /\ pc' = "copy"
  /\ UNCHANGED <<input, space, jobs, walk>>

(* copy_dev for the next device of dev_vec, then on to /dev/shm.            *)
Copied == {n \in AllowedDevices : <<cwd, n>> \in made}
CopyDev ==
  /\ pc = "copy"
  /\ \/ /\ DevVec \subseteq Copied
        /\ pc' = "next"
        /\ UNCHANGED <<input, space, jobs, walk, made>>
     \/ \E i \in DevVec :
          /\ IsFirst(i, DevVec \ Copied)
          /\ IF i \in HostDevices
             THEN /\ made' = made \cup {<<cwd, i>>}
                  /\ UNCHANGED <<pc, input, space, jobs, walk>>
             ELSE Die

(* The end of chrootuid's set-up: back to the chroot directory, chroot.     *)
GoBack == pc = "back" /\ FchdirUid("chroot")
Chroot == /\ pc = "chroot" /\ pc' = "done"
          /\ UNCHANGED <<input, space, jobs, walk, made>>

Executor ==
  \/ MakeDirs /\ UNCHANGED <<attr, changes>>
  \/ /\ \/ SetupNs \/ EnterChroot \/ UnshareMount \/ SortRequests \/ MakeSlave
        \/ SetupFstab \/ NextJob \/ Lstat \/ Chdir \/ Lstat2 \/ CheckCwd
        \/ Mount \/ MakeNodes \/ CopyDev \/ GoBack \/ Chroot
     /\ UNCHANGED <<entry, attr, changes>>

-----------------------------------------------------------------------------
(***************************************************************************)
(* The caller.  Exchange stands for rename: a name of one of its            *)
(* directories and another trade what they lead to (nothing, for a plain    *)
(* rename).  A directory of another owner keeps its parent, and none is     *)
(* moved below itself.  Remove stands for rmdir of an empty directory, and  *)
(* Replace for renaming a directory to the name of an empty one; a mount    *)
(* that covers the directory removed is detached, what is mounted below it  *)
(* with it.                                                                 *)
(***************************************************************************)
Running == pc \notin {"done", "dead"}
(* One of at most MaxChanges changes.                                       *)
Change ==
  /\ Running /\ changes < MaxChanges
  /\ changes' = changes + 1
  /\ UNCHANGED <<pc, input, on, ns, outside, jobs, walk, made>>

(* The names in the directories of the caller, and one without any.         *)
CallerSlots == {s \in Slots : Owner(s[1]) = "caller" /\ Parent[s[1]] # "gone"}
Empty(d) == \A s \in Slots : s[1] = d => entry[s] = Nothing

MayMove(s, t) ==
  \/ entry[s].kind # "dir"
  \/ /\ Owner(entry[s].to) = "caller" \/ s[1] = t[1]
     /\ ~IsAbove(entry[s].to, t[1], Parent)

Exchange(s, t) ==
  /\ entry[s] # entry[t]
  /\ MayMove(s, t) /\ MayMove(t, s)
  /\ entry' = [entry EXCEPT ![s] = entry[t], ![t] = entry[s]]
  /\ UNCHANGED <<mnt, attr>>

Remove(d) ==
  /\ Empty(d) /\ \E s \in CallerSlots : entry[s] = Dir(d)
  /\ entry' = [s \in Slots |-> IF entry[s] = Dir(d) THEN Nothing ELSE entry[s]]
  /\ mnt' = [mnt EXCEPT ![d] = "none"]
  /\ UNCHANGED attr

Replace(d, s) ==
  /\ Empty(d) /\ entry[s].kind = "dir" /\ entry[s] # Dir(d)
  /\ \E t \in CallerSlots : entry[t] = Dir(d) /\ MayMove(s, t)
  /\ entry' = [t \in Slots |-> IF t = s THEN Nothing
                               ELSE IF entry[t] = Dir(d) THEN entry[s] ELSE entry[t]]
  /\ mnt' = [mnt EXCEPT ![d] = "none"]
  /\ UNCHANGED attr

Chmod(d) ==
  /\ \E a \in Attrs \ {attr[d]} : attr' = [attr EXCEPT ![d] = a]
  /\ UNCHANGED <<entry, mnt>>

Caller ==
  /\ Change
  /\ \/ \E s, t \in CallerSlots : Exchange(s, t)
     \/ \E d \in Dirs : Remove(d) \/ \E s \in CallerSlots : Replace(d, s)
     \/ \E d \in {"chroot", "dev", "sys"} : Chmod(d)

(* After chroot(2), or an error, nothing is left to do here.                *)
Finished == ~Running /\ UNCHANGED vars

Next == Executor \/ Caller \/ Finished
Spec == Init /\ [][Next]_vars

-----------------------------------------------------------------------------
(***************************************************************************)
(* Properties.                                                             *)
(***************************************************************************)
Covered(m) == {d \in Dirs : mnt[d] = m}

(* Whatever the caller renames while root walks its tree, a file system is  *)
(* mounted only on a directory of the caller or of user1, never on one of   *)
(* the system, and those of /dev only on the directories setup_devices made *)
(* in the tmpfs; so no mount hides another (chdir.c:48, mount.c:165).       *)
MountsCoverOwnDirs ==
  \A m \in MountPoints : \A d \in Covered(m) :
    IF IsDevSubdir(m) THEN d \in TmpfsDirs
    ELSE Owner(d) \in {"caller", "rooter"}

(* Device nodes are made, with root's rights, in the tmpfs just mounted at  *)
(* /dev and nowhere else (makedev.c:104).                                   *)
NodesOnlyInTmpfs == \A p \in made : p[1] = "dev:"

(* Root's rights never carry the walk into a directory that the caller      *)
(* could not enter: it is made with the caller's (chdiruid.c:118).          *)
NeverPastPermissions == Searchable(cwd)

(* A mount of the executor never shows up outside its namespace             *)
(* (chrootuid.c:117, mount.c:291).                                          *)
NothingOutside == outside = {}

(* The program starts with what was asked for and allowed, and nothing      *)
(* else: no request is passed over, each of those file systems was mounted  *)
(* and none else is, and those devices stand in the tmpfs made for /dev.    *)
(* A file system is missing only if the caller took it away from its own    *)
(* job: it removed the directory below it, and that has no name any more    *)
(* (mount.c:251, 302).                                                      *)
Wanted == Always \cup (requested \cap AllowedMountpoints)
Named(d) == \E s \in Slots : entry[s] = Dir(d)
SetupAsRequested ==
  pc = "done" =>
    /\ requested \subseteq Wanted \cup AllowedDevices
    /\ \A d \in Dirs : mnt[d] \in Wanted \cup {"none"}
    /\ \A m \in Wanted : on[m] # "none" /\ (Named(on[m]) => mnt[on[m]] = m)
    /\ {p[2] : p \in made} =
         StartNodes \cup ((requested \cap AllowedDevices) \ Always)

(* SetupAsRequested and, when the caller left the tree alone, each mount is *)
(* where its path leads, none hidden under a later one (the order of        *)
(* caller_config.c:272).                                                    *)
Walk(m) ==
  LET at[n \in 0..Len(Path(m))] ==
        IF n = 0 THEN "chroot" ELSE Top(Lookup(at[n - 1], Path(m)[n]).to)
  IN  at[Len(Path(m))]
SetupIsExact ==
  /\ SetupAsRequested
  /\ pc = "done" /\ changes = 0 => \A m \in Wanted : Walk(m) = FsRoot(m)
=============================================================================
