------------------------- MODULE PayloadStartProofs -------------------------
(***************************************************************************)
(* Theorems of PayloadStart, for every configuration, password database,    *)
(* environment and set of processors, whatever an earlier job has left,      *)
(* whoever gets the pid of the client, and in whatever order the descriptors *)
(* of the job were received.  StartInv is about all but the descriptors,     *)
(* StreamsInv about the descriptors alone.                                  *)
(***************************************************************************)
EXTENDS PayloadStart, FiniteSetTheorems, FunctionTheorems, TLAPS

USE ConfigConstants, StartAssumption

(* The stages of a job, as far as the invariant tells them apart.           *)
Configuring == {"system", "user", "numbered", "check"}
BeforeSpawn == Configuring \cup {"accept", "cgroup owner", "cgroup file", "executor"}
BeforeEnv == BeforeSpawn \cup {"std", "sanitize", "env"}
BeforePurge == BeforeEnv \cup {"killuid", "purge", "purge swapped"}
BeforeGroups == BeforePurge \cup {"groups"}
BeforeNs == BeforeGroups \cup {"ns", "ns owner", "ns compare", "ns open"}
BeforeMnt == BeforeNs \cup {"reopen"}
BeforeUnshare ==
  BeforeMnt \cup {"log", "close", "again", "pipes", "x11", "unshare"}
BeforeLimits == BeforeUnshare \cup {"pty", "pty2", "rlimits"}
BeforeHalves == BeforeLimits \cup {"cloexec", "fork", "halves"}
BeforeIdentity == BeforeHalves \cup {"identity"}
BeforeShuffle == BeforeIdentity \cup {"connect", "cpus"}
Child == {"identity", "connect", "cpus", "shuffle", "listen", "exec"}

(* A user of a numbered session is one that a file of that number names.     *)
OfNumber(u) ==
  caller_num => \E f \in NumFiles : u \in DOMAIN f.set /\ f.set[u] = conf[u]

(* The options in effect.  Until the users have been checked those of a      *)
(* numbered session are from its file or not there at all.                   *)
ConfOk ==
  /\ DOMAIN conf = Options
  /\ conf["nproc"] \in Nat /\ conf["wlimit"] \in Nat
  /\ conf["hard"] \in Nat \cup {-1} /\ conf["soft"] \in Nat \cup {-1}
  /\ pc = "numbered" => caller_num
  /\ pc = "check" => \A u \in Users : conf[u] = NoName \/ OfNumber(u)
  /\ pc \notin Configuring \cup {"dead"} =>
       \A u \in Users : CheckUser(conf[u]) /\ OfNumber(u)

(* The work limit of the job against that of its session, and the limits of  *)
(* the process.                                                             *)
LimitsOk ==
  /\ wlimit \in Nat
  /\ rlim \in [cur : Int, max : Int]
  /\ pc \notin Configuring \cup {"dead"} /\ conf["wlimit"] # 0 =>
       wlimit # 0 /\ wlimit <= conf["wlimit"]
  /\ pc \notin BeforeLimits \cup {"dead"} =>
       /\ conf["hard"] >= 0 => rlim.max = conf["hard"]
       /\ conf["soft"] >= 0 => rlim.cur <= conf["soft"]
  /\ why # "setrlimit"

(* What is left of an earlier job: first its processes are killed, then the  *)
(* plain objects of the one user go, then those of the other.                *)
Leavings == Processes("alive") \cup Processes("dying")
            \cup Ipc(Spaces, {"plain", "hidden", "last"})
LeftOk ==
  /\ left \subseteq Leavings
  /\ pc \in {"purge", "purge swapped"} => left \cap Processes("alive") = {}
  /\ pc = "purge swapped" => <<"user2", "server", "plain">> \notin left
  /\ pc \notin BeforePurge \cup {"dead"} => left \subseteq Survivors

(* Who the process is.                                                      *)
IdentityOk ==
  /\ job \in Users
  /\ pc \in BeforeGroups => id = Root
  /\ pc \in BeforeIdentity \ BeforeGroups => id = [Root EXCEPT !.groups = {}]
  /\ pc \notin BeforeGroups \cup {"dead"} => target = Pseudo.groups
  /\ pc \in Child \ {"identity"} =>
       id.uid = Pseudo.uid /\ id.gid = Pseudo.gid /\ id.groups \subseteq Pseudo.groups
  /\ pc = "loop" => id = [uid |-> Caller.uid, gid |-> Caller.gid, groups |-> {}]

(* A namespace that is neither new nor to be shared is one the kernel cannot *)
(* isolate.                                                                 *)
Isolated(n) == ns[n] = "new" \/ share[n] = 1 \/ (share[n] = -1 /\ n \notin kernel)

IsolationOk ==
  /\ share \in [Ns -> {-1, 0, 1}]
  /\ DOMAIN ns = Ns \cup {"mnt"}
  /\ pc \in BeforeNs => \A n \in DOMAIN ns : ns[n] = "server"
  /\ pc \in BeforeUnshare => \A n \in Ns : ns[n] # "new"
  /\ pc \notin BeforeMnt \cup {"dead"} => ns["mnt"] = "new"
  /\ pc \notin BeforeUnshare \cup {"dead"} => \A n \in UnshareEarly : Isolated(n)
  /\ pc \notin BeforeUnshare \cup Child \cup {"dead"} /\ x11 = "inet" => ns["net"] # "new"
  /\ pc \in Child => \A n \in Ns : Isolated(n)

(* Between the check of its owner and the last use of its directory, the    *)
(* process is one of the caller's.                                          *)
Mine == {p \in DOMAIN Procs : Procs[p].owner = Caller.uid}
PlaceOk ==
  /\ atpid \in DOMAIN Procs \cup {"none"} /\ proc \in DOMAIN Procs \cup {"none"}
  /\ pc \in {"cgroup file", "ns compare", "ns open"} => proc \in Mine
  /\ \A e \in enter_ns : e[2] = proc
  /\ pc \notin {"ns compare", "ns open", "dead"} => enter_ns = {}
  /\ cgroup \in Mine \cup {"server"}
  /\ \E p \in Mine : \A n \in DOMAIN ns : ns[n] \in {"server", "new", p}

(* The shuffle has as many bits as processors are to be kept, each at a      *)
(* position that is the rank of one.                                        *)
AffinityOk ==
  /\ pc \in BeforeShuffle => i = 0
  /\ pc \in BeforeShuffle \cup {"shuffle"} => set = Cpus
  /\ pc = "shuffle" =>
       /\ nproc # 0 /\ nproc < Cardinality(Cpus)
       /\ i \in 0..nproc
       /\ tmp \subseteq 0..Cardinality(Cpus) - 1 /\ Cardinality(tmp) = nproc
  /\ set \subseteq Cpus
  /\ pc \in {"listen", "exec"} =>
       Cardinality(set) = IF nproc = 0 \/ Cardinality(Cpus) <= nproc
                          THEN Cardinality(Cpus) ELSE nproc

Stages == BeforeShuffle \cup Child \cup {"loop", "dead"}

StartInv ==
  /\ pc \in Stages
  /\ ConfOk /\ LimitsOk /\ LeftOk /\ IdentityOk /\ IsolationOk /\ PlaceOk /\ AffinityOk

-----------------------------------------------------------------------------
(***************************************************************************)
(* What the steps leave alone.  A step goes on along one of its moves, stays *)
(* where it is, or is the end of the process.                               *)
(***************************************************************************)
Goes(moves) ==
  \/ UNCHANGED <<pc, why>>
  \/ pc' = "dead" /\ why' # "setrlimit"
  \/ <<pc, pc'>> \in moves /\ UNCHANGED why

OnDescriptors ==
  \/ ResetStd \/ Sanitize \/ LogListen \/ CloseChroot \/ SanitizeAgain \/ MakePipes
  \/ PrepareX11 \/ OpenPty \/ OpenPtyChrooted \/ CloexecFds \/ Fork \/ ConnectFds
  \/ ListenX11 \/ Finished \/ UNCHANGED vars
Loading == LoadSystem \/ LoadUser \/ LoadNumbered
LookingAtCaller == OpenCallerProc \/ CheckCallerProc \/ JoinCallerCgroup
LookingAtNs == OpenNsProc \/ CheckNsProc \/ CompareNs \/ OpenNs
OnPlace == PidChanges \/ LookingAtCaller \/ LookingAtNs
Purging == LeftoverActs \/ KillUid \/ DyingActs \/ PurgeIpc
Isolating == EnterNs \/ Reopen \/ UnshareIpcUtsNetwork \/ ChildHalf
OnCpus == StartAffinity \/ Shuffle \/ SetAffinity

Quiet ==
  /\ UNCHANGED <<confVars, wlimit, use_pty, share, job, kernel, priv, cpu>>
  /\ pc = "x11" \/ UNCHANGED x11
  /\ Goes({<<"std", "sanitize">>, <<"sanitize", "env">>, <<"log", "close">>,
           <<"close", "again">>, <<"again", "pipes">>, <<"pipes", "x11">>,
           <<"x11", "unshare">>, <<"pty", "pty2">>, <<"pty2", "rlimits">>,
           <<"cloexec", "fork">>, <<"fork", "halves">>, <<"connect", "cpus">>,
           <<"listen", "exec">>})

LEMMA DescriptorSteps == OnDescriptors => Quiet
<1>. SUFFICES ASSUME OnDescriptors PROVE Quiet
  OBVIOUS
<1>. USE DEF Quiet, Goes, Step, Dies, Die, confVars, jobVars, opts, priv, place, proc_fd,
             cpu, other, startVars, fds, kept, pty, pipes
<1>1. CASE ResetStd \/ CloseChroot \/ MakePipes \/ OpenPty \/ CloexecFds \/ Fork
  BY <1>1 DEF ResetStd, CloseChroot, MakePipes, OpenPty, CloexecFds, Fork
<1>2. CASE Sanitize \/ SanitizeAgain
  BY <1>2 DEF Sanitize, SanitizeAgain, SanitizeFds
<1>3. CASE LogListen \/ PrepareX11
  BY <1>3 DEF LogListen, PrepareX11
<1>4. CASE OpenPtyChrooted
  BY <1>4 DEF OpenPtyChrooted
<1>5. CASE ConnectFds \/ ListenX11
  BY <1>5 DEF ConnectFds, ListenX11
<1>6. CASE Finished \/ UNCHANGED vars
  BY <1>6 DEF Finished, vars
<1>. QED
  BY <1>1, <1>2, <1>3, <1>4, <1>5, <1>6 DEF OnDescriptors

LEMMA PlaceSteps ==
  OnPlace => /\ UNCHANGED <<confVars, jobVars, opts, left, id, target, ns, rlim, cpu>>
             /\ Goes({<<"accept", "cgroup owner">>, <<"cgroup owner", "cgroup file">>,
                      <<"cgroup file", "executor">>, <<"ns", "ns owner">>,
                      <<"ns owner", "ns compare">>, <<"ns compare", "ns open">>,
                      <<"ns open", "ns compare">>})
<1>. USE DEF Goes, Step, Dies, Die, confVars, jobVars, opts, priv, place, proc_fd,
             cpu, startVars
<1>1. ASSUME PidChanges \/ LookingAtCaller
      PROVE  /\ UNCHANGED <<confVars, jobVars, opts, left, id, target, ns, rlim, cpu>>
             /\ Goes({<<"accept", "cgroup owner">>, <<"cgroup owner", "cgroup file">>,
                      <<"cgroup file", "executor">>})
  BY <1>1 DEF PidChanges, LookingAtCaller, OpenCallerProc, OpenProc, CheckCallerProc,
              CheckOwner, JoinCallerCgroup
<1>2. ASSUME LookingAtNs
      PROVE  /\ UNCHANGED <<confVars, jobVars, opts, left, id, target, ns, rlim, cpu>>
             /\ Goes({<<"ns", "ns owner">>, <<"ns owner", "ns compare">>,
                      <<"ns compare", "ns open">>, <<"ns open", "ns compare">>})
  <2>1. CASE OpenNsProc \/ CheckNsProc
    BY <2>1 DEF OpenNsProc, OpenProc, CheckNsProc, CheckOwner
  <2>2. CASE CompareNs
    BY <2>2 DEF CompareNs
  <2>3. CASE OpenNs
    BY <2>3 DEF OpenNs
  <2>. QED
    BY <1>2, <2>1, <2>2, <2>3 DEF LookingAtNs
<1>. QED
  BY <1>1, <1>2 DEF OnPlace

LEMMA PurgeSteps ==
  Purging => /\ UNCHANGED <<confVars, jobVars, opts, id, target, place, rlim, cpu>>
             /\ Goes({<<"killuid", "purge">>, <<"purge", "purge swapped">>,
                      <<"purge swapped", "groups">>})
BY DEF Purging, LeftoverActs, KillUid, DyingActs, PurgeIpc, killing, Goes, Step, Dies, Die, confVars, jobVars,
       opts, priv, place, proc_fd, cpu, startVars

LEMMA IsolationSteps ==
  Isolating =>
    /\ UNCHANGED <<confVars, jobVars, job, left, id, target, cgroup, rlim, cpu>>
    /\ EnterNs \/ UNCHANGED <<atpid, proc, enter_ns>>
    /\ Goes({<<"ns compare", "reopen">>, <<"reopen", "log">>, <<"unshare", "pty">>,
             <<"halves", "identity">>})
<1>. USE DEF Goes, Step, Dies, confVars, jobVars, opts, place, proc_fd, cpu
<1>1. CASE EnterNs \/ Reopen
  BY <1>1 DEF EnterNs, Reopen
<1>2. CASE UnshareIpcUtsNetwork
  BY <1>2 DEF UnshareIpcUtsNetwork
<1>3. CASE ChildHalf
  BY <1>3 DEF ChildHalf
<1>. QED
  BY <1>1, <1>2, <1>3 DEF Isolating

LEMMA CpuSteps ==
  OnCpus => /\ UNCHANGED <<confVars, jobVars, opts, priv>>
            /\ Goes({<<"cpus", "listen">>, <<"cpus", "shuffle">>, <<"shuffle", "listen">>})
BY DEF OnCpus, StartAffinity, Shuffle, SetAffinity, Goes, Step, confVars, jobVars, opts,
       priv, cpu

LEMMA LoadSteps ==
  ASSUME Loading
  PROVE  /\ UNCHANGED <<caller_num, jobVars>>
         /\ pc \in {"system", "user", "numbered"}
         /\ Goes({<<"system", "user">>, <<"user", "numbered">>, <<"user", "check">>,
                  <<"numbered", "check">>})
BY DEF Loading, LoadSystem, LoadUser, LoadNumbered, LoadConfig, Goes, Dies, jobVars

LEMMA NextSteps ==
  ASSUME [Next]_vars
  PROVE  \/ OnDescriptors \/ OnPlace \/ Purging \/ Isolating \/ OnCpus
         \/ (Loading \/ CheckUsers \/ ParseEnv) /\ UNCHANGED startVars
         \/ SpawnExecutor \/ InitGroups \/ SetRlimits \/ ParentHalf \/ ChildIdentity
BY DEF Next, ConfigNext, OnDescriptors, OnPlace, LookingAtCaller, LookingAtNs, Purging,
       Isolating, OnCpus, Loading

-----------------------------------------------------------------------------
(***************************************************************************)
(* The configuration.                                                      *)
(***************************************************************************)
LEMMA UlIsNat == \A n \in Int : Str2Ul(n) \in Nat
BY DEF Str2Ul

Numbers(c) ==
  /\ DOMAIN c = Options
  /\ c["nproc"] \in Nat /\ c["wlimit"] \in Nat
  /\ c["hard"] \in Nat \cup {-1} /\ c["soft"] \in Nat \cup {-1}

(* A file replaces the options it sets and only those, and the numbers stay  *)
(* numbers.                                                                 *)
LEMMA FileSets ==
  ASSUME NEW f \in SystemFiles \cup UserFiles \cup NumFiles, NEW c, Numbers(c),
         \A o \in DOMAIN f.set : ValidValue(o, f.set[o])
  PROVE  /\ Numbers(SetNameValue(f, c))
         /\ \A u \in Users : SetNameValue(f, c)[u] =
                               IF u \in DOMAIN f.set THEN f.set[u] ELSE c[u]
<1>. DEFINE r == SetNameValue(f, c)
<1>1. \A o \in DOMAIN f.set \ Users : f.set[o] \in Int
  OBVIOUS
<1>2. r["nproc"] = IF "nproc" \in DOMAIN f.set THEN f.set["nproc"] ELSE c["nproc"]
  BY DEF SetNameValue, Options, Users
<1>3. r["wlimit"] = IF "wlimit" \in DOMAIN f.set THEN Str2Ul(f.set["wlimit"]) ELSE c["wlimit"]
  BY DEF SetNameValue, Options, Users, ModifyWlim
<1>4. \A o \in {"hard", "soft"} :
        r[o] = IF o \in DOMAIN f.set THEN Str2Ul(f.set[o]) ELSE c[o]
  BY DEF SetNameValue, Options, Users
<1>5. \A u \in Users : r[u] = IF u \in DOMAIN f.set THEN f.set[u] ELSE c[u]
  BY DEF SetNameValue, Options, Users
<1>6. DOMAIN r = Options
  BY DEF SetNameValue
<1>7. r["nproc"] \in Nat
  BY <1>1, <1>2 DEF ValidValue, Numbers, Users
<1>8. r["wlimit"] \in Nat /\ \A o \in {"hard", "soft"} : r[o] \in Nat \cup {-1}
  BY <1>1, <1>3, <1>4, UlIsNat DEF Numbers, Users
<1>. QED
  BY <1>5, <1>6, <1>7, <1>8 DEF Numbers

LEMMA StagesStep == ASSUME StartInv, [Next]_vars PROVE pc' \in Stages
<1>. USE DEF Stages, BeforeShuffle, BeforeIdentity, BeforeHalves, BeforeLimits, BeforeUnshare,
             BeforeMnt, BeforeNs, BeforeGroups, BeforePurge, BeforeEnv, BeforeSpawn,
             Configuring, Child, Goes
<1>1. CASE OnDescriptors
  BY <1>1, DescriptorSteps DEF Quiet, StartInv
<1>2. CASE OnPlace
  BY <1>2, PlaceSteps DEF StartInv
<1>3. CASE Purging \/ Isolating \/ OnCpus
  BY <1>3, PurgeSteps, IsolationSteps, CpuSteps DEF StartInv
<1>4. CASE Loading
  BY <1>4, LoadSteps DEF StartInv
<1>5. CASE CheckUsers \/ ParseEnv
  BY <1>5 DEF CheckUsers, ParseEnv, Dies
<1>6. CASE SpawnExecutor \/ InitGroups \/ SetRlimits \/ ParentHalf \/ ChildIdentity
  BY <1>6 DEF SpawnExecutor, InitGroups, SetRlimits, ParentHalf, ChildIdentity, Step, Dies
<1>. QED
  BY <1>1, <1>2, <1>3, <1>4, <1>5, <1>6, NextSteps

LEMMA ConfStep == ASSUME StartInv, [Next]_vars PROVE ConfOk'
<1>. USE DEF StartInv, Configuring, OfNumber
<1>1. ASSUME Loading PROVE ConfOk'
  <2>1. Numbers(conf)
    BY DEF ConfOk, Numbers
  <2>2. ASSUME UNCHANGED conf, pc' = "dead"
        PROVE  ConfOk'
    BY <2>2, <1>1, LoadSteps DEF ConfOk
  <2>3. CASE LoadSystem
    <3>1. PICK f \in SystemFiles : LoadConfig(f, conf, "user")
      BY <2>3 DEF LoadSystem
    <3>2. CASE pc' = "dead"
      BY <2>2, <3>1, <3>2 DEF LoadConfig, Dies
    <3>3. CASE pc' # "dead"
      <4>1. pc' = "user" /\ conf' = SetNameValue(f, conf)
        BY <3>1, <3>3 DEF LoadConfig, Dies
      <4>2. Numbers(conf')
        BY <2>1, <3>1, <3>3, <4>1, FileSets DEF LoadConfig, Dies
      <4>. QED
        BY <4>1, <4>2 DEF ConfOk, Numbers
    <3>. QED
      BY <3>2, <3>3
  <2>4. CASE LoadUser
    <3>1. PICK f \in UserFiles : LoadConfig(f, conf, IF caller_num THEN "numbered" ELSE "check")
      BY <2>4 DEF LoadUser
    <3>2. CASE pc' = "dead"
      BY <2>2, <3>1, <3>2 DEF LoadConfig, Dies
    <3>3. CASE pc' # "dead"
      <4>1. /\ pc' = (IF caller_num THEN "numbered" ELSE "check")
            /\ conf' = SetNameValue(f, conf) /\ UNCHANGED caller_num
        BY <1>1, <3>1, <3>3, LoadSteps DEF LoadConfig, Dies
      <4>2. Numbers(conf')
        BY <2>1, <3>1, <3>3, <4>1, FileSets DEF LoadConfig, Dies
      <4>. QED
        BY <4>1, <4>2 DEF ConfOk, Numbers
    <3>. QED
      BY <3>2, <3>3
  <2>5. CASE LoadNumbered
    <3>1. PICK f \in NumFiles : LoadConfig(f, NumberedConf, "check")
      BY <2>5 DEF LoadNumbered
    <3>2. CASE pc' = "dead"
      BY <2>2, <3>1, <3>2 DEF LoadConfig, Dies
    <3>3. CASE pc' # "dead"
      <4>1. /\ pc' = "check" /\ conf' = SetNameValue(f, NumberedConf)
            /\ \A o \in DOMAIN f.set : ValidValue(o, f.set[o])
        BY <3>1, <3>3 DEF LoadConfig, Dies
      <4>2. Numbers(NumberedConf) /\ \A u \in Users : NumberedConf[u] = NoName
        BY <2>1 DEF Numbers, NumberedConf, Users, Options
      <4>3. /\ Numbers(conf')
            /\ \A u \in Users : conf'[u] = IF u \in DOMAIN f.set THEN f.set[u] ELSE NoName
        BY <4>1, <4>2, FileSets
      <4>. QED
        BY <4>1, <4>3 DEF ConfOk, Numbers
    <3>. QED
      BY <3>2, <3>3
  <2>. QED
    BY <1>1, <2>3, <2>4, <2>5 DEF Loading
<1>2. CASE CheckUsers
  BY <1>2 DEF CheckUsers, CheckUser, ValidId, ConfOk, confVars, Users, Dies
<1>3. ASSUME UNCHANGED confVars,
             pc' \in {pc, "dead"} \/ {pc, pc'} \cap (Configuring \cup {"dead"}) = {}
      PROVE  ConfOk'
  <2>1. conf' = conf /\ caller_num' = caller_num
    BY <1>3 DEF confVars
  <2>2. CASE pc' \in {pc, "dead"}
    BY <2>1, <2>2 DEF ConfOk, CheckUser
  <2>3. CASE {pc, pc'} \cap (Configuring \cup {"dead"}) = {}
    BY <2>1, <2>3 DEF ConfOk, CheckUser
  <2>. QED
    BY <1>3, <2>2, <2>3
<1>4. CASE ParseEnv \/ SpawnExecutor \/ InitGroups \/ SetRlimits \/ ParentHalf \/ ChildIdentity
  <2>. UNCHANGED confVars /\ (pc' = "dead" \/ {pc, pc'} \cap (Configuring \cup {"dead"}) = {})
    BY <1>4 DEF ParseEnv, SpawnExecutor, InitGroups, SetRlimits, ParentHalf,
                ChildIdentity, Step, Dies, confVars
  <2>. QED
    BY <1>3
<1>5. CASE OnDescriptors \/ OnPlace \/ Purging \/ Isolating \/ OnCpus
  <2>1. UNCHANGED confVars
    BY <1>5, DescriptorSteps, PlaceSteps, PurgeSteps, IsolationSteps, CpuSteps
       DEF Quiet, confVars
  <2>2. pc' \in {pc, "dead"} \/ {pc, pc'} \cap (Configuring \cup {"dead"}) = {}
    <3>1. CASE OnDescriptors
      BY <3>1, DescriptorSteps DEF Quiet, Goes
    <3>2. CASE OnPlace \/ Purging \/ Isolating \/ OnCpus
      BY <3>2, PlaceSteps, PurgeSteps, IsolationSteps, CpuSteps DEF Goes
    <3>. QED
      BY <1>5, <3>1, <3>2
  <2>. QED
    BY <1>3, <2>1, <2>2
<1>. QED
  BY <1>1, <1>2, <1>3, <1>4, <1>5, NextSteps

-----------------------------------------------------------------------------
(***************************************************************************)
(* The limits.                                                             *)
(***************************************************************************)
(* The step does not leave the stages X.                                    *)
Within(X) == pc' \in X \cup {"dead"} \/ pc \notin X \cup {"dead"}

LEMMA LimitsStep == ASSUME StartInv, [Next]_vars PROVE LimitsOk'
<1>. USE DEF StartInv, BeforeLimits, BeforeUnshare, BeforeMnt, BeforeNs, BeforeGroups,
             BeforePurge, BeforeEnv, BeforeSpawn, Configuring, Within
<1>1. ASSUME UNCHANGED <<confVars, wlimit, rlim>>, why' # "setrlimit",
             Within(Configuring), Within(BeforeLimits)
      PROVE  LimitsOk'
  <2>1. conf' = conf /\ wlimit' = wlimit /\ rlim' = rlim
    BY <1>1 DEF confVars
  <2>. QED
    BY <1>1, <2>1 DEF LimitsOk
<1>2. CASE OnDescriptors
  <2>1. UNCHANGED <<confVars, wlimit, rlim>>
    BY <1>2, DescriptorSteps DEF Quiet, priv
  <2>2. Within(Configuring) /\ Within(BeforeLimits) /\ why' # "setrlimit"
    BY <1>2, DescriptorSteps DEF Quiet, Goes, LimitsOk
  <2>. QED
    BY <1>1, <2>1, <2>2
<1>3. CASE OnPlace \/ Purging \/ Isolating \/ OnCpus
  <2>1. UNCHANGED <<confVars, wlimit, rlim>>
    BY <1>3, PlaceSteps, PurgeSteps, IsolationSteps, CpuSteps DEF jobVars, priv
  <2>2. Within(Configuring) /\ Within(BeforeLimits) /\ why' # "setrlimit"
    BY <1>3, PlaceSteps, PurgeSteps, IsolationSteps, CpuSteps DEF Goes, LimitsOk
  <2>. QED
    BY <1>1, <2>1, <2>2
<1>4. CASE SpawnExecutor \/ InitGroups \/ ParentHalf \/ ChildIdentity
  <2>1. /\ UNCHANGED <<confVars, wlimit, rlim>> /\ why' # "setrlimit"
        /\ Within(Configuring) /\ Within(BeforeLimits)
    BY <1>4 DEF SpawnExecutor, InitGroups, ParentHalf, ChildIdentity, Step, jobVars, LimitsOk
  <2>. QED
    BY <1>1, <2>1
<1>5. CASE Loading /\ UNCHANGED startVars
  <2>1. UNCHANGED <<wlimit, rlim>> /\ pc' \in Configuring \cup {"dead"} /\ why' # "setrlimit"
    BY <1>5, LoadSteps DEF Goes, LimitsOk, jobVars, startVars, priv
  <2>. QED
    BY <2>1 DEF LimitsOk
<1>6. CASE CheckUsers /\ UNCHANGED startVars
  <2>1. rlim' = rlim /\ conf' = conf /\ why' # "setrlimit"
    BY <1>6 DEF CheckUsers, Dies, LimitsOk, startVars, priv, confVars
  <2>2. \/ pc' = "dead" /\ wlimit' = wlimit
        \/ pc' = "accept" /\ wlimit' = conf["wlimit"]
    BY <1>6 DEF CheckUsers, Dies
  <2>3. conf["wlimit"] \in Nat
    BY DEF ConfOk
  <2>4. CASE pc' = "dead" /\ wlimit' = wlimit
    BY <2>1, <2>4 DEF LimitsOk
  <2>5. CASE pc' = "accept" /\ wlimit' = conf["wlimit"]
    <3>1. rlim' \in [cur : Int, max : Int]
      BY <2>1 DEF LimitsOk
    <3>2. wlimit' \in Nat /\ wlimit' <= conf'["wlimit"] /\ wlimit' = conf'["wlimit"]
      BY <2>1, <2>3, <2>5
    <3>. QED
      BY <2>1, <2>5, <3>1, <3>2 DEF LimitsOk
  <2>. QED
    BY <2>2, <2>4, <2>5
<1>7. CASE ParseEnv /\ UNCHANGED startVars
  <2>1. rlim' = rlim /\ conf' = conf /\ why' # "setrlimit" /\ pc = "env" /\ pc' \in {"killuid", "dead"}
    BY <1>7 DEF ParseEnv, Dies, LimitsOk, startVars, priv, confVars
  <2>2. PICK e \in Envs :
          \/ wlimit' = wlimit
          \/ /\ wlimit' = Str2Ul(e.wlimit)
             /\ wlimit = 0 \/ (wlimit' > 0 /\ wlimit' < wlimit)
    BY <1>7 DEF ParseEnv, ModifyWlim, Dies, jobVars
  <2>3. wlimit \in Nat /\ Str2Ul(e.wlimit) \in Nat
    BY UlIsNat DEF LimitsOk
  <2>4. wlimit' \in Nat /\ (wlimit # 0 => wlimit' # 0 /\ wlimit' <= wlimit)
    BY ONLY <2>2, <2>3
  <2>5. conf["wlimit"] # 0 => wlimit' # 0 /\ wlimit' <= conf["wlimit"]
    BY <2>1, <2>4 DEF LimitsOk, ConfOk
  <2>. QED
    BY <2>1, <2>4, <2>5 DEF LimitsOk
<1>8. CASE SetRlimits
  <2>1. /\ UNCHANGED <<conf, wlimit>> /\ pc = "rlimits"
        /\ \/ pc' = "dead" /\ NewRlim.cur > NewRlim.max /\ rlim' = rlim
           \/ pc' = "cloexec" /\ rlim' = NewRlim /\ why' = why
    BY <1>8 DEF SetRlimits, Step, Dies, jobVars, confVars
  <2>2. /\ NewRlim \in [cur : Int, max : Int] /\ NewRlim.cur <= NewRlim.max
        /\ conf["hard"] >= 0 => NewRlim.max = conf["hard"]
        /\ conf["soft"] >= 0 => NewRlim.cur <= conf["soft"]
    <3>1. rlim \in [cur : Int, max : Int]
      BY DEF LimitsOk
    <3>2. conf["hard"] \in Int /\ conf["soft"] \in Int
      BY DEF ConfOk
    <3>. QED
      BY ONLY <3>1, <3>2 DEF NewRlim
  <2>3. pc' = "cloexec" /\ rlim' = NewRlim /\ why' = why
    BY <2>1, <2>2
  <2>. QED
    BY <2>1, <2>2, <2>3 DEF LimitsOk
<1>. QED
  BY <1>2, <1>3, <1>4, <1>5, <1>6, <1>7, <1>8, NextSteps

-----------------------------------------------------------------------------
(***************************************************************************)
(* What an earlier job has left.                                           *)
(***************************************************************************)
LEMMA LeftStep == ASSUME StartInv, [Next]_vars PROVE LeftOk'
<1>. USE DEF StartInv, BeforePurge, BeforeEnv, BeforeSpawn, Configuring, Within
<1>1. ASSUME UNCHANGED left, Within(BeforePurge),
             pc' \in {"purge", "purge swapped"} => pc' = pc
      PROVE  LeftOk'
  BY <1>1 DEF LeftOk
<1>2. CASE OnDescriptors
  <2>1. UNCHANGED left
    BY <1>2, DescriptorSteps DEF Quiet, priv
  <2>2. Within(BeforePurge) /\ (pc' \in {"purge", "purge swapped"} => pc' = pc)
    BY <1>2, DescriptorSteps DEF Quiet, Goes
  <2>. QED
    BY <1>1, <2>1, <2>2
<1>3. CASE OnPlace \/ Isolating \/ OnCpus
  <2>1. UNCHANGED left
    BY <1>3, PlaceSteps, IsolationSteps, CpuSteps DEF priv
  <2>2. Within(BeforePurge) /\ (pc' \in {"purge", "purge swapped"} => pc' = pc)
    BY <1>3, PlaceSteps, IsolationSteps, CpuSteps DEF Goes
  <2>. QED
    BY <1>1, <2>1, <2>2
<1>4. CASE (Loading \/ CheckUsers \/ ParseEnv) /\ UNCHANGED startVars
  <2>1. UNCHANGED left
    BY <1>4 DEF startVars, priv
  <2>2. pc' \in BeforePurge \cup {"dead"} /\ pc' \notin {"purge", "purge swapped"}
    BY <1>4, LoadSteps DEF Goes, CheckUsers, ParseEnv, Dies
  <2>. QED
    BY <1>1, <2>1, <2>2
<1>5. CASE InitGroups \/ SetRlimits \/ ParentHalf \/ ChildIdentity
  <2>1. UNCHANGED left /\ Within(BeforePurge) /\ pc' \notin {"purge", "purge swapped"}
    BY <1>5 DEF InitGroups, SetRlimits, ParentHalf, ChildIdentity, Step, Dies
  <2>. QED
    BY <1>1, <2>1
<1>6. CASE SpawnExecutor
  <2>1. pc' = "std" /\ left' \in Leftovers
    BY <1>6 DEF SpawnExecutor, Step
  <2>2. left' \subseteq Leavings
    BY <2>1, StartAssumption DEF Leavings, Ipc, Made
  <2>. QED
    BY <2>1, <2>2 DEF LeftOk
<1>7. CASE LeftoverActs
  <2>1. left' \subseteq Leavings
    BY <1>7 DEF LeftoverActs, LeftOk, Leavings, Ipc, Made
  <2>. QED
    BY <1>7, <2>1 DEF LeftoverActs, LeftOk
<1>8. CASE KillUid
  <2>1. CASE pc' = "dead"
    BY <1>8, <2>1 DEF KillUid, Step, Die, startVars, priv, LeftOk
  <2>2. CASE pc' # "dead"
    <3>1. /\ pc' = "purge"
          /\ left' = {IF x[2] = "process" THEN <<x[1], "process", "dying">> ELSE x : x \in left}
      BY <1>8, <2>2 DEF KillUid, Step, Die, Dies
    <3>2. ASSUME NEW y \in left'
          PROVE  y \in Leavings /\ y \notin Processes("alive")
      <4>1. PICK x \in left : y = IF x[2] = "process" THEN <<x[1], "process", "dying">> ELSE x
        BY <3>1
      <4>2. x \in Leavings
        BY DEF LeftOk
      <4>3. CASE x[2] = "process"
        <5>1. x[1] \in Users /\ y = <<x[1], "process", "dying">>
          BY <4>1, <4>2, <4>3 DEF Leavings, Processes, Ipc
        <5>. QED
          BY <5>1 DEF Leavings, Processes
      <4>4. CASE x[2] # "process"
        BY <4>1, <4>2, <4>4 DEF Processes
      <4>. QED
        BY <4>3, <4>4
    <3>. QED
      BY <3>1, <3>2 DEF LeftOk
  <2>. QED
    BY <2>1, <2>2
<1>9. CASE PurgeIpc
  <2>1. ns["ipc"] = "server"
    BY <1>9 DEF PurgeIpc, Step, IsolationOk, BeforeNs, BeforeGroups, Ns
  <2>2. CASE pc = "purge"
    <3>1. pc' = "purge swapped" /\ left' = left \ {<<"user2", "server", k>> : k \in {"plain", "last"}}
      BY <1>9, <2>1, <2>2 DEF PurgeIpc, Purge, Step
    <3>. QED
      BY <2>2, <3>1 DEF LeftOk
  <2>3. CASE pc = "purge swapped"
    <3>1. pc' = "groups" /\ left' = left \ {<<"user1", "server", k>> : k \in {"plain", "last"}}
      BY <1>9, <2>1, <2>3 DEF PurgeIpc, Purge, Step
    <3>2. ASSUME NEW x \in left'
          PROVE  x \in Survivors
      <4>1. /\ x \in Leavings /\ x \notin Processes("alive")
            /\ x # <<"user1", "server", "plain">> /\ x # <<"user2", "server", "plain">>
        BY <2>3, <3>1 DEF LeftOk
      <4>2. CASE x \in Processes("dying")
        BY <4>2 DEF Survivors
      <4>3. CASE x \in Ipc(Spaces, {"plain", "hidden", "last"})
        BY <4>1, <4>3 DEF Survivors, Ipc, Spaces, Made, Users
      <4>. QED
        BY <4>1, <4>2, <4>3 DEF Leavings
    <3>. QED
      BY <2>3, <3>1, <3>2 DEF LeftOk
  <2>. QED
    BY <1>9, <2>2, <2>3 DEF PurgeIpc, Step
<1>10. CASE DyingActs
  <2>1. PICK p \in left \cap Processes("dying") :
          \/ \E n \in Spaces : left' = left \cup {<<p[1], n, "last">>}
          \/ left' = left \ {p}
    BY <1>10 DEF DyingActs
  <2>2. p[1] \in Users
    BY <2>1 DEF Processes
  <2>3. CASE left' = left \ {p}
    BY <1>10, <2>3 DEF DyingActs, LeftOk
  <2>4. CASE left' # left \ {p}
    <3>1. PICK n \in Spaces : left' = left \cup {<<p[1], n, "last">>}
      BY <2>1, <2>4
    <3>3. /\ <<p[1], n, "last">> \in Leavings /\ <<p[1], n, "last">> \notin Processes("alive")
          /\ <<p[1], n, "last">> # <<"user2", "server", "plain">>
      BY <2>2 DEF Leavings, Processes, Ipc
    <3>4. <<p[1], n, "last">> \in Survivors
      BY <2>2 DEF Survivors, Ipc
    <3>. QED
      BY <1>10, <3>1, <3>3, <3>4 DEF DyingActs, LeftOk
  <2>. QED
    BY <2>3, <2>4
<1>. QED
  BY <1>2, <1>3, <1>4, <1>5, <1>6, <1>7, <1>8, <1>9, <1>10, NextSteps DEF Purging

-----------------------------------------------------------------------------
(***************************************************************************)
(* The ids.                                                                *)
(***************************************************************************)
(* The step does not enter the stages X.                                    *)
Outside(X) == pc' \in X => pc \in X

LEMMA IdentityStep == ASSUME StartInv, [Next]_vars PROVE IdentityOk'
<1>. USE DEF StartInv, BeforeIdentity, BeforeHalves, BeforeLimits, BeforeUnshare, BeforeMnt,
             BeforeNs, BeforeGroups, BeforePurge, BeforeEnv, BeforeSpawn, Configuring, Child,
             Within, Outside
<1>1. ASSUME UNCHANGED <<conf, job, id, target>>, Within(BeforeGroups),
             Outside(BeforeGroups), Outside(BeforeIdentity), Outside(Child \ {"identity"}),
             Outside({"loop"})
      PROVE  IdentityOk'
  <2>1. UNCHANGED Pseudo
    BY <1>1 DEF Pseudo
  <2>. QED
    BY <1>1, <2>1 DEF IdentityOk
<1>2. CASE OnDescriptors
  <2>1. UNCHANGED <<conf, job, id, target>>
    BY <1>2, DescriptorSteps DEF Quiet, priv, confVars
  <2>2. /\ Within(BeforeGroups) /\ Outside(BeforeGroups) /\ Outside(BeforeIdentity)
        /\ Outside(Child \ {"identity"}) /\ Outside({"loop"})
    BY <1>2, DescriptorSteps DEF Quiet, Goes
  <2>. QED
    BY <1>1, <2>1, <2>2
<1>3. CASE OnPlace \/ Purging
  <2>1. UNCHANGED <<conf, job, id, target>>
    BY <1>3, PlaceSteps, PurgeSteps DEF opts, confVars
  <2>2. /\ Within(BeforeGroups) /\ Outside(BeforeGroups) /\ Outside(BeforeIdentity)
        /\ Outside(Child \ {"identity"}) /\ Outside({"loop"})
    BY <1>3, PlaceSteps, PurgeSteps DEF Goes
  <2>. QED
    BY <1>1, <2>1, <2>2
<1>4. CASE Isolating \/ OnCpus
  <2>1. UNCHANGED <<conf, job, id, target>>
    BY <1>4, IsolationSteps, CpuSteps DEF priv, opts, confVars
  <2>2. /\ Within(BeforeGroups) /\ Outside(BeforeGroups) /\ Outside(BeforeIdentity)
        /\ Outside(Child \ {"identity"}) /\ Outside({"loop"})
    BY <1>4, IsolationSteps, CpuSteps DEF Goes
  <2>. QED
    BY <1>1, <2>1, <2>2
<1>5. CASE (Loading \/ CheckUsers \/ ParseEnv) /\ UNCHANGED startVars
  <2>1. UNCHANGED <<job, id>>
    BY <1>5 DEF startVars, priv, opts
  <2>2. /\ pc \in BeforeGroups
        /\ pc' \in BeforeGroups \cup {"dead"}
    BY <1>5, LoadSteps DEF Goes, CheckUsers, ParseEnv, Dies
  <2>. QED
    BY <2>1, <2>2 DEF IdentityOk
<1>6. CASE SpawnExecutor
  BY <1>6 DEF SpawnExecutor, Step, IdentityOk
<1>7. CASE InitGroups
  <2>1. UNCHANGED Pseudo
    BY <1>7 DEF InitGroups, Pseudo, confVars, opts
  <2>. QED
    BY <1>7, <2>1 DEF InitGroups, Step, IdentityOk, Root, opts
<1>8. CASE SetRlimits
  <2>. UNCHANGED <<conf, job, id, target>> /\ pc = "rlimits" /\ pc' \in {"cloexec", "dead"}
    BY <1>8 DEF SetRlimits, Step, Dies, opts, confVars
  <2>. QED
    BY <1>1
<1>9. CASE ParentHalf \/ ChildIdentity
  <2>1. UNCHANGED Pseudo /\ UNCHANGED <<job, target>>
    BY <1>9 DEF ParentHalf, ChildIdentity, Pseudo, confVars, opts
  <2>2. CASE ParentHalf
    BY <2>1, <2>2 DEF ParentHalf, Step, IdentityOk, Root
  <2>3. CASE ChildIdentity
    BY <2>1, <2>3 DEF ChildIdentity, Step, IdentityOk, Root
  <2>. QED
    BY <1>9, <2>2, <2>3
<1>. QED
  BY <1>2, <1>3, <1>4, <1>5, <1>6, <1>7, <1>8, <1>9, NextSteps

-----------------------------------------------------------------------------
(***************************************************************************)
(* The namespaces.                                                         *)
(***************************************************************************)
LEMMA IsolationStep == ASSUME StartInv, [Next]_vars PROVE IsolationOk'
<1>. USE DEF StartInv, BeforeUnshare, BeforeMnt,
             BeforeNs, BeforeGroups, BeforePurge, BeforeEnv, BeforeSpawn, Configuring, Child,
             Within, Outside
<1>1. ASSUME UNCHANGED <<share, ns, kernel>>,
             x11' = x11 \/ pc' \in BeforeUnshare \cup {"dead"},
             Within(BeforeMnt), Within(BeforeUnshare), Within(BeforeUnshare \cup Child),
             Outside(BeforeNs), Outside(BeforeUnshare), Outside(Child)
      PROVE  IsolationOk'
  BY <1>1 DEF IsolationOk, Isolated, UnshareEarly
<1>2. CASE OnDescriptors
  <2>1. UNCHANGED <<share, ns, kernel>>
    BY <1>2, DescriptorSteps DEF Quiet, priv, place
  <2>2. /\ x11' = x11 \/ pc' \in BeforeUnshare \cup {"dead"}
        /\ Within(BeforeMnt) /\ Within(BeforeUnshare) /\ Within(BeforeUnshare \cup Child)
        /\ Outside(BeforeNs) /\ Outside(BeforeUnshare) /\ Outside(Child)
    BY <1>2, DescriptorSteps DEF Quiet, Goes
  <2>. QED
    BY <1>1, <2>1, <2>2
<1>3. CASE OnPlace \/ Purging \/ OnCpus
  <2>1. UNCHANGED <<share, ns, kernel, x11>>
    BY <1>3, PlaceSteps, PurgeSteps, CpuSteps DEF opts, jobVars, priv, place
  <2>2. /\ Within(BeforeMnt) /\ Within(BeforeUnshare) /\ Within(BeforeUnshare \cup Child)
        /\ Outside(BeforeNs) /\ Outside(BeforeUnshare) /\ Outside(Child)
    BY <1>3, PlaceSteps, PurgeSteps, CpuSteps DEF Goes
  <2>. QED
    BY <1>1, <2>1, <2>2
<1>4. CASE (Loading \/ CheckUsers) /\ UNCHANGED startVars
  <2>1. UNCHANGED <<ns, share>>
    BY <1>4, LoadSteps DEF startVars, priv, place, jobVars, CheckUsers
  <2>2. pc \in BeforeNs /\ pc' \in BeforeNs \cup {"dead"}
    BY <1>4, LoadSteps DEF Goes, CheckUsers, Dies
  <2>. QED
    BY <2>1, <2>2 DEF IsolationOk
<1>5. CASE ParseEnv /\ UNCHANGED startVars
  <2>1. UNCHANGED ns /\ pc = "env" /\ pc' \in {"killuid", "dead"}
    BY <1>5 DEF ParseEnv, Dies, startVars, priv, place
  <2>2. share' \in [Ns -> {-1, 0, 1}]
    BY <1>5 DEF ParseEnv, Str2Bool, IsolationOk, jobVars
  <2>. QED
    BY <2>1, <2>2 DEF IsolationOk
<1>6. CASE SpawnExecutor \/ InitGroups \/ SetRlimits \/ ParentHalf \/ ChildIdentity
  <2>1. UNCHANGED <<share, ns, kernel, x11>>
    BY <1>6 DEF SpawnExecutor, InitGroups, SetRlimits, ParentHalf, ChildIdentity, opts,
                jobVars, place
  <2>2. /\ Within(BeforeMnt) /\ Within(BeforeUnshare) /\ Within(BeforeUnshare \cup Child)
        /\ Outside(BeforeNs) /\ Outside(BeforeUnshare) /\ Outside(Child)
    BY <1>6 DEF SpawnExecutor, InitGroups, SetRlimits, ParentHalf, ChildIdentity, Step, Dies
  <2>. QED
    BY <1>1, <2>1, <2>2
<1>7. CASE EnterNs
  <2>1. UNCHANGED <<share, kernel, x11>> /\ pc = "ns compare" /\ pc' = "reopen"
    BY <1>7 DEF EnterNs, Step, opts, jobVars
  <2>2. DOMAIN ns' = Ns \cup {"mnt"}
    BY <1>7 DEF EnterNs, IsolationOk
  <2>3. \A n \in Ns : ns'[n] # "new"
    <3>. SUFFICES ASSUME NEW n \in Ns PROVE ns'[n] # "new"
      OBVIOUS
    <3>1. CASE \E p \in DOMAIN Procs : <<n, p>> \in enter_ns
      <4>1. ns'[n] = CHOOSE p \in DOMAIN Procs : <<n, p>> \in enter_ns
        BY <1>7, <3>1 DEF EnterNs, IsolationOk
      <4>. QED
        BY <3>1, <4>1
    <3>2. CASE ~ \E p \in DOMAIN Procs : <<n, p>> \in enter_ns
      BY <1>7, <2>1, <3>2 DEF EnterNs, IsolationOk
    <3>. QED
      BY <3>1, <3>2
  <2>. QED
    BY <2>1, <2>2, <2>3 DEF IsolationOk
<1>8. CASE Reopen
  <2>1. UNCHANGED <<share, kernel, x11>> /\ pc = "reopen" /\ pc' = "log"
    BY <1>8 DEF Reopen, Step, opts, jobVars
  <2>2. ns' = [ns EXCEPT !["mnt"] = "new"]
    BY <1>8 DEF Reopen
  <2>. QED
    BY <2>1, <2>2 DEF IsolationOk, Ns
<1>9. ASSUME NEW s \in SUBSET Ns, NEW can, ns' = DoUnshare(s, can),
             ~UnshareFatal(s, can), UNCHANGED share, kernel' = can
      PROVE  /\ DOMAIN ns' = DOMAIN ns /\ ns'["mnt"] = ns["mnt"]
             /\ \A n \in s : Isolated(n)'
             /\ \A n \in Ns \ s : ns'[n] = ns[n]
  <2>1. \A n \in Ns \cup {"mnt"} :
          ns'[n] = IF n \in s \cap can /\ share[n] <= 0 THEN "new" ELSE ns[n]
    BY <1>9 DEF DoUnshare, IsolationOk
  <2>2. DOMAIN ns' = DOMAIN ns
    BY <1>9 DEF DoUnshare
  <2>3. "mnt" \notin s
    BY <1>9 DEF Ns
  <2>4. ASSUME NEW n \in s PROVE Isolated(n)'
    <3>1. share[n] \in {-1, 0, 1} /\ (n \notin can => share[n] # 0)
      BY <1>9, <2>4 DEF IsolationOk, UnshareFatal
    <3>2. CASE n \in can /\ share[n] <= 0
      BY <1>9, <2>1, <2>4, <3>2 DEF Isolated
    <3>3. CASE ~(n \in can /\ share[n] <= 0)
      <4>1. share[n] = 1 \/ (share[n] = -1 /\ n \notin can)
        BY ONLY <3>1, <3>3
      <4>. QED
        BY <1>9, <4>1 DEF Isolated
    <3>. QED
      BY <3>2, <3>3
  <2>. QED
    BY <2>1, <2>2, <2>3, <2>4
<1>10. CASE UnshareIpcUtsNetwork
  <2>1. /\ UNCHANGED <<share, x11>> /\ pc = "unshare"
        /\ \/ pc' = "dead" /\ UNCHANGED ns
           \/ /\ pc' = "pty" /\ ns' = DoUnshare(UnshareEarly, kernel')
              /\ ~UnshareFatal(UnshareEarly, kernel')
    BY <1>10 DEF UnshareIpcUtsNetwork, Step, Dies, jobVars
  <2>2. CASE pc' = "dead" /\ UNCHANGED ns
    BY <2>1, <2>2 DEF IsolationOk
  <2>3. CASE pc' = "pty"
    <3>1. UnshareEarly \in SUBSET Ns /\ UNCHANGED UnshareEarly
      BY <2>1 DEF UnshareEarly
    <3>2. /\ DOMAIN ns' = DOMAIN ns /\ ns'["mnt"] = ns["mnt"]
          /\ \A n \in UnshareEarly : Isolated(n)'
          /\ \A n \in Ns \ UnshareEarly : ns'[n] = ns[n]
      BY <1>9, <2>1, <2>3, <3>1
    <3>3. x11 = "inet" => ns'["net"] # "new"
      BY <2>1, <3>2 DEF UnshareEarly, IsolationOk, Ns
    <3>4. ns["mnt"] = "new" /\ DOMAIN ns = Ns \cup {"mnt"} /\ share \in [Ns -> {-1, 0, 1}]
      BY <2>1 DEF IsolationOk
    <3>. QED
      BY <2>1, <2>3, <3>1, <3>2, <3>3, <3>4 DEF IsolationOk
  <2>. QED
    BY <2>1, <2>2, <2>3
<1>11. CASE ChildHalf
  <2>1. /\ UNCHANGED <<share, kernel, x11>> /\ pc = "halves"
        /\ \/ pc' = "dead" /\ UNCHANGED ns
           \/ /\ pc' = "identity" /\ ns' = DoUnshare(UnshareLate, kernel)
              /\ ~UnshareFatal(UnshareLate, kernel)
    BY <1>11 DEF ChildHalf, Step, Dies, opts, jobVars
  <2>2. CASE pc' = "dead" /\ UNCHANGED ns
    BY <2>1, <2>2 DEF IsolationOk
  <2>3. CASE pc' = "identity"
    <3>1. UnshareLate \in SUBSET Ns /\ Ns = UnshareEarly \cup UnshareLate
      BY DEF UnshareEarly, UnshareLate, Ns
    <3>2. /\ DOMAIN ns' = DOMAIN ns /\ ns'["mnt"] = ns["mnt"]
          /\ \A n \in UnshareLate : Isolated(n)'
          /\ \A n \in Ns \ UnshareLate : ns'[n] = ns[n]
      BY <1>9, <2>1, <2>3, <3>1
    <3>3. \A n \in UnshareEarly : Isolated(n)
      BY <2>1 DEF IsolationOk
    <3>4. \A n \in Ns : Isolated(n)'
      BY <2>1, <3>1, <3>2, <3>3 DEF Isolated
    <3>5. /\ ns["mnt"] = "new" /\ DOMAIN ns = Ns \cup {"mnt"}
          /\ share \in [Ns -> {-1, 0, 1}] /\ UnshareEarly' \subseteq Ns
      BY <2>1 DEF IsolationOk, UnshareEarly
    <3>. QED
      BY <2>1, <2>3, <3>2, <3>4, <3>5 DEF IsolationOk
  <2>. QED
    BY <2>1, <2>2, <2>3
<1>. QED
  BY <1>2, <1>3, <1>4, <1>5, <1>6, <1>7, <1>8, <1>10, <1>11, NextSteps DEF Isolating

-----------------------------------------------------------------------------
(***************************************************************************)
(* The process the client's pid leads to.                                   *)
(***************************************************************************)
LEMMA PlaceStep == ASSUME StartInv, [Next]_vars PROVE PlaceOk'
<1>. USE DEF StartInv
<1>1. ASSUME UNCHANGED <<atpid, proc, enter_ns, cgroup>>,
             Outside({"cgroup file", "ns compare", "ns open"}),
             Within({"ns compare", "ns open"}),
             \A n \in DOMAIN ns' : n \in DOMAIN ns /\ ns'[n] \in {ns[n], "new"}
      PROVE  PlaceOk'
  BY <1>1 DEF PlaceOk, Mine, Outside, Within
<1>2. CASE OnDescriptors
  <2>1. UNCHANGED <<atpid, proc, enter_ns, cgroup, ns>>
    BY <1>2, DescriptorSteps DEF Quiet, priv, place, proc_fd
  <2>2. Outside({"cgroup file", "ns compare", "ns open"}) /\ Within({"ns compare", "ns open"})
    BY <1>2, DescriptorSteps DEF Quiet, Goes, Outside, Within
  <2>. QED
    BY <1>1, <2>1, <2>2
<1>3. CASE Purging \/ OnCpus
  <2>1. UNCHANGED <<atpid, proc, enter_ns, cgroup, ns>>
    BY <1>3, PurgeSteps, CpuSteps DEF priv, place, proc_fd
  <2>2. Outside({"cgroup file", "ns compare", "ns open"}) /\ Within({"ns compare", "ns open"})
    BY <1>3, PurgeSteps, CpuSteps DEF Goes, Outside, Within
  <2>. QED
    BY <1>1, <2>1, <2>2
<1>4. CASE (Loading \/ CheckUsers \/ ParseEnv) /\ UNCHANGED startVars
  <2>1. UNCHANGED <<atpid, proc, enter_ns, cgroup, ns>>
    BY <1>4 DEF startVars, priv, place, proc_fd
  <2>2. Outside({"cgroup file", "ns compare", "ns open"}) /\ Within({"ns compare", "ns open"})
    BY <1>4, LoadSteps DEF Goes, CheckUsers, ParseEnv, Dies, Outside, Within
  <2>. QED
    BY <1>1, <2>1, <2>2
<1>5. CASE SpawnExecutor \/ InitGroups \/ SetRlimits \/ ParentHalf \/ ChildIdentity
  <2>1. UNCHANGED <<atpid, proc, enter_ns, cgroup, ns>>
    BY <1>5 DEF SpawnExecutor, InitGroups, SetRlimits, ParentHalf, ChildIdentity, place, proc_fd
  <2>2. Outside({"cgroup file", "ns compare", "ns open"}) /\ Within({"ns compare", "ns open"})
    BY <1>5 DEF SpawnExecutor, InitGroups, SetRlimits, ParentHalf, ChildIdentity, Step, Dies,
                Outside, Within
  <2>. QED
    BY <1>1, <2>1, <2>2
<1>6. CASE Reopen \/ UnshareIpcUtsNetwork \/ ChildHalf
  <2>1. UNCHANGED <<atpid, proc, enter_ns, cgroup>>
    BY <1>6 DEF Reopen, UnshareIpcUtsNetwork, ChildHalf, proc_fd
  <2>2. Outside({"cgroup file", "ns compare", "ns open"}) /\ Within({"ns compare", "ns open"})
    BY <1>6 DEF Reopen, UnshareIpcUtsNetwork, ChildHalf, Step, Dies, Outside, Within
  <2>3. \A n \in DOMAIN ns' : n \in DOMAIN ns /\ ns'[n] \in {ns[n], "new"}
    BY <1>6 DEF Reopen, UnshareIpcUtsNetwork, ChildHalf, DoUnshare, IsolationOk
  <2>. QED
    BY <1>1, <2>1, <2>2, <2>3
<1>7. CASE PidChanges
  <2>1. UNCHANGED <<pc, proc, enter_ns, cgroup, ns>> /\ atpid' \in DOMAIN Procs \cup {"none"}
    BY <1>7 DEF PidChanges
  <2>. QED
    BY <2>1 DEF PlaceOk
<1>8. CASE OpenCallerProc \/ OpenNsProc
  <2>1. /\ UNCHANGED <<atpid, enter_ns, cgroup, ns>> /\ pc \in {"accept", "ns"}
        /\ \/ pc' = "dead" /\ UNCHANGED proc
           \/ pc' \in {"cgroup owner", "ns owner"} /\ proc' = atpid /\ atpid # "none"
    BY <1>8 DEF OpenCallerProc, OpenNsProc, OpenProc, Die, Dies, startVars, priv, place, proc_fd
  <2>. QED
    BY <2>1 DEF PlaceOk
<1>9. CASE CheckCallerProc \/ CheckNsProc
  <2>1. /\ UNCHANGED <<atpid, proc, enter_ns, cgroup, ns>> /\ pc \in {"cgroup owner", "ns owner"}
        /\ \/ pc' = "dead"
           \/ /\ pc' \in {"cgroup file", "ns compare"}
              /\ Proc # "none" /\ Procs[Proc].owner = Caller.uid
    BY <1>9 DEF CheckCallerProc, CheckNsProc, CheckOwner, Die, Dies, startVars, priv, place,
                proc_fd
  <2>. QED
    BY <2>1 DEF PlaceOk, Proc, Mine
<1>10. CASE JoinCallerCgroup
  <2>1. CASE Proc = "none"
    BY <1>10, <2>1 DEF JoinCallerCgroup, Die, Dies, startVars, priv, place, proc_fd, PlaceOk
  <2>2. CASE Proc # "none"
    <3>1. Proc \in Mine
      BY <1>10, <2>2 DEF JoinCallerCgroup, Proc, PlaceOk
    <3>2. /\ UNCHANGED <<atpid, enter_ns, ns>> /\ pc = "cgroup file" /\ pc' = "executor"
          /\ proc' = "none" /\ cgroup' \in {Proc, "server"}
      BY <1>10, <2>2 DEF JoinCallerCgroup
    <3>. QED
      BY <3>1, <3>2 DEF PlaceOk
  <2>. QED
    BY <2>1, <2>2
<1>11. CASE CompareNs
  <2>1. /\ UNCHANGED <<atpid, proc, enter_ns, cgroup, ns>> /\ pc = "ns compare"
        /\ pc' \in {"ns open", "ns compare", "dead"}
    BY <1>11 DEF CompareNs, Die, Dies, startVars, priv, place, proc_fd
  <2>. QED
    BY <2>1 DEF PlaceOk
<1>12. CASE OpenNs
  <2>1. /\ UNCHANGED <<atpid, proc, cgroup, ns>> /\ pc = "ns open" /\ pc' = "ns compare"
    BY <1>12 DEF OpenNs, Step
  <2>2. \A e \in enter_ns' : e[2] = proc
    <3>1. PICK n : enter_ns' = enter_ns \/ enter_ns' = enter_ns \cup {<<n, proc>>}
      BY <1>12 DEF OpenNs, Proc
    <3>2. \A e \in enter_ns : e[2] = proc
      BY DEF PlaceOk
    <3>. QED
      BY ONLY <3>1, <3>2
  <2>. QED
    BY <2>1, <2>2 DEF PlaceOk
<1>13. CASE EnterNs
  <2>1. /\ UNCHANGED <<atpid, cgroup>> /\ pc = "ns compare" /\ pc' = "reopen"
        /\ proc' = "none" /\ enter_ns' = {} /\ DOMAIN ns' = DOMAIN ns
    BY <1>13 DEF EnterNs, Step
  <2>2. proc \in Mine
    BY <2>1 DEF PlaceOk
  <2>3. \A n \in DOMAIN ns : ns'[n] \in {"server", proc}
    <3>. SUFFICES ASSUME NEW n \in DOMAIN ns PROVE ns'[n] \in {"server", proc}
      OBVIOUS
    <3>1. CASE \E p \in DOMAIN Procs : <<n, p>> \in enter_ns
      <4>1. PICK q \in DOMAIN Procs : <<n, q>> \in enter_ns /\ ns'[n] = q
        BY <1>13, <3>1 DEF EnterNs
      <4>2. <<n, q>>[2] = proc
        BY <4>1 DEF PlaceOk
      <4>. QED
        BY <4>1, <4>2
    <3>2. CASE ~ \E p \in DOMAIN Procs : <<n, p>> \in enter_ns
      <4>1. ns[n] = "server"
        BY <2>1 DEF IsolationOk, BeforeNs
      <4>. QED
        BY <1>13, <3>2, <4>1 DEF EnterNs
    <3>. QED
      BY <3>1, <3>2
  <2>. QED
    BY <2>1, <2>2, <2>3 DEF PlaceOk, Mine
<1>. QED
  BY <1>2, <1>3, <1>4, <1>5, <1>6, <1>7, <1>8, <1>9, <1>10, <1>11, <1>12, <1>13, NextSteps
     DEF OnPlace, LookingAtCaller, LookingAtNs, Isolating
-----------------------------------------------------------------------------
(***************************************************************************)
(* The processors.                                                         *)
(***************************************************************************)
(* The ranks of the processors in a mask are the positions of the shuffle.   *)
LEMMA RankIsBijection ==
  ASSUME set = Cpus
  PROVE  [k \in set |-> Rank(k)] \in Bijection(set, 0..Cardinality(set) - 1)
<1>. DEFINE Below(k) == {l \in set : l < k}
            n == Cardinality(set)
            f == [k \in set |-> Rank(k)]
<1>1. n \in Nat /\ IsFiniteSet(set) /\ set \subseteq Nat
  BY FS_CardinalityType
<1>2. ASSUME NEW k
      PROVE  IsFiniteSet(Below(k)) /\ Rank(k) = Cardinality(Below(k)) /\ Rank(k) \in Nat
  BY <1>1, FS_Subset, FS_CardinalityType DEF Rank
<1>3. ASSUME NEW k \in set PROVE Rank(k) \in 0..n - 1
  <2>1. Below(k) \subseteq set \ {k}
    BY <1>1
  <2>2. IsFiniteSet(set \ {k}) /\ Cardinality(set \ {k}) = n - 1
    BY <1>1, FS_RemoveElement
  <2>3. Cardinality(Below(k)) <= n - 1
    BY <2>1, <2>2, FS_Subset
  <2>. QED
    BY <1>1, <1>2, <2>3
<1>4. ASSUME NEW k \in set, NEW m \in set, k < m PROVE Rank(k) < Rank(m)
  <2>1. Below(k) \cup {k} \subseteq Below(m)
    BY <1>1, <1>4
  <2>2. Cardinality(Below(k) \cup {k}) = Cardinality(Below(k)) + 1
    <3>1. k \notin Below(k)
      BY <1>1
    <3>. HIDE DEF Below
    <3>. QED
      BY <1>2, <3>1, FS_AddElement
  <2>3. Cardinality(Below(k) \cup {k}) <= Cardinality(Below(m))
    BY <1>2, <2>1, FS_Subset
  <2>. HIDE DEF Below
  <2>. QED
    BY <1>2, <2>2, <2>3
<1>5. f \in Injection(set, 0..n - 1)
  <2>1. f \in [set -> 0..n - 1]
    BY <1>3
  <2>2. ASSUME NEW k \in set, NEW m \in set, f[k] = f[m] PROVE k = m
    <3>1. Rank(k) = Rank(m)
      BY <2>2
    <3>2. Rank(k) \in Nat /\ k \in Nat /\ m \in Nat
      BY <1>1, <1>2
    <3>3. ~(k < m) /\ ~(m < k)
      BY <1>4, <3>1, <3>2
    <3>. QED
      BY <3>2, <3>3
  <2>. QED
    BY <2>1, <2>2, Fun_IsInj
<1>6. IsFiniteSet(0..n - 1) /\ Cardinality(0..n - 1) = n
  <2>. HIDE DEF n
  <2>1. /\ IsFiniteSet(0..n - 1)
        /\ Cardinality(0..n - 1) = IF 0 > n - 1 THEN 0 ELSE (n - 1) - 0 + 1
    BY <1>1, FS_Interval
  <2>. QED
    BY <1>1, <2>1
<1>7. f \in Surjection(set, 0..n - 1)
  BY <1>5, <1>6, FS_Injection
<1>. QED
  BY <1>5, <1>7 DEF Bijection

(* As many processors are kept as bits are set.                             *)
LEMMA KeptCount ==
  ASSUME set = Cpus, tmp \subseteq 0..Cardinality(set) - 1
  PROVE  Cardinality({k \in set : Rank(k) \in tmp}) = Cardinality(tmp)
<1>. DEFINE kp == {k \in set : Rank(k) \in tmp}
            f == [k \in set |-> Rank(k)]
            g == [k \in kp |-> Rank(k)]
            T == 0..Cardinality(set) - 1
<1>1. f \in Injection(set, T) /\ f \in Surjection(set, T)
  BY RankIsBijection, Fun_BijectionProperties
<1>2. g \in [kp -> tmp]
  OBVIOUS
<1>3. ASSUME NEW a \in kp, NEW b \in kp, g[a] = g[b] PROVE a = b
  <2>1. f[a] = f[b] /\ a \in set /\ b \in set
    BY <1>3
  <2>. HIDE DEF f, T
  <2>. QED
    BY <1>1, <2>1 DEF Injection, IsInjective
<1>4. ASSUME NEW t \in tmp PROVE \E a \in kp : g[a] = t
  <2>1. PICK a \in set : f[a] = t
    BY <1>1, <1>4 DEF Surjection
  <2>. QED
    BY <1>4, <2>1
<1>. HIDE DEF g
<1>5. g \in Bijection(kp, tmp)
  <2>1. g \in Injection(kp, tmp)
    BY <1>2, <1>3, Fun_IsInj
  <2>2. g \in Surjection(kp, tmp)
    BY <1>2, <1>4, Fun_IsSurj
  <2>. QED
    BY <2>1, <2>2 DEF Bijection
<1>6. IsFiniteSet(kp)
  BY FS_Subset
<1>. HIDE DEF kp
<1>. QED
  BY <1>5, <1>6, FS_Bijection DEF ExistsBijection, kp

(* Two bits that change places leave their number as it was.                *)
LEMMA SwapKeepsCount ==
  ASSUME NEW R, IsFiniteSet(R), NEW s \in SUBSET R, NEW x \in R, NEW y \in R
  PROVE  SwapBits(x, y, s) \subseteq R /\ Cardinality(SwapBits(x, y, s)) = Cardinality(s)
<1>1. IsFiniteSet(s) /\ Cardinality(s) \in Nat
  BY FS_Subset, FS_CardinalityType
<1>2. ASSUME NEW a \in s, NEW b, b \notin s
      PROVE  Cardinality((s \ {a}) \cup {b}) = Cardinality(s)
  <2>1. IsFiniteSet(s \ {a}) /\ Cardinality(s \ {a}) = Cardinality(s) - 1
    BY <1>1, FS_RemoveElement
  <2>2. Cardinality((s \ {a}) \cup {b}) = Cardinality(s \ {a}) + 1
    BY <1>2, <2>1, FS_AddElement
  <2>. QED
    BY <1>1, <2>1, <2>2
<1>3. CASE x \in s <=> y \in s
  <2>. SwapBits(x, y, s) = s
    BY <1>3 DEF SwapBits
  <2>. QED
    OBVIOUS
<1>4. CASE x \in s /\ y \notin s
  <2>. SwapBits(x, y, s) = (s \ {x}) \cup {y}
    BY <1>4 DEF SwapBits
  <2>. QED
    BY <1>2, <1>4
<1>5. CASE x \notin s /\ y \in s
  <2>. SwapBits(x, y, s) = (s \ {y}) \cup {x}
    BY <1>5 DEF SwapBits
  <2>. QED
    BY <1>2, <1>5
<1>. QED
  BY <1>3, <1>4, <1>5

LEMMA AffinityStep == ASSUME StartInv, [Next]_vars PROVE AffinityOk'
<1>. USE DEF StartInv, BeforeShuffle, BeforeIdentity, BeforeHalves, BeforeLimits, BeforeUnshare,
             BeforeMnt, BeforeNs, BeforeGroups, BeforePurge, BeforeEnv, BeforeSpawn,
             Configuring, Within, Outside
<1>1. ASSUME UNCHANGED cpu, conf' = conf \/ pc' \in Configuring \cup {"dead"},
             Outside(BeforeShuffle), Outside({"shuffle"}), Outside({"listen", "exec"})
      PROVE  AffinityOk'
  <2>1. UNCHANGED <<set, tmp, i>>
    BY <1>1 DEF cpu
  <2>2. CASE conf' = conf
    BY <1>1, <2>1, <2>2 DEF AffinityOk, nproc
  <2>3. CASE pc' \in Configuring \cup {"dead"}
    BY <1>1, <2>1, <2>3 DEF AffinityOk
  <2>. QED
    BY <1>1, <2>2, <2>3
<1>2. CASE OnDescriptors
  <2>1. UNCHANGED cpu /\ conf' = conf
    BY <1>2, DescriptorSteps DEF Quiet, confVars
  <2>2. Outside(BeforeShuffle) /\ Outside({"shuffle"}) /\ Outside({"listen", "exec"})
    BY <1>2, DescriptorSteps DEF Quiet, Goes
  <2>. QED
    BY <1>1, <2>1, <2>2
<1>3. CASE OnPlace \/ Purging \/ Isolating
  <2>1. UNCHANGED cpu /\ conf' = conf
    BY <1>3, PlaceSteps, PurgeSteps, IsolationSteps DEF confVars
  <2>2. Outside(BeforeShuffle) /\ Outside({"shuffle"}) /\ Outside({"listen", "exec"})
    BY <1>3, PlaceSteps, PurgeSteps, IsolationSteps DEF Goes
  <2>. QED
    BY <1>1, <2>1, <2>2
<1>4. CASE (Loading \/ CheckUsers \/ ParseEnv) /\ UNCHANGED startVars
  <2>1. UNCHANGED cpu
    BY <1>4 DEF startVars
  <2>2. conf' = conf \/ pc' \in Configuring \cup {"dead"}
    BY <1>4, LoadSteps DEF CheckUsers, ParseEnv, confVars, Goes
  <2>3. Outside(BeforeShuffle) /\ Outside({"shuffle"}) /\ Outside({"listen", "exec"})
    BY <1>4, LoadSteps DEF CheckUsers, ParseEnv, Dies, Goes
  <2>. QED
    BY <1>1, <2>1, <2>2, <2>3
<1>5. CASE SpawnExecutor \/ InitGroups \/ SetRlimits \/ ParentHalf \/ ChildIdentity
  <2>1. UNCHANGED cpu /\ conf' = conf
    BY <1>5 DEF SpawnExecutor, InitGroups, SetRlimits, ParentHalf, ChildIdentity, confVars
  <2>2. Outside(BeforeShuffle) /\ Outside({"shuffle"}) /\ Outside({"listen", "exec"})
    BY <1>5 DEF SpawnExecutor, InitGroups, SetRlimits, ParentHalf, ChildIdentity, Step, Dies
  <2>. QED
    BY <1>1, <2>1, <2>2
<1>6. nproc \in Nat /\ Cardinality(Cpus) \in Nat
  BY FS_CardinalityType DEF nproc, ConfOk
<1>7. CASE StartAffinity
  <2>1. UNCHANGED <<set, i, nproc>> /\ set = Cpus /\ i = 0
    BY <1>7 DEF StartAffinity, confVars, nproc, AffinityOk
  <2>2. CASE nproc = 0 \/ CpuCount <= nproc
    BY <1>7, <2>1, <2>2 DEF StartAffinity, AffinityOk, CpuCount
  <2>3. CASE ~(nproc = 0 \/ CpuCount <= nproc)
    <3>1. pc' = "shuffle" /\ tmp' = 0..nproc - 1
      BY <1>7, <2>3 DEF StartAffinity
    <3>2. Cardinality(0..nproc - 1) = nproc
      BY <1>6, FS_Interval
    <3>3. nproc # 0 /\ nproc < Cardinality(Cpus)
      BY <1>6, <2>1, <2>3 DEF CpuCount
    <3>. QED
      BY <1>6, <2>1, <3>1, <3>2, <3>3 DEF AffinityOk
  <2>. QED
    BY <2>2, <2>3
<1>8. CASE Shuffle
  <2>1. /\ UNCHANGED <<set, nproc>> /\ pc = "shuffle" /\ pc' = "shuffle"
        /\ i' = i + 1 /\ i < nproc
        /\ set = Cpus /\ nproc # 0 /\ nproc < Cardinality(Cpus) /\ i \in 0..nproc
        /\ tmp \subseteq 0..Cardinality(Cpus) - 1 /\ Cardinality(tmp) = nproc
    BY <1>8 DEF Shuffle, confVars, nproc, AffinityOk
  <2>2. PICK r \in 0..Cardinality(Cpus) - 1 : tmp' = SwapBits(i, r, tmp)
    BY <1>8, <2>1 DEF Shuffle, CpuCount
  <2>3. i \in 0..Cardinality(Cpus) - 1 /\ i' \in 0..nproc
    BY <1>6, <2>1
  <2>4. IsFiniteSet(0..Cardinality(Cpus) - 1)
    BY <1>6, FS_Interval
  <2>5. tmp' \subseteq 0..Cardinality(Cpus) - 1 /\ Cardinality(tmp') = nproc
    <3>. DEFINE R == 0..Cardinality(Cpus) - 1
    <3>1. /\ IsFiniteSet(R) /\ tmp \in SUBSET R /\ i \in R /\ r \in R
          /\ tmp' = SwapBits(i, r, tmp) /\ Cardinality(tmp) = nproc
      BY <2>1, <2>2, <2>3, <2>4
    <3>. HIDE DEF R
    <3>2. \A s \in SUBSET R, x \in R, y \in R :
            SwapBits(x, y, s) \subseteq R /\ Cardinality(SwapBits(x, y, s)) = Cardinality(s)
      BY ONLY <3>1, SwapKeepsCount, Zenon
    <3>3. tmp' \subseteq R /\ Cardinality(tmp') = nproc
      BY ONLY <3>1, <3>2
    <3>. QED
      BY <3>3 DEF R
  <2>. QED
    BY <2>1, <2>3, <2>5 DEF AffinityOk
<1>9. CASE SetAffinity
  <2>1. /\ UNCHANGED nproc /\ pc = "shuffle" /\ pc' = "listen" /\ set = Cpus
        /\ set' = {k \in set : Rank(k) \in tmp}
        /\ nproc # 0 /\ nproc < Cardinality(Cpus)
        /\ tmp \subseteq 0..Cardinality(Cpus) - 1 /\ Cardinality(tmp) = nproc
    BY <1>9 DEF SetAffinity, Step, confVars, nproc, AffinityOk
  <2>2. Cardinality(set') = nproc /\ set' \subseteq Cpus
    BY <2>1, KeptCount
  <2>3. ~(nproc = 0 \/ Cardinality(Cpus) <= nproc)
    BY <1>6, <2>1
  <2>. QED
    BY <2>1, <2>2, <2>3 DEF AffinityOk
<1>. QED
  BY <1>2, <1>3, <1>4, <1>5, <1>7, <1>8, <1>9, NextSteps DEF OnCpus

-----------------------------------------------------------------------------
LEMMA InitStart == Init => StartInv
<1>. SUFFICES ASSUME Init PROVE StartInv
  OBVIOUS
<1>1. conf = [o \in Options |-> IF o \in Users THEN NoName
                                ELSE IF o \in {"hard", "soft"} THEN -1 ELSE 0]
  BY DEF Init, ConfigInit
<1>2. pc = "system" /\ pc \in Configuring
  BY DEF Init, ConfigInit, Configuring
<1>3. ConfOk
  BY <1>1, <1>2 DEF ConfOk, Options, Users
<1>4. LimitsOk /\ LeftOk
  BY <1>2 DEF Init, ConfigInit, LimitsOk, LeftOk, BeforeLimits, BeforeUnshare, BeforeMnt,
              BeforeNs, BeforeGroups, BeforePurge, BeforeEnv, BeforeSpawn
<1>5. IdentityOk
  BY <1>2 DEF Init, ConfigInit, IdentityOk, Users, BeforeGroups, BeforePurge, BeforeEnv, BeforeSpawn,
              Configuring, Child
<1>6. IsolationOk
  BY <1>2 DEF Init, ConfigInit, IsolationOk, BeforeUnshare, BeforeMnt, BeforeNs, BeforeGroups,
              BeforePurge, BeforeEnv, BeforeSpawn, Configuring, Child, Ns
<1>7. PlaceOk
  BY <1>2 DEF Init, PlaceOk, Mine, Configuring
<1>8. AffinityOk
  BY <1>2 DEF Init, AffinityOk, Configuring
<1>. QED
  BY <1>2, <1>3, <1>4, <1>5, <1>6, <1>7, <1>8
     DEF StartInv, Stages, BeforeShuffle, BeforeIdentity, BeforeHalves, BeforeLimits,
         BeforeUnshare, BeforeMnt, BeforeNs, BeforeGroups, BeforePurge, BeforeEnv, BeforeSpawn

(* The invariant holds at every step of every job: the handler's            *)
(* configuration, the executor's and the child's way to execve.             *)
THEOREM StartIsInvariant == Spec => []StartInv
<1>1. StartInv /\ [Next]_vars => StartInv'
  <2>. SUFFICES ASSUME StartInv, [Next]_vars PROVE StartInv'
    OBVIOUS
  <2>. QED
    BY StagesStep, ConfStep, LimitsStep, LeftStep, IdentityStep, IsolationStep, PlaceStep,
       AffinityStep DEF StartInv
<1>. QED
  BY InitStart, <1>1, PTL DEF Spec

(* The environment of a job never loosens the work limit of its session, and *)
(* the resource limits of the configuration are in force, in both halves     *)
(* (modify_wlim, set_rlimits): for every width of unsigned long, every       *)
(* inherited limit and every file.                                          *)
THEOREM LimitsAreKept == Spec => []LimitsHold
<1>1. StartInv => LimitsHold
  BY DEF StartInv, LimitsOk, LimitsHold, Configuring, BeforeLimits, BeforeUnshare, BeforeMnt,
         BeforeNs, BeforeGroups, BeforePurge, BeforeEnv, BeforeSpawn
<1>. QED
  BY StartIsInvariant, <1>1, PTL

(* The kill and both passes of purge_ipc after it leave no live process of   *)
(* an earlier job and none of its objects that they can read in the          *)
(* namespace of the server, whatever that job still did until it was killed  *)
(* (killuid.c, ipc.c); Survivors names what does stay.                       *)
THEOREM NothingIsLeft == Spec => []FreshStart
<1>1. StartInv => FreshStart
  BY DEF StartInv, LeftOk, FreshStart, BeforePurge, BeforeEnv, BeforeSpawn, Configuring
<1>. QED
  BY StartIsInvariant, <1>1, PTL

(* The payload runs with the ids check_user has accepted, and the parent     *)
(* half with those of the caller, for every password database.              *)
THEOREM PayloadIsPseudoUser == Spec => []PayloadIdentity
<1>1. StartInv => PayloadIdentity
  <2>. SUFFICES ASSUME StartInv PROVE PayloadIdentity
    OBVIOUS
  <2>. USE DEF StartInv
  <2>1. ASSUME pc = "exec"
        PROVE  /\ id.uid = Pseudo.uid /\ id.gid = Pseudo.gid /\ id.groups \subseteq Pseudo.groups
               /\ CheckUser(conf[job]) /\ OfNumber(job)
    BY <2>1 DEF IdentityOk, ConfOk, Configuring, Child
  <2>2. pc = "loop" => id = [uid |-> Caller.uid, gid |-> Caller.gid, groups |-> {}]
    BY DEF IdentityOk
  <2>. QED
    BY <2>1, <2>2 DEF PayloadIdentity, CheckUser, Pseudo, OfNumber
<1>. QED
  BY StartIsInvariant, <1>1, PTL

(* No payload runs in a namespace of the server or of the client that it was *)
(* not told to share and the kernel can isolate, X11 over the network        *)
(* included (unshare.c, chrootuid.c).                                       *)
THEOREM PayloadIsIsolated == Spec => []PayloadIsolated
<1>1. StartInv => PayloadIsolated
  BY DEF StartInv, IsolationOk, Isolated, PayloadIsolated, Child, BeforeUnshare, BeforeMnt,
         BeforeNs, BeforeGroups, BeforePurge, BeforeEnv, BeforeSpawn, Configuring
<1>. QED
  BY StartIsInvariant, <1>1, PTL

(* However often the pid of the client changes hands while it is looked up,  *)
(* the cgroup of a job is that of a process of its caller and its namespaces *)
(* are of one such process, or the server's own (procfd.c, cgroup.c, ns.c).  *)
THEOREM JobStaysWithCaller == Spec => []StaysWithCaller
<1>1. StartInv => StaysWithCaller
  BY DEF StartInv, PlaceOk, Mine, StaysWithCaller
<1>. QED
  BY StartIsInvariant, <1>1, PTL

(* set_affinity_nproc keeps exactly as many processors as it was told, for   *)
(* every mask, every nproc and every outcome of random().                   *)
THEOREM ProcessorsAreCounted == Spec => []AffinityIsExact
<1>1. StartInv => AffinityIsExact
  <2>. SUFFICES ASSUME StartInv, pc = "exec" PROVE AffinityIsExact
    BY DEF AffinityIsExact
  <2>. QED
    BY DEF StartInv, AffinityOk, AffinityIsExact
<1>. QED
  BY StartIsInvariant, <1>1, PTL

(***************************************************************************)
(* The descriptors of a job.  Until the pipes are made the table is known    *)
(* number by number, whatever the order in which the client sent its        *)
(* descriptors: sanitize_fds has brought them into one.  From then on the    *)
(* table is filled without a gap, so that a new descriptor gets the number   *)
(* behind the last one, and every variable of the executor names the only    *)
(* number of its object.                                                    *)
(***************************************************************************)
Standard(t) == t[0] = "in" /\ t[1] = "out" /\ t[2] = "err"
Compact(o) ==
  [n \in Fd |-> CASE n = 0 -> "in" [] n = 1 -> "out" [] n = 2 -> "err" [] n = 3 -> o
                  [] OTHER -> "none"]
Rooted == [Compact("root") EXCEPT ![4] = "cwd"]

(* The number n, if there is one, is that of o, which has no other.          *)
Holds(t, n, o) ==
  IF n = -1 THEN \A k \in Fd : t[k] # o
  ELSE n \in 3..MaxFd /\ \A k \in Fd : t[k] = o <=> k = n
Without(t, objs) == \A k \in Fd : t[k] \notin objs
Filled(t, bound) == \E m \in 2..bound : Open(t) = 0..m

InheritedOk ==
  /\ pc \in BeforeSpawn \cup {"std", "sanitize"} => log_fd = -1
  /\ pc \in {"std", "sanitize"} =>
       /\ table = [n \in Fd |-> table[n]]
       /\ chroot_fd \in 4..7 /\ table[chroot_fd] = "root"
  /\ pc = "std" =>
       /\ \A n \in 0..2 : std_fds[n] \in 4..7 \ {chroot_fd}
       /\ \A n, k \in 0..2 : std_fds[n] = std_fds[k] => n = k
       /\ table[std_fds[0]] = "in" /\ table[std_fds[1]] = "out" /\ table[std_fds[2]] = "err"
  /\ pc = "sanitize" => Standard(table)

Chrooting == {"env", "killuid", "purge", "purge swapped", "groups", "ns", "ns owner",
              "ns compare", "ns open", "reopen"}
CompactOk ==
  /\ pc \in Chrooting => table = Compact("root") /\ chroot_fd = 3 /\ log_fd = -1
  /\ pc = "log" => table = Rooted /\ chroot_fd = 4 /\ log_fd = -1
  /\ pc = "close" =>
       /\ chroot_fd = 4
       /\ \/ log_fd = -1 /\ table = Rooted
          \/ log_fd = 5 /\ table = [Rooted EXCEPT ![5] = "log"]
  /\ pc = "again" =>
       /\ chroot_fd = -1
       /\ \/ log_fd = -1 /\ table = Compact("root")
          \/ log_fd = 5 /\ table = [Compact("root") EXCEPT ![5] = "log"]
  /\ pc = "pipes" => \/ log_fd = -1 /\ table = Compact("none")
                     \/ log_fd = 3 /\ table = Compact("log")

X11Ends == {"x11dir", "ctl0", "ctl1"}
FirstPty == {"master", "slave"}
SecondPty == {"master2", "slave2"}
Joint == {"x11", "unshare", "pty", "pty2", "rlimits", "cloexec", "fork", "halves"}
WithPty == {"rlimits", "cloexec", "fork", "halves"}

PtyHeld(m, s, objs) ==
  /\ master # -1 /\ Holds(table, master, m)
  /\ slave # -1 /\ Holds(table, slave, s)
  /\ Without(table, objs)
PipesHeld(t, out, err) ==
  /\ Holds(t, out[1], "outr") /\ Holds(t, out[2], "outw")
  /\ Holds(t, err[1], "errr") /\ Holds(t, err[2], "errw")
  /\ ~use_pty => -1 \notin {out[1], out[2], err[1], err[2]}

\* The part of it that the pty and the X11 socket do not disturb.
JointTable(t) ==
  /\ t \in [Fd -> Objects] /\ Standard(t)
  /\ Without(t, Session \cup {"root", "cwd", "x11"})
  /\ Holds(t, log_fd, "log") /\ PipesHeld(t, pipe_out, pipe_err)
FilledOk ==
  /\ pc \in Joint => JointTable(table) /\ Open(table) \subseteq 0..14
  /\ pc = "x11" => Filled(table, 7) /\ Without(table, X11Ends \cup FirstPty \cup SecondPty)
  /\ pc \in {"unshare", "pty"} => Filled(table, 10) /\ Without(table, FirstPty \cup SecondPty)
  /\ pc = "pty2" =>
       /\ Filled(table, 12) /\ Without(table, SecondPty)
       /\ Holds(table, master, "master") /\ Holds(table, slave, "slave")
       /\ master = -1 <=> slave = -1
  /\ pc \in Joint \ {"x11"} =>
       /\ Holds(table, ctl[1], "ctl0") /\ Holds(table, ctl[2], "ctl1")
       /\ x11 # "none" => ctl[1] # -1
  /\ pc \in WithPty => \/ PtyHeld("master", "slave", SecondPty)
                       \/ PtyHeld("master2", "slave2", FirstPty)
  /\ pc \in {"fork", "halves"} => cloexec = Open(table) \ 0..2

(* After the fork.                                                          *)
ChildTable ==
  /\ table \in [Fd -> Objects] /\ Open(table) \subseteq 0..14 /\ Without(table, {"x11"})
PayloadOk ==
  /\ pc \in Child => ChildTable
  /\ pc \in {"identity", "connect"} =>
       /\ Standard(table)
       /\ cloexec \cap 0..2 = {} /\ Open(table) \subseteq cloexec \cup 0..2
       /\ use_pty => slave \in 3..MaxFd /\ table[slave] \in {"slave", "slave2"}
       /\ ~use_pty => /\ pipe_out[2] \in 3..MaxFd /\ table[pipe_out[2]] = "outw"
                      /\ pipe_err[2] \in 3..MaxFd /\ table[pipe_err[2]] = "errw"
  /\ pc \in {"cpus", "shuffle", "listen", "exec"} => HasItsStreams
  /\ ParentHoldsItsEnds

StreamsInv == InheritedOk /\ CompactOk /\ FilledOk /\ PayloadOk

(***************************************************************************)
(* System calls on a table: a new descriptor behind the last one, and        *)
(* descriptors that are closed.                                             *)
(***************************************************************************)
LEMMA LowestIsNext ==
  ASSUME NEW t, NEW m \in 2..14, Open(t) = 0..m
  PROVE  Lowest(t) = m + 1
<1>. DEFINE Free == Fd \ Open(t)
            First(n) == n \in Free /\ \A k \in Free : n <= k
<1>1. m \in 2..14 /\ Free = 0..15 \ 0..m
  BY DEF Fd, MaxFd
<1>. HIDE DEF Free
<1>2. First(m + 1)
  <2>1. m + 1 \in Free
    BY ONLY <1>1
  <2>2. ASSUME NEW k \in Free PROVE m + 1 <= k
    BY ONLY <1>1, k \in Free
  <2>. QED
    BY <2>1, <2>2
<1>3. \A n : First(n) => n = m + 1
  <2>1. ASSUME NEW n \in Free, n <= m + 1 PROVE n = m + 1
    BY ONLY <1>1, n \in Free, n <= m + 1
  <2>. QED
    BY <1>2, <2>1
<1>4. Lowest(t) = CHOOSE n \in Free : \A k \in Free : n <= k
  BY DEF Lowest, Free
<1>. HIDE DEF First
<1>5. (CHOOSE n : First(n)) = m + 1
  BY <1>2, <1>3
<1>. QED
  BY <1>4, <1>5 DEF First

LEMMA HeldAt ==
  ASSUME NEW t, NEW n, NEW o, Holds(t, n, o)
  PROVE  At(t, o) = n
<1>1. CASE n = -1
  BY <1>1 DEF Holds, At
<1>2. CASE n # -1
  <2>1. n \in Fd /\ \A k \in Fd : t[k] = o <=> k = n
    BY <1>2 DEF Holds, Fd, MaxFd
  <2>. QED
    BY <2>1 DEF At
<1>. QED
  BY <1>1, <1>2

(* What a call that returns a new descriptor does to a table u was t.        *)
Grows(t, u, o, b) ==
  /\ u \in [Fd -> Objects] /\ Filled(u, b + 1)
  /\ At(u, o) \in 3..b + 1 /\ Holds(u, At(u, o), o)
  /\ t[At(u, o)] = "none" /\ u = [t EXCEPT ![At(u, o)] = o]
  /\ \A k \in Open(t) : k < At(u, o)

LEMMA PutGrows ==
  ASSUME NEW t \in [Fd -> Objects], NEW b \in 2..14, Filled(t, b),
         NEW o \in Objects, o # "none", Holds(t, -1, o)
  PROVE  Grows(t, Put(t, o), o, b)
<1>1. PICK m \in 2..b : Open(t) = 0..m
  BY DEF Filled
<1>2. m \in 2..14 /\ m + 1 \in Fd /\ m + 1 \in 3..b + 1 /\ b + 1 \in 3..15
  BY DEF Fd, MaxFd
<1>. DEFINE n == m + 1
            u == Put(t, o)
<1>3. u = [t EXCEPT ![n] = o]
  BY <1>1, <1>2, LowestIsNext DEF Put
<1>. HIDE DEF u
<1>4. \A k \in Fd : t[k] # o
  BY DEF Holds
<1>5. t[n] = "none"
  BY <1>1, <1>2 DEF Open
<1>. HIDE DEF n
<1>6. n \in Fd /\ n \in 3..b + 1
  BY <1>2 DEF n
<1>7. u \in [Fd -> Objects] /\ u[n] = o /\ \A k \in Fd : k # n => u[k] = t[k]
  BY <1>3, <1>6
<1>8. Holds(u, n, o)
  BY <1>4, <1>6, <1>7 DEF Holds, Fd, MaxFd
<1>9. At(u, o) = n
  BY <1>8, HeldAt
<1>10. Open(u) = Open(t) \cup {n}
  BY <1>5, <1>6, <1>7 DEF Open
<1>11. Open(u) = 0..n
  BY <1>1, <1>2, <1>10 DEF n
<1>12. Filled(u, b + 1)
  BY <1>2, <1>6, <1>11 DEF Filled
<1>13. \A k \in Open(t) : k < n
  BY <1>1, <1>2 DEF n
<1>. QED
  BY <1>3, <1>5, <1>6, <1>7, <1>8, <1>9, <1>12, <1>13 DEF Grows, u

(* What a new descriptor leaves as it was.                                  *)
LEMMA GrowsKeeps ==
  ASSUME NEW t \in [Fd -> Objects], NEW u, NEW b \in 2..14, NEW o, Grows(t, u, o, b)
  PROVE  /\ \A k \in Fd : u[k] = t[k] \/ u[k] = o
         /\ Standard(t) => Standard(u)
         /\ \A n, p : p \notin {o, "none"} /\ Holds(t, n, p) => Holds(u, n, p)
<1>. DEFINE a == At(u, o)
<1>1. a \in 3..15 /\ a \in Fd /\ t[a] = "none" /\ u = [t EXCEPT ![a] = o]
  BY DEF Grows, Fd, MaxFd
<1>. HIDE DEF a
<1>2. u[a] = o /\ \A k \in Fd : k # a => u[k] = t[k]
  BY <1>1
<1>3. Standard(t) => Standard(u)
  BY <1>1, <1>2 DEF Standard, Fd, MaxFd
<1>4. ASSUME NEW n, NEW p, p \notin {o, "none"}, Holds(t, n, p)
      PROVE  Holds(u, n, p)
  <2>1. \A k \in Fd : u[k] = p <=> t[k] = p
    BY <1>1, <1>2, <1>4
  <2>. QED
    BY <1>4, <2>1 DEF Holds
<1>. QED
  BY <1>2, <1>3, <1>4

LEMMA CloseKeeps ==
  ASSUME NEW t \in [Fd -> Objects], NEW nums
  PROVE  /\ CloseAll(t, nums) \in [Fd -> Objects]
         /\ \A k \in Fd : CloseAll(t, nums)[k] = IF k \in nums THEN "none" ELSE t[k]
         /\ Open(CloseAll(t, nums)) = Open(t) \ nums
         /\ nums \cap 0..2 = {} /\ Standard(t) => Standard(CloseAll(t, nums))
         /\ \A n, p : p # "none" /\ n \notin nums /\ Holds(t, n, p) =>
              Holds(CloseAll(t, nums), n, p)
<1>. DEFINE u == CloseAll(t, nums)
<1>1. u \in [Fd -> Objects] /\ \A k \in Fd : u[k] = IF k \in nums THEN "none" ELSE t[k]
  BY DEF CloseAll, Objects
<1>. HIDE DEF u
<1>2. Open(u) = Open(t) \ nums
  BY <1>1 DEF Open
<1>3. nums \cap 0..2 = {} /\ Standard(t) => Standard(u)
  BY <1>1 DEF Standard, Fd, MaxFd
<1>4. ASSUME NEW n, NEW p, p # "none", n \notin nums, Holds(t, n, p)
      PROVE  Holds(u, n, p)
  <2>1. CASE n = -1
    BY <1>1, <1>4, <2>1 DEF Holds
  <2>2. CASE n # -1
    BY <1>1, <1>4, <2>2 DEF Holds
  <2>. QED
    BY <2>1, <2>2
<1>. QED
  BY <1>1, <1>2, <1>3, <1>4 DEF u

(***************************************************************************)
(* The steps up to the second sanitize_fds, where the table is known.       *)
(***************************************************************************)
Known == {"log", "close", "again", "pipes"} \cup Chrooting
LEMMA OutsideStages ==
  /\ pc' \notin BeforeSpawn \cup {"std", "sanitize"} => InheritedOk'
  /\ pc' \notin Known => CompactOk'
  /\ pc' \notin Joint => FilledOk'
  /\ pc' \notin Child \cup {"loop"} => PayloadOk'
<1>1. pc' \notin BeforeSpawn \cup {"std", "sanitize"} => InheritedOk'
  BY DEF InheritedOk
<1>2. pc' \notin Known => CompactOk'
  BY Zenon DEF CompactOk, Known
<1>3. pc' \notin Joint => FilledOk'
  BY Zenon DEF FilledOk, WithPty, Joint
<1>4. pc' \notin Child \cup {"loop"} => PayloadOk'
  BY Zenon DEF PayloadOk, ParentHoldsItsEnds, Child
<1>. QED
  BY <1>1, <1>2, <1>3, <1>4

\* The stages have no member in common.
LEMMA StagesDiffer ==
  /\ "dead" \notin BeforeSpawn \cup {"std", "sanitize"} \cup Known \cup Joint \cup Child \cup {"loop"}
  /\ \A p \in BeforeSpawn \cup {"std", "sanitize"} : p \notin Known \cup Joint \cup Child \cup {"loop"}
  /\ \A p \in Known : p \notin BeforeSpawn \cup {"std", "sanitize"} \cup Joint \cup Child \cup {"loop"}
  /\ \A p \in Joint : p \notin BeforeSpawn \cup {"std", "sanitize"} \cup Known \cup Child \cup {"loop"}
  /\ \A p \in Child \cup {"loop"} : p \notin BeforeSpawn \cup {"std", "sanitize"} \cup Known \cup Joint
  BY DEF BeforeSpawn, Configuring, Known, Chrooting, Joint, Child

LEMMA InInherited ==
  ASSUME pc' \in BeforeSpawn \cup {"std", "sanitize"}, InheritedOk'
  PROVE  StreamsInv'
BY OutsideStages, StagesDiffer DEF StreamsInv
LEMMA InKnown ==
  ASSUME pc' \in Known, CompactOk'
  PROVE  StreamsInv'
BY OutsideStages, StagesDiffer DEF StreamsInv
LEMMA InJoint ==
  ASSUME pc' \in Joint, FilledOk'
  PROVE  StreamsInv'
BY OutsideStages, StagesDiffer DEF StreamsInv
LEMMA InHalves ==
  ASSUME pc' \in Child \cup {"loop"}, PayloadOk'
  PROVE  StreamsInv'
BY OutsideStages, StagesDiffer DEF StreamsInv
LEMMA InDead ==
  ASSUME pc' = "dead"
  PROVE  StreamsInv'
BY OutsideStages, StagesDiffer DEF StreamsInv

LEMMA SpawnStep ==
  ASSUME StreamsInv, SpawnExecutor
  PROVE  StreamsInv'
<1>1. PICK at \in Orders :
        /\ table' = [n \in Fd |-> CASE n <= 2 -> "journal"
                                   [] n = 3 -> "conn"
                                   [] n \in 4..7 -> CHOOSE o \in Sent : at[o] = n
                                   [] n = 8 -> "pipe"
                                   [] OTHER -> "none"]
        /\ std_fds' = [n \in 0..2 |-> at[IF n = 0 THEN "in" ELSE
                                         IF n = 1 THEN "out" ELSE "err"]]
        /\ chroot_fd' = at["root"]
  BY DEF SpawnExecutor
<1>2. at \in [Sent -> 4..7] /\ \A a, b \in Sent : at[a] = at[b] => a = b
  BY OrdersAssumption
<1>3. pc' = "std" /\ log_fd' = -1
  BY DEF SpawnExecutor, Step, StreamsInv, InheritedOk, BeforeSpawn
<1>4. ASSUME NEW o \in Sent PROVE at[o] \in 4..7 /\ table'[at[o]] = o
  <2>1. at[o] \in 4..7 /\ at[o] \in Fd
    BY <1>2 DEF Fd, MaxFd
  <2>2. (CHOOSE p \in Sent : at[p] = at[o]) = o
    BY <1>2
  <2>. QED
    BY <1>1, <2>1, <2>2
<1>5. /\ std_fds'[0] = at["in"] /\ std_fds'[1] = at["out"] /\ std_fds'[2] = at["err"]
  BY <1>1
<1>6. {"in", "out", "err", "root"} = Sent
  BY DEF Sent
<1>7. /\ at["in"] \in 4..7 /\ at["out"] \in 4..7 /\ at["err"] \in 4..7 /\ at["root"] \in 4..7
      /\ at["in"] # at["out"] /\ at["in"] # at["err"] /\ at["out"] # at["err"]
      /\ at["root"] \notin {at["in"], at["out"], at["err"]}
  BY <1>2, <1>6
<1>8. /\ \A n \in 0..2 : std_fds'[n] \in 4..7 \ {chroot_fd'}
      /\ \A n, k \in 0..2 : std_fds'[n] = std_fds'[k] => n = k
  <2>1. 0..2 = {0, 1, 2}
    OBVIOUS
  <2>. QED
    BY <1>1, <1>5, <1>7, <2>1
<1>9. /\ table'[std_fds'[0]] = "in" /\ table'[std_fds'[1]] = "out"
      /\ table'[std_fds'[2]] = "err" /\ table'[chroot_fd'] = "root"
  BY <1>1, <1>4, <1>5, <1>6
<1>10. table' = [n \in Fd |-> table'[n]] /\ chroot_fd' \in 4..7
  BY <1>1, <1>7
<1>11. InheritedOk'
  BY <1>3, <1>8, <1>9, <1>10 DEF InheritedOk
<1>. QED
  BY <1>3, <1>11, InInherited

(* One descriptor moved to a standard number, which no other one needs.      *)
LEMMA MoveOne ==
  ASSUME NEW t, t = [n \in Fd |-> t[n]], NEW from \in 4..7, NEW to \in 0..2
  PROVE  /\ MoveFd(t, from, to) = [n \in Fd |-> MoveFd(t, from, to)[n]]
         /\ MoveFd(t, from, to)[to] = t[from]
         /\ \A k \in Fd : k \notin {from, to} => MoveFd(t, from, to)[k] = t[k]
<1>1. from \in Fd /\ to \in Fd /\ from # to /\ ~(from < 0)
  BY DEF Fd, MaxFd
<1>2. MoveFd(t, from, to) = [n \in Fd |-> IF n = from THEN "none" ELSE [t EXCEPT ![to] = t[from]][n]]
  BY <1>1 DEF MoveFd, CloseAll, Dup2
<1>3. DOMAIN t = Fd
  OBVIOUS
<1>. QED
  BY <1>1, <1>2, <1>3

LEMMA ResetStep ==
  ASSUME StreamsInv, ResetStd
  PROVE  StreamsInv'
<1>1. pc = "std" /\ pc' = "sanitize" /\ UNCHANGED kept
      /\ table' = MoveFd(MoveFd(MoveFd(table, std_fds[0], 0), std_fds[1], 1), std_fds[2], 2)
  BY DEF ResetStd, Step
<1>2. InheritedOk
  BY DEF StreamsInv
<1>. DEFINE t1 == MoveFd(table, std_fds[0], 0)
            t2 == MoveFd(t1, std_fds[1], 1)
            t3 == MoveFd(t2, std_fds[2], 2)
<1>3. /\ table = [n \in Fd |-> table[n]] /\ chroot_fd \in 4..7 /\ table[chroot_fd] = "root"
      /\ log_fd = -1
      /\ std_fds[0] \in 4..7 /\ std_fds[1] \in 4..7 /\ std_fds[2] \in 4..7
      /\ std_fds[0] # std_fds[1] /\ std_fds[0] # std_fds[2] /\ std_fds[1] # std_fds[2]
      /\ chroot_fd \notin {std_fds[0], std_fds[1], std_fds[2]}
      /\ table[std_fds[0]] = "in" /\ table[std_fds[1]] = "out" /\ table[std_fds[2]] = "err"
  <2>1. 0 \in 0..2 /\ 1 \in 0..2 /\ 2 \in 0..2
    OBVIOUS
  <2>. QED
    BY <1>1, <1>2, <2>1 DEF InheritedOk
<1>4. 0..2 = {0, 1, 2} /\ 0 \in Fd /\ 1 \in Fd /\ 2 \in Fd /\ 4..7 \subseteq Fd /\ \A n \in 4..7 : n \notin {0, 1, 2}
  BY DEF Fd, MaxFd
<1>5. /\ t1 = [n \in Fd |-> t1[n]] /\ t1[0] = "in"
      /\ \A k \in Fd : k \notin {std_fds[0], 0} => t1[k] = table[k]
  BY <1>3, <1>4, MoveOne
<1>. HIDE DEF t1
<1>6. /\ t2 = [n \in Fd |-> t2[n]] /\ t2[1] = "out"
      /\ \A k \in Fd : k \notin {std_fds[1], 1} => t2[k] = t1[k]
  <2>1. t1[std_fds[1]] = "out"
    BY <1>3, <1>4, <1>5
  <2>. QED
    BY <1>3, <1>4, <1>5, <2>1, MoveOne
<1>. HIDE DEF t2
<1>7. /\ t3 = [n \in Fd |-> t3[n]] /\ t3[2] = "err"
      /\ \A k \in Fd : k \notin {std_fds[2], 2} => t3[k] = t2[k]
  <2>1. t2[std_fds[2]] = "err"
    BY <1>3, <1>4, <1>5, <1>6
  <2>. QED
    BY <1>3, <1>4, <1>6, <2>1, MoveOne
<1>8. Standard(t3) /\ t3[chroot_fd] = "root"
  BY <1>3, <1>4, <1>5, <1>6, <1>7 DEF Standard
<1>. HIDE DEF t3
<1>9. table' = t3
  BY <1>1 DEF t1, t2, t3
<1>10. InheritedOk'
  BY <1>1, <1>3, <1>7, <1>8, <1>9 DEF InheritedOk, kept
<1>. QED
  BY <1>1, <1>10, InInherited

(* reorder_fds with one descriptor to keep, and with none.                   *)
LEMMA ReorderedOne ==
  ASSUME NEW c \in 4..7, \/ log_fd = -1 /\ chroot_fd = c
                         \/ log_fd = c /\ chroot_fd = -1
  PROVE  /\ Reordered.t = CloseFrom(Dup2(table, c, 3), 4)
         /\ Reordered.log = (IF log_fd = -1 THEN -1 ELSE 3)
         /\ Reordered.chroot = (IF log_fd = -1 THEN 3 ELSE -1)
<1>. DEFINE one == ReorderFd([t |-> table, start |-> 3, fd |-> -1])
            two == ReorderFd([t |-> table, start |-> 3, fd |-> c])
<1>1. one = [t |-> table, start |-> 3, fd |-> -1]
  BY DEF ReorderFd
<1>2. two = [t |-> Dup2(table, c, 3), start |-> 4, fd |-> 3]
  BY DEF ReorderFd
<1>3. CASE log_fd = -1 /\ chroot_fd = c
  <2>1. Reordered = [t |-> CloseFrom(two.t, two.start), log |-> one.fd, chroot |-> two.fd]
    BY <1>1, <1>3 DEF Reordered
  <2>. QED
    BY <1>1, <1>2, <1>3, <2>1
<1>4. CASE log_fd = c /\ chroot_fd = -1
  <2>1. Reordered = [t |-> CloseFrom(two.t, two.start), log |-> two.fd, chroot |-> one.fd]
    BY <1>1, <1>4 DEF Reordered
  <2>. QED
    BY <1>1, <1>2, <1>4, <2>1
<1>. QED
  BY <1>3, <1>4

LEMMA ReorderedNone ==
  ASSUME log_fd = -1, chroot_fd = -1
  PROVE  Reordered.t = CloseFrom(table, 3) /\ Reordered.log = -1 /\ Reordered.chroot = -1
<1>1. ReorderFd([t |-> table, start |-> 3, fd |-> -1]) = [t |-> table, start |-> 3, fd |-> -1]
  BY DEF ReorderFd
<1>. QED
  BY <1>1 DEF Reordered

LEMMA CompactFacts ==
  ASSUME NEW o
  PROVE  /\ Compact(o) = [n \in Fd |-> Compact(o)[n]]
         /\ Standard(Compact(o)) /\ Compact(o)[3] = o
         /\ \A n \in Fd : n > 3 => Compact(o)[n] = "none"
  BY DEF Compact, Standard, Fd, MaxFd

(* What is kept then follows the standard descriptors, and nothing else is   *)
(* open.                                                                    *)
LEMMA CompactTable ==
  ASSUME NEW t, t = [n \in Fd |-> t[n]], Standard(t)
  PROVE  /\ CloseFrom(t, 3) = Compact("none")
         /\ \A c \in 4..7 : CloseFrom(Dup2(t, c, 3), 4) = Compact(t[c])
<1>1. \A n \in Fd : n \in 0..15
  BY DEF Fd, MaxFd
<1>2. \A n \in Fd : n < 3 => n \in {0, 1, 2}
  BY <1>1
<1>3. CloseFrom(t, 3) = [n \in Fd |-> IF n >= 3 THEN "none" ELSE t[n]]
  BY DEF CloseFrom, CloseAll
<1>4. ASSUME NEW n \in Fd
      PROVE  (IF n >= 3 THEN "none" ELSE t[n]) = Compact("none")[n]
  BY <1>1, <1>2 DEF Compact, Standard
<1>5. CloseFrom(t, 3) = Compact("none")
  BY <1>3, <1>4 DEF Compact
<1>6. ASSUME NEW c \in 4..7
      PROVE  CloseFrom(Dup2(t, c, 3), 4) = Compact(t[c])
  <2>. DEFINE u == Dup2(t, c, 3)
  <2>1. DOMAIN t = Fd
    OBVIOUS
  <2>2. \A n \in Fd : u[n] = IF n = 3 THEN t[c] ELSE t[n]
    BY <2>1 DEF Dup2
  <2>. HIDE DEF u
  <2>3. CloseFrom(u, 4) = [n \in Fd |-> IF n >= 4 THEN "none" ELSE u[n]]
    BY DEF CloseFrom, CloseAll
  <2>4. ASSUME NEW n \in Fd
        PROVE  (IF n >= 4 THEN "none" ELSE u[n]) = Compact(t[c])[n]
    <3>1. /\ Standard(Compact(t[c])) /\ Compact(t[c])[3] = t[c]
          /\ n > 3 => Compact(t[c])[n] = "none"
      BY CompactFacts
    <3>2. n \in {0, 1, 2} \/ n = 3 \/ (n > 3 /\ n >= 4)
      BY <1>1, <1>2
    <3>3. CASE n \in {0, 1, 2}
      BY <2>2, <3>1, <3>3 DEF Standard
    <3>4. CASE n = 3
      BY <2>2, <3>1, <3>4
    <3>. QED
      BY <3>1, <3>2, <3>3, <3>4
  <2>5. CloseFrom(u, 4) = Compact(t[c])
    BY <2>3, <2>4 DEF Compact
  <2>. QED
    BY <2>5 DEF u
<1>. QED
  BY <1>5, <1>6

LEMMA SanitizeStep ==
  ASSUME StreamsInv, Sanitize
  PROVE  StreamsInv'
<1>1. pc = "sanitize" /\ SanitizeFds("env") /\ InheritedOk
  BY DEF Sanitize, StreamsInv
<1>2. /\ table = [n \in Fd |-> table[n]] /\ log_fd = -1 /\ Standard(table)
      /\ chroot_fd \in 4..7 /\ table[chroot_fd] = "root"
  BY <1>1 DEF InheritedOk
<1>3. ~ \E n \in 0..2 : table[n] = "none"
  <2>1. 0..2 = {0, 1, 2}
    OBVIOUS
  <2>. QED
    BY <1>2, <2>1 DEF Standard
<1>4. /\ table' = Reordered.t /\ log_fd' = Reordered.log /\ chroot_fd' = Reordered.chroot
      /\ pc' = "env"
  BY <1>1, <1>3 DEF SanitizeFds
<1>5. table' = Compact("root") /\ log_fd' = -1 /\ chroot_fd' = 3
  BY <1>2, <1>4, ReorderedOne, CompactTable
<1>6. CompactOk' /\ pc' \in Known
  BY <1>4, <1>5 DEF CompactOk, Known, Chrooting
<1>. QED
  BY <1>6, InKnown

(* The lowest free number, where the open ones are known.                   *)
LEMMA LowestIs ==
  ASSUME NEW t, NEW m \in 2..14, Open(t) = 0..m, NEW o
  PROVE  Put(t, o) = [t EXCEPT ![m + 1] = o] /\ Lowest(t) = m + 1
  BY LowestIsNext DEF Put

LEMMA OpenCompact ==
  /\ Open(Compact("none")) = 0..2
  /\ \A o : o # "none" => Open(Compact(o)) = 0..3
  /\ Open(Rooted) = 0..4
<1>1. \A o, n : n \in Open(Compact(o)) <=> n \in 0..2 \/ (n = 3 /\ o # "none")
  BY DEF Open, Compact, Fd, MaxFd
<1>2. Open(Compact("none")) = 0..2
  BY <1>1
<1>3. \A o : o # "none" => Open(Compact(o)) = 0..3
  BY <1>1
<1>4. Open(Rooted) = Open(Compact("root")) \cup {4}
  <2>1. 4 \in Fd
    BY DEF Fd, MaxFd
  <2>2. \A n \in Fd : Rooted[n] = IF n = 4 THEN "cwd" ELSE Compact("root")[n]
    <3>1. Compact("root") = [n \in Fd |-> Compact("root")[n]]
      BY CompactFacts
    <3>. QED
      BY <3>1 DEF Rooted
  <2>. QED
    BY <2>1, <2>2 DEF Open
<1>. QED
  BY <1>2, <1>3, <1>4

LEMMA ReopenStep ==
  ASSUME StreamsInv, Reopen
  PROVE  StreamsInv'
<1>1. pc = "reopen" /\ pc' = "log" /\ log_fd' = log_fd /\ CompactOk
      /\ chroot_fd' = Lowest(table) /\ table' = Put(table, "cwd")
  BY DEF Reopen, Step, StreamsInv
<1>2. table = Compact("root") /\ log_fd = -1
  BY <1>1 DEF CompactOk, Chrooting
<1>3. Open(table) = 0..3
  BY <1>2, OpenCompact
<1>4. chroot_fd' = 4 /\ table' = Rooted
  BY <1>1, <1>2, <1>3, LowestIs DEF Rooted
<1>5. CompactOk' /\ pc' \in Known
  BY <1>1, <1>2, <1>4 DEF CompactOk, Known, Chrooting
<1>. QED
  BY <1>5, InKnown

LEMMA LogStep ==
  ASSUME StreamsInv, LogListen
  PROVE  StreamsInv'
<1>1. /\ pc = "log" /\ pc' = "close" /\ chroot_fd' = chroot_fd /\ CompactOk
      /\ \/ log_fd' = Lowest(table) /\ table' = Put(table, "log")
         \/ log_fd' = -1 /\ table' = table
  BY DEF LogListen, Step, StreamsInv
<1>2. table = Rooted /\ chroot_fd = 4 /\ log_fd = -1
  BY <1>1 DEF CompactOk, Chrooting
<1>3. Open(table) = 0..4
  BY <1>2, OpenCompact
<1>4. \/ log_fd' = 5 /\ table' = [Rooted EXCEPT ![5] = "log"]
      \/ log_fd' = -1 /\ table' = Rooted
  BY <1>1, <1>2, <1>3, LowestIs
<1>5. CompactOk' /\ pc' \in Known
  BY <1>1, <1>2, <1>4 DEF CompactOk, Known, Chrooting
<1>. QED
  BY <1>5, InKnown

LEMMA CloseChrootStep ==
  ASSUME StreamsInv, CloseChroot
  PROVE  StreamsInv'
<1>1. /\ pc = "close" /\ pc' = "again" /\ log_fd' = log_fd /\ CompactOk
      /\ table' = CloseAll(table, {chroot_fd}) /\ chroot_fd' = -1
  BY DEF CloseChroot, Step, StreamsInv
<1>2. /\ chroot_fd = 4
      /\ \/ log_fd = -1 /\ table = Rooted
         \/ log_fd = 5 /\ table = [Rooted EXCEPT ![5] = "log"]
  BY <1>1 DEF CompactOk, Chrooting
<1>3. 4 \in Fd /\ 5 \in Fd /\ DOMAIN Compact("root") = Fd /\ Compact("root")[4] = "none"
  BY DEF Fd, MaxFd, Compact
<1>4. CloseAll(Rooted, {4}) = Compact("root")
  <2>1. \A n \in Fd : (IF n \in {4} THEN "none" ELSE Rooted[n]) = Compact("root")[n]
    BY <1>3 DEF Rooted
  <2>. QED
    BY <2>1 DEF CloseAll, Compact
<1>5. CloseAll([Rooted EXCEPT ![5] = "log"], {4}) = [Compact("root") EXCEPT ![5] = "log"]
  <2>1. \A n \in Fd : (IF n \in {4} THEN "none" ELSE [Rooted EXCEPT ![5] = "log"][n])
                        = [Compact("root") EXCEPT ![5] = "log"][n]
    BY <1>3 DEF Rooted
  <2>2. [Compact("root") EXCEPT ![5] = "log"]
          = [n \in Fd |-> [Compact("root") EXCEPT ![5] = "log"][n]]
    BY <1>3
  <2>. QED
    BY <2>1, <2>2 DEF CloseAll
<1>6. CompactOk' /\ pc' \in Known
  BY <1>1, <1>2, <1>4, <1>5 DEF CompactOk, Known, Chrooting
<1>. QED
  BY <1>6, InKnown

LEMMA SanitizeAgainStep ==
  ASSUME StreamsInv, SanitizeAgain
  PROVE  StreamsInv'
<1>1. pc = "again" /\ SanitizeFds("pipes") /\ CompactOk
  BY DEF SanitizeAgain, StreamsInv
<1>2. /\ chroot_fd = -1
      /\ \/ log_fd = -1 /\ table = Compact("root")
         \/ log_fd = 5 /\ table = [Compact("root") EXCEPT ![5] = "log"]
  BY <1>1 DEF CompactOk, Chrooting
<1>3. /\ table = [n \in Fd |-> table[n]] /\ Standard(table)
      /\ log_fd = 5 => table[5] = "log"
  <2>1. 0 \in Fd /\ 1 \in Fd /\ 2 \in Fd /\ 5 \in Fd /\ DOMAIN Compact("root") = Fd
    BY DEF Fd, MaxFd, Compact
  <2>. QED
    BY <1>2, <2>1, CompactFacts DEF Standard
<1>4. ~ \E n \in 0..2 : table[n] = "none"
  <2>1. 0..2 = {0, 1, 2}
    OBVIOUS
  <2>. QED
    BY <1>3, <2>1 DEF Standard
<1>5. /\ table' = Reordered.t /\ log_fd' = Reordered.log /\ pc' = "pipes"
  BY <1>1, <1>4 DEF SanitizeFds
<1>6. \/ log_fd' = -1 /\ table' = Compact("none")
      \/ log_fd' = 3 /\ table' = Compact("log")
  <2>1. CASE log_fd = -1
    BY <1>2, <1>3, <1>5, <2>1, ReorderedNone, CompactTable
  <2>2. CASE log_fd = 5
    BY <1>2, <1>3, <1>5, <2>2, ReorderedOne, CompactTable
  <2>. QED
    BY <1>2, <2>1, <2>2
<1>7. CompactOk' /\ pc' \in Known
  BY <1>5, <1>6 DEF CompactOk, Known, Chrooting
<1>. QED
  BY <1>7, InKnown

(***************************************************************************)
(* Two new descriptors, as socketpair, pipe and open_pty return them.        *)
(***************************************************************************)
PairAdded(t, u, a, c, b) ==
  /\ u \in [Fd -> Objects] /\ Filled(u, b + 2) /\ (Standard(t) => Standard(u))
  /\ At(u, a) \in 3..MaxFd /\ Holds(u, At(u, a), a)
  /\ At(u, c) \in 3..MaxFd /\ Holds(u, At(u, c), c)
  /\ \A k \in Open(t) : k < At(u, a)
  /\ \A n, p : p \notin {a, c, "none"} /\ Holds(t, n, p) => Holds(u, n, p)
  /\ \A k \in Fd : u[k] \in {t[k], a, c}

LEMMA PutPair ==
  ASSUME NEW t \in [Fd -> Objects], NEW b \in 2..13, Filled(t, b),
         NEW a \in Objects, NEW c \in Objects, a # "none", c # "none", a # c,
         Holds(t, -1, a), Holds(t, -1, c)
  PROVE  PairAdded(t, Put(Put(t, a), c), a, c, b)
<1>. DEFINE s == Put(t, a)
            u == Put(s, c)
<1>1. b \in 2..14 /\ b + 1 \in 2..14 /\ b + 1 + 1 = b + 2 /\ b + 1 <= 15 /\ b + 2 <= 15
  OBVIOUS
<1>2. Grows(t, s, a, b)
  BY <1>1, PutGrows
<1>. HIDE DEF s
<1>3. /\ \A k \in Fd : s[k] = t[k] \/ s[k] = a
      /\ Standard(t) => Standard(s)
      /\ \A n, p : p \notin {a, "none"} /\ Holds(t, n, p) => Holds(s, n, p)
  BY <1>1, <1>2, GrowsKeeps
<1>4. s \in [Fd -> Objects] /\ Filled(s, b + 1) /\ Holds(s, -1, c)
  BY <1>2, <1>3 DEF Grows
<1>5. Grows(s, u, c, b + 1)
  BY <1>1, <1>4, PutGrows
<1>. HIDE DEF u
<1>6. /\ \A k \in Fd : u[k] = s[k] \/ u[k] = c
      /\ Standard(s) => Standard(u)
      /\ \A n, p : p \notin {c, "none"} /\ Holds(s, n, p) => Holds(u, n, p)
  BY <1>1, <1>4, <1>5, GrowsKeeps
<1>7. At(s, a) \in 3..b + 1 /\ Holds(s, At(s, a), a) /\ \A k \in Open(t) : k < At(s, a)
  BY <1>2 DEF Grows
<1>8. Holds(u, At(s, a), a)
  BY <1>6, <1>7
<1>9. At(u, a) = At(s, a)
  BY <1>8, HeldAt
<1>10. u \in [Fd -> Objects] /\ Filled(u, b + 1 + 1) /\ At(u, c) \in 3..b + 1 + 1
       /\ Holds(u, At(u, c), c)
  BY <1>5 DEF Grows
<1>11. At(u, a) \in 3..MaxFd /\ At(u, c) \in 3..MaxFd
  BY <1>1, <1>7, <1>9, <1>10 DEF MaxFd
<1>12. Filled(u, b + 2)
  BY <1>1, <1>10
<1>13. \A k \in Fd : u[k] \in {t[k], a, c}
  BY <1>3, <1>6
<1>14. \A n, p : p \notin {a, c, "none"} /\ Holds(t, n, p) => Holds(u, n, p)
  BY <1>3, <1>6
<1>15. PairAdded(t, u, a, c, b)
  BY <1>3, <1>6, <1>7, <1>8, <1>9, <1>10, <1>11, <1>12, <1>13, <1>14 DEF PairAdded
<1>. QED
  BY <1>15 DEF u, s

LEMMA Bounds ==
  ASSUME NEW t, NEW b \in 2..14, NEW d \in b..14, Filled(t, b)
  PROVE  Filled(t, d) /\ Open(t) \subseteq 0..14
<1>1. PICK m \in 2..b : Open(t) = 0..m
  BY DEF Filled
<1>2. m \in 2..d /\ 0..m \subseteq 0..14
  OBVIOUS
<1>. QED
  BY <1>1, <1>2 DEF Filled

LEMMA CompactIsFilled ==
  ASSUME NEW o \in {"none", "log"}
  PROVE  /\ Compact(o) \in [Fd -> Objects] /\ Filled(Compact(o), 3) /\ Standard(Compact(o))
         /\ \A k \in Fd : Compact(o)[k] \in {"in", "out", "err", "none", o}
         /\ Holds(Compact(o), IF o = "none" THEN -1 ELSE 3, "log")
<1>1. Compact(o) \in [Fd -> Objects] /\ \A k \in Fd : Compact(o)[k] \in {"in", "out", "err", "none", o}
  BY DEF Compact, Objects, Sent
<1>2. Filled(Compact(o), 3)
  <2>1. Open(Compact(o)) = 0..2 \/ Open(Compact(o)) = 0..3
    BY OpenCompact
  <2>2. 2 \in 2..3 /\ 3 \in 2..3
    OBVIOUS
  <2>. QED
    BY <2>1, <2>2 DEF Filled
<1>3. Holds(Compact(o), IF o = "none" THEN -1 ELSE 3, "log")
  BY DEF Holds, Compact, Fd, MaxFd
<1>. QED
  BY <1>1, <1>2, <1>3, CompactFacts

LEMMA PipesStep ==
  ASSUME StreamsInv, MakePipes
  PROVE  StreamsInv'
<1>. DEFINE t1 == Put(Put(table, "outr"), "outw")
            t2 == Put(Put(t1, "errr"), "errw")
            t == IF use_pty THEN table ELSE t2
            Free == X11Ends \cup FirstPty \cup SecondPty \cup Session \cup {"root", "cwd", "x11"}
<1>1. /\ pc = "pipes" /\ pc' = "x11" /\ UNCHANGED <<kept, use_pty>> /\ CompactOk
      /\ table' = t
      /\ pipe_out' = Pair(t, "outr", "outw") /\ pipe_err' = Pair(t, "errr", "errw")
  BY DEF MakePipes, Step, StreamsInv, other, jobVars
<1>2. PICK o \in {"none", "log"} : table = Compact(o) /\ log_fd = IF o = "none" THEN -1 ELSE 3
  BY <1>1 DEF CompactOk, Chrooting
<1>3. /\ table \in [Fd -> Objects] /\ Filled(table, 3) /\ Standard(table)
      /\ \A k \in Fd : table[k] \in {"in", "out", "err", "none", "log"}
      /\ Holds(table, log_fd, "log")
  BY <1>2, CompactIsFilled
<1>4. /\ Holds(table, -1, "outr") /\ Holds(table, -1, "outw")
      /\ Holds(table, -1, "errr") /\ Holds(table, -1, "errw")
      /\ Without(table, Free)
  BY <1>3 DEF Holds, Without, X11Ends, FirstPty, SecondPty, Session
<1>5. {"outr", "outw", "errr", "errw"} \cap (Free \cup {"none", "log"}) = {}
      /\ {"outr", "outw", "errr", "errw"} \subseteq Objects
  BY DEF X11Ends, FirstPty, SecondPty, Session, Objects, PayloadEnds
<1>. HIDE DEF Free, t1
<1>6. PairAdded(table, t1, "outr", "outw", 3)
  BY <1>3, <1>4, <1>5, PutPair DEF t1
<1>7. /\ t1 \in [Fd -> Objects] /\ Filled(t1, 5) /\ Standard(t1)
      /\ Holds(t1, -1, "errr") /\ Holds(t1, -1, "errw") /\ Holds(t1, log_fd, "log")
      /\ At(t1, "outr") \in 3..MaxFd /\ Holds(t1, At(t1, "outr"), "outr")
      /\ At(t1, "outw") \in 3..MaxFd /\ Holds(t1, At(t1, "outw"), "outw")
      /\ Without(t1, Free)
  <2>1. 3 + 2 = 5
    OBVIOUS
  <2>2. Without(t1, Free)
    BY <1>4, <1>5, <1>6 DEF PairAdded, Without
  <2>. QED
    BY <1>3, <1>4, <1>6, <2>1, <2>2 DEF PairAdded
<1>. HIDE DEF t2
<1>8. PairAdded(t1, t2, "errr", "errw", 5)
  BY <1>5, <1>7, PutPair DEF t2
<1>9. /\ t2 \in [Fd -> Objects] /\ Filled(t2, 7) /\ Standard(t2)
      /\ Holds(t2, log_fd, "log")
      /\ Holds(t2, At(t1, "outr"), "outr") /\ Holds(t2, At(t1, "outw"), "outw")
      /\ At(t2, "errr") \in 3..MaxFd /\ Holds(t2, At(t2, "errr"), "errr")
      /\ At(t2, "errw") \in 3..MaxFd /\ Holds(t2, At(t2, "errw"), "errw")
      /\ Without(t2, Free)
  <2>1. 5 + 2 = 7
    OBVIOUS
  <2>2. Without(t2, Free)
    BY <1>5, <1>7, <1>8 DEF PairAdded, Without
  <2>. QED
    BY <1>7, <1>8, <2>1, <2>2 DEF PairAdded
<1>10. At(t2, "outr") = At(t1, "outr") /\ At(t2, "outw") = At(t1, "outw")
  BY <1>9, HeldAt
<1>11. /\ t \in [Fd -> Objects] /\ Filled(t, 7) /\ Standard(t) /\ Without(t, Free)
       /\ Holds(t, log_fd, "log")
  BY <1>3, <1>4, <1>9, Bounds
<1>12. PipesHeld(t, Pair(t, "outr", "outw"), Pair(t, "errr", "errw"))
  <2>1. CASE use_pty
    <3>1. At(t, "outr") = -1 /\ At(t, "outw") = -1 /\ At(t, "errr") = -1 /\ At(t, "errw") = -1
      BY <1>4, <2>1, HeldAt
    <3>. QED
      BY <1>4, <2>1, <3>1 DEF PipesHeld, Pair
  <2>2. CASE ~use_pty
    <3>1. \A n \in 3..MaxFd : n # -1
      BY DEF MaxFd
    <3>. QED
      BY <1>7, <1>9, <1>10, <2>2, <3>1 DEF PipesHeld, Pair
  <2>. QED
    BY <2>1, <2>2
<1>13. Open(t) \subseteq 0..14
  BY <1>11, Bounds
<1>14. Without(t, Session \cup {"root", "cwd", "x11"})
       /\ Without(t, X11Ends \cup FirstPty \cup SecondPty)
  BY <1>11 DEF Without, Free
<1>. HIDE DEF t
<1>15. FilledOk'
  BY <1>1, <1>11, <1>12, <1>13, <1>14 DEF FilledOk, JointTable, Joint, WithPty, PipesHeld, kept
<1>16. pc' \in Joint
  BY <1>1 DEF Joint
<1>. QED
  BY <1>15, <1>16, InJoint

(***************************************************************************)
(* The X11 socket pair and the ptys.                                        *)
(***************************************************************************)
Added == X11Ends \cup FirstPty \cup SecondPty

LEMMA AddedApart ==
  /\ Added \subseteq Objects
  /\ Added \cap (Session \cup {"root", "cwd", "x11", "log", "outr", "outw", "errr", "errw", "none"}) = {}
  /\ X11Ends \cap (FirstPty \cup SecondPty) = {} /\ FirstPty \cap SecondPty = {}
BY DEF Added, X11Ends, FirstPty, SecondPty, Objects, Session, PayloadEnds

\* What two more descriptors leave as it was.
LEMMA JointGrows ==
  ASSUME NEW t, NEW u, NEW b, NEW a \in Added, NEW c \in Added,
         JointTable(t), PairAdded(t, u, a, c, b)
  PROVE  JointTable(u)
<1>1. /\ u \in [Fd -> Objects] /\ Standard(u)
      /\ \A n, p : p \notin {a, c, "none"} /\ Holds(t, n, p) => Holds(u, n, p)
      /\ \A k \in Fd : u[k] \in {t[k], a, c}
  BY DEF PairAdded, JointTable
<1>2. Without(u, Session \cup {"root", "cwd", "x11"})
  BY <1>1, AddedApart DEF JointTable, Without
<1>3. \A p \in {"log", "outr", "outw", "errr", "errw"} : p \notin {a, c, "none"}
  BY AddedApart
<1>4. Holds(u, log_fd, "log") /\ PipesHeld(u, pipe_out, pipe_err)
  BY <1>1, <1>3 DEF JointTable, PipesHeld
<1>. QED
  BY <1>1, <1>2, <1>4 DEF JointTable

LEMMA X11Step ==
  ASSUME StreamsInv, PrepareX11
  PROVE  StreamsInv'
<1>1. pc = "x11" /\ pc' = "unshare"
      /\ UNCHANGED <<kept, pipe_out, pipe_err, use_pty>>
  BY DEF PrepareX11, Step
<1>2. JointTable(table) /\ Filled(table, 7) /\ Without(table, Added)
  BY <1>1 DEF StreamsInv, FilledOk, Joint, Added
<1>. DEFINE d == IF x11 = "unix" THEN Put(table, "x11dir") ELSE table
            t == Put(Put(d, "ctl0"), "ctl1")
<1>3. PICK ok \in X11Prepared :
        /\ table' = (IF ok THEN t ELSE table)
        /\ ctl' = Pair(table', "ctl0", "ctl1")
        /\ x11' = IF ok THEN x11 ELSE "none"
  BY DEF PrepareX11
<1>4. /\ JointTable(d) /\ Filled(d, 8) /\ Without(d, Added \ {"x11dir"})
  <2>1. CASE x11 # "unix"
    <3>1. Filled(table, 8)
      BY <1>2, Bounds
    <3>. QED
      BY <1>2, <2>1, <3>1 DEF Without
  <2>2. CASE x11 = "unix"
    <3>1. Holds(table, -1, "x11dir") /\ "x11dir" \in Objects
          /\ "x11dir" \notin {"none", "log", "outr", "outw", "errr", "errw"}
          /\ "x11dir" \notin Session \cup {"root", "cwd", "x11"}
      BY <1>2 DEF Holds, Without, Added, X11Ends, Objects, Session
    <3>2. Grows(table, d, "x11dir", 7)
      BY <1>2, <2>2, <3>1, PutGrows DEF JointTable
    <3>. HIDE DEF d
    <3>3. /\ \A k \in Fd : d[k] = table[k] \/ d[k] = "x11dir"
          /\ Standard(d)
          /\ \A n, p : p \notin {"x11dir", "none"} /\ Holds(table, n, p) => Holds(d, n, p)
      BY <1>2, <3>2, GrowsKeeps DEF JointTable
    <3>4. d \in [Fd -> Objects] /\ Filled(d, 8)
      <4>1. 7 + 1 = 8
        OBVIOUS
      <4>. QED
        BY <3>2, <4>1 DEF Grows
    <3>5. Without(d, Session \cup {"root", "cwd", "x11"}) /\ Without(d, Added \ {"x11dir"})
      BY <1>2, <3>1, <3>3 DEF JointTable, Without
    <3>6. Holds(d, log_fd, "log") /\ PipesHeld(d, pipe_out, pipe_err)
      BY <1>2, <3>1, <3>3 DEF JointTable, PipesHeld
    <3>. QED
      BY <3>3, <3>4, <3>5, <3>6 DEF JointTable
  <2>. QED
    BY <2>1, <2>2
<1>5. Holds(d, -1, "ctl0") /\ Holds(d, -1, "ctl1") /\ d \in [Fd -> Objects]
  BY <1>4 DEF Without, Holds, Added, X11Ends, JointTable
<1>6. {"ctl0", "ctl1"} \subseteq Added /\ "ctl0" # "none" /\ "ctl1" # "none"
      /\ "ctl0" \in Objects /\ "ctl1" \in Objects
  BY AddedApart DEF Added, X11Ends
<1>. HIDE DEF d
<1>7. PairAdded(d, t, "ctl0", "ctl1", 8)
  BY <1>4, <1>5, <1>6, PutPair
<1>. HIDE DEF t
<1>8. JointTable(t)
  BY <1>4, <1>6, <1>7, JointGrows
<1>9. Filled(t, 10) /\ Without(t, FirstPty \cup SecondPty)
  <2>1. 8 + 2 = 10
    OBVIOUS
  <2>2. {"ctl0", "ctl1", "x11dir"} \cap (FirstPty \cup SecondPty) = {}
        /\ FirstPty \cup SecondPty \subseteq Added
    BY DEF FirstPty, SecondPty, Added
  <2>. QED
    BY <1>4, <1>7, <2>1, <2>2 DEF PairAdded, Without
<1>10. /\ JointTable(table') /\ Filled(table', 10) /\ Without(table', FirstPty \cup SecondPty)
       /\ Holds(table', ctl'[1], "ctl0") /\ Holds(table', ctl'[2], "ctl1")
       /\ x11' # "none" => ctl'[1] # -1
  <2>1. CASE ok
    <3>1. \A n \in 3..MaxFd : n # -1
      BY DEF MaxFd
    <3>. QED
      BY <1>3, <1>7, <1>8, <1>9, <2>1, <3>1 DEF PairAdded, Pair
  <2>2. CASE ~ok
    <3>1. Filled(table, 10)
      BY <1>2, Bounds
    <3>2. Holds(table, -1, "ctl0") /\ Holds(table, -1, "ctl1")
          /\ Without(table, FirstPty \cup SecondPty)
      BY <1>2 DEF Holds, Without, Added, X11Ends
    <3>3. At(table, "ctl0") = -1 /\ At(table, "ctl1") = -1
      BY <3>2, HeldAt
    <3>. QED
      BY <1>2, <1>3, <2>2, <3>1, <3>2, <3>3 DEF Pair
  <2>. QED
    BY <2>1, <2>2
<1>11. Open(table') \subseteq 0..14
  BY <1>10, Bounds
<1>12. JointTable(table)'
  BY <1>1, <1>10 DEF JointTable, PipesHeld, kept
<1>13. FilledOk' /\ pc' \in Joint
  BY <1>1, <1>10, <1>11, <1>12 DEF FilledOk, Joint, WithPty
<1>. QED
  BY <1>13, InJoint

LEMMA PtyStep ==
  ASSUME StreamsInv, OpenPty
  PROVE  StreamsInv'
<1>1. pc = "pty" /\ pc' = "pty2" /\ UNCHANGED <<kept, pipes, use_pty, x11>>
  BY DEF OpenPty, Step, other, jobVars
<1>2. /\ JointTable(table) /\ Filled(table, 10) /\ Without(table, FirstPty \cup SecondPty)
      /\ Holds(table, ctl[1], "ctl0") /\ Holds(table, ctl[2], "ctl1")
      /\ x11 # "none" => ctl[1] # -1
  BY <1>1 DEF StreamsInv, FilledOk, Joint
<1>. DEFINE t == Put(Put(table, "master"), "slave")
<1>3. PICK ok \in BOOLEAN :
        /\ table' = (IF ok THEN t ELSE table)
        /\ master' = At(table', "master") /\ slave' = At(table', "slave")
  BY DEF OpenPty
<1>4. Holds(table, -1, "master") /\ Holds(table, -1, "slave")
  BY <1>2 DEF Without, Holds, FirstPty
<1>5. {"master", "slave"} \subseteq Added /\ "master" # "none" /\ "slave" # "none"
      /\ "master" \in Objects /\ "slave" \in Objects
  BY AddedApart DEF Added, FirstPty
<1>6. PairAdded(table, t, "master", "slave", 10)
  BY <1>2, <1>4, <1>5, PutPair DEF JointTable
<1>. HIDE DEF t
<1>7. JointTable(t)
  BY <1>2, <1>5, <1>6, JointGrows
<1>8. Filled(t, 12) /\ Without(t, SecondPty)
  <2>1. 10 + 2 = 12
    OBVIOUS
  <2>. QED
    BY <1>2, <1>6, <2>1 DEF PairAdded, Without, SecondPty
<1>9. Holds(t, ctl[1], "ctl0") /\ Holds(t, ctl[2], "ctl1")
  BY <1>2, <1>6 DEF PairAdded
<1>10. /\ JointTable(table') /\ Filled(table', 12) /\ Without(table', SecondPty)
       /\ Holds(table', ctl[1], "ctl0") /\ Holds(table', ctl[2], "ctl1")
       /\ Holds(table', master', "master") /\ Holds(table', slave', "slave")
       /\ master' = -1 <=> slave' = -1
  <2>1. CASE ok
    <3>1. \A n \in 3..MaxFd : n # -1
      BY DEF MaxFd
    <3>. QED
      BY <1>3, <1>6, <1>7, <1>8, <1>9, <2>1, <3>1 DEF PairAdded
  <2>2. CASE ~ok
    <3>1. Filled(table, 12)
      BY <1>2, Bounds
    <3>2. At(table, "master") = -1 /\ At(table, "slave") = -1
      BY <1>4, HeldAt
    <3>3. Without(table, SecondPty)
      BY <1>2 DEF Without
    <3>. QED
      BY <1>2, <1>3, <1>4, <2>2, <3>1, <3>2, <3>3
  <2>. QED
    BY <2>1, <2>2
<1>11. Open(table') \subseteq 0..14
  BY <1>10, Bounds
<1>12. JointTable(table)' /\ UNCHANGED ctl
  BY <1>1, <1>10 DEF JointTable, PipesHeld, kept, pipes
<1>13. FilledOk' /\ pc' \in Joint
  BY <1>1, <1>2, <1>10, <1>11, <1>12 DEF FilledOk, Joint, WithPty
<1>. QED
  BY <1>13, InJoint

LEMMA PtyChrootedStep ==
  ASSUME StreamsInv, OpenPtyChrooted
  PROVE  StreamsInv'
<1>1. pc = "pty2" /\ UNCHANGED <<kept, pipes, use_pty, x11>>
      /\ IF master' < 0 THEN pc' = "dead" ELSE pc' = "rlimits"
  BY DEF OpenPtyChrooted, Step, Dies, other, jobVars
<1>2. /\ JointTable(table) /\ Filled(table, 12) /\ Without(table, SecondPty)
      /\ Holds(table, ctl[1], "ctl0") /\ Holds(table, ctl[2], "ctl1")
      /\ x11 # "none" => ctl[1] # -1
      /\ Holds(table, master, "master") /\ Holds(table, slave, "slave")
      /\ master = -1 <=> slave = -1
  BY <1>1 DEF StreamsInv, FilledOk, Joint
<1>. DEFINE t == Put(Put(table, "master2"), "slave2")
            new(u) == At(u, "master2") > master
<1>3. PICK ok \in IF pts THEN BOOLEAN ELSE {FALSE} :
        LET u == IF ok THEN t ELSE table IN
        IF new(u)
        THEN /\ table' = CloseAll(u, {master, slave})
             /\ master' = At(u, "master2") /\ slave' = At(u, "slave2")
        ELSE table' = u /\ UNCHANGED pty
  BY DEF OpenPtyChrooted
<1>4. Holds(table, -1, "master2") /\ Holds(table, -1, "slave2")
  BY <1>2 DEF Without, Holds, SecondPty
<1>5. {"master2", "slave2"} \subseteq Added /\ "master2" # "none" /\ "slave2" # "none"
      /\ "master2" \in Objects /\ "slave2" \in Objects
      /\ {"master", "slave", "ctl0", "ctl1"} \cap {"master2", "slave2", "none"} = {}
  BY AddedApart DEF Added, SecondPty
<1>6. PairAdded(table, t, "master2", "slave2", 12)
  BY <1>2, <1>4, <1>5, PutPair DEF JointTable
<1>. HIDE DEF t
<1>7. JointTable(t) /\ t \in [Fd -> Objects]
  <2>1. JointTable(t)
    BY <1>2, <1>5, <1>6, JointGrows
  <2>. QED
    BY <2>1 DEF JointTable
<1>8. Filled(t, 14)
  <2>1. 12 + 2 = 14
    OBVIOUS
  <2>. QED
    BY <1>6, <2>1 DEF PairAdded
<1>9. /\ Holds(t, ctl[1], "ctl0") /\ Holds(t, ctl[2], "ctl1")
      /\ Holds(t, master, "master") /\ Holds(t, slave, "slave")
  BY <1>2, <1>5, <1>6 DEF PairAdded
\* The numbers of the first pty are not those of anything else.
<1>10. ASSUME NEW p, NEW n, Holds(t, n, p), p \notin {"master", "slave", "none"}
       PROVE  n = -1 \/ n \notin {master, slave}
  BY <1>9, <1>10 DEF Holds, Fd, MaxFd
<1>11. CASE ok
  <2>1. master \in 3..MaxFd => master \in Open(table)
    BY <1>2 DEF Holds, Open, Fd, MaxFd
  <2>2. At(t, "master2") \in 3..MaxFd /\ At(t, "slave2") \in 3..MaxFd
        /\ \A k \in Open(table) : k < At(t, "master2")
    BY <1>6 DEF PairAdded
  <2>3. master = -1 \/ master \in 3..MaxFd
    BY <1>2 DEF Holds
  <2>4. At(t, "master2") > master
    BY <2>1, <2>2, <2>3 DEF MaxFd
  <2>. DEFINE u == CloseAll(t, {master, slave})
  <2>5. /\ table' = u /\ master' = At(t, "master2") /\ slave' = At(t, "slave2")
    BY <1>3, <1>11, <2>4
  <2>6. /\ u \in [Fd -> Objects]
        /\ \A k \in Fd : u[k] = IF k \in {master, slave} THEN "none" ELSE t[k]
        /\ Open(u) = Open(t) \ {master, slave}
        /\ {master, slave} \cap 0..2 = {} /\ Standard(t) => Standard(u)
        /\ \A n, p : p # "none" /\ n \notin {master, slave} /\ Holds(t, n, p) =>
             Holds(u, n, p)
    BY <1>7, CloseKeeps
  <2>. HIDE DEF u
  <2>7. {master, slave} \cap 0..2 = {}
    BY <1>2 DEF Holds, MaxFd
  <2>8. ASSUME NEW p \in {"log", "outr", "outw", "errr", "errw", "ctl0", "ctl1",
                          "master2", "slave2"}, NEW n, Holds(t, n, p)
        PROVE  Holds(u, n, p)
    <3>1. CASE n \notin {master, slave}
      BY <2>6, <2>8, <3>1
    <3>2. CASE n = -1
      BY <2>6, <2>8, <3>2 DEF Holds
    <3>. QED
      BY <1>10, <2>8, <3>1, <3>2
  <2>9. JointTable(u)
    <3>1. Without(u, Session \cup {"root", "cwd", "x11"})
      BY <1>7, <2>6 DEF JointTable, Without, Session
    <3>2. Holds(u, log_fd, "log") /\ PipesHeld(u, pipe_out, pipe_err)
      BY <1>7, <2>8 DEF JointTable, PipesHeld
    <3>. QED
      BY <1>7, <2>6, <2>7, <3>1, <3>2 DEF JointTable
  <2>10. Without(u, FirstPty)
    <3>1. ASSUME NEW k \in Fd PROVE u[k] \notin FirstPty
      BY <1>9, <2>6 DEF Holds, FirstPty
    <3>. QED
      BY <3>1 DEF Without
  <2>11. /\ Holds(u, At(t, "master2"), "master2") /\ Holds(u, At(t, "slave2"), "slave2")
         /\ Holds(u, ctl[1], "ctl0") /\ Holds(u, ctl[2], "ctl1")
    BY <1>6, <1>9, <2>8 DEF PairAdded
  <2>12. Open(u) \subseteq 0..14
    <3>1. Open(t) \subseteq 0..14
      BY <1>8, Bounds
    <3>. QED
      BY <2>6, <3>1
  <2>13. master' # -1 /\ slave' # -1
    BY <2>2, <2>5 DEF MaxFd
  <2>14. pc' = "rlimits"
    BY <1>1, <2>2, <2>5 DEF MaxFd
  <2>15. PtyHeld("master2", "slave2", FirstPty)'
    BY <2>5, <2>10, <2>11, <2>13 DEF PtyHeld
  <2>16. JointTable(table)' /\ UNCHANGED ctl
    BY <1>1, <2>5, <2>9 DEF JointTable, PipesHeld, kept, pipes
  <2>17. FilledOk' /\ pc' \in Joint
    BY <1>1, <1>2, <2>5, <2>11, <2>12, <2>14, <2>15, <2>16 DEF FilledOk, Joint, WithPty
  <2>. QED
    BY <2>17, InJoint
<1>12. CASE ~ok
  <2>1. At(table, "master2") = -1
    BY <1>4, HeldAt
  <2>2. master = -1 \/ master \in 3..MaxFd
    BY <1>2 DEF Holds
  <2>3. ~(-1 > master)
    BY <2>2 DEF MaxFd
  <2>4. table' = table /\ master' = master /\ slave' = slave
    BY <1>3, <1>12, <2>1, <2>3 DEF pty
  <2>5. CASE master < 0
    BY <1>1, <2>4, <2>5, InDead
  <2>6. CASE ~(master < 0)
    <3>1. master # -1 /\ slave # -1 /\ pc' = "rlimits"
      BY <1>1, <1>2, <2>4, <2>6
    <3>2. PtyHeld("master", "slave", SecondPty)'
      BY <1>2, <2>4, <3>1 DEF PtyHeld
    <3>3. JointTable(table)' /\ UNCHANGED ctl
      BY <1>1, <1>2, <2>4 DEF JointTable, PipesHeld, kept, pipes
    <3>4. Open(table) \subseteq 0..14
      BY <1>2, Bounds
    <3>5. FilledOk' /\ pc' \in Joint
      BY <1>1, <1>2, <2>4, <3>1, <3>2, <3>3, <3>4 DEF FilledOk, Joint, WithPty
    <3>. QED
      BY <3>5, InJoint
  <2>. QED
    BY <2>5, <2>6
<1>. QED
  BY <1>3, <1>11, <1>12

LEMMA CloexecStep ==
  ASSUME StreamsInv, CloexecFds
  PROVE  StreamsInv'
<1>1. pc = "cloexec" /\ pc' = "fork" /\ cloexec' = {n \in Open(table) : n > 2}
      /\ UNCHANGED <<table, kept, pty, pipes, use_pty, x11>>
  BY DEF CloexecFds, Step, other, jobVars
<1>2. FilledOk
  BY DEF StreamsInv
<1>3. {n \in Open(table) : n > 2} = Open(table) \ 0..2
  BY DEF Open, Fd, MaxFd
<1>4. FilledOk' /\ pc' \in Joint
  BY <1>1, <1>2, <1>3 DEF FilledOk, JointTable, PipesHeld, PtyHeld, Joint, WithPty, kept, pty, pipes
<1>. QED
  BY <1>4, InJoint

LEMMA ForkStep ==
  ASSUME StreamsInv, Fork
  PROVE  StreamsInv'
<1>1. pc = "fork" /\ pc' = "halves" /\ UNCHANGED <<fds, use_pty, x11>>
  BY DEF Fork, Step, other, jobVars
<1>2. FilledOk
  BY DEF StreamsInv
<1>3. FilledOk' /\ pc' \in Joint
  BY <1>1, <1>2 DEF FilledOk, JointTable, PipesHeld, PtyHeld, Joint, WithPty, fds, kept, pty, pipes
<1>. QED
  BY <1>3, InJoint

(***************************************************************************)
(* The two halves of a job, each of which closes the ends of the other.      *)
(***************************************************************************)
LEMMA HoldsApart ==
  ASSUME NEW t, NEW n, NEW p, NEW m, NEW q, Holds(t, n, p), Holds(t, m, q), p # q
  PROVE  n = -1 \/ n # m
BY DEF Holds, Fd, MaxFd

\* A set of free numbers that is not empty has a lowest one.
LEMMA LowestFree ==
  ASSUME NEW t, 15 \notin Open(t)
  PROVE  Lowest(t) \in Fd \ Open(t)
<1>. DEFINE S == Fd \ Open(t)
<1>1. S \subseteq 0..15 /\ 15 \in S
  BY DEF Fd, MaxFd
<1>. HIDE DEF S
<1>2. \E n \in S : \A k \in S : n <= k
  BY ONLY <1>1, SMTT(60)
<1>3. (CHOOSE n \in S : \A k \in S : n <= k) \in S
  BY <1>2
<1>. QED
  BY <1>3 DEF Lowest, S

LEMMA ListenStep ==
  ASSUME StreamsInv, ListenX11
  PROVE  StreamsInv'
<1>1. pc = "listen" /\ pc' = "exec" /\ UNCHANGED <<cloexec, use_pty, tty>>
      /\ LET t == IF ctl[2] >= 0 THEN Put(table, "x11") ELSE table
         IN table' = CloseAll(t, {At(t, "x11")})
  BY DEF ListenX11, Step, other, opts, jobVars
<1>2. ChildTable /\ HasItsStreams
  BY <1>1 DEF StreamsInv, PayloadOk, Child
<1>3. table \in [Fd -> Objects] /\ 15 \notin Open(table) /\ \A k \in Fd : table[k] # "x11"
  BY <1>2 DEF ChildTable, Without
<1>4. CloseAll(table, {At(table, "x11")}) = table
  <2>1. At(table, "x11") = -1 /\ -1 \notin Fd
    BY <1>3 DEF At, Fd, MaxFd
  <2>. QED
    BY <1>3, <2>1 DEF CloseAll
<1>5. CloseAll(Put(table, "x11"), {At(Put(table, "x11"), "x11")}) = table
  <2>. DEFINE n == Lowest(table)
              u == Put(table, "x11")
  <2>1. n \in Fd /\ table[n] = "none"
    BY <1>3, LowestFree DEF Open
  <2>2. u = [table EXCEPT ![n] = "x11"]
    BY DEF Put
  <2>. HIDE DEF n, u
  <2>3. u[n] = "x11" /\ \A k \in Fd : k # n => u[k] = table[k]
    BY <1>3, <2>1, <2>2
  <2>4. At(u, "x11") = n
    BY <1>3, <2>1, <2>3 DEF At
  <2>5. CloseAll(u, {n}) = table
    BY <1>3, <2>1, <2>3 DEF CloseAll
  <2>. QED
    BY <2>4, <2>5 DEF u
<1>6. table' = table
  BY <1>1, <1>4, <1>5
<1>7. PayloadOk' /\ pc' \in Child \cup {"loop"}
  BY <1>1, <1>2, <1>6 DEF PayloadOk, Child, ChildTable, Without, HasItsStreams, AfterExec, ParentHoldsItsEnds
<1>. QED
  BY <1>7, InHalves

\* A descriptor that is kept when those of other objects are closed.
LEMMA KeptOpen ==
  ASSUME NEW t \in [Fd -> Objects], NEW n, NEW p, p # "none", Holds(t, n, p),
         NEW nums, n = -1 \/ n \notin nums
  PROVE  Holds(CloseAll(t, nums), n, p)
<1>1. CASE n \notin nums
  BY <1>1, CloseKeeps
<1>2. CASE n = -1
  BY <1>2, CloseKeeps DEF Holds
<1>. QED
  BY <1>1, <1>2

\* Whichever of the two ptys is there.
LEMMA HalvesFacts ==
  ASSUME StreamsInv, pc = "halves"
  PROVE  /\ JointTable(table) /\ Open(table) \subseteq 0..14 /\ cloexec = Open(table) \ 0..2
         /\ Holds(table, ctl[1], "ctl0") /\ Holds(table, ctl[2], "ctl1")
         /\ x11 # "none" => ctl[1] # -1
         /\ master # -1 /\ slave # -1
         /\ \E m \in {"master", "master2"}, s \in {"slave", "slave2"} :
              /\ Holds(table, master, m) /\ Holds(table, slave, s)
              /\ Without(table, {"slave", "slave2"} \ {s})
<1>1. FilledOk
  BY DEF StreamsInv
<1>2. /\ JointTable(table) /\ Open(table) \subseteq 0..14 /\ cloexec = Open(table) \ 0..2
      /\ Holds(table, ctl[1], "ctl0") /\ Holds(table, ctl[2], "ctl1")
      /\ x11 # "none" => ctl[1] # -1
      /\ \/ PtyHeld("master", "slave", SecondPty)
         \/ PtyHeld("master2", "slave2", FirstPty)
  BY <1>1 DEF FilledOk, Joint, WithPty
<1>. QED
  BY <1>2 DEF PtyHeld, Without, FirstPty, SecondPty

LEMMA ParentHalfStep ==
  ASSUME StreamsInv, ParentHalf
  PROVE  StreamsInv'
<1>. DEFINE nums == {slave, pipe_out[2], pipe_err[2], ctl[2]}
            u == CloseAll(table, nums)
<1>1. pc = "halves" /\ pc' = "loop" /\ table' = u
      /\ UNCHANGED <<kept, master, pipes, use_pty, x11>>
  BY DEF ParentHalf, Step, jobVars
<1>2. PICK m \in {"master", "master2"}, s \in {"slave", "slave2"} :
        /\ Holds(table, master, m) /\ Holds(table, slave, s)
        /\ Without(table, {"slave", "slave2"} \ {s})
  BY <1>1, HalvesFacts
<1>3. /\ JointTable(table)
      /\ Holds(table, ctl[1], "ctl0") /\ Holds(table, ctl[2], "ctl1")
      /\ x11 # "none" => ctl[1] # -1
      /\ master # -1 /\ slave # -1
  BY <1>1, HalvesFacts
<1>4. /\ table \in [Fd -> Objects] /\ Standard(table)
      /\ Without(table, Session \cup {"root", "cwd", "x11"})
      /\ Holds(table, log_fd, "log")
      /\ Holds(table, pipe_out[1], "outr") /\ Holds(table, pipe_out[2], "outw")
      /\ Holds(table, pipe_err[1], "errr") /\ Holds(table, pipe_err[2], "errw")
      /\ ~use_pty => -1 \notin {pipe_out[1], pipe_out[2], pipe_err[1], pipe_err[2]}
  BY <1>3 DEF JointTable, PipesHeld
<1>5. nums \cap 0..2 = {}
  BY <1>2, <1>3, <1>4 DEF Holds, MaxFd
<1>6. ASSUME NEW n, NEW p, Holds(table, n, p), p \notin {s, "outw", "errw", "ctl1", "none"}
      PROVE  Holds(u, n, p)
  <2>1. n = -1 \/ n \notin nums
    BY <1>2, <1>3, <1>4, <1>6, HoldsApart
  <2>. HIDE DEF nums
  <2>. QED
    BY <1>4, <1>6, <2>1, KeptOpen
<1>7. /\ Holds(u, log_fd, "log") /\ Holds(u, master, m) /\ Holds(u, ctl[1], "ctl0")
      /\ Holds(u, pipe_out[1], "outr") /\ Holds(u, pipe_err[1], "errr")
  <2>1. \A p \in {"log", m, "ctl0", "outr", "errr"} : p \notin {s, "outw", "errw", "ctl1", "none"}
    OBVIOUS
  <2>. HIDE DEF u
  <2>. QED
    BY <1>2, <1>3, <1>4, <1>6, <2>1
<1>8. /\ u \in [Fd -> Objects]
      /\ \A k \in Fd : u[k] = IF k \in nums THEN "none" ELSE table[k]
      /\ Standard(u)
  <2>. HIDE DEF nums
  <2>. QED
    BY <1>4, <1>5, CloseKeeps
<1>9. ASSUME NEW k \in Fd PROVE u[k] \notin PayloadEnds
  <2>1. u[k] = "none" \/ (k \notin nums /\ u[k] = table[k])
    BY <1>8
  <2>2. k \notin nums => table[k] \notin {s, "outw", "errw", "ctl1"}
    BY <1>2, <1>3, <1>4 DEF Holds
  <2>3. table[k] \notin {"slave", "slave2"} \ {s}
    BY <1>2 DEF Without
  <2>. QED
    BY ONLY <2>1, <2>2, <2>3, s \in {"slave", "slave2"} DEF PayloadEnds
<1>10. ASSUME NEW k \in Fd PROVE u[k] \notin Session \cup {"root", "cwd"}
  BY <1>4, <1>8 DEF Without, Session
<1>. HIDE DEF u, nums
<1>11. At(u, "log") = log_fd
  BY <1>7, HeldAt
<1>12. u[0] = "in" /\ u[1] = "out" /\ u[2] = "err"
  BY <1>8 DEF Standard
<1>13. ASSUME NEW n, NEW p, Holds(u, n, p), n # -1 PROVE u[n] = p
  BY <1>13 DEF Holds, Fd, MaxFd
<1>14. /\ u[master] \in {"master", "master2"}
       /\ log_fd >= 0 => u[log_fd] = "log"
       /\ ~use_pty => u[pipe_out[1]] = "outr" /\ u[pipe_err[1]] = "errr"
       /\ x11 # "none" => u[ctl[1]] = "ctl0"
  BY <1>3, <1>4, <1>7, <1>13
<1>15. /\ log_fd' = log_fd /\ master' = master /\ pipe_out' = pipe_out
       /\ pipe_err' = pipe_err /\ ctl' = ctl /\ use_pty' = use_pty /\ x11' = x11
  BY <1>1 DEF kept, pipes
<1>16. ParentHoldsItsEnds'
  BY <1>1, <1>9, <1>10, <1>11, <1>12, <1>14, <1>15 DEF ParentHoldsItsEnds
<1>17. PayloadOk' /\ pc' \in Child \cup {"loop"}
  BY <1>1, <1>16 DEF PayloadOk, Child
<1>. QED
  BY <1>17, InHalves

LEMMA ChildHalfStep ==
  ASSUME StreamsInv, ChildHalf
  PROVE  StreamsInv'
<1>. DEFINE nums == {master, pipe_out[1], pipe_err[1], ctl[1]}
            u == CloseAll(table, nums)
<1>1. pc = "halves" /\ pc' \in {"dead", "identity"} /\ table' = u
      /\ UNCHANGED <<cloexec, slave, pipes, use_pty>>
  BY DEF ChildHalf, Step, Dies, jobVars
<1>2. PICK m \in {"master", "master2"}, s \in {"slave", "slave2"} :
        /\ Holds(table, master, m) /\ Holds(table, slave, s)
  BY <1>1, HalvesFacts
<1>3. /\ JointTable(table) /\ Open(table) \subseteq 0..14 /\ cloexec = Open(table) \ 0..2
      /\ Holds(table, ctl[1], "ctl0") /\ master # -1 /\ slave # -1
  BY <1>1, HalvesFacts
<1>4. /\ table \in [Fd -> Objects] /\ Standard(table)
      /\ Without(table, {"x11"})
      /\ Holds(table, pipe_out[1], "outr") /\ Holds(table, pipe_out[2], "outw")
      /\ Holds(table, pipe_err[1], "errr") /\ Holds(table, pipe_err[2], "errw")
      /\ ~use_pty => -1 \notin {pipe_out[1], pipe_out[2], pipe_err[1], pipe_err[2]}
  BY <1>3 DEF JointTable, PipesHeld, Without
<1>5. nums \cap 0..2 = {}
  BY <1>2, <1>3, <1>4 DEF Holds, MaxFd
<1>6. ASSUME NEW n, NEW p, Holds(table, n, p), p \notin {m, "outr", "errr", "ctl0", "none"}
      PROVE  Holds(u, n, p)
  <2>1. n = -1 \/ n \notin nums
    BY <1>2, <1>3, <1>4, <1>6, HoldsApart
  <2>. HIDE DEF nums
  <2>. QED
    BY <1>4, <1>6, <2>1, KeptOpen
<1>7. /\ u \in [Fd -> Objects]
      /\ \A k \in Fd : u[k] = IF k \in nums THEN "none" ELSE table[k]
      /\ Open(u) = Open(table) \ nums /\ Standard(u)
  <2>. HIDE DEF nums
  <2>. QED
    BY <1>4, <1>5, CloseKeeps
<1>8. Holds(u, slave, s) /\ Holds(u, pipe_out[2], "outw") /\ Holds(u, pipe_err[2], "errw")
  <2>1. \A p \in {s, "outw", "errw"} : p \notin {m, "outr", "errr", "ctl0", "none"}
    OBVIOUS
  <2>. HIDE DEF u
  <2>. QED
    BY <1>2, <1>4, <1>6, <2>1
<1>9. ASSUME NEW n, NEW p, Holds(u, n, p), n # -1 PROVE n \in 3..MaxFd /\ u[n] = p
  BY <1>9 DEF Holds, Fd, MaxFd
<1>. HIDE DEF u
<1>10. /\ slave \in 3..MaxFd /\ u[slave] \in {"slave", "slave2"}
       /\ ~use_pty => /\ pipe_out[2] \in 3..MaxFd /\ u[pipe_out[2]] = "outw"
                      /\ pipe_err[2] \in 3..MaxFd /\ u[pipe_err[2]] = "errw"
  BY <1>3, <1>4, <1>8, <1>9
<1>11. cloexec \cap 0..2 = {} /\ Open(u) \subseteq cloexec \cup 0..2 /\ Open(u) \subseteq 0..14
  BY <1>3, <1>7
<1>12. Without(u, {"x11"})
  BY <1>4, <1>7 DEF Without
<1>13. CASE pc' = "identity"
  <2>1. ChildTable'
    BY <1>1, <1>7, <1>11, <1>12 DEF ChildTable
  <2>2. /\ cloexec' = cloexec /\ slave' = slave /\ pipe_out' = pipe_out
        /\ pipe_err' = pipe_err /\ use_pty' = use_pty
    BY <1>1 DEF pipes
  <2>3. PayloadOk' /\ pc' \in Child \cup {"loop"}
    BY <1>1, <1>7, <1>10, <1>11, <1>13, <2>1, <2>2 DEF PayloadOk, Child, ParentHoldsItsEnds
  <2>. QED
    BY <2>3, InHalves
<1>. QED
  BY <1>1, <1>13, InDead

LEMMA ConnectStep ==
  ASSUME StreamsInv, ConnectFds
  PROVE  StreamsInv'
<1>. DEFINE first == IF use_pty THEN slave ELSE pipe_out[2]
            second == IF use_pty THEN slave ELSE pipe_err[2]
            in == IF use_pty THEN Dup2(table, slave, 0)
                  ELSE IF tty' THEN NullifyStdin(table) ELSE table
            err == Dup2(Dup2(in, first, 1), second, 2)
            nums == {slave, pipe_out[2], pipe_err[2]} \ 0..2
            u == CloseAll(err, nums)
<1>1. pc = "connect" /\ pc' = "cpus" /\ table' = u /\ cloexec' = cloexec \ 0..2
      /\ UNCHANGED <<slave, pipes, use_pty>>
  BY DEF ConnectFds, Step, pty, jobVars
<1>2. /\ table \in [Fd -> Objects] /\ Open(table) \subseteq 0..14 /\ Without(table, {"x11"})
      /\ Standard(table)
      /\ cloexec \cap 0..2 = {} /\ Open(table) \subseteq cloexec \cup 0..2
      /\ use_pty => slave \in 3..MaxFd /\ table[slave] \in {"slave", "slave2"}
      /\ ~use_pty => /\ pipe_out[2] \in 3..MaxFd /\ table[pipe_out[2]] = "outw"
                     /\ pipe_err[2] \in 3..MaxFd /\ table[pipe_err[2]] = "errw"
  BY <1>1 DEF StreamsInv, PayloadOk, Child, ChildTable
<1>3. 0 \in Fd /\ 1 \in Fd /\ 2 \in Fd /\ \A n \in 3..MaxFd : n \in Fd /\ n \notin {0, 1, 2}
  BY DEF Fd, MaxFd
<1>4. /\ first \in 3..MaxFd /\ second \in 3..MaxFd
      /\ use_pty => first = slave /\ second = slave /\ table[slave] \in {"slave", "slave2"}
      /\ ~use_pty => table[first] = "outw" /\ table[second] = "errw"
  BY <1>2
<1>5. /\ in \in [Fd -> Objects] /\ \A k \in Fd : k # 0 => in[k] = table[k]
      /\ use_pty => in[0] = table[slave]
      /\ ~use_pty => in[0] = IF tty' THEN "nullr" ELSE "in"
  <2>1. CASE use_pty
    BY <1>2, <1>3, <2>1 DEF Dup2
  <2>2. CASE ~use_pty /\ tty'
    <3>1. "nullr" \in Objects
      BY DEF Objects
    <3>2. in = [table EXCEPT ![0] = "nullr"]
      BY <2>2 DEF NullifyStdin
    <3>. QED
      BY <1>2, <1>3, <2>2, <3>1, <3>2
  <2>3. CASE ~use_pty /\ ~tty'
    BY <1>2, <2>3 DEF Standard
  <2>. QED
    BY <2>1, <2>2, <2>3
<1>. HIDE DEF in, first, second
<1>6. /\ err \in [Fd -> Objects] /\ \A k \in Fd : k \notin {0, 1, 2} => err[k] = table[k]
      /\ err[0] = in[0] /\ err[1] = table[first] /\ err[2] = table[second]
  BY <1>3, <1>4, <1>5 DEF Dup2
<1>. HIDE DEF err
<1>7. /\ u \in [Fd -> Objects]
      /\ \A k \in Fd : u[k] = IF k \in nums THEN "none" ELSE err[k]
  <2>. HIDE DEF nums
  <2>. QED
    BY <1>6, CloseKeeps
<1>8. \A k \in nums : k \notin {0, 1, 2}
  OBVIOUS
<1>. HIDE DEF u, nums
<1>9. /\ u[0] = in[0] /\ u[1] = table[first] /\ u[2] = table[second]
      /\ \A k \in Fd : k \notin {0, 1, 2} => u[k] = table[k] \/ u[k] = "none"
  BY <1>3, <1>6, <1>7, <1>8
<1>10. /\ use_pty => u[0] \in {"slave", "slave2"} /\ u[1] = u[0] /\ u[2] = u[0]
       /\ ~use_pty => /\ u[0] = (IF tty' THEN "nullr" ELSE "in")
                      /\ u[1] = "outw" /\ u[2] = "errw"
  BY <1>4, <1>5, <1>9
<1>11. u[0] \notin {"none", "x11"} /\ u[1] \notin {"none", "x11"} /\ u[2] \notin {"none", "x11"}
  BY <1>10
<1>12. 0..2 = {0, 1, 2} /\ 0..2 \subseteq Fd /\ 0..2 \subseteq 0..14
  BY DEF Fd, MaxFd
<1>13. Open(u) \subseteq Open(table) \cup 0..2 /\ 0..2 \subseteq Open(u)
  BY <1>9, <1>11, <1>12 DEF Open
<1>14. Without(u, {"x11"})
  <2>1. ASSUME NEW k \in Fd PROVE u[k] # "x11"
    BY <1>2, <1>9, <1>11 DEF Without
  <2>. QED
    BY <2>1 DEF Without
<1>15. ChildTable'
  BY <1>1, <1>2, <1>7, <1>12, <1>13, <1>14 DEF ChildTable
<1>16. cloexec' = cloexec
  BY <1>1, <1>2
<1>. DEFINE v == CloseAll(u, cloexec)
<1>17. Open(v) = 0..2 /\ v[0] = u[0] /\ v[1] = u[1] /\ v[2] = u[2]
  <2>1. /\ \A k \in Fd : v[k] = IF k \in cloexec THEN "none" ELSE u[k]
        /\ Open(v) = Open(u) \ cloexec
    BY <1>7, CloseKeeps
  <2>. HIDE DEF v
  <2>. QED
    BY <1>2, <1>3, <1>12, <1>13, <2>1
<1>. HIDE DEF v
<1>18. AfterExec' = v
  BY <1>1, <1>16 DEF AfterExec, v
<1>19. HasItsStreams'
  BY <1>1, <1>10, <1>17, <1>18 DEF HasItsStreams
<1>20. PayloadOk' /\ pc' \in Child \cup {"loop"}
  BY <1>1, <1>15, <1>19 DEF PayloadOk, Child, ParentHoldsItsEnds
<1>. QED
  BY <1>20, InHalves

(***************************************************************************)
(* The other steps leave the descriptors alone.                             *)
(***************************************************************************)
Elsewhere ==
  \/ UNCHANGED <<pc, fds, tty, use_pty, x11>>
  \/ pc' = "dead"
  \/ UNCHANGED fds /\ pc \in BeforeSpawn /\ pc' \in BeforeSpawn
  \/ UNCHANGED fds /\ pc \in Chrooting /\ pc' \in Chrooting
  \/ /\ UNCHANGED <<fds, tty, use_pty, x11>>
     /\ <<pc, pc'>> \in {<<"unshare", "pty">>, <<"rlimits", "cloexec">>, <<"identity", "connect">>,
                         <<"cpus", "listen">>, <<"cpus", "shuffle">>, <<"shuffle", "listen">>}

LEMMA ConfigElsewhere ==
  ASSUME ConfigNext, UNCHANGED startVars
  PROVE  Elsewhere
<1>1. UNCHANGED fds
  BY DEF startVars
<1>2. CASE LoadSystem
  BY <1>1, <1>2 DEF LoadSystem, LoadConfig, Dies, Elsewhere, BeforeSpawn, Configuring
<1>3. CASE LoadUser
  BY <1>1, <1>3 DEF LoadUser, LoadConfig, Dies, Elsewhere, BeforeSpawn, Configuring
<1>4. CASE LoadNumbered
  BY <1>1, <1>4 DEF LoadNumbered, LoadConfig, Dies, Elsewhere, BeforeSpawn, Configuring
<1>5. CASE CheckUsers
  BY <1>1, <1>5 DEF CheckUsers, Dies, Elsewhere, BeforeSpawn, Configuring
<1>6. CASE ParseEnv
  BY <1>1, <1>6 DEF ParseEnv, Dies, Elsewhere, Chrooting
<1>. QED
  BY <1>2, <1>3, <1>4, <1>5, <1>6 DEF ConfigNext

LEMMA PlaceElsewhere ==
  ASSUME OnPlace \/ EnterNs
  PROVE  Elsewhere
<1>1. CASE PidChanges
  BY <1>1 DEF PidChanges, opts, jobVars, Elsewhere
<1>2. CASE LookingAtCaller
  BY <1>2 DEF LookingAtCaller, OpenCallerProc, CheckCallerProc, JoinCallerCgroup, OpenProc,
              CheckOwner, Die, Dies, startVars, Elsewhere, BeforeSpawn, Configuring
<1>3. CASE OpenNsProc \/ CheckNsProc
  BY <1>3 DEF OpenNsProc, CheckNsProc, OpenProc, CheckOwner, Die, Dies, startVars,
              Elsewhere, Chrooting
<1>4. CASE CompareNs
  <2>1. pc = "ns compare"
    BY <1>4 DEF CompareNs
  <2>2. CASE Proc = "none" \/ (NsDir[entry] = "pid" /\ NsDir[entry] \in Procs[Proc].differs)
    BY <1>4, <2>2 DEF CompareNs, Die, Dies, Elsewhere
  <2>3. CASE ~(Proc = "none" \/ (NsDir[entry] = "pid" /\ NsDir[entry] \in Procs[Proc].differs))
    <3>1. pc' \in {"ns open", pc} /\ UNCHANGED fds
      BY <1>4, <2>3 DEF CompareNs
    <3>. QED
      BY <2>1, <3>1 DEF Elsewhere, Chrooting
  <2>. QED
    BY <2>2, <2>3
<1>5. CASE OpenNs \/ EnterNs
  <2>1. UNCHANGED fds /\ pc \in {"ns open", "ns compare"} /\ pc' \in {"ns compare", "reopen"}
    BY <1>5 DEF OpenNs, EnterNs, Step
  <2>. QED
    BY <2>1 DEF Elsewhere, Chrooting
<1>. QED
  BY <1>1, <1>2, <1>3, <1>4, <1>5 DEF OnPlace, LookingAtNs

LEMMA PurgeElsewhere ==
  ASSUME Purging \/ InitGroups
  PROVE  Elsewhere
<1>1. CASE LeftoverActs \/ DyingActs
  BY <1>1 DEF LeftoverActs, DyingActs, killing, opts, jobVars, Elsewhere
<1>2. CASE KillUid
  BY <1>2 DEF KillUid, killing, Step, Die, Dies, Elsewhere, Chrooting
<1>3. CASE PurgeIpc \/ InitGroups
  BY <1>3 DEF PurgeIpc, killing, InitGroups, Step, Elsewhere, Chrooting
<1>. QED
  BY <1>1, <1>2, <1>3 DEF Purging

LEMMA LateElsewhere ==
  ASSUME UnshareIpcUtsNetwork \/ SetRlimits \/ ChildIdentity \/ OnCpus
  PROVE  Elsewhere
<1>1. CASE UnshareIpcUtsNetwork
  BY <1>1 DEF UnshareIpcUtsNetwork, Step, Dies, jobVars, Elsewhere
<1>2. CASE SetRlimits
  BY <1>2 DEF SetRlimits, Step, Dies, opts, jobVars, Elsewhere
<1>3. CASE ChildIdentity
  BY <1>3 DEF ChildIdentity, Step, opts, jobVars, Elsewhere
<1>4. CASE OnCpus
  BY <1>4 DEF OnCpus, StartAffinity, Shuffle, SetAffinity, Step, opts, jobVars, Elsewhere
<1>. QED
  BY <1>1, <1>2, <1>3, <1>4

LEMMA ElsewhereStep ==
  ASSUME StreamsInv, Elsewhere
  PROVE  StreamsInv'
<1>1. InheritedOk /\ CompactOk /\ FilledOk /\ PayloadOk
  BY DEF StreamsInv
<1>2. CASE UNCHANGED <<pc, fds, tty, use_pty, x11>>
  <2>1. InheritedOk' /\ CompactOk'
    BY <1>1, <1>2 DEF InheritedOk, CompactOk, fds, kept
  <2>2. FilledOk'
    BY <1>1, <1>2 DEF FilledOk, JointTable, PipesHeld, PtyHeld, fds, kept, pty, pipes
  <2>3. PayloadOk'
    BY <1>1, <1>2 DEF PayloadOk, ChildTable, HasItsStreams, AfterExec, ParentHoldsItsEnds,
                      fds, kept, pty, pipes
  <2>. QED
    BY <2>1, <2>2, <2>3 DEF StreamsInv
<1>3. CASE UNCHANGED fds /\ pc \in BeforeSpawn /\ pc' \in BeforeSpawn
  <2>1. log_fd = -1 /\ log_fd' = log_fd
    BY <1>1, <1>3 DEF InheritedOk, fds, kept
  <2>2. InheritedOk'
    BY <1>3, <2>1 DEF InheritedOk, BeforeSpawn, Configuring
  <2>. QED
    BY <1>3, <2>2, InInherited
<1>4. CASE UNCHANGED fds /\ pc \in Chrooting /\ pc' \in Chrooting
  <2>1. CompactOk'
    BY <1>1, <1>4 DEF CompactOk, Chrooting, fds, kept
  <2>. QED
    BY <1>4, <2>1, InKnown DEF Known
<1>5. CASE UNCHANGED <<fds, tty, use_pty, x11>>
           /\ <<pc, pc'>> \in {<<"unshare", "pty">>, <<"rlimits", "cloexec">>}
  <2>1. FilledOk'
    BY <1>1, <1>5 DEF FilledOk, JointTable, PipesHeld, PtyHeld, Joint, WithPty, fds, kept, pty, pipes
  <2>2. pc' \in Joint
    BY <1>5 DEF Joint
  <2>. QED
    BY <2>1, <2>2, InJoint
<1>6. CASE UNCHANGED <<fds, tty, use_pty, x11>>
           /\ <<pc, pc'>> \in {<<"identity", "connect">>, <<"cpus", "listen">>,
                               <<"cpus", "shuffle">>, <<"shuffle", "listen">>}
  <2>1. PayloadOk'
    BY <1>1, <1>6 DEF PayloadOk, Child, ChildTable, HasItsStreams, AfterExec,
                      ParentHoldsItsEnds, fds, kept, pty, pipes
  <2>2. pc' \in Child
    BY <1>6 DEF Child
  <2>. QED
    BY <2>1, <2>2, InHalves
<1>7. CASE pc' = "dead"
  BY <1>7, InDead
<1>. QED
  BY <1>2, <1>3, <1>4, <1>5, <1>6, <1>7 DEF Elsewhere

(* The descriptors of a job, from those of the session to those of its       *)
(* payload and of its parent half.                                          *)
THEOREM StreamsAreInvariant == Spec => []StreamsInv
<1>1. Init => StreamsInv
  <2>. SUFFICES ASSUME Init PROVE StreamsInv
    OBVIOUS
  <2>1. pc = "system" /\ log_fd = -1
    BY DEF Init, ConfigInit
  <2>. QED
    BY <2>1 DEF StreamsInv, InheritedOk, CompactOk, FilledOk, PayloadOk, ParentHoldsItsEnds,
                Chrooting, Joint, WithPty, Child
<1>2. StreamsInv /\ [Next]_vars => StreamsInv'
  <2>. SUFFICES ASSUME StreamsInv, [Next]_vars PROVE StreamsInv'
    OBVIOUS
  <2>1. CASE Next
    <3>1. CASE ConfigNext /\ UNCHANGED startVars
      BY <3>1, ConfigElsewhere, ElsewhereStep
    <3>2. CASE OnPlace \/ EnterNs
      BY <3>2, PlaceElsewhere, ElsewhereStep
    <3>3. CASE Purging \/ InitGroups
      BY <3>3, PurgeElsewhere, ElsewhereStep
    <3>4. CASE UnshareIpcUtsNetwork \/ SetRlimits \/ ChildIdentity \/ OnCpus
      BY <3>4, LateElsewhere, ElsewhereStep
    <3>5. CASE SpawnExecutor \/ ResetStd \/ Sanitize \/ Reopen \/ LogListen \/ CloseChroot
      BY <3>5, SpawnStep, ResetStep, SanitizeStep, ReopenStep, LogStep, CloseChrootStep
    <3>6. CASE SanitizeAgain \/ MakePipes \/ PrepareX11 \/ OpenPty \/ OpenPtyChrooted
      BY <3>6, SanitizeAgainStep, PipesStep, X11Step, PtyStep, PtyChrootedStep
    <3>7. CASE CloexecFds \/ Fork \/ ParentHalf \/ ChildHalf \/ ConnectFds \/ ListenX11
      BY <3>7, CloexecStep, ForkStep, ParentHalfStep, ChildHalfStep, ConnectStep, ListenStep
    <3>8. CASE Finished
      <4>1. UNCHANGED <<pc, fds, tty, use_pty, x11>>
        BY <3>8 DEF Finished, vars, startVars, opts, jobVars
      <4>. QED
        BY <4>1, ElsewhereStep DEF Elsewhere
    <3>. QED
      BY <2>1, <3>1, <3>2, <3>3, <3>4, <3>5, <3>6, <3>7, <3>8
         DEF Next, OnPlace, LookingAtCaller, LookingAtNs, Purging, OnCpus
  <2>2. CASE UNCHANGED vars
    <3>1. UNCHANGED <<pc, fds, tty, use_pty, x11>>
      BY <2>2 DEF vars, startVars, opts, jobVars
    <3>. QED
      BY <3>1, ElsewhereStep DEF Elsewhere
  <2>. QED
    BY <2>1, <2>2
<1>. QED
  BY <1>1, <1>2, PTL DEF Spec

(* Whatever the order in which the client sent its descriptors, with every   *)
(* combination of pty, pipes, log and X11, the payload is executed with its  *)
(* three streams and with nothing else: what sanitize_fds closed, what the   *)
(* fork left open and what close-on-exec takes away together are all the     *)
(* rest (fds.c, chrootuid.c, connect_fds of child.c).                       *)
THEOREM PayloadGetsItsStreams == Spec => []PayloadHoldsItsStreams
<1>1. StreamsInv => PayloadHoldsItsStreams
  BY DEF StreamsInv, PayloadOk, PayloadHoldsItsStreams
<1>. QED
  BY StreamsAreInvariant, <1>1, PTL

(* The parent half finds each of its ends under the number its variable has, *)
(* and holds none of the payload's, although the numbers were given twice,   *)
(* by the first open and by sanitize_fds (chrootuid.c, handle_parent).       *)
THEOREM ParentGetsItsEnds == Spec => []ParentHoldsItsEnds
<1>1. StreamsInv => ParentHoldsItsEnds
  BY DEF StreamsInv, PayloadOk
<1>. QED
  BY StreamsAreInvariant, <1>1, PTL

=============================================================================
