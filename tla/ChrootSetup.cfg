SPECIFICATION Spec
CONSTANTS
  Requests = {{"/dev/shm", "/dev/kvm"}, {"/dev/pts"}, {"/sys", "/sys/fs/cgroup"}, {"/sys/fs/cgroup"}, {"/dev/fuse", "/dev/kvm"}, {"/dev/pts", "/opt"}, {"//sys"}, {"/srv"}}
  AllowedDevices = {"/dev/kvm", "/dev/fuse", "/opt"}
  AllowedMountpoints = {"/dev/pts", "/sys", "/sys/fs/cgroup"}
  Fstab = {"/dev", "/dev/shm", "/dev/pts", "/sys", "/sys/fs/cgroup"}
  HostDevices = {"/dev/kvm"}
  MaxChanges = 2
INVARIANTS
  MountsCoverOwnDirs
  NodesOnlyInTmpfs
  NeverPastPermissions
  NothingOutside
  SetupIsExact
