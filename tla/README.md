# A TLA+ model of hasher-priv

hasher-priv lets an ordinary user (the *caller*) run programs in a chroot under
one of two unprivileged accounts.  A root daemon, `hasher-privd`, hands out
*session servers*, one for every pair (caller uid, subconfig number); the client
`hasher-priv` sends job requests to its session server, which runs them through
a chain of short-lived processes.  All the source is in `src/hasher-priv/`.

## 1. Inventory

| Component | State it keeps | Operations | Talks to |
|---|---|---|---|
| main daemon (`hasher-privd.c`, `signal.c`, `epoll.c`) | the pool: a list of (uid, gid, num, pid); the pipe its children watch | `main` loop, `process_request`, `start_session`, `wait_sessions`, shutdown | clients over the main socket, session servers by fork, SIGCHLD and the pipe |
| pidfile (`pidfile.c`) | the file, its lock, a process id | `check_pid`, `write_pid`, `remove_pid` | other starts of the daemon |
| session server (`run_caller_server`, `caller_server.c`, `caller.c`, `sockets.c`) | caller ids, socket path `SOCKETDIR/uid:num`, idle seconds | `caller_server_listener_init`, `caller_server`, `check_peer_creds` | clients over its socket, the job request handler by fork and wait |
| client (`hasher-priv.c`, `cmdline.c`) | its connection | `connect_to_session`, `request_session`, the `send_*` sequence | daemon, session server, runner |
| job request handler (`caller_job.c`) | `struct job`: mask of received commands, type, descriptors, arguments, environment | `receive_job_request`, the validations, `spawn_job_runner` | client, runner |
| job runner (`caller_runner.c`, `cgroup.c`) | executor pid, pipe, client connection | `job_runner`, `terminate_executor`, `wait_job` | client, executor, handler (pipe); outlives handler, session server and daemon |
| executor, parent side (`chrootuid.c`, `parent.c`, `io_log.c`) | child pid and status, descriptors, byte counters, timers | `handle_parent`, `handle_io`, `sigchld_handler`, `work_limits_ok` | payload over pipes or a pty, client's descriptors |
| executor, chroot set-up (`chrootuid.c`, `chdir.c`, `chdiruid.c`, `mount.c`, `makedev.c`, `fds.c`) | working directory, file system credentials, mounts, descriptors | `safe_chdir`, `fchdiruid`, `setup_mountpoints`, `sanitize_fds` | the file system, which the caller may change meanwhile |
| executor, isolation (`killuid.c`, `ipc.c`, `ns.c`, `procfd.c`, `unshare.c`) | ids, groups, namespaces, cgroup, limits, what an earlier job left | `do_killuid`, `purge_ipc`, `setup_ns`, `open_proc_fd`, `unshare_*`, `set_rlimits` | the client's entry of /proc, earlier jobs |
| executor, child side (`child.c`, `nullify_stdin.c`) | affinity mask, the fake X11 key | `set_affinity_nproc`, `connect_fds`, `handle_child` | payload |
| caller configuration (`caller_config.c`, `file_config.c`) | options, work limits, user1/user2 | `configure_caller`, `parse_env` | files, request environment |
| X11 forwarding (`x11.c`, `io_x11.c`, `pass.c`) | the list of connection pairs, their buffers and descriptors, real and fake key | `handle_x11_ctl`, `x11_handle_new`, `x11_handle_select`, `x11_connect` | X server, programs in the chroot |

What is hard in this system:

* **Concurrency of processes.**  Daemon, servers, handlers, runners, executors
  and clients only meet through sockets, signals, pipes, `waitpid` and path
  names; each waits for some of the others.
* **Signals.**  They coalesce, are blocked and unblocked, arrive for stopped
  children too, and are read through `signalfd` in numerical order or
  delivered only inside `pselect`.
* **Crash and restart.**  A killed daemon leaves servers that are starting,
  serving or waiting, stale socket paths and a stale pidfile.
* **Processes that outlive their parents.**  The runner of a chrootuid job holds
  the client's connection after its handler, its session server and the daemon
  are gone; background processes of a payload write and connect after it; those
  of an earlier job are killed, but nobody waits for their end.
* **Stale knowledge.**  A pool record means "was forked", not "listens"; a
  client connects to a path that another server takes over or that times out;
  the pid of a client is looked up in /proc after the client may have gone.
* **Privileges.**  The runner has given up root when it has to kill an executor
  that has not.
* **Peers that misbehave.**  Session and job request handlers talk to whoever
  connects: silent, slow, killed or not hasher-priv at all.

What makes each component correct:

* pool: exactly the unreaped children are recorded, one server for a key, no
  death is forgotten, the socket path leads to the server, the credentials
  served are the ones the session was opened for, also by runners that are left
  behind, shutdown ends, waiting clients are answered or have a runner, lost
  servers leave;
* pidfile: one daemon, named by the file;
* job request: what is run was validated for the type it is run with, the real
  client is never refused, the handler ends;
* runner: the answer is the status, the end of a job is reported, the session
  server is released, a disconnect aborts the job;
* executor parent: all output is copied and all log messages are read, the
  signal handler never blocks, the exit code is true, the executor ends, limits
  are enforced;
* chroot set-up: root mounts and makes nodes only where it means to, whatever
  the caller renames or removes meanwhile, nothing shows up outside, and for the program
  is set up what was requested and allowed;
* descriptors and affinity: each process holds its own ends and no others, the
  payload has exactly the processors it may use;
* configuration: a numbered session has pseudo-users of its own, a request only
  tightens limits;
* isolation: the payload has the ids of its pseudo-user, namespaces of its own
  no running process of an earlier job and none of its IPC objects that can be
  read around it; cgroup and namespaces are never those
  of another user's process;
* X11: each connection is a pair of streams of its own, the real key goes only
  where the fake one was presented, no descriptor is leaked, nobody sleeps over
  work.

## 2. Plan

| Order | Module | Content | State |
|---|---|---|---|
| 1 | `SessionService`, `SessionPool`, `SessionPoolProofs` | an abstract service of sessions; daemon, session servers and clients in one composed specification that implements it | checked, safety and refinement proved |
| 2 | `JobRequest`, `JobRequestProofs` | the job protocol, hasher-priv and other peers | checked, safety proved |
| 3 | `JobRunner`, `JobService`, `JobRunnerProofs` | handler, runner, executor, client after CMD_JOB_RUN; what a client is promised | checked, the step part of the refinement proved |
| 4 | `ParentIO`, `ParentIOProofs` | the executor's parent side | checked, safety proved |
| 5 | `PidFile`, `PidFileProofs` | starts of the daemon | checked, proved |
| 6 | `ChrootSetup`, `ChrootSetupProofs` | the privileged set-up of a chroot against a caller that changes the tree | checked, safety proved |
| 7 | `CallerConfig` | the configuration files, pseudo-users, limits, the environment of a job | checked and proved in `PayloadStart` |
| 8 | `PayloadStart`, `PayloadStartProofs` | `CallerConfig` composed with the start of a job: client look-up, killuid, namespaces, ids, limits, descriptors, affinity | checked, proved |
| 9 | `X11Relay`, `X11Forward`, `X11ForwardProofs` | an abstract pair of streams, and the forwarding that implements it | checked, safety and refinement proved |

## 3. Modules

### SessionPool

One specification of the main daemon, its session servers and their clients;
they share too much (signals, parenthood, sockets, the pipe) to be separate.

* Daemon: `dpc` is the control point in `main`; `ready` the batch of one
  `epoll_wait`; `pending` the signals its `signalfd` would return.  An iteration
  is `DaemonPoll`, `DaemonSignals` (one signal, termination before SIGCHLD),
  `Reap`/`ReapDone` (`wait_sessions`), `DaemonAccept`, then one of `RecvFail`,
  `RequestFailed`, `ReuseSession` or `ForkSession` and `AppendSession`.  Fork and
  record are two steps because the child runs in between.  `DaemonExit` is the
  end of `main` after the pipe is closed and all children are reaped;
  `DaemonCrash` and `DaemonStart` are a kill and a new start.
* Session server: `st[p]` runs through `forked`, `init`, `unlinked`, `bound`,
  `listening`, `serving` (with `accepting` and `busy`) and `exiting`; `secs` is
  `n_seconds`.  A dead one is a `zombie` until the daemon reaps it and its pid
  is `free` again.
* Job request handler and runner: the server is `busy` while it waits for its
  handler, and that wait ends in one of three ways (`HandlerExit`).  The request
  is refused or the handler dies (`HandlerRefuses`); an auxiliary job is over
  (`HandlerRunsJob`); a chrootuid job has been started (`HandlerDetaches`).  After
  the last one the client has no answer yet: its connection is held by a runner
  with the ids of the session (`runner[c]`), until `RunnerEnds`, with an answer
  or without one.  `RunnerEnds` needs neither the server nor the daemon, and
  no fairness makes it happen.  `HandlerDetaches` is one step because the handler
  does nothing between the fork of the runner and the end of file of its pipe,
  which lets it exit; that this end of file comes is `HandlerReleased` of
  `JobRunner`.
* Client: `TryConnect`, `AskDaemon`, `SendRequest`, `RecvResponse`, `Reconnect`,
  then the job (`RecvJobResponse`) or end of file (`RecvEOF`).
* `sock` is the file system: the server a path is bound to, `Stale` or nothing.

Abstractions: failing calls are nondeterministic (any request may fail, a server
may die in its initialisation, `SrvListenFails` also with the path still bound
to another socket, when `unlink` failed); failures of `accept4` and of the
receive timeout, and signals that arrive before the daemon's `signalfd` exists
are left out; the backlog of the main socket is reset when the daemon dies,
although a freshly forked server could hold it open a moment longer.

`SessionService` is what all this is for: sessions are opened for eligible callers,
one for each key and start of the service (`boot`); clients of the key wait in
line; a session has one request at a time in hand (`request`) and only of its own
caller; it answers (`Answer`) or lets the job run apart, with the ids of the
caller (`Detach`).  Such jobs (`running`), any number of them, outlive the session
and the service; the result of a job goes to its own client, once (`Tell`,
`Finish`); a client gives up only when nobody holds its connection; a session
leaves without a request in hand.  It knows no pool, signal, pipe, path or
exchange with the daemon.  `ServesSessions` is that specification under a
mapping: a server is a session from its fork to its exit (`Sessions`), its backlog is
the line, a busy or exiting server has its peer as request (`Requests`), the runners are
the jobs that run apart, and of a client only its connection to a session is
seen (`ClientStates`, `Results`).  `ForkSession` is then `Open`, `SessionAccept` and
`SessionReject` are `Call`, `HandlerRefuses` and `HandlerRunsJob` are `Answer`,
`HandlerDetaches` is `Detach`, `RunnerEnds` is `Finish`, any end of a server is `Leave`;
kills of the daemon, reaping and all talk with the daemon do not show.

### JobRequest

`receive_job_request` as one action per command.  A header's type is a set of
bits, so that combined and empty types exist; a payload of strings is the number
of strings.  `mask`, `jtype`, `chroot_fd`, `argc` ... are the fields of
`struct job`.  The peer is either hasher-priv, which sends the script that `main`
in `hasher-priv.c` produces for a job and waits for each response, or any other
peer, which sends any header at any time.  `fault` remembers whether a failure
had an external reason.

### JobRunner

From `spawn_job_runner` to the client's answer: the handler waiting on the pipe
(chrootuid jobs) or on the runner (auxiliary jobs), the runner with its signal
mask, pending signals and `epoll_wait` batches, the executor as far as its ids,
its copy of the pipe and its end are concerned, and the client.  `root` says
that the executor does not have the caller's ids, which decides whether
`kill(2)` of the runner succeeds.

`JobService` is what all this is for, seen by the client: at most one result,
none but a failure before the job is over, 0 exactly for a job that exited with
0, and after its end an answer or the end of the connection.  `ServesJob` is that
specification with its fairness under a mapping: the job is over when the
executor has died, and until then a stop, a signal or a kill of the runner may
not show as a result.  `Promise` is the part of it about single steps.

### ParentIO

The executor of a chrootuid job: unblocking of signals, `spawn_killuid`,
blocking of SIGCHLD, fork, then the loop of `handle_parent`.  Bytes are counted.
`pselect(2)` follows Linux: signals are blocked outside it, and inside they are
delivered only if no descriptor is ready.  The payload is the forked child and
perhaps one background process that keeps the write ends open and may outlive
the child.  Either may connect to the log socket, until the executor ends; a
connection made when the death of the child has been noticed (`late`) finds
nobody, since `log_fd` is no longer selected (parent.c:274), and its messages
are lost.  `copy_log` cuts what it has read at the first NUL and ends an
incomplete line (`Copied`, `LineEnd`), so that what counts for a log is that it
was read. SIGCHLD is sent by the kernel only, not by `kill(2)`.  X11 is in
`X11Forward`; the window size is left out.  `total_bytes_read` counts the whole
buffer each time a part of it is written to the pty, as the code does.

### PidFile

Several starts of the daemon, each `check_pid`, `daemon(3)` (a new process id),
`write_pid` in its system calls, service and `remove_pid`.  The path leads to an
inode, so a start may hold a file that was unlinked.  `overlap` is chosen
initially: with `FALSE` a start begins only when no other one is starting, as a
service manager would do it.

### ChrootSetup

`chrootuid` up to `chroot(2)`: joining the caller's namespaces, entering the
chroot directory, a private mount namespace, the classification of the
requests, then for each of `/dev`, the devices, `/dev/shm` and the requested
mount points a walk from `chroot_fd` by `safe_chdir_component`.  Each `lstat`,
`chdir` and second `lstat` is a step of its own (`Lstat`, `Chdir`, `Lstat2`), since
the caller owns the tree and may change it in between: `Exchange` is a rename
(or an exchange) of two names in its directories, one of which may be a link it
has prepared, `Remove` an rmdir of an empty directory, `Replace` a rename of a
directory to the name of an empty one, and `Chmod` changes permissions or group of
a directory.  The caller's namespace has no mount on a directory that is covered
in the executor's, so it may remove that one too: the kernel then detaches the
mount with what is mounted below it (`"gone"`, `Attached`), and `getcwd` and `mount`
fail there.  `on` remembers where each file system was mounted, which
`SetupAsRequested` needs: what was requested has been mounted, and is missing
only if its directory was removed by the caller, who thereby harms nobody but its
own job.  Removals after the start of the program are not modelled.
`entry` is the directory tree, `mnt` the mounts of the executor's namespace, which
the caller does not see; a mount stays with the directory it covers when that is
renamed.  `attr` keeps of a mode and a group what the validators tell apart.

The tree is a small one: `dev`, `sys/fs/cgroup` with its last directory owned by
user1, a link or nothing at `dev`, a directory outside the prefix, two system
directories, one of which the caller cannot search.  It is assumed, as the
validators do, that the caller cannot put a directory of root into its own ones.
Steps on descriptors or on root's directories alone (`fchdiruid`,
`setup_fstab`) are atomic.  `todo` is the set of what is still to be set up and
`Rank` the order in which it is taken: three fixed calls, then the requests as
`parse_str_list` has sorted them.  Mount options, console nodes and the kernel's reasons
to refuse a mount are left out; every refusal ends the executor (`Die`).  The
host's mounts are shared and `/` is a mount point.

A consequence of the validators: with `/sys` mounted, `/sys/fs/cgroup` is always
refused, because its walk then meets a directory of root.

### CallerConfig

The session server reads `system`, the caller's file under `user.d` (by uid, else by
name) and in a numbered session the file of that number (`LoadSystem`,
`LoadUser`, `LoadNumbered`), then checks the pseudo-users (`CheckUsers`); the executor
of a job reads the job's environment (`ParseEnv`).  A file is the set of its
options: options that the code handles alike have one representative.  Numbers
are converted modulo the width of an unsigned long (`Str2Ul`), as strtoull does
with a minus sign; `UlongMax` is a constant.  Any of the steps may end the process.

### PayloadStart

`CallerConfig` composed with one job, from its runner to `execve(2)`; `pc` is the
control point of the process that the job is in.

* *Look-up of the client.*  The runner joins the cgroup of the client and the
  executor its namespaces, both through `/proc/PID`.  The client may leave and
  its pid may be taken at any moment (`PidChanges`), so open, owner check, read,
  comparison of each namespace and open of each namespace are separate steps.
  An open directory of /proc stays with its process.
* *Earlier jobs.*  `left` is what a former job left: processes, which go on
  creating IPC objects, and the objects in the namespace of the server or the
  client.  `KillUid` only makes SIGKILL pending: a `"dying"` process finishes its
  system call, which may make one `"last"` object, at any later moment or not before
  the payload starts (`DyingActs`).  The two halves of `PurgeIpc` remove the
  objects of one user each in the IPC namespace the executor is in, but skip
  what `*_STAT` refuses to their owner (mode 0000) and what was given to another user
  (`"hidden"`).  `Survivors` lists what may therefore remain, and `FreshStart` says
  that nothing else does.  `*_INFO` itself only fails without System V IPC, when
  there is nothing to purge.
* *Ids, limits, namespaces.*  `InitGroups`, `SetRlimits`,
  `UnshareIpcUtsNetwork`, `ChildIdentity`.
* *Descriptors.*  A number maps to what is open there; calls take the lowest
  free number.  Initially the descriptors the client sent stand in any order
  between those of the session.  After fork the two halves share nothing, so a
  behaviour follows one of them (`who`).
* *Affinity.*  `set_affinity_nproc` is `StartAffinity`, one `Shuffle` for each call of
  `random()` and `SetAffinity`.

An input (environment, kernel, terminal) is chosen where the code first looks at
it.

### X11Relay and X11Forward

`X11Relay` is the promise: every connection is a pair of byte streams; bytes are
delivered in order, once, to their own connection; a broken connection loses what
is under way; the only change is the real key for the fake one in a first
packet.

`X11Forward` is the parent's code: the descriptor table, `io_x11_list` with its
reused slots, the descriptors `pselect` reported (`ready`), then slot by slot
`WriteSlave`, `ReadMaster`, `WriteMaster`, `ReadSlave` in the order of
`x11_handle_select`, then `HandleNew` and `HandleCtl`.  Writes may be partial.
Programs and X server send, stall and close at any time (`Send`, `Drain`, `Shut`).
The control socket belongs to the child, so anything may come over it; `stray`
is a descriptor that `x11_check_listen` or `fd_recv` refuses without closing it.
`x11_connect` is one step: over TCP it may block, which is not modelled.
`RelaysStreams` is the abstract specification under the mapping `Status` (where a
connection is), `UnderWay` (the bytes in the relay's buffer, then those in the
socket) and `Given` (what the far end was given).  A first read that finds the fake
key (`WithRealKey`) is the abstract `Authenticate`.

## 4. Runs

| Run | Shows |
|---|---|
| `session_pool_safety` | `PoolTracksChildren`, `OneServerPerKey`, `NoDeathForgotten`, `SocketLeadsToServer`, `ServedCreds` for three clients of one user with two groups and two numbers, two reused pids, signals for servers, clients that are killed or come back |
| `session_pool_crash` | the refinement `ServesSessions`, `ShutdownCompletes`, `ClientsAnswered` and `LostServersLeave` when the daemon is killed or asked to finish at any point and started a second time, with signals for servers, runners at work and clients that come back |
| `session_pool_done` (violation) | the daemon answers DONE for a recorded session whose server is not ready |
| `job_request` | `RunSafe`, `ClientAccepted`, `HandlerTerminates` for hasher-priv and for any other peer |
| `job_runner` | the refinement `ServesJob`, `HandlerReleased` and `LateDisconnectAborts` for both kinds of jobs |
| `job_runner_abort` (violation) | a disconnect while the executor is root does not abort the job |
| `parent_io` | `HandlerNeverBlocks`, `OutputComplete`, `ExitCodeIsTrue`, `ParentLeaves` with and without a pty, with log connections before and after the death of the child |
| `parent_io_elapsed` (violation) | a payload that always has output ready escapes `wlimit_time_elapsed` |
| `pidfile` | `SerialStartsAreSafe`, `NoMutualRefusal` |
| `chroot_setup` | `MountsCoverOwnDirs`, `NodesOnlyInTmpfs`, `NeverPastPermissions`, `NothingOutside`, `SetupIsExact` with up to two changes by the caller (renames, removals, permissions) at any point |
| `payload_start` | `PayloadHoldsItsStreams`, `ParentHoldsItsEnds`, `AffinityIsExact` for all combinations of pty, devpts, X11, terminal and log socket; `PayloadIdentity`, `LimitsHold` for files and environments in conflict with each other; `PayloadIsolated`; `FreshStart` with an earlier job at work, its objects readable or not, and processes that die late; `StaysWithCaller` with a client that leaves and a pid that is used again, by the caller or another user |
| `x11_forward` | the refinement `RelaysStreams`, `WholePacketAuthenticated`, `OnlyPeersBreak`, `SleepsOnlyBehindFullEnd`, `DescriptorsMatchSlots` for two connections that overlap in every way |

The types of `SessionPool` are proved (`PoolIsTyped`) and not checked again by a run.

The violations are disagreements between the code and its documentation.

* `DoneMeansReady`: the comment in `start_session` and DESIGN say the response
  is delayed until the server is ready.  That is so for the request that forks
  it; a second request is answered at once, and its client then fails to
  connect.
* `DisconnectAborts`: hasher-privd(8) says the job must be aborted.  The runner
  has the caller's ids, so its `kill(2)` fails until the executor has taken them
  too, and the runner then leaves without waiting.  `LateDisconnectAborts` is
  what does hold.  A second way to miss a disconnect: any SIGCHLD, also one for
  a stopped executor, makes the runner block in `waitpid`; that is why
  `LateDisconnectAborts` starts from the polling runner.
* `ElapsedIsEnforced`: hasher-priv.conf(5) says the option limits the total
  execution time; the timer's signal is only delivered when `pselect` has nothing
  ready.

Further remarks from modelling:

* hasher-privd(8) says that a session server "proceeds to poll" while a handler
  works; in the code it waits for the handler, which is why
  `HandlerTerminates` and `HandlerReleased` matter.
* `SocketLeadsToServer` holds only for one life of the daemon: after a kill and a
  restart, a server the old daemon forked can unlink and rebind the path of a
  new one.  `LostServersLeave` shows that this heals.
* `SerialStartsAreSafe` needs starts that do not overlap: `check_pid` and
  `write_pid` are not atomic and `daemon(3)` lies between them, so two
  overlapping starts can both serve.
* `do_killuid` succeeds although something of an earlier job remains.  It removes
  IPC objects in the IPC namespace of the server; that of a client with one of
  its own is entered afterwards, and what is there stays.  It skips objects
  that `*_STAT` refuses and ignores a failed `IPC_RMID`.  It does not wait for the
  processes it has killed.  `FreshStart` names all of these (`Survivors`); whether
  a payload meets the objects depends on its sharing the IPC namespace.
* A log connection of a background process that is made after the payload's
  death was noticed is never accepted, although the executor still copies the
  output of that process; `OutputComplete` leaves it out.
* A caller that removes an empty directory of its own while a job is set up
  takes the file system mounted there away from that job, which starts
  nevertheless.
* `x11_check_listen` and `fd_recv` do not close a descriptor they refuse.  It stays
  open until the executor ends, but then there is no forwarding either, so at
  most one message is lost in this way; `DescriptorsMatchSlots` states both.
* `setup_ns` does not look at the result of `openat`: if the client dies between
  `fstatat` and `openat` of the last entry that differs, the job goes on in the
  server's namespace of that kind.  `StaysWithCaller` admits this.
* The fake X11 key is looked for in the first read only.  A program whose first
  packet arrives in two pieces is passed on with the fake key, which the X
  server refuses; `WholePacketAuthenticated` is about a packet written at once.

### Bounds

* Pids, clients, callers: two pids are enough for two servers of one daemon, for
  an orphan beside a new server, and for the reuse of a pid; two clients for
  every race on one key; the third client adds a second number of the same user.
* `SessionTimeout = 1`, `Backlog = 0`: a timeout can always be the next thing to
  happen, and a full backlog (one waiting connection) blocks the second client.
* `MaxGen = 2` in `session_pool_crash`: one kill or stop of the daemon and one
  restart.  The last daemon is neither killed nor asked to finish, which would
  only repeat what happened to the first.  `Events` selects what the environment
  may do: signals for servers, killed clients and clients that come back in
  `session_pool_safety`; kills and termination of the daemon, signals for servers and
  returning clients in `session_pool_crash`.  All at once do not fit into one
  run; the theorems about `SessionPool` hold for any `Events` and `MaxGen`.
  `ValidPeer` is true of the clients of these runs; that a caller that is
  refused never gets a session is part of the proof of `ServesSessions`
  (`Eligible` in `Open`).
* JobRequest: lengths that are zero, too short, a descriptor, three descriptors
  and too long; every single bit and two combinations as types.
* ParentIO: one byte in an output pipe, two in an input queue (so that writes can
  be partial); a read limit of three, above the input queue, so that a full queue
  is reached before the limit; a write limit of two; idle time of one second;
  one exit code, 0, and one signal, since only 0 is told apart.
* ChrootSetup: two changes by the caller, enough to swap a name before `chdir` and
  to restore it before the second `lstat`, to disturb two walks, or to remove two
  directories; request lists
  with a device, a missing device, a device outside `/dev`, `/dev/pts`, a mount
  point and one below it, an unknown item and one of bad form; with and without
  a configured prefix.
* PayloadStart: three processors with a gap in their numbers, `nproc` none, two
  or invalid, so that positions in the shuffle coincide or not; `MaxFd` is above
  what one executor opens.  `UlongMax` is 7: the limits 0 to 3 and a minus
  number, which becomes a great one.  The files miss, are unsafe, override or
  undo each other, and name pseudo-users that are the caller, share its uid or
  each other's, are too low or unknown.  An earlier job left nothing, or a process
  with objects of both kinds in both namespaces.  The pid of the client may be taken by
  two processes of the caller (one with fewer namespaces, one with another pid
  namespace) and one of another user.  `View` identifies states that differ only
  in `atpid` and `cgroup` once nothing reads or changes them.
* X11Forward: two connections, buffers of two tokens, a first packet of two, one
  reply: enough for a split first packet, a partial write towards the X server,
  and a slot or a number used again within one turn.  Programs that send more
  only repeat these.  A reply of one token is never written in part; partial
  writes towards a program are covered by the proof of `RelaysStreams` only.
* PidFile: three starts, four process ids, one of them of another process.

`CHECK_DEADLOCK FALSE` is used where the modelled part ends by itself: a job
request, a job, an executor, a daemon that was started as often as the bound
allows, an X11 parent whose peers have sent what the bounds allow.

### Fairness

`FairSpec` of each module is weak fairness of what a process does by itself: the
scheduler runs every process that can move, the kernel's receive timeouts
expire, `epoll_wait` returns after its second.  Nothing is assumed about
signals, kills, restarts, when a client sends, when a chrootuid payload ends,
writes or reads, and so nothing about the end of a runner: `ClientsAnswered` says
of a client whose job runs apart only that its runner holds the connection.
`ParentLeaves` takes the client's end of the output to be read: a client that
stalls makes the executor block in its write, which is left out.  The exception:
auxiliary jobs end (in `JobRunner`, and as `HandlerRunsJob`), as the code trusts them
to ("could be trusted to not linger too long").

## 5. Proofs

Each proof module states an inductive invariant, a lemma for each group of
actions, `Spec => []Inv`, and the properties as its consequences.  The invariants
were checked by TLC on the runs' instances first.  What is proved holds for
every value of the constants that satisfies the assumption named in the module
that declares them; these assumptions only give the constants their types,
except that `PidFile` has different inodes and pids for what is different,
`PayloadStart` takes the client for a process of its caller and has the four
descriptors it sends at different numbers from 4 to 7, and `CallerConfig` has
a password database without an empty name.

| Module | Theorems (property) |
|---|---|
| `SessionPoolProofs` | `PoolIsTyped` (`TypeOK`), `PoolIsTrue` (`PoolTracksChildren`), `DeathsAreKnown` (`NoDeathForgotten`), `KeysHaveOneServer` (`OneServerPerKey`), `CredentialsMatch` (`ServedCreds`), `PathsLeadToServers` (`SocketLeadsToServer`), `ConnectionsAreInOnePlace` (`ConnInv`), `SessionsAreServed` (`ServesSessions`) |
| `JobRequestProofs` | `TypeCorrect` (`TypeOK`), `RunIsSafe` (`RunSafe`), `RequestsAreAccepted` (`ClientAccepted`) |
| `JobRunnerProofs` | `ResultsAreTrue` (`Promise` of `JobService`) |
| `ParentIOProofs` | `HandlerIsShort` (`HandlerNeverBlocks`), `OutputIsComplete` (`OutputComplete`), `ExitCodeIsThatOfPayload` (`ExitCodeIsTrue`) |
| `PidFileProofs` | `SerialStartsSafe` (`SerialStartsAreSafe`), `SomeStartPrevails` (`NoMutualRefusal`) |
| `ChrootSetupProofs` | `MountsStayInTree` (`MountsCoverOwnDirs`), `NodesStayInTmpfs` (`NodesOnlyInTmpfs`), `RootNeedsPermission` (`NeverPastPermissions`), `MountsStayInside` (`NothingOutside`), `SetupIsWhatWasRequested` (`SetupAsRequested`), `SetupIsAsRequestedAndInPlace` (`SetupIsExact`) |
| `PayloadStartProofs` | `LimitsAreKept` (`LimitsHold`), `NothingIsLeft` (`FreshStart`), `PayloadIsPseudoUser` (`PayloadIdentity`), `PayloadIsIsolated` (`PayloadIsolated`), `JobStaysWithCaller` (`StaysWithCaller`), `ProcessorsAreCounted` (`AffinityIsExact`), `PayloadGetsItsStreams` (`PayloadHoldsItsStreams`), `ParentGetsItsEnds` (`ParentHoldsItsEnds`) |
| `X11ForwardProofs` | `DescriptorsBelongToSlots` (`DescriptorsMatchSlots`), `BreaksComeFromPeers` (`OnlyPeersBreak`), `WholePacketsGetTheRealKey` (`WholePacketAuthenticated`), `NothingServableIsLeft` (`SleepsOnlyBehindFullEnd`), `ForwardingRelays` (`RelaysStreams`) |

The arguments:

* **SessionPool** (`PoolInv`).  The pool is the set of children but for the one in
  the daemon's hands (`DaemonOk`: between fork and record it has its caller, and
  no record has that key), and records have different keys.  `ServedCreds`
  needs `ServersOk`: the key of a caller leaves out the gid, so the argument goes
  through the primary group a server has checked before it binds, and
  through the clients in its backlog being of its key, which needs
  `PathsOk`.  `SocketLeadsToServer` is false after a kill of the daemon (an orphan
  rebinds the path), so `PathsLeadToServers` assumes that `Events` has no
  `"crash"`; stops, starts and the death of servers remain.  Its invariant adds
  that every server has its parent, so that two that bind one path would be
  two children with one key.
  The refinement needs `ConnInv` besides: the server end of a connection is in one
  place (`OnePlace`), no client is twice in a backlog, and a connection that asks
  or waits has not been answered (`ClientOk`).  From it follow that the answer of
  the daemon never counts as the result of a job, that a client with a result has
  left its line, and that one that is killed comes back without a place in
  one.  That `Open` finds no other session of the key is `PoolTracksChildren`.
  A runner is one more place for a connection (`InRunner`); it has the ids of its
  own client (`RunnersOk`), as its server had, and a client whose job runs is
  connected or killed.  A result comes only for the request in hand or from the
  runner that ends (`OnlyJobsInHand`), so it is the answer of the client's own job.
  Each action has a lemma (`OpenStep`, `CallStep`, `AnswerStep` for both kinds of
  end of a handler, `FinishStep` for that of a runner, `LeaveStep`,
  `ClientSimulates`; `HiddenStep` for the rest), joined in `ServiceStep`.
* **JobRequest** (`JobInv`, `ScriptInv`).  For `RunSafe`: a field of the job is set
  only if its command is in `mask`; arguments present were valid for `jtype`, and
  `jtype` cannot change since a second CMD_JOB_TYPE would be a repetition;
  arguments before a type are impossible since no count is valid for JOB_NONE.
  For `ClientAccepted`: while the handler receives, what is on the wire and what
  the client has left are the rest of the script of one plan, and `mask`
  is what the part before leaves (`Stage`).
* **JobRunner** (`RunnerInv`).  The executor is forked once, by a runner that has
  none, so a job that is over does not start again; `ReportedStatus` is about
  `wait_job`.  `StepIsService` takes each action to a step of `JobService` or to a
  stutter.
* **ParentIO** (`ParentInv`).  A pending SIGCHLD is never that of the killuid
  child, since the signal is blocked only after it was waited for; so the
  handler finds the payload dead.  Without a pty a stream that is no longer
  read is at its end.  `pselect` lets the signal in only when no descriptor is
  ready, so when the death is noticed every log connection made before has been
  accepted, and is then read to its end; the late ones are what the theorem
  excludes.
* **PidFile** (`PidFileInv`).  The lock is held by the process that has the file
  open, between `flock` and `close`; starts that do not overlap are past `check_pid`
  one at a time, with no daemon in service, and write the file that the path
  leads to.
* **ChrootSetup** (`SetupInv`).  What the caller can do is limited by
  `EntriesOk`: no name in a directory of its own leads to one of root.  What the
  executor stands in is fixed by `WalkOk` (`StandsIn`, `Entered`, `Arrived`):
  after the first `lstat` the directory is known to be the caller's, whatever
  its name leads to later, and for `/dev/shm` and `/dev/pts` the walk goes
  through the tmpfs, whose names the caller cannot change.  `PlacedOk` has every
  file system that was mounted on the directory `on` says, unless the caller has
  removed it, in which case it has no name and never gets one again.  `OrderOk`
  has `/dev` before the devices and these before the rest.  `SetupIsExact` adds
  `AloneInv`: as long as the caller has changed nothing, each mount that was
  made is on the directory its path names (`PointsOk`) and still there
  (`StillOk`), no cgroup is mounted while a sysfs is still to come, nor below
  one, which would hide it (`HiddenOk`), and whoever walks is where its path
  leads so far (`PathOk`).  The recursive function of `Walk` is unrolled for
  paths of one to three elements (`WalkOfOne` to `WalkOfThree`); the model has
  no longer ones.  The tree is the one of the model; requests, configuration and
  the number of changes are arbitrary.
* **PayloadStart** (`StartInv`, `StreamsInv`).  One named conjunct for each
  concern, by stages of the job: for the leftovers, no process is alive from the
  kill on, so that what is still made is `"last"`, and each half of the purge
  leaves no plain object of its user; further options, limits, leftovers, ids,
  namespaces, the process behind `/proc/PID` between its owner check and its
  last use, the shuffle. `AffinityIsExact` rests on `RankIsBijection`: the
  position of a processor in the mask is a bijection to an interval, so that as
  many processors as bits are kept. `StreamsInv` follows the descriptor table.
  Up to the pipes it is known number by number (`CompactOk`): `sanitize_fds`
  makes one table of all the orders in which descriptors can arrive.  From then
  to the fork the table has no gap (`Filled`), so that a call returns the number
  behind the last one (`PutGrows`), every variable has the only number of its
  object (`Holds`), and a pty opened in the chroot has a higher number than the
  other, which is how `chrootuid` tells that there is one.  After the fork each
  half keeps what it needs because numbers of different objects are different
  (`HoldsApart`), and all that the child still has above stderr carries the
  close-on-exec flag (`PayloadOk`).
* **X11Forward** (`ForwardInv`, `RelayInv`).  The control socket is read once and
  nothing is accepted before the listening socket came from it (`CtlInv`), so a
  descriptor that is forgotten there is alone.  A number in the table is the end of one
  connection and of one slot; what `pselect` has said of a descriptor to be
  written stays true until its turn, because a freed number is taken
  again only after all slots were visited; the fake key is at the front of what
  was not read until the slot is authenticated and nowhere afterwards.  The
  refinement adds that an end only carries bytes of its own connection and that
  the X server has got nothing before the first read; then each action is
  one step of `X11Relay` for its connection and direction and leaves the others
  as they are (`StepIsRelayed`).

Only model-checked, and why:

* liveness: `ShutdownCompletes`, `ClientsAnswered`, `LostServersLeave`,
  `HandlerTerminates`, `HandlerReleased`, `LateDisconnectAborts`, `ParentLeaves`, and
  the fairness of `ServesJob`; the prover handles neither fairness nor ENABLED;
* the violations, which are traces.

## 6. Not modelled

* The lexical rules of command line and configuration files, and the server
  configuration file, which is read once at start.
* Logging, memory allocation, the wire format of strings and of the first X11
  packet, the output of getconf and getugid: they print or copy and keep no
  state that a property could be about.
* Pseudo-terminal set-up and the window size: sequences of ioctls on one
  descriptor.
* Mount options, console nodes, the addresses of the network interface: their
  effect is in the kernel.
* What two jobs of one session do to each other.  That they run at the same time
  is modelled (`SessionPool` has a runner for each client), but not that
  `spawn_killuid` of the second kills the payload of the first; for the session
  layer this is a runner that ends, which it may at any time.
* A client that does not read its output, a blocking TCP connection to an X server,
  failures of `accept4`.
* The administration scripts.

PROJECT.json lists every component with its status and every hazard
with the properties that cover it.
