---------------------------- MODULE JobRequest ----------------------------
(***************************************************************************)
(* The job request protocol: the job request handler forked by a session   *)
(* server for every connection (receive_job_request in caller_job.c) and   *)
(* the client that talks to it, either hasher-priv (main in hasher-priv.c) *)
(* or a peer that sends whatever it likes.                                 *)
(*                                                                         *)
(* A command is a header (type, len) and, for some types, a payload.  Types*)
(* are bit masks in the code: a type is a set of bit numbers here, so that *)
(* "mask & hdr.type" is an intersection and "mask |= hdr.type" a union, and*)
(* a header may carry no bit or several.  A payload of strings is          *)
(* represented by the number of strings recv_strings_from_client finds in  *)
(* it, descriptors by the fact that they were received.                    *)
(***************************************************************************)
EXTENDS Integers, Sequences

CONSTANTS
  Lens,           \* bound: the values of hdr.len
  FdSize,         \* sizeof(int)
  MaxArgsSize,    \* MAX_ARGS_SIZE of recv_strings_from_client
  MaxArgc,        \* bound: strings in a payload
  RogueTypes,     \* bound: the values of hdr.type a peer other than hasher-priv uses
  NoMsg           \* no message

\* communication.h; bit 8 stands for every bit that is no command.
Bits == 0..8
OPEN_SESSION == {0}
TYPE == {1}
FDS == {2}
ARGUMENTS == {3}
ENVIRON == {4}
CHROOT_FD == {5}
PERSONALITY == {6}
RUN == {7}

JOB_NONE == 0
Spawning == {4, 6}        \* JOB_CHROOTUID1, JOB_CHROOTUID2: is_job_spawning
Auxiliary == {1, 2, 3, 5} \* JOB_GETCONF, JOB_KILLUID, JOB_GETUGID1, JOB_GETUGID2

Commands == {TYPE, FDS, ARGUMENTS, ENVIRON, CHROOT_FD, PERSONALITY, RUN}

Messages == [type : SUBSET Bits, len : Nat, argc : Nat]

ASSUME JobConstants ==
  /\ Lens \subseteq Nat
  /\ FdSize \in Nat /\ MaxArgsSize \in Nat /\ MaxArgc \in Nat
  /\ RogueTypes \subseteq SUBSET Bits
  /\ NoMsg \notin Messages

VARIABLES
  hpc,      \* handler: "recv", "ran" (the runner took over), "failed" (exited)
  mask,     \* job->mask: the commands received so far
  jtype,    \* job->type
  persona,  \* job->persona was received
  std_fds,  \* job->std_fds were received
  chroot_fd,\* job->chroot_fd was received
  argc,     \* the number of strings in job->argv
  env,      \* job->env was received
  wire,     \* the message the peer has sent and the handler not yet taken
  resp,     \* the response the handler has sent and the client not yet taken
  cpc,      \* hasher-priv: "send", "wait", "ok", "dead"; "rogue" is another peer
  script,   \* the commands hasher-priv has still to send
  fault     \* what has gone wrong: "none", "resource" (or a timeout), "size"

jobVars == <<jtype, persona, std_fds, chroot_fd, argc, env>>
clientVars == <<cpc, script>>
vars == <<hpc, mask, jtype, persona, std_fds, chroot_fd, argc, env,
          wire, resp, cpc, script, fault>>

-----------------------------------------------------------------------------
(* The commands of hasher-priv.  parse_cmdline gives chrootuid jobs at      *)
(* least one argument and other jobs none.                                  *)

Fds(cmd, n) == [type |-> cmd, len |-> FdSize * n, argc |-> 0]
\* n strings of one byte and their terminators: "size" of send_strings.
Strings(cmd, n) == [type |-> cmd, len |-> 2 * n, argc |-> n]

\* main: the sequence of send_type, send_fds, send_strings, send_personality
\* and send_run; send_personality may find nothing to send.
Script(job, nargs, nenv, pers) ==
  << [type |-> TYPE, len |-> job, argc |-> 0], Fds(FDS, 3) >>
  \o (IF job \in Spawning
        THEN << Strings(ARGUMENTS, nargs), Strings(ENVIRON, nenv), Fds(CHROOT_FD, 1) >>
             \o (IF pers THEN << [type |-> PERSONALITY, len |-> 0, argc |-> 0] >> ELSE <<>>)
        ELSE <<>>)
  \o << [type |-> RUN, len |-> 0, argc |-> 0] >>

\* The peer and its script: nothing is prescribed to a peer that is not
\* hasher-priv.
StartScript ==
  \/ cpc = "rogue" /\ script = <<>>
  \/ /\ cpc = "send"
     /\ \E job \in Spawning, nargs \in 1..MaxArgc, nenv \in 0..MaxArgc, pers \in BOOLEAN :
          script = Script(job, nargs, nenv, pers)
  \/ /\ cpc = "send"
     /\ \E job \in Auxiliary : script = Script(job, 0, 0, FALSE)

\* Every "struct job" starts like in spawn_job_request_handler.
Init ==
  /\ hpc = "recv" /\ mask = {}
  /\ jtype = JOB_NONE /\ persona = FALSE /\ std_fds = FALSE
  /\ chroot_fd = FALSE /\ argc = 0 /\ env = FALSE
  /\ wire = NoMsg /\ resp = "none" /\ fault = "none"
  /\ StartScript

-----------------------------------------------------------------------------
(* The job request handler.                                                *)

\* cancel_job: a response with CMD_STATUS_FAILED, then exit.
CancelJob ==
  /\ hpc' = "failed" /\ resp' = "failed" /\ wire' = NoMsg

\* "mask & hdr.type": the command, or one of its bits, was seen before.
RepeatedNever == FALSE
Repeated == mask \cap wire.type # {}

\* A header has arrived, is not repeated and is recorded.
Received ==
  /\ hpc = "recv" /\ wire # NoMsg /\ ~Repeated
  /\ mask' = mask \cup wire.type

Command(t) == Received /\ wire.type = t

\* The end of a round of the loop: the response to a command.
Done == resp' = "done" /\ wire' = NoMsg /\ UNCHANGED <<hpc, clientVars, fault>>

\* The payload does not arrive in time or is not what it should be.
BadPayload ==
  /\ CancelJob /\ fault' = "resource"
  /\ UNCHANGED <<jobVars, clientVars>>

\* respond_bad_request on the contents of a command.
BadRequest == CancelJob /\ UNCHANGED <<jobVars, clientVars, fault>>

\* recv_strings_from_client refuses the length before it reads the strings.
TooLong ==
  /\ CancelJob /\ fault' = "size"
  /\ UNCHANGED <<jobVars, clientVars>>

\* validate_arguments: exact for auxiliary jobs, a minimum for chrootuid.
ValidArgumentsOver(type, n) ==
  \/ type \in Auxiliary /\ n = 0
  \/ type \in Spawning /\ n > 1
ValidArguments(type, n) ==
  \/ type \in Auxiliary /\ n = 0
  \/ type \in Spawning /\ n >= 1

\* validate_job.
ValidJob(type, m) ==
  type \in Spawning => CHROOT_FD \subseteq m /\ ARGUMENTS \subseteq m

\* xrecvmsg fails: no header within the receive timeout, or end of file.
RecvFailsAtEof ==
  /\ hpc = "recv" /\ wire = NoMsg /\ cpc = "dead"
  /\ CancelJob /\ fault' = "resource"
  /\ UNCHANGED <<mask, jobVars, clientVars>>
RecvFails ==
  /\ hpc = "recv" /\ wire = NoMsg
  /\ CancelJob /\ fault' = "resource"
  /\ UNCHANGED <<mask, jobVars, clientVars>>

RejectRepeated ==
  /\ hpc = "recv" /\ wire # NoMsg /\ Repeated
  /\ CancelJob
  /\ UNCHANGED <<mask, jobVars, clientVars, fault>>

OnType ==
  /\ Command(TYPE)
  /\ jtype' = wire.len
  /\ Done /\ UNCHANGED <<persona, std_fds, chroot_fd, argc, env>>

OnPersonality ==
  /\ Command(PERSONALITY)
  /\ persona' = TRUE
  /\ Done /\ UNCHANGED <<jtype, std_fds, chroot_fd, argc, env>>

OnChrootFd ==
  /\ Command(CHROOT_FD)
  /\ \/ /\ wire.len = FdSize
        /\ chroot_fd' = TRUE
        /\ Done /\ UNCHANGED <<jtype, persona, std_fds, argc, env>>
     \/ wire.len = FdSize /\ BadPayload
     \/ wire.len # FdSize /\ BadRequest

OnFds ==
  /\ Command(FDS)
  /\ \/ /\ wire.len = FdSize * 3
        /\ std_fds' = TRUE
        /\ Done /\ UNCHANGED <<jtype, persona, chroot_fd, argc, env>>
     \/ wire.len = FdSize * 3 /\ BadPayload
     \/ wire.len # FdSize * 3 /\ BadRequest

OnArgumentsLess ==
  /\ Command(ARGUMENTS)
  /\ wire.len <= MaxArgsSize /\ ValidArguments(jtype, wire.argc)
  /\ argc' = wire.argc - 1
  /\ Done /\ UNCHANGED <<jtype, persona, std_fds, chroot_fd, env>>

\* recv_strings_from_client and then validate_arguments for the type known now.
OnArguments ==
  /\ Command(ARGUMENTS)
  /\ \/ /\ wire.len <= MaxArgsSize
        /\ ValidArguments(jtype, wire.argc)
        /\ argc' = wire.argc
        /\ Done /\ UNCHANGED <<jtype, persona, std_fds, chroot_fd, env>>
     \/ wire.len <= MaxArgsSize /\ BadPayload
     \/ wire.len > MaxArgsSize /\ TooLong
     \/ /\ wire.len <= MaxArgsSize
        /\ ~ValidArguments(jtype, wire.argc)
        /\ BadRequest

OnEnviron ==
  /\ Command(ENVIRON)
  /\ \/ /\ wire.len <= MaxArgsSize
        /\ env' = TRUE
        /\ Done /\ UNCHANGED <<jtype, persona, std_fds, chroot_fd, argc>>
     \/ wire.len <= MaxArgsSize /\ BadPayload
     \/ wire.len > MaxArgsSize /\ TooLong

\* On success the runner owns the connection and the handler exits silently.
OnRun ==
  /\ Command(RUN)
  /\ \/ /\ wire.len = 0 /\ ValidJob(jtype, mask)
        /\ hpc' = "ran" /\ wire' = NoMsg
        /\ UNCHANGED <<jobVars, resp, clientVars, fault>>
     \/ wire.len = 0 /\ ValidJob(jtype, mask) /\ BadPayload \* pipe or fork fails
     \/ ~(wire.len = 0 /\ ValidJob(jtype, mask)) /\ BadRequest

\* No bit, several bits, CMD_OPEN_SESSION or a bit that is no command.
OnUnknown ==
  /\ Received /\ wire.type \notin Commands
  /\ BadRequest

-----------------------------------------------------------------------------
(* The peers.                                                              *)

\* hasher-priv sends its next command ...
ClientSend ==
  /\ cpc = "send" /\ script # <<>> /\ wire = NoMsg /\ hpc = "recv"
  /\ wire' = Head(script) /\ script' = Tail(script)
  /\ cpc' = "wait"
  /\ UNCHANGED <<hpc, mask, jobVars, resp, fault>>

\* ... and waits for the response to it.
ClientRecv ==
  /\ cpc = "wait" /\ resp # "none"
  /\ cpc' = IF resp = "done" THEN "send" ELSE "dead"
  /\ resp' = "none"
  /\ UNCHANGED <<hpc, mask, jobVars, wire, script, fault>>

\* The response to the last command comes from the runner.
ClientRan ==
  /\ cpc = "wait" /\ resp = "none" /\ hpc = "ran"
  /\ cpc' = "ok"
  /\ UNCHANGED <<hpc, mask, jobVars, wire, resp, script, fault>>

\* Sending to a handler that has given up.
ClientEOF ==
  /\ cpc = "send" /\ hpc = "failed"
  /\ cpc' = "dead" /\ resp' = "none"
  /\ UNCHANGED <<hpc, mask, jobVars, wire, script, fault>>

\* The client is killed.
ClientKilled ==
  /\ cpc \in {"send", "wait"}
  /\ cpc' = "dead"
  /\ UNCHANGED <<hpc, mask, jobVars, wire, resp, script, fault>>

\* Another peer sends any header, without waiting for responses.  A payload
\* of len bytes holds no string if it is empty and at most len otherwise.
RogueSend ==
  /\ cpc = "rogue" /\ wire = NoMsg /\ hpc = "recv"
  /\ \E t \in RogueTypes, n \in Lens, k \in 0..MaxArgc :
       /\ k <= n /\ (k = 0 <=> n = 0)
       /\ wire' = [type |-> t, len |-> n, argc |-> k]
  /\ UNCHANGED <<hpc, mask, jobVars, resp, clientVars, fault>>

HandlerStep ==
  \/ RecvFails \/ RejectRepeated \/ OnType \/ OnPersonality \/ OnChrootFd
  \/ OnFds \/ OnArguments \/ OnEnviron \/ OnRun \/ OnUnknown

Next ==
  \/ HandlerStep
  \/ ClientSend \/ ClientRecv \/ ClientRan \/ ClientEOF \/ ClientKilled
  \/ RogueSend

Spec == Init /\ [][Next]_vars

\* The handler is scheduled and the kernel delivers receive timeouts.
FairSpec == Spec /\ WF_vars(HandlerStep) /\ WF_vars(ClientRecv \/ ClientRan \/ ClientEOF)

-----------------------------------------------------------------------------
(* Properties.                                                             *)

TypeOK ==
  /\ hpc \in {"recv", "ran", "failed"}
  /\ mask \in SUBSET Bits
  /\ jtype \in Nat /\ argc \in Nat
  /\ persona \in BOOLEAN /\ std_fds \in BOOLEAN /\ chroot_fd \in BOOLEAN /\ env \in BOOLEAN
  /\ wire \in Messages \cup {NoMsg}
  /\ fault \in {"none", "resource", "size"}
  /\ script \in Seq(Messages)
  /\ resp \in {"none", "done", "failed"}
  /\ cpc \in {"send", "wait", "ok", "dead", "rogue"}

\* Whatever the peer sends and in whatever order, a job that is run has the
\* arguments its final type calls for: the arguments were checked against the
\* type known when they came, which nothing may have changed since, and a
\* chrootuid job has a root directory and a program.
RunSafe ==
  hpc = "ran" =>
    /\ jtype \in Spawning => chroot_fd /\ argc >= 1
    /\ jtype \notin Spawning => argc = 0

\* hasher-priv and the handler agree on the protocol: unless a receive times
\* out, a resource is exhausted or its strings are longer than MAX_ARGS_SIZE,
\* no command of hasher-priv is refused.
ClientAccepted ==
  cpc # "rogue" /\ hpc = "failed" => fault # "none"

\* The session server waits for the handler, so the handler must come to an
\* end whatever the peer does: silence runs into the timeout, and a talkative
\* peer runs out of commands, because none is accepted twice.
HandlerTerminates == <>(hpc # "recv")
=============================================================================
