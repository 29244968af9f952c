---------------------------- MODULE CallerConfig ----------------------------
(***************************************************************************)
(* The configuration of a session and of one of its jobs (caller_config.c, *)
(* file_config.c, x11.c): the session server loads the system file, the    *)
(* file of the caller and, in a numbered session, the file of that number, *)
(* and checks the two pseudo-users; the executor of a job then reads the   *)
(* environment that came with the job.                                     *)
(*                                                                         *)
(* The contents of a file are the options it sets.  Options that are       *)
(* handled alike have one representative: wlimit, hard and soft for the    *)
(* limits of every kind, nproc for the numbers with bounds.  Numbers are   *)
(* what the text says; the conversions are Str2Ul and Str2Bool.            *)
(***************************************************************************)
EXTENDS Integers

CONSTANTS
  SystemFiles, UserFiles, NumFiles,  \* bound: what the files may be
  Envs,        \* bound: environments of a job
  Passwd,      \* the password database: name to uid and gid
  Caller,      \* the caller: name, uid and gid
  MinId,       \* min_uid and min_gid of the server configuration
  UlongMax     \* the greatest unsigned long, also RLIM_INFINITY

Ns == {"ipc", "uts", "net"}
Users == {"user1", "user2"}
Options == Users \cup {"nproc", "wlimit", "hard", "soft"}
NoName == "no name"
Texts == {"unset", "no", "yes", "other"}   \* of a variable that is a truth value

ASSUME ConfigConstants ==
  /\ MinId \in Int /\ UlongMax \in Nat /\ NoName \notin DOMAIN Passwd
  /\ \A u \in DOMAIN Passwd : Passwd[u].uid \in Nat /\ Passwd[u].gid \in Nat
  /\ \A f \in SystemFiles \cup UserFiles \cup NumFiles :
       /\ f.exists \in BOOLEAN /\ f.safe \in BOOLEAN /\ DOMAIN f.set \subseteq Options
       /\ \A o \in DOMAIN f.set \ Users : f.set[o] \in Int
  /\ \A e \in Envs :
       /\ e.display \in {"unset", "unix", "inet", "malformed"}
       /\ e.limit \in {"unset", "number", "text"} /\ e.wlimit \in Int
       /\ e.use_pty \in Texts /\ e.share \in [Ns -> Texts]

VARIABLES
  pc,          \* next step; "dead" after any *_and_die
  why,         \* what the process died of
  caller_num,  \* the session is numbered
  conf,        \* the options as the files set them
  wlimit,      \* the work limit of the job; zero is no limit
  use_pty,     \* from the environment of the job
  x11,         \* how the X server is reached, or "none"
  share        \* share_ipc, share_uts, share_network: -1 if not given

confVars == <<caller_num, conf>>
jobVars == <<wlimit, use_pty, x11, share>>

Dies(reason) ==
  /\ pc' = "dead" /\ why' = reason

\* opt_str2ul and str2rlim: strtoull takes a minus sign for a number modulo
\* the width of the type.
Str2Ul(n) == n % (UlongMax + 1)

\* opt_str2bool, of a text that is a truth value.
Str2Bool(text) == IF text = "yes" THEN 1 ELSE 0

\* The bounds of str2nproc, str2nice and str2umask; the others have none.
ValidValue(o, n) == o = "nproc" => n >= 1

\* modify_wlim: the environment may set a limit where there is none, and
\* otherwise only lower it.
ModifyWlimZero(old, n, is_system) ==
  IF is_system \/ old = 0 \/ Str2Ul(n) < old THEN Str2Ul(n) ELSE old
ModifyWlim(old, n, is_system) ==
  IF is_system \/ old = 0 \/ (Str2Ul(n) > 0 /\ Str2Ul(n) < old)
  THEN Str2Ul(n) ELSE old

\* set_caller_name_value, for the lines of a file: each replaces the option,
\* whichever file had set it before.
SetNameValue(f, c) ==
  [o \in Options |->
     IF o \notin DOMAIN f.set THEN c[o]
     ELSE CASE o = "wlimit" -> ModifyWlim(c[o], f.set[o], TRUE)
            [] o \in {"hard", "soft"} -> Str2Ul(f.set[o])
            [] OTHER -> f.set[o]]

\* load_caller_config: the file has to be there, to belong to root and to be
\* valid to the last line.
LoadConfig(f, c, next) ==
  IF f.exists /\ f.safe /\ \A o \in DOMAIN f.set : ValidValue(o, f.set[o])
  THEN conf' = SetNameValue(f, c) /\ pc' = next /\ UNCHANGED why
  ELSE Dies("config") /\ UNCHANGED conf

LoadSystem ==
  /\ pc = "system"
  /\ \E f \in SystemFiles : LoadConfig(f, conf, "user")
  /\ UNCHANGED <<caller_num, jobVars>>

\* The file named after the uid, or after the name of the caller.
LoadUser ==
  /\ pc = "user"
  /\ \E by_uid, by_name \in UserFiles :
       LoadConfig(IF by_uid.exists THEN by_uid ELSE by_name, conf,
                  IF caller_num THEN "numbered" ELSE "check")
  /\ UNCHANGED <<caller_num, jobVars>>

\* The pseudo-users of the caller's own session are discarded first.
NumberedBase == conf
NumberedConf == [conf EXCEPT !["user1"] = NoName, !["user2"] = NoName]
LoadNumbered ==
  /\ pc = "numbered"
  /\ \E by_uid, by_name \in NumFiles :
       LoadConfig(IF by_uid.exists THEN by_uid ELSE by_name, NumberedConf, "check")
  /\ UNCHANGED <<caller_num, jobVars>>

\* valid_uid and valid_gid of server_config.h.
ValidId(n) == MinId < 0 \/ MinId <= n

\* check_user: a known name, with ids that are high enough and not the caller's.
CheckUser(u) ==
  /\ u \in DOMAIN Passwd /\ ValidId(Passwd[u].uid) /\ ValidId(Passwd[u].gid)
  /\ u # Caller.name
  /\ Passwd[u].uid # Caller.uid /\ Passwd[u].gid # Caller.gid

CheckUsers ==
  /\ pc = "check"
  /\ LET u1 == conf["user1"]  u2 == conf["user2"] IN
     IF /\ CheckUser(u1) /\ CheckUser(u2) /\ u1 # u2
        /\ Passwd[u1].uid # Passwd[u2].uid /\ Passwd[u1].gid # Passwd[u2].gid
     THEN pc' = "accept" /\ wlimit' = conf["wlimit"] /\ UNCHANGED why
     ELSE Dies("users") /\ UNCHANGED wlimit
  /\ UNCHANGED <<confVars, use_pty, x11, share>>

-----------------------------------------------------------------------------
\* x11_parse_display: the method, from the host in front of the colon.
ParseDisplay(display) ==
  IF display = "malformed" THEN "none" ELSE display

\* X11 forwarding needs a display and a key of whole bytes.
X11Of(e) ==
  IF e.display # "unset" /\ e.key = "even" THEN ParseDisplay(e.display) ELSE "none"

\* parse_env, on the environment of the job: a value that is not a number or
\* not a truth value is fatal.
BadEnv(e) == \/ e.limit = "text" \/ e.use_pty = "other"
             \/ \E n \in Ns : e.share[n] = "other"
ParseEnv ==
  /\ pc = "env"
  /\ \E e \in Envs :
       IF BadEnv(e) THEN Dies("environment") /\ UNCHANGED jobVars
       ELSE /\ wlimit' = IF e.limit = "unset" THEN wlimit
                         ELSE ModifyWlim(wlimit, e.wlimit, FALSE)
            /\ use_pty' = (Str2Bool(e.use_pty) = 1)
            /\ x11' = X11Of(e)
            /\ share' = [n \in Ns |-> IF e.share[n] = "unset" THEN share[n]
                                      ELSE Str2Bool(e.share[n])]
            /\ pc' = "killuid" /\ UNCHANGED why
  /\ UNCHANGED confVars

ConfigInit ==
  /\ pc = "system" /\ why = "" /\ caller_num \in BOOLEAN
  /\ conf = [o \in Options |-> IF o \in Users THEN NoName
                               ELSE IF o \in {"hard", "soft"} THEN -1 ELSE 0]
  /\ wlimit = 0 /\ use_pty = FALSE /\ x11 = "none" /\ share = [n \in Ns |-> -1]

ConfigNext == LoadSystem \/ LoadUser \/ LoadNumbered \/ CheckUsers \/ ParseEnv

=============================================================================
