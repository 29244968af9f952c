--------------------------- MODULE MCPayloadStart ---------------------------
(* Instances of PayloadStart for TLC.                                      *)
EXTENDS PayloadStart, TLC

User(uid, gid) == [uid |-> uid, gid |-> gid, groups |-> {gid, 100}]
MCCaller == [name |-> "me", uid |-> 50, gid |-> 50]
MCPasswd == "me" :> User(50, 50) @@ "alias" :> User(50, 51) @@ "low" :> User(1, 1)
            @@ "a1" :> User(41, 41) @@ "a2" :> User(42, 42)
            @@ "b1" :> User(43, 43) @@ "b2" :> User(44, 44) @@ "c1" :> User(41, 45)

File(options) == [exists |-> TRUE, safe |-> TRUE, set |-> options]
Absent == [exists |-> FALSE, safe |-> TRUE, set |-> <<>>]
Unsafe == [exists |-> TRUE, safe |-> FALSE, set |-> <<>>]
NoOption == [o \in {} |-> 0]
PseudoUsers(u, v) == "user1" :> u @@ "user2" :> v

MCSystemFiles ==
  {File(NoOption), File("wlimit" :> 2 @@ "nproc" :> 2 @@ "soft" :> 1), File("nproc" :> 0),
   File("wlimit" :> 1 @@ "hard" :> 2), File("hard" :> 2 @@ "soft" :> -1), Absent}
MCUserFiles ==
  {File(PseudoUsers("a1", "a2")), File(PseudoUsers("a1", "a2") @@ "wlimit" :> 3), Absent, Unsafe}
MCNumFiles ==
  {File(PseudoUsers("b1", "b2") @@ "wlimit" :> 0), File("user1" :> "b1"), Absent} \cup
  {File(PseudoUsers("b1", u)) : u \in {"b1", "me", "alias", "low", "unknown"}}
  \cup {File(PseudoUsers("a1", "c1"))}

Env == [limit |-> "unset", wlimit |-> 0, use_pty |-> "unset", display |-> "unset",
        key |-> "unset", share |-> [n \in Ns |-> "unset"]]
Limited(n) == [Env EXCEPT !.limit = "number", !.wlimit = n]
Display(e, d) == [e EXCEPT !.display = d, !.key = "even"]
MCEnvs ==
  {[Env EXCEPT !.limit = "text"], [Env EXCEPT !.share["uts"] = "other"],
   [Limited(0) EXCEPT !.use_pty = "yes"],
   [Display(Env, "unix") EXCEPT !.use_pty = "yes", !.share["ipc"] = "yes"],
   [Display(Limited(1), "unix") EXCEPT !.use_pty = "no"],
   Display(Limited(3), "malformed"),
   [Display(Limited(-2), "inet") EXCEPT !.key = "odd", !.share["net"] = "yes"],
   [Env EXCEPT !.share["net"] = "no"]}
  \cup {[Display(Env, "inet") EXCEPT !.share["net"] = s] : s \in {"unset", "no", "yes"}}

MCOrders == {at \in [Sent -> 4..7] : \A a, b \in Sent : a # b => at[a] # at[b]}
MCLeftovers == {{}, {<<"user1", "process", "alive">>, <<"user2", "server", "plain">>},
                {<<"user2", "process", "alive">>}}
MCProcs == "client" :> [owner |-> 50, differs |-> {"ipc", "net", "uts"}]
           @@ "own" :> [owner |-> 50, differs |-> {"net"}]
           @@ "other" :> [owner |-> 50, differs |-> {"pid"}]
           @@ "foreign" :> [owner |-> 60, differs |-> {"mnt", "net"}]
\* Once the mount namespace is new nothing reads atpid or changes cgroup, and
\* both have been checked; once the groups are known nothing reads or changes
\* left, of which FreshStart asks one thing: states that differ only there are
\* one.
View ==
  <<IF ns["mnt"] = "new" THEN <<>> ELSE <<atpid, cgroup>>,
    IF target = {} THEN left ELSE left \subseteq Survivors,
    pc, why, confVars, jobVars,
    who, fds, opts, id, target, ns, proc, entry, enter_ns, rlim, cpu>>
MCRlim == [cur |-> 5, max |-> UlongMax]
=============================================================================
