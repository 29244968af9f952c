--------------------------- MODULE SessionService ---------------------------
(***************************************************************************)
(* What the session layer promises the users of hasher-priv, without the    *)
(* daemon's pool, its signals, the pipe and the sockets.  A session is      *)
(* opened for an eligible caller that asked, one for each key and boot.     *)
(* Clients of its key wait in line; it takes the request of one of them at  *)
(* a time and only that of its own caller.  It answers, or lets the job run *)
(* apart with the ids of the caller, and from then on the job is bound to   *)
(* its client alone: any number of jobs run at a time, and they outlive the *)
(* session and the service.  A client is told the result of its own job,    *)
(* once, and gives up only when nobody holds its connection.  No session    *)
(* leaves with a request in hand.                                           *)
(***************************************************************************)
EXTENDS Naturals, Sequences, Functions

CONSTANTS
  Servers,   \* places for sessions
  Clients,   \* client processes
  CallerOf,  \* the caller each of them works for
  Key(_),    \* what tells the sessions of one boot apart
  Eligible,  \* callers a session may be opened for
  Servable,  \* callers whose jobs are run
  None       \* no session, no request, no job

VARIABLES
  boot,      \* how many times the service was started
  session,   \* the caller and the boot of each session
  line,      \* the clients that wait for it
  request,   \* the client whose request it has in hand
  running,   \* the caller as whom the job of a client runs apart
  client,    \* "out", "in" (connected to a session) or "gone" (killed)
  result     \* what a client was told and has not yet heard

vars == <<boot, session, line, request, running, client, result>>

Init ==
  /\ boot = 1
  /\ session = [i \in Servers |-> None]
  /\ line = [i \in Servers |-> <<>>]
  /\ request = [i \in Servers |-> None]
  /\ running = [c \in Clients |-> None]
  /\ client = [c \in Clients |-> "out"]
  /\ result = [c \in Clients |-> "none"]

Held(c) ==
  \/ \E i \in Servers : request[i] = c \/ c \in Range(line[i])
  \/ running[c] # None

Start == boot' = boot + 1 /\ UNCHANGED <<session, line, request, running, client, result>>

\* A session is opened for a client that is not connected to one.
Open(i, c) ==
  /\ session[i] = None /\ session'[i] # None
  /\ client[c] # "in" /\ CallerOf[c] \in Eligible
  /\ \A j \in Servers : session[j] # None /\ session[j].boot = boot =>
       Key(session[j].caller) # Key(CallerOf[c])
  /\ session' = [session EXCEPT ![i] = [caller |-> CallerOf[c], boot |-> boot]]
  /\ UNCHANGED <<boot, line, request, running, client, result>>

Enter(c, i) ==
  /\ client[c] = "out" /\ client'[c] = "in" /\ ~Held(c)
  /\ session[i] # None /\ Key(CallerOf[c]) = Key(session[i].caller)
  /\ client' = [client EXCEPT ![c] = "in"]
  /\ line' = [line EXCEPT ![i] = Append(@, c)]
  /\ UNCHANGED <<boot, session, request, running, result>>

\* The first in line is taken, or turned away if it is another caller.
Call(i) ==
  /\ session[i] # None /\ request[i] = None /\ line[i] # <<>>
  /\ line' = [line EXCEPT ![i] = Tail(@)]
  /\ LET c == Head(line[i]) IN
     \/ /\ CallerOf[c] = session[i].caller /\ CallerOf[c] \in Servable
        /\ request' = [request EXCEPT ![i] = c]
     \/ CallerOf[c] # session[i].caller /\ UNCHANGED request
  /\ UNCHANGED <<boot, session, running, client, result>>

\* Only a request or a job gives a result, and only to its own client.
Tell(c) ==
  \/ UNCHANGED result
  \/ /\ client[c] = "in"
     /\ \E r \in {"done", "failed"} : result' = [result EXCEPT ![c] = r]

\* The session is through with a request: it was refused, or the job is over.
Answer(i) ==
  /\ request[i] # None
  /\ request' = [request EXCEPT ![i] = None]
  /\ Tell(request[i])
  /\ UNCHANGED <<boot, session, line, running, client>>

\* ... or the job goes on without the session.
Detach(i) ==
  /\ request[i] # None
  /\ request' = [request EXCEPT ![i] = None]
  /\ running' = [running EXCEPT ![request[i]] = session[i].caller]
  /\ UNCHANGED <<boot, session, line, client, result>>

\* A job that runs apart ends, whatever became of its session.
Finish(c) ==
  /\ running[c] # None
  /\ running' = [running EXCEPT ![c] = None]
  /\ Tell(c)
  /\ UNCHANGED <<boot, session, line, request, client>>

Leave(i) ==
  /\ session[i] # None /\ request[i] = None
  /\ session' = [session EXCEPT ![i] = None]
  /\ line' = [line EXCEPT ![i] = <<>>]
  /\ UNCHANGED <<boot, request, running, client, result>>

\* A client hears its result, or finds that nobody holds its connection.
Hear(c) ==
  /\ client[c] = "in" /\ ~Held(c)
  /\ client' = [client EXCEPT ![c] = "out"]
  /\ result' = [result EXCEPT ![c] = "none"]
  /\ UNCHANGED <<boot, session, line, request, running>>

Kill(c) ==
  /\ client[c] # "gone" /\ client'[c] = "gone"
  /\ client' = [client EXCEPT ![c] = "gone"]
  /\ result' = [result EXCEPT ![c] = "none"]
  /\ UNCHANGED <<boot, session, line, request, running>>

Return(c) ==
  /\ client[c] = "gone" /\ ~Held(c)
  /\ client' = [client EXCEPT ![c] = "out"]
  /\ UNCHANGED <<boot, session, line, request, running, result>>

Next ==
  \/ Start
  \/ \E i \in Servers : Call(i) \/ Answer(i) \/ Detach(i) \/ Leave(i)
  \/ \E c \in Clients : Finish(c) \/ Hear(c) \/ Kill(c) \/ Return(c)
  \/ \E i \in Servers, c \in Clients : Open(i, c) \/ Enter(c, i)

Spec == Init /\ [][Next]_vars
=============================================================================
