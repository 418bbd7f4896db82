----------------------------- MODULE Discovery ------------------------------
(***************************************************************************)
(* How the kpmenu processes of a user find each other: main() first acts   *)
(* as a client of the port named in ~/.cache/kpmenu/server.port and, if it *)
(* gets no answer, becomes a server, which writes its own port there once  *)
(* it listens (StartClient, StartServer, setupListener, savePort and       *)
(* getPort in kpmenulib/clientserver.go).  The file outlives the process.  *)
(*                                                                         *)
(* What a server does with a call is MenuServer's matter: here it takes a  *)
(* while, ends with an answer, and may end the server.                     *)
(***************************************************************************)
EXTENDS Naturals, Sequences, FiniteSets

CONSTANTS
    Processes,      \* bound: the processes started
    None,           \* no file, no connection
    Stale           \* the port of a server of an earlier session

VARIABLES
    calm,           \* the user starts no process while another call is served,
                    \* and no call outlasts the client's five seconds
    portFile,       \* server.port, a port being named by its process
    pc,             \* what each process does
    target,         \* the port a process has read
    backlog,        \* the connections of a listener not yet accepted
    current         \* the client of the call a server serves

vars == <<calm, portFile, pc, target, backlog, current>>

ASSUME DiscoveryAssumption ==
    /\ None \notin Processes \cup {Stale}
    /\ Stale \notin Processes
    /\ IsFiniteSet(Processes)

\* Between its start and its last answer a process is looking for a server,
\* waiting for one, or a server itself.
Looking == {"start", "dial", "await"}

Serving == {"first", "listen", "accept", "serve"}

Over == {"answered", "ended"}

TypeOK ==
    /\ calm \in BOOLEAN
    /\ portFile \in Processes \cup {None, Stale}
    /\ pc \in [Processes -> {"unstarted"} \cup Looking \cup Serving \cup Over]
    /\ target \in [Processes -> Processes \cup {None, Stale}]
    /\ backlog \in [Processes -> Seq(Processes)]
    /\ current \in [Processes -> Processes \cup {None}]
    /\ \A p \in Processes : pc[p] = "serve" <=> current[p] # None

-----------------------------------------------------------------------------
Init ==
    /\ calm \in BOOLEAN
    /\ portFile \in {None, Stale}
    /\ pc = [p \in Processes |-> "unstarted"]
    /\ target = [p \in Processes |-> None]
    /\ backlog = [p \in Processes |-> <<>>]
    /\ current = [p \in Processes |-> None]

GoTo(p, label) == pc' = [pc EXCEPT ![p] = label]

\* StartServer: a daemon listens at once, any other server serves its own user
\* first.
BecomeServer(p) == \E label \in {"first", "listen"} : GoTo(p, label)

\* A calm user waits for what was started before.
Start(p) ==
    /\ pc[p] = "unstarted"
    /\ calm => \A q \in Processes : pc[q] \in {"unstarted", "accept"} \cup Over
    /\ GoTo(p, "start")
    /\ UNCHANGED <<calm, portFile, target, backlog, current>>

GetPort(p) ==
    /\ pc[p] = "start"
    /\ IF portFile = None
          THEN BecomeServer(p) /\ UNCHANGED target
          ELSE GoTo(p, "dial") /\ target' = [target EXCEPT ![p] = portFile]
    /\ UNCHANGED <<calm, portFile, backlog, current>>

\* A listener takes connections while its process serves a call.
Listening == {p \in Processes : pc[p] \in {"accept", "serve"}}

\* net.Dial and, when somebody listens, the packet.
Dial(p) ==
    /\ pc[p] = "dial"
    /\ IF target[p] \in Listening
          THEN /\ GoTo(p, "await")
               /\ backlog' = [backlog EXCEPT ![target[p]] = Append(@, p)]
          ELSE BecomeServer(p) /\ UNCHANGED backlog
    /\ UNCHANGED <<calm, portFile, target, current>>

\* Mutant of ReadDeadline: the client waits for as long as it takes.
ReadWithoutDeadline(p) == FALSE /\ UNCHANGED vars

\* No answer within five seconds: the process becomes a server although its
\* call is still with the other.
ReadDeadline(p) ==
    /\ ~calm
    /\ pc[p] = "await"
    /\ BecomeServer(p)
    /\ UNCHANGED <<calm, portFile, target, backlog, current>>

\* The server has ended with the connection open, accepted or not.
Disconnected(p) ==
    /\ pc[p] = "await"
    /\ target[p] \notin Listening
    /\ BecomeServer(p)
    /\ UNCHANGED <<calm, portFile, target, backlog, current>>

\* The server's own call; without a cache, or on a fatal error, it is the last.
FirstExecute(p) ==
    /\ pc[p] = "first"
    /\ GoTo(p, "listen") \/ GoTo(p, "ended")
    /\ UNCHANGED <<calm, portFile, target, backlog, current>>

\* Mutant of Listen: only the first server ever writes the file.
ListenKeepsFile(p) ==
    /\ pc[p] = "listen"
    /\ GoTo(p, "accept")
    /\ portFile' = IF portFile = None THEN p ELSE portFile
    /\ UNCHANGED <<calm, target, backlog, current>>

\* net.Listen and savePort, which overwrites the file; either may fail.
Listen(p) ==
    /\ pc[p] = "listen"
    /\ \/ GoTo(p, "accept") /\ portFile' = p
       \/ GoTo(p, "ended") /\ UNCHANGED portFile
    /\ UNCHANGED <<calm, target, backlog, current>>

\* The oldest connection is accepted and its packet, sent by then, read, though
\* its client may have gone.
Accept(p) ==
    /\ pc[p] = "accept"
    /\ backlog[p] # <<>>
    /\ GoTo(p, "serve")
    /\ current' = [current EXCEPT ![p] = Head(backlog[p])]
    /\ backlog' = [backlog EXCEPT ![p] = Tail(@)]
    /\ UNCHANGED <<calm, portFile, target>>

\* What becomes of the client of server p when it is answered.
Answered(p) == IF pc[current[p]] = "await" /\ target[current[p]] = p
                  THEN "answered" ELSE pc[current[p]]

\* Mutant of Answer: the call is not closed.
AnswerKeepsCall(p) ==
    /\ pc[p] = "serve"
    /\ pc' = [pc EXCEPT ![p] = "accept", ![current[p]] = Answered(p)]
    /\ UNCHANGED <<calm, portFile, target, backlog, current>>

\* The answer is sent; after a fatal error the server ends.
Answer(p) ==
    /\ pc[p] = "serve"
    /\ \E label \in {"accept", "ended"} :
          pc' = [pc EXCEPT ![p] = label, ![current[p]] = Answered(p)]
    /\ current' = [current EXCEPT ![p] = None]
    /\ UNCHANGED <<calm, portFile, target, backlog>>

\* The cache times out, whoever is in the backlog; the file stays.
CacheTimesOut(p) ==
    /\ pc[p] = "accept"
    /\ GoTo(p, "ended")
    /\ UNCHANGED <<calm, portFile, target, backlog, current>>

ClientStep(p) ==
    GetPort(p) \/ Dial(p) \/ ReadDeadline(p) \/ Disconnected(p)

ServerStep(p) ==
    FirstExecute(p) \/ Listen(p) \/ Accept(p) \/ Answer(p) \/ CacheTimesOut(p)

Next ==
    \E p \in Processes : Start(p) \/ ClientStep(p) \/ ServerStep(p)

Spec == Init /\ [][Next]_vars

\* A client runs, its deadline included.  A server need not, its user may leave
\* a menu open for ever; for a calm user it comes to answer.
Fairness == \A p \in Processes :
    /\ WF_vars(ClientStep(p))
    /\ WF_vars(calm /\ (Accept(p) \/ Answer(p)))

FairSpec == Spec /\ Fairness

-----------------------------------------------------------------------------
\* Only the first instance holds the database and serves: while it lives no
\* other process of a calm user becomes a server (README.md:13, StartClient,
\* setupListener).
OneServer ==
    calm => \A p, q \in Processes :
               pc[p] \in Serving /\ pc[q] \in Serving => p = q

\* A calm user's server that listens can be found: the file names it (savePort,
\* getPort).
ServerIsFound == calm => \A p \in Listening : portFile = p

\* A process that is started never hangs on another: it is answered or becomes
\* a server, whatever the server it called does (the five seconds' deadline).
StartSettles ==
    \A p \in Processes : pc[p] \in Looking ~> pc[p] \notin Looking
=============================================================================
