-------------------------- MODULE DiscoveryProofs ---------------------------
(***************************************************************************)
(* A user who waits for one kpmenu to be answered before starting the next *)
(* never has two servers, however many processes are started: whoever      *)
(* becomes a server has looked for the one the file names and not found it.*)
(***************************************************************************)
EXTENDS Discovery, TLAPS

Labels == {"unstarted"} \cup Looking \cup Serving \cup Over

\* A process that is looking for a server or about to be one.
Busy(p) == pc[p] \in Looking \cup {"first", "listen"}

OneIsBusy == \A p, q \in Processes : Busy(p) /\ Busy(q) => p = q

\* What a process has read is still what the file says.
TargetIsCurrent ==
    \A p \in Processes : pc[p] \in {"dial", "await"} => target[p] = portFile

\* A process becomes a server only when nobody listens.
NobodyListens ==
    \A p \in Processes : pc[p] \in {"first", "listen"} => Listening = {}

FileIsProcess == portFile \in Processes \cup {None, Stale}

\* The invariant of a calm user's processes.
CalmInv ==
    /\ calm
    /\ pc \in [Processes -> Labels]
    /\ target \in [Processes -> Processes \cup {None, Stale}]
    /\ FileIsProcess
    /\ OneIsBusy
    /\ TargetIsCurrent
    /\ NobodyListens
    /\ ServerIsFound

LEMMA InitialCalm == Init /\ calm => CalmInv
  BY DEF Init, CalmInv, Labels, FileIsProcess, OneIsBusy, Busy, Looking,
         TargetIsCurrent, NobodyListens, ServerIsFound, Listening

\* When a process that has not found its server goes on to be one, nobody
\* listens: the file names the only process that could.
LEMMA BecomingServer ==
  ASSUME CalmInv, NEW p \in Processes, BecomeServer(p),
         pc[p] \in Looking, Listening = {}, UNCHANGED <<calm, portFile, target>>
  PROVE  CalmInv'
  <1>1. PICK label \in {"first", "listen"} : pc' = [pc EXCEPT ![p] = label]
    BY DEF BecomeServer, GoTo
  <1>2. Listening' = {}
    BY <1>1 DEF Listening, CalmInv
  <1>3. \A q \in Processes : q # p => pc'[q] = pc[q]
    BY <1>1 DEF CalmInv
  <1>4. pc' \in [Processes -> Labels] /\ pc'[p] \in {"first", "listen"}
    BY <1>1 DEF CalmInv, Labels, Serving
  <1> QED
    BY <1>2, <1>3, <1>4
    DEF CalmInv, FileIsProcess, OneIsBusy, Busy, TargetIsCurrent, NobodyListens,
        ServerIsFound

LEMMA NextCalm == CalmInv /\ [Next]_vars => CalmInv'
  <1> SUFFICES ASSUME CalmInv, [Next]_vars PROVE CalmInv'
    OBVIOUS
  <1> USE DEF CalmInv, FileIsProcess, Looking, Serving, Over, Labels
  <1>1. CASE UNCHANGED vars
    BY <1>1 DEF vars, OneIsBusy, Busy, TargetIsCurrent, NobodyListens,
                ServerIsFound, Listening
  <1>2. ASSUME NEW p \in Processes, Start(p) PROVE CalmInv'
    <2>1. \A q \in Processes : ~Busy(q)
      BY <1>2 DEF Start, Busy
    <2>2. Listening' = Listening
      BY <1>2 DEF Start, GoTo, Listening
    <2> QED
      BY <1>2, <2>1, <2>2 DEF Start, GoTo, OneIsBusy, Busy, TargetIsCurrent,
                              NobodyListens, ServerIsFound
  <1>3. ASSUME NEW p \in Processes, GetPort(p) PROVE CalmInv'
    <2>1. CASE portFile = None
      <3>1. Listening = {}
        BY <2>1, DiscoveryAssumption DEF ServerIsFound, Listening
      <3> QED
        BY <1>3, <2>1, <3>1, BecomingServer DEF GetPort
    <2>2. CASE portFile # None
      <3>1. pc' = [pc EXCEPT ![p] = "dial"]
            /\ target' = [target EXCEPT ![p] = portFile]
            /\ pc[p] = "start" /\ UNCHANGED <<calm, portFile>>
        BY <1>3, <2>2 DEF GetPort, GoTo
      <3>2. Listening' = Listening
        BY <3>1 DEF Listening
      <3> QED
        BY <3>1, <3>2 DEF OneIsBusy, Busy, TargetIsCurrent, NobodyListens,
                          ServerIsFound
    <2> QED
      BY <2>1, <2>2
  <1>4. ASSUME NEW p \in Processes, Dial(p) PROVE CalmInv'
    <2>1. CASE target[p] \in Listening
      <3>1. pc' = [pc EXCEPT ![p] = "await"] /\ pc[p] = "dial"
            /\ UNCHANGED <<calm, portFile, target>>
        BY <1>4, <2>1 DEF Dial, GoTo
      <3>2. Listening' = Listening
        BY <3>1 DEF Listening
      <3> QED
        BY <3>1, <3>2 DEF OneIsBusy, Busy, TargetIsCurrent, NobodyListens,
                          ServerIsFound
    <2>2. CASE target[p] \notin Listening
      <3>1. Listening = {}
        BY <1>4, <2>2 DEF Dial, TargetIsCurrent, ServerIsFound, Listening
      <3> QED
        BY <1>4, <2>2, <3>1, BecomingServer DEF Dial
    <2> QED
      BY <2>1, <2>2
  <1>5. ASSUME NEW p \in Processes, Disconnected(p) PROVE CalmInv'
    <2>1. Listening = {}
      BY <1>5 DEF Disconnected, TargetIsCurrent, ServerIsFound, Listening
    <2> QED
      BY <1>5, <2>1, BecomingServer DEF Disconnected
  <1>6. ASSUME NEW p \in Processes, ReadDeadline(p) PROVE FALSE
    BY <1>6 DEF ReadDeadline
  <1>7. ASSUME NEW p \in Processes, FirstExecute(p) PROVE CalmInv'
    <2>1. PICK label \in {"listen", "ended"} : pc' = [pc EXCEPT ![p] = label]
      BY <1>7 DEF FirstExecute, GoTo
    <2>2. pc[p] = "first" /\ UNCHANGED <<calm, portFile, target>>
      BY <1>7 DEF FirstExecute
    <2>3. Listening' = Listening
      BY <2>1, <2>2 DEF Listening
    <2> QED
      BY <2>1, <2>2, <2>3 DEF OneIsBusy, Busy, TargetIsCurrent, NobodyListens,
                              ServerIsFound
  <1>8. ASSUME NEW p \in Processes, Listen(p) PROVE CalmInv'
    <2>1. pc[p] = "listen" /\ Listening = {} /\ UNCHANGED <<calm, target>>
      BY <1>8 DEF Listen, NobodyListens
    <2>2. \A q \in Processes \ {p} : ~Busy(q)
      BY <2>1 DEF OneIsBusy, Busy
    <2>3. CASE pc' = [pc EXCEPT ![p] = "accept"] /\ portFile' = p
      <3>1. Listening' = {p}
        BY <2>1, <2>3 DEF Listening
      <3> QED
        BY <2>1, <2>2, <2>3, <3>1
        DEF OneIsBusy, Busy, TargetIsCurrent, NobodyListens, ServerIsFound
    <2>4. CASE pc' = [pc EXCEPT ![p] = "ended"] /\ UNCHANGED portFile
      <3>1. Listening' = {}
        BY <2>1, <2>4 DEF Listening
      <3> QED
        BY <2>1, <2>2, <2>4, <3>1
        DEF OneIsBusy, Busy, TargetIsCurrent, NobodyListens, ServerIsFound
    <2> QED
      BY <1>8, <2>3, <2>4 DEF Listen, GoTo
  <1>9. ASSUME NEW p \in Processes, Accept(p) \/ CacheTimesOut(p)
        PROVE  CalmInv'
    <2>1. PICK label \in {"serve", "ended"} : pc' = [pc EXCEPT ![p] = label]
      BY <1>9 DEF Accept, CacheTimesOut, GoTo
    <2>2. pc[p] = "accept" /\ UNCHANGED <<calm, portFile, target>>
      BY <1>9 DEF Accept, CacheTimesOut
    <2>3. Listening' \subseteq Listening
      BY <2>1, <2>2 DEF Listening
    <2> QED
      BY <2>1, <2>2, <2>3 DEF OneIsBusy, Busy, TargetIsCurrent, NobodyListens,
                              ServerIsFound
  <1>10. ASSUME NEW p \in Processes, Answer(p) PROVE CalmInv'
    <2>1. PICK label \in {"accept", "ended"} :
             pc' = [pc EXCEPT ![p] = label, ![current[p]] = Answered(p)]
      BY <1>10 DEF Answer
    <2>2. pc[p] = "serve" /\ UNCHANGED <<calm, portFile, target>>
      BY <1>10 DEF Answer
    <2>3. \A q \in Processes :
             \/ pc'[q] = pc[q]
             \/ pc'[q] = "answered"
             \/ q = p /\ pc'[q] = label
      BY <2>1 DEF Answered
    <2>4. pc' \in [Processes -> Labels]
      BY <2>1, <2>3
    <2>5. Listening' \subseteq Listening
      BY <2>2, <2>3 DEF Listening
    <2> QED
      BY <2>2, <2>3, <2>4, <2>5
      DEF OneIsBusy, Busy, TargetIsCurrent, NobodyListens, ServerIsFound
  <1> QED
    BY <1>1, <1>2, <1>3, <1>4, <1>5, <1>6, <1>7, <1>8, <1>9, <1>10
    DEF Next, ClientStep, ServerStep

\* Whether the user is calm is settled from the start.
LEMMA CalmStays == [Next]_vars => calm' = calm
  BY DEF Next, ClientStep, ServerStep, Start, GetPort, Dial, ReadDeadline,
         Disconnected, FirstExecute, Listen, Accept, Answer, CacheTimesOut, vars

\* The invariant of every behaviour.
LEMMA CalmInvariant == Spec => [](calm => CalmInv)
  <1>1. Init => (calm => CalmInv)
    BY InitialCalm
  <1>2. (calm => CalmInv) /\ [Next]_vars => (calm => CalmInv)'
    BY NextCalm, CalmStays
  <1> QED
    BY <1>1, <1>2, PTL DEF Spec

\* However many processes are started, a calm user's server can always be found
\* through the file (savePort, getPort).
THEOREM ServerCanBeFound == Spec => []ServerIsFound
  <1>1. (calm => CalmInv) => ServerIsFound
    BY DEF CalmInv, ServerIsFound
  <1> QED
    BY <1>1, CalmInvariant, PTL

\* However many processes are started, a calm user's first instance is the only
\* one that holds the database (README.md:13, StartClient, setupListener).
THEOREM OnlyOneServer == Spec => []OneServer
  <1>1. (calm => CalmInv) => OneServer
    BY DEF CalmInv, OneServer, OneIsBusy, Busy, NobodyListens, ServerIsFound,
           Listening, Serving, Looking
  <1> QED
    BY <1>1, CalmInvariant, PTL

-----------------------------------------------------------------------------
\* No process calls itself: it looks for a server before it is one.
CallsAnother ==
    \A p \in Processes : backlog[p] \in Seq(Processes \ {p}) /\ current[p] # p

\* Every state has its type, and a server serves a call exactly when it has a
\* client: an answer never leaves one without the other (StartServer,
\* clientserver.go:92-137).
THEOREM DiscoveryTypeCorrect == Spec => []TypeOK
<1>1. Init => TypeOK /\ CallsAnother
  BY DiscoveryAssumption DEF Init, TypeOK, CallsAnother
<1>2. TypeOK /\ CallsAnother /\ [Next]_vars => (TypeOK /\ CallsAnother)'
  <2> SUFFICES ASSUME TypeOK, CallsAnother, [Next]_vars
               PROVE  (TypeOK /\ CallsAnother)'
    OBVIOUS
  <2> USE DiscoveryAssumption DEF TypeOK, CallsAnother, Looking, Serving, Over
  <2>1. CASE UNCHANGED vars
    BY <2>1 DEF vars
  <2>2. ASSUME NEW p \in Processes, Start(p) \/ FirstExecute(p) \/ CacheTimesOut(p)
        PROVE  (TypeOK /\ CallsAnother)'
    BY <2>2 DEF Start, FirstExecute, CacheTimesOut, GoTo
  <2>3. ASSUME NEW p \in Processes, GetPort(p) \/ ReadDeadline(p) \/ Disconnected(p)
        PROVE  (TypeOK /\ CallsAnother)'
    <3>1. /\ pc[p] \in {"start", "await"} /\ UNCHANGED <<calm, portFile, backlog, current>>
          /\ target' = target \/ target' = [target EXCEPT ![p] = portFile]
      BY <2>3 DEF GetPort, ReadDeadline, Disconnected
    <3>2. PICK label \in {"first", "listen", "dial"} : pc' = [pc EXCEPT ![p] = label]
      BY <2>3 DEF GetPort, ReadDeadline, Disconnected, BecomeServer, GoTo
    <3>3. pc' \in [Processes -> {"unstarted"} \cup Looking \cup Serving \cup Over]
      BY <3>1, <3>2
    <3>4. \A q \in Processes : pc'[q] = "serve" <=> pc[q] = "serve"
      BY <3>1, <3>2
    <3>5. target' \in [Processes -> Processes \cup {None, Stale}]
      BY <3>1
    <3> QED
      BY <3>1, <3>3, <3>4, <3>5
  <2>4. ASSUME NEW p \in Processes, Dial(p) PROVE (TypeOK /\ CallsAnother)'
    <3>1. CASE target[p] \in Listening
      <4>1. target[p] \in Processes /\ target[p] # p
        BY <2>4, <3>1 DEF Dial, Listening
      <4>2. Append(backlog[target[p]], p) \in Seq(Processes \ {target[p]})
        BY <4>1
      <4>3. /\ pc[p] = "dial" /\ pc' = [pc EXCEPT ![p] = "await"]
            /\ backlog' = [backlog EXCEPT ![target[p]] = Append(backlog[target[p]], p)]
            /\ UNCHANGED <<calm, portFile, target, current>>
        BY <2>4, <3>1 DEF Dial, GoTo
      <4>4. Append(backlog[target[p]], p) \in Seq(Processes)
        BY <4>1
      <4>5. backlog' \in [Processes -> Seq(Processes)]
        BY <4>1, <4>3, <4>4
      <4>6. \A q \in Processes : backlog'[q] \in Seq(Processes \ {q})
        BY <4>1, <4>2, <4>3
      <4> QED
        BY <4>3, <4>5, <4>6
    <3>2. CASE target[p] \notin Listening
      BY <2>4, <3>2 DEF Dial, BecomeServer, GoTo
    <3> QED
      BY <3>1, <3>2
  <2>5. ASSUME NEW p \in Processes, Listen(p) PROVE (TypeOK /\ CallsAnother)'
    BY <2>5 DEF Listen, GoTo
  <2>6. ASSUME NEW p \in Processes, Accept(p) PROVE (TypeOK /\ CallsAnother)'
    <3>1. /\ Head(backlog[p]) \in Processes \ {p}
          /\ Tail(backlog[p]) \in Seq(Processes \ {p}) /\ Tail(backlog[p]) \in Seq(Processes)
      <4>1. backlog[p] \in Seq(Processes \ {p}) /\ backlog[p] # <<>>
        BY <2>6 DEF Accept
      <4>2. \A S : \A s \in Seq(S) : s # <<>> => Head(s) \in S /\ Tail(s) \in Seq(S)
        OBVIOUS
      <4>3. backlog[p] \in Seq(Processes)
        OBVIOUS
      <4> QED
        BY <4>1, <4>2, <4>3
    <3> QED
      BY <2>6, <3>1 DEF Accept, GoTo
  <2>7. ASSUME NEW p \in Processes, Answer(p) PROVE (TypeOK /\ CallsAnother)'
    <3>1. current[p] \in Processes \ {p} /\ pc[p] = "serve"
      BY <2>7 DEF Answer
    <3>2. PICK label \in {"accept", "ended"} :
             pc' = [pc EXCEPT ![p] = label, ![current[p]] = Answered(p)]
      BY <2>7 DEF Answer
    <3>3. \/ Answered(p) = pc[current[p]]
          \/ pc[current[p]] = "await" /\ Answered(p) = "answered"
      BY DEF Answered
    <3>4. /\ UNCHANGED <<calm, portFile, target, backlog>>
          /\ current' = [current EXCEPT ![p] = None]
      BY <2>7 DEF Answer
    <3>5. pc'[p] = label /\ \A q \in Processes \ {p} : pc'[q] = "serve" <=> pc[q] = "serve"
      BY <3>1, <3>2, <3>3
    <3>6. pc' \in [Processes -> {"unstarted"} \cup Looking \cup Serving \cup Over]
      BY <3>1, <3>2, <3>3
    <3> QED
      BY <3>4, <3>5, <3>6
  <2> QED
    BY <2>1, <2>2, <2>3, <2>4, <2>5, <2>6, <2>7 DEF Next, ClientStep, ServerStep
<1> QED
  BY <1>1, <1>2, PTL DEF Spec
=============================================================================
