----------------------------- MODULE MenuServer -----------------------------
(***************************************************************************)
(* The kpmenu process that holds the database: main.go, StartServer and    *)
(* setupListener (kpmenulib/clientserver.go) and Menu.Execute, Menu.Show,  *)
(* Menu.OpenMenu and entrySelection (kpmenulib/menu.go).  The foreground   *)
(* thread Main serves its own user once and then one client call after the *)
(* other; a call served in daemon mode leaves a goroutine (a member of     *)
(* Reloaders) that runs Menu.OpenDatabase behind its back.                 *)
(*                                                                         *)
(* Time passes only while Main waits for a user, for a client or for the   *)
(* timer; everything else it does is instantaneous.                        *)
(***************************************************************************)
EXTENDS Database

CONSTANTS
    Main,           \* the foreground thread
    ServerConfigs,  \* configurations the server may be started with
    ClientConfigs,  \* configurations a client's arguments may give
    MaxTimeout,     \* no cache timeout is longer
    StartTime,      \* the time the process is created
    MaxTime,        \* bound: the clock stops here
    LastCall,       \* bound: no packet is sent after this time
    Faults          \* which system calls may fail

VARIABLES
    now,            \* the clock
    own,            \* the configuration main() loaded
    conf,           \* Menu.Configuration
    cacheStart,     \* Menu.CacheStart
    deadline,       \* the listener's deadline
    pc,             \* what Main does next
    caller,         \* who called Execute: StartServer (twice) or Show
    fatal,          \* the result of Execute
    reload,         \* Execute has deferred "go menu.OpenDatabase()"
    picked,         \* the tree of the entries put to the user, if any
    value,          \* the content of the field the user was given, if any
    lastUse         \* history: when Execute last opened the database, or found
                    \* it open in a call that renews the lease

serverVars == <<now, own, conf, cacheStart, deadline, pc, caller, fatal,
                reload, picked, value, lastUse>>

vars == <<loaded, creds, keepass, entries, tree, opener, now, own, conf,
          cacheStart, deadline, pc, caller, fatal, reload, picked, value,
          lastUse>>

Reloaders == Threads \ {Main}

Configs == ServerConfigs \cup ClientConfigs

\* The fields of a Configuration this module reads.
IsConfig(cfg) ==
    /\ DatabaseConfig(cfg)
    /\ cfg.daemon \in BOOLEAN
    /\ cfg.nocache \in BOOLEAN
    /\ cfg.cacheOneTime \in BOOLEAN
    /\ cfg.autotype \in BOOLEAN
    /\ cfg.cacheTimeout \in Nat

\* time.Time{}: before the process by more than any timeout.
ZeroTime == 0

NoDeadline == MaxTime + 1

ASSUME ServerAssumption ==
    /\ Main \in Threads
    /\ ServerConfigs # {}
    /\ \A cfg \in Configs : IsConfig(cfg)
    /\ StartTime \in Nat /\ LastCall \in Nat /\ MaxTime \in Nat
    /\ MaxTimeout \in Nat
    /\ \A cfg \in Configs : cfg.cacheTimeout <= MaxTimeout
    /\ MaxTimeout < StartTime /\ StartTime <= MaxTime
    /\ Faults \subseteq {"listen", "accept", "packet", "config", "panic"}

\* Main waits for the menu program, for a client, or is inside OpenDatabase.
Blocked == {"opening", "reloading", "menu", "entries", "fields", "autotype",
            "typing", "accept", "read"}

Ended == {"returned", "aborted"}

Pcs == Blocked \cup Ended \cup
       {"start", "show", "execute", "copy", "return", "listen", "loop"}

TypeOK ==
    /\ DatabaseTypeOK
    /\ now \in Nat
    /\ own \in ServerConfigs
    /\ conf \in Configs
    /\ cacheStart \in Nat
    /\ deadline \in Nat
    /\ pc \in Pcs
    /\ caller \in {"direct", "first", "client"}
    /\ fatal \in BOOLEAN
    /\ reload \in BOOLEAN
    /\ picked \in Trees \cup {None}
    /\ pc \in {"entries", "fields", "typing"} => picked \in Trees
    /\ value \in Contents
    /\ lastUse \in Nat

-----------------------------------------------------------------------------
\* main() and NewMenu: the cache lease starts before the password is asked.
Init ==
    /\ NewDatabase
    /\ now = StartTime
    /\ own \in ServerConfigs
    /\ conf = own
    /\ cacheStart = IF own.daemon \/ own.nocache THEN ZeroTime ELSE now
    /\ deadline = NoDeadline
    /\ pc = "start"
    /\ caller = "direct"
    /\ fatal = FALSE
    /\ reload = FALSE
    /\ picked = None
    /\ value = EmptyContent
    /\ lastUse = ZeroTime

\* StartServer: without a cache serve once; otherwise serve, then listen.
StartServer ==
    /\ pc = "start"
    /\ pc' = IF conf.daemon THEN "listen" ELSE "execute"
    /\ caller' = IF conf.nocache THEN "direct" ELSE "first"
    /\ UNCHANGED <<dbVars, now, own, conf, cacheStart, deadline, fatal, reload,
                   picked, value, lastUse>>

\* Where Execute goes once the database is open.
Serve == IF conf.autotype THEN "autotype" ELSE "menu"

Execute ==
    /\ pc = "execute"
    /\ IF loaded
          THEN /\ pc' = Serve
               /\ reload' = conf.daemon
               /\ lastUse' = IF caller = "client" /\ conf.cacheOneTime
                                THEN lastUse ELSE now
               /\ UNCHANGED opener
          ELSE /\ pc' = "opening"
               /\ opener' = StartOpening(Main)
               /\ UNCHANGED <<reload, lastUse>>
    /\ UNCHANGED <<loaded, creds, keepass, entries, tree, now, own, conf,
                   cacheStart, deadline, caller, fatal, picked, value>>

\* OpenDatabase returns to Execute, or to OpenMenu after "Reload".
DatabaseOpened ==
    /\ pc \in {"opening", "reloading"}
    /\ opener[Main].pc = "done"
    /\ pc' = IF pc = "opening" THEN Serve ELSE "menu"
    /\ lastUse' = IF pc = "opening" THEN now ELSE lastUse
    /\ opener' = [opener EXCEPT ![Main] = Idle]
    /\ UNCHANGED <<loaded, creds, keepass, entries, tree, now, own, conf,
                   cacheStart, deadline, caller, fatal, reload, picked, value>>

Return(isFatal) == pc' = "return" /\ fatal' = isFatal

Panic == "panic" \in Faults /\ pc' = "aborted"

\* Mutant of DatabaseNotOpened: the error of a "Reload" is not returned.
DatabaseNotOpenedOnce ==
    /\ pc = "opening"
    /\ opener[Main].pc = "failed"
    /\ Return(TRUE)
    /\ opener' = [opener EXCEPT ![Main] = Idle]
    /\ UNCHANGED <<loaded, creds, keepass, entries, tree, now, own, conf,
                   cacheStart, deadline, caller, reload, picked, value, lastUse>>

\* Every error of OpenDatabase is fatal.
DatabaseNotOpened ==
    /\ pc \in {"opening", "reloading"}
    /\ opener[Main].pc = "failed"
    /\ Return(TRUE)
    /\ opener' = [opener EXCEPT ![Main] = Idle]
    /\ UNCHANGED <<loaded, creds, keepass, entries, tree, now, own, conf,
                   cacheStart, deadline, caller, reload, picked, value, lastUse>>

\* OpenMenu: cancel, "Show" (also chosen when the menu program reports an
\* error or a text that is no item), "Reload", "Exit".
CancelMenu ==
    /\ pc = "menu"
    /\ Return(FALSE)
    /\ UNCHANGED <<dbVars, now, own, conf, cacheStart, deadline, caller, reload,
                   picked, value, lastUse>>

\* Mutant of MenuShow: the entries are not listed.
MenuShowNothing ==
    /\ pc = "menu"
    /\ pc' = "entries"
    /\ UNCHANGED <<dbVars, now, own, conf, cacheStart, deadline, caller, fatal,
                   reload, picked, value, lastUse>>

MenuShow ==
    /\ pc = "menu"
    /\ pc' = "entries"
    /\ picked' = entries
    /\ UNCHANGED <<dbVars, now, own, conf, cacheStart, deadline, caller, fatal,
                   reload, value, lastUse>>

MenuReload ==
    /\ pc = "menu"
    /\ opener' = StartOpening(Main)
    /\ pc' = "reloading"
    /\ UNCHANGED <<loaded, creds, keepass, entries, tree, now, own, conf,
                   cacheStart, deadline, caller, fatal, reload, picked, value, lastUse>>

MenuExit ==
    /\ pc = "menu"
    /\ loaded' = FALSE
    /\ Return(TRUE)
    /\ UNCHANGED <<creds, keepass, entries, tree, opener, now, own, conf,
                   cacheStart, deadline, caller, reload, picked, value, lastUse>>

\* PromptEntries: cancelled, or an entry of the list (a text that matches no
\* entry gives an empty Entry, which has no field to choose).
PromptEntries ==
    /\ pc = "entries"
    /\ \/ Return(FALSE)
       \/ pc' = "fields" /\ UNCHANGED fatal
    /\ UNCHANGED <<dbVars, now, own, conf, cacheStart, deadline, caller, reload,
                   picked, value, lastUse>>

\* PromptFields: cancelled or no such field, or the content of a field, read
\* after the prompt has returned.  A one-time password whose settings leave the
\* modulus zero divides by it.
PromptFields ==
    /\ pc = "fields"
    /\ \/ Return(FALSE) /\ UNCHANGED value
       \/ /\ tree[picked].database # None
          /\ value' = tree[picked]
          /\ pc' = "copy"
          /\ UNCHANGED fatal
       \/ Panic /\ UNCHANGED <<fatal, value>>
    /\ UNCHANGED <<dbVars, now, own, conf, cacheStart, deadline, caller, reload,
                   picked, lastUse>>

\* CopyToClipboard: a clipboard tool that fails is fatal; the command of an
\* unknown tool, which validateConfig lets through, is a nil pointer.
CopyToClipboard ==
    /\ pc = "copy"
    /\ \/ Return(FALSE) /\ UNCHANGED value
       \/ Return(TRUE) /\ value' = EmptyContent
       \/ Panic /\ UNCHANGED <<fatal, value>>
    /\ UNCHANGED <<dbVars, now, own, conf, cacheStart, deadline, caller, reload,
                   picked, lastUse>>

\* PromptAutotype, its errors logged and never fatal: the window is identified
\* or the entries listed, an entry is settled on, its fields are typed.  A menu
\* key pressed on a line that is no item indexes the matches with -1.
MatchEntries ==
    /\ pc = "autotype"
    /\ picked' = entries
    /\ \/ Return(FALSE)
       \/ pc' = "typing" /\ UNCHANGED fatal
       \/ Panic /\ UNCHANGED fatal
    /\ UNCHANGED <<dbVars, now, own, conf, cacheStart, deadline, caller, reload,
                   value, lastUse>>

\* The code of a one-time password is made before a key is typed.
TypeEntry ==
    /\ pc = "typing"
    /\ \/ Return(FALSE) /\ UNCHANGED value
       \/ Return(FALSE) /\ tree[picked].database # None /\ value' = tree[picked]
       \/ Panic /\ UNCHANGED <<fatal, value>>
    /\ UNCHANGED <<dbVars, now, own, conf, cacheStart, deadline, caller, reload,
                   picked, lastUse>>

\* Mutant of ExecuteReturns: a fatal error ends a daemon too.
ExecuteReturnsFatal ==
    /\ pc = "return"
    /\ IF reload
          THEN \E r \in Reloaders : /\ ~Opening(r)
                                    /\ opener' = StartOpening(r)
          ELSE UNCHANGED opener
    /\ pc' = IF fatal THEN "returned" ELSE "loop"
    /\ reload' = FALSE
    /\ fatal' = FALSE
    /\ picked' = None
    /\ value' = EmptyContent
    /\ UNCHANGED <<loaded, creds, keepass, entries, tree, now, own, conf,
                   cacheStart, deadline, caller, lastUse>>

\* The deferred "go menu.OpenDatabase()", then back to StartServer or the
\* listener loop, the locals of the call forgotten.  Bound: one reload per thread
\* of Reloaders at a time.
ExecuteReturns ==
    /\ pc = "return"
    /\ IF reload
          THEN \E r \in Reloaders : /\ ~Opening(r)
                                    /\ opener' = StartOpening(r)
          ELSE UNCHANGED opener
    /\ reload' = FALSE
    /\ pc' = CASE caller = "direct" -> IF fatal THEN "aborted" ELSE "returned"
               [] caller = "first"  -> IF fatal THEN "returned" ELSE "listen"
               [] caller = "client" ->
                     IF fatal /\ ~conf.daemon THEN "returned" ELSE "loop"
    /\ fatal' = FALSE
    /\ picked' = None
    /\ value' = EmptyContent
    /\ UNCHANGED <<loaded, creds, keepass, entries, tree, now, own, conf,
                   cacheStart, deadline, caller, lastUse>>

\* net.Listen and savePort; their errors end the process (log.Fatalf).
Listen ==
    /\ pc = "listen"
    /\ \/ pc' = "loop"
       \/ "listen" \in Faults /\ pc' = "aborted"
    /\ UNCHANGED <<dbVars, now, own, conf, cacheStart, deadline, caller, fatal,
                   reload, picked, value, lastUse>>

\* Mutant of PrepareCacheTime: no deadline is set.
PrepareNoTime ==
    /\ pc = "loop"
    /\ pc' = "accept"
    /\ UNCHANGED <<dbVars, now, own, conf, cacheStart, deadline, caller, fatal,
                   reload, picked, value, lastUse>>

\* The head of the loop: the deadline is set, and never lifted.
PrepareCacheTime ==
    /\ pc = "loop"
    /\ pc' = "accept"
    /\ deadline' = IF conf.daemon THEN deadline
                                  ELSE cacheStart + conf.cacheTimeout
    /\ UNCHANGED <<dbVars, now, own, conf, cacheStart, caller, fatal, reload,
                   picked, value, lastUse>>

\* Accept fails at once when the deadline has passed.
TimedOut == deadline # NoDeadline /\ deadline <= now

AcceptTimeout ==
    /\ pc = "accept"
    /\ TimedOut
    /\ pc' = "returned"
    /\ UNCHANGED <<dbVars, now, own, conf, cacheStart, deadline, caller, fatal,
                   reload, picked, value, lastUse>>

Accept ==
    /\ pc = "accept"
    /\ ~TimedOut
    /\ pc' = "read"
    /\ UNCHANGED <<dbVars, now, own, conf, cacheStart, deadline, caller, fatal,
                   reload, picked, value, lastUse>>

\* handlePacket: the client's arguments replace the whole configuration.  No
\* arguments arrive as nil, and then the server's own are parsed again.
ReadPacket ==
    /\ pc = "read"
    /\ now <= LastCall
    /\ conf' \in ClientConfigs \cup {own}
    /\ caller' = "client"
    /\ pc' = "show"
    /\ UNCHANGED <<dbVars, now, own, cacheStart, deadline, fatal, reload, picked,
                   value, lastUse>>

\* No packet within three seconds: the loop goes on.
ReadTimeout ==
    /\ pc = "read"
    /\ pc' = "loop"
    /\ UNCHANGED <<dbVars, now, own, conf, cacheStart, deadline, caller, fatal,
                   reload, picked, value, lastUse>>

\* An error of Accept other than the timeout, a packet that does not decode and a
\* client configuration that does not load all end in log.Fatalf.
ConnectionError ==
    /\ \/ pc = "accept" /\ "accept" \in Faults
       \/ pc = "read" /\ {"packet", "config"} \cap Faults # {}
    /\ pc' = "aborted"
    /\ UNCHANGED <<dbVars, now, own, conf, cacheStart, deadline, caller, fatal,
                   reload, picked, value, lastUse>>

\* Show compares the configuration with a copy of itself.
DatabaseChanged ==
    LET copiedDatabase == conf
    IN  \/ copiedDatabase.database # conf.database
        \/ copiedDatabase.keyFile # conf.keyFile
        \/ copiedDatabase.keyFileData # conf.keyFileData
        \/ copiedDatabase.password # conf.password

\* Mutant of CacheValid: the last instant of the lease is one too many.
CacheValidTooLong ==
    ~conf.nocache /\ cacheStart # ZeroTime /\ now - cacheStart <= conf.cacheTimeout

CacheValid == /\ ~conf.nocache
              /\ cacheStart # ZeroTime
              /\ now - cacheStart < conf.cacheTimeout

\* Mutant of Show: a call does not renew the lease.
ShowNeverRenews ==
    /\ pc = "show"
    /\ loaded' = (loaded /\ ~DatabaseChanged /\ (conf.daemon \/ CacheValid))
    /\ pc' = "execute"
    /\ UNCHANGED <<creds, keepass, entries, tree, opener, now, own, conf,
                   cacheStart, deadline, caller, fatal, reload, picked, value, lastUse>>

\* Mutant of Show: cacheOneTime is forgotten.
ShowRenews ==
    /\ pc = "show"
    /\ loaded' = (loaded /\ (conf.daemon \/ CacheValid))
    /\ cacheStart' = IF ~conf.daemon /\ CacheValid THEN now ELSE cacheStart
    /\ pc' = "execute"
    /\ UNCHANGED <<creds, keepass, entries, tree, opener, now, own, conf,
                   deadline, caller, fatal, reload, picked, value, lastUse>>

Show ==
    /\ pc = "show"
    /\ loaded' = (loaded /\ ~DatabaseChanged /\ (conf.daemon \/ CacheValid))
    /\ cacheStart' = IF ~conf.daemon /\ CacheValid /\ ~conf.cacheOneTime
                        THEN now ELSE cacheStart
    /\ pc' = "execute"
    /\ UNCHANGED <<creds, keepass, entries, tree, opener, now, own, conf,
                   deadline, caller, fatal, reload, picked, value, lastUse>>

OpenStep(t) ==
    /\ OpenDatabase(t, conf, picked)
    /\ UNCHANGED serverVars

MainOpens == OpenStep(Main)

\* After setupListener has returned, main() waits for clipboard goroutines and
\* a reload may go on meanwhile; an abort ends every goroutine.
Reload(r) == pc # "aborted" /\ OpenStep(r)

Tick ==
    /\ pc \in Blocked
    /\ now < MaxTime
    /\ now' = now + 1
    /\ UNCHANGED <<dbVars, own, conf, cacheStart, deadline, pc, caller, fatal,
                   reload, picked, value, lastUse>>

\* What Main does on its own, given that menu programs terminate.
MainStep ==
    \/ StartServer \/ Execute \/ DatabaseOpened \/ DatabaseNotOpened
    \/ CancelMenu \/ MenuShow \/ MenuReload \/ MenuExit
    \/ PromptEntries \/ PromptFields \/ CopyToClipboard
    \/ MatchEntries \/ TypeEntry
    \/ ExecuteReturns \/ Listen \/ PrepareCacheTime \/ AcceptTimeout
    \/ ReadTimeout \/ ConnectionError \/ Show \/ MainOpens

ClientStep == Accept \/ ReadPacket

Next ==
    \/ MainStep
    \/ ClientStep
    \/ \E r \in Reloaders : Reload(r)
    \/ Tick

Spec == Init /\ [][Next]_vars

\* Menu programs, timers and goroutines make progress while the process runs,
\* no user picks "Reload" for ever, and time goes on although Tick is disabled
\* at Main's instantaneous steps.  Clients need not call.
Fairness ==
    /\ WF_vars(MainStep)
    /\ SF_vars(CancelMenu \/ MenuShow \/ MenuExit)
    /\ \A r \in Reloaders : WF_vars(pc \notin Ended /\ Reload(r))
    /\ SF_vars(Tick)

FairSpec == Spec /\ Fairness

-----------------------------------------------------------------------------
\* A configuration that is not a daemon serves the database it finds open only
\* to a client, only if caching is on, and only within the client's timeout of
\* the last time a call opened it or renewed the lease; a call with cacheOneTime
\* does not renew it (Show, Execute).
LeaseRespected ==
    pc = "execute" /\ loaded /\ ~conf.daemon =>
        /\ caller = "client"
        /\ ~conf.nocache
        /\ now < lastUse + conf.cacheTimeout

\* The database is marked loaded only while the credentials in memory are those
\* that decrypt the database whose entries are listed (Menu.OpenDatabase).
LoadedIsProven ==
    loaded => /\ tree[entries].database # None
              /\ creds = OpenedBy[tree[entries].database]

\* A server that is not in daemon mode never waits for a client beyond the
\* timeout after the last use of the database (the deadline of setupListener).
WaitBounded ==
    pc = "accept" /\ ~conf.daemon => deadline <= lastUse + conf.cacheTimeout

\* What the user is given, by clipboard or by typing, has been decrypted
\* (PromptFields, PromptAutotype and UnlockProtectedEntries).
SelectedIsReadable == value.readable

\* A server started with --daemon keeps running (setupListener's exit).
PermanentDaemon == own.daemon => pc \notin Ended

\* What the user is given comes from the database the configuration in force
\* names (Show).
ServedDatabaseIsConfigured == value # EmptyContent => value.database = conf.database

\* A call with the cache disabled reaches the menu after opening the database
\* only with credentials that were given in that call (Execute, OpenDatabase).
NoCacheAsksPassword ==
    [][ /\ pc = "opening" /\ pc' = Serve
        /\ conf.nocache /\ ~conf.daemon /\ conf.keyFile = None
        => opener[Main].password # None ]_vars

\* A client that got through is answered, or the process ends: nothing in a
\* call blocks the server for ever (the select and handlePacket).
CallAnswered == pc = "read" ~> pc \in {"accept"} \cup Ended

\* Once clients stop calling, a server that is not a daemon ends (the deadline).
ServerStops == <>(pc \in Ended)

\* Every reload left behind by a call comes to an end (Execute's deferred go).
ReloadsEnd == \A r \in Reloaders : Opening(r) ~> ~Opening(r) \/ pc \in Ended

\* What the user knows of a call: a fatal error is the end of the process, and
\* the database is found open or not when Show has looked at the lease.
Phase ==
    CASE pc \in Ended \/ (pc = "return" /\ fatal)                 -> "gone"
      [] pc \in {"listen", "loop", "accept", "read", "show"}      -> "kept"
      [] pc \in {"start", "opening"} \/ (pc = "execute" /\ ~loaded) -> "locked"
      [] OTHER                                                    -> "serving"

\* The password of this call's opening, or else that of the credentials.
KnownPassword ==
    CASE Phase = "gone"                -> "none"
      [] Phase # "gone" /\ opener[Main].password # None -> "given"
      [] Phase # "gone" /\ opener[Main].password = None ->
            IF creds.password # None THEN "remembered" ELSE "none"

Promise == INSTANCE CachePromise WITH
    Calls <- Configs, phase <- Phase, lease <- cacheStart,
    password <- KnownPassword, call <- conf

\* Without daemons the server keeps the promise of CachePromise: a call finds the
\* database open exactly within its own timeout of the lease, which each such call
\* renews (menu.go:91-112), and a locked one is opened again only with the
\* password given to the call or one that has opened it before
\* (database.go:41-54).
KeepsPromise == Promise!Spec
=============================================================================
