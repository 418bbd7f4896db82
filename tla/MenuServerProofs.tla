-------------------------- MODULE MenuServerProofs --------------------------
(***************************************************************************)
(* Theorems about MenuServer, for every value of its constants.            *)
(***************************************************************************)
EXTENDS MenuServer, TLAPS

-----------------------------------------------------------------------------
\* A decode always finds a tree nobody else refers to.
LEMMA FreshTreeType ==
    ASSUME DatabaseTypeOK, NEW p
    PROVE  /\ FreshTree(p) \in Trees
           /\ FreshTree(p) # keepass
           /\ FreshTree(p) # entries
           /\ FreshTree(p) # p
<1>1. CASE p \in Trees
  <2>1. PICK i \in Trees : i \in Trees \ {keepass, entries, p}
    BY <1>1, TreesAssumption DEF DatabaseTypeOK
  <2> QED BY <2>1 DEF FreshTree
<1>2. CASE p \notin Trees
  <2>1. PICK i \in Trees : i \in Trees \ {keepass, entries, entries}
    BY TreesAssumption DEF DatabaseTypeOK
  <2>2. i # p
    BY <1>2
  <2> QED BY <2>1, <2>2 DEF FreshTree
<1> QED BY <1>1, <1>2

\* The configurations are well formed.
LEMMA ConfigType ==
    ASSUME NEW cfg \in Configs
    PROVE  /\ cfg.database \in Databases
           /\ cfg.password \in Passwords \cup {None}
           /\ cfg.keyFile \in KeyFiles \cup {None}
           /\ cfg.keyFileData \in Challenges \cup {None}
           /\ cfg.daemon \in BOOLEAN
           /\ cfg.nocache \in BOOLEAN
           /\ cfg.cacheOneTime \in BOOLEAN
           /\ cfg.cacheTimeout \in Nat
           /\ cfg.cacheTimeout <= MaxTimeout
BY ServerAssumption DEF IsConfig, DatabaseConfig

LEMMA InitialType == Init => TypeOK
<1> SUFFICES ASSUME Init PROVE TypeOK
  OBVIOUS
<1>1. keepass \in Trees
  BY TreesAssumption DEF Init, NewDatabase
<1>2. opener \in [Threads -> Openers]
  BY DEF Init, NewDatabase, Idle, Openers, Resting
<1>3. tree \in [Trees -> Contents]
  BY DEF Init, NewDatabase, EmptyContent, Contents
<1>4. creds \in Credentials
  BY DEF Init, NewDatabase, NoCredentials, Credentials
<1>5. value \in Contents
  BY DEF Init, EmptyContent, Contents
<1>6. DatabaseTypeOK
  BY <1>1, <1>2, <1>3, <1>4 DEF Init, NewDatabase, DatabaseTypeOK
<1>7. now \in Nat /\ cacheStart \in Nat /\ deadline \in Nat /\ lastUse \in Nat
  BY ServerAssumption DEF Init, ZeroTime, NoDeadline
<1>8. own \in ServerConfigs /\ conf \in Configs
  BY DEF Init, Configs
<1>9. pc \in Pcs
  BY DEF Init, Pcs
<1> QED
  BY <1>5, <1>6, <1>7, <1>8, <1>9 DEF Init, TypeOK

\* One step of Menu.OpenDatabase preserves the type of the database.
LEMMA OpenDatabaseType ==
    ASSUME DatabaseTypeOK, NEW t \in Threads, NEW cfg \in Configs, NEW p,
           OpenDatabase(t, cfg, p)
    PROVE  DatabaseTypeOK'
<1> USE ConfigType
<1>1. ASSUME NEW q \in Resting \cup Working, GoTo(t, q)
      PROVE  opener' \in [Threads -> Openers]
  BY <1>1 DEF GoTo, DatabaseTypeOK, Openers
<1>2. ASSUME Decode(cfg, p)
      PROVE  keepass' \in Trees /\ tree' \in [Trees -> Contents]
  <2>1. [database |-> cfg.database, readable |-> FALSE] \in Contents
    BY DEF Contents
  <2>2. \A i \in Trees : Collected(i, p) \in Contents
    BY DEF Collected, EmptyContent, Contents, DatabaseTypeOK
  <2> QED
    BY <1>2, <2>1, <2>2, FreshTreeType DEF Decode
<1>3. CASE DecodeHeader(t, cfg, p)
  BY <1>1, <1>2, <1>3 DEF DecodeHeader, DatabaseTypeOK, Working
<1>4. CASE CheckLoaded(t)
  BY <1>1, <1>4 DEF CheckLoaded, DatabaseTypeOK, Working
<1>5. CASE PromptPassword(t, cfg)
  <2>1. opener' \in [Threads -> Openers]
    BY <1>1, <1>5 DEF PromptPassword, DatabaseTypeOK, Openers, Working, Resting
  <2> QED BY <1>5, <2>1 DEF PromptPassword, DatabaseTypeOK
<1>6. CASE AddCredentialsToDatabase(t, cfg)
  <2>1. opener[t].password \in Passwords \cup {None}
    BY DEF DatabaseTypeOK, Openers
  <2>2. \A key \in {cfg.keyFile, None} :
           AddPasswordAndKey(opener[t].password, key) \in Credentials
    BY <2>1 DEF AddPasswordAndKey, Credentials, DatabaseTypeOK
  <2>3. \A base \in Credentials :
           AddKeyFileData(base, cfg.keyFileData) \subseteq Credentials
    BY DEF AddKeyFileData, Credentials
  <2>4. creds' \in Credentials
    BY <1>6, <2>2, <2>3 DEF AddCredentialsToDatabase
  <2> QED
    BY <1>1, <1>6, <2>4 DEF AddCredentialsToDatabase, DatabaseTypeOK, Working
<1>7. CASE DecodeDatabase(t, cfg, p)
  BY <1>1, <1>2, <1>7 DEF DecodeDatabase, DatabaseTypeOK, Working, Resting
<1>8. CASE UnlockProtectedEntries(t)
  <2>1. PICK r \in BOOLEAN : tree' = [tree EXCEPT ![keepass].readable = r]
    BY <1>8 DEF UnlockProtectedEntries
  <2>2. [tree[keepass] EXCEPT !.readable = r] \in Contents
    BY DEF DatabaseTypeOK, Contents
  <2>3. tree' \in [Trees -> Contents]
    BY <2>1, <2>2 DEF DatabaseTypeOK
  <2> QED
    BY <1>1, <1>8, <2>3 DEF UnlockProtectedEntries, DatabaseTypeOK, Working, Resting
<1>9. CASE IterateDatabase(t)
  BY <1>1, <1>9 DEF IterateDatabase, DatabaseTypeOK, Working
<1>10. CASE SetLoaded(t)
  BY <1>1, <1>10 DEF SetLoaded, DatabaseTypeOK, Resting
<1> QED
  BY <1>3, <1>4, <1>5, <1>6, <1>7, <1>8, <1>9, <1>10 DEF OpenDatabase

LEMMA NextType == TypeOK /\ [Next]_vars => TypeOK'
<1> SUFFICES ASSUME TypeOK, [Next]_vars PROVE TypeOK'
  OBVIOUS
<1> USE DEF TypeOK, Pcs, Blocked, Ended
<1>1. ASSUME UNCHANGED dbVars PROVE DatabaseTypeOK'
  BY <1>1 DEF dbVars, DatabaseTypeOK
<1>2. CASE StartServer
  BY <1>1, <1>2 DEF StartServer
<1>3. CASE Execute
  <2>1. opener' \in [Threads -> Openers]
    BY <1>3 DEF Execute, StartOpening, DatabaseTypeOK, Openers, Working
  <2>2. reload' \in BOOLEAN
    BY <1>3, ConfigType DEF Execute
  <2> QED BY <1>3, <2>1, <2>2 DEF Execute, Serve, DatabaseTypeOK
<1>4. CASE DatabaseOpened
  <2>1. opener' \in [Threads -> Openers]
    BY <1>4 DEF DatabaseOpened, Idle, DatabaseTypeOK, Openers, Resting
  <2> QED BY <1>4, <2>1 DEF DatabaseOpened, Serve, DatabaseTypeOK
<1>5. CASE DatabaseNotOpened
  <2>1. opener' \in [Threads -> Openers]
    BY <1>5 DEF DatabaseNotOpened, Idle, DatabaseTypeOK, Openers, Resting
  <2> QED BY <1>5, <2>1 DEF DatabaseNotOpened, Return, DatabaseTypeOK
<1>6. CASE CancelMenu
  BY <1>1, <1>6 DEF CancelMenu, Return
<1>7. CASE MenuShow
  BY <1>1, <1>7 DEF MenuShow, DatabaseTypeOK
<1>8. CASE MenuReload
  <2>1. opener' \in [Threads -> Openers]
    BY <1>8 DEF MenuReload, StartOpening, DatabaseTypeOK, Openers, Working
  <2> QED BY <1>8, <2>1 DEF MenuReload, DatabaseTypeOK
<1>9. CASE MenuExit
  BY <1>9 DEF MenuExit, Return, DatabaseTypeOK
<1>10. CASE PromptEntries
  BY <1>1, <1>10 DEF PromptEntries, Return
<1>11. CASE PromptFields
  BY <1>1, <1>11 DEF PromptFields, Return, Panic, DatabaseTypeOK
<1>12. CASE CopyToClipboard
  <2>1. value' \in Contents
    <3>1. EmptyContent \in Contents
      BY DEF EmptyContent, Contents
    <3> QED BY <1>12, <3>1 DEF CopyToClipboard
  <2> QED BY <1>1, <1>12, <2>1 DEF CopyToClipboard, Return, Panic
<1>13. CASE MatchEntries
  BY <1>1, <1>13 DEF MatchEntries, Return, Panic, DatabaseTypeOK
<1>14. CASE TypeEntry
  BY <1>1, <1>14 DEF TypeEntry, Return, Panic, DatabaseTypeOK
<1>15. CASE ExecuteReturns
  <2>1. opener' \in [Threads -> Openers]
    BY <1>15 DEF ExecuteReturns, StartOpening, DatabaseTypeOK, Openers, Working
  <2> QED
    BY <1>15, <2>1
    DEF ExecuteReturns, DatabaseTypeOK, EmptyContent, Contents
<1>16. CASE Listen
  BY <1>1, <1>16 DEF Listen
<1>17. CASE PrepareCacheTime
  BY <1>1, <1>17, ConfigType DEF PrepareCacheTime
<1>18. CASE AcceptTimeout
  BY <1>1, <1>18 DEF AcceptTimeout
<1>19. CASE ReadTimeout
  BY <1>1, <1>19 DEF ReadTimeout
<1>20. CASE ConnectionError
  BY <1>1, <1>20 DEF ConnectionError
<1>21. CASE Show
  <2>1. loaded' \in BOOLEAN
    BY <1>21 DEF Show
  <2> QED BY <1>21, <2>1 DEF Show, DatabaseTypeOK
<1>22. CASE \E t \in Threads : OpenStep(t)
  BY <1>22, OpenDatabaseType DEF OpenStep, serverVars
<1>23. CASE Accept
  BY <1>1, <1>23 DEF Accept
<1>24. CASE ReadPacket
  <2>1. conf' \in Configs
    BY <1>24 DEF ReadPacket, Configs
  <2> QED BY <1>1, <1>24, <2>1 DEF ReadPacket
<1>25. CASE Tick
  BY <1>1, <1>25 DEF Tick
<1>26. CASE UNCHANGED vars
  BY <1>26 DEF vars, DatabaseTypeOK
<1> QED
  BY <1>2, <1>3, <1>4, <1>5, <1>6, <1>7, <1>8, <1>9, <1>10, <1>11, <1>12,
     <1>13, <1>14, <1>15, <1>16, <1>17, <1>18, <1>19, <1>20, <1>21, <1>22,
     <1>23, <1>24, <1>25, <1>26, ServerAssumption
  DEF Next, MainStep, ClientStep, MainOpens, Reload, Reloaders

\* The state always has the types TypeOK gives it: in particular a thread that
\* decodes finds a fresh tree, and an entry is only read from a tree in memory.
THEOREM TypeCorrect == Spec => []TypeOK
<1>1. Init => TypeOK
  BY InitialType
<1>2. TypeOK /\ [Next]_vars => TypeOK'
  BY NextType
<1> QED BY <1>1, <1>2, PTL DEF Spec

-----------------------------------------------------------------------------
(***************************************************************************)
(* The cache lease.  Except between the moment Show renews it and the end  *)
(* of a successful opening, the lease never starts after the last use.     *)
(***************************************************************************)
Leased == {"menu", "entries", "fields", "autotype", "typing", "copy",
           "reloading", "listen", "loop", "accept", "read", "show"}

NotRenewing ==
    \/ conf.daemon
    \/ pc \in Leased
    \/ pc = "return" /\ ~fatal
    \/ pc = "execute" /\ caller = "client" /\ conf.cacheOneTime

LeaseInv ==
    /\ cacheStart <= now
    /\ NotRenewing => cacheStart <= lastUse
    /\ WaitBounded

LEMMA InitialLease == Init => LeaseInv
BY ServerAssumption
DEF Init, LeaseInv, NotRenewing, Leased, WaitBounded, ZeroTime, Configs, IsConfig

LEMMA NextLease == TypeOK /\ LeaseInv /\ [Next]_vars => LeaseInv'
<1> SUFFICES ASSUME TypeOK, LeaseInv, [Next]_vars PROVE LeaseInv'
  OBVIOUS
<1>0. /\ now \in Nat /\ cacheStart \in Nat /\ lastUse \in Nat /\ deadline \in Nat
      /\ pc \in Pcs /\ conf \in Configs /\ own \in Configs
      /\ caller \in {"direct", "first", "client"}
  BY DEF TypeOK, Configs
<1> USE <1>0, ConfigType DEF LeaseInv, NotRenewing, Leased, WaitBounded
<1>2. CASE StartServer
  BY <1>2 DEF StartServer
<1>3. CASE Execute
  BY <1>3 DEF Execute, Serve
<1>4. CASE DatabaseOpened
  BY <1>4 DEF DatabaseOpened, Serve
<1>5. CASE DatabaseNotOpened
  BY <1>5 DEF DatabaseNotOpened, Return
<1>6. CASE CancelMenu
  BY <1>6 DEF CancelMenu, Return
<1>7. CASE MenuShow
  BY <1>7 DEF MenuShow
<1>8. CASE MenuReload
  BY <1>8 DEF MenuReload
<1>9. CASE MenuExit
  BY <1>9 DEF MenuExit, Return
<1>10. CASE PromptEntries
  BY <1>10 DEF PromptEntries, Return
<1>11. CASE PromptFields
  BY <1>11 DEF PromptFields, Return, Panic
<1>12. CASE CopyToClipboard
  BY <1>12 DEF CopyToClipboard, Return, Panic
<1>13. CASE MatchEntries
  BY <1>13 DEF MatchEntries, Return, Panic
<1>14. CASE TypeEntry
  BY <1>14 DEF TypeEntry, Return, Panic
<1>15. CASE ExecuteReturns
  BY <1>15 DEF ExecuteReturns
<1>16. CASE Listen
  BY <1>16 DEF Listen
<1>17. CASE PrepareCacheTime
  BY <1>17 DEF PrepareCacheTime
<1>18. CASE AcceptTimeout
  BY <1>18 DEF AcceptTimeout
<1>19. CASE ReadTimeout
  BY <1>19 DEF ReadTimeout
<1>20. CASE ConnectionError
  BY <1>20 DEF ConnectionError
<1>21. CASE Show
  BY <1>21 DEF Show
<1>22. CASE \E t \in Threads : OpenStep(t)
  BY <1>22 DEF OpenStep, serverVars
<1>23. CASE Accept
  BY <1>23 DEF Accept
<1>24. CASE ReadPacket
  BY <1>24 DEF ReadPacket
<1>25. CASE Tick
  BY <1>25 DEF Tick
<1>26. CASE UNCHANGED vars
  BY <1>26 DEF vars
<1> QED
  BY <1>2, <1>3, <1>4, <1>5, <1>6, <1>7, <1>8, <1>9, <1>10, <1>11, <1>12,
     <1>13, <1>14, <1>15, <1>16, <1>17, <1>18, <1>19, <1>20, <1>21, <1>22,
     <1>23, <1>24, <1>25, <1>26, ServerAssumption
  DEF Next, MainStep, ClientStep, MainOpens, Reload, Reloaders

\* Whatever the clients ask for, a server that is not in daemon mode never
\* waits for one beyond the timeout after the last use of the database.
THEOREM WaitIsBounded == Spec => []WaitBounded
<1>1. Init => LeaseInv
  BY InitialLease
<1>2. TypeOK /\ LeaseInv /\ [Next]_vars => LeaseInv'
  BY NextLease
<1>3. LeaseInv => WaitBounded
  BY DEF LeaseInv
<1> QED BY <1>1, <1>2, <1>3, TypeCorrect, PTL DEF Spec

-----------------------------------------------------------------------------
(***************************************************************************)
(* Without daemons Main is the only thread that touches the database, and  *)
(* what it is about to do with the tree it decoded says what the tree is.  *)
(***************************************************************************)
NoDaemon == \A cfg \in Configs : ~cfg.daemon

MainAloneInv ==
    /\ ~reload
    /\ \A r \in Reloaders : opener[r].pc = "idle"
    /\ pc \notin {"opening", "reloading"} => opener[Main].pc = "idle"
    /\ pc = "start" => ~loaded
    /\ pc = "opening" => (loaded <=> opener[Main].pc = "done")
    /\ pc \in {"menu", "reloading"} => loaded
    /\ pc = "show" => caller = "client"

OpeningInv ==
    /\ opener[Main].pc \in {"ask", "credentials"} => ~loaded
    /\ opener[Main].pc = "unlock" => ~tree[keepass].readable
    /\ opener[Main].pc = "iterate" => tree[keepass].readable
    /\ opener[Main].pc \in {"unlock", "iterate"} =>
          /\ tree[keepass].database \in Databases
          /\ creds = OpenedBy[tree[keepass].database]
    /\ opener[Main].pc = "mark" =>
          /\ tree[entries].database \in Databases
          /\ creds = OpenedBy[tree[entries].database]

ReadableInv ==
    /\ tree[entries].readable
    /\ picked \in Trees => tree[picked].readable
    /\ value.readable

DatabaseInv == OpeningInv /\ ReadableInv /\ LoadedIsProven

LEMMA InitialDatabase == Init => MainAloneInv /\ DatabaseInv
<1> SUFFICES ASSUME Init PROVE MainAloneInv /\ DatabaseInv
  OBVIOUS
<1>1. \A t \in Threads : opener[t].pc = "idle"
  BY DEF Init, NewDatabase, Idle
<1>2. keepass \in Trees
  BY TreesAssumption DEF Init, NewDatabase
<1>3. tree[entries].readable /\ picked \notin Trees /\ value.readable
  BY <1>2, TreesAssumption DEF Init, NewDatabase, EmptyContent
<1> QED
  BY <1>1, <1>3, ServerAssumption
  DEF Init, NewDatabase, MainAloneInv, DatabaseInv, OpeningInv, ReadableInv,
      LoadedIsProven, Reloaders

LEMMA NextMainAlone ==
    ASSUME NoDaemon
    PROVE  TypeOK /\ MainAloneInv /\ [Next]_vars => MainAloneInv'
<1> SUFFICES ASSUME TypeOK, MainAloneInv, [Next]_vars PROVE MainAloneInv'
  OBVIOUS
<1>0. /\ opener \in [Threads -> Openers] /\ Main \in Threads
      /\ pc \in Pcs /\ conf \in Configs /\ ~conf.daemon
  BY NoDaemon, ServerAssumption DEF TypeOK, DatabaseTypeOK, NoDaemon
<1>1. ASSUME UNCHANGED <<loaded, opener>>, ~reload',
             pc' \notin {"start", "opening"},
             pc' = "show" => caller' = "client",
             pc' \in {"menu", "reloading"} => loaded',
             pc \notin {"opening", "reloading"} \/ pc' = pc
      PROVE  MainAloneInv'
  BY <1>1 DEF MainAloneInv, Reloaders
<1>2. CASE StartServer
  BY <1>0, <1>1, <1>2 DEF StartServer, MainAloneInv, dbVars
<1>3. CASE Execute
  <2>1. CASE loaded
    BY <1>0, <1>1, <1>3, <2>1 DEF Execute, MainAloneInv, Serve
  <2>2. CASE ~loaded
    BY <1>0, <1>3, <2>2 DEF Execute, MainAloneInv, Reloaders, StartOpening
  <2> QED BY <2>1, <2>2
<1>4. CASE DatabaseOpened
  BY <1>0, <1>4 DEF DatabaseOpened, Serve, MainAloneInv, Reloaders, Idle
<1>5. CASE DatabaseNotOpened
  BY <1>0, <1>5 DEF DatabaseNotOpened, Return, MainAloneInv, Reloaders, Idle
<1>6. CASE CancelMenu
  BY <1>1, <1>6 DEF CancelMenu, Return, MainAloneInv, dbVars
<1>7. CASE MenuShow
  BY <1>1, <1>7 DEF MenuShow, MainAloneInv, dbVars
<1>8. CASE MenuReload
  BY <1>0, <1>8 DEF MenuReload, MainAloneInv, Reloaders, StartOpening
<1>9. CASE MenuExit
  BY <1>0, <1>9 DEF MenuExit, Return, MainAloneInv, Reloaders
<1>10. CASE PromptEntries
  BY <1>1, <1>10 DEF PromptEntries, Return, MainAloneInv, dbVars
<1>11. CASE PromptFields
  BY <1>1, <1>11 DEF PromptFields, Return, Panic, MainAloneInv, dbVars
<1>12. CASE CopyToClipboard
  BY <1>1, <1>12 DEF CopyToClipboard, Return, Panic, MainAloneInv, dbVars
<1>13. CASE MatchEntries
  BY <1>1, <1>13 DEF MatchEntries, Return, Panic, MainAloneInv, dbVars
<1>14. CASE TypeEntry
  BY <1>1, <1>14 DEF TypeEntry, Return, Panic, MainAloneInv, dbVars
<1>15. CASE ExecuteReturns
  <2>1. pc' \in {"aborted", "returned", "listen", "loop"}
    BY <1>15 DEF ExecuteReturns, TypeOK
  <2> QED BY <1>1, <1>15, <2>1 DEF ExecuteReturns, MainAloneInv
<1>16. CASE Listen
  BY <1>1, <1>16 DEF Listen, MainAloneInv, dbVars
<1>17. CASE PrepareCacheTime
  BY <1>1, <1>17 DEF PrepareCacheTime, MainAloneInv, dbVars
<1>18. CASE AcceptTimeout
  BY <1>1, <1>18 DEF AcceptTimeout, MainAloneInv, dbVars
<1>19. CASE ReadTimeout
  BY <1>1, <1>19 DEF ReadTimeout, MainAloneInv, dbVars
<1>20. CASE ConnectionError
  BY <1>1, <1>20 DEF ConnectionError, MainAloneInv, dbVars
<1>21. CASE Show
  BY <1>0, <1>21 DEF Show, MainAloneInv, Reloaders
<1>22. CASE MainOpens
  <2>1. \A r \in Reloaders : opener'[r] = opener[r]
    BY <1>0, <1>22
    DEF MainOpens, OpenStep, OpenDatabase, DecodeHeader, CheckLoaded,
        PromptPassword, AddCredentialsToDatabase, DecodeDatabase,
        UnlockProtectedEntries, IterateDatabase, SetLoaded, GoTo, Reloaders
  <2>2. opener[Main].pc \in Working
    BY <1>22
    DEF MainOpens, OpenStep, OpenDatabase, DecodeHeader, CheckLoaded,
        PromptPassword, AddCredentialsToDatabase, DecodeDatabase,
        UnlockProtectedEntries, IterateDatabase, SetLoaded, Working
  <2>3. opener[Main].pc # "done" /\ pc \in {"opening", "reloading"}
    BY <2>2 DEF Working, MainAloneInv
  <2>4. \/ loaded' /\ opener'[Main].pc = "done"
        \/ loaded' = loaded /\ opener'[Main].pc # "done"
    <3>1. \A q : GoTo(Main, q) => opener'[Main].pc = q
      BY <1>0 DEF GoTo, Openers
    <3>2. CASE SetLoaded(Main)
      BY <3>1, <3>2 DEF SetLoaded
    <3>3. CASE PromptPassword(Main, conf)
      BY <1>0, <3>1, <3>3 DEF PromptPassword
    <3>4. CASE ~SetLoaded(Main) /\ ~PromptPassword(Main, conf)
      BY <1>22, <3>1, <3>4
      DEF MainOpens, OpenStep, OpenDatabase, DecodeHeader, CheckLoaded,
          AddCredentialsToDatabase, DecodeDatabase, UnlockProtectedEntries,
          IterateDatabase
    <3> QED BY <3>2, <3>3, <3>4
  <2> QED
    BY <1>22, <2>1, <2>3, <2>4 DEF MainAloneInv, MainOpens, OpenStep, serverVars
<1>23. CASE Accept
  BY <1>1, <1>23 DEF Accept, MainAloneInv, dbVars
<1>24. CASE ReadPacket
  BY <1>1, <1>24 DEF ReadPacket, MainAloneInv, dbVars
<1>25. CASE Tick
  BY <1>25 DEF Tick, MainAloneInv, dbVars, Reloaders
<1>26. CASE UNCHANGED vars
  BY <1>26 DEF vars, MainAloneInv, Reloaders
<1>27. ~\E r \in Reloaders : Reload(r)
  BY DEF Reload, OpenStep, OpenDatabase, DecodeHeader, CheckLoaded,
         PromptPassword, AddCredentialsToDatabase, DecodeDatabase,
         UnlockProtectedEntries, IterateDatabase, SetLoaded, MainAloneInv
<1> QED
  BY <1>2, <1>3, <1>4, <1>5, <1>6, <1>7, <1>8, <1>9, <1>10, <1>11, <1>12,
     <1>13, <1>14, <1>15, <1>16, <1>17, <1>18, <1>19, <1>20, <1>21, <1>22,
     <1>23, <1>24, <1>25, <1>26, <1>27
  DEF Next, MainStep, ClientStep

\* One step of Main's Menu.OpenDatabase, while no other thread opens.
LEMMA OpenDatabaseStep ==
    ASSUME TypeOK, DatabaseInv, NEW cfg \in Configs,
           OpenDatabase(Main, cfg, picked), UNCHANGED <<picked, value>>
    PROVE  DatabaseInv'
<1>0. /\ DatabaseTypeOK /\ DatabaseTypeOK' /\ Main \in Threads
      /\ cfg.database \in Databases
  BY OpenDatabaseType, ConfigType, ServerAssumption DEF TypeOK
<1>1. ASSUME NEW q, GoTo(Main, q) PROVE opener'[Main].pc = q
  BY <1>0, <1>1 DEF GoTo, DatabaseTypeOK, Openers
<1>2. ASSUME Decode(cfg, picked), entries' = entries
      PROVE  /\ keepass' # entries /\ keepass' # picked
             /\ tree'[entries] = tree[entries]
             /\ picked \in Trees => tree'[picked] = tree[picked]
             /\ ~tree'[keepass'].readable
             /\ tree'[keepass'].database = cfg.database
             /\ creds = OpenedBy[cfg.database]
  BY <1>0, <1>2, FreshTreeType DEF Decode, Decrypts, Collected, DatabaseTypeOK
<1> USE DEF DatabaseInv, OpeningInv, ReadableInv, LoadedIsProven
<1>3. CASE DecodeHeader(Main, cfg, picked)
  <2>1. opener'[Main].pc = "check" /\ entries' = entries /\ UNCHANGED <<loaded, creds>>
    BY <1>1, <1>3 DEF DecodeHeader
  <2>2. CASE Decode(cfg, picked)
    BY <1>2, <2>1, <2>2
  <2>3. CASE UNCHANGED <<keepass, tree>>
    BY <2>1, <2>3
  <2> QED BY <1>3, <2>2, <2>3 DEF DecodeHeader
<1>4. CASE CheckLoaded(Main)
  <2>1. opener'[Main].pc = IF loaded THEN "decode" ELSE "ask"
    BY <1>1, <1>4 DEF CheckLoaded
  <2> QED BY <1>4, <2>1 DEF CheckLoaded
<1>5. CASE PromptPassword(Main, cfg)
  <2>1. opener'[Main].pc \in {"credentials", "failed"}
    BY <1>0, <1>1, <1>5 DEF PromptPassword, DatabaseTypeOK
  <2> QED BY <1>5, <2>1 DEF PromptPassword
<1>6. CASE AddCredentialsToDatabase(Main, cfg)
  <2>1. opener'[Main].pc = "decode"
    BY <1>1, <1>6 DEF AddCredentialsToDatabase
  <2> QED BY <1>6, <2>1 DEF AddCredentialsToDatabase
<1>7. CASE DecodeDatabase(Main, cfg, picked)
  <2>1. CASE Decode(cfg, picked) /\ GoTo(Main, "unlock")
    <3>1. opener'[Main].pc = "unlock" /\ entries' = entries /\ UNCHANGED <<loaded, creds>>
      BY <1>1, <1>7, <2>1 DEF DecodeDatabase
    <3> QED BY <1>0, <1>2, <2>1, <3>1
  <2>2. CASE GoTo(Main, "failed") /\ UNCHANGED <<keepass, tree>>
    BY <1>1, <1>7, <2>2 DEF DecodeDatabase
  <2> QED BY <1>7, <2>1, <2>2 DEF DecodeDatabase
<1>8. CASE UnlockProtectedEntries(Main)
  <2>1. opener'[Main].pc \in {"iterate", "failed"}
    BY <1>1, <1>8 DEF UnlockProtectedEntries
  <2>2. ~tree[keepass].readable
    BY <1>8 DEF UnlockProtectedEntries
  <2>3. tree' = [tree EXCEPT ![keepass].readable = TRUE]
    BY <1>8, <2>2 DEF UnlockProtectedEntries
  <2>4. keepass # entries /\ keepass # picked
    BY <1>0, <2>2 DEF DatabaseTypeOK
  <2>5. /\ tree'[keepass].readable
        /\ tree'[keepass].database = tree[keepass].database
        /\ tree'[entries] = tree[entries]
        /\ picked \in Trees => tree'[picked] = tree[picked]
    BY <1>0, <2>3, <2>4 DEF DatabaseTypeOK, Contents
  <2> QED BY <1>8, <2>1, <2>5 DEF UnlockProtectedEntries
<1>9. CASE IterateDatabase(Main)
  <2>1. opener'[Main].pc = "mark"
    BY <1>1, <1>9 DEF IterateDatabase
  <2> QED
    BY <1>9, <2>1, DatabaseAssumption DEF IterateDatabase
<1>10. CASE SetLoaded(Main)
  <2>1. opener'[Main].pc = "done"
    BY <1>1, <1>10 DEF SetLoaded
  <2> QED
    BY <1>10, <2>1, DatabaseAssumption DEF SetLoaded
<1> QED
  BY <1>3, <1>4, <1>5, <1>6, <1>7, <1>8, <1>9, <1>10 DEF OpenDatabase

\* Every other step leaves the trees alone; only Show and "Exit" change loaded,
\* and only to FALSE.
LEMMA NextDatabase ==
    TypeOK /\ MainAloneInv /\ DatabaseInv /\ [Next]_vars => DatabaseInv'
<1> SUFFICES ASSUME TypeOK, MainAloneInv, DatabaseInv, [Next]_vars
             PROVE  DatabaseInv'
  OBVIOUS
<1>0. /\ opener \in [Threads -> Openers] /\ Main \in Threads
      /\ conf \in Configs
  BY ServerAssumption DEF TypeOK, DatabaseTypeOK
<1> USE DEF DatabaseInv, OpeningInv, ReadableInv, LoadedIsProven
<1>1. ASSUME UNCHANGED <<loaded, creds, keepass, entries, tree, picked, value>>,
             opener'[Main].pc \in {opener[Main].pc, "idle", "header"}
      PROVE  DatabaseInv'
  BY <1>1
<1>2. CASE StartServer
  BY <1>1, <1>2 DEF StartServer, dbVars
<1>3. CASE Execute
  BY <1>0, <1>1, <1>3 DEF Execute, StartOpening
<1>4. CASE DatabaseOpened
  BY <1>0, <1>1, <1>4 DEF DatabaseOpened, Idle
<1>5. CASE DatabaseNotOpened
  BY <1>0, <1>1, <1>5 DEF DatabaseNotOpened, Idle
<1>6. CASE CancelMenu
  BY <1>1, <1>6 DEF CancelMenu, dbVars
<1>7. CASE MenuShow
  BY <1>7 DEF MenuShow, dbVars
<1>8. CASE MenuReload
  BY <1>0, <1>1, <1>8 DEF MenuReload, StartOpening
<1>9. CASE MenuExit
  BY <1>9 DEF MenuExit
<1>10. CASE PromptEntries
  BY <1>1, <1>10 DEF PromptEntries, dbVars
<1>11. CASE PromptFields
  BY <1>11 DEF PromptFields, dbVars, TypeOK
<1>12. CASE CopyToClipboard
  <2>1. EmptyContent.readable
    BY DEF EmptyContent
  <2> QED BY <1>12, <2>1 DEF CopyToClipboard, dbVars
<1>13. CASE MatchEntries
  BY <1>13 DEF MatchEntries, dbVars
<1>14. CASE TypeEntry
  BY <1>14 DEF TypeEntry, dbVars, TypeOK
<1>15. CASE ExecuteReturns
  <2>1. UNCHANGED opener
    BY <1>15 DEF ExecuteReturns, MainAloneInv
  <2> QED
    BY <1>15, <2>1, TreesAssumption DEF ExecuteReturns, EmptyContent
<1>16. CASE Listen
  BY <1>1, <1>16 DEF Listen, dbVars
<1>17. CASE PrepareCacheTime
  BY <1>1, <1>17 DEF PrepareCacheTime, dbVars
<1>18. CASE AcceptTimeout
  BY <1>1, <1>18 DEF AcceptTimeout, dbVars
<1>19. CASE ReadTimeout
  BY <1>1, <1>19 DEF ReadTimeout, dbVars
<1>20. CASE ConnectionError
  BY <1>1, <1>20 DEF ConnectionError, dbVars
<1>21. CASE Show
  BY <1>21 DEF Show
<1>22. CASE MainOpens
  BY <1>0, <1>22, OpenDatabaseStep DEF MainOpens, OpenStep, serverVars
<1>23. CASE Accept
  BY <1>1, <1>23 DEF Accept, dbVars
<1>24. CASE ReadPacket
  BY <1>1, <1>24 DEF ReadPacket, dbVars
<1>25. CASE Tick
  BY <1>1, <1>25 DEF Tick, dbVars
<1>26. CASE UNCHANGED vars
  BY <1>1, <1>26 DEF vars
<1>27. ~\E r \in Reloaders : Reload(r)
  BY DEF Reload, OpenStep, OpenDatabase, DecodeHeader, CheckLoaded,
         PromptPassword, AddCredentialsToDatabase, DecodeDatabase,
         UnlockProtectedEntries, IterateDatabase, SetLoaded, MainAloneInv
<1> QED
  BY <1>2, <1>3, <1>4, <1>5, <1>6, <1>7, <1>8, <1>9, <1>10, <1>11, <1>12,
     <1>13, <1>14, <1>15, <1>16, <1>17, <1>18, <1>19, <1>20, <1>21, <1>22,
     <1>23, <1>24, <1>25, <1>26, <1>27
  DEF Next, MainStep, ClientStep

\* Which steps lead to Execute with a loaded database: only Show's.
LEMMA NextLeaseRespected ==
    ASSUME NoDaemon
    PROVE  TypeOK /\ LeaseInv /\ MainAloneInv /\ LeaseRespected /\ [Next]_vars
             => LeaseRespected'
<1> SUFFICES ASSUME TypeOK, LeaseInv, MainAloneInv, LeaseRespected, [Next]_vars
             PROVE  LeaseRespected'
  OBVIOUS
<1>1. CASE Show
  <2>1. loaded' => now - cacheStart < conf.cacheTimeout /\ ~conf.nocache
    BY <1>1, NoDaemon DEF Show, CacheValid, NoDaemon, TypeOK
  <2>2. cacheStart <= lastUse /\ caller = "client"
    BY <1>1 DEF Show, LeaseInv, NotRenewing, Leased, MainAloneInv
  <2>3. /\ now \in Nat /\ cacheStart \in Nat /\ lastUse \in Nat
        /\ conf.cacheTimeout \in Nat
    BY ConfigType DEF TypeOK
  <2> QED
    BY <1>1, <2>1, <2>2, <2>3 DEF Show, LeaseRespected
<1>2. CASE StartServer
  BY <1>2 DEF StartServer, MainAloneInv, LeaseRespected, dbVars
<1>3. CASE UNCHANGED vars
  BY <1>3 DEF vars, LeaseRespected
<1>4. CASE ~Show /\ ~StartServer /\ ~UNCHANGED vars
  <2>1. pc' # "execute"
    BY <1>4
    DEF Next, MainStep, ClientStep, Execute, Serve, DatabaseOpened,
        DatabaseNotOpened, Return, Panic, CancelMenu, MenuShow, MenuReload, MenuExit,
        PromptEntries, PromptFields, CopyToClipboard, MatchEntries, TypeEntry,
        ExecuteReturns, Listen, PrepareCacheTime, AcceptTimeout, ReadTimeout,
        ConnectionError, MainOpens, Reload, OpenStep, OpenDatabase, DecodeHeader,
        CheckLoaded, PromptPassword, AddCredentialsToDatabase, DecodeDatabase,
        UnlockProtectedEntries, IterateDatabase, SetLoaded, Accept, ReadPacket,
        Tick, serverVars, Blocked, TypeOK, MainAloneInv
  <2> QED BY <2>1 DEF LeaseRespected
<1> QED BY <1>1, <1>2, <1>3, <1>4

-----------------------------------------------------------------------------
\* The inductive invariant of a server none of whose callers is a daemon.
CacheInv == TypeOK /\ LeaseInv /\ MainAloneInv /\ DatabaseInv /\ LeaseRespected

LEMMA CacheInvariant ==
    ASSUME NoDaemon
    PROVE  Spec => []CacheInv
<1>1. Init => CacheInv
  BY InitialType, InitialLease, InitialDatabase DEF CacheInv, LeaseRespected, Init
<1>2. CacheInv /\ [Next]_vars => CacheInv'
  BY NoDaemon, NextType, NextLease, NextMainAlone, NextDatabase,
     NextLeaseRespected DEF CacheInv
<1> QED BY <1>1, <1>2, PTL DEF Spec

\* Without daemons, the database a call finds open is only used by a client
\* that allows the cache, within that client's timeout of the last use.
THEOREM LeaseIsRespected ==
    ASSUME NoDaemon
    PROVE  Spec => []LeaseRespected
<1>1. Spec => []CacheInv
  BY NoDaemon, CacheInvariant
<1>2. CacheInv => LeaseRespected
  BY DEF CacheInv
<1> QED BY <1>1, <1>2, PTL

\* Without daemons, whatever fails and whatever the user types, the database is
\* marked loaded only while the credentials in memory decrypt what is listed.
THEOREM LoadedDatabaseIsProven ==
    ASSUME NoDaemon
    PROVE  Spec => []LoadedIsProven
<1>1. Spec => []CacheInv
  BY NoDaemon, CacheInvariant
<1>2. CacheInv => LoadedIsProven
  BY DEF CacheInv, DatabaseInv
<1> QED BY <1>1, <1>2, PTL

\* Without daemons, the user is never given a value that is still encrypted.
THEOREM SelectedValueIsReadable ==
    ASSUME NoDaemon
    PROVE  Spec => []SelectedIsReadable
<1>1. Spec => []CacheInv
  BY NoDaemon, CacheInvariant
<1>2. CacheInv => SelectedIsReadable
  BY DEF CacheInv, DatabaseInv, ReadableInv, SelectedIsReadable
<1> QED BY <1>1, <1>2, PTL

-----------------------------------------------------------------------------
\* Whoever is asked for a password does not leave it empty.
NeverEmpty ==
    [][\A t \in Threads :
          opener'[t].pc = "credentials" => opener'[t].password # None]_vars

\* The call that opens the database has been given a password since.
GivenInv ==
    pc = "opening" /\ opener[Main].pc \notin {"header", "check", "ask", "failed"}
       => opener[Main].password # None

LEMMA NextGiven ==
    ASSUME CacheInv, GivenInv, Next,
           \A t \in Threads :
              opener'[t].pc = "credentials" => opener'[t].password # None
    PROVE  GivenInv'
<1>0. /\ opener \in [Threads -> [pc : Resting \cup Working, password : Passwords \cup {None}]]
      /\ Main \in Threads
  BY ServerAssumption DEF CacheInv, TypeOK, DatabaseTypeOK, Openers
<1>1. CASE MainOpens
  <2>1. pc' = pc /\ OpenDatabase(Main, conf, picked)
    BY <1>1 DEF MainOpens, OpenStep, serverVars
  <2>2. ASSUME pc = "opening" PROVE loaded <=> opener[Main].pc = "done"
    BY <2>2 DEF CacheInv, MainAloneInv
  <2>3. CASE DecodeHeader(Main, conf, picked) \/ CheckLoaded(Main)
    BY <1>0, <2>1, <2>2, <2>3 DEF DecodeHeader, CheckLoaded, GoTo, GivenInv
  <2>4. CASE PromptPassword(Main, conf)
    BY <1>0, <2>1, <2>4 DEF PromptPassword, GoTo, GivenInv
  <2>5. CASE AddCredentialsToDatabase(Main, conf) \/ DecodeDatabase(Main, conf, picked)
    BY <1>0, <2>1, <2>5 DEF AddCredentialsToDatabase, DecodeDatabase, GoTo, GivenInv
  <2>6. CASE UnlockProtectedEntries(Main) \/ IterateDatabase(Main) \/ SetLoaded(Main)
    <3>1. /\ opener[Main].pc \notin {"header", "check", "ask", "failed"}
          /\ \E to \in {"iterate", "failed", "mark", "done"} : GoTo(Main, to)
      BY <2>6 DEF UnlockProtectedEntries, IterateDatabase, SetLoaded
    <3>2. opener'[Main].password = opener[Main].password
      BY <1>0, <3>1 DEF GoTo
    <3> QED
      BY <2>1, <3>1, <3>2 DEF GivenInv
  <2> QED
    BY <2>1, <2>3, <2>4, <2>5, <2>6 DEF OpenDatabase
<1>2. CASE \E r \in Reloaders : Reload(r)
  <2>1. PICK r \in Reloaders : Reload(r)
    BY <1>2
  <2>2. opener[r].pc = "idle"
    BY DEF CacheInv, MainAloneInv
  <2> QED
    BY <2>1, <2>2
    DEF Reload, OpenStep, OpenDatabase, DecodeHeader, CheckLoaded, PromptPassword,
        AddCredentialsToDatabase, DecodeDatabase, UnlockProtectedEntries,
        IterateDatabase, SetLoaded
<1>3. CASE Execute
  BY <1>0, <1>3 DEF Execute, Serve, StartOpening, GivenInv
<1>4. CASE Tick
  BY <1>4 DEF Tick, dbVars, GivenInv
<1>5. CASE ~MainOpens /\ ~Execute /\ ~Tick /\ ~\E r \in Reloaders : Reload(r)
  <2>1. pc' # "opening"
    BY <1>5
    DEF Next, MainStep, ClientStep, StartServer, DatabaseOpened, Serve,
        DatabaseNotOpened, Return, Panic, CancelMenu, MenuShow, MenuReload, MenuExit,
        PromptEntries, PromptFields, CopyToClipboard, MatchEntries, TypeEntry,
        ExecuteReturns, Listen, PrepareCacheTime, AcceptTimeout, ReadTimeout,
        ConnectionError, Show, Accept, ReadPacket, CacheInv, TypeOK
  <2> QED
    BY <2>1 DEF GivenInv
<1> QED
  BY <1>1, <1>2, <1>3, <1>4, <1>5

\* Without daemons, if nobody leaves the password empty, no call reaches the menu
\* after opening the database but with a password that was given in it, with the
\* cache disabled or not: the old credentials are used again only for an empty
\* one (AddCredentialsToDatabase, database.go:34-53).
THEOREM GivenPasswordIsUsed ==
    ASSUME NoDaemon
    PROVE  Spec /\ NeverEmpty => NoCacheAsksPassword
<1> DEFINE Given == \A t \in Threads :
                       opener'[t].pc = "credentials" => opener'[t].password # None
<1>1. Init => GivenInv
  BY DEF Init, GivenInv
<1>2. CacheInv /\ GivenInv /\ [Next]_vars /\ [Given]_vars => GivenInv'
  <2>1. CASE UNCHANGED vars
    BY <2>1 DEF vars, GivenInv
  <2>2. CASE ~UNCHANGED vars
    BY <2>2, NextGiven
  <2> QED
    BY <2>1, <2>2
<1>3. CacheInv /\ GivenInv /\ [Next]_vars
      => [ /\ pc = "opening" /\ pc' = Serve
           /\ conf.nocache /\ ~conf.daemon /\ conf.keyFile = None
           => opener[Main].password # None ]_vars
  <2> SUFFICES ASSUME GivenInv, Next, pc = "opening", pc' = Serve, TypeOK
               PROVE  opener[Main].password # None
    BY DEF CacheInv
  <2>1. DatabaseOpened
    BY DEF Next, MainStep, ClientStep, StartServer, Execute, Serve,
        DatabaseNotOpened, Return, Panic, CancelMenu, MenuShow, MenuReload, MenuExit,
        PromptEntries, PromptFields, CopyToClipboard, MatchEntries, TypeEntry,
        ExecuteReturns, Listen, PrepareCacheTime, AcceptTimeout, ReadTimeout,
        ConnectionError, Show, Accept, ReadPacket, MainOpens, Reload, OpenStep,
        serverVars, Tick
  <2> QED
    BY <2>1 DEF DatabaseOpened, GivenInv
<1>4. Spec => []CacheInv
  BY NoDaemon, CacheInvariant
<1> QED
  BY <1>1, <1>2, <1>3, <1>4, PTL DEF Spec, NeverEmpty, NoCacheAsksPassword

-----------------------------------------------------------------------------
(***************************************************************************)
(* The promise of the cache.  A server that waits for a client has the     *)
(* database in memory, so that Show alone decides whether it is found      *)
(* open; and once the credentials have been added, the password in them is *)
(* the one the call was given, if it was given any.                        *)
(***************************************************************************)
Asking == {"header", "check", "ask"}

Added == {"decode", "unlock", "iterate", "mark", "done"}

PasswordInv ==
    /\ opener[Main].pc \in Asking => opener[Main].password = None
    /\ opener[Main].password # None /\ opener[Main].pc \in Added
          => creds.password = opener[Main].password

PromiseInv ==
    /\ StartTime <= now
    /\ pc \in Leased \/ (pc = "return" /\ ~fatal) => loaded
    /\ pc # "opening" => opener[Main].password = None
    /\ PasswordInv

LEMMA InitialPromiseInv == Init => PromiseInv
BY ServerAssumption
DEF Init, NewDatabase, Idle, PromiseInv, PasswordInv, Leased, Added, Asking

\* What a step of Main's Menu.OpenDatabase does to the password the call was given
\* and to the one in the credentials: a loaded database is decoded again with what
\* there is, and without a given password the old one stays or a key replaces it.
LEMMA OpenDatabasePassword ==
    ASSUME TypeOK, OpeningInv, PasswordInv, NEW cfg \in Configs,
           OpenDatabase(Main, cfg, picked)
    PROVE  /\ PasswordInv'
           /\ opener[Main].password # None => opener'[Main].password # None
           /\ opener'[Main].password = None => creds'.password \in {creds.password, None}
           /\ loaded => /\ UNCHANGED creds
                        /\ opener'[Main].password = opener[Main].password
<1> DEFINE given == opener[Main].password
           passwords == Passwords \cup {None}
<1>0. /\ opener \in [Threads -> [pc : Resting \cup Working, password : passwords]]
      /\ Main \in Threads /\ creds \in Credentials
  BY ServerAssumption DEF TypeOK, DatabaseTypeOK, Openers
<1>1. ASSUME NEW q, GoTo(Main, q)
      PROVE  opener'[Main].pc = q /\ opener'[Main].password = given
  BY <1>0, <1>1 DEF GoTo
<1>2. ASSUME UNCHANGED creds, NEW q \in {"check", "ask", "decode", "failed", "unlock",
             "iterate", "mark", "done"}, GoTo(Main, q),
             q \in Asking => opener[Main].pc \in Asking,
             q \in Added => opener[Main].pc \in Added \cup Asking
      PROVE  /\ PasswordInv'
             /\ given # None => opener'[Main].password # None
             /\ creds'.password = creds.password
             /\ opener'[Main].password = given
  BY <1>1, <1>2 DEF PasswordInv
<1>3. CASE DecodeHeader(Main, cfg, picked) \/ CheckLoaded(Main)
  BY <1>2, <1>3 DEF DecodeHeader, CheckLoaded, Asking, Added
<1>4. CASE PromptPassword(Main, cfg)
  <2>1. opener[Main].pc = "ask" /\ given = None /\ UNCHANGED creds /\ ~loaded
    BY <1>4 DEF PromptPassword, PasswordInv, Asking, OpeningInv
  <2>2. opener'[Main].pc \in {"credentials", "failed"}
    BY <1>0, <1>1, <1>4 DEF PromptPassword
  <2> QED BY <2>1, <2>2 DEF PasswordInv, Asking, Added
<1>5. CASE AddCredentialsToDatabase(Main, cfg)
  <2>1. opener[Main].pc = "credentials" /\ GoTo(Main, "decode") /\ ~loaded
    BY <1>5 DEF AddCredentialsToDatabase, OpeningInv
  <2>2. PICK keyFile \in {cfg.keyFile, None} :
           creds' \in AddKeyFileData(AddPasswordAndKey(given, keyFile), cfg.keyFileData)
    BY <1>5 DEF AddCredentialsToDatabase
  <2>3. ASSUME NEW base \in [password : passwords, keyFile : KeyFiles \cup {None},
                             windows : Challenges \cup {None}],
               creds' \in AddKeyFileData(base, cfg.keyFileData)
        PROVE  creds'.password = base.password
    BY <2>3 DEF AddKeyFileData
  <2>4. given \in passwords /\ keyFile \in KeyFiles \cup {None}
    BY <1>0, ConfigType
  <2>5. creds'.password = AddPasswordAndKey(given, keyFile).password
    BY <1>0, <2>2, <2>3, <2>4 DEF AddPasswordAndKey, Credentials
  <2>6. AddPasswordAndKey(given, keyFile).password \in
           IF given # None THEN {given} ELSE {creds.password, None}
    BY DEF AddPasswordAndKey
  <2> QED
    BY <1>1, <2>1, <2>5, <2>6 DEF PasswordInv, Asking, Added
<1>6. CASE DecodeDatabase(Main, cfg, picked)
  BY <1>2, <1>6 DEF DecodeDatabase, Asking, Added
<1>7. CASE UnlockProtectedEntries(Main) \/ IterateDatabase(Main) \/ SetLoaded(Main)
  BY <1>2, <1>7
  DEF UnlockProtectedEntries, IterateDatabase, SetLoaded, Asking, Added
<1> QED BY <1>3, <1>4, <1>5, <1>6, <1>7 DEF OpenDatabase

LEMMA NextPromiseInv ==
    ASSUME NoDaemon
    PROVE  CacheInv /\ PromiseInv /\ [Next]_vars => PromiseInv'
<1> SUFFICES ASSUME CacheInv, PromiseInv, [Next]_vars PROVE PromiseInv'
  OBVIOUS
<1>0. /\ opener \in [Threads -> Openers] /\ Main \in Threads
      /\ now \in Nat /\ StartTime \in Nat /\ conf \in Configs
      /\ pc \in Pcs /\ ~conf.daemon
  BY NoDaemon, ServerAssumption DEF CacheInv, TypeOK, DatabaseTypeOK, NoDaemon
<1>1. ASSUME UNCHANGED <<loaded, creds, opener, now>>, pc # "opening" \/ pc' = pc,
             pc' \in Leased \/ (pc' = "return" /\ ~fatal') => loaded
      PROVE  PromiseInv'
  BY <1>1 DEF PromiseInv, PasswordInv
<1>2. ASSUME UNCHANGED <<loaded, creds, opener, now>>, pc \in Leased
      PROVE  PromiseInv'
  BY <1>1, <1>2 DEF PromiseInv, Leased
<1>3. ASSUME UNCHANGED <<loaded, creds, now>>,
             opener' = StartOpening(Main) \/ opener' = [opener EXCEPT ![Main] = Idle],
             pc' \in Leased \/ (pc' = "return" /\ ~fatal') => loaded
      PROVE  PromiseInv'
  <2>1. opener'[Main].password = None /\ opener'[Main].pc \notin Added
    BY <1>0, <1>3 DEF StartOpening, Idle, Added
  <2> QED
    BY <1>3, <2>1 DEF PromiseInv, PasswordInv
<1>4. CASE StartServer
  BY <1>0, <1>1, <1>4 DEF StartServer, dbVars, Leased
<1>5. CASE Execute
  <2>1. CASE loaded
    BY <1>1, <1>5, <2>1 DEF Execute
  <2>2. CASE ~loaded
    BY <1>3, <1>5, <2>2 DEF Execute, Leased
  <2> QED BY <2>1, <2>2
<1>6. CASE DatabaseOpened
  <2>1. loaded
    BY <1>6 DEF DatabaseOpened, CacheInv, MainAloneInv
  <2> QED BY <1>3, <1>6, <2>1 DEF DatabaseOpened
<1>7. CASE DatabaseNotOpened
  BY <1>3, <1>7 DEF DatabaseNotOpened, Return, Leased
<1>8. CASE CancelMenu \/ MenuShow
  BY <1>2, <1>8 DEF CancelMenu, MenuShow, dbVars, Leased
<1>9. CASE MenuReload
  BY <1>3, <1>9 DEF MenuReload, PromiseInv, Leased
<1>10. CASE MenuExit
  BY <1>10 DEF MenuExit, Return, PromiseInv, PasswordInv, Leased
<1>11. CASE PromptEntries \/ PromptFields \/ CopyToClipboard
  BY <1>2, <1>11 DEF PromptEntries, PromptFields, CopyToClipboard, dbVars, Leased
<1>12. CASE MatchEntries \/ TypeEntry
  BY <1>2, <1>12 DEF MatchEntries, TypeEntry, dbVars, Leased
<1>13. CASE ExecuteReturns
  <2>1. UNCHANGED opener
    BY <1>13 DEF ExecuteReturns, CacheInv, MainAloneInv
  <2>2. pc' \in Leased => ~fatal
    BY <1>0, <1>13 DEF ExecuteReturns, Leased, CacheInv, TypeOK
  <2>3. pc' # "return"
    BY <1>13 DEF ExecuteReturns, CacheInv, TypeOK
  <2> QED
    BY <1>1, <1>13, <2>1, <2>2, <2>3 DEF ExecuteReturns, PromiseInv
<1>14. CASE Listen \/ PrepareCacheTime \/ AcceptTimeout \/ ReadTimeout
  BY <1>2, <1>14
  DEF Listen, PrepareCacheTime, AcceptTimeout, ReadTimeout, dbVars, Leased
<1>15. CASE ConnectionError \/ Accept \/ ReadPacket
  BY <1>2, <1>15 DEF ConnectionError, Accept, ReadPacket, dbVars, Leased
<1>16. CASE Show
  BY <1>16 DEF Show, PromiseInv, PasswordInv, Leased
<1>17. CASE MainOpens
  <2>1. OpenDatabase(Main, conf, picked) /\ UNCHANGED serverVars
    BY <1>17 DEF MainOpens, OpenStep
  <2>2. /\ PasswordInv'
        /\ loaded => opener'[Main].password = opener[Main].password
    BY <1>0, <2>1, OpenDatabasePassword DEF CacheInv, DatabaseInv, PromiseInv
  <2>3. loaded => loaded'
    BY <2>1
    DEF OpenDatabase, DecodeHeader, CheckLoaded, PromptPassword,
        AddCredentialsToDatabase, DecodeDatabase, UnlockProtectedEntries,
        IterateDatabase, SetLoaded
  <2>4. pc # "opening" => loaded
    <3>1. opener[Main].pc \in Working
      BY <2>1
      DEF OpenDatabase, DecodeHeader, CheckLoaded, PromptPassword,
          AddCredentialsToDatabase, DecodeDatabase, UnlockProtectedEntries,
          IterateDatabase, SetLoaded, Working
    <3> QED BY <3>1 DEF CacheInv, MainAloneInv, Working
  <2> QED
    BY <2>1, <2>2, <2>3, <2>4 DEF PromiseInv, serverVars
<1>18. CASE Tick
  BY <1>0, <1>18 DEF Tick, dbVars, PromiseInv, PasswordInv
<1>19. CASE UNCHANGED vars
  BY <1>19 DEF vars, PromiseInv, PasswordInv
<1>20. ~\E r \in Reloaders : Reload(r)
  BY DEF Reload, OpenStep, OpenDatabase, DecodeHeader, CheckLoaded,
         PromptPassword, AddCredentialsToDatabase, DecodeDatabase,
         UnlockProtectedEntries, IterateDatabase, SetLoaded, CacheInv,
         MainAloneInv
<1> QED
  BY <1>4, <1>5, <1>6, <1>7, <1>8, <1>9, <1>10, <1>11, <1>12, <1>13, <1>14, <1>15,
     <1>16, <1>17, <1>18, <1>19, <1>20
  DEF Next, MainStep, ClientStep

LEMMA InitialPromise ==
    ASSUME NoDaemon
    PROVE  Init => Promise!Init
<1> SUFFICES ASSUME Init PROVE Promise!Init
  OBVIOUS
<1>1. KnownPassword = "none" /\ Phase = "locked"
  BY ServerAssumption
  DEF Init, NewDatabase, NoCredentials, Idle, KnownPassword, Phase, Ended
<1>2. now \in Nat /\ cacheStart \in Nat /\ conf \in Configs
  BY InitialType DEF TypeOK
<1>3. ~conf.nocache => cacheStart = now
  BY <1>2, NoDaemon DEF Init, NoDaemon
<1> QED
  BY <1>1, <1>2, <1>3 DEF Promise!Init

\* What Show finds and what it leaves: the lease decides.
LEMMA ShowKeepsPromise ==
    ASSUME NoDaemon, CacheInv, PromiseInv, Show
    PROVE  Promise!Use \/ Promise!Lock
<1>0. /\ now \in Nat /\ cacheStart \in Nat /\ conf.cacheTimeout \in Nat
      /\ conf.cacheTimeout < now /\ conf \in Configs /\ ~conf.daemon /\ loaded
      /\ conf.nocache \in BOOLEAN /\ conf.cacheOneTime \in BOOLEAN
      /\ cacheStart <= now
  <2>1. conf \in Configs /\ now \in Nat /\ cacheStart \in Nat
    BY DEF CacheInv, TypeOK
  <2>2. /\ conf.cacheTimeout \in Nat /\ conf.cacheTimeout <= MaxTimeout
        /\ conf.nocache \in BOOLEAN /\ conf.cacheOneTime \in BOOLEAN
    BY <2>1, ConfigType
  <2>3. StartTime <= now /\ loaded
    BY DEF Show, PromiseInv, Leased
  <2> QED
    BY <2>1, <2>2, <2>3, NoDaemon, ServerAssumption DEF NoDaemon, CacheInv, LeaseInv
<1>1. ~DatabaseChanged
  BY DEF DatabaseChanged
<1>2. loaded' = CacheValid
  BY <1>0, <1>1 DEF Show, CacheValid
<1>3. CacheValid <=> Promise!Leased
  BY <1>0 DEF CacheValid, Promise!Leased, ZeroTime
<1>4. Phase = "kept"
  BY DEF Show, Phase, Ended
<1>5. /\ Phase' = (IF CacheValid THEN "serving" ELSE "locked")
      /\ UNCHANGED KnownPassword
  BY <1>2, <1>4 DEF Show, Phase, Ended, KnownPassword
<1>6. cacheStart' = IF CacheValid /\ ~conf.cacheOneTime THEN now ELSE cacheStart
  BY <1>0 DEF Show
<1>7. UNCHANGED <<conf, now>>
  BY DEF Show
<1>8. CASE CacheValid
  BY <1>0, <1>3, <1>4, <1>5, <1>6, <1>7, <1>8 DEF Promise!Use
<1>9. CASE ~CacheValid
  BY <1>3, <1>4, <1>5, <1>6, <1>7, <1>9 DEF Promise!Lock
<1> QED BY <1>8, <1>9

LEMMA NextPromise ==
    ASSUME NoDaemon
    PROVE  CacheInv /\ PromiseInv /\ [Next]_vars => [Promise!Next]_(Promise!promiseVars)
<1> SUFFICES ASSUME CacheInv, PromiseInv, [Next]_vars
             PROVE  [Promise!Next]_(Promise!promiseVars)
  OBVIOUS
<1> DEFINE given == opener[Main].password
<1>0. /\ opener \in [Threads -> Openers] /\ Main \in Threads
      /\ now \in Nat /\ cacheStart \in Nat /\ pc \in Pcs /\ loaded \in BOOLEAN
      /\ conf \in Configs /\ ~conf.daemon /\ fatal \in BOOLEAN
      /\ caller \in {"direct", "first", "client"}
  BY NoDaemon, ServerAssumption DEF CacheInv, TypeOK, DatabaseTypeOK, NoDaemon
<1>1. ASSUME UNCHANGED <<cacheStart, conf, now>>, UNCHANGED <<Phase, KnownPassword>>
      PROVE  [Promise!Next]_(Promise!promiseVars)
  BY <1>1 DEF Promise!promiseVars
<1>2. ASSUME UNCHANGED <<creds, opener>>, Phase # "gone", Phase' # "gone"
      PROVE  UNCHANGED KnownPassword
  BY <1>2 DEF KnownPassword
<1>3. ASSUME UNCHANGED <<cacheStart, conf, now>>, Phase # "gone", Phase' = "gone"
      PROVE  [Promise!Next]_(Promise!promiseVars)
  BY <1>3 DEF Promise!Next, Promise!Stop, KnownPassword
<1>4. ASSUME UNCHANGED <<cacheStart, conf, now, creds, opener>>,
             Phase # "gone", Phase' \in {Phase, "gone"}
      PROVE  [Promise!Next]_(Promise!promiseVars)
  BY <1>1, <1>2, <1>3, <1>4
<1> USE DEF Phase, Ended
<1>5. CASE StartServer
  BY <1>0, <1>4, <1>5 DEF StartServer, dbVars, PromiseInv, CacheInv, MainAloneInv
<1>6. CASE Execute
  <2>1. CASE loaded
    BY <1>4, <1>6, <2>1 DEF Execute, Serve
  <2>2. CASE ~loaded
    <3>1. given = None /\ opener'[Main].password = None
      BY <1>0, <1>6, <2>2 DEF Execute, PromiseInv, StartOpening
    <3>2. Phase = "locked" /\ Phase' = "locked" /\ UNCHANGED creds
      BY <1>6, <2>2 DEF Execute
    <3>3. UNCHANGED KnownPassword
      BY <3>1, <3>2 DEF KnownPassword
    <3> QED BY <1>1, <1>6, <3>2, <3>3 DEF Execute
  <2> QED BY <2>1, <2>2
<1>7. CASE DatabaseOpened
  <2>1. opener'[Main].password = None /\ UNCHANGED <<creds, cacheStart, conf, now>>
    BY <1>0, <1>7 DEF DatabaseOpened, Idle
  <2>2. CASE pc = "opening"
    <3>1. Phase = "locked" /\ Phase' = "serving"
      BY <1>7, <2>2 DEF DatabaseOpened, Serve
    <3>2. given # None => creds.password # None
      BY <1>7 DEF DatabaseOpened, PromiseInv, PasswordInv, Added
    <3>3. \/ KnownPassword = "given" /\ KnownPassword' = "remembered"
          \/ KnownPassword \in {"remembered", "none"} /\ KnownPassword' = KnownPassword
      BY <2>1, <3>1, <3>2 DEF KnownPassword
    <3> QED
      BY <2>1, <3>1, <3>3 DEF Promise!Next, Promise!Unlock, Promise!Reopen
  <2>3. CASE pc = "reloading"
    <3>1. Phase = "serving" /\ Phase' = "serving" /\ given = None
      BY <1>7, <2>3 DEF DatabaseOpened, PromiseInv
    <3>2. UNCHANGED KnownPassword
      BY <2>1, <3>1 DEF KnownPassword
    <3> QED BY <1>1, <2>1, <3>1, <3>2
  <2> QED BY <1>7, <2>2, <2>3 DEF DatabaseOpened
<1>8. CASE DatabaseNotOpened
  BY <1>3, <1>8 DEF DatabaseNotOpened, Return
<1>9. CASE CancelMenu \/ MenuShow \/ MenuExit
  BY <1>4, <1>9 DEF CancelMenu, MenuShow, MenuExit, Return, dbVars
<1>10. CASE MenuReload
  <2>1. given = None /\ opener'[Main].password = None /\ UNCHANGED creds
    BY <1>0, <1>10 DEF MenuReload, PromiseInv, StartOpening
  <2>2. Phase = "serving" /\ Phase' = "serving"
    BY <1>10 DEF MenuReload
  <2>3. UNCHANGED KnownPassword
    BY <2>1, <2>2 DEF KnownPassword
  <2> QED BY <1>1, <1>10, <2>2, <2>3 DEF MenuReload
<1>11. CASE PromptEntries \/ PromptFields \/ CopyToClipboard
  BY <1>4, <1>11
  DEF PromptEntries, PromptFields, CopyToClipboard, Return, Panic, dbVars
<1>12. CASE MatchEntries \/ TypeEntry
  BY <1>4, <1>12 DEF MatchEntries, TypeEntry, Return, Panic, dbVars
<1>13. CASE ExecuteReturns
  <2>1. UNCHANGED <<creds, opener, cacheStart, conf, now>>
    BY <1>13 DEF ExecuteReturns, CacheInv, MainAloneInv
  <2>2. pc = "return" /\ pc' \in IF fatal THEN Ended ELSE {"returned", "listen", "loop"}
    BY <1>0, <1>13 DEF ExecuteReturns
  <2>3. CASE fatal
    <3>1. Phase = "gone" /\ Phase' = "gone"
      BY <2>2, <2>3
    <3>2. UNCHANGED KnownPassword
      BY <3>1 DEF KnownPassword
    <3> QED BY <1>1, <2>1, <3>1, <3>2
  <2>4. CASE ~fatal /\ pc' = "returned"
    BY <1>3, <2>1, <2>2, <2>4
  <2>5. CASE ~fatal /\ pc' # "returned"
    <3>1. Phase = "serving" /\ Phase' = "kept"
      BY <2>2, <2>5
    <3>2. UNCHANGED KnownPassword
      BY <1>2, <2>1, <3>1
    <3> QED BY <2>1, <3>1, <3>2 DEF Promise!Next, Promise!Keep
  <2> QED BY <2>3, <2>4, <2>5
<1>14. CASE Listen \/ PrepareCacheTime \/ AcceptTimeout \/ ReadTimeout
  BY <1>4, <1>14 DEF Listen, PrepareCacheTime, AcceptTimeout, ReadTimeout, dbVars
<1>15. CASE ConnectionError \/ Accept
  BY <1>4, <1>15 DEF ConnectionError, Accept, dbVars
<1>16. CASE ReadPacket
  <2>1. /\ Phase = "kept" /\ Phase' = "kept"
        /\ UNCHANGED <<cacheStart, now, creds, opener>>
    BY <1>16 DEF ReadPacket, dbVars
  <2>2. conf' \in Configs
    BY <1>16, NextType DEF CacheInv, TypeOK
  <2>3. UNCHANGED KnownPassword
    BY <1>2, <2>1
  <2> QED BY <2>1, <2>2, <2>3 DEF Promise!Next, Promise!Call
<1>17. CASE Show
  BY <1>17, NoDaemon, ShowKeepsPromise DEF Promise!Next
<1>18. CASE MainOpens
  <2>1. OpenDatabase(Main, conf, picked) /\ UNCHANGED serverVars
    BY <1>18 DEF MainOpens, OpenStep
  <2>2. /\ given # None => opener'[Main].password # None
        /\ opener'[Main].password = None => creds'.password \in {creds.password, None}
        /\ loaded => UNCHANGED creds /\ opener'[Main].password = given
    BY <1>0, <2>1, OpenDatabasePassword DEF CacheInv, DatabaseInv, PromiseInv
  <2>3. pc \in {"opening", "reloading"} /\ UNCHANGED <<pc, cacheStart, conf, now, fatal>>
    <3>1. opener[Main].pc \in Working
      BY <2>1
      DEF OpenDatabase, DecodeHeader, CheckLoaded, PromptPassword,
          AddCredentialsToDatabase, DecodeDatabase, UnlockProtectedEntries,
          IterateDatabase, SetLoaded, Working
    <3> QED BY <2>1, <3>1 DEF CacheInv, MainAloneInv, Working, serverVars
  <2>4. CASE pc = "reloading"
    <3>1. UNCHANGED creds /\ opener'[Main].password = given
      BY <2>2, <2>4 DEF CacheInv, MainAloneInv
    <3>2. Phase = "serving" /\ Phase' = "serving"
      BY <2>3, <2>4
    <3>3. UNCHANGED KnownPassword
      BY <3>1, <3>2 DEF KnownPassword
    <3> QED BY <1>1, <2>3, <3>2, <3>3
  <2>5. CASE pc = "opening"
    <3>1. Phase = "locked" /\ Phase' = "locked"
      BY <2>3, <2>5
    <3>2. CASE opener'[Main].password # None
      <4>1. KnownPassword' = "given"
        BY <3>1, <3>2 DEF KnownPassword
      <4> QED BY <2>3, <3>1, <4>1 DEF Promise!Next, Promise!Give
    <3>3. CASE opener'[Main].password = None
      <4>1. given = None /\ creds'.password \in {creds.password, None}
        BY <2>2, <3>3
      <4>2. \/ KnownPassword' = KnownPassword
            \/ KnownPassword = "remembered" /\ KnownPassword' = "none"
        BY <3>1, <3>3, <4>1 DEF KnownPassword
      <4> QED BY <1>1, <2>3, <3>1, <4>2 DEF Promise!Next, Promise!Forget
    <3> QED BY <3>2, <3>3
  <2> QED BY <2>3, <2>4, <2>5
<1>19. CASE Tick
  <2>1. Phase # "gone" /\ UNCHANGED <<Phase, creds, opener, cacheStart, conf>>
    BY <1>19 DEF Tick, Blocked, dbVars
  <2>2. UNCHANGED KnownPassword /\ now' = now + 1
    BY <1>2, <1>19, <2>1 DEF Tick
  <2> QED BY <2>1, <2>2 DEF Promise!Next, Promise!Tick
<1>20. CASE UNCHANGED vars
  BY <1>1, <1>20 DEF vars, KnownPassword
<1>21. ~\E r \in Reloaders : Reload(r)
  BY DEF Reload, OpenStep, OpenDatabase, DecodeHeader, CheckLoaded,
         PromptPassword, AddCredentialsToDatabase, DecodeDatabase,
         UnlockProtectedEntries, IterateDatabase, SetLoaded, CacheInv,
         MainAloneInv
<1> QED
  BY <1>5, <1>6, <1>7, <1>8, <1>9, <1>10, <1>11, <1>12, <1>13, <1>14, <1>15,
     <1>16, <1>17, <1>18, <1>19, <1>20, <1>21
  DEF Next, MainStep, ClientStep

\* Without daemons the server implements CachePromise, for every set of databases,
\* credentials and configurations: a call finds the database open if and only if it
\* comes within its own timeout of the lease and allows the cache, and a locked
\* database is opened again only with a password given to the call or with one that
\* opened it before.
THEOREM PromiseIsKept ==
    ASSUME NoDaemon
    PROVE  Spec => KeepsPromise
<1>1. Init => Promise!Init
  BY NoDaemon, InitialPromise
<1>2. Init => PromiseInv
  BY InitialPromiseInv
<1>3. CacheInv /\ PromiseInv /\ [Next]_vars => PromiseInv'
  BY NoDaemon, NextPromiseInv
<1>4. CacheInv /\ PromiseInv /\ [Next]_vars => [Promise!Next]_(Promise!promiseVars)
  BY NoDaemon, NextPromise
<1>5. Spec => []CacheInv
  BY NoDaemon, CacheInvariant
<1> QED BY <1>1, <1>2, <1>3, <1>4, <1>5, PTL DEF Spec, KeepsPromise, Promise!Spec

-----------------------------------------------------------------------------
(***************************************************************************)
(* A permanent daemon.  The configuration of a client replaces the         *)
(* server's, so every client has to be in daemon mode too.                 *)
(***************************************************************************)
AllDaemons == Faults = {} /\ \A cfg \in ClientConfigs : cfg.daemon

DaemonInv ==
    own.daemon => /\ pc \notin Ended
                  /\ conf.daemon
                  /\ deadline = NoDeadline
                  /\ pc \notin {"start", "listen", "loop", "accept", "read"}
                        => caller = "client"

LEMMA NextDaemon ==
    ASSUME AllDaemons
    PROVE  TypeOK /\ DaemonInv /\ [Next]_vars => DaemonInv'
<1> SUFFICES ASSUME TypeOK, DaemonInv, [Next]_vars PROVE DaemonInv'
  OBVIOUS
<1> USE DEF DaemonInv, Ended
<1>1. CASE StartServer
  BY <1>1 DEF StartServer
<1>2. CASE Execute \/ DatabaseOpened \/ DatabaseNotOpened
  BY <1>2 DEF Execute, DatabaseOpened, DatabaseNotOpened, Serve, Return
<1>3. CASE CancelMenu \/ MenuShow \/ MenuReload \/ MenuExit
  BY <1>3 DEF CancelMenu, MenuShow, MenuReload, MenuExit, Return
<1>4. CASE PromptEntries \/ PromptFields \/ CopyToClipboard
  BY <1>4, AllDaemons
  DEF PromptEntries, PromptFields, CopyToClipboard, Return, Panic, AllDaemons
<1>5. CASE MatchEntries \/ TypeEntry
  BY <1>5, AllDaemons DEF MatchEntries, TypeEntry, Return, Panic, AllDaemons
<1>6. CASE ExecuteReturns
  BY <1>6 DEF ExecuteReturns
<1>7. CASE Listen \/ ConnectionError
  BY <1>7, AllDaemons DEF Listen, ConnectionError, AllDaemons
<1>8. CASE PrepareCacheTime
  BY <1>8 DEF PrepareCacheTime
<1>9. CASE AcceptTimeout \/ Accept
  BY <1>9 DEF AcceptTimeout, Accept, TimedOut
<1>10. CASE ReadTimeout
  BY <1>10 DEF ReadTimeout
<1>11. CASE ReadPacket
  BY <1>11, AllDaemons DEF ReadPacket, AllDaemons
<1>12. CASE Show
  BY <1>12 DEF Show
<1>13. CASE \E t \in Threads : OpenStep(t)
  BY <1>13 DEF OpenStep, serverVars
<1>14. CASE Tick
  BY <1>14 DEF Tick
<1>15. CASE UNCHANGED vars
  BY <1>15 DEF vars
<1> QED
  BY <1>1, <1>2, <1>3, <1>4, <1>5, <1>6, <1>7, <1>8, <1>9, <1>10, <1>11,
     <1>12, <1>13, <1>14, <1>15, ServerAssumption
  DEF Next, MainStep, ClientStep, MainOpens, Reload, Reloaders

\* If every client is in daemon mode and no system call fails, a server started
\* with --daemon never ends, whatever its users and its reloads do.
THEOREM DaemonIsPermanent ==
    ASSUME AllDaemons
    PROVE  Spec => []PermanentDaemon
<1>1. Init => DaemonInv
  BY DEF Init, DaemonInv, Ended
<1>2. TypeOK /\ DaemonInv /\ [Next]_vars => DaemonInv'
  BY AllDaemons, NextDaemon
<1>3. DaemonInv => PermanentDaemon
  BY DEF DaemonInv, PermanentDaemon
<1> QED BY <1>1, <1>2, <1>3, TypeCorrect, PTL DEF Spec

-----------------------------------------------------------------------------
(***************************************************************************)
(* That a client is served from another database than the one it names     *)
(* takes two databases: with one, no interleaving of calls and reloads     *)
(* leads there.                                                            *)
(***************************************************************************)
OnlyFrom(d) ==
    /\ conf.database = d /\ own.database = d
    /\ \A i \in Trees : tree[i].database \in {d, None}
    /\ value = EmptyContent \/ value.database = d

LEMMA NextOnlyFrom ==
    ASSUME NEW d \in Databases, \A cfg \in Configs : cfg.database = d
    PROVE  TypeOK /\ OnlyFrom(d) /\ [Next]_vars => OnlyFrom(d)'
<1> SUFFICES ASSUME TypeOK, OnlyFrom(d), [Next]_vars PROVE OnlyFrom(d)'
  OBVIOUS
<1> USE DEF OnlyFrom
<1>1. CASE StartServer \/ Execute \/ DatabaseOpened \/ DatabaseNotOpened \/ CancelMenu
             \/ MenuShow \/ MenuReload \/ MenuExit \/ PromptEntries \/ MatchEntries
             \/ Listen \/ PrepareCacheTime \/ AcceptTimeout \/ ReadTimeout
             \/ ConnectionError \/ Show \/ Accept \/ Tick \/ UNCHANGED vars
  BY <1>1
  DEF StartServer, Execute, DatabaseOpened, DatabaseNotOpened, CancelMenu, MenuShow,
      MenuReload, MenuExit, PromptEntries, MatchEntries, Listen, PrepareCacheTime,
      AcceptTimeout, ReadTimeout, ConnectionError, Show, Accept, Tick, vars, dbVars
<1>2. CASE PromptFields \/ TypeEntry
  <2>1. picked \in Trees
    BY <1>2 DEF PromptFields, TypeEntry, TypeOK
  <2>2. /\ UNCHANGED <<tree, conf, own>>
        /\ value' = value \/ (value' = tree[picked] /\ tree[picked].database # None)
    BY <1>2 DEF PromptFields, TypeEntry, dbVars
  <2> QED
    BY <2>1, <2>2
<1>3. CASE CopyToClipboard \/ ExecuteReturns
  BY <1>3 DEF CopyToClipboard, ExecuteReturns, dbVars
<1>4. CASE ReadPacket
  <2>1. conf' \in Configs
    BY <1>4 DEF ReadPacket, TypeOK, Configs
  <2> QED
    BY <1>4, <2>1 DEF ReadPacket, dbVars
<1>5. CASE \E t \in Threads : OpenStep(t)
  <2>1. PICK t \in Threads : OpenDatabase(t, conf, picked) /\ UNCHANGED serverVars
    BY <1>5 DEF OpenStep
  <2>2. CASE DecodeHeader(t, conf, picked) \/ DecodeDatabase(t, conf, picked)
    <3>1. tree' = tree \/ Decode(conf, picked)
      BY <2>2 DEF DecodeHeader, DecodeDatabase
    <3>2. ASSUME Decode(conf, picked), NEW i \in Trees PROVE tree'[i].database \in {d, None}
      BY <3>2 DEF Decode, Collected, EmptyContent
    <3> QED
      BY <2>1, <3>1, <3>2 DEF serverVars
  <2>3. CASE UnlockProtectedEntries(t)
    BY <2>1, <2>3 DEF UnlockProtectedEntries, serverVars, TypeOK, DatabaseTypeOK, Contents
  <2>4. CASE CheckLoaded(t) \/ PromptPassword(t, conf) \/ AddCredentialsToDatabase(t, conf)
               \/ IterateDatabase(t) \/ SetLoaded(t)
    BY <2>1, <2>4
    DEF CheckLoaded, PromptPassword, AddCredentialsToDatabase, IterateDatabase,
        SetLoaded, serverVars
  <2> QED
    BY <2>1, <2>2, <2>3, <2>4 DEF OpenDatabase
<1> QED
  BY <1>1, <1>2, <1>3, <1>4, <1>5, ServerAssumption
  DEF Next, MainStep, ClientStep, MainOpens, Reload, Reloaders

\* If the server and its clients name one database, what a user is given is from
\* it, daemons and their reloads included (Show).
THEOREM OneDatabaseIsServed ==
    ASSUME NEW d \in Databases, \A cfg \in Configs : cfg.database = d
    PROVE  Spec => []ServedDatabaseIsConfigured
<1>1. Init => OnlyFrom(d)
  BY DEF Init, NewDatabase, EmptyContent, OnlyFrom, Configs
<1>2. TypeOK /\ OnlyFrom(d) /\ [Next]_vars => OnlyFrom(d)'
  BY NextOnlyFrom
<1>3. OnlyFrom(d) => ServedDatabaseIsConfigured
  BY DEF OnlyFrom, ServedDatabaseIsConfigured
<1> QED BY <1>1, <1>2, <1>3, TypeCorrect, PTL DEF Spec
=============================================================================
