---------------------------- MODULE MCMenuServer ----------------------------
(* Configurations of the server and its clients for the runs of MenuServer. *)
EXTENDS MenuServer

CONSTANTS db1, db2, pw1, pw2, key1, yubi1

\* kpmenu without arguments, with a short timeout.
Caching == [daemon |-> FALSE, nocache |-> FALSE, cacheOneTime |-> FALSE,
            autotype |-> FALSE, cacheTimeout |-> 2, database |-> db1,
            password |-> None, keyFile |-> None, keyFileData |-> None]

LongCaching == [Caching EXCEPT !.cacheTimeout = 3]
NoCache     == [Caching EXCEPT !.nocache = TRUE]
OneTime     == [Caching EXCEPT !.cacheOneTime = TRUE]
Autotyping  == [Caching EXCEPT !.autotype = TRUE]
Daemon      == [Caching EXCEPT !.daemon = TRUE]
OtherFile   == [Caching EXCEPT !.database = db2]
WithKey     == [OtherFile EXCEPT !.password = pw2, !.keyFile = key1]
WithYubikey == [WithKey EXCEPT !.keyFileData = yubi1]

\* db1 is opened by a password, db2 by a password and a key file.
PasswordAndKey == [d \in {db1, db2} |->
    IF d = db1
       THEN [password |-> pw1, keyFile |-> None, windows |-> None]
       ELSE [password |-> pw2, keyFile |-> key1, windows |-> None]]

PasswordOnly == [d \in {db1} |-> PasswordAndKey[d]]

\* The same, db2 with a challenge-response too.
PasswordAndYubikey ==
    [PasswordAndKey EXCEPT ![db2].windows = yubi1]

CacheServers   == {Caching, NoCache, WithYubikey}
CacheClients   == {Caching, LongCaching, NoCache, OneTime, Autotyping,
                   WithYubikey, WithKey, OtherFile}
DaemonServers  == {Daemon}
DaemonClients  == {Daemon, [Daemon EXCEPT !.autotype = TRUE]}
PlainConfigs   == {Caching}
NoCacheClients == {NoCache}
OtherClients   == {OtherFile, WithKey}
=============================================================================
