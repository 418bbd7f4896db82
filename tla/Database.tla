------------------------------ MODULE Database ------------------------------
(***************************************************************************)
(* The KeePass database that kpmenu keeps in memory (kpmenulib/database.go *)
(* and Menu.OpenDatabase in kpmenulib/menu.go), as seen by the threads that*)
(* open it.  The struct Database has no lock: the foreground thread and the*)
(* goroutines spawned by a daemon run Menu.OpenDatabase on it concurrently.*)
(*                                                                         *)
(* A content tree (Keepass.Content) is named by a member of Trees: every   *)
(* decode allocates a new one, the slice Entries keeps aliasing the tree it*)
(* was built from, and so does an entry the user has picked.               *)
(***************************************************************************)
EXTENDS Naturals

CONSTANTS
    Databases,      \* paths of database files
    Passwords,      \* non-empty passwords
    KeyFiles,       \* paths of key files
    Challenges,     \* values of keyFileData (challenge-response commands)
    None,           \* the empty string of an option, the nil of a pointer
    OpenedBy,       \* for each database the credentials that decrypt it
    Threads,        \* the threads that may run Menu.OpenDatabase
    Trees           \* names for the content trees in memory

VARIABLES
    loaded,         \* Database.Loaded
    creds,          \* Database.Keepass.Credentials
    keepass,        \* the tree Database.Keepass.Content
    entries,        \* the tree the slice Database.Entries was built from
    tree,           \* what each tree holds
    opener          \* each thread's progress in Menu.OpenDatabase

dbVars == <<loaded, creds, keepass, entries, tree, opener>>

Credentials == [password : Passwords \cup {None},
                keyFile  : KeyFiles \cup {None},
                windows  : Challenges \cup {None}]

NoCredentials == [password |-> None, keyFile |-> None, windows |-> None]

\* The part of a Configuration that Menu.OpenDatabase reads.
DatabaseConfig(cfg) ==
    /\ cfg.database \in Databases
    /\ cfg.password \in Passwords \cup {None}
    /\ cfg.keyFile \in KeyFiles \cup {None}
    /\ cfg.keyFileData \in Challenges \cup {None}

\* A tree of a database is readable once its protected values are decrypted.
Contents == [database : Databases \cup {None}, readable : BOOLEAN]

EmptyContent == [database |-> None, readable |-> TRUE]

Resting == {"idle", "done", "failed"}

Working == {"header", "check", "ask", "credentials", "decode", "unlock",
            "iterate", "mark"}

Openers == [pc : Resting \cup Working, password : Passwords \cup {None}]

ASSUME DatabaseAssumption ==
    /\ None \notin Databases \cup Passwords \cup KeyFiles \cup Challenges
    /\ OpenedBy \in [Databases -> Credentials]

\* Three trees can be in use at once; a decode must find a fourth.
ASSUME TreesAssumption ==
    /\ Trees # {} /\ None \notin Trees
    /\ \A a, b, c \in Trees : Trees \ {a, b, c} # {}

DatabaseTypeOK ==
    /\ loaded \in BOOLEAN
    /\ creds \in Credentials
    /\ keepass \in Trees
    /\ entries \in Trees
    /\ tree \in [Trees -> Contents]
    /\ opener \in [Threads -> Openers]

-----------------------------------------------------------------------------
Idle == [pc |-> "idle", password |-> None]

\* NewDatabase: nothing loaded, gokeepasslib's default credentials.
NewDatabase ==
    /\ loaded = FALSE
    /\ creds = NoCredentials
    /\ keepass = CHOOSE i \in Trees : TRUE
    /\ entries = keepass
    /\ tree = [i \in Trees |-> EmptyContent]
    /\ opener = [t \in Threads |-> Idle]

Opening(t) == opener[t].pc \in Working

GoTo(t, pc) == opener' = [opener EXCEPT ![t].pc = pc]

\* What a call of Menu.OpenDatabase by thread t does first.
StartOpening(t) == [opener EXCEPT ![t] = [pc |-> "header", password |-> None]]

FreshTree(picked) == CHOOSE i \in Trees : i \notin {keepass, entries, picked}

\* A tree nobody refers to is garbage.
Collected(i, picked) == IF i \in {entries, picked} THEN tree[i] ELSE EmptyContent

Decrypts(cfg) == creds = OpenedBy[cfg.database]

\* A successful Decode puts a new tree, its protected values still encrypted,
\* in Keepass.Content.
Decode(cfg, picked) ==
    LET new == FreshTree(picked)
    IN  /\ Decrypts(cfg)
        /\ keepass' = new
        /\ tree' = [i \in Trees |->
                       IF i = new
                          THEN [database |-> cfg.database, readable |-> FALSE]
                          ELSE Collected(i, picked)]

\* Line 123 of menu.go: the decode done for the header; its error is dropped.
DecodeHeader(t, cfg, picked) ==
    /\ opener[t].pc = "header"
    /\ \/ Decode(cfg, picked)
       \/ UNCHANGED <<keepass, tree>>
    /\ GoTo(t, "check")
    /\ UNCHANGED <<loaded, creds, entries>>

\* Mutant of CheckLoaded: the password is asked for even on a reload.
CheckLoadedAlwaysAsks(t) ==
    /\ opener[t].pc = "check"
    /\ GoTo(t, "ask")
    /\ UNCHANGED <<loaded, creds, keepass, entries, tree>>

\* A loaded database is decoded again with the credentials it already has.
CheckLoaded(t) ==
    /\ opener[t].pc = "check"
    /\ GoTo(t, IF loaded THEN "decode" ELSE "ask")
    /\ UNCHANGED <<loaded, creds, keepass, entries, tree>>

\* The password comes from the configuration, or else from the prompt, where
\* the user may type nothing, and may cancel.
PromptPassword(t, cfg) ==
    /\ opener[t].pc = "ask"
    /\ \/ /\ cfg.password # None
          /\ opener' = [opener EXCEPT ![t] = [pc |-> "credentials",
                                              password |-> cfg.password]]
       \/ /\ cfg.password = None
          /\ \E typed \in Passwords \cup {None} :
                opener' = [opener EXCEPT ![t] = [pc |-> "credentials",
                                                 password |-> typed]]
       \/ /\ cfg.password = None
          /\ GoTo(t, "failed")
    /\ UNCHANGED <<loaded, creds, keepass, entries, tree>>

\* Without a password and a readable key file the old credentials stay.
AddPasswordAndKey(password, keyFile) ==
    IF password = None /\ keyFile = None
        THEN creds
        ELSE [password |-> password, keyFile |-> keyFile, windows |-> None]

\* A keyFileData that cannot be read or run leaves no key data, or the old one.
AddKeyFileData(base, keyFileData) ==
    IF keyFileData = None
        THEN {base}
        ELSE {base, [base EXCEPT !.windows = keyFileData],
                    [base EXCEPT !.windows = None]}

\* ParseKeyFile may fail, which leaves the key out.
AddCredentialsToDatabase(t, cfg) ==
    /\ opener[t].pc = "credentials"
    /\ \E keyFile \in {cfg.keyFile, None} :
          creds' \in AddKeyFileData(
                        AddPasswordAndKey(opener[t].password, keyFile),
                        cfg.keyFileData)
    /\ GoTo(t, "decode")
    /\ UNCHANGED <<loaded, keepass, entries, tree>>

\* Mutant of DecodeDatabase: the values are not decrypted.
DecodeDatabaseOnly(t, cfg, picked) ==
    /\ opener[t].pc = "decode"
    /\ \/ Decode(cfg, picked) /\ GoTo(t, "iterate")
       \/ GoTo(t, "failed") /\ UNCHANGED <<keepass, tree>>
    /\ UNCHANGED <<loaded, creds, entries>>

\* Mutant of DecodeDatabase: a wrong password is asked for again.
DecodeDatabaseRetries(t, cfg, picked) ==
    /\ opener[t].pc = "decode"
    /\ \/ Decode(cfg, picked) /\ GoTo(t, "unlock")
       \/ GoTo(t, "ask") /\ UNCHANGED <<keepass, tree>>
    /\ UNCHANGED <<loaded, creds, entries>>

\* Database.OpenDatabase: the decode whose failure is fatal.
DecodeDatabase(t, cfg, picked) ==
    /\ opener[t].pc = "decode"
    /\ \/ Decode(cfg, picked) /\ GoTo(t, "unlock")
       \/ GoTo(t, "failed") /\ UNCHANGED <<keepass, tree>>
    /\ UNCHANGED <<loaded, creds, entries>>

\* UnlockProtectedEntries decrypts the current tree in place, whichever thread
\* decoded it; a tree decrypted twice may be left readable or not.
UnlockProtectedEntries(t) ==
    /\ opener[t].pc = "unlock"
    /\ \E readable \in IF tree[keepass].readable THEN BOOLEAN ELSE {TRUE} :
          tree' = [tree EXCEPT ![keepass].readable = readable]
    /\ GoTo(t, "iterate") \/ GoTo(t, "failed")
    /\ UNCHANGED <<loaded, creds, keepass, entries>>

IterateDatabase(t) ==
    /\ opener[t].pc = "iterate"
    /\ entries' = keepass
    /\ GoTo(t, "mark")
    /\ UNCHANGED <<loaded, creds, keepass, tree>>

SetLoaded(t) ==
    /\ opener[t].pc = "mark"
    /\ loaded' = TRUE
    /\ GoTo(t, "done")
    /\ UNCHANGED <<creds, keepass, entries, tree>>

\* One step of Menu.OpenDatabase by thread t, which reads the configuration
\* cfg as it is at that step, while the tree picked is in use elsewhere.
OpenDatabase(t, cfg, picked) ==
    \/ DecodeHeader(t, cfg, picked)
    \/ CheckLoaded(t)
    \/ PromptPassword(t, cfg)
    \/ AddCredentialsToDatabase(t, cfg)
    \/ DecodeDatabase(t, cfg, picked)
    \/ UnlockProtectedEntries(t)
    \/ IterateDatabase(t)
    \/ SetLoaded(t)
=============================================================================
