----------------------------- MODULE ServedCall -----------------------------
(***************************************************************************)
(* A call's dialogue as the server that makes it knows it: Interaction     *)
(* implements the steps with which MenuServer stands for the same half of  *)
(* Menu.Execute.  What MenuServer leaves open there (whether a field is    *)
(* chosen, what ends a prompt, when a panic comes) Interaction settles.    *)
(*                                                                         *)
(* During the call nothing else moves: the database is the one that is     *)
(* open, no other thread opens it, and "Reload" has ended when Interaction *)
(* asks again.                                                             *)
(***************************************************************************)
EXTENDS Interaction

\* What Execute sees of a configuration.
ServedConf(autotype) ==
    [database |-> "database", password |-> "none", keyFile |-> "none",
     keyFileData |-> "none", daemon |-> FALSE, nocache |-> FALSE,
     cacheOneTime |-> FALSE, autotype |-> autotype, cacheTimeout |-> 0]

ServedCredentials == [password |-> "password", keyFile |-> "none", windows |-> "none"]

\* The names for trees, and what they hold: the first is the open one.
ServedTrees == {"open", "second", "third", "fourth"}

OpenContent == [database |-> "database", readable |-> TRUE]

NoContent == [database |-> "none", readable |-> TRUE]

ServedTree == [i \in ServedTrees |-> IF i = "open" THEN OpenContent ELSE NoContent]

\* Where the server is.
ServedPc ==
    CASE pc \in {"execute", "menu", "entries", "fields"} -> pc
      [] pc \in {"window", "choose", "entry"}            -> "autotype"
      [] pc \in {"prepare", "typing", "typer"}           -> "typing"
      [] pc = "panicked"                                 -> "aborted"
      [] pc = "done" /\ value # Nothing                  -> "copy"
      [] OTHER                                           -> "return"

\* The entries have been put to the user, or matched with a window.
Listed == pc \notin {"execute", "menu", "left", "exited", "window", "choose", "entry"}

\* The user has been given something of an entry.
HandedOut == pc = "done" /\ (value # Nothing \/ (typed # <<>> /\ entry # 0))

\* Time 0 of MenuServer is before any process.
Server == INSTANCE MenuServer WITH
    Databases     <- {"database"},
    Passwords     <- {"password"},
    KeyFiles      <- {},
    Challenges    <- {},
    None          <- "none",
    OpenedBy      <- [d \in {"database"} |-> ServedCredentials],
    Threads       <- {"main"},
    Trees         <- ServedTrees,
    Main          <- "main",
    ServerConfigs <- {ServedConf(TRUE), ServedConf(FALSE)},
    ClientConfigs <- {},
    MaxTimeout    <- 0,
    StartTime     <- 1,
    MaxTime       <- MaxTime + 1,
    LastCall      <- 0,
    Faults        <- {"panic"},
    loaded        <- pc # "exited",
    creds         <- ServedCredentials,
    keepass       <- "open",
    entries       <- "open",
    tree          <- ServedTree,
    opener        <- [t \in {"main"} |-> [pc |-> "idle", password |-> "none"]],
    now           <- now + 1,
    own           <- ServedConf(Autotyping),
    conf          <- ServedConf(Autotyping),
    cacheStart    <- 1,
    deadline      <- MaxTime + 2,
    pc            <- ServedPc,
    caller        <- "first",
    fatal         <- pc = "exited",
    reload        <- FALSE,
    picked        <- IF Listed THEN "open" ELSE "none",
    value         <- IF HandedOut THEN OpenContent ELSE NoContent,
    lastUse       <- 1

ServerCallStep ==
    \/ Server!Execute
    \/ Server!CancelMenu \/ Server!MenuShow \/ Server!MenuExit
    \/ Server!PromptEntries \/ Server!PromptFields
    \/ Server!MatchEntries \/ Server!TypeEntry
    \/ Server!Tick

\* The server is about to make the call, in a state of its own.
ServerCallStarts ==
    /\ Server!TypeOK
    /\ Server!LoadedIsProven
    /\ ServedPc = "execute"

\* The dialogue does to the server's state only what MenuServer says a call may do,
\* in the order it says: the menu only without autotype, a field only from the
\* entries that were listed, "Exit" alone locks the database and is fatal
\* (menu.go:42, kpmenulib/menu.go:180).
ServedAsPromised == ServerCallStarts /\ [][ServerCallStep]_(Server!vars)
=============================================================================
