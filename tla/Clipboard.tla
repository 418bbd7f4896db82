----------------------------- MODULE Clipboard ------------------------------
(***************************************************************************)
(* The clipboard (kpmenulib/clipboard.go): CopyToClipboard puts a value in *)
(* it and CleanClipboard leaves a goroutine, a cleaner, that removes the   *)
(* value after a timeout unless the clipboard has changed.  The cleaners   *)
(* run beside the server, which serves further calls meanwhile, each with  *)
(* a Configuration of its own, and beside the user, who copies too; main() *)
(* waits for them with a WaitGroup.                                        *)
(*                                                                         *)
(* The clipboard programs are external: each tool has a clipboard of its   *)
(* own, which holds one text.                                              *)
(***************************************************************************)
EXTENDS Naturals, FiniteSets

CONSTANTS
    Tools,          \* the clipboard tools that can be run
    Secrets,        \* values of fields of the database
    UserTexts,      \* what the user may copy by other means
    None,           \* an empty clipboard; a tool the code does not know
    Configs,        \* the configurations of the server and its clients
    Cleaners,       \* bound: names for cleaners, one per cleaner not yet done
    Faults          \* which programs and system calls may fail

VARIABLES
    server,         \* what the foreground thread does
    conf,           \* Menu.Configuration
    held,           \* what each clipboard holds
    cleaner,        \* the cleaners
    waitGroup,      \* the counter of Menu.WaitGroup
    failed          \* history: a program run by a cleaner has failed

vars == <<server, conf, held, cleaner, waitGroup, failed>>

Texts == Secrets \cup UserTexts

ASSUME ClipboardAssumption ==
    /\ None \notin Tools \cup Texts
    /\ Secrets \cap UserTexts = {}
    /\ IsFiniteSet(Cleaners)
    /\ \A cfg \in Configs : /\ cfg.clipboardTool \in Tools \cup {None}
                            /\ cfg.clipboardTimeout \in Nat
    /\ Faults \subseteq {"exit", "paste", "clean"}

CleanerState == [pc : {"none", "started", "asleep", "matched"},
                 text : Secrets \cup {None},
                 left : Nat]    \* how long it still sleeps

TypeOK ==
    /\ server \in {"menu", "listening", "waiting", "exited", "aborted"}
    /\ conf \in Configs
    /\ held \in [Tools -> Texts \cup {None}]
    /\ cleaner \in [Cleaners -> CleanerState]
    /\ waitGroup \in Nat
    /\ failed \in BOOLEAN

-----------------------------------------------------------------------------
NoCleaner == [pc |-> "none", text |-> None, left |-> 0]

Pending == {c \in Cleaners : cleaner[c].pc # "none"}

Running == server \notin {"exited", "aborted"}

\* A daemon listens at once, any other server first opens its own menu.
Init ==
    /\ server \in {"menu", "listening"}
    /\ conf \in Configs
    /\ held = [t \in Tools |-> None]
    /\ cleaner = [c \in Cleaners |-> NoCleaner]
    /\ waitGroup = 0
    /\ failed = FALSE

\* A client's call replaces the configuration, also under running cleaners.
ClientCalls ==
    /\ server = "listening"
    /\ conf' \in Configs
    /\ server' = "menu"
    /\ UNCHANGED <<held, cleaner, waitGroup, failed>>

\* Mutant of CleanClipboard: the goroutine does WaitGroup.Add itself.
CleanClipboardAddsLate(text) ==
    IF conf.clipboardTimeout > 0
        THEN \E c \in Cleaners \ Pending :
                /\ cleaner' = [cleaner EXCEPT ![c] =
                        [pc |-> "started", text |-> text, left |-> 0]]
                /\ UNCHANGED waitGroup
        ELSE UNCHANGED <<cleaner, waitGroup>>

\* Mutant of CleanClipboard: one cleaner at a time.
CleanClipboardOnce(text) ==
    IF conf.clipboardTimeout > 0 /\ Pending = {}
        THEN \E c \in Cleaners \ Pending :
                /\ cleaner' = [cleaner EXCEPT ![c] =
                        [pc |-> "started", text |-> text, left |-> 0]]
                /\ waitGroup' = waitGroup + 1
        ELSE UNCHANGED <<cleaner, waitGroup>>

\* CleanClipboard: WaitGroup.Add and the go statement.
CleanClipboard(text) ==
    IF conf.clipboardTimeout > 0
        THEN \E c \in Cleaners \ Pending :
                /\ cleaner' = [cleaner EXCEPT ![c] =
                        [pc |-> "started", text |-> text, left |-> 0]]
                /\ waitGroup' = waitGroup + 1
        ELSE UNCHANGED <<cleaner, waitGroup>>

\* entrySelection copies the field it was given and the call ends; a server
\* without a cache ends with it.
CopyToClipboard ==
    /\ server = "menu"
    /\ conf.clipboardTool # None
    /\ \E text \in Secrets :
          /\ held' = [held EXCEPT ![conf.clipboardTool] = text]
          /\ CleanClipboard(text)
    /\ server' \in {"listening", "waiting"}
    /\ UNCHANGED <<conf, failed>>

\* The call ends without a copy, or the copy fails and that is fatal.
CallEnds ==
    /\ server = "menu"
    /\ server' \in {"listening", "waiting"}
    /\ UNCHANGED <<conf, held, cleaner, waitGroup, failed>>

\* The cache times out, or the user has picked "Exit".
StartServerReturns ==
    /\ server = "listening"
    /\ server' = "waiting"
    /\ UNCHANGED <<conf, held, cleaner, waitGroup, failed>>

\* Mutant of Wait: main() returns at once.
WaitNot ==
    /\ server = "waiting"
    /\ server' = "exited"
    /\ UNCHANGED <<conf, held, cleaner, waitGroup, failed>>

\* WaitGroup.Wait, and main() returns.
Wait ==
    /\ server = "waiting"
    /\ waitGroup = 0
    /\ server' = "exited"
    /\ UNCHANGED <<conf, held, cleaner, waitGroup, failed>>

\* log.Fatalf on a bad connection or configuration, os.Exit on a fatal error
\* without a cache: nothing is waited for.
Abort ==
    /\ "exit" \in Faults
    /\ server \in {"menu", "listening"}
    /\ server' = "aborted"
    /\ UNCHANGED <<conf, held, cleaner, waitGroup, failed>>

\* validateConfig lets an unknown tool through: its command is a nil pointer.
CopyPanics ==
    /\ server = "menu"
    /\ conf.clipboardTool = None
    /\ server' = "aborted"
    /\ UNCHANGED <<conf, held, cleaner, waitGroup, failed>>

\* The goroutine runs and reads how long to sleep.
Sleep(c) ==
    /\ Running
    /\ cleaner[c].pc = "started"
    /\ cleaner' = [cleaner EXCEPT ![c].pc = "asleep",
                                  ![c].left = conf.clipboardTimeout]
    /\ UNCHANGED <<server, conf, held, waitGroup, failed>>

Awake(c) == Running /\ cleaner[c].pc = "asleep" /\ cleaner[c].left = 0

\* The deferred WaitGroup.Done.
Done(c) ==
    /\ cleaner' = [cleaner EXCEPT ![c] = NoCleaner]
    /\ waitGroup' = waitGroup - 1

\* The clipboard of the tool now configured is compared with the value.
GetClipboard(c) ==
    /\ Awake(c)
    /\ conf.clipboardTool # None
    /\ \/ /\ held[conf.clipboardTool] = cleaner[c].text
          /\ cleaner' = [cleaner EXCEPT ![c].pc = "matched"]
          /\ UNCHANGED <<waitGroup, failed>>
       \/ /\ held[conf.clipboardTool] # cleaner[c].text
          /\ Done(c)
          /\ UNCHANGED failed
       \/ /\ "paste" \in Faults
          /\ Done(c)
          /\ failed' = TRUE
    /\ UNCHANGED <<server, conf, held>>

\* GetClipboard has no command for an unknown tool; the panic ends the process.
CleanerPanics(c) ==
    /\ Awake(c)
    /\ conf.clipboardTool = None
    /\ server' = "aborted"
    /\ UNCHANGED <<conf, held, cleaner, waitGroup, failed>>

\* The clipboard of the tool configured by then is emptied; an unknown tool, or
\* a custom one without a command for it, is left alone.
Clean(c) ==
    /\ Running
    /\ cleaner[c].pc = "matched"
    /\ \/ /\ conf.clipboardTool # None
          /\ held' = [held EXCEPT ![conf.clipboardTool] = None]
          /\ UNCHANGED failed
       \/ conf.clipboardTool = None /\ UNCHANGED <<held, failed>>
       \/ "clean" \in Faults /\ failed' = TRUE /\ UNCHANGED held
    /\ Done(c)
    /\ UNCHANGED <<server, conf>>

UserCopies ==
    /\ \E t \in Tools, text \in UserTexts : held' = [held EXCEPT ![t] = text]
    /\ UNCHANGED <<server, conf, cleaner, waitGroup, failed>>

\* One unit of time for every sleeping cleaner.
Tick ==
    /\ Running
    /\ cleaner' = [c \in Cleaners |->
          IF cleaner[c].left > 0 THEN [cleaner[c] EXCEPT !.left = @ - 1]
                                 ELSE cleaner[c]]
    /\ UNCHANGED <<server, conf, held, waitGroup, failed>>

CleanerStep(c) == Sleep(c) \/ GetClipboard(c) \/ CleanerPanics(c) \/ Clean(c)

Next ==
    \/ ClientCalls \/ CopyToClipboard \/ CallEnds
    \/ StartServerReturns \/ Wait \/ Abort \/ CopyPanics
    \/ \E c \in Cleaners : CleanerStep(c)
    \/ UserCopies \/ Tick

Spec == Init /\ [][Next]_vars

\* Goroutines that can run do, and time goes on.
Fairness == (\A c \in Cleaners : WF_vars(CleanerStep(c))) /\ WF_vars(Tick)

FairSpec == Spec /\ Fairness

-----------------------------------------------------------------------------
\* main() does not end while a cleaner has a value to remove (CleanClipboard's
\* WaitGroup and main's Wait).
ExitWaits == server = "exited" => Pending = {}

\* No value stays in a clipboard for ever (CleanClipboard, README.md:16).
SecretsRemoved ==
    \A t \in Tools, s \in Secrets : held[t] = s ~> held[t] # s

\* That holds as long as every call names the same tool and a timeout, the
\* programs run by the cleaners work and the process is not ended by an error,
\* whatever the timeouts, the other copies and the order of the cleaners.
SecretsRemovedIfUndisturbed ==
    \A t \in Tools :
       []( /\ conf.clipboardTool = t /\ conf.clipboardTimeout > 0
           /\ ~failed /\ server # "aborted" )
       => \A s \in Secrets : held[t] = s ~> held[t] # s

\* A value of the database in the clipboard of tool t is one a cleaner looks for.
Watched(t) == held[t] \in Secrets => \E c \in Pending : cleaner[c].text = held[t]

\* While the tool and a timeout are configured and the cleaners' programs work,
\* no step leaves a value of the database in the clipboard without a cleaner that
\* looks for it: not a second copy, not an earlier cleaner that finds another text,
\* not one that removes the text (CleanClipboard, clipboard.go:93-126).
SecretsStayWatched ==
    [][\A t \in Tools :
          /\ conf.clipboardTool = t /\ conf.clipboardTimeout > 0 /\ ~failed'
          /\ Watched(t)
          => Watched(t)']_vars

\* What the user has copied is never removed (CleanClipboard, clipboard.go:92).
UserTextStays ==
    [][\A t \in Tools : held[t] \in UserTexts => held'[t] # None]_vars
=============================================================================
