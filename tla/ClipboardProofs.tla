-------------------------- MODULE ClipboardProofs ---------------------------
(***************************************************************************)
(* main() ends only when every cleaner has done its work: the counter of   *)
(* the WaitGroup is the number of cleaners that have not, at every step.   *)
(* And while nothing disturbs the cleaners, every value in the clipboard   *)
(* has one that looks for it.                                              *)
(***************************************************************************)
EXTENDS Clipboard, FiniteSetTheorems, TLAPS

\* The counter is exact, so the Wait that main() passes sees every cleaner.
CountInv == waitGroup = Cardinality(Pending)

ClipboardInv == TypeOK /\ CountInv /\ ExitWaits

\* The cleaners are finitely many, and so are those that are pending.
LEMMA PendingFinite == IsFiniteSet(Pending) /\ Cardinality(Pending) \in Nat
  <1>1. Pending \subseteq Cleaners
    BY DEF Pending
  <1>2. IsFiniteSet(Pending)
    BY <1>1, ClipboardAssumption, FS_Subset
  <1> QED
    BY <1>2, FS_CardinalityType

\* A cleaner that starts is counted.
LEMMA CleanerAdded ==
  ASSUME TypeOK, NEW c \in Cleaners \ Pending, NEW state \in CleanerState,
         state.pc # "none", cleaner' = [cleaner EXCEPT ![c] = state]
  PROVE  Cardinality(Pending') = Cardinality(Pending) + 1
  <1>1. Pending' = Pending \cup {c}
    BY DEF Pending, TypeOK
  <1> QED
    BY <1>1, PendingFinite, FS_AddElement

\* A cleaner that is done is no longer counted.
LEMMA CleanerRemoved ==
  ASSUME TypeOK, NEW c \in Pending, cleaner' = [cleaner EXCEPT ![c] = NoCleaner]
  PROVE  /\ Cardinality(Pending') = Cardinality(Pending) - 1
         /\ Cardinality(Pending) \in Nat \ {0}
  <1>1. Pending' = Pending \ {c}
    BY DEF Pending, TypeOK, NoCleaner
  <1>2. Cardinality(Pending) # 0
    BY PendingFinite, FS_EmptySet
  <1> QED
    BY <1>1, <1>2, PendingFinite, FS_RemoveElement

\* A step that leaves every cleaner's progress alone leaves the count alone.
LEMMA SamePending ==
  ASSUME \A c \in Cleaners : (cleaner[c].pc = "none") <=> (cleaner'[c].pc = "none")
  PROVE  Pending' = Pending
  BY DEF Pending

LEMMA InitialClipboard == Init => ClipboardInv
  <1> SUFFICES ASSUME Init PROVE ClipboardInv
    OBVIOUS
  <1>1. Pending = {}
    BY DEF Init, Pending, NoCleaner
  <1>2. TypeOK
    BY DEF Init, TypeOK, NoCleaner, CleanerState
  <1> QED
    BY <1>1, <1>2, FS_EmptySet DEF Init, ClipboardInv, CountInv, ExitWaits

LEMMA DoneKeeps ==
  ASSUME ClipboardInv, Running, NEW c \in Pending, Done(c),
         UNCHANGED <<server, conf>>, held' \in [Tools -> Texts \cup {None}],
         failed' \in BOOLEAN
  PROVE  ClipboardInv'
  <1> USE DEF ClipboardInv
  <1>1. /\ Cardinality(Pending') = Cardinality(Pending) - 1
        /\ Cardinality(Pending) \in Nat \ {0}
    BY CleanerRemoved DEF Done
  <1>2. CountInv' /\ waitGroup' \in Nat
    BY <1>1 DEF Done, CountInv
  <1>3. cleaner' \in [Cleaners -> CleanerState]
    BY DEF TypeOK, Done, NoCleaner, CleanerState, Pending
  <1> QED
    BY <1>2, <1>3 DEF TypeOK, ExitWaits, Running

LEMMA NextClipboard == ClipboardInv /\ [Next]_vars => ClipboardInv'
  <1> SUFFICES ASSUME ClipboardInv, [Next]_vars PROVE ClipboardInv'
    OBVIOUS
  <1> USE DEF ClipboardInv
  <1>1. CASE UNCHANGED vars
    BY <1>1 DEF vars, TypeOK, CountInv, ExitWaits, Pending
  <1>2. CASE ClientCalls \/ CallEnds \/ StartServerReturns \/ Abort \/ CopyPanics
    <2>1. UNCHANGED <<cleaner, waitGroup, held, failed>>
          /\ conf' \in Configs
          /\ server' \in {"menu", "listening", "waiting", "aborted"}
      BY <1>2 DEF ClientCalls, CallEnds, StartServerReturns, Abort, CopyPanics,
                  TypeOK
    <2> QED
      BY <2>1 DEF TypeOK, CountInv, ExitWaits, Pending
  <1>3. CASE CopyToClipboard
    <2>1. PICK text \in Secrets : /\ CleanClipboard(text)
                                  /\ held' = [held EXCEPT ![conf.clipboardTool] = text]
      BY <1>3 DEF CopyToClipboard
    <2>2. held' \in [Tools -> Texts \cup {None}]
      BY <1>3, <2>1, ClipboardAssumption DEF CopyToClipboard, TypeOK, Texts
    <2>3. /\ server' \in {"listening", "waiting"}
          /\ conf' \in Configs
          /\ failed' \in BOOLEAN
      BY <1>3 DEF CopyToClipboard, TypeOK
    <2>4. CASE conf.clipboardTimeout > 0
      <3> DEFINE state == [pc |-> "started", text |-> text, left |-> 0]
      <3>1. PICK c \in Cleaners \ Pending :
               cleaner' = [cleaner EXCEPT ![c] = state] /\ waitGroup' = waitGroup + 1
        BY <2>1, <2>4 DEF CleanClipboard
      <3>2. state \in CleanerState /\ state.pc # "none"
        BY DEF CleanerState
      <3> HIDE DEF state
      <3>3. CountInv' /\ waitGroup' \in Nat
        <4>1. Cardinality(Pending') = Cardinality(Pending) + 1
          BY <3>1, <3>2, CleanerAdded
        <4> QED
          BY <3>1, <4>1, PendingFinite DEF CountInv
      <3>4. cleaner' \in [Cleaners -> CleanerState]
        BY <3>1, <3>2 DEF TypeOK
      <3> QED
        BY <2>2, <2>3, <3>3, <3>4 DEF TypeOK, ExitWaits
    <2>5. CASE ~(conf.clipboardTimeout > 0)
      <3>1. UNCHANGED <<cleaner, waitGroup>>
        BY <2>1, <2>5 DEF CleanClipboard
      <3> QED
        BY <2>2, <2>3, <3>1 DEF TypeOK, CountInv, ExitWaits, Pending
    <2> QED
      BY <2>4, <2>5
  <1>4. CASE Wait
    <2>1. Pending = {}
      BY <1>4, PendingFinite, FS_EmptySet DEF Wait, CountInv
    <2> QED
      BY <1>4, <2>1 DEF Wait, TypeOK, CountInv, ExitWaits, Pending
  <1>5. CASE \E c \in Cleaners : CleanerStep(c)
    <2>1. PICK c \in Cleaners : CleanerStep(c)
      BY <1>5
    <2>2. CASE Sleep(c)
      <3>1. cleaner' \in [Cleaners -> CleanerState]
        BY <2>2, ClipboardAssumption DEF Sleep, TypeOK, CleanerState
      <3>2. Pending' = Pending
        BY <2>2, SamePending DEF Sleep, TypeOK
      <3> QED
        BY <2>2, <3>1, <3>2 DEF Sleep, TypeOK, CountInv, ExitWaits, Running
    <2>3. CASE GetClipboard(c)
      <3>1. c \in Pending /\ Running /\ failed' \in BOOLEAN
        BY <2>3 DEF GetClipboard, Awake, Pending, TypeOK
      <3>2. CASE Done(c)
        BY <2>3, <3>1, <3>2, DoneKeeps DEF GetClipboard, TypeOK
      <3>3. CASE cleaner' = [cleaner EXCEPT ![c].pc = "matched"] /\ UNCHANGED waitGroup
        <4>1. cleaner' \in [Cleaners -> CleanerState]
          BY <3>3 DEF TypeOK, CleanerState
        <4>2. Pending' = Pending
          BY <3>1, <3>3, SamePending DEF TypeOK, Pending
        <4> QED
          BY <2>3, <3>1, <3>3, <4>1, <4>2
             DEF GetClipboard, TypeOK, CountInv, ExitWaits, Running
      <3> QED
        BY <2>3, <3>2, <3>3 DEF GetClipboard
    <2>4. CASE CleanerPanics(c)
      BY <2>4 DEF CleanerPanics, TypeOK, CountInv, ExitWaits, Pending
    <2>5. CASE Clean(c)
      <3>1. c \in Pending /\ Running /\ Done(c)
        BY <2>5 DEF Clean, Pending
      <3>2. held' \in [Tools -> Texts \cup {None}] /\ failed' \in BOOLEAN
        BY <2>5 DEF Clean, TypeOK
      <3> QED
        BY <2>5, <3>1, <3>2, DoneKeeps DEF Clean
    <2> QED
      BY <2>1, <2>2, <2>3, <2>4, <2>5 DEF CleanerStep
  <1>6. CASE UserCopies
    BY <1>6 DEF UserCopies, TypeOK, CountInv, ExitWaits, Pending, Texts
  <1>7. CASE Tick
    <2>1. cleaner' \in [Cleaners -> CleanerState]
      BY <1>7 DEF Tick, TypeOK, CleanerState
    <2>2. Pending' = Pending
      BY <1>7, SamePending DEF Tick, TypeOK, CleanerState
    <2> QED
      BY <1>7, <2>1, <2>2 DEF Tick, TypeOK, CountInv, ExitWaits
  <1> QED
    BY <1>1, <1>2, <1>3, <1>4, <1>5, <1>6, <1>7 DEF Next

\* The state keeps its types; in particular the WaitGroup's counter, whose
\* fall below zero is a panic, never does (WaitGroup.Add and Done).
THEOREM ClipboardTypeCorrect == Spec => []TypeOK
  <1>1. ClipboardInv => TypeOK
    BY DEF ClipboardInv
  <1> QED
    BY <1>1, InitialClipboard, NextClipboard, PTL DEF Spec

\* main() never ends while a cleaner is pending (main.go:51).
THEOREM MainWaitsForCleaners == Spec => []ExitWaits
  <1>1. ClipboardInv => ExitWaits
    BY DEF ClipboardInv
  <1> QED
    BY <1>1, InitialClipboard, NextClipboard, PTL DEF Spec

-----------------------------------------------------------------------------
\* A step that leaves a clipboard, and the cleaners that look for what it holds,
\* leaves them watching.
LEMMA WatchersStay ==
  ASSUME NEW t \in Tools, Watched(t), held'[t] = held[t],
         \A c \in Pending : cleaner[c].text = held[t]
                               => cleaner'[c].pc # "none" /\ cleaner'[c].text = held[t]
  PROVE  Watched(t)'
  BY DEF Watched, Pending

\* A value that is put in the clipboard gets a cleaner, and loses it only with the
\* value.
LEMMA NextWatched ==
  ASSUME ClipboardInv, Next, NEW t \in Tools,
         conf.clipboardTool = t, conf.clipboardTimeout > 0, ~failed', Watched(t)
  PROVE  Watched(t)'
  <1>0. TypeOK /\ t # None /\ None \notin Secrets /\ Secrets \cap UserTexts = {}
    BY ClipboardAssumption DEF ClipboardInv, Texts
  <1>1. CASE ClientCalls \/ CallEnds \/ StartServerReturns \/ Wait \/ Abort \/ CopyPanics
    BY <1>1 DEF ClientCalls, CallEnds, StartServerReturns, Wait, Abort, CopyPanics,
                Watched, Pending
  <1>2. CASE CopyToClipboard
    <2>1. PICK text \in Secrets :
             /\ held' = [held EXCEPT ![t] = text]
             /\ CleanClipboard(text)
      BY <1>2 DEF CopyToClipboard
    <2>2. PICK c \in Cleaners \ Pending :
             cleaner' = [cleaner EXCEPT ![c] =
                            [pc |-> "started", text |-> text, left |-> 0]]
      BY <2>1 DEF CleanClipboard
    <2>3. held'[t] = text /\ c \in Pending' /\ cleaner'[c].text = text
      BY <1>0, <2>1, <2>2 DEF TypeOK, Pending
    <2> QED
      BY <2>3 DEF Watched
  <1>3. CASE \E c \in Cleaners : Sleep(c)
    BY <1>0, <1>3, WatchersStay DEF Sleep, TypeOK, CleanerState, Pending
  <1>4. CASE \E c \in Cleaners : GetClipboard(c)
    <2>1. PICK c \in Cleaners : GetClipboard(c)
      BY <1>4
    <2>2. CASE cleaner' = [cleaner EXCEPT ![c].pc = "matched"]
      BY <1>0, <2>1, <2>2, WatchersStay DEF GetClipboard, TypeOK, CleanerState, Pending
    <2>3. CASE held[t] # cleaner[c].text /\ Done(c)
      BY <1>0, <2>1, <2>3, WatchersStay DEF GetClipboard, Done, TypeOK, Pending
    <2> QED
      BY <2>1, <2>2, <2>3 DEF GetClipboard
  <1>5. CASE \E c \in Cleaners : CleanerPanics(c)
    BY <1>5 DEF CleanerPanics, Watched, Pending
  <1>6. CASE \E c \in Cleaners : Clean(c)
    <2>1. held'[t] = None
      BY <1>0, <1>6 DEF Clean, TypeOK
    <2> QED
      BY <1>0, <2>1 DEF Watched
  <1>7. CASE UserCopies
    <2>1. PICK u \in Tools, text \in UserTexts : held' = [held EXCEPT ![u] = text]
      BY <1>7 DEF UserCopies
    <2>2. CASE u = t
      BY <1>0, <2>1, <2>2 DEF TypeOK, Watched
    <2>3. CASE u # t
      BY <1>0, <1>7, <2>1, <2>3, WatchersStay DEF UserCopies, TypeOK, Pending
    <2> QED
      BY <2>2, <2>3
  <1>8. CASE Tick
    BY <1>0, <1>8, WatchersStay DEF Tick, TypeOK, CleanerState, Pending
  <1> QED
    BY <1>1, <1>2, <1>3, <1>4, <1>5, <1>6, <1>7, <1>8 DEF Next, CleanerStep

\* While the tool and a timeout are configured and the cleaners' programs work, a
\* value of the database in its clipboard is one a cleaner looks for, and stays
\* one, whatever the number of cleaners and whatever other calls and the user copy
\* meanwhile (clipboard.go:93-126).
THEOREM SecretsAreWatched == Spec => SecretsStayWatched
  <1> DEFINE Stays(t) == /\ conf.clipboardTool = t /\ conf.clipboardTimeout > 0 /\ ~failed'
                         /\ Watched(t)
                         => Watched(t)'
  <1>1. ClipboardInv /\ [Next]_vars => [\A t \in Tools : Stays(t)]_vars
    BY NextWatched
  <1> QED
    BY <1>1, InitialClipboard, NextClipboard, PTL DEF Spec, SecretsStayWatched

\* So as long as every call names one tool and a timeout and the cleaners' programs
\* work, no value of the database is ever in the clipboard without a cleaner that
\* looks for it (clipboard.go:80).
THEOREM UndisturbedSecretsAreWatched ==
  ASSUME NEW t \in Tools
  PROVE  Spec /\ [](conf.clipboardTool = t /\ conf.clipboardTimeout > 0 /\ ~failed)
         => []Watched(t)
  <1> DEFINE Undisturbed == conf.clipboardTool = t /\ conf.clipboardTimeout > 0 /\ ~failed
  <1>1. Init => Watched(t)
    BY ClipboardAssumption DEF Init, Watched, Texts
  <1>2. /\ ClipboardInv /\ Undisturbed /\ Undisturbed' /\ Watched(t) /\ [Next]_vars
        => Watched(t)'
    <2>1. UNCHANGED vars => (Watched(t)' <=> Watched(t))
      BY DEF vars, Watched, Pending
    <2> QED
      BY <2>1, NextWatched
  <1> QED
    BY <1>1, <1>2, InitialClipboard, NextClipboard, PTL DEF Spec

-----------------------------------------------------------------------------
\* A cleaner has seen its text and not yet cleaned.
Matched == \E c \in Cleaners : cleaner[c].pc = "matched"

\* The user copies nothing between a cleaner's look and its clean.
NoneBetween ==
    [][Matched => \A t \in Tools : held'[t] \in UserTexts => held'[t] = held[t]]_vars

\* What a cleaner is about to remove is not the user's.
MatchedInv(tool) == Matched => held[tool] \notin UserTexts

LEMMA NextMatched ==
  ASSUME ClipboardInv, Next, NEW tool \in Tools, conf.clipboardTool \in {tool, None},
         MatchedInv(tool),
         Matched => \A t \in Tools : held'[t] \in UserTexts => held'[t] = held[t]
  PROVE  MatchedInv(tool)'
  <1>0. /\ TypeOK /\ tool # None /\ None \notin UserTexts
        /\ Secrets \cap UserTexts = {}
    BY ClipboardAssumption DEF ClipboardInv, Texts
  <1>1. CASE held'[tool] \notin UserTexts
    BY <1>1 DEF MatchedInv
  <1>2. CASE held'[tool] \in UserTexts /\ Matched
    BY <1>2 DEF MatchedInv
  <1>3. CASE held'[tool] \in UserTexts /\ ~Matched
    <2>1. CASE \E c \in Cleaners : GetClipboard(c)
      <3>1. PICK c \in Cleaners : GetClipboard(c)
        BY <2>1
      <3>2. conf.clipboardTool = tool /\ held'[tool] = held[tool]
        BY <3>1 DEF GetClipboard
      <3>3. held[tool] # cleaner[c].text
        BY <1>0, <1>3, <3>1, <3>2 DEF TypeOK, CleanerState
      <3>4. cleaner' = [cleaner EXCEPT ![c] = NoCleaner]
        BY <3>1, <3>2, <3>3 DEF GetClipboard, Done
      <3> QED
        BY <1>0, <1>3, <3>4 DEF Matched, MatchedInv, NoCleaner, TypeOK
    <2>2. CASE ~\E c \in Cleaners : GetClipboard(c)
      <3>1. CASE cleaner' = cleaner
        BY <1>3, <3>1 DEF Matched, MatchedInv
      <3>2. CASE CopyToClipboard
        <4>1. \A c \in Cleaners : cleaner'[c].pc \in {cleaner[c].pc, "started"}
          BY <1>0, <3>2 DEF CopyToClipboard, CleanClipboard, TypeOK
        <4> QED
          BY <1>3, <4>1 DEF Matched, MatchedInv
      <3>3. CASE \E c \in Cleaners : Sleep(c)
        <4>1. \A c \in Cleaners : cleaner'[c].pc \in {cleaner[c].pc, "asleep"}
          BY <1>0, <3>3 DEF Sleep, TypeOK, CleanerState
        <4> QED
          BY <1>3, <4>1 DEF Matched, MatchedInv
      <3>4. CASE Tick
        <4>1. \A c \in Cleaners : cleaner'[c].pc = cleaner[c].pc
          BY <1>0, <3>4 DEF Tick, TypeOK, CleanerState
        <4> QED
          BY <1>3, <4>1 DEF Matched, MatchedInv
      <3>5. ~\E c \in Cleaners : Clean(c)
        BY <1>3 DEF Clean, Matched
      <3> QED
        BY <2>2, <3>1, <3>2, <3>3, <3>4, <3>5
        DEF Next, CleanerStep, ClientCalls, CallEnds, StartServerReturns, Wait, Abort,
            CopyPanics, CleanerPanics, UserCopies
    <2> QED
      BY <2>1, <2>2
  <1> QED
    BY <1>1, <1>2, <1>3

\* What the user has copied is never removed, whatever the cleaners, their timeouts
\* and the values copied, if every call names one tool and the user copies nothing
\* between a cleaner's look at the clipboard and its clean (clipboard.go:93-126).
THEOREM UserTextIsKept ==
  ASSUME NEW tool \in Tools
  PROVE  Spec /\ [](conf.clipboardTool \in {tool, None}) /\ NoneBetween => UserTextStays
  <1> DEFINE OneTool == conf.clipboardTool \in {tool, None}
             Between == Matched => \A t \in Tools :
                                      held'[t] \in UserTexts => held'[t] = held[t]
             Stays == \A t \in Tools : held[t] \in UserTexts => held'[t] # None
  <1>1. Init => MatchedInv(tool)
    BY DEF Init, MatchedInv, Matched, NoCleaner
  <1>2. ClipboardInv /\ OneTool /\ MatchedInv(tool) /\ [Next]_vars /\ [Between]_vars
        => MatchedInv(tool)'
    <2>1. UNCHANGED vars => (MatchedInv(tool)' <=> MatchedInv(tool))
      BY DEF vars, MatchedInv, Matched
    <2> QED
      BY <2>1, NextMatched
  <1>3. ClipboardInv /\ OneTool /\ MatchedInv(tool) /\ [Next]_vars => [Stays]_vars
    <2> SUFFICES ASSUME ClipboardInv, OneTool, MatchedInv(tool), Next,
                        NEW t \in Tools, held[t] \in UserTexts
                 PROVE  held'[t] # None
      OBVIOUS
    <2>0. TypeOK /\ None \notin Texts /\ None \notin Tools
      BY ClipboardAssumption DEF ClipboardInv
    <2>1. CASE \E c \in Cleaners : Clean(c)
      <3>1. PICK c \in Cleaners : Clean(c)
        BY <2>1
      <3>2. held[tool] \notin UserTexts
        BY <3>1 DEF Clean, MatchedInv, Matched
      <3>3. t # tool
        BY <3>2
      <3> QED
        BY <2>0, <3>1, <3>3 DEF Clean, TypeOK, Texts
    <2>2. CASE CopyToClipboard
      BY <2>0, <2>2 DEF CopyToClipboard, TypeOK, Texts
    <2>3. CASE UserCopies
      BY <2>0, <2>3 DEF UserCopies, TypeOK, Texts
    <2>4. CASE ~CopyToClipboard /\ ~UserCopies /\ ~\E c \in Cleaners : Clean(c)
      BY <2>0, <2>4
      DEF Next, CleanerStep, ClientCalls, CallEnds, StartServerReturns, Wait, Abort,
          CopyPanics, Sleep, GetClipboard, CleanerPanics, Tick, TypeOK, Texts
    <2> QED
      BY <2>1, <2>2, <2>3, <2>4
  <1>4. Spec => []ClipboardInv
    BY InitialClipboard, NextClipboard, PTL DEF Spec
  <1> QED
    BY <1>1, <1>2, <1>3, <1>4, PTL DEF Spec, NoneBetween, UserTextStays
=============================================================================
