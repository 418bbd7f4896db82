-------------------------- MODULE ServedCallProofs --------------------------
(***************************************************************************)
(* Proofs about ServedCall: a call's dialogue implements, step by step, the *)
(* half of Menu.Execute that MenuServer stands for.  A step of the dialogue *)
(* is one of the server's or, while a window is identified, a line is       *)
(* looked for or keys are typed, one the server does not see.               *)
(***************************************************************************)
EXTENDS ServedCall, InteractionProofs

\* No time has passed when the call begins.
StartInv == pc = "execute" => now = 0

\* What the steps below need to know of a state.
ServedInv == TypeOK /\ SequenceInv /\ CodeInv /\ StartInv

\* What the server sees of the data does not change.
LEMMA ServedDataStay ==
  ASSUME UNCHANGED dataVars
  PROVE  /\ Autotyping' = Autotyping
         /\ ServedConf(Autotyping)' = ServedConf(Autotyping)
  <1>1. UNCHANGED conf
    BY DEF dataVars
  <1> QED
    BY <1>1 DEF Autotyping, ServedConf

LEMMA ServedExecute ==
  ASSUME ServedInv, Execute
  PROVE  Server!Execute
  <1>1. UNCHANGED dataVars
    BY DEF Execute
  <1>2. pc = "execute" /\ pc' \in {"menu", "entry", "window"} /\ now = 0 /\ now' = now
    BY DEF Execute, ServedInv, StartInv
  <1>3. ServedPc = "execute" /\ ServedPc' = Server!Serve
    BY <1>2 DEF Execute, ServedPc, Server!Serve, ServedConf
  <1>4. ~Listed /\ ~Listed' /\ ~HandedOut /\ ~HandedOut'
    BY <1>2 DEF Listed, HandedOut
  <1> QED
    BY <1>1, <1>2, <1>3, <1>4, ServedDataStay DEF Server!Execute, ServedConf

\* "Show", "Exit", leaving the menu, or a "Reload" that has ended.
LEMMA ServedMenu ==
  ASSUME ServedInv, PromptMenu
  PROVE  \/ Server!CancelMenu \/ Server!MenuShow \/ Server!MenuExit
         \/ UNCHANGED Server!vars
  <1>1. UNCHANGED dataVars /\ pc = "menu" /\ now' = now
    BY DEF PromptMenu
  <1>2. pc' \in {"left", "exited", "menu", "entries"}
    BY DEF PromptMenu
  <1>3. ServedPc = "menu" /\ ~Listed /\ ~HandedOut /\ ~HandedOut'
    BY <1>1, <1>2 DEF ServedPc, Listed, HandedOut
  <1>4. CASE pc' = "left"
    <2>1. ServedPc' = "return" /\ ~Listed'
      BY <1>4 DEF ServedPc, Listed
    <2> QED
      BY <1>1, <1>3, <1>4, <2>1, ServedDataStay
      DEF Server!CancelMenu, Server!Return, Server!dbVars
  <1>5. CASE pc' = "exited"
    <2>1. ServedPc' = "return" /\ ~Listed'
      BY <1>5 DEF ServedPc, Listed
    <2> QED
      BY <1>1, <1>3, <1>5, <2>1, ServedDataStay
      DEF Server!MenuExit, Server!Return
  <1>6. CASE pc' = "entries"
    <2>1. ServedPc' = "entries" /\ Listed'
      BY <1>6 DEF ServedPc, Listed
    <2> QED
      BY <1>1, <1>3, <1>6, <2>1, ServedDataStay
      DEF Server!MenuShow, Server!dbVars
  <1>7. CASE pc' = "menu"
    <2>1. ServedPc' = "menu" /\ ~Listed'
      BY <1>7 DEF ServedPc, Listed
    <2> QED
      BY <1>1, <1>3, <1>7, <2>1, ServedDataStay DEF Server!vars
  <1> QED
    BY <1>2, <1>4, <1>5, <1>6, <1>7

\* The entries are listed, and then the fields or nothing more.
LEMMA ServedEntries ==
  ASSUME ServedInv, SelectEntry
  PROVE  Server!PromptEntries
  <1>1. /\ UNCHANGED dataVars /\ pc = "entries" /\ now' = now
        /\ pc' \in {"done", "fields"}
    BY DEF SelectEntry
  <1>2. value = Nothing /\ value' = value /\ typed = <<>> /\ typed' = typed
    BY <1>1 DEF SelectEntry, ServedInv, CodeInv, SequenceInv, Ended
  <1>3. ServedPc = "entries" /\ Listed /\ Listed' /\ ~HandedOut /\ ~HandedOut'
    BY <1>1, <1>2 DEF ServedPc, Listed, HandedOut
  <1>4. ServedPc' = IF pc' = "done" THEN "return" ELSE "fields"
    BY <1>1, <1>2 DEF ServedPc
  <1> QED
    BY <1>1, <1>3, <1>4, ServedDataStay
    DEF Server!PromptEntries, Server!Return, Server!dbVars

\* A field goes to the clipboard, there is none, or its code cannot be reckoned.
LEMMA ServedFields ==
  ASSUME ServedInv, SelectField
  PROVE  Server!PromptFields
  <1>1. /\ UNCHANGED dataVars /\ pc = "fields" /\ now' = now
        /\ pc' \in {"done", "panicked"}
    BY DEF SelectField
  <1>2. typed = <<>> /\ typed' = typed
    BY <1>1 DEF SelectField, ServedInv, SequenceInv, Ended
  <1>3. ServedPc = "fields" /\ Listed /\ Listed' /\ ~HandedOut
    BY <1>1 DEF ServedPc, Listed, HandedOut
  <1>4. CASE pc' = "panicked"
    <2>1. ServedPc' = "aborted" /\ ~HandedOut'
      BY <1>4 DEF ServedPc, HandedOut
    <2> QED
      BY <1>1, <1>3, <1>4, <2>1, ServedDataStay
      DEF Server!PromptFields, Server!Panic, Server!dbVars
  <1>5. CASE pc' = "done" /\ value' = Nothing
    <2>1. ServedPc' = "return" /\ ~HandedOut'
      BY <1>2, <1>5 DEF ServedPc, HandedOut
    <2> QED
      BY <1>1, <1>3, <1>5, <2>1, ServedDataStay
      DEF Server!PromptFields, Server!Return, Server!dbVars
  <1>6. CASE pc' = "done" /\ value' # Nothing
    <2>1. ServedPc' = "copy" /\ HandedOut'
      BY <1>6 DEF ServedPc, HandedOut
    <2>2. ServedTree["open"] = OpenContent /\ OpenContent.database # "none"
      BY DEF ServedTree, ServedTrees, OpenContent
    <2> QED
      BY <1>1, <1>3, <1>6, <2>1, <2>2, ServedDataStay
      DEF Server!PromptFields, Server!dbVars
  <1> QED
    BY <1>1, <1>4, <1>5, <1>6

\* Until a line or an entry is settled on, the server sees nothing; then an entry
\* is typed, or the call is given up, or it panics.
LEMMA ServedMatch ==
  ASSUME ServedInv, IdentifyWindow \/ ChooseLine \/ ChooseEntry
  PROVE  Server!MatchEntries \/ UNCHANGED Server!vars
  <1>1. /\ UNCHANGED dataVars /\ pc \in {"window", "choose", "entry"} /\ now' = now
        /\ pc' \in {"done", "panicked", "prepare", "choose"}
        /\ UNCHANGED <<value, typed>>
    BY DEF IdentifyWindow, ChooseLine, ChooseEntry
  <1>2. value = Nothing /\ typed = <<>>
    BY <1>1 DEF ServedInv, CodeInv, SequenceInv, Ended
  <1>3. ServedPc = "autotype" /\ ~Listed /\ ~HandedOut /\ ~HandedOut'
    BY <1>1, <1>2 DEF ServedPc, Listed, HandedOut
  <1>4. CASE pc' = "choose"
    <2>1. ServedPc' = "autotype" /\ ~Listed'
      BY <1>4 DEF ServedPc, Listed
    <2> QED
      BY <1>1, <1>3, <1>4, <2>1, ServedDataStay DEF Server!vars
  <1>5. CASE pc' # "choose"
    <2>1. /\ Listed'
          /\ ServedPc' = CASE pc' = "done"     -> "return"
                           [] pc' = "panicked" -> "aborted"
                           [] OTHER            -> "typing"
      BY <1>1, <1>2, <1>5 DEF ServedPc, Listed
    <2> QED
      BY <1>1, <1>3, <1>5, <2>1, ServedDataStay
      DEF Server!MatchEntries, Server!Return, Server!Panic, Server!dbVars
  <1> QED
    BY <1>4, <1>5

\* The sequence is prepared and typed; the server sees how it ends.
LEMMA ServedTyping ==
  ASSUME ServedInv, Prepare \/ TypeEntry \/ TypingEnds \/ ExternalTyper
  PROVE  Server!TypeEntry \/ UNCHANGED Server!vars
  <1>1. /\ UNCHANGED dataVars /\ pc \in {"prepare", "typing", "typer"} /\ now' = now
        /\ pc' \in {"done", "panicked", "typing", "typer"}
        /\ UNCHANGED value
    BY DEF Prepare, TypeEntry, TypingEnds, ExternalTyper
  <1>2. value = Nothing
    BY <1>1 DEF ServedInv, CodeInv, Ended
  <1>3. ServedPc = "typing" /\ Listed /\ Listed' /\ ~HandedOut
    BY <1>1 DEF ServedPc, Listed, HandedOut
  <1>4. CASE pc' \in {"typing", "typer"}
    <2>1. ServedPc' = "typing" /\ ~HandedOut'
      BY <1>4 DEF ServedPc, HandedOut
    <2> QED
      BY <1>1, <1>3, <1>4, <2>1, ServedDataStay DEF Server!vars
  <1>5. CASE pc' = "panicked"
    <2>1. ServedPc' = "aborted" /\ ~HandedOut'
      BY <1>5 DEF ServedPc, HandedOut
    <2> QED
      BY <1>1, <1>3, <1>5, <2>1, ServedDataStay
      DEF Server!TypeEntry, Server!Panic, Server!dbVars
  <1>6. CASE pc' = "done"
    <2>1. ServedPc' = "return"
      BY <1>1, <1>2, <1>6 DEF ServedPc
    <2>2. ServedTree["open"] = OpenContent /\ OpenContent.database # "none"
      BY DEF ServedTree, ServedTrees, OpenContent
    <2> QED
      BY <1>1, <1>3, <1>6, <2>1, <2>2, ServedDataStay
      DEF Server!TypeEntry, Server!Return, Server!dbVars
  <1> QED
    BY <1>1, <1>4, <1>5, <1>6

\* Time passes where it does for the server.
LEMMA ServedTick ==
  ASSUME ServedInv, Tick
  PROVE  Server!Tick
  <1>1. /\ UNCHANGED dataVars /\ pc \in Blocked /\ pc' = pc /\ now < MaxTime
        /\ now' = now + 1 /\ UNCHANGED <<value, typed, entry>>
    BY DEF Tick
  <1>2. now + 1 < MaxTime + 1
    BY <1>1, InteractionAssumption DEF ServedInv, TypeOK
  <1>3. ServedPc \in Server!Blocked /\ ServedPc' = ServedPc
    BY <1>1 DEF Blocked, ServedPc, Server!Blocked
  <1>4. Listed' = Listed /\ ~HandedOut /\ ~HandedOut'
    BY <1>1 DEF Listed, HandedOut, Blocked
  <1> QED
    BY <1>1, <1>2, <1>3, <1>4, ServedDataStay DEF Server!Tick, Server!dbVars, Blocked

\* The call begins in a state of the server with an open database.
LEMMA ServedStart == Init => ServerCallStarts
  <1> SUFFICES ASSUME Init PROVE ServerCallStarts
    OBVIOUS
  <1>1. now = 0 /\ pc = "execute" /\ MaxTime \in Nat
    BY InteractionAssumption DEF Init
  <1>2. ServedPc = "execute" /\ ~Listed /\ ~HandedOut
    BY <1>1 DEF ServedPc, Listed, HandedOut
  <1>3. Autotyping \in BOOLEAN
    BY DEF Autotyping
  <1>4. /\ ServedConf(Autotyping) \in {ServedConf(TRUE), ServedConf(FALSE)}
        /\ ServedConf(Autotyping).database = "database"
    BY <1>3 DEF ServedConf
  <1>5. /\ ServedCredentials \in Server!Credentials
        /\ NoContent \in Server!Contents /\ OpenContent \in Server!Contents
        /\ ServedTree \in [ServedTrees -> Server!Contents]
        /\ ServedTree["open"] = OpenContent /\ "open" \in ServedTrees
    BY DEF ServedCredentials, Server!Credentials, ServedTree, ServedTrees, OpenContent,
           NoContent, Server!Contents
  <1>6. Server!DatabaseTypeOK
    <2>1. [t \in {"main"} |-> [pc |-> "idle", password |-> "none"]]
             \in [{"main"} -> Server!Openers]
      BY DEF Server!Openers, Server!Resting, Server!Working
    <2> QED
      BY <1>5, <2>1 DEF Server!DatabaseTypeOK
  <1>7. Server!TypeOK
    <2>1. (pc = "exited") \in BOOLEAN
      OBVIOUS
    <2>2. now + 1 \in Nat /\ MaxTime + 2 \in Nat
      BY <1>1
    <2> QED
      BY <1>2, <1>4, <1>5, <1>6, <2>1, <2>2
      DEF Server!TypeOK, Server!Pcs, Server!Configs
  <1>8. Server!LoadedIsProven
    BY <1>5 DEF Server!LoadedIsProven, OpenContent
  <1> QED
    BY <1>2, <1>7, <1>8 DEF ServerCallStarts

\* The dialogue implements the server's call: the menu comes only without autotype,
\* a field only from the entries that were listed, and "Exit" alone locks the
\* database and is fatal (menu.go:42, 180).
THEOREM CallIsServed == Spec => ServedAsPromised
<1>1. Init => StartInv
  BY DEF Init, StartInv
<1>2. StartInv /\ [Next]_vars => StartInv'
  BY DEF StartInv, vars, Next, Execute, PromptMenu, SelectEntry, SelectField,
         IdentifyWindow, ChooseLine, ChooseEntry, Prepare, TypeEntry, TypingEnds,
         ExternalTyper, Tick, Blocked
<1>3. Spec => []ServedInv
  <2>1. Spec => []StartInv
    BY <1>1, <1>2, PTL DEF Spec
  <2>2. Spec => []SequenceInv
    BY InteractionTypeCorrect, InitSequence, NextSequence, PTL DEF Spec
  <2>3. TypeOK /\ SequenceInv /\ CodeInv /\ StartInv => ServedInv
    BY DEF ServedInv
  <2> QED
    BY <2>1, <2>2, <2>3, InteractionTypeCorrect, CodesCome, PTL
<1>4. ServedInv /\ [Next]_vars => [ServerCallStep]_(Server!vars)
  <2> SUFFICES ASSUME ServedInv, [Next]_vars
               PROVE  ServerCallStep \/ UNCHANGED Server!vars
    OBVIOUS
  <2>1. CASE Execute
    BY <2>1, ServedExecute DEF ServerCallStep
  <2>2. CASE PromptMenu
    BY <2>2, ServedMenu DEF ServerCallStep
  <2>3. CASE SelectEntry
    BY <2>3, ServedEntries DEF ServerCallStep
  <2>4. CASE SelectField
    BY <2>4, ServedFields DEF ServerCallStep
  <2>5. CASE IdentifyWindow \/ ChooseLine \/ ChooseEntry
    BY <2>5, ServedMatch DEF ServerCallStep
  <2>6. CASE Prepare \/ TypeEntry \/ TypingEnds \/ ExternalTyper
    BY <2>6, ServedTyping DEF ServerCallStep
  <2>7. CASE Tick
    BY <2>7, ServedTick DEF ServerCallStep
  <2>8. CASE UNCHANGED vars
    <3>1. ServedPc' = ServedPc /\ Listed' = Listed /\ HandedOut' = HandedOut
          /\ ServedConf(Autotyping)' = ServedConf(Autotyping)
          /\ UNCHANGED <<now, pc>>
      BY <2>8, ServedDataStay DEF vars, dataVars, ServedPc, Listed, HandedOut
    <3> QED
      BY <3>1 DEF Server!vars
  <2> QED
    BY <2>1, <2>2, <2>3, <2>4, <2>5, <2>6, <2>7, <2>8 DEF Next
<1> QED
  BY <1>3, <1>4, ServedStart, PTL DEF Spec, ServedAsPromised
=============================================================================
