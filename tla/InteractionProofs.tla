-------------------------- MODULE InteractionProofs --------------------------
(***************************************************************************)
(* Proofs about the dialogue of one call.  Each invariant of Interaction   *)
(* comes with what it rests on: a cancelled prompt ends the dialogue, an   *)
(* entry is settled on once, a sequence is prepared once.                  *)
(***************************************************************************)
EXTENDS Interaction, OneTimePasswordProofs

-----------------------------------------------------------------------------
\* Entries stay where they are.
LEMMA EntriesAreFinite ==
  ASSUME TypeOK
  PROVE  Len(entries) \in Nat /\ DOMAIN entries = 1..Len(entries)
  BY InteractionAssumption DEF TypeOK

\* What is matched is in the list.
LEMMA TakenIsListed ==
  /\ \A i : Taken(i) \subseteq 1..Len(entries)
  /\ \A l \in Lines : l[1] \in 1..Len(entries)
  /\ \A l : TakenLine(l) \subseteq Lines
  /\ \A title : Matches(title) \subseteq Lines
  <1>1. \A l \in Lines : l[1] \in 1..Len(entries)
    <2>1. ASSUME NEW l \in Lines PROVE l[1] \in 1..Len(entries)
      <3>1. PICK i \in 1..Len(entries) :
               l \in {i} \X (1..(Len(entries[i].associations) + 1))
        BY DEF Lines
      <3> QED
        BY <3>1
    <2> QED
      BY <2>1
  <1> QED
    BY <1>1 DEF Taken, TakenLine, Matches

\* The outcomes of a menu program are those an ErrorPrompt tells apart.
LEMMA PromptOutcomes ==
  ASSUME NEW cfg, NEW programs
  PROVE  executePrompt(cfg, programs) \subseteq ErrorPrompts
  BY DEF executePrompt, ErrorPrompts, Cancelled, NotAsked

\* The sequences the program itself brings along are well-formed.
LEMMA OwnSequences ==
  /\ IsKeySequence(BuiltIn) /\ IsKeySequence(<<>>)
  /\ \A ep \in KbCustom : IsKeySequence(KbSequence(ep))
  <1> DEFINE IsPiece(p) ==
        /\ p.kind \in {"braces", "raw"}
        /\ p.token = Token(p.token.word, p.token.upper, p.token.args)
        /\ p.token.upper \in BOOLEAN
  <1>0. \A word : IsPiece(Field(word))
    BY DEF Field, Braces, Token
  <1> HIDE DEF IsPiece
  <1>1. IsKeySequence(BuiltIn)
    <2>2. \A i \in DOMAIN BuiltIn : IsPiece(BuiltIn[i])
      BY <1>0 DEF BuiltIn, UserName, Password
    <2> QED
      BY <2>2 DEF IsKeySequence, BuiltIn, IsPiece
  <1>2. IsKeySequence(<<>>)
    BY DEF IsKeySequence
  <1>3. ASSUME NEW ep \in KbCustom PROVE IsKeySequence(KbSequence(ep))
    <2>2. \A i \in DOMAIN KbSequence(ep) : IsPiece(KbSequence(ep)[i])
      BY <1>0 DEF KbCustom, KbSequence, UserName, Password
    <2>3. Len(KbSequence(ep)) \in Nat /\ DOMAIN KbSequence(ep) = 1..Len(KbSequence(ep))
      <3>1. \E p, q : KbSequence(ep) = <<p>> \/ KbSequence(ep) = <<p, q>>
        BY DEF KbCustom, KbSequence
      <3> QED
        BY <3>1
    <2> QED
      BY <2>2, <2>3 DEF IsKeySequence, IsPiece
  <1> QED
    BY <1>1, <1>2, <1>3

\* A line's sequence is one of its entry's or the built-in one.
LEMMA LineSequences ==
  ASSUME entries \in Databases, NEW l \in Lines
  PROVE  IsKeySequence(LineSequence(l))
  <1>1. PICK i \in 1..Len(entries) : l \in {i} \X (1..(Len(entries[i].associations) + 1))
    BY DEF Lines
  <1>2. IsEntry(entries[i]) /\ l[1] = i /\ l[2] \in Nat \ {0}
    BY <1>1, InteractionAssumption
  <1>3. IsAssociation(l) => IsKeySequence(Association(l).sequence)
    BY <1>2 DEF IsAssociation, Association, IsEntry
  <1> QED
    BY <1>2, <1>3, OwnSequences DEF LineSequence, OrElse, IsEntry

\* Sequences are well-formed, what has been parsed is a prefix of one, and nothing
\* has been typed before it is prepared.
SequenceInv ==
    /\ IsKeySequence(conf.autotypeSequence)
    /\ IsKeySequence(keySeq)
    /\ DOMAIN todo \subseteq Nat
    /\ \A n \in DOMAIN todo : 1..n \subseteq DOMAIN todo
    /\ pc \notin Ended \cup {"typing"} => typed = <<>>

LEMMA InitSequence == Init => SequenceInv
  <1> SUFFICES ASSUME Init PROVE SequenceInv
    OBVIOUS
  <1>1. IsKeySequence(conf.autotypeSequence)
    <2>1. CASE own
      <3>1. PICK cfg \in ServerConfigs : conf = validateConfig(cfg, installed)
        BY <2>1 DEF Init
      <3>2. conf.autotypeSequence = cfg.autotypeSequence
        BY <3>1, ConfigAssumption DEF validateConfig, IsConfig, Configs
      <3> QED
        BY <3>2, InteractionAssumption DEF Configs
    <2>2. CASE ~own
      BY <2>2, InteractionAssumption DEF Init, Configs
    <2> QED
      BY <2>1, <2>2
  <1> QED
    BY <1>1, OwnSequences DEF Init, SequenceInv

LEMMA NextSequence == TypeOK /\ SequenceInv /\ [Next]_vars => SequenceInv'
  <1> SUFFICES ASSUME TypeOK, SequenceInv, [Next]_vars PROVE SequenceInv'
    OBVIOUS
  <1>1. CASE Execute \/ PromptMenu \/ SelectEntry \/ SelectField \/ Tick \/ UNCHANGED vars
    BY <1>1 DEF Execute, PromptMenu, SelectEntry, SelectField, Tick, vars, SequenceInv,
                dataVars, Ended, Blocked
  <1>2. CASE IdentifyWindow
    BY <1>2, LineSequences, TakenIsListed
    DEF IdentifyWindow, SequenceInv, TypeOK, dataVars, Ended, OrElse
  <1>3. CASE ChooseLine
    BY <1>3, LineSequences, TakenIsListed, OwnSequences
    DEF ChooseLine, SequenceInv, TypeOK, dataVars, Ended, OrElse
  <1>4. CASE ChooseEntry
    <2>1. IsKeySequence(keySeq')
      <3>1. entry' \in 0..Len(entries)
        BY <1>4, TakenIsListed, EntriesAreFinite DEF ChooseEntry, PromptEntries, TypeOK
      <3>2. IsEntry(EntryAt(entry'))
        BY <3>1, <1>4, InteractionAssumption, OwnSequences
        DEF EntryAt, EmptyEntry, IsEntry, ChooseEntry, dataVars, TypeOK
      <3> QED
        BY <1>4, <3>2 DEF ChooseEntry, SequenceInv, OrElse, IsEntry
    <2> QED
      BY <1>4, <2>1 DEF ChooseEntry, SequenceInv, dataVars, Ended
  <1>5. CASE Prepare
    <2>1. IsKeySequence(OrElse(keySeq, BuiltIn))
      BY OwnSequences DEF OrElse, SequenceInv
    <2>2. LET seq == Parse(OrElse(keySeq, BuiltIn))
          IN  /\ DOMAIN seq \subseteq Nat
              /\ \A n \in DOMAIN seq : 1..n \subseteq DOMAIN seq
      BY <2>1 DEF Parse, IsKeySequence
    <2> QED
      BY <1>5, <2>1, <2>2 DEF Prepare, SequenceInv, dataVars, Ended
  <1>6. CASE TypeEntry \/ TypingEnds \/ ExternalTyper
    BY <1>6 DEF TypeEntry, TypingEnds, ExternalTyper, SequenceInv, dataVars, Ended
  <1> QED
    BY <1>1, <1>2, <1>3, <1>4, <1>5, <1>6 DEF Next

\* Every state has its type, whatever the databases and configurations
\* (prompt.go:105-647, menu.go:161-225).
THEOREM InteractionTypeCorrect == Spec => []TypeOK
<1>1. Init => TypeOK
  <2> SUFFICES ASSUME Init PROVE TypeOK
    OBVIOUS
  <2>1. conf.menu \in {cfg.menu : cfg \in Configs} \cup {"dmenu"}
    <3>1. CASE own
      <4>1. PICK cfg \in ServerConfigs : conf = validateConfig(cfg, installed)
        BY <3>1 DEF Init
      <4>2. conf.menu = MenuOf(cfg, installed)
        BY <4>1, ConfigAssumption DEF validateConfig, IsConfig, Configs
      <4> QED
        BY <4>2 DEF MenuOf, Configs
    <3>2. CASE ~own
      BY <3>2 DEF Init, Configs
    <3> QED
      BY <3>1, <3>2
  <2>2. 0 \in 0..Len(entries) /\ 0 \in 0..MaxTime
    BY InteractionAssumption DEF Init
  <2> QED
    BY <2>1, <2>2 DEF Init, TypeOK, Blocked, Ended, ErrorPrompts, Cancelled, NotAsked
<1>2. TypeOK /\ SequenceInv /\ [Next]_vars => TypeOK'
  <2> SUFFICES ASSUME TypeOK, SequenceInv, [Next]_vars PROVE TypeOK'
    OBVIOUS
  <2> USE EntriesAreFinite, TakenIsListed, PromptOutcomes
  <2>1. CASE Execute
    BY <2>1 DEF Execute, TypeOK, dataVars, Blocked, Ended
  <2>2. CASE PromptMenu
    BY <2>2 DEF PromptMenu, Asked, TypeOK, dataVars, Blocked, Ended
  <2>3. CASE SelectEntry
    BY <2>3 DEF SelectEntry, PromptEntries, Asked, TypeOK, dataVars, Blocked, Ended
  <2>4. CASE SelectField
    BY <2>4 DEF SelectField, Asked, TypeOK, dataVars, Blocked, Ended
  <2>5. CASE IdentifyWindow
    BY <2>5 DEF IdentifyWindow, TypeOK, dataVars, Blocked, Ended, ErrorPrompts, Cancelled
  <2>6. CASE ChooseLine
    BY <2>6 DEF ChooseLine, Asked, TypeOK, dataVars, Blocked, Ended
  <2>7. CASE ChooseEntry
    BY <2>7 DEF ChooseEntry, PromptEntries, Asked, TypeOK, dataVars, Blocked, Ended
  <2>8. CASE Prepare
    BY <2>8 DEF Prepare, SequenceInv, TypeOK, dataVars, Blocked, Ended
  <2>9. CASE TypeEntry
    BY <2>9 DEF TypeEntry, TypeOK, dataVars, Blocked, Ended
  <2>10. CASE TypingEnds
    BY <2>10 DEF TypingEnds, TypeOK, dataVars, Blocked, Ended
  <2>11. CASE ExternalTyper
    BY <2>11 DEF ExternalTyper, SequenceInv, TypeOK, dataVars, Blocked, Ended, ErrorPrompts, Cancelled
  <2>12. CASE Tick
    BY <2>12, InteractionAssumption DEF Tick, TypeOK, dataVars, Blocked, Ended
  <2>13. CASE UNCHANGED vars
    BY <2>13 DEF vars, TypeOK, Blocked, Ended
  <2> QED
    BY <2>1, <2>2, <2>3, <2>4, <2>5, <2>6, <2>7, <2>8, <2>9, <2>10, <2>11, <2>12,
       <2>13 DEF Next
<1> QED
  BY <1>1, <1>2, InitSequence, NextSequence, PTL DEF Spec

-----------------------------------------------------------------------------
\* After a cancelled prompt nothing is typed and nothing copied: the dialogue is
\* over, except for a panic (prompt.go:322, 345, menu.go:163, 191, 205).
THEOREM CancelIsFinal == Spec => NothingAfterCancel
<1> DEFINE CancelEnds == errPrompt \in Cancelled => pc \in Ended
<1>1. Init => CancelEnds
  BY DEF Init, Cancelled, NotAsked
<1>2. CancelEnds /\ [Next]_vars => CancelEnds'
  <2> SUFFICES ASSUME CancelEnds, [Next]_vars PROVE CancelEnds'
    OBVIOUS
  <2>1. CASE Execute \/ TypeEntry \/ TypingEnds \/ Tick \/ UNCHANGED vars
    BY <2>1 DEF Execute, TypeEntry, TypingEnds, Tick, vars, Blocked, Ended
  <2>2. CASE PromptMenu \/ SelectEntry \/ SelectField
    BY <2>2 DEF PromptMenu, SelectEntry, SelectField, PromptEntries, Answered, Ended
  <2>3. CASE IdentifyWindow \/ ChooseLine \/ ChooseEntry
    BY <2>3 DEF IdentifyWindow, ChooseLine, ChooseEntry, GivenUp, Answered, Ended
  <2>4. CASE Prepare \/ ExternalTyper
    BY <2>4 DEF Prepare, ExternalTyper, Ended
  <2> QED
    BY <2>1, <2>2, <2>3, <2>4 DEF Next
<1>3. CancelEnds /\ [Next]_vars
      => [(errPrompt \in Cancelled) => UNCHANGED <<typed, value>>]_vars
  <2> SUFFICES ASSUME CancelEnds, Next, errPrompt \in Cancelled PROVE FALSE
    BY DEF vars
  <2> QED
    BY DEF Ended, Next, Execute, PromptMenu, SelectEntry, SelectField, IdentifyWindow,
           ChooseLine, ChooseEntry, Prepare, TypeEntry, TypingEnds, ExternalTyper,
           Tick, Blocked
<1> QED
  BY <1>1, <1>2, <1>3, PTL DEF Spec, NothingAfterCancel

-----------------------------------------------------------------------------
\* The menu program a server's own configuration names is one that is installed,
\* unless it is a custom one (kpmenulib.go:17-40, prompt.go:474).
THEOREM ServerPromptsAreRun == Spec => []ServerPromptsRun
<1> DEFINE MenuInstalled ==
      own /\ conf.menu # "custom" => conf.menu \in {"rofi", "wofi", "dmenu"} \cap installed
<1>1. Init => MenuInstalled /\ ServerPromptsRun
  <2> SUFFICES ASSUME Init PROVE MenuInstalled /\ ServerPromptsRun
    OBVIOUS
  <2>1. CASE own
    <3>1. PICK cfg \in ServerConfigs :
             Valid(cfg, installed) /\ conf = validateConfig(cfg, installed)
      BY <2>1 DEF Init
    <3>2. conf.menu = MenuOf(cfg, installed)
      BY <3>1, ConfigAssumption DEF validateConfig, IsConfig, Configs
    <3> QED
      BY <3>1, <3>2 DEF Valid, MenuOf, Init, ServerPromptsRun, NotAsked
  <2> QED
    BY <2>1 DEF Init, ServerPromptsRun, NotAsked
<1>2. MenuInstalled /\ ServerPromptsRun /\ [Next]_vars => (MenuInstalled /\ ServerPromptsRun)'
  <2> SUFFICES ASSUME MenuInstalled, ServerPromptsRun, [Next]_vars
               PROVE  (MenuInstalled /\ ServerPromptsRun)'
    OBVIOUS
  <2>1. UNCHANGED <<own, conf, installed>>
    BY DEF Next, vars, dataVars, Execute, PromptMenu, SelectEntry, SelectField,
           IdentifyWindow, ChooseLine, ChooseEntry, Prepare, TypeEntry, TypingEnds,
           ExternalTyper, Tick
  <2>2. own /\ conf.menu # "custom" => executePrompt(conf, installed) \cap NotAsked = {}
    BY DEF executePrompt, Command, NotAsked, KbCustom
  <2>3. CASE PromptMenu \/ SelectEntry \/ SelectField \/ ChooseLine \/ ChooseEntry
    <3>1. errPrompt' \in executePrompt(conf, installed)
      BY <2>3 DEF PromptMenu, SelectEntry, SelectField, ChooseLine, ChooseEntry,
                  PromptEntries, Asked
    <3> QED
      BY <2>1, <2>2, <3>1 DEF ServerPromptsRun
  <2>4. CASE IdentifyWindow \/ ExternalTyper
    BY <2>1, <2>4 DEF IdentifyWindow, ExternalTyper, ServerPromptsRun, NotAsked, KbCustom
  <2>5. CASE Execute \/ Prepare \/ TypeEntry \/ TypingEnds \/ Tick \/ UNCHANGED vars
    BY <2>1, <2>5 DEF Execute, Prepare, TypeEntry, TypingEnds, Tick, vars, ServerPromptsRun
  <2> QED
    BY <2>3, <2>4, <2>5 DEF Next
<1> QED
  BY <1>1, <1>2, PTL DEF Spec

-----------------------------------------------------------------------------
\* What the code knows of the entry it has settled on, before and after it types:
\* none while it asks; then one that was picked, or the only one that matches.
AgreedInv ==
    /\ pc \in {"execute", "menu", "entries", "window", "choose", "entry"} =>
          entry = 0 /\ meant = None
    /\ pc \in {"window", "choose"} => ~conf.autotypeNoAuto
    /\ pc = "entry" => conf.autotypeNoAuto
    /\ entry # 0 =>
          IF meant # None THEN Alike(entry, meant[1])
          ELSE /\ ~conf.autotypeConfirm /\ ~conf.autotypeNoAuto
               /\ \A l \in Matches(window) : l[1] = entry
               /\ \A l, m \in Matches(window) : l = m

\* An answer is no line of the list unless the user picked one.
LEMMA PickedIsNotNone ==
  ASSUME TypeOK
  PROVE  /\ \A l \in Lines : l # None
         /\ \A i \in 1..Len(entries) : <<i, 0>> # None
  <1>1. ASSUME NEW l \in Lines PROVE l # None
    <2>1. PICK i \in 1..Len(entries) : l \in {i} \X (1..(Len(entries[i].associations) + 1))
      BY DEF Lines
    <2>2. PICK k \in 1..(Len(entries[i].associations) + 1) : l = <<i, k>>
      BY <2>1
    <2>3. Len(entries[i].associations) \in Nat
      BY InteractionAssumption, EntriesAreFinite DEF TypeOK, IsEntry
    <2>4. k \in 0..(Len(entries[i].associations) + 1)
      BY <2>2, <2>3
    <2> QED
      BY <2>2, <2>4, InteractionAssumption, EntriesAreFinite DEF TypeOK
  <1>2. ASSUME NEW i \in 1..Len(entries) PROVE <<i, 0>> # None
    <2>1. Len(entries[i].associations) \in Nat
      BY InteractionAssumption, EntriesAreFinite DEF TypeOK, IsEntry
    <2> QED
      BY <2>1, InteractionAssumption, EntriesAreFinite DEF TypeOK
  <1> QED
    BY <1>1, <1>2

\* The data of a call do not change in it.
LEMMA DataStay == [Next]_vars => UNCHANGED dataVars
  BY DEF Next, vars, dataVars, Execute, PromptMenu, SelectEntry, SelectField,
         IdentifyWindow, ChooseLine, ChooseEntry, PromptEntries, Prepare, TypeEntry,
         TypingEnds, ExternalTyper, Tick

LEMMA Agreed == Spec => []AgreedInv
<1>1. Init => AgreedInv
  BY DEF Init, AgreedInv
<1>2. TypeOK /\ AgreedInv /\ [Next]_vars => AgreedInv'
  <2> SUFFICES ASSUME TypeOK, AgreedInv, [Next]_vars PROVE AgreedInv'
    OBVIOUS
  <2>0. /\ UNCHANGED <<conf, entries>>
        /\ \A i, k : Alike(i, k)' <=> Alike(i, k)
        /\ window' = window => Matches(window)' = Matches(window)
    <3>1. UNCHANGED <<conf, entries>>
      BY DataStay DEF dataVars
    <3>2. Lines' = Lines /\ \A l : Pattern(l)' = Pattern(l)
      BY <3>1 DEF Lines, Pattern, IsAssociation, Association
    <3> QED
      BY <3>1, <3>2 DEF Alike, Matches
  <2>1. CASE Execute \/ PromptMenu \/ SelectField \/ Prepare \/ TypeEntry
               \/ TypingEnds \/ ExternalTyper \/ Tick \/ UNCHANGED vars
    <3>1. UNCHANGED <<entry, meant, window>>
      BY <2>1 DEF Execute, PromptMenu, SelectField, Prepare, TypeEntry, TypingEnds,
                  ExternalTyper, Tick, vars
    <3>2. pc' = pc \/ pc' \in Ended \cup {"prepare", "typing", "typer"}
             \/ /\ pc \in {"execute", "menu"} /\ pc' \in {"menu", "entries", "entry", "window"}
                /\ pc' = "window" => ~conf.autotypeNoAuto
                /\ pc' = "entry" => conf.autotypeNoAuto
      BY <2>1 DEF Execute, PromptMenu, SelectField, Prepare, TypeEntry, TypingEnds,
                  ExternalTyper, Tick, vars, Ended
    <3> QED
      BY <2>0, <3>1, <3>2 DEF AgreedInv, Ended
  <2>2. CASE SelectEntry \/ ChooseEntry
    <3>1. entry = 0 /\ meant = None /\ window' = window
      BY <2>2 DEF SelectEntry, ChooseEntry, AgreedInv
    <3>2. pc' \in {"done", "fields", "prepare"}
      BY <2>2 DEF SelectEntry, ChooseEntry
    <3>3. PICK item \in 1..Len(entries) \cup {None} : PromptEntries(item)
      BY <2>2 DEF SelectEntry, ChooseEntry
    <3>4. CASE Answered(errPrompt') /\ item # None
      BY <3>2, <3>3, <3>4, <2>0, PickedIsNotNone DEF PromptEntries, Taken, AgreedInv
    <3>5. CASE ~(Answered(errPrompt') /\ item # None)
      BY <3>1, <3>2, <3>3, <3>5 DEF PromptEntries, AgreedInv
    <3> QED
      BY <3>4, <3>5
  <2>3. CASE IdentifyWindow
    <3>1. entry = 0 /\ meant = None /\ meant' = None /\ ~conf.autotypeNoAuto
      BY <2>3 DEF IdentifyWindow, AgreedInv
    <3>2. pc' \in {"done", "prepare", "choose"} /\ (pc' = "choose" => entry' = entry)
      BY <2>3 DEF IdentifyWindow
    <3>3. entry' # 0 => /\ Unambiguous(Matches(window'))
                        /\ \E l \in Matches(window') : entry' = l[1]
      BY <2>3, <3>1 DEF IdentifyWindow
    <3>4. Matches(window)' = Matches(window')
      BY <2>0 DEF Matches, Lines, Pattern, IsAssociation, Association, Title
    <3> QED
      BY <2>0, <3>1, <3>2, <3>3, <3>4 DEF Unambiguous, AgreedInv
  <2>4. CASE ChooseLine
    <3>1. entry = 0 /\ meant = None /\ window' = window
      BY <2>4 DEF ChooseLine, AgreedInv
    <3>2. pc' \in {"done", "panicked", "prepare"}
      BY <2>4 DEF ChooseLine
    <3>3. \/ UNCHANGED <<entry, meant>>
          \/ \E item \in Lines : meant' = item /\ \E l \in TakenLine(item) : entry' = l[1]
      BY <2>4 DEF ChooseLine
    <3> QED
      BY <3>1, <3>2, <3>3, <2>0, PickedIsNotNone DEF TakenLine, SameText, AgreedInv
  <2> QED
    BY <2>1, <2>2, <2>3, <2>4 DEF Next
<1> QED
  BY <1>1, <1>2, InteractionTypeCorrect, PTL DEF Spec

\* What is typed or copied comes from the entry of a line the user picked or one
\* that looks the same; without being asked, from the only line that matches the
\* window (prompt.go:161, 595).
THEOREM EntryIsAgreed == Spec => []OnlyAgreedEntry
<1>1. AgreedInv => OnlyAgreedEntry
  BY DEF AgreedInv, OnlyAgreedEntry
<1> QED
  BY <1>1, Agreed, PTL

-----------------------------------------------------------------------------
\* Once settled, the sequence is that of the line picked or, without being asked,
\* of the one that matches.
LineInv ==
    /\ pc \in {"prepare", "typing", "typer"}
    /\ ~conf.autotypeNoAuto /\ conf.autotypeSequence = <<>>
    /\ entry # 0 /\ errPrompt \notin KbCustom
    => \A l \in IF meant # None THEN {meant} ELSE Matches(window) : keySeq = LineSequence(l)

LEMMA LinesPrecede == Spec => []LineInv
<1>0. \A l : LineSequence(l) # <<>>
  BY DEF LineSequence, OrElse, BuiltIn
<1>1. Init => LineInv
  BY DEF Init, LineInv
<1>2. TypeOK /\ AgreedInv /\ LineInv /\ [Next]_vars => LineInv'
  <2> SUFFICES ASSUME TypeOK, AgreedInv, LineInv, [Next]_vars PROVE LineInv'
    OBVIOUS
  <2>0. /\ UNCHANGED <<conf, entries>>
        /\ \A l : LineSequence(l)' = LineSequence(l)
        /\ window' = window => Matches(window)' = Matches(window)
        /\ Matches(window)' = Matches(window')
    <3>1. UNCHANGED <<conf, entries>>
      BY DataStay DEF dataVars
    <3>2. Lines' = Lines /\ \A l : Pattern(l)' = Pattern(l)
      BY <3>1 DEF Lines, Pattern, IsAssociation, Association
    <3> QED
      BY <3>1, <3>2 DEF LineSequence, IsAssociation, Association, Matches
  <2>1. CASE Execute \/ PromptMenu \/ SelectEntry \/ SelectField \/ TypingEnds
               \/ ExternalTyper
    BY <2>1 DEF Execute, PromptMenu, SelectEntry, SelectField, TypingEnds,
                ExternalTyper, LineInv
  <2>2. CASE TypeEntry \/ Tick \/ UNCHANGED vars
    BY <2>0, <2>2 DEF TypeEntry, Tick, vars, LineInv
  <2>3. CASE IdentifyWindow
    <3>1. entry = 0 /\ meant = None /\ meant' = None
      BY <2>3 DEF IdentifyWindow, AgreedInv
    <3>2. entry' # 0 /\ conf.autotypeSequence = <<>> =>
             /\ Unambiguous(Matches(window'))
             /\ \E l \in Matches(window') : keySeq' = LineSequence(l)
      BY <2>3, <3>1 DEF IdentifyWindow, OrElse
    <3> QED
      BY <2>0, <3>1, <3>2 DEF Unambiguous, LineInv
  <2>4. CASE ChooseLine
    <3>1. CASE pc' # "prepare"
      BY <2>4, <3>1 DEF ChooseLine, LineInv
    <3>2. CASE pc' = "prepare"
      <4>1. PICK item \in Lines \cup {None} :
               /\ item # None /\ meant' = item
               /\ \E l \in TakenLine(item) :
                     keySeq' = IF errPrompt' \in KbCustom THEN KbSequence(errPrompt')
                               ELSE OrElse(conf.autotypeSequence, LineSequence(l))
        BY <2>4, <3>2 DEF ChooseLine
      <4>2. conf.autotypeSequence = <<>> /\ errPrompt' \notin KbCustom =>
               keySeq' = LineSequence(item)
        BY <4>1 DEF TakenLine, SameText, OrElse
      <4> QED
        BY <2>0, <4>1, <4>2 DEF LineInv
    <3> QED
      BY <3>1, <3>2
  <2>5. CASE ChooseEntry
    BY <2>0, <2>5 DEF ChooseEntry, AgreedInv, LineInv
  <2>6. CASE Prepare
    <3>1. keySeq' = OrElse(keySeq, BuiltIn)
      BY <2>6 DEF Prepare
    <3>2. pc = "prepare" /\ UNCHANGED <<entry, meant, window, errPrompt>>
      BY <2>6 DEF Prepare
    <3> QED
      BY <1>0, <2>0, <3>1, <3>2 DEF OrElse, LineInv
  <2> QED
    BY <2>1, <2>2, <2>3, <2>4, <2>5, <2>6 DEF Next
<1> QED
  BY <1>1, <1>2, InteractionTypeCorrect, Agreed, PTL DEF Spec

\* The sequence of an entry picked from all of them is its own or else that of an
\* association; if there is none, the default is filled in by Prepare.
ListInv ==
    /\ pc \in {"prepare", "typing", "typer"}
    /\ conf.autotypeNoAuto /\ conf.autotypeSequence = <<>> /\ entry # 0
    => LET e == EntryAt(entry)
       IN  /\ e.defaultSequence # <<>> => keySeq = e.defaultSequence
           /\ e.defaultSequence = <<>> =>
                 IF FirstGiven(e) = {}
                    THEN keySeq = IF pc = "prepare" THEN <<>> ELSE BuiltIn
                    ELSE \E i \in FirstGiven(e) : keySeq = e.associations[i].sequence

LEMMA ListPrecedes == Spec => []ListInv
<1>1. Init => ListInv
  BY DEF Init, ListInv
<1>2. AgreedInv /\ ListInv /\ [Next]_vars => ListInv'
  <2> SUFFICES ASSUME AgreedInv, ListInv, [Next]_vars PROVE ListInv'
    OBVIOUS
  <2>0. UNCHANGED <<conf, entries>> /\ EntryAt(entry)' = EntryAt(entry')
    BY DataStay DEF dataVars, EntryAt
  <2>1. CASE Execute \/ PromptMenu \/ SelectEntry \/ SelectField \/ TypingEnds
               \/ ExternalTyper
    BY <2>1 DEF Execute, PromptMenu, SelectEntry, SelectField, TypingEnds,
                ExternalTyper, ListInv
  <2>2. CASE IdentifyWindow \/ ChooseLine
    <3>1. ~conf.autotypeNoAuto
      BY <2>2 DEF IdentifyWindow, ChooseLine, AgreedInv
    <3> QED
      BY <2>0, <3>1 DEF ListInv
  <2>3. CASE TypeEntry \/ Tick \/ UNCHANGED vars
    <3>1. UNCHANGED <<pc, entry, keySeq>>
      BY <2>3 DEF TypeEntry, Tick, vars
    <3> QED
      BY <2>0, <3>1 DEF ListInv
  <2>4. CASE ChooseEntry
    <3> DEFINE e == EntryAt(entry')
               given == {i \in DOMAIN e.associations : e.associations[i].sequence # <<>>}
    <3>1. CASE pc' # "prepare"
      BY <2>4, <3>1 DEF ChooseEntry, ListInv
    <3>2. CASE pc' = "prepare" /\ conf.autotypeSequence = <<>>
      <4>1. \/ /\ given = {} \/ e.defaultSequence # <<>>
               /\ keySeq' = e.defaultSequence
            \/ /\ e.defaultSequence = <<>>
               /\ \E i \in given : /\ \A j \in given : i <= j
                                   /\ keySeq' = e.associations[i].sequence
        BY <2>4, <3>2 DEF ChooseEntry, OrElse
      <4>2. FirstGiven(e) = {i \in given : \A j \in given : i <= j}
        BY DEF FirstGiven
      <4>3. /\ e.defaultSequence # <<>> => keySeq' = e.defaultSequence
            /\ e.defaultSequence = <<>> =>
                  IF FirstGiven(e) = {}
                     THEN keySeq' = <<>>
                     ELSE \E i \in FirstGiven(e) : keySeq' = e.associations[i].sequence
        BY <4>1, <4>2
      <4> QED
        BY <2>0, <3>2, <4>3 DEF ListInv
    <3> QED
      BY <2>0, <3>1, <3>2 DEF ListInv
  <2>5. CASE Prepare
    <3>1. pc = "prepare" /\ UNCHANGED entry /\ keySeq' = OrElse(keySeq, BuiltIn)
          /\ pc' # "prepare"
      BY <2>5 DEF Prepare
    <3>2. \A i \in FirstGiven(EntryAt(entry)) :
             EntryAt(entry).associations[i].sequence # <<>>
      BY DEF FirstGiven
    <3> QED
      BY <2>0, <3>1, <3>2 DEF OrElse, ListInv
  <2> QED
    BY <2>1, <2>2, <2>3, <2>4, <2>5 DEF Next
<1> QED
  BY <1>1, <1>2, Agreed, PTL DEF Spec

\* Unless the configuration or a menu key asks for another, the sequence typed is
\* the association's, then the entry's, then the program's default (prompt.go:316),
\* and for an entry picked from all of them the entry's before the association's
\* (prompt.go:329).
THEOREM PrecedenceIsKept == Spec => []SequencePrecedence
<1>1. LineInv /\ ListInv => SequencePrecedence
  <2>1. \A l : LineSequence(l) = IF IsAssociation(l) /\ Association(l).sequence # <<>>
                                    THEN Association(l).sequence
                                 ELSE IF entries[l[1]].defaultSequence # <<>>
                                    THEN entries[l[1]].defaultSequence
                                 ELSE BuiltIn
    BY DEF LineSequence, OrElse
  <2> QED
    BY <2>1 DEF LineInv, ListInv, SequencePrecedence
<1> QED
  BY <1>1, LinesPrecede, ListPrecedes, PTL

-----------------------------------------------------------------------------
\* What is typed for a piece of a sequence is what it means: Parse and Exec agree,
\* and Exec finds the fields Pairs has stored, or what has overwritten them.
LEMMA CallsMean ==
  ASSUME NEW pieces, IsKeySequence(pieces), NEW i \in DOMAIN pieces, Regular(pieces[i]),
         i \in DOMAIN Parse(pieces), NEW values, NEW code
  PROVE  LET p == pieces[i]
         IN  Calls(Parse(pieces)[i], Pairs(Parse(pieces), values, code)) =
                Meaning(p, IF Overwritten(Parse(pieces), p.token) THEN Text(p.token.word)
                           ELSE IF p.token = TotpToken
                              THEN FieldValues(Parse(pieces), values, code)[TotpToken]
                           ELSE FieldValue(values, p.token, Nothing))
  <1> DEFINE p   == pieces[i]
             seq == Parse(pieces)
             ds  == Pairs(seq, values, code)
             inp == FieldValues(seq, values, code)
  <1>1. /\ p.kind \in {"braces", "raw"}
        /\ p.token = Token(p.token.word, p.token.upper, p.token.args)
        /\ p.kind = "braces" => p.token.upper = TRUE
        /\ p.kind = "raw" => ~IsSpecial(p.parts)
    BY DEF IsKeySequence, Regular
  <1>2. seq[i] = SeqEntry(p)
    BY DEF Parse
  <1>3. CASE p.kind = "raw"
    <2>1. SeqEntry(p).type = "RAW" /\ SeqEntry(p).parts = p.parts
      BY <1>1, <1>3 DEF SeqEntry, EntryType
    <2>2. \A v : Meaning(p, v) = [k \in 1..Len(p.parts) |-> TypePart(p.parts[k])]
      BY <1>3 DEF Meaning
    <2>3. Calls(seq[i], ds) = [k \in 1..Len(p.parts) |-> TypePart(p.parts[k])]
      BY <1>2, <2>1 DEF Calls
    <2> QED
      BY <2>2, <2>3
  <1>4. CASE p.kind = "braces" /\ IsCommand(p.token)
    <2>1. EntryType(p) = "COMMAND"
      BY <1>4, KeyAssumption DEF EntryType, IsCommand, IsKeyword
    <2>2. SeqEntry(p).type = "COMMAND" /\ SeqEntry(p).args = p.token.args
             /\ SeqEntry(p).token = [p.token EXCEPT !.args = <<>>]
      BY <2>1 DEF SeqEntry
    <2>3. [p.token EXCEPT !.args = <<>>].word = p.token.word
      BY <1>1 DEF Token
    <2>4. \A v : Meaning(p, v) = HandleCommand(p.token.word, p.token.args)
      BY <1>4, KeyAssumption DEF Meaning, IsCommand, IsKeyword
    <2>5. Calls(seq[i], ds) = HandleCommand(p.token.word, p.token.args)
      BY <1>2, <2>2, <2>3 DEF Calls
    <2> QED
      BY <2>4, <2>5
  <1>5. CASE p.kind = "braces" /\ ~IsCommand(p.token) /\ IsKeyword(p.token)
    <2>1. SeqEntry(p).type = "KEYWORD" /\ SeqEntry(p).token = p.token
      BY <1>5 DEF SeqEntry, EntryType
    <2> QED
      BY <1>2, <1>5, <2>1 DEF Calls, Meaning
  <1>6. CASE p.kind = "braces" /\ ~IsCommand(p.token) /\ ~IsKeyword(p.token)
    <2>1. SeqEntry(p).type = "FIELD" /\ SeqEntry(p).token = p.token
      BY <1>6 DEF SeqEntry, EntryType
    <2>2. ToUpper(p.token) = p.token
      BY <1>1, <1>6 DEF ToUpper, Token
    <2>3. p.token \in TokensOf(seq, {"FIELD"})
      BY <1>2, <2>1 DEF TokensOf
    <2>4. /\ inp[p.token] = FieldValue(values, p.token, code)
          /\ p.token \in DOMAIN ds
          /\ ds[p.token] = IF Overwritten(seq, p.token) THEN Text(p.token.word)
                                                       ELSE inp[p.token]
      <3>1. p.token \in {seq[j].token : j \in DOMAIN seq}
        BY <1>2, <2>1
      <3> HIDE DEF seq
      <3> QED
        BY <2>3, <3>1 DEF Pairs, FieldValues
    <2>5. Calls(seq[i], ds) = <<TypeStr(ds[p.token])>>
      BY <1>2, <2>1, <2>2, <2>4 DEF Calls
    <2>6. \A v : Meaning(p, v) = <<TypeStr(v)>>
      BY <1>6 DEF Meaning
    <2> QED
      BY <2>4, <2>5, <2>6 DEF FieldValue
  <1> QED
    BY <1>1, <1>3, <1>4, <1>5, <1>6

\* Nothing is prepared before the sequence is settled; then the calls of a
\* built-in typer are those of the parsed sequence so far, and a code that is to be
\* typed is there.
PreparedInv ==
    /\ pc \notin Ended \cup {"typing", "typer"} => todo = <<>>
    /\ pc = "typer" => conf.typer \notin Typers
    /\ pc \in {"typing", "typer"} \/ todo # <<>> =>
          /\ todo = Parse(keySeq)
          /\ \E code : /\ rvp = Pairs(todo, EntryAt(entry).values, code)
                       /\ input = FieldValues(todo, EntryAt(entry).values, code)
    /\ ~conf.noOTP /\ TotpToken \in TokensOf(todo, {"FIELD"}) =>
          /\ ~NoOTPAuth(EntryAt(entry).values)
          /\ input[TotpToken].code # <<>>
          /\ Len(input[TotpToken].code) = OTPAuth(EntryAt(entry).values).digits
    /\ conf.typer \in Typers =>
          /\ typed \in Seq({Exec(conf.typer, todo[i], rvp) : i \in DOMAIN todo})
          /\ \A i \in DOMAIN typed : typed[i] = Exec(conf.typer, todo[i], rvp)
          /\ pc = "done" /\ typed # <<>> => Len(typed) + 1 \notin DOMAIN todo

LEMMA Prepared == Spec => []PreparedInv
<1>1. Init => PreparedInv
  BY DEF Init, PreparedInv, TokensOf
<1>2. TypeOK /\ SequenceInv /\ PreparedInv /\ [Next]_vars => PreparedInv'
  <2> SUFFICES ASSUME TypeOK, SequenceInv, PreparedInv, [Next]_vars PROVE PreparedInv'
    OBVIOUS
  <2>0. UNCHANGED <<conf, entries>> /\ (entry' = entry => EntryAt(entry)' = EntryAt(entry))
    BY DataStay DEF dataVars, EntryAt
  <2>1. CASE Execute \/ PromptMenu \/ SelectEntry \/ SelectField \/ IdentifyWindow
               \/ ChooseLine \/ ChooseEntry
    <3>1. pc \notin Ended \cup {"typing", "typer"}
      BY <2>1 DEF Execute, PromptMenu, SelectEntry, SelectField, IdentifyWindow,
                  ChooseLine, ChooseEntry, Ended
    <3>2. pc' \notin {"typing", "typer"} /\ UNCHANGED <<todo, rvp, input, typed>>
      BY <2>1 DEF Execute, PromptMenu, SelectEntry, SelectField, IdentifyWindow,
                  ChooseLine, ChooseEntry
    <3>3. todo = <<>> /\ typed = <<>> /\ TokensOf(todo, {"FIELD"}) = {}
      BY <3>1 DEF PreparedInv, SequenceInv, TokensOf
    <3>4. TokensOf(todo, {"FIELD"})' = {}
      BY <3>2, <3>3 DEF TokensOf
    <3> QED
      BY <3>2, <3>3, <3>4 DEF PreparedInv
  <2>2. CASE Prepare
    <3> DEFINE pieces == OrElse(keySeq, BuiltIn)
               seq    == Parse(pieces)
               values == EntryAt(entry).values
    <3>1. /\ pc = "prepare" /\ typed = <<>> /\ todo = <<>>
          /\ keySeq' = pieces /\ UNCHANGED <<entry, typed>>
      BY <2>2 DEF Prepare, PreparedInv, SequenceInv, Ended
    <3>2. CASE pc' \in Ended
      <4>1. todo' = <<>>
        BY <2>2, <3>1, <3>2 DEF Prepare, Ended
      <4>2. TokensOf(todo, {"FIELD"})' = {}
        BY <4>1 DEF TokensOf
      <4> QED
        BY <3>1, <3>2, <4>1, <4>2 DEF PreparedInv, Ended
    <3>3. CASE pc' \notin Ended
      <4>1. PICK o \in IF TotpToken \in TokensOf(seq, {"FIELD"})
                          THEN Codes(values) ELSE {Created(<<>>)} :
               /\ o.result = "code" /\ todo' = seq
               /\ rvp' = Pairs(seq, values, Code(o.code))
               /\ input' = FieldValues(seq, values, Code(o.code))
               /\ pc' = IF conf.typer \in Typers THEN "typing" ELSE "typer"
        BY <2>2, <3>3 DEF Prepare, Ended
      <4>2. EntryAt(entry)' = EntryAt(entry)
        BY <2>0, <3>1
      <4>3. ASSUME ~conf.noOTP, TotpToken \in TokensOf(seq, {"FIELD"})
            PROVE  /\ ~NoOTPAuth(values)
                   /\ input'[TotpToken].code # <<>>
                   /\ Len(input'[TotpToken].code) = OTPAuth(values).digits
        <5>1. o \in CreateOTP(values, now)
          BY <4>1, <4>3 DEF Codes
        <5>2. input'[TotpToken] = Code(o.code)
          BY <4>1, <4>3 DEF FieldValues, FieldValue
        <5>3. \A c : Code(c).code = c
          BY DEF Code
        <5>4. ~NoOTPAuth(values) /\ o.code # <<>> /\ Len(o.code) = OTPAuth(values).digits
          BY <4>1, <5>1, CodesHaveDigits
        <5> QED
          BY <5>2, <5>3, <5>4
      <4>4. TokensOf(todo, {"FIELD"})' = TokensOf(seq, {"FIELD"})
        BY <4>1 DEF TokensOf
      <4>5. /\ pc' \in {"typing", "typer"} /\ (pc' = "typer" => conf.typer \notin Typers)
            /\ todo' = Parse(keySeq')
            /\ \E code : /\ rvp' = Pairs(todo', values, code)
                         /\ input' = FieldValues(todo', values, code)
        BY <3>1, <4>1
      <4> HIDE DEF pieces, seq, values
      <4> QED
        BY <2>0, <3>1, <4>2, <4>3, <4>4, <4>5 DEF PreparedInv, Ended, values
    <3> QED
      BY <3>2, <3>3
  <2>3. CASE TypeEntry
    <3> DEFINE S == {Exec(conf.typer, todo[i], rvp) : i \in DOMAIN todo}
               call == Exec(conf.typer, todo[Len(typed) + 1], rvp)
    <3>1. /\ pc = "typing" /\ Len(typed) + 1 \in DOMAIN todo /\ typed' = Append(typed, call)
          /\ UNCHANGED <<pc, entry, keySeq, todo, rvp, input>>
      BY <2>3 DEF TypeEntry
    <3>2. TokensOf(todo, {"FIELD"})' = TokensOf(todo, {"FIELD"})
      BY <3>1 DEF TokensOf
    <3>3. conf.typer \in Typers =>
             typed' \in Seq(S) /\ \A i \in DOMAIN typed' : typed'[i] = Exec(conf.typer, todo[i], rvp)
      <4> SUFFICES ASSUME conf.typer \in Typers
                   PROVE  /\ typed' \in Seq(S)
                          /\ \A i \in DOMAIN typed' : typed'[i] = Exec(conf.typer, todo[i], rvp)
        OBVIOUS
      <4>1. typed \in Seq(S) /\ \A i \in DOMAIN typed : typed[i] = Exec(conf.typer, todo[i], rvp)
        BY DEF PreparedInv
      <4>2. call \in S
        BY <3>1
      <4> HIDE DEF S
      <4> QED
        BY <3>1, <4>1, <4>2
    <3> QED
      BY <2>0, <3>1, <3>2, <3>3 DEF PreparedInv, Ended
  <2>4. CASE TypingEnds \/ Tick \/ UNCHANGED vars
    <3>1. /\ UNCHANGED <<entry, keySeq, todo, rvp, input, typed>>
          /\ \/ pc' = pc
             \/ pc = "typing" /\ pc' = "done" /\ Len(typed) + 1 \notin DOMAIN todo
      BY <2>4 DEF TypingEnds, Tick, vars
    <3>2. TokensOf(todo, {"FIELD"})' = TokensOf(todo, {"FIELD"})
      BY <3>1 DEF TokensOf
    <3> QED
      BY <2>0, <3>1, <3>2 DEF PreparedInv, Ended
  <2>5. CASE ExternalTyper
    <3>1. /\ UNCHANGED <<entry, keySeq, todo, rvp, input>> /\ pc = "typer" /\ pc' = "done"
      BY <2>5 DEF ExternalTyper
    <3>2. TokensOf(todo, {"FIELD"})' = TokensOf(todo, {"FIELD"})
      BY <3>1 DEF TokensOf
    <3> QED
      BY <2>0, <3>1, <3>2 DEF PreparedInv, Ended
  <2> QED
    BY <2>1, <2>2, <2>3, <2>4, <2>5 DEF Next
<1> QED
  BY <1>1, <1>2, InteractionTypeCorrect, InitSequence, NextSequence, PTL DEF Spec

\* A sequence with {TOTP} is typed only once there is a code of the digits asked
\* for (prompt.go:376), and that code is stored for the typer unless a raw text
\* overwrites it (prompt.go:391).
THEOREM CodeOrNothingTyped == Spec => []CodeOrNothing
<1>1. TypeOK /\ PreparedInv => CodeOrNothing
  <2> SUFFICES ASSUME TypeOK, PreparedInv, typed # <<>>, ~conf.noOTP,
                      TotpToken \in TokensOf(todo, {"FIELD"}), ~Overwritten(todo, TotpToken)
               PROVE  rvp[TotpToken] = input[TotpToken]
    BY DEF PreparedInv, CodeOrNothing, Documented, OTPAuth
  <2>1. TotpToken \in {todo[i].token : i \in DOMAIN todo} /\ todo # <<>>
    BY DEF TokensOf
  <2>2. PICK code : /\ rvp = Pairs(todo, EntryAt(entry).values, code)
                    /\ input = FieldValues(todo, EntryAt(entry).values, code)
    BY <2>1 DEF PreparedInv
  <2> QED
    BY <2>1, <2>2 DEF Pairs
<1> QED
  BY <1>1, InteractionTypeCorrect, Prepared, PTL

\* What a built-in typer has typed is, piece by piece and in order, what the
\* sequence stands for, the pieces that are not Regular aside, and at the end all of
\* it up to the first malformed piece (sequence.go, exec.go:57); a field that a raw
\* text overwrites is typed as that text (prompt.go:391).
THEOREM TypedIsWritten == Spec => []TypedAsWritten
<1>1. TypeOK /\ SequenceInv /\ PreparedInv => TypedAsWritten
  <2> DEFINE whole == {i \in DOMAIN keySeq : \A j \in 1..i : ~Malformed(keySeq[j])}
             S == {Exec(conf.typer, todo[i], rvp) : i \in DOMAIN todo}
  <2> SUFFICES ASSUME TypeOK, SequenceInv, PreparedInv, conf.typer \in Typers, typed # <<>>
               PROVE  /\ \A i \in DOMAIN typed : Regular(keySeq[i]) =>
                            typed[i] = [k \in DOMAIN Asks(keySeq[i]) |->
                                           Typed(conf.typer, Asks(keySeq[i])[k])]
                      /\ pc = "done" => DOMAIN typed = whole
    BY DEF TypedAsWritten
  <2>1. typed \in Seq(S) /\ DOMAIN typed \subseteq DOMAIN todo /\ todo # <<>>
    BY DEF PreparedInv, TypeOK
  <2>2. PICK code : /\ todo = Parse(keySeq) /\ rvp = Pairs(todo, EntryAt(entry).values, code)
                    /\ input = FieldValues(todo, EntryAt(entry).values, code)
    BY <2>1 DEF PreparedInv
  <2>3. DOMAIN todo = whole /\ DOMAIN keySeq = 1..Len(keySeq) /\ Len(keySeq) \in Nat
    BY <2>2 DEF Parse, SequenceInv, IsKeySequence
  <2>4. ASSUME NEW i \in DOMAIN typed, Regular(keySeq[i])
        PROVE  typed[i] = [k \in DOMAIN Asks(keySeq[i]) |->
                              Typed(conf.typer, Asks(keySeq[i])[k])]
    <3>1. Calls(todo[i], rvp) = Asks(keySeq[i])
      <4>1. i \in DOMAIN keySeq /\ i \in DOMAIN Parse(keySeq)
        BY <2>1, <2>2, <2>3
      <4> HIDE DEF whole, S
      <4> QED
        BY <2>2, <2>4, <4>1, CallsMean DEF Asks, SequenceInv
    <3>2. typed[i] = Exec(conf.typer, todo[i], rvp)
      BY DEF PreparedInv
    <3> QED
      BY <3>1, <3>2 DEF Exec
  <2>5. ASSUME pc = "done" PROVE DOMAIN typed = whole
    <3>1. Len(typed) + 1 \notin whole
      BY <2>3, <2>5 DEF PreparedInv
    <3>2. DOMAIN typed \subseteq whole
      BY <2>1, <2>3
    <3>3. whole \subseteq Nat /\ \A i \in whole : \A j \in 1..i : j \in whole
      BY <2>3
    <3> HIDE DEF S, whole
    <3>4. DOMAIN typed = 1..Len(typed) /\ Len(typed) \in Nat
      BY <2>1
    <3>5. ASSUME NEW i \in whole, i \notin DOMAIN typed PROVE FALSE
      <4>1. i \in Nat /\ (i = 0 \/ Len(typed) + 1 \in 1..i)
        BY <3>3, <3>4, <3>5
      <4>2. i # 0
        BY <2>3, <3>5 DEF whole
      <4> QED
        BY <3>1, <3>3, <3>5, <4>1, <4>2
    <3> QED
      BY <3>2, <3>5
  <2> QED
    BY <2>4, <2>5
<1>2. Spec => []SequenceInv
  BY InteractionTypeCorrect, InitSequence, NextSequence, PTL DEF Spec
<1> QED
  BY <1>1, <1>2, InteractionTypeCorrect, Prepared, PTL

-----------------------------------------------------------------------------
\* A code that is none, or was made from the values for that time.
Made(values, time, c) ==
    c # <<>> => \E o \in CreateOTP(values, time) : o.result = "code" /\ c = o.code

\* Where codes come from: nothing is handed out while the dialogue goes on, no time
\* passes between settling and preparing, and what is handed out, stored for the
\* sequence or typed has been made from the entry for the time it was settled.
CodeInv ==
    /\ pc \notin Ended => value = Nothing
    /\ pc = "prepare" => settled = now
    /\ pc = "typing" => conf.typer \in Typers
    /\ pc \notin Ended \cup {"typing", "typer"} =>
          DOMAIN rvp = {} /\ DOMAIN input = {} /\ DOMAIN typed = {}
    /\ pc \in {"typing", "typer"} => DOMAIN input = TokensOf(todo, {"FIELD"})
    /\ Made(EntryAt(entry).values, settled, value.code)
    /\ ~conf.noOTP =>
          /\ \A t \in DOMAIN rvp : Made(EntryAt(entry).values, settled, rvp[t].code)
          /\ \A t \in DOMAIN input : Made(EntryAt(entry).values, settled, input[t].code)
    /\ ~conf.noOTP =>
          \A i \in DOMAIN typed : \A k \in DOMAIN typed[i] :
             Made(EntryAt(entry).values, settled, typed[i][k].value.code)

\* What a typer is called with is a field's value or has no code.
LEMMA CallsOfPairs ==
  ASSUME NEW typer, NEW p, NEW ds, NEW k \in DOMAIN Exec(typer, SeqEntry(p), ds)
  PROVE  \/ Exec(typer, SeqEntry(p), ds)[k].value.code = <<>>
         \/ \E t \in DOMAIN ds : Exec(typer, SeqEntry(p), ds)[k].value = ds[t]
  <1> DEFINE e     == SeqEntry(p)
             calls == Calls(e, ds)
             IsCall(c) == c = [op |-> c.op, value |-> c.value, key |-> c.key, mods |-> c.mods]
             From(c) == c.value.code = <<>> \/ \E t \in DOMAIN ds : c.value = ds[t]
  <1>0. /\ Nothing.code = <<>> /\ \A t : Text(t).code = <<>>
        /\ \A v : IsCall(TypeStr(v)) /\ TypeStr(v).value = v
        /\ \A key, mods : IsCall(KeyTap(key, mods)) /\ From(KeyTap(key, mods))
        /\ \A mods : IsCall(TapEach(mods)) /\ From(TapEach(mods))
        /\ \A app : IsCall(ActivePID(app)) /\ From(ActivePID(app))
        /\ IsCall(Delay) /\ From(Delay) /\ NoCall.value.code = <<>>
    BY DEF Text, Nothing, TypeStr, KeyTap, TapEach, ActivePID, Delay, NoCall
  <1>1. k \in DOMAIN calls /\ Exec(typer, e, ds)[k] = Typed(typer, calls[k])
    BY DEF Exec
  <1>2. /\ e.type \in {"FIELD", "KEYWORD", "COMMAND", "RAW", "SPECIAL"}
        /\ e.type = "KEYWORD" => e.token.word \in DOMAIN KeyMap
    BY DEF SeqEntry, EntryType, IsKeyword
  <1> HIDE DEF e, IsCall, From
  <1>3. IsCall(calls[k]) /\ From(calls[k])
    <2>1. CASE e.type = "FIELD"
      <3> DEFINE key == ToUpper(e.token)
                 v == IF key \in DOMAIN ds THEN ds[key] ELSE Nothing
      <3>1. calls = <<TypeStr(v)>>
        BY <2>1 DEF Calls
      <3>2. From(TypeStr(v))
        BY <1>0 DEF From
      <3> HIDE DEF v
      <3> QED
        BY <1>0, <1>1, <3>1, <3>2
    <2>2. CASE e.type = "KEYWORD"
      <3>1. calls = <<KeyMap[e.token.word]>>
        BY <2>2 DEF Calls
      <3>2. \/ \E t : KeyMap[e.token.word] = TypeStr(Text(t))
            \/ \E key, mods : KeyMap[e.token.word] = KeyTap(key, mods)
        BY <1>2, <2>2, KeyAssumption
      <3>3. \A t : From(TypeStr(Text(t)))
        BY <1>0 DEF From
      <3> QED
        BY <1>0, <1>1, <3>1, <3>2, <3>3
    <2>3. CASE e.type = "COMMAND"
      <3>1. \/ calls = <<Delay>> \/ calls = <<>>
            \/ \E app : calls = <<ActivePID(app)>>
        BY <2>3 DEF Calls, HandleCommand
      <3> QED
        BY <1>0, <1>1, <3>1
    <2>4. CASE e.type = "RAW"
      <3>1. calls = [i \in 1..Len(e.parts) |-> TypePart(e.parts[i])]
        BY <2>4 DEF Calls
      <3>2. calls[k] = TypePart(e.parts[k])
        BY <1>1, <3>1
      <3>3. \A t : From(TypeStr(Text(t)))
        BY <1>0 DEF From
      <3>4. \A part : \/ TypePart(part) = TypeStr(Text(part.text))
                      \/ TypePart(part) = TapEach(part.mods)
                      \/ TypePart(part) = KeyTap(part.key, part.mods)
        BY DEF TypePart
      <3> HIDE DEF calls
      <3> QED
        BY <1>0, <3>2, <3>3, <3>4
    <2>5. CASE e.type = "SPECIAL"
      <3>1. calls = <<>>
        BY <2>5 DEF Calls
      <3> QED
        BY <1>1, <3>1
    <2> QED
      BY <1>2, <2>1, <2>2, <2>3, <2>4, <2>5
  <1>4. \/ Typed(typer, calls[k]).value = calls[k].value
        \/ Typed(typer, calls[k]).value.code = <<>>
    <2>1. [calls[k] EXCEPT !.mods = <<>>].value = calls[k].value
      BY <1>3 DEF IsCall
    <2> QED
      BY <1>0, <2>1 DEF Typed
  <1>5. From(Typed(typer, calls[k]))
    BY <1>3, <1>4 DEF From
  <1> QED
    BY <1>1, <1>5 DEF From, e

\* What another typer receives are values of its input.
LEMMA ReceivedIsStored ==
  ASSUME todo = Parse(keySeq), IsKeySequence(keySeq),
         DOMAIN input = TokensOf(todo, {"FIELD"}),
         NEW t \in DOMAIN Received
  PROVE  \E u \in DOMAIN input : Received[t] = input[u]
  <1> DEFINE fields == {i \in DOMAIN todo : todo[i].type = "FIELD"}
             same   == {i \in fields : ToUpper(todo[i].token) = t}
             Last(i) == /\ ToUpper(todo[i].token) = t
                        /\ \A j \in fields : ToUpper(todo[j].token) = t => j <= i
             last == CHOOSE i \in fields : Last(i)
  <1>1. Received[t] = input[todo[last].token]
    BY DEF Received
  <1>2. same # {}
    BY DEF Received
  <1>3. fields \subseteq 1..Len(keySeq) /\ Len(keySeq) \in Nat
    BY DEF Parse, IsKeySequence
  <1>4. PICK i \in same : \A j \in same : j <= i
    BY <1>2, <1>3, GreatestElement
  <1>5. last \in fields
    BY <1>4
  <1> HIDE DEF last
  <1>6. todo[last].token \in DOMAIN input
    BY <1>5 DEF TokensOf
  <1> QED
    BY <1>1, <1>6

\* The calls made with stored values type codes that were made.
LEMMA TypedAreMade ==
  ASSUME NEW values, NEW time, NEW typer, NEW p, NEW ds,
         \A t \in DOMAIN ds : Made(values, time, ds[t].code),
         NEW k \in DOMAIN Exec(typer, SeqEntry(p), ds)
  PROVE  Made(values, time, Exec(typer, SeqEntry(p), ds)[k].value.code)
  BY CallsOfPairs DEF Made

LEMMA CodesCome == Spec => []CodeInv
<1>1. Init => CodeInv
  <2>1. Nothing.code = <<>> /\ \A values, time : Made(values, time, <<>>)
    BY DEF Nothing, Text, Made
  <2>2. DOMAIN <<>> = {}
    OBVIOUS
  <2> QED
    BY <2>1, <2>2 DEF Init, CodeInv, Ended
<1>2. TypeOK /\ SequenceInv /\ PreparedInv /\ CodeInv /\ [Next]_vars => CodeInv'
  <2> SUFFICES ASSUME TypeOK, SequenceInv, PreparedInv, CodeInv, [Next]_vars
               PROVE  CodeInv'
    OBVIOUS
  <2>0. /\ UNCHANGED <<conf, entries>> /\ (entry' = entry => EntryAt(entry)' = EntryAt(entry))
        /\ Nothing.code = <<>> /\ \A t : Text(t).code = <<>> /\ \A c : Code(c).code = c
        /\ \A values, time : Made(values, time, <<>>)
    BY DataStay DEF dataVars, EntryAt, Nothing, Text, Code, Made
  <2>1. CASE Execute \/ PromptMenu \/ SelectEntry \/ IdentifyWindow \/ ChooseLine \/ ChooseEntry
    <3>1. /\ pc \notin Ended \cup {"typing", "typer"} /\ pc' \notin {"typing", "typer"}
          /\ UNCHANGED <<rvp, input, typed, value>> /\ (pc' = "prepare" => settled' = now')
      BY <2>1 DEF Execute, PromptMenu, SelectEntry, IdentifyWindow, ChooseLine, ChooseEntry, Ended
    <3>2. value = Nothing /\ DOMAIN rvp = {} /\ DOMAIN input = {} /\ DOMAIN typed = {}
      BY <3>1 DEF CodeInv
    <3> QED
      BY <2>0, <3>1, <3>2 DEF CodeInv
  <2>2. CASE SelectField
    <3>1. /\ pc \notin Ended \cup {"typing", "typer"} /\ pc' \in Ended
          /\ UNCHANGED <<rvp, input, typed, entry>> /\ settled' = now
          /\ value = Nothing
      BY <2>2 DEF SelectField, Ended, CodeInv
    <3>2. DOMAIN rvp = {} /\ DOMAIN input = {} /\ DOMAIN typed = {}
      BY <3>1 DEF CodeInv
    <3>3. \/ value' = Nothing \/ \E t : value' = Text(t)
          \/ \E o \in CreateOTP(EntryAt(entry).values, now) :
                o.result = "code" /\ value' = Code(o.code)
      BY <2>2, <3>1 DEF SelectField
    <3>4. Made(EntryAt(entry).values, now, value'.code)
      BY <2>0, <3>3 DEF Made
    <3>5. Made(EntryAt(entry)'.values, settled', value'.code)
      BY <2>0, <3>1, <3>4
    <3> QED
      BY <3>1, <3>2, <3>5 DEF CodeInv, Ended
  <2>3. CASE Prepare
    <3>1. /\ pc = "prepare" /\ UNCHANGED <<entry, typed, value, settled>>
          /\ value = Nothing /\ settled = now
          /\ DOMAIN rvp = {} /\ DOMAIN input = {} /\ DOMAIN typed = {}
          /\ EntryAt(entry)' = EntryAt(entry)
      BY <2>0, <2>3 DEF Prepare, CodeInv, Ended
    <3>2. CASE pc' \in Ended
      <4>1. rvp' = rvp /\ input' = input
        BY <2>3, <3>2 DEF Prepare, Ended
      <4> QED
        BY <2>0, <3>1, <3>2, <4>1 DEF CodeInv, Ended
    <3>3. CASE pc' \notin Ended
      <4> DEFINE seq    == Parse(OrElse(keySeq, BuiltIn))
                 values == EntryAt(entry).values
      <4>1. PICK o \in IF TotpToken \in TokensOf(seq, {"FIELD"})
                          THEN Codes(values) ELSE {Created(<<>>)} :
               /\ o.result = "code" /\ todo' = seq
               /\ rvp' = Pairs(seq, values, Code(o.code))
               /\ input' = FieldValues(seq, values, Code(o.code))
               /\ pc' = IF conf.typer \in Typers THEN "typing" ELSE "typer"
        BY <2>3, <3>3 DEF Prepare, Ended
      <4>2. TokensOf(todo, {"FIELD"})' = TokensOf(seq, {"FIELD"})
        BY <4>1 DEF TokensOf
      <4>3. ~conf.noOTP => Made(values, now, o.code)
        BY <4>1 DEF Codes, Made, Created
      <4>4. ASSUME ~conf.noOTP, NEW t \in DOMAIN input'
            PROVE  Made(values, now, input'[t].code)
        <5>1. input'[t] = Code(o.code) \/ \E x : input'[t] = Text(x)
          BY <4>1, <4>4 DEF FieldValues, FieldValue
        <5> QED
          BY <2>0, <4>3, <4>4, <5>1
      <4>5. DOMAIN input' = TokensOf(seq, {"FIELD"})
        BY <4>1 DEF FieldValues
      <4>6. ASSUME ~conf.noOTP, NEW t \in DOMAIN rvp' PROVE Made(values, now, rvp'[t].code)
        <5>1. (t \in DOMAIN input' /\ rvp'[t] = input'[t]) \/ \E x : rvp'[t] = Text(x)
          BY <4>1, <4>5, <4>6 DEF Pairs
        <5> QED
          BY <2>0, <4>4, <4>6, <5>1
      <4> HIDE DEF seq
      <4> QED
        BY <2>0, <3>1, <4>1, <4>2, <4>4, <4>5, <4>6 DEF CodeInv, Ended
    <3> QED
      BY <3>2, <3>3
  <2>4. CASE TypeEntry
    <3> DEFINE call == Exec(conf.typer, todo[Len(typed) + 1], rvp)
    <3>1. /\ pc = "typing" /\ Len(typed) + 1 \in DOMAIN todo /\ typed' = Append(typed, call)
          /\ UNCHANGED <<pc, entry, todo, rvp, input, value, settled>>
          /\ EntryAt(entry)' = EntryAt(entry)
      BY <2>0, <2>4 DEF TypeEntry
    <3>2. PICK p : todo[Len(typed) + 1] = SeqEntry(p)
      BY <3>1 DEF PreparedInv, Parse
    <3>3. ~conf.noOTP => \A k \in DOMAIN call :
             Made(EntryAt(entry).values, settled, call[k].value.code)
      BY <3>2, TypedAreMade DEF CodeInv
    <3>4. \A i \in DOMAIN typed' : typed'[i] = call \/ (i \in DOMAIN typed /\ typed'[i] = typed[i])
      <4>1. conf.typer \in Typers
        BY <3>1 DEF CodeInv, PreparedInv
      <4> QED
        BY <3>1, <4>1 DEF PreparedInv
    <3>5. TokensOf(todo, {"FIELD"})' = TokensOf(todo, {"FIELD"})
      BY <3>1 DEF TokensOf
    <3> HIDE DEF call
    <3> QED
      BY <2>0, <3>1, <3>3, <3>4, <3>5 DEF CodeInv, Ended
  <2>5. CASE ExternalTyper
    <3>1. /\ pc = "typer" /\ pc' = "done" /\ UNCHANGED <<entry, rvp, input, value, settled>>
          /\ EntryAt(entry)' = EntryAt(entry)
          /\ \/ typed' = typed
             \/ \E n \in {0} \cup DOMAIN todo :
                   typed' = [i \in 1..n |-> Exec(conf.typer, todo[i], Received)]
      BY <2>0, <2>5 DEF ExternalTyper
    <3>2. ~conf.noOTP => \A t \in DOMAIN Received :
             Made(EntryAt(entry).values, settled, Received[t].code)
      <4>1. /\ todo = Parse(keySeq) /\ IsKeySequence(keySeq)
            /\ DOMAIN input = TokensOf(todo, {"FIELD"})
        BY <3>1 DEF PreparedInv, SequenceInv, CodeInv
      <4> QED
        BY <4>1, ReceivedIsStored DEF CodeInv
    <3>3. \A i \in DOMAIN todo : \E p : todo[i] = SeqEntry(p)
      BY <3>1 DEF PreparedInv, Parse
    <3>4. CASE typed' = typed
      BY <2>0, <3>1, <3>4 DEF CodeInv, Ended
    <3>5. CASE \E n \in {0} \cup DOMAIN todo :
                  typed' = [i \in 1..n |-> Exec(conf.typer, todo[i], Received)]
      <4>1. PICK n \in {0} \cup DOMAIN todo :
               typed' = [i \in 1..n |-> Exec(conf.typer, todo[i], Received)]
        BY <3>5
      <4>2. 1..n \subseteq DOMAIN todo
        BY DEF SequenceInv
      <4>3. ASSUME ~conf.noOTP, NEW i \in DOMAIN typed', NEW k \in DOMAIN typed'[i]
            PROVE  Made(EntryAt(entry).values, settled, typed'[i][k].value.code)
        <5>1. i \in DOMAIN todo /\ typed'[i] = Exec(conf.typer, todo[i], Received)
          BY <4>1, <4>2
        <5> HIDE DEF Received
        <5>2. PICK p : todo[i] = SeqEntry(p)
          BY <3>3, <5>1
        <5> QED
          BY <3>2, <4>3, <5>1, <5>2, TypedAreMade
      <4> QED
        BY <2>0, <3>1, <4>3 DEF CodeInv, Ended
    <3> QED
      BY <3>1, <3>4, <3>5
  <2>6. CASE TypingEnds \/ Tick \/ UNCHANGED vars
    <3>1. /\ UNCHANGED <<entry, todo, rvp, input, typed, value, settled>>
          /\ EntryAt(entry)' = EntryAt(entry)
          /\ \/ pc' = pc /\ now' = now
             \/ pc' = pc /\ pc \in Blocked
             \/ pc = "typing" /\ pc' = "done"
      BY <2>0, <2>6 DEF TypingEnds, Tick, vars
    <3>2. TokensOf(todo, {"FIELD"})' = TokensOf(todo, {"FIELD"})
      BY <3>1 DEF TokensOf
    <3> QED
      BY <2>0, <3>1, <3>2 DEF CodeInv, Ended, Blocked
  <2> QED
    BY <2>1, <2>2, <2>3, <2>4, <2>5, <2>6 DEF Next
<1> QED
  BY <1>1, <1>2, InteractionTypeCorrect, InitSequence, NextSequence, Prepared, PTL DEF Spec

\* A code that is handed out or typed is the one RFC 6238 gives for the time at
\* which the entry was settled, as long as its settings stay within machine words
\* (otp.go:59).
THEOREM CodesAreRight == Spec => []CodeIsRight
<1>1. CodeInv => CodeIsRight
  <2> SUFFICES ASSUME CodeInv, Ordinary(OTPAuth(EntryAt(entry).values)), NEW c, c # <<>>,
                      Made(EntryAt(entry).values, settled, c)
               PROVE  c = TOTP(OTPAuth(EntryAt(entry).values), settled)
    BY DEF CodeInv, CodeIsRight, Documented, OTPAuth
  <2> QED
    BY CodeByRFC DEF Made
<1> QED
  BY <1>1, CodesCome, PTL

-----------------------------------------------------------------------------
\* The dialogue panics in two cases only: a menu key on a text that is no line
\* (prompt.go:370), and digits of which ten to the power is no int (otp.go:90).
THEOREM PanicsAreKnown == Spec => []NoOtherPanic
<1>1. Init => NoOtherPanic
  BY DEF Init, NoOtherPanic
<1>2. AgreedInv /\ PreparedInv /\ NoOtherPanic /\ [Next]_vars => NoOtherPanic'
  <2> SUFFICES ASSUME AgreedInv, PreparedInv, [Next]_vars, NoOtherPanic, pc' = "panicked"
               PROVE  NoOtherPanic'
    BY DEF NoOtherPanic
  <2>0. UNCHANGED <<conf, entries>> /\ (entry' = entry => EntryAt(entry)' = EntryAt(entry))
    BY DataStay DEF dataVars, EntryAt
  <2>1. CASE ChooseLine
    BY <2>1 DEF ChooseLine, OutOfRange, AgreedInv, PreparedInv, Ended, NoOtherPanic
  <2>2. CASE SelectField \/ Prepare
    <3>1. /\ entry' = entry
          /\ \E o \in CreateOTP(EntryAt(entry).values, now) : o.result = "panic"
      <4>1. CASE SelectField
        BY <4>1 DEF SelectField
      <4>2. CASE Prepare
        <5>1. Created(<<>>).result # "panic" /\ Created(Dummy).result # "panic"
          BY DEF Created
        <5>2. "typing" # "panicked" /\ "typer" # "panicked" /\ "done" # "panicked"
          OBVIOUS
        <5> QED
          BY <4>2, <5>1, <5>2 DEF Prepare, Codes
      <4> QED
        BY <2>2, <4>1, <4>2
    <3> QED
      BY <2>0, <3>1, PanicNeedsDigits DEF NoOtherPanic, Documented, OTPAuth
  <2>3. CASE UNCHANGED vars
    BY <2>0, <2>3 DEF vars, NoOtherPanic
  <2>4. ~(Execute \/ PromptMenu \/ SelectEntry \/ IdentifyWindow \/ ChooseEntry \/ TypeEntry
            \/ TypingEnds \/ ExternalTyper \/ Tick)
    BY DEF Execute, PromptMenu, SelectEntry, IdentifyWindow, ChooseEntry, TypeEntry,
           TypingEnds, ExternalTyper, Tick, Blocked
  <2> QED
    BY <2>1, <2>2, <2>3, <2>4 DEF Next
<1> QED
  BY <1>1, <1>2, Agreed, Prepared, PTL DEF Spec

-----------------------------------------------------------------------------
\* With --autotypeConfirm the keys of an entry nobody picked are pressed only after
\* the command for the window has failed or a text that is no entry was given to
\* the list of entries: with configurations that use neither, the user always
\* confirms (config.go:34).
THEOREM ConfirmedFromTheLines ==
  ASSUME \A cfg \in Configs :
            cfg.autotypeConfirm => ~cfg.customWindowID /\ ~cfg.autotypeNoAuto
  PROVE  Spec => []AlwaysConfirmed
<1> DEFINE ConfirmInv ==
      /\ conf.autotypeConfirm => ~conf.customWindowID /\ ~conf.autotypeNoAuto
      /\ conf.autotypeConfirm /\ (pc \in {"prepare", "typing", "typer"} \/ typed # <<>>) =>
            meant # None
<1>1. Init => ConfirmInv
  <2> SUFFICES ASSUME Init PROVE ConfirmInv
    OBVIOUS
  <2>1. CASE own
    <3>1. PICK cfg \in ServerConfigs : conf = validateConfig(cfg, installed)
      BY <2>1 DEF Init
    <3>2. /\ conf.autotypeConfirm = cfg.autotypeConfirm
          /\ conf.customWindowID = cfg.customWindowID
          /\ conf.autotypeNoAuto = cfg.autotypeNoAuto
      BY <3>1 DEF validateConfig
    <3> QED
      BY <3>2 DEF Init, Configs
  <2>2. CASE ~own
    BY <2>2 DEF Init, Configs
  <2> QED
    BY <2>1, <2>2
<1>2. TypeOK /\ AgreedInv /\ SequenceInv /\ ConfirmInv /\ [Next]_vars => ConfirmInv'
  <2> SUFFICES ASSUME TypeOK, AgreedInv, SequenceInv, ConfirmInv, [Next]_vars
               PROVE  ConfirmInv'
    OBVIOUS
  <2>0. conf' = conf
    BY DataStay DEF dataVars
  <2>1. CASE Execute \/ PromptMenu \/ SelectField
    <3>1. pc' \notin {"prepare", "typing", "typer"} /\ UNCHANGED <<typed, meant>>
      BY <2>1 DEF Execute, PromptMenu, SelectField
    <3> QED
      BY <2>0, <3>1
  <2>2. CASE SelectEntry
    <3>1. pc' \in {"done", "fields"} /\ UNCHANGED typed /\ typed = <<>>
      BY <2>2 DEF SelectEntry, SequenceInv, Ended
    <3> QED
      BY <2>0, <3>1
  <2>3. CASE IdentifyWindow
    <3>1. typed' = typed /\ typed = <<>>
      BY <2>3 DEF IdentifyWindow, SequenceInv, Ended
    <3>2. ASSUME conf.autotypeConfirm PROVE pc' = "choose"
      <4>1. errPrompt' = "ok"
        BY <2>3, <3>2 DEF IdentifyWindow
      <4>2. Answered(errPrompt') /\ ~GivenUp(errPrompt')
        BY <4>1 DEF Answered, GivenUp, Cancelled, NotAsked
      <4>3. ~Unambiguous(Matches(window'))
        BY <3>2 DEF Unambiguous
      <4> QED
        BY <2>3, <4>2, <4>3 DEF IdentifyWindow
    <3> QED
      BY <2>0, <3>1, <3>2
  <2>4. CASE ChooseLine
    <3>1. typed' = typed /\ typed = <<>>
      BY <2>4 DEF ChooseLine, SequenceInv, Ended
    <3>2. PICK item \in Lines \cup {None} :
             IF Answered(errPrompt') /\ item # None
                THEN meant' = item /\ pc' = "prepare"
                ELSE pc' = IF OutOfRange(errPrompt', item) THEN "panicked" ELSE "done"
      BY <2>4 DEF ChooseLine
    <3>3. CASE Answered(errPrompt') /\ item # None
      BY <2>0, <3>1, <3>2, <3>3
    <3>4. CASE ~(Answered(errPrompt') /\ item # None)
      <4>1. pc' \in {"done", "panicked"}
        BY <3>2, <3>4
      <4> QED
        BY <2>0, <3>1, <4>1
    <3> QED
      BY <3>3, <3>4
  <2>5. CASE ChooseEntry
    <3>1. conf.autotypeNoAuto
      BY <2>5 DEF ChooseEntry, AgreedInv
    <3> QED
      BY <2>0, <3>1
  <2>6. CASE Prepare \/ TypeEntry \/ TypingEnds \/ ExternalTyper
    <3>1. pc \in {"prepare", "typing", "typer"} /\ meant' = meant
      BY <2>6 DEF Prepare, TypeEntry, TypingEnds, ExternalTyper
    <3> QED
      BY <2>0, <3>1
  <2>7. CASE Tick \/ UNCHANGED vars
    BY <2>0, <2>7 DEF Tick, vars
  <2> QED
    BY <2>1, <2>2, <2>3, <2>4, <2>5, <2>6, <2>7 DEF Next
<1>3. ConfirmInv => AlwaysConfirmed
  BY DEF AlwaysConfirmed
<1>4. Spec => []SequenceInv
  BY InteractionTypeCorrect, InitSequence, NextSequence, PTL DEF Spec
<1> QED
  BY <1>1, <1>2, <1>3, <1>4, InteractionTypeCorrect, Agreed, PTL DEF Spec
=============================================================================
