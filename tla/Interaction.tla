----------------------------- MODULE Interaction -----------------------------
(***************************************************************************)
(* One call's dialogue with its user once the database is open (the second *)
(* half of Menu.Execute): PromptAutotype with identifyWindow, or OpenMenu  *)
(* with entrySelection (kpmenulib/prompt.go, kpmenulib/menu.go).  An entry *)
(* and a key sequence or a field are settled on, and the entry's data is   *)
(* typed or handed to the clipboard.                                       *)
(*                                                                         *)
(* MenuServer holds what happens to the database and between calls.  Time  *)
(* passes while a user is asked and while keys are typed.                  *)
(***************************************************************************)
EXTENDS Prompts, KeySequence, OneTimePassword

CONSTANTS
    None,           \* no line picked
    Databases,      \* the entries that may be in the open database
    Windows,        \* the titles of windows
    Matching,       \* regular expression -> the titles it matches
    MaxTime         \* bound: the clock stops here

VARIABLES
    own,            \* the configuration is the server's own, validated
    conf,           \* Menu.Configuration
    installed,      \* the programs there are
    entries,        \* Menu.Database.Entries
    now,            \* the clock
    pc,             \* what the call does next
    window,         \* identifyWindow's activeWindow
    entry,          \* the index of the entry settled on, 0 for an empty Entry
    keySeq,         \* the key sequence settled on
    todo,           \* the parsed sequence
    rvp,            \* its pairs
    input,          \* the fields and values written for another typer
    typed,          \* the calls of the typer so far, entry by entry of todo
    value,          \* what is handed to the clipboard
    errPrompt,      \* how the last prompt ended
    meant,          \* history: the line the user picked last, <<entry, 0>> if the
                    \* entry was picked from a list of entries
    settled         \* history: when the entry and the sequence were settled

dataVars == <<own, conf, installed, entries>>

vars == <<own, conf, installed, entries, now, pc, window, entry, keySeq, todo,
          rvp, input, typed, value, errPrompt, meant, settled>>

\* An entry of the database and the empty one.
IsEntry(e) ==
    /\ e.values \in Seq([key : STRING, content : STRING])
    /\ \A i, j \in DOMAIN e.values : e.values[i].key = e.values[j].key => i = j
    /\ IsKeySequence(e.defaultSequence)
    /\ Len(e.associations) \in Nat /\ DOMAIN e.associations = 1..Len(e.associations)
    /\ \A i \in DOMAIN e.associations : IsKeySequence(e.associations[i].sequence)

EmptyEntry == [values |-> <<>>, defaultSequence |-> <<>>, associations |-> <<>>]

EntryAt(i) == IF i = 0 THEN EmptyEntry ELSE entries[i]

ASSUME InteractionAssumption ==
    /\ \A db \in Databases : DOMAIN db = 1..Len(db) /\ Len(db) \in Nat
    /\ \A db \in Databases : \A i \in DOMAIN db : IsEntry(db[i])
    /\ \A db \in Databases : \A i \in DOMAIN db :
          \A k \in 0..(Len(db[i].associations) + 1) : None # <<i, k>>
    /\ \A cfg \in Configs : IsKeySequence(cfg.autotypeSequence)
    /\ MaxTime \in Nat

\* The call waits for a user or types.
Blocked == {"menu", "entries", "fields", "window", "choose", "entry", "typing",
            "typer"}

\* The call returns: with "Exit" in the menu, which locks the database, on leaving
\* the menu, in any other way; or the process is gone.
Ended == {"exited", "left", "done", "panicked"}

TypeOK ==
    /\ own \in BOOLEAN
    /\ conf.menu \in {cfg.menu : cfg \in Configs} \cup {"dmenu"}
    /\ entries \in Databases
    /\ now \in 0..MaxTime /\ settled \in 0..MaxTime
    /\ pc \in Blocked \cup Ended \cup {"execute", "prepare"}
    /\ window \in Windows \cup {None}
    /\ entry \in 0..Len(entries)
    /\ DOMAIN typed \subseteq DOMAIN todo
    /\ errPrompt \in ErrorPrompts
    /\ meant # None => meant[1] \in 1..Len(entries)

-----------------------------------------------------------------------------
\* The database is open; a server's own configuration has been validated, a
\* client's has not.
Init ==
    /\ installed \in Installations
    /\ \/ /\ own = TRUE
          /\ \E cfg \in ServerConfigs :
                Valid(cfg, installed) /\ conf = validateConfig(cfg, installed)
       \/ own = FALSE /\ conf \in ClientConfigs
    /\ entries \in Databases
    /\ now = 0 /\ settled = 0
    /\ pc = "execute"
    /\ window = None
    /\ entry = 0
    /\ keySeq = <<>> /\ todo = <<>> /\ rvp = <<>> /\ input = <<>> /\ typed = <<>>
    /\ value = Nothing
    /\ errPrompt = "ok"
    /\ meant = None

Autotyping == conf.autotype /\ ~conf.disableAutotype

\* Mutant of Execute: disableAutotype is forgotten.
ExecuteEnabled ==
    /\ pc = "execute"
    /\ pc' = IF ~conf.autotype THEN "menu"
             ELSE IF conf.autotypeNoAuto THEN "entry" ELSE "window"
    /\ UNCHANGED <<dataVars, now, window, entry, keySeq, todo, rvp, input, typed, value,
                   errPrompt, meant, settled>>

Execute ==
    /\ pc = "execute"
    /\ pc' = IF ~Autotyping THEN "menu"
             ELSE IF conf.autotypeNoAuto THEN "entry" ELSE "window"
    /\ UNCHANGED <<dataVars, now, window, entry, keySeq, todo, rvp, input, typed, value,
                   errPrompt, meant, settled>>

\* The answers of a menu: how its program ends, and the item that was picked,
\* None for a text that is no item.
Asked(ep, item, items) ==
    ep \in executePrompt(conf, installed) /\ item \in items \cup {None}

-----------------------------------------------------------------------------
\* OpenMenu: whatever is neither a cancel nor one of the other items shows the
\* entries, an error of the menu program included.  "Reload" opens the database
\* again (MenuServer) and asks again.
PromptMenu ==
    /\ pc = "menu"
    /\ \E item \in {"Show", "Reload", "Exit", None} :
          /\ Asked(errPrompt', item, {"Show", "Reload", "Exit"})
          /\ pc' = CASE errPrompt' \in Cancelled                  -> "left"
                     [] Answered(errPrompt') /\ item = "Exit"     -> "exited"
                     [] Answered(errPrompt') /\ item = "Reload"   -> "menu"
                     [] OTHER                                     -> "entries"
    /\ UNCHANGED <<dataVars, now, window, entry, keySeq, todo, rvp, input, typed, value,
                   meant, settled>>

Title(e) == Content(e.values, "Title")

\* Entries that look the same in a menu (the default formatEntry).
Alike(i, k) ==
    /\ Title(entries[i]) = Title(entries[k])
    /\ Content(entries[i].values, "UserName") = Content(entries[k].values, "UserName")

\* The answer is matched by its text: of entries that look the same the first
\* is taken.
Taken(i) ==
    {k \in 1..Len(entries) : Alike(k, i) /\ \A n \in 1..(k - 1) : ~Alike(n, i)}

\* PromptEntries: an empty Entry when the answer has an error or is no item.
PromptEntries(item) ==
    /\ Asked(errPrompt', item, 1..Len(entries))
    /\ IF Answered(errPrompt') /\ item # None
          THEN /\ entry' \in Taken(item)
               /\ meant' = <<item, 0>>
          ELSE UNCHANGED <<entry, meant>>

\* entrySelection, first half.
SelectEntry ==
    /\ pc = "entries"
    /\ \E item \in 1..Len(entries) \cup {None} : PromptEntries(item)
    /\ pc' = IF errPrompt' \in Cancelled THEN "done" ELSE "fields"
    /\ UNCHANGED <<dataVars, now, window, keySeq, todo, rvp, input, typed, value, settled>>

OtherFields(e) ==
    {e.values[i].key : i \in {j \in DOMAIN e.values :
        /\ e.values[j].content # ""
        /\ e.values[j].key \notin conf.fillBlacklist
        /\ ~conf.noOTP => e.values[j].key \notin {OTP, TOTPSEED}}}

\* The fields PromptFields lists, "Generate OTP" aside.
Fields(e) ==
    {f \in conf.fieldOrder : Content(e.values, f) # ""}
        \cup (IF conf.fillOtherFields THEN OtherFields(e) ELSE {})

\* PromptFields and the rest of entrySelection.  "Generate OTP" is understood
\* whether it was listed or not.
SelectField ==
    /\ pc = "fields"
    /\ \E item \in Fields(EntryAt(entry)) \cup {"Generate OTP", None} :
          /\ Asked(errPrompt', item, Fields(EntryAt(entry)) \cup {"Generate OTP"})
          /\ IF ~Answered(errPrompt') \/ item = None
                THEN pc' = "done" /\ UNCHANGED value
             ELSE IF item = "Generate OTP"
                THEN \E o \in CreateOTP(EntryAt(entry).values, now) :
                        /\ pc' = IF o.result = "panic" THEN "panicked" ELSE "done"
                        /\ value' = IF o.result = "code" THEN Code(o.code) ELSE value
             ELSE /\ pc' = "done"
                  /\ value' = Text(Content(EntryAt(entry).values, item))
    /\ settled' = now
    /\ UNCHANGED <<dataVars, now, window, entry, keySeq, todo, rvp, input, typed, meant>>

-----------------------------------------------------------------------------
Field(word)   == Braces(word, TRUE, <<>>)
UserName      == Field("UserName")
Password      == Field("Password")
TotpToken     == Token("TOTP", TRUE, <<>>)

BuiltIn == <<UserName, Field("TAB"), Password, Field("ENTER")>>

\* What the menu keys stand for.
KbSequence(ep) ==
    CASE ep = "KbCustom1" -> <<UserName>>
      [] ep = "KbCustom2" -> <<Password>>
      [] ep = "KbCustom3" -> <<Field("TOTP")>>
      [] ep = "KbCustom4" -> <<Password, Field("ENTER")>>
      [] ep = "KbCustom5" -> <<Field("URL")>>

OrElse(seq, default) == IF seq # <<>> THEN seq ELSE default

\* A line of identifyWindow is a pair of an entry and one of its patterns: its
\* associations in order, then its title.
IsAssociation(l) == l[2] <= Len(entries[l[1]].associations)

Association(l) == entries[l[1]].associations[l[2]]

Pattern(l) == IF IsAssociation(l) THEN Association(l).window ELSE Title(entries[l[1]])

\* Mutant of LineSequence: the entry's own sequence comes first.
LineSequenceOwn(l) ==
    OrElse(entries[l[1]].defaultSequence,
           IF IsAssociation(l) THEN OrElse(Association(l).sequence, BuiltIn) ELSE BuiltIn)

LineSequence(l) ==
    LET default == OrElse(entries[l[1]].defaultSequence, BuiltIn)
    IN  IF IsAssociation(l) THEN OrElse(Association(l).sequence, default) ELSE default

\* An association without a window and a pattern that does not compile make none.
Lines ==
    {l \in UNION {{i} \X (1..(Len(entries[i].associations) + 1)) : i \in 1..Len(entries)} :
        /\ IsAssociation(l) => Association(l).window # ""
        /\ Pattern(l) \in DOMAIN Matching}

Matches(title) == {l \in Lines : title \in Matching[Pattern(l)]}

\* Mutant of Unambiguous: autotypeConfirm is not looked at.
UnambiguousOnly(lines) == \E l \in lines : lines = {l}

\* One line matches, and the user need not confirm.
Unambiguous(lines) == ~conf.autotypeConfirm /\ \E l \in lines : lines = {l}

\* Mutant of GivenUp: only a prompt that could not be made counts.
GivenUpAsked(ep) == ep \in NotAsked

\* PromptAutotype returns when the entry is not settled.
GivenUp(ep) == ep \in Cancelled

\* The title comes from a command of the user or from the window system.  If the
\* command has an error an empty Entry is returned, which is not nil.
IdentifyWindow ==
    /\ pc = "window"
    /\ errPrompt' \in IF conf.customWindowID
                         THEN {"ok", "error", "cancelled"} \cup KbCustom ELSE {"ok"}
    /\ window' \in Windows
    /\ \/ /\ GivenUp(errPrompt')
          /\ pc' = "done"
          /\ UNCHANGED <<entry, keySeq>>
       \/ /\ ~Answered(errPrompt') /\ ~GivenUp(errPrompt')
          /\ pc' = "prepare"
          /\ UNCHANGED <<entry, keySeq>>
       \/ /\ Answered(errPrompt')
          /\ Unambiguous(Matches(window'))
          /\ \E l \in Matches(window') :
                /\ entry' = l[1]
                /\ keySeq' = OrElse(conf.autotypeSequence, LineSequence(l))
          /\ pc' = "prepare"
       \/ /\ Answered(errPrompt')
          /\ ~Unambiguous(Matches(window'))
          /\ pc' = "choose"
          /\ UNCHANGED <<entry, keySeq>>
    /\ settled' = now
    /\ UNCHANGED <<dataVars, now, todo, rvp, input, typed, value, meant>>

\* The lines that match come first, each group in the order of the database.
Before(l, m) ==
    LET first(k) == k \in Matches(window)
    IN  \/ first(l) /\ ~first(m)
        \/ /\ first(l) <=> first(m)
           /\ l[1] < m[1] \/ (l[1] = m[1] /\ l[2] < m[2])

SameText(l, m) == Alike(l[1], m[1]) /\ LineSequence(l) = LineSequence(m)

\* PromptChoose: the first line with the text of the answer.
TakenLine(l) ==
    {m \in Lines : SameText(m, l) /\ \A n \in Lines : SameText(n, l) => ~Before(n, m)}

\* Mutant of OutOfRange: any answer that is no line is used as an index.
OutOfRangeAny(ep, item) == item = None /\ Answered(ep)

\* A menu key on a text that is no line: the matches are indexed with -1.
OutOfRange(ep, item) == item = None /\ ep \in KbCustom

ChooseLine ==
    /\ pc = "choose"
    /\ \E item \in Lines \cup {None} :
          /\ Asked(errPrompt', item, Lines)
          /\ IF Answered(errPrompt') /\ item # None
                THEN /\ \E l \in TakenLine(item) :
                           /\ entry' = l[1]
                           /\ keySeq' = IF errPrompt' \in KbCustom
                                           THEN KbSequence(errPrompt')
                                           ELSE OrElse(conf.autotypeSequence, LineSequence(l))
                     /\ meant' = item
                     /\ pc' = "prepare"
                ELSE /\ pc' = IF OutOfRange(errPrompt', item) THEN "panicked" ELSE "done"
                     /\ UNCHANGED <<entry, keySeq, meant>>
    /\ settled' = now
    /\ UNCHANGED <<dataVars, now, window, todo, rvp, input, typed, value>>

\* autotypeNoAuto: the entries are listed; the sequence of the configuration goes
\* before the entry's own, and that before those of its associations.
ChooseEntry ==
    /\ pc = "entry"
    /\ \E item \in 1..Len(entries) \cup {None} : PromptEntries(item)
    /\ IF GivenUp(errPrompt')
          THEN pc' = "done" /\ UNCHANGED keySeq
          ELSE LET e == EntryAt(entry')
                   given == {i \in DOMAIN e.associations : e.associations[i].sequence # <<>>}
               IN  /\ pc' = "prepare"
                   /\ \/ /\ given = {} \/ e.defaultSequence # <<>>
                         /\ keySeq' = OrElse(conf.autotypeSequence, e.defaultSequence)
                      \/ /\ e.defaultSequence = <<>>
                         /\ \E i \in given :
                               /\ \A j \in given : i <= j
                               /\ keySeq' = OrElse(conf.autotypeSequence,
                                                   e.associations[i].sequence)
    /\ settled' = now
    /\ UNCHANGED <<dataVars, now, window, todo, rvp, input, typed, value>>

-----------------------------------------------------------------------------
\* getContent looks a key up whatever its case; two keys of an entry are taken to
\* differ in more than that.
FieldValue(values, token, code) ==
    IF token = TotpToken THEN code
    ELSE Text(Content(values, token.word))

TokensOf(seq, types) ==
    {seq[i].token : i \in {j \in DOMAIN seq : seq[j].type \in types}}

FieldValues(seq, values, code) ==
    [t \in TokensOf(seq, {"FIELD"}) |-> FieldValue(values, t, code)]

\* The last entry with the token is no field: a raw text that spells its name.
Overwritten(seq, token) ==
    \E i \in DOMAIN seq :
       /\ seq[i].token = token /\ seq[i].type # "FIELD"
       /\ \A j \in DOMAIN seq : seq[j].token = token => j <= i

\* Keys are the tokens as they are written.  Whatever is no field is stored too, as
\* the value of its own text.
Pairs(seq, values, code) ==
    [t \in {seq[i].token : i \in DOMAIN seq} |->
        IF t \in TokensOf(seq, {"FIELD"}) /\ ~Overwritten(seq, t)
           THEN FieldValues(seq, values, code)[t]
           ELSE Text(t.word)]

Dummy == <<0, 0, 0, 0, 0, 0>>

\* Mutant of Codes: a code that cannot be made is left empty.
CodesEmpty(values) ==
    IF conf.noOTP THEN {Created(Dummy)}
    ELSE {IF o = Failed THEN Created(<<>>) ELSE o : o \in CreateOTP(values, now)}

\* What {TOTP} gives.
Codes(values) ==
    IF conf.noOTP THEN {Created(Dummy)} ELSE CreateOTP(values, now)

Typers == {"", "dotool", "dotoolc", "echo"}

\* The rest of PromptAutotype up to the typer: the code is made before a key is
\* typed, and typing is given up if it cannot be made.
Prepare ==
    /\ pc = "prepare"
    /\ LET pieces == OrElse(keySeq, BuiltIn)
           seq    == Parse(pieces)
           values == EntryAt(entry).values
       IN  /\ keySeq' = pieces
           /\ \E o \in IF TotpToken \in TokensOf(seq, {"FIELD"})
                          THEN Codes(values) ELSE {Created(<<>>)} :
                 IF o.result = "code"
                    THEN /\ todo' = seq
                         /\ rvp' = Pairs(seq, values, Code(o.code))
                         /\ input' = FieldValues(seq, values, Code(o.code))
                         /\ pc' = IF conf.typer \in Typers THEN "typing" ELSE "typer"
                    ELSE /\ pc' = IF o.result = "panic" THEN "panicked" ELSE "done"
                         /\ UNCHANGED <<todo, rvp, input>>
    /\ UNCHANGED <<dataVars, now, window, entry, typed, value, errPrompt, meant, settled>>

\* Sequence.Exec, an entry at a time.
TypeEntry ==
    /\ pc = "typing"
    /\ Len(typed) + 1 \in DOMAIN todo
    /\ typed' = Append(typed, Exec(conf.typer, todo[Len(typed) + 1], rvp))
    /\ UNCHANGED <<dataVars, now, pc, window, entry, keySeq, todo, rvp, input, value,
                   errPrompt, meant, settled>>

TypingEnds ==
    /\ pc = "typing"
    /\ Len(typed) + 1 \notin DOMAIN todo
    /\ pc' = "done"
    /\ UNCHANGED <<dataVars, now, window, entry, keySeq, todo, rvp, input, typed, value,
                   errPrompt, meant, settled>>

\* The pairs as Parse of exec.go reads them back from the input: the fields in the
\* order of the sequence, their keys in capitals, the last one of a key counting.
Received ==
    LET fields == {i \in DOMAIN todo : todo[i].type = "FIELD"}
        last(t) == CHOOSE i \in fields :
                      /\ ToUpper(todo[i].token) = t
                      /\ \A j \in fields : ToUpper(todo[j].token) = t => j <= i
    IN  [t \in {ToUpper(todo[i].token) : i \in fields} |-> input[todo[last(t)].token]]

\* Any other typer is a program, run once with the sequence and its fields; what
\* it types of them before it ends is up to it.
ExternalTyper ==
    /\ pc = "typer"
    /\ IF conf.typer \in installed
          THEN /\ errPrompt' \in {"ok", "error", "cancelled"} \cup KbCustom
               /\ \E n \in {0} \cup DOMAIN todo :
                     typed' = [i \in 1..n |-> Exec(conf.typer, todo[i], Received)]
          ELSE errPrompt' = "noTyper" /\ UNCHANGED typed
    /\ pc' = "done"
    /\ UNCHANGED <<dataVars, now, window, entry, keySeq, todo, rvp, input, value, meant,
                   settled>>

\* Time passes while the user is asked and while keys are typed.  Bound: MaxTime.
Tick ==
    /\ pc \in Blocked
    /\ now < MaxTime
    /\ now' = now + 1
    /\ UNCHANGED <<dataVars, pc, window, entry, keySeq, todo, rvp, input, typed, value,
                   errPrompt, meant, settled>>

Next ==
    \/ Execute
    \/ PromptMenu \/ SelectEntry \/ SelectField
    \/ IdentifyWindow \/ ChooseLine \/ ChooseEntry
    \/ Prepare \/ TypeEntry \/ TypingEnds \/ ExternalTyper
    \/ Tick

Spec == Init /\ [][Next]_vars

-----------------------------------------------------------------------------
\* What is typed or copied comes from the entry of a line the user picked or one
\* that looks the same (prompt.go:161); without being asked (prompt.go:595), from
\* the only line that matches the window.
OnlyAgreedEntry ==
    (typed # <<>> \/ value # Nothing) /\ entry # 0 =>
       IF meant # None THEN Alike(entry, meant[1])
       ELSE /\ ~conf.autotypeConfirm /\ ~conf.autotypeNoAuto
            /\ \A l \in Matches(window) : l[1] = entry
            /\ \A l, m \in Matches(window) : l = m

\* With --autotypeConfirm no key is pressed and no text typed unless the user has
\* picked a line (config.go:34, "User must always confirm").
AlwaysConfirmed ==
    conf.autotypeConfirm /\ Autotyping /\ meant = None =>
       \A i \in DOMAIN typed : \A k \in DOMAIN typed[i] : typed[i][k] = TypeStr(Nothing)

\* After a prompt that was cancelled nothing is typed and nothing copied
\* (prompt.go:322, 345, menu.go:163, 191, 205).
NothingAfterCancel ==
    [][(errPrompt \in Cancelled) => UNCHANGED <<typed, value>>]_vars

\* The settings of an entry's one-time password: those of the key otp if there is
\* one, otherwise the older ones (otp.go:59).
Documented(values) ==
    IF Has(values, OTP) THEN FromUrl(Content(values, OTP)) ELSE FromSeed(values)

\* A sequence with {TOTP} is typed only once there is a code of the digits asked
\* for: no name and password without it (prompt.go:376).  Every typer gets that
\* code, a built-in one unless a raw text overwrites it.
CodeOrNothing ==
    /\ typed # <<>>
    /\ ~conf.noOTP
    /\ TotpToken \in TokensOf(todo, {"FIELD"})
    => /\ ~NoOTPAuth(EntryAt(entry).values)
       /\ input[TotpToken].code # <<>>
       /\ Len(input[TotpToken].code) = Documented(EntryAt(entry).values).digits
       /\ ~Overwritten(todo, TotpToken) => rvp[TotpToken] = input[TotpToken]

\* A code that is handed out or typed is the one RFC 6238 gives for the time at
\* which the entry was settled, by the settings otp.go:59 names, as long as these
\* stay within machine words.
CodeIsRight ==
    LET o == Documented(EntryAt(entry).values)
    IN  ~NoOTPAuth(EntryAt(entry).values) /\ Ordinary(o) =>
          /\ value.code # <<>> => value.code = TOTP(o, settled)
          /\ ~conf.noOTP =>
                \A i \in DOMAIN typed : \A k \in DOMAIN typed[i] :
                   typed[i][k].value.code # <<>> =>
                      typed[i][k].value.code = TOTP(o, settled)

\* What a piece of the sequence stands for, given the entry and its code.  A field
\* that a raw text overwrites stands for that text.
Asks(p) ==
    Meaning(p, IF Overwritten(todo, p.token) THEN Text(p.token.word)
               ELSE IF p.token = TotpToken THEN input[TotpToken]
               ELSE FieldValue(EntryAt(entry).values, p.token, Nothing))

\* What a built-in typer has typed is, piece by piece and in order, what the
\* sequence stands for, the pieces that are not Regular aside, and at the end it is
\* the whole sequence up to the first malformed piece (exec.go:57, prompt.go:361).
\* This includes what a user may not want: of {TOTP}TOTP the word is typed twice
\* and the code never (prompt.go:391).
TypedAsWritten ==
    /\ conf.typer \in Typers
    /\ typed # <<>>
    => /\ \A i \in DOMAIN typed : Regular(keySeq[i]) =>
             typed[i] = [k \in DOMAIN Asks(keySeq[i]) |->
                            Typed(conf.typer, Asks(keySeq[i])[k])]
       /\ pc = "done" =>
             DOMAIN typed = {i \in DOMAIN keySeq : \A j \in 1..i : ~Malformed(keySeq[j])}

\* The first of an entry's associations that has a sequence, as a set.
FirstGiven(e) ==
    LET given == {i \in DOMAIN e.associations : e.associations[i].sequence # <<>>}
    IN  {i \in given : \A j \in given : i <= j}

\* The sequence of a line is the association's, then the entry's ("Assoc >
\* Configured entry default > appl. default", prompt.go:317).  That of an entry picked
\* from all entries is the entry's, then that of its first association that has one,
\* against the comment (prompt.go:329-341).  If there is none it is BuiltIn, also for
\* an entry with a one-time password, for which prompt.go:293-297 promises a code.
\* The configuration or a menu key may ask for another.
SequencePrecedence ==
    /\ conf.autotypeSequence = <<>> /\ entry # 0
    => /\ /\ pc \in {"prepare", "typing", "typer"}
          /\ ~conf.autotypeNoAuto /\ errPrompt \notin KbCustom
          => \A l \in IF meant # None THEN {meant} ELSE Matches(window) :
                keySeq = IF IsAssociation(l) /\ Association(l).sequence # <<>>
                            THEN Association(l).sequence
                         ELSE IF entries[l[1]].defaultSequence # <<>>
                            THEN entries[l[1]].defaultSequence
                         ELSE BuiltIn
       /\ pc \in {"typing", "typer"} /\ conf.autotypeNoAuto =>
             LET e == EntryAt(entry)
             IN  /\ e.defaultSequence # <<>> => keySeq = e.defaultSequence
                 /\ e.defaultSequence = <<>> =>
                       IF FirstGiven(e) = {}
                          THEN keySeq = BuiltIn
                          ELSE \E i \in FirstGiven(e) : keySeq = e.associations[i].sequence

\* A menu program that a server's own configuration names can be run, custom ones
\* aside (kpmenulib.go:17-40).
ServerPromptsRun ==
    own /\ conf.menu # "custom" => errPrompt \notin NotAsked

\* The dialogue panics in two cases only: a menu key on a text that is no line,
\* and digits of which ten to the power is no int.
NoOtherPanic ==
    pc = "panicked" =>
       \/ errPrompt \in KbCustom /\ todo = <<>> /\ meant = None
       \/ LET digits == Documented(EntryAt(entry).values).digits
          IN  digits < 0 \/ pow(10)[digits] >= HalfInt
=============================================================================
