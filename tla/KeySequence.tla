----------------------------- MODULE KeySequence -----------------------------
(***************************************************************************)
(* Key sequences such as {USERNAME}{TAB}a+b~: Sequence.Parse               *)
(* (kpmenulib/sequence.go) and Sequence.Exec with its typers               *)
(* (kpmenulib/exec.go).                                                    *)
(*                                                                         *)
(* A sequence is given as the pieces the regular expression of             *)
(* initKeySeqParser cuts it into: what stands between braces, a word and   *)
(* arguments, and raw text, itself cut into parts by the regular expression*)
(* of Exec.  A word is written in capitals (upper) or not; a raw text is a *)
(* token too, that of the field it spells if it spells one.  A text without*)
(* pieces, such as {}, is not among the sequences.                         *)
(***************************************************************************)
EXTENDS Naturals, Sequences

CONSTANTS
    KeyMap,     \* map.csv: keyword -> the call of the typer it stands for
    Numbers,    \* the arguments that are integers
    Running     \* the applications that have a window

\* A text, or the digits of a one-time password.
Text(t) == [text |-> t, code |-> <<>>]
Code(c) == [text |-> "", code |-> c]
Nothing == Text("")

\* The calls of a Typer.
TypeStr(v)        == [op |-> "type", value |-> v, key |-> "", mods |-> <<>>]
KeyTap(key, mods) == [op |-> "tap", value |-> Nothing, key |-> key, mods |-> mods]
TapEach(mods)     == [op |-> "taps", value |-> Nothing, key |-> "", mods |-> mods]
ActivePID(app)    == [op |-> "activate", value |-> Text(app), key |-> "", mods |-> <<>>]
Delay             == [op |-> "delay", value |-> Nothing, key |-> "", mods |-> <<>>]
NoCall            == [op |-> "none", value |-> Nothing, key |-> "", mods |-> <<>>]

\* Arguments are those of the Commands below; otherwise the word is all there is
\* between the braces, blanks included.
Token(word, upper, args) == [word |-> word, upper |-> upper, args |-> args]

Braces(word, upper, args) ==
    [kind |-> "braces", token |-> Token(word, upper, args), parts |-> <<>>]
Raw(text, upper, parts) ==
    [kind |-> "raw", token |-> Token(text, upper, <<>>), parts |-> parts]

\* The parts of a raw text: plain text; modifiers and, if one follows, the
\* small letter or Enter they apply to.
Plain(t)         == [text |-> t, mods |-> <<>>, key |-> ""]
Alias(mods, key) == [text |-> "", mods |-> mods, key |-> key]

\* A key sequence.
IsKeySequence(pieces) ==
    /\ Len(pieces) \in Nat /\ DOMAIN pieces = 1..Len(pieces)
    /\ \A i \in DOMAIN pieces :
          /\ pieces[i].kind \in {"braces", "raw"}
          /\ pieces[i].token = Token(pieces[i].token.word, pieces[i].token.upper,
                                     pieces[i].token.args)
          /\ pieces[i].token.upper \in BOOLEAN

Commands == {"DELAY", "VKEY", "APPACTIVATE", "BEEP"}

ASSUME KeyAssumption ==
    /\ DOMAIN KeyMap \subseteq STRING \ Commands
    /\ \A w \in DOMAIN KeyMap :
          \/ KeyMap[w] = TypeStr(Text(KeyMap[w].value.text))
          \/ KeyMap[w] = KeyTap(KeyMap[w].key, KeyMap[w].mods)

-----------------------------------------------------------------------------
IsCommand(t) == t.upper /\ t.word \in Commands

IsKeyword(t) == t.upper /\ t.word \in DOMAIN KeyMap

\* A raw text that is one of + ^ % @ ~ and nothing else.
IsSpecial(parts) ==
    \E m \in {"shift", "ctrl", "alt", "cmd"} :
       parts \in {<<Alias(<<m>>, "")>>, <<Alias(<<>>, "enter")>>}

EntryType(p) ==
    CASE p.kind = "raw"                -> IF IsSpecial(p.parts) THEN "SPECIAL" ELSE "RAW"
      [] p.kind = "braces" /\ IsCommand(p.token) -> "COMMAND"
      [] p.kind = "braces" /\ IsKeyword(p.token) -> "KEYWORD"
      [] OTHER                         -> "FIELD"

SeqEntry(p) ==
    LET type == EntryType(p)
    IN  [type  |-> type,
         token |-> IF type = "COMMAND" THEN [p.token EXCEPT !.args = <<>>] ELSE p.token,
         args  |-> IF type = "COMMAND" THEN p.token.args ELSE <<>>,
         parts |-> p.parts]

\* Braces around nothing but blanks.
Malformed(p) == p.kind = "braces" /\ p.token.word = ""

\* Parse stops at the first malformed piece; its caller ignores the error and
\* goes on with what has been parsed.
Parse(pieces) ==
    LET parsed == {i \in 1..Len(pieces) : \A j \in 1..i : ~Malformed(pieces[j])}
    IN  [i \in parsed |-> SeqEntry(pieces[i])]

-----------------------------------------------------------------------------
ToUpper(token) == [token EXCEPT !.upper = TRUE]

\* handleCommand: a command with wrong arguments is logged, as is VKEY; BEEP
\* types nothing.
HandleCommand(word, args) ==
    CASE word = "DELAY" /\ Len(args) = 1 ->
            IF args[1] \in Numbers THEN <<Delay>> ELSE <<>>
      [] word = "APPACTIVATE" /\ args # <<>> ->
            IF args[1] \in Running THEN <<ActivePID(args[1])>> ELSE <<>>
      [] OTHER -> <<>>

\* What Exec does with a part of a raw text.
TypePart(part) ==
    CASE part.text # ""                   -> TypeStr(Text(part.text))
      [] part.text = "" /\ part.key = ""  -> TapEach(part.mods)
      [] OTHER                            -> KeyTap(part.key, part.mods)

\* Mutant of Calls: a keyword is typed as text, by its name.
CallsKeywordAsText(entry, ds) ==
    CASE entry.type \in {"FIELD", "KEYWORD"} ->
            LET key == ToUpper(entry.token)
            IN  <<TypeStr(IF key \in DOMAIN ds THEN ds[key] ELSE Nothing)>>
      [] entry.type = "COMMAND" -> HandleCommand(entry.token.word, entry.args)
      [] entry.type = "RAW"     -> [i \in 1..Len(entry.parts) |-> TypePart(entry.parts[i])]
      [] OTHER                  -> <<>>

\* The calls Exec makes for one entry; ds are the pairs of a token and its value.
Calls(entry, ds) ==
    CASE entry.type = "FIELD" ->
            LET key == ToUpper(entry.token)
            IN  <<TypeStr(IF key \in DOMAIN ds THEN ds[key] ELSE Nothing)>>
      [] entry.type = "KEYWORD" -> <<KeyMap[entry.token.word]>>
      [] entry.type = "COMMAND" -> HandleCommand(entry.token.word, entry.args)
      [] entry.type = "RAW"     -> [i \in 1..Len(entry.parts) |-> TypePart(entry.parts[i])]
      [] OTHER                  -> <<>>

\* What a typer makes of a call.  Dotool drops modifiers and knows no windows;
\* Echo writes texts, line ends and tabs into the answer to the client.
Typed(typer, call) ==
    CASE typer \in {"dotool", "dotoolc"} ->
            IF call.op = "activate" THEN NoCall
            ELSE IF call.op = "tap" THEN [call EXCEPT !.mods = <<>>] ELSE call
      [] typer = "echo" ->
            IF call.op = "type" \/ (call.op = "tap" /\ call.key \in {"enter", "tab"})
               THEN [call EXCEPT !.mods = <<>>] ELSE NoCall
      [] OTHER -> call

Exec(typer, entry, ds) ==
    LET calls == Calls(entry, ds)
    IN  [i \in DOMAIN calls |-> Typed(typer, calls[i])]

-----------------------------------------------------------------------------
\* For reference: what a piece asks for, given the value of its field.
Meaning(p, value) ==
    CASE p.kind = "raw"       -> [i \in 1..Len(p.parts) |-> TypePart(p.parts[i])]
      [] p.kind = "braces" /\ IsCommand(p.token) ->
            HandleCommand(p.token.word, p.token.args)
      [] p.kind = "braces" /\ IsKeyword(p.token) -> <<KeyMap[p.token.word]>>
      [] OTHER                -> <<TypeStr(value)>>

\* The pieces that are typed as they are meant: no special character on its own
\* and no word in small letters.
Regular(p) ==
    /\ ~Malformed(p)
    /\ p.kind = "raw" => ~IsSpecial(p.parts)
    /\ p.kind = "braces" => p.token.upper
=============================================================================
