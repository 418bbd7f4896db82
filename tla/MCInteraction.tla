---------------------------- MODULE MCInteraction ----------------------------
(* Entries, windows, configurations and sequences for the runs of Interaction. *)
EXTENDS ServedCall

\* A few rows of map.csv.
SomeKeys == [w \in {"TAB", "ENTER", "PLUS"} |->
    CASE w = "TAB"   -> KeyTap("tab", <<>>)
      [] w = "ENTER" -> KeyTap("enter", <<>>)
      [] w = "PLUS"  -> TypeStr(Text("+"))]

\* Sequences: one with a code, one with raw text and commands, one in small
\* letters, one with a special character on its own and a malformed end, one with
\* raw texts that spell its fields.
WithCode   == <<UserName, Field("TAB"), Password, Field("TOTP"), Field("ENTER")>>
WithRaw    == <<Raw("a^c%", FALSE, <<Plain("a"), Alias(<<"ctrl">>, "c"), Alias(<<"alt">>, "")>>),
                Field("PLUS"), Braces("DELAY", TRUE, <<"5">>),
                Braces("DELAY", TRUE, <<"x">>), Braces("VKEY", TRUE, <<"5">>),
                Braces("APPACTIVATE", TRUE, <<"browser">>), Field("Notes"), Password>>
SmallWords == <<Braces("UserName", FALSE, <<>>), Braces("TAB", FALSE, <<>>), Password,
                Field("TOTP"), Braces("TOTP", FALSE, <<>>)>>
Irregular  == <<UserName, Raw("~", TRUE, <<Alias(<<>>, "enter")>>), Password,
                Braces("", TRUE, <<>>), Field("ENTER")>>
\* {TOTP}TOTP{URL}URL
LikeFields == <<Field("TOTP"), Raw("TOTP", TRUE, <<Plain("TOTP")>>),
                Field("URL"), Raw("URL", TRUE, <<Plain("URL")>>)>>

Val(key, content) == [key |-> key, content |-> content]
Assoc(window_, sequence) == [window |-> window_, sequence |-> sequence]
AnEntry(values, sequence, associations) ==
    [values |-> values, defaultSequence |-> sequence, associations |-> associations]

Mail  == AnEntry(<<Val("Title", "mail"), Val("UserName", "ann"), Val("Password", "pw1"),
                   Val("otp", "url2")>>,
                 <<Password>>,
                 <<Assoc("*Inbox*", WithCode), Assoc("", WithRaw), Assoc("*App*", <<>>)>>)
Bank  == AnEntry(<<Val("Title", "bank"), Val("UserName", "bob"), Val("Password", "pw2"),
                   Val("TOTP Seed", "seed"), Val("TOTP Settings", "2;1"), Val("Notes", "n")>>,
                 <<>>, <<Assoc("*Bank*", WithCode)>>)
\* Listed like Bank.
Bank2 == AnEntry(<<Val("Title", "bank"), Val("UserName", "bob"), Val("Password", "pw3")>>,
                 <<>>, <<Assoc("*Bank*", WithCode)>>)
\* A title that is no regular expression; both kinds of settings, the older wrong.
Game  == AnEntry(<<Val("Title", "["), Val("UserName", "sam"), Val("TOTP Settings", "x"),
                   Val("otp", "url2"), Val("TOTP Seed", "seed")>>,
                 <<>>, <<Assoc("*Game*", WithCode)>>)
\* Both kinds of settings.
Moved == AnEntry(<<Val("Title", "mail"), Val("Password", "pw4"), Val("otp", "url2"),
                   Val("TOTP Seed", "seed"), Val("TOTP Settings", "2;1")>>,
                 WithCode, <<>>)
\* Settings beyond machine words.
Wide(settings) ==
    AnEntry(<<Val("Title", "bank"), Val("TOTP Settings", settings), Val("TOTP Seed", "seed")>>,
            WithCode, <<>>)
BadUrl(url) ==
    AnEntry(<<Val("Title", "mail"), Val("UserName", "ann"), Val("otp", url)>>, WithCode, <<>>)
\* A one-time password and no sequence.
Shop  == AnEntry(<<Val("Title", "bank"), Val("UserName", "eve"), Val("Password", "pw5"),
                   Val("otp", "url2")>>, <<>>, <<>>)

SomeDatabases == {<<Mail, Bank>>, <<Bank, Bank2, Game>>, <<Moved, Wide("2;3")>>,
                  <<Wide("2;5"), Shop>>, <<Wide("0;1"), BadUrl("two periods")>>,
                  <<Wide("-2;-1"), BadUrl("no url")>>, <<>>}
OneDatabase   == {<<Mail>>}

SomeMatching == [p \in {"*Inbox*", "*App*", "*Bank*", "*Game*", "mail", "bank"} |->
    CASE p = "*Inbox*" -> {"inbox"}
      [] p = "*App*"   -> {}
      [] p = "*Bank*"  -> {"bank page"}
      [] p = "*Game*"  -> {"inbox"}
      [] p = "mail"    -> {"mail and bank", "bank page"}
      [] p = "bank"    -> {"mail and bank"}]

SomeUrls == [c \in {"url2", "two periods"} |->
    [scheme |-> "otpauth", host |-> "totp", labels |-> 2, others |-> FALSE,
     secret |-> <<"seed2">>, digits |-> <<2>>,
     period |-> IF c = "url2" THEN <<2>> ELSE <<2, 3>>]]

SomeSettings == [c \in {"2;1", "2;3", "2;5", "0;1", "-2;-1"} |->
    CASE c = "2;1"   -> [period |-> 2, digits |-> 1]
      [] c = "2;3"   -> [period |-> 2, digits |-> 3]
      [] c = "2;5"   -> [period |-> 2, digits |-> 5]
      [] c = "0;1"   -> [period |-> 0, digits |-> 1]
      [] c = "-2;-1" -> [period |-> -2, digits |-> -1]]

\* 105 has a zero before its last digit.
SomeHash(secret, message) ==
    CASE message = <<>>  -> 64
      [] message = <<0>> -> IF secret = "seed2" THEN 105 ELSE 37
      [] OTHER           -> IF secret = "seed2" THEN 89 ELSE 118

Plainly == [menu |-> "rofi", database |-> TRUE, customPrompt |-> "",
            clipboardTool |-> "xsel", customClipboard |-> FALSE, autotype |-> TRUE,
            disableAutotype |-> FALSE, autotypeNoAuto |-> FALSE,
            autotypeConfirm |-> FALSE, autotypeSequence |-> <<>>, noOTP |-> FALSE,
            fillOtherFields |-> TRUE, fillBlacklist |-> {"Notes"},
            fieldOrder |-> {"Password", "UserName", "URL"}, customWindowID |-> FALSE,
            typer |-> ""]

Menu     == [Plainly EXCEPT !.autotype = FALSE]
Confirm  == [Plainly EXCEPT !.autotypeConfirm = TRUE, !.customWindowID = TRUE]
NoAuto   == [Plainly EXCEPT !.autotypeNoAuto = TRUE]

SomeServers ==
    {Plainly, Menu, [Menu EXCEPT !.menu = "wofi", !.clipboardTool = "wl-clipboard"],
     [Menu EXCEPT !.menu = "dmenu"], [Menu EXCEPT !.menu = "fzf"],
     [NoAuto EXCEPT !.menu = "custom", !.customPrompt = "bad"],
     [Menu EXCEPT !.clipboardTool = "custom"], [Menu EXCEPT !.database = FALSE]}

SomeClients ==
    {Confirm, NoAuto, [Plainly EXCEPT !.autotypeSequence = LikeFields],
     [Menu EXCEPT !.disableAutotype = TRUE, !.autotype = TRUE, !.noOTP = TRUE],
     [Plainly EXCEPT !.customWindowID = TRUE, !.autotypeSequence = SmallWords, !.typer = "quasiauto"],
     [Plainly EXCEPT !.autotypeSequence = WithRaw, !.typer = "dotool"],
     [NoAuto EXCEPT !.autotypeSequence = Irregular, !.typer = "echo"],
     [Plainly EXCEPT !.noOTP = TRUE, !.typer = "quasiauto"],
     [NoAuto EXCEPT !.menu = "custom", !.customPrompt = "ok"],
     [Menu EXCEPT !.menu = "fzf", !.fillOtherFields = FALSE]}

SomeInstallations == {{"rofi", "dmenu", "xsel", "wl-copy", "custom", "quasiauto"},
                      {"wofi", "xsel", "wl-copy"}, {"rofi", "dmenu", "xsel"}}
FullInstallation  == {{"rofi", "xsel"}}
OnlyPlainly       == {Plainly}
OnlyConfirm       == {Confirm}
=============================================================================
