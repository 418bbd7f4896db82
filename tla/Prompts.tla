------------------------------- MODULE Prompts -------------------------------
(***************************************************************************)
(* The menu programs: which one a configuration asks for and whether it    *)
(* can run (validateConfig in kpmenulib/kpmenulib.go, getCommand in        *)
(* kpmenulib/prompt.go), and what running it can tell (executePrompt).     *)
(***************************************************************************)

CONSTANTS
    ServerConfigs,  \* the configurations a server may be started with
    ClientConfigs,  \* those a client's arguments may give
    Installations   \* the sets of programs that may be installed

Configs == ServerConfigs \cup ClientConfigs

\* The fields of a Configuration these modules read; of the commands for custom
\* menus and clipboards only whether they are there ("ok"), missing ("") or not
\* to be parsed ("bad").
IsConfig(cfg) ==
    /\ {"menu", "autotypeSequence"} \subseteq DOMAIN cfg
    /\ cfg.database \in BOOLEAN
    /\ cfg.customPrompt \in {"ok", "bad", ""}
    /\ cfg.customClipboard \in BOOLEAN
    /\ \A option \in {cfg.autotype, cfg.disableAutotype, cfg.autotypeNoAuto,
                      cfg.autotypeConfirm, cfg.noOTP, cfg.fillOtherFields,
                      cfg.customWindowID} : option \in BOOLEAN

ASSUME ConfigAssumption == \A cfg \in Configs : IsConfig(cfg)

-----------------------------------------------------------------------------
\* A menu that is not installed is replaced by dmenu.
MenuOf(cfg, installed) ==
    IF cfg.menu \in {"rofi", "wofi"} /\ cfg.menu \notin installed
       THEN "dmenu" ELSE cfg.menu

\* Mutant of Valid: rofi and wofi are replaced by a dmenu nobody looked for.
ValidUnchecked(cfg, installed) ==
    /\ cfg.database
    /\ cfg.menu \in {"rofi", "wofi", "dmenu", "custom"}
    /\ cfg.menu = "dmenu" => "dmenu" \in installed
    /\ cfg.clipboardTool = "wl-clipboard" => "wl-copy" \in installed
    /\ cfg.clipboardTool = "xsel" => "xsel" \in installed
    /\ cfg.clipboardTool = "custom" => cfg.customClipboard

\* Only a server's own configuration is validated, by NewMenu.
Valid(cfg, installed) ==
    /\ cfg.database
    /\ cfg.menu \in {"rofi", "wofi", "dmenu", "custom"}
    /\ MenuOf(cfg, installed) = "dmenu" => "dmenu" \in installed
    /\ cfg.clipboardTool = "wl-clipboard" => "wl-copy" \in installed
    /\ cfg.clipboardTool = "xsel" => "xsel" \in installed
    /\ cfg.clipboardTool = "custom" => cfg.customClipboard

validateConfig(cfg, installed) == [cfg EXCEPT !.menu = MenuOf(cfg, installed)]

\* getCommand: no command for a menu it does not know.
Command(cfg) ==
    CASE cfg.menu \in {"rofi", "wofi", "dmenu"} -> "ok"
      [] cfg.menu = "custom" -> cfg.customPrompt
      [] OTHER -> ""

KbCustom == {"KbCustom1", "KbCustom2", "KbCustom3", "KbCustom4", "KbCustom5"}

\* An ErrorPrompt by its kind: no error; Cancelled, by the user, for want of a
\* command or because there is no such program (noTyper for that of the typer);
\* Error alone, when the program fails and writes to stderr; one of the custom keys
\* (exit status 10 to 14).
NotAsked     == {"noCommand", "noProgram"}
Cancelled    == {"cancelled", "noTyper"} \cup NotAsked
ErrorPrompts == {"ok", "error"} \cup Cancelled \cup KbCustom

\* The result of a prompt is looked at unless it was cancelled or has an error.
Answered(ep) == ep \notin Cancelled \cup {"error"}

\* Mutant of executePrompt: the exit status after the last menu key is one too.
executePromptSix(cfg, installed) ==
    IF Command(cfg) # "ok" THEN {"noCommand"}
    ELSE IF cfg.menu \notin installed THEN {"noProgram"}
    ELSE {"ok", "error", "cancelled", "KbCustom6"} \cup KbCustom

\* What a run of the menu program of cfg may end with.
executePrompt(cfg, installed) ==
    IF Command(cfg) # "ok" THEN {"noCommand"}
    ELSE IF cfg.menu \notin installed THEN {"noProgram"}
    ELSE {"ok", "error", "cancelled"} \cup KbCustom
=============================================================================
