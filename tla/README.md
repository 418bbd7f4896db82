# A TLA+ verification project for kpmenu

kpmenu shows a KeePass database in a dmenu-like menu. One process opens the
database and, for a while or for ever, keeps it in memory for later calls; the
later `kpmenu` processes are its clients. Two things are interesting: the state
this process keeps between calls (which database is open, with which
credentials, until when, what is still in the clipboard, and who finds whom), and
the dialogue of one call, at the end of which something is typed or copied that
the user must have asked for. These modules model both, TLC checks them on small
instances, and TLAPS proves the main results for every instance.

- `src/` in `PROJECT.json` is the repository. Line numbers below refer to it.
- `tlc -config M_run.cfg M` runs a check, `tlapm XProofs.tla` a proof.

## 1. Inventory

| Component | Source | State | Operations | What makes it correct |
|---|---|---|---|---|
| Database | `database.go`, `Menu.OpenDatabase` in `menu.go` | `Loaded`, `Keepass` (credentials, content), `Entries` | open (decode for the header, ask, credentials, decode, unlock, iterate), reload | loaded only with credentials that open what is listed; what is listed is decrypted |
| Menu server | `main.go`, `clientserver.go`, `menu.go` | `Configuration`, `CacheStart`, the listener's deadline, the call in progress | Execute, Show, OpenMenu, entrySelection, the listener loop, the reload goroutine | no use without the password outside the lease; the lease ends; a daemon does not end; calls are answered |
| Clipboard | `clipboard.go`, `main.go:48-52` | the clipboards, pending goroutines, `WaitGroup` | copy, sleep, compare, clean, wait | a value leaves the clipboard, after its time, and nothing else does; `main` waits |
| Discovery | `clientserver.go:22-44, 97-112, 177-200` | `server.port`, the listeners and their backlogs | read the port, dial, wait five seconds, become a server | one server; it can be found; nobody hangs |
| Prompts | `prompt.go:37-280, 416-521`, `kpmenulib.go` | how the last prompt ended | validate the configuration, list items, run the menu program, match its answer | the item chosen, or one that looks the same, is the item used; a cancel ends the dialogue; a validated menu can be run |
| Autotype | `prompt.go:282-414, 523-637` | the entry and sequence settled on, the pairs, what has been typed | find the entry of the active window, choose the key sequence, make the code, type | no entry is typed that the user has not agreed to; the sequence is the one the line stands for; no name and password without the code |
| Key sequences | `sequence.go`, `exec.go` | none | parse, type | what is parsed is typed, in order |
| One-time passwords | `otp.go` | none | read the settings, compute the code | the code of RFC 6238 for the settings that count, or an error |
| Configuration | `config.go`, `kpmenulib.go` | `Configuration` | parse flags, load, validate | a configuration in force is one that works |

How they interact: `main` tries to be a client (Discovery) and otherwise runs
the menu server. The server calls Database and the prompts, hands a value to
Clipboard or Autotype, and then waits for clients. Every client brings a
complete `Configuration`, which replaces the server's (`clientserver.go:72`).
Two kinds of goroutines run beside the server and read `menu.Configuration` and
`menu.Database` without a lock: clipboard cleaners, and, in daemon mode, a
reload after each call (`menu.go:51-56`).

What is hard here: the configuration that changes under everything, the
goroutines, the clock (a lease renewed by use, a deadline on a socket, a
client's own deadline, clipboard timeouts), half-failed opens, a file that
outlives the process that wrote it, the many ways a prompt can end, two branches
of `PromptAutotype` written apart, and arithmetic on numbers a user's entry
holds. `PROJECT.json` lists these hazards line by
line with the properties that watch them.

## 2. Modules

| Module | Models | Proofs |
|---|---|---|
| `Database` | the database in memory and each thread's progress through `Menu.OpenDatabase` | with `MenuServer` |
| `MenuServer` (extends `Database`) | the process that serves: foreground thread, calls, cache lease, reload goroutines, clock | `MenuServerProofs` |
| `CachePromise` | abstract: when a call finds the database open, and what opens it otherwise | `MenuServer` implements it |
| `Clipboard` | copies, cleaners, the `WaitGroup`, the user's own copies | `ClipboardProofs` |
| `Discovery` | several processes, the port file, the client's deadline | `DiscoveryProofs` |
| `Prompts` | which menu program runs, whether it can, how it can end; `validateConfig` | with `Interaction` |
| `KeySequence` | `Sequence.Parse`, `Exec`, `handleCommand`, the typers | with `Interaction` |
| `OneTimePassword` | `CreateOTPAuth`, `parseOTPAuth`, `Create`, `pow` | `OneTimePasswordProofs` |
| `Interaction` (extends the three) | one call's dialogue with its user, from the open database to the last key | `InteractionProofs` |
| `ServedCall` (extends `Interaction`) | the same dialogue as `MenuServer` sees it: a refinement mapping | `ServedCallProofs` |
| `MCMenuServer`, `MCClipboard`, `MCInteraction` | configurations for TLC | |

`MenuServer` and `Interaction` share a boundary: `MenuServer` holds what happens to
the database and between calls, and takes the outcome of a dialogue as a choice
(`MatchEntries`, `TypeEntry`, `PromptEntries`, `PromptFields`, with a panic among
its faults); `Interaction` starts at the point where `Execute` has the database
open and says which outcomes there are and why. `ServedCall` makes that precise: it
instantiates `MenuServer` with what the server knows of a call in progress (where it
is, whether the entries have been listed, whether something has been handed out) and
states that every step of the dialogue is a step `MenuServer` allows there, or none it
sees. The clock of `MenuServer` is then one ahead, since a call does not begin at its
`ZeroTime`; "Reload" is a step the server does not see here, because `Interaction` asks
again only when the database has been opened again.

### Database and MenuServer

`loaded`, `creds`, `keepass`, `entries` are the fields of `Database`. A content
tree has an identity (a member of `Trees`), because a decode allocates a new
one while `Entries` and an entry the user has picked keep pointing into the old
one; `tree` says which database a tree holds and whether its protected values
have been decrypted. Four trees suffice: at most three are referred to at once.
`opener[t]` is thread `t`'s place in `Menu.OpenDatabase`; each of its steps reads
the configuration in force at that moment, as the code does through the pointer.

`pc` is the foreground thread's place in `StartServer`, `setupListener`,
`Execute` or `OpenMenu`, `caller` the function `Execute` returns to, `conf` is
`Menu.Configuration` and `own` what `main` loaded. `cacheStart` and `deadline`
are `Menu.CacheStart` and the listener's deadline. Each action is a handler or
the code between two points where another thread, a user, a client or the clock
can act. Time passes only while the foreground thread waits for one of these
(`Blocked`); the code in between takes no time.

Abstractions. A password, key file, challenge or database is a model value, and
`OpenedBy` says which credentials open which database. A menu program may
return any of the answers the code distinguishes. Reads that fail (key file,
challenge command, the database file) are nondeterministic. `Decode` is one
step: two decoders writing parts of one header and one content at the same time
are not modelled. Decrypting a tree twice may leave it readable or not. The
options named by a client are taken to reach the fields of `Configuration`;
flag lookup is claptrap's, an external library. The properties speak of the
moment a call is taken up: a user may leave a menu open past the lease.

`CachePromise` is the abstract specification: between calls the database is kept; a
call finds it open exactly if it allows the cache and comes within its own timeout of
the start of the lease, and then renews the lease unless it asks for the cache one time
only; otherwise the database is locked. The lease starts with the process and opening
the database does not renew it. A locked database is unlocked by the password given to
the call, by a key alone, or by a password that has opened it before, which the process
remembers for a user who gives none (`Reopen`, `database.go:41-54`): that is less than
a user of `--nocache` may expect, and run `nocache` shows the disagreement. The mapping
(`Phase`, `KnownPassword`) takes the phase from `pc` and `loaded` (the database counts as
kept until `Show` has looked at the lease), the lease from `cacheStart`, the call from
`conf`, and the password from the opening in progress or else from the credentials.

History variables: `lastUse` (when `Execute` last opened the database or found
it open in a call
that renews the lease), `value` (the content from which the user was given a field).

### Clipboard

The server is reduced to what matters for cleaners: it is in a call, listens,
waits for the `WaitGroup`, or is gone; a client's call replaces `conf`. Each tool
(`xsel`, `wl-copy`, a custom one) has a clipboard that holds one text. A cleaner
sleeps for `left` units, compares, cleans; the configuration is read anew at
each of these steps, as in the code. Sleeping is relative (`Tick` counts every
`left` down), so the module needs no bound on time. `failed` is history: a program
run by a cleaner has failed. `Cleaners` bounds how many cleaners are pending at
once.

### Discovery

A port is named by the process that listens on it; `Stale` is the port of an
earlier session. `calm` describes the user, who is one kind or the other for a
whole behaviour: a calm user starts no `kpmenu` while another is busy, and ends
every call within the client's five seconds (`clientserver.go:38`). Connections wait in `backlog` while
the server is in a menu; a client that has given up leaves its packet there and
the server still serves it.

### Interaction, Prompts, KeySequence, OneTimePassword

`pc` is the place in `OpenMenu` (`menu`, `entries`, `fields`) or `PromptAutotype`
(`window`, `choose`, `entry`, then `prepare`, `typing` or `typer`); `entry`, `keySeq`,
`todo`, `rvp`, `input` are the variables of `PromptAutotype` (`entry`, `keySeq`,
`seq.SeqEntries`, `rvp`, `input`), 0 standing for the empty `Entry` that the code returns
by address; `window` is `activeWindow`; `typed` are the calls of the `Typer`, one
sequence of calls for each piece; the ways the call ends are told apart as the server
tells them (`exited` with "Exit", which is fatal, `left` from the menu, `done` later); `value` is what goes to the clipboard. Each
action is a prompt with all the code up to the next one, or the typing of one
piece. `errPrompt` is the `ErrorPrompt` by its kind: an answer, an error on stderr,
a cancel, no program to run, or one of the five menu keys (`prompt.go:448-458`),
which end the menu program with a status of their own and its answer on stdout.

A line of `identifyWindow` is a pair of an entry and one of its patterns, so that
lines that look the same in the menu stay apart: `Alike`, `SameText`, `Taken` and
`TakenLine` say which one the code takes for an answer. Regular expressions are
given by `Matching`, the set of titles each matches; those that do not compile are
not in its domain. A sequence is given as the pieces the parser's regular
expression cuts it into, with their parts; a word has its case as a flag, because
`Exec` looks fields up in capitals (`exec.go:61`) and `PromptAutotype` stores them
as written (`prompt.go:389`). A raw text is a token too: `rvp` holds it as its own value
(`prompt.go:391`), where it may overwrite the field it spells (`Overwritten`); `input`,
which another typer gets, holds fields only. In `OneTimePassword` a URL is given by its parts,
`Hash` is the 31 bits taken from the HMAC (the offset included), and
`HalfWord`, `HalfInt` scale the machine words down: `WidthAssumption` says that the
smaller is a power of two and the larger not more than its double square, as 2^31 and
2^63 are. `pow` is a recursive function of the exponent, where the code rounds a
floating-point power; the two agree for the powers of ten that fit an int32, and above
that only whether it is beyond an int counts.

History variables: `meant` (the line the user picked last) and `settled` (when the
entry was settled).

What a program other than the three typers does with the sequence and the pairs
it reads is not the repository's; `ExternalTyper` lets it type any part of them as
`Parse` of `exec.go` reads them back. Values with line ends, which would break that
format, are left out.

## 3. Runs

| Run | Bounds | Shows |
|---|---|---|
| `server` | 2 databases (one with key file and challenge-response), 2 passwords, timeouts 2 and 3, eight kinds of clients, time 4..10, calls until 7, all faults | `TypeOK`, `LeaseRespected`, `WaitBounded`, `LoadedIsProven`, `SelectedIsReadable`; implements `CachePromise` (`KeepsPromise`); `CallAnswered`, `ServerStops` |
| `daemon` | a foreground thread and one reload thread | `PermanentDaemon`, `ReloadsEnd` |
| `cleaners` | 2 cleaners, 2 secrets, 2 tools and an unknown one, timeouts 0..2, faults | `TypeOK`, `ExitWaits`, `SecretsRemovedIfUndisturbed`, `SecretsStayWatched` |
| `starts` | 3 processes, calm or not | `TypeOK`, `OneServer`, `ServerIsFound`, `StartSettles` |
| `calls` | 7 databases of up to three entries, 8 server and 10 client configurations, 3 installations, 3 windows, time 0..2, words of 8 and 16 bits | `TypeOK`, `OnlyAgreedEntry`, `NothingAfterCancel`, `CodeOrNothing`, `CodeIsRight`, `TypedAsWritten`, `SequencePrecedence`, `ServerPromptsRun`, `NoOtherPanic`; implements a call of `MenuServer` (`ServedAsPromised`) |

`SecretsRemovedIfUndisturbed` names what the code needs for a value to leave the
clipboard: calls that all name one tool and a timeout, no failing program, no
abort. Cleaners may still meet in any order, with different timeouts, with the
same text twice and with the user's own copies. Without the condition on the
tool it fails (`othertool`); without the others a program that fails, a timeout of
zero or `log.Fatalf` (`main.go:43-48`, which does not wait for cleaners) leaves the
value there. `SecretsStayWatched` is its safety half, a step at a time: under those
conditions no step leaves a value in the clipboard without a cleaner that looks for it.

`OneServer` and `ServerIsFound` speak of a calm user. For another user a call of
more than five seconds, or a start while the first instance asks for its
password, makes a second server, which hides the first by overwriting the file.

What the properties of `calls` leave out is what the code does otherwise than one
might expect, named in the property:

- `OnlyAgreedEntry` accepts an entry that looks like the one picked
  (`prompt.go:161`), and the empty entry, which has nothing to give.
- `SequencePrecedence` says which sequence each of the two branches takes, the default
  of the program included; two comments say otherwise (below). It leaves out
  `autotypeSequence`, which goes before the sequence shown on the line the user picked
  (`prompt.go:632`).
- `TypedAsWritten` says that a field that a raw text overwrites is typed as that text,
  and what follows a malformed piece not at all, because the error of `Parse` is ignored
  (`prompt.go:361`). It leaves out the pieces that are not `Regular`: a word in small
  letters is typed as an empty field (the example in the comment `prompt.go:295` is
  written so), and one of `+ ^ % @ ~` alone is dropped (`exec.go:120`).
- `CodeOrNothing` says of a code that it has been made, and that the typer finds it
  unless a raw text overwrites it.
- `CodeIsRight` is about settings whose arithmetic stays within machine words
  (`Ordinary`): with ten digits or more the modulus is truncated (`otp.go:94`). They
  have a period, too: with a period of zero (`TOTP Settings` of `0;6`, or `period=0` in
  the URL) `getMessage` returns the same text at every instant (`otp.go:108`) and the code
  never changes. That is the symptom of the FIXME in `otp.go:20` ("Always 723500. Maybe
  period is wrong?"); for settings with a period the model has no such code, because
  `CodeIsRight` compares each with RFC 6238.
- `NoOtherPanic` names the two panics there are: a menu key on a text that is no
  line (`prompt.go:610`), and digits of which ten to the power is cut to zero.
- `ServerPromptsRun` is about a server's own configuration and the menus the
  program knows: a client's is never validated, nor is a custom command.

Why these bounds are enough. In `calls` the databases hold every case the code
tells apart: entries that look the same, associations without a window or without a
sequence, a title that is no regular expression, both kinds of one-time password
settings in both orders, malformed ones, a period of zero and a negative one,
digits that give zero, a truncated modulus and one beyond an int; windows that
match no line, one, several lines of one entry and of two. Sequences hold fields,
keywords, all commands, raw text with modifiers, small letters, a special character
alone, a malformed end and raw texts that spell fields. Words of 8 and 16 bits are passed by ten to the power of
three and five, as the program's are by that of ten and nineteen. Three instants with
a period of two give a code before and after its step, and time between the moment
an entry is settled and the last key. The lease compares two times with one timeout:
with timeouts of 2 and 3, six ticks after the start and calls in the first three of
them (after which the longest lease still ends before the clock stops) there are
calls before, at and after the end of a lease, renewals of a renewed lease, and
clients whose timeout is shorter or longer than the server's. `StartTime` exceeds
`MaxTimeout`, so that the zero `CacheStart` of a process started without a cache
lies before any lease, as `time.Time{}` does. Two databases with different
credentials make every mixture of a client's and the server's options occur.
One reload thread suffices for the races with the foreground; the proofs do not
bound them. `MaxTime`, `LastCall`, `Threads`, `Cleaners`, `Processes` are bounds,
named as such where they are declared. `CHECK_DEADLOCK FALSE` everywhere: the
process may end, a user may stop, and the clock stops at `MaxTime`.

### Fairness

- `MenuServer`: the foreground thread goes on (weak fairness of `MainStep`): menu
  programs return, timers fire. The user does not pick "Reload" for ever (strong
  fairness of the other choices of the menu): nothing in the code limits it, so
  `CallAnswered` needs it. Reload goroutines are scheduled (weak). Time goes on
  (strong, because `Tick` is disabled at instantaneous steps). Clients need not
  call.
- `Clipboard`: runnable goroutines run and time goes on (weak). Users, clients
  and the end of the server are not fair.
- `Discovery`: clients are fair, their five seconds included. Servers are not,
  their user may never answer, except that a calm user does.

### Disagreements with the documentation

Each is a run with `expect: violation` and a finding that quotes the line.

- `daemonflag`: a client without `--daemon` ends a permanent daemon. Its configuration
  makes `Show` look at a lease the daemon never started, the database is locked, and an
  error of the password prompt is then fatal (`clientserver.go:160`).
- `otherfile`: `Show` compares the database configuration with a copy of itself;
  a client that names another database is served from the old one.
- `nocache`: with `--nocache` an empty password keeps the old credentials.
- `reloadrace`: a daemon's reload lets the next call list and hand out values
  that are still encrypted.
- `othertool`: a cleaner looks in the clipboard of the tool the latest client
  named.
- `usertext`: a text copied between the comparison and the clean is removed.
- `unconfirmed`: when the command that tells the window fails with a message,
  `identifyWindow` returns an empty `Entry` that is not nil; TAB and ENTER are pressed
  although `--autotypeConfirm` was given. (With `autotypeNoAuto` an error, or a text that
  is no entry, does the same: `prompt.go:311, 322`.)

Three more are not runs of their own: the properties of `calls` state what the code does,
and the theorems that they hold show the disagreement for every sequence and entry.

- `TypedAsWritten`: a raw text that spells a field in capitals and comes after it
  overwrites its value in the pairs (`prompt.go:391`), so `{URL}URL` is typed `URLURL`,
  and `{TOTP}TOTP` without the code. `sequence.go:10` calls it a field name.
- `SequencePrecedence`: with `autotypeNoAuto` the entry's own sequence goes before those
  of its associations (`prompt.go:329-341`); the comment at `prompt.go:316-317` gives the
  other order.
- `SequencePrecedence`: the default of the program is `{USERNAME}{TAB}{PASSWORD}{ENTER}`
  in both places (`prompt.go:353, 546`), also for an entry with a one-time password that
  is not disabled, for which the comment at `prompt.go:293-297` promises `{totp}`.

## 4. Proofs

Assumptions on constants: `DatabaseAssumption`, `TreesAssumption`,
`ServerAssumption`, `ClipboardAssumption`, `DiscoveryAssumption`,
`ConfigAssumption`, `KeyAssumption` (a key word stands for a text or a tap of a key, as
in the table `map.csv`), `OtpAssumption`, `WidthAssumption`, `InteractionAssumption`; TLC
evaluates them in the runs. `ServedCall` gives the constants of `MenuServer` values; its
proof uses none of the assumptions of `MenuServer`.

`MenuServerProofs` (any databases, credentials, configurations, threads):

- `TypeCorrect` and `WaitIsBounded` need nothing else. `WaitBounded` is not
  inductive: that `deadline` is within a timeout of the last use rests on
  `cacheStart <= lastUse` once a call has been served, and on the foreground
  being in a call whenever it is not (`LeaseInv`).
- `LeaseIsRespected`, `LoadedDatabaseIsProven`, `SelectedValueIsReadable`,
  `PromiseIsKept` assume `NoDaemon`: no configuration asks for daemon mode, so
  that no reload runs beside the foreground (`MainAloneInv`, proved from it). They
  rest on `DatabaseInv`, which follows the trees and credentials through the
  steps of `OpenDatabase`: between the decode and the mark the credentials open
  the tree decoded (`OpeningInv`), and a tree the entries or the user refer to
  is not the one being decrypted (`ReadableInv`). `PromiseIsKept` shows that
  each step is a step of `CachePromise` or a stutter. It needs that a call
  in the menu or beyond has the database loaded (`PromiseInv`), that the password of an
  opening is the one in the credentials once these have been made (`PasswordInv`), and
  that a step of `OpenDatabase` changes neither while the database is loaded
  (`OpenDatabasePassword`).
  With daemons `SelectedIsReadable` fails (run
  `reloadrace`).
- `GivenPasswordIsUsed` assumes `NoDaemon` and that nobody leaves a password empty: a call
  that opens the database has then been given a password in it. Run `nocache` shows what
  an empty one does.
- `OneDatabaseIsServed` assumes that the server and its clients name one database, and
  nothing else: daemons and any number of reloads are included. Every tree then holds
  that database or nothing (`OnlyFrom`). Run `otherfile` shows what a second database
  does.
- `DaemonIsPermanent` assumes `AllDaemons`: no fault, and every client in daemon
  mode. Run `daemonflag` shows that the second is needed.

`ClipboardProofs` (any number of cleaners, tools, configurations):
`MainWaitsForCleaners` needs that the counter of the `WaitGroup` is the number
of pending cleaners (`CountInv`); `ClipboardTypeCorrect` gives that it never
falls below zero, which would be a panic. `SecretsAreWatched`: whatever a step
does to the cleaners, one that looks for the text in the clipboard of the tool
in use goes on looking for it (`WatchersStay`), unless that step is the one that
removes the text; `UndisturbedSecretsAreWatched` is the invariant that follows
while nothing disturbs. `UserTextIsKept` assumes one tool and a user who copies
nothing between a cleaner's look and its clean; what such a cleaner is about to
remove is then never the user's (`MatchedInv`).

`DiscoveryProofs` (any number of processes): `OnlyOneServer` and
`ServerCanBeFound`. The invariant of a calm user's processes (`CalmInv`): at most
one process is looking for a server or about to be one (`OneIsBusy`), what it
read is still what the file says (`TargetIsCurrent`), and who becomes a server
found nobody listening (`NobodyListens`). `DiscoveryTypeCorrect` holds for any user;
that a server serves a call exactly when it has a client needs that no process is
its own client (`CallsAnother`).

`InteractionProofs` (any databases, configurations, sequences of any length,
windows, hash function and word widths):

- `InteractionTypeCorrect` rests on `SequenceInv`: sequences are well-formed, what is
  parsed is a prefix of one, nothing is typed before it is prepared.
- `EntryIsAgreed` rests on `AgreedInv`: no entry is settled while the user is asked;
  then it is that of the line picked, or the only one that matches. `PrecedenceIsKept`
  carries the sequence from there through `Prepare`: that of a line (`LineInv`), which is
  never empty, and that of an entry picked from all of them (`ListInv`), which may be.
- `CodeOrNothingTyped` and `TypedIsWritten` rest on `PreparedInv`: the pairs and the
  input are those of the parsed sequence and the entry, a code that is asked for is there,
  and the calls so far are those of `Exec`. `CodesHaveDigits` says what `Create` returns,
  `CallsMean` that parser, pairs and `Exec` agree on a piece, a field that a raw text
  overwrites included.
- `CodesAreRight` rests on `CodeInv`, which follows a code from where it is made to where
  it goes: no time passes between settling and preparing, a typer is called with what
  the pairs or the input hold (`CallsOfPairs`, `ReceivedIsStored`), and that has no code or
  was made for the instant at which the entry was settled. That it is then the code of
  RFC 6238 is `CodeByRFC`.
- `PanicsAreKnown` rests on the same invariants and `PanicNeedsDigits`.
- `ConfirmedFromTheLines` confines the finding of `unconfirmed`: it assumes that no
  configuration combines `autotypeConfirm` with a command for the window or with
  `autotypeNoAuto`, and shows that the user then always picks a line first. Without
  either half of the assumption TLC finds a way around the confirmation.
- `CancelIsFinal` and `ServerPromptsAreRun`: a cancelled prompt ends the dialogue; the
  menu validated is installed.

`OneTimePasswordProofs` (any secret, time, hash and width of words): `CodeByRFC`, that the
arithmetic of `Create` on truncated words gives the decimal of RFC 6238, and
`PanicNeedsDigits`, that the truncated modulus is zero for no power of ten that is an int.
Both need what `pow` computes, for every exponent. The prover has no induction over a
formula, so it is done over sets: the order of the natural numbers is well-founded, hence
a set of them has a least element (`LeastElement`), hence one that contains 0 and is
closed under the successor is all of them (`Induction`). Applied to the exponents up to
which there is a function with the equations of `pow` (`PowUpTo`) it gives that `pow`
itself has them (`PowEquations`), and from there the facts about powers of ten and of
two. The modulus is not zero (`ModulusNotZero`) because ten to the power of n is two to
the n times an odd number: a word that divides it has no more than n bits, and then the
power is beyond an int already.

`ServedCallProofs` (any databases, configurations, windows, answers): `CallIsServed`, that
`Interaction` implements the call of `MenuServer`. There is a lemma for each place of the
dialogue, from `TypeOK`, `SequenceInv` and `CodeInv` (nothing is typed or handed out
before it ends) and from the fact that no time has passed when `Execute` goes on; the
start satisfies the type invariant of `MenuServer`.

Only model-checked: the liveness properties (`CallAnswered`, `ServerStops`,
`ReloadsEnd`, `SecretsRemovedIfUndisturbed`, `StartSettles`), since liveness under
fairness is beyond the prover's reach. Of each property that a run finds violated it is
proved how far it holds, under an assumption that excludes the finding:

| Run | Property | Holds if | Theorem |
|---|---|---|---|
| `daemonflag` | `PermanentDaemon` | every client is in daemon mode, no fault | `DaemonIsPermanent` |
| `otherfile` | `ServedDatabaseIsConfigured` | all configurations name one database | `OneDatabaseIsServed` |
| `nocache` | `NoCacheAsksPassword` | no daemons, no password is left empty | `GivenPasswordIsUsed` |
| `reloadrace` | `SelectedIsReadable` | no daemons | `SelectedValueIsReadable` |
| `othertool` | `SecretsRemoved`, safety half | calls name one tool and a timeout, programs work | `UndisturbedSecretsAreWatched` |
| `usertext` | `UserTextStays` | calls name one tool, no copy between look and clean | `UserTextIsKept` |
| `unconfirmed` | `AlwaysConfirmed` | no command for the window, no `autotypeNoAuto`, with `autotypeConfirm` | `ConfirmedFromTheLines` |

These assumptions are about users and configurations, not about the code; each can be met,
and the code does not see to it.

## 5. Not modelled

- The KDBX format, cryptography and gokeepasslib's own state; concurrent writes
  inside one decode.
- Flag and file parsing: claptrap's and clapconf's, external libraries.
- The text of the prompts: styles, arguments of the menu programs, `formatEntry`
  other than the default, quoting of custom commands. An entry's keys are taken to
  differ in more than their case; a sequence without a piece, such as `{}`, is not
  among the sequences.
- HMAC, base32 and URL syntax; a title's meaning as a regular expression.
- The focus of the windows: it may move between the look at the title and the keys.
- How long keys take (`Keylag`, `DELAY`); the beep.
- Goroutines and connections that leak in `setupListener` (a packet that arrives
  after the three seconds): they have no effect a property could see.

## 6. Plan

Done: every module of section 2. Every invariant that a passing run checks is proved, and
so are the action properties and both refinements (`PromiseIsKept`, `CallIsServed`).

What could follow:

1. Daemons with one reload: which of the properties of `server` survive, and a
   proof of those.
2. `Clipboard` and `Interaction` composed: the value a field gives followed into the
   clipboard and out of it, under one clock.
3. The foreground of `Clipboard` (in a call, listening, waiting, gone) as `MenuServer` has
   it: a mapping like that of `ServedCall`.
4. An abstract clipboard (a value leaves after its time, nothing else does) and
   `Clipboard` as its implementation.
5. `reloadrace` with the writes of one decode interleaved.
