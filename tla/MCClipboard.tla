---------------------------- MODULE MCClipboard -----------------------------
(* Configurations of the calls for the runs of Clipboard.  A tool that no  *)
(* configuration may name is the model value None.                         *)
EXTENDS Clipboard

CONSTANTS xsel, wl, pw1, pw2, url

Xsel       == [clipboardTool |-> xsel, clipboardTimeout |-> 2]
ShortXsel  == [Xsel EXCEPT !.clipboardTimeout = 1]
Forever    == [Xsel EXCEPT !.clipboardTimeout = 0]
Wl         == [Xsel EXCEPT !.clipboardTool = wl]
Unknown    == [Xsel EXCEPT !.clipboardTool = None]

OneTool    == {Xsel}
Timeouts   == {Xsel, ShortXsel}
TwoTools   == {Xsel, Wl}
AllConfigs == {Xsel, ShortXsel, Forever, Wl, Unknown}
=============================================================================
