--------------------------- MODULE TerminalStore ----------------------------
(***************************************************************************)
(* The daemon's terminals (daemon/terminal.rs TerminalStore over           *)
(* terminal/lib.rs TerminalSurface): per session the screen a client is    *)
(* shown, the capture it was built from and what the multiplexer said of   *)
(* the cursor.  One mutex; every operator below is one acquisition.        *)
(*                                                                         *)
(* A text is whatever CapturePane of TmuxBackend returned.  A capture fits *)
(* MAX_OUTPUT_BYTES, the budget of a surface, which reset makes whole.     *)
(***************************************************************************)
CONSTANTS
  Ids,
  Blank        \* the screen of a surface nothing was written to

VARIABLE
  terminals    \* terminals[i]: {} or {[screen, last, pane, size]}

HasTerminal(i) == terminals[i] # {}
TerminalInit == terminals = [i \in Ids |-> {}]

InsertMutant(i, s) ==                \* keeps the capture of the old terminal
  terminals' = [terminals EXCEPT ![i] =
    {[screen |-> Blank, pane |-> {}, size |-> s,
      last |-> IF HasTerminal(i) THEN (CHOOSE e \in @ : TRUE).last ELSE Blank]}]

(* insert: a fresh surface, in place of any old one; the size is valid. *)
Insert(i, s) ==
  terminals' = [terminals EXCEPT ![i] =
    {[screen |-> Blank, last |-> Blank, pane |-> {}, size |-> s]}]

Remove(i) == terminals' = [terminals EXCEPT ![i] = {}]

(* resize keeps what is on the screen. *)
ResizeTerminal(i, s) ==
  terminals' = [terminals EXCEPT ![i] = {[e EXCEPT !.size = s] : e \in @}]

(* set_pane_state: p is {} when the multiplexer could not say. *)
SetPane(i, p) ==
  terminals' = [terminals EXCEPT ![i] =
    IF p = {} THEN @ ELSE {[e EXCEPT !.pane = p] : e \in @}]

(* apply_capture: nothing for the text of the last capture; any other replaces
   the screen. *)
Applied(e, text) ==
  IF e.last = text THEN e ELSE [e EXCEPT !.screen = text, !.last = text]
ApplyCapture(i, text) ==
  terminals' = [terminals EXCEPT ![i] = {Applied(e, text) : e \in @}]
=============================================================================
