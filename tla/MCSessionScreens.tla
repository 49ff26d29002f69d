-------------------------- MODULE MCSessionScreens --------------------------
(* An instance of SessionScreens for TLC.  Everything at once is too much to
   enumerate, so each behaviour has a theme, chosen at the start: who types; how
   sizes move; how the screen of one session follows its window; what session 1
   shows when session 10 lives next to it.  Windows open and end, and the daemon
   restarts, under every theme; only session 1 is restarted and deleted. *)
EXTENDS SessionScreens

VARIABLE theme

mcVars == <<vars, theme>>

Capturing == {"capture", "pane", "apply"}
Steps(c) ==
  CASE theme = "typing" -> IF c \in Typists THEN {"send"} ELSE Moving
    [] theme = "sizes" -> LaunchSteps \cup {"resize", "resize_entry"}
    [] theme = "screen" -> IF c \in Typists THEN Capturing ELSE Moving
    [] theme = "neighbours" -> IF c \in Typists THEN {} ELSE Moving

SameText == \A i \in Ids : \A w \in windows[i] : w.text = CHOOSE t \in Texts : TRUE
SameSize == \A i \in Ids : \A w \in windows[i] : w.size = DefaultSize

Within ==
  /\ \A c \in Clients : call[c].pc \in Steps(c) \cup {"idle"}
  /\ \A c \in Clients :
       call[c].pc \in Capturing \cup {"kill", "forget"} => call[c].id = 1
  /\ theme \in {"typing", "sizes"} => poll = PollIdle
  /\ theme = "screen" => used \subseteq {1}
  /\ theme # "sizes" => SameSize
  /\ theme # "screen" => SameText /\ draws = 0

MCNext == Next /\ UNCHANGED theme /\ Within'

MCInit == Init /\ theme \in {"typing", "sizes", "screen", "neighbours"}

MCSpec ==
  /\ MCInit
  /\ [][MCNext]_mcVars
  /\ WF_mcVars(Poll /\ UNCHANGED theme)
=============================================================================
