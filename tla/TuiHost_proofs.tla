---------------------------- MODULE TuiHost_proofs ----------------------------
(* Proofs about TuiHost for any number of sessions. *)
EXTENDS TuiHost, SequenceTheorems, TLAPS

(* The mode outlives the connection and every list: what is followed stays what
   is in the pane for as long as keys go there. *)
KeysInv == mode = "terminal" => screen = attached

LEMMA KeysInit == TuiInit => KeysInv
BY DEF TuiInit, KeysInv

LEMMA KeysStep == KeysInv /\ [TuiNext]_tuiVars => KeysInv'
<1> SUFFICES ASSUME KeysInv, [TuiNext]_tuiVars PROVE KeysInv'
  OBVIOUS
<1> USE DEF KeysInv
<1>1. CASE \/ CreateSession \/ Disconnect \/ ReconnectKey \/ Leave
           \/ CloseOverlay \/ Submit \/ QuitKey
  BY <1>1 DEF CreateSession, Disconnect, ReconnectKey, Leave, CloseOverlay, Submit,
              QuitKey, paneVars, Navigating
<1>2. ASSUME NEW i \in 1 .. created, DeleteSession(i) \/ ScreenChanged(i) PROVE KeysInv'
  BY <1>2 DEF DeleteSession, ScreenChanged, paneVars
<1>3. ASSUME NEW i \in 1 .. created, NEW kind \in States \cup {"created"},
             DrainEvent(i, kind)
      PROVE  KeysInv'
  BY <1>3 DEF DrainEvent, paneVars
<1>4. CASE Connect
  <2>1. PICK says \in [DOMAIN existing -> States] :
          UpdateSessions([k \in DOMAIN existing |-> Line(existing[k], says[k])])
    BY <1>4 DEF Connect
  <2>2. UNCHANGED paneVars \/ screen' = attached'
    BY <2>1 DEF UpdateSessions
  <2> QED BY <1>4, <2>2 DEF Connect, paneVars
<1>5. CASE Move
  BY <1>5 DEF Move, MoveSelection, Navigating
<1>6. CASE FocusSelected
  BY <1>6 DEF FocusSelected, Focus
<1>7. ASSUME NEW what \in {"form", "details"}, OpenOverlay(what) PROVE KeysInv'
  BY <1>7 DEF OpenOverlay, paneVars
<1>8. CASE UNCHANGED tuiVars
  BY <1>8 DEF tuiVars, paneVars
<1> QED BY <1>1, <1>2, <1>3, <1>4, <1>5, <1>6, <1>7, <1>8 DEF TuiNext

(* Keys go to the session in the pane and to no other, however many sessions
   come and go and whatever events say of them (handle_terminal_key and
   update_sessions in tui/src/main.rs). *)
THEOREM KeysReachThePane == TuiSpec => []KeysGoToScreen
<1>1. KeysInv => KeysGoToScreen
  BY DEF KeysInv, KeysGoToScreen, KeysGoTo
<1> QED BY KeysInit, KeysStep, <1>1, PTL DEF TuiSpec
-----------------------------------------------------------------------------
(* The list.  Only connect puts another in its place; everything else leaves the
   lines where they are, and adds one at the end at most. *)

LineRecords == [id : Nat, state : States]

ListInv ==
  /\ created \in Nat
  /\ existing \in Seq(Nat)
  /\ list \in Seq(LineRecords)
  /\ selected \in Nat \ {0} /\ selected <= LastLine(list)

LinesStay ==
  /\ selected' = selected
  /\ list' \in Seq(LineRecords)
  /\ Len(list) <= Len(list') /\ Len(list') <= Len(list) + 1
  /\ \A k \in DOMAIN list : list'[k].id = list[k].id

Follows ==
  list' # <<>> =>
    /\ selected' \in DOMAIN list'
    /\ SelectedId \in Ids(list') => list'[selected'].id = SelectedId

LEMMA ListInit == TuiInit => ListInv
<1>1. <<>> \in Seq(Nat) /\ <<>> \in Seq(LineRecords)
  BY EmptySeq
<1> QED BY <1>1 DEF TuiInit, ListInv, LastLine

LEMMA LinesFollow ==
  ASSUME ListInv, LinesStay
  PROVE  selected' \in Nat \ {0} /\ selected' <= LastLine(list') /\ Follows
<1>1. /\ Len(list) \in Nat /\ DOMAIN list = 1 .. Len(list)
      /\ list = <<>> <=> Len(list) = 0
  BY LenProperties, EmptySeq DEF ListInv
<1>2. /\ Len(list') \in Nat /\ DOMAIN list' = 1 .. Len(list')
      /\ list' = <<>> <=> Len(list') = 0
  BY LenProperties, EmptySeq DEF LinesStay
<1>3. selected' \in Nat \ {0} /\ selected' <= LastLine(list')
  BY <1>1, <1>2 DEF ListInv, LinesStay, LastLine
<1>4. ASSUME list' # <<>>
      PROVE  /\ selected' \in DOMAIN list'
             /\ SelectedId \in Ids(list') => list'[selected'].id = SelectedId
  <2>1. selected' \in DOMAIN list'
    BY <1>2, <1>3, <1>4 DEF LastLine
  <2>2. CASE list # <<>>
    <3>1. selected \in DOMAIN list
      BY <1>1, <2>2 DEF ListInv, LastLine
    <3> QED BY <2>1, <2>2, <3>1 DEF LinesStay, SelectedId
  <2>3. CASE list = <<>>
    <3>1. selected' = 1 /\ DOMAIN list' = {1}
      BY <1>1, <1>2, <1>4, <2>3 DEF ListInv, LinesStay, LastLine
    <3> QED BY <2>1, <3>1 DEF Ids
  <2> QED BY <2>1, <2>2, <2>3
<1> QED BY <1>3, <1>4 DEF Follows

LEMMA AddedLine ==
  ASSUME ListInv, NEW l \in LineRecords, list' = Append(list, l), selected' = selected
  PROVE  LinesStay
<1>1. /\ Len(list) \in Nat /\ DOMAIN list = 1 .. Len(list)
      /\ list \in Seq(LineRecords)
  BY LenProperties DEF ListInv
<1>2. /\ Append(list, l) \in Seq(LineRecords)
      /\ Len(Append(list, l)) = Len(list) + 1
      /\ \A k \in 1 .. Len(list) : Append(list, l)[k] = list[k]
  BY <1>1, AppendProperties
<1> QED BY <1>1, <1>2 DEF LinesStay

LEMMA SameList ==
  ASSUME ListInv, list' = list, selected' = selected
  PROVE  LinesStay
<1>1. Len(list) \in Nat
  BY LenProperties DEF ListInv
<1> QED BY <1>1 DEF LinesStay, ListInv

LEMMA EventLines ==
  ASSUME ListInv, NEW i \in Nat, NEW kind \in States \cup {"created"},
         ApplyEvent(i, kind), selected' = selected
  PROVE  LinesStay
<1>1. /\ Len(list) \in Nat /\ DOMAIN list = 1 .. Len(list)
      /\ \A k \in DOMAIN list : list[k] \in LineRecords
  BY LenProperties DEF ListInv
<1>2. CASE i \in Ids(list)
  <2> DEFINE at == LineOf(i)
             state == IF kind = "created" THEN "other" ELSE kind
  <2>1. at \in DOMAIN list
    BY <1>2 DEF Ids, LineOf
  <2>2. state \in States
    BY DEF States
  <2>3. list' = [list EXCEPT ![at].state = state]
    BY <1>2 DEF ApplyEvent
  <2> HIDE DEF at, state
  <2>4. /\ list' \in [1 .. Len(list) -> LineRecords]
        /\ \A k \in DOMAIN list : list'[k].id = list[k].id
    BY <1>1, <2>1, <2>2, <2>3 DEF LineRecords
  <2>5. list' \in Seq(LineRecords) /\ Len(list') = Len(list)
    BY <1>1, <2>4, IsASeq, LenProperties
  <2> QED BY <1>1, <2>4, <2>5 DEF LinesStay
<1>3. CASE i \notin Ids(list)
  <2>1. Line(i, "other") \in LineRecords
    BY DEF Line, LineRecords, States
  <2> QED BY <1>3, <2>1, AddedLine, SameList DEF ApplyEvent
<1> QED BY <1>2, <1>3

(* connect: the selection goes after the session it was on. *)
LEMMA NewListFollows ==
  ASSUME ListInv, NEW lines \in Seq(LineRecords), UpdateSessions(lines)
  PROVE  UNCHANGED daemonVars => ListInv' /\ Follows
<1>1. /\ Len(lines) \in Nat /\ DOMAIN lines = 1 .. Len(lines)
      /\ lines = <<>> <=> Len(lines) = 0
  BY LenProperties, EmptySeq
<1>2. list' = lines /\ LastLine(lines) \in Nat \ {0}
  BY <1>1 DEF UpdateSessions, LastLine
<1>3. CASE \E k \in DOMAIN lines : lines[k].id = SelectedId
  <2>1. selected' \in DOMAIN lines /\ lines[selected'].id = SelectedId
    BY <1>3 DEF UpdateSessions
  <2>2. selected' \in Nat \ {0} /\ selected' <= LastLine(list')
    BY <1>1, <1>2, <2>1 DEF LastLine
  <2> QED BY <1>2, <2>1, <2>2 DEF ListInv, Follows, daemonVars
<1>4. CASE ~ \E k \in DOMAIN lines : lines[k].id = SelectedId
  <2>1. selected' = Lesser(selected, LastLine(lines))
    BY <1>4 DEF UpdateSessions
  <2>2. selected' \in Nat \ {0} /\ selected' <= LastLine(list')
    BY <1>2, <2>1 DEF Lesser, ListInv
  <2>3. lines # <<>> => selected' \in DOMAIN lines
    BY <1>1, <1>2, <2>2 DEF LastLine
  <2>4. SelectedId \notin Ids(lines)
    BY <1>4 DEF Ids
  <2> QED BY <1>2, <2>2, <2>3, <2>4 DEF ListInv, Follows, daemonVars
<1> QED BY <1>3, <1>4

LEMMA DaemonRows ==
  ASSUME ListInv
  PROVE  /\ created' = created + 1 /\ existing' = Append(existing, created')
              => created' \in Nat /\ existing' \in Seq(Nat)
         /\ \A i \in Nat : DeleteSession(i) => existing' \in Seq(Nat)
<1>1. ASSUME created' = created + 1, existing' = Append(existing, created')
      PROVE  created' \in Nat /\ existing' \in Seq(Nat)
  <2>1. created' \in Nat /\ existing \in Seq(Nat)
    BY <1>1 DEF ListInv
  <2> QED BY <1>1, <2>1, AppendProperties
<1>2. ASSUME NEW i \in Nat, DeleteSession(i)
      PROVE  existing' \in Seq(Nat)
  <2>1. PICK k \in DOMAIN existing : existing' = RemoveAt(existing, k)
    BY <1>2 DEF DeleteSession
  <2>2. /\ Len(existing) \in Nat /\ DOMAIN existing = 1 .. Len(existing)
        /\ \A j \in 1 .. Len(existing) : existing[j] \in Nat
    BY LenProperties DEF ListInv
  <2>3. k \in Nat /\ k - 1 \in Int /\ k + 1 \in Int /\ k <= Len(existing) /\ k >= 1
    BY <2>2
  <2>4. SubSeq(existing, 1, k - 1) \in Seq(Nat)
    <3>1. \A j \in 1 .. k - 1 : existing[j] \in Nat
      BY <2>2, <2>3
    <3> QED BY <2>3, <3>1, SubSeqProperties
  <2>5. SubSeq(existing, k + 1, Len(existing)) \in Seq(Nat)
    <3>1. \A j \in k + 1 .. Len(existing) : existing[j] \in Nat
      BY <2>2, <2>3
    <3> QED BY <2>2, <2>3, <3>1, SubSeqProperties
  <2> QED BY <2>1, <2>4, <2>5, ConcatProperties DEF RemoveAt
<1> QED BY <1>1, <1>2

LEMMA ListStep == ListInv /\ [TuiNext]_tuiVars => ListInv' /\ (list' # list => Follows)
<1> SUFFICES ASSUME ListInv, [TuiNext]_tuiVars
             PROVE  ListInv' /\ (list' # list => Follows)
  OBVIOUS
<1> USE DEF daemonVars, paneVars
<1>t. /\ created \in Nat /\ existing \in Seq(Nat) /\ list \in Seq(LineRecords)
      /\ selected \in Nat \ {0} /\ selected <= LastLine(list)
  BY DEF ListInv
<1>s. ASSUME LinesStay, created' \in Nat, existing' \in Seq(Nat)
      PROVE  ListInv' /\ Follows
  BY <1>s, LinesFollow DEF ListInv, LinesStay
<1>1. ASSUME UNCHANGED <<list, selected>>, created' \in Nat, existing' \in Seq(Nat)
      PROVE  ListInv' /\ (list' # list => Follows)
  BY <1>1, <1>s, SameList
<1>2. CASE CreateSession
  BY <1>1, <1>2, DaemonRows DEF CreateSession
<1>3. ASSUME NEW i \in 1 .. created, DeleteSession(i)
      PROVE  ListInv' /\ (list' # list => Follows)
  BY <1>1, <1>3, <1>t, DaemonRows DEF DeleteSession
<1>4. ASSUME NEW i \in 1 .. created, ScreenChanged(i)
      PROVE  ListInv' /\ (list' # list => Follows)
  BY <1>1, <1>4, <1>t DEF ScreenChanged
<1>5. ASSUME NEW i \in 1 .. created, NEW kind \in States \cup {"created"},
             DrainEvent(i, kind)
      PROVE  ListInv' /\ (list' # list => Follows)
  <2>1. i \in Nat
    BY <1>t
  <2>2. LinesStay
    BY <1>5, <2>1, EventLines DEF DrainEvent
  <2> QED BY <1>5, <1>s, <1>t, <2>2 DEF DrainEvent
<1>6. CASE Connect
  <2>1. PICK says \in [DOMAIN existing -> States] :
          UpdateSessions([k \in DOMAIN existing |-> Line(existing[k], says[k])])
    BY <1>6 DEF Connect
  <2> DEFINE lines == [k \in DOMAIN existing |-> Line(existing[k], says[k])]
  <2>2. /\ Len(existing) \in Nat /\ DOMAIN existing = 1 .. Len(existing)
        /\ \A k \in DOMAIN existing : existing[k] \in Nat
    BY <1>t, LenProperties
  <2>3. lines \in [1 .. Len(existing) -> LineRecords]
    BY <2>2 DEF Line, LineRecords
  <2>4. lines \in Seq(LineRecords)
    BY <2>2, <2>3
  <2>5. UpdateSessions(lines)
    BY <2>1
  <2> HIDE DEF lines
  <2> QED BY <1>6, <2>4, <2>5, NewListFollows DEF Connect
<1>7. CASE Disconnect \/ Leave \/ ReconnectKey \/ CloseOverlay
  BY <1>1, <1>7, <1>t DEF Disconnect, Leave, ReconnectKey, CloseOverlay
<1>8. CASE Move
  <2>1. PICK k \in {Lesser(selected + 1, LastLine(list)),
                    IF selected = 1 THEN 1 ELSE selected - 1} : MoveSelection(k)
    BY <1>8 DEF Move
  <2>2. LastLine(list) \in Nat
    BY <1>t, LenProperties DEF LastLine
  <2>3. LastLine(list) >= 1
    BY <1>t, <2>2
  <2>4. k \in Nat \ {0} /\ k <= LastLine(list)
    BY <1>t, <2>1, <2>2, <2>3 DEF Lesser
  <2> QED BY <1>t, <2>1, <2>4 DEF MoveSelection, ListInv
<1>9. CASE Submit
  <2>1. created' \in Nat /\ existing' \in Seq(Nat)
    BY <1>9, DaemonRows DEF Submit
  <2>2. Line(created', "running") \in LineRecords
    BY <2>1 DEF Line, LineRecords, States
  <2>3. LinesStay
    BY <1>9, <2>2, AddedLine DEF Submit
  <2> QED BY <1>s, <2>1, <2>3
<1>10. CASE FocusSelected
  BY <1>1, <1>10, <1>t DEF FocusSelected
<1>11. CASE QuitKey
  <2>1. <<>> \in Seq(LineRecords)
    BY EmptySeq
  <2> QED BY <1>11, <1>t, <2>1 DEF QuitKey, ListInv, Follows, LastLine
<1>12. ASSUME NEW what \in {"form", "details"}, OpenOverlay(what)
       PROVE  ListInv' /\ (list' # list => Follows)
  BY <1>1, <1>12, <1>t DEF OpenOverlay
<1>13. CASE UNCHANGED tuiVars
  BY <1>1, <1>13, <1>t DEF tuiVars
<1> QED BY <1>2, <1>3, <1>4, <1>5, <1>6, <1>7, <1>8, <1>9, <1>10, <1>11, <1>12, <1>13
        DEF TuiNext

(* The selection stays on its session while its line is there: update_sessions
   looks for it in the new list, and apply_event and submit_form put new lines at
   the end. *)
THEOREM SelectionIsFollowed == TuiSpec => SelectionFollows
<1>1. ListInv /\ [TuiNext]_tuiVars =>
        [list' # list /\ list' # <<>> =>
           /\ selected' \in DOMAIN list'
           /\ SelectedId \in Ids(list') => list'[selected'].id = SelectedId]_tuiVars
  BY ListStep DEF Follows
<1> QED BY ListInit, ListStep, <1>1, PTL DEF TuiSpec, SelectionFollows
=============================================================================
