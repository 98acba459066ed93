-------------------------------- MODULE MCWeb --------------------------------
(***************************************************************************)
(* What shows the state of the player: the pages of the web interface, the *)
(* tree of its library pages, and the panel on the USB port. They have     *)
(* nothing in common but the events; a behaviour is of one of them.        *)
(***************************************************************************)
EXTENDS WebLink, LibraryTree, FrontPanel, TLC

VARIABLE part
allVars == <<part, vars, pageVars, panelVars>>

MCShelf ==
  [Files   |-> <<>> :> {<<"a">>, <<"b">>} @@ <<"a">> :> {<<"x">>, <<"s">>}
               @@ <<"a", "x">> :> {<<"t">>} @@ <<"b">> :> {<<"u">>},
   Artists |-> <<>> :> {<<"A">>, <<"B">>} @@ <<"A">> :> {<<"L">>} @@ <<"L">> :> {<<"s">>}
               @@ <<"B">> :> {<<"M">>} @@ <<"M">> :> {<<"t">>}]
MCHits == [Files |-> {<<"a", "x">>, <<"u">>}, Artists |-> {<<"B">>}]

WebInit ==
  /\ Init /\ PageInit /\ PanelInit
  /\ \/ part = "link" /\ kind = "Files" /\ plugged
     \/ part = "tree" /\ plugged
     \/ part = "panel" /\ kind = "Files"

LinkStep(A)  == part = "link" /\ A /\ UNCHANGED <<part, pageVars, panelVars>>
TreeStep(A)  == part = "tree" /\ A /\ UNCHANGED <<part, vars, panelVars>>
PanelStep(A) == part = "panel" /\ A /\ UNCHANGED <<part, vars, pageVars>>

WebNext == LinkStep(Next) \/ TreeStep(PageNext) \/ PanelStep(PanelNext)

\* A panel that is there can be opened.
WebSpec ==
  /\ WebInit /\ [][WebNext]_allVars
  /\ WF_allVars(LinkStep(Progress)) /\ WF_allVars(LinkStep(HandleUser))
  /\ WF_allVars(LinkStep(HandleSystem))
  /\ \A c \in Client : WF_allVars(LinkStep(Serve(c)))
  /\ \A c \in Wireless : WF_allVars(LinkStep(Open(c)))
  /\ WF_allVars(PanelStep(ConnectionLost \/ Reconnect \/ Replay))

\* A browser that lost the server, and a panel that was unplugged, are connected
\* again, and the browser comes to show that a song plays.
Reconnects == (part = "link" => Recovers) /\ (part = "panel" => PanelReturns)
=============================================================================
