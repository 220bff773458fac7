---------------------------- MODULE LinkContract ----------------------------
(* What a page may rely on from one of its event streams: it is connected   *)
(* at most once, only while the page is visible, and the connection may     *)
(* break at any time. LiveLink, the code's effect, implements it; BoardChat *)
(* is built on it.                                                          *)
EXTENDS Naturals

VARIABLES
    visible,    \* the tab is visible and focused (usePageActive)
    link        \* "up" while the page holds an open stream

linkVars == <<visible, link>>

LinkInit == visible \in BOOLEAN /\ link = "down"

\* The stream is (re)opened.
LinkUp == visible /\ link = "down" /\ link' = "up" /\ UNCHANGED visible

\* The server, the network or a render that renews the stream ends it.
LinkBreak == link = "up" /\ link' = "down" /\ UNCHANGED visible

\* The tab loses visibility or focus and lets the stream go.
Hide == visible /\ visible' = FALSE /\ link' = "down"

Show == ~visible /\ visible' = TRUE /\ UNCHANGED link

LinkNext == LinkUp \/ LinkBreak \/ Hide \/ Show

LinkSpec == LinkInit /\ [][LinkNext]_linkVars
=============================================================================
