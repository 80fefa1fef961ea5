---------------------------- MODULE MCNodePoller ----------------------------
(***************************************************************************)
(* NodePoller for TLC: one node whose row admins change while the poll     *)
(* loop runs.                                                              *)
(***************************************************************************)
EXTENDS NodePoller

CONSTANTS n1, u1, u2, p1, p2, admin1, admin2

MCNodeIds == {n1}
MCUrls    == {u1, u2}
MCPins    == {p1, p2}
MCOnePin  == {p1}
MCAdmins  == {admin1, admin2}
MCAdmin   == {admin1}
=============================================================================
