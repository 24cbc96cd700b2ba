----------------------------- MODULE MCChatTurns -----------------------------
(* Values for the constants of ChatTurns. *)
EXTENDS ChatTurns

CONSTANTS tab1, tab2, post, k1, k2

(* Two WebSockets and a REST request. *)
MCSessions == {tab1, tab2, post}
MCSockets == {tab1, tab2}

MCConversations == {k1, k2}

(* The tabs switch between the conversations, the request stays in one. *)
MCUsedBy == [s \in MCSessions |-> IF s = post THEN {k1} ELSE MCConversations]

(* One client, one conversation. *)
MCOneUsedBy == [s \in {post} |-> {k1}]
=============================================================================
