--------------------------- MODULE MCPushRefresh ---------------------------
(* The kinds, lists and deliveries of push.cpp. *)
EXTENDS PushRefresh

QueueKinds == {"friends", "requests", "invitations"}

\* `inbox' is session::RefreshInvitations, `guest' baas::SyncInvitations.
AllLists == {"friends", "requests", "inbox", "guest"}

Friends      == [kind |-> "friends", lists |-> <<"friends">>]
Requests     == [kind |-> "requests", lists |-> <<"requests">>]
Inbox        == [kind |-> "invitations", lists |-> <<"inbox">>]
Invitations  == [kind |-> "invitations", lists |-> <<"inbox", "guest">>]

\* The handover result, then OnMessage's three conditions.
Frames == {
    <<Friends, Requests, Inbox>>,
    <<Friends>>,
    <<Requests>>,
    <<Friends, Requests>>,
    <<Invitations>>}
=============================================================================
