--------------------------- MODULE ChannelContract ---------------------------
(***************************************************************************)
(* What an SCTP data channel promises its application                      *)
(* (api/data_channel_interface.h, pc/data_channel.h): the life cycle of    *)
(* DataChannelInterface::state(), and what becomes of the messages Send    *)
(* accepted.  accepted and sent count messages; reset says that the        *)
(* closing procedure began, peerClosed that the peer reset its stream,     *)
(* aborted that the channel closed with an error.                          *)
(*                                                                         *)
(* DataChannel implements this module.                                     *)
(***************************************************************************)
EXTENDS Naturals

VARIABLES state, accepted, sent, reset, peerClosed, aborted

vars == <<state, accepted, sent, reset, peerClosed, aborted>>

Init ==
    /\ state = "connecting"
    /\ accepted = 0 /\ sent = 0
    /\ reset = FALSE /\ peerClosed = FALSE /\ aborted = FALSE

Open ==
    /\ state = "connecting"
    /\ state' = "open"
    /\ UNCHANGED <<accepted, sent, reset, peerClosed, aborted>>

(* Only an open channel accepts a message.  It is sent at once if none is  *)
(* waiting.                                                                *)
Accept ==
    /\ state = "open"
    /\ accepted' = accepted + 1
    /\ sent' \in {sent} \cup {n \in {accepted + 1} :
                                  sent = accepted /\ ~peerClosed}
    /\ UNCHANGED <<state, reset, peerClosed, aborted>>

(* Accepted messages are sent, on a closing channel too.  The closing      *)
(* procedure may begin when the last one was sent.                         *)
Transmit ==
    /\ state \in {"open", "closing"} /\ ~reset /\ ~peerClosed
    /\ sent' \in sent + 1 .. accepted
    /\ reset' \in {FALSE, state = "closing" /\ sent' = accepted}
    /\ UNCHANGED <<state, accepted, peerClosed, aborted>>

Close ==
    /\ state # "closed"
    /\ state' = "closing"
    /\ reset' \in {reset, reset \/ sent = accepted}
    /\ UNCHANGED <<accepted, sent, peerClosed, aborted>>

(* The peer closes the channel or answers its closing procedure.           *)
PeerResets ==
    /\ ~peerClosed
    /\ peerClosed' = TRUE
    /\ UNCHANGED <<state, accepted, sent, reset, aborted>>

(* The channel learns that the peer closes it and gives up unsent data.    *)
ClosedByPeer ==
    /\ peerClosed /\ state \in {"connecting", "open"}
    /\ state' = "closing"
    /\ reset' = TRUE
    /\ UNCHANGED <<accepted, sent, peerClosed, aborted>>

Finish ==
    /\ peerClosed /\ state = "closing"
    /\ state' = "closed"
    /\ UNCHANGED <<accepted, sent, reset, peerClosed, aborted>>

(* Any error closes the channel, from any state, even while it accepts or  *)
(* sends messages.                                                         *)
Abort ==
    /\ state # "closed"
    /\ state' = "closed" /\ aborted' = TRUE
    /\ accepted' \in {accepted} \cup {n \in {accepted + 1} : state = "open"}
    /\ sent' \in sent .. accepted
    /\ UNCHANGED <<reset, peerClosed>>

Next == \/ Open \/ Accept \/ Transmit \/ Close
        \/ PeerResets \/ ClosedByPeer \/ Finish \/ Abort

Spec == Init /\ [][Next]_vars

=============================================================================
